--------------------------- MODULE SchedulerLoop ---------------------------
(***************************************************************************)
(* selectScheduled as the code computes it: candidates sorted by sender    *)
(* and id, one pass that closes a channel when the sender changes, and a   *)
(* running best.  A queue of arrivals and services drives it so that every *)
(* candidate set of the bounds is reached.                                 *)
(***************************************************************************)
EXTENDS Scheduler

CONSTANTS Senders,     \* numbers: the code sorts channels by sender name
          MaxArrivals  \* how many messages arrive in a behaviour

ASSUME SendersAssumption == Senders \subseteq Nat /\ IsFiniteSet(Senders)
ASSUME MaxArrivalsAssumption == MaxArrivals \in Nat

VARIABLES queue,     \* the queued candidates of one recipient
          arrived,   \* how many have arrived: the last id
          strategy   \* the mailman's --priority-strategy

vars == <<queue, arrived, strategy>>

Before(c, d) == c.from < d.from \/ (c.from = d.from /\ c.id < d.id)

(* The accumulator of the loop: the open channel (its sender, head, weight *)
(* so far and length) and the best closed channel.                         *)
NoBest == [found |-> FALSE, weight |-> -1, head |-> 0]

Close(acc) ==
  IF /\ acc.open
     /\ \/ ~acc.best.found
        \/ acc.weight > acc.best.weight
        \/ acc.weight = acc.best.weight /\ acc.head < acc.best.head
  THEN [found |-> TRUE, weight |-> acc.weight, head |-> acc.head]
  ELSE acc.best

(* Mutation: the position is not reset when a channel opens. *)
MutVisitPos(strat, acc, c) ==
  LET same == acc.open /\ acc.from = c.from
      w    == IF strat = "aged" THEN c.priority * (1 + acc.pos) ELSE c.priority
  IN [open |-> TRUE, from |-> c.from, head |-> IF same THEN acc.head ELSE c.id,
      weight |-> IF same /\ acc.weight > w THEN acc.weight ELSE w,
      pos |-> acc.pos + 1, best |-> IF same THEN acc.best ELSE Close(acc)]

Visit(strat, acc, c) ==
  LET same == acc.open /\ acc.from = c.from
      pos  == IF same THEN acc.pos ELSE 0
      w    == IF strat = "aged" THEN c.priority * (1 + pos) ELSE c.priority
      sofar == IF same THEN acc.weight ELSE 0
  IN [open   |-> TRUE,
      from   |-> c.from,
      head   |-> IF same THEN acc.head ELSE c.id,
      weight |-> IF w > sofar THEN w ELSE sofar,
      pos    |-> pos + 1,
      best   |-> IF same THEN acc.best ELSE Close(acc)]

Start == [open |-> FALSE, from |-> -1, head |-> 0, weight |-> 0, pos |-> 0, best |-> NoBest]

(* The candidate that sorts last. *)
Latest(V) == CHOOSE c \in V : \A d \in V : d = c \/ Before(d, c)

(* The accumulator once the loop has passed the candidates V, and what it  *)
(* has found at the end.                                                   *)
Passed(C, strat) ==
  LET acc[V \in SUBSET C] ==
        IF V = {} THEN Start ELSE Visit(strat, acc[V \ {Latest(V)}], Latest(V))
  IN acc

SelectScheduled(C, strat) == Close(Passed(C, strat)[C])

Arrive ==
  /\ arrived < MaxArrivals
  /\ \E f \in Senders, p \in Priorities :
        queue' = queue \cup {[id |-> arrived + 1, from |-> f, priority |-> p]}
  /\ arrived' = arrived + 1
  /\ UNCHANGED strategy

(* ClaimNext takes the row whose id the loop returned. *)
Serve ==
  /\ SelectScheduled(queue, strategy).found
  /\ \E c \in queue : /\ c.id = SelectScheduled(queue, strategy).head
                      /\ queue' = queue \ {c}
  /\ UNCHANGED <<arrived, strategy>>

Init == /\ queue = {}
        /\ arrived = 0
        /\ strategy \in Strategies

Next == Arrive \/ Serve

Spec == Init /\ [][Next]_vars

(* The loop finds a message exactly when there is a candidate, and the one *)
(* it finds is the one candidate the relation IsScheduled admits, for both *)
(* strategies (priority.go:102).                                           *)
LoopAgreesWithRelation ==
  LET r == SelectScheduled(queue, strategy)
  IN IF queue = {} THEN ~r.found
     ELSE {c.id : c \in {c \in queue : IsScheduled(queue, strategy, c)}} = {r.head}
=============================================================================
