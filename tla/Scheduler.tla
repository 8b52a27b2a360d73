----------------------------- MODULE Scheduler -----------------------------
(***************************************************************************)
(* Which queued message the mailman claims next (internal/store/priority.go). *)
(*                                                                         *)
(* A candidate is what ClaimNext reads of a queued row: its id, its sender *)
(* and its priority.  The candidates of one sender form a channel.  The    *)
(* choice is stated here as a relation between the candidate set and the   *)
(* chosen candidate; SchedulerLoop holds the code's loop, and              *)
(* SchedulerProofs shows that both agree.                                  *)
(***************************************************************************)
EXTENDS Integers, FiniteSets

(* PriorityLow, PriorityNormal, PriorityHigh. *)
Priorities == {10, 20, 30}

PriorityNormal == 20

(* StrategyMaxPriority and StrategyAged. *)
Strategies == {"max", "aged"}

(* The candidates that share c's sender. *)
ChannelOf(C, c) == {d \in C : d.from = c.from}

(* How many messages of its own channel are ahead of c. *)
Position(C, c) == Cardinality({d \in ChannelOf(C, c) : d.id < c.id})

(* The weight one message lends to its channel. *)
Weight(C, strategy, c) ==
  IF strategy = "aged" THEN c.priority * (1 + Position(C, c)) ELSE c.priority

(* c's channel weighs at least, respectively more, than d's; the weight of *)
(* a channel is the greatest weight of its messages.                       *)
WeighsAtLeast(C, strategy, c, d) ==
  \A n \in ChannelOf(C, d) : \E m \in ChannelOf(C, c) :
     Weight(C, strategy, m) >= Weight(C, strategy, n)

Outweighs(C, strategy, c, d) ==
  \E m \in ChannelOf(C, c) : \A n \in ChannelOf(C, d) :
     Weight(C, strategy, m) > Weight(C, strategy, n)

(* c is what selectScheduled returns for C: the head of the heaviest       *)
(* channel, the lowest head id deciding between channels of equal weight.  *)
IsScheduled(C, strategy, c) ==
  /\ c \in C
  /\ \A d \in C : \/ Outweighs(C, strategy, c, d)
                  \/ /\ WeighsAtLeast(C, strategy, c, d)
                     /\ c.id <= d.id
=============================================================================
