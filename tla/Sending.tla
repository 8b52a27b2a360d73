------------------------------ MODULE Sending -------------------------------
(***************************************************************************)
(* The commands and tools that put rows into the store: send (one or many  *)
(* recipients), ask, ping, control, resend and flush, from the command     *)
(* line (send.go, ping.go, control.go, resend.go, reply.go) and from the   *)
(* MCP server (mcp.go).                                                    *)
(*                                                                         *)
(* A call is a process of its own.  Each statement it sends to the store   *)
(* is a step, so other calls, the mailmen and the clock come               *)
(* between any two; a call that is killed, or that a statement fails hard, *)
(* is one that takes no more steps.  Calls whose answer is waited for go   *)
(* on in Waiting.                                                          *)
(***************************************************************************)
EXTENDS MessageStore, Budget, Sequences

CONSTANTS
  Calls,        \* the processes that run one command each
  Plans,        \* which command each of them runs
  Operator,     \* OperatorRecipient, the name that stands for wherever the operator is
  Window,       \* BudgetParams.Window, in ticks
  Length,       \* body |-> 1 + bytes/LengthDivisor
  PoolOf,       \* agent |-> its provider, "unknown" if none is set
  Throttles,    \* poolThrottles: pool |-> its burst and delay, "unknown" among them
  Unthrottled,  \* noThrottlePools
  MaxStagger,   \* maxFanoutStagger, in ticks
  MaxRecipients,\* max-recipients-per-send, 0 = no check
  Edges         \* control.PeerEdges["clear"]

ASSUME SendingAssumption ==
  /\ Payers = Agents
  /\ Operator \notin Agents /\ IsFiniteSet(Calls)
  /\ Window \in Nat /\ MaxStagger \in Nat /\ MaxRecipients \in Nat
  /\ Edges \subseteq Agents \X Agents
  /\ Length \in [Bodies -> Nat \ {0}]
  /\ "unknown" \in DOMAIN Throttles
  /\ \A p \in DOMAIN Throttles : Throttles[p] \in [threshold : Nat, delay : Nat]

Ops == {"none", "send", "ask", "ping", "control", "resend", "flush", "wait", "track",
        "unregister", "reset", "reap"}

(* A command line or the arguments of a tool, parsed. *)
Requests ==
  [op : Ops, via : {"cli", "mcp"}, from : Agents, to : Seq(Agents \cup {Operator}), body : Bodies,
   after : Triggers, priority : Priorities, force : BOOLEAN, strict : BOOLEAN, wait : BOOLEAN,
   block : BOOLEAN, dry : BOOLEAN, re : 0..MaxId, command : Bodies, second : Bodies \cup {"none"},
   purge : BOOLEAN, age : Int, states : SUBSET RowStates]

(* Only send and ask know the operator's name; a resend, a wait and a      *)
(* watch name a row.                                                       *)
WellFormedRequest(r) ==
  /\ r \in Requests /\ r.to # <<>>
  /\ r.op \notin {"send", "ask"} => r.to \in Seq(Agents)
  /\ r.op \in {"resend", "wait", "track"} => r.re # 0

ASSUME RequestAssumption == \A plan \in Plans : \A c \in Calls : WellFormedRequest(plan[c])

VARIABLES
  call,      \* process |-> what it does
  created,   \* id |-> created_at
  parent,    \* id |-> reply_to, 0 if NULL
  attached,  \* the agent whose pane the operator's client shows, Operator if none
  presence,  \* the operator_last_seen_in slot, Operator if unset
  live,      \* the panes tmux lists
  mailmen,   \* the agents whose mailman runs
  rings,     \* doorbells that are still to ring: committed, not yet notified
  meter,     \* history: the buckets, refilled tick by tick
  advice,    \* history: the last refusal of each sender since its bucket was written
  overlapped \* history: senders with two priced calls under way at once

columns == <<created, parent>>

world == <<attached, presence, live, mailmen>>

history == <<meter, advice, overlapped>>

sendingVars == <<storeVars, clock, budgets, call, columns, world, rings, history>>

NoAdvice == [cost |-> 0, until |-> 0, unit |-> 1]

(* A send without a budget section is not charged; ask passes none. *)
Priced(r) == r.op = "send"

FanOut(c) == Len(call[c].to) > 1

Waits(r) == r.op = "ping" \/ (r.op = "send" /\ r.wait /\ r.after = "none")

Rows == {i \in Ids : st[i] \in RowStates}

(* The doorbell of a rings once the statement is committed; where no call  *)
(* ever waits the ring is not kept.                                        *)
Announced(a) ==
  IF \E c \in Calls : Waits(call[c].req) \/ call[c].req.op \in {"wait", "track"} THEN rings \cup {a} ELSE rings

First(r) ==
  CASE r.op \in {"send", "ask"} -> "resolve"
    [] r.op \in {"ping", "control", "resend"} -> "check"
    [] r.op = "flush" -> "flush"
    [] r.op = "wait" -> "watch"
    [] r.op = "track" -> IF r.re \in Rows THEN "read" ELSE "done"
    [] r.op = "unregister" -> "leave"
    [] r.op \in {"reset", "reap"} -> r.op

NewCall(r) ==
  [pc |-> IF r.op = "none" THEN "done" ELSE "idle", req |-> r, to |-> r.to, k |-> 1, charged |-> 0,
   landed |-> 0, row |-> r.re, due |-> <<>>, watch |-> "none", rung |-> FALSE]

Active(c) == call[c].pc \notin {"idle", "done"}

At(c, s) == call[c].pc = s

Goto(c, s) == call' = [call EXCEPT ![c].pc = s]

Begin(c) ==
  /\ At(c, "idle")
  /\ LET r == call[c].req IN
     /\ Goto(c, First(r))
     /\ overlapped' = IF Priced(r) /\ \E d \in Calls : Active(d) /\ Priced(call[d].req) /\ call[d].req.from = r.from
                      THEN overlapped \cup {r.from} ELSE overlapped
  /\ UNCHANGED <<storeVars, clock, budgets, columns, world, rings, meter, advice>>

-----------------------------------------------------------------------------
(* The operator as a recipient *)

(* observeOperatorAtChamber: a pane shown to a client that an agent holds. *)
Observed == {a \in Agents : attached = a /\ agent[a].registered /\ agent[a].pane # NoPane}

Slot == {a \in Agents : presence = a /\ agent[a].registered}

Targets == IF Observed # {} THEN Observed ELSE Slot

ToOperator(to) == \E i \in DOMAIN to : to[i] = Operator

Addressed(to, a) == [i \in DOMAIN to |-> IF to[i] = Operator THEN a ELSE to[i]]

(* A fan-out checks itself before it is charged, a single send after. *)
Resolved(c, to) ==
  call' = [call EXCEPT ![c].to = to, ![c].pc = IF Len(to) > 1 THEN "fresh" ELSE "charge"]

ResolveOperator(c) ==
  /\ At(c, "resolve")
  /\ LET to == call[c].req.to IN
     \/ /\ ~ToOperator(to)
        /\ Resolved(c, to)
        /\ UNCHANGED presence
     \/ /\ ToOperator(to)
        /\ \E a \in Targets :
             /\ Resolved(c, Addressed(to, a))
             /\ presence' = IF a \in Observed THEN a ELSE presence
     \/ /\ ToOperator(to)
        /\ Targets = {}
        /\ Goto(c, "done")
        /\ UNCHANGED presence
  /\ UNCHANGED <<storeVars, clock, budgets, columns, attached, live, mailmen, rings, history>>

-----------------------------------------------------------------------------
(* The thread a reply goes to *)

(* findThreadRoot; a row replies to an older one. *)
Root == LET root[i \in Ids] == IF parent[i] = 0 THEN i ELSE root[parent[i]] IN root

Thread(i) == {j \in Rows : Root[j] = Root[i]}

(* Rows for the sender that are newer than what it replies to and than     *)
(* whatever it last said in the thread.                                    *)
Stale(i, from) ==
  \E m \in Thread(i) : env[m].to = from /\ \A j \in Thread(i) : (j = i \/ env[j].from = from) => j < m

(* What the command line refuses in a fan-out, the MCP tool passes over.   *)
RefusesFanOut(r) == r.via = "cli" /\ (r.after # "none" \/ r.force)

Freshness(c) ==
  /\ At(c, "fresh")
  /\ LET r == call[c].req
         bad == \/ r.re # 0 /\ (r.re \notin Rows \/ (r.block /\ Stale(r.re, r.from)))
                \/ /\ FanOut(c)
                   /\ \/ RefusesFanOut(r)
                      \/ MaxRecipients > 0 /\ Len(call[c].to) > MaxRecipients
                      \/ ~agent[r.from].registered
     IN Goto(c, IF bad THEN "done" ELSE IF FanOut(c) THEN "charge" ELSE "insert")
  /\ UNCHANGED <<storeVars, clock, budgets, columns, world, rings, history>>

-----------------------------------------------------------------------------
(* Paying *)

(* Mutation: only what arrived counts. *)
MutReached(a) ==
  {env[i].to : i \in {j \in Rows : env[j].from = a /\ st[j] = "delivered" /\ created[j] > clock - Window}}

(* The recipients the sender already paid breadth for. *)
Reached(a) ==
  {env[i].to : i \in {j \in Rows : env[j].from = a /\ st[j] # "refused" /\ created[j] > clock - Window}}

Quote(a, to, body) ==
  LET prior == Reached(a)
      after == prior \cup {to[i] : i \in DOMAIN to}
  IN Cost(Cardinality(prior), Cardinality(after), Len(to), Length[body])

(* throttleForPool: an unregistered or unknown provider gets the tightest. *)
Pool(a) == IF agent[a].registered THEN PoolOf[a] ELSE "unknown"

ThrottleForPool(pool) == Throttles[IF pool \in DOMAIN Throttles THEN pool ELSE "unknown"]

(* fanoutStaggerOffsets: the rows of a pool beyond its burst go out one    *)
(* delay apart.                                                            *)
Offset(to, i) ==
  LET pool == Pool(to[i])
      k == Cardinality({j \in 1..(i - 1) : Pool(to[j]) = pool})
      excess == k - ThrottleForPool(pool).threshold + 1
      off == excess * ThrottleForPool(pool).delay
  IN IF pool \in Unthrottled \/ excess <= 0 THEN 0
     ELSE IF off > MaxStagger THEN MaxStagger ELSE off

(* --dry-run prices the send and ends. *)
WriteBudgetQuote(c) ==
  /\ At(c, "charge")
  /\ Priced(call[c].req) /\ call[c].req.dry
  /\ Goto(c, "done")
  /\ UNCHANGED <<storeVars, clock, budgets, columns, world, rings, history>>

(* A fan-out reads the pools and counts their offsets from here. *)
Charge(c) ==
  /\ At(c, "charge")
  /\ LET r == call[c].req
         cost == Quote(r.from, call[c].to, r.body)
         next == IF FanOut(c) THEN "stagger" ELSE "check"
         wait == TimeToAfford(Balance(r.from), cost)
         due == IF FanOut(c) THEN [i \in DOMAIN call[c].to |-> clock + Offset(call[c].to, i)] ELSE <<>>
     IN \/ /\ ~Priced(r)
           /\ call' = [call EXCEPT ![c].pc = next, ![c].due = due]
           /\ UNCHANGED <<budgets, meter, advice>>
        \/ /\ Priced(r) /\ ~r.dry
           /\ ChargeBudget(r.from, cost)
           /\ call' = [call EXCEPT ![c].pc = next, ![c].charged = cost, ![c].due = due]
           /\ meter' = [meter EXCEPT ![r.from] = @ - cost]
           /\ advice' = [advice EXCEPT ![r.from] = NoAdvice]
        \/ /\ Priced(r) /\ ~r.dry
           /\ ~Affordable(Balance(r.from), cost)
           /\ Goto(c, "done")
           /\ advice' = [advice EXCEPT ![r.from] =
                           [cost |-> cost, until |-> clock + WhenAffordable(wait), unit |-> Unit(wait)]]
           /\ UNCHANGED <<budgets, meter>>
  /\ UNCHANGED <<storeVars, clock, columns, world, rings, overlapped>>

(* A fan-out that reached nobody gets its charge back. *)
Refund(c) ==
  /\ At(c, "refund")
  /\ LET a == call[c].req.from IN
     /\ RefundBudget(a, call[c].charged)
     /\ meter' = [meter EXCEPT ![a] = Capped(@ + call[c].charged)]
     /\ advice' = [advice EXCEPT ![a] = NoAdvice]
  /\ call' = [call EXCEPT ![c].pc = "done", ![c].charged = 0]
  /\ UNCHANGED <<storeVars, clock, columns, world, rings, overlapped>>

-----------------------------------------------------------------------------
(* One recipient after the other *)

Stagger(c) ==
  /\ At(c, "stagger")
  /\ clock >= call[c].due[call[c].k]
  /\ Goto(c, "check")
  /\ UNCHANGED <<storeVars, clock, budgets, columns, world, rings, history>>

(* Where a call goes once a recipient is dealt with. *)
Onward(q) ==
  IF q.k < Len(q.to) THEN [q EXCEPT !.pc = "stagger", !.k = @ + 1]
  ELSE IF Len(q.to) > 1 /\ q.landed = 0 /\ q.charged > 0 THEN [q EXCEPT !.pc = "refund"]
  ELSE [q EXCEPT !.pc = "done"]

(* A row the message goes to, after what the code checks first. *)
Alive(a) == agent[a].pane \in live

Recipient(c) == IF call[c].req.op = "resend" THEN env[call[c].req.re].to ELSE call[c].to[call[c].k]

(* resendGuard without --force: only what failed or was never verified. *)
MayResend(i) == st[i] = "failed" \/ (st[i] = "delivered" /\ verified[i] = "unverified")

(* control.Resolve: the scope each command may be used in. *)
ControlScope ==
  [compact |-> {"self"}, cost |-> {"self"}, disable |-> {"self"}, clear |-> {},
   rename |-> {"self", "peer"}, help |-> {"self", "peer"}, enable |-> {"self", "peer"}, restart |-> {"self", "peer"}]

(* clear needs the name of the task it clears for. *)
MayControl(r) ==
  LET to == r.to[1] IN
  /\ \/ (IF to = r.from THEN "self" ELSE "peer") \in ControlScope[r.command]
     \/ r.command = "clear" /\ to # r.from /\ <<r.from, to>> \in Edges
  /\ r.command = "clear" => r.second # "none"
  /\ r.second # "none" => r.command \in {"clear", "restart", "compact"}

Acceptable(c) ==
  LET r == call[c].req IN
  /\ r.op = "resend" => MayResend(r.re)   \* false of a row that is gone
  /\ r.op = "control" => MayControl(r)
  /\ agent[Recipient(c)].registered
  /\ r.op \in {"send", "ask"} =>
       /\ r.strict /\ (FanOut(c) \/ r.after = "none") => Alive(Recipient(c))
       /\ FanOut(c) \/ agent[r.from].registered

CheckRecipient(c) ==
  /\ At(c, "check")
  /\ LET q == call[c] IN
     call' = [call EXCEPT ![c] =
       IF ~Acceptable(c) THEN Onward(q)
       ELSE [q EXCEPT !.pc = IF q.req.op \in {"send", "ask"} /\ ~FanOut(c) /\ q.req.re # 0 THEN "fresh" ELSE "insert"]]
  /\ UNCHANGED <<storeVars, clock, budgets, columns, world, rings, history>>

(* A fan-out drops the trigger, the priority and the force. *)
Envelope(c) ==
  LET r == call[c].req
      e == [from |-> r.from, to |-> Recipient(c), kind |-> "message", priority |-> PriorityNormal,
            after |-> "none", force |-> FALSE, body |-> r.body]
  IN CASE r.op = "resend" -> [e EXCEPT !.from = env[r.re].from, !.body = env[r.re].body]
       [] r.op = "ping" -> [e EXCEPT !.kind = "ping"]
       [] r.op = "control" -> [e EXCEPT !.kind = "control", !.body = r.command, !.force = r.force]
       [] r.op \in {"send", "ask"} ->
            IF FanOut(c) THEN e ELSE [e EXCEPT !.after = r.after, !.priority = r.priority, !.force = r.force]

ReplyTo(c) ==
  LET r == call[c].req IN
  IF r.op = "resend" THEN parent[r.re] ELSE IF r.op \in {"send", "ask"} THEN r.re ELSE 0

(* clear, restart and compact with a continuation are two rows, both or    *)
(* neither.                                                                *)
Paired(r) == r.op = "control" /\ r.second # "none"

Second(c) ==
  LET r == call[c].req IN
  [Envelope(c) EXCEPT !.body = r.second, !.kind = IF r.command = "compact" THEN "message" ELSE "control"]

(* What the new rows, from nextId up to before n, get besides. *)
Stamp(c, n) ==
  LET new == nextId..(n - 1) IN
  /\ created' = [i \in Ids |-> IF i \in new THEN clock ELSE created[i]]
  /\ parent' = [i \in Ids |-> IF i \in new /\ st'[i] # "refused" THEN ReplyTo(c) ELSE parent[i]]
  /\ rings' = IF st'[nextId] = "queued" THEN Announced(env'[nextId].to) ELSE rings

(* validateReplyTo: what the row would answer is gone. *)
Dangling(c) == ReplyTo(c) # 0 /\ ReplyTo(c) \notin Rows

(* The row; a fan-out that meets a dangling reply gives up altogether. *)
Insert(c) ==
  /\ At(c, "insert")
  /\ LET r == call[c].req
         done == IF Paired(r) THEN InsertMessagePair(Envelope(c), Second(c))
                 ELSE IF r.op = "ping" THEN InsertNotice(Envelope(c))   \* no caps
                 ELSE InsertMessage(Envelope(c))
     IN \/ /\ Dangling(c)
           /\ Goto(c, "done")
           /\ UNCHANGED <<msgVars, columns, rings>>
        \/ /\ ~Dangling(c)
           /\ done
           /\ Stamp(c, nextId')
           /\ LET ok == st'[nextId] # "refused"
                  q == IF ok THEN [call[c] EXCEPT !.landed = @ + 1, !.row = nextId] ELSE call[c]
              IN call' = [call EXCEPT ![c] = IF ok /\ Waits(r) THEN [q EXCEPT !.pc = "watch", !.watch = "none"]
                                             ELSE Onward(q)]
  /\ UNCHANGED <<agent, clock, budgets, world, history>>

(* flush: the rows the caller staged for itself; the doorbell rings if     *)
(* there were any.                                                         *)
Flush(c) ==
  /\ At(c, "flush")
  /\ LET r == call[c].req IN
     /\ PromoteDeferred(r.from, r.after)
     /\ rings' = IF DeferredRows(r.from, r.after) # {} THEN Announced(r.from) ELSE rings
  /\ Goto(c, "done")
  /\ UNCHANGED <<agent, clock, budgets, columns, world, history>>
=============================================================================
