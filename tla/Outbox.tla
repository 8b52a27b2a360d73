------------------------------- MODULE Outbox -------------------------------
(***************************************************************************)
(* Calls of several agents at once, the mailmen that drain what they send, *)
(* the doorbell between them, the clock their budgets refill by, what is   *)
(* purged meanwhile, and a world in which panes die and the operator moves *)
(* about.                                                                  *)
(***************************************************************************)
EXTENDS Housekeeping, FiniteSetsExt

CONSTANTS
  Asked,      \* the rows there already are: bodies' envelopes by id
  Home,       \* agent |-> the pane it starts in
  MaxClock,   \* bound: how far the clock runs
  Movable,    \* bound: the agents the world changes for
  MaxMoves    \* bound: how often it changes

ASSUME OutboxAssumption ==
  /\ Asked \in Seq(Envelopes) /\ Len(Asked) <= MaxId
  /\ Home \in [Agents -> Panes]
  /\ Movable \subseteq Agents
  /\ MaxClock \in Nat /\ MaxMoves \in Nat

VARIABLE moves

outboxVars == <<waitingVars, moves>>

(* Everything was delivered and verified before. *)
OutboxInit ==
  /\ env = [i \in Ids |-> IF i <= Len(Asked) THEN Asked[i] ELSE CHOOSE e \in Sendable : TRUE]
  /\ st = [i \in Ids |-> IF i <= Len(Asked) THEN "delivered" ELSE "absent"]
  /\ verified = [i \in Ids |-> IF i <= Len(Asked) THEN "verified" ELSE "null"]
  /\ nextId = Len(Asked) + 1
  /\ agent = [a \in Agents |-> [NewAgent EXCEPT !.registered = TRUE, !.pane = Home[a]]]
  /\ BudgetInit
  /\ \E plan \in Plans : call = [c \in Calls |-> NewCall(plan[c])]
  /\ created = [i \in Ids |-> 0]
  /\ parent = [i \in Ids |-> 0]
  /\ attached = Operator
  /\ presence \in IF \E c \in Calls : ToOperator(call[c].req.to) THEN Movable \cup {Operator} ELSE {Operator}
  /\ live = {Home[a] : a \in Agents}
  /\ mailmen = Agents
  /\ rings = {}
  /\ meter = [a \in Agents |-> Capacity]
  /\ advice = [a \in Agents |-> NoAdvice]
  /\ overlapped = {}
  /\ lost = FALSE
  /\ moves = 0

-----------------------------------------------------------------------------

Tick ==
  /\ clock < MaxClock
  /\ clock' = clock + 1
  /\ meter' = [a \in Agents |-> Refilled(meter[a], 1)]
  /\ UNCHANGED <<storeVars, budgets, call, columns, world, rings, advice, overlapped, lost, moves>>

(* The mailman of a recipient takes its next row, ...  The loop reads its   *)
(* agent before it claims: the agent may be gone when it does.              *)
MailmanClaims ==
  /\ \E a \in mailmen, i \in Ids : Delivering(a) = {} /\ ClaimNext(a, i)
  /\ UNCHANGED <<agent, clock, budgets, call, columns, world, rings, history, lost, moves>>

(* ... marks it and rings; a row it fails early ends without a ring. *)
MailmanMarks ==
  /\ \E i \in Ids :
       /\ env[i].to \in mailmen
       /\ \/ /\ \E v \in {"verified", "unverified"} : MarkDelivered(i, v)
             /\ rings' = Announced(env[i].to)
          \/ /\ MarkFailed(i)
             /\ rings' \in {rings, Announced(env[i].to)}
  /\ UNCHANGED <<agent, clock, budgets, call, columns, world, history, lost, moves>>

(* A mailman restarted after its agent has gone ends at once, and leaves    *)
(* what it had claimed.                                                     *)
MailmanExits ==
  /\ \E a \in mailmen : ~agent[a].registered /\ mailmen' = mailmen \ {a}
  /\ UNCHANGED <<storeVars, clock, budgets, call, columns, attached, presence, live, rings, history, lost, moves>>

(* A pane dies, which only a strict call looks at; the operator turns       *)
(* elsewhere, which only a call to it does.                                 *)
Moves ==
  /\ moves < MaxMoves
  /\ moves' = moves + 1
  /\ \/ /\ \E c \in Calls : call[c].req.strict
        /\ \E a \in Movable : Home[a] \in live /\ live' = live \ {Home[a]}
        /\ UNCHANGED attached
     \/ /\ \E c \in Calls : ToOperator(call[c].req.to)
        /\ attached' \in (Movable \cup {Operator}) \ {attached}
        /\ UNCHANGED live
  /\ UNCHANGED <<storeVars, clock, budgets, call, columns, presence, mailmen, rings, history, lost>>

-----------------------------------------------------------------------------
(* The commands and the tools that share their steps.  A command that has   *)
(* a function of its own for its flags begins there, a tool in the server.  *)

On(c, op, via) == call[c].req.op = op /\ call[c].req.via = via

RunMCP(c) == call[c].req.via = "mcp" /\ call[c].req.op # "send" /\ Begin(c)

RunSendCLI(c) == On(c, "send", "cli") /\ Begin(c)

McpSendHandler(c) == On(c, "send", "mcp") /\ Begin(c)

RunPingCLI(c) == On(c, "ping", "cli") /\ Begin(c)

RunControlCLI(c) == On(c, "control", "cli") /\ Begin(c)

RunResendCLI(c) == On(c, "resend", "cli") /\ Begin(c)

RunTrackCLI(c) == On(c, "track", "cli") /\ Begin(c)

Starts(c) ==
  \/ RunMCP(c) \/ RunSendCLI(c) \/ McpSendHandler(c) \/ RunPingCLI(c) \/ RunControlCLI(c) \/ RunResendCLI(c)
  \/ RunTrackCLI(c) \/ (On(c, "wait", "cli") /\ Begin(c))

SendSteps(c) ==
  ResolveOperator(c) \/ Freshness(c) \/ WriteBudgetQuote(c) \/ Charge(c) \/ CheckRecipient(c) \/ Insert(c)

RunSend(c) == On(c, "send", "cli") /\ ~FanOut(c) /\ SendSteps(c)

DoSendMCP(c) == On(c, "send", "mcp") /\ ~FanOut(c) /\ SendSteps(c)

RunMultiSend(c) == On(c, "send", "cli") /\ FanOut(c) /\ (SendSteps(c) \/ Stagger(c) \/ Refund(c))

DoMultiSendMCP(c) == On(c, "send", "mcp") /\ FanOut(c) /\ (SendSteps(c) \/ Stagger(c) \/ Refund(c))

RunAsk(c) == On(c, "ask", "cli") /\ (Begin(c) \/ SendSteps(c))

McpAsk(c) == On(c, "ask", "mcp") /\ SendSteps(c)

PingProbe(c) == On(c, "ping", "cli") /\ (CheckRecipient(c) \/ Insert(c))

McpPing(c) == On(c, "ping", "mcp") /\ (CheckRecipient(c) \/ Insert(c))

RunResend(c) == On(c, "resend", "cli") /\ (CheckRecipient(c) \/ Insert(c))

DoResendMCP(c) == On(c, "resend", "mcp") /\ (CheckRecipient(c) \/ Insert(c))

DoControl(c) == On(c, "control", "cli") /\ (CheckRecipient(c) \/ Insert(c))

McpControl(c) == On(c, "control", "mcp") /\ (CheckRecipient(c) \/ Insert(c))

RunFlush(c) == On(c, "flush", "cli") /\ (Begin(c) \/ Flush(c))

McpFlushDeferred(c) == On(c, "flush", "mcp") /\ Flush(c)

RunUnregister(c) == On(c, "unregister", "cli") /\ (Begin(c) \/ Leave(c))

McpUnregister(c) == On(c, "unregister", "mcp") /\ Leave(c)

RunReset(c) == On(c, "reset", "cli") /\ (Begin(c) \/ Reset(c))

RunReap(c) == On(c, "reap", "cli") /\ (Begin(c) \/ Reap(c))

Sends == \E c \in Calls :
  /\ \/ Starts(c)
     \/ RunSend(c) \/ DoSendMCP(c) \/ RunMultiSend(c) \/ DoMultiSendMCP(c) \/ RunAsk(c) \/ McpAsk(c)
     \/ PingProbe(c) \/ McpPing(c) \/ RunResend(c) \/ DoResendMCP(c) \/ DoControl(c) \/ McpControl(c)
     \/ RunFlush(c) \/ McpFlushDeferred(c)
     \/ RunUnregister(c) \/ McpUnregister(c) \/ RunReset(c) \/ RunReap(c)
  /\ UNCHANGED <<lost, moves>>

WaitSteps(c) == Watch(c) \/ Read(c) \/ WakeByRing(c) \/ WakeByPoll(c)

WaitForDelivery(c) == call[c].req.op = "send" /\ WaitSteps(c)

PollPingTerminal(c) == call[c].req.op = "ping" /\ WaitSteps(c)

RunTrackWatch(c) == On(c, "track", "cli") /\ WaitSteps(c)

RunWaitForReply(c) == On(c, "wait", "cli") /\ (WaitSteps(c) \/ Expire(c))

McpWaitForReply(c) == On(c, "wait", "mcp") /\ (WaitSteps(c) \/ Expire(c))

WaitsOn(c) ==
  /\ WaitForDelivery(c) \/ PollPingTerminal(c) \/ RunTrackWatch(c) \/ RunWaitForReply(c) \/ McpWaitForReply(c)
  /\ UNCHANGED moves

OutboxNext ==
  \/ Sends
  \/ \E c \in Calls : WaitsOn(c)
  \/ \E a \in Agents : (Ring(a) \/ RingFails(a)) /\ UNCHANGED moves
  \/ \E a \in Agents : RetentionSweep(a) /\ UNCHANGED moves
  \/ Tick \/ MailmanClaims \/ MailmanMarks \/ MailmanExits \/ Moves

OutboxSpec == OutboxInit /\ [][OutboxNext]_outboxVars

(* Only a call that waits is sure to go on: its poll timer fires, whatever *)
(* the doorbell does.  A send may end anywhere.                            *)
FairOutboxSpec ==
  OutboxSpec /\ \A c \in Calls : WF_outboxVars(WaitsOn(c))

-----------------------------------------------------------------------------
(* Properties *)

(* Every variable has its type, and what a call waits on was once a row.    *)
OutboxTypeOK ==
  /\ StoreTypeOK
  /\ clock \in 0..MaxClock /\ budgets \in [Agents -> BudgetRows] /\ meter \in [Agents -> Int]
  /\ created \in [Ids -> 0..MaxClock] /\ parent \in [Ids -> 0..MaxId]
  /\ attached \in Agents \cup {Operator} /\ presence \in Agents \cup {Operator} /\ live \subseteq Panes
  /\ rings \subseteq Agents /\ overlapped \subseteq Agents /\ lost \in BOOLEAN
  /\ mailmen \subseteq Agents /\ moves \in 0..MaxMoves
  /\ \A c \in Calls : /\ call[c].k \in 1..Len(call[c].to) /\ call[c].landed \in 0..Len(call[c].to)
                      /\ call[c].row \in 0..MaxId
  /\ \A c \in Waiters : call[c].row # 0 => st[call[c].row] # "absent"

(* Time is refilled once: whatever quotes, charges and refunds come         *)
(* between, the lazily refilled balance never exceeds a bucket that is      *)
(* refilled tick by tick, and a bucket that saw no refund equals it         *)
(* (quoteBudgetInTx, store/budget.go:130, and Refilled, refill.go:90).     *)
Refunded(a) == \E c \in Calls : call[c].req.from = a /\ At(c, "done") /\ FanOut(c) /\ call[c].charged = 0

RefillsOnce ==
  \A a \in Agents : /\ Balance(a) <= meter[a]
                    /\ ~Refunded(a) => Balance(a) = meter[a]

(* Splitting a send does not make it cheaper and joining sends does not     *)
(* make it dearer: a sender whose calls did not overlap has paid at least   *)
(* breadth once for every recipient it reached in the window and Alpha for  *)
(* every row, whatever failed after the charge, was refunded, purged or     *)
(* expired; and no more than that as long as everything it paid for landed, *)
(* nothing expired or was purged, and no body was long ("N sends to N       *)
(* people cost the same as one send to N people", sendbudget.go:114;        *)
(* chargeSend, sendbudget.go:81).                                           *)
Paid(a) == MapThenSumSet(LAMBDA c : call[c].charged, {c \in Calls : call[c].req.from = a})

Landed(a) == {i \in Rows : st[i] # "refused" /\ env[i].from = a}

Recipients(a) == {env[i].to : i \in {j \in Landed(a) : created[j] > clock - Window}}

Unpriced(a) ==
  \/ \E i \in 1..Len(Asked) : env[i].from = a
  \/ \E c \in Calls : ~Priced(call[c].req) /\ call[c].landed > 0 /\ env[call[c].row].from = a

Purged(a) == \E i \in Ids : st[i] = "purged" /\ env[i].from = a

Wasted(a) == \E c \in Calls : call[c].req.from = a /\ call[c].charged > 0 /\ call[c].landed < Len(call[c].to)

Lengthy(a) == \E i \in Landed(a) : Length[env[i].body] > 1

Due(a) == Breadth[Cardinality(Recipients(a))] + Alpha * Cardinality(Landed(a))

SplittingIsNeutral ==
  \A a \in Agents \ overlapped : ~Unpriced(a) =>
    /\ Paid(a) >= Due(a)
    /\ clock < Window /\ ~Purged(a) /\ ~Wasted(a) /\ ~Lengthy(a) => Paid(a) = Due(a)

(* The wait a refusal names falls short by half its unit at most, a second  *)
(* or a minute: once it is over, and nothing was spent or refunded          *)
(* meanwhile, what has refilled and half a unit's refill pay the price the  *)
(* sender was quoted, if a full bucket can at all (TimeToAfford,            *)
(* refill.go:125; whenAffordable, store/budget.go:225).  A refund in        *)
(* between voids it: RefundBudget stamps the row afresh and drops the       *)
(* refill the advice counted on.                                            *)
Advised(a) ==
  advice[a] # NoAdvice /\ clock >= advice[a].until /\ advice[a].cost <= Capacity - Overdraft

HalfUnit(a) == (advice[a].unit + 1) \div 2

RefusalAdviceHolds ==
  \A a \in Agents : Advised(a) => Affordable(Refilled(Balance(a), HalfUnit(a)), advice[a].cost)

(* No reply slips between subscription and sleep: while no ring is lost or  *)
(* pending, a wait-for-reply that sleeps with an empty channel has nothing  *)
(* to find (WaitForReply, reply.go:83: subscribe, then read).               *)
NoMissedRing ==
  ~lost => \A c \in Waiters :
    call[c].req.op = "wait" /\ At(c, "select") /\ ~call[c].rung /\ Key(c) \notin rings
      => ~Answered(c)

(* Whatever becomes of the doorbell, a waiter whose answer is there comes   *)
(* back, or moves on to its next recipient, unless the answer is purged     *)
(* before it looks (the poll behind the doorbell: reply.go:102,             *)
(* sendstatus.go:385, ping.go:258, track.go:241).                           *)
Served(c) == c \in Waiters /\ Answered(c)

WaitersReturn == \A c \in Calls : Served(c) ~> ~Served(c)

(* What a row answers is there as long as the row is, whatever unregister,  *)
(* reset and the sweeps purge while replies to it are on their way          *)
(* (reply_to, schema.sql:18; validateReplyTo, messages.go:331).             *)
RepliesHaveParents == \A i \in Rows : parent[i] # 0 => parent[i] \in Rows
=============================================================================
