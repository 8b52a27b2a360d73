---------------------------- MODULE OutboxProofs ----------------------------
(***************************************************************************)
(* The senders, for any number of calls, agents, rows and any budget: the  *)
(* bucket stays within its bounds and refills once, a refusal's advice     *)
(* holds, a reply never outlives what it answers, and no ring is missed.   *)
(***************************************************************************)
EXTENDS Outbox, StoreProofs, SequenceTheorems

-----------------------------------------------------------------------------
(* The arithmetic of the bucket, for any capacity, rates and breadths: what *)
(* a refill bounds and preserves, that refilling in two steps is refilling  *)
(* in one, and that the wait a refusal advises is long enough.              *)

(* The full rate is twice the recovery rate. *)
LEMMA Rates ==
  /\ Capacity \in Nat /\ RefillPerTick \in Nat /\ Overdraft \in Int
  /\ RecoveryPerTick \in Nat /\ RecoveryPerTick > 0
  /\ RefillPerTick = 2 * RecoveryPerTick
  /\ Overdraft <= 0
BY BudgetAssumption DEF RecoveryPerTick, Overdraft

(* What a refill is once the product of recovery rate and time is named:   *)
(* the legs below and above zero become linear.                            *)
Legs(b, h) ==
  IF b >= 0 THEN Capped(b + 2 * h) ELSE IF h <= -b THEN b + h ELSE Capped(2 * h + 2 * b)

LEMMA RefillLegs ==
  ASSUME NEW b \in Int, NEW e \in Nat
  PROVE  RecoveryPerTick * e \in Nat /\ Refilled(b, e) = Legs(b, RecoveryPerTick * e)
<1> DEFINE h == RecoveryPerTick * e
<1>1. h \in Nat /\ RefillPerTick * e = 2 * h
  BY Rates
<1>2. CASE e > 0
  BY <1>1, <1>2 DEF Refilled, Legs
<1>3. CASE e = 0
  <2>1. h = 0
    BY <1>3, Rates
  <2>2. Refilled(b, e) = Capped(b)
    BY <1>3 DEF Refilled
  <2>3. b < 0 => Capped(b) = b
    BY Rates DEF Capped
  <2> HIDE DEF h
  <2>4. Refilled(b, e) = Legs(b, h)
    BY <2>1, <2>2, <2>3 DEF Legs
  <2> QED
    BY <1>1, <2>4 DEF h
<1> QED
  BY <1>2, <1>3

(* A refill never takes away and never overfills (Refilled, refill.go:90). *)
LEMMA RefillBounds ==
  ASSUME NEW b \in Int, NEW e \in Int, b <= Capacity
  PROVE  Refilled(b, e) \in Int /\ b <= Refilled(b, e) /\ Refilled(b, e) <= Capacity
<1>1. CASE e <= 0
  BY <1>1, Rates DEF Refilled, Capped
<1>2. CASE e > 0
  <2> DEFINE h == RecoveryPerTick * e
  <2>1. h \in Nat /\ Refilled(b, e) = Legs(b, h)
    BY <1>2, RefillLegs
  <2> HIDE DEF h
  <2> QED
    BY <2>1, Rates DEF Legs, Capped
<1> QED
  BY <1>1, <1>2

LEMMA RefillNow ==
  ASSUME NEW b \in Int, b <= Capacity
  PROVE  Refilled(b, 0) = b
BY Rates DEF Refilled, Capped

LEMMA RefillMonotone ==
  ASSUME NEW b \in Int, NEW d \in Int, b <= d, NEW e \in Nat
  PROVE  Refilled(b, e) <= Refilled(d, e)
<1> DEFINE h == RecoveryPerTick * e
<1>1. h \in Nat /\ Refilled(b, e) = Legs(b, h) /\ Refilled(d, e) = Legs(d, h)
  BY RefillLegs
<1> HIDE DEF h
<1> QED
  BY <1>1, Rates DEF Legs, Capped

(* Refilling in two steps is refilling in one, wherever the first step     *)
(* ends: below zero, at it, above it or at the brim.  This is what makes   *)
(* the lazily refilled balance independent of how often it is read.        *)
LEMMA RefillSplits ==
  ASSUME NEW b \in Int, b <= Capacity, NEW e \in Nat, NEW d \in Nat
  PROVE  Refilled(b, e + d) = Refilled(Refilled(b, e), d)
<1> DEFINE h == RecoveryPerTick * e
           g == RecoveryPerTick * d
           m == Legs(b, h)
<1>1. h \in Nat /\ Refilled(b, e) = m
  BY RefillLegs
<1>2. m \in Int
  BY <1>1, RefillBounds
<1>3. g \in Nat /\ Refilled(m, d) = Legs(m, g)
  BY <1>2, RefillLegs
<1>4. RecoveryPerTick * (e + d) = h + g
  BY Rates
<1>5. Refilled(b, e + d) = Legs(b, h + g)
  <2>1. e + d \in Nat
    OBVIOUS
  <2> QED
    BY <1>4, <2>1, RefillLegs
<1> HIDE DEF h, g
<1>6. Legs(b, h + g) = Legs(m, g)
  BY <1>1, <1>3, Rates DEF Legs, Capped
<1> QED
  BY <1>1, <1>3, <1>5, <1>6

(* The wait a refusal names is a whole number of its unit. *)
LEMMA AdviceType ==
  ASSUME NEW b \in Int, NEW cost \in Nat, ~Affordable(b, cost)
  PROVE  /\ Unit(TimeToAfford(b, cost)) \in Nat \ {0}
         /\ WhenAffordable(TimeToAfford(b, cost)) \in Nat
<1> DEFINE w == TimeToAfford(b, cost)
           u == Unit(w)
           m == u * w.rate
<1>1. w.need \in Nat /\ w.rate \in Nat /\ w.rate > 0
  BY Rates DEF TimeToAfford, Affordable
<1>2. u \in Nat /\ u > 0
  BY BudgetAssumption DEF Unit
<1> HIDE DEF w, u
<1>3. m \in Nat /\ m > 0
  BY <1>1, <1>2
<1>4. WhenAffordable(w) = u * ((2 * w.need + m) \div (2 * u * w.rate)) /\ 2 * u * w.rate = 2 * m
  BY <1>1, <1>2 DEF WhenAffordable, u
<1> HIDE DEF m
<1>5. (2 * w.need + m) \div (2 * m) \in Nat
  BY <1>1, <1>3
<1>6. u * ((2 * w.need + m) \div (2 * m)) \in Nat
  BY <1>2, <1>5
<1> QED
  BY <1>2, <1>4, <1>6 DEF u, w

(* Rounding to the nearest unit takes away half a unit at most. *)
LEMMA RoundedWait ==
  ASSUME NEW need \in Nat, NEW rate \in Nat, rate > 0, NEW u \in Nat, u > 0, NEW d \in Nat,
         d >= u * ((2 * need + u * rate) \div (2 * u * rate)) + (u + 1) \div 2
  PROVE  rate * d >= need
<1> DEFINE m == u * rate
           q == (2 * need + m) \div (2 * m)
           half == (u + 1) \div 2
<1>1. m \in Nat /\ m > 0 /\ 2 * u * rate = 2 * m
  OBVIOUS
<1>2. d >= u * q + half
  BY <1>1
<1>3. half \in Nat /\ 2 * half >= u
  OBVIOUS
<1>4. rate * u = m
  OBVIOUS
<1> HIDE DEF m
<1>5. q \in Nat /\ 2 * need + m < 2 * m * q + 2 * m
  <2>1. PICK k \in Int : k = q /\ 2 * need + m < (2 * m) * (k + 1)
    BY <1>1
  <2>2. (2 * m) * (k + 1) = 2 * m * k + 2 * m
    BY <1>1, <2>1
  <2>3. q \in Nat
    BY <1>1
  <2> QED
    BY <2>1, <2>2, <2>3
<1> HIDE DEF q, half
<1>6. rate * (u * q) = m * q
  BY <1>4, <1>5
<1>7. u * q \in Nat /\ m * q \in Nat
  BY <1>1, <1>5
<1>8. rate * d >= m * q + rate * half
  <2>1. rate * d >= rate * (u * q + half)
    BY <1>2, <1>3, <1>7
  <2>2. rate * (u * q + half) = rate * (u * q) + rate * half
    BY <1>3, <1>7
  <2> QED
    BY <1>6, <2>1, <2>2
<1>9. 2 * (rate * half) >= m /\ rate * half \in Nat /\ rate * d \in Nat
  <2>1. rate * (2 * half) >= rate * u
    BY <1>3
  <2>2. rate * (2 * half) = 2 * (rate * half) /\ rate * half \in Nat
    BY <1>3
  <2> QED
    BY <1>4, <2>1, <2>2
<1>10. 2 * m * q = 2 * (m * q)
  BY <1>1, <1>5
<1> QED
  BY <1>1, <1>5, <1>7, <1>8, <1>9, <1>10

(* What a refusal advises, and half a unit, is enough, however low the     *)
(* balance is and however far the wait is overshot, if a full bucket could *)
(* pay (TimeToAfford, refill.go:125; whenAffordable, store/budget.go:225). *)
LEMMA AdviceSuffices ==
  ASSUME NEW b \in Int, NEW cost \in Nat, cost <= Capacity - Overdraft,
         ~Affordable(b, cost), NEW d \in Nat,
         d >= WhenAffordable(TimeToAfford(b, cost)) + (Unit(TimeToAfford(b, cost)) + 1) \div 2
  PROVE  Affordable(Refilled(b, d), cost)
<1> DEFINE need == cost + Overdraft - b
           rate == IF b < 0 THEN RecoveryPerTick ELSE RefillPerTick
           u == Unit(TimeToAfford(b, cost))
<1>1. need \in Nat /\ need > 0 /\ rate \in Nat /\ rate > 0
  BY Rates DEF Affordable
<1>2. TimeToAfford(b, cost) = [need |-> need, rate |-> rate]
  BY DEF TimeToAfford
<1>3. u \in Nat /\ u > 0
  BY AdviceType
<1> HIDE DEF need, rate
<1>4. rate * d >= need
  <2>1. WhenAffordable(TimeToAfford(b, cost)) = u * ((2 * need + u * rate) \div (2 * u * rate))
    BY <1>2 DEF WhenAffordable
  <2> HIDE DEF u
  <2>2. d >= u * ((2 * need + u * rate) \div (2 * u * rate)) + (u + 1) \div 2
    BY <2>1 DEF u
  <2> QED
    BY <1>1, <1>3, <2>2, RoundedWait
<1> DEFINE h == RecoveryPerTick * d
<1>5. h \in Nat /\ Refilled(b, d) = Legs(b, h)
  BY RefillLegs
<1>6. RefillPerTick * d = 2 * h
  BY Rates
<1>7. IF b < 0 THEN h >= need ELSE 2 * h >= need
  BY <1>4, <1>6 DEF rate
<1> HIDE DEF h
<1> QED
  BY <1>5, <1>7, Rates DEF need, Affordable, Legs, Capped

(* A send costs a number, whatever part of the agents it reaches (Cost,    *)
(* budget/cost.go).                                                        *)
LEMMA CostType ==
  ASSUME NEW prior \in SUBSET Payers, NEW after \in SUBSET Payers,
         NEW n \in Nat, NEW length \in Nat
  PROVE  Cost(Cardinality(prior), Cardinality(after), n, length) \in Nat
<1>1. Cardinality(prior) \in 0..Cardinality(Payers) /\ Cardinality(after) \in 0..Cardinality(Payers)
  <2>1. IsFiniteSet(Payers)
    BY BudgetAssumption
  <2> QED
    BY <2>1, FS_Subset, FS_CardinalityType
<1>2. Breadth[Cardinality(prior)] \in Nat /\ Breadth[Cardinality(after)] \in Nat
  BY <1>1, BudgetAssumption
<1> DEFINE m == Breadth[Cardinality(after)] - Breadth[Cardinality(prior)]
           margin == IF m < 0 THEN 0 ELSE m
<1>3. margin \in Nat
  BY <1>2
<1> HIDE DEF margin
<1>4. Alpha * n \in Nat
  BY BudgetAssumption
<1>5. (margin + Alpha * n) * length \in Nat
  BY <1>3, <1>4
<1> QED
  BY <1>5 DEF Cost, margin

-----------------------------------------------------------------------------
(* The invariant *)

Pcs == {"idle", "resolve", "fresh", "charge", "stagger", "check", "insert", "refund", "flush", "watch", "read",
        "select", "leave", "stop", "purge", "remove", "reset", "reap", "done"}

CallRows ==
  [pc : Pcs, req : Requests, to : Seq(Agents \cup {Operator}), k : Nat, charged : Nat, landed : Nat,
   row : 0..MaxId, due : Seq(Nat), watch : {"none", "open", "nil"}, rung : BOOLEAN]

(* Once its recipients are resolved, a call that goes on names agents. *)
CallOK(q) ==
  /\ q \in CallRows
  /\ WellFormedRequest(q.req)
  /\ Len(q.to) = Len(q.req.to) /\ q.k \in 1..Len(q.to)
  /\ q.pc \notin {"idle", "resolve", "done"} \/ q.req.op \notin {"send", "ask"} => q.to \in Seq(Agents)
  /\ q.pc = "idle" => q.req.op # "none"

CallInv ==
  /\ call \in [Calls -> CallRows]
  /\ \A c \in Calls : CallOK(call[c])

(* The store as it is used here, and its further columns.  An id that was  *)
(* never used answers nothing.                                             *)
TableInv ==
  /\ StoreTypeOK /\ VerdictIffDelivered
  /\ parent \in [Ids -> 0..MaxId]
  /\ \A i \in Ids : i >= nextId => parent[i] = 0
  /\ RepliesHaveParents

(* The bucket. *)
PurseInv ==
  /\ clock \in Nat
  /\ budgets \in [Agents -> BudgetRows]
  /\ meter \in [Agents -> Int]
  /\ BalanceInBounds
  /\ \A a \in Agents : budgets[a].at <= clock
  /\ RefillsOnce

(* The balance at a later time, if nothing happens until then. *)
BalanceAt(a, t) ==
  IF budgets[a].known THEN Refilled(budgets[a].balance, t - budgets[a].at) ELSE Capacity

Advices == [cost : Nat, until : Nat, unit : Nat]

(* From half a unit after the advised time on the sender can pay, at       *)
(* whatever time it comes.                                                 *)
AdviceInv ==
  /\ advice \in [Agents -> Advices]
  /\ \A a \in Agents : advice[a] # NoAdvice /\ advice[a].cost <= Capacity - Overdraft =>
       \A t \in Nat : t >= advice[a].until + HalfUnit(a) => Affordable(BalanceAt(a, t), advice[a].cost)

(* Who sleeps has subscribed, unless that was noted as a loss; and a       *)
(* sleeper that nobody rang and nobody is about to ring has nothing to     *)
(* find.                                                                   *)
RingInv ==
  /\ \A c \in Calls : /\ At(c, "select") => call[c].watch # "none"
                      /\ call[c].watch = "nil" => lost
  /\ NoMissedRing

OutboxInv == CallInv /\ TableInv /\ PurseInv /\ AdviceInv /\ RingInv

USE DEF Ids, msgVars, storeVars, columns, world, history, sendingVars, waitingVars, outboxVars

-----------------------------------------------------------------------------
(* Which steps there are *)

(* Steps that change nothing but what the call does next. *)
Quiet(c) ==
  \/ Begin(c) \/ ResolveOperator(c) \/ Freshness(c) \/ WriteBudgetQuote(c) \/ CheckRecipient(c)
  \/ Stagger(c) \/ LeaveGuard(c) \/ StopMailman(c)

Pays(c) == Charge(c) \/ (FanOut(c) /\ Refund(c))

(* Steps that write to the messages table. *)
Writes(c) ==
  \/ call[c].req.op \in {"send", "ask", "ping", "control", "resend"} /\ Insert(c)
  \/ Flush(c) \/ PurgeQueue(c) \/ Reset(c) \/ Reap(c)

Removes(c) == call[c].req.op = "unregister" /\ RemoveAgent(c)

Sleeps(c) == WaitSteps(c) \/ (call[c].req.op = "wait" /\ Expire(c))

LEMMA StepKinds ==
  ASSUME OutboxNext
  PROVE  \/ \E c \in Calls : (Quiet(c) \/ Pays(c) \/ Writes(c) \/ Removes(c)) /\ lost' = lost
         \/ \E c \in Calls : Sleeps(c)
         \/ \E a \in Agents : Ring(a) \/ RingFails(a) \/ RetentionSweep(a)
         \/ Tick \/ MailmanClaims \/ MailmanMarks \/ MailmanExits \/ Moves
<1>1. ASSUME NEW c \in Calls, Starts(c)
      PROVE  Quiet(c)
  BY <1>1 DEF Starts, RunMCP, RunSendCLI, McpSendHandler, RunPingCLI, RunControlCLI, RunResendCLI,
              RunTrackCLI, Quiet
<1>2. ASSUME NEW c \in Calls, RunSend(c) \/ DoSendMCP(c) \/ RunMultiSend(c) \/ DoMultiSendMCP(c)
      PROVE  Quiet(c) \/ Pays(c) \/ Writes(c)
  BY <1>2 DEF RunSend, DoSendMCP, RunMultiSend, DoMultiSendMCP, On, SendSteps, Quiet, Pays, Writes
<1>3. ASSUME NEW c \in Calls, RunAsk(c) \/ McpAsk(c)
      PROVE  Quiet(c) \/ Pays(c) \/ Writes(c)
  BY <1>3 DEF RunAsk, McpAsk, On, SendSteps, Quiet, Pays, Writes
<1>4. ASSUME NEW c \in Calls,
             PingProbe(c) \/ McpPing(c) \/ RunResend(c) \/ DoResendMCP(c) \/ DoControl(c) \/ McpControl(c)
      PROVE  Quiet(c) \/ Writes(c)
  BY <1>4 DEF PingProbe, McpPing, RunResend, DoResendMCP, DoControl, McpControl, On, Quiet, Writes
<1>5. ASSUME NEW c \in Calls,
             RunFlush(c) \/ McpFlushDeferred(c) \/ RunUnregister(c) \/ McpUnregister(c) \/ RunReset(c) \/ RunReap(c)
      PROVE  Quiet(c) \/ Writes(c) \/ Removes(c)
  BY <1>5 DEF RunFlush, McpFlushDeferred, RunUnregister, McpUnregister, RunReset, RunReap, On, Leave, Quiet, Writes, Removes
<1>6. ASSUME NEW c \in Calls, WaitsOn(c)
      PROVE  Sleeps(c)
  BY <1>6 DEF WaitsOn, WaitForDelivery, PollPingTerminal, RunTrackWatch, RunWaitForReply, McpWaitForReply, On, Sleeps
<1>7. CASE Sends
  <2>1. PICK c \in Calls :
          /\ \/ Starts(c)
             \/ RunSend(c) \/ DoSendMCP(c) \/ RunMultiSend(c) \/ DoMultiSendMCP(c) \/ RunAsk(c) \/ McpAsk(c)
             \/ PingProbe(c) \/ McpPing(c) \/ RunResend(c) \/ DoResendMCP(c) \/ DoControl(c) \/ McpControl(c)
             \/ RunFlush(c) \/ McpFlushDeferred(c)
             \/ RunUnregister(c) \/ McpUnregister(c) \/ RunReset(c) \/ RunReap(c)
          /\ lost' = lost
    BY <1>7 DEF Sends
  <2>2. Quiet(c) \/ Pays(c) \/ Writes(c) \/ Removes(c)
    BY <2>1, <1>1, <1>2, <1>3, <1>4, <1>5
  <2> QED
    BY <2>1, <2>2
<1> QED
  BY <1>6, <1>7 DEF OutboxNext

-----------------------------------------------------------------------------
(* What the calls do *)

LEMMA CallUpdate ==
  ASSUME CallInv, NEW c \in Calls, NEW q, CallOK(q), call' = [call EXCEPT ![c] = q]
  PROVE  CallInv'
<1>1. q \in CallRows
  BY DEF CallOK
<1>2. call' \in [Calls -> CallRows]
  BY <1>1 DEF CallInv
<1>3. \A d \in Calls : call'[d] = IF d = c THEN q ELSE call[d]
  BY DEF CallInv
<1>4. \A d \in Calls : CallOK(call'[d])
  BY <1>3 DEF CallInv
<1> QED
  BY <1>2, <1>4 DEF CallInv

(* What CallOK says of a call that takes no part in the recipients.        *)
LEMMA Advanced ==
  ASSUME NEW q, CallOK(q), NEW s \in Pcs \ {"idle"}, s \notin {"resolve", "done"} => q.to \in Seq(Agents)
  PROVE  CallOK([q EXCEPT !.pc = s])
BY DEF CallOK, CallRows

LEMMA Moved ==
  ASSUME CallInv, NEW c \in Calls, NEW s \in Pcs \ {"idle"},
         s \notin {"resolve", "done"} => call[c].to \in Seq(Agents), Goto(c, s)
  PROVE  CallInv'
<1>1. CallOK(call[c])
  BY DEF CallInv
<1>2. CallOK([call[c] EXCEPT !.pc = s])
  BY <1>1, Advanced
<1>3. call' = [call EXCEPT ![c] = [call[c] EXCEPT !.pc = s]]
  BY DEF Goto
<1> QED
  BY <1>2, <1>3, CallUpdate

LEMMA OnwardOK ==
  ASSUME NEW q, CallOK(q), q.to \in Seq(Agents)
  PROVE  CallOK(Onward(q))
<1>1. CASE q.k < Len(q.to)
  <2>1. Onward(q) = [q EXCEPT !.pc = "stagger", !.k = q.k + 1]
    BY <1>1 DEF Onward
  <2>2. q.k + 1 \in Nat /\ q.k + 1 \in 1..Len(q.to)
    BY <1>1 DEF CallOK, CallRows
  <2> QED
    BY <2>1, <2>2 DEF CallOK, CallRows, Pcs
<1>2. CASE ~(q.k < Len(q.to))
  <2>1. Onward(q) = [q EXCEPT !.pc = "refund"] \/ Onward(q) = [q EXCEPT !.pc = "done"]
    BY <1>2 DEF Onward
  <2>2. "refund" \in Pcs \ {"idle"} /\ "done" \in Pcs \ {"idle"}
    BY DEF Pcs
  <2>3. CallOK([q EXCEPT !.pc = "refund"]) /\ CallOK([q EXCEPT !.pc = "done"])
    BY <2>2, Advanced
  <2> QED
    BY <2>1, <2>3
<1> QED
  BY <1>1, <1>2

LEMMA AddressedOK ==
  ASSUME NEW to \in Seq(Agents \cup {Operator}), NEW a \in Agents
  PROVE  Addressed(to, a) \in Seq(Agents) /\ Len(Addressed(to, a)) = Len(to)
<1>1. DOMAIN to = 1..Len(to) /\ Len(to) \in Nat
  OBVIOUS
<1>2. Addressed(to, a) \in [1..Len(to) -> Agents]
  BY <1>1 DEF Addressed
<1> QED
  BY <1>1, <1>2, SeqDef

LEMMA OffsetType ==
  ASSUME NEW to, NEW i \in Nat
  PROVE  Offset(to, i) \in Nat
<1> DEFINE pool == Pool(to[i])
           S == {j \in 1..(i - 1) : Pool(to[j]) = pool}
           excess == Cardinality(S) - ThrottleForPool(pool).threshold + 1
           off == excess * ThrottleForPool(pool).delay
<1>1. ThrottleForPool(pool) \in [threshold : Nat, delay : Nat]
  BY SendingAssumption DEF ThrottleForPool
<1>2. IsFiniteSet(1..(i - 1))
  BY FS_Interval
<1>3. Cardinality(S) \in Nat
  <2>1. S \subseteq 1..(i - 1)
    OBVIOUS
  <2> QED
    BY <1>2, <2>1, FS_Subset, FS_CardinalityType
<1>4. Offset(to, i) = IF pool \in Unthrottled \/ excess <= 0 THEN 0 ELSE IF off > MaxStagger THEN MaxStagger ELSE off
  BY DEF Offset
<1> HIDE DEF pool, S
<1>5. excess \in Int
  BY <1>1, <1>3
<1>6. MaxStagger \in Nat
  BY SendingAssumption
<1>7. excess > 0 => off \in Nat
  <2>1. ThrottleForPool(pool).delay \in Nat
    BY <1>1
  <2> HIDE DEF excess
  <2> QED
    BY <1>5, <2>1
<1> HIDE DEF excess, off
<1> QED
  BY <1>4, <1>5, <1>6, <1>7

(* The call's recipients once they are resolved. *)
LEMMA ResolvedOK ==
  ASSUME NEW q, CallOK(q), NEW to \in Seq(Agents), Len(to) = Len(q.req.to), NEW s \in {"fresh", "charge"}
  PROVE  CallOK([q EXCEPT !.to = to, !.pc = s])
<1>1. to \in Seq(Agents \cup {Operator})
  BY SeqMonotonic
<1>2. [q EXCEPT !.to = to, !.pc = s] \in CallRows
  BY <1>1 DEF CallOK, CallRows, Pcs
<1> QED
  BY <1>2 DEF CallOK, CallRows

LEMMA QuietCalls ==
  ASSUME CallInv, NEW c \in Calls, Quiet(c)
  PROVE  CallInv'
<1> DEFINE q == call[c]
<1>0. CallOK(q) /\ q \in CallRows
  BY DEF CallInv, CallOK
<1>a. ASSUME NEW s \in Pcs \ {"idle"}, q.pc \notin {"idle", "resolve", "done"} \/ s = "done", Goto(c, s)
      PROVE  CallInv'
  <2>1. s \notin {"resolve", "done"} => q.to \in Seq(Agents)
    BY <1>0, <1>a DEF CallOK
  <2> QED
    BY <1>a, <2>1, Moved
<1>b. ASSUME q.pc \notin {"idle", "resolve", "done"}
      PROVE  q.to \in Seq(Agents)
  BY <1>0, <1>b DEF CallOK
<1>1. CASE Begin(c)
  <2>1. Goto(c, First(q.req)) /\ q.pc = "idle"
    BY <1>1 DEF Begin, At
  <2>2. q.req.op \in Ops \ {"none"}
    BY <1>0, <2>1 DEF CallOK, WellFormedRequest, Requests
  <2>3. First(q.req) \in Pcs \ {"idle"} /\ (First(q.req) # "resolve" => q.req.op \notin {"send", "ask"})
    BY <2>2 DEF First, Ops, Pcs
  <2>4. First(q.req) \notin {"resolve", "done"} => q.to \in Seq(Agents)
    BY <1>0, <2>3 DEF CallOK
  <2> QED
    BY <2>1, <2>3, <2>4, Moved
<1>2. CASE ResolveOperator(c)
  <2> DEFINE to == q.req.to
  <2>1. to \in Seq(Agents \cup {Operator})
    BY <1>0 DEF CallOK, WellFormedRequest, Requests
  <2>a. ASSUME NEW t \in Seq(Agents), Len(t) = Len(to), Resolved(c, t)
        PROVE  CallInv'
    <3> DEFINE s == IF Len(t) > 1 THEN "fresh" ELSE "charge"
    <3>1. call' = [call EXCEPT ![c] = [q EXCEPT !.to = t, !.pc = s]]
      BY <2>a DEF Resolved
    <3>2. CallOK([q EXCEPT !.to = t, !.pc = s])
      BY <1>0, <2>a, ResolvedOK
    <3> QED
      BY <3>1, <3>2, CallUpdate
  <2>2. CASE ~ToOperator(to) /\ Resolved(c, to)
    <3>1. Len(to) \in Nat /\ to \in [1..Len(to) -> Agents]
      BY <2>1, <2>2, LenProperties DEF ToOperator
    <3>2. to \in Seq(Agents)
      BY <3>1, SeqDef
    <3> QED
      BY <2>2, <2>a, <3>2
  <2>3. ASSUME NEW a \in Targets, Resolved(c, Addressed(to, a))
        PROVE  CallInv'
    <3>1. a \in Agents
      BY DEF Targets, Observed, Slot
    <3>2. Addressed(to, a) \in Seq(Agents) /\ Len(Addressed(to, a)) = Len(to)
      BY <2>1, <3>1, AddressedOK
    <3> QED
      BY <2>3, <2>a, <3>2
  <2>4. CASE Goto(c, "done")
    BY <2>4, <1>a DEF Pcs
  <2> QED
    BY <1>2, <2>2, <2>3, <2>4 DEF ResolveOperator
<1>3. CASE Freshness(c)
  <2>1. q.pc = "fresh" /\ (Goto(c, "done") \/ Goto(c, "charge") \/ Goto(c, "insert"))
    BY <1>3 DEF Freshness, At
  <2> QED
    BY <2>1, <1>a DEF Pcs
<1>4. CASE WriteBudgetQuote(c)
  BY <1>4, <1>a DEF WriteBudgetQuote, Pcs
<1>5. CASE CheckRecipient(c)
  <2>1. q.pc = "check" /\ q.to \in Seq(Agents)
    BY <1>5, <1>b DEF CheckRecipient, At
  <2>2. CASE call' = [call EXCEPT ![c] = Onward(q)]
    BY <1>0, <2>1, <2>2, OnwardOK, CallUpdate
  <2>3. CASE Goto(c, "fresh") \/ Goto(c, "insert")
    BY <2>1, <2>3, <1>a DEF Pcs
  <2> QED
    BY <1>5, <2>2, <2>3 DEF CheckRecipient, Goto
<1>6. CASE Stagger(c)
  BY <1>6, <1>a DEF Stagger, At, Pcs
<1>7. CASE LeaveGuard(c)
  <2>1. q.pc = "leave" /\ (Goto(c, "stop") \/ Goto(c, "done"))
    BY <1>7 DEF LeaveGuard, At
  <2> QED
    BY <2>1, <1>a DEF Pcs
<1>8. CASE StopMailman(c)
  <2>1. q.pc = "stop" /\ (Goto(c, "purge") \/ Goto(c, "remove"))
    BY <1>8 DEF StopMailman, At
  <2> QED
    BY <2>1, <1>a DEF Pcs
<1> QED
  BY <1>1, <1>2, <1>3, <1>4, <1>5, <1>6, <1>7, <1>8 DEF Quiet

(* A quote is a number (chargeSend, sendbudget.go:81). *)
LEMMA QuoteType ==
  ASSUME StoreTypeOK, NEW a, NEW to \in Seq(Agents), NEW body \in Bodies
  PROVE  Quote(a, to, body) \in Nat
<1>1. Reached(a) \in SUBSET Payers
  BY SendingAssumption DEF Reached, Rows, StoreTypeOK, Envelopes
<1>2. {to[i] : i \in DOMAIN to} \in SUBSET Payers
  BY SendingAssumption, LenProperties
<1>3. Len(to) \in Nat /\ Length[body] \in Nat
  BY SendingAssumption, LenProperties
<1>4. Reached(a) \cup {to[i] : i \in DOMAIN to} \in SUBSET Payers
  BY <1>1, <1>2
<1> QED
  BY <1>1, <1>3, <1>4, CostType DEF Quote

LEMMA DueType ==
  ASSUME NEW to \in Seq(Agents), clock \in Nat
  PROVE  [i \in DOMAIN to |-> clock + Offset(to, i)] \in Seq(Nat)
<1>1. DOMAIN to = 1..Len(to) /\ Len(to) \in Nat
  BY LenProperties
<1>2. \A i \in 1..Len(to) : clock + Offset(to, i) \in Nat
  BY OffsetType
<1>3. [i \in DOMAIN to |-> clock + Offset(to, i)] \in [1..Len(to) -> Nat]
  BY <1>1, <1>2
<1> QED
  BY <1>1, <1>3, SeqDef

LEMMA PaysCalls ==
  ASSUME CallInv, StoreTypeOK, clock \in Nat, NEW c \in Calls, Pays(c)
  PROVE  CallInv'
<1> DEFINE q == call[c]
<1>0. CallOK(q) /\ q \in CallRows
  BY DEF CallInv, CallOK
<1>1. CASE Charge(c)
  <2> DEFINE cost == Quote(q.req.from, q.to, q.req.body)
             next == IF FanOut(c) THEN "stagger" ELSE "check"
             due == IF FanOut(c) THEN [i \in DOMAIN q.to |-> clock + Offset(q.to, i)] ELSE <<>>
  <2>1. q.pc = "charge"
    BY <1>1 DEF Charge, At
  <2>2. q.to \in Seq(Agents) /\ q.req.body \in Bodies
    BY <1>0, <2>1 DEF CallOK, WellFormedRequest, Requests
  <2>3. cost \in Nat
    BY <2>2, QuoteType
  <2>4. due \in Seq(Nat)
    BY <2>2, DueType, EmptySeq
  <2>5. next \in {"stagger", "check"}
    OBVIOUS
  <2>6. \/ call' = [call EXCEPT ![c] = [q EXCEPT !.pc = next, !.due = due]]
        \/ call' = [call EXCEPT ![c] = [q EXCEPT !.pc = next, !.charged = cost, !.due = due]]
        \/ Goto(c, "done")
    BY <1>1 DEF Charge
  <2> HIDE DEF cost, next, due
  <2>7. CallOK([q EXCEPT !.pc = next, !.due = due])
    BY <1>0, <2>2, <2>4, <2>5 DEF CallOK, CallRows, Pcs
  <2>8. CallOK([q EXCEPT !.pc = next, !.charged = cost, !.due = due])
    BY <1>0, <2>2, <2>3, <2>4, <2>5 DEF CallOK, CallRows, Pcs
  <2>9. CASE Goto(c, "done")
    BY <2>9, Moved DEF Pcs
  <2> QED
    BY <2>6, <2>7, <2>8, <2>9, CallUpdate
<1>2. CASE Refund(c)
  <2>1. call' = [call EXCEPT ![c] = [q EXCEPT !.pc = "done", !.charged = 0]]
    BY <1>2 DEF Refund
  <2>2. CallOK([q EXCEPT !.pc = "done", !.charged = 0])
    BY <1>0 DEF CallOK, CallRows, Pcs
  <2> QED
    BY <2>1, <2>2, CallUpdate
<1> QED
  BY <1>1, <1>2 DEF Pays

(* Where an insert leaves its call. *)
LEMMA InsertCalls ==
  ASSUME CallInv, StoreTypeOK, NEW c \in Calls, Insert(c)
  PROVE  CallInv'
<1> DEFINE q == call[c]
<1>0. CallOK(q) /\ q \in CallRows /\ q.to \in Seq(Agents)
  BY DEF CallInv, CallOK, Insert, At
<1>1. CASE Goto(c, "done")
  BY <1>1, Moved DEF Pcs
<1>2. ASSUME nextId \in Ids,
             LET ok == st'[nextId] # "refused"
                 p == IF ok THEN [q EXCEPT !.landed = @ + 1, !.row = nextId] ELSE q
             IN call' = [call EXCEPT ![c] = IF ok /\ Waits(q.req) THEN [p EXCEPT !.pc = "watch", !.watch = "none"]
                                            ELSE Onward(p)]
      PROVE  CallInv'
  <2> DEFINE p == IF st'[nextId] # "refused" THEN [q EXCEPT !.landed = @ + 1, !.row = nextId] ELSE q
  <2>1. q.landed + 1 \in Nat /\ nextId \in 0..MaxId
    BY <1>0, <1>2, StoreAssumption DEF CallRows
  <2>2. CallOK([q EXCEPT !.landed = @ + 1, !.row = nextId])
    BY <1>0, <2>1 DEF CallOK, CallRows
  <2>3. CallOK(p) /\ p.to \in Seq(Agents)
    BY <1>0, <2>2 DEF CallRows
  <2>4. call' = [call EXCEPT ![c] = [p EXCEPT !.pc = "watch", !.watch = "none"]] \/ call' = [call EXCEPT ![c] = Onward(p)]
    BY <1>2
  <2> HIDE DEF p
  <2>5. CallOK([p EXCEPT !.pc = "watch", !.watch = "none"])
    BY <2>3 DEF CallOK, CallRows, Pcs
  <2> QED
    BY <2>3, <2>4, <2>5, OnwardOK, CallUpdate
<1>3. nextId \in Ids \/ Dangling(c)
  BY DEF Insert, InsertMessagePair, InsertNotice, InsertMessage, InsertRow
<1> QED
  BY <1>1, <1>2, <1>3 DEF Insert

LEMMA WritesCalls ==
  ASSUME CallInv, StoreTypeOK, NEW c \in Calls, Writes(c) \/ Removes(c)
  PROVE  CallInv'
<1>1. CASE Insert(c)
  BY <1>1, InsertCalls
<1>2. CASE Goto(c, "done")
  BY <1>2, Moved DEF Pcs
<1>3. CASE PurgeQueue(c)
  <2>1. call[c].pc = "purge" /\ (Goto(c, "done") \/ Goto(c, "remove"))
    BY <1>3 DEF PurgeQueue, At
  <2>2. call[c].to \in Seq(Agents)
    BY <2>1 DEF CallInv, CallOK
  <2> QED
    BY <2>1, <2>2, Moved DEF Pcs
<1> QED
  BY <1>1, <1>2, <1>3 DEF Writes, Flush, Reset, Reap, Removes, RemoveAgent

LEMMA EndedCalls ==
  ASSUME CallInv, NEW c \in Calls, call[c].to \in Seq(Agents), Ended(c)
  PROVE  CallInv'
<1> DEFINE q == [call[c] EXCEPT !.watch = "none", !.rung = FALSE]
<1>1. CallOK(call[c])
  BY DEF CallInv
<1>2. CallOK(q) /\ q.to \in Seq(Agents)
  BY <1>1 DEF CallOK, CallRows
<1>3. call' = [call EXCEPT ![c] = Onward(q)]
  BY DEF Ended
<1> HIDE DEF q
<1> QED
  BY <1>2, <1>3, OnwardOK, CallUpdate

LEMMA SleepsCalls ==
  ASSUME CallInv, NEW c \in Calls, Sleeps(c)
  PROVE  CallInv'
<1> DEFINE q == call[c]
<1>0. CallOK(q)
  BY DEF CallInv
<1>1. q.pc \in {"watch", "read", "select"}
  BY DEF Sleeps, WaitSteps, Watch, Read, WakeByRing, WakeByPoll, Expire, At
<1>2. q.to \in Seq(Agents)
  BY <1>0, <1>1 DEF CallOK
<1>3. CASE Watch(c)
  <2> DEFINE next == IF q.req.op = "track" THEN "select" ELSE "read"
  <2>1. \/ call' = [call EXCEPT ![c] = [q EXCEPT !.pc = next, !.watch = "open", !.rung = FALSE]]
        \/ call' = [call EXCEPT ![c] = [q EXCEPT !.pc = next, !.watch = "nil"]]
    BY <1>3 DEF Watch
  <2>2. next \in {"select", "read"}
    OBVIOUS
  <2> HIDE DEF next
  <2>3. CallOK([q EXCEPT !.pc = next, !.watch = "open", !.rung = FALSE])
    BY <1>0, <1>2, <2>2 DEF CallOK, CallRows, Pcs
  <2>4. CallOK([q EXCEPT !.pc = next, !.watch = "nil"])
    BY <1>0, <1>2, <2>2 DEF CallOK, CallRows, Pcs
  <2> QED
    BY <2>1, <2>3, <2>4, CallUpdate
<1>4. CASE Read(c)
  <2>1. Ended(c) \/ Goto(c, "watch") \/ Goto(c, "select")
    BY <1>4 DEF Read
  <2> QED
    BY <1>2, <2>1, EndedCalls, Moved DEF Pcs
<1>5. CASE WakeByRing(c)
  <2>1. call' = [call EXCEPT ![c] = [q EXCEPT !.pc = "read", !.rung = FALSE]]
    BY <1>5 DEF WakeByRing
  <2>2. CallOK([q EXCEPT !.pc = "read", !.rung = FALSE])
    BY <1>0, <1>2 DEF CallOK, CallRows, Pcs
  <2> QED
    BY <2>1, <2>2, CallUpdate
<1>6. CASE WakeByPoll(c)
  BY <1>2, <1>6, Moved DEF WakeByPoll, Pcs
<1>7. CASE Expire(c)
  BY <1>2, <1>7, EndedCalls DEF Expire
<1> QED
  BY <1>3, <1>4, <1>5, <1>6, <1>7 DEF Sleeps, WaitSteps

LEMMA RingCalls ==
  ASSUME CallInv, NEW a \in Agents, Ring(a)
  PROVE  CallInv'
<1>1. \A c \in Calls : call'[c] = call[c] \/ call'[c] = [call[c] EXCEPT !.rung = TRUE]
  BY DEF Ring
<1>2. \A c \in Calls : CallOK([call[c] EXCEPT !.rung = TRUE])
  BY DEF CallInv, CallOK, CallRows
<1>3. \A c \in Calls : CallOK(call'[c])
  BY <1>1, <1>2 DEF CallInv
<1>4. call' \in [Calls -> CallRows]
  <2>1. \A c \in Calls : call'[c] \in CallRows
    BY <1>3 DEF CallOK
  <2>2. call' = [c \in Calls |-> call'[c]]
    BY DEF Ring
  <2> QED
    BY <2>1, <2>2
<1> QED
  BY <1>3, <1>4 DEF CallInv

LEMMA CallStep ==
  ASSUME CallInv, TableInv, PurseInv, [OutboxNext]_outboxVars
  PROVE  CallInv'
<1>0. StoreTypeOK /\ clock \in Nat
  BY DEF TableInv, PurseInv
<1>1. ASSUME call' = call
      PROVE  CallInv'
  BY <1>1 DEF CallInv
<1>2. CASE OutboxNext
  <2>1. ASSUME NEW c \in Calls, Quiet(c) \/ Pays(c) \/ Writes(c) \/ Removes(c) \/ Sleeps(c)
        PROVE  CallInv'
    BY <1>0, <2>1, QuietCalls, PaysCalls, WritesCalls, SleepsCalls
  <2>2. ASSUME NEW a \in Agents, Ring(a) \/ RingFails(a) \/ RetentionSweep(a)
        PROVE  CallInv'
    BY <1>1, <2>2, RingCalls DEF RingFails, RetentionSweep
  <2>3. CASE Tick \/ MailmanClaims \/ MailmanMarks \/ MailmanExits \/ Moves
    BY <1>1, <2>3 DEF Tick, MailmanClaims, MailmanMarks, MailmanExits, Moves
  <2> QED
    BY <1>2, <2>1, <2>2, <2>3, StepKinds
<1> QED
  BY <1>1, <1>2

-----------------------------------------------------------------------------
(* What becomes of the rows *)

LEMMA TablesTyped ==
  ASSUME StoreTypeOK, RowStep, agent' = agent
  PROVE  StoreTypeOK' /\ VerdictIffDelivered'
BY DEF RowStep, StoreTypeOK

(* Moving rows about, without deleting one. *)
LEMMA RowsKept ==
  ASSUME TableInv, RowStep, agent' = agent, parent' = parent, nextId' = nextId, Rows' = Rows
  PROVE  TableInv'
<1>1. StoreTypeOK' /\ VerdictIffDelivered'
  BY TablesTyped DEF TableInv
<1>2. RepliesHaveParents'
  BY DEF TableInv, RepliesHaveParents
<1> QED
  BY <1>1, <1>2 DEF TableInv

LEMMA MovedRowsKept ==
  ASSUME TableInv, NEW S \in SUBSET Ids, NEW s \in RowStates, s \notin {"deferred", "delivered"},
         \A i \in S : st[i] \in RowStates /\ s \in Successors[st[i]],
         MoveRows(S, s), verified' = verified, agent' = agent, parent' = parent
  PROVE  TableInv'
<1>1. RowStep
  BY MoveRowsStep DEF TableInv
<1>2. Rows' = Rows /\ nextId' = nextId
  BY DEF MoveRows, Rows
<1> QED
  BY <1>1, <1>2, RowsKept

(* A purge deletes a row only with everything that answers it, or not at   *)
(* all (the foreign key reply_to, schema.sql:18).                          *)
LEMMA PurgeKeepsParents ==
  ASSUME TableInv, NEW scope, NEW cutoff, NEW states \in SUBSET RowStates,
         Purge(scope, cutoff, states), agent' = agent, parent' = parent
  PROVE  TableInv'
<1> DEFINE D == Doomed(scope, cutoff, states)
<1>1. CASE Orphans(D) # {}
  <2>1. UNCHANGED msgVars
    BY <1>1 DEF Purge
  <2> QED
    BY <2>1 DEF TableInv, StoreTypeOK, VerdictIffDelivered, RepliesHaveParents, Rows
<1>2. CASE Orphans(D) = {}
  <2>1. MoveRows(D, "purged") /\ verified' = verified
    BY <1>2 DEF Purge, DeleteMessagesBefore, Doomed
  <2>2. D \in SUBSET Ids /\ \A i \in D : st[i] \in RowStates
    BY DEF Doomed
  <2>3. \A i \in D : "purged" \in Successors[st[i]]
    BY <2>2 DEF RowStates, Successors
  <2>4. RowStep
    BY <2>1, <2>2, <2>3, MoveRowsStep DEF TableInv
  <2>5. Rows' = Rows \ D /\ nextId' = nextId
    <3> HIDE DEF D
    <3> QED
      BY <2>1, <2>2 DEF MoveRows, Rows, RowStates
  <2>6. \A i \in Rows \ D : parent[i] \notin D
    BY <1>2 DEF Orphans
  <2> HIDE DEF D
  <2>7. RepliesHaveParents'
    BY <2>5, <2>6 DEF TableInv, RepliesHaveParents
  <2>8. StoreTypeOK' /\ VerdictIffDelivered'
    BY <2>4, TablesTyped DEF TableInv
  <2> QED
    BY <2>5, <2>7, <2>8 DEF TableInv
<1> QED
  BY <1>1, <1>2

(* What a call inserts is an envelope. *)
LEMMA EnvelopeType ==
  ASSUME CallInv, StoreTypeOK, NEW c \in Calls, call[c].pc = "insert",
         call[c].req.op \in {"send", "ask", "ping", "control", "resend"}
  PROVE  /\ Envelope(c) \in Envelopes
         /\ Paired(call[c].req) => Second(c) \in Envelopes
<1> DEFINE q == call[c]
           r == q.req
<1>1. CallOK(q)
  BY DEF CallInv
<1>2. /\ r.from \in Agents /\ r.body \in Bodies /\ r.command \in Bodies /\ r.second \in Bodies \cup {"none"}
      /\ r.after \in Triggers /\ r.priority \in Priorities /\ r.force \in BOOLEAN
      /\ r.re \in 0..MaxId /\ (r.op = "resend" => r.re # 0)
  BY <1>1 DEF CallOK, WellFormedRequest, Requests
<1>3. q.to \in Seq(Agents) /\ q.k \in 1..Len(q.to)
  BY <1>1 DEF CallOK
<1>4. q.to[q.k] \in Agents
  BY <1>3, ElementOfSeq
<1>5. r.op = "resend" => r.re \in Ids /\ env[r.re] \in Envelopes
  BY <1>2, StoreAssumption DEF StoreTypeOK
<1>6. Recipient(c) \in Agents
  BY <1>4, <1>5 DEF Recipient, Envelopes
<1> DEFINE e == [from |-> r.from, to |-> Recipient(c), kind |-> "message", priority |-> PriorityNormal,
                 after |-> "none", force |-> FALSE, body |-> r.body]
<1>7. e \in Envelopes
  BY <1>2, <1>6 DEF Envelopes, Kinds, Priorities, PriorityNormal, Triggers
<1>8. \/ Envelope(c) = [e EXCEPT !.from = env[r.re].from, !.body = env[r.re].body] /\ r.op = "resend"
      \/ Envelope(c) = [e EXCEPT !.kind = "ping"]
      \/ Envelope(c) = [e EXCEPT !.kind = "control", !.body = r.command, !.force = r.force]
      \/ Envelope(c) = e
      \/ Envelope(c) = [e EXCEPT !.after = r.after, !.priority = r.priority, !.force = r.force]
  BY DEF Envelope
<1> HIDE DEF e, r
<1>9. Envelope(c) \in Envelopes
  BY <1>2, <1>5, <1>7, <1>8 DEF Envelopes, Kinds
<1>10. ASSUME Paired(r)
       PROVE  Second(c) \in Envelopes
  <2>1. Second(c) = [Envelope(c) EXCEPT !.body = r.second, !.kind = IF r.command = "compact" THEN "message" ELSE "control"]
    BY DEF Second, r
  <2>2. r.second \in Bodies
    BY <1>2, <1>10 DEF Paired
  <2> QED
    BY <1>9, <2>1, <2>2 DEF Envelopes, Kinds
<1> QED
  BY <1>9, <1>10 DEF r

(* What an insert does to the table: new rows from nextId on, and no other *)
(* row is touched.                                                         *)
LEMMA InsertStep ==
  ASSUME CallInv, TableInv, NEW c \in Calls, Insert(c), ~Dangling(c),
         call[c].req.op \in {"send", "ask", "ping", "control", "resend"}
  PROVE  /\ RowStep /\ nextId \in Ids /\ nextId' > nextId /\ st'[nextId] \in {"queued", "deferred", "refused"}
         /\ \A i \in Ids : i < nextId => st'[i] = st[i] /\ env'[i] = env[i]
         /\ \A i \in Ids : i > nextId /\ st'[i] \in RowStates => call[c].req.op = "control"
<1>0. StoreTypeOK /\ VerdictIffDelivered /\ call[c].pc = "insert"
  BY DEF TableInv, Insert, At
<1>1. Envelope(c) \in Envelopes /\ (Paired(call[c].req) => Second(c) \in Envelopes)
  BY <1>0, EnvelopeType
<1>2. RefusedEnvelope(Envelope(c)) \in Envelopes
  BY <1>1 DEF RefusedEnvelope, Envelopes, Triggers, Priorities, PriorityNormal
<1>a. ASSUME NEW e \in Envelopes, NEW s \in {"queued", "deferred", "refused"},
             s = "deferred" => e.after # "none", InsertRow(e, s)
      PROVE  /\ RowStep /\ nextId \in Ids /\ nextId' > nextId /\ st'[nextId] = s
             /\ \A i \in Ids : i < nextId => st'[i] = st[i] /\ env'[i] = env[i]
             /\ \A i \in Ids : i > nextId => st'[i] \notin RowStates
  <2>1. RowStep
    BY <1>0, <1>a, InsertRowStep
  <2> QED
    BY <1>0, <1>a, <2>1, StoreAssumption DEF InsertRow, StoreTypeOK, RowStates
<1>3. CASE Paired(call[c].req) /\ InsertMessagePair(Envelope(c), Second(c))
  <2>1. RowStep
    BY <1>0, <1>1, <1>3, InsertPairStep
  <2>2. nextId \in Ids /\ nextId' > nextId
    BY <1>3, StoreAssumption DEF InsertMessagePair
  <2>3. st'[nextId] \in {"queued", "deferred", "refused"}
    BY <1>0, <1>3, <2>2 DEF InsertMessagePair, StoreTypeOK
  <2>4. \A i \in Ids : i < nextId => st'[i] = st[i] /\ env'[i] = env[i]
    BY <1>0, <1>3, <2>2 DEF InsertMessagePair, StoreTypeOK
  <2> QED
    BY <1>3, <2>1, <2>2, <2>3, <2>4 DEF Paired
<1>4. CASE InsertNotice(Envelope(c))
  BY <1>1, <1>4, <1>a DEF InsertNotice
<1>5. CASE InsertMessage(Envelope(c))
  BY <1>1, <1>2, <1>5, <1>a DEF InsertMessage
<1> QED
  BY <1>3, <1>4, <1>5 DEF Insert

LEMMA InsertTables ==
  ASSUME CallInv, TableInv, NEW c \in Calls, Insert(c), call[c].req.op \in {"send", "ask", "ping", "control", "resend"}
  PROVE  TableInv'
<1>1. CASE Dangling(c) /\ UNCHANGED <<msgVars, columns>>
  BY <1>1 DEF Insert, TableInv, StoreTypeOK, VerdictIffDelivered, RepliesHaveParents, Rows
<1>2. CASE ~Dangling(c)
  <2>0. StoreTypeOK /\ parent \in [Ids -> 0..MaxId] /\ RepliesHaveParents /\ nextId \in 1..(MaxId + 1)
    BY DEF TableInv, StoreTypeOK
  <2>1. RowStep /\ nextId' > nextId /\ \A i \in Ids : i < nextId => st'[i] = st[i]
    BY <1>2, InsertStep
  <2>2. parent' = [i \in Ids |-> IF i \in nextId..(nextId' - 1) /\ st'[i] # "refused" THEN ReplyTo(c) ELSE parent[i]]
    BY <1>2 DEF Insert, Stamp
  <2>3. ReplyTo(c) \in 0..MaxId /\ (ReplyTo(c) # 0 => ReplyTo(c) \in Rows)
    <3>1. ReplyTo(c) \in 0..MaxId
      <4>1. call[c].req.re \in 0..MaxId /\ (call[c].req.op = "resend" => call[c].req.re \in Ids)
        BY StoreAssumption DEF CallInv, CallOK, WellFormedRequest, Requests
      <4> QED
        BY <2>0, <4>1, StoreAssumption DEF ReplyTo
    <3> QED
      BY <1>2, <3>1 DEF Dangling
  <2>4. nextId' \in Nat /\ nextId' \in 1..(MaxId + 1)
    BY <2>1, StoreAssumption DEF RowStep
  <2>5. parent' \in [Ids -> 0..MaxId]
    BY <2>0, <2>2, <2>3
  <2>6. \A i \in Ids : i >= nextId' => parent'[i] = 0
    <3>1. \A i \in Ids : i >= nextId => parent[i] = 0
      BY DEF TableInv
    <3>2. SUFFICES ASSUME NEW i \in Ids, i >= nextId'
                   PROVE  parent'[i] = 0
      OBVIOUS
    <3>3. i \in Nat /\ nextId \in Nat
      BY <2>0, StoreAssumption
    <3>4. nextId' > nextId /\ nextId' \in Nat
      BY <2>1, <2>4
    <3>5. i \notin nextId..(nextId' - 1) /\ i >= nextId
      <4>1. \A x, n, m \in Nat : x >= m /\ m > n => x \notin n..(m - 1) /\ x >= n
        OBVIOUS
      <4> QED
        BY <3>2, <3>3, <3>4, <4>1
    <3> QED
      BY <2>2, <3>1, <3>5
  <2>7. Rows \subseteq Rows'
    BY <2>0, <2>1 DEF Rows, StoreTypeOK, RowStates
  <2>8. ASSUME NEW i \in Rows', parent'[i] # 0
        PROVE  parent'[i] \in Rows
    <3>1. i \in Ids /\ i < nextId'
      BY <2>1, <2>4, StoreAssumption DEF Rows, RowStep, RowStates
    <3>2. CASE i < nextId
      <4>1. i \in Rows /\ parent'[i] = parent[i]
        BY <2>0, <2>1, <2>2, <3>1, <3>2, StoreAssumption DEF Rows
      <4> QED
        BY <2>0, <2>8, <4>1 DEF RepliesHaveParents
    <3>3. CASE i >= nextId
      <4>1. parent'[i] \in {ReplyTo(c), parent[i]} /\ parent[i] = 0
        BY <2>2, <3>1, <3>3 DEF TableInv
      <4> QED
        BY <2>3, <2>8, <4>1
    <3> QED
      BY <2>0, <3>1, <3>2, <3>3, StoreAssumption
  <2>9. RepliesHaveParents'
    BY <2>7, <2>8 DEF RepliesHaveParents
  <2>10. StoreTypeOK' /\ VerdictIffDelivered'
    BY <2>0, <2>1, TablesTyped DEF Insert
  <2> QED
    BY <2>5, <2>6, <2>9, <2>10 DEF TableInv
<1> QED
  BY <1>1, <1>2 DEF Insert

LEMMA WritesTables ==
  ASSUME CallInv, TableInv, NEW c \in Calls, Writes(c)
  PROVE  TableInv'
<1>1. CASE Insert(c) /\ call[c].req.op \in {"send", "ask", "ping", "control", "resend"}
  BY <1>1, InsertTables
<1>2. CASE Flush(c)
  <2>1. PromoteDeferred(call[c].req.from, call[c].req.after) /\ agent' = agent /\ parent' = parent
    BY <1>2 DEF Flush
  <2> QED
    BY <2>1, MovedRowsKept DEF PromoteDeferred, DeferredRows, RowStates, Successors
<1>3. CASE PurgeQueue(c)
  <2>1. Purge(Scope(call[c].req), nextId, {"queued"}) /\ agent' = agent /\ parent' = parent
    BY <1>3 DEF PurgeQueue
  <2>2. {"queued"} \in SUBSET RowStates
    BY DEF RowStates
  <2> QED
    BY <2>1, <2>2, PurgeKeepsParents
<1>4. CASE Reset(c)
  <2> DEFINE r == call[c].req
             cutoff == IF r.age >= 0 THEN Cutoff(r.age) ELSE nextId
  <2>1. r.states \in SUBSET RowStates
    BY DEF CallInv, CallOK, WellFormedRequest, Requests
  <2>2. ResetStates(r) \in SUBSET RowStates
    BY <2>1 DEF ResetStates, RowStates
  <2>3. agent' = agent /\ parent' = parent /\ (UNCHANGED msgVars \/ Purge(Scope(r), cutoff, ResetStates(r)))
    BY <1>4 DEF Reset
  <2>4. CASE UNCHANGED msgVars
    BY <2>3, <2>4 DEF TableInv, StoreTypeOK, VerdictIffDelivered, RepliesHaveParents, Rows
  <2> HIDE DEF cutoff, r
  <2> QED
    BY <2>2, <2>3, <2>4, PurgeKeepsParents
<1>5. CASE Reap(c)
  <2>1. agent' = agent /\ parent' = parent
    BY <1>5 DEF Reap
  <2>2. CASE UNCHANGED msgVars
    BY <2>1, <2>2 DEF TableInv, StoreTypeOK, VerdictIffDelivered, RepliesHaveParents, Rows
  <2>3. ASSUME NEW scope, NEW cutoff, ReapUndeliverable(scope, cutoff)
        PROVE  TableInv'
    BY <2>1, <2>3, MovedRowsKept DEF ReapUndeliverable, RowStates, Successors
  <2> QED
    BY <1>5, <2>2, <2>3 DEF Reap
<1> QED
  BY <1>1, <1>2, <1>3, <1>4, <1>5 DEF Writes

LEMMA MailmanTables ==
  ASSUME TableInv, MailmanClaims \/ MailmanMarks
  PROVE  TableInv'
<1>0. agent' = agent /\ parent' = parent
  BY DEF MailmanClaims, MailmanMarks
<1>1. ASSUME NEW a, NEW i \in Ids, ClaimNext(a, i)
      PROVE  TableInv'
  BY <1>0, <1>1, MovedRowsKept DEF ClaimNext, Claimable, Queued, RowStates, Successors
<1>2. ASSUME NEW i \in Ids, MarkFailed(i)
      PROVE  TableInv'
  BY <1>0, <1>2, MovedRowsKept DEF MarkFailed, RowStates, Successors
<1>3. ASSUME NEW i \in Ids, NEW v \in {"verified", "unverified"}, MarkDelivered(i, v)
      PROVE  TableInv'
  <2>1. Delivery
    BY <1>3 DEF Delivery
  <2>2. RowStep
    BY <2>1, DeliveryStep DEF TableInv
  <2>3. Rows' = Rows /\ nextId' = nextId
    BY <1>3 DEF MarkDelivered, MoveRows, Rows, RowStates
  <2> QED
    BY <1>0, <2>2, <2>3, RowsKept
<1> QED
  BY <1>1, <1>2, <1>3 DEF MailmanClaims, MailmanMarks

LEMMA TableStep ==
  ASSUME CallInv, TableInv, [OutboxNext]_outboxVars
  PROVE  TableInv'
<1>1. ASSUME UNCHANGED <<storeVars, parent>>
      PROVE  TableInv'
  BY <1>1 DEF TableInv, StoreTypeOK, VerdictIffDelivered, RepliesHaveParents, Rows
<1>2. CASE OutboxNext
  <2>1. ASSUME NEW c \in Calls, Quiet(c) \/ Pays(c) \/ Sleeps(c)
        PROVE  TableInv'
    <3>1. UNCHANGED <<storeVars, parent>>
      BY <2>1 DEF Quiet, Begin, ResolveOperator, Freshness, WriteBudgetQuote, CheckRecipient, Stagger,
                  LeaveGuard, StopMailman, Pays, Charge, Refund, Sleeps, WaitSteps, Watch, Read,
                  WakeByRing, WakeByPoll, Expire
    <3> QED
      BY <1>1, <3>1
  <2>2. ASSUME NEW c \in Calls, Writes(c)
        PROVE  TableInv'
    BY <2>2, WritesTables
  <2>3. ASSUME NEW c \in Calls, Removes(c)
        PROVE  TableInv'
    <3>1. UNCHANGED <<msgVars, parent>>
      BY <2>3 DEF Removes, RemoveAgent
    <3>2. call[c].req.to[1] \in Agents
      <4>1. call[c].req.to \in Seq(Agents) /\ call[c].req.to # <<>>
        BY <2>3 DEF CallInv, CallOK, WellFormedRequest, Removes
      <4> QED
        BY <4>1
    <3>3. agent' \in [Agents -> AgentRows]
      <4>1. NewAgent \in AgentRows
        BY DEF NewAgent, AgentRows, Modes
      <4>2. agent \in [Agents -> AgentRows]
        BY DEF TableInv, StoreTypeOK
      <4>3. agent' = [agent EXCEPT ![call[c].req.to[1]] = NewAgent] \/ agent' = agent
        BY <2>3 DEF Removes, RemoveAgent, DeleteAgent
      <4> QED
        BY <4>1, <4>2, <4>3, <3>2
    <3> QED
      BY <3>1, <3>3 DEF TableInv, StoreTypeOK, VerdictIffDelivered, RepliesHaveParents, Rows
  <2>4. ASSUME NEW a \in Agents, Ring(a) \/ RingFails(a)
        PROVE  TableInv'
    BY <1>1, <2>4 DEF Ring, RingFails
  <2>5. ASSUME NEW a \in Agents, RetentionSweep(a)
        PROVE  TableInv'
    <3>1. Purge({a}, Cutoff(Retention), {"delivered", "failed"}) /\ agent' = agent /\ parent' = parent
      BY <2>5 DEF RetentionSweep
    <3>2. {"delivered", "failed"} \in SUBSET RowStates
      BY DEF RowStates
    <3> QED
      BY <3>1, <3>2, PurgeKeepsParents
  <2>6. CASE MailmanClaims \/ MailmanMarks
    BY <2>6, MailmanTables
  <2>7. CASE Tick \/ MailmanExits \/ Moves
    BY <1>1, <2>7 DEF Tick, MailmanExits, Moves
  <2> QED
    BY <1>2, <2>1, <2>2, <2>3, <2>4, <2>5, <2>6, <2>7, StepKinds
<1> QED
  BY <1>1, <1>2

-----------------------------------------------------------------------------
(* The purse *)

(* A call's step changes no other call, and is not one of a call that has  *)
(* ended.                                                                  *)
LEMMA OneCall ==
  ASSUME CallInv, NEW c \in Calls, Quiet(c) \/ Pays(c) \/ Writes(c) \/ Removes(c) \/ Sleeps(c)
  PROVE  call[c].pc # "done" /\ \A d \in Calls \ {c} : call'[d] = call[d]
<1>0. ASSUME NEW q, call' = [call EXCEPT ![c] = q]
      PROVE  \A d \in Calls \ {c} : call'[d] = call[d]
  BY <1>0 DEF CallInv
<1>1. CASE Quiet(c)
  BY <1>0, <1>1 DEF Quiet, Begin, ResolveOperator, Freshness, WriteBudgetQuote, CheckRecipient, Stagger,
                    LeaveGuard, StopMailman, Resolved, Goto, At
<1>2. CASE Pays(c)
  BY <1>0, <1>2 DEF Pays, Charge, Refund, Goto, At
<1>3. CASE Writes(c) \/ Removes(c)
  BY <1>0, <1>3 DEF Writes, Removes, RemoveAgent, Insert, Flush, PurgeQueue, Reset, Reap, Goto, At
<1>4. CASE Sleeps(c)
  BY <1>0, <1>4 DEF Sleeps, WaitSteps, Watch, Read, WakeByRing, WakeByPoll, Expire, Ended, Goto, At
<1> QED
  BY <1>1, <1>2, <1>3, <1>4

LEMMA DoneStays ==
  ASSUME CallInv, [OutboxNext]_outboxVars, NEW d \in Calls, call[d].pc = "done"
  PROVE  call'[d] = call[d]
<1>1. ASSUME NEW c \in Calls, Quiet(c) \/ Pays(c) \/ Writes(c) \/ Removes(c) \/ Sleeps(c)
      PROVE  call'[d] = call[d]
  BY <1>1, OneCall
<1>2. ASSUME NEW a \in Agents, Ring(a)
      PROVE  call'[d] = call[d]
  BY <1>2 DEF Ring, Waiters
<1>3. CASE call' = call
  BY <1>3
<1>4. CASE OutboxNext
  <2>1. \/ \E c \in Calls : Quiet(c) \/ Pays(c) \/ Writes(c) \/ Removes(c) \/ Sleeps(c)
        \/ \E a \in Agents : Ring(a)
        \/ call' = call
    BY <1>4, StepKinds DEF RingFails, RetentionSweep, Tick, MailmanClaims, MailmanMarks, MailmanExits, Moves
  <2> QED
    BY <1>1, <1>2, <1>3, <2>1
<1> QED
  BY <1>3, <1>4

LEMMA RefundedStays ==
  ASSUME CallInv, [OutboxNext]_outboxVars, NEW a, Refunded(a)
  PROVE  Refunded(a)'
<1>1. PICK c \in Calls : call[c].req.from = a /\ At(c, "done") /\ FanOut(c) /\ call[c].charged = 0
  BY DEF Refunded
<1>2. call'[c] = call[c]
  BY <1>1, DoneStays DEF At
<1> QED
  BY <1>1, <1>2 DEF Refunded, At, FanOut

LEMMA BalanceOK ==
  ASSUME PurseInv, NEW a \in Agents
  PROVE  Balance(a) \in Int /\ Overdraft <= Balance(a) /\ Balance(a) <= Capacity
<1>1. CASE budgets[a].known
  <2>1. /\ budgets[a].balance \in Int /\ clock - budgets[a].at \in Int
        /\ Overdraft <= budgets[a].balance /\ budgets[a].balance <= Capacity
    BY <1>1, SendingAssumption DEF PurseInv, BudgetRows, BalanceInBounds
  <2>2. Balance(a) = Refilled(budgets[a].balance, clock - budgets[a].at)
    BY <1>1 DEF Balance
  <2>3. /\ Refilled(budgets[a].balance, clock - budgets[a].at) \in Int
        /\ budgets[a].balance <= Refilled(budgets[a].balance, clock - budgets[a].at)
        /\ Refilled(budgets[a].balance, clock - budgets[a].at) <= Capacity
    BY <2>1, RefillBounds
  <2> QED
    BY <2>1, <2>2, <2>3, Rates
<1>2. CASE ~budgets[a].known
  BY <1>2, Rates DEF Balance
<1> QED
  BY <1>1, <1>2

(* Each bucket by itself: what an agent's row and meter say of each other. *)
PurseOf(a) ==
  /\ budgets[a] \in BudgetRows /\ meter[a] \in Int
  /\ budgets[a].known => Overdraft <= budgets[a].balance /\ budgets[a].balance <= Capacity
  /\ budgets[a].at <= clock
  /\ Balance(a) <= meter[a]
  /\ ~Refunded(a) => Balance(a) = meter[a]

LEMMA Purses ==
  PurseInv <=> /\ clock \in Nat /\ budgets \in [Agents -> BudgetRows] /\ meter \in [Agents -> Int]
               /\ \A a \in Agents : PurseOf(a)
BY SendingAssumption DEF PurseInv, PurseOf, BalanceInBounds, RefillsOnce

LEMMA PursesNext ==
  ASSUME clock' \in Nat, budgets' \in [Agents -> BudgetRows], meter' \in [Agents -> Int],
         \A a \in Agents : PurseOf(a)'
  PROVE  PurseInv'
BY SendingAssumption DEF PurseInv, PurseOf, BalanceInBounds, RefillsOnce

LEMMA ChargePurse ==
  ASSUME CallInv, StoreTypeOK, PurseInv, [OutboxNext]_outboxVars, NEW c \in Calls, Charge(c)
  PROVE  PurseInv'
<1>1. PICK b \in Agents : b = call[c].req.from
  BY DEF CallInv, CallOK, WellFormedRequest, Requests
<1>2. PICK cost \in Nat : cost = Quote(b, call[c].to, call[c].req.body)
  <2>1. call[c].req.body \in Bodies /\ call[c].to \in Seq(Agents)
    BY DEF CallInv, CallOK, WellFormedRequest, Requests, Charge, At
  <2> QED
    BY <2>1, QuoteType
<1>3. clock' = clock /\ \A a \in Agents : Refunded(a) => Refunded(a)'
  BY RefundedStays DEF Charge
<1>4. CASE UNCHANGED <<budgets, meter>>
  BY <1>3, <1>4 DEF PurseInv, BalanceInBounds, RefillsOnce, Balance
<1>5. CASE ChargeBudget(b, cost) /\ meter' = [meter EXCEPT ![b] = @ - cost]
  <2> DEFINE new == [known |-> TRUE, balance |-> Balance(b) - cost, at |-> clock]
  <2>1. Affordable(Balance(b), cost) /\ budgets' = [budgets EXCEPT ![b] = new]
    BY <1>5 DEF ChargeBudget
  <2>2. Balance(b) \in Int /\ Balance(b) <= Capacity /\ clock \in Nat
    BY <1>1, BalanceOK DEF PurseInv
  <2>3. /\ Balance(b) - cost \in Int /\ Overdraft <= Balance(b) - cost /\ Balance(b) - cost <= Capacity
        /\ new \in BudgetRows
    BY <1>2, <2>1, <2>2, Rates DEF Affordable, BudgetRows
  <2>4. budgets' \in [Agents -> BudgetRows] /\ meter' \in [Agents -> Int]
    <3> HIDE DEF new
    <3> QED
      BY <1>1, <1>2, <1>5, <2>1, <2>3 DEF PurseInv
  <2>5. budgets'[b] = new /\ meter'[b] = meter[b] - cost /\ meter[b] \in Int
    BY <1>1, <1>5, <2>1 DEF PurseInv
  <2>6. Balance(b)' = Balance(b) - cost
    <3>0. budgets'[b].known => Balance(b)' = Refilled(budgets'[b].balance, clock' - budgets'[b].at)
      BY DEF Balance
    <3>1. Balance(b)' = Refilled(Balance(b) - cost, clock - clock)
      BY <1>3, <2>5, <3>0
    <3>2. clock - clock = 0
      BY <2>2
    <3> QED
      BY <2>3, <3>1, <3>2, RefillNow
  <2>7. PurseOf(b)'
    <3>1. Balance(b) <= meter[b] /\ (~Refunded(b) => Balance(b) = meter[b])
      BY <1>1 DEF PurseInv, RefillsOnce
    <3>2. Balance(b)' <= meter'[b] /\ (~Refunded(b)' => Balance(b)' = meter'[b])
      BY <1>3, <2>2, <2>5, <2>6, <3>1
    <3>3. budgets'[b].at <= clock' /\ Overdraft <= budgets'[b].balance /\ budgets'[b].balance <= Capacity
      BY <1>3, <2>2, <2>3, <2>5
    <3> QED
      BY <1>1, <2>4, <3>2, <3>3 DEF PurseOf
  <2>8. ASSUME NEW a \in Agents \ {b}
        PROVE  PurseOf(a)'
    <3>1. budgets'[a] = budgets[a] /\ meter'[a] = meter[a]
      BY <1>5, <2>1 DEF PurseInv
    <3>2. PurseOf(a)
      BY Purses
    <3> QED
      BY <1>3, <3>1, <3>2 DEF PurseOf, Balance
  <2> QED
    BY <1>3, <2>2, <2>4, <2>7, <2>8, PursesNext
<1> QED
  BY <1>1, <1>2, <1>4, <1>5 DEF Charge

LEMMA RefundPurse ==
  ASSUME CallInv, PurseInv, [OutboxNext]_outboxVars, NEW c \in Calls, FanOut(c), Refund(c)
  PROVE  PurseInv'
<1>1. PICK b \in Agents : b = call[c].req.from
  BY DEF CallInv, CallOK, WellFormedRequest, Requests
<1>2. PICK x \in Nat : x = call[c].charged
  BY DEF CallInv, CallRows
<1>3. clock' = clock /\ clock \in Nat /\ RefundBudget(b, x) /\ meter' = [meter EXCEPT ![b] = Capped(@ + x)]
  BY <1>1, <1>2 DEF Refund, PurseInv
<1>4. Refunded(b)' /\ \A a \in Agents : Refunded(a) => Refunded(a)'
  <2>1. call' = [call EXCEPT ![c] = [call[c] EXCEPT !.pc = "done", !.charged = 0]]
    BY DEF Refund
  <2>2. call'[c] = [call[c] EXCEPT !.pc = "done", !.charged = 0]
    BY <2>1 DEF CallInv
  <2>3. /\ call'[c].pc = "done" /\ call'[c].charged = 0 /\ call'[c].to = call[c].to
        /\ call'[c].req = call[c].req
    BY <2>2 DEF CallInv, CallRows
  <2>4. Refunded(b)'
    BY <1>1, <2>3 DEF Refunded, At, FanOut
  <2> QED
    BY <2>4, RefundedStays
<1>5. /\ budgets[b] \in BudgetRows /\ meter[b] \in Int /\ budgets[b].balance \in Int
      /\ PurseOf(b)
  BY Purses DEF PurseInv, BudgetRows
<1>6. Balance(b) \in Int /\ Balance(b) <= Capacity /\ Balance(b) <= meter[b]
  BY <1>5, BalanceOK DEF PurseOf
<1>7. meter' \in [Agents -> Int] /\ meter'[b] = Capped(meter[b] + x)
  BY <1>3, <1>5, Rates DEF PurseInv, Capped
<1>8. ASSUME NEW a \in Agents \ {b}
      PROVE  PurseOf(a)'
  <2>1. budgets'[a] = budgets[a] /\ meter'[a] = meter[a]
    BY <1>3 DEF RefundBudget, PurseInv
  <2>2. PurseOf(a)
    BY Purses
  <2> QED
    BY <1>3, <1>4, <2>1, <2>2 DEF PurseOf, Balance
<1>9. CASE x > 0 /\ budgets[b].known
  <2>1. budgets' = [budgets EXCEPT ![b] = [budgets[b] EXCEPT !.balance = Capped(budgets[b].balance + x), !.at = clock]]
    BY <1>3, <1>9 DEF RefundBudget, PurseInv, BudgetRows
  <2>2. PICK n \in Int : n = Capped(budgets[b].balance + x)
    BY <1>5, Rates DEF Capped
  <2>3. budgets'[b] = [budgets[b] EXCEPT !.balance = n, !.at = clock]
    BY <2>1, <2>2 DEF PurseInv
  <2>4. /\ budgets' \in [Agents -> BudgetRows]
        /\ budgets'[b].known /\ budgets'[b].balance = n /\ budgets'[b].at = clock
    BY <1>3, <1>5, <1>9, <2>1, <2>2, <2>3 DEF PurseInv, BudgetRows
  <2>5. Overdraft <= budgets[b].balance /\ budgets[b].balance <= Capacity
    BY <1>5, <1>9 DEF PurseOf
  <2>6. Overdraft <= n /\ n <= Capacity
    BY <1>5, <2>2, <2>5, Rates DEF Capped
  <2>7. Balance(b)' = n
    <3>1. Balance(b)' = Refilled(n, clock' - clock)
      BY <2>4 DEF Balance
    <3>2. clock' - clock = 0
      BY <1>3
    <3> QED
      BY <2>6, <3>1, <3>2, RefillNow
  <2>8. budgets[b].balance <= Balance(b)
    <3>1. budgets[b].at \in Nat
      BY <1>5 DEF BudgetRows
    <3>2. clock - budgets[b].at \in Int
      BY <1>3, <3>1
    <3>3. Balance(b) = Refilled(budgets[b].balance, clock - budgets[b].at)
      BY <1>9 DEF Balance
    <3> QED
      BY <1>5, <2>5, <3>2, <3>3, RefillBounds
  <2>9. n <= meter'[b]
    BY <1>5, <1>6, <1>7, <2>2, <2>8, Rates DEF Capped
  <2>10. PurseOf(b)'
    <3>1. budgets'[b] \in BudgetRows /\ meter'[b] \in Int /\ budgets'[b].at <= clock'
      BY <1>3, <1>7, <2>4
    <3> QED
      BY <1>4, <2>4, <2>6, <2>7, <2>9, <3>1 DEF PurseOf
  <2> QED
    BY <1>3, <1>7, <1>8, <2>4, <2>10, PursesNext
<1>10. CASE ~(x > 0 /\ budgets[b].known)
  <2>1. budgets' = budgets
    BY <1>3, <1>10 DEF RefundBudget
  <2>2. Balance(b)' = Balance(b)
    BY <1>3, <2>1 DEF Balance
  <2>3. Balance(b) <= meter'[b]
    BY <1>6, <1>7, <1>5, Rates DEF Capped
  <2>4. PurseOf(b)'
    BY <1>3, <1>4, <1>5, <1>7, <2>1, <2>2, <2>3 DEF PurseOf
  <2>5. budgets' \in [Agents -> BudgetRows]
    BY <2>1 DEF PurseInv
  <2> QED
    BY <1>3, <1>7, <1>8, <2>4, <2>5, PursesNext
<1> QED
  BY <1>9, <1>10

(* A tick fills the lazily refilled balance by what it fills the meter. *)
LEMMA TickPurse ==
  ASSUME CallInv, PurseInv, [OutboxNext]_outboxVars, Tick
  PROVE  PurseInv'
<1>1. /\ clock' = clock + 1 /\ clock \in Nat /\ budgets' = budgets /\ meter' = [a \in Agents |-> Refilled(meter[a], 1)]
      /\ budgets \in [Agents -> BudgetRows]
  BY DEF Tick, PurseInv
<1>2. ASSUME NEW a \in Agents
      PROVE  PurseOf(a)' /\ meter'[a] \in Int
  <2>1. PurseOf(a) /\ meter[a] \in Int /\ budgets[a] \in BudgetRows
    BY Purses DEF PurseInv
  <2>2. Balance(a)' = Refilled(Balance(a), 1)
    <3>1. CASE budgets[a].known
      <4>1. budgets[a].balance \in Int /\ budgets[a].at \in Nat
        BY <2>1 DEF BudgetRows
      <4>2. PICK e \in Nat : e = clock - budgets[a].at
        BY <1>1, <2>1, <4>1 DEF PurseOf
      <4>3. clock' - budgets[a].at = e + 1
        BY <1>1, <4>1, <4>2
      <4>4. Refilled(budgets[a].balance, e + 1) = Refilled(Refilled(budgets[a].balance, e), 1)
        <5>1. budgets[a].balance <= Capacity
          BY <2>1, <3>1 DEF PurseOf
        <5> QED
          BY <4>1, <5>1, RefillSplits
      <4> QED
        BY <1>1, <3>1, <4>2, <4>3, <4>4 DEF Balance
    <3>2. CASE ~budgets[a].known
      <4>1. Balance(a) = Capacity /\ Balance(a)' = Capacity
        BY <1>1, <3>2 DEF Balance
      <4>2. Refilled(Capacity, 1) = Capacity
        <5>1. Capacity \in Int /\ Capacity <= Capacity
          BY Rates
        <5>2. Refilled(Capacity, 1) \in Int /\ Capacity <= Refilled(Capacity, 1) /\ Refilled(Capacity, 1) <= Capacity
          BY <5>1, RefillBounds
        <5> QED
          BY <5>1, <5>2
      <4> QED
        BY <4>1, <4>2
    <3> QED
      BY <3>1, <3>2
  <2>3. Balance(a) \in Int
    BY BalanceOK
  <2>4. meter'[a] = Refilled(meter[a], 1)
    BY <1>1
  <2>5. Refilled(Balance(a), 1) <= Refilled(meter[a], 1)
    BY <2>1, <2>3, RefillMonotone DEF PurseOf
  <2>6. Refilled(meter[a], 1) \in Int
    <3> DEFINE h == RecoveryPerTick * 1
    <3>1. h \in Nat /\ Refilled(meter[a], 1) = Legs(meter[a], h)
      BY <2>1, RefillLegs
    <3> HIDE DEF h
    <3> QED
      BY <2>1, <3>1, Rates DEF Legs, Capped
  <2>7. ~Refunded(a)' => ~Refunded(a)
    BY RefundedStays
  <2>8. budgets[a].at <= clock'
    BY <1>1, <2>1 DEF PurseOf, BudgetRows
  <2>9. Balance(a)' <= meter'[a] /\ (~Refunded(a)' => Balance(a)' = meter'[a])
    BY <2>1, <2>2, <2>4, <2>5, <2>7 DEF PurseOf
  <2> QED
    BY <1>1, <2>1, <2>4, <2>6, <2>8, <2>9 DEF PurseOf
<1>3. meter' \in [Agents -> Int]
  BY <1>1, <1>2
<1> QED
  BY <1>1, <1>2, <1>3, PursesNext

LEMMA PurseStep ==
  ASSUME CallInv, TableInv, PurseInv, [OutboxNext]_outboxVars
  PROVE  PurseInv'
<1>0. StoreTypeOK
  BY DEF TableInv
<1>1. ASSUME UNCHANGED <<clock, budgets, meter>>
      PROVE  PurseInv'
  <2>1. \A a \in Agents : Refunded(a) => Refunded(a)'
    BY RefundedStays
  <2> QED
    BY <1>1, <2>1 DEF PurseInv, BalanceInBounds, RefillsOnce, Balance
<1>2. CASE OutboxNext
  <2>1. ASSUME NEW c \in Calls, Quiet(c) \/ Writes(c) \/ Removes(c) \/ Sleeps(c)
        PROVE  PurseInv'
    <3>1. UNCHANGED <<clock, budgets, meter>>
      BY <2>1 DEF Quiet, Begin, ResolveOperator, Freshness, WriteBudgetQuote, CheckRecipient, Stagger,
                  LeaveGuard, StopMailman, Writes, Insert, Flush, PurgeQueue, Reset, Reap, Removes, RemoveAgent,
                  Sleeps, WaitSteps, Watch, Read, WakeByRing, WakeByPoll, Expire
    <3> QED
      BY <1>1, <3>1
  <2>2. ASSUME NEW c \in Calls, Pays(c)
        PROVE  PurseInv'
    BY <1>0, <2>2, ChargePurse, RefundPurse DEF Pays
  <2>3. ASSUME NEW a \in Agents, Ring(a) \/ RingFails(a) \/ RetentionSweep(a)
        PROVE  PurseInv'
    BY <1>1, <2>3 DEF Ring, RingFails, RetentionSweep
  <2>4. CASE Tick
    BY <2>4, TickPurse
  <2>5. CASE MailmanClaims \/ MailmanMarks \/ MailmanExits \/ Moves
    BY <1>1, <2>5 DEF MailmanClaims, MailmanMarks, MailmanExits, Moves
  <2> QED
    BY <1>2, <2>1, <2>2, <2>3, <2>4, <2>5, StepKinds
<1> QED
  BY <1>1, <1>2

-----------------------------------------------------------------------------
(* The advice of a refusal *)

(* What the balance will be is what it is now, refilled from now on. *)
LEMMA BalanceLater ==
  ASSUME CallInv, StoreTypeOK, PurseInv, NEW a \in Agents, NEW t \in Nat, NEW d \in Nat, t = clock + d
  PROVE  BalanceAt(a, t) = Refilled(Balance(a), d)
<1>0. Balance(a) \in Int /\ clock \in Nat /\ budgets[a] \in BudgetRows
  BY BalanceOK DEF PurseInv
<1>1. CASE budgets[a].known
  <2>1. /\ budgets[a].balance \in Int /\ budgets[a].at \in Nat /\ budgets[a].at <= clock
        /\ budgets[a].balance <= Capacity
    BY <1>0, <1>1, SendingAssumption DEF BudgetRows, PurseInv, BalanceInBounds
  <2>2. PICK e \in Nat : e = clock - budgets[a].at
    BY <1>0, <2>1
  <2>3. t - budgets[a].at = e + d
    BY <1>0, <2>1, <2>2
  <2>4. Refilled(budgets[a].balance, e + d) = Refilled(Refilled(budgets[a].balance, e), d)
    BY <2>1, RefillSplits
  <2> QED
    BY <1>1, <2>2, <2>3, <2>4 DEF BalanceAt, Balance
<1>2. CASE ~budgets[a].known
  <2>1. BalanceAt(a, t) = Capacity /\ Balance(a) = Capacity
    BY <1>2 DEF BalanceAt, Balance
  <2>2. Capacity \in Int /\ Capacity <= Capacity /\ d \in Int
    BY Rates
  <2>3. Refilled(Capacity, d) \in Int /\ Capacity <= Refilled(Capacity, d) /\ Refilled(Capacity, d) <= Capacity
    BY <2>2, RefillBounds
  <2> QED
    BY <2>1, <2>2, <2>3
<1> QED
  BY <1>1, <1>2

LEMMA RefusalAdvice ==
  ASSUME CallInv, StoreTypeOK, PurseInv, NEW a \in Agents, NEW cost \in Nat, cost <= Capacity - Overdraft,
         ~Affordable(Balance(a), cost), NEW w, w = TimeToAfford(Balance(a), cost),
         NEW t \in Nat, t >= clock + WhenAffordable(w) + (Unit(w) + 1) \div 2
  PROVE  Affordable(BalanceAt(a, t), cost)
<1>1. Balance(a) \in Int /\ clock \in Nat
  BY BalanceOK DEF PurseInv
<1>2. WhenAffordable(w) \in Nat /\ (Unit(w) + 1) \div 2 \in Nat
  <2>1. Unit(w) \in Nat /\ WhenAffordable(w) \in Nat
    BY <1>1, AdviceType
  <2> QED
    BY <2>1
<1>3. PICK d \in Nat : t = clock + d
  <2>1. t - clock \in Nat /\ t = clock + (t - clock)
    BY <1>1, <1>2
  <2> QED
    BY <2>1
<1>4. Affordable(Refilled(Balance(a), d), cost)
  <2>1. d >= WhenAffordable(w) + (Unit(w) + 1) \div 2
    BY <1>1, <1>2, <1>3
  <2> HIDE DEF Balance
  <2> QED
    BY <1>1, <2>1, AdviceSuffices
<1> QED
  BY <1>3, <1>4, BalanceLater

(* Advice for one sender. *)
AdviceOf(a) ==
  advice[a] # NoAdvice /\ advice[a].cost <= Capacity - Overdraft =>
    \A t \in Nat : t >= advice[a].until + HalfUnit(a) => Affordable(BalanceAt(a, t), advice[a].cost)

LEMMA AdviceElsewhere ==
  ASSUME AdviceInv, NEW a \in Agents, advice'[a] = advice[a], budgets'[a] = budgets[a]
  PROVE  AdviceOf(a)'
BY DEF AdviceInv, AdviceOf, BalanceAt, HalfUnit

LEMMA ChargeAdvice ==
  ASSUME CallInv, StoreTypeOK, PurseInv, AdviceInv, NEW c \in Calls, Charge(c)
  PROVE  AdviceInv'
<1>1. PICK b \in Agents : b = call[c].req.from
  BY DEF CallInv, CallOK, WellFormedRequest, Requests
<1>2. PICK cost \in Nat : cost = Quote(b, call[c].to, call[c].req.body)
  <2>1. call[c].req.body \in Bodies /\ call[c].to \in Seq(Agents)
    BY DEF CallInv, CallOK, WellFormedRequest, Requests, Charge, At
  <2> QED
    BY <2>1, QuoteType
<1>3. advice \in [Agents -> Advices]
  BY DEF AdviceInv
<1>4. CASE UNCHANGED <<budgets, advice>>
  BY <1>4 DEF AdviceInv, BalanceAt, HalfUnit
<1>5. CASE ChargeBudget(b, cost) /\ advice' = [advice EXCEPT ![b] = NoAdvice]
  <2>1. NoAdvice \in Advices
    BY DEF NoAdvice, Advices
  <2>2. advice' \in [Agents -> Advices] /\ advice'[b] = NoAdvice
    BY <1>3, <1>5, <2>1
  <2>3. AdviceOf(b)'
    BY <2>2 DEF AdviceOf
  <2>4. ASSUME NEW a \in Agents \ {b}
        PROVE  AdviceOf(a)'
    <3>1. budgets'[a] = budgets[a] /\ advice'[a] = advice[a]
      BY <1>3, <1>5 DEF ChargeBudget, PurseInv
    <3> QED
      BY <3>1, AdviceElsewhere
  <2> QED
    BY <2>2, <2>3, <2>4 DEF AdviceInv, AdviceOf
<1> DEFINE w == TimeToAfford(Balance(b), cost)
<1>6. CASE /\ ~Affordable(Balance(b), cost) /\ budgets' = budgets
           /\ advice' = [advice EXCEPT ![b] =
                           [cost |-> cost, until |-> clock + WhenAffordable(w), unit |-> Unit(w)]]
  <2>1. PICK u \in Nat, n \in Nat : u = clock + WhenAffordable(w) /\ n = Unit(w)
    <3>1. Balance(b) \in Int /\ clock \in Nat
      BY BalanceOK DEF PurseInv
    <3>2. WhenAffordable(w) \in Nat /\ Unit(w) \in Nat
      BY <1>6, <3>1, AdviceType
    <3> QED
      BY <3>1, <3>2
  <2>2. advice' = [advice EXCEPT ![b] = [cost |-> cost, until |-> u, unit |-> n]]
    BY <1>6, <2>1
  <2>3. /\ advice' \in [Agents -> Advices]
        /\ advice'[b].cost = cost /\ advice'[b].until = u /\ advice'[b].unit = n
    BY <1>3, <2>2 DEF Advices
  <2>4. ASSUME cost <= Capacity - Overdraft, NEW t \in Nat, t >= u + (n + 1) \div 2
        PROVE  Affordable(BalanceAt(b, t), cost)
    BY <1>6, <2>1, <2>4, RefusalAdvice
  <2>5. AdviceOf(b)'
    <3>1. \A t : BalanceAt(b, t)' = BalanceAt(b, t)
      BY <1>6 DEF BalanceAt
    <3>2. HalfUnit(b)' = (n + 1) \div 2
      BY <2>3 DEF HalfUnit
    <3> QED
      BY <2>3, <2>4, <3>1, <3>2 DEF AdviceOf
  <2>6. ASSUME NEW a \in Agents \ {b}
        PROVE  AdviceOf(a)'
    <3>1. budgets'[a] = budgets[a] /\ advice'[a] = advice[a]
      BY <1>3, <1>6, <2>2
    <3> QED
      BY <3>1, AdviceElsewhere
  <2> QED
    BY <2>3, <2>5, <2>6 DEF AdviceInv, AdviceOf
<1> QED
  BY <1>1, <1>2, <1>4, <1>5, <1>6 DEF Charge

LEMMA RefundAdvice ==
  ASSUME CallInv, PurseInv, AdviceInv, NEW c \in Calls, Refund(c)
  PROVE  AdviceInv'
<1>1. PICK b \in Agents : b = call[c].req.from
  BY DEF CallInv, CallOK, WellFormedRequest, Requests
<1>2. advice \in [Agents -> Advices] /\ advice' = [advice EXCEPT ![b] = NoAdvice]
  BY <1>1 DEF AdviceInv, Refund
<1>3. NoAdvice \in Advices
  BY DEF NoAdvice, Advices
<1>4. advice' \in [Agents -> Advices] /\ advice'[b] = NoAdvice
  BY <1>2, <1>3
<1>5. AdviceOf(b)'
  BY <1>4 DEF AdviceOf
<1>6. ASSUME NEW a \in Agents \ {b}
      PROVE  AdviceOf(a)'
  <2>1. budgets'[a] = budgets[a] /\ advice'[a] = advice[a]
    BY <1>1, <1>2 DEF Refund, RefundBudget, PurseInv
  <2> QED
    BY <2>1, AdviceElsewhere
<1> QED
  BY <1>4, <1>5, <1>6 DEF AdviceInv, AdviceOf

LEMMA AdviceStep ==
  ASSUME CallInv, TableInv, PurseInv, AdviceInv, [OutboxNext]_outboxVars
  PROVE  AdviceInv'
<1>0. StoreTypeOK
  BY DEF TableInv
<1>1. ASSUME UNCHANGED <<budgets, advice>>
      PROVE  AdviceInv'
  BY <1>1 DEF AdviceInv, BalanceAt, HalfUnit
<1>2. CASE OutboxNext
  <2>1. ASSUME NEW c \in Calls, Quiet(c) \/ Writes(c) \/ Removes(c) \/ Sleeps(c)
        PROVE  AdviceInv'
    <3>1. UNCHANGED <<budgets, advice>>
      BY <2>1 DEF Quiet, Begin, ResolveOperator, Freshness, WriteBudgetQuote, CheckRecipient, Stagger,
                  LeaveGuard, StopMailman, Writes, Insert, Flush, PurgeQueue, Reset, Reap, Removes, RemoveAgent,
                  Sleeps, WaitSteps, Watch, Read, WakeByRing, WakeByPoll, Expire
    <3> QED
      BY <1>1, <3>1
  <2>2. ASSUME NEW c \in Calls, Pays(c)
        PROVE  AdviceInv'
    BY <1>0, <2>2, ChargeAdvice, RefundAdvice DEF Pays
  <2>3. ASSUME NEW a \in Agents, Ring(a) \/ RingFails(a) \/ RetentionSweep(a)
        PROVE  AdviceInv'
    BY <1>1, <2>3 DEF Ring, RingFails, RetentionSweep
  <2>4. CASE Tick \/ MailmanClaims \/ MailmanMarks \/ MailmanExits \/ Moves
    BY <1>1, <2>4 DEF Tick, MailmanClaims, MailmanMarks, MailmanExits, Moves
  <2> QED
    BY <1>2, <2>1, <2>2, <2>3, <2>4, StepKinds
<1> QED
  BY <1>1, <1>2

-----------------------------------------------------------------------------
(* The doorbell *)

LEMMA OnwardFields ==
  ASSUME NEW q \in CallRows
  PROVE  /\ Onward(q).pc \in {"stagger", "refund", "done"}
         /\ Onward(q).watch = q.watch /\ Onward(q).req = q.req
<1>1. \/ Onward(q) = [q EXCEPT !.pc = "stagger", !.k = q.k + 1]
      \/ Onward(q) = [q EXCEPT !.pc = "refund"]
      \/ Onward(q) = [q EXCEPT !.pc = "done"]
  BY DEF Onward
<1> QED
  BY <1>1 DEF CallRows

(* Only a waiter falls asleep. *)
LEMMA NotAsleep ==
  ASSUME CallInv, NEW c \in Calls, Quiet(c) \/ Pays(c) \/ Writes(c) \/ Removes(c)
  PROVE  call'[c].pc # "select" /\ call'[c].watch \in {call[c].watch, "none"}
<1> DEFINE q == call[c]
<1>0. q \in CallRows /\ CallOK(q) /\ call \in [Calls -> CallRows]
  BY DEF CallInv
<1>a. ASSUME NEW s, s # "select", Goto(c, s)
      PROVE  call'[c].pc # "select" /\ call'[c].watch = q.watch
  <2>1. call'[c] = [q EXCEPT !.pc = s]
    BY <1>0, <1>a DEF Goto
  <2> QED
    BY <1>0, <1>a, <2>1 DEF CallRows
<1>b. ASSUME NEW p \in CallRows, p.watch = q.watch, call' = [call EXCEPT ![c] = Onward(p)]
      PROVE  call'[c].pc # "select" /\ call'[c].watch = q.watch
  <2>1. call'[c] = Onward(p)
    BY <1>0, <1>b
  <2> QED
    BY <1>b, <2>1, OnwardFields
<1>c. ASSUME NEW p, p.pc # "select", p.watch \in {q.watch, "none"}, call' = [call EXCEPT ![c] = p]
      PROVE  call'[c].pc # "select" /\ call'[c].watch \in {q.watch, "none"}
  BY <1>0, <1>c
<1>1. CASE Begin(c)
  <2>1. Goto(c, First(q.req)) /\ q.pc = "idle"
    BY <1>1 DEF Begin, At
  <2>2. q.req.op \in Ops \ {"none"}
    BY <1>0, <2>1 DEF CallOK, WellFormedRequest, Requests
  <2>3. First(q.req) # "select"
    BY <2>2 DEF First, Ops
  <2> QED
    BY <2>1, <2>3, <1>a
<1>2. CASE ResolveOperator(c)
  <2>1. Goto(c, "done") \/ \E to : Resolved(c, to)
    BY <1>2 DEF ResolveOperator
  <2>2. ASSUME NEW to, Resolved(c, to)
        PROVE  call'[c].pc # "select" /\ call'[c].watch = q.watch
    <3>1. PICK s \in {"fresh", "charge"} : call' = [call EXCEPT ![c] = [q EXCEPT !.to = to, !.pc = s]]
      BY <2>2 DEF Resolved
    <3>2. call'[c] = [q EXCEPT !.to = to, !.pc = s]
      BY <1>0, <3>1
    <3> QED
      BY <1>0, <3>2 DEF CallRows
  <2> QED
    BY <2>1, <2>2, <1>a
<1>3. CASE Freshness(c) \/ WriteBudgetQuote(c) \/ Stagger(c) \/ LeaveGuard(c) \/ StopMailman(c)
  <2>1. \E s : s # "select" /\ Goto(c, s)
    BY <1>3 DEF Freshness, WriteBudgetQuote, Stagger, LeaveGuard, StopMailman
  <2> QED
    BY <2>1, <1>a
<1>4. CASE CheckRecipient(c)
  <2>1. call' = [call EXCEPT ![c] = Onward(q)] \/ Goto(c, "fresh") \/ Goto(c, "insert")
    BY <1>4 DEF CheckRecipient, Goto
  <2> QED
    BY <1>0, <2>1, <1>a, <1>b
<1>5. CASE Charge(c)
  <2> DEFINE next == IF FanOut(c) THEN "stagger" ELSE "check"
             dues == IF FanOut(c) THEN [i \in DOMAIN q.to |-> clock + Offset(q.to, i)] ELSE <<>>
             price == Quote(q.req.from, q.to, q.req.body)
  <2>1. \/ call' = [call EXCEPT ![c] = [q EXCEPT !.pc = next, !.due = dues]]
        \/ call' = [call EXCEPT ![c] = [q EXCEPT !.pc = next, !.charged = price, !.due = dues]]
        \/ Goto(c, "done")
    BY <1>5 DEF Charge
  <2>4. next \in {"stagger", "check"}
    OBVIOUS
  <2> HIDE DEF next, dues, price
  <2>2. ASSUME NEW s \in {"stagger", "check"}, NEW due, call' = [call EXCEPT ![c] = [q EXCEPT !.pc = s, !.due = due]]
        PROVE  call'[c].pc # "select" /\ call'[c].watch = q.watch
    <3>1. call'[c] = [q EXCEPT !.pc = s, !.due = due]
      BY <1>0, <2>2
    <3> QED
      BY <1>0, <3>1 DEF CallRows
  <2>3. ASSUME NEW s \in {"stagger", "check"}, NEW due, NEW cost,
               call' = [call EXCEPT ![c] = [q EXCEPT !.pc = s, !.charged = cost, !.due = due]]
        PROVE  call'[c].pc # "select" /\ call'[c].watch = q.watch
    <3>1. call'[c] = [q EXCEPT !.pc = s, !.charged = cost, !.due = due]
      BY <1>0, <2>3
    <3> QED
      BY <1>0, <3>1 DEF CallRows
  <2> QED
    BY <2>1, <2>2, <2>3, <2>4, <1>a
<1>6. CASE Refund(c)
  <2>1. call'[c] = [q EXCEPT !.pc = "done", !.charged = 0]
    BY <1>0, <1>6 DEF Refund
  <2> QED
    BY <1>0, <2>1 DEF CallRows
<1>7. CASE Insert(c)
  <2>1. CASE Goto(c, "done")
    BY <2>1, <1>a
  <2>2. ASSUME NEW p \in {q, [q EXCEPT !.landed = @ + 1, !.row = nextId]},
               \/ call' = [call EXCEPT ![c] = [p EXCEPT !.pc = "watch", !.watch = "none"]]
               \/ call' = [call EXCEPT ![c] = Onward(p)]
        PROVE  call'[c].pc # "select" /\ call'[c].watch \in {q.watch, "none"}
    <3>1. p.watch = q.watch /\ [p EXCEPT !.pc = "watch", !.watch = "none"].pc = "watch"
          /\ [p EXCEPT !.pc = "watch", !.watch = "none"].watch = "none"
      BY <1>0 DEF CallRows
    <3>2. Onward(p).pc \in {"stagger", "refund", "done"} /\ Onward(p).watch = p.watch
      <4>1. \/ Onward(p) = [p EXCEPT !.pc = "stagger", !.k = p.k + 1]
            \/ Onward(p) = [p EXCEPT !.pc = "refund"]
            \/ Onward(p) = [p EXCEPT !.pc = "done"]
        BY DEF Onward
      <4> QED
        BY <1>0, <4>1 DEF CallRows
    <3> QED
      BY <2>2, <3>1, <3>2, <1>c
  <2>3. \/ Goto(c, "done")
        \/ \E p \in {q, [q EXCEPT !.landed = @ + 1, !.row = nextId]} :
             \/ call' = [call EXCEPT ![c] = [p EXCEPT !.pc = "watch", !.watch = "none"]]
             \/ call' = [call EXCEPT ![c] = Onward(p)]
    BY <1>7 DEF Insert
  <2> QED
    BY <2>1, <2>2, <2>3
<1>8. CASE Flush(c) \/ PurgeQueue(c) \/ Reset(c) \/ Reap(c) \/ RemoveAgent(c)
  <2>1. \E s : s # "select" /\ Goto(c, s)
    BY <1>8 DEF Flush, PurgeQueue, Reset, Reap, RemoveAgent
  <2> QED
    BY <2>1, <1>a
<1> QED
  BY <1>1, <1>2, <1>3, <1>4, <1>5, <1>6, <1>7, <1>8 DEF Quiet, Pays, Writes, Removes

(* What a waiter's step leaves behind. *)
LEMMA SleepStep ==
  ASSUME CallInv, RingInv, NEW c \in Calls, Sleeps(c)
  PROVE  /\ call'[c].pc = "select" => call'[c].watch # "none"
         /\ call'[c].watch = "nil" => lost'
         /\ call'[c].req = call[c].req
         /\ call'[c].pc = "select" /\ call[c].req.op = "wait" => Replies(c) = {}
         /\ UNCHANGED <<storeVars, parent, rings>> /\ (lost => lost')
<1> DEFINE q == call[c]
<1>0. /\ q \in CallRows /\ call \in [Calls -> CallRows]
      /\ (q.pc = "select" => q.watch # "none") /\ (q.watch = "nil" => lost)
  BY DEF CallInv, RingInv, At
<1>1. UNCHANGED <<storeVars, parent, rings>>
  BY DEF Sleeps, WaitSteps, Watch, Read, WakeByRing, WakeByPoll, Expire
<1>a. ASSUME Ended(c)
      PROVE  call'[c].pc # "select" /\ call'[c].watch = "none" /\ call'[c].req = q.req
  <2> DEFINE p == [q EXCEPT !.watch = "none", !.rung = FALSE]
  <2>1. p \in CallRows /\ p.watch = "none" /\ p.req = q.req
    BY <1>0 DEF CallRows
  <2>2. call'[c] = Onward(p)
    BY <1>0, <1>a DEF Ended
  <2> HIDE DEF p
  <2> QED
    BY <2>1, <2>2, OnwardFields
<1>b. ASSUME NEW s, Goto(c, s)
      PROVE  call'[c].pc = s /\ call'[c].watch = q.watch /\ call'[c].req = q.req
  <2>1. call'[c] = [q EXCEPT !.pc = s]
    BY <1>0, <1>b DEF Goto
  <2> QED
    BY <1>0, <2>1 DEF CallRows
<1>2. CASE Watch(c)
  <2> DEFINE next == IF q.req.op = "track" THEN "select" ELSE "read"
  <2>1. CASE call' = [call EXCEPT ![c] = [q EXCEPT !.pc = next, !.watch = "open", !.rung = FALSE]] /\ UNCHANGED lost
    <3>1. call'[c] = [q EXCEPT !.pc = next, !.watch = "open", !.rung = FALSE]
      BY <1>0, <2>1
    <3>2. call'[c].pc = next /\ call'[c].watch = "open" /\ call'[c].req = q.req
      BY <1>0, <3>1 DEF CallRows
    <3> QED
      BY <1>1, <2>1, <3>2
  <2>2. CASE call' = [call EXCEPT ![c] = [q EXCEPT !.pc = next, !.watch = "nil"]] /\ lost' = TRUE
    <3>1. call'[c] = [q EXCEPT !.pc = next, !.watch = "nil"]
      BY <1>0, <2>2
    <3>2. call'[c].pc = next /\ call'[c].watch = "nil" /\ call'[c].req = q.req
      BY <1>0, <3>1 DEF CallRows
    <3> QED
      BY <1>1, <2>2, <3>2
  <2> QED
    BY <1>2, <2>1, <2>2 DEF Watch
<1>3. CASE Read(c)
  <2>1. lost' = lost
    BY <1>3 DEF Read
  <2>2. CASE Ended(c)
    BY <1>1, <1>a, <2>1, <2>2
  <2>3. CASE ~Answered(c) /\ Goto(c, IF q.watch = "none" THEN "watch" ELSE "select")
    <3>1. q.req.op = "wait" => Replies(c) = {}
      BY <2>3 DEF Answered
    <3> QED
      BY <1>0, <1>1, <1>b, <2>1, <2>3, <3>1
  <2> QED
    BY <1>3, <2>2, <2>3 DEF Read
<1>4. CASE WakeByRing(c)
  <2>1. call'[c] = [q EXCEPT !.pc = "read", !.rung = FALSE] /\ lost' = lost
    BY <1>0, <1>4 DEF WakeByRing
  <2>2. call'[c].pc = "read" /\ call'[c].watch = q.watch /\ call'[c].req = q.req
    BY <1>0, <2>1 DEF CallRows
  <2> QED
    BY <1>0, <1>1, <2>1, <2>2
<1>5. CASE WakeByPoll(c)
  <2>1. Goto(c, "read") /\ lost' = lost
    BY <1>5 DEF WakeByPoll
  <2> QED
    BY <1>0, <1>1, <1>b, <2>1
<1>6. CASE Expire(c)
  <2>1. Ended(c) /\ lost' = lost
    BY <1>6 DEF Expire
  <2> QED
    BY <1>1, <1>a, <2>1
<1> QED
  BY <1>2, <1>3, <1>4, <1>5, <1>6 DEF Sleeps, WaitSteps

(* A sleeper nobody rang and nobody is about to ring. *)
Dozing(c) == call[c].req.op = "wait" /\ At(c, "select") /\ ~call[c].rung /\ call[c].req.from \notin rings

LEMMA Dozers == NoMissedRing <=> (~lost => \A c \in Calls : Dozing(c) => Replies(c) = {})
BY DEF NoMissedRing, Waiters, Dozing, Key, Answered, At

LEMMA DozersNext ==
  ASSUME ~lost' => \A c \in Calls : Dozing(c)' => Replies(c)' = {}
  PROVE  NoMissedRing'
BY DEF NoMissedRing, Waiters, Dozing, Key, Answered, At

(* Rows that are visible to the reader of a call: no reply comes from      *)
(* moving them about.                                                      *)
Visible == {i \in Ids : st[i] \in RowStates /\ st[i] # "deferred"}

LEMMA RepliesShrink ==
  ASSUME NEW d \in Calls, call'[d] = call[d], env' = env, parent' = parent, Visible' \subseteq Visible, Replies(d) = {}
  PROVE  Replies(d)' = {}
BY DEF Replies, Rows, Visible

(* What the clients see may only become more by an insert or a promotion.  *)
LEMMA VisibleShrinks ==
  ASSUME NEW S, NEW s, MoveRows(S, s), S \subseteq Visible \/ s = "purged"
  PROVE  Visible' \subseteq Visible
BY DEF MoveRows, Visible, RowStates

LEMMA PurgeVisible ==
  ASSUME NEW scope, NEW cutoff, NEW states, Purge(scope, cutoff, states)
  PROVE  Visible' \subseteq Visible /\ env' = env
<1>1. CASE UNCHANGED msgVars
  BY <1>1 DEF Visible
<1>2. ASSUME NEW S, MoveRows(S, "purged")
      PROVE  Visible' \subseteq Visible /\ env' = env
  <2>1. Visible' \subseteq Visible
    BY <1>2, VisibleShrinks
  <2> QED
    BY <1>2, <2>1 DEF MoveRows
<1> QED
  BY <1>1, <1>2 DEF Purge, DeleteMessagesBefore

LEMMA Rung ==
  ASSUME NEW d \in Calls, call[d].req.op = "wait", NEW a
  PROVE  Announced(a) = rings \cup {a}
BY DEF Announced

(* A new answer rings for whom it is for (Stamp and Announced: the row is  *)
(* committed before its doorbell is due).                                  *)
LEMMA InsertReplies ==
  ASSUME CallInv, TableInv, NEW c \in Calls, Insert(c),
         call[c].req.op \in {"send", "ask", "ping", "control", "resend"},
         NEW d \in Calls, call'[d] = call[d], call[d].req.op = "wait", call[d].req.from \notin rings', Replies(d) = {}
  PROVE  Replies(d)' = {}
<1>1. CASE Dangling(c)
  <2>1. env' = env /\ st' = st /\ parent' = parent
    BY <1>1 DEF Insert
  <2> QED
    BY <2>1, RepliesShrink DEF Visible
<1>2. CASE ~Dangling(c)
  <2>1. /\ nextId \in Ids /\ nextId' > nextId /\ st'[nextId] \in {"queued", "deferred", "refused"}
        /\ \A i \in Ids : i < nextId => st'[i] = st[i] /\ env'[i] = env[i]
        /\ \A i \in Ids : i > nextId /\ st'[i] \in RowStates => call[c].req.op = "control"
    BY <1>2, InsertStep
  <2>2. /\ parent' = [i \in Ids |-> IF i \in nextId..(nextId' - 1) /\ st'[i] # "refused" THEN ReplyTo(c) ELSE parent[i]]
        /\ rings' = IF st'[nextId] = "queued" THEN Announced(env'[nextId].to) ELSE rings
    BY <1>2 DEF Insert, Stamp
  <2>3. call[d].req.re # 0
    BY DEF CallInv, CallOK, WellFormedRequest
  <2>4. \A i \in Ids : i >= nextId => parent[i] = 0
    BY DEF TableInv
  <2>5. SUFFICES ASSUME NEW i \in Ids, st'[i] \in RowStates, st'[i] # "deferred", env'[i].to = call[d].req.from,
                        parent'[i] = call[d].req.re
                 PROVE  FALSE
    BY DEF Replies, Rows
  <2>6. CASE i < nextId
    <3>1. i \notin nextId..(nextId' - 1)
      BY <2>1, <2>6, StoreAssumption
    <3>2. parent'[i] = parent[i] /\ st'[i] = st[i] /\ env'[i] = env[i]
      BY <2>1, <2>2, <2>6, <3>1
    <3> QED
      BY <2>5, <3>2 DEF Replies, Rows
  <2>7. CASE i = nextId
    <3>1. st'[nextId] = "queued" => call[d].req.from \in rings'
      BY <2>2, <2>5, <2>7, Rung
    <3>2. st'[nextId] = "refused" => parent'[i] = 0
      BY <2>1, <2>2, <2>4, <2>7
    <3> QED
      BY <2>1, <2>3, <2>5, <2>7, <3>1, <3>2
  <2>8. CASE i > nextId
    <3>1. ReplyTo(c) = 0
      BY <2>1, <2>5, <2>8 DEF ReplyTo
    <3>2. parent[i] = 0
      BY <2>1, <2>4, <2>8
    <3> QED
      BY <2>2, <2>3, <2>5, <3>1, <3>2
  <2> QED
    BY <2>1, <2>6, <2>7, <2>8, StoreAssumption
<1> QED
  BY <1>1, <1>2

LEMMA FlushReplies ==
  ASSUME CallInv, TableInv, NEW c \in Calls, Flush(c),
         NEW d \in Calls, call'[d] = call[d], call[d].req.op = "wait", call[d].req.from \notin rings', Replies(d) = {}
  PROVE  Replies(d)' = {}
<1> DEFINE r == call[c].req
           D == DeferredRows(r.from, r.after)
<1>1. /\ st' = [i \in Ids |-> IF i \in D THEN "queued" ELSE st[i]]
      /\ env' = env /\ parent' = parent /\ rings' = IF D # {} THEN Announced(r.from) ELSE rings
  BY DEF Flush, PromoteDeferred, MoveRows
<1>2. \A i \in D : env[i].to = r.from
  BY DEF DeferredRows
<1>3. D # {} => r.from \in rings'
  BY <1>1, Rung
<1> HIDE DEF D, r
<1>4. \A i \in Ids : i \in D => env[i].to # call[d].req.from
  BY <1>2, <1>3
<1> QED
  BY <1>1, <1>4 DEF Replies, Rows

LEMMA WritesReplies ==
  ASSUME CallInv, TableInv, NEW c \in Calls, Writes(c),
         NEW d \in Calls, call'[d] = call[d], call[d].req.op = "wait", call[d].req.from \notin rings', Replies(d) = {}
  PROVE  Replies(d)' = {}
<1>1. CASE Insert(c) /\ call[c].req.op \in {"send", "ask", "ping", "control", "resend"}
  BY <1>1, InsertReplies
<1>2. CASE Flush(c)
  BY <1>2, FlushReplies
<1>a. ASSUME NEW scope, NEW cutoff, NEW states, Purge(scope, cutoff, states)
      PROVE  Visible' \subseteq Visible /\ env' = env
  BY <1>a, PurgeVisible
<1>b. ASSUME UNCHANGED msgVars
      PROVE  Visible' \subseteq Visible /\ env' = env
  BY <1>b DEF Visible
<1>3. CASE PurgeQueue(c) \/ Reset(c)
  <2>1. parent' = parent /\ (UNCHANGED msgVars \/ \E scope, cutoff, states : Purge(scope, cutoff, states))
    BY <1>3 DEF PurgeQueue, Reset
  <2> QED
    BY <1>a, <1>b, <2>1, RepliesShrink
<1>4. CASE Reap(c)
  <2>1. parent' = parent /\ (UNCHANGED msgVars \/ \E scope, cutoff : ReapUndeliverable(scope, cutoff))
    BY <1>4 DEF Reap
  <2>2. ASSUME NEW scope, NEW cutoff, ReapUndeliverable(scope, cutoff)
        PROVE  Visible' \subseteq Visible /\ env' = env
    <3>1. PICK S \in SUBSET Ids : MoveRows(S, "failed") /\ \A i \in S : st[i] = "queued"
      BY <2>2 DEF ReapUndeliverable
    <3>2. S \subseteq Visible
      BY <3>1 DEF Visible, RowStates
    <3> QED
      BY <3>1, <3>2, VisibleShrinks DEF MoveRows
  <2> QED
    BY <1>b, <2>1, <2>2, RepliesShrink
<1> QED
  BY <1>1, <1>2, <1>3, <1>4 DEF Writes

LEMMA RingStep ==
  ASSUME CallInv, TableInv, RingInv, [OutboxNext]_outboxVars
  PROVE  RingInv'
<1>0. /\ \A c \in Calls : (At(c, "select") => call[c].watch # "none") /\ (call[c].watch = "nil" => lost)
      /\ ~lost => \A c \in Calls : Dozing(c) => Replies(c) = {}
  BY Dozers DEF RingInv
\* Steps of a call that is not asleep: no sleeper is woken or put to sleep.
<1>a. ASSUME NEW c \in Calls, call'[c].pc # "select", call'[c].watch \in {call[c].watch, "none"},
             \A d \in Calls \ {c} : call'[d] = call[d], lost' = lost,
             \A d \in Calls \ {c} : call[d].req.op = "wait" /\ call[d].req.from \notin rings' /\ Replies(d) = {}
                                    => Replies(d)' = {},
             rings \subseteq rings'
      PROVE  RingInv'
  <2>1. \A d \in Calls : (At(d, "select")' => call'[d].watch # "none") /\ (call'[d].watch = "nil" => lost')
    BY <1>0, <1>a DEF At
  <2>2. ASSUME ~lost', NEW d \in Calls, Dozing(d)'
        PROVE  Replies(d)' = {}
    <3>1. d # c /\ call'[d] = call[d]
      BY <1>a, <2>2 DEF Dozing, At
    <3>2. Dozing(d) /\ call[d].req.op = "wait" /\ call[d].req.from \notin rings'
      BY <1>a, <2>2, <3>1 DEF Dozing, At
    <3> QED
      BY <1>0, <1>a, <2>2, <3>1, <3>2
  <2>3. NoMissedRing'
    BY <2>2, DozersNext
  <2> QED
    BY <2>1, <2>3 DEF RingInv
\* Steps of nobody: what a sleeper sees shrinks.
<1>b. ASSUME call' = call, lost => lost', rings \subseteq rings' \/ lost', env' = env, parent' = parent,
             Visible' \subseteq Visible
      PROVE  RingInv'
  <2>1. \A d \in Calls : (At(d, "select")' => call'[d].watch # "none") /\ (call'[d].watch = "nil" => lost')
    BY <1>0, <1>b DEF At
  <2>2. ASSUME ~lost', NEW d \in Calls, Dozing(d)'
        PROVE  Replies(d)' = {}
    <3>1. Dozing(d) /\ ~lost
      BY <1>b, <2>2 DEF Dozing, At
    <3> QED
      BY <1>0, <1>b, <3>1, RepliesShrink
  <2>3. NoMissedRing'
    BY <2>2, DozersNext
  <2> QED
    BY <2>1, <2>3 DEF RingInv
<1>1. ASSUME NEW c \in Calls, Quiet(c) \/ Pays(c) \/ Removes(c), lost' = lost
      PROVE  RingInv'
  <2>1. UNCHANGED <<msgVars, parent, rings>>
    BY <1>1 DEF Quiet, Begin, ResolveOperator, Freshness, WriteBudgetQuote, CheckRecipient, Stagger,
                LeaveGuard, StopMailman, Pays, Charge, Refund, Removes, RemoveAgent
  <2>2. \A d \in Calls \ {c} : call'[d] = call[d]
    BY <1>1, OneCall
  <2>3. \A d \in Calls \ {c} : Replies(d) = {} => Replies(d)' = {}
    BY <2>1, <2>2, RepliesShrink DEF Visible
  <2>4. call'[c].pc # "select" /\ call'[c].watch \in {call[c].watch, "none"}
    BY <1>1, NotAsleep
  <2> QED
    BY <1>1, <1>a, <2>1, <2>2, <2>3, <2>4
<1>2. ASSUME NEW c \in Calls, Writes(c), lost' = lost
      PROVE  RingInv'
  <2>1. \A d \in Calls \ {c} : call'[d] = call[d]
    BY <1>2, OneCall
  <2>2. call'[c].pc # "select" /\ call'[c].watch \in {call[c].watch, "none"}
    BY <1>2, NotAsleep
  <2>3. rings \subseteq rings'
    BY <1>2 DEF Writes, Insert, Flush, PurgeQueue, Reset, Reap, Stamp, Announced
  <2>4. \A d \in Calls \ {c} : call[d].req.op = "wait" /\ call[d].req.from \notin rings' /\ Replies(d) = {}
                               => Replies(d)' = {}
    BY <1>2, <2>1, WritesReplies
  <2> QED
    BY <1>2, <1>a, <2>1, <2>2, <2>3, <2>4
<1>3. ASSUME NEW c \in Calls, Sleeps(c)
      PROVE  RingInv'
  <2>1. /\ call'[c].pc = "select" => call'[c].watch # "none"
        /\ call'[c].watch = "nil" => lost'
        /\ call'[c].req = call[c].req
        /\ call'[c].pc = "select" /\ call[c].req.op = "wait" => Replies(c) = {}
        /\ UNCHANGED <<storeVars, parent, rings>> /\ (lost => lost')
    BY <1>3, SleepStep
  <2>2. \A d \in Calls \ {c} : call'[d] = call[d]
    BY <1>3, OneCall
  <2>3. \A d \in Calls : (At(d, "select")' => call'[d].watch # "none") /\ (call'[d].watch = "nil" => lost')
    BY <1>0, <2>1, <2>2 DEF At
  <2>4. ASSUME ~lost', NEW d \in Calls, Dozing(d)'
        PROVE  Replies(d)' = {}
    <3>1. CASE d = c
      BY <2>1, <2>4, <3>1 DEF Dozing, At, Replies, Rows
    <3>2. CASE d # c
      <4>1. Dozing(d) /\ ~lost /\ call'[d] = call[d]
        BY <2>1, <2>2, <2>4, <3>2 DEF Dozing, At
      <4> QED
        BY <1>0, <2>1, <4>1, RepliesShrink DEF Visible
    <3> QED
      BY <3>1, <3>2
  <2>5. NoMissedRing'
    BY <2>4, DozersNext
  <2> QED
    BY <2>3, <2>5 DEF RingInv
<1>4. ASSUME NEW a \in Agents, Ring(a)
      PROVE  RingInv'
  <2>1. /\ rings' = rings \ {a} /\ lost' = lost /\ env' = env /\ st' = st /\ parent' = parent
        /\ \A d \in Calls : call'[d] = IF call[d].watch = "open" /\ d \in Waiters /\ Key(d) = a
                                       THEN [call[d] EXCEPT !.rung = TRUE] ELSE call[d]
    BY <1>4 DEF Ring
  <2>2. \A d \in Calls : /\ call'[d].pc = call[d].pc /\ call'[d].watch = call[d].watch /\ call'[d].req = call[d].req
                         /\ call'[d] # call[d] => call'[d].rung = TRUE
    BY <2>1 DEF CallInv, CallRows
  <2>3. \A d \in Calls : (At(d, "select")' => call'[d].watch # "none") /\ (call'[d].watch = "nil" => lost')
    BY <1>0, <2>1, <2>2 DEF At
  <2>4. ASSUME ~lost', NEW d \in Calls, Dozing(d)'
        PROVE  Replies(d)' = {}
    <3>1. call'[d] = call[d]
      BY <2>2, <2>4 DEF Dozing
    <3>2. /\ call[d].pc = "select" /\ ~call[d].rung /\ call[d].req.op = "wait"
          /\ call[d].req.from \notin rings'
      BY <2>4, <3>1 DEF Dozing, At
    <3>3. call[d].watch = "open"
      BY <1>0, <2>1, <2>4, <3>2 DEF CallInv, CallRows, At
    <3>4. d \in Waiters /\ Key(d) = call[d].req.from
      BY <3>2 DEF Waiters, Key
    <3>5. call[d].req.from # a
      <4>1. ASSUME call[d].req.from = a
            PROVE  FALSE
        <5>1. call'[d] = [call[d] EXCEPT !.rung = TRUE]
          BY <2>1, <3>3, <3>4, <4>1
        <5>2. call'[d].rung = TRUE
          BY <5>1 DEF CallInv, CallRows
        <5> QED
          BY <3>1, <3>2, <5>2
      <4> QED
        BY <4>1
    <3>6. Dozing(d)
      BY <2>1, <3>2, <3>5 DEF Dozing, At
    <3> QED
      BY <1>0, <2>1, <2>4, <3>1, <3>6, RepliesShrink DEF Visible
  <2>5. NoMissedRing'
    BY <2>4, DozersNext
  <2> QED
    BY <2>3, <2>5 DEF RingInv
<1>5. ASSUME NEW a \in Agents, RingFails(a)
      PROVE  RingInv'
  BY <1>5, <1>b DEF RingFails, Visible
<1>6. ASSUME NEW a \in Agents, RetentionSweep(a)
      PROVE  RingInv'
  <2>1. Purge({a}, Cutoff(Retention), {"delivered", "failed"})
        /\ call' = call /\ lost' = lost /\ rings' = rings /\ parent' = parent
    BY <1>6 DEF RetentionSweep
  <2>2. Visible' \subseteq Visible /\ env' = env
    BY <2>1, PurgeVisible
  <2> QED
    BY <1>b, <2>1, <2>2
<1>7. CASE MailmanClaims
  <2>1. PICK i \in Ids : st[i] = "queued" /\ MoveRows({i}, "delivering")
    BY <1>7 DEF MailmanClaims, ClaimNext, Claimable, Queued
  <2>2. {i} \subseteq Visible
    BY <2>1 DEF Visible, RowStates
  <2>3. Visible' \subseteq Visible /\ env' = env
    BY <2>1, <2>2, VisibleShrinks DEF MoveRows
  <2> QED
    BY <1>7, <1>b, <2>3 DEF MailmanClaims
<1>8. CASE MailmanMarks
  <2>1. PICK i \in Ids : st[i] = "delivering" /\ (MoveRows({i}, "delivered") \/ MoveRows({i}, "failed"))
    BY <1>8 DEF MailmanMarks, MarkDelivered, MarkFailed
  <2>2. {i} \subseteq Visible
    BY <2>1 DEF Visible, RowStates
  <2>3. Visible' \subseteq Visible /\ env' = env
    BY <2>1, <2>2, VisibleShrinks DEF MoveRows
  <2>4. rings \subseteq rings' /\ call' = call /\ lost' = lost /\ parent' = parent
    BY <1>8 DEF MailmanMarks, Announced
  <2> QED
    BY <1>b, <2>3, <2>4
<1>9. CASE Tick \/ MailmanExits \/ Moves
  BY <1>9, <1>b DEF Tick, MailmanExits, Moves, Visible
<1>10. CASE UNCHANGED outboxVars
  BY <1>10, <1>b DEF Visible
<1> QED
  BY <1>1, <1>2, <1>3, <1>4, <1>5, <1>6, <1>7, <1>8, <1>9, <1>10, StepKinds

-----------------------------------------------------------------------------
(* The theorems *)

LEMMA OutboxInitInv == OutboxInit => OutboxInv
<1> SUFFICES ASSUME OutboxInit PROVE OutboxInv
  OBVIOUS
<1>1. CallInv
  <2>1. PICK plan \in Plans : call = [c \in Calls |-> NewCall(plan[c])]
    BY DEF OutboxInit
  <2>2. ASSUME NEW r, WellFormedRequest(r)
        PROVE  CallOK(NewCall(r))
    <3>1. /\ r \in Requests /\ r.to \in Seq(Agents \cup {Operator}) /\ r.to # <<>> /\ r.re \in 0..MaxId
          /\ (r.op \notin {"send", "ask"} => r.to \in Seq(Agents))
      BY <2>2 DEF WellFormedRequest, Requests
    <3>2. 1 \in 1..Len(r.to)
      BY <3>1, EmptySeq
    <3>3. <<>> \in Seq(Nat)
      BY EmptySeq
    <3>4. NewCall(r) \in CallRows
      BY <3>1, <3>3 DEF NewCall, CallRows, Pcs
    <3>5. /\ NewCall(r).req = r /\ NewCall(r).to = r.to /\ NewCall(r).k = 1 /\ NewCall(r).pc \in {"idle", "done"}
          /\ (NewCall(r).pc = "idle" => r.op # "none")
      BY DEF NewCall
    <3> QED
      BY <2>2, <3>1, <3>2, <3>4, <3>5 DEF CallOK
  <2>3. \A c \in Calls : CallOK(NewCall(plan[c]))
    BY <2>2, RequestAssumption
  <2> QED
    BY <2>1, <2>3 DEF CallInv, CallOK
<1>2. TableInv
  <2>0. Len(Asked) \in Nat /\ Len(Asked) <= MaxId /\ Asked \in [1..Len(Asked) -> Envelopes] /\ MaxId \in Nat
    BY OutboxAssumption, StoreAssumption, LenProperties
  <2>1. (CHOOSE e \in Sendable : TRUE) \in Envelopes
    BY StoreAssumption
  <2>2. env \in [Ids -> Envelopes]
    <3>1. env = [i \in Ids |-> IF i <= Len(Asked) THEN Asked[i] ELSE CHOOSE e \in Sendable : TRUE]
      BY DEF OutboxInit
    <3>2. \A i \in Ids : i <= Len(Asked) => Asked[i] \in Envelopes
      BY <2>0
    <3> QED
      BY <2>1, <3>1, <3>2
  <2>3. agent \in [Agents -> AgentRows]
    <3>1. Home \in [Agents -> Panes]
      BY OutboxAssumption
    <3>2. agent = [a \in Agents |-> [NewAgent EXCEPT !.registered = TRUE, !.pane = Home[a]]]
      BY DEF OutboxInit
    <3> QED
      BY <3>1, <3>2 DEF NewAgent, AgentRows, Modes
  <2>a. /\ st = [i \in Ids |-> IF i <= Len(Asked) THEN "delivered" ELSE "absent"]
        /\ verified = [i \in Ids |-> IF i <= Len(Asked) THEN "verified" ELSE "null"]
        /\ nextId = Len(Asked) + 1
    BY DEF OutboxInit
  <2>4. st \in [Ids -> States] /\ verified \in [Ids -> Verdicts] /\ nextId \in 1..(MaxId + 1)
    BY <2>0, <2>a DEF States, RowStates, Verdicts
  <2>5. /\ \A i \in Ids : st[i] = "absent" <=> i >= nextId
        /\ \A i \in Ids : st[i] # "deferred"
        /\ VerdictIffDelivered
    BY <2>0, <2>a DEF VerdictIffDelivered
  <2>6. parent = [i \in Ids |-> 0]
    BY DEF OutboxInit
  <2>7. parent \in [Ids -> 0..MaxId] /\ RepliesHaveParents
    BY <2>0, <2>6 DEF RepliesHaveParents, Rows
  <2> QED
    BY <2>2, <2>3, <2>4, <2>5, <2>6, <2>7 DEF TableInv, StoreTypeOK
<1>3. PurseInv
  <2>1. /\ clock = 0 /\ budgets = [a \in Agents |-> [known |-> FALSE, balance |-> 0, at |-> 0]]
        /\ meter = [a \in Agents |-> Capacity]
    BY SendingAssumption DEF OutboxInit, BudgetInit
  <2>2. \A a \in Agents : budgets[a].known = FALSE /\ budgets[a].at = 0 /\ Balance(a) = Capacity
    BY <2>1 DEF Balance
  <2>3. clock \in Nat /\ budgets \in [Agents -> BudgetRows] /\ meter \in [Agents -> Int]
    BY <2>1, Rates DEF BudgetRows
  <2>4. BalanceInBounds
    BY <2>2, SendingAssumption DEF BalanceInBounds
  <2>5. RefillsOnce
    BY <2>1, <2>2, Rates DEF RefillsOnce
  <2> QED
    BY <2>1, <2>2, <2>3, <2>4, <2>5 DEF PurseInv
<1>4. AdviceInv
  BY DEF OutboxInit, AdviceInv, NoAdvice, Advices
<1>5. RingInv
  <2>1. PICK plan \in Plans : call = [c \in Calls |-> NewCall(plan[c])]
    BY DEF OutboxInit
  <2>2. \A c \in Calls : call[c].pc # "select" /\ call[c].watch = "none"
    BY <2>1 DEF NewCall
  <2>3. NoMissedRing
    BY <2>2 DEF NoMissedRing, Waiters, At
  <2> QED
    BY <2>2, <2>3 DEF RingInv, At
<1> QED
  BY <1>1, <1>2, <1>3, <1>4, <1>5 DEF OutboxInv

(* The senders' invariant, all five parts at once: each is preserved by    *)
(* every step of every call, of the mailmen, of the sweeps and the clock.  *)
THEOREM OutboxInvariant == OutboxSpec => []OutboxInv
<1>1. OutboxInv /\ [OutboxNext]_outboxVars => OutboxInv'
  BY CallStep, TableStep, PurseStep, AdviceStep, RingStep DEF OutboxInv
<1> QED
  BY OutboxInitInv, <1>1, PTL DEF OutboxSpec

(* No order of charges, refunds and pauses overdraws or overfills a bucket *)
(* (ChargeBudget, store/budget.go:91), whatever the capacity, the rates    *)
(* and the price of breadth.                                               *)
THEOREM BucketsInBounds == OutboxSpec => []BalanceInBounds
BY OutboxInvariant, PTL DEF OutboxInv, PurseInv

(* The balance that is refilled when it is read never exceeds a bucket     *)
(* that is refilled tick by tick, and equals it where nothing was refunded *)
(* (Refilled, refill.go:90).                                               *)
THEOREM TimeRefillsOnce == OutboxSpec => []RefillsOnce
BY OutboxInvariant, PTL DEF OutboxInv, PurseInv

(* Who waits as long as a refusal says, and half the unit it is rounded    *)
(* to, can pay, if nothing was spent or refunded meanwhile, whatever the   *)
(* rates and however many ticks make a minute (TimeToAfford,               *)
(* refill.go:125; whenAffordable, store/budget.go:225).                    *)
THEOREM AdviceHolds == OutboxSpec => []RefusalAdviceHolds
<1>1. OutboxInv => RefusalAdviceHolds
  <2> SUFFICES ASSUME OutboxInv, NEW a \in Agents, Advised(a)
               PROVE  Affordable(Refilled(Balance(a), HalfUnit(a)), advice[a].cost)
    BY DEF RefusalAdviceHolds
  <2>1. clock \in Nat /\ HalfUnit(a) \in Nat /\ advice[a].until \in Nat
    BY DEF OutboxInv, PurseInv, AdviceInv, Advices, HalfUnit
  <2>2. clock + HalfUnit(a) \in Nat /\ clock + HalfUnit(a) >= advice[a].until + HalfUnit(a)
    BY <2>1 DEF Advised
  <2>3. Affordable(BalanceAt(a, clock + HalfUnit(a)), advice[a].cost)
    BY <2>2 DEF OutboxInv, AdviceInv, Advised
  <2>4. BalanceAt(a, clock + HalfUnit(a)) = Refilled(Balance(a), HalfUnit(a))
    <3> DEFINE n == HalfUnit(a)
    <3>1. n \in Nat /\ clock + n \in Nat
      BY <2>1, <2>2
    <3> HIDE DEF n
    <3>2. BalanceAt(a, clock + n) = Refilled(Balance(a), n)
      BY <3>1, BalanceLater DEF OutboxInv, TableInv
    <3> QED
      BY <3>2 DEF n
  <2> QED
    BY <2>3, <2>4
<1> QED
  BY OutboxInvariant, <1>1, PTL

(* A waiter that subscribed before it read misses no ring (WaitForReply,   *)
(* reply.go:83).                                                           *)
THEOREM NoRingIsMissed == OutboxSpec => []NoMissedRing
BY OutboxInvariant, PTL DEF OutboxInv, RingInv

(* What a row answers is there as long as the row is, whatever is purged   *)
(* (reply_to, schema.sql:18).                                              *)
THEOREM ParentsOutliveReplies == OutboxSpec => []RepliesHaveParents
BY OutboxInvariant, PTL DEF OutboxInv, TableInv
=============================================================================
