----------------------------- MODULE StoreProofs -----------------------------
(***************************************************************************)
(* What the store guarantees to every client, for any number of agents,    *)
(* panes, rows and any caps: the type invariant, one pane per identity,    *)
(* the meaning of the verified column, and the life cycle of a row.        *)
(***************************************************************************)
EXTENDS MessageStore, FiniteSetTheorems, WellFoundedInduction, TLAPS

(* What a step does to the messages table, whichever operation took it. *)
RowStep ==
  /\ st' \in [Ids -> States]
  /\ verified' \in [Ids -> Verdicts]
  /\ env' \in [Ids -> Envelopes]
  /\ nextId' \in 1..(MaxId + 1)
  /\ \A i \in Ids : st'[i] = "absent" <=> i >= nextId'
  /\ \A i \in Ids : st'[i] = "deferred" => env'[i].after # "none"
  /\ LifeCycleStep
  /\ VerdictIffDelivered'

StoreInv == StoreTypeOK /\ OnePaneOneIdentity /\ VerdictIffDelivered

USE DEF Ids, msgVars, storeVars

(* Moving a set of rows along the life cycle, no verdict touched, keeps    *)
(* the table well formed provided no row enters or leaves `delivered'      *)
(* except for deletion.                                                    *)
LEMMA MoveRowsStep ==
  ASSUME StoreTypeOK, VerdictIffDelivered,
         NEW S \in SUBSET Ids, NEW s \in RowStates \cup {"purged"},
         MoveRows(S, s), UNCHANGED verified,
         s \notin {"deferred", "delivered"},
         \A i \in S : st[i] \in RowStates /\ s \in Successors[st[i]]
  PROVE  RowStep
<1> USE DEF StoreTypeOK, VerdictIffDelivered, MoveRows, Successors, States, RowStates, Verdicts
<1>1. \A i \in Ids : st'[i] = IF i \in S THEN s ELSE st[i]
  OBVIOUS
<1>2. st' \in [Ids -> States]
  OBVIOUS
<1>3. \A i \in S : st[i] # "absent" /\ s # "absent"
  OBVIOUS
<1>4. \A i \in Ids : st'[i] = "absent" <=> i >= nextId'
  BY <1>1, <1>3
<1>5. \A i \in S : st[i] = "delivered" => s = "purged"
  OBVIOUS
<1>6. LifeCycleStep
  BY <1>1 DEF LifeCycleStep
<1>7. VerdictIffDelivered'
  BY <1>1, <1>5
<1> QED
  BY <1>1, <1>2, <1>4, <1>6, <1>7 DEF RowStep

(* Inserting a row, or a pair of rows, at the next id. *)
LEMMA InsertRowStep ==
  ASSUME StoreTypeOK, VerdictIffDelivered,
         NEW e \in Envelopes, NEW s \in {"queued", "deferred", "refused"},
         s = "deferred" => e.after # "none",
         InsertRow(e, s)
  PROVE  RowStep
<1> USE DEF StoreTypeOK, VerdictIffDelivered, InsertRow, Successors, States, RowStates, Verdicts
<1>1. nextId \in Ids /\ st[nextId] = "absent" /\ verified[nextId] = "null"
  OBVIOUS
<1>2. /\ \A i \in Ids : st'[i] = IF i = nextId THEN s ELSE st[i]
      /\ \A i \in Ids : env'[i] = IF i = nextId THEN e ELSE env[i]
  OBVIOUS
<1>3. \A i \in Ids : st'[i] = "absent" <=> i >= nextId'
  BY <1>1, <1>2
<1>4. LifeCycleStep
  BY <1>1, <1>2 DEF LifeCycleStep
<1>5. VerdictIffDelivered'
  BY <1>1, <1>2
<1>6. /\ env' \in [Ids -> Envelopes] /\ st' \in [Ids -> States]
      /\ verified' \in [Ids -> Verdicts] /\ nextId' \in 1..(MaxId + 1)
  BY StoreAssumption
<1> QED
  BY <1>2, <1>3, <1>4, <1>5, <1>6 DEF RowStep

LEMMA InsertPairStep ==
  ASSUME StoreTypeOK, VerdictIffDelivered,
         NEW e1 \in Envelopes, NEW e2 \in Envelopes, InsertMessagePair(e1, e2)
  PROVE  RowStep
<1> USE DEF StoreTypeOK, VerdictIffDelivered, Successors, States, RowStates, Verdicts
<1> DEFINE ok == WithinCaps(e1, 2)
           r1 == IF ok THEN e1 ELSE RefusedEnvelope(e1)
           r2 == IF ok THEN e2 ELSE RefusedEnvelope(e2)
           s1 == IF ~ok THEN "refused" ELSE IF e1.after = "none" THEN "queued" ELSE "deferred"
           s2 == IF ~ok THEN "refused" ELSE IF e2.after = "none" THEN "queued" ELSE "deferred"
<1>1. /\ nextId \in Ids /\ nextId + 1 \in Ids
      /\ env' = [env EXCEPT ![nextId] = r1, ![nextId + 1] = r2]
      /\ st' = [st EXCEPT ![nextId] = s1, ![nextId + 1] = s2]
      /\ nextId' = nextId + 2 /\ verified' = verified
  BY DEF InsertMessagePair
<1>2. r1 \in Envelopes /\ r2 \in Envelopes
  BY DEF RefusedEnvelope, Envelopes, Triggers, Priorities, PriorityNormal
<1>3. /\ s1 \in {"queued", "deferred", "refused"} /\ s2 \in {"queued", "deferred", "refused"}
      /\ s1 = "deferred" => r1.after # "none"
      /\ s2 = "deferred" => r2.after # "none"
  OBVIOUS
<1> HIDE DEF ok, r1, r2, s1, s2
<1>4. /\ \A i \in Ids : st'[i] = IF i = nextId THEN s1 ELSE IF i = nextId + 1 THEN s2 ELSE st[i]
      /\ \A i \in Ids : env'[i] = IF i = nextId THEN r1 ELSE IF i = nextId + 1 THEN r2 ELSE env[i]
  BY <1>1
<1>5. \A i \in {nextId, nextId + 1} : st[i] = "absent" /\ verified[i] = "null"
  BY <1>1
<1>6. \A i \in Ids : st'[i] = "absent" <=> i >= nextId'
  BY <1>1, <1>3, <1>4
<1>7. LifeCycleStep
  BY <1>1, <1>3, <1>4, <1>5 DEF LifeCycleStep
<1>8. VerdictIffDelivered'
  BY <1>1, <1>3, <1>4, <1>5
<1>9. /\ env' \in [Ids -> Envelopes] /\ st' \in [Ids -> States]
      /\ verified' \in [Ids -> Verdicts] /\ nextId' \in 1..(MaxId + 1)
  BY <1>1, <1>2, <1>3, StoreAssumption
<1>10. \A i \in Ids : st'[i] = "deferred" => env'[i].after # "none"
  BY <1>3, <1>4
<1> QED
  BY <1>6, <1>7, <1>8, <1>9, <1>10 DEF RowStep

LEMMA InsertingStep ==
  ASSUME StoreTypeOK, VerdictIffDelivered, Inserting
  PROVE  RowStep
<1>1. ASSUME NEW e \in Sendable, InsertMessage(e)
      PROVE  RowStep
  <2>1. e \in Envelopes /\ RefusedEnvelope(e) \in Envelopes
    BY StoreAssumption DEF RefusedEnvelope, Envelopes, Triggers, Priorities, PriorityNormal
  <2>2. CASE e.after # "none" /\ InsertRow(e, "deferred")
    BY <2>1, <2>2, InsertRowStep
  <2>3. CASE e.after = "none" /\ InsertRow(e, "queued")
    BY <2>1, <2>3, InsertRowStep
  <2>4. CASE InsertRow(RefusedEnvelope(e), "refused")
    BY <2>1, <2>4, InsertRowStep
  <2> QED
    BY <1>1, <2>2, <2>3, <2>4 DEF InsertMessage
<1>2. ASSUME NEW e \in Sendable, InsertNotice(e)
      PROVE  RowStep
  BY <1>2, InsertRowStep, StoreAssumption DEF InsertNotice
<1>3. ASSUME NEW e1 \in Sendable, NEW e2 \in Sendable, InsertMessagePair(e1, e2)
      PROVE  RowStep
  BY <1>3, InsertPairStep, StoreAssumption
<1> QED
  BY <1>1, <1>2, <1>3 DEF Inserting

LEMMA DeliveryStep ==
  ASSUME StoreTypeOK, VerdictIffDelivered, Delivery
  PROVE  RowStep
<1> USE DEF RowStates, Successors
<1>1. ASSUME NEW a \in Agents, NEW i \in Ids, ClaimNext(a, i)
      PROVE  RowStep
  BY <1>1, MoveRowsStep DEF ClaimNext, Claimable, Queued
<1>2. ASSUME NEW i \in Ids, NEW v \in {"verified", "unverified"}, MarkDelivered(i, v)
      PROVE  RowStep
  <2>1. /\ st[i] = "delivering"
        /\ st' = [j \in Ids |-> IF j = i THEN "delivered" ELSE st[j]]
        /\ verified' = [verified EXCEPT ![i] = v] /\ env' = env /\ nextId' = nextId
    BY <1>2 DEF MarkDelivered, MoveRows
  <2>2. verified[i] = "null"
    BY <2>1 DEF StoreTypeOK, VerdictIffDelivered
  <2>3. LifeCycleStep
    BY <2>1, <2>2 DEF LifeCycleStep, StoreTypeOK
  <2>4. VerdictIffDelivered'
    BY <2>1 DEF StoreTypeOK, VerdictIffDelivered
  <2> QED
    BY <2>1, <2>3, <2>4 DEF RowStep, StoreTypeOK, States, Verdicts
<1>3. ASSUME NEW i \in Ids, MarkFailed(i)
      PROVE  RowStep
  BY <1>3, MoveRowsStep DEF MarkFailed
<1>4. ASSUME NEW i \in Ids, MarkVerifiedByDedupe(i)
      PROVE  RowStep
  <2> USE <1>4 DEF MarkVerifiedByDedupe, StoreTypeOK, VerdictIffDelivered
  <2>1. LifeCycleStep
    BY DEF LifeCycleStep
  <2>2. VerdictIffDelivered'
    OBVIOUS
  <2> QED
    BY <2>1, <2>2 DEF RowStep, Verdicts
<1>5. ASSUME NEW a \in Agents, RecoverDelivering(a)
      PROVE  RowStep
  BY <1>5, MoveRowsStep DEF RecoverDelivering, Delivering
<1>6. ASSUME NEW a \in Agents, NEW t \in Triggers, PromoteDeferred(a, t)
      PROVE  RowStep
  BY <1>6, MoveRowsStep DEF PromoteDeferred, DeferredRows
<1> QED
  BY <1>1, <1>2, <1>3, <1>4, <1>5, <1>6 DEF Delivery

LEMMA HousekeepingStep ==
  ASSUME StoreTypeOK, VerdictIffDelivered, Housekeeping
  PROVE  RowStep
<1> USE DEF RowStates, Successors
<1>1. ASSUME NEW a \in Agents, NEW i \in Ids, MarkAcknowledged(a, i)
      PROVE  RowStep
  BY <1>1, MoveRowsStep DEF MarkAcknowledged, Queued
<1>2. ASSUME NEW a \in Agents, MarkAcknowledgedBatch(a, agent[a].epoch)
      PROVE  RowStep
  BY <1>2, MoveRowsStep DEF MarkAcknowledgedBatch, Queued
<1>3. ASSUME NEW a \in Agents, AckStaleQueued(a)
      PROVE  RowStep
  BY <1>3, MoveRowsStep DEF AckStaleQueued, Queued
<1>4. ASSUME NEW scope, NEW c \in Ids, ReapUndeliverable(scope, c)
      PROVE  RowStep
  BY <1>4, MoveRowsStep DEF ReapUndeliverable
<1>5. ASSUME NEW scope, NEW c \in Ids, DeleteStrandedDraftsBefore(scope, c)
      PROVE  RowStep
  BY <1>5, MoveRowsStep DEF DeleteStrandedDraftsBefore
<1>6. ASSUME NEW scope, NEW s \in RowStates, DeleteMessages(scope, {s})
      PROVE  RowStep
  BY <1>6, MoveRowsStep DEF DeleteMessages
<1>7. ASSUME NEW scope, NEW c \in Ids, DeleteMessagesBefore(scope, c, {"delivered", "failed"})
      PROVE  RowStep
  BY <1>7, MoveRowsStep DEF DeleteMessagesBefore
<1> QED
  BY <1>1, <1>2, <1>3, <1>4, <1>5, <1>6, <1>7 DEF Housekeeping

(* The registry operations keep the agents table well typed and a pane     *)
(* with one owner.                                                         *)
LEMMA RegistryStep ==
  ASSUME StoreTypeOK, OnePaneOneIdentity, Registry
  PROVE  agent' \in [Agents -> AgentRows] /\ OnePaneOneIdentity'
<1> USE DEF AgentRows
<1>0. /\ agent \in [Agents -> AgentRows]
      /\ \A a, b \in Agents : a # b /\ agent[a].pane = agent[b].pane => agent[a].pane = NoPane
  BY DEF StoreTypeOK, OnePaneOneIdentity
\* Every operation but UpsertAgent leaves each pane as it is or clears it.
<1>a. ASSUME agent' \in [Agents -> AgentRows],
             \A a \in Agents : agent'[a].pane \in {agent[a].pane, NoPane}
      PROVE  OnePaneOneIdentity'
  BY <1>0, <1>a DEF OnePaneOneIdentity
<1>1. ASSUME NEW a \in Agents, NEW p \in Panes \cup {NoPane}, UpsertAgent(a, p)
      PROVE  agent' \in [Agents -> AgentRows] /\ OnePaneOneIdentity'
  <2>1. agent' \in [Agents -> AgentRows]
    BY <1>0, <1>1 DEF UpsertAgent
  <2>2. agent'[a].pane = IF p = NoPane THEN agent[a].pane ELSE p
    BY <1>0, <1>1 DEF UpsertAgent
  <2>3. \A b \in Agents \ {a} :
          agent'[b].pane = IF p # NoPane /\ agent[b].pane = p THEN NoPane ELSE agent[b].pane
    BY <1>0, <1>1 DEF UpsertAgent
  <2>4. OnePaneOneIdentity'
    BY <1>0, <2>2, <2>3 DEF OnePaneOneIdentity
  <2> QED
    BY <2>1, <2>4
<1>2. ASSUME NEW b \in BOOLEAN, SetPausedAll(b)
      PROVE  agent' \in [Agents -> AgentRows] /\ OnePaneOneIdentity'
  BY <1>0, <1>a, <1>2 DEF SetPausedAll
<1>3. ASSUME NEW a \in Agents, DeleteAgent(a)
      PROVE  agent' \in [Agents -> AgentRows] /\ OnePaneOneIdentity'
  BY <1>0, <1>a, <1>3 DEF DeleteAgent, NewAgent, Modes
<1>4. ASSUME NEW a \in Agents, SetStuck(a)
      PROVE  agent' \in [Agents -> AgentRows] /\ OnePaneOneIdentity'
  BY <1>0, <1>a, <1>4 DEF SetStuck
<1>5. ASSUME NEW a \in Agents, ClearStuck(a)
      PROVE  agent' \in [Agents -> AgentRows] /\ OnePaneOneIdentity'
  BY <1>0, <1>a, <1>5 DEF ClearStuck
<1>6. ASSUME NEW a \in Agents, NEW b \in BOOLEAN, SetPaused(a, b)
      PROVE  agent' \in [Agents -> AgentRows] /\ OnePaneOneIdentity'
  BY <1>0, <1>a, <1>6 DEF SetPaused
<1>7. ASSUME NEW a \in Agents, NEW m \in Modes, SetDeliveryMode(a, m)
      PROVE  agent' \in [Agents -> AgentRows] /\ OnePaneOneIdentity'
  BY <1>0, <1>a, <1>7 DEF SetDeliveryMode
<1>8. ASSUME NEW a \in Agents, NEW f \in Queued(a), SetBacklogEpoch(a, f)
      PROVE  agent' \in [Agents -> AgentRows] /\ OnePaneOneIdentity'
  BY <1>0, <1>a, <1>8, StoreAssumption DEF SetBacklogEpoch, Queued
<1> QED
  BY <1>1, <1>2, <1>3, <1>4, <1>5, <1>6, <1>7, <1>8 DEF Registry

LEMMA StoreStep ==
  ASSUME StoreInv, [StoreNext]_storeVars
  PROVE  StoreInv' /\ LifeCycleStep
<1> USE DEF StoreInv
<1>1. CASE (Inserting \/ Delivery \/ Housekeeping) /\ UNCHANGED agent
  <2>1. RowStep
    BY <1>1, InsertingStep, DeliveryStep, HousekeepingStep
  <2> QED
    BY <1>1, <2>1 DEF RowStep, StoreTypeOK, OnePaneOneIdentity
<1>2. CASE Registry /\ UNCHANGED msgVars
  <2>1. agent' \in [Agents -> AgentRows] /\ OnePaneOneIdentity'
    BY <1>2, RegistryStep
  <2> QED
    BY <1>2, <2>1 DEF StoreTypeOK, VerdictIffDelivered, LifeCycleStep
<1>3. CASE UNCHANGED storeVars
  BY <1>3 DEF StoreTypeOK, OnePaneOneIdentity, VerdictIffDelivered, LifeCycleStep
<1> QED
  BY <1>1, <1>2, <1>3 DEF StoreNext

LEMMA StoreInitInv == StoreInit => StoreInv
<1> SUFFICES ASSUME StoreInit PROVE StoreInv
  OBVIOUS
<1>1. (CHOOSE e \in Sendable : TRUE) \in Envelopes
  BY StoreAssumption
<1>2. StoreTypeOK
  BY <1>1, StoreAssumption DEF StoreInit, StoreTypeOK, NewAgent, AgentRows, Modes, States,
                               RowStates, Verdicts
<1>3. OnePaneOneIdentity /\ VerdictIffDelivered
  BY DEF StoreInit, OnePaneOneIdentity, VerdictIffDelivered, NewAgent
<1> QED
  BY <1>2, <1>3 DEF StoreInv

(* The tables stay well typed, a pane never has two owners and the verdict *)
(* column means delivered, whatever clients do (StoreTypeOK,               *)
(* OnePaneOneIdentity and VerdictIffDelivered, together).                  *)
THEOREM StoreInvariant == StoreSpec => []StoreInv
<1>1. StoreInv /\ [StoreNext]_storeVars => StoreInv'
  BY StoreStep
<1> QED
  BY StoreInitInv, <1>1, PTL DEF StoreSpec

(* The store is well typed (the columns of internal/store/schema.sql). *)
THEOREM StoreTypeCorrect == StoreSpec => []StoreTypeOK
BY StoreInvariant, PTL DEF StoreInv

(* One pane, one identity (UpsertAgent, agents.go:24). *)
THEOREM PaneOwnership == StoreSpec => []OnePaneOneIdentity
BY StoreInvariant, PTL DEF StoreInv

(* The verified column is set exactly on delivered rows (messages.go:778). *)
THEOREM VerdictSoundness == StoreSpec => []VerdictIffDelivered
BY StoreInvariant, PTL DEF StoreInv

(* Rows only move along the life cycle: nothing terminal is revived by any *)
(* interleaving of claims, recoveries, promotions and deletions.           *)
THEOREM LifeCycleHolds == StoreSpec => LifeCycle
<1>1. StoreInv /\ [StoreNext]_storeVars => [LifeCycleStep]_storeVars
  BY StoreStep
<1> QED
  BY StoreInvariant, <1>1, PTL DEF StoreSpec, LifeCycle

-----------------------------------------------------------------------------
(* Induction and recursion over finite sets, as facts about sets *)

(* A non-empty set of numbers has a least one. *)
LEMMA LeastNumber ==
  ASSUME NEW S \in SUBSET Nat, S # {}
  PROVE  \E m \in S : \A k \in S : m <= k
<1> DEFINE R == {ss \in Nat \X Nat : ss[1] < ss[2]}
<1>1. IsWellFoundedOn(R, Nat)
  BY NatLessThanWellFounded DEF OpToRel
<1>2. PICK m \in S : \A k \in S : ~ (<<k, m>> \in R)
  <2> HIDE DEF R
  <2> QED
    BY <1>1, WFMin
<1>3. \A k \in S : ~(k < m)
  BY <1>2
<1> QED
  BY <1>3

(* What holds of a finite set whenever it holds of its proper subsets      *)
(* holds of every subset: Q is the set of those it holds of.               *)
LEMMA SubsetInduction ==
  ASSUME NEW S, IsFiniteSet(S), NEW Q,
         \A V \in SUBSET S : (\A W \in SUBSET V : W # V => W \in Q) => V \in Q
  PROVE  \A V \in SUBSET S : V \in Q
<1> DEFINE T == {n \in Nat : \E V \in SUBSET S : Cardinality(V) = n /\ V \notin Q}
<1>1. SUFFICES ASSUME T # {} PROVE FALSE
  <2>1. \A V \in SUBSET S : Cardinality(V) \in Nat
    BY FS_Subset, FS_CardinalityType
  <2> QED
    BY <2>1
<1>2. PICK n \in T : \A k \in T : n <= k
  BY <1>1, LeastNumber
<1>3. PICK V \in SUBSET S : Cardinality(V) = n /\ V \notin Q
  BY <1>2
<1>4. ASSUME NEW W \in SUBSET V, W # V PROVE W \in Q
  <2>1. IsFiniteSet(V) /\ W \in SUBSET S
    BY FS_Subset
  <2>2. Cardinality(W) \in Nat /\ Cardinality(W) < Cardinality(V)
    BY <1>4, <2>1, FS_Subset, FS_CardinalityType
  <2>3. Cardinality(W) \notin T
    BY <1>2, <1>3, <2>2
  <2> QED
    BY <2>1, <2>2, <2>3
<1> QED
  BY <1>3, <1>4

(* last names an element of every non-empty part of S. *)
Picks(S, last) == \A V \in SUBSET S : V # {} => last[V] \in V

(* f is defined on the parts of S by taking last's elements out in turn. *)
Recurs(f, S, base, step, last) ==
  \A V \in SUBSET S : f[V] = IF V = {} THEN base ELSE step[V][f[V \ {last[V]}]]

(* A function defined by recursion that takes one element out at a time    *)
(* exists.                                                                 *)
LEMMA SubsetRecursion ==
  ASSUME NEW S, IsFiniteSet(S), NEW A, NEW base \in A,
         NEW step \in [SUBSET S -> [A -> A]],
         NEW last, Picks(S, last)
  PROVE  \E f \in [SUBSET S -> A] : Recurs(f, S, base, step, last)
<1> DEFINE Upto(n) == {V \in SUBSET S : Cardinality(V) <= n}
           Defines(n, g) == \A V \in Upto(n) :
                              g[V] = IF V = {} THEN base ELSE step[V][g[V \ {last[V]}]]
           Bad == {n \in Nat : ~\E g \in [Upto(n) -> A] : Defines(n, g)}
<1>0. \A V \in SUBSET S : IsFiniteSet(V) /\ Cardinality(V) \in Nat /\ (Cardinality(V) = 0 <=> V = {})
  BY FS_Subset, FS_CardinalityType, FS_EmptySet
<1>1. ASSUME NEW n \in Nat, NEW V \in Upto(n), V # {}
      PROVE  n > 0 /\ V \ {last[V]} \in Upto(n - 1)
  <2>1. V \in SUBSET S /\ IsFiniteSet(V) /\ Cardinality(V) \in Nat /\ Cardinality(V) # 0 /\ Cardinality(V) <= n
    BY <1>0, <1>1
  <2>2. last[V] \in V
    BY <1>1 DEF Picks
  <2>3. Cardinality(V \ {last[V]}) = Cardinality(V) - 1
    BY <2>1, <2>2, FS_RemoveElement
  <2> QED
    BY <2>1, <2>3
<1>2. Bad = {}
  <2> SUFFICES ASSUME Bad # {} PROVE FALSE
    OBVIOUS
  <2>1. PICK n \in Bad : \A k \in Bad : n <= k
    BY LeastNumber
  <2>2. CASE n = 0
    <3> DEFINE g == [V \in Upto(n) |-> base]
    <3>1. g \in [Upto(n) -> A] /\ Defines(n, g)
      BY <1>1, <2>2
    <3> QED
      BY <3>1
  <2>3. CASE n # 0
    <3>1. n - 1 \in Nat /\ n - 1 \notin Bad
      <4>1. n \in Nat
        OBVIOUS
      <4> HIDE DEF Bad
      <4> QED
        BY <2>1, <2>3, <4>1
    <3>2. PICK g \in [Upto(n - 1) -> A] : Defines(n - 1, g)
      BY <3>1
    <3> DEFINE h == [V \in Upto(n) |-> IF V = {} THEN base ELSE step[V][g[V \ {last[V]}]]]
    <3> HIDE DEF Upto
    <3>3. ASSUME NEW V \in Upto(n - 1) PROVE V \in Upto(n) /\ h[V] = g[V]
      <4>1. V \in Upto(n)
        BY <1>0, <3>1 DEF Upto
      <4> QED
        BY <3>2, <4>1
    <3>4. h \in [Upto(n) -> A]
      <4>1. ASSUME NEW V \in Upto(n), V # {} PROVE step[V][g[V \ {last[V]}]] \in A
        BY <1>1, <4>1 DEF Upto
      <4> QED
        BY <4>1
    <3>5. Defines(n, h)
      BY <1>1, <3>3
    <3> QED
      BY <3>4, <3>5
  <2> QED
    BY <2>2, <2>3
<1>3. Cardinality(S) \in Nat /\ Upto(Cardinality(S)) = SUBSET S
  BY FS_CardinalityType, FS_Subset
<1>4. PICK f \in [Upto(Cardinality(S)) -> A] : Defines(Cardinality(S), f)
  BY <1>2, <1>3
<1>5. f \in [SUBSET S -> A]
  BY <1>3, <1>4
<1>6. \A V \in SUBSET S : f[V] = IF V = {} THEN base ELSE step[V][f[V \ {last[V]}]]
  BY <1>3, <1>4
<1> QED
  BY <1>5, <1>6 DEF Recurs

-----------------------------------------------------------------------------
(* Channel order *)

(* What a candidate set looks like. *)
WellFormed(C) ==
  IsFiniteSet(C) /\ \A c \in C : c.id \in Nat /\ c.priority \in Nat

(* Every message lends its channel a number as weight, under both          *)
(* strategies (the inner loop of selectScheduled, priority.go:124).        *)
LEMMA WeightType ==
  ASSUME NEW C, WellFormed(C), NEW strategy, NEW c \in C
  PROVE  Weight(C, strategy, c) \in Nat
<1>1. IsFiniteSet({d \in ChannelOf(C, c) : d.id < c.id})
  BY FS_Subset DEF WellFormed, ChannelOf
<1>2. Position(C, c) \in Nat
  BY <1>1, FS_CardinalityType DEF Position
<1>3. c.priority * (1 + Position(C, c)) \in Nat
  BY <1>2 DEF WellFormed
<1> QED
  BY <1>3 DEF Weight, WellFormed

(* Whatever the weights, the scheduled message is the oldest of its        *)
(* channel: priority decides between channels, never within one            *)
(* (priority.go:96).                                                       *)
THEOREM ScheduledIsChannelHead ==
  ASSUME NEW C, WellFormed(C), NEW strategy,
         NEW c, IsScheduled(C, strategy, c),
         NEW d \in C, d.from = c.from
  PROVE  c.id <= d.id
<1>1. c \in C /\ ChannelOf(C, d) = ChannelOf(C, c)
  BY DEF IsScheduled, ChannelOf
<1>2. ~Outweighs(C, strategy, c, d)
  <2> SUFFICES ASSUME NEW m \in ChannelOf(C, c),
                      Weight(C, strategy, m) > Weight(C, strategy, m)
               PROVE  FALSE
    BY <1>1 DEF Outweighs
  <2>1. Weight(C, strategy, m) \in Nat
    BY WeightType DEF ChannelOf
  <2> QED
    BY <2>1
<1> QED
  BY <1>2 DEF IsScheduled

LEMMA CandidatesWellFormed ==
  ASSUME StoreTypeOK, NEW a \in Agents
  PROVE  WellFormed(Candidates(a))
<1>1. IsFiniteSet(Ids)
  BY FS_Interval, StoreAssumption
<1>2. IsFiniteSet(Claimable(a))
  BY <1>1, FS_Subset DEF Claimable, Queued
<1>3. IsFiniteSet(Candidates(a))
  <2> DEFINE row == [i \in Claimable(a) |-> Candidate(i)]
  <2>1. row \in Surjection(Claimable(a), Candidates(a))
    BY DEF Surjection, Candidates
  <2> QED
    BY <1>2, <2>1, FS_Surjection
<1>4. \A i \in Ids : env[i].priority \in Nat
  BY DEF StoreTypeOK, Envelopes, Priorities
<1> QED
  BY <1>3, <1>4, StoreAssumption DEF WellFormed, Candidates, Candidate, Claimable, Queued

(* Only ClaimNext brings a row into `delivering'. *)
NoClaim == \A i \in Ids : st'[i] = "delivering" => st[i] = "delivering"

LEMMA InsertingClaimsNothing ==
  ASSUME StoreTypeOK, Inserting
  PROVE  NoClaim
<1>1. ASSUME NEW e, NEW s, s # "delivering", InsertRow(e, s)
      PROVE  NoClaim
  BY <1>1 DEF InsertRow, NoClaim, StoreTypeOK
<1>2. ASSUME NEW e1, NEW e2, InsertMessagePair(e1, e2)
      PROVE  NoClaim
  BY <1>2 DEF InsertMessagePair, NoClaim, StoreTypeOK
<1> QED
  BY <1>1, <1>2 DEF Inserting, InsertMessage, InsertNotice

LEMMA HousekeepingClaimsNothing ==
  ASSUME StoreTypeOK, Housekeeping
  PROVE  NoClaim
<1>1. ASSUME NEW S, NEW s, s # "delivering", MoveRows(S, s)
      PROVE  NoClaim
  BY <1>1 DEF MoveRows, NoClaim, StoreTypeOK
<1> QED
  BY <1>1 DEF Housekeeping, MarkAcknowledged, MarkAcknowledgedBatch, AckStaleQueued,
              ReapUndeliverable, DeleteStrandedDraftsBefore, DeleteMessages, DeleteMessagesBefore

LEMMA ClaimStepHolds ==
  ASSUME StoreTypeOK, [StoreNext]_storeVars
  PROVE  ClaimStep
<1>1. ASSUME NoClaim
      PROVE  ClaimStep
  BY <1>1 DEF NoClaim, ClaimStep
<1>2. ASSUME NEW a \in Agents, NEW k \in Ids, ClaimNext(a, k)
      PROVE  ClaimStep
  <2> SUFFICES ASSUME NEW i \in Ids, NEW j \in Ids,
                      st[i] = "queued", st'[i] = "delivering",
                      j \in Claimable(env[i].to), env[j].from = env[i].from
               PROVE  i <= j
    BY DEF ClaimStep
  <2>1. i = k
    BY <1>2 DEF ClaimNext, MoveRows, StoreTypeOK
  <2>2. env[k].to = a
    BY <1>2 DEF ClaimNext, Claimable, Queued
  <2>3. Candidate(j) \in Candidates(a) /\ Candidate(j).from = Candidate(k).from
    BY <2>1, <2>2 DEF Candidates, Candidate
  <2>4. Candidate(k).id <= Candidate(j).id
    BY <1>2, <2>3, CandidatesWellFormed, ScheduledIsChannelHead DEF ClaimNext
  <2> QED
    BY <2>1, <2>4 DEF Candidate
<1>3. CASE Inserting
  BY <1>1, <1>3, InsertingClaimsNothing
<1>4. CASE Housekeeping
  BY <1>1, <1>4, HousekeepingClaimsNothing
<1>5. CASE Delivery
  <2>1. ASSUME NEW S, NEW s, s # "delivering", MoveRows(S, s)
        PROVE  NoClaim
    BY <2>1 DEF MoveRows, NoClaim, StoreTypeOK
  <2>2. ASSUME NEW i \in Ids, MarkVerifiedByDedupe(i)
        PROVE  NoClaim
    BY <2>2 DEF MarkVerifiedByDedupe, NoClaim
  <2> QED
    BY <1>1, <1>2, <1>5, <2>1, <2>2
    DEF Delivery, MarkDelivered, MarkFailed, RecoverDelivering, PromoteDeferred
<1>6. CASE UNCHANGED st
  BY <1>1, <1>6 DEF NoClaim
<1> QED
  BY <1>3, <1>4, <1>5, <1>6 DEF StoreNext

(* Claims never overtake within a channel, for any number of senders,      *)
(* rows and either strategy (ClaimNextWithStrategy, messages.go:671).       *)
THEOREM ChannelOrder == StoreSpec => ClaimsInChannelOrder
<1>1. StoreTypeOK /\ [StoreNext]_storeVars => [ClaimStep]_storeVars
  BY ClaimStepHolds
<1> QED
  BY StoreTypeCorrect, <1>1, PTL DEF StoreSpec, ClaimsInChannelOrder
=============================================================================
