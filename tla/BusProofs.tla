------------------------------ MODULE BusProofs ------------------------------
(***************************************************************************)
(* One agent's delivery path, for any number of agents, panes, rows, hooks *)
(* and any bounds.  First, every variable keeps its type, whatever         *)
(* mailman, register, hooks, senders, faults and kills interleave; on the  *)
(* way each step is sorted into one of a few shapes.  Then, from the       *)
(* shapes, what the path guarantees.                                       *)
(***************************************************************************)
EXTENDS Bus, StoreProofs, SequenceTheorems, NaturalsInduction, WellFoundedInduction

(* The stages in which the claimed row is still in the mailman's hands, in *)
(* which it is already dealt with, and in which there is none.             *)
Holding == {"ping", "cap", "resolve", "drift", "liveness", "dedupe", "absorb", "gate", "probe",
            "paste", "enter", "retry", "reenter", "mark"}

Told == {"dedupeNotice", "notice", "settle", "park"}

Idle == {"off", "top", "watermark", "promote", "claim"}

StageInv ==
  /\ pc \in Holding \cup Told => cur \in Ids /\ cur < nextId /\ env[cur].to = Self
  /\ pc \in Idle => cur = 0

(* Floors lie below the ids to come. *)
RegisterInv ==
  /\ agent[Self].registered
  /\ agent[Self].epoch \in Ids \cup {0} /\ agent[Self].epoch < nextId
  /\ floor < nextId
  /\ rpc \in {"floor", "epoch", "nudge"} => skipped > 0

HookStageInv ==
  \A h \in Hooks : /\ hpc[h] = "mark" => took[h] # <<>>
                   /\ hpc[h] = "print" => took[h] = <<>>

BusInv == BusTypeOK /\ OnePaneOneIdentity /\ VerdictIffDelivered /\ StageInv /\ RegisterInv /\ HookStageInv

(* The parts of the type invariant that belong together. *)
LoopTypes ==
  /\ pc \in Stages /\ cur \in Ids \cup {0} /\ pane \in Panes \cup {NoPane} /\ out \in Outcomes
  /\ fails \in 0..(StuckThreshold - 1) /\ failId \in Ids \cup {0}
  /\ staleFails \in 0..(StaleThreshold - 1)
  /\ compactAt \in {0, 1} /\ promotedAt \in {0, 1}

WorldTypes ==
  /\ host \in [Panes -> Running \cup {"shell", "gone"}] /\ session \in Agents \cup {"none", "old"}
  /\ limited \in BOOLEAN
  /\ ackFloor \in Ids \cup {0}
  /\ moves \in 0..MaxMoves /\ lost \in 0..moves /\ settled \in BOOLEAN /\ held \subseteq Ids /\ clashed \in BOOLEAN

CountTypes == shown \in [Ids -> Nat] /\ faults \in 0..MaxFaults /\ crashes \in 0..MaxCrashes

RegisterTypes ==
  /\ rpc \in RegisterStages /\ floor \in Ids \cup {0} /\ skipped \in Ids \cup {0}
  /\ req \in [pane : Panes, mode : Modes] /\ registers \in 0..MaxRegisters

HookTypes ==
  /\ hpc \in [Hooks -> HookStages] /\ took \in [Hooks -> Seq(Ids)] /\ batch \in [Hooks -> SUBSET Ids]
  /\ presented \in [Ids -> Nat]

LEMMA TypeParts ==
  BusTypeOK <=> StoreTypeOK /\ LoopTypes /\ WorldTypes /\ CountTypes /\ RegisterTypes /\ HookTypes
BY DEF BusTypeOK, LoopTypes, WorldTypes, CountTypes, RegisterTypes, HookTypes

LEMMA TypePartsNext ==
  BusTypeOK' <=> StoreTypeOK' /\ LoopTypes' /\ WorldTypes' /\ CountTypes' /\ RegisterTypes' /\ HookTypes'
BY DEF BusTypeOK, LoopTypes, WorldTypes, CountTypes, RegisterTypes, HookTypes

-----------------------------------------------------------------------------
(* What steps do to the store *)

(* Every row is put back, moved on, inserted or left alone; one step never *)
(* does two of these.                                                      *)
TableKept == UNCHANGED <<env, st, nextId>>

(* A row of the given envelope enters the table in state s. *)
Entered(e, s) ==
  /\ nextId \in Ids
  /\ env' = [env EXCEPT ![nextId] = e]
  /\ st' = [st EXCEPT ![nextId] = s]
  /\ nextId' = nextId + 1

LEMMA KeptRowStep ==
  ASSUME StoreTypeOK, VerdictIffDelivered, UNCHANGED msgVars
  PROVE  RowStep
BY DEF RowStep, StoreTypeOK, VerdictIffDelivered, LifeCycleStep, msgVars

LEMMA DedupeRowStep ==
  ASSUME StoreTypeOK, VerdictIffDelivered, NEW i, MarkVerifiedByDedupe(i)
  PROVE  RowStep
<1> USE DEF MarkVerifiedByDedupe, StoreTypeOK, VerdictIffDelivered
<1>0. \A j \in Ids : verified'[j] = IF j = i THEN "verified" ELSE verified[j]
  OBVIOUS
<1>1. \A j \in Ids : verified'[j] = verified[j] \/ (st[j] = "delivered" /\ verified'[j] = "verified")
  BY <1>0
<1>2. verified' \in [Ids -> Verdicts]
  BY DEF Verdicts
<1>3. LifeCycleStep
  BY <1>1 DEF LifeCycleStep
<1>4. VerdictIffDelivered'
  BY <1>1
<1> QED
  BY <1>2, <1>3, <1>4 DEF RowStep

LEMMA RecoverRowStep ==
  ASSUME StoreTypeOK, VerdictIffDelivered, RecoverDelivering(Self)
  PROVE  RowStep
BY MailmanAssumption, DeliveryStep DEF Delivery

LEMMA PromoteRowStep ==
  ASSUME StoreTypeOK, VerdictIffDelivered, NEW t \in {"resume", "register"}, PromoteDeferred(Self, t)
  PROVE  RowStep
BY MailmanAssumption, DeliveryStep DEF Delivery, Triggers

LEMMA ClaimRowStep ==
  ASSUME StoreTypeOK, VerdictIffDelivered, NEW i \in Ids, ClaimNext(Self, i)
  PROVE  RowStep
BY MailmanAssumption, DeliveryStep DEF Delivery

LEMMA MarkRowStep ==
  ASSUME StoreTypeOK, VerdictIffDelivered, NEW i \in Ids,
         MarkFailed(i) \/ \E v \in {"verified", "unverified"} : MarkDelivered(i, v)
  PROVE  RowStep
BY DeliveryStep DEF Delivery

LEMMA AckRowStep ==
  ASSUME StoreTypeOK, VerdictIffDelivered, NEW S \in SUBSET Queued(Self),
         MoveRows(S, "acknowledged"), UNCHANGED verified
  PROVE  RowStep
<1>1. S \in SUBSET Ids /\ \A i \in S : st[i] = "queued"
  BY DEF Queued
<1> QED
  BY <1>1, MoveRowsStep DEF RowStates, Successors

LEMMA SendRowStep ==
  ASSUME StoreTypeOK, VerdictIffDelivered, NEW e \in Sendable, InsertMessage(e)
  PROVE  RowStep
BY InsertingStep DEF Inserting

LEMMA NoticeType ==
  ASSUME StoreTypeOK, NEW to \in Agents,
         NEW kind \in Kinds, NEW about \in Ids
  PROVE  Notice(to, kind, about) \in Envelopes
BY MailmanAssumption DEF Notice, Envelopes, Priorities, PriorityNormal, Triggers

LEMMA NoticeRowStep ==
  ASSUME StoreTypeOK, VerdictIffDelivered, NEW to \in Agents,
         NEW kind \in Kinds, NEW about \in Ids,
         InsertNotice(Notice(to, kind, about))
  PROVE  RowStep
BY NoticeType, InsertRowStep DEF InsertNotice

(* The operations on the agent's own row leave the floor alone, all but    *)
(* the one that sets it.                                                   *)
AgentStep ==
  /\ agent' \in [Agents -> AgentRows]
  /\ OnePaneOneIdentity'
  /\ agent'[Self].registered

LEMMA AgentRowStep ==
  ASSUME BusTypeOK, OnePaneOneIdentity, RegisterInv,
         \/ \E q \in Panes : UpsertAgent(Self, q)
         \/ SetStuck(Self) \/ ClearStuck(Self) \/ \E b \in BOOLEAN : SetPaused(Self, b)
         \/ \E m \in Modes : SetDeliveryMode(Self, m)
         \/ UNCHANGED agent
  PROVE  AgentStep /\ agent'[Self].epoch = agent[Self].epoch
<1>0. Self \in Agents /\ agent \in [Agents -> AgentRows] /\ agent[Self].registered /\ StoreTypeOK
  BY MailmanAssumption DEF BusTypeOK, StoreTypeOK, RegisterInv
<1>1. ASSUME NEW q \in Panes, UpsertAgent(Self, q)
      PROVE  AgentStep /\ agent'[Self].epoch = agent[Self].epoch
  <2>1. agent' \in [Agents -> AgentRows] /\ OnePaneOneIdentity'
    BY <1>0, <1>1, RegistryStep DEF Registry
  <2>2. agent'[Self].registered /\ agent'[Self].epoch = agent[Self].epoch
    BY <1>0, <1>1 DEF UpsertAgent, AgentRows
  <2> QED
    BY <2>1, <2>2 DEF AgentStep
<1>2. CASE UNCHANGED agent
  BY <1>0, <1>2 DEF AgentStep, OnePaneOneIdentity
<1>3. ASSUME \/ SetStuck(Self) \/ ClearStuck(Self) \/ \E b \in BOOLEAN : SetPaused(Self, b)
             \/ \E m \in Modes : SetDeliveryMode(Self, m)
      PROVE  AgentStep /\ agent'[Self].epoch = agent[Self].epoch
  <2>1. agent' \in [Agents -> AgentRows] /\ OnePaneOneIdentity'
    BY <1>0, <1>3, RegistryStep DEF Registry
  <2>2. agent'[Self].registered /\ agent'[Self].epoch = agent[Self].epoch
    BY <1>0, <1>3 DEF SetStuck, ClearStuck, SetPaused, SetDeliveryMode, AgentRows
  <2> QED
    BY <2>1, <2>2 DEF AgentStep
<1> QED
  BY <1>1, <1>2, <1>3

LEMMA EpochStep ==
  ASSUME BusTypeOK, OnePaneOneIdentity, RegisterInv, SetBacklogEpoch(Self, floor)
  PROVE  AgentStep /\ agent'[Self].epoch = floor
<1>0. Self \in Agents /\ agent \in [Agents -> AgentRows] /\ agent[Self].registered
  BY MailmanAssumption DEF BusTypeOK, StoreTypeOK, RegisterInv
<1>a. floor \in Nat
  BY TypeParts, StoreAssumption DEF RegisterTypes, Ids
<1>1. agent' = [agent EXCEPT ![Self].epoch = floor]
  BY DEF SetBacklogEpoch
<1>2. agent' \in [Agents -> AgentRows] /\ agent'[Self].registered /\ agent'[Self].epoch = floor
  BY <1>0, <1>a, <1>1 DEF AgentRows
<1>3. \A a \in Agents : agent'[a].pane = agent[a].pane
  BY <1>0, <1>1 DEF AgentRows
<1>4. OnePaneOneIdentity'
  BY <1>3 DEF OnePaneOneIdentity
<1> QED
  BY <1>2, <1>4 DEF AgentStep

-----------------------------------------------------------------------------
(* The shapes of a mailman's step *)

Spent == UNCHANGED errorVars \/ Fault

(* Looking for work and finding none yet. *)
Polls ==
  /\ pc \in {"top", "watermark", "claim"} /\ pc' \in {"top", "watermark", "promote", "claim"}
  /\ pc' = "watermark" => compactAt > promotedAt
  /\ pc' = "promote" => pc = "watermark"
  /\ cur' = 0
  /\ TableKept /\ UNCHANGED <<verified, shown, agent, compactAt>> /\ Spent

(* Claiming a row. *)
Takes ==
  /\ pc = "claim"
  /\ \E i \in Ids : /\ ClaimNext(Self, i)
                    /\ cur' = i
                    /\ pc' = IF env[i].kind = "ping" THEN "ping" ELSE "cap"
  /\ UNCHANGED <<shown, agent, errorVars>>

(* One stage further with the row in hand, nothing shown.  Back from Enter *)
(* only where the pane is missing.                                         *)
Works ==
  /\ pc \in Holding \ {"ping", "absorb", "reenter", "mark"} /\ pc' \in Holding \ {"ping", "enter", "reenter"}
  /\ pc = "enter" => Missing(pane) /\ (pc' = "retry" \/ (pc' = "mark" /\ out' = "failed"))
  /\ pc' = "mark" => \/ out' \in {"failed", "requeue"}
                     \/ out' = "unsupported" /\ NeedsNoPane(env[cur])
  /\ cur' = cur
  /\ TableKept /\ UNCHANGED shown /\ Spent
  /\ UNCHANGED verified \/ \E i : MarkVerifiedByDedupe(i)

(* The row is put into the pane. *)
Lands ==
  /\ \/ pc = "paste" /\ pc' = "enter"
     \/ pc = "retry" /\ pc' = "reenter"
  /\ Exists(pane)
  /\ UNCHANGED <<cur, pane, host>>
  /\ shown' = [shown EXCEPT ![cur] = @ + 1]
  /\ TableKept /\ UNCHANGED <<verified, agent, errorVars>>

(* It is submitted, and how it fared is known. *)
Submits ==
  /\ pc \in {"enter", "reenter"} /\ pc' = "mark"
  /\ out' \in {"verified", "external", "unverified", "failed"}
  /\ cur' = cur
  /\ TableKept /\ UNCHANGED <<verified, shown, agent, errorVars>>

(* Claimed rows go back to the queue. *)
Returns ==
  /\ \/ pc \in Holding \ {"enter", "reenter"} /\ pc' \in {"top", "park"}
     \/ pc = "off" /\ pc' \in {"off", "top"}
  /\ pc = "mark" => out = "requeue"
  /\ cur' = IF pc' = "park" THEN cur ELSE 0
  /\ TryMsg(RecoverDelivering(Self))
  /\ UNCHANGED shown

(* The row is marked: delivered only if it was shown or needs no pane. *)
Settles ==
  /\ pc \in {"ping", "absorb", "mark"} /\ pc' \in {"top", "dedupeNotice", "notice", "settle"}
  /\ pc' = "notice" => pc = "mark"
  /\ pc' = "settle" => pc = "mark" /\ out = "verified" /\ Control /\ env[cur].body \in Resets
  /\ cur' = IF pc' = "top" THEN 0 ELSE cur
  /\ \/ TryMsg(Settle(MarkFailed(cur))) /\ pc' # "settle"
     \/ /\ \E v \in {"verified", "unverified"} : TryMsg(Settle(MarkDelivered(cur, v)))
        /\ pc = "ping" \/ (pc = "mark" /\ out \in {"verified", "external", "unverified", "unsupported"})
  /\ UNCHANGED shown

(* A notice about the row is inserted, or not. *)
Tells ==
  /\ \/ /\ pc = "gate" /\ pc' = "probe" /\ cur' = cur
        /\ \/ UNCHANGED <<storeVars, errorVars>>
           \/ TryNotice(Notice(Self, "stranded_draft", cur))
     \/ /\ pc = "dedupeNotice" /\ pc' = "top" /\ cur' = 0
        /\ \/ UNCHANGED <<storeVars, errorVars>>
           \/ TryNotice(Notice(env[cur].from, "dedupe_notice", cur))
     \/ /\ pc = "notice" /\ pc' = "top" /\ cur' = 0
        /\ IF env[cur].kind # "delivery_failure_notice"
           THEN TryNotice(Notice(env[cur].from, "delivery_failure_notice", cur))
           ELSE UNCHANGED <<storeVars, errorVars>>
  /\ UNCHANGED shown

(* Rows staged for the resume are released. *)
Frees ==
  /\ \/ pc = "promote" /\ pc' = "claim"
     \/ pc = "settle" /\ pc' = "top"
  /\ cur' = 0
  /\ TryMsg(PromoteDeferred(Self, "resume"))
  /\ UNCHANGED shown

Parks ==
  /\ pc = "park" /\ pc' = "top" /\ cur' = 0
  /\ TableKept /\ UNCHANGED <<verified, shown>> /\ Spent

(* The mailman ends: stopped where it notices, or killed anywhere. *)
Halts ==
  /\ pc' = "off" /\ cur' = 0
  /\ \/ pc \in {"top", "gate", "settle"} /\ UNCHANGED errorVars
     \/ pc # "off" /\ Killed
  /\ TableKept /\ UNCHANGED <<verified, shown, agent>>

MailmanShape ==
  \/ Polls \/ Takes \/ Works \/ Lands \/ Submits \/ Returns \/ Settles \/ Tells \/ Frees \/ Parks \/ Halts

(* Every step of the mailman has one of the shapes. *)
LEMMA ShapeOfStep ==
  ASSUME BusInv, Start \/ Stop \/ Crash \/ Iteration
  PROVE  MailmanShape
<1> USE DEF Try, TryMsg, TryAgent, Goto, loopVars, streakVars, compactVars, worldVars, errorVars,
            storeVars, msgVars, Spent, TableKept
<1>0. pc \in Idle => cur = 0
  BY DEF BusInv, StageInv
<1>1. CASE Start
  <2>1. Returns
    BY <1>1 DEF Start, Fresh, Returns, Holding
  <2> QED
    BY <2>1 DEF MailmanShape
<1>2. CASE Stop \/ Crash
  <2>1. Halts
    BY <1>2 DEF Stop, Crash, Fresh, Halts
  <2> QED
    BY <2>1 DEF MailmanShape
<1>3. CASE LoopTop
  <2>1. Polls
    BY <1>0, <1>3 DEF LoopTop, Polls, Idle
  <2> QED
    BY <2>1 DEF MailmanShape
<1>4. CASE StampResume
  <2>1. Polls
    BY <1>0, <1>4 DEF StampResume, Polls, Idle
  <2> QED
    BY <2>1 DEF MailmanShape
<1>5. CASE PromoteResume \/ ReleaseResume
  <2>1. Frees
    BY <1>0, <1>5 DEF PromoteResume, ReleaseResume, Frees, Idle
  <2> QED
    BY <2>1 DEF MailmanShape
<1>6. CASE Claim
  <2>1. Takes \/ Polls
    BY <1>6 DEF Claim, Takes, Polls
  <2> QED
    BY <2>1 DEF MailmanShape
<1>7. CASE HandlePing
  <2>1. Settles
    BY <1>7 DEF HandlePing, Settles
  <2> QED
    BY <2>1 DEF MailmanShape
<1>8. CASE ProviderCap
  <2>1. Returns \/ Works
    BY <1>8 DEF ProviderCap, Requeue, Returns, Works, Holding
  <2> QED
    BY <2>1 DEF MailmanShape
<1>9. CASE ResolveUnchecked \/ ResolveByName
  <2>1. Works
    BY <1>9 DEF ResolveUnchecked, ResolveByName, Works, Holding
  <2> QED
    BY <2>1 DEF MailmanShape
<1>10. CASE ResolveSession
  <2>1. Works
    BY <1>10 DEF ResolveSession, KeepPane, HealTo, Works, Holding
  <2> QED
    BY <2>1 DEF MailmanShape
<1>11. CASE SessionStale
  <2>1. Returns \/ Works
    BY <1>11 DEF SessionStale, Returns, Works, Holding
  <2> QED
    BY <2>1 DEF MailmanShape
<1>12. CASE Drift
  <2>1. Works
    BY <1>12 DEF Drift, FailDelivery, Deliverable, KeepPane, HealTo, Works, Holding
  <2> QED
    BY <2>1 DEF MailmanShape
<1>13. CASE Liveness
  <2>1. Works
    BY <1>13 DEF Liveness, FailDelivery, Works, Holding
  <2> QED
    BY <2>1 DEF MailmanShape
<1>14. CASE Dedupe
  <2>1. Works
    BY <1>14 DEF Dedupe, MarkVerifiedByDedupe, Works, Holding
  <2> QED
    BY <2>1 DEF MailmanShape
<1>15. CASE Absorb
  <2>1. Settles
    BY <1>15 DEF Absorb, Settles
  <2> QED
    BY <2>1 DEF MailmanShape
<1>16. CASE InsertDedupeNotice \/ GatePass \/ InsertFailureNotice
  <2>1. Tells
    BY <1>16 DEF InsertDedupeNotice, GatePass, InsertFailureNotice, Tells
  <2> QED
    BY <2>1 DEF MailmanShape
<1>17. CASE GateDefer \/ ProbeUnsafe \/ ProbeNotFound
  <2>1. Returns
    BY <1>17 DEF GateDefer, ProbeUnsafe, ProbeNotFound, Requeue, Returns, Holding
  <2> QED
    BY <2>1 DEF MailmanShape
<1>18. CASE ProbeSafe \/ SkipUnsupported \/ PasteMisses \/ AutoHeal
  <2>1. CASE ProbeSafe \/ SkipUnsupported
    <3>1. Works
      BY <2>1 DEF ProbeSafe, SkipUnsupported, Ended, Control, NeedsNoPane, Works, Holding
    <3> QED
      BY <3>1 DEF MailmanShape
  <2>2. CASE PasteMisses \/ AutoHeal
    <3>1. Works
      BY <2>2 DEF PasteMisses, AutoHeal, Ended, Works, Holding
    <3> QED
      BY <3>1 DEF MailmanShape
  <2> QED
    BY <1>18, <2>1, <2>2
<1>19. CASE Park
  <2>1. Parks
    BY <1>19 DEF Park, Parks
  <2> QED
    BY <2>1 DEF MailmanShape
<1>20. CASE PasteLands
  <2>1. Lands
    BY <1>20 DEF PasteLands, Lands
  <2> QED
    BY <2>1 DEF MailmanShape
<1>21. CASE Mark
  <2>1. Settles \/ Returns
    BY <1>21 DEF Mark, Requeue, Settles, Returns, Holding
  <2> QED
    BY <2>1 DEF MailmanShape
<1>22. CASE Submit
  <2>1. Submits
    BY <1>22 DEF Submit, Ended, Submits
  <2> QED
    BY <2>1 DEF MailmanShape
<1> QED
  BY <1>1, <1>2, <1>3, <1>4, <1>5, <1>6, <1>7, <1>8, <1>9, <1>10, <1>11, <1>12, <1>13, <1>14,
     <1>15, <1>16, <1>17, <1>18, <1>19, <1>20, <1>21, <1>22 DEF Iteration

(* What the mailman does to the table is a step of the store. *)
LEMMA ShapeRows ==
  ASSUME BusInv, MailmanShape
  PROVE  RowStep
<1>0. /\ StoreTypeOK /\ VerdictIffDelivered
      /\ pc \in Holding \cup Told => cur \in Ids /\ env[cur].from \in Agents
  BY DEF BusInv, BusTypeOK, StageInv, StoreTypeOK, Envelopes
<1>1. ASSUME UNCHANGED storeVars
      PROVE  RowStep
  BY <1>0, <1>1, KeptRowStep DEF storeVars, msgVars
<1>2. CASE Polls \/ Lands \/ Submits \/ Parks \/ Halts
  <2>1. UNCHANGED msgVars
    BY <1>2 DEF Polls, Lands, Submits, Parks, Halts, TableKept, msgVars
  <2> QED
    BY <1>0, <2>1, KeptRowStep
<1>3. CASE Works
  <2>1. UNCHANGED msgVars \/ \E i : MarkVerifiedByDedupe(i)
    BY <1>3 DEF Works, TableKept, msgVars
  <2> QED
    BY <1>0, <2>1, KeptRowStep, DedupeRowStep
<1>4. CASE Takes
  BY <1>0, <1>4, ClaimRowStep DEF Takes
<1>5. CASE Returns
  BY <1>0, <1>1, <1>5, RecoverRowStep DEF Returns, TryMsg, Try
<1>6. CASE Settles
  <2>1. cur \in Ids
    BY <1>0, <1>6 DEF Settles, Holding
  <2>2. \/ UNCHANGED msgVars \/ MarkFailed(cur)
        \/ \E v \in {"verified", "unverified"} : MarkDelivered(cur, v)
    BY <1>6 DEF Settles, TryMsg, Try, Settle, storeVars, msgVars
  <2> QED
    BY <1>0, <2>1, <2>2, KeptRowStep, MarkRowStep
<1>7. CASE Tells
  <2>1. cur \in Ids /\ env[cur].from \in Agents /\ Self \in Agents
    BY <1>0, <1>7, MailmanAssumption DEF Tells, Holding, Told
  <2>2. \/ UNCHANGED storeVars
        \/ InsertNotice(Notice(Self, "stranded_draft", cur))
        \/ InsertNotice(Notice(env[cur].from, "dedupe_notice", cur))
        \/ InsertNotice(Notice(env[cur].from, "delivery_failure_notice", cur))
    BY <1>7 DEF Tells, TryNotice, TryMsg, Try
  <2> QED
    BY <1>0, <1>1, <2>1, <2>2, NoticeRowStep DEF Kinds
<1>8. CASE Frees
  BY <1>0, <1>1, <1>8, PromoteRowStep DEF Frees, TryMsg, Try
<1> QED
  BY <1>2, <1>3, <1>4, <1>5, <1>6, <1>7, <1>8 DEF MailmanShape

(* Rows keep their envelope and their recipient, ids are not reused: what  *)
(* the mailman has in hand stays its own.                                  *)
LEMMA RowsKept ==
  ASSUME BusInv, RowStep
  PROVE  /\ nextId <= nextId'
         /\ \A i \in Ids : i < nextId => env'[i] = env[i]
         /\ nextId \in Nat /\ nextId' \in Nat
<1>1. /\ nextId \in 1..(MaxId + 1) /\ nextId' \in 1..(MaxId + 1) /\ MaxId \in Nat
      /\ \A i \in Ids : st[i] = "absent" <=> i >= nextId
      /\ \A i \in Ids : st'[i] = "absent" <=> i >= nextId'
      /\ \A i \in Ids : /\ st'[i] # st[i] => st'[i] \in Successors[st[i]]
                        /\ i < nextId => env'[i] = env[i]
      /\ st \in [Ids -> States]
  BY StoreAssumption DEF BusInv, BusTypeOK, StoreTypeOK, RowStep, LifeCycleStep
<1>a. \A s \in States : "absent" \notin Successors[s]
  BY DEF Successors, States, RowStates
<1>2. \A i \in Ids : st'[i] = "absent" => st[i] = "absent"
  BY <1>1, <1>a
<1>3. nextId <= nextId'
  <2> SUFFICES ASSUME nextId' < nextId PROVE FALSE
    BY <1>1
  <2>1. nextId' \in Ids
    BY <1>1 DEF Ids
  <2> QED
    BY <1>1, <1>2, <2>1
<1>4. nextId \in Nat /\ nextId' \in Nat
  BY <1>1
<1>5. \A i \in Ids : i < nextId => env'[i] = env[i]
  BY <1>1
<1> QED
  BY <1>3, <1>4, <1>5

LEMMA ShapeStages ==
  ASSUME BusInv, MailmanShape
  PROVE  StageInv' /\ CountTypes'
<1>0. /\ pc \in Holding \cup Told => cur \in Ids /\ cur < nextId /\ env[cur].to = Self
      /\ nextId \in 1..(MaxId + 1) /\ MaxId \in Nat /\ Ids = 1..MaxId
      /\ shown \in [Ids -> Nat] /\ faults \in 0..MaxFaults /\ crashes \in 0..MaxCrashes
      /\ \A i \in Ids : st[i] = "absent" <=> i >= nextId
      /\ env \in [Ids -> Envelopes]
  BY StoreAssumption DEF BusInv, BusTypeOK, StageInv, StoreTypeOK, Ids
<1>1. /\ nextId <= nextId' /\ nextId' \in Nat
      /\ \A i \in Ids : i < nextId => env'[i] = env[i]
  BY ShapeRows, RowsKept
<1>2. CountTypes'
  <2>1. /\ faults' \in 0..MaxFaults /\ crashes' \in 0..MaxCrashes
    BY <1>0, MailmanAssumption
       DEF MailmanShape, Polls, Takes, Works, Lands, Submits, Returns, Settles, Tells, Frees, Parks, Halts,
           TryNotice, TryMsg, Try, Spent, Fault, Killed, errorVars
  <2>2. CASE Lands
    BY <1>0, <2>1, <2>2 DEF Lands, CountTypes, Holding
  <2>3. CASE UNCHANGED shown
    BY <1>0, <2>1, <2>3 DEF CountTypes
  <2> QED
    BY <2>2, <2>3
       DEF MailmanShape, Polls, Takes, Works, Submits, Returns, Settles, Tells, Frees, Parks, Halts
<1>3. StageInv'
  <2>1. CASE Takes
    <3>1. PICK i \in Ids : ClaimNext(Self, i) /\ cur' = i
                         /\ pc' = IF env[i].kind = "ping" THEN "ping" ELSE "cap"
      BY <2>1 DEF Takes
    <3>2. i < nextId /\ env[i].to = Self
      BY <1>0, <3>1 DEF ClaimNext, Claimable, Queued
    <3> QED
      BY <1>0, <1>1, <3>1, <3>2 DEF StageInv, Idle
  <2>2. CASE ~Takes
    <3>1. \/ pc' \in Idle /\ cur' = 0
          \/ pc' \in Holding \cup Told /\ pc \in Holding \cup Told /\ cur' = cur
      BY <2>2 DEF MailmanShape, Polls, Works, Lands, Submits, Returns, Settles, Tells, Frees, Parks, Halts,
                  Holding, Told, Idle
    <3> QED
      BY <1>0, <1>1, <3>1 DEF StageInv, Idle, Holding, Told
  <2> QED
    BY <2>1, <2>2
<1> QED
  BY <1>2, <1>3

(* The mailman's own variables. *)
LEMMA LoopTyped ==
  ASSUME BusInv, Start \/ Stop \/ Crash \/ Iteration
  PROVE  LoopTypes' /\ UNCHANGED <<host, session, limited>>
<1> USE DEF Try, TryMsg, TryAgent, Goto, loopVars, streakVars, compactVars, worldVars, errorVars,
            LoopTypes
<1>0. /\ LoopTypes /\ StuckThreshold \in Nat \ {0} /\ StaleThreshold \in Nat \ {0} /\ Self \in Agents
      /\ agent[Self].pane \in Panes \cup {NoPane}
  BY TypeParts, MailmanAssumption DEF BusInv, BusTypeOK, StoreTypeOK, AgentRows
<1>1. cur' \in Ids \cup {0}
  <2>1. StageInv' /\ cur \in Ids \cup {0}
    BY <1>0, ShapeOfStep, ShapeStages
  <2> QED
    BY <2>1, ShapeOfStep
       DEF MailmanShape, Polls, Takes, Works, Lands, Submits, Returns, Settles, Tells, Frees, Parks, Halts
<1> DEFINE Rest == /\ pc' \in Stages /\ pane' \in Panes \cup {NoPane} /\ out' \in Outcomes
                   /\ fails' \in 0..(StuckThreshold - 1) /\ failId' \in Ids \cup {0}
                   /\ staleFails' \in 0..(StaleThreshold - 1)
                   /\ compactAt' \in {0, 1} /\ promotedAt' \in {0, 1}
                   /\ UNCHANGED <<host, session, limited>>
<1>2. CASE Start \/ Stop \/ Crash
  <2>1. Rest
    BY <1>0, <1>2 DEF Start, Stop, Crash, Fresh, Stages, Outcomes
  <2> QED
    BY <1>1, <2>1
<1>3. CASE LoopTop \/ StampResume \/ PromoteResume \/ ReleaseResume
  <2>1. Rest
    BY <1>0, <1>3 DEF LoopTop, StampResume, PromoteResume, ReleaseResume, Stages, Outcomes
  <2> QED
    BY <1>1, <2>1
<1>4. CASE Claim \/ HandlePing \/ ProviderCap \/ Absorb \/ InsertDedupeNotice \/ GateDefer \/ GatePass \/ Park
  <2>1. Rest
    BY <1>0, <1>4 DEF Claim, HandlePing, ProviderCap, Absorb, InsertDedupeNotice, GateDefer, GatePass,
                      Park, Requeue, Stages, Outcomes
  <2> QED
    BY <1>1, <2>1
<1>5. CASE ResolveUnchecked \/ ResolveSession \/ ResolveByName
  <2>1. Rest
    BY <1>0, <1>5 DEF ResolveUnchecked, ResolveSession, ResolveByName, KeepPane, HealTo, SessionPanes,
                      Stages, Outcomes
  <2> QED
    BY <1>1, <2>1
<1>6. CASE SessionStale
  <2>1. staleFails + 1 < StaleThreshold => staleFails + 1 \in 0..(StaleThreshold - 1)
    BY <1>0
  <2>2. 0 \in 0..(StaleThreshold - 1)
    BY <1>0
  <2>3. Rest
    BY <1>0, <1>6, <2>1, <2>2 DEF SessionStale, Stages, Outcomes
  <2> QED
    BY <1>1, <2>3
<1>7. CASE Drift \/ Liveness \/ Dedupe
  <2>1. Rest
    BY <1>0, <1>7 DEF Drift, Liveness, Dedupe, FailDelivery, Deliverable, KeepPane, HealTo, NamedPanes,
                      Stages, Outcomes
  <2> QED
    BY <1>1, <2>1
<1>8. CASE ProbeSafe \/ ProbeUnsafe
  <2>1. Rest
    BY <1>0, <1>8 DEF ProbeSafe, ProbeUnsafe, Requeue, Stages, Outcomes
  <2> QED
    BY <1>1, <2>1
<1>9. CASE ProbeNotFound
  <2> DEFINE n == 1 + IF failId = cur THEN fails ELSE 0
  <2>1. n \in Nat /\ 0 \in 0..(StuckThreshold - 1)
    BY <1>0
  <2>2. \/ n >= StuckThreshold /\ fails' = 0 /\ failId' = 0 /\ pc' = "park"
        \/ ~(n >= StuckThreshold) /\ fails' = n /\ failId' = cur /\ pc' = "top"
    BY <1>9 DEF ProbeNotFound
  <2> HIDE DEF n
  <2>3. fails' \in 0..(StuckThreshold - 1) /\ failId' \in Ids \cup {0}
    BY <1>0, <2>1, <2>2
  <2>4. Rest
    BY <1>0, <1>9, <2>2, <2>3 DEF ProbeNotFound, Stages, Outcomes
  <2> QED
    BY <1>1, <2>4
<1>10. CASE SkipUnsupported \/ PasteLands \/ Submit \/ PasteMisses \/ AutoHeal
  <2>1. Rest
    BY <1>0, <1>10 DEF SkipUnsupported, PasteLands, Submit, PasteMisses, AutoHeal, Ended, NamedPanes, Stages, Outcomes
  <2> QED
    BY <1>1, <2>1
<1>11. CASE Mark \/ InsertFailureNotice
  <2>1. Rest
    BY <1>0, <1>11 DEF Mark, InsertFailureNotice, Requeue, Stages, Outcomes
  <2> QED
    BY <1>1, <2>1
<1> QED
  BY <1>2, <1>3, <1>4, <1>5, <1>6, <1>7, <1>8, <1>9, <1>10, <1>11 DEF Iteration

(* The agents table under the mailman: heals and parking. *)
LEMMA MailmanAgent ==
  ASSUME BusInv, Start \/ Stop \/ Crash \/ Iteration
  PROVE  AgentStep /\ agent'[Self].epoch = agent[Self].epoch
<1>1. \/ \E q \in Panes : UpsertAgent(Self, q)
      \/ SetStuck(Self)
      \/ UNCHANGED agent
  <2> USE DEF Try, TryMsg, TryAgent, TryNotice, storeVars, msgVars
  <2>1. CASE Start \/ Stop \/ Crash
    BY <2>1 DEF Start, Stop, Crash
  <2>2. CASE \/ LoopTop \/ StampResume \/ PromoteResume \/ Claim \/ HandlePing \/ ProviderCap
             \/ ResolveUnchecked \/ ResolveByName \/ SessionStale
    BY <2>2 DEF LoopTop, StampResume, PromoteResume, Claim, HandlePing, ProviderCap, ResolveUnchecked,
                ResolveByName, SessionStale, Requeue
  <2>3. CASE ResolveSession \/ Drift \/ Liveness
    BY <2>3 DEF ResolveSession, Drift, Liveness, SessionPanes, NamedPanes, HealTo, KeepPane, FailDelivery
  <2>4. CASE Dedupe \/ Absorb \/ InsertDedupeNotice \/ GateDefer \/ GatePass \/ ProbeSafe \/ ProbeUnsafe
    BY <2>4 DEF Dedupe, Absorb, InsertDedupeNotice, GateDefer, GatePass, ProbeSafe, ProbeUnsafe, Requeue
  <2>5. CASE ProbeNotFound \/ Park \/ SkipUnsupported \/ PasteLands \/ Submit \/ PasteMisses \/ AutoHeal
    BY <2>5 DEF ProbeNotFound, Park, SkipUnsupported, PasteLands, Submit, PasteMisses, AutoHeal, NamedPanes
  <2>6. CASE Mark \/ ReleaseResume \/ InsertFailureNotice
    BY <2>6 DEF Mark, ReleaseResume, InsertFailureNotice, Requeue
  <2> QED
    BY <2>1, <2>2, <2>3, <2>4, <2>5, <2>6 DEF Iteration
<1> QED
  BY <1>1, AgentRowStep DEF BusInv

LEMMA StoreTyped ==
  ASSUME RowStep, AgentStep
  PROVE  StoreTypeOK' /\ OnePaneOneIdentity' /\ VerdictIffDelivered'
BY DEF RowStep, AgentStep, StoreTypeOK

(* The floors stay below the ids to come, if no floor moves. *)
LEMMA FloorsKept ==
  ASSUME BusInv, RowStep, AgentStep, agent'[Self].epoch = agent[Self].epoch,
         UNCHANGED <<rpc, floor, skipped>>
  PROVE  RegisterInv'
<1>1. nextId <= nextId' /\ nextId \in Nat /\ nextId' \in Nat
  BY RowsKept
<1>2. /\ agent[Self].epoch \in Ids \cup {0} /\ agent[Self].epoch < nextId
      /\ floor \in Ids \cup {0} /\ floor < nextId
  BY TypeParts DEF BusInv, RegisterInv, RegisterTypes
<1>3. agent'[Self].epoch < nextId' /\ floor < nextId'
  BY <1>1, <1>2, StoreAssumption DEF Ids
<1> QED
  BY <1>2, <1>3 DEF RegisterInv, BusInv, AgentStep

LEMMA ServingStep ==
  ASSUME BusInv, Serving(Start) \/ Serving(Stop) \/ Serving(Crash) \/ Serving(Iteration)
  PROVE  BusInv' /\ RowStep
<1>1. /\ Start \/ Stop \/ Crash \/ Iteration
      /\ settled' = IF pc' = "resolve" THEN TRUE ELSE settled
      /\ clashed' = (clashed \/ ActiveHooks # {})
      /\ UNCHANGED <<registerVars, hookVars, ackFloor, moves, lost, held>>
  BY DEF Serving
<1>2. RowStep /\ StageInv' /\ CountTypes'
  BY <1>1, ShapeOfStep, ShapeRows, ShapeStages
<1>3. AgentStep /\ agent'[Self].epoch = agent[Self].epoch
  BY <1>1, MailmanAgent
<1>4. LoopTypes' /\ UNCHANGED <<host, session, limited>>
  BY <1>1, LoopTyped
<1>5. WorldTypes' /\ RegisterTypes' /\ HookTypes' /\ HookStageInv'
  <2>1. WorldTypes /\ RegisterTypes /\ HookTypes /\ HookStageInv
    BY TypeParts DEF BusInv
  <2>2. WorldTypes'
    BY <1>1, <1>4, <2>1 DEF WorldTypes
  <2>3. RegisterTypes' /\ HookTypes' /\ HookStageInv'
    BY <1>1, <2>1 DEF RegisterTypes, HookTypes, HookStageInv, registerVars, hookVars
  <2> QED
    BY <2>2, <2>3
<1>6. RegisterInv'
  BY <1>1, <1>2, <1>3, FloorsKept DEF registerVars
<1> QED
  BY <1>2, <1>3, <1>4, <1>5, <1>6, StoreTyped, TypePartsNext DEF BusInv

-----------------------------------------------------------------------------
(* Senders, commands, register and the world *)

(* Among a finite set of ids there is one with exactly k others above it:  *)
(* the row LIMIT 1 OFFSET k finds (QueuedBacklogFloor).                    *)
LEMMA RankedElement ==
  ASSUME NEW B \in Nat, NEW S \in SUBSET (1..B), NEW k \in Nat, k < Cardinality(S)
  PROVE  \E i \in S : Cardinality({j \in S : j > i}) = k
<1> DEFINE Above(i) == {j \in S : j > i}
           Few == {i \in 0..B : Cardinality(Above(i)) <= k}
<1>0. \A j \in S : j \in Int /\ 1 <= j /\ j <= B
  OBVIOUS
<1>1. IsFiniteSet(S)
  <2>1. IsFiniteSet(1..B)
    BY FS_Interval
  <2> QED
    BY <2>1, FS_Subset
<1>2. \A i \in 0..B : IsFiniteSet(Above(i)) /\ Cardinality(Above(i)) \in Nat
  BY <1>1, FS_Subset, FS_CardinalityType
<1>3. B \in Few
  <2>0. \A j \in S : ~(j > B)
    BY <1>0
  <2>1. Above(B) = {}
    BY <2>0
  <2> QED
    BY <2>1, FS_EmptySet
<1>4. PICK m \in Few : \A i \in Few : m <= i
  <2>1. Few \in SUBSET Nat /\ Few # {}
    BY <1>3
  <2> HIDE DEF Few
  <2> QED
    BY <2>1, LeastNumber
<1>5. m # 0
  <2>0. \A j \in S : j > 0
    BY <1>0
  <2>1. Above(0) = S
    BY <2>0
  <2>2. Cardinality(S) \in Nat
    BY <1>1, FS_CardinalityType
  <2> QED
    BY <1>4, <2>1, <2>2
<1>6. m \in 1..B /\ m - 1 \in 0..B /\ m - 1 \notin Few
  BY <1>4, <1>5
<1>7. Cardinality(Above(m - 1)) > k /\ Cardinality(Above(m)) <= k
  BY <1>2, <1>4, <1>6
<1>8. m \in S
  <2> SUFFICES ASSUME m \notin S PROVE FALSE
    OBVIOUS
  <2>1. \A j \in S : j > m - 1 <=> j > m
    BY <1>0, <1>6
  <2>2. Above(m - 1) = Above(m)
    BY <2>1
  <2> HIDE DEF Above
  <2> QED
    BY <1>2, <1>6, <1>7, <2>2
<1>9. Above(m - 1) = Above(m) \cup {m} /\ m \notin Above(m)
  <2>1. \A j \in S : j > m - 1 <=> j > m \/ j = m
    BY <1>0, <1>6
  <2>2. ~(m > m)
    BY <1>6
  <2> QED
    BY <1>8, <2>1, <2>2
<1>10. Cardinality(Above(m - 1)) = Cardinality(Above(m)) + 1
  <2> HIDE DEF Above
  <2> QED
    BY <1>2, <1>6, <1>9, FS_AddElement
<1>11. Cardinality(Above(m)) = k
  <2> HIDE DEF Above
  <2> QED
    BY <1>2, <1>6, <1>7, <1>10
<1> QED
  BY <1>8, <1>11

LEMMA BacklogTypes ==
  ASSUME BusInv
  PROVE  /\ Cardinality(Queued(Self)) > KeepNewest => BacklogFloor(Self, KeepNewest) \in Queued(Self)
         /\ BacklogSkipped(Self, KeepNewest) \in Ids \cup {0}
<1>1. /\ Queued(Self) \in SUBSET (1..MaxId) /\ MaxId \in Nat /\ KeepNewest \in Nat
  BY StoreAssumption, RegisterAssumption DEF Queued, Ids
<1>2. IsFiniteSet(1..MaxId) /\ Cardinality(1..MaxId) = MaxId
  BY <1>1, FS_Interval
<1>3. Cardinality(Queued(Self)) \in Nat /\ Cardinality(Queued(Self)) <= MaxId
  BY <1>1, <1>2, FS_Subset, FS_CardinalityType
<1>4. ASSUME Cardinality(Queued(Self)) > KeepNewest
      PROVE  BacklogFloor(Self, KeepNewest) \in Queued(Self)
  <2>1. KeepNewest < Cardinality(Queued(Self))
    BY <1>1, <1>3, <1>4
  <2>2. \E i \in Queued(Self) : Cardinality({j \in Queued(Self) : j > i}) = KeepNewest
    BY <1>1, <2>1, RankedElement
  <2> QED
    BY <2>2 DEF BacklogFloor
<1>5. BacklogSkipped(Self, KeepNewest) \in Ids \cup {0}
  BY <1>1, <1>3 DEF BacklogSkipped, Ids
<1> QED
  BY <1>4, <1>5

(* What all of them do to the table: nothing, acknowledge queued rows,     *)
(* insert a row, or release rows: those staged for a register by one, any  *)
(* by a flush.                                                             *)
OutsideRows ==
  \/ UNCHANGED msgVars
  \/ \E S \in SUBSET Queued(Self) : MoveRows(S, "acknowledged") /\ UNCHANGED verified
  \/ \E e \in Sendable : InsertMessage(e)
  \/ rpc = "nudge" /\ InsertNotice(Notice(Self, "backlog_announce", skipped))
  \/ rpc = "promote" /\ PromoteDeferred(Self, "register")
  \/ FlushDeferred /\ \E t \in {"resume", "register"} : PromoteDeferred(Self, t)

Outside ==
  /\ OutsideRows
  /\ UNCHANGED <<pc, cur, pane, out, shown, hookVars, clashed>>
  /\ compactAt' \in {compactAt, compactAt + 1}
  /\ Spent \/ Killed
  /\ lost' = lost + 1 \/ (lost' = lost /\ \A p \in Panes : host'[p] = "gone" => host[p] = "gone")

RegisterStep ==
  \/ RegisterBegin \/ McpRegister \/ RegisterAgent \/ RegisterSession \/ BacklogDepth \/ BacklogRead
  \/ BacklogFence \/ BacklogNudge \/ RegisterPromote \/ RegisterDies

WorldStep ==
  \/ Send \/ Acknowledge \/ AckAllReads \/ AckAllWrites \/ PauseOrResume \/ FlushDeferred \/ SelfCompact
  \/ PaneChanges \/ LimitChanges

LEMMA OutsideShape ==
  ASSUME BusInv, WorldStep \/ Registering(RegisterStep)
  PROVE  Outside
<1> USE DEF mailmanVars, loopVars, streakVars, compactVars, worldVars, errorVars, registerVars, hookVars,
            worldHistory, storeVars, msgVars, Outside, OutsideRows, Spent, Try, TryMsg, TryAgent, TryNotice
<1>1. CASE Send
  BY <1>1 DEF Send
<1>2. CASE Acknowledge
  <2>1. PICK i \in Ids : MarkAcknowledged(Self, i)
    BY <1>2 DEF Acknowledge
  <2>2. {i} \in SUBSET Queued(Self) /\ MoveRows({i}, "acknowledged") /\ UNCHANGED verified
    BY <2>1 DEF MarkAcknowledged
  <2> QED
    BY <1>2, <2>2 DEF Acknowledge
<1>3. CASE AckAllWrites
  <2> DEFINE S == {i \in Queued(Self) : i <= ackFloor}
  <2>1. S \in SUBSET Queued(Self) /\ MoveRows(S, "acknowledged") /\ UNCHANGED verified
    BY <1>3 DEF AckAllWrites, MarkAcknowledgedBatch
  <2> HIDE DEF S
  <2> QED
    BY <1>3, <2>1 DEF AckAllWrites
<1>4. CASE AckAllReads \/ PauseOrResume \/ SelfCompact \/ LimitChanges
  BY <1>4 DEF AckAllReads, PauseOrResume, SelfCompact, LimitChanges
<1>7. CASE PaneChanges
  <2>1. lost' = lost + 1 \/ (lost' = lost /\ \A p \in Panes : host'[p] = "gone" => host[p] = "gone")
    <3>1. host \in [Panes -> Running \cup {"shell", "gone"}] /\ "gone" \notin Running
      BY MailmanAssumption DEF BusInv, BusTypeOK, Running
    <3> QED
      BY <1>7, <3>1 DEF PaneChanges
  <2> QED
    BY <1>7, <2>1 DEF PaneChanges
<1>6. CASE FlushDeferred
  BY <1>6 DEF FlushDeferred
<1>5. CASE Registering(RegisterStep)
  <2>0. RegisterStep /\ UNCHANGED <<hookVars, lost, clashed>>
    BY <1>5 DEF Registering
  <2>1. CASE RegisterBegin
    <3>1. CASE UNCHANGED storeVars
      BY <2>0, <2>1, <3>1 DEF RegisterBegin
    <3>2. CASE AckStaleQueued(Self)
      <4> DEFINE S == {i \in Queued(Self) : env[i].after = "none"}
      <4>1. S \in SUBSET Queued(Self) /\ MoveRows(S, "acknowledged") /\ UNCHANGED verified
        BY <3>2 DEF AckStaleQueued
      <4> HIDE DEF S
      <4> QED
        BY <2>0, <2>1, <4>1 DEF RegisterBegin
    <3> QED
      BY <2>1, <3>1, <3>2 DEF RegisterBegin
  <2>2. CASE McpRegister \/ RegisterAgent \/ RegisterSession \/ BacklogDepth \/ BacklogRead \/ BacklogFence
    BY <2>0, <2>2 DEF McpRegister, RegisterAgent, RegisterSession, BacklogDepth, BacklogRead, BacklogFence
  <2>3. CASE BacklogNudge \/ RegisterPromote \/ RegisterDies
    BY <2>0, <2>3 DEF BacklogNudge, RegisterPromote, RegisterDies
  <2> QED
    BY <2>0, <2>1, <2>2, <2>3 DEF RegisterStep
<1> QED
  BY <1>1, <1>2, <1>3, <1>4, <1>5, <1>6, <1>7 DEF WorldStep

LEMMA OutsideStoreStep ==
  ASSUME BusInv, Outside
  PROVE  RowStep /\ StageInv' /\ CountTypes'
<1>0. /\ StoreTypeOK /\ VerdictIffDelivered /\ Self \in Agents /\ CountTypes
      /\ rpc = "nudge" => skipped \in Ids
  <2>1. skipped \in Ids \cup {0} /\ (rpc = "nudge" => skipped > 0)
    BY TypeParts DEF BusInv, RegisterTypes, RegisterInv
  <2> QED
    BY <2>1, TypeParts, MailmanAssumption, StoreAssumption DEF BusInv, Ids
<1>1. RowStep
  BY <1>0, KeptRowStep, AckRowStep, SendRowStep, NoticeRowStep, PromoteRowStep
     DEF Outside, OutsideRows, Kinds
<1>2. /\ nextId <= nextId' /\ nextId \in Nat /\ nextId' \in Nat
      /\ \A i \in Ids : i < nextId => env'[i] = env[i]
  BY <1>1, RowsKept
<1>3. StageInv'
  <2>1. /\ pc \in Holding \cup Told => cur \in Ids /\ cur < nextId /\ env[cur].to = Self
        /\ pc \in Idle => cur = 0
        /\ pc' = pc /\ cur' = cur
    BY DEF BusInv, StageInv, Outside
  <2>2. \A i \in Ids : i < nextId => i < nextId'
    BY <1>2, StoreAssumption DEF Ids
  <2> QED
    BY <1>2, <2>1, <2>2 DEF StageInv
<1>4. CountTypes'
  BY <1>0, MailmanAssumption DEF Outside, CountTypes, Spent, Fault, Killed, errorVars
<1> QED
  BY <1>1, <1>3, <1>4

LEMMA OutsideHooks ==
  ASSUME BusInv, Outside
  PROVE  HookTypes' /\ HookStageInv'
<1>1. HookTypes /\ HookStageInv
  BY TypeParts DEF BusInv
<1> QED
  BY <1>1 DEF Outside, HookTypes, HookStageInv, hookVars

LEMMA WorldStepInv ==
  ASSUME BusInv, WorldStep
  PROVE  BusInv' /\ RowStep /\ AgentStep /\ agent'[Self].epoch = agent[Self].epoch
<1> USE DEF mailmanVars, loopVars, streakVars, compactVars, worldVars, errorVars, registerVars, hookVars,
            worldHistory, storeVars, msgVars
<1>0. LoopTypes /\ WorldTypes /\ RegisterTypes /\ MaxMoves \in Nat /\ Self \in Agents
  BY TypeParts, MailmanAssumption, BusAssumption DEF BusInv
<1>1. RowStep /\ StageInv' /\ CountTypes' /\ HookTypes' /\ HookStageInv'
  BY OutsideShape, OutsideStoreStep, OutsideHooks
<1>2. \/ UNCHANGED agent
      \/ \E b \in BOOLEAN : SetPaused(Self, b)
  <2>1. (~agent[Self].paused) \in BOOLEAN
    OBVIOUS
  <2> QED
    BY <2>1 DEF WorldStep, Send, Acknowledge, AckAllReads, AckAllWrites, PauseOrResume, FlushDeferred, SelfCompact,
                PaneChanges, LimitChanges
<1>3. AgentStep /\ agent'[Self].epoch = agent[Self].epoch
  BY <1>2, AgentRowStep DEF BusInv
<1>4. UNCHANGED registerVars
  BY DEF WorldStep, Send, Acknowledge, AckAllReads, AckAllWrites, PauseOrResume, FlushDeferred, SelfCompact,
         PaneChanges, LimitChanges
<1>5. RegisterTypes' /\ RegisterInv'
  BY <1>0, <1>1, <1>3, <1>4, FloorsKept DEF RegisterTypes
<1>6. LoopTypes'
  BY <1>0 DEF LoopTypes, WorldStep, Send, Acknowledge, AckAllReads, AckAllWrites, PauseOrResume, FlushDeferred,
              SelfCompact, PaneChanges, LimitChanges
<1>7. WorldTypes'
  <2>1. CASE Send \/ Acknowledge \/ PauseOrResume \/ FlushDeferred \/ SelfCompact
    BY <1>0, <2>1 DEF WorldTypes, Send, Acknowledge, PauseOrResume, FlushDeferred, SelfCompact
  <2>2. CASE AckAllReads \/ AckAllWrites
    <3>1. agent[Self].epoch \in Ids \cup {0}
      BY DEF BusInv, RegisterInv
    <3> QED
      BY <1>0, <2>2, <3>1 DEF WorldTypes, AckAllReads, AckAllWrites
  <2>3. CASE LimitChanges
    <3>1. moves' \in 0..MaxMoves /\ lost' \in 0..moves'
      BY <1>0, <2>3 DEF WorldTypes, LimitChanges
    <3> QED
      BY <1>0, <2>3, <3>1 DEF WorldTypes, LimitChanges
  <2>4. CASE PaneChanges
    <3>1. moves' \in 0..MaxMoves
      BY <1>0, <2>4 DEF WorldTypes, PaneChanges
    <3>2. session' \in Agents \cup {"none", "old"}
      BY <1>0, <2>4 DEF WorldTypes, PaneChanges
    <3>3. host' \in [Panes -> Running \cup {"shell", "gone"}]
      BY <1>0, <2>4 DEF WorldTypes, PaneChanges
    <3>4. lost' \in 0..moves'
      BY <1>0, <2>4 DEF WorldTypes, PaneChanges
    <3> QED
      BY <1>0, <2>4, <3>1, <3>2, <3>3, <3>4 DEF WorldTypes, PaneChanges
  <2> QED
    BY <2>1, <2>2, <2>3, <2>4 DEF WorldStep
<1> QED
  BY <1>1, <1>3, <1>5, <1>6, <1>7, StoreTyped, TypePartsNext DEF BusInv

(* The register's own variables; only BacklogFence moves the floor. *)
LEMMA RegisterTyped ==
  ASSUME BusInv, RegisterStep
  PROVE  /\ RegisterTypes'
         /\ floor' < nextId
         /\ rpc' \in {"floor", "epoch", "nudge"} => skipped' > 0
         /\ AgentStep
         /\ agent'[Self].epoch = IF rpc = "epoch" /\ rpc' = "nudge" THEN floor ELSE agent[Self].epoch
<1> USE DEF mailmanVars, loopVars, streakVars, compactVars, worldVars, errorVars, storeVars, msgVars,
            Try, TryMsg, TryAgent, TryNotice
<1>0. /\ RegisterTypes /\ floor < nextId /\ (rpc \in {"floor", "epoch", "nudge"} => skipped > 0)
      /\ MaxRegisters \in Nat /\ Requests \subseteq [pane : Panes, mode : Modes]
      /\ BusTypeOK /\ OnePaneOneIdentity /\ RegisterInv
  BY TypeParts, RegisterAssumption DEF BusInv, RegisterInv, Requests
<1>1. CASE RegisterBegin \/ McpRegister
  <2>1. /\ req' \in Requests /\ rpc = "idle" /\ rpc' = "upsert" /\ registers < MaxRegisters
        /\ registers' = registers + 1 /\ UNCHANGED <<floor, skipped, agent>>
    BY <1>1 DEF RegisterBegin, McpRegister
  <2>2. AgentStep /\ agent'[Self].epoch = agent[Self].epoch
    BY <1>0, <2>1, AgentRowStep
  <2>3. registers' \in 0..MaxRegisters
    BY <1>0, <2>1 DEF RegisterTypes
  <2> QED
    BY <1>0, <2>1, <2>2, <2>3 DEF RegisterTypes, RegisterStages
<1>2. CASE RegisterAgent
  <2>1. /\ UNCHANGED <<req, floor, skipped, registers>>
        /\ rpc # "epoch" /\ rpc' \in {"mode", "clear", "session"}
    BY <1>2 DEF RegisterAgent
  <2>2. /\ req.pane \in Panes /\ req.mode \in Modes
    BY <1>0 DEF RegisterTypes
  <2>3. \/ \E q \in Panes : UpsertAgent(Self, q)
        \/ \E m \in Modes : SetDeliveryMode(Self, m)
        \/ ClearStuck(Self)
        \/ UNCHANGED agent
    BY <1>2, <2>2 DEF RegisterAgent
  <2>4. AgentStep /\ agent'[Self].epoch = agent[Self].epoch
    BY <1>0, <2>3, AgentRowStep
  <2> QED
    BY <1>0, <2>1, <2>4 DEF RegisterTypes, RegisterStages
<1>3. CASE RegisterSession \/ BacklogNudge \/ RegisterPromote \/ RegisterDies
  <2>1. /\ UNCHANGED <<req, floor, skipped, registers, agent>>
        /\ rpc' \in {"depth", "promote", "idle"}
    BY <1>3 DEF RegisterSession, BacklogNudge, RegisterPromote, RegisterDies
  <2>4. AgentStep /\ agent'[Self].epoch = agent[Self].epoch
    BY <1>0, <2>1, AgentRowStep
  <2> QED
    BY <1>0, <2>1, <2>4 DEF RegisterTypes, RegisterStages
<1>4. CASE BacklogDepth
  <2>1. /\ UNCHANGED <<req, floor, registers, agent>> /\ rpc = "depth"
        /\ skipped' = IF req.mode = "paste-and-enter" THEN BacklogSkipped(Self, KeepNewest) ELSE 0
        /\ rpc' = IF skipped' > 0 THEN "floor" ELSE "promote"
    BY <1>4 DEF BacklogDepth
  <2>2. skipped' \in Ids \cup {0}
    BY <2>1, BacklogTypes
  <2>4. AgentStep /\ agent'[Self].epoch = agent[Self].epoch
    BY <1>0, <2>1, AgentRowStep
  <2> QED
    BY <1>0, <2>1, <2>2, <2>4 DEF RegisterTypes, RegisterStages
<1>5. CASE BacklogRead
  <2>1. /\ UNCHANGED <<req, skipped, registers, agent>> /\ rpc = "floor"
        /\ \/ /\ Cardinality(Queued(Self)) > KeepNewest /\ rpc' = "epoch"
              /\ floor' = BacklogFloor(Self, KeepNewest)
           \/ rpc' = "promote" /\ UNCHANGED floor
    BY <1>5 DEF BacklogRead
  <2>2. floor' \in Ids \cup {0} /\ floor' < nextId
    <3>1. \A i \in Queued(Self) : i \in Ids /\ i < nextId
      <4>1. nextId \in Nat /\ MaxId \in Nat /\ \A i \in Ids : st[i] = "absent" <=> i >= nextId
        BY StoreAssumption DEF BusInv, BusTypeOK, StoreTypeOK
      <4> QED
        BY <4>1 DEF Queued, Ids
    <3> QED
      BY <1>0, <2>1, <3>1, BacklogTypes DEF RegisterTypes
  <2>4. AgentStep /\ agent'[Self].epoch = agent[Self].epoch
    BY <1>0, <2>1, AgentRowStep
  <2> QED
    BY <1>0, <2>1, <2>2, <2>4 DEF RegisterTypes, RegisterStages
<1>6. CASE BacklogFence
  <2>1. /\ UNCHANGED <<req, floor, skipped, registers>> /\ rpc = "epoch"
        /\ \/ rpc' = "nudge" /\ SetBacklogEpoch(Self, floor)
           \/ rpc' = "promote" /\ UNCHANGED agent
    BY <1>6 DEF BacklogFence
  <2>2. /\ AgentStep
        /\ agent'[Self].epoch = IF rpc' = "nudge" THEN floor ELSE agent[Self].epoch
    BY <1>0, <2>1, AgentRowStep, EpochStep
  <2> QED
    BY <1>0, <2>1, <2>2 DEF RegisterTypes, RegisterStages
<1> QED
  BY <1>1, <1>2, <1>3, <1>4, <1>5, <1>6 DEF RegisterStep

LEMMA RegisterStepInv ==
  ASSUME BusInv, Registering(RegisterStep)
  PROVE  BusInv' /\ RowStep
<1> USE DEF mailmanVars, loopVars, streakVars, compactVars, worldVars, errorVars, storeVars, msgVars
<1>0. /\ LoopTypes /\ WorldTypes
      /\ agent[Self].epoch \in Ids \cup {0} /\ agent[Self].epoch < nextId
      /\ floor \in Ids \cup {0} /\ floor < nextId
  BY TypeParts DEF BusInv, RegisterInv, RegisterTypes
<1>1. RowStep /\ StageInv' /\ CountTypes' /\ HookTypes' /\ HookStageInv'
  BY OutsideShape, OutsideStoreStep, OutsideHooks
<1>2. /\ RegisterStep
      /\ held' = held \cup BelowFloor'
      /\ settled' = (settled /\ session' = session)
      /\ UNCHANGED <<ackFloor, moves, lost, clashed>>
  BY DEF Registering
<1>3. /\ RegisterTypes' /\ AgentStep /\ floor' < nextId
      /\ rpc' \in {"floor", "epoch", "nudge"} => skipped' > 0
      /\ agent'[Self].epoch \in {floor, agent[Self].epoch}
  BY <1>2, RegisterTyped
<1>4. RegisterInv'
  <2>1. nextId <= nextId' /\ nextId \in Nat /\ nextId' \in Nat
    BY <1>1, RowsKept
  <2>2. \A i \in Ids \cup {0} : i < nextId => i < nextId'
    BY <2>1, StoreAssumption DEF Ids
  <2>3. floor' \in Ids \cup {0}
    BY <1>3 DEF RegisterTypes
  <2> QED
    BY <1>0, <1>3, <2>2, <2>3 DEF RegisterInv, AgentStep
<1>5. LoopTypes'
  <2>1. UNCHANGED <<pc, cur, pane, out, fails, failId, staleFails, compactAt, promotedAt>>
    BY <1>2 DEF RegisterStep, RegisterBegin, McpRegister, RegisterAgent, RegisterSession, BacklogDepth,
                BacklogRead, BacklogFence, BacklogNudge, RegisterPromote, RegisterDies
  <2> QED
    BY <1>0, <2>1 DEF LoopTypes
<1>6. WorldTypes'
  <2>1. UNCHANGED <<host, limited>> /\ session' \in {session} \cup Agents
    BY <1>2 DEF RegisterStep, RegisterBegin, McpRegister, RegisterAgent, RegisterSession, BacklogDepth,
                BacklogRead, BacklogFence, BacklogNudge, RegisterPromote, RegisterDies
  <2>2. held' \subseteq Ids
    BY <1>0, <1>2 DEF WorldTypes, BelowFloor, Queued, Delivering
  <2> QED
    BY <1>0, <1>2, <2>1, <2>2 DEF WorldTypes
<1> QED
  BY <1>1, <1>3, <1>4, <1>5, <1>6, StoreTyped, TypePartsNext DEF BusInv

-----------------------------------------------------------------------------
(* Hooks *)

HookStep(h) ==
  \/ HookBegin(h) \/ HookRecover(h) \/ HookClaim(h) \/ HookMark(h) \/ HookPrint(h) \/ HookDies(h)

(* What a hook does to the store, and to its own variables. *)
LEMMA HookTyped ==
  ASSUME BusInv, NEW h \in Hooks, HookStep(h)
  PROVE  RowStep /\ UNCHANGED agent /\ HookTypes' /\ HookStageInv' /\ Spent
<1> USE DEF storeVars, msgVars, errorVars, Spent, HookGoto
<1>0. /\ HookTypes /\ HookStageInv /\ StoreTypeOK /\ VerdictIffDelivered
      /\ hpc \in [Hooks -> HookStages] /\ took \in [Hooks -> Seq(Ids)] /\ batch \in [Hooks -> SUBSET Ids]
      /\ presented \in [Ids -> Nat]
  BY TypeParts DEF BusInv, HookTypes
<1>a. ASSUME UNCHANGED storeVars PROVE RowStep
  BY <1>0, <1>a, KeptRowStep
<1>b. ASSUME NEW stage \in {"done", "dead"}, HookEnds(h, stage), UNCHANGED presented
      PROVE  HookTypes' /\ HookStageInv'
  <2>1. <<>> \in Seq(Ids)
    OBVIOUS
  <2>2. /\ hpc' = [hpc EXCEPT ![h] = stage] /\ took' = [took EXCEPT ![h] = <<>>]
        /\ batch' = [batch EXCEPT ![h] = {}]
    BY <1>b DEF HookEnds
  <2>3. HookTypes'
    BY <1>0, <1>b, <2>1, <2>2 DEF HookTypes, HookStages
  <2> QED
    BY <1>0, <2>2, <2>3 DEF HookStageInv
<1>c. ASSUME HookFails(h), Spent
      PROVE  RowStep /\ UNCHANGED agent /\ HookTypes' /\ HookStageInv' /\ Spent
  BY <1>a, <1>b, <1>c DEF HookFails
<1>1. CASE HookBegin(h)
  <2>1. HookTypes' /\ HookStageInv'
    BY <1>0, <1>1 DEF HookBegin, HookTypes, HookStageInv, HookStages
  <2> QED
    BY <1>1, <1>a, <2>1 DEF HookBegin
<1>2. CASE HookRecover(h)
  <2>1. CASE Fault /\ HookFails(h)
    BY <1>c, <2>1
  <2>2. CASE /\ RecoverDelivering(Self) /\ HookGoto(h, "claim")
             /\ UNCHANGED <<agent, errorVars, took, batch, presented>>
    <3>1. HookTypes' /\ HookStageInv'
      BY <1>0, <2>2 DEF HookTypes, HookStageInv, HookStages
    <3> QED
      BY <1>0, <2>2, <3>1, RecoverRowStep
  <2> QED
    BY <1>2, <2>1, <2>2 DEF HookRecover
<1>3. CASE HookClaim(h)
  <2>1. CASE Fault /\ HookFails(h)
    BY <1>c, <2>1
  <2>2. ASSUME NEW i \in Ids, ClaimNext(Self, i),
               took' = [took EXCEPT ![h] = Append(@, i)],
               batch' = [batch EXCEPT ![h] = @ \cup {i}],
               UNCHANGED <<agent, errorVars, hpc, presented>>
        PROVE  RowStep /\ UNCHANGED agent /\ HookTypes' /\ HookStageInv' /\ Spent
    <3>1. Append(took[h], i) \in Seq(Ids)
      BY <1>0, <2>2
    <3>2. HookTypes'
      BY <1>0, <2>2, <3>1 DEF HookTypes
    <3>3. hpc[h] = "claim"
      BY <1>3 DEF HookClaim
    <3>4. HookStageInv'
      BY <1>0, <2>2, <3>3 DEF HookStageInv
    <3> QED
      BY <1>0, <2>2, <3>2, <3>4, ClaimRowStep
  <2>3. CASE /\ HookGoto(h, IF took[h] = <<>> THEN "done" ELSE "mark")
             /\ UNCHANGED <<storeVars, errorVars, took, batch, presented>>
    <3>1. HookTypes' /\ HookStageInv'
      BY <1>0, <2>3 DEF HookTypes, HookStageInv, HookStages
    <3> QED
      BY <1>a, <2>3, <3>1
  <2> QED
    BY <1>3, <2>1, <2>2, <2>3 DEF HookClaim
<1>4. CASE HookMark(h)
  <2>1. CASE HookFails(h)
    BY <1>4, <1>c, <2>1 DEF HookMark
  <2>2. CASE MarkDelivered(Head(took[h]), "verified") /\ MarkedHead(h) /\ UNCHANGED errorVars
    <3>1. took[h] # <<>> /\ took[h] \in Seq(Ids)
      BY <1>0, <1>4 DEF HookMark, HookStageInv
    <3>2. Head(took[h]) \in Ids /\ Tail(took[h]) \in Seq(Ids)
      BY <3>1
    <3>3. Len(took[h]) = 1 <=> Tail(took[h]) = <<>>
      <4>1. Len(took[h]) \in Nat /\ Len(took[h]) # 0 /\ Len(Tail(took[h])) = Len(took[h]) - 1
        BY <3>1, LenProperties, EmptySeq, HeadTailProperties
      <4>2. Tail(took[h]) = <<>> <=> Len(Tail(took[h])) = 0
        BY <3>2, EmptySeq
      <4> QED
        BY <4>1, <4>2
    <3>4. /\ took' = [took EXCEPT ![h] = Tail(took[h])]
          /\ hpc' = [hpc EXCEPT ![h] = IF Len(took[h]) = 1 THEN "print" ELSE "mark"]
          /\ UNCHANGED <<agent, batch, presented>>
      BY <2>2 DEF MarkedHead
    <3>5. HookTypes'
      BY <1>0, <3>2, <3>4 DEF HookTypes, HookStages
    <3>6. HookStageInv'
      BY <1>0, <3>3, <3>4 DEF HookStageInv
    <3> QED
      BY <1>0, <2>2, <3>2, <3>4, <3>5, <3>6, MarkRowStep
  <2> QED
    BY <1>4, <2>1, <2>2 DEF HookMark
<1>5. CASE HookPrint(h)
  <2>1. /\ presented' = [i \in Ids |-> IF i \in batch[h] THEN presented[i] + 1 ELSE presented[i]]
        /\ hpc' = [hpc EXCEPT ![h] = "done"] /\ took' = [took EXCEPT ![h] = <<>>]
        /\ batch' = [batch EXCEPT ![h] = {}]
        /\ UNCHANGED <<storeVars, errorVars>>
    BY <1>5 DEF HookPrint, HookEnds
  <2>2. presented' \in [Ids -> Nat] /\ <<>> \in Seq(Ids)
    BY <1>0, <2>1
  <2>3. HookTypes' /\ HookStageInv'
    BY <1>0, <2>1, <2>2 DEF HookTypes, HookStageInv, HookStages
  <2> QED
    BY <1>a, <2>1, <2>3
<1>6. CASE HookDies(h)
  BY <1>6, <1>a, <1>b DEF HookDies
<1> QED
  BY <1>1, <1>2, <1>3, <1>4, <1>5, <1>6 DEF HookStep

HookingStep == \E h \in Hooks : HookStep(h)

LEMMA HookStepInv ==
  ASSUME BusInv, HookingStep,
         clashed' \in BOOLEAN,
         UNCHANGED <<loopVars, streakVars, compactVars, worldVars, shown, registerVars, ackFloor, moves,
                     lost, settled, held>>
  PROVE  BusInv' /\ RowStep
<1> USE DEF loopVars, streakVars, compactVars, worldVars, registerVars
<1>0. /\ LoopTypes /\ WorldTypes /\ CountTypes /\ RegisterTypes /\ StageInv
      /\ BusTypeOK /\ OnePaneOneIdentity /\ RegisterInv
  BY TypeParts DEF BusInv
<1>1. RowStep /\ UNCHANGED agent /\ HookTypes' /\ HookStageInv' /\ Spent
  BY HookTyped DEF HookingStep
<1>2. AgentStep /\ agent'[Self].epoch = agent[Self].epoch
  BY <1>0, <1>1, AgentRowStep
<1>3. RegisterInv'
  BY <1>1, <1>2, FloorsKept
<1>4. LoopTypes' /\ RegisterTypes'
  BY <1>0 DEF LoopTypes, RegisterTypes
<1>5. WorldTypes'
  BY <1>0 DEF WorldTypes
<1>6. CountTypes'
  BY <1>0, <1>1, MailmanAssumption DEF CountTypes, Spent, Fault, errorVars
<1>7. StageInv'
  <2>1. /\ nextId <= nextId' /\ nextId \in Nat /\ nextId' \in Nat
        /\ \A i \in Ids : i < nextId => env'[i] = env[i]
    BY <1>1, RowsKept
  <2>2. \A i \in Ids : i < nextId => i < nextId'
    BY <2>1, StoreAssumption DEF Ids
  <2> QED
    BY <1>0, <2>1, <2>2 DEF StageInv
<1> QED
  BY <1>1, <1>2, <1>3, <1>4, <1>5, <1>6, <1>7, StoreTyped, TypePartsNext DEF BusInv

-----------------------------------------------------------------------------

LEMMA BusInitInv == BusInit => BusInv
<1> SUFFICES ASSUME BusInit PROVE BusInv
  OBVIOUS
<1>0. /\ MaxId \in Nat /\ Self \in Agents /\ Home \in Panes /\ HomeMode \in Modes
      /\ StuckThreshold \in Nat \ {0} /\ StaleThreshold \in Nat \ {0}
      /\ MaxFaults \in Nat /\ MaxCrashes \in Nat /\ MaxRegisters \in Nat /\ MaxMoves \in Nat
      /\ NoPane \notin Panes
  BY StoreAssumption, MailmanAssumption, RegisterAssumption, BusAssumption
<1>1. /\ agent = [a \in Agents |-> IF a = Self THEN [NewAgent EXCEPT !.registered = TRUE, !.pane = Home,
                                                                    !.mode = HomeMode]
                                 ELSE NewAgent]
      /\ st = [i \in Ids |-> "absent"] /\ verified = [i \in Ids |-> "null"] /\ nextId = 1
      /\ env = [i \in Ids |-> CHOOSE e \in Sendable : TRUE]
  BY DEF BusInit
<1>2. agent \in [Agents -> AgentRows] /\ agent[Self].registered /\ agent[Self].epoch = 0
      /\ agent[Self].pane = Home /\ agent[Self].mode = HomeMode
  BY <1>0, <1>1 DEF NewAgent, AgentRows, Modes
<1>3. StoreTypeOK
  <2>1. (CHOOSE e \in Sendable : TRUE) \in Envelopes
    BY StoreAssumption
  <2>2. env \in [Ids -> Envelopes]
    BY <1>1, <2>1
  <2>3. st \in [Ids -> States] /\ verified \in [Ids -> Verdicts] /\ nextId \in 1..(MaxId + 1)
    BY <1>0, <1>1 DEF States, Verdicts
  <2>4. /\ \A i \in Ids : st[i] = "absent" <=> i >= nextId
        /\ \A i \in Ids : st[i] = "deferred" => env[i].after # "none"
    BY <1>0, <1>1 DEF Ids
  <2> QED
    BY <1>2, <2>2, <2>3, <2>4 DEF StoreTypeOK
<1>4. OnePaneOneIdentity /\ VerdictIffDelivered
  BY <1>1 DEF OnePaneOneIdentity, VerdictIffDelivered, NewAgent
<1>5. LoopTypes /\ CountTypes /\ StageInv
  BY <1>0 DEF BusInit, MailmanInit, LoopTypes, CountTypes, StageInv, Stages, Outcomes, Holding, Told, Idle
<1>6. RegisterTypes
  BY <1>0, <1>2 DEF BusInit, RegisterInit, RegisterTypes, RegisterStages
<1>7. RegisterInv
  BY <1>1, <1>2 DEF BusInit, RegisterInit, RegisterInv
<1>8. HookTypes /\ HookStageInv
  <2>1. <<>> \in Seq(Ids)
    OBVIOUS
  <2> QED
    BY <2>1 DEF BusInit, HookInit, HookTypes, HookStageInv, HookStages
<1>9. WorldTypes
  <2>1. host = [p \in Panes |-> IF p = Home THEN Self ELSE "shell"]
    BY DEF BusInit
  <2>2. host \in [Panes -> Running \cup {"shell", "gone"}]
    BY <1>0, <2>1 DEF Running
  <2>3. session \in Agents \cup {"none", "old"}
    BY <1>0, BusAssumption DEF BusInit
  <2>4. /\ limited \in BOOLEAN /\ ackFloor \in Ids \cup {0}
        /\ moves \in 0..MaxMoves /\ lost \in 0..moves /\ settled \in BOOLEAN /\ held \subseteq Ids /\ clashed \in BOOLEAN
    <3>1. limited = FALSE /\ ackFloor = 0 /\ moves = 0 /\ lost = 0 /\ settled = TRUE /\ held = {} /\ clashed = FALSE
      BY DEF BusInit
    <3>2. moves \in 0..MaxMoves /\ lost \in 0..moves
      BY <1>0, <3>1
    <3>3. limited \in BOOLEAN /\ settled \in BOOLEAN /\ clashed \in BOOLEAN
      BY <3>1, Zenon
    <3> QED
      BY <3>1, <3>2, <3>3
  <2> QED
    BY <2>2, <2>3, <2>4 DEF WorldTypes
<1> QED
  BY <1>3, <1>4, <1>5, <1>6, <1>7, <1>8, <1>9, TypeParts DEF BusInv

(* The steps of the bus, by who takes them. *)
HooksTurn ==
  /\ HookingStep
  /\ clashed' = (clashed \/ (ActiveHooks' # {} /\ (pc # "off" \/ Cardinality(ActiveHooks') > 1)))
  /\ UNCHANGED <<loopVars, streakVars, compactVars, worldVars, shown, registerVars, ackFloor, moves,
                 lost, settled, held>>

MailmansTurn == Serving(Start) \/ Serving(Stop) \/ Serving(Crash) \/ Serving(Iteration)

LEMMA WhoseTurn ==
  ASSUME BusNext
  PROVE  WorldStep \/ Registering(RegisterStep) \/ MailmansTurn \/ HooksTurn
BY DEF BusNext, WorldStep, Registering, RegisterStep, MailmansTurn, Serving, Iteration, Hooking, HooksTurn,
       HookingStep, HookStep

LEMMA BusStepInv ==
  ASSUME BusInv, [BusNext]_busVars
  PROVE  BusInv' /\ RowStep
<1>1. CASE WorldStep
  BY <1>1, WorldStepInv
<1>2. CASE Registering(RegisterStep)
  BY <1>2, RegisterStepInv
<1>3. CASE MailmansTurn
  BY <1>3, ServingStep DEF MailmansTurn
<1>4. CASE HooksTurn
  <2>1. clashed' \in BOOLEAN
    BY <1>4 DEF HooksTurn
  <2> QED
    BY <1>4, <2>1, HookStepInv DEF HooksTurn
<1>5. CASE UNCHANGED busVars
  <2> USE DEF busVars, storeVars, msgVars, mailmanVars, registerVars, hookVars, worldHistory
  <2>1. RowStep
    BY <1>5, KeptRowStep DEF BusInv, BusTypeOK
  <2>2. BusTypeOK'
    <3>1. StoreTypeOK /\ LoopTypes /\ WorldTypes /\ CountTypes /\ RegisterTypes /\ HookTypes
      BY TypeParts DEF BusInv
    <3>2. StoreTypeOK' /\ LoopTypes' /\ WorldTypes'
      BY <1>5, <3>1 DEF StoreTypeOK, LoopTypes, WorldTypes
    <3>3. CountTypes' /\ RegisterTypes' /\ HookTypes'
      BY <1>5, <3>1 DEF CountTypes, RegisterTypes, HookTypes
    <3> QED
      BY <3>2, <3>3, TypePartsNext
  <2>3. OnePaneOneIdentity' /\ VerdictIffDelivered' /\ StageInv'
    BY <1>5 DEF BusInv, OnePaneOneIdentity, VerdictIffDelivered, StageInv
  <2>4. RegisterInv' /\ HookStageInv'
    BY <1>5 DEF BusInv, RegisterInv, HookStageInv
  <2> QED
    BY <2>1, <2>2, <2>3, <2>4 DEF BusInv
<1> QED
  BY <1>1, <1>2, <1>3, <1>4, <1>5, WhoseTurn

(* Every variable of the store, the mailman, the register and the hooks    *)
(* keeps its type, the streak counters stay below the thresholds that park *)
(* the mailman, and the stages fit what is in hand (BusTypeOK, with the    *)
(* strengthening that makes it inductive).                                 *)
THEOREM BusInvariant == BusSpec => []BusInv
<1>1. BusInv /\ [BusNext]_busVars => BusInv'
  BY BusStepInv
<1> QED
  BY BusInitInv, <1>1, PTL DEF BusSpec

THEOREM BusTypeCorrect == BusSpec => []BusTypeOK
BY BusInvariant, PTL DEF BusInv

(* What a step of the bus may be. *)
LEMMA StepShape ==
  ASSUME BusInv, [BusNext]_busVars
  PROVE  \/ Outside
         \/ MailmanShape /\ clashed' = (clashed \/ ActiveHooks # {}) /\ UNCHANGED <<hookVars, lost, host>>
         \/ HooksTurn
<1>1. CASE WorldStep \/ Registering(RegisterStep)
  BY <1>1, OutsideShape
<1>2. CASE MailmansTurn
  <2>1. Start \/ Stop \/ Crash \/ Iteration
    BY <1>2 DEF MailmansTurn, Serving
  <2>2. MailmanShape /\ UNCHANGED host
    BY <2>1, ShapeOfStep, LoopTyped
  <2> QED
    BY <1>2, <2>2 DEF MailmansTurn, Serving
<1>3. CASE UNCHANGED busVars
  BY <1>3 DEF Outside, OutsideRows, Spent, busVars, storeVars, msgVars, mailmanVars, errorVars, hookVars,
              worldHistory
<1> QED
  BY <1>1, <1>2, <1>3, WhoseTurn

-----------------------------------------------------------------------------
(* What the path guarantees *)

(* Rows that may still be claimed one day. *)
Open == {"absent", "queued", "deferred", "delivering"}

(* While nobody else reads the queue, hooks and mailman take turns, ... *)
ClashInv ==
  ~clashed => (ActiveHooks = {} \/ pc = "off") /\ \A h, g \in ActiveHooks : h = g

(* ... the row in hand is in flight, ... *)
HoldInv == ~clashed /\ pc \in Holding => st[cur] = "delivering"

(* ... and as long as no write failed it is the only one. *)
FlightInv ==
  faults = 0 /\ ~clashed /\ pc # "off" =>
    \A i \in Delivering(Self) : i = cur /\ pc \in Holding

(* The row was put into the pane that is still there, and is not marked    *)
(* yet.                                                                    *)
Pasted(i) ==
  /\ cur = i
  /\ \/ pc = "enter" /\ ~Missing(pane)
     \/ pc = "reenter"
     \/ pc = "mark" /\ out \in {"verified", "external", "unverified", "failed"}

(* What may cost a paste. *)
Price == faults + crashes + lost

(* An open row was shown once per failure at most, save for the paste that *)
(* is just being submitted and marked.  A pane that goes away before Enter *)
(* is through is such a failure.                                           *)
DupInv ==
  ~clashed => \A i \in Ids : /\ shown[i] <= 1 + Price
                             /\ st[i] \in Open /\ ~Pasted(i) => shown[i] <= Price

(* What brought the mailman to its stage. *)
EvidenceInv ==
  /\ pc = "ping" => env[cur].kind = "ping"
  /\ pc = "mark" => out # "none"
  /\ pc = "mark" /\ out \in {"verified", "external", "unverified"} => shown[cur] > 0
  /\ pc \in {"enter", "reenter"} => shown[cur] > 0
  /\ pc = "mark" /\ out = "unsupported" => NeedsNoPane(env[cur])
  /\ pc = "settle" => /\ env[cur].kind = "control" /\ env[cur].body \in Resets /\ shown[cur] > 0
                      /\ ~clashed => st[cur] \in {"delivered", "delivering"}
  /\ pc \in {"watermark", "promote"} => compactAt > 0

CoreInv == BusInv /\ ClashInv /\ HoldInv /\ FlightInv /\ DupInv /\ EvidenceInv

-----------------------------------------------------------------------------
(* Facts about rows *)

(* What is closed stays closed. *)
LEMMA OpenBefore ==
  ASSUME BusInv, RowStep, NEW i \in Ids, st'[i] \in Open
  PROVE  st[i] \in Open
<1>1. st[i] \in States /\ (st'[i] # st[i] => st'[i] \in Successors[st[i]])
  BY DEF BusInv, BusTypeOK, StoreTypeOK, RowStep, LifeCycleStep
<1>2. \A s \in States \ Open : Successors[s] \cap Open = {}
  BY DEF Successors, States, RowStates, Open
<1> QED
  BY <1>1, <1>2

(* Rows in flight stay in flight, and no other joins them. *)
FlightKept == \A i \in Ids : st'[i] = "delivering" <=> st[i] = "delivering"

LEMMA OutsideFlight ==
  ASSUME BusInv, Outside
  PROVE  FlightKept
<1>0. st \in [Ids -> States] /\ \A i \in Ids : st[i] = "absent" <=> i >= nextId
  BY DEF BusInv, BusTypeOK, StoreTypeOK
<1>1. CASE UNCHANGED msgVars
  BY <1>1 DEF FlightKept, msgVars
<1>2. ASSUME NEW S \in SUBSET Queued(Self), MoveRows(S, "acknowledged")
      PROVE  FlightKept
  BY <1>0, <1>2 DEF FlightKept, MoveRows, Queued
<1>3. ASSUME NEW e, NEW s \in {"queued", "deferred", "refused"}, InsertRow(e, s)
      PROVE  FlightKept
  <2>1. nextId \in Ids /\ st' = [st EXCEPT ![nextId] = s]
    BY <1>3 DEF InsertRow
  <2>2. st[nextId] = "absent"
    BY <1>0, <2>1, StoreAssumption DEF Ids
  <2> QED
    BY <1>0, <1>3, <2>1, <2>2 DEF FlightKept
<1>4. ASSUME NEW t, PromoteDeferred(Self, t)
      PROVE  FlightKept
  BY <1>0, <1>4 DEF FlightKept, PromoteDeferred, MoveRows, DeferredRows
<1> QED
  BY <1>1, <1>2, <1>3, <1>4 DEF Outside, OutsideRows, InsertMessage, InsertNotice

LEMMA TellsFlight ==
  ASSUME BusInv, Tells
  PROVE  FlightKept
<1>0. st \in [Ids -> States] /\ \A i \in Ids : st[i] = "absent" <=> i >= nextId
  BY DEF BusInv, BusTypeOK, StoreTypeOK
<1>1. ASSUME NEW e, InsertRow(e, "queued")
      PROVE  FlightKept
  <2>1. nextId \in Ids /\ st' = [st EXCEPT ![nextId] = "queued"]
    BY <1>1 DEF InsertRow
  <2>2. st[nextId] = "absent"
    BY <1>0, <2>1, StoreAssumption DEF Ids
  <2> QED
    BY <1>0, <2>1, <2>2 DEF FlightKept
<1>2. CASE UNCHANGED storeVars
  BY <1>2 DEF FlightKept, storeVars
<1>3. (\E e : InsertRow(e, "queued")) \/ UNCHANGED storeVars
  BY DEF Tells, TryNotice, TryMsg, Try, InsertNotice
<1> QED
  BY <1>1, <1>2, <1>3

LEMMA FreesFlight ==
  ASSUME BusInv, Frees
  PROVE  FlightKept
<1>0. st \in [Ids -> States]
  BY DEF BusInv, BusTypeOK, StoreTypeOK
<1>1. CASE PromoteDeferred(Self, "resume")
  BY <1>0, <1>1 DEF FlightKept, PromoteDeferred, MoveRows, DeferredRows
<1>2. CASE UNCHANGED storeVars
  BY <1>2 DEF FlightKept, storeVars
<1> QED
  BY <1>1, <1>2 DEF Frees, TryMsg, Try

(* A hook that fires beside a working mailman, and does not clash, is one  *)
(* that finds the mode is not its own.                                     *)
LEMMA HooksQuiet ==
  ASSUME ClashInv, HooksTurn, ~clashed', pc # "off"
  PROVE  UNCHANGED <<storeVars, errorVars, took, batch, presented>> /\ ActiveHooks' = {}
<1>1. ActiveHooks = {} /\ ActiveHooks' = {} /\ ~clashed
  BY DEF HooksTurn, ClashInv
<1>2. PICK h \in Hooks : HookStep(h)
  BY DEF HooksTurn, HookingStep
<1>3. hpc[h] \in {"ready", "done", "dead"}
  BY <1>1 DEF ActiveHooks
<1>4. HookBegin(h)
  BY <1>1, <1>2, <1>3 DEF HookStep, HookRecover, HookClaim, HookMark, HookPrint, HookDies
<1> QED
  BY <1>1, <1>4 DEF HookBegin

LEMMA TwoElements ==
  ASSUME NEW S, IsFiniteSet(S), NEW a \in S, NEW b \in S, a # b
  PROVE  Cardinality(S) > 1
<1>1. IsFiniteSet({a}) /\ Cardinality({a}) = 1
  BY FS_Singleton
<1>2. Cardinality({a} \cup {b}) = 2
  BY <1>1, FS_AddElement
<1>3. {a} \cup {b} \in SUBSET S
  OBVIOUS
<1>4. Cardinality({a} \cup {b}) <= Cardinality(S) /\ Cardinality(S) \in Nat
  BY <1>3, FS_Subset, FS_CardinalityType
<1> QED
  BY <1>2, <1>4

-----------------------------------------------------------------------------
(* The core invariant is inductive *)

LEMMA ClashStep ==
  ASSUME BusInv, ClashInv, [BusNext]_busVars
  PROVE  ClashInv'
<1>1. CASE Outside
  <2>1. ActiveHooks' = ActiveHooks
    BY <1>1 DEF Outside, hookVars, ActiveHooks
  <2> QED
    BY <1>1, <2>1 DEF Outside, ClashInv
<1>2. CASE MailmanShape /\ clashed' = (clashed \/ ActiveHooks # {}) /\ UNCHANGED <<hookVars, lost, host>>
  <2>1. ActiveHooks' = ActiveHooks
    BY <1>2 DEF hookVars, ActiveHooks
  <2> QED
    BY <1>2, <2>1 DEF ClashInv
<1>3. CASE HooksTurn
  <2> SUFFICES ASSUME ~clashed'
               PROVE  /\ ActiveHooks' = {} \/ pc' = "off"
                      /\ \A h, g \in ActiveHooks' : h = g
    BY DEF ClashInv
  <2>1. /\ ActiveHooks' = {} \/ (pc = "off" /\ ~(Cardinality(ActiveHooks') > 1))
        /\ pc' = pc
    BY <1>3 DEF HooksTurn, loopVars
  <2>2. IsFiniteSet(ActiveHooks')
    <3>1. ActiveHooks' \in SUBSET Hooks
      BY DEF ActiveHooks
    <3> QED
      BY <3>1, HookAssumption, FS_Subset
  <2>3. \A h, g \in ActiveHooks' : h = g
    BY <2>1, <2>2, TwoElements
  <2> QED
    BY <2>1, <2>3
<1> QED
  BY <1>1, <1>2, <1>3, StepShape

LEMMA HoldStep ==
  ASSUME BusInv, ClashInv, HoldInv, [BusNext]_busVars
  PROVE  HoldInv'
<1> SUFFICES ASSUME ~clashed', pc' \in Holding
             PROVE  st'[cur'] = "delivering"
  BY DEF HoldInv
<1>0. /\ pc \in Holding => cur \in Ids
      /\ pc \in Holding /\ ~clashed => st[cur] = "delivering"
      /\ st \in [Ids -> States]
  BY DEF BusInv, StageInv, HoldInv, BusTypeOK, StoreTypeOK
<1>1. CASE Outside
  <2>1. pc' = pc /\ cur' = cur /\ clashed' = clashed
    BY <1>1 DEF Outside
  <2> QED
    BY <1>0, <1>1, <2>1, OutsideFlight DEF FlightKept
<1>2. CASE MailmanShape /\ ~clashed
  <2>1. CASE Takes
    BY <1>0, <2>1 DEF Takes, ClaimNext, MoveRows
  <2>2. CASE Works \/ Lands \/ Submits
    BY <1>0, <1>2, <2>2 DEF Works, Lands, Submits, TableKept, Holding
  <2>3. CASE Tells
    <3>1. pc = "gate" /\ cur' = cur
      BY <2>3 DEF Tells, Holding
    <3> QED
      BY <1>0, <1>2, <2>3, <3>1, TellsFlight DEF FlightKept, Holding
  <2>4. CASE Polls \/ Returns \/ Settles \/ Frees \/ Parks \/ Halts
    BY <2>4 DEF Polls, Returns, Settles, Frees, Parks, Halts, Holding
  <2> QED
    BY <1>2, <2>1, <2>2, <2>3, <2>4 DEF MailmanShape
<1>3. CASE HooksTurn
  <2>1. pc' = pc /\ cur' = cur /\ ~clashed
    BY <1>3 DEF HooksTurn, loopVars
  <2>2. UNCHANGED storeVars
    BY <1>3, <2>1, HooksQuiet DEF Holding
  <2> QED
    BY <1>0, <2>1, <2>2 DEF storeVars
<1> QED
  BY <1>1, <1>2, <1>3, StepShape

LEMMA FlightStep ==
  ASSUME BusInv, ClashInv, FlightInv, HoldInv, [BusNext]_busVars
  PROVE  FlightInv'
<1> SUFFICES ASSUME faults' = 0, ~clashed', pc' # "off",
                    NEW i \in Ids, st'[i] = "delivering", env'[i].to = Self
             PROVE  i = cur' /\ pc' \in Holding
  BY DEF FlightInv, Delivering
<1>0. /\ st \in [Ids -> States] /\ faults \in Nat
      /\ st[i] = "delivering" => i < nextId
      /\ \A j \in Ids : j < nextId => env'[j] = env[j]
  <2>1. RowStep
    BY BusStepInv
  <2>2. \A j \in Ids : j < nextId => env'[j] = env[j]
    BY <2>1, RowsKept
  <2>3. st \in [Ids -> States] /\ faults \in Nat
    BY MailmanAssumption DEF BusInv, BusTypeOK, StoreTypeOK
  <2>4. \A j \in Ids : st[j] = "absent" <=> j >= nextId
    BY DEF BusInv, BusTypeOK, StoreTypeOK
  <2>5. nextId \in Nat /\ i \in Nat
    BY StoreAssumption DEF BusInv, BusTypeOK, StoreTypeOK, Ids
  <2> QED
    BY <2>2, <2>3, <2>4, <2>5
<1>a. ASSUME ~clashed, faults = 0, pc # "off", st[i] = "delivering"
      PROVE  i = cur /\ pc \in Holding
  <2>1. env[i].to = Self
    BY <1>0, <1>a
  <2> QED
    BY <1>a, <2>1 DEF FlightInv, Delivering
<1>1. CASE Outside
  <2>1. pc' = pc /\ cur' = cur /\ clashed' = clashed /\ faults = 0
    BY <1>0, <1>1 DEF Outside, Spent, Fault, Killed, errorVars
  <2> QED
    BY <1>a, <1>1, <2>1, OutsideFlight DEF FlightKept
<1>2. CASE MailmanShape /\ ~clashed
  <2>1. CASE Takes
    <3>1. PICK k \in Ids : ClaimNext(Self, k) /\ cur' = k
                         /\ pc' = IF env[k].kind = "ping" THEN "ping" ELSE "cap"
      BY <2>1 DEF Takes
    <3>2. i = k \/ st[i] = "delivering"
      BY <1>0, <3>1 DEF ClaimNext, MoveRows
    <3>3. st[i] # "delivering"
      BY <1>a, <1>2, <2>1 DEF Takes, Holding, errorVars
    <3> QED
      BY <3>1, <3>2, <3>3 DEF Holding
  <2>2. CASE Works \/ Lands \/ Submits
    <3>1. faults = 0
      BY <1>0, <2>2 DEF Works, Lands, Submits, Spent, Fault, errorVars
    <3> QED
      BY <1>a, <1>2, <2>2, <3>1 DEF Works, Lands, Submits, TableKept, Holding
  <2>3. CASE Tells
    <3>1. faults = 0
      BY <1>0, <2>3 DEF Tells, TryNotice, TryMsg, Try, Fault, errorVars
    <3>2. st[i] = "delivering" /\ pc # "off"
      BY <2>3, TellsFlight DEF FlightKept, Tells
    <3>3. i = cur /\ pc \in Holding
      BY <1>a, <1>2, <3>1, <3>2
    <3> QED
      BY <2>3, <3>3 DEF Tells, Holding
  <2>4. CASE Returns
    <3>1. RecoverDelivering(Self)
      BY <1>0, <2>4 DEF Returns, TryMsg, Try, Fault, errorVars
    <3> QED
      BY <1>0, <3>1 DEF RecoverDelivering, MoveRows, Delivering
  <2>5. CASE Settles
    <3>1. /\ \/ Settle(MarkFailed(cur))
             \/ \E v \in {"verified", "unverified"} : Settle(MarkDelivered(cur, v))
          /\ faults = 0
      BY <1>0, <2>5 DEF Settles, TryMsg, Try, Fault, errorVars
    <3>2. st[i] = "delivering" /\ i # cur
      BY <1>0, <3>1 DEF Settle, MarkFailed, MarkDelivered, MoveRows, msgVars
    <3> QED
      BY <1>a, <1>2, <2>5, <3>1, <3>2 DEF Settles
  <2>6. CASE Frees
    <3>1. faults = 0
      BY <1>0, <2>6 DEF Frees, TryMsg, Try, Fault, errorVars
    <3> QED
      BY <1>a, <1>2, <2>6, <3>1, FreesFlight DEF FlightKept, Frees, Holding
  <2>7. CASE Polls \/ Parks
    <3>1. faults = 0
      BY <1>0, <2>7 DEF Polls, Parks, Spent, Fault, errorVars
    <3> QED
      BY <1>a, <1>2, <2>7, <3>1 DEF Polls, Parks, TableKept, Holding
  <2>8. CASE Halts
    BY <2>8 DEF Halts
  <2> QED
    BY <1>2, <2>1, <2>2, <2>3, <2>4, <2>5, <2>6, <2>7, <2>8 DEF MailmanShape
<1>3. CASE HooksTurn
  <2>1. pc' = pc /\ cur' = cur /\ ~clashed
    BY <1>3 DEF HooksTurn, loopVars
  <2>2. UNCHANGED <<storeVars, errorVars>>
    BY <1>3, <2>1, HooksQuiet
  <2> QED
    BY <1>a, <2>1, <2>2 DEF storeVars, errorVars
<1> QED
  BY <1>1, <1>2, <1>3, StepShape

(* Failures are only ever counted up. *)
LEMMA FailuresGrow ==
  ASSUME BusInv, [BusNext]_busVars
  PROVE  /\ faults \in Nat /\ crashes \in Nat /\ faults' \in Nat /\ crashes' \in Nat
         /\ faults <= faults' /\ crashes <= crashes'
         /\ lost \in Nat /\ lost' \in Nat /\ lost <= lost'
<1>1. faults \in Nat /\ crashes \in Nat /\ lost \in Nat
  BY MailmanAssumption DEF BusInv, BusTypeOK
<1>3. lost' = lost \/ lost' = lost + 1
  BY StepShape DEF Outside, HooksTurn
<1>2. UNCHANGED errorVars \/ Fault \/ Killed
  <2>1. CASE Outside
    BY <2>1 DEF Outside, Spent
  <2>2. CASE MailmanShape
    BY <2>2 DEF MailmanShape, Polls, Takes, Works, Lands, Submits, Returns, Settles, Tells, Frees, Parks, Halts,
                TryNotice, TryMsg, Try, Spent
  <2>3. CASE HooksTurn
    BY <2>3, HookTyped DEF HooksTurn, HookingStep, Spent
  <2> QED
    BY <2>1, <2>2, <2>3, StepShape
<1> QED
  BY <1>1, <1>2, <1>3 DEF Fault, Killed, errorVars

LEMMA SumsGrow ==
  ASSUME NEW a \in Nat, NEW b \in Nat, NEW c \in Nat, NEW d \in Nat, NEW e \in Nat, NEW f \in Nat,
         a <= d, b <= e, c <= f
  PROVE  /\ a + b + c \in Nat /\ d + e + f \in Nat /\ a + b + c <= d + e + f
         /\ a < d \/ b < e \/ c < f => d + e + f > a + b + c
OBVIOUS

LEMMA PriceGrows ==
  ASSUME BusInv, [BusNext]_busVars
  PROVE  /\ Price \in Nat /\ Price' \in Nat /\ Price <= Price'
         /\ Fault \/ Killed \/ lost' = lost + 1 => Price' > Price
<1>1. /\ faults \in Nat /\ crashes \in Nat /\ faults' \in Nat /\ crashes' \in Nat
      /\ faults <= faults' /\ crashes <= crashes'
      /\ lost \in Nat /\ lost' \in Nat /\ lost <= lost'
  BY FailuresGrow
<1>2. /\ Fault => faults < faults'
      /\ Killed => crashes < crashes'
      /\ lost' = lost + 1 => lost < lost'
  BY <1>1 DEF Fault, Killed
<1>3. /\ Price \in Nat /\ Price' \in Nat /\ Price <= Price'
      /\ faults < faults' \/ crashes < crashes' \/ lost < lost' => Price' > Price
  <2>1. /\ faults + crashes + lost \in Nat /\ faults' + crashes' + lost' \in Nat
        /\ faults + crashes + lost <= faults' + crashes' + lost'
        /\ faults < faults' \/ crashes < crashes' \/ lost < lost'
             => faults' + crashes' + lost' > faults + crashes + lost
    BY <1>1, SumsGrow
  <2> QED
    BY <2>1, Zenon DEF Price
<1> QED
  BY <1>2, <1>3

LEMMA DupStep ==
  ASSUME BusInv, ClashInv, HoldInv, DupInv, [BusNext]_busVars
  PROVE  DupInv'
<1> SUFFICES ASSUME ~clashed', NEW i \in Ids
             PROVE  /\ shown'[i] <= 1 + Price'
                    /\ st'[i] \in Open /\ ~Pasted(i)' => shown'[i] <= Price'
  BY DEF DupInv
<1>0. /\ Price \in Nat /\ Price' \in Nat /\ Price <= Price'
      /\ Fault \/ Killed \/ lost' = lost + 1 => Price' > Price
  BY PriceGrows
<1>b. pane \in Panes \cup {NoPane}
  BY DEF BusInv, BusTypeOK
<1>1. ~clashed
  BY StepShape DEF Outside, HooksTurn
<1>2. /\ shown[i] \in Nat /\ shown[i] <= 1 + Price
      /\ st[i] \in Open /\ ~Pasted(i) => shown[i] <= Price
  BY <1>1 DEF DupInv, BusInv, BusTypeOK
<1>3. st'[i] \in Open => st[i] \in Open
  BY BusStepInv, OpenBefore
\* A row whose paste is not under way, or whose state keeps it out.
<1>4. ASSUME UNCHANGED shown, Pasted(i) /\ st'[i] \in Open => Pasted(i)' \/ Price' > Price
      PROVE  /\ shown'[i] <= 1 + Price'
             /\ st'[i] \in Open /\ ~Pasted(i)' => shown'[i] <= Price'
  <2>1. shown'[i] = shown[i] /\ shown'[i] <= 1 + Price'
    BY <1>0, <1>2, <1>4
  <2>2. ASSUME st'[i] \in Open, ~Pasted(i)'
        PROVE  shown'[i] <= Price'
    <3>1. CASE Pasted(i)
      <4>1. Price' > Price
        BY <1>4, <2>2, <3>1
      <4> QED
        BY <1>0, <1>2, <2>1, <4>1
    <3>2. CASE ~Pasted(i)
      <4>1. shown[i] <= Price
        BY <1>2, <1>3, <2>2, <3>2
      <4> QED
        BY <1>0, <1>2, <2>1, <4>1
    <3> QED
      BY <3>1, <3>2
  <2> QED
    BY <2>1, <2>2
<1>5. CASE Outside
  <2>1. CASE lost' = lost + 1
    <3>1. Price' > Price
      BY <1>0, <2>1
    <3> QED
      BY <1>4, <1>5, <3>1 DEF Outside
  <2>2. CASE \A p \in Panes : host'[p] = "gone" => host[p] = "gone"
    <3>1. Pasted(i) => Pasted(i)'
      BY <1>b, <1>5, <2>2 DEF Outside, Pasted, Missing
    <3> QED
      BY <1>4, <1>5, <3>1 DEF Outside
  <2> QED
    BY <1>5, <2>1, <2>2 DEF Outside
<1>6. CASE HooksTurn
  BY <1>4, <1>6 DEF HooksTurn, loopVars, worldVars, Pasted, Missing
<1>7. CASE MailmanShape /\ UNCHANGED <<lost, host>>
  <2>1. CASE Lands
    <3>1. /\ cur \in Ids /\ st[cur] = "delivering" /\ ~Pasted(cur)
      BY <1>1, <2>1 DEF Lands, BusInv, StageInv, HoldInv, Holding, Pasted
    <3>2. shown[cur] <= Price /\ shown[cur] \in Nat
      BY <1>1, <3>1 DEF DupInv, BusInv, BusTypeOK, Open
    <3>3. shown \in [Ids -> Nat]
      BY DEF BusInv, BusTypeOK
    <3>4. CASE i = cur
      <4>1. shown'[i] = shown[cur] + 1 /\ Pasted(i)'
        BY <2>1, <3>3, <3>4 DEF Lands, Pasted, Missing, Exists
      <4> QED
        BY <1>0, <3>2, <4>1
    <3>5. CASE i # cur
      <4>1. shown'[i] = shown[i] /\ st'[i] = st[i] /\ ~Pasted(i)
        BY <2>1, <3>3, <3>5 DEF Lands, Pasted, TableKept
      <4> QED
        BY <1>0, <1>2, <4>1
    <3> QED
      BY <3>4, <3>5
  <2>2. CASE Settles
    <3>1. ASSUME Pasted(i), st'[i] \in Open
          PROVE  Price' > Price
      <4>1. st[i] = "delivering" /\ i = cur
        BY <1>1, <3>1 DEF HoldInv, Pasted, Holding
      <4>2. ~ \E v \in {"verified", "unverified"} : Settle(MarkDelivered(cur, v))
        BY <3>1, <4>1 DEF Settle, MarkDelivered, MoveRows, Open
      <4>3. ~Settle(MarkFailed(cur))
        BY <3>1, <4>1 DEF Settle, MarkFailed, MoveRows, Open
      <4>4. Fault
        BY <2>2, <4>2, <4>3 DEF Settles, TryMsg, Try
      <4> QED
        BY <1>0, <4>4
    <3> QED
      BY <1>4, <2>2, <3>1 DEF Settles
  <2>3. CASE Halts
    <3>1. Pasted(i) => Price' > Price
      BY <1>0, <2>3 DEF Halts, Pasted
    <3> QED
      BY <1>4, <2>3, <3>1 DEF Halts
  <2>4. CASE Polls \/ Takes \/ Works \/ Returns \/ Tells \/ Frees \/ Parks
    <3>1. ~Pasted(i)
      BY <2>4 DEF Polls, Takes, Works, Returns, Tells, Frees, Parks, Pasted
    <3> QED
      BY <1>4, <2>4, <3>1 DEF Polls, Takes, Works, Returns, Tells, Frees, Parks
  <2>5. CASE Submits
    BY <1>4, <2>5 DEF Submits, Pasted
  <2> QED
    BY <1>7, <2>1, <2>2, <2>3, <2>4, <2>5 DEF MailmanShape
<1> QED
  BY <1>5, <1>6, <1>7, StepShape

LEMMA EvidenceStep ==
  ASSUME BusInv, ClashInv, HoldInv, EvidenceInv, [BusNext]_busVars
  PROVE  EvidenceInv'
<1>0. /\ pc \in Holding \cup Told => cur \in Ids /\ cur < nextId
      /\ \A i \in Ids : i < nextId => env'[i] = env[i]
      /\ shown \in [Ids -> Nat] /\ st \in [Ids -> States] /\ compactAt \in {0, 1} /\ promotedAt \in {0, 1}
      /\ compactAt' \in {0, 1}
  <2>1. RowStep /\ BusInv'
    BY BusStepInv
  <2> QED
    BY <2>1, RowsKept DEF BusInv, StageInv, BusTypeOK, StoreTypeOK
<1>a. EvidenceInv
  OBVIOUS
\* Steps that leave the mailman where it is.
<1>1. ASSUME UNCHANGED <<pc, cur, out, shown>>, compactAt' >= compactAt, ~clashed' => ~clashed,
             ~clashed' /\ pc = "settle" /\ st[cur] \in {"delivered", "delivering"}
               => st'[cur] \in {"delivered", "delivering"}
      PROVE  EvidenceInv'
  <2>1. pc \in Holding \cup Told => env'[cur] = env[cur]
    BY <1>0
  <2>2. pc \in {"watermark", "promote"} => compactAt' > 0
    BY <1>0, <1>1 DEF EvidenceInv
  <2>3. CASE pc \in {"ping", "enter", "reenter", "mark"}
    BY <1>1, <2>1, <2>3 DEF EvidenceInv, Holding
  <2>4. CASE pc = "settle"
    BY <1>1, <2>1, <2>4 DEF EvidenceInv, Told
  <2>5. CASE pc \notin {"ping", "enter", "reenter", "mark", "settle"}
    BY <1>1, <2>2, <2>5 DEF EvidenceInv
  <2> QED
    BY <2>3, <2>4, <2>5
<1>2. CASE Outside
  <2>1. FlightKept
    BY <1>2, OutsideFlight
  <2>2. cur \in Ids /\ st[cur] = "delivered" => st'[cur] = "delivered"
    <3>1. RowStep /\ ~(\E i \in Ids : st'[i] = "purged" /\ st[i] # "purged")
      <4>1. RowStep
        BY BusStepInv
      <4>2. ASSUME NEW i \in Ids, st'[i] = "purged", st[i] # "purged"
            PROVE  FALSE
        BY <1>0, <1>2, <4>2 DEF Outside, OutsideRows, msgVars, MoveRows, InsertMessage, InsertNotice, InsertRow,
                     PromoteDeferred
      <4> QED
        BY <4>1, <4>2
    <3> QED
      BY <1>0, <3>1 DEF RowStep, LifeCycleStep, Successors
  <2>3. compactAt' >= compactAt
    BY <1>0, <1>2 DEF Outside
  <2> QED
    BY <1>0, <1>1, <1>2, <2>1, <2>2, <2>3 DEF Outside, FlightKept, Told
<1>3. CASE HooksTurn
  <2>1. ~clashed' /\ pc = "settle" => UNCHANGED storeVars
    BY <1>3, HooksQuiet
  <2>2. /\ UNCHANGED <<pc, cur, out, shown, compactAt>>
        /\ ~clashed' => ~clashed
    BY <1>3 DEF HooksTurn, loopVars, compactVars
  <2>3. compactAt' >= compactAt
    BY <1>0, <2>2
  <2> QED
    BY <1>1, <2>1, <2>2, <2>3 DEF storeVars
<1>4. CASE MailmanShape /\ (~clashed' => ~clashed)
  <2>1. CASE Takes
    <3>1. PICK i \in Ids : ClaimNext(Self, i) /\ cur' = i
                         /\ pc' = IF env[i].kind = "ping" THEN "ping" ELSE "cap"
      BY <2>1 DEF Takes
    <3>2. env' = env
      BY <3>1 DEF ClaimNext, MoveRows
    <3> QED
      BY <3>1, <3>2 DEF EvidenceInv
  <2>2. CASE Works
    BY <2>2 DEF Works, TableKept, EvidenceInv, Holding
  <2>3. CASE Lands
    <3>1. cur \in Ids /\ shown'[cur] = shown[cur] + 1 /\ shown[cur] \in Nat
      BY <1>0, <2>3 DEF Lands, Holding
    <3>2. shown'[cur] > 0
      BY <3>1
    <3> QED
      BY <2>3, <3>2 DEF Lands, EvidenceInv
  <2>7. CASE Submits
    BY <2>7 DEF Submits, TableKept, EvidenceInv
  <2>4. CASE Settles
    <3>1. CASE pc' = "settle"
      <4>1. /\ pc = "mark" /\ out = "verified" /\ cur' = cur /\ UNCHANGED shown
            /\ env[cur].kind = "control" /\ env[cur].body \in Resets
        BY <2>4, <3>1 DEF Settles, Control
      <4>2. shown'[cur] > 0 /\ env'[cur] = env[cur] /\ cur \in Ids
        BY <1>0, <1>a, <4>1 DEF EvidenceInv, Holding
      <4>3. ASSUME ~clashed' PROVE st'[cur] \in {"delivered", "delivering"}
        <5>1. st[cur] = "delivering"
          BY <1>4, <4>1, <4>3 DEF HoldInv, Holding
        <5>2. \/ \E v \in {"verified", "unverified"} : MarkDelivered(cur, v)
              \/ UNCHANGED storeVars
          BY <2>4, <3>1, <5>1 DEF Settles, TryMsg, Try, Settle
        <5> QED
          BY <1>0, <4>2, <5>1, <5>2 DEF MarkDelivered, MoveRows, storeVars
      <4> QED
        BY <3>1, <4>1, <4>2, <4>3 DEF EvidenceInv
    <3>2. CASE pc' # "settle"
      BY <2>4, <3>2 DEF Settles, EvidenceInv
    <3> QED
      BY <3>1, <3>2
  <2>5. CASE Polls
    <3>1. pc' \in {"watermark", "promote"} => compactAt' > 0
      BY <1>0, <2>5 DEF Polls, EvidenceInv
    <3> QED
      BY <2>5, <3>1 DEF Polls, EvidenceInv
  <2>6. CASE Returns \/ Tells \/ Frees \/ Parks \/ Halts
    BY <2>6 DEF Returns, Tells, Frees, Parks, Halts, EvidenceInv
  <2> QED
    BY <1>4, <2>1, <2>2, <2>3, <2>4, <2>5, <2>6, <2>7 DEF MailmanShape
<1> QED
  BY <1>2, <1>3, <1>4, StepShape

LEMMA CoreInitInv == BusInit => CoreInv
<1> SUFFICES ASSUME BusInit PROVE CoreInv
  OBVIOUS
<1>1. BusInv
  BY BusInitInv
<1>2. /\ pc = "off" /\ clashed = FALSE /\ shown = [i \in Ids |-> 0]
      /\ hpc = [h \in Hooks |-> "ready"] /\ faults = 0 /\ crashes = 0 /\ lost = 0
  BY DEF BusInit, MailmanInit, HookInit
<1>3. ClashInv
  BY <1>2 DEF ClashInv, ActiveHooks
<1>4. HoldInv /\ FlightInv /\ EvidenceInv
  BY <1>2 DEF HoldInv, FlightInv, EvidenceInv, Holding
<1>5. DupInv
  BY <1>2 DEF DupInv, Price
<1> QED
  BY <1>1, <1>3, <1>4, <1>5 DEF CoreInv

LEMMA CoreStep ==
  ASSUME CoreInv, [BusNext]_busVars
  PROVE  CoreInv'
BY BusStepInv, ClashStep, HoldStep, FlightStep, DupStep, EvidenceStep DEF CoreInv

(* The invariant the theorems below rest on: who reads the queue, what is  *)
(* in hand and in flight, how often rows were shown, and what brought the  *)
(* mailman to its stage.                                                   *)
THEOREM CoreInvariant == BusSpec => []CoreInv
<1>1. CoreInv /\ [BusNext]_busVars => CoreInv'
  BY CoreStep
<1> QED
  BY CoreInitInv, <1>1, PTL DEF BusSpec

(* Every extra paste of a row is paid for by a crash, a failed write, or a *)
(* pane that went away, while the mailman has the queue to itself (claim,  *)
(* paste, heal and mark, serve.go:1604-2730).                              *)
THEOREM DuplicatesArePaidFor == BusSpec => []DuplicatesBounded
<1>1. CoreInv => DuplicatesBounded
  <2> SUFFICES ASSUME CoreInv, ~clashed, NEW i \in Ids
               PROVE  shown[i] <= 1 + faults + crashes + lost
    BY DEF DuplicatesBounded
  <2>1. shown[i] <= 1 + (faults + crashes + lost)
    BY DEF CoreInv, DupInv, Price
  <2>2. faults \in Nat /\ crashes \in Nat /\ lost \in Nat
    BY MailmanAssumption DEF CoreInv, BusInv, BusTypeOK
  <2> QED
    BY <2>1, <2>2
<1> QED
  BY <1>1, CoreInvariant, PTL

(* As long as no write failed, a row waits in `delivering' only while the  *)
(* mailman works on it (serve.go:2403).                                    *)
THEOREM NothingLeftInFlight == BusSpec => []InFlightIsCurrent
<1>1. CoreInv => InFlightIsCurrent
  BY DEF CoreInv, FlightInv, InFlightIsCurrent
<1> QED
  BY <1>1, CoreInvariant, PTL

-----------------------------------------------------------------------------
(* Staged rows *)

(* Whatever a hook does, staged rows stay staged. *)
LEMMA HooksReleaseNothing ==
  ASSUME BusInv, HooksTurn, NEW i \in Ids, st[i] = "deferred"
  PROVE  st'[i] = "deferred"
<1>0. st \in [Ids -> States]
  BY DEF BusInv, BusTypeOK, StoreTypeOK
<1>1. PICK h \in Hooks : HookStep(h)
  BY DEF HooksTurn, HookingStep
<1>2. CASE UNCHANGED storeVars
  BY <1>2 DEF storeVars
<1>3. CASE RecoverDelivering(Self)
  BY <1>0, <1>3 DEF RecoverDelivering, MoveRows, Delivering
<1>4. CASE \E k \in Ids : ClaimNext(Self, k)
  BY <1>0, <1>4 DEF ClaimNext, MoveRows, Claimable, Queued
<1>5. CASE \E k : MarkDelivered(k, "verified")
  BY <1>0, <1>5 DEF MarkDelivered, MoveRows
<1> QED
  BY <1>1, <1>2, <1>3, <1>4, <1>5
     DEF HookStep, HookBegin, HookRecover, HookClaim, HookMark, HookPrint, HookDies, HookFails

LEMMA ReleaseHolds ==
  ASSUME CoreInv, ~clashed, [BusNext]_busVars
  PROVE  ReleaseStep
<1> SUFFICES ASSUME NEW i \in Ids, st[i] = "deferred", st'[i] # "deferred"
             PROVE  \/ FlushDeferred
                    \/ env[i].after = "register" /\ rpc = "promote"
                    \/ env[i].after = "resume" /\ compactAt > 0
                    \/ env[i].after = "resume" /\ \E j \in Ids : /\ env[j].kind = "control" /\ env[j].body \in Resets
                                                                /\ st[j] \in {"delivered", "delivering"} /\ shown[j] > 0
  BY DEF ReleaseStep
<1>0. /\ st \in [Ids -> States] /\ \A j \in Ids : st[j] = "absent" <=> j >= nextId
      /\ BusInv /\ EvidenceInv /\ StageInv
  BY DEF CoreInv, BusInv, BusTypeOK, StoreTypeOK
<1>a. ASSUME NEW e, NEW s, InsertRow(e, s) PROVE FALSE
  <2>1. nextId \in Ids /\ st' = [st EXCEPT ![nextId] = s]
    BY <1>a DEF InsertRow
  <2>2. st[nextId] = "absent"
    BY <1>0, <2>1, StoreAssumption DEF Ids
  <2> QED
    BY <1>0, <2>1, <2>2
<1>1. CASE Outside
  <2>1. CASE UNCHANGED msgVars
    BY <2>1 DEF msgVars
  <2>2. ASSUME NEW S \in SUBSET Queued(Self), MoveRows(S, "acknowledged") PROVE FALSE
    BY <1>0, <2>2 DEF MoveRows, Queued
  <2>3. CASE rpc = "promote" /\ PromoteDeferred(Self, "register")
    BY <1>0, <2>3 DEF PromoteDeferred, MoveRows, DeferredRows
  <2> QED
    BY <1>1, <1>a, <2>1, <2>2, <2>3 DEF Outside, OutsideRows, InsertMessage, InsertNotice
<1>2. CASE HooksTurn
  BY <1>0, <1>2, HooksReleaseNothing
<1>3. CASE MailmanShape
  <2>0. ~UNCHANGED storeVars
    BY DEF storeVars
  <2>1. CASE Polls \/ Works \/ Lands \/ Submits \/ Parks \/ Halts
    BY <2>1 DEF Polls, Works, Lands, Submits, Parks, Halts, TableKept
  <2>2. CASE Takes
    BY <1>0, <2>2 DEF Takes, ClaimNext, MoveRows, Claimable, Queued
  <2>3. CASE Returns
    BY <1>0, <2>0, <2>3 DEF Returns, TryMsg, Try, RecoverDelivering, MoveRows, Delivering
  <2>4. CASE Settles
    BY <1>0, <2>0, <2>4 DEF Settles, TryMsg, Try, Settle, MarkFailed, MarkDelivered, MoveRows, msgVars
  <2>5. CASE Tells
    BY <1>a, <2>0, <2>5 DEF Tells, TryNotice, TryMsg, Try, InsertNotice, storeVars
  <2>6. CASE Frees
    <3>1. PromoteDeferred(Self, "resume")
      BY <2>0, <2>6 DEF Frees, TryMsg, Try
    <3>2. env[i].after = "resume"
      BY <1>0, <3>1 DEF PromoteDeferred, MoveRows, DeferredRows
    <3>3. CASE pc = "promote"
      BY <1>0, <3>2, <3>3 DEF EvidenceInv
    <3>4. CASE pc = "settle"
      <4>1. /\ cur \in Ids /\ env[cur].kind = "control" /\ env[cur].body \in Resets
            /\ st[cur] \in {"delivered", "delivering"} /\ shown[cur] > 0
        BY <1>0, <3>4 DEF EvidenceInv, StageInv, Told
      <4> QED
        BY <3>2, <4>1
    <3> QED
      BY <2>6, <3>3, <3>4 DEF Frees
  <2> QED
    BY <1>3, <2>1, <2>2, <2>3, <2>4, <2>5, <2>6 DEF MailmanShape
<1> QED
  BY <1>0, <1>1, <1>2, <1>3, StepShape

(* Without hooks nobody clashes. *)
LEMMA AloneInvariant ==
  ASSUME Hooks = {}
  PROVE  BusSpec => []~clashed
<1>1. BusInit => ~clashed
  BY DEF BusInit
<1>2. BusInv /\ ~clashed /\ [BusNext]_busVars => ~clashed'
  <2> SUFFICES ASSUME BusInv, ~clashed, [BusNext]_busVars PROVE ~clashed'
    OBVIOUS
  <2>1. ActiveHooks = {} /\ ~HooksTurn
    BY DEF ActiveHooks, HooksTurn, HookingStep
  <2> QED
    BY <2>1, StepShape DEF Outside
<1> QED
  BY <1>1, <1>2, BusInvariant, PTL DEF BusSpec

(* A staged row of an agent without hooks is let out by the agent's own    *)
(* flush or by what it waits for (PromoteDeferred, messages.go:839, and    *)
(* its callers).                                                           *)
THEOREM StagedRowsWait ==
  ASSUME Hooks = {}
  PROVE  BusSpec => ReleasedByItsTrigger
<1>1. CoreInv /\ ~clashed /\ [BusNext]_busVars => [ReleaseStep]_busVars
  BY ReleaseHolds
<1> QED
  BY <1>1, CoreInvariant, AloneInvariant, PTL DEF BusSpec, ReleasedByItsTrigger

-----------------------------------------------------------------------------
(* The bus implements Delivery *)

(* The refinement mapping. *)
PhaseOf == [i \in Ids |-> Phase(st[i])]

SilentRows == {i \in Ids : NeedsNoPane(env[i])}

LEMMA PhaseTable ==
  /\ Phase("absent") = "new"
  /\ \A s \in {"queued", "delivering", "deferred"} : Phase(s) = "pending"
  /\ Phase("delivered") = "done"
  /\ \A s \in {"failed", "refused", "acknowledged", "purged"} : Phase(s) = "dropped"
BY DEF Phase

(* A step that moves rows within their phase, and shows none, is no step   *)
(* of Delivery.                                                            *)
LEMMA SamePhase ==
  ASSUME BusInv, UNCHANGED <<env, shown>>, \A i \in Ids : Phase(st'[i]) = Phase(st[i])
  PROVE  UNCHANGED D!deliveryVars
<1>1. PhaseOf' = PhaseOf
  BY DEF PhaseOf
<1>2. SilentRows' = SilentRows
  BY DEF SilentRows
<1> QED
  BY <1>1, <1>2 DEF D!deliveryVars, PhaseOf, SilentRows

LEMMA InsertAccepts ==
  ASSUME BusInv, UNCHANGED shown, NEW e, NEW s \in {"queued", "deferred", "refused"}, InsertRow(e, s)
  PROVE  D!DeliveryNext
<1>0. /\ st \in [Ids -> States] /\ \A j \in Ids : st[j] = "absent" <=> j >= nextId
      /\ env \in [Ids -> Envelopes]
  BY DEF BusInv, BusTypeOK, StoreTypeOK
<1>1. /\ nextId \in Ids /\ st' = [st EXCEPT ![nextId] = s] /\ env' = [env EXCEPT ![nextId] = e]
  BY DEF InsertRow
<1>2. PhaseOf[nextId] = "new"
  BY <1>0, <1>1, PhaseTable, StoreAssumption DEF PhaseOf, Ids
<1>3. Phase(s) \in {"pending", "dropped"} /\ PhaseOf' = [PhaseOf EXCEPT ![nextId] = Phase(s)]
  BY <1>0, <1>1, PhaseTable DEF PhaseOf
<1>4. SilentRows' \in {SilentRows \cup {nextId}, SilentRows \ {nextId}}
  <2>1. \A i \in Ids : env'[i] = IF i = nextId THEN e ELSE env[i]
    BY <1>0, <1>1
  <2>2. CASE NeedsNoPane(e)
    <3>1. SilentRows' = SilentRows \cup {nextId}
      BY <1>1, <2>1, <2>2 DEF SilentRows
    <3> QED
      BY <3>1
  <2>3. CASE ~NeedsNoPane(e)
    <3>1. SilentRows' = SilentRows \ {nextId}
      BY <1>1, <2>1, <2>3 DEF SilentRows
    <3> QED
      BY <3>1
  <2> QED
    BY <2>2, <2>3
<1>5. D!Accept(nextId)
  BY <1>2, <1>3, <1>4 DEF D!Accept, PhaseOf, SilentRows
<1> QED
  BY <1>1, <1>5 DEF D!DeliveryNext

LEMMA MoveDrops ==
  ASSUME BusInv, UNCHANGED shown, NEW S \in SUBSET Ids, NEW s \in {"failed", "acknowledged"},
         \A i \in S : st[i] \in {"queued", "delivering"}, MoveRows(S, s)
  PROVE  D!DeliveryNext
<1>1. /\ st' = [i \in Ids |-> IF i \in S THEN s ELSE st[i]] /\ env' = env
  BY DEF MoveRows
<1>2. \A i \in S : PhaseOf[i] = "pending"
  BY PhaseTable DEF PhaseOf
<1>3. PhaseOf' = [i \in Ids |-> IF i \in S THEN "dropped" ELSE PhaseOf[i]]
  BY <1>1, PhaseTable DEF PhaseOf
<1>4. D!Drop(S)
  BY <1>1, <1>2, <1>3 DEF D!Drop, PhaseOf
<1> QED
  BY <1>4 DEF D!DeliveryNext

LEMMA MarkCompletes ==
  ASSUME BusInv, UNCHANGED shown, NEW i \in Ids, NEW v, MarkDelivered(i, v),
         shown[i] > 0 \/ NeedsNoPane(env[i])
  PROVE  D!DeliveryNext
<1>0. st \in [Ids -> States]
  BY DEF BusInv, BusTypeOK, StoreTypeOK
<1>1. /\ st[i] = "delivering" /\ env' = env
      /\ st' = [j \in Ids |-> IF j \in {i} THEN "delivered" ELSE st[j]]
  BY DEF MarkDelivered, MoveRows
<1>2. PhaseOf[i] = "pending" /\ PhaseOf' = [PhaseOf EXCEPT ![i] = "done"]
  BY <1>0, <1>1, PhaseTable DEF PhaseOf
<1>3. shown[i] > 0 \/ i \in SilentRows
  BY DEF SilentRows
<1>4. D!Complete(i)
  BY <1>1, <1>2, <1>3 DEF D!Complete, PhaseOf, SilentRows
<1> QED
  BY <1>4 DEF D!DeliveryNext

LEMMA PasteShows ==
  ASSUME BusInv, TableKept, NEW i \in Ids, st[i] = "delivering",
         shown' = [shown EXCEPT ![i] = @ + 1]
  PROVE  D!DeliveryNext
<1>1. PhaseOf[i] = "pending" /\ PhaseOf' = PhaseOf /\ env' = env
  BY PhaseTable DEF PhaseOf, TableKept
<1>2. D!Show(i)
  BY <1>1 DEF D!Show, PhaseOf
<1> QED
  BY <1>2 DEF D!DeliveryNext

LEMMA DeliveryStepHolds ==
  ASSUME CoreInv, ~clashed, Hooks = {}, [BusNext]_busVars
  PROVE  [D!DeliveryNext]_(D!deliveryVars)
<1>0. /\ BusInv /\ st \in [Ids -> States] /\ HoldInv /\ EvidenceInv
      /\ pc \in Holding => cur \in Ids
  BY DEF CoreInv, BusInv, BusTypeOK, StoreTypeOK, StageInv
<1>a. ASSUME TableKept, UNCHANGED shown PROVE UNCHANGED D!deliveryVars
  BY <1>0, <1>a, SamePhase DEF TableKept
<1>b. ASSUME NEW t, PromoteDeferred(Self, t), UNCHANGED shown PROVE UNCHANGED D!deliveryVars
  <2>1. \A i \in Ids : Phase(st'[i]) = Phase(st[i])
    BY <1>0, <1>b, PhaseTable DEF PromoteDeferred, MoveRows, DeferredRows
  <2> QED
    BY <1>0, <1>b, <2>1, SamePhase DEF PromoteDeferred, MoveRows
<1>1. CASE Outside
  <2>0. UNCHANGED shown
    BY <1>1 DEF Outside
  <2>1. CASE UNCHANGED msgVars
    BY <1>a, <2>0, <2>1 DEF msgVars, TableKept
  <2>2. ASSUME NEW S \in SUBSET Queued(Self), MoveRows(S, "acknowledged")
        PROVE  D!DeliveryNext
    <3>1. S \in SUBSET Ids /\ \A i \in S : st[i] = "queued"
      BY DEF Queued
    <3> QED
      BY <1>0, <2>0, <2>2, <3>1, MoveDrops
  <2>3. ASSUME NEW e, InsertMessage(e) \/ InsertNotice(e)
        PROVE  D!DeliveryNext
    BY <1>0, <2>0, <2>3, InsertAccepts DEF InsertMessage, InsertNotice
  <2>4. ASSUME NEW t, PromoteDeferred(Self, t)
        PROVE  UNCHANGED D!deliveryVars
    BY <1>b, <2>0, <2>4
  <2> QED
    BY <1>1, <2>1, <2>2, <2>3, <2>4 DEF Outside, OutsideRows
<1>2. CASE MailmanShape
  <2>0. ASSUME UNCHANGED storeVars, UNCHANGED shown PROVE UNCHANGED D!deliveryVars
    BY <1>a, <2>0 DEF storeVars, TableKept
  <2>1. CASE Polls \/ Works \/ Submits \/ Parks \/ Halts
    BY <1>a, <2>1 DEF Polls, Works, Submits, Parks, Halts
  <2>2. CASE Takes
    <3>1. PICK i \in Ids : ClaimNext(Self, i)
      BY <2>2 DEF Takes
    <3>2. /\ st[i] = "queued" /\ env' = env /\ UNCHANGED shown
          /\ st' = [j \in Ids |-> IF j \in {i} THEN "delivering" ELSE st[j]]
      BY <2>2, <3>1 DEF Takes, ClaimNext, MoveRows, Claimable, Queued
    <3>3. \A j \in Ids : Phase(st'[j]) = Phase(st[j])
      BY <1>0, <3>2, PhaseTable
    <3> QED
      BY <1>0, <3>2, <3>3, SamePhase
  <2>3. CASE Lands
    BY <1>0, <2>3, PasteShows DEF Lands, HoldInv, Holding
  <2>4. CASE Returns
    <3>0. UNCHANGED shown
      BY <2>4 DEF Returns
    <3>1. CASE RecoverDelivering(Self)
      <4>1. \A i \in Ids : Phase(st'[i]) = Phase(st[i])
        BY <1>0, <3>1, PhaseTable DEF RecoverDelivering, MoveRows, Delivering
      <4> QED
        BY <1>0, <3>0, <3>1, <4>1, SamePhase DEF RecoverDelivering, MoveRows
    <3> QED
      BY <2>0, <2>4, <3>0, <3>1 DEF Returns, TryMsg, Try
  <2>5. CASE Settles
    <3>0. /\ UNCHANGED shown /\ cur \in Ids /\ st[cur] = "delivering"
      BY <1>0, <2>5 DEF Settles, HoldInv, Holding
    <3>1. CASE UNCHANGED storeVars
      BY <2>0, <3>0, <3>1
    <3>2. CASE MarkFailed(cur)
      BY <1>0, <3>0, <3>2, MoveDrops DEF MarkFailed
    <3>3. ASSUME NEW v, MarkDelivered(cur, v),
                 pc = "ping" \/ (pc = "mark" /\ out \in {"verified", "external", "unverified", "unsupported"})
          PROVE  D!DeliveryNext
      <4>1. shown[cur] > 0 \/ NeedsNoPane(env[cur])
        BY <1>0, <3>3 DEF EvidenceInv, NeedsNoPane
      <4> QED
        BY <1>0, <3>0, <3>3, <4>1, MarkCompletes
    <3> QED
      BY <2>5, <3>0, <3>1, <3>2, <3>3 DEF Settles, TryMsg, Try, Settle
  <2>6. CASE Tells
    <3>1. UNCHANGED shown /\ (UNCHANGED storeVars \/ \E e : InsertRow(e, "queued"))
      BY <2>6 DEF Tells, TryNotice, TryMsg, Try, InsertNotice
    <3> QED
      BY <1>0, <2>0, <3>1, InsertAccepts
  <2>7. CASE Frees
    BY <1>b, <2>0, <2>7 DEF Frees, TryMsg, Try
  <2> QED
    BY <1>2, <2>1, <2>2, <2>3, <2>4, <2>5, <2>6, <2>7 DEF MailmanShape
<1>3. ~HooksTurn
  BY DEF HooksTurn, HookingStep
<1> QED
  BY <1>0, <1>1, <1>2, <1>3, StepShape

LEMMA DeliveryInitHolds == BusInit => D!DeliveryInit
<1> SUFFICES ASSUME BusInit PROVE D!DeliveryInit
  OBVIOUS
<1>1. st = [i \in Ids |-> "absent"] /\ shown = [i \in Ids |-> 0]
  BY DEF BusInit, MailmanInit
<1>2. PhaseOf \in [Ids -> {"new", "pending"}]
  BY <1>1, PhaseTable DEF PhaseOf
<1> QED
  BY <1>1, <1>2 DEF D!DeliveryInit, PhaseOf

(* Rows of an agent without hooks live the life that Delivery promises,    *)
(* crashes, requeues and retries included: nothing is called delivered     *)
(* that was not shown, and nothing closed is shown again (the outcome      *)
(* switch, serve.go:2522, and the state guards of the UPDATEs).            *)
THEOREM DeliveryImplemented ==
  ASSUME Hooks = {}
  PROVE  BusSpec => BusImplementsDelivery
<1>1. CoreInv /\ ~clashed /\ [BusNext]_busVars => [D!DeliveryNext]_(D!deliveryVars)
  BY DeliveryStepHolds
<1> QED
  BY <1>1, CoreInvariant, AloneInvariant, DeliveryInitHolds, PTL
     DEF BusSpec, BusImplementsDelivery, D!DeliverySpec

-----------------------------------------------------------------------------
(* Routing *)

(* The stages after the pane was checked. *)
Aimed == {"dedupe", "absorb", "gate", "probe", "paste", "enter", "retry"}

(* Who may get the row. *)
Addressee == {Self, session} \cup Trusted

(* If the drift check is on, nothing failed and nothing changed since, the *)
(* chosen pane runs one who may get the row or, before the liveness gate,  *)
(* a shell.                                                                *)
RouteInv ==
  DriftCheck /\ settled /\ faults = 0 =>
    /\ pc = "liveness" => pane \in Panes /\ host[pane] \in Addressee \cup {"shell"}
    /\ pc \in Aimed => pane \in Panes /\ host[pane] \in Addressee

(* Neither a pane that is gone nor a shell is an addressee. *)
LEMMA AddresseeRuns ==
  ASSUME BusInv
  PROVE  "gone" \notin Addressee /\ "shell" \notin Addressee
<1>1. session \in Agents \cup {"none", "old"} /\ Self \in Agents
  BY MailmanAssumption DEF BusInv, BusTypeOK
<1>2. "gone" \notin Agents /\ "shell" \notin Agents
  BY MailmanAssumption
<1> QED
  BY <1>1, <1>2 DEF Addressee, Trusted

LEMMA NamedHosts ==
  ASSUME BusInv, NEW q \in Panes, Self \in NamesShown(q)
  PROVE  host[q] \in Addressee \cup {"shell"}
<1>1. host[q] \in Running \cup {"shell", "gone"} /\ Self \in Agents /\ Self # "none"
  BY MailmanAssumption DEF BusInv, BusTypeOK
<1>2. Exists(q)
  BY <1>1 DEF NamesShown
<1>3. host[q] # "gone"
  BY <1>2 DEF Exists
<1>4. CASE host[q] \in Named
  BY <1>2, <1>4 DEF NamesShown, Addressee
<1>5. CASE host[q] \notin Named
  BY <1>1, <1>3, <1>5 DEF Running, Addressee, Trusted
<1> QED
  BY <1>4, <1>5

LEMMA RouteMailman ==
  ASSUME BusInv, RouteInv, DriftCheck, settled, Start \/ Stop \/ Crash \/ Iteration,
         faults' = 0, pc' \in Aimed \cup {"liveness"}
  PROVE  /\ pane' \in Panes
         /\ host[pane'] \in Addressee \cup {"shell"}
         /\ pc' \in Aimed => host[pane'] \in Addressee
<1> USE DEF Try, TryMsg, TryAgent, Goto, errorVars, Fault
<1>0. /\ faults \in Nat /\ pane \in Panes \cup {NoPane} /\ Self \in Agents
      /\ "shell" \notin Agents
  BY MailmanAssumption DEF BusInv, BusTypeOK
<1>a. ~Fault
  BY <1>0
<1>b. ASSUME UNCHANGED <<pane, errorVars>>, pc \in Aimed
      PROVE  pane' \in Panes /\ host[pane'] \in Addressee
  BY <1>b DEF RouteInv
<1>1. CASE ResolveSession
  <2>1. PICK q \in SessionPanes : IF q = pane THEN KeepPane ELSE HealTo(q)
    BY <1>1 DEF ResolveSession
  <2>2. pane' = q
    BY <1>a, <2>1 DEF KeepPane, HealTo
  <2> QED
    BY <2>2 DEF SessionPanes, Addressee
<1>2. CASE Drift
  <2>1. pc' = "liveness"
    BY <1>2 DEF Drift, FailDelivery, Deliverable, Aimed
  <2>2. PICK name \in NamesShown(pane) :
          \/ name = Self /\ KeepPane
          \/ \E q \in NamedPanes \ {pane} : name # Self /\ HealTo(q)
          \/ name = "none" /\ pane \in NamedPanes /\ KeepPane
    BY <1>a, <1>2, <2>1 DEF Drift, FailDelivery
  <2>3. CASE name = Self /\ KeepPane
    <3>1. pane # NoPane
      BY <1>0, <2>2, <2>3, MailmanAssumption DEF NamesShown, Exists
    <3> QED
      BY <1>0, <2>1, <2>2, <2>3, <3>1, NamedHosts DEF KeepPane, Aimed
  <2>4. ASSUME NEW q \in NamedPanes, HealTo(q)
        PROVE  pane' \in Panes /\ host[pane'] \in Addressee \cup {"shell"}
    <3>1. pane' = q
      BY <1>a, <2>4 DEF HealTo
    <3>2. q \in Panes /\ Self \in NamesShown(q)
      BY DEF NamedPanes
    <3> QED
      BY <3>1, <3>2, NamedHosts
  <2>5. CASE pane \in NamedPanes /\ KeepPane
    <3>1. pane \in Panes /\ Self \in NamesShown(pane)
      BY <2>5 DEF NamedPanes
    <3> QED
      BY <2>1, <2>5, <3>1, NamedHosts DEF KeepPane, Aimed
  <2> QED
    BY <2>1, <2>2, <2>3, <2>4, <2>5 DEF Aimed
<1>3. CASE Liveness
  <2>1. /\ host[pane] # "shell" /\ pc = "liveness" /\ UNCHANGED <<pane, errorVars>>
    BY <1>3 DEF Liveness, FailDelivery, Aimed
  <2>2. host[pane] \in Addressee \cup {"shell"} /\ pane \in Panes
    BY <2>1 DEF RouteInv
  <2> QED
    BY <1>0, <2>1, <2>2
<1>4. CASE Dedupe \/ GatePass \/ ProbeSafe \/ PasteLands
  <2>1. UNCHANGED <<pane, errorVars>> /\ pc \in Aimed
    BY <1>a, <1>4 DEF Dedupe, GatePass, ProbeSafe, PasteLands, TryNotice, Aimed
  <2> QED
    BY <1>b, <2>1
<1>5. CASE AutoHeal
  <2>1. pc \in {"paste", "enter"} /\ Missing(pane) /\ faults = 0
    BY <1>0, <1>5 DEF AutoHeal
  <2>2. pane \in Panes /\ host[pane] \in Addressee
    BY <2>1 DEF RouteInv, Aimed
  <2> QED
    BY <2>1, <2>2, AddresseeRuns DEF Missing
<1>6. CASE Start \/ Stop \/ Crash \/ LoopTop \/ StampResume \/ PromoteResume \/ Claim \/ HandlePing \/ ProviderCap
  BY <1>6 DEF Start, Stop, Crash, LoopTop, StampResume, PromoteResume, Claim, HandlePing, ProviderCap,
              Requeue, Aimed
<1>7. CASE ResolveUnchecked \/ ResolveByName \/ SessionStale \/ Absorb \/ InsertDedupeNotice \/ GateDefer
  BY <1>7 DEF ResolveUnchecked, ResolveByName, SessionStale, Absorb, InsertDedupeNotice, GateDefer,
              Requeue, Aimed
<1>8. CASE ProbeUnsafe \/ ProbeNotFound \/ Park \/ SkipUnsupported \/ Submit \/ PasteMisses
  BY <1>8 DEF ProbeUnsafe, ProbeNotFound, Park, SkipUnsupported, Submit, PasteMisses, Ended, Requeue, Aimed
<1>9. CASE Mark \/ ReleaseResume \/ InsertFailureNotice
  BY <1>9 DEF Mark, ReleaseResume, InsertFailureNotice, Requeue, Aimed
<1> QED
  BY <1>1, <1>2, <1>3, <1>4, <1>5, <1>6, <1>7, <1>8, <1>9 DEF Iteration

LEMMA RouteStep ==
  ASSUME BusInv, RouteInv, [BusNext]_busVars
  PROVE  RouteInv'
<1> SUFFICES ASSUME DriftCheck, settled', faults' = 0, pc' \in Aimed \cup {"liveness"}
             PROVE  /\ pane' \in Panes
                    /\ host'[pane'] \in Addressee' \cup {"shell"}
                    /\ pc' \in Aimed => host'[pane'] \in Addressee'
  BY DEF RouteInv
<1>0. faults = 0
  BY FailuresGrow
<1>a. ASSUME UNCHANGED <<pc, pane, host, session, settled>>
      PROVE  /\ pane' \in Panes
             /\ host'[pane'] \in Addressee' \cup {"shell"}
             /\ pc' \in Aimed => host'[pane'] \in Addressee'
  <2>1. Addressee' = Addressee
    BY <1>a DEF Addressee
  <2> QED
    BY <1>0, <1>a, <2>1 DEF RouteInv, Aimed
<1>1. CASE MailmansTurn
  <2>1. /\ Start \/ Stop \/ Crash \/ Iteration
        /\ settled' = IF pc' = "resolve" THEN TRUE ELSE settled
    BY <1>1 DEF MailmansTurn, Serving
  <2>2. settled
    BY <2>1 DEF Aimed
  <2>3. host' = host /\ Addressee' = Addressee
    BY <2>1, LoopTyped DEF Addressee
  <2> QED
    BY <2>1, <2>2, <2>3, RouteMailman
<1>2. CASE WorldStep
  <2>1. ~PaneChanges
    BY DEF PaneChanges
  <2>2. UNCHANGED <<pc, pane, host, session, settled>>
    BY <1>2, <2>1
       DEF WorldStep, Send, Acknowledge, AckAllReads, AckAllWrites, PauseOrResume, FlushDeferred, SelfCompact,
           LimitChanges,
           mailmanVars, loopVars, worldVars, worldHistory
  <2> QED
    BY <1>a, <2>2
<1>3. CASE Registering(RegisterStep)
  <2>1. UNCHANGED <<pc, pane, host, session, settled>>
    BY <1>3 DEF Registering, RegisterStep, RegisterBegin, McpRegister, RegisterAgent, RegisterSession,
                BacklogDepth, BacklogRead, BacklogFence, BacklogNudge, RegisterPromote, RegisterDies,
                mailmanVars, loopVars, worldVars
  <2> QED
    BY <1>a, <2>1
<1>4. CASE HooksTurn
  BY <1>a, <1>4 DEF HooksTurn, loopVars, worldVars
<1>5. CASE UNCHANGED busVars
  BY <1>a, <1>5 DEF busVars, mailmanVars, worldHistory
<1> QED
  BY <1>1, <1>2, <1>3, <1>4, <1>5, WhoseTurn

LEMMA PasteHolds ==
  ASSUME BusInv, RouteInv, DriftCheck, [BusNext]_busVars
  PROVE  PasteStep
<1> SUFFICES ASSUME shown' # shown, settled, faults = 0 PROVE host[pane] \in Addressee
  BY DEF PasteStep, Addressee
<1>1. Lands
  BY StepShape DEF Outside, HooksTurn, MailmanShape, Polls, Takes, Works, Submits, Returns, Settles, Tells, Frees,
                   Parks, Halts
<1> QED
  BY <1>1 DEF Lands, RouteInv, Aimed

(* With the drift check on, a row is put neither into a shell nor into     *)
(* another agent whose command line says who it is, unless that agent's    *)
(* session is on record, as long as nothing changed since the mailman      *)
(* looked and nothing failed (serve.go:1699-1999, discover.go:137-330).    *)
THEOREM PastesAreRouted ==
  ASSUME DriftCheck
  PROVE  BusSpec => PastesReachAgent
<1>1. BusInit => RouteInv
  BY DEF BusInit, MailmanInit, RouteInv, Aimed
<1>2. BusInv /\ RouteInv /\ [BusNext]_busVars => RouteInv'
  BY RouteStep
<1>3. BusInv /\ RouteInv /\ [BusNext]_busVars => [PasteStep]_busVars
  BY PasteHolds
<1> QED
  BY <1>1, <1>2, <1>3, BusInvariant, PTL DEF BusSpec, PastesReachAgent
-----------------------------------------------------------------------------
(* The backlog floor *)

(* Only the register moves the floor, and then it announces it. *)
LEMMA EpochMoves ==
  ASSUME BusInv, [BusNext]_busVars
  PROVE  /\ agent'[Self].epoch = agent[Self].epoch \/ (rpc' = "nudge" /\ Registering(RegisterStep))
         /\ Registering(RegisterStep) \/ UNCHANGED <<rpc, skipped, held>>
<1>1. CASE WorldStep
  <2>1. UNCHANGED <<registerVars, held>>
    BY <1>1 DEF WorldStep, Send, Acknowledge, AckAllReads, AckAllWrites, PauseOrResume, FlushDeferred,
                SelfCompact, PaneChanges, LimitChanges, worldHistory
  <2> QED
    BY <1>1, <2>1, WorldStepInv DEF registerVars
<1>2. CASE Registering(RegisterStep)
  <2>1. RegisterStep
    BY <1>2 DEF Registering
  <2> QED
    BY <1>2, <2>1, RegisterTyped
<1>3. CASE MailmansTurn
  <2>1. (Start \/ Stop \/ Crash \/ Iteration) /\ UNCHANGED <<registerVars, held>>
    BY <1>3 DEF MailmansTurn, Serving
  <2> QED
    BY <2>1, MailmanAgent DEF registerVars
<1>4. CASE HooksTurn
  BY <1>4, HookTyped DEF HooksTurn, HookingStep, registerVars
<1>5. CASE UNCHANGED busVars
  BY <1>5 DEF busVars, storeVars, registerVars, worldHistory
<1> QED
  BY <1>1, <1>2, <1>3, <1>4, <1>5, WhoseTurn

(* As long as nothing failed or was killed, a floor that is set and not    *)
(* just about to be announced was announced.                               *)
FenceInv ==
  faults = 0 /\ crashes = 0 /\ rpc # "nudge" /\ agent[Self].epoch > 0 =>
    \E n \in Ids : n > agent[Self].epoch /\ n < nextId /\ env[n].kind = "backlog_announce"

LEMMA FenceStep ==
  ASSUME BusInv, FenceInv, [BusNext]_busVars
  PROVE  FenceInv'
<1> SUFFICES ASSUME faults' = 0, crashes' = 0, rpc' # "nudge", agent'[Self].epoch > 0
             PROVE  \E n \in Ids : n > agent'[Self].epoch /\ n < nextId' /\ env'[n].kind = "backlog_announce"
  BY DEF FenceInv
<1>1. /\ faults = 0 /\ crashes = 0
  BY FailuresGrow
<1>2. agent'[Self].epoch = agent[Self].epoch
  BY EpochMoves
<1>3. /\ nextId <= nextId' /\ nextId \in Nat /\ nextId' \in Nat
      /\ \A i \in Ids : i < nextId => env'[i] = env[i]
  BY BusStepInv, RowsKept
<1>4. CASE rpc # "nudge"
  <2>1. PICK n \in Ids : n > agent[Self].epoch /\ n < nextId /\ env[n].kind = "backlog_announce"
    BY <1>1, <1>2, <1>4 DEF FenceInv
  <2>2. n < nextId' /\ env'[n] = env[n]
    BY <1>3, <2>1, StoreAssumption DEF Ids
  <2> QED
    BY <1>2, <2>1, <2>2
<1>5. CASE rpc = "nudge"
  <2>1. RegisterStep
    BY <1>5, EpochMoves DEF Registering
  <2>2. BacklogNudge
    BY <1>1, <1>5, <2>1
       DEF RegisterStep, RegisterBegin, McpRegister, RegisterAgent, RegisterSession, BacklogDepth,
           BacklogRead, BacklogFence, RegisterPromote, RegisterDies, Killed
  <2>3. nextId \in Ids /\ InsertNotice(Notice(Self, "backlog_announce", skipped))
    BY <1>1, <2>2 DEF BacklogNudge, TryMsg, Try, Fault
  <2>4. /\ nextId' = nextId + 1 /\ env' = [env EXCEPT ![nextId] = Notice(Self, "backlog_announce", skipped)]
    BY <2>3 DEF InsertNotice, InsertRow
  <2>5. env \in [Ids -> Envelopes] /\ agent[Self].epoch < nextId /\ agent[Self].epoch \in Ids \cup {0}
    BY DEF BusInv, BusTypeOK, StoreTypeOK, RegisterInv
  <2>6. env'[nextId].kind = "backlog_announce"
    BY <2>3, <2>4, <2>5 DEF Notice
  <2>7. nextId > agent[Self].epoch /\ nextId < nextId'
    BY <1>3, <2>4, <2>5, StoreAssumption DEF Ids
  <2> QED
    BY <1>2, <2>3, <2>6, <2>7
<1> QED
  BY <1>4, <1>5

(* Whatever the floor holds back was announced, if nothing failed or was   *)
(* killed (applyBacklogPolicy, backlog.go:104-131).                        *)
THEOREM FloorsAreAnnounced == BusSpec => []FencedWasAnnounced
<1>1. BusInit => FenceInv
  <2> SUFFICES ASSUME BusInit PROVE agent[Self].epoch = 0
    BY DEF FenceInv
  <2>1. agent = [a \in Agents |-> IF a = Self THEN [NewAgent EXCEPT !.registered = TRUE, !.pane = Home, !.mode = HomeMode]
                                  ELSE NewAgent]
    BY DEF BusInit
  <2> QED
    BY <2>1, MailmanAssumption DEF NewAgent
<1>2. BusInv /\ FenceInv /\ [BusNext]_busVars => FenceInv'
  BY FenceStep
<1>3. BusInv /\ FenceInv => FencedWasAnnounced
  <2> SUFFICES ASSUME BusInv, FenceInv, Fenced # {}, rpc = "idle", faults = 0, crashes = 0
               PROVE  \E n \in Ids : n > agent[Self].epoch /\ n < nextId /\ env[n].kind = "backlog_announce"
    BY DEF FencedWasAnnounced
  <2>1. PICK i \in Ids : i <= agent[Self].epoch
    BY DEF Fenced, Queued
  <2>2. agent[Self].epoch \in Ids \cup {0}
    BY DEF BusInv, RegisterInv
  <2>3. agent[Self].epoch > 0
    BY <2>1, <2>2, StoreAssumption DEF Ids
  <2> QED
    BY <2>3 DEF FenceInv
<1> QED
  BY <1>1, <1>2, <1>3, BusInvariant, PTL DEF BusSpec

-----------------------------------------------------------------------------
(* Order within a channel *)

(* What the floor holds back now was recorded as held back. *)
HeldInv == BelowFloor \subseteq held

(* While a row is in hand no older row of its channel waits, but for what  *)
(* a floor held back.                                                      *)
OrderInv ==
  ~clashed /\ faults = 0 /\ pc \in Holding =>
    \A i \in Ids : /\ i < cur /\ env[i].from = env[cur].from /\ env[i].to = Self
                   /\ env[i].after = "none" /\ i \notin held
                   => st[i] \notin {"queued", "delivering"}

(* An unstaged row in the table that is live was live before. *)
LEMMA LiveBefore ==
  ASSUME BusInv, RowStep, NEW i \in Ids, i < nextId, env[i].after = "none",
         st'[i] \in {"queued", "delivering"}
  PROVE  st[i] \in {"queued", "delivering"} /\ env'[i] = env[i]
<1>1. /\ st[i] \in States \ {"absent", "deferred"}
      /\ st'[i] # st[i] => st'[i] \in Successors[st[i]]
  BY StoreAssumption DEF BusInv, BusTypeOK, StoreTypeOK, RowStep, LifeCycleStep, Ids
<1>2. \A s \in States \ {"absent", "deferred", "queued", "delivering"} :
        Successors[s] \cap {"queued", "delivering"} = {}
  BY DEF Successors, States, RowStates
<1> QED
  BY <1>1, <1>2, RowsKept

LEMMA HeldStep ==
  ASSUME BusInv, HeldInv, [BusNext]_busVars
  PROVE  HeldInv' /\ held \subseteq held'
<1>1. CASE Registering(RegisterStep)
  BY <1>1 DEF Registering, HeldInv
<1>2. CASE UNCHANGED held /\ agent'[Self].epoch = agent[Self].epoch
  <2> SUFFICES ASSUME NEW i \in BelowFloor' PROVE i \in held
    BY <1>2 DEF HeldInv
  <2>1. /\ i \in Ids /\ st'[i] \in {"queued", "delivering"} /\ env'[i].to = Self /\ env'[i].after = "none"
        /\ i <= agent[Self].epoch
    BY <1>2 DEF BelowFloor, Queued, Delivering
  <2>2. i < nextId
    <3>1. agent[Self].epoch \in Ids \cup {0} /\ agent[Self].epoch < nextId /\ nextId \in Nat
      BY BusStepInv, RowsKept DEF BusInv, RegisterInv
    <3> QED
      BY <2>1, <3>1, StoreAssumption DEF Ids
  <2>3. RowStep /\ env'[i] = env[i]
    BY <2>1, <2>2, BusStepInv, RowsKept
  <2>4. st[i] \in {"queued", "delivering"}
    BY <2>1, <2>2, <2>3, LiveBefore
  <2> QED
    BY <2>1, <2>3, <2>4 DEF HeldInv, BelowFloor, Queued, Delivering
<1> QED
  BY <1>1, <1>2, EpochMoves

LEMMA OrderKept ==
  ASSUME CoreInv, HeldInv, OrderInv, [BusNext]_busVars
  PROVE  OrderInv'
<1> SUFFICES ASSUME ~clashed', faults' = 0, pc' \in Holding, NEW i \in Ids,
                    i < cur', env'[i].from = env'[cur'].from, env'[i].to = Self, env'[i].after = "none",
                    i \notin held', st'[i] \in {"queued", "delivering"}
             PROVE  FALSE
  BY DEF OrderInv
<1>0. BusInv /\ BusInv' /\ RowStep /\ i \notin held
  BY BusStepInv, HeldStep DEF CoreInv
<1>1. ~clashed /\ faults = 0
  <2>1. ~clashed
    BY <1>0, StepShape DEF Outside, HooksTurn
  <2>2. faults = 0
    BY <1>0, FailuresGrow
  <2> QED
    BY <2>1, <2>2
<1>2. /\ \A j \in Ids : j < nextId => env'[j] = env[j]
      /\ nextId \in Nat
  BY <1>0, RowsKept
\* The row in hand stays in hand.
<1>3. ASSUME pc \in Holding, cur' = cur
      PROVE  FALSE
  <2>1. cur \in Ids /\ cur < nextId
    BY <1>0, <1>3 DEF BusInv, StageInv
  <2>2. i < nextId /\ env'[i] = env[i] /\ env'[cur] = env[cur]
    BY <1>2, <1>3, <2>1, StoreAssumption DEF Ids
  <2>3. st[i] \notin {"queued", "delivering"}
    BY <1>0, <1>1, <1>3, <2>2 DEF OrderInv
  <2> QED
    BY <1>0, <2>2, <2>3, LiveBefore
<1>4. CASE Takes
  <2>1. PICK k \in Ids : ClaimNext(Self, k) /\ cur' = k
    BY <1>4 DEF Takes
  <2>2. /\ k \in Claimable(Self) /\ env' = env /\ st' = [j \in Ids |-> IF j \in {k} THEN "delivering" ELSE st[j]]
        /\ IsScheduled(Candidates(Self), Strategy, Candidate(k))
    BY <2>1 DEF ClaimNext, MoveRows
  <2>3. i # k /\ st[i] = st'[i]
    BY <2>1, <2>2, StoreAssumption DEF Ids
  <2>4. st[i] # "delivering"
    <3>1. Delivering(Self) = {}
      BY <1>1, <1>4 DEF CoreInv, FlightInv, Takes, Holding
    <3> QED
      BY <2>2, <3>1 DEF Delivering
  <2>5. i \in Claimable(Self)
    <3>1. i \in Queued(Self) /\ i \notin BelowFloor
      BY <1>0, <2>2, <2>3, <2>4 DEF Queued, HeldInv
    <3>2. ~(i <= agent[Self].epoch)
      BY <2>2, <3>1 DEF BelowFloor
    <3>3. agent[Self].epoch \in Ids \cup {0}
      BY <1>0 DEF BusInv, RegisterInv
    <3> QED
      BY <3>1, <3>2, <3>3, StoreAssumption DEF Claimable, Ids
  <2>6. WellFormed(Candidates(Self))
    BY <1>0, CandidatesWellFormed, MailmanAssumption DEF BusInv, BusTypeOK
  <2>7. Candidate(i) \in Candidates(Self) /\ Candidate(i).from = Candidate(k).from
    BY <2>1, <2>2, <2>5 DEF Candidates, Candidate
  <2>8. Candidate(k).id <= Candidate(i).id
    BY <2>2, <2>6, <2>7, ScheduledIsChannelHead
  <2>9. k <= i
    BY <2>8 DEF Candidate
  <2> QED
    BY <2>1, <2>9, StoreAssumption DEF Ids
<1>5. CASE Outside
  BY <1>3, <1>5 DEF Outside
<1>6. CASE HooksTurn
  BY <1>3, <1>6 DEF HooksTurn, loopVars
<1>7. CASE MailmanShape
  <2>1. CASE Works \/ Lands \/ Submits
    BY <1>3, <2>1 DEF Works, Lands, Submits, Holding
  <2>2. CASE Tells
    BY <1>3, <2>2 DEF Tells, Holding
  <2>3. CASE Polls \/ Returns \/ Settles \/ Frees \/ Parks \/ Halts
    BY <2>3 DEF Polls, Returns, Settles, Frees, Parks, Halts, Holding
  <2> QED
    BY <1>4, <1>7, <2>1, <2>2, <2>3 DEF MailmanShape
<1> QED
  BY <1>0, <1>5, <1>6, <1>7, StepShape

LEMMA OrderHolds ==
  ASSUME BusInv, OrderInv, [BusNext]_busVars
  PROVE  OrderStep
<1> SUFFICES ASSUME NEW i \in Ids, NEW j \in Ids,
                    i < j, env[i].from = env[j].from, env[i].to = Self, env[i].after = "none", i \notin held,
                    shown[j] = 0, shown'[j] > 0, ~(faults > 0), ~clashed
             PROVE  st[i] \notin {"queued", "delivering"}
  BY DEF OrderStep
<1>1. faults = 0 /\ shown \in [Ids -> Nat]
  BY MailmanAssumption DEF BusInv, BusTypeOK
<1>2. shown'[j] # shown[j]
  BY <1>1
<1>3. Lands
  BY <1>2, StepShape DEF Outside, HooksTurn, MailmanShape, Polls, Takes, Works, Submits, Returns, Settles, Tells, Frees,
                   Parks, Halts
<1>4. j = cur /\ pc \in Holding
  BY <1>1, <1>2, <1>3 DEF Lands, Holding
<1> QED
  BY <1>1, <1>4 DEF OrderInv

(* Within a channel rows are first shown in the order they were sent,      *)
(* unless a floor held one back or a failed write stranded it, whatever    *)
(* the register, the hooks and the operator do meanwhile                   *)
(* (ClaimNextWithStrategy, messages.go:671; SetBacklogEpoch,               *)
(* agents.go:240).                                                         *)
THEOREM ChannelsShownInOrder == BusSpec => ShownInChannelOrder
<1>1. BusInit => HeldInv /\ OrderInv
  BY DEF BusInit, MailmanInit, HeldInv, OrderInv, BelowFloor, Queued, Delivering, Holding
<1>2. CoreInv /\ HeldInv /\ [BusNext]_busVars => HeldInv'
  BY HeldStep DEF CoreInv
<1>3. CoreInv /\ HeldInv /\ OrderInv /\ [BusNext]_busVars => OrderInv'
  BY OrderKept
<1>4. CoreInv /\ OrderInv /\ [BusNext]_busVars => [OrderStep]_busVars
  BY OrderHolds DEF CoreInv
<1> QED
  BY <1>1, <1>2, <1>3, <1>4, CoreInvariant, PTL DEF BusSpec, ShownInChannelOrder

-----------------------------------------------------------------------------
(* Hooks *)

Elems(s) == {s[k] : k \in 1..Len(s)}

Distinct(s) == \A k, l \in 1..Len(s) : s[k] = s[l] => k = l

LEMMA AppendElems ==
  ASSUME NEW S, NEW s \in Seq(S), NEW x \in S
  PROVE  /\ Elems(Append(s, x)) = Elems(s) \cup {x}
         /\ Distinct(s) /\ x \notin Elems(s) => Distinct(Append(s, x))
<1>1. /\ Len(s) \in Nat /\ Len(Append(s, x)) = Len(s) + 1
      /\ \A k \in 1..Len(s) : Append(s, x)[k] = s[k]
      /\ Append(s, x)[Len(s) + 1] = x
  OBVIOUS
<1>2. \A k : k \in 1..(Len(s) + 1) <=> k \in 1..Len(s) \/ k = Len(s) + 1
  BY <1>1
<1>3. Elems(Append(s, x)) = Elems(s) \cup {x}
  BY <1>1, <1>2 DEF Elems
<1>4. ASSUME Distinct(s), x \notin Elems(s) PROVE Distinct(Append(s, x))
  BY <1>1, <1>2, <1>4 DEF Distinct, Elems
<1> QED
  BY <1>3, <1>4

LEMMA TailElems ==
  ASSUME NEW S, NEW s \in Seq(S), s # <<>>
  PROVE  /\ Elems(s) = Elems(Tail(s)) \cup {Head(s)}
         /\ Distinct(s) => Distinct(Tail(s)) /\ Head(s) \notin Elems(Tail(s))
<1>1. /\ Len(s) \in Nat \ {0} /\ Len(Tail(s)) = Len(s) - 1 /\ Head(s) = s[1]
      /\ \A k \in 1..(Len(s) - 1) : Tail(s)[k] = s[k + 1]
  OBVIOUS
<1>2. /\ \A k \in 1..Len(s) : k = 1 \/ (k - 1 \in 1..(Len(s) - 1) /\ s[k] = Tail(s)[k - 1])
      /\ \A k \in 1..(Len(s) - 1) : k + 1 \in 1..Len(s)
      /\ 1 \in 1..Len(s)
  BY <1>1
<1>3. Elems(s) = Elems(Tail(s)) \cup {Head(s)}
  <2>1. ASSUME NEW x \in Elems(s) PROVE x \in Elems(Tail(s)) \cup {Head(s)}
    BY <1>1, <1>2 DEF Elems
  <2>2. ASSUME NEW x \in Elems(Tail(s)) PROVE x \in Elems(s)
    BY <1>1, <1>2 DEF Elems
  <2>3. Head(s) \in Elems(s)
    BY <1>1, <1>2 DEF Elems
  <2> QED
    BY <2>1, <2>2, <2>3
<1>4. ASSUME Distinct(s)
      PROVE  Distinct(Tail(s)) /\ Head(s) \notin Elems(Tail(s))
  <2>1. ASSUME NEW k \in 1..(Len(s) - 1), NEW l \in 1..(Len(s) - 1), s[k + 1] = s[l + 1] PROVE k = l
    BY <1>1, <1>2, <1>4, <2>1 DEF Distinct
  <2>2. ASSUME NEW k \in 1..(Len(s) - 1) PROVE s[k + 1] # s[1]
    <3>1. k + 1 \in 1..Len(s) /\ 1 \in 1..Len(s) /\ k + 1 # 1
      BY <1>1, <1>2
    <3> QED
      BY <1>4, <3>1 DEF Distinct
  <2>3. Distinct(Tail(s))
    BY <1>1, <2>1 DEF Distinct
  <2>4. Head(s) \notin Elems(Tail(s))
    BY <1>1, <2>2 DEF Elems
  <2> QED
    BY <2>3, <2>4
<1> QED
  BY <1>3, <1>4

(* The rows a hook marked and will print. *)
Marked(h) == batch[h] \ Elems(took[h])

(* Rows are marked by one hook once, and printed after that: what is to be *)
(* printed was not printed before.                                         *)
MarkedInv ==
  /\ \A h \in Hooks : Elems(took[h]) \subseteq batch[h]
  /\ \A h \in Hooks : \A i \in Marked(h) : st[i] = "delivered" /\ presented[i] = 0
  /\ \A h, g \in Hooks : h # g => Marked(h) \cap Marked(g) = {}
  /\ \A i \in Ids : presented[i] \in {0, 1} /\ (presented[i] = 1 => st[i] = "delivered")

(* A hook that has not marked yet is going to print exactly what it took. *)
QuietInv ==
  \A h \in Hooks : /\ hpc[h] \notin {"mark", "print"} => batch[h] = Elems(took[h])
                   /\ hpc[h] \in {"ready", "recover", "done", "dead"} => took[h] = <<>>

(* A hook's step leaves the other hooks alone. *)
LEMMA HookOthers ==
  ASSUME BusInv, NEW h \in Hooks, HookStep(h), NEW g \in Hooks, g # h
  PROVE  hpc'[g] = hpc[g] /\ took'[g] = took[g] /\ batch'[g] = batch[g]
<1>1. hpc \in [Hooks -> HookStages] /\ took \in [Hooks -> Seq(Ids)] /\ batch \in [Hooks -> SUBSET Ids]
  BY DEF BusInv, BusTypeOK
<1> QED
  BY <1>1 DEF HookStep, HookBegin, HookRecover, HookClaim, HookMark, HookPrint, HookDies, HookFails,
              HookEnds, HookGoto, MarkedHead

(* The bus deletes nothing. *)
LEMMA DeliveredStays ==
  ASSUME BusInv, [BusNext]_busVars, NEW i \in Ids, st[i] = "delivered"
  PROVE  st'[i] = "delivered"
<1>0. /\ st \in [Ids -> States] /\ \A j \in Ids : st[j] = "absent" <=> j >= nextId
  BY DEF BusInv, BusTypeOK, StoreTypeOK
<1>a. ASSUME UNCHANGED st PROVE st'[i] = "delivered"
  BY <1>a
<1>b. ASSUME NEW S \in SUBSET Ids, NEW s, MoveRows(S, s), \A j \in S : st[j] # "delivered"
      PROVE  st'[i] = "delivered"
  BY <1>0, <1>b DEF MoveRows
<1>c. ASSUME NEW e, NEW s, InsertRow(e, s) PROVE st'[i] = "delivered"
  <2>1. nextId \in Ids /\ st' = [st EXCEPT ![nextId] = s]
    BY <1>c DEF InsertRow
  <2>2. st[nextId] = "absent"
    BY <1>0, <2>1, StoreAssumption DEF Ids
  <2> QED
    BY <1>0, <2>1, <2>2
<1>d. ASSUME NEW k \in Ids, ClaimNext(Self, k) \/ MarkFailed(k) \/ \E v : MarkDelivered(k, v)
      PROVE  st'[i] = "delivered"
  BY <1>0, <1>d DEF ClaimNext, MarkFailed, MarkDelivered, MoveRows, Claimable, Queued
<1>e. ASSUME RecoverDelivering(Self) PROVE st'[i] = "delivered"
  BY <1>0, <1>e DEF RecoverDelivering, MoveRows, Delivering
<1>f. ASSUME NEW t, PromoteDeferred(Self, t) PROVE st'[i] = "delivered"
  BY <1>0, <1>f DEF PromoteDeferred, MoveRows, DeferredRows
<1>1. CASE Outside
  <2>1. ASSUME NEW S \in SUBSET Queued(Self), MoveRows(S, "acknowledged") PROVE st'[i] = "delivered"
    BY <1>0, <2>1 DEF MoveRows, Queued
  <2> QED
    BY <1>1, <1>a, <1>c, <1>f, <2>1 DEF Outside, OutsideRows, InsertMessage, InsertNotice, msgVars
<1>2. CASE MailmanShape
  <2>1. CASE Polls \/ Works \/ Lands \/ Submits \/ Parks \/ Halts
    BY <1>a, <2>1 DEF Polls, Works, Lands, Submits, Parks, Halts, TableKept
  <2>2. CASE Takes
    BY <1>d, <2>2 DEF Takes
  <2>3. CASE Returns \/ Frees
    BY <1>a, <1>e, <1>f, <2>3 DEF Returns, Frees, TryMsg, Try, storeVars
  <2>4. CASE Settles
    <3>1. cur \in Ids
      BY <2>4 DEF Settles, BusInv, StageInv, Holding
    <3> QED
      BY <1>a, <1>d, <2>4, <3>1 DEF Settles, TryMsg, Try, Settle, storeVars, msgVars
  <2>5. CASE Tells
    BY <1>a, <1>c, <2>5 DEF Tells, TryNotice, TryMsg, Try, InsertNotice, storeVars
  <2> QED
    BY <1>2, <2>1, <2>2, <2>3, <2>4, <2>5 DEF MailmanShape
<1>3. CASE HooksTurn
  <2>1. PICK h \in Hooks : HookStep(h)
    BY <1>3 DEF HooksTurn, HookingStep
  <2>2. hpc[h] = "mark" => Head(took[h]) \in Ids
    <3>1. took[h] \in Seq(Ids) /\ (hpc[h] = "mark" => took[h] # <<>>)
      BY DEF BusInv, BusTypeOK, HookStageInv
    <3> QED
      BY <3>1
  <2> QED
    BY <1>a, <1>d, <1>e, <2>1, <2>2
       DEF HookStep, HookBegin, HookRecover, HookClaim, HookMark, HookPrint, HookDies, HookFails, storeVars
<1> QED
  BY <1>1, <1>2, <1>3, StepShape

LEMMA HookEnded ==
  ASSUME BusInv, NEW h \in Hooks, NEW stage, HookEnds(h, stage)
  PROVE  hpc'[h] = stage /\ took'[h] = <<>> /\ batch'[h] = {} /\ Elems(took'[h]) = {}
<1>1. hpc \in [Hooks -> HookStages] /\ took \in [Hooks -> Seq(Ids)] /\ batch \in [Hooks -> SUBSET Ids]
  BY DEF BusInv, BusTypeOK
<1>2. hpc'[h] = stage /\ took'[h] = <<>> /\ batch'[h] = {}
  BY <1>1 DEF HookEnds, HookGoto
<1>3. Elems(<<>>) = {}
  BY DEF Elems
<1> QED
  BY <1>2, <1>3

LEMMA QuietStep ==
  ASSUME BusInv, QuietInv, [BusNext]_busVars
  PROVE  QuietInv'
<1>1. CASE UNCHANGED hookVars
  BY <1>1 DEF QuietInv, hookVars
<1>2. CASE HooksTurn
  <2>1. PICK h \in Hooks : HookStep(h)
    BY <1>2 DEF HooksTurn, HookingStep
  <2> DEFINE Good(g) == /\ hpc[g] \notin {"mark", "print"} => batch[g] = Elems(took[g])
                        /\ hpc[g] \in {"ready", "recover", "done", "dead"} => took[g] = <<>>
  <2>2. \A g \in Hooks : Good(g)
    BY DEF QuietInv
  <2>3. ASSUME NEW g \in Hooks, g # h PROVE Good(g)'
    BY <2>1, <2>2, <2>3, HookOthers
  <2>4. Good(h)'
    <3>0. hpc \in [Hooks -> HookStages] /\ took \in [Hooks -> Seq(Ids)] /\ batch \in [Hooks -> SUBSET Ids]
      BY DEF BusInv, BusTypeOK
    <3>1. ASSUME NEW stage, HookEnds(h, stage) PROVE Good(h)'
      BY <3>1, HookEnded
    <3>2. CASE HookBegin(h)
      BY <2>2, <3>0, <3>2 DEF HookBegin, HookGoto
    <3>3. CASE HookRecover(h)
      BY <2>2, <3>0, <3>1, <3>3 DEF HookRecover, HookGoto, HookFails
    <3>4. CASE HookClaim(h)
      <4>1. ASSUME NEW i \in Ids, took' = [took EXCEPT ![h] = Append(@, i)],
                   batch' = [batch EXCEPT ![h] = @ \cup {i}], hpc' = hpc
            PROVE  Good(h)'
        <5>1. took'[h] = Append(took[h], i) /\ batch'[h] = batch[h] \cup {i} /\ took[h] \in Seq(Ids)
          BY <3>0, <4>1
        <5>2. Elems(took'[h]) = Elems(took[h]) \cup {i}
          BY <5>1, AppendElems
        <5> QED
          BY <2>2, <3>4, <4>1, <5>1, <5>2 DEF HookClaim
      <4> QED
        BY <2>2, <3>0, <3>1, <3>4, <4>1 DEF HookClaim, HookGoto, HookFails
    <3>5. CASE HookMark(h)
      BY <3>0, <3>1, <3>5 DEF HookMark, HookFails, MarkedHead, HookGoto
    <3>6. CASE HookPrint(h) \/ HookDies(h)
      BY <3>1, <3>6 DEF HookPrint, HookDies
    <3> QED
      BY <2>1, <3>2, <3>3, <3>4, <3>5, <3>6 DEF HookStep
  <2> QED
    BY <2>3, <2>4 DEF QuietInv
<1>3. CASE Outside
  BY <1>1, <1>3 DEF Outside
<1> QED
  BY <1>1, <1>2, <1>3, StepShape

LEMMA MarkedStep ==
  ASSUME BusInv, MarkedInv, QuietInv, [BusNext]_busVars
  PROVE  MarkedInv'
<1>0. /\ hpc \in [Hooks -> HookStages] /\ took \in [Hooks -> Seq(Ids)] /\ batch \in [Hooks -> SUBSET Ids]
      /\ presented \in [Ids -> Nat] /\ st \in [Ids -> States]
  BY DEF BusInv, BusTypeOK, StoreTypeOK
<1>a. \A i \in Ids : st[i] = "delivered" => st'[i] = "delivered"
  BY DeliveredStays
<1>b. \A h \in Hooks : Marked(h) \subseteq Ids
  BY <1>0 DEF Marked
\* The rows to be printed stay the same or become fewer, and nothing is printed.
<1>1. ASSUME UNCHANGED presented,
             \A h \in Hooks : Elems(took'[h]) \subseteq batch'[h] /\ Marked(h)' \subseteq Marked(h)
      PROVE  MarkedInv'
  <2>1. \A h \in Hooks : \A i \in Marked(h)' : st'[i] = "delivered" /\ presented'[i] = 0
    BY <1>1, <1>a, <1>b DEF MarkedInv
  <2>2. \A h, g \in Hooks : h # g => Marked(h)' \cap Marked(g)' = {}
    BY <1>1 DEF MarkedInv
  <2>3. \A i \in Ids : presented'[i] \in {0, 1} /\ (presented'[i] = 1 => st'[i] = "delivered")
    BY <1>1, <1>a DEF MarkedInv
  <2> QED
    BY <1>1, <2>1, <2>2, <2>3 DEF MarkedInv
<1>2. CASE UNCHANGED hookVars
  BY <1>1, <1>2 DEF hookVars, Marked, MarkedInv
<1>3. CASE HooksTurn
  <2>1. PICK h \in Hooks : HookStep(h)
    BY <1>3 DEF HooksTurn, HookingStep
  <2>2. \A g \in Hooks \ {h} : /\ Elems(took'[g]) \subseteq batch'[g] /\ Marked(g)' = Marked(g)
    BY <2>1, HookOthers DEF Marked, MarkedInv
  <2>3. ASSUME UNCHANGED presented, Elems(took'[h]) \subseteq batch'[h], Marked(h)' \subseteq Marked(h)
        PROVE  MarkedInv'
    BY <1>1, <2>2, <2>3
  <2>4. ASSUME NEW stage, HookEnds(h, stage), UNCHANGED presented
        PROVE  MarkedInv'
    BY <2>3, <2>4, HookEnded DEF Marked
  <2>5. ASSUME UNCHANGED <<took, batch, presented>> PROVE MarkedInv'
    BY <2>3, <2>5 DEF Marked, MarkedInv
  <2>6. CASE HookBegin(h) \/ HookRecover(h) \/ HookDies(h)
    BY <2>4, <2>5, <2>6 DEF HookBegin, HookRecover, HookDies, HookFails
  <2>7. CASE HookClaim(h)
    <3>1. ASSUME NEW i \in Ids, took' = [took EXCEPT ![h] = Append(@, i)],
                 batch' = [batch EXCEPT ![h] = @ \cup {i}], UNCHANGED presented
          PROVE  MarkedInv'
      <4>1. took'[h] = Append(took[h], i) /\ batch'[h] = batch[h] \cup {i} /\ took[h] \in Seq(Ids)
        BY <1>0, <3>1
      <4>2. Elems(took'[h]) = Elems(took[h]) \cup {i}
        BY <4>1, AppendElems
      <4>3. Elems(took[h]) \subseteq batch[h]
        BY DEF MarkedInv
      <4> QED
        BY <2>3, <3>1, <4>1, <4>2, <4>3 DEF Marked
    <3> QED
      BY <2>4, <2>5, <2>7, <3>1 DEF HookClaim, HookFails
  <2>8. CASE HookMark(h)
    <3>1. CASE MarkDelivered(Head(took[h]), "verified") /\ MarkedHead(h)
      <4> DEFINE i == Head(took[h])
      <4>1. took[h] \in Seq(Ids) /\ took[h] # <<>>
        BY <1>0, <2>8 DEF BusInv, HookStageInv, HookMark
      <4>2. i \in Ids /\ Elems(took[h]) = Elems(Tail(took[h])) \cup {i}
        BY <4>1, TailElems
      <4>3. took'[h] = Tail(took[h]) /\ batch' = batch /\ presented' = presented
        BY <1>0, <3>1 DEF MarkedHead
      <4>4. st[i] = "delivering" /\ st'[i] = "delivered"
        BY <3>1, <4>2 DEF MarkDelivered, MoveRows
      <4> HIDE DEF i
      <4>5. Marked(h)' \subseteq Marked(h) \cup {i} /\ Elems(took'[h]) \subseteq batch'[h]
        BY <4>2, <4>3 DEF Marked, MarkedInv
      <4>6. presented[i] = 0 /\ \A g \in Hooks : i \notin Marked(g)
        BY <4>2, <4>4 DEF MarkedInv
      <4>7. \A g \in Hooks : Elems(took'[g]) \subseteq batch'[g]
        BY <2>2, <4>5
      <4>8. \A g \in Hooks : \A j \in Marked(g)' : st'[j] = "delivered" /\ presented'[j] = 0
        BY <1>a, <1>b, <2>2, <4>3, <4>4, <4>5, <4>6 DEF MarkedInv
      <4>9. \A f, g \in Hooks : f # g => Marked(f)' \cap Marked(g)' = {}
        <5>1. \A g \in Hooks : g # h => Marked(h)' \cap Marked(g)' = {}
          BY <2>2, <4>5, <4>6 DEF MarkedInv
        <5>2. \A f, g \in Hooks : f # g /\ f # h /\ g # h => Marked(f)' \cap Marked(g)' = {}
          BY <2>2 DEF MarkedInv
        <5> QED
          BY <5>1, <5>2
      <4>10. \A j \in Ids : presented'[j] \in {0, 1} /\ (presented'[j] = 1 => st'[j] = "delivered")
        BY <1>a, <4>3 DEF MarkedInv
      <4> QED
        BY <4>7, <4>8, <4>9, <4>10 DEF MarkedInv
    <3> QED
      BY <2>4, <2>8, <3>1 DEF HookMark, HookFails
  <2>9. CASE HookPrint(h)
    <3>1. /\ presented' = [i \in Ids |-> IF i \in batch[h] THEN presented[i] + 1 ELSE presented[i]]
          /\ HookEnds(h, "done") /\ hpc[h] = "print"
      BY <2>9 DEF HookPrint
    <3>2. took[h] = <<>> /\ Marked(h) = batch[h]
      <4>1. Elems(<<>>) = {}
        BY DEF Elems
      <4>2. took[h] = <<>>
        BY <3>1 DEF BusInv, HookStageInv
      <4> QED
        BY <4>1, <4>2 DEF Marked
    <3>3. /\ Marked(h)' = {} /\ Elems(took'[h]) \subseteq batch'[h]
      BY <3>1, HookEnded DEF Marked
    <3>4. \A i \in Ids : i \in Marked(h) => presented[i] = 0 /\ presented'[i] = 1 /\ st'[i] = "delivered"
      BY <1>0, <1>a, <3>1, <3>2 DEF MarkedInv
    <3>5. \A i \in Ids : i \notin Marked(h) => presented'[i] = presented[i]
      BY <1>0, <3>1, <3>2
    <3>6. \A g \in Hooks : Elems(took'[g]) \subseteq batch'[g]
      BY <2>2, <3>3
    <3>7. \A g \in Hooks : \A j \in Marked(g)' : st'[j] = "delivered" /\ presented'[j] = 0
      <4>1. \A g \in Hooks \ {h} : \A j \in Marked(g) : j \in Ids /\ j \notin Marked(h)
        BY <1>b DEF MarkedInv
      <4> QED
        BY <1>a, <2>2, <3>3, <3>5, <4>1 DEF MarkedInv
    <3>8. \A f, g \in Hooks : f # g => Marked(f)' \cap Marked(g)' = {}
      <4>1. \A g \in Hooks : g # h => Marked(h)' \cap Marked(g)' = {}
        BY <3>3
      <4>2. \A f, g \in Hooks : f # g /\ f # h /\ g # h => Marked(f)' \cap Marked(g)' = {}
        BY <2>2 DEF MarkedInv
      <4> QED
        BY <3>3, <4>1, <4>2
    <3>9. \A j \in Ids : presented'[j] \in {0, 1} /\ (presented'[j] = 1 => st'[j] = "delivered")
      BY <1>a, <3>4, <3>5 DEF MarkedInv
    <3> QED
      BY <3>6, <3>7, <3>8, <3>9 DEF MarkedInv
  <2> QED
    BY <2>1, <2>6, <2>7, <2>8, <2>9 DEF HookStep
<1>4. CASE Outside
  BY <1>2, <1>4 DEF Outside
<1> QED
  BY <1>2, <1>3, <1>4, StepShape

LEMMA HookInitInv == BusInit => MarkedInv /\ QuietInv
<1> SUFFICES ASSUME BusInit PROVE MarkedInv /\ QuietInv
  OBVIOUS
<1>1. /\ hpc = [h \in Hooks |-> "ready"] /\ took = [h \in Hooks |-> <<>>] /\ batch = [h \in Hooks |-> {}]
      /\ presented = [i \in Ids |-> 0]
  BY DEF BusInit, HookInit
<1>2. Elems(<<>>) = {}
  BY DEF Elems
<1>3. \A h \in Hooks : took[h] = <<>> /\ batch[h] = {} /\ Elems(took[h]) = {} /\ Marked(h) = {}
  BY <1>1, <1>2 DEF Marked
<1> QED
  BY <1>1, <1>3 DEF MarkedInv, QuietInv

LEMMA HookInvariant == BusSpec => [](MarkedInv /\ QuietInv)
<1>1. BusInv /\ MarkedInv /\ QuietInv /\ [BusNext]_busVars => MarkedInv' /\ QuietInv'
  BY MarkedStep, QuietStep
<1> QED
  BY <1>1, HookInitInv, BusInvariant, PTL DEF BusSpec

(* No hook ever repeats what a hook printed, whatever hooks, mailmen,      *)
(* faults and kills interleave (doHookContext, hook.go:52).                *)
THEOREM HooksNeverRepeat == BusSpec => []PresentedOnce
<1>1. MarkedInv => PresentedOnce
  <2> SUFFICES ASSUME MarkedInv, NEW i \in Ids PROVE presented[i] <= 1
    BY DEF PresentedOnce
  <2>1. presented[i] \in {0, 1}
    BY DEF MarkedInv
  <2> QED
    BY <2>1
<1> QED
  BY <1>1, HookInvariant, PTL

(* A hook that has the queue to itself holds the rows it took, each once. *)
GripInv ==
  ~clashed => \A h \in ActiveHooks : /\ \A i \in Elems(took[h]) : st[i] = "delivering"
                                     /\ Distinct(took[h])

LEMMA GripStep ==
  ASSUME BusInv, ClashInv, QuietInv, GripInv, [BusNext]_busVars
  PROVE  GripInv'
<1> SUFFICES ASSUME ~clashed', NEW h \in Hooks, h \in ActiveHooks'
             PROVE  /\ \A i \in Elems(took'[h]) : st'[i] = "delivering"
                    /\ Distinct(took'[h])
  BY DEF GripInv, ActiveHooks
<1>0. /\ hpc \in [Hooks -> HookStages] /\ took \in [Hooks -> Seq(Ids)] /\ batch \in [Hooks -> SUBSET Ids]
      /\ st \in [Ids -> States]
  BY DEF BusInv, BusTypeOK, StoreTypeOK
<1>a. Elems(took[h]) \subseteq Ids
  BY <1>0 DEF Elems
<1>b. ~clashed
  BY StepShape DEF Outside, HooksTurn
<1>c. h \in ActiveHooks => /\ \A i \in Elems(took[h]) : st[i] = "delivering"
                           /\ Distinct(took[h])
  BY <1>b DEF GripInv
<1>1. CASE Outside
  <2>1. UNCHANGED hookVars /\ FlightKept
    BY <1>1, OutsideFlight DEF Outside
  <2> QED
    BY <1>a, <1>c, <2>1 DEF hookVars, ActiveHooks, FlightKept
<1>2. CASE MailmanShape /\ clashed' = (clashed \/ ActiveHooks # {}) /\ UNCHANGED hookVars
  BY <1>2 DEF hookVars, ActiveHooks
<1>3. CASE HooksTurn
  <2>1. PICK g \in Hooks : HookStep(g)
    BY <1>3 DEF HooksTurn, HookingStep
  <2>2. CASE g # h
    <3>1. hpc'[h] = hpc[h] /\ took'[h] = took[h] /\ h \in ActiveHooks
      BY <2>1, <2>2, HookOthers DEF ActiveHooks
    <3>2. g \notin ActiveHooks
      BY <1>b, <2>2, <3>1 DEF ClashInv
    <3>3. HookBegin(g)
      BY <2>1, <3>2 DEF ActiveHooks, HookStep, HookRecover, HookClaim, HookMark, HookPrint, HookDies
    <3> QED
      BY <1>c, <3>1, <3>3 DEF HookBegin, storeVars
  <2>3. CASE g = h
    <3>0. hpc'[h] \notin {"ready", "done", "dead"}
      BY DEF ActiveHooks
    <3>a. ASSUME NEW stage \in {"done", "dead"}, HookEnds(h, stage) PROVE FALSE
      BY <3>0, <3>a, HookEnded
    <3>b. Elems(<<>>) = {} /\ Distinct(<<>>)
      BY DEF Elems, Distinct
    <3>1. CASE HookBegin(h) \/ HookRecover(h)
      <4>1. took[h] = <<>> /\ took' = took
        BY <3>1, <3>a DEF QuietInv, HookBegin, HookRecover, HookFails
      <4> QED
        BY <3>b, <4>1
    <3>2. CASE HookClaim(h)
      <4>0. h \in ActiveHooks
        BY <3>2 DEF HookClaim, ActiveHooks
      <4>1. ASSUME NEW i \in Ids, ClaimNext(Self, i), took' = [took EXCEPT ![h] = Append(@, i)]
            PROVE  /\ \A j \in Elems(took'[h]) : st'[j] = "delivering"
                   /\ Distinct(took'[h])
        <5>1. took'[h] = Append(took[h], i) /\ took[h] \in Seq(Ids)
          BY <1>0, <4>1
        <5>2. st[i] = "queued" /\ st' = [j \in Ids |-> IF j \in {i} THEN "delivering" ELSE st[j]]
          BY <4>1 DEF ClaimNext, MoveRows, Claimable, Queued
        <5>3. i \notin Elems(took[h])
          BY <1>c, <4>0, <5>2
        <5>4. Elems(took'[h]) = Elems(took[h]) \cup {i} /\ Distinct(took'[h])
          BY <1>c, <4>0, <5>1, <5>3, AppendElems
        <5> QED
          BY <1>a, <1>c, <4>0, <5>2, <5>4
      <4>2. CASE UNCHANGED <<storeVars, took>>
        BY <1>c, <4>0, <4>2 DEF storeVars
      <4> QED
        BY <3>2, <3>a, <4>1, <4>2 DEF HookClaim, HookFails
    <3>3. CASE HookMark(h)
      <4>0. h \in ActiveHooks /\ took[h] \in Seq(Ids) /\ took[h] # <<>>
        BY <1>0, <3>3 DEF HookMark, ActiveHooks, BusInv, HookStageInv
      <4>1. MarkDelivered(Head(took[h]), "verified") /\ MarkedHead(h)
        BY <3>3, <3>a DEF HookMark, HookFails
      <4>2. /\ took'[h] = Tail(took[h])
            /\ st' = [j \in Ids |-> IF j \in {Head(took[h])} THEN "delivered" ELSE st[j]]
        BY <1>0, <4>1 DEF MarkedHead, MarkDelivered, MoveRows
      <4>3. /\ Elems(took[h]) = Elems(Tail(took[h])) \cup {Head(took[h])}
            /\ Distinct(Tail(took[h])) /\ Head(took[h]) \notin Elems(Tail(took[h]))
        BY <1>c, <4>0, TailElems
      <4> QED
        BY <1>a, <1>c, <4>0, <4>2, <4>3
    <3>4. CASE HookPrint(h) \/ HookDies(h)
      BY <3>4, <3>a DEF HookPrint, HookDies
    <3> QED
      BY <2>1, <2>3, <3>1, <3>2, <3>3, <3>4 DEF HookStep
  <2> QED
    BY <2>2, <2>3
<1> QED
  BY <1>1, <1>2, <1>3, StepShape

(* Who marks a row delivered. *)
LEMMA DeliveredBy ==
  ASSUME CoreInv, [BusNext]_busVars, NEW i \in Ids, st[i] # "delivered", st'[i] = "delivered",
         env[i].kind = "message"
  PROVE  shown[i] > 0 \/ \E h \in Hooks : /\ hpc[h] = "mark" /\ i = Head(took[h])
                                           /\ HookMark(h) /\ MarkedHead(h)
<1>0. /\ st \in [Ids -> States] /\ BusInv
  BY DEF CoreInv, BusInv, BusTypeOK, StoreTypeOK
<1>a. ASSUME NEW S, NEW s, s # "delivered", MoveRows(S, s) PROVE FALSE
  BY <1>0, <1>a DEF MoveRows
<1>b. ASSUME NEW e, NEW s, s # "delivered", InsertRow(e, s) PROVE FALSE
  <2>1. st' = [st EXCEPT ![nextId] = s]
    BY <1>b DEF InsertRow
  <2> QED
    BY <1>0, <1>b, <2>1
<1>1. CASE Outside
  BY <1>1, <1>a, <1>b DEF Outside, OutsideRows, msgVars, InsertMessage, InsertNotice, PromoteDeferred
<1>2. CASE MailmanShape
  <2>1. CASE Polls \/ Works \/ Lands \/ Submits \/ Parks \/ Halts
    BY <2>1 DEF Polls, Works, Lands, Submits, Parks, Halts, TableKept
  <2>2. CASE Takes
    BY <1>a, <2>2 DEF Takes, ClaimNext
  <2>3. CASE Returns \/ Frees
    BY <1>a, <2>3 DEF Returns, Frees, TryMsg, Try, storeVars, RecoverDelivering, PromoteDeferred
  <2>4. CASE Settles
    <3>1. PICK v : MarkDelivered(cur, v)
      BY <1>a, <2>4 DEF Settles, TryMsg, Try, Settle, storeVars, msgVars, MarkFailed
    <3>2. i = cur
      BY <1>0, <3>1 DEF MarkDelivered, MoveRows
    <3>3. ~MarkFailed(cur)
      BY <1>a DEF MarkFailed
    <3>4. pc = "ping" \/ (pc = "mark" /\ out \in {"verified", "external", "unverified", "unsupported"})
      <4>1. ~UNCHANGED msgVars /\ ~UNCHANGED storeVars
        BY DEF msgVars, storeVars
      <4> QED
        BY <2>4, <3>3, <4>1 DEF Settles, TryMsg, Try, Settle
    <3> QED
      BY <3>2, <3>4 DEF CoreInv, EvidenceInv, NeedsNoPane
  <2>5. CASE Tells
    BY <1>b, <2>5 DEF Tells, TryNotice, TryMsg, Try, InsertNotice, storeVars
  <2> QED
    BY <1>2, <2>1, <2>2, <2>3, <2>4, <2>5 DEF MailmanShape
<1>3. CASE HooksTurn
  <2>1. PICK h \in Hooks : HookStep(h)
    BY <1>3 DEF HooksTurn, HookingStep
  <2>2. ~UNCHANGED storeVars
    BY DEF storeVars
  <2>3. HookMark(h) /\ MarkDelivered(Head(took[h]), "verified") /\ MarkedHead(h)
    BY <1>a, <2>1, <2>2
       DEF HookStep, HookBegin, HookRecover, HookClaim, HookMark, HookPrint, HookDies, HookFails,
           RecoverDelivering, ClaimNext
  <2>4. i = Head(took[h])
    BY <1>0, <2>3 DEF MarkDelivered, MoveRows
  <2> QED
    BY <2>3, <2>4 DEF HookMark
<1> QED
  BY <1>0, <1>1, <1>2, <1>3, StepShape

(* What a lone hook is about to print it prints. *)
LEMMA BatchKept ==
  ASSUME BusInv, MarkedInv, QuietInv, GripInv, [BusNext]_busVars,
         faults' = 0, NoHookDied', ~clashed', NEW i \in Ids, NEW h \in Hooks, i \in batch[h]
  PROVE  i \in batch'[h] \/ presented'[i] > 0
<1>0. /\ hpc \in [Hooks -> HookStages] /\ took \in [Hooks -> Seq(Ids)] /\ batch \in [Hooks -> SUBSET Ids]
      /\ presented \in [Ids -> Nat]
  BY DEF BusInv, BusTypeOK
<1>1. CASE UNCHANGED hookVars
  BY <1>1 DEF hookVars
<1>2. CASE HooksTurn
  <2>1. PICK g \in Hooks : HookStep(g)
    BY <1>2 DEF HooksTurn, HookingStep
  <2>2. CASE g # h
    BY <2>1, <2>2, HookOthers
  <2>3. CASE g = h
    <3>a. ~Fault
      BY FailuresGrow DEF Fault
    <3>1. CASE HookBegin(h) \/ HookRecover(h) \/ HookClaim(h)
      BY <1>0, <3>1, <3>a DEF HookBegin, HookRecover, HookClaim
    <3>2. CASE HookMark(h)
      <4>1. h \in ActiveHooks /\ took[h] \in Seq(Ids) /\ took[h] # <<>> /\ ~clashed
        BY <1>0, <1>2, <3>2 DEF HookMark, ActiveHooks, BusInv, HookStageInv, HooksTurn
      <4>2. st[Head(took[h])] = "delivering"
        <5>1. Head(took[h]) \in Elems(took[h])
          BY <4>1, TailElems
        <5> QED
          BY <4>1, <5>1 DEF GripInv
      <4> QED
        BY <3>2, <3>a, <4>2 DEF HookMark, MarkedHead
    <3>3. CASE HookPrint(h)
      <4>1. presented'[i] = presented[i] + 1 /\ presented[i] \in Nat
        BY <1>0, <3>3 DEF HookPrint
      <4> QED
        BY <4>1
    <3>4. CASE HookDies(h)
      <4>1. hpc'[h] = "dead"
        BY <3>4, HookEnded DEF HookDies
      <4> QED
        BY <4>1 DEF NoHookDied
    <3> QED
      BY <2>1, <2>3, <3>1, <3>2, <3>3, <3>4 DEF HookStep
  <2> QED
    BY <2>2, <2>3
<1>3. CASE Outside
  BY <1>1, <1>3 DEF Outside
<1> QED
  BY <1>1, <1>2, <1>3, StepShape

(* What was shown or printed stays so, and the dead stay dead. *)
LEMMA EvidenceKept ==
  ASSUME BusInv, [BusNext]_busVars
  PROVE  /\ \A i \in Ids : shown[i] > 0 => shown'[i] > 0
         /\ \A i \in Ids : presented[i] > 0 => presented'[i] > 0
         /\ NoHookDied' => NoHookDied
<1>0. /\ shown \in [Ids -> Nat] /\ presented \in [Ids -> Nat] /\ hpc \in [Hooks -> HookStages]
  BY DEF BusInv, BusTypeOK
<1>1. ASSUME NEW i \in Ids, shown[i] > 0 PROVE shown'[i] > 0
  <2>1. CASE UNCHANGED shown
    BY <1>1, <2>1
  <2>2. CASE Lands
    BY <1>0, <1>1, <2>2 DEF Lands
  <2> QED
    BY <2>1, <2>2, StepShape DEF Outside, HooksTurn, MailmanShape, Polls, Takes, Works, Submits, Returns, Settles, Tells,
                                 Frees, Parks, Halts
<1>2. CASE HooksTurn
  <2>1. PICK h \in Hooks : HookStep(h)
    BY <1>2 DEF HooksTurn, HookingStep
  <2>2. ASSUME NEW i \in Ids, presented[i] > 0 PROVE presented'[i] > 0
    <3>1. CASE UNCHANGED presented
      BY <2>2, <3>1
    <3>2. CASE HookPrint(h)
      <4>1. presented'[i] \in {presented[i], presented[i] + 1} /\ presented[i] \in Nat
        BY <1>0, <3>2 DEF HookPrint
      <4> QED
        BY <2>2, <4>1
    <3> QED
      BY <2>1, <3>1, <3>2
         DEF HookStep, HookBegin, HookRecover, HookClaim, HookMark, HookDies, HookFails, MarkedHead
  <2>3. hpc[h] # "dead"
    BY <2>1 DEF HookStep, HookBegin, HookRecover, HookClaim, HookMark, HookPrint, HookDies, ActiveHooks
  <2>4. NoHookDied' => NoHookDied
    BY <2>1, <2>3, HookOthers DEF NoHookDied
  <2> QED
    BY <1>1, <2>2, <2>4
<1>3. CASE UNCHANGED hookVars
  BY <1>1, <1>3 DEF hookVars, NoHookDied
<1>4. CASE Outside
  BY <1>3, <1>4 DEF Outside
<1> QED
  BY <1>2, <1>3, <1>4, StepShape

LEMMA LoneStep ==
  ASSUME CoreInv, MarkedInv, QuietInv, GripInv, LoneHookLosesNothing, [BusNext]_busVars
  PROVE  LoneHookLosesNothing'
<1> SUFFICES ASSUME faults' = 0, NoHookDied', ~clashed', NEW i \in Ids,
                    st'[i] = "delivered", env'[i].to = Self, env'[i].kind = "message"
             PROVE  Reached(i)'
  BY DEF LoneHookLosesNothing, AllReached
<1>0. BusInv /\ RowStep
  BY BusStepInv DEF CoreInv
<1>1. /\ faults = 0 /\ NoHookDied
  BY <1>0, FailuresGrow, EvidenceKept
<1>2. ~clashed
  BY <1>0, StepShape DEF Outside, HooksTurn
<1>3. env'[i] = env[i]
  <2>1. st[i] # "absent"
    <3>1. st[i] \in States /\ (st'[i] # st[i] => st'[i] \in Successors[st[i]])
      BY <1>0 DEF BusInv, BusTypeOK, StoreTypeOK, RowStep, LifeCycleStep
    <3> QED
      BY <3>1 DEF Successors
  <2>2. nextId \in Nat /\ (st[i] = "absent" <=> i >= nextId)
    BY <1>0, RowsKept DEF BusInv, BusTypeOK, StoreTypeOK
  <2>3. i < nextId
    BY <2>1, <2>2, StoreAssumption DEF Ids
  <2> QED
    BY <1>0, <2>3, RowsKept
<1>4. CASE st[i] = "delivered"
  <2>1. Reached(i)
    BY <1>1, <1>2, <1>3, <1>4 DEF LoneHookLosesNothing, AllReached
  <2>2. CASE shown[i] > 0 \/ presented[i] > 0
    BY <1>0, <2>2, EvidenceKept DEF Reached
  <2>3. ASSUME NEW h \in Hooks, i \in batch[h] PROVE Reached(i)'
    BY <1>0, <2>3, BatchKept DEF Reached
  <2> QED
    BY <2>1, <2>2, <2>3 DEF Reached
<1>5. CASE st[i] # "delivered"
  <2>1. CASE shown[i] > 0
    BY <1>0, <2>1, EvidenceKept DEF Reached
  <2>2. ASSUME NEW h \in Hooks, hpc[h] = "mark", i = Head(took[h]), MarkedHead(h) PROVE Reached(i)'
    <3>1. took[h] \in Seq(Ids) /\ took[h] # <<>> /\ batch' = batch
      BY <1>0, <2>2 DEF BusInv, BusTypeOK, HookStageInv, MarkedHead
    <3>2. i \in Elems(took[h])
      BY <2>2, <3>1, TailElems
    <3> QED
      BY <3>1, <3>2 DEF MarkedInv, Reached
  <2> QED
    BY <1>3, <1>5, <2>1, <2>2, DeliveredBy
<1> QED
  BY <1>4, <1>5

(* A hook that has the queue to itself, is not killed and meets no error   *)
(* loses nothing: what it marks it prints (hook.go:85-126).                *)
THEOREM LoneHooksLoseNothing == BusSpec => []LoneHookLosesNothing
<1>1. BusInit => GripInv /\ LoneHookLosesNothing
  <2> SUFFICES ASSUME BusInit PROVE GripInv /\ LoneHookLosesNothing
    OBVIOUS
  <2>1. hpc = [h \in Hooks |-> "ready"] /\ st = [i \in Ids |-> "absent"]
    BY DEF BusInit, HookInit
  <2> QED
    BY <2>1 DEF GripInv, ActiveHooks, LoneHookLosesNothing, AllReached
<1>2. CoreInv /\ QuietInv /\ GripInv /\ [BusNext]_busVars => GripInv'
  BY GripStep DEF CoreInv
<1>3. CoreInv /\ MarkedInv /\ QuietInv /\ GripInv /\ LoneHookLosesNothing /\ [BusNext]_busVars
      => LoneHookLosesNothing'
  BY LoneStep
<1> QED
  BY <1>1, <1>2, <1>3, CoreInvariant, HookInvariant, PTL DEF BusSpec

-----------------------------------------------------------------------------
(* Failure notices *)

(* Rows that were dealt with and may cause a notice. *)
Handled == {i \in Ids : i < nextId /\ env[i].kind # "delivery_failure_notice" /\ st[i] \notin Open}

(* The notice the mailman is about to insert. *)
Owed == IF pc = "notice" /\ env[cur].kind # "delivery_failure_notice" THEN 1 ELSE 0

(* Every notice, inserted or owed, stands for a row dealt with or a failed *)
(* write.                                                                  *)
NoticeInv == ~clashed => Cardinality(FailureNotices) + Owed <= Cardinality(Handled) + faults

LEMMA IdsFinite == IsFiniteSet(Ids)
BY FS_Interval, StoreAssumption DEF Ids

LEMMA SubsetCard ==
  ASSUME NEW S \in SUBSET Ids, NEW T \in SUBSET S
  PROVE  Cardinality(T) \in Nat /\ Cardinality(S) \in Nat /\ Cardinality(T) <= Cardinality(S)
<1>1. IsFiniteSet(S)
  BY IdsFinite, FS_Subset
<1> QED
  BY <1>1, FS_Subset, FS_CardinalityType

(* A set that gains an element grows. *)
LEMMA GrowingCard ==
  ASSUME NEW S \in SUBSET Ids, NEW T \in SUBSET S, NEW x \in S, x \notin T
  PROVE  Cardinality(T) + 1 <= Cardinality(S)
<1>1. T \cup {x} \in SUBSET S /\ T \in SUBSET Ids
  OBVIOUS
<1>2. IsFiniteSet(T)
  BY <1>1, IdsFinite, FS_Subset
<1>3. Cardinality(T \cup {x}) = Cardinality(T) + 1
  BY <1>2, FS_AddElement
<1> QED
  BY <1>1, <1>3, SubsetCard

LEMMA HandledGrows ==
  ASSUME BusInv, RowStep
  PROVE  Handled \in SUBSET Handled' /\ Handled' \in SUBSET Ids
<1> SUFFICES ASSUME NEW i \in Handled PROVE i \in Handled'
  BY DEF Handled
<1>1. i \in Ids /\ i < nextId /\ env[i].kind # "delivery_failure_notice" /\ st[i] \notin Open
  BY DEF Handled
<1>2. env'[i] = env[i] /\ i < nextId'
  BY <1>1, RowsKept, StoreAssumption DEF Ids
<1>3. st'[i] \notin Open
  BY <1>1, OpenBefore
<1> QED
  BY <1>1, <1>2, <1>3 DEF Handled

(* Only the mailman inserts failure notices, one for each it owes. *)
LEMMA NoticesGrow ==
  ASSUME BusInv, [BusNext]_busVars
  PROVE  \/ FailureNotices' = FailureNotices
         \/ /\ pc = "notice" /\ pc' = "top" /\ env[cur].kind # "delivery_failure_notice"
            /\ \E x : FailureNotices' = FailureNotices \cup {x}
<1>0. /\ env \in [Ids -> Envelopes] /\ nextId \in Nat
      /\ \A e \in Sendable : e.kind # "delivery_failure_notice" /\ e \in Envelopes
  <2>1. nextId \in Nat
    BY BusStepInv, RowsKept
  <2>2. \A e \in Sendable : e.kind # "delivery_failure_notice"
    BY BusAssumption
  <2> QED
    BY <2>1, <2>2, StoreAssumption DEF BusInv, BusTypeOK, StoreTypeOK
<1>a. ASSUME UNCHANGED <<env, nextId>> PROVE FailureNotices' = FailureNotices
  BY <1>a DEF FailureNotices
<1>b. ASSUME NEW e, NEW s, InsertRow(e, s), e.kind # "delivery_failure_notice"
      PROVE  FailureNotices' = FailureNotices
  <2>1. nextId \in Ids /\ env' = [env EXCEPT ![nextId] = e] /\ nextId' = nextId + 1
    BY <1>b DEF InsertRow
  <2>2. \A i \in Ids : i < nextId' <=> i < nextId \/ i = nextId
    BY <1>0, <2>1, StoreAssumption DEF Ids
  <2>3. \A i \in Ids : env'[i] = IF i = nextId THEN e ELSE env[i]
    BY <1>0, <2>1
  <2>4. ~(nextId < nextId)
    BY <1>0
  <2> QED
    BY <1>b, <2>2, <2>3, <2>4 DEF FailureNotices
<1>c. ASSUME NEW e, NEW s, InsertRow(e, s)
      PROVE  FailureNotices' \in {FailureNotices, FailureNotices \cup {nextId}}
  <2>1. nextId \in Ids /\ env' = [env EXCEPT ![nextId] = e] /\ nextId' = nextId + 1
    BY <1>c DEF InsertRow
  <2>2. \A i \in Ids : i < nextId' <=> i < nextId \/ i = nextId
    BY <1>0, <2>1, StoreAssumption DEF Ids
  <2>3. \A i \in Ids : env'[i] = IF i = nextId THEN e ELSE env[i]
    BY <1>0, <2>1
  <2>4. ~(nextId < nextId)
    BY <1>0
  <2>5. CASE e.kind = "delivery_failure_notice"
    <3>1. FailureNotices' = FailureNotices \cup {nextId}
      BY <2>1, <2>2, <2>3, <2>4, <2>5 DEF FailureNotices
    <3> QED
      BY <3>1
  <2>6. CASE e.kind # "delivery_failure_notice"
    BY <1>b, <1>c, <2>6
  <2> QED
    BY <2>5, <2>6
<1>d. ASSUME NEW to, NEW about, NEW kind PROVE Notice(to, kind, about).kind = kind
  BY DEF Notice
<1>1. CASE Outside
  <2>1. ASSUME NEW e \in Sendable, InsertMessage(e) PROVE FailureNotices' = FailureNotices
    <3>1. RefusedEnvelope(e).kind = e.kind /\ e.kind # "delivery_failure_notice"
      BY <1>0 DEF RefusedEnvelope, Envelopes
    <3> QED
      BY <1>b, <2>1, <3>1 DEF InsertMessage
  <2>2. CASE InsertNotice(Notice(Self, "backlog_announce", skipped))
    BY <1>b, <1>d, <2>2 DEF InsertNotice
  <2> QED
    BY <1>1, <1>a, <2>1, <2>2 DEF Outside, OutsideRows, msgVars, MoveRows, PromoteDeferred
<1>2. CASE MailmanShape
  <2>1. CASE Polls \/ Works \/ Lands \/ Submits \/ Parks \/ Halts
    BY <1>a, <2>1 DEF Polls, Works, Lands, Submits, Parks, Halts, TableKept
  <2>2. CASE Takes
    BY <1>a, <2>2 DEF Takes, ClaimNext, MoveRows
  <2>3. CASE Returns \/ Frees
    BY <1>a, <2>3 DEF Returns, Frees, TryMsg, Try, storeVars, RecoverDelivering, PromoteDeferred, MoveRows
  <2>4. CASE Settles
    BY <1>a, <2>4 DEF Settles, TryMsg, Try, Settle, storeVars, msgVars, MarkFailed, MarkDelivered, MoveRows
  <2>5. CASE Tells
    <3>1. CASE UNCHANGED storeVars
      BY <1>a, <3>1 DEF storeVars
    <3>2. CASE \/ InsertNotice(Notice(Self, "stranded_draft", cur))
               \/ InsertNotice(Notice(env[cur].from, "dedupe_notice", cur))
      BY <1>b, <1>d, <3>2 DEF InsertNotice
    <3>3. CASE /\ pc = "notice" /\ pc' = "top" /\ env[cur].kind # "delivery_failure_notice"
               /\ InsertNotice(Notice(env[cur].from, "delivery_failure_notice", cur))
      <4>1. FailureNotices' \in {FailureNotices, FailureNotices \cup {nextId}}
        BY <1>c, <3>3 DEF InsertNotice
      <4> QED
        BY <3>3, <4>1
    <3> QED
      BY <2>5, <3>1, <3>2, <3>3 DEF Tells, TryNotice, TryMsg, Try
  <2> QED
    BY <1>2, <2>1, <2>2, <2>3, <2>4, <2>5 DEF MailmanShape
<1>3. CASE HooksTurn
  BY <1>3, <1>a DEF HooksTurn, HookingStep, HookStep, HookBegin, HookRecover, HookClaim, HookMark, HookPrint,
                    HookDies, HookFails, storeVars, RecoverDelivering, ClaimNext, MarkDelivered, MoveRows
<1> QED
  BY <1>1, <1>2, <1>3, StepShape

(* A notice comes to be owed when a row is closed or a write fails. *)
LEMMA OwedGrows ==
  ASSUME CoreInv, ~clashed, [BusNext]_busVars, Owed' = 1
  PROVE  \/ Owed = 1 /\ pc' = "notice"
         \/ faults' = faults + 1
         \/ \E x \in Handled' : x \notin Handled
<1>0. BusInv /\ RowStep /\ st \in [Ids -> States]
  BY BusStepInv DEF CoreInv, BusInv, BusTypeOK, StoreTypeOK
<1>1. pc' = "notice" /\ env'[cur'].kind # "delivery_failure_notice"
  BY DEF Owed
<1>2. CASE pc = "notice"
  <2>1. ~MailmanShape
    BY <1>1, <1>2 DEF MailmanShape, Polls, Takes, Works, Lands, Submits, Returns, Settles, Tells, Frees, Parks, Halts,
                      Holding
  <2>2. cur' = cur
    BY <1>0, <2>1, StepShape DEF Outside, HooksTurn, loopVars
  <2>3. cur \in Ids /\ cur < nextId
    BY <1>0, <1>2 DEF BusInv, StageInv, Told
  <2>4. env'[cur] = env[cur]
    BY <1>0, <2>3, RowsKept
  <2> QED
    BY <1>1, <1>2, <2>2, <2>4 DEF Owed
<1>3. CASE pc # "notice"
  <2>1. Settles
    BY <1>0, <1>1, <1>3, StepShape
       DEF Outside, HooksTurn, loopVars, MailmanShape, Polls, Takes, Works, Lands, Submits, Returns, Tells, Frees, Parks,
           Halts, Holding
  <2>2. pc = "mark" /\ cur' = cur /\ cur \in Ids /\ cur < nextId /\ st[cur] = "delivering"
    BY <1>0, <1>1, <2>1 DEF Settles, CoreInv, BusInv, StageInv, HoldInv, Holding
  <2>3. env'[cur] = env[cur] /\ cur < nextId'
    BY <1>0, <2>2, RowsKept, StoreAssumption DEF Ids
  <2>4. CASE Fault
    BY <2>4 DEF Fault
  <2>5. CASE MarkFailed(cur) \/ \E v : MarkDelivered(cur, v)
    <3>1. st'[cur] \in {"failed", "delivered"}
      BY <2>2, <2>5 DEF MarkFailed, MarkDelivered, MoveRows
    <3>2. cur \in Handled' /\ cur \notin Handled
      BY <1>1, <2>2, <2>3, <3>1 DEF Handled, Open
    <3> QED
      BY <3>2
  <2> QED
    BY <2>1, <2>2, <2>4, <2>5 DEF Settles, TryMsg, Try, Settle
<1> QED
  BY <1>2, <1>3

LEMMA NoticeStep ==
  ASSUME CoreInv, NoticeInv, [BusNext]_busVars
  PROVE  NoticeInv'
<1> SUFFICES ASSUME ~clashed' PROVE Cardinality(FailureNotices') + Owed' <= Cardinality(Handled') + faults'
  BY DEF NoticeInv
<1>0. BusInv /\ RowStep
  BY BusStepInv DEF CoreInv
<1>1. ~clashed
  BY <1>0, StepShape DEF Outside, HooksTurn
<1>2. /\ Handled \in SUBSET Handled' /\ Handled' \in SUBSET Ids
      /\ FailureNotices \in SUBSET Ids /\ FailureNotices' \in SUBSET Ids
  BY <1>0, HandledGrows DEF FailureNotices
<1>3. /\ Cardinality(Handled) \in Nat /\ Cardinality(Handled') \in Nat
      /\ Cardinality(Handled) <= Cardinality(Handled')
      /\ Cardinality(FailureNotices) \in Nat /\ Cardinality(FailureNotices') \in Nat
  BY <1>2, SubsetCard
<1>4. /\ faults \in Nat /\ faults' \in Nat /\ faults <= faults'
  BY <1>0, FailuresGrow
<1>5. Owed \in {0, 1} /\ Owed' \in {0, 1}
  BY DEF Owed
<1>6. Cardinality(FailureNotices) + Owed <= Cardinality(Handled) + faults
  BY <1>1 DEF NoticeInv
<1>7. \/ Cardinality(FailureNotices') = Cardinality(FailureNotices)
      \/ Cardinality(FailureNotices') <= Cardinality(FailureNotices) + 1 /\ Owed = 1 /\ Owed' = 0
  <2>1. CASE FailureNotices' = FailureNotices
    BY <2>1
  <2>2. ASSUME NEW x, FailureNotices' = FailureNotices \cup {x},
               pc = "notice", pc' = "top", env[cur].kind # "delivery_failure_notice"
        PROVE  Cardinality(FailureNotices') <= Cardinality(FailureNotices) + 1 /\ Owed = 1 /\ Owed' = 0
    <3>1. IsFiniteSet(FailureNotices)
      BY <1>2, IdsFinite, FS_Subset
    <3>2. Cardinality(FailureNotices \cup {x})
            = IF x \in FailureNotices THEN Cardinality(FailureNotices) ELSE Cardinality(FailureNotices) + 1
      BY <3>1, FS_AddElement
    <3>3. Owed = 1 /\ Owed' = 0
      BY <2>2 DEF Owed
    <3> QED
      BY <1>3, <2>2, <3>2, <3>3
  <2> QED
    BY <1>0, <2>1, <2>2, NoticesGrow
<1>8. CASE Owed' = 0
  BY <1>3, <1>4, <1>5, <1>6, <1>7, <1>8
<1>9. CASE Owed' = 1
  <2>1. Cardinality(FailureNotices') = Cardinality(FailureNotices)
    BY <1>7, <1>9
  <2>2. CASE Owed = 1
    BY <1>3, <1>4, <1>6, <1>9, <2>1, <2>2
  <2>3. CASE Owed = 0 /\ faults' = faults + 1
    BY <1>3, <1>4, <1>6, <1>9, <2>1, <2>3
  <2>4. ASSUME Owed = 0, NEW x \in Handled', x \notin Handled
        PROVE  Cardinality(FailureNotices') + Owed' <= Cardinality(Handled') + faults'
    <3>1. Cardinality(Handled) + 1 <= Cardinality(Handled')
      BY <1>2, <2>4, GrowingCard
    <3> QED
      BY <1>3, <1>4, <1>6, <1>9, <2>1, <2>4, <3>1
  <2> QED
    BY <1>1, <1>5, <1>9, <2>2, <2>3, <2>4, OwedGrows
<1> QED
  BY <1>5, <1>8, <1>9

(* A failure notice that fails breeds no further notice: while the mailman *)
(* has the queue to itself, no row causes more than one, save for one      *)
(* handled again after a failed write (maybeInsertFailureNotice,           *)
(* serve.go:2789).                                                         *)
THEOREM NoticesDoNotBreed == BusSpec => []NoticesBounded
<1>1. BusInit => NoticeInv
  <2> SUFFICES ASSUME BusInit PROVE NoticeInv
    OBVIOUS
  <2>1. nextId = 1 /\ pc = "off" /\ faults = 0
    BY DEF BusInit, MailmanInit
  <2>2. FailureNotices = {} /\ Handled = {} /\ Owed = 0
    BY <2>1, StoreAssumption DEF FailureNotices, Handled, Owed, Ids
  <2> QED
    BY <2>1, <2>2, FS_EmptySet DEF NoticeInv
<1>2. CoreInv /\ NoticeInv /\ [BusNext]_busVars => NoticeInv'
  BY NoticeStep
<1>3. CoreInv /\ NoticeInv => NoticesBounded
  <2> SUFFICES ASSUME CoreInv, NoticeInv, ~clashed
               PROVE  Cardinality(FailureNotices) <= Cardinality({i \in Ids : i < nextId} \ FailureNotices) + faults
    BY DEF NoticesBounded
  <2> DEFINE R == {i \in Ids : i < nextId} \ FailureNotices
  <2>1. Handled \in SUBSET R /\ R \in SUBSET Ids /\ FailureNotices \in SUBSET Ids
    BY DEF Handled, FailureNotices
  <2> HIDE DEF R
  <2>2. /\ Cardinality(Handled) \in Nat /\ Cardinality(R) \in Nat /\ Cardinality(Handled) <= Cardinality(R)
        /\ Cardinality(FailureNotices) \in Nat
    BY <2>1, SubsetCard
  <2>3. faults \in Nat /\ Owed \in {0, 1}
    BY MailmanAssumption DEF CoreInv, BusInv, BusTypeOK, Owed
  <2>4. Cardinality(FailureNotices) + Owed <= Cardinality(Handled) + faults
    BY DEF NoticeInv
  <2>5. Cardinality(FailureNotices) <= Cardinality(R) + faults
    BY <2>2, <2>3, <2>4
  <2> QED
    BY <2>5 DEF R
<1> QED
  BY <1>1, <1>2, <1>3, CoreInvariant, PTL DEF BusSpec

-----------------------------------------------------------------------------
(* The cap *)

InHand == IF pc \in Holding \cup {"off"} THEN 1 ELSE 0

(* At most the row in hand, or left behind by a stop, is in flight, and    *)
(* one more per failed write.                                              *)
FewInFlight == Cardinality(Delivering(Self)) <= InHand + faults

(* Rows in flight change by a claim, a mark and a recovery only. *)
LEMMA FlightSame ==
  ASSUME BusInv, RowStep, FlightKept
  PROVE  Delivering(Self)' = Delivering(Self)
<1>1. \A i \in Ids : st[i] = "delivering" => env'[i] = env[i]
  <2>1. nextId \in Nat /\ \A i \in Ids : st[i] = "absent" <=> i >= nextId
    BY RowsKept DEF BusInv, BusTypeOK, StoreTypeOK
  <2>2. \A i \in Ids : st[i] = "delivering" => i < nextId
    BY <2>1, StoreAssumption DEF Ids
  <2> QED
    BY <2>2, RowsKept
<1> QED
  BY <1>1 DEF FlightKept, Delivering

LEMMA FewStep ==
  ASSUME CoreInv, ~clashed, ~HooksTurn, FewInFlight, [BusNext]_busVars
  PROVE  FewInFlight'
<1>0. BusInv /\ RowStep /\ st \in [Ids -> States]
  BY BusStepInv DEF CoreInv, BusInv, BusTypeOK, StoreTypeOK
<1>1. /\ faults \in Nat /\ faults' \in Nat /\ faults <= faults'
  BY <1>0, FailuresGrow
<1>2. /\ Delivering(Self) \in SUBSET Ids /\ Delivering(Self)' \in SUBSET Ids
      /\ Cardinality(Delivering(Self)) \in Nat /\ Cardinality(Delivering(Self)') \in Nat
      /\ InHand \in {0, 1} /\ InHand' \in {0, 1}
  <2>1. Delivering(Self) \in SUBSET Ids /\ Delivering(Self)' \in SUBSET Ids
    BY DEF Delivering
  <2>2. InHand \in {0, 1} /\ InHand' \in {0, 1}
    BY DEF InHand
  <2> QED
    BY <2>1, <2>2, SubsetCard
<1>3. Cardinality(Delivering(Self)) <= InHand + faults
  BY DEF FewInFlight
<1>4. ASSUME FlightKept, InHand' >= InHand \/ faults' = faults + 1
      PROVE  FewInFlight'
  <2>1. Delivering(Self)' = Delivering(Self)
    BY <1>0, <1>4, FlightSame
  <2>2. Cardinality(Delivering(Self)) <= InHand' + faults'
    BY <1>1, <1>2, <1>3, <1>4
  <2> QED
    BY <2>1, <2>2 DEF FewInFlight
<1>a. ASSUME TableKept \/ UNCHANGED storeVars PROVE FlightKept
  BY <1>a DEF TableKept, storeVars, FlightKept
<1>5. CASE Outside
  <2>1. InHand' = InHand
    BY <1>5 DEF Outside, InHand
  <2> QED
    BY <1>0, <1>2, <1>4, <1>5, <2>1, OutsideFlight
<1>6. CASE MailmanShape
  <2>1. CASE Polls \/ Works \/ Lands \/ Submits \/ Parks \/ Halts
    <3>1. FlightKept
      BY <1>a, <2>1 DEF Polls, Works, Lands, Submits, Parks, Halts
    <3>2. InHand' >= InHand
      BY <2>1 DEF Polls, Works, Lands, Submits, Parks, Halts, InHand, Holding
    <3> QED
      BY <1>4, <3>1, <3>2
  <2>2. CASE Tells
    <3>1. InHand' >= InHand
      BY <2>2 DEF Tells, InHand, Holding
    <3> QED
      BY <1>0, <1>4, <2>2, <3>1, TellsFlight
  <2>3. CASE Frees
    <3>1. InHand' >= InHand
      BY <2>3 DEF Frees, InHand, Holding
    <3> QED
      BY <1>0, <1>4, <2>3, <3>1, FreesFlight
  <2>4. CASE Takes
    <3>1. PICK k \in Ids : ClaimNext(Self, k) /\ pc' = IF env[k].kind = "ping" THEN "ping" ELSE "cap"
      BY <2>4 DEF Takes
    <3>2. /\ st' = [j \in Ids |-> IF j \in {k} THEN "delivering" ELSE st[j]] /\ env' = env
          /\ env[k].to = Self
      BY <3>1 DEF ClaimNext, MoveRows, Claimable, Queued
    <3>3. Delivering(Self)' = Delivering(Self) \cup {k}
      BY <1>0, <3>2 DEF Delivering
    <3>4. Cardinality(Delivering(Self) \cup {k}) <= Cardinality(Delivering(Self)) + 1
      <4>1. IsFiniteSet(Delivering(Self))
        BY <1>2, IdsFinite, FS_Subset
      <4>2. Cardinality(Delivering(Self) \cup {k})
              = IF k \in Delivering(Self) THEN Cardinality(Delivering(Self)) ELSE Cardinality(Delivering(Self)) + 1
        BY <4>1, FS_AddElement
      <4> QED
        BY <1>2, <4>2
    <3>5. InHand = 0 /\ InHand' = 1
      BY <2>4, <3>1 DEF Takes, InHand, Holding
    <3>6. Cardinality(Delivering(Self)') <= InHand' + faults'
      BY <1>1, <1>2, <1>3, <3>3, <3>4, <3>5
    <3> QED
      BY <3>6 DEF FewInFlight
  <2>5. CASE Returns
    <3>1. CASE RecoverDelivering(Self)
      <4>1. Delivering(Self)' = {}
        BY <1>0, <3>1 DEF RecoverDelivering, MoveRows, Delivering
      <4> QED
        BY <1>1, <1>2, <4>1, FS_EmptySet DEF FewInFlight
    <3>2. CASE Fault /\ UNCHANGED storeVars
      BY <1>4, <1>a, <3>2 DEF Fault
    <3> QED
      BY <2>5, <3>1, <3>2 DEF Returns, TryMsg, Try
  <2>6. CASE Settles
    <3>1. /\ cur \in Ids /\ st[cur] = "delivering" /\ env[cur].to = Self /\ InHand = 1 /\ InHand' = 0
      BY <2>6 DEF Settles, CoreInv, HoldInv, BusInv, StageInv, InHand, Holding
    <3>2. CASE Fault /\ UNCHANGED storeVars
      BY <1>4, <1>a, <3>2 DEF Fault
    <3>3. CASE MarkFailed(cur) \/ \E v : MarkDelivered(cur, v)
      <4>1. /\ st'[cur] # "delivering" /\ \A i \in Ids : st'[i] = "delivering" => st[i] = "delivering"
            /\ env' = env
        BY <1>0, <3>1, <3>3 DEF MarkFailed, MarkDelivered, MoveRows
      <4>2. /\ Delivering(Self)' \in SUBSET Delivering(Self)
            /\ cur \in Delivering(Self) /\ cur \notin Delivering(Self)'
        BY <3>1, <4>1 DEF Delivering
      <4>3. Cardinality(Delivering(Self)') + 1 <= Cardinality(Delivering(Self))
        BY <1>2, <4>2, GrowingCard
      <4>4. Cardinality(Delivering(Self)') <= InHand' + faults'
        BY <1>1, <1>2, <1>3, <3>1, <4>3
      <4> QED
        BY <4>4 DEF FewInFlight
    <3> QED
      BY <2>6, <3>1, <3>2, <3>3 DEF Settles, TryMsg, Try, Settle
  <2> QED
    BY <1>6, <2>1, <2>2, <2>3, <2>4, <2>5, <2>6 DEF MailmanShape
<1> QED
  BY <1>0, <1>5, <1>6, StepShape

(* Whatever but a send is done, no row joins those the cap counts. *)
LEMMA CappedKept ==
  ASSUME BusInv, [BusNext]_busVars, ~HooksTurn, ~ \E e \in Sendable : InsertMessage(e)
  PROVE  CappedRows' \in SUBSET CappedRows
<1> SUFFICES ASSUME NEW i \in CappedRows' PROVE i \in CappedRows
  OBVIOUS
<1>0. /\ RowStep /\ st \in [Ids -> States] /\ env \in [Ids -> Envelopes] /\ nextId \in Nat
      /\ \A j \in Ids : st[j] = "absent" <=> j >= nextId
      /\ \A j \in Ids : j < nextId => env'[j] = env[j]
  BY BusStepInv, RowsKept DEF BusInv, BusTypeOK, StoreTypeOK
<1>1. /\ i \in Ids /\ st'[i] \in {"queued", "delivering"} /\ env'[i].to = Self
      /\ env'[i].kind \in {"message", "control", "ping"} /\ env'[i].after = "none"
  BY DEF CappedRows, Queued, Delivering
<1>2. CASE i < nextId
  <2>1. env'[i] = env[i] /\ st[i] \in {"queued", "delivering"}
    BY <1>0, <1>1, <1>2, LiveBefore
  <2> QED
    BY <1>1, <2>1 DEF CappedRows, Queued, Delivering
<1>3. CASE ~(i < nextId)
  <2>1. st[i] = "absent" /\ st'[i] # "absent"
    BY <1>0, <1>1, <1>3, StoreAssumption DEF Ids
  <2>a. ASSUME NEW to, NEW kind \in {"backlog_announce", "stranded_draft", "dedupe_notice", "delivery_failure_notice"},
               NEW about, InsertNotice(Notice(to, kind, about))
        PROVE  FALSE
    <3>1. /\ nextId \in Ids /\ env' = [env EXCEPT ![nextId] = Notice(to, kind, about)]
          /\ st' = [st EXCEPT ![nextId] = "queued"]
      BY <2>a DEF InsertNotice, InsertRow
    <3>2. i = nextId
      BY <1>0, <1>1, <2>1, <3>1
    <3>3. env'[i].kind = kind
      BY <1>0, <3>1, <3>2 DEF Notice
    <3> QED
      BY <1>1, <3>3
  <2>b. ASSUME UNCHANGED st PROVE FALSE
    BY <2>1, <2>b
  <2>c. ASSUME NEW S \in SUBSET Ids, NEW s, \A j \in S : st[j] # "absent", MoveRows(S, s) PROVE FALSE
    BY <1>0, <1>1, <2>1, <2>c DEF MoveRows
  <2>d. ASSUME NEW t, RecoverDelivering(Self) \/ PromoteDeferred(Self, t) \/ MarkFailed(cur)
                      \/ (\E v : MarkDelivered(cur, v)) \/ \E k \in Ids : ClaimNext(Self, k)
        PROVE  FALSE
    BY <1>0, <1>1, <2>1, <2>d DEF RecoverDelivering, PromoteDeferred, MarkFailed, MarkDelivered, ClaimNext, MoveRows,
                           Delivering, DeferredRows, Claimable, Queued
  <2>2. CASE Outside
    <3>1. ASSUME NEW S \in SUBSET Queued(Self), MoveRows(S, "acknowledged") PROVE FALSE
      BY <2>c, <3>1 DEF Queued
    <3> QED
      BY <2>2, <2>a, <2>b, <2>d, <3>1 DEF Outside, OutsideRows, msgVars
  <2>3. CASE MailmanShape
    <3>1. CASE Polls \/ Works \/ Lands \/ Submits \/ Parks \/ Halts
      BY <2>b, <3>1 DEF Polls, Works, Lands, Submits, Parks, Halts, TableKept
    <3>2. CASE Takes \/ Returns \/ Frees
      BY <2>b, <2>d, <3>2 DEF Takes, Returns, Frees, TryMsg, Try, storeVars
    <3>3. CASE Settles
      BY <2>b, <2>d, <3>3 DEF Settles, TryMsg, Try, Settle, storeVars, msgVars
    <3>4. CASE Tells
      BY <2>a, <2>b, <3>4 DEF Tells, TryNotice, TryMsg, Try, storeVars
    <3> QED
      BY <2>3, <3>1, <3>2, <3>3, <3>4 DEF MailmanShape
  <2> QED
    BY <2>2, <2>3, StepShape
<1> QED
  BY <1>2, <1>3

LEMMA CapStep ==
  ASSUME CoreInv, ~clashed, ~HooksTurn, FewInFlight, QueueBounded, [BusNext]_busVars
  PROVE  QueueBounded'
<1> SUFFICES ASSUME RecipientCap > 0
             PROVE  Cardinality(CappedRows') <= EffectiveCap(Self)' + 1 + faults'
  BY DEF QueueBounded
<1>0. BusInv /\ BusInv' /\ RowStep
  BY BusStepInv DEF CoreInv
<1>1. /\ faults \in Nat /\ faults' \in Nat /\ faults <= faults'
  BY <1>0, FailuresGrow
<1>2. EffectiveCap(Self)' = EffectiveCap(Self) /\ EffectiveCap(Self) \in Nat
  <2>1. agent[Self].registered /\ agent'[Self].registered
    BY <1>0 DEF BusInv, RegisterInv
  <2>2. CapFloor[Self] \in Nat /\ RecipientCap \in Nat
    BY StoreAssumption, MailmanAssumption
  <2> QED
    BY <2>1, <2>2 DEF EffectiveCap
<1>3. /\ CappedRows \in SUBSET Ids /\ CappedRows' \in SUBSET Ids /\ Queued(Self) \in SUBSET Ids
      /\ Delivering(Self) \in SUBSET Ids
  BY DEF CappedRows, Queued, Delivering
<1>4. /\ Cardinality(CappedRows) \in Nat /\ Cardinality(CappedRows') \in Nat
      /\ Cardinality(Queued(Self)) \in Nat /\ Cardinality(Delivering(Self)) \in Nat
  BY <1>3, SubsetCard
<1>5. Cardinality(CappedRows) <= EffectiveCap(Self) + 1 + faults
  BY DEF QueueBounded
<1>6. ASSUME CappedRows' \in SUBSET CappedRows
      PROVE  Cardinality(CappedRows') <= EffectiveCap(Self)' + 1 + faults'
  <2>1. Cardinality(CappedRows') <= Cardinality(CappedRows)
    BY <1>3, <1>6, SubsetCard
  <2> QED
    BY <1>1, <1>2, <1>4, <1>5, <2>1
<1>7. ASSUME NEW e \in Sendable, InsertMessage(e)
      PROVE  Cardinality(CappedRows') <= EffectiveCap(Self)' + 1 + faults'
  <2>0. /\ st \in [Ids -> States] /\ env \in [Ids -> Envelopes] /\ nextId \in Nat /\ e \in Envelopes
        /\ \A j \in Ids : st[j] = "absent" <=> j >= nextId
    BY <1>0, RowsKept, StoreAssumption DEF BusInv, BusTypeOK, StoreTypeOK
  <2>1. PICK f, s : /\ InsertRow(f, s)
                    /\ s = "queued" => f = e /\ WithinCaps(e, 1)
                    /\ s \in {"queued", "deferred", "refused"}
    BY <1>7 DEF InsertMessage
  <2>2. /\ nextId \in Ids /\ env' = [env EXCEPT ![nextId] = f] /\ st' = [st EXCEPT ![nextId] = s]
    BY <2>1 DEF InsertRow
  <2>3. \A i \in Ids : i # nextId => env'[i] = env[i] /\ st'[i] = st[i]
    BY <2>0, <2>2
  <2>4. CappedRows' \in SUBSET (CappedRows \cup {nextId})
    BY <2>3 DEF CappedRows, Queued, Delivering
  <2>5. CASE nextId \notin CappedRows'
    BY <1>6, <2>4, <2>5
  <2>6. CASE nextId \in CappedRows'
    <3>1. s = "queued" /\ e.to = Self
      BY <2>0, <2>1, <2>2, <2>6 DEF CappedRows, Queued, Delivering
    <3>2. Cardinality(Queued(Self)) + 1 <= EffectiveCap(Self)
      BY <2>1, <3>1 DEF WithinCaps
    <3>3. IsFiniteSet(Queued(Self)) /\ IsFiniteSet(Delivering(Self))
      BY <1>3, IdsFinite, FS_Subset
    <3> DEFINE U == Queued(Self) \cup Delivering(Self)
    <3>4. /\ IsFiniteSet(U) /\ IsFiniteSet(Queued(Self) \cap Delivering(Self))
          /\ Cardinality(U) = Cardinality(Queued(Self)) + Cardinality(Delivering(Self))
                              - Cardinality(Queued(Self) \cap Delivering(Self))
      BY <3>3, FS_Union, FS_Intersection
    <3>5. Cardinality(Queued(Self) \cap Delivering(Self)) \in Nat /\ Cardinality(U) \in Nat
      BY <3>4, FS_CardinalityType
    <3>6. /\ CappedRows' \in SUBSET (U \cup {nextId}) /\ U \cup {nextId} \in SUBSET Ids
      BY <1>3, <2>2, <2>4 DEF CappedRows
    <3> HIDE DEF U
    <3>7. Cardinality(U \cup {nextId}) = IF nextId \in U THEN Cardinality(U) ELSE Cardinality(U) + 1
      BY <3>4, FS_AddElement
    <3>8. Cardinality(CappedRows') <= Cardinality(U \cup {nextId})
      BY <3>6, SubsetCard
    <3>9. Cardinality(Delivering(Self)) <= 1 + faults
      <4>1. InHand \in {0, 1} /\ Cardinality(Delivering(Self)) <= InHand + faults
        BY DEF InHand, FewInFlight
      <4> QED
        BY <1>1, <1>4, <4>1
    <3>10. Cardinality(CappedRows') <= Cardinality(Queued(Self)) + 1 + Cardinality(Delivering(Self))
      BY <1>4, <3>4, <3>5, <3>7, <3>8
    <3>11. Cardinality(CappedRows') <= EffectiveCap(Self) + (1 + faults)
      <4>1. \A n, q, d, c, k \in Nat : n <= q + 1 + d /\ q + 1 <= c /\ d <= 1 + k => n <= c + (1 + k)
        OBVIOUS
      <4> QED
        BY <1>1, <1>2, <1>4, <3>2, <3>9, <3>10, <4>1
    <3> QED
      BY <1>1, <1>2, <1>4, <3>11
  <2> QED
    BY <2>5, <2>6
<1> QED
  BY <1>0, <1>6, <1>7, CappedKept

(* What the cap admits stays within it, for an agent without hooks: a row  *)
(* in flight that comes back to the queue exceeds it by the one in hand,   *)
(* and by one per failed write (checkCapsInTx counts `queued' only,        *)
(* messages.go:369).                                                       *)
THEOREM CapHolds ==
  ASSUME Hooks = {}
  PROVE  BusSpec => []QueueBounded
<1>1. BusInit => FewInFlight /\ QueueBounded
  <2> SUFFICES ASSUME BusInit PROVE FewInFlight /\ QueueBounded
    OBVIOUS
  <2>1. st = [i \in Ids |-> "absent"] /\ faults = 0
    BY DEF BusInit, MailmanInit
  <2>2. Delivering(Self) = {} /\ CappedRows = {}
    BY <2>1 DEF Delivering, Queued, CappedRows
  <2>3. InHand \in {0, 1} /\ EffectiveCap(Self) \in Nat
    <3>1. CapFloor[Self] \in Nat /\ RecipientCap \in Nat
      BY StoreAssumption, MailmanAssumption
    <3> QED
      BY <3>1 DEF InHand, EffectiveCap
  <2> QED
    BY <2>1, <2>2, <2>3, FS_EmptySet DEF FewInFlight, QueueBounded
<1>2. CoreInv /\ ~clashed /\ FewInFlight /\ QueueBounded /\ [BusNext]_busVars => FewInFlight' /\ QueueBounded'
  <2>1. ~HooksTurn
    BY DEF HooksTurn, HookingStep
  <2> QED
    BY <2>1, FewStep, CapStep
<1> QED
  BY <1>1, <1>2, CoreInvariant, AloneInvariant, PTL DEF BusSpec
=============================================================================
