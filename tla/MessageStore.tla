---------------------------- MODULE MessageStore ----------------------------
(***************************************************************************)
(* The SQLite store (internal/store): the messages table and the columns   *)
(* of the agents table that delivery reads.                                *)
(*                                                                         *)
(* Every exported method is one SQL statement or one BEGIN IMMEDIATE       *)
(* transaction, so it is one atomic action here.  An action of this module *)
(* constrains the table it writes and leaves the other one alone; modules  *)
(* that compose the store conjoin it with their own state.  Spec lets any  *)
(* client call any operation in any order: what it satisfies holds         *)
(* whatever the mailmen, hooks and commands do.                            *)
(***************************************************************************)
EXTENDS Scheduler

CONSTANTS
  Agents,        \* agent names
  Panes,         \* tmux pane ids
  NoPane,        \* pane_id IS NULL
  Bodies,        \* message bodies, as far as dedupe tells them apart
  MaxId,         \* bound: how many rows a behaviour inserts
  Strategy,      \* the mailman's scheduling strategy
  RecipientCap,  \* InsertParams.MaxRecipientQueue, 0 = no check
  SenderCap,     \* InsertParams.MaxSenderBacklog, 0 = no check
  CapFloor,      \* recipientQueueCapFloor of each agent's provider
  Sendable       \* the envelopes clients insert

Ids == 1..MaxId

Kinds == {"message", "control", "ping", "delivery_failure_notice",
          "stranded_draft", "dedupe_notice", "backlog_announce",
          "stuck_chamber_notice", "dead_mailman_notice"}

(* deliver_after: NULL, or the trigger a deferred row waits for. *)
Triggers == {"none", "resume", "register"}

Modes == {"paste-and-enter", "mailbox-only", "hook-context"}

(* What a row carries from its insert on. *)
Envelopes == [from : Agents, to : Agents, kind : Kinds, priority : Priorities,
              after : Triggers, force : BOOLEAN, body : Bodies]

ASSUME StoreAssumption ==
  /\ NoPane \notin Panes
  /\ MaxId \in Nat
  /\ Strategy \in Strategies
  /\ RecipientCap \in Nat
  /\ SenderCap \in Nat
  /\ CapFloor \in [Agents -> Nat]
  /\ Sendable \subseteq Envelopes /\ Sendable # {}

(* The seven states of a row, and the two of an id that has none: never    *)
(* inserted, or deleted.  Ids are AUTOINCREMENT: a deleted id stays used.   *)
RowStates == {"queued", "delivering", "delivered", "failed", "deferred",
              "refused", "acknowledged"}

States == RowStates \cup {"absent", "purged"}

Verdicts == {"null", "verified", "unverified"}

AgentRows == [registered : BOOLEAN, pane : Panes \cup {NoPane}, paused : BOOLEAN,
              stuck : BOOLEAN, epoch : Nat, mode : Modes]

VARIABLES
  env,       \* id -> envelope
  st,        \* id -> state column
  verified,  \* id -> verified column
  nextId,    \* the next AUTOINCREMENT id
  agent      \* name -> row of the agents table

msgVars == <<env, st, verified, nextId>>

storeVars == <<env, st, verified, nextId, agent>>

(* The defaults of the agents table's columns. *)
NewAgent == [registered |-> FALSE, pane |-> NoPane, paused |-> FALSE,
             stuck |-> FALSE, epoch |-> 0, mode |-> "paste-and-enter"]

-----------------------------------------------------------------------------
(* Queries *)

Queued(a) == {i \in Ids : st[i] = "queued" /\ env[i].to = a}

QueuedFrom(f, a) == {i \in Queued(a) : env[i].from = f}

Delivering(a) == {i \in Ids : st[i] = "delivering" /\ env[i].to = a}

(* The queued rows ClaimNext may see: a promoted deferred row, or one above *)
(* the agent's backlog floor.                                               *)
Claimable(a) == {i \in Queued(a) : env[i].after # "none" \/ i > agent[a].epoch}

Candidate(i) == [id |-> i, from |-> env[i].from, priority |-> env[i].priority]

Candidates(a) == {Candidate(i) : i \in Claimable(a)}

(* QueuedBacklogFloor: how many queued rows lie outside the newest keep,   *)
(* and the highest id among them.                                          *)
BacklogSkipped(a, keep) ==
  LET depth == Cardinality(Queued(a)) IN IF keep >= depth THEN 0 ELSE depth - keep

BacklogFloor(a, keep) ==
  CHOOSE i \in Queued(a) : Cardinality({j \in Queued(a) : j > i}) = keep

(* FindDedupeMatch: the newest delivered but unverified row with the same  *)
(* sender, recipient and body, 0 if there is none.                         *)
DedupeMatches(e) ==
  {i \in Ids : /\ st[i] = "delivered" /\ verified[i] = "unverified"
               /\ env[i].from = e.from /\ env[i].to = e.to /\ env[i].body = e.body}

FindDedupeMatch(e) ==
  IF DedupeMatches(e) = {} THEN 0
  ELSE CHOOSE i \in DedupeMatches(e) : \A j \in DedupeMatches(e) : j <= i

-----------------------------------------------------------------------------
(* Inserting *)

EffectiveCap(a) ==
  IF agent[a].registered /\ CapFloor[a] > RecipientCap THEN CapFloor[a] ELSE RecipientCap

(* Mutation: the cap is compared with the count before the insert. *)
MutWithinCaps(e, added) ==
  /\ RecipientCap > 0 => Cardinality(Queued(e.to)) <= EffectiveCap(e.to)
  /\ SenderCap > 0 => Cardinality(QueuedFrom(e.from, e.to)) <= SenderCap

WithinCaps(e, added) ==
  /\ RecipientCap > 0 => Cardinality(Queued(e.to)) + added <= EffectiveCap(e.to)
  /\ SenderCap > 0 => Cardinality(QueuedFrom(e.from, e.to)) + added <= SenderCap

InsertRow(e, s) ==
  /\ nextId \in Ids
  /\ env' = [env EXCEPT ![nextId] = e]
  /\ st' = [st EXCEPT ![nextId] = s]
  /\ nextId' = nextId + 1
  /\ UNCHANGED verified

(* The audit row of a refused insert: no trigger, default priority. *)
RefusedEnvelope(e) == [e EXCEPT !.after = "none", !.priority = PriorityNormal, !.force = FALSE]

(* A deferred insert is not in the live queue and skips the caps; a refused *)
(* one leaves an audit row, written after the transaction rolled back.      *)
InsertMessage(e) ==
  \/ /\ e.after # "none"
     /\ InsertRow(e, "deferred")
  \/ /\ e.after = "none"
     /\ WithinCaps(e, 1)
     /\ InsertRow(e, "queued")
  \/ /\ e.after = "none"
     /\ ~WithinCaps(e, 1)
     /\ InsertRow(RefusedEnvelope(e), "refused")

(* System notices bypass the caps. *)
InsertNotice(e) == InsertRow(e, "queued")

(* Two rows of one channel, both or neither. *)
InsertMessagePair(e1, e2) ==
  /\ e1.from = e2.from /\ e1.to = e2.to
  /\ {nextId, nextId + 1} \subseteq Ids
  /\ LET ok == WithinCaps(e1, 2)
         row(e) == IF ok THEN e ELSE RefusedEnvelope(e)
         state(e) == IF ~ok THEN "refused" ELSE IF e.after = "none" THEN "queued" ELSE "deferred"
     IN /\ env' = [env EXCEPT ![nextId] = row(e1), ![nextId + 1] = row(e2)]
        /\ st' = [st EXCEPT ![nextId] = state(e1), ![nextId + 1] = state(e2)]
  /\ nextId' = nextId + 2
  /\ UNCHANGED verified

-----------------------------------------------------------------------------
(* Moving rows *)

(* Every row of S moves to state s. *)
MoveRows(S, s) ==
  /\ st' = [i \in Ids |-> IF i \in S THEN s ELSE st[i]]
  /\ UNCHANGED <<env, nextId>>

(* Mutation: priority alone decides. *)
MutClaimNext(a, i) ==
  /\ i \in Claimable(a)
  /\ \A j \in Claimable(a) : env[j].priority <= env[i].priority
  /\ MoveRows({i}, "delivering")
  /\ UNCHANGED verified

ClaimNext(a, i) ==
  /\ i \in {j \in Claimable(a) : IsScheduled(Candidates(a), Strategy, Candidate(j))}
  /\ MoveRows({i}, "delivering")
  /\ UNCHANGED verified

(* Mutation: the UPDATE's state guard is dropped. *)
MutMarkDelivered(i, verdict) ==
  /\ st[i] \in RowStates
  /\ MoveRows({i}, "delivered")
  /\ verified' = [verified EXCEPT ![i] = verdict]

MarkDelivered(i, verdict) ==
  /\ st[i] = "delivering"
  /\ MoveRows({i}, "delivered")
  /\ verified' = [verified EXCEPT ![i] = verdict]

MarkFailed(i) ==
  /\ st[i] = "delivering"
  /\ MoveRows({i}, "failed")
  /\ UNCHANGED verified

(* Mutation: what was delivered without a verdict is recovered as well. *)
MutRecoverDelivering(a) ==
  /\ MoveRows(Delivering(a) \cup {i \in Ids : st[i] = "delivered" /\ verified[i] = "unverified"
                                            /\ env[i].to = a}, "queued")
  /\ UNCHANGED verified

RecoverDelivering(a) ==
  /\ MoveRows(Delivering(a), "queued")
  /\ UNCHANGED verified

(* Mutation: the statement forgets the trigger. *)
MutDeferredRows(a, trigger) ==
  {i \in Ids : st[i] = "deferred" /\ env[i].to = a}

DeferredRows(a, trigger) ==
  {i \in Ids : st[i] = "deferred" /\ env[i].to = a /\ env[i].after = trigger}

PromoteDeferred(a, trigger) ==
  /\ MoveRows(DeferredRows(a, trigger), "queued")
  /\ UNCHANGED verified

MarkAcknowledged(a, i) ==
  /\ i \in Queued(a)
  /\ MoveRows({i}, "acknowledged")
  /\ UNCHANGED verified

MarkAcknowledgedBatch(a, epoch) ==
  /\ MoveRows({i \in Queued(a) : i <= epoch}, "acknowledged")
  /\ UNCHANGED verified

AckStaleQueued(a) ==
  /\ MoveRows({i \in Queued(a) : env[i].after = "none"}, "acknowledged")
  /\ UNCHANGED verified

(* created_at grows with the id, so a cutoff is an id. *)
ReapUndeliverable(scope, cutoff) ==
  /\ MoveRows({i \in Ids : /\ st[i] = "queued" /\ env[i].after = "none" /\ i < cutoff
                           /\ env[i].to \in scope
                           /\ ~(agent[env[i].to].registered /\ agent[env[i].to].pane # NoPane)},
              "failed")
  /\ UNCHANGED verified

MarkVerifiedByDedupe(i) ==
  /\ st[i] = "delivered" /\ verified[i] = "unverified"
  /\ verified' = [verified EXCEPT ![i] = "verified"]
  /\ UNCHANGED <<env, st, nextId>>

(* A delete that would leave a reply without its parent fails on the       *)
(* foreign key reply_to; reply_to is a column of Sending, the failure is   *)
(* in Housekeeping.                                                        *)
DeleteMessages(scope, states) ==
  /\ states # {}
  /\ MoveRows({i \in Ids : st[i] \in states /\ env[i].to \in scope}, "purged")
  /\ UNCHANGED verified

DeleteMessagesBefore(scope, cutoff, states) ==
  /\ states # {}
  /\ MoveRows({i \in Ids : i < cutoff /\ st[i] \in states /\ env[i].to \in scope}, "purged")
  /\ UNCHANGED verified

DeleteStrandedDraftsBefore(scope, cutoff) ==
  /\ MoveRows({i \in Ids : /\ i < cutoff /\ st[i] \in RowStates /\ env[i].to \in scope
                           /\ env[i].kind = "stranded_draft"}, "purged")
  /\ UNCHANGED verified

-----------------------------------------------------------------------------
(* The agents table *)

(* Mutation: the row that held the pane keeps it. *)
MutUpsertAgent(a, p) ==
  agent' = [agent EXCEPT ![a].registered = TRUE, ![a].pane = IF p = NoPane THEN @ ELSE p]

(* One pane, one identity: whoever held the pane loses it.  An empty pane  *)
(* registers the name and keeps the pane on record.                        *)
UpsertAgent(a, p) ==
  agent' = [b \in Agents |->
              IF b = a THEN [agent[b] EXCEPT !.registered = TRUE,
                                             !.pane = IF p = NoPane THEN @ ELSE p]
              ELSE IF p # NoPane /\ agent[b].pane = p THEN [agent[b] EXCEPT !.pane = NoPane]
              ELSE agent[b]]

DeleteAgent(a) ==
  /\ agent[a].registered
  /\ agent' = [agent EXCEPT ![a] = NewAgent]

SetPaused(a, b) ==
  /\ agent[a].registered
  /\ agent' = [agent EXCEPT ![a].paused = b]

SetPausedAll(b) ==
  agent' = [a \in Agents |-> IF agent[a].registered THEN [agent[a] EXCEPT !.paused = b] ELSE agent[a]]

SetStuck(a) ==
  /\ agent[a].registered
  /\ agent' = [agent EXCEPT ![a].stuck = TRUE]

ClearStuck(a) ==
  /\ agent[a].registered
  /\ agent' = [agent EXCEPT ![a].stuck = FALSE]

SetBacklogEpoch(a, floor) ==
  /\ agent[a].registered
  /\ agent' = [agent EXCEPT ![a].epoch = floor]

SetDeliveryMode(a, m) ==
  /\ agent[a].registered
  /\ agent' = [agent EXCEPT ![a].mode = m]

-----------------------------------------------------------------------------
(* Any client, any order *)

StoreInit ==
  /\ env = [i \in Ids |-> CHOOSE e \in Sendable : TRUE]   \* never read while absent
  /\ st = [i \in Ids |-> "absent"]
  /\ verified = [i \in Ids |-> "null"]
  /\ nextId = 1
  /\ agent = [a \in Agents |-> NewAgent]

Inserting ==
  \/ \E e \in Sendable : InsertMessage(e) \/ InsertNotice(e)
  \/ \E e1, e2 \in Sendable : InsertMessagePair(e1, e2)

Delivery ==
  \/ \E a \in Agents, i \in Ids : ClaimNext(a, i)
  \/ \E i \in Ids, v \in {"verified", "unverified"} : MarkDelivered(i, v)
  \/ \E i \in Ids : MarkFailed(i) \/ MarkVerifiedByDedupe(i)
  \/ \E a \in Agents : RecoverDelivering(a)
  \/ \E a \in Agents, t \in Triggers \ {"none"} : PromoteDeferred(a, t)

Housekeeping ==
  \/ \E a \in Agents, i \in Ids : MarkAcknowledged(a, i)
  \/ \E a \in Agents : MarkAcknowledgedBatch(a, agent[a].epoch) \/ AckStaleQueued(a)
  \/ \E scope \in {{a} : a \in Agents} \cup {Agents} :
       \/ \E c \in Ids : ReapUndeliverable(scope, c) \/ DeleteStrandedDraftsBefore(scope, c)
       \/ \E s \in RowStates : DeleteMessages(scope, {s})
       \/ \E c \in Ids : DeleteMessagesBefore(scope, c, {"delivered", "failed"})

Registry ==
  \/ \E a \in Agents, p \in Panes \cup {NoPane} : UpsertAgent(a, p)
  \/ \E b \in BOOLEAN : SetPausedAll(b)
  \/ \E a \in Agents :
       \/ DeleteAgent(a)
       \/ SetStuck(a)
       \/ ClearStuck(a)
       \/ \E b \in BOOLEAN : SetPaused(a, b)
       \/ \E m \in Modes : SetDeliveryMode(a, m)
       \/ \E f \in Queued(a) : SetBacklogEpoch(a, f)

StoreNext ==
  \/ (Inserting \/ Delivery \/ Housekeeping) /\ UNCHANGED agent
  \/ Registry /\ UNCHANGED msgVars

StoreSpec == StoreInit /\ [][StoreNext]_storeVars

-----------------------------------------------------------------------------
(* Properties *)

(* Every column holds a value of its type, ids are handed out densely, and *)
(* only a row inserted with a trigger is ever deferred.                    *)
StoreTypeOK ==
  /\ env \in [Ids -> Envelopes]
  /\ st \in [Ids -> States]
  /\ verified \in [Ids -> Verdicts]
  /\ nextId \in 1..(MaxId + 1)
  /\ agent \in [Agents -> AgentRows]
  /\ \A i \in Ids : st[i] = "absent" <=> i >= nextId
  /\ \A i \in Ids : st[i] = "deferred" => env[i].after # "none"

(* A pane belongs to at most one agent, whatever registrations, heals and  *)
(* removals interleave (UpsertAgent and the unique index, agents.go:24).   *)
OnePaneOneIdentity ==
  \A a, b \in Agents : a # b /\ agent[a].pane = agent[b].pane => agent[a].pane = NoPane

(* The verified column says something exactly of the rows that were marked *)
(* delivered: no recovery, re-claim, failure or acknowledgement leaves or  *)
(* takes a verdict (markDelivered and MarkVerifiedByDedupe,                 *)
(* messages.go:778, 1294).                                                 *)
VerdictIffDelivered ==
  \A i \in Ids : /\ st[i] = "delivered" => verified[i] # "null"
                 /\ verified[i] # "null" => st[i] \in {"delivered", "purged"}

Successors ==
  [absent       |-> {"queued", "deferred", "refused"},
   queued       |-> {"delivering", "acknowledged", "failed", "purged"},
   deferred     |-> {"queued", "purged"},
   delivering   |-> {"queued", "delivered", "failed", "purged"},
   delivered    |-> {"purged"},
   failed       |-> {"purged"},
   refused      |-> {"purged"},
   acknowledged |-> {"purged"},
   purged       |-> {}]

(* A step moves a row along the life cycle only: what was delivered,       *)
(* failed, refused or acknowledged never becomes live again, a deferred    *)
(* row is never claimed, a verdict is never withdrawn, and a row keeps the *)
(* envelope it was inserted with.                                          *)
LifeCycleStep ==
  \A i \in Ids :
    /\ st'[i] # st[i] => st'[i] \in Successors[st[i]]
    /\ verified[i] = "verified" => verified'[i] = "verified"
    /\ verified[i] = "unverified" => verified'[i] # "null"
    /\ i < nextId => env'[i] = env[i]

LifeCycle == [][LifeCycleStep]_storeVars

(* A row is claimed only when no older claimable row of its sender waits:  *)
(* whichever strategy weighs the channels, each is served in order         *)
(* (ClaimNextWithStrategy, messages.go:671).                               *)
ClaimStep ==
  \A i, j \in Ids :
    /\ st[i] = "queued" /\ st'[i] = "delivering"
    /\ j \in Claimable(env[i].to) /\ env[j].from = env[i].from
    => i <= j

ClaimsInChannelOrder == [][ClaimStep]_storeVars
=============================================================================
