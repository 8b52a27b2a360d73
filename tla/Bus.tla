-------------------------------- MODULE Bus --------------------------------
(***************************************************************************)
(* One agent's delivery path put together: senders and the agent's own     *)
(* commands write to the store, the mailman drains it, `register' runs     *)
(* beside the mailman, and panes, sessions and provider limits change      *)
(* under all of them.                                                      *)
(***************************************************************************)
EXTENDS Hook

CONSTANTS
  Home,          \* the pane the agent starts in
  HomeMode,      \* the delivery mode it starts with
  HomeSessions,  \* which session ids may be on record at the start
  Commands,      \* which of the agent's commands run
  MayLimit,      \* the provider may limit the agent
  MaxMoves       \* bound: how often a pane changes hands or a limit comes or goes

ASSUME BusAssumption ==
  /\ \A e \in Sendable : e.kind \in {"message", "control", "ping"}
  /\ Home \in Panes
  /\ HomeMode \in Modes
  /\ HomeSessions \subseteq {"none", Self}
  /\ Commands \subseteq {"ack", "ackall", "pause", "flush", "compact"}
  /\ MayLimit \in BOOLEAN
  /\ MaxMoves \in Nat

VARIABLES
  ackFloor, \* the floor a running `inbox --ack-all' has read, 0 if none runs
  moves,    \* how often the world changed
  lost,     \* how often a pane went away
  settled,  \* neither panes nor the session on record changed since the delivery chose its pane
  held,     \* the rows a floor ever held back
  clashed   \* two readers of the queue, mailman or hooks, were at work at once

worldHistory == <<moves, lost, settled, held, clashed>>

busVars == <<storeVars, mailmanVars, registerVars, hookVars, ackFloor, worldHistory>>

-----------------------------------------------------------------------------
(* Senders and the agent's commands *)

Send ==
  /\ \E e \in Sendable : InsertMessage(e)
  /\ UNCHANGED <<agent, mailmanVars, registerVars, hookVars, ackFloor, worldHistory>>

(* `inbox --ack'. *)
Acknowledge ==
  /\ "ack" \in Commands
  /\ \E i \in Ids : MarkAcknowledged(Self, i)
  /\ UNCHANGED <<agent, mailmanVars, registerVars, hookVars, ackFloor, worldHistory>>

(* `inbox --ack-all' reads the floor, ... *)
AckAllReads ==
  /\ "ackall" \in Commands /\ ackFloor = 0
  /\ ackFloor' = agent[Self].epoch
  /\ UNCHANGED <<storeVars, mailmanVars, registerVars, hookVars, worldHistory>>

(* ... and acknowledges what is queued at or below the floor it read. *)
AckAllWrites ==
  /\ ackFloor # 0
  /\ MarkAcknowledgedBatch(Self, ackFloor)
  /\ ackFloor' = 0
  /\ UNCHANGED <<agent, mailmanVars, registerVars, hookVars, worldHistory>>

PauseOrResume ==
  /\ "pause" \in Commands
  /\ SetPaused(Self, ~agent[Self].paused)
  /\ UNCHANGED <<msgVars, mailmanVars, registerVars, hookVars, ackFloor, worldHistory>>

(* `flush' and the flush_deferred tool: the agent lets its own staged rows *)
(* out, whatever they wait for.                                            *)
FlushDeferred ==
  /\ "flush" \in Commands
  /\ \E trigger \in {"resume", "register"} : PromoteDeferred(Self, trigger)
  /\ UNCHANGED <<agent, mailmanVars, registerVars, hookVars, ackFloor, worldHistory>>

(* The session compacts itself and its hook records it; one is enough. *)
SelfCompact ==
  /\ "compact" \in Commands /\ compactAt = 0
  /\ compactAt' = compactAt + 1
  /\ UNCHANGED <<storeVars, loopVars, streakVars, promotedAt, worldVars, shown, errorVars,
                 registerVars, hookVars, ackFloor, worldHistory>>

-----------------------------------------------------------------------------
(* The world the panes live in *)

Running == Agents \cup {"program"}

(* What runs in a pane ends, or the pane goes; in a shell or a new pane    *)
(* something starts.  The agent itself runs once.  An agent that starts    *)
(* goes on with its session or with a new one, and the id on record is     *)
(* then that of no running session.                                        *)
PaneChanges ==
  /\ moves < MaxMoves
  /\ moves' = moves + 1
  /\ settled' = FALSE
  /\ \E p \in Panes :
       \/ /\ host[p] # "gone"
          /\ \E h \in {"shell", "gone"} \ {host[p]} :
               /\ host' = [host EXCEPT ![p] = h]
               /\ lost' = IF h = "gone" THEN lost + 1 ELSE lost
          /\ UNCHANGED session
       \/ /\ host[p] \notin Running
          /\ \E h \in Running :
               /\ h = Self => \A q \in Panes : host[q] # Self
               /\ host' = [host EXCEPT ![p] = h]
               /\ session' \in {session, IF session = h THEN "old" ELSE session}
          /\ UNCHANGED lost
  /\ UNCHANGED <<storeVars, loopVars, streakVars, compactVars, limited, shown, errorVars,
                 registerVars, hookVars, ackFloor, held, clashed>>

LimitChanges ==
  /\ MayLimit /\ moves < MaxMoves
  /\ moves' = moves + 1
  /\ limited' = ~limited
  /\ UNCHANGED <<storeVars, loopVars, streakVars, compactVars, host, session, shown, errorVars,
                 registerVars, hookVars, ackFloor, lost, settled, held, clashed>>

-----------------------------------------------------------------------------

BusInit ==
  /\ env = [i \in Ids |-> CHOOSE e \in Sendable : TRUE]
  /\ st = [i \in Ids |-> "absent"]
  /\ verified = [i \in Ids |-> "null"]
  /\ nextId = 1
  /\ agent = [a \in Agents |-> IF a = Self THEN [NewAgent EXCEPT !.registered = TRUE, !.pane = Home, !.mode = HomeMode]
                               ELSE NewAgent]
  /\ MailmanInit
  /\ host = [p \in Panes |-> IF p = Home THEN Self ELSE "shell"]
  /\ session \in HomeSessions
  /\ limited = FALSE
  /\ RegisterInit
  /\ HookInit
  /\ ackFloor = 0
  /\ moves = 0 /\ lost = 0 /\ settled = TRUE /\ held = {} /\ clashed = FALSE

(* The pane is chosen when the resolve stage begins. *)
Serving(Step) ==
  /\ Step
  /\ settled' = IF pc' = "resolve" THEN TRUE ELSE settled
  /\ clashed' = (clashed \/ ActiveHooks # {})
  /\ UNCHANGED <<registerVars, hookVars, ackFloor, moves, lost, held>>

BelowFloor == {i \in Queued(Self) \cup Delivering(Self) :
                 env[i].after = "none" /\ i <= agent[Self].epoch}

Registering(Step) ==
  /\ Step
  /\ held' = held \cup BelowFloor'
  /\ settled' = (settled /\ session' = session)
  /\ UNCHANGED <<hookVars, ackFloor, moves, lost, clashed>>

Hooking(Step(_)) ==
  /\ \E h \in Hooks : Step(h)
  /\ clashed' = (clashed \/ (ActiveHooks' # {} /\ (pc # "off" \/ Cardinality(ActiveHooks') > 1)))
  /\ UNCHANGED <<loopVars, streakVars, compactVars, worldVars, shown, registerVars, ackFloor,
                 moves, lost, settled, held>>

BusNext ==
  \/ Send \/ Acknowledge \/ AckAllReads \/ AckAllWrites \/ PauseOrResume \/ FlushDeferred \/ SelfCompact
  \/ PaneChanges \/ LimitChanges
  \/ Serving(Start) \/ Serving(Stop) \/ Serving(Crash)
  \/ Serving(LoopTop) \/ Serving(StampResume) \/ Serving(PromoteResume) \/ Serving(Claim)
  \/ Serving(HandlePing) \/ Serving(ProviderCap)
  \/ Serving(ResolveUnchecked) \/ Serving(ResolveSession) \/ Serving(ResolveByName) \/ Serving(SessionStale)
  \/ Serving(Drift) \/ Serving(Liveness)
  \/ Serving(Dedupe) \/ Serving(Absorb) \/ Serving(InsertDedupeNotice)
  \/ Serving(GateDefer) \/ Serving(GatePass) \/ Serving(ProbeSafe) \/ Serving(ProbeUnsafe)
  \/ Serving(ProbeNotFound) \/ Serving(Park)
  \/ Serving(SkipUnsupported) \/ Serving(PasteLands) \/ Serving(Submit) \/ Serving(PasteMisses) \/ Serving(AutoHeal)
  \/ Serving(Mark) \/ Serving(ReleaseResume) \/ Serving(InsertFailureNotice)
  \/ Registering(RegisterBegin) \/ Registering(McpRegister) \/ Registering(RegisterAgent) \/ Registering(RegisterSession)
  \/ Registering(BacklogDepth) \/ Registering(BacklogRead) \/ Registering(BacklogFence) \/ Registering(BacklogNudge)
  \/ Registering(RegisterPromote) \/ Registering(RegisterDies)
  \/ Hooking(HookBegin) \/ Hooking(HookRecover) \/ Hooking(HookClaim) \/ Hooking(HookMark)
  \/ Hooking(HookPrint) \/ Hooking(HookDies)

BusSpec == BusInit /\ [][BusNext]_busVars

(* systemd restarts the mailman, which is stopped finitely often, and the  *)
(* loop keeps stepping; a register that runs finishes.  The other choices  *)
(* are the world's: the provider falls below its cap, the pane goes quiet, *)
(* the probe finds it safe and the paste lands again and again, so a loop  *)
(* that keeps trying gets through.                                         *)
Fairness ==
  /\ WF_busVars(Serving(Start)) /\ WF_busVars(Serving(Iteration))
  /\ <>[][~Serving(Stop)]_busVars
  /\ WF_busVars(Registering(RegisterRuns))
  /\ SF_busVars(Serving(ProviderCap /\ pc' = "resolve"))
  /\ SF_busVars(Serving(GatePass))
  /\ SF_busVars(Serving(ProbeSafe))
  /\ SF_busVars(Serving(PasteLands))

FairBusSpec == BusSpec /\ Fairness

-----------------------------------------------------------------------------
(* Properties *)

(* Every variable of the mailman, the register and the hooks has its type, *)
(* and the streak counters stay below their thresholds.                    *)
BusTypeOK ==
  /\ StoreTypeOK
  /\ pc \in Stages /\ cur \in Ids \cup {0} /\ pane \in Panes \cup {NoPane} /\ out \in Outcomes
  /\ fails \in 0..(StuckThreshold - 1) /\ failId \in Ids \cup {0}
  /\ staleFails \in 0..(StaleThreshold - 1)
  /\ compactAt \in {0, 1} /\ promotedAt \in {0, 1}
  /\ host \in [Panes -> Running \cup {"shell", "gone"}] /\ session \in Agents \cup {"none", "old"}
  /\ limited \in BOOLEAN
  /\ shown \in [Ids -> Nat] /\ faults \in 0..MaxFaults /\ crashes \in 0..MaxCrashes
  /\ rpc \in RegisterStages /\ floor \in Ids \cup {0} /\ skipped \in Ids \cup {0}
  /\ req \in [pane : Panes, mode : Modes] /\ registers \in 0..MaxRegisters
  /\ hpc \in [Hooks -> HookStages] /\ took \in [Hooks -> Seq(Ids)] /\ batch \in [Hooks -> SUBSET Ids]
  /\ presented \in [Ids -> Nat]
  /\ ackFloor \in Ids \cup {0}
  /\ moves \in 0..MaxMoves /\ lost \in 0..moves /\ settled \in BOOLEAN /\ held \subseteq Ids /\ clashed \in BOOLEAN

(* Crashes, requeues and retries included, rows live the life that         *)
(* Delivery promises: what the store calls delivered was put into a pane   *)
(* before, except pings and commands the adapter lacks, and a row that is  *)
(* delivered, failed or acknowledged is not shown again (the outcome       *)
(* switch, serve.go:2522, and the state guards of the UPDATEs).            *)
Phase(s) ==
  CASE s = "absent" -> "new"
    [] s \in {"queued", "delivering", "deferred"} -> "pending"
    [] s = "delivered" -> "done"
    [] s \in {"failed", "refused", "acknowledged", "purged"} -> "dropped"

NeedsNoPane(e) == e.kind = "ping" \/ (e.kind = "control" /\ e.body \notin Supported)

D == INSTANCE Delivery WITH
       Rows   <- Ids,
       phase  <- [i \in Ids |-> Phase(st[i])],
       shows  <- shown,
       silent <- {i \in Ids : NeedsNoPane(env[i])}

BusImplementsDelivery == D!DeliverySpec

(* At-least-once is at-most-once but for faults: while the mailman has the *)
(* queue to itself, every extra paste of a row is paid for by a crash, by  *)
(* a failed write, or by a pane that went away with the text before Enter  *)
(* was through, which has the heal deliver it again elsewhere (claim,      *)
(* paste, heal and mark, serve.go:1604-2730).                              *)
DuplicatesBounded ==
  ~clashed => \A i \in Ids : shown[i] <= 1 + faults + crashes + lost

(* A row waits in `delivering' only while the mailman works on it: every   *)
(* way out of an iteration marks the row or puts it back, after SIGTERM    *)
(* and a crash the next start does; only a failed write leaves one behind  *)
(* (serve.go:2403).                                                        *)
InFlightIsCurrent ==
  faults = 0 /\ ~clashed /\ pc # "off" => Delivering(Self) \subseteq {cur}

(* A failure notice that fails breeds no further notice: while the mailman *)
(* has the queue to itself no row causes more than one, save for a row     *)
(* handled again after a failed write (maybeInsertFailureNotice,           *)
(* serve.go:2789).                                                         *)
FailureNotices == {i \in Ids : i < nextId /\ env[i].kind = "delivery_failure_notice"}

NoticesBounded ==
  ~clashed =>
    Cardinality(FailureNotices) <= Cardinality({i \in Ids : i < nextId} \ FailureNotices) + faults

(* What the cap admits stays within it: a row in flight that comes back to *)
(* the queue exceeds it by the one in hand, and by one per failed write    *)
(* (checkCapsInTx counts `queued' only, messages.go:369).                  *)
CappedRows == {i \in Queued(Self) \cup Delivering(Self) :
                 env[i].kind \in {"message", "control", "ping"} /\ env[i].after = "none"}

QueueBounded ==
  RecipientCap > 0 /\ ~clashed => Cardinality(CappedRows) <= EffectiveCap(Self) + 1 + faults

(* Whatever the floor holds back was announced: while no register is under *)
(* way and none was cut short, an announcement was inserted above the      *)
(* floor (applyBacklogPolicy, backlog.go:104-131).                         *)
Fenced == {i \in Queued(Self) : env[i].after = "none" /\ i <= agent[Self].epoch}

FencedWasAnnounced ==
  Fenced # {} /\ rpc = "idle" /\ faults = 0 /\ crashes = 0 =>
    \E n \in Ids : n > agent[Self].epoch /\ n < nextId /\ env[n].kind = "backlog_announce"

(* If nothing changed since the mailman looked and nothing failed, a row   *)
(* is never put into a shell, nor into another agent whose command line    *)
(* says who it is, whatever its pane is titled and whatever pane is on     *)
(* record; only a register that put that agent's session on record sends   *)
(* mail there.  A title does mislead: a program, or an agent known by its  *)
(* title alone, may get the row (session resolution, drift check and       *)
(* liveness gate, serve.go:1699-1999, discover.go:137-330).                *)
Trusted == {"program"} \cup (Agents \ Named)

PasteStep ==
  shown' # shown /\ settled /\ faults = 0 => host[pane] \in {Self, session} \cup Trusted

PastesReachAgent == [][PasteStep]_busVars

(* Within a channel rows are first shown in the order they were sent,      *)
(* unless a floor held one back or a failed write stranded it.  A floor    *)
(* that comes down again lets old rows out behind younger ones             *)
(* (ClaimNextWithStrategy, messages.go:671; SetBacklogEpoch, agents.go:240). *)
OrderStep ==
  \A i, j \in Ids :
    /\ i < j /\ env[i].from = env[j].from /\ env[i].to = Self
    /\ env[i].after = "none" /\ i \notin held
    /\ shown[j] = 0 /\ shown'[j] > 0
    => st[i] \notin {"queued", "delivering"} \/ faults > 0 \/ clashed

ShownInChannelOrder == [][OrderStep]_busVars

(* Nothing lets a staged row out behind the agent's back: only its own     *)
(* flush does it at will; otherwise a resume row comes out after the       *)
(* session reset or compacted itself, and a register row by a register     *)
(* (PromoteDeferred, messages.go:839, and its callers: the loop top, the   *)
(* settled reset, the registers, and the two flushes, deferred.go:85).     *)
ReleaseStep ==
  \A i \in Ids : st[i] = "deferred" /\ st'[i] # "deferred" =>
    \/ FlushDeferred
    \/ env[i].after = "register" /\ rpc = "promote"
    \/ env[i].after = "resume" /\ compactAt > 0
    \/ env[i].after = "resume" /\ \E j \in Ids : /\ env[j].kind = "control" /\ env[j].body \in Resets
                                                 /\ st[j] \in {"delivered", "delivering"} /\ shown[j] > 0

ReleasedByItsTrigger == [][ReleaseStep]_busVars

(* No hook ever repeats what a hook printed: rows are marked before they   *)
(* are printed, and a mark succeeds once, whatever hooks, mailmen, faults  *)
(* and kills interleave (doHookContext, hook.go:52).                       *)
PresentedOnce ==
  \A i \in Ids : presented[i] <= 1

(* A delivered row was shown, printed, or is about to be printed. *)
Reached(i) == shown[i] > 0 \/ presented[i] > 0 \/ \E h \in Hooks : i \in batch[h]

AllReached ==
  \A i \in Ids : st[i] = "delivered" /\ env[i].to = Self /\ env[i].kind = "message" => Reached(i)

NoHookDied == \A h \in Hooks : hpc[h] # "dead"

(* A hook that has the queue to itself, is not killed and meets no error   *)
(* loses nothing: what it marks it prints (hook.go:85-126).                *)
LoneHookLosesNothing ==
  faults = 0 /\ NoHookDied /\ ~clashed => AllReached

Live(i) == st[i] \in {"queued", "delivering"} /\ env[i].to = Self

Blocked == agent[Self].paused \/ agent[Self].stuck \/ limited

(* A row above the floor is dealt with: shown, failed, absorbed or         *)
(* acknowledged, or a later floor holds it back; unless the mailman stays  *)
(* paused or parked, the limit stays, or a write failed: a failed revert   *)
(* strands the row until the mailman restarts (serve.go:1395-2746).        *)
EventuallyHandled ==
  \A i \in Ids :
    [](i \in Claimable(Self) =>
         <>(~Live(i) \/ i <= agent[Self].epoch \/ Blocked \/ faults > 0))

(* A compaction the session reports lets out what was staged for it: the   *)
(* watermark never passes rows by, if nothing fails or is killed between   *)
(* its statement and theirs (PromoteResumeOnSelfCompactIfNew,              *)
(* agents.go:629).                                                         *)
CompactReleases ==
  \A i \in Ids :
    (compactAt > promotedAt /\ st[i] = "deferred" /\ env[i].after = "resume")
      ~> (st[i] # "deferred" \/ Blocked \/ faults > 0 \/ crashes > 0)

-----------------------------------------------------------------------------
(* What the comments and the manuals say, where the code does otherwise *)

(* "a mark failure leaves it `delivering' and the next hook's              *)
(* RecoverDelivering re-surfaces it (a bounded duplicate, not a loss)"     *)
(* (hook.go:114-117): what is marked delivered reaches the agent.          *)
HookLosesNothing == NoHookDied => AllReached
=============================================================================
