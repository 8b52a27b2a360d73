------------------------------ MODULE Mailman ------------------------------
(***************************************************************************)
(* The mailman of one agent: the delivery loop of `serve'                  *)
(* (runServeWithStore, internal/cli/serve.go), with the tmux panes and the *)
(* process table it looks at.                                              *)
(*                                                                         *)
(* One iteration claims a row and carries it through the stages named by   *)
(* pc.  A stage ends at the next write to the store or act on a pane, so   *)
(* other processes, and crashes, get in between any two of them.  A write  *)
(* to the store may fail: the loop logs the error and goes on, and that is *)
(* what Try says.                                                          *)
(*                                                                         *)
(* Configuration: defaults, with respawn and the freshness alert off; the  *)
(* drift check, which --drift-check-disabled turns off, is a parameter.    *)
(***************************************************************************)
EXTENDS MessageStore

CONSTANTS
  Self,            \* the agent this mailman serves
  StuckThreshold,  \* pane-not-found probes in a row that park the mailman
  StaleThreshold,  \* stale-session probes in a row that park it
  DriftCheck,      \* ~DriftCheckDisabled: check who runs in the pane (the default)
  Supported,       \* bodies of control commands the adapter has
  Resets,          \* bodies of control commands that reset the session
  Named,           \* the agents whose command line says who they are (--resume)
  MaxFaults,       \* bound: failed writes and failed process walks
  MaxCrashes       \* bound: how often a process is killed

ASSUME MailmanAssumption ==
  /\ Self \in Agents
  /\ StuckThreshold \in Nat \ {0}
  /\ StaleThreshold \in Nat \ {0}
  /\ DriftCheck \in BOOLEAN
  /\ Supported \subseteq Bodies /\ Resets \subseteq Bodies
  /\ MaxFaults \in Nat /\ MaxCrashes \in Nat
  /\ Ids \subseteq Bodies     \* the body of a notice names the row it is about
  /\ Named \subseteq Agents
  /\ Agents \cap {"none", "other", "old", "program", "shell", "gone"} = {}

VARIABLES
  pc,          \* the stage of the loop, "off" when no mailman runs
  cur,         \* the claimed row, 0 if none
  pane,        \* paneForDelivery: the pane column as read at the loop top, or healed
  out,         \* how the delivery ended
  fails,       \* consecutivePaneFails
  failId,      \* paneFailMsgID
  staleFails,  \* consecutiveSessionStale
  compactAt,   \* last_self_compact_at
  promotedAt,  \* resume_promoted_at
  host,        \* pane -> what runs there: an agent, another program, a shell, or "gone"
  session,     \* the agent's session_id: none, an old one, or the agent whose session it is
  limited,     \* the agent's provider shows a rate or usage limit in the pane
  shown,       \* id -> how often the row was put into a pane
  faults,      \* how many calls failed
  crashes      \* how many processes were killed

loopVars == <<pc, cur, pane, out>>

streakVars == <<fails, failId, staleFails>>

compactVars == <<compactAt, promotedAt>>

worldVars == <<host, session, limited>>

errorVars == <<faults, crashes>>

mailmanVars == <<pc, cur, pane, out, fails, failId, staleFails, compactAt, promotedAt,
                 host, session, limited, shown, faults, crashes>>

Outcomes == {"none", "verified", "external", "unverified", "unsupported", "requeue", "failed"}

Stages == {"off", "top", "watermark", "promote", "claim", "ping", "cap", "resolve",
           "drift", "liveness", "dedupe", "absorb", "dedupeNotice", "gate", "probe",
           "park", "paste", "enter", "retry", "reenter", "mark", "settle", "notice"}

-----------------------------------------------------------------------------
(* Writing to the store *)

Fault ==
  /\ faults < MaxFaults
  /\ faults' = faults + 1
  /\ UNCHANGED crashes

Killed ==
  /\ crashes < MaxCrashes
  /\ crashes' = crashes + 1
  /\ UNCHANGED faults

Try(Write) ==
  \/ Write /\ UNCHANGED errorVars
  \/ Fault /\ UNCHANGED storeVars

TryMsg(Write) == Try(Write /\ UNCHANGED agent)

TryAgent(Write) == Try(Write /\ UNCHANGED msgVars)

(* A notice to a; about names the row it is about.  Once the ids of the    *)
(* bound are used up nothing more is inserted.                             *)
Notice(to, kind, about) ==
  [from |-> Self, to |-> to, kind |-> kind, priority |-> PriorityNormal,
   after |-> "none", force |-> FALSE, body |-> about]

TryNotice(e) ==
  IF nextId \in Ids THEN TryMsg(InsertNotice(e)) ELSE UNCHANGED <<storeVars, errorVars>>

(* The row may have left `delivering' since the claim: the UPDATE then     *)
(* matches nothing and the error is logged.                                *)
Settle(Write) == IF st[cur] = "delivering" THEN Write ELSE UNCHANGED msgVars

Goto(stage) ==
  /\ pc' = stage
  /\ cur' = IF stage = "top" THEN 0 ELSE cur
  /\ out' = IF stage = "top" THEN "none" ELSE out

(* Back to queued for a later iteration. *)
Requeue ==
  /\ TryMsg(RecoverDelivering(Self))
  /\ Goto("top")

-----------------------------------------------------------------------------
(* Process life *)

Fresh ==
  /\ cur' = 0 /\ pane' = NoPane /\ out' = "none"
  /\ fails' = 0 /\ failId' = 0 /\ staleFails' = 0

(* Recovery runs before the delivery mode is looked at. *)
Start ==
  /\ pc = "off"
  /\ agent[Self].registered /\ agent[Self].pane # NoPane
  /\ TryMsg(RecoverDelivering(Self))
  /\ pc' = IF agent[Self].mode = "paste-and-enter" THEN "top" ELSE "off"
  /\ Fresh
  /\ UNCHANGED <<compactVars, worldVars, shown>>

(* SIGTERM is noticed at the loop top, in the observe gate and while a     *)
(* session reset settles.                                                  *)
Stop ==
  /\ pc \in {"top", "gate", "settle"}
  /\ pc' = "off"
  /\ Fresh
  /\ UNCHANGED <<storeVars, compactVars, worldVars, shown, errorVars>>

Crash ==
  /\ pc # "off"
  /\ Killed
  /\ pc' = "off"
  /\ Fresh
  /\ UNCHANGED <<storeVars, compactVars, worldVars, shown>>

-----------------------------------------------------------------------------
(* Loop top and claim *)

(* Mutation: the watermark need not have moved. *)
MutLoopTop ==
  /\ pc = "top"
  /\ agent[Self].registered /\ ~agent[Self].paused /\ ~agent[Self].stuck
  /\ pane' = agent[Self].pane
  /\ pc' = IF pane' # NoPane /\ compactAt >= promotedAt THEN "watermark" ELSE "claim"
  /\ UNCHANGED <<cur, out, storeVars, streakVars, compactVars, worldVars, shown, errorVars>>

LoopTop ==
  /\ pc = "top"
  /\ agent[Self].registered /\ ~agent[Self].paused /\ ~agent[Self].stuck
  /\ pane' = agent[Self].pane
  /\ pc' = IF pane' # NoPane /\ compactAt > promotedAt THEN "watermark" ELSE "claim"
  /\ UNCHANGED <<cur, out, storeVars, streakVars, compactVars, worldVars, shown, errorVars>>

(* Mutation: the watermark is stamped and the rows are forgotten. *)
MutStampResume ==
  /\ pc = "watermark"
  /\ promotedAt' = compactAt
  /\ pc' = "claim"
  /\ UNCHANGED <<cur, pane, out, storeVars, streakVars, compactAt, worldVars, shown, errorVars>>

(* PromoteResumeOnSelfCompactIfNew: the watermark first, the rows second,  *)
(* in two statements.                                                      *)
StampResume ==
  /\ pc = "watermark"
  /\ \/ /\ promotedAt' = compactAt
        /\ pc' = "promote"
        /\ UNCHANGED errorVars
     \/ /\ Fault
        /\ pc' = "claim"
        /\ UNCHANGED promotedAt
  /\ UNCHANGED <<cur, pane, out, storeVars, streakVars, compactAt, worldVars, shown>>

PromoteResume ==
  /\ pc = "promote"
  /\ TryMsg(PromoteDeferred(Self, "resume"))
  /\ pc' = "claim"
  /\ UNCHANGED <<cur, pane, out, streakVars, compactVars, worldVars, shown>>

Claim ==
  /\ pc = "claim"
  /\ \/ \E i \in Ids : /\ ClaimNext(Self, i)
                       /\ cur' = i
                       /\ pc' = IF env[i].kind = "ping" THEN "ping" ELSE "cap"
                       /\ UNCHANGED <<agent, out, errorVars>>
     \/ /\ Claimable(Self) = {}
        /\ Goto("top")
        /\ UNCHANGED <<storeVars, errorVars>>
     \/ /\ Fault
        /\ Goto("top")
        /\ UNCHANGED storeVars
  /\ UNCHANGED <<pane, streakVars, compactVars, worldVars, shown>>

Exists(p) == p # NoPane /\ host[p] # "gone"

Missing(p) == p # NoPane /\ host[p] = "gone"

(* A ping is answered from the pane list, never pasted. *)
HandlePing ==
  /\ pc = "ping"
  /\ \/ /\ Exists(pane)
        /\ TryMsg(Settle(MarkDelivered(cur, "verified")))
     \/ TryMsg(Settle(MarkFailed(cur)))
  /\ Goto("top")
  /\ UNCHANGED <<pane, streakVars, compactVars, worldVars, shown>>

(* How many agents of the provider work is not modelled: any answer. *)
ProviderCap ==
  /\ pc = "cap"
  /\ \/ Requeue
     \/ Goto("resolve") /\ UNCHANGED <<storeVars, errorVars>>
  /\ UNCHANGED <<pane, streakVars, compactVars, worldVars, shown>>

-----------------------------------------------------------------------------
(* Which pane hosts the agent *)

(* The names Resolve may find for pane p.  A --resume on the command line  *)
(* of a process in it comes first.  Without one the title and the window   *)
(* name decide: they outlive what set them, and the name of an agent       *)
(* anywhere in them counts, so they may say anything, "other" standing for *)
(* a name that is nobody's.                                                *)
NamesShown(p) ==
  IF ~Exists(p) THEN {"none"}
  ELSE IF host[p] \in Named THEN {host[p]}
  ELSE {"none", "other"} \cup Agents

(* The panes LookupBySessionID, respectively LookupByName, may return. *)
SessionPanes == {q \in Panes : host[q] = session}

NamedPanes == {q \in Panes : Self \in NamesShown(q)}

(* Record q and deliver there; if the record cannot be written, deliver to *)
(* the pane at hand.                                                       *)
HealTo(q) ==
  \/ /\ UpsertAgent(Self, q)
     /\ pane' = q
     /\ UNCHANGED <<msgVars, errorVars>>
  \/ /\ Fault
     /\ UNCHANGED <<pane, storeVars>>

KeepPane == UNCHANGED <<pane, storeVars, errorVars>>

ResolveUnchecked ==
  /\ pc = "resolve" /\ ~DriftCheck
  /\ Goto("dedupe")
  /\ staleFails' = 0
  /\ UNCHANGED <<pane, fails, failId, storeVars, compactVars, worldVars, shown, errorVars>>

(* An exact hit skips the checks of the name path. *)
ResolveSession ==
  /\ pc = "resolve" /\ DriftCheck
  /\ \E q \in SessionPanes : IF q = pane THEN KeepPane ELSE HealTo(q)
  /\ Goto("dedupe")
  /\ staleFails' = 0
  /\ UNCHANGED <<fails, failId, compactVars, worldVars, shown>>

(* No session id on record, or the lookup failed. *)
ResolveByName ==
  /\ pc = "resolve" /\ DriftCheck
  /\ \/ session = "none" /\ UNCHANGED errorVars
     \/ session # "none" /\ Fault
  /\ Goto("drift")
  /\ staleFails' = 0
  /\ UNCHANGED <<pane, fails, failId, storeVars, compactVars, worldVars, shown>>

(* The session on record runs in no pane.  A pane that cannot be           *)
(* classified counts towards parking; any other answer falls through.      *)
SessionStale ==
  /\ pc = "resolve" /\ DriftCheck
  /\ session # "none" /\ SessionPanes = {}
  /\ \/ /\ Exists(pane)
        /\ TryMsg(RecoverDelivering(Self))
        /\ IF staleFails + 1 >= StaleThreshold
           THEN staleFails' = 0 /\ Goto("park")
           ELSE staleFails' = staleFails + 1 /\ Goto("top")
     \/ /\ staleFails' = 0
        /\ Goto("drift")
        /\ UNCHANGED <<storeVars, errorVars>>
  /\ UNCHANGED <<pane, fails, failId, compactVars, worldVars, shown>>

FailDelivery == pc' = "mark" /\ out' = "failed" /\ UNCHANGED <<cur, pane, storeVars, errorVars>>

Deliverable == pc' = "liveness" /\ UNCHANGED <<cur, out>>

(* The drift check reads whose name the pane shows.  The agent's own: go   *)
(* on.  Another one, or none: look for the agent in every pane.  A failed  *)
(* walk over the processes is excused, except that a pane that shows no    *)
(* name is never trusted.                                                  *)
Drift ==
  /\ pc = "drift"
  /\ \/ Fault /\ Deliverable /\ UNCHANGED <<pane, storeVars>>
     \/ FailDelivery
     \/ \E name \in NamesShown(pane) :
          \/ name = Self /\ Deliverable /\ KeepPane
          \/ \E q \in NamedPanes \ {pane} :
               name # Self /\ Deliverable /\ HealTo(q)
          \/ name \notin {Self, "none"} /\ Fault /\ Deliverable /\ UNCHANGED <<pane, storeVars>>
          \/ name = "none" /\ pane \in NamedPanes /\ Deliverable /\ KeepPane
  /\ UNCHANGED <<streakVars, compactVars, worldVars, shown>>

(* Mutation: any pane that exists will do. *)
MutLiveness ==
  /\ pc = "liveness"
  /\ \/ /\ Exists(pane)
        /\ pc' = "dedupe"
        /\ UNCHANGED <<cur, pane, out, storeVars, errorVars>>
     \/ FailDelivery
  /\ UNCHANGED <<streakVars, compactVars, worldVars, shown>>

(* PaneAcceptsPaste: the pane's foreground process is known and no shell;  *)
(* any other program will do.                                              *)
Liveness ==
  /\ pc = "liveness"
  /\ \/ /\ Exists(pane) /\ host[pane] # "shell"
        /\ pc' = "dedupe"
        /\ UNCHANGED <<cur, pane, out, storeVars, errorVars>>
     \/ FailDelivery
  /\ UNCHANGED <<streakVars, compactVars, worldVars, shown>>

-----------------------------------------------------------------------------
(* Dedupe: a replay of a row that did reach the pane is dropped *)

(* The prior row's token is looked for in the pane; a miss, or no prior    *)
(* row inside the window, delivers.                                        *)
Dedupe ==
  /\ pc = "dedupe"
  /\ \/ Goto("gate") /\ UNCHANGED <<storeVars, errorVars>>
     \/ LET prior == FindDedupeMatch(env[cur])
        IN /\ prior # 0 /\ shown[prior] > 0
           /\ TryMsg(MarkVerifiedByDedupe(prior))
           /\ Goto("absorb")
  /\ UNCHANGED <<pane, streakVars, compactVars, worldVars, shown>>

Absorb ==
  /\ pc = "absorb"
  /\ TryMsg(Settle(MarkFailed(cur)))
  /\ Goto("dedupeNotice")
  /\ UNCHANGED <<pane, streakVars, compactVars, worldVars, shown>>

InsertDedupeNotice ==
  /\ pc = "dedupeNotice"
  /\ IF env[cur].kind = "message"
     THEN TryNotice(Notice(env[cur].from, "dedupe_notice", cur))
     ELSE UNCHANGED <<storeVars, errorVars>>
  /\ Goto("top")
  /\ UNCHANGED <<pane, streakVars, compactVars, worldVars, shown>>

-----------------------------------------------------------------------------
(* Observe gate and pre-paste probe *)

(* A limit holds a row back unless it was sent with --force-rate-limited:  *)
(* in the gate and again in the probe (IsPasteUnsafeForced).               *)
HeldBack == limited /\ ~env[cur].force

(* Mutation: the claimed row is not put back. *)
MutGateDefer ==
  /\ pc = "gate"
  /\ Goto("top")
  /\ UNCHANGED <<storeVars, errorVars, pane, streakVars, compactVars, worldVars, shown>>

(* The gate waits for a quiet pane.  It defers on copy mode and on a limit; *)
(* any other end, running out of patience included, delivers.              *)
GateDefer ==
  /\ pc = "gate"
  /\ Requeue
  /\ UNCHANGED <<pane, streakVars, compactVars, worldVars, shown>>

(* A draft the operator left behind is archived as a row of its own before *)
(* the input is cleared.                                                   *)
GatePass ==
  /\ pc = "gate"
  /\ ~HeldBack
  /\ \/ UNCHANGED <<storeVars, errorVars>>
     \/ /\ env[cur].kind # "stranded_draft"
        /\ TryNotice(Notice(Self, "stranded_draft", cur))
  /\ Goto("probe")
  /\ UNCHANGED <<pane, streakVars, compactVars, worldVars, shown>>

ProbeSafe ==
  /\ pc = "probe"
  /\ Exists(pane)
  /\ ~HeldBack
  /\ Goto("paste")
  /\ fails' = 0 /\ failId' = 0
  /\ UNCHANGED <<pane, storeVars, staleFails, compactVars, worldVars, shown, errorVars>>

(* A popup, an unknown state, or a probe that failed otherwise. *)
ProbeUnsafe ==
  /\ pc = "probe"
  /\ ~Missing(pane)
  /\ Requeue
  /\ fails' = 0 /\ failId' = 0
  /\ UNCHANGED <<pane, staleFails, compactVars, worldVars, shown>>

(* "can't find pane": the same row must fail StuckThreshold times in a row. *)
ProbeNotFound ==
  /\ pc = "probe"
  /\ Missing(pane)
  /\ TryMsg(RecoverDelivering(Self))
  /\ LET n == 1 + IF failId = cur THEN fails ELSE 0
     IN IF n >= StuckThreshold
        THEN fails' = 0 /\ failId' = 0 /\ Goto("park")
        ELSE fails' = n /\ failId' = cur /\ Goto("top")
  /\ UNCHANGED <<pane, staleFails, compactVars, worldVars, shown>>

Park ==
  /\ pc = "park"
  /\ TryAgent(SetStuck(Self))
  /\ Goto("top")
  /\ UNCHANGED <<pane, streakVars, compactVars, worldVars, shown>>

-----------------------------------------------------------------------------
(* Delivering *)

Control == env[cur].kind = "control"

Ended(o) == out' = o /\ pc' = "mark" /\ UNCHANGED cur

(* The adapter has no such command: consumed, not pasted. *)
SkipUnsupported ==
  /\ pc \in {"paste", "retry"}
  /\ Control /\ env[cur].body \notin Supported
  /\ Ended("unsupported")
  /\ UNCHANGED <<pane, storeVars, streakVars, compactVars, worldVars, shown, errorVars>>

(* The text is in the pane, ... *)
PasteLands ==
  /\ pc \in {"paste", "retry"}
  /\ Control => env[cur].body \in Supported
  /\ Exists(pane)
  /\ shown' = [shown EXCEPT ![cur] = @ + 1]
  /\ pc' = IF pc = "paste" THEN "enter" ELSE "reenter"
  /\ UNCHANGED <<cur, out, pane, storeVars, streakVars, compactVars, worldVars, errorVars>>

(* ... Enter follows, and verification tells how it fared; a command that  *)
(* fails after the paste ends as a failure.                                *)
Submit ==
  /\ pc \in {"enter", "reenter"}
  /\ \E o \in {"verified", "external", "unverified", "failed"} :
       /\ Control => o \in {"verified", "failed"}
       /\ Ended(o)
  /\ UNCHANGED <<pane, storeVars, streakVars, compactVars, worldVars, shown, errorVars>>

(* Mutation: the error of the paste is dropped. *)
MutPasteMisses ==
  /\ pc \in {"paste", "retry"}
  /\ Ended("verified")
  /\ UNCHANGED <<pane, storeVars, streakVars, compactVars, worldVars, shown, errorVars>>

(* Nothing was pasted: the operator's keystrokes or an earlier paste are   *)
(* in the input (requeue), or tmux failed.                                 *)
PasteMisses ==
  /\ pc \in {"paste", "retry"}
  /\ Control => env[cur].body \in Supported
  /\ \E o \in {"requeue", "failed"} : (Control => o = "failed") /\ Ended(o)
  /\ UNCHANGED <<pane, storeVars, streakVars, compactVars, worldVars, shown, errorVars>>

(* The pane vanished under the delivery, before the text was put into it   *)
(* or after: look the agent up by name and deliver once more there, from   *)
(* the start.                                                              *)
AutoHeal ==
  /\ pc \in {"paste", "enter"}
  /\ Control => env[cur].body \in Supported
  /\ Missing(pane)
  /\ \E q \in NamedPanes \ {pane} :
       \/ /\ UpsertAgent(Self, q)
          /\ pane' = q
          /\ pc' = "retry"
          /\ UNCHANGED <<cur, out, msgVars, errorVars>>
       \/ /\ Fault
          /\ Ended("failed")
          /\ UNCHANGED <<pane, storeVars>>
  /\ UNCHANGED <<streakVars, compactVars, worldVars, shown>>

(* Mutation: a delivery that was not verified is tried again. *)
MutMark ==
  /\ pc = "mark"
  /\ \/ /\ out \in {"verified", "external", "unsupported"}
        /\ TryMsg(Settle(MarkDelivered(cur, "verified")))
        /\ Goto("top")
     \/ /\ out = "failed"
        /\ TryMsg(Settle(MarkFailed(cur)))
        /\ Goto("notice")
     \/ /\ out \in {"unverified", "requeue"}
        /\ Requeue
  /\ UNCHANGED <<pane, streakVars, compactVars, worldVars, shown>>

Mark ==
  /\ pc = "mark"
  /\ \/ /\ out \in {"verified", "external", "unsupported"}
        /\ TryMsg(Settle(MarkDelivered(cur, "verified")))
        /\ Goto(IF out = "verified" /\ Control /\ env[cur].body \in Resets THEN "settle" ELSE "top")
     \/ /\ out = "unverified"
        /\ TryMsg(Settle(MarkDelivered(cur, "unverified")))
        /\ Goto("notice")
     \/ /\ out = "failed"
        /\ TryMsg(Settle(MarkFailed(cur)))
        /\ Goto("notice")
     \/ /\ out = "requeue"
        /\ Requeue
  /\ UNCHANGED <<pane, streakVars, compactVars, worldVars, shown>>

(* After a session reset has settled the rows staged for it are released. *)
ReleaseResume ==
  /\ pc = "settle"
  /\ TryMsg(PromoteDeferred(Self, "resume"))
  /\ Goto("top")
  /\ UNCHANGED <<pane, streakVars, compactVars, worldVars, shown>>

(* Mutation: a failed notice is reported like any other row. *)
MutInsertFailureNotice ==
  /\ pc = "notice"
  /\ TryNotice(Notice(env[cur].from, "delivery_failure_notice", cur))
  /\ Goto("top")
  /\ UNCHANGED <<pane, streakVars, compactVars, worldVars, shown>>

(* maybeInsertFailureNotice: the sender is told, unless the row is itself  *)
(* such a notice.                                                          *)
InsertFailureNotice ==
  /\ pc = "notice"
  /\ IF env[cur].kind # "delivery_failure_notice"
     THEN TryNotice(Notice(env[cur].from, "delivery_failure_notice", cur))
     ELSE UNCHANGED <<storeVars, errorVars>>
  /\ Goto("top")
  /\ UNCHANGED <<pane, streakVars, compactVars, worldVars, shown>>

MailmanInit ==
  /\ pc = "off" /\ cur = 0 /\ pane = NoPane /\ out = "none"
  /\ fails = 0 /\ failId = 0 /\ staleFails = 0
  /\ compactAt = 0 /\ promotedAt = 0
  /\ shown = [i \in Ids |-> 0]
  /\ faults = 0 /\ crashes = 0

Iteration ==
  \/ LoopTop \/ StampResume \/ PromoteResume \/ Claim \/ HandlePing \/ ProviderCap
  \/ ResolveUnchecked \/ ResolveSession \/ ResolveByName \/ SessionStale \/ Drift \/ Liveness
  \/ Dedupe \/ Absorb \/ InsertDedupeNotice
  \/ GateDefer \/ GatePass \/ ProbeSafe \/ ProbeUnsafe \/ ProbeNotFound \/ Park
  \/ SkipUnsupported \/ PasteLands \/ Submit \/ PasteMisses \/ AutoHeal
  \/ Mark \/ ReleaseResume \/ InsertFailureNotice
=============================================================================
