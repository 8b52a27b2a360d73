-------------------------------- MODULE Gate --------------------------------
(***************************************************************************)
(* The way of a row to the paste: the observe gate                         *)
(* (internal/tmuxio/observe_gate.go), the flush of a draft the operator    *)
(* left behind, and the safety probe before the paste                      *)
(* (internal/cli/serve.go).  A poll of the gate is one step and takes one  *)
(* unit of time; what the operator and the program do comes in between.    *)
(* A row is never sent with --force-rate-limited here, and the gate does   *)
(* not deliver to a working pane (both are the defaults).                  *)
(***************************************************************************)
EXTENDS Terminal

CONSTANTS
  DraftNotices,   \* rows of kind stranded_draft, which flush nothing
  StaleAfter,     \* InputStaleThreshold
  MaxWait,        \* MaxWait of the gate
  FailThreshold,  \* copyModeQueryFailDeferThreshold
  MaxErrors       \* bound: how many calls of tmux or the store fail

ASSUME GateAssumption ==
  /\ DraftNotices \subseteq Msgs
  /\ StaleAfter \in Nat \ {0} /\ MaxWait \in Nat
  /\ FailThreshold \in Nat \ {0} /\ MaxErrors \in Nat

VARIABLES
  row,       \* message -> its state
  stage,     \* where the mailman stands
  cur,       \* the row in hand
  waited,    \* how long the gate has been polling
  seen,      \* hashSeen: the content it was taken of
  seenAt,    \* hashSeenAt, NoHash if there is none
  failRun,   \* copyModeFailRun
  content,   \* lastContent, then what is to be archived
  archived,  \* what was archived for the row in hand
  settle,    \* postCompactSettleUntil lies ahead
  errors     \* how many calls failed

gateVars == <<waited, seen, seenAt, failRun, content, archived>>

RowStates == {"queued", "delivering", "delivered", "boxed", "failed"}

NoHash == MaxWait + 1

Forget ==
  /\ waited' = 0 /\ seen' = NoContent /\ seenAt' = NoHash /\ failRun' = 0
  /\ content' = NoContent /\ archived' = NoContent

Fails ==
  /\ errors < MaxErrors
  /\ errors' = errors + 1

(* The mailman looks and learns of everything in what, except of what a    *)
(* popup hides.                                                            *)
Looked(what) ==
  recent' = recent \ (IF Visible(screen) THEN what ELSE what \ {"typed", "drawn"})

Untouched == UNCHANGED <<adapter, input, pending, ready, restoring, chrome, copy, by, gone, moves>>

Revert ==
  /\ row' = [row EXCEPT ![cur] = "queued"]
  /\ stage' = "claim"
  /\ Forget

Claim ==
  /\ stage = "claim"
  /\ \E m \in Msgs :
       /\ row[m] = "queued"
       /\ cur' = m
       /\ row' = [row EXCEPT ![m] = "delivering"]
  /\ stage' = "gate"
  /\ Forget
  /\ UNCHANGED <<termVars, settle, errors>>

-----------------------------------------------------------------------------
(* The observe gate *)

Answers(state) == state \in AgentStates(screen, Animated)

GateIdle ==
  /\ stage = "gate" /\ Answers("idle")
  /\ stage' = "probe"
  /\ Forget
  /\ UNCHANGED <<termVars, row, cur, settle, errors>>

(* AgentState itself fails: delivering anyway, the probe decides. *)
GateError ==
  /\ stage = "gate" /\ Fails
  /\ stage' = "probe"
  /\ Forget
  /\ UNCHANGED <<termVars, row, cur, settle>>

GateLimited ==
  /\ stage = "gate" /\ (Answers("rate-limited") \/ Answers("usage-limited"))
  /\ Revert
  /\ UNCHANGED <<termVars, cur, settle, errors>>

Patient == waited < MaxWait

(* A stale or given-up gate leaves the draft it saw to the flush. *)
AfterGate(draft) == IF draft # NoContent /\ cur \notin DraftNotices THEN "flush" ELSE "probe"

(* The operator drafts: hash the input, and pass once it has not changed   *)
(* for StaleAfter.  The hash is kept when the pane shows something else    *)
(* in between.                                                             *)
GateDraft ==
  /\ stage = "gate" /\ Answers("awaiting-operator")
  /\ \/ content' = ExtractInputContent(screen) /\ UNCHANGED errors
     \/ content' = NoContent /\ Fails
  /\ LET since == IF seenAt = NoHash \/ content' # seen THEN waited ELSE seenAt
     IN IF waited - since >= StaleAfter \/ ~Patient
        THEN /\ stage' = AfterGate(content')
             /\ UNCHANGED <<waited, seen, seenAt>>
        ELSE /\ waited' = waited + 1 /\ seen' = content' /\ seenAt' = since
             /\ UNCHANGED stage
  /\ failRun' = 0
  /\ Looked({"typed", "drawn"}) /\ Untouched
  /\ UNCHANGED <<archived, row, cur, settle>>

(* The pane_in_mode query fails: unknown, and too often in a row, or at    *)
(* the deadline, the row goes back.                                        *)
GateUnreadable ==
  /\ stage = "gate" /\ Fails
  /\ IF failRun + 1 >= FailThreshold \/ ~Patient
     THEN Revert
     ELSE /\ failRun' = failRun + 1 /\ waited' = waited + 1
          /\ UNCHANGED <<row, stage, seen, seenAt, content, archived>>
  /\ UNCHANGED <<termVars, cur, settle>>

(* Working, compaction, copy mode, an error, or unknown. *)
GateWait ==
  /\ stage = "gate" /\ Patient
  /\ \E s \in States \ {"idle", "awaiting-operator", "rate-limited", "usage-limited"} : Answers(s)
  /\ waited' = waited + 1 /\ failRun' = 0
  /\ UNCHANGED <<termVars, row, stage, cur, seen, seenAt, content, archived, settle, errors>>

GateCopyMode ==
  /\ stage = "gate" /\ ~Patient /\ Answers("in-copy-mode")
  /\ Revert
  /\ UNCHANGED <<termVars, cur, settle, errors>>

(* Any other state at the deadline: the row is delivered anyway. *)
GateGivesUp ==
  /\ stage = "gate" /\ ~Patient
  /\ \E s \in {"working", "at-rest-in-compaction", "errored", "unknown"} : Answers(s)
  /\ stage' = AfterGate(content)
  /\ failRun' = 0
  /\ UNCHANGED <<termVars, row, cur, waited, seen, seenAt, content, archived, settle, errors>>

-----------------------------------------------------------------------------
(* The flush: read again, archive, clear *)

(* Mutation: what the gate saw is archived. *)
MutFlushRead ==
  /\ stage = "flush"
  /\ stage' = "archive"
  /\ Looked({"typed", "drawn"}) /\ Untouched
  /\ UNCHANGED <<row, cur, gateVars, settle, errors>>

FlushRead ==
  /\ stage = "flush"
  /\ \/ /\ content' = ExtractInputContent(screen)
        /\ stage' = IF content' = NoContent THEN "clear" ELSE "archive"
        /\ Looked({"typed", "drawn"}) /\ Untouched
        /\ UNCHANGED errors
     \/ /\ Fails
        /\ stage' = "archive"
        /\ UNCHANGED <<termVars, content>>
  /\ UNCHANGED <<row, cur, waited, seen, seenAt, failRun, archived, settle>>

(* Without the archive nothing is cleared. *)
FlushArchive ==
  /\ stage = "archive"
  /\ \/ archived' = content /\ stage' = "clear" /\ UNCHANGED errors
     \/ Fails /\ stage' = "probe" /\ UNCHANGED archived
  /\ UNCHANGED <<termVars, row, cur, waited, seen, seenAt, failRun, content, settle>>

FlushClear ==
  /\ stage = "clear"
  /\ \/ Wipe /\ UNCHANGED <<moves, recent, errors>>
     \/ Fails /\ UNCHANGED termVars
  /\ stage' = "probe"
  /\ UNCHANGED <<row, cur, gateVars, settle>>

-----------------------------------------------------------------------------
(* The probe *)

(* Mutation: the probe trusts the gate. *)
MutProbeSafe ==
  /\ stage = "probe"
  /\ stage' = "check"
  /\ Forget
  /\ Looked({"typed", "drawn", "modal", "copy"}) /\ Untouched
  /\ UNCHANGED <<row, cur, settle, errors>>

ProbeSafe ==
  /\ stage = "probe"
  /\ \E s \in States : Answers(s) /\ ~IsPasteUnsafe(s)
  /\ stage' = "check"
  /\ Forget
  /\ Looked({"typed", "drawn", "modal", "copy"}) /\ Untouched
  /\ UNCHANGED <<row, cur, settle, errors>>

(* The copy-mode query fails: the probe, unlike the gate, goes by the      *)
(* captures.                                                               *)
ProbeBlind ==
  /\ stage = "probe" /\ Fails
  /\ \E s \in AgentStates([screen EXCEPT !.copy = FALSE], Animated) : ~IsPasteUnsafe(s)
  /\ stage' = "check"
  /\ Forget
  /\ Looked({"typed", "drawn", "modal"}) /\ Untouched
  /\ UNCHANGED <<row, cur, settle>>

ProbeUnsafe ==
  /\ stage = "probe"
  /\ \/ (\E s \in States : Answers(s) /\ IsPasteUnsafe(s)) /\ UNCHANGED errors
     \/ Fails
  /\ Revert
  /\ UNCHANGED <<termVars, cur, settle>>

GateInit ==
  /\ row = [m \in Msgs |-> "queued"]
  /\ stage = "claim" /\ cur = CHOOSE m \in Msgs : TRUE
  /\ waited = 0 /\ seen = NoContent /\ seenAt = NoHash /\ failRun = 0
  /\ content = NoContent /\ archived = NoContent
  /\ settle \in BOOLEAN /\ (restoring => settle)
  /\ errors = 0
=============================================================================
