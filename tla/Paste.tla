-------------------------------- MODULE Paste -------------------------------
(***************************************************************************)
(* The paste, the Enter and the look for the result: Deliver in            *)
(* internal/tmuxio/deliver.go, and the outcome switch of the mailman       *)
(* (internal/cli/serve.go).  A stage ends at the next call of tmux that    *)
(* writes to the pane; a capture and the cursor query after it are one     *)
(* look.                                                                   *)
(***************************************************************************)
EXTENDS Gate

CONSTANTS
  Retries,      \* len(retryDelays)
  Extra,        \* maxLoadAdaptiveExtraAttempts
  SettleExtra   \* postCompactExtraAttempts

ASSUME PasteAssumption == Retries \in Nat /\ Extra \in Nat /\ SettleExtra \in Nat

VARIABLES
  mode,      \* PostCompactSettle of the delivery in hand
  attempt,   \* how many polls the verification has made
  prev,      \* the capture of the poll before
  sawPaste,  \* sawPastePresent
  sawStuck,  \* sawStuckPasteWhileSettling
  fired,     \* firedAnyResubmit
  out,       \* how the delivery ended
  shown,     \* message -> how often it was pasted
  late       \* messages pasted while the program drew late, in ordinary mode

verifyVars == <<attempt, prev, sawPaste, sawStuck, fired>>

pasteVars == <<mode, verifyVars, out, shown, late>>

Outcomes == {"none", "verified", "external", "unverified", "raced", "stuck", "failed"}

Stages == {"claim", "gate", "flush", "archive", "clear", "probe",
           "check", "drain", "paste", "enter", "verify", "resubmit", "last", "mark"}

Frame == [input |-> input, chrome |-> chrome, echo |-> screen.echo]

NoFrame == [input |-> <<>>, chrome |-> {}, echo |-> Msgs]

Reset == attempt' = 0 /\ prev' = NoFrame /\ sawPaste' = FALSE /\ sawStuck' = FALSE /\ fired' = FALSE

Ends(o) == out' = o /\ stage' = "mark" /\ Reset

-----------------------------------------------------------------------------
(* Before the paste *)

(* Mutation: the check after the probe is left out. *)
MutCheck ==
  /\ stage = "check"
  /\ mode' = settle /\ settle' = FALSE
  /\ stage' = "paste"
  /\ UNCHANGED <<termVars, errors, verifyVars, out, row, cur, gateVars, shown, late>>

(* A paste that is still in the input is not added to, and a draft that    *)
(* came up since the probe is left alone.  A capture that fails and a      *)
(* cursor that cannot be anchored let the paste through.  The settle mode  *)
(* is used up whatever comes of it.                                        *)
Check ==
  /\ stage = "check"
  /\ mode' = settle /\ settle' = FALSE
  /\ \/ /\ PasteStillInInput(screen)
        /\ stage' = "drain" /\ UNCHANGED <<errors, verifyVars, out>>
     \/ /\ ~PasteStillInInput(screen)
        /\ \E c \in CursorViews(screen) :
             IF Anchored(c) /\ ~Cleared(c) THEN Ends("raced")
             ELSE stage' = "paste" /\ UNCHANGED <<verifyVars, out>>
        /\ UNCHANGED errors
     \/ /\ Fails
        /\ stage' = "paste" /\ UNCHANGED <<verifyVars, out>>
  /\ UNCHANGED <<termVars, row, cur, gateVars, shown, late>>

Drain ==
  /\ stage = "drain"
  /\ \/ Enter("mailman") /\ Ends("stuck") /\ UNCHANGED <<moves, recent, errors>>
     \/ Fails /\ Ends("failed") /\ UNCHANGED termVars
  /\ UNCHANGED <<row, cur, gateVars, settle, mode, shown, late>>

PasteChunk ==
  /\ stage = "paste"
  /\ \/ /\ Pasted(cur)
        /\ shown' = [shown EXCEPT ![cur] = @ + 1]
        /\ late' = IF restoring /\ ~mode THEN late \cup {cur} ELSE late
        /\ stage' = "enter"
        /\ UNCHANGED <<moves, recent, errors, verifyVars, out>>
     \/ Fails /\ Ends("failed") /\ UNCHANGED <<termVars, shown, late>>
  /\ UNCHANGED <<row, cur, gateVars, settle, mode>>

PressEnter ==
  /\ stage = "enter"
  /\ \/ Enter("mailman") /\ stage' = "verify" /\ UNCHANGED <<moves, recent, errors, out, verifyVars>>
     \/ Fails /\ Ends("failed") /\ UNCHANGED termVars
  /\ UNCHANGED <<row, cur, gateVars, settle, mode, shown, late>>

-----------------------------------------------------------------------------
(* Verification *)

Ceiling == Retries + IF mode THEN SettleExtra ELSE Extra

(* Mutation: an input that reads empty counts as submitted. *)
MutAccepts(cursor) ==
  /\ DeliverySubmitted(screen, cur, cursor)
  /\ ~LiveCompaction(screen)

(* A cleared input is believed unless the pane compacts, or it settles and *)
(* the paste has not been seen in it yet.                                  *)
Accepts(cursor) ==
  /\ DeliverySubmitted(screen, cur, cursor)
  /\ ~LiveCompaction(screen)
  /\ ~mode \/ ~Anchored(cursor) \/ sawPaste

Verified == IF mode /\ sawStuck /\ ~fired THEN "external" ELSE "verified"

(* The frame differs from the one before; at the first poll it counts as   *)
(* changing without having been seen to.                                   *)
Moves == {prev # Frame, prev # Frame \/ Animated}

(* Where the loop goes after a poll that does not accept. *)
Continue(present, changing) ==
  IF present /\ ~changing THEN "resubmit"
  ELSE IF attempt >= Ceiling \/ (attempt >= Retries /\ ~present) THEN "last"
  ELSE "verify"

Verify ==
  /\ stage = "verify"
  /\ \/ /\ \E c \in Cursors(screen) : Accepts(c)
        /\ Ends(Verified)
     \/ /\ \E c \in Cursors(screen) : ~Accepts(c)
        /\ \E moved \in Moves :
             LET present == PasteUnsubmitted(screen, cur)
                 changing == attempt = 0 \/ moved
             IN /\ sawPaste' = (sawPaste \/ present)
                /\ sawStuck' = (sawStuck \/ (present /\ attempt > 0 /\ moved))
                /\ stage' = Continue(present, changing)
        /\ attempt' = IF stage' = "verify" THEN attempt + 1 ELSE attempt
        /\ prev' = Frame
        /\ UNCHANGED <<fired, out>>
  /\ UNCHANGED <<termVars, row, cur, gateVars, settle, errors, mode, shown, late>>

(* A capture fails or the deadline of the delivery expires, the paste made *)
(* or not.                                                                 *)
VerifyFails ==
  /\ stage = "verify" /\ Fails
  /\ Ends("failed")
  /\ UNCHANGED <<termVars, row, cur, gateVars, settle, mode, shown, late>>

Resubmit ==
  /\ stage = "resubmit"
  /\ \/ /\ Enter("mailman")
        /\ fired' = TRUE
        /\ stage' = IF attempt >= Ceiling THEN "last" ELSE "verify"
        /\ attempt' = IF attempt >= Ceiling THEN attempt ELSE attempt + 1
        /\ UNCHANGED <<moves, recent, errors, out, prev, sawPaste, sawStuck>>
     \/ Fails /\ Ends("failed") /\ UNCHANGED termVars
  /\ UNCHANGED <<row, cur, gateVars, settle, mode, shown, late>>

(* The budget is spent.  A paste that was never resubmitted gets one more  *)
(* Enter, decided on the last capture.                                     *)
LastEnter ==
  /\ stage = "last"
  /\ LET kept == [screen EXCEPT !.input = prev.input, !.chrome = prev.chrome]
     IN IF PasteUnsubmitted(kept, cur) /\ ~fired
        THEN Enter("mailman") /\ UNCHANGED <<moves, recent>>
        ELSE UNCHANGED termVars
  /\ Ends("unverified")
  /\ UNCHANGED <<row, cur, gateVars, settle, errors, mode, shown, late>>

-----------------------------------------------------------------------------
(* Marking *)

(* Mutation: a raced delivery counts as one that is in the input box. *)
MutVerdict(o) ==
  CASE o \in {"verified", "external"} -> "delivered"
    [] o \in {"unverified", "raced", "stuck"} -> "boxed"
    [] o = "failed" -> "failed"

Verdict(o) ==
  CASE o \in {"verified", "external"} -> "delivered"
    [] o = "unverified" -> "boxed"
    [] o \in {"raced", "stuck"} -> "queued"
    [] o = "failed" -> "failed"

Mark ==
  /\ stage = "mark"
  /\ row' = [row EXCEPT ![cur] = Verdict(out)]
  /\ out' = "none" /\ mode' = FALSE /\ stage' = "claim"
  /\ UNCHANGED <<termVars, cur, gateVars, settle, errors, verifyVars, shown, late>>

PasteInit ==
  /\ mode = FALSE /\ attempt = 0 /\ prev = NoFrame
  /\ sawPaste = FALSE /\ sawStuck = FALSE /\ fired = FALSE
  /\ out = "none" /\ shown = [m \in Msgs |-> 0] /\ late = {}
=============================================================================
