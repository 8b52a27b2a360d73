------------------------------- MODULE Screen -------------------------------
(***************************************************************************)
(* What a look at a pane tells: the classifier of internal/tmuxio          *)
(* (AgentState) and the tests the delivery makes on a capture.             *)
(*                                                                         *)
(* A screen is a record: the adapter whose markers are searched for, the   *)
(* pieces in the input box, the messages echoed in the transcript, the     *)
(* chrome drawn around them, and whether the pane is scrolled.  A piece is *)
(* a message, or text of the operator: a word, a block of several lines,   *)
(* or a clip, a paste of his own that is drawn as a placeholder.           *)
(***************************************************************************)
EXTENDS Naturals, FiniteSets, SequencesExt

CONSTANTS
  Msgs,  \* the messages to deliver
  Long   \* those the program under the pane draws as a placeholder


Adapters == {"claude", "codex"}

Texts == {"word", "block", "clip"}

ASSUME ScreenAssumption ==
  /\ Msgs # {} /\ Msgs \cap Texts = {}
  /\ Long \subseteq Msgs

Modals == {"resume", "picker"}

Chrome == Modals \cup {"compaction", "usage", "rate", "working", "error"}

States == {"idle", "working", "awaiting-operator", "at-rest-in-compaction", "rate-limited",
           "usage-limited", "in-copy-mode", "errored", "unknown"}

(* The chrome a profile has a marker or a pattern for.  Codex draws its    *)
(* own working line; its popups are not characterised.                     *)
Recognised(adapter) ==
  IF adapter = "codex" THEN {"usage", "rate", "working"} ELSE Chrome \ {"working"}

Visible(s) == s.chrome \cap Modals = {}

Placeholder(piece) == piece \in Long \cup {"clip"}

-----------------------------------------------------------------------------
(* The cursor *)

(* Where the cursor query may put the cursor: at the prompt sentinel, past *)
(* it, or away from any sentinel row, as on the last line of a block.      *)
(* Codex parks it on an empty line below a placeholder, which reads as at. *)
CursorViews(s) ==
  IF ~Visible(s) THEN {"away"}
  ELSE IF s.input = <<>> THEN {"at"}
  ELSE IF Last(s.input) = "block" THEN {"away"}
  ELSE IF s.adapter = "codex" /\ Placeholder(Last(s.input)) THEN {"at", "past"}
  ELSE {"past"}

(* The query fails as well. *)
Cursors(s) == CursorViews(s) \cup {"failed"}

Anchored(cursor) == cursor \in {"at", "past"}

Cleared(cursor) == cursor = "at"

-----------------------------------------------------------------------------
(* Classification *)

Quiet(s) == Visible(s) /\ s.input = <<>>

(* agentState: the early returns in their order.  First those that no      *)
(* cursor is asked for.                                                    *)
ByChrome(s) ==
  LET seen == s.chrome \cap Recognised(s.adapter)
  IN IF s.copy THEN "in-copy-mode"
     ELSE IF "compaction" \in seen THEN "at-rest-in-compaction"
     ELSE IF "resume" \in seen THEN "awaiting-operator"
     ELSE IF "usage" \in seen THEN "usage-limited"
     ELSE IF "rate" \in seen THEN "rate-limited"
     ELSE IF "working" \in seen THEN "working"
     ELSE "unknown"

(* moved says that the two captures differ. *)
Classify(s, cursor, moved) ==
  LET seen == s.chrome \cap Recognised(s.adapter)
  IN IF ByChrome(s) # "unknown" THEN ByChrome(s)
     ELSE IF cursor = "past" THEN "awaiting-operator"
     ELSE IF moved THEN "working"
     ELSE IF "error" \in seen /\ Visible(s) THEN "errored"
     ELSE IF cursor = "at" THEN "idle"
     ELSE IF "picker" \in seen THEN "awaiting-operator"
     ELSE IF Quiet(s) THEN "idle"
     ELSE "unknown"

(* What AgentState may answer; an animated pane may, but need not, differ  *)
(* between the two captures.                                               *)
AgentStates(s, animated) ==
  UNION {{Classify(s, cursor, moved) : cursor \in Cursors(s)} : moved \in {FALSE, animated}}

IsPasteUnsafeForced(state) ==
  state \in {"awaiting-operator", "unknown", "at-rest-in-compaction", "in-copy-mode", "errored"}

IsPasteUnsafe(state) == IsPasteUnsafeForced(state) \/ state \in {"rate-limited", "usage-limited"}

-----------------------------------------------------------------------------
(* What is in the input *)

(* liveInputContains: below the bottom-most sentinel. *)
LiveMarker(s) == Visible(s) /\ \E p \in ToSet(s.input) : Placeholder(p)

LiveToken(s, m) == Visible(s) /\ m \in ToSet(s.input) /\ m \notin Long

(* Mutation: a stuck paste is not looked for. *)
MutPasteStillInInput(s) == FALSE

PasteStillInInput(s) == s.adapter = "codex" /\ LiveMarker(s)

PasteUnsubmitted(s, m) == LiveMarker(s) \/ LiveToken(s, m)

(* The token of a submitted placeholder of codex stays hidden. *)
TokenShown(s, m) ==
  \/ LiveToken(s, m)
  \/ m \in s.echo /\ (s.adapter = "codex" => m \notin Long)

DeliverySubmitted(s, m, cursor) ==
  /\ ~PasteUnsubmitted(s, m)
  /\ IF Anchored(cursor) THEN Cleared(cursor) ELSE TokenShown(s, m)

LiveCompaction(s) == "compaction" \in s.chrome \cap Recognised(s.adapter)

(* extractInputContent reads from the first sentinel row down: for codex,  *)
(* whose transcript shows the sentinel too, the transcript comes along.    *)
(* A placeholder hides the text behind it.                                 *)
Shown(piece) == IF Placeholder(piece) THEN "clip" ELSE piece

ExtractInputContent(s) ==
  [above |-> IF s.adapter = "codex" THEN s.echo ELSE {},
   rows  |-> IF Visible(s) THEN [k \in DOMAIN s.input |-> Shown(s.input[k])] ELSE <<>>]

NoContent == [above |-> {}, rows |-> <<>>]
=============================================================================
