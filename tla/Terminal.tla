------------------------------ MODULE Terminal ------------------------------
(***************************************************************************)
(* The pane the mailman writes to, as the code in internal/tmuxio expects  *)
(* it to behave: a program with an input box, and the operator at its      *)
(* keyboard.  Neither is part of the repository.                           *)
(***************************************************************************)
EXTENDS Screen

CONSTANTS
  Drafts,    \* the kinds of text the operator types
  Looks,     \* the sets of chrome the program shows by itself
  MaxInput,  \* bound: pieces in the input box
  MaxMoves   \* bound: how often operator or program act unprompted

ASSUME TerminalAssumption ==
  /\ Drafts \subseteq Texts
  /\ Looks \subseteq SUBSET Chrome
  /\ MaxInput \in Nat /\ MaxMoves \in Nat

VARIABLES
  adapter,    \* which program runs in the pane
  input,      \* the pieces in the input box, as drawn
  pending,    \* pieces pasted and not drawn yet
  ready,      \* the program takes an Enter; otherwise the redraw eats it
  restoring,  \* the program comes back from a compaction and draws late
  chrome,     \* what it draws around the input
  copy,       \* the pane is scrolled
  by,         \* message -> who submitted it: "nobody", "mailman", "operator"
  gone,       \* messages wiped from the input, or taken by a modal, unsubmitted
  moves,      \* how often operator or program acted unprompted
  recent      \* what happened since the mailman last looked for it:
              \* "typed", "drawn", "modal", "copy"

termVars == <<adapter, input, pending, ready, restoring, chrome, copy, by, gone, moves, recent>>

screen == [adapter |-> adapter, input |-> input, copy |-> copy, chrome |-> chrome,
           echo |-> {m \in Msgs : by[m] # "nobody"}]

(* Two captures of such a pane may differ. *)
Animated == chrome \cap {"working", "compaction"} # {} \/ (~ready /\ Visible(screen))

Held(pieces) == Msgs \cap ToSet(pieces)

-----------------------------------------------------------------------------
(* Keys, whoever presses them *)

(* Enter leaves copy mode, answers a modal, is eaten by a redraw, or       *)
(* submits what is in the input.  On an empty input it does nothing.       *)
Enter(who) ==
  /\ IF copy THEN copy' = FALSE /\ UNCHANGED <<input, chrome, by>>
     ELSE IF ~Visible(screen) THEN chrome' = chrome \ Modals /\ UNCHANGED <<input, copy, by>>
     ELSE IF ~ready \/ "compaction" \in chrome \/ input = <<>> THEN UNCHANGED <<input, chrome, copy, by>>
     ELSE /\ input' = <<>>
          /\ by' = [m \in Msgs |-> IF m \in Held(input) /\ by[m] = "nobody" THEN who ELSE by[m]]
          /\ chrome' = {"working"}
          /\ UNCHANGED copy
  /\ UNCHANGED <<adapter, pending, ready, restoring, gone>>

(* A paste reaches the program even when the pane is scrolled; a modal     *)
(* takes it for keystrokes of its own.                                     *)
Pasted(m) ==
  /\ IF ~Visible(screen) THEN gone' = gone \cup {m} /\ UNCHANGED <<input, pending>>
     ELSE IF restoring THEN pending' = Append(pending, m) /\ UNCHANGED <<input, gone>>
     ELSE input' = Append(input, m) /\ UNCHANGED <<pending, gone>>
  /\ UNCHANGED <<adapter, ready, restoring, chrome, copy, by>>

(* The presses of Ctrl+U; copy mode and a modal keep them to themselves. *)
Wipe ==
  /\ IF copy \/ ~Visible(screen) THEN UNCHANGED <<input, gone>>
     ELSE /\ input' = <<>>
          /\ gone' = gone \cup {m \in Held(input) : by[m] = "nobody"}
  /\ UNCHANGED <<adapter, pending, ready, restoring, chrome, copy, by>>

-----------------------------------------------------------------------------
(* The operator *)

Unprompted ==
  /\ moves < MaxMoves
  /\ moves' = moves + 1

Type ==
  /\ Unprompted
  /\ ~copy /\ Visible(screen) /\ Len(input) < MaxInput
  /\ \E t \in Drafts : input' = Append(input, t)
  /\ recent' = recent \cup {"typed"}
  /\ UNCHANGED <<adapter, pending, ready, restoring, chrome, copy, by, gone>>

OperatorEnters ==
  /\ Unprompted
  /\ Enter("operator")
  /\ UNCHANGED recent

OperatorWipes ==
  /\ Unprompted
  /\ input # <<>>
  /\ Wipe
  /\ UNCHANGED recent

OperatorScrolls ==
  /\ Unprompted
  /\ copy' = ~copy
  /\ recent' = IF copy' THEN recent \cup {"copy"} ELSE recent
  /\ UNCHANGED <<adapter, input, pending, ready, restoring, chrome, by, gone>>

-----------------------------------------------------------------------------
(* The program *)

(* Only claude has a resume modal. *)
ProgramShows ==
  /\ Unprompted
  /\ \E look \in Looks :
       /\ look # chrome /\ chrome' = look
       /\ "resume" \in look => adapter = "claude"
       /\ recent' = IF look \cap Modals # {} THEN recent \cup {"modal"} ELSE recent
  /\ UNCHANGED <<adapter, input, pending, ready, restoring, copy, by, gone>>

(* Work ends, a popup is answered elsewhere, an error or a limit goes. *)
ProgramRests ==
  /\ chrome # {}
  /\ chrome' = {}
  /\ UNCHANGED <<adapter, input, pending, ready, restoring, copy, by, gone, moves, recent>>

ProgramLags ==
  /\ Unprompted
  /\ ready /\ ready' = FALSE
  /\ UNCHANGED <<adapter, input, pending, restoring, chrome, copy, by, gone, recent>>

ProgramCatchesUp ==
  /\ ~ready /\ ~restoring /\ ready' = TRUE
  /\ UNCHANGED <<adapter, input, pending, restoring, chrome, copy, by, gone, moves, recent>>

ProgramDraws ==
  /\ pending # <<>>
  /\ input' = Append(input, Head(pending)) /\ pending' = Tail(pending)
  /\ recent' = recent \cup {"drawn"}
  /\ UNCHANGED <<adapter, ready, restoring, chrome, copy, by, gone, moves>>

ProgramRestored ==
  /\ restoring /\ pending = <<>>
  /\ restoring' = FALSE
  /\ UNCHANGED <<adapter, input, pending, ready, chrome, copy, by, gone, moves, recent>>

TermInit ==
  /\ adapter \in Adapters
  /\ input = <<>> /\ pending = <<>>
  /\ restoring \in BOOLEAN /\ ready = ~restoring
  /\ chrome = {} /\ copy = FALSE
  /\ by = [m \in Msgs |-> "nobody"] /\ gone = {}
  /\ moves = 0 /\ recent = {}
=============================================================================
