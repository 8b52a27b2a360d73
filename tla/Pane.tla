-------------------------------- MODULE Pane --------------------------------
(***************************************************************************)
(* Messages on their way into one pane: gate, flush, probe and paste       *)
(* against a program that lags, compacts and opens popups, and an operator *)
(* who types, submits, wipes and scrolls at any time.                      *)
(***************************************************************************)
EXTENDS Paste

paneVars == <<termVars, row, stage, cur, gateVars, settle, errors, pasteVars>>

PaneInit == TermInit /\ GateInit /\ PasteInit

Mailman == <<row, stage, cur, gateVars, settle, errors, pasteVars>>

World(Step) == Step /\ UNCHANGED Mailman

Gating(Step) == Step /\ UNCHANGED pasteVars

PaneNext ==
  \/ World(Type) \/ World(OperatorEnters) \/ World(OperatorWipes) \/ World(OperatorScrolls)
  \/ World(ProgramShows) \/ World(ProgramRests) \/ World(ProgramLags) \/ World(ProgramCatchesUp)
  \/ World(ProgramDraws) \/ World(ProgramRestored)
  \/ Gating(Claim)
  \/ Gating(GateIdle) \/ Gating(GateError) \/ Gating(GateLimited) \/ Gating(GateDraft)
  \/ Gating(GateUnreadable) \/ Gating(GateWait) \/ Gating(GateCopyMode) \/ Gating(GateGivesUp)
  \/ Gating(FlushRead) \/ Gating(FlushArchive) \/ Gating(FlushClear)
  \/ Gating(ProbeSafe) \/ Gating(ProbeBlind) \/ Gating(ProbeUnsafe)
  \/ Check \/ Drain \/ PasteChunk \/ PressEnter
  \/ Verify \/ VerifyFails \/ Resubmit \/ LastEnter \/ Mark

PaneSpec == PaneInit /\ [][PaneNext]_paneVars

-----------------------------------------------------------------------------
(* Properties *)

PaneTypeOK ==
  /\ adapter \in Adapters /\ input \in Seq(Msgs \cup Texts) /\ pending \in Seq(Msgs)
  /\ ready \in BOOLEAN /\ restoring \in BOOLEAN /\ chrome \subseteq Chrome /\ copy \in BOOLEAN
  /\ by \in [Msgs -> {"nobody", "mailman", "operator"}] /\ gone \subseteq Msgs
  /\ moves \in 0..MaxMoves /\ recent \subseteq {"typed", "drawn", "modal", "copy"}
  /\ row \in [Msgs -> RowStates] /\ stage \in Stages /\ cur \in Msgs
  /\ waited \in 0..MaxWait /\ seenAt \in 0..NoHash /\ failRun \in 0..(FailThreshold - 1)
  /\ settle \in BOOLEAN /\ errors \in 0..MaxErrors /\ mode \in BOOLEAN
  /\ attempt \in 0..Ceiling
  /\ {sawPaste, sawStuck, fired} \subseteq BOOLEAN
  /\ out \in Outcomes /\ shown \in [Msgs -> Nat] /\ late \subseteq Msgs

MailmanEnters == stage \in {"drain", "enter", "resubmit", "last"} /\ stage' # stage

(* No Enter of the mailman submits what the operator wrote, unless he      *)
(* wrote it, or a popup hid it, after the probe (pasteUnsubmitted,         *)
(* deliver.go:745, and ErrInputRaced).  Three cases are beyond the code:   *)
(* a block, below whose last line the cursor finds no sentinel, a paste of *)
(* his own, drawn as ours is, and the drain of a stuck paste, which takes  *)
(* along what stands beside it.                                            *)
Unreadable == stage = "drain" \/ ToSet(input) \cap {"block", "clip"} # {}

DraftStep ==
  MailmanEnters /\ input' = <<>> /\ ToSet(input) \cap Texts # {} =>
    recent \cap {"typed", "modal"} # {} \/ errors > 0 \/ Unreadable

DraftsAreSpared == [][DraftStep]_paneVars

(* No paste and no Enter of the mailman goes to a popup that stood there   *)
(* when the probe looked; only the resume modal is told from work while    *)
(* the screen moves (classifier.go:262-282).  And nothing is pasted into a *)
(* pane that was scrolled at the probe (observe-gate.md:41), if the query  *)
(* for it does not fail.                                                   *)
ModalStep ==
  /\ /\ ~Visible(screen)
     /\ \/ stage = "paste" /\ shown' # shown
        \/ MailmanEnters /\ chrome' # chrome
     => \/ "modal" \in recent
        \/ Animated /\ ~(adapter = "claude" /\ "resume" \in chrome)
  /\ stage = "paste" /\ shown' # shown /\ copy => "copy" \in recent \/ errors > 0

ModalsAreSpared == [][ModalStep]_paneVars

(* The flush clears only what it archived, or what came after its last     *)
(* look, or what a popup hid from it (serve.go:2270-2353).                 *)
ClearStep ==
  stage = "clear" /\ stage' # stage /\ input' # input =>
    \/ recent \cap {"typed", "drawn", "modal"} # {}
    \/ [k \in DOMAIN input |-> Shown(input[k])] = archived.rows

ClearedWasArchived == [][ClearStep]_paneVars

(* No message is pasted onto one that is still in the input, unless the    *)
(* program drew it, or a popup hid it, after the probe, or a block keeps   *)
(* the cursor off the prompt row (#610, ErrPriorPasteStuck and             *)
(* ErrInputRaced).                                                         *)
StackStep ==
  stage = "paste" /\ shown' # shown /\ Held(input) # {} =>
    recent \cap {"drawn", "modal"} # {} \/ errors > 0 \/ "block" \in ToSet(input)

NoStacking == [][StackStep]_paneVars

(* A verified message was submitted by somebody, or wiped or swallowed     *)
(* before; a settling pane does not make the verification believe an empty *)
(* input (#336, #873, the acceptance in deliver.go:557-597).  One put down *)
(* to somebody else's Enter was not submitted by the mailman (#865,        *)
(* deliver.go:592).  A paste of the operator's own, drawn as ours is,      *)
(* could stand in for the message: he makes none where this is checked.    *)
VerifiedWasSubmitted ==
  /\ out \in {"verified", "external"} =>
       by[cur] # "nobody" \/ cur \in gone \/ cur \in late
  /\ out = "external" => by[cur] # "mailman"

(* The pane implements the promise of the bus. *)
D == INSTANCE Delivery WITH
       Rows   <- Msgs,
       phase  <- [m \in Msgs |-> CASE row[m] \in {"queued", "delivering"} -> "pending"
                                   [] row[m] \in {"delivered", "boxed"} -> "done"
                                   [] row[m] = "failed" -> "dropped"],
       shows  <- shown,
       silent <- {}

PaneImplementsDelivery == D!DeliverySpec
=============================================================================
