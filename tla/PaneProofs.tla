------------------------------ MODULE PaneProofs ------------------------------
(***************************************************************************)
(* What the way into the pane guarantees for any messages, any chrome the  *)
(* program may show and any number of retries, errors and acts of the      *)
(* operator: it implements Delivery, clears only what it archived, keeps   *)
(* its keys off popups and drafts, and calls a message verified only when  *)
(* it left the input.                                                      *)
(***************************************************************************)
EXTENDS Pane, TLAPS

-----------------------------------------------------------------------------
(* Sequences of pieces *)

LEMMA ToSetAppend ==
  ASSUME NEW S, NEW s \in Seq(S), NEW x \in S
  PROVE  Append(s, x) \in Seq(S) /\ ToSet(Append(s, x)) = ToSet(s) \cup {x}
<1>1. /\ Append(s, x) \in Seq(S)
      /\ DOMAIN Append(s, x) = 1..(Len(s) + 1) /\ DOMAIN s = 1..Len(s) /\ Len(s) \in Nat
      /\ \A i \in 1..Len(s) : Append(s, x)[i] = s[i]
      /\ Append(s, x)[Len(s) + 1] = x
  OBVIOUS
<1> QED
  BY <1>1 DEF ToSet

LEMMA ToSetEmpty ==
  ASSUME NEW S, NEW s \in Seq(S)
  PROVE  ToSet(s) = {} <=> s = <<>>
<1>1. Len(s) \in Nat /\ DOMAIN s = 1..Len(s) /\ (s = <<>> <=> Len(s) = 0)
  OBVIOUS
<1>2. s # <<>> => s[1] \in ToSet(s)
  BY <1>1 DEF ToSet
<1>3. s = <<>> => ToSet(s) = {}
  BY <1>1 DEF ToSet
<1> QED
  BY <1>2, <1>3

LEMMA ToSetNone == ToSet(<<>>) = {}
  BY DEF ToSet

LEMMA ToSetTail ==
  ASSUME NEW S, NEW s \in Seq(S), s # <<>>
  PROVE  /\ Head(s) \in S /\ Tail(s) \in Seq(S)
         /\ ToSet(s) = {Head(s)} \cup ToSet(Tail(s))
<1>1. /\ Tail(s) \in Seq(S) /\ Head(s) = s[1] /\ Len(s) \in Nat /\ Len(s) > 0
      /\ DOMAIN s = 1..Len(s) /\ DOMAIN Tail(s) = 1..(Len(s) - 1)
      /\ \A i \in 1..(Len(s) - 1) : Tail(s)[i] = s[i + 1]
  OBVIOUS
<1>2. ASSUME NEW i \in 1..Len(s) PROVE s[i] \in {Head(s)} \cup ToSet(Tail(s))
  <2>1. CASE i = 1
    BY <1>1, <2>1
  <2>2. CASE i # 1
    <3>1. i - 1 \in 1..(Len(s) - 1) /\ Tail(s)[i - 1] = s[i]
      BY <1>1, <2>2
    <3> QED
      BY <1>1, <3>1 DEF ToSet
  <2> QED
    BY <2>1, <2>2
<1>3. ASSUME NEW i \in 1..(Len(s) - 1) PROVE Tail(s)[i] \in ToSet(s)
  BY <1>1 DEF ToSet
<1>4. Head(s) \in ToSet(s)
  BY <1>1 DEF ToSet
<1> QED
  BY <1>1, <1>2, <1>3, <1>4 DEF ToSet

LEMMA LastInSet ==
  ASSUME NEW S, NEW s \in Seq(S), s # <<>>
  PROVE  Last(s) \in ToSet(s)
<1>1. Len(s) \in DOMAIN s
  OBVIOUS
<1> QED
  BY <1>1 DEF Last, ToSet

LEMMA ToSetInside ==
  ASSUME NEW S, NEW s \in Seq(S)
  PROVE  ToSet(s) \subseteq S
  BY DEF ToSet

-----------------------------------------------------------------------------
(* What a step does to the pane *)

Popup == chrome \cap Modals # {}

LEMMA VisibleMeans == Visible(screen) <=> ~Popup
  BY DEF Visible, screen, Popup

cargo == <<input, pending, by, gone>>

TypesText ==
  /\ \E t \in Drafts : input' = Append(input, t)
  /\ "typed" \in recent'
  /\ UNCHANGED <<pending, by, gone>>

Submits(who) ==
  /\ input # <<>> /\ input' = <<>>
  /\ by' = [m \in Msgs |-> IF m \in Held(input) /\ by[m] = "nobody" THEN who ELSE by[m]]
  /\ UNCHANGED <<pending, gone>>

Wipes ==
  /\ input' = <<>>
  /\ gone' = gone \cup {m \in Held(input) : by[m] = "nobody"}
  /\ UNCHANGED <<pending, by>>

Draws ==
  /\ pending # <<>>
  /\ input' = Append(input, Head(pending)) /\ pending' = Tail(pending)
  /\ "drawn" \in recent'
  /\ UNCHANGED <<by, gone>>

(* What an unprompted step does to popups and to the scrolling. *)
Surface ==
  /\ recent \subseteq recent'
  /\ \/ chrome' \cap Modals = {}
     \/ chrome' = chrome
     \/ /\ chrome' \in Looks /\ "modal" \in recent'
        /\ "resume" \in chrome' => adapter = "claude"
  /\ copy' => copy \/ "copy" \in recent'

WorldStep ==
  /\ UNCHANGED <<Mailman, adapter>>
  /\ Surface
  /\ \/ UNCHANGED cargo \/ TypesText \/ Submits("operator") \/ Wipes \/ Draws

LEMMA EnterShape ==
  ASSUME NEW who, Enter(who)
  PROVE  /\ UNCHANGED <<adapter, pending, ready, restoring, gone>>
         /\ UNCHANGED cargo \/ (~copy /\ ~Popup /\ Submits(who))
         /\ chrome' = chrome \/ (chrome' \cap Modals = {} /\ (chrome' \subseteq chrome \/ chrome' = {"working"}))
         /\ copy' = copy \/ copy' = FALSE
<1> USE VisibleMeans
<1>1. CASE copy
  BY <1>1 DEF Enter, cargo
<1>2. CASE ~copy /\ ~Visible(screen)
  BY <1>2 DEF Enter, cargo
<1>3. CASE ~copy /\ Visible(screen) /\ (~ready \/ "compaction" \in chrome \/ input = <<>>)
  BY <1>3 DEF Enter, cargo
<1>4. CASE ~copy /\ Visible(screen) /\ ~(~ready \/ "compaction" \in chrome \/ input = <<>>)
  BY <1>4 DEF Enter, Submits, Modals
<1> QED
  BY <1>1, <1>2, <1>3, <1>4

OutsideTurn ==
  \/ World(Type) \/ World(OperatorEnters) \/ World(OperatorWipes) \/ World(OperatorScrolls)
  \/ World(ProgramShows) \/ World(ProgramRests) \/ World(ProgramLags) \/ World(ProgramCatchesUp)
  \/ World(ProgramDraws) \/ World(ProgramRestored)

GateTurn ==
  \/ Gating(Claim)
  \/ Gating(GateIdle) \/ Gating(GateError) \/ Gating(GateLimited) \/ Gating(GateDraft)
  \/ Gating(GateUnreadable) \/ Gating(GateWait) \/ Gating(GateCopyMode) \/ Gating(GateGivesUp)
  \/ Gating(FlushRead) \/ Gating(FlushArchive) \/ Gating(FlushClear)
  \/ Gating(ProbeSafe) \/ Gating(ProbeBlind) \/ Gating(ProbeUnsafe)

PasteTurn ==
  \/ Check \/ Drain \/ PasteChunk \/ PressEnter
  \/ Verify \/ VerifyFails \/ Resubmit \/ LastEnter \/ Mark

LEMMA WorldShape ==
  ASSUME OutsideTurn PROVE WorldStep
<1>1. CASE World(Type)
  BY <1>1 DEF World, Type, WorldStep, Surface, TypesText
<1>2. CASE World(OperatorEnters)
  <2>1. Enter("operator") /\ UNCHANGED recent /\ UNCHANGED Mailman
    BY <1>2 DEF World, OperatorEnters
  <2> QED
    BY <2>1, EnterShape DEF WorldStep, Surface
<1>3. CASE World(OperatorWipes)
  BY <1>3 DEF World, OperatorWipes, Wipe, WorldStep, Surface, Wipes, cargo
<1>4. CASE World(OperatorScrolls)
  BY <1>4 DEF World, OperatorScrolls, WorldStep, Surface, cargo
<1>5. CASE World(ProgramShows)
  BY <1>5 DEF World, ProgramShows, WorldStep, Surface, cargo
<1>6. CASE World(ProgramRests)
  BY <1>6 DEF World, ProgramRests, WorldStep, Surface, cargo
<1>7. CASE World(ProgramLags) \/ World(ProgramCatchesUp) \/ World(ProgramRestored)
  BY <1>7 DEF World, ProgramLags, ProgramCatchesUp, ProgramRestored, WorldStep, Surface, cargo
<1>8. CASE World(ProgramDraws)
  BY <1>8 DEF World, ProgramDraws, WorldStep, Surface, Draws
<1> QED
  BY <1>1, <1>2, <1>3, <1>4, <1>5, <1>6, <1>7, <1>8 DEF OutsideTurn

LEMMA TurnCases == PaneNext => OutsideTurn \/ GateTurn \/ PasteTurn
  BY DEF PaneNext, OutsideTurn, GateTurn, PasteTurn

-----------------------------------------------------------------------------
(* Types *)

TermType ==
  /\ adapter \in Adapters /\ input \in Seq(Msgs \cup Texts) /\ pending \in Seq(Msgs)
  /\ ready \in BOOLEAN /\ restoring \in BOOLEAN /\ chrome \subseteq Chrome /\ copy \in BOOLEAN
  /\ by \in [Msgs -> {"nobody", "mailman", "operator"}] /\ gone \subseteq Msgs
  /\ moves \in 0..MaxMoves /\ recent \subseteq {"typed", "drawn", "modal", "copy"}

GateType ==
  /\ row \in [Msgs -> RowStates] /\ stage \in Stages /\ cur \in Msgs
  /\ waited \in 0..MaxWait /\ seenAt \in 0..NoHash /\ failRun \in 0..(FailThreshold - 1)
  /\ settle \in BOOLEAN /\ errors \in 0..MaxErrors

PasteType ==
  /\ mode \in BOOLEAN /\ attempt \in 0..Ceiling
  /\ {sawPaste, sawStuck, fired} \subseteq BOOLEAN
  /\ out \in Outcomes /\ shown \in [Msgs -> Nat] /\ late \subseteq Msgs

LEMMA TypeParts == PaneTypeOK <=> TermType /\ GateType /\ PasteType
  BY DEF PaneTypeOK, TermType, GateType, PasteType

Polls == {"verify", "resubmit", "last"}

(* A delivery has an outcome while it is marked, and the verification     *)
(* leaves nothing behind.                                                  *)
PollInv ==
  /\ stage = "mark" <=> out # "none"
  /\ stage \notin Polls => attempt = 0 /\ sawPaste = FALSE /\ sawStuck = FALSE /\ fired = FALSE

LEMMA CargoType ==
  ASSUME TermType,
         UNCHANGED cargo \/ TypesText \/ Wipes \/ Draws \/ (\E who \in {"mailman", "operator"} : Submits(who))
  PROVE  /\ input' \in Seq(Msgs \cup Texts) /\ pending' \in Seq(Msgs)
         /\ by' \in [Msgs -> {"nobody", "mailman", "operator"}] /\ gone' \subseteq Msgs
<1>1. CASE UNCHANGED cargo
  BY <1>1 DEF TermType, cargo
<1>2. CASE TypesText
  BY <1>2, TerminalAssumption DEF TermType, TypesText
<1>3. CASE Wipes
  BY <1>3 DEF TermType, Wipes, Held
<1>4. CASE Draws
  <2>1. Head(pending) \in Msgs /\ Tail(pending) \in Seq(Msgs)
    BY <1>4, ToSetTail DEF TermType, Draws
  <2> QED
    BY <1>4, <2>1 DEF TermType, Draws
<1>5. CASE \E who \in {"mailman", "operator"} : Submits(who)
  BY <1>5 DEF TermType, Submits
<1> QED
  BY <1>1, <1>2, <1>3, <1>4, <1>5

LEMMA OutsideTermType == ASSUME TermType, OutsideTurn PROVE TermType'
<1>1. WorldStep
  BY WorldShape
<1>2. /\ input' \in Seq(Msgs \cup Texts) /\ pending' \in Seq(Msgs)
      /\ by' \in [Msgs -> {"nobody", "mailman", "operator"}] /\ gone' \subseteq Msgs
  BY <1>1, CargoType DEF WorldStep
<1>3. adapter' \in Adapters
  BY <1>1 DEF WorldStep, TermType
<1>4. moves' \in 0..MaxMoves
  <2>1. moves' = moves \/ (moves < MaxMoves /\ moves' = moves + 1)
    BY DEF OutsideTurn, World, Type, OperatorEnters, OperatorWipes, OperatorScrolls, ProgramShows,
           ProgramRests, ProgramLags, ProgramCatchesUp, ProgramDraws, ProgramRestored, Unprompted
  <2> QED
    BY <2>1, TerminalAssumption DEF TermType
<1>5. recent' \subseteq {"typed", "drawn", "modal", "copy"}
  BY DEF TermType, OutsideTurn, World, Type, OperatorEnters, OperatorWipes, OperatorScrolls, ProgramShows,
         ProgramRests, ProgramLags, ProgramCatchesUp, ProgramDraws, ProgramRestored
<1>6. ready' \in BOOLEAN /\ restoring' \in BOOLEAN /\ copy' \in BOOLEAN /\ chrome' \subseteq Chrome
  <2>1. CASE World(OperatorEnters)
    <3>1. Enter("operator")
      BY <2>1 DEF World, OperatorEnters
    <3> QED
      BY <3>1, EnterShape DEF TermType, Chrome
  <2>2. CASE World(OperatorWipes)
    BY <2>2 DEF TermType, World, OperatorWipes, Wipe
  <2>3. CASE World(ProgramShows)
    BY <2>3, TerminalAssumption DEF TermType, World, ProgramShows
  <2>4. CASE World(Type) \/ World(OperatorScrolls) \/ World(ProgramRests)
             \/ World(ProgramLags) \/ World(ProgramCatchesUp)
             \/ World(ProgramDraws) \/ World(ProgramRestored)
    BY <2>4 DEF TermType, World, Type, OperatorScrolls, ProgramRests, ProgramLags, ProgramCatchesUp,
                ProgramDraws, ProgramRestored
  <2> QED
    BY <2>1, <2>2, <2>3, <2>4 DEF OutsideTurn
<1> QED
  BY <1>2, <1>3, <1>4, <1>5, <1>6 DEF TermType

(* What the gate, the flush and the probe do to the pane: they clear the   *)
(* input, or forget what they have looked at.                              *)
LEMMA GateTouches ==
  ASSUME GateTurn
  PROVE  /\ UNCHANGED <<adapter, pending, ready, restoring, chrome, copy, by, moves>>
         /\ recent' \subseteq recent
         /\ UNCHANGED cargo \/ (stage = "clear" /\ stage' = "probe" /\ ~copy /\ ~Popup /\ Wipes)
         /\ UNCHANGED pasteVars
<1>1. UNCHANGED pasteVars
  BY DEF GateTurn, Gating
<1>2. CASE Claim \/ GateIdle \/ GateError \/ GateLimited \/ GateUnreadable \/ GateWait
           \/ GateCopyMode \/ GateGivesUp \/ FlushArchive \/ ProbeUnsafe
  BY <1>1, <1>2 DEF Claim, GateIdle, GateError, GateLimited, GateUnreadable, GateWait, GateCopyMode,
                    GateGivesUp, FlushArchive, ProbeUnsafe, termVars, cargo
<1>3. CASE GateDraft \/ FlushRead \/ ProbeSafe \/ ProbeBlind
  BY <1>1, <1>3 DEF GateDraft, FlushRead, ProbeSafe, ProbeBlind, Looked, Untouched, termVars, cargo
<1>4. CASE FlushClear
  BY <1>1, <1>4, VisibleMeans DEF FlushClear, Wipe, Wipes, termVars, cargo
<1> QED
  BY <1>2, <1>3, <1>4 DEF GateTurn, Gating

LEMMA GateTermType == ASSUME TermType, GateTurn PROVE TermType'
<1>1. /\ input' \in Seq(Msgs \cup Texts) /\ pending' \in Seq(Msgs)
      /\ by' \in [Msgs -> {"nobody", "mailman", "operator"}] /\ gone' \subseteq Msgs
  BY GateTouches, CargoType
<1> QED
  BY <1>1, GateTouches DEF TermType

(* What the delivery does to the pane. *)
PastesInto(m) ==
  /\ \/ /\ Popup /\ gone' = gone \cup {m} /\ UNCHANGED <<input, pending>>
     \/ /\ ~Popup /\ restoring /\ pending' = Append(pending, m) /\ UNCHANGED <<input, gone>>
     \/ /\ ~Popup /\ ~restoring /\ input' = Append(input, m) /\ UNCHANGED <<pending, gone>>
  /\ UNCHANGED <<by, chrome, copy>>

LEMMA PasteTouches ==
  ASSUME PasteTurn
  PROVE  /\ UNCHANGED <<adapter, ready, restoring, moves, recent>>
         /\ \/ UNCHANGED cargo
            \/ stage \in {"drain", "enter", "resubmit", "last"} /\ ~Popup /\ ~copy /\ Submits("mailman")
            \/ stage = "paste" /\ stage' = "enter" /\ PastesInto(cur)
         /\ chrome' = chrome \/ (chrome' \cap Modals = {} /\ (chrome' \subseteq chrome \/ chrome' = {"working"}))
         /\ copy' = copy \/ copy' = FALSE
         /\ UNCHANGED <<cur, gateVars>>
<1>1. UNCHANGED <<cur, gateVars>>
  BY DEF PasteTurn, Check, Drain, PasteChunk, PressEnter, Verify, VerifyFails, Resubmit, LastEnter, Mark
<1>2. CASE Check \/ Verify \/ VerifyFails \/ Mark
  BY <1>1, <1>2 DEF Check, Verify, VerifyFails, Mark, termVars, cargo
<1>3. CASE Drain \/ PressEnter \/ Resubmit \/ LastEnter
  <2>1. UNCHANGED termVars \/ (Enter("mailman") /\ UNCHANGED <<moves, recent>>)
    BY <1>3 DEF Drain, PressEnter, Resubmit, LastEnter
  <2>2. stage \in {"drain", "enter", "resubmit", "last"}
    BY <1>3 DEF Drain, PressEnter, Resubmit, LastEnter
  <2> QED
    BY <1>1, <2>1, <2>2, EnterShape DEF termVars, cargo
<1>4. CASE PasteChunk
  <2>1. CASE UNCHANGED termVars
    BY <1>1, <2>1 DEF termVars, cargo
  <2>2. CASE Pasted(cur) /\ stage' = "enter" /\ UNCHANGED <<moves, recent>> /\ stage = "paste"
    BY <1>1, <2>2, VisibleMeans DEF Pasted, PastesInto
  <2> QED
    BY <1>4, <2>1, <2>2 DEF PasteChunk
<1> QED
  BY <1>2, <1>3, <1>4 DEF PasteTurn

LEMMA PasteTermType == ASSUME TermType, cur \in Msgs, PasteTurn PROVE TermType'
<1>1. /\ input' \in Seq(Msgs \cup Texts) /\ pending' \in Seq(Msgs)
      /\ by' \in [Msgs -> {"nobody", "mailman", "operator"}] /\ gone' \subseteq Msgs
  <2>1. CASE PastesInto(cur)
    <3>1. Append(pending, cur) \in Seq(Msgs) /\ Append(input, cur) \in Seq(Msgs \cup Texts)
      BY DEF TermType
    <3> QED
      BY <2>1, <3>1 DEF PastesInto, TermType
  <2> QED
    BY <2>1, PasteTouches, CargoType
<1> QED
  BY <1>1, PasteTouches DEF TermType, Chrome

LEMMA OutsideMailman ==
  ASSUME OutsideTurn, GateType, PasteType, PollInv
  PROVE  GateType' /\ PasteType' /\ PollInv'
<1>1. UNCHANGED Mailman
  BY WorldShape DEF WorldStep
<1> QED
  BY <1>1 DEF Mailman, GateType, PasteType, PollInv, gateVars, pasteVars, verifyVars, Ceiling

LEMMA GateMailman ==
  ASSUME GateTurn, GateType, PasteType, PollInv
  PROVE  GateType' /\ PasteType' /\ PollInv'
<1> USE GateAssumption
<1>1. UNCHANGED pasteVars
  BY GateTouches
<1>2. PasteType'
  BY <1>1 DEF PasteType, pasteVars, verifyVars, Ceiling
<1>3. /\ stage \notin Polls /\ stage' \notin Polls /\ stage' \in Stages
      /\ stage # "mark" /\ stage' # "mark"
  BY DEF GateTurn, Gating, Claim, GateIdle, GateError, GateLimited, GateDraft, GateUnreadable, GateWait,
         GateCopyMode, GateGivesUp, FlushRead, FlushArchive, FlushClear, ProbeSafe, ProbeBlind, ProbeUnsafe,
         Revert, AfterGate, Polls, Stages
<1>4. PollInv'
  BY <1>1, <1>3 DEF PollInv, pasteVars, verifyVars
<1>5. cur' \in Msgs /\ row' \in [Msgs -> RowStates]
  <2>1. CASE Claim
    BY <2>1 DEF Claim, GateType, RowStates
  <2>2. CASE ~Claim
    <3>1. UNCHANGED cur /\ (UNCHANGED row \/ row' = [row EXCEPT ![cur] = "queued"])
      BY <2>2 DEF GateTurn, Gating, GateIdle, GateError, GateLimited, GateDraft, GateUnreadable, GateWait,
         GateCopyMode, GateGivesUp, FlushRead, FlushArchive, FlushClear, ProbeSafe, ProbeBlind, ProbeUnsafe,
         Revert
    <3> QED
      BY <3>1 DEF GateType, RowStates
  <2> QED
    BY <2>1, <2>2
<1>6. settle' \in BOOLEAN /\ errors' \in 0..MaxErrors
  <2>1. settle' = settle /\ (errors' = errors \/ (errors < MaxErrors /\ errors' = errors + 1))
    BY DEF GateTurn, Gating, Claim, GateIdle, GateError, GateLimited, GateDraft, GateUnreadable, GateWait,
         GateCopyMode, GateGivesUp, FlushRead, FlushArchive, FlushClear, ProbeSafe, ProbeBlind, ProbeUnsafe,
         Fails
  <2> QED
    BY <2>1 DEF GateType
<1>7. waited' \in 0..MaxWait /\ seenAt' \in 0..NoHash /\ failRun' \in 0..(FailThreshold - 1)
  <2>1. CASE Forget
    BY <2>1 DEF Forget, NoHash
  <2>2. CASE UNCHANGED <<waited, seenAt>> /\ failRun' \in {0, failRun}
    BY <2>2 DEF GateType
  <2>3. CASE GateDraft
    BY <2>2, <2>3 DEF GateDraft, GateType, Patient, NoHash
  <2>4. CASE GateUnreadable
    BY <2>1, <2>4 DEF GateUnreadable, GateType, Patient, Revert
  <2>5. CASE GateWait
    BY <2>5 DEF GateWait, GateType, Patient
  <2>6. CASE ~GateDraft /\ ~GateUnreadable /\ ~GateWait
    <3>1. Forget \/ (UNCHANGED <<waited, seenAt>> /\ failRun' \in {0, failRun})
      BY <2>6 DEF GateTurn, Gating, Claim, GateIdle, GateError, GateLimited,
         GateCopyMode, GateGivesUp, FlushRead, FlushArchive, FlushClear, ProbeSafe, ProbeBlind, ProbeUnsafe,
         Revert, gateVars
    <3> QED
      BY <2>1, <2>2, <3>1
  <2> QED
    BY <2>3, <2>4, <2>5, <2>6
<1> QED
  BY <1>2, <1>3, <1>4, <1>5, <1>6, <1>7 DEF GateType

LEMMA EndsType ==
  ASSUME NEW o \in Outcomes \ {"none"}, Ends(o), mode' \in BOOLEAN
  PROVE  /\ stage' \in Stages /\ out' \in Outcomes
         /\ attempt' \in 0..Ceiling' /\ {sawPaste', sawStuck', fired'} \subseteq BOOLEAN
         /\ PollInv'
<1>1. Ceiling' \in Nat
  BY PasteAssumption DEF Ceiling
<1>2. /\ out' = o /\ stage' = "mark" /\ attempt' = 0
      /\ sawPaste' = FALSE /\ sawStuck' = FALSE /\ fired' = FALSE
  BY DEF Ends, Reset
<1>3. PollInv' /\ stage' \in Stages
  BY <1>2 DEF PollInv, Stages
<1>4. {sawPaste', sawStuck', fired'} \subseteq BOOLEAN
  BY <1>2
<1> QED
  BY <1>1, <1>2, <1>3, <1>4

LEMMA PasteMailman ==
  ASSUME PasteTurn, GateType, PasteType, PollInv
  PROVE  GateType' /\ PasteType' /\ PollInv'
<1> USE GateAssumption, PasteAssumption
<1>0. UNCHANGED <<cur, gateVars>> /\ Ceiling \in Nat /\ (mode' = mode => Ceiling' = Ceiling)
  BY PasteTouches DEF Ceiling, PasteType
<1>1. errors' \in 0..MaxErrors
  <2>1. errors' = errors \/ (errors < MaxErrors /\ errors' = errors + 1)
    BY DEF PasteTurn, Check, Drain, PasteChunk, PressEnter, Verify, VerifyFails, Resubmit, LastEnter, Mark, Fails
  <2> QED
    BY <2>1 DEF GateType
<1>2. settle' \in BOOLEAN /\ mode' \in BOOLEAN
  BY DEF PasteTurn, Check, Drain, PasteChunk, PressEnter, Verify, VerifyFails, Resubmit, LastEnter, Mark,
         GateType, PasteType
<1>3. row' \in [Msgs -> RowStates]
  <2>1. CASE Mark
    <3>1. Verdict(out) \in RowStates
      BY <2>1 DEF Mark, PollInv, Verdict, RowStates, PasteType, Outcomes
    <3> QED
      BY <2>1, <3>1 DEF Mark, GateType
  <2>2. CASE ~Mark
    BY <2>2 DEF PasteTurn, Check, Drain, PasteChunk, PressEnter, Verify, VerifyFails, Resubmit, LastEnter, GateType
  <2> QED
    BY <2>1, <2>2
<1>4. shown' \in [Msgs -> Nat] /\ late' \subseteq Msgs
  <2>1. CASE PasteChunk
    BY <2>1 DEF PasteChunk, PasteType, GateType
  <2>2. CASE ~PasteChunk
    BY <2>2 DEF PasteTurn, Check, Drain, PressEnter, Verify, VerifyFails, Resubmit, LastEnter, Mark, PasteType
  <2> QED
    BY <2>1, <2>2
<1>5. /\ stage' \in Stages /\ out' \in Outcomes
      /\ attempt' \in 0..Ceiling' /\ {sawPaste', sawStuck', fired'} \subseteq BOOLEAN
      /\ PollInv'
  <2>2. CASE Check
    <3>1. CASE Ends("raced")
      BY <1>2, <3>1, EndsType DEF Outcomes
    <3>2. CASE stage' \in {"drain", "paste"} /\ UNCHANGED <<verifyVars, out>>
      <4>1. attempt' = 0 /\ Ceiling' \in Nat
        BY <1>2, <2>2, <3>2 DEF Check, PollInv, Polls, verifyVars, Ceiling
      <4> QED
        BY <2>2, <3>2, <4>1 DEF Check, PollInv, Polls, verifyVars, PasteType, Stages
    <3> QED
      BY <2>2, <3>1, <3>2 DEF Check
  <2>3. CASE Drain \/ VerifyFails \/ LastEnter
    <3>1. \E o \in {"stuck", "failed", "unverified"} : Ends(o)
      BY <2>3 DEF Drain, VerifyFails, LastEnter
    <3> QED
      BY <1>2, <3>1, EndsType DEF Outcomes
  <2>4. CASE PasteChunk
    <3>1. CASE Ends("failed")
      BY <1>2, <3>1, EndsType DEF Outcomes
    <3>2. CASE stage' = "enter" /\ UNCHANGED <<verifyVars, out>>
      BY <1>0, <2>4, <3>2 DEF PasteChunk, PollInv, Polls, verifyVars, PasteType, Stages
    <3> QED
      BY <2>4, <3>1, <3>2 DEF PasteChunk
  <2>5. CASE PressEnter
    <3>1. CASE Ends("failed")
      BY <1>2, <3>1, EndsType DEF Outcomes
    <3>2. CASE stage' = "verify" /\ UNCHANGED <<verifyVars, out>>
      BY <1>0, <2>5, <3>2 DEF PressEnter, PollInv, Polls, verifyVars, PasteType, Stages
    <3> QED
      BY <2>5, <3>1, <3>2 DEF PressEnter
  <2>6. CASE Verify
    <3>1. CASE Ends(Verified)
      BY <1>2, <3>1, EndsType DEF Outcomes, Verified
    <3>2. CASE ~Ends(Verified)
      <4>1. PICK moved \in Moves :
              /\ sawPaste' = (sawPaste \/ PasteUnsubmitted(screen, cur))
              /\ sawStuck' = (sawStuck \/ (PasteUnsubmitted(screen, cur) /\ attempt > 0 /\ moved))
              /\ stage' = Continue(PasteUnsubmitted(screen, cur), attempt = 0 \/ moved)
        BY <2>6, <3>2 DEF Verify
      <4>2. /\ attempt' = IF stage' = "verify" THEN attempt + 1 ELSE attempt
            /\ UNCHANGED <<fired, out, mode>> /\ stage = "verify"
        BY <2>6, <3>2 DEF Verify
      <4>3. stage' \in Polls /\ (stage' = "verify" => attempt < Ceiling)
        BY <1>0, <4>1 DEF Continue, Polls, PasteType
      <4>4. attempt' \in 0..Ceiling'
        BY <1>0, <4>2, <4>3 DEF PasteType
      <4>5. sawPaste' \in BOOLEAN /\ sawStuck' \in BOOLEAN
        BY <4>1
      <4> QED
        BY <4>2, <4>3, <4>4, <4>5 DEF PollInv, Polls, PasteType, Stages
    <3> QED
      BY <3>1, <3>2
  <2>7. CASE Resubmit
    <3>1. CASE Ends("failed")
      BY <1>2, <3>1, EndsType DEF Outcomes
    <3>2. CASE ~Ends("failed")
      <4>1. /\ stage = "resubmit" /\ fired' = TRUE /\ UNCHANGED <<out, sawPaste, sawStuck, mode>>
            /\ stage' = IF attempt >= Ceiling THEN "last" ELSE "verify"
            /\ attempt' = IF attempt >= Ceiling THEN attempt ELSE attempt + 1
        BY <2>7, <3>2 DEF Resubmit
      <4>2. attempt' \in 0..Ceiling'
        BY <1>0, <4>1 DEF PasteType
      <4> QED
        BY <4>1, <4>2 DEF PollInv, Polls, PasteType, Stages
    <3> QED
      BY <3>1, <3>2
  <2>8. CASE Mark
    <3>1. attempt' = 0 /\ Ceiling' \in Nat
      BY <1>2, <2>8 DEF Mark, PollInv, Polls, verifyVars, Ceiling
    <3> QED
      BY <2>8, <3>1 DEF Mark, PollInv, Polls, verifyVars, PasteType, Stages, Outcomes
  <2> QED
    BY <2>2, <2>3, <2>4, <2>5, <2>6, <2>7, <2>8 DEF PasteTurn
<1> QED
  BY <1>0, <1>1, <1>2, <1>3, <1>4, <1>5 DEF GateType, PasteType, gateVars

LEMMA PaneTypeInit == PaneInit => PaneTypeOK /\ PollInv
<1> SUFFICES ASSUME PaneInit PROVE PaneTypeOK /\ PollInv
  OBVIOUS
<1>1. TermType
  <2>1. /\ input \in Seq(Msgs \cup Texts) /\ pending \in Seq(Msgs)
        /\ by \in [Msgs -> {"nobody", "mailman", "operator"}]
    BY DEF PaneInit, TermInit
  <2>2. ready \in BOOLEAN /\ restoring \in BOOLEAN /\ copy \in BOOLEAN /\ adapter \in Adapters
    BY DEF PaneInit, TermInit
  <2> QED
    BY <2>1, <2>2, TerminalAssumption DEF PaneInit, TermInit, TermType
<1>2. GateType
  <2>1. cur \in Msgs
    BY ScreenAssumption DEF PaneInit, GateInit
  <2> QED
    BY <2>1, GateAssumption DEF PaneInit, GateInit, GateType, RowStates, Stages, NoHash
<1>3. PasteType
  <2>1. Ceiling \in Nat
    BY PasteAssumption DEF Ceiling, PaneInit, PasteInit
  <2>2. {sawPaste, sawStuck, fired} \subseteq BOOLEAN /\ mode \in BOOLEAN
    BY DEF PaneInit, PasteInit
  <2> QED
    BY <2>1, <2>2 DEF PaneInit, PasteInit, PasteType, Outcomes
<1> QED
  BY <1>1, <1>2, <1>3, TypeParts DEF PaneInit, PasteInit, GateInit, PollInv

LEMMA PaneTypeStep ==
  ASSUME PaneTypeOK, PollInv, [PaneNext]_paneVars
  PROVE  PaneTypeOK' /\ PollInv'
<1> USE DEF PaneTypeOK, TermType, GateType, PasteType
<1>0. TermType /\ GateType /\ PasteType
  OBVIOUS
<1> HIDE DEF PaneTypeOK, TermType, GateType, PasteType
<1>1. (TermType' /\ GateType' /\ PasteType') => PaneTypeOK'
  BY DEF PaneTypeOK, TermType, GateType, PasteType
<1>2. CASE OutsideTurn
  BY <1>0, <1>1, <1>2, OutsideTermType, OutsideMailman
<1>3. CASE GateTurn
  BY <1>0, <1>1, <1>3, GateTermType, GateMailman
<1>4. CASE PasteTurn
  <2>1. cur \in Msgs
    BY <1>0 DEF GateType
  <2> QED
    BY <1>0, <1>1, <1>4, <2>1, PasteTermType, PasteMailman
<1>5. CASE UNCHANGED paneVars
  BY <1>5 DEF paneVars, PaneTypeOK, PollInv, termVars, gateVars, pasteVars, verifyVars, Ceiling
<1> QED
  BY <1>2, <1>3, <1>4, <1>5, TurnCases

-----------------------------------------------------------------------------
(* Where a message is *)

Before == {"gate", "flush", "archive", "clear", "probe", "check", "drain", "paste"}

After == {"enter"} \cup Polls

(* A pasted message is in the input, on its way there, submitted, or gone. *)
Located(m) == m \in ToSet(input) \/ m \in ToSet(pending) \/ m \in gone \/ by[m] # "nobody"

(* The row in hand is claimed, and pasted exactly when the delivery has    *)
(* come that far; a row that waits was never pasted; and what was pasted   *)
(* has not vanished.                                                       *)
RowInv ==
  /\ stage # "claim" => row[cur] = "delivering"
  /\ \A m \in Msgs : row[m] = "queued" => shown[m] = 0
  /\ stage \in Before => shown[cur] = 0
  /\ stage \in After => shown[cur] > 0
  /\ out \in {"raced", "stuck"} => shown[cur] = 0
  /\ out \in {"verified", "external", "unverified"} => shown[cur] > 0
  /\ \A m \in Msgs : shown[m] > 0 <=> Located(m)

LEMMA CargoStays ==
  ASSUME TermType, NEW m \in Msgs,
         UNCHANGED cargo \/ TypesText \/ Wipes \/ Draws \/ (\E who \in {"mailman", "operator"} : Submits(who))
  PROVE  Located(m)' <=> Located(m)
<1>1. CASE UNCHANGED cargo
  BY <1>1 DEF Located, cargo
<1>2. CASE TypesText
  <2>1. PICK t \in Drafts : input' = Append(input, t)
    BY <1>2 DEF TypesText
  <2>2. t \in Texts /\ t # m
    BY TerminalAssumption, ScreenAssumption
  <2>3. ToSet(input') = ToSet(input) \cup {t}
    BY <2>1, <2>2, ToSetAppend DEF TermType
  <2> QED
    BY <1>2, <2>2, <2>3 DEF TypesText, Located
<1>3. CASE Wipes
  <2>1. ToSet(input') = {}
    BY <1>3, ToSetNone DEF Wipes
  <2> QED
    BY <1>3, <2>1 DEF Wipes, Located, Held
<1>4. CASE Draws
  <2>1. ToSet(pending) = {Head(pending)} \cup ToSet(pending') /\ Head(pending) \in Msgs
    BY <1>4, ToSetTail DEF Draws, TermType
  <2>2. ToSet(input') = ToSet(input) \cup {Head(pending)}
    BY <1>4, <2>1, ToSetAppend DEF Draws, TermType
  <2> QED
    BY <1>4, <2>1, <2>2 DEF Draws, Located
<1>5. CASE \E who \in {"mailman", "operator"} : Submits(who)
  <2>1. PICK who \in {"mailman", "operator"} : Submits(who)
    BY <1>5
  <2>2. ToSet(input') = {}
    BY <2>1, ToSetNone DEF Submits
  <2> QED
    BY <2>1, <2>2 DEF Submits, Located, Held
<1> QED
  BY <1>1, <1>2, <1>3, <1>4, <1>5

LEMMA CargoPasted ==
  ASSUME TermType, NEW m \in Msgs, cur \in Msgs, PastesInto(cur)
  PROVE  Located(m)' <=> Located(m) \/ m = cur
<1>1. /\ ToSet(Append(pending, cur)) = ToSet(pending) \cup {cur}
      /\ ToSet(Append(input, cur)) = ToSet(input) \cup {cur}
  BY ToSetAppend DEF TermType
<1> QED
  BY <1>1 DEF PastesInto, Located

LEMMA OutsideRow ==
  ASSUME TermType, RowInv, OutsideTurn PROVE RowInv'
<1>1. WorldStep
  BY WorldShape
<1>2. \A m \in Msgs : Located(m)' <=> Located(m)
  BY <1>1, CargoStays DEF WorldStep
<1>3. UNCHANGED <<stage, row, cur, shown, out>>
  BY <1>1 DEF WorldStep, Mailman, pasteVars
<1> QED
  BY <1>2, <1>3 DEF RowInv

LEMMA GateRow ==
  ASSUME TermType, GateType, PasteType, PollInv, RowInv, GateTurn PROVE RowInv'
<1>1. \A m \in Msgs : Located(m)' <=> Located(m)
  BY GateTouches, CargoStays
<1>2. UNCHANGED <<shown, out>>
  BY GateTouches DEF pasteVars
<1>3. CASE Claim
  BY <1>1, <1>2, <1>3 DEF Claim, RowInv, GateType, PollInv, Before, After, Polls
<1>4. CASE ~Claim
  <2>1. /\ cur' = cur /\ stage \in Before
        /\ \/ UNCHANGED row /\ stage' \in Before
           \/ row' = [row EXCEPT ![cur] = "queued"] /\ stage' = "claim"
    BY <1>4 DEF GateTurn, Gating, GateIdle, GateError, GateLimited, GateDraft, GateUnreadable, GateWait,
         GateCopyMode, GateGivesUp, FlushRead, FlushArchive, FlushClear, ProbeSafe, ProbeBlind, ProbeUnsafe,
         Revert, AfterGate, Before
  <2>2. out = "none"
    BY <2>1 DEF PollInv, Before
  <2> QED
    BY <1>1, <1>2, <2>1, <2>2 DEF RowInv, GateType, Before, After, Polls
<1> QED
  BY <1>3, <1>4

(* How the delivery moves on. *)
LEMMA PasteMoves ==
  ASSUME PasteTurn, PollInv
  PROVE  \/ /\ stage \in {"check", "drain"} /\ UNCHANGED <<row, shown, late>>
            /\ \/ stage' \in {"drain", "paste"} /\ out' = out
               \/ \E o \in {"raced", "stuck", "failed"} : Ends(o)
         \/ stage = "paste" /\ PasteChunk
         \/ /\ stage \in After /\ UNCHANGED <<row, shown, late>>
            /\ \/ stage' \in Polls /\ out' = out
               \/ \E o \in {"verified", "external", "unverified", "failed"} : Ends(o)
         \/ Mark
<1>1. CASE Check \/ Drain
  BY <1>1 DEF Check, Drain
<1>2. CASE PasteChunk
  BY <1>2 DEF PasteChunk
<1>3. CASE PressEnter
  BY <1>3 DEF PressEnter, After, Polls
<1>4. CASE Verify
  BY <1>4 DEF Verify, Verified, Continue, After, Polls
<1>5. CASE VerifyFails \/ Resubmit \/ LastEnter
  BY <1>5 DEF VerifyFails, Resubmit, LastEnter, After, Polls
<1> QED
  BY <1>1, <1>2, <1>3, <1>4, <1>5 DEF PasteTurn

LEMMA PasteRow ==
  ASSUME TermType, GateType, PasteType, PollInv, RowInv, PasteTurn PROVE RowInv'
<1>0. UNCHANGED cur /\ cur \in Msgs
  BY PasteTouches DEF GateType
<1>1. CASE PasteChunk /\ stage' = "enter"
  <2>1. /\ PastesInto(cur) \/ UNCHANGED cargo
        /\ Pasted(cur) /\ shown' = [shown EXCEPT ![cur] = @ + 1]
        /\ UNCHANGED <<out, row>> /\ stage = "paste"
    BY <1>1, PasteTouches DEF PasteChunk, Ends, Submits
  <2>2. PastesInto(cur)
    BY <2>1, VisibleMeans DEF Pasted, PastesInto
  <2>3. \A m \in Msgs : Located(m)' <=> Located(m) \/ m = cur
    BY <1>0, <2>2, CargoPasted
  <2>4. /\ shown'[cur] > 0 /\ \A m \in Msgs : m # cur => shown'[m] = shown[m]
    BY <1>0, <2>1 DEF PasteType
  <2>5. out' = "none" /\ row' = row
    BY <2>1 DEF PollInv
  <2>6. \A m \in Msgs : row'[m] = "queued" => m # cur
    BY <1>1, <2>1 DEF RowInv
  <2> QED
    BY <1>0, <1>1, <2>1, <2>3, <2>4, <2>5, <2>6 DEF RowInv, Before, After, Polls
<1>2. CASE ~(PasteChunk /\ stage' = "enter")
  <2>1. \A m \in Msgs : Located(m)' <=> Located(m)
    <3>1. UNCHANGED cargo \/ Submits("mailman")
      <4>1. ~(stage = "paste" /\ stage' = "enter")
        BY <1>2 DEF PasteTurn, Check, Drain, PasteChunk, PressEnter, Verify, VerifyFails, Resubmit, LastEnter, Mark
      <4> QED
        BY <4>1, PasteTouches
    <3> QED
      BY <3>1, CargoStays
  <2>2. CASE Mark
    <3>1. out \in Outcomes \ {"none"}
      BY <2>2 DEF Mark, PollInv, PasteType
    <3>2. Verdict(out) = "queued" => out \in {"raced", "stuck"}
      BY <3>1 DEF Verdict, Outcomes
    <3> QED
      BY <1>0, <2>1, <2>2, <3>2 DEF Mark, RowInv, Before, After, Polls, GateType
  <2>3. CASE stage = "paste" /\ PasteChunk
    BY <1>0, <1>2, <2>1, <2>3 DEF PasteChunk, Ends, RowInv, Before, After, Polls
  <2>4. CASE /\ stage \in {"check", "drain"} /\ UNCHANGED <<row, shown>>
             /\ \/ stage' \in {"drain", "paste"} /\ out' = out
                \/ \E o \in {"raced", "stuck", "failed"} : Ends(o)
    BY <1>0, <2>1, <2>4 DEF Ends, RowInv, Before, After, Polls
  <2>5. CASE /\ stage \in After /\ UNCHANGED <<row, shown>>
             /\ \/ stage' \in Polls /\ out' = out
                \/ \E o \in {"verified", "external", "unverified", "failed"} : Ends(o)
    BY <1>0, <2>1, <2>5 DEF Ends, RowInv, Before, After, Polls
  <2> QED
    BY <2>2, <2>3, <2>4, <2>5, PasteMoves
<1> QED
  BY <1>1, <1>2

-----------------------------------------------------------------------------
(* What the flush knows of the input *)

Drawn(pieces) == [k \in DOMAIN pieces |-> Shown(pieces[k])]

(* Something came up that the mailman has not looked at. *)
Surprised == recent \cap {"typed", "drawn", "modal"} # {}

Reading == (stage = "gate" /\ content # NoContent) \/ stage \in {"flush", "archive", "clear"}

(* From the look at a draft to its clearing: what is in the input is what  *)
(* was read, or was submitted or wiped in the meantime, and no popup the   *)
(* mailman does not know of hides it.                                      *)
FlushInv ==
  /\ Reading => ~Popup \/ "modal" \in recent
  /\ Reading /\ stage # "clear" => Surprised \/ input = <<>> \/ Drawn(input) = content.rows
  /\ stage = "clear" => Surprised \/ input = <<>> \/ Drawn(input) = archived.rows

(* The classifier says "awaiting" of a pane under a popup for claude only, *)
(* and then nothing is read.                                               *)
LEMMA DraftRead ==
  ASSUME TermType, Answers("awaiting-operator"), Popup
  PROVE  ExtractInputContent(screen) = NoContent
<1>1. adapter = "claude"
  <2> SUFFICES ASSUME adapter = "codex" PROVE FALSE
    BY DEF TermType, Adapters
  <2>1. PICK cursor \in Cursors(screen), moved \in {FALSE, Animated} :
          Classify(screen, cursor, moved) = "awaiting-operator"
    BY DEF Answers, AgentStates
  <2>2. cursor \in {"away", "failed"}
    BY VisibleMeans DEF Cursors, CursorViews
  <2>3. screen.adapter = "codex" /\ screen.chrome \cap Recognised(screen.adapter) \subseteq {"usage", "rate", "working"}
    BY DEF screen, Recognised
  <2> QED
    BY <2>1, <2>2, <2>3 DEF Classify, ByChrome
<1> QED
  BY <1>1, VisibleMeans DEF ExtractInputContent, NoContent, screen

LEMMA VisibleRead ==
  ASSUME ~Popup
  PROVE  ExtractInputContent(screen).rows = Drawn(input)
  BY VisibleMeans DEF ExtractInputContent, Drawn, screen

LEMMA DrawnEmpty ==
  ASSUME TermType, Drawn(input) = <<>>
  PROVE  input = <<>>
<1>1. DOMAIN Drawn(input) = DOMAIN input
  BY DEF Drawn
<1>2. DOMAIN input = 1..Len(input) /\ Len(input) \in Nat
  BY DEF TermType
<1>3. DOMAIN Drawn(input) = {}
  OBVIOUS
<1>4. 1 \notin 1..Len(input)
  BY <1>1, <1>2, <1>3
<1>5. Len(input) = 0
  BY <1>2, <1>4
<1> QED
  BY <1>5 DEF TermType

LEMMA OutsideFlush ==
  ASSUME FlushInv, OutsideTurn PROVE FlushInv'
<1>1. WorldStep
  BY WorldShape
<1>2. UNCHANGED <<stage, content, archived>> /\ recent \subseteq recent'
  BY <1>1 DEF WorldStep, Mailman, gateVars, Surface
<1>3. Popup' => Popup \/ "modal" \in recent'
  BY <1>1 DEF WorldStep, Surface, Popup
<1>4. input' = input \/ input' = <<>> \/ Surprised'
  BY <1>1 DEF WorldStep, TypesText, Submits, Wipes, Draws, Surprised, cargo
<1> QED
  BY <1>2, <1>3, <1>4 DEF FlushInv, Reading, Surprised

LEMMA GateFlush ==
  ASSUME TermType, FlushInv, GateTurn PROVE FlushInv'
<1>0. UNCHANGED chrome /\ (stage # "clear" => input' = input)
  BY GateTouches DEF cargo
<1>1. CASE GateDraft
  <2>1. /\ stage = "gate" /\ Answers("awaiting-operator") /\ Looked({"typed", "drawn"})
        /\ content' = ExtractInputContent(screen) \/ content' = NoContent
        /\ stage' \in {"gate", "flush", "probe"} /\ (stage' = "flush" => content' # NoContent)
    BY <1>1 DEF GateDraft, AfterGate
  <2>2. "modal" \in recent => "modal" \in recent'
    BY <2>1 DEF Looked
  <2>3. CASE content' = NoContent
    BY <2>1, <2>3 DEF FlushInv, Reading
  <2>4. CASE content' # NoContent
    <3>1. content' = ExtractInputContent(screen) /\ ~Popup
      BY <2>1, <2>4, DraftRead
    <3> QED
      BY <1>0, <2>1, <3>1, VisibleRead DEF FlushInv, Reading, Popup
  <2> QED
    BY <2>3, <2>4
<1>2. CASE FlushRead
  <2>1. CASE stage' = "archive" /\ UNCHANGED <<termVars, content>>
    BY <1>0, <1>2, <2>1 DEF FlushRead, FlushInv, Reading, Surprised, Popup, termVars
  <2>2. CASE /\ content' = ExtractInputContent(screen)
             /\ stage' = IF content' = NoContent THEN "clear" ELSE "archive"
             /\ Looked({"typed", "drawn"})
    <3>1. stage = "flush" /\ input' = input /\ ("modal" \in recent => "modal" \in recent')
      BY <1>0, <1>2, <2>2 DEF FlushRead, Looked
    <3>2. CASE Popup
      BY <1>0, <2>2, <3>1, <3>2 DEF FlushInv, Reading, Surprised
    <3>3. CASE ~Popup
      <4>1. content'.rows = Drawn(input)
        BY <2>2, <3>3, VisibleRead
      <4>2. content' = NoContent => input = <<>>
        BY <4>1, DrawnEmpty DEF NoContent
      <4> QED
        BY <1>0, <2>2, <3>1, <3>3, <4>1, <4>2 DEF FlushInv, Reading, Popup
    <3> QED
      BY <3>2, <3>3
  <2> QED
    BY <1>2, <2>1, <2>2 DEF FlushRead
<1>3. CASE FlushArchive
  BY <1>0, <1>3 DEF FlushArchive, FlushInv, Reading, Surprised, Popup, termVars
<1>4. CASE GateUnreadable \/ GateWait \/ GateGivesUp
  <2>1. /\ stage = "gate" /\ UNCHANGED recent
        /\ \/ stage' = "gate" /\ content' = content
           \/ stage' \in {"claim", "probe"}
           \/ stage' = "flush" /\ content' = content /\ content # NoContent
    BY <1>4 DEF GateUnreadable, GateWait, GateGivesUp, Revert, AfterGate, termVars
  <2> QED
    BY <1>0, <2>1 DEF FlushInv, Reading, Surprised, Popup
<1>5. CASE Claim
  BY <1>5 DEF Claim, Forget, FlushInv, Reading
<1>6. CASE GateIdle \/ GateError \/ GateLimited \/ GateCopyMode \/ FlushClear \/ ProbeSafe
           \/ ProbeBlind \/ ProbeUnsafe
  <2>1. stage' \in {"probe", "claim", "check"}
    BY <1>6 DEF GateIdle, GateError, GateLimited, GateCopyMode, FlushClear, ProbeSafe, ProbeBlind,
                ProbeUnsafe, Revert
  <2> QED
    BY <2>1 DEF FlushInv, Reading
<1> QED
  BY <1>1, <1>2, <1>3, <1>4, <1>5, <1>6 DEF GateTurn, Gating

LEMMA PasteFlush ==
  ASSUME PasteTurn PROVE FlushInv'
<1>1. stage' \notin {"gate", "flush", "archive", "clear"}
  BY DEF PasteTurn, Check, Drain, PasteChunk, PressEnter, Verify, VerifyFails, Resubmit, LastEnter, Mark,
         Ends, Continue
<1> QED
  BY <1>1 DEF FlushInv, Reading

-----------------------------------------------------------------------------
(* Popups and scrolling *)

Handing == {"check", "drain", "paste"} \cup After

(* A popup beside a moving screen, the resume modal aside. *)
PopupMoves ==
  chrome \cap {"working", "compaction"} # {} /\ ~(adapter = "claude" /\ "resume" \in chrome)

(* Once the probe has passed, a popup came up after it or was taken for    *)
(* work; and a scrolled pane was scrolled after it, or asked in vain.      *)
PopupInv ==
  /\ stage \in Handing /\ Popup => "modal" \in recent \/ PopupMoves
  /\ stage \in {"check", "drain", "paste"} /\ copy => "copy" \in recent \/ errors > 0

LEMMA SafeAnswer ==
  ASSUME TermType, Popup, NEW s, s.chrome = chrome, s.adapter = adapter,
         NEW a \in AgentStates(s, Animated), ~IsPasteUnsafe(a)
  PROVE  PopupMoves
<1>1. PICK cursor \in Cursors(s), moved \in {FALSE, Animated} : a = Classify(s, cursor, moved)
  BY DEF AgentStates
<1>2. a \in {"idle", "working"}
  <2>1. ByChrome(s) \in States /\ a \in States
    BY <1>1 DEF Classify, ByChrome, States
  <2> QED
    BY <2>1 DEF IsPasteUnsafe, IsPasteUnsafeForced, States
<1>3. ~Visible(s) /\ cursor \in {"away", "failed"}
  BY DEF Visible, Popup, Cursors, CursorViews
<1>4. moved => chrome \cap {"working", "compaction"} # {}
  BY VisibleMeans DEF Animated
<1>5. CASE adapter = "codex"
  <2>1. s.chrome \cap Recognised(s.adapter) \subseteq {"usage", "rate", "working"}
        /\ s.chrome \cap Recognised(s.adapter) \subseteq chrome
    BY <1>5 DEF Recognised
  <2> QED
    BY <1>1, <1>2, <1>3, <1>4, <1>5, <2>1 DEF Classify, ByChrome, Quiet, PopupMoves
<1>6. CASE adapter = "claude"
  <2>1. s.chrome \cap Recognised(s.adapter) = chrome \ {"working"}
    BY <1>6 DEF Recognised, TermType
  <2>2. "resume" \notin chrome
    BY <1>1, <1>2, <2>1 DEF Classify, ByChrome
  <2>3. moved
    BY <1>1, <1>2, <1>3, <2>1 DEF Classify, ByChrome, Quiet
  <2> QED
    BY <1>4, <2>2, <2>3 DEF PopupMoves
<1> QED
  BY <1>5, <1>6 DEF TermType, Adapters

LEMMA SafeUnscrolled ==
  ASSUME NEW a, Answers(a), ~IsPasteUnsafe(a)
  PROVE  ~copy
<1>1. PICK cursor \in Cursors(screen), moved \in {FALSE, Animated} : a = Classify(screen, cursor, moved)
  BY DEF Answers, AgentStates
<1>2. copy => a = "in-copy-mode"
  BY <1>1 DEF Classify, ByChrome, screen
<1> QED
  BY <1>2 DEF IsPasteUnsafe, IsPasteUnsafeForced

LEMMA OutsidePopup ==
  ASSUME PopupInv, OutsideTurn PROVE PopupInv'
<1>1. WorldStep
  BY WorldShape
<1>2. UNCHANGED <<stage, errors, adapter>> /\ recent \subseteq recent'
  BY <1>1 DEF WorldStep, Mailman, Surface
<1>3. Popup' => chrome' = chrome \/ "modal" \in recent'
  BY <1>1 DEF WorldStep, Surface, Popup
<1>4. copy' => copy \/ "copy" \in recent'
  BY <1>1 DEF WorldStep, Surface
<1> QED
  BY <1>2, <1>3, <1>4 DEF PopupInv, PopupMoves, Popup

LEMMA GatePopup ==
  ASSUME TermType, GateType, PopupInv, GateTurn PROVE PopupInv'
<1>0. UNCHANGED <<adapter, chrome, copy>>
  BY GateTouches
<1>1. CASE ProbeSafe
  <2>1. PICK a \in States : Answers(a) /\ ~IsPasteUnsafe(a)
    BY <1>1 DEF ProbeSafe
  <2>2. ~copy
    BY <2>1, SafeUnscrolled
  <2>3. Popup => PopupMoves
    <3>1. a \in AgentStates(screen, Animated) /\ screen.chrome = chrome /\ screen.adapter = adapter
      BY <2>1 DEF Answers, screen
    <3> QED
      BY <2>1, <3>1, SafeAnswer
  <2> QED
    BY <1>0, <2>2, <2>3 DEF PopupInv, Popup, PopupMoves
<1>2. CASE ProbeBlind
  <2>1. PICK a \in AgentStates([screen EXCEPT !.copy = FALSE], Animated) : ~IsPasteUnsafe(a)
    BY <1>2 DEF ProbeBlind
  <2>2. errors' > 0
    BY <1>2 DEF ProbeBlind, Fails, GateType
  <2>3. Popup => PopupMoves
    <3>1. [screen EXCEPT !.copy = FALSE].chrome = chrome /\ [screen EXCEPT !.copy = FALSE].adapter = adapter
      BY DEF screen
    <3> QED
      BY <2>1, <3>1, SafeAnswer
  <2> QED
    BY <1>0, <2>2, <2>3 DEF PopupInv, Popup, PopupMoves
<1>3. CASE ~ProbeSafe /\ ~ProbeBlind
  <2>1. stage' \notin Handing
    BY <1>3 DEF GateTurn, Gating, Claim, GateIdle, GateError, GateLimited, GateDraft, GateUnreadable, GateWait,
         GateCopyMode, GateGivesUp, FlushRead, FlushArchive, FlushClear, ProbeUnsafe, Revert, AfterGate,
         Handing, After, Polls
  <2> QED
    BY <2>1 DEF PopupInv, Handing
<1> QED
  BY <1>1, <1>2, <1>3

LEMMA PastePopup ==
  ASSUME GateType, PopupInv, PasteTurn PROVE PopupInv'
<1>0. copy' => copy
  <2>1. copy' = copy \/ copy' = FALSE
    BY PasteTouches
  <2> QED
    BY <2>1
<1>1. UNCHANGED <<adapter, recent>> /\ (Popup' => chrome' = chrome)
  BY PasteTouches DEF Popup
<1>2. /\ stage' \in Handing => stage \in Handing
      /\ stage' \in {"check", "drain", "paste"} => stage \in {"check", "drain", "paste"}
  BY DEF PasteTurn, Check, Drain, PasteChunk, PressEnter, Verify, VerifyFails, Resubmit, LastEnter, Mark,
         Ends, Continue, Handing, After, Polls
<1>3. errors > 0 => errors' > 0
  <2>1. errors' = errors \/ errors' = errors + 1
    BY DEF PasteTurn, Check, Drain, PasteChunk, PressEnter, Verify, VerifyFails, Resubmit, LastEnter, Mark, Fails
  <2> QED
    BY <2>1 DEF GateType
<1> QED
  BY <1>0, <1>1, <1>2, <1>3 DEF PopupInv, Popup, PopupMoves

-----------------------------------------------------------------------------
(* What stands beside the paste *)

(* No popup but the resume modal comes with a moving screen. *)
StillPopups ==
  \A look \in Looks : look \cap Modals # {} /\ look \cap {"working", "compaction"} # {} => "resume" \in look

(* A popup is a look of the program, and only claude resumes. *)
LookInv == Popup => chrome \in Looks /\ ("resume" \in chrome => adapter = "claude")

(* Once the check has passed, no message stands in the input and no text   *)
(* of the operator, save for what came after the probe and what the cursor *)
(* does not tell of.                                                       *)
BesideInv ==
  /\ stage = "paste" =>
       recent \cap {"drawn", "modal"} # {} \/ errors > 0 \/ "block" \in ToSet(input) \/ Held(input) = {}
  /\ stage \in {"paste"} \cup After =>
       \/ recent \cap {"typed", "modal"} # {} \/ errors > 0
       \/ ToSet(input) \cap {"block", "clip"} # {} \/ ToSet(input) \cap Texts = {}

LEMMA LookStep ==
  ASSUME LookInv, OutsideTurn \/ GateTurn \/ PasteTurn PROVE LookInv'
<1>1. CASE OutsideTurn
  BY <1>1, WorldShape DEF WorldStep, Surface, LookInv, Popup
<1>2. CASE GateTurn
  BY <1>2, GateTouches DEF LookInv, Popup
<1>3. CASE PasteTurn
  BY <1>3, PasteTouches DEF LookInv, Popup
<1> QED
  BY <1>1, <1>2, <1>3

LEMMA StillMeans ==
  ASSUME StillPopups, LookInv, PopupInv, stage \in Handing, Popup
  PROVE  "modal" \in recent
  BY DEF StillPopups, LookInv, PopupInv, PopupMoves, Popup

LEMMA CheckPasses ==
  ASSUME TermType, GateType, Check, stage' = "paste"
  PROVE  errors' > 0 \/ Popup \/ input = <<>> \/ "block" \in ToSet(input)
<1>1. CASE Fails
  BY <1>1 DEF Fails, GateType
<1>2. CASE /\ ~PasteStillInInput(screen)
           /\ \E c \in CursorViews(screen) :
                IF Anchored(c) /\ ~Cleared(c) THEN Ends("raced")
                ELSE stage' = "paste" /\ UNCHANGED <<verifyVars, out>>
  <2>1. PICK c \in CursorViews(screen) : ~(Anchored(c) /\ ~Cleared(c))
    BY <1>2 DEF Ends
  <2>2. c # "past"
    BY <2>1 DEF Anchored, Cleared
  <2> SUFFICES ASSUME ~Popup, input # <<>>, Last(input) # "block" PROVE FALSE
    BY LastInSet DEF TermType
  <2>3. c = "at" /\ adapter = "codex" /\ Placeholder(Last(input))
    BY <2>2, VisibleMeans DEF CursorViews, screen
  <2>4. Last(input) \in ToSet(input)
    BY LastInSet DEF TermType
  <2> QED
    BY <1>2, <2>3, <2>4, VisibleMeans DEF PasteStillInInput, LiveMarker, screen
<1> QED
  BY <1>1, <1>2 DEF Check

LEMMA OutsideBeside ==
  ASSUME TermType, BesideInv, OutsideTurn PROVE BesideInv'
<1>1. WorldStep
  BY WorldShape
<1>2. UNCHANGED <<stage, errors>> /\ recent \subseteq recent'
  BY <1>1 DEF WorldStep, Mailman, Surface
<1>3. CASE UNCHANGED cargo
  BY <1>2, <1>3 DEF BesideInv, cargo, Held
<1>4. CASE TypesText
  <2>1. PICK t \in Drafts : input' = Append(input, t)
    BY <1>4 DEF TypesText
  <2>2. ToSet(input') = ToSet(input) \cup {t} /\ t \notin Msgs
    BY <2>1, ToSetAppend, TerminalAssumption, ScreenAssumption DEF TermType
  <2> QED
    BY <1>2, <1>4, <2>2 DEF BesideInv, TypesText, Held
<1>5. CASE Wipes \/ Submits("operator")
  <2>1. ToSet(input') = {}
    BY <1>5, ToSetNone DEF Wipes, Submits
  <2> QED
    BY <1>2, <2>1 DEF BesideInv, Held
<1>6. CASE Draws
  <2>1. Head(pending) \in Msgs /\ Head(pending) \notin Texts
    BY <1>6, ToSetTail, ScreenAssumption DEF Draws, TermType
  <2>2. ToSet(input') = ToSet(input) \cup {Head(pending)}
    BY <1>6, <2>1, ToSetAppend DEF Draws, TermType
  <2> QED
    BY <1>2, <1>6, <2>1, <2>2 DEF BesideInv, Draws, Held
<1> QED
  BY <1>1, <1>3, <1>4, <1>5, <1>6 DEF WorldStep

LEMMA GateBeside == ASSUME GateTurn PROVE BesideInv'
<1>1. stage' \notin {"paste"} \cup After
  BY DEF GateTurn, Gating, Claim, GateIdle, GateError, GateLimited, GateDraft, GateUnreadable, GateWait,
         GateCopyMode, GateGivesUp, FlushRead, FlushArchive, FlushClear, ProbeSafe, ProbeBlind, ProbeUnsafe,
         Revert, AfterGate, After, Polls
<1> QED
  BY <1>1 DEF BesideInv

LEMMA PasteBeside ==
  ASSUME StillPopups, TermType, GateType, LookInv, PopupInv, BesideInv, PasteTurn
  PROVE  BesideInv'
<1>0. recent' = recent /\ cur \in Msgs /\ cur \notin Texts
  BY PasteTouches, ScreenAssumption DEF GateType
<1>1. CASE Check
  <2>1. stage = "check" /\ input' = input /\ stage' \notin After
    BY <1>1 DEF Check, termVars, Ends, After, Polls
  <2>2. CASE stage' = "paste"
    <3>1. Popup => "modal" \in recent
      BY <2>1, StillMeans DEF Handing
    <3>2. input = <<>> => ToSet(input) = {}
      BY ToSetNone
    <3> QED
      BY <1>0, <1>1, <2>1, <2>2, <3>1, <3>2, CheckPasses DEF BesideInv, Held
  <2> QED
    BY <2>1, <2>2 DEF BesideInv
<1>2. CASE ~Check
  <2>1. /\ stage' # "paste"
        /\ stage' \in After => stage \in {"paste"} \cup After
    BY <1>2 DEF PasteTurn, Drain, PasteChunk, PressEnter, Verify, VerifyFails, Resubmit, LastEnter, Mark,
         Ends, Continue, After, Polls
  <2>2. errors > 0 => errors' > 0
    <3>1. errors' = errors \/ errors' = errors + 1
      BY DEF PasteTurn, Check, Drain, PasteChunk, PressEnter, Verify, VerifyFails, Resubmit, LastEnter, Mark, Fails
    <3> QED
      BY <3>1 DEF GateType
  <2>3. ToSet(input') \in {ToSet(input), {}, ToSet(input) \cup {cur}}
    <3>1. input' = input \/ input' = <<>> \/ input' = Append(input, cur)
      BY PasteTouches DEF cargo, Submits, PastesInto
    <3>2. ToSet(Append(input, cur)) = ToSet(input) \cup {cur}
      BY <1>0, ToSetAppend DEF TermType
    <3> QED
      BY <3>1, <3>2, ToSetNone
  <2> QED
    BY <1>0, <2>1, <2>2, <2>3 DEF BesideInv
<1> QED
  BY <1>1, <1>2

-----------------------------------------------------------------------------
(* What the verification has seen *)

(* No message is in the input or on its way there. *)
Lone == pending = <<>> /\ Held(input) = {}

(* The settle mode covers the first delivery only, so that what it sees in *)
(* the input is the message in hand: until it is drawn nothing was seen,   *)
(* and once the mailman's first Enter took it nothing is seen stuck.       *)
(* Outside the settle mode a message drawn late is known to be.            *)
SettleInv ==
  /\ "clip" \notin ToSet(input)
  /\ settle => Lone /\ stage # "paste"
  /\ mode /\ stage = "paste" => Lone
  /\ mode /\ stage \in After => pending = <<>> \/ (pending = <<cur>> /\ Held(input) = {} /\ ~sawPaste)
  /\ stage \in After /\ cur \in ToSet(pending) => cur \in late \/ mode
  /\ stage = "enter" => by[cur] # "mailman"
  /\ mode /\ stage \in Polls /\ by[cur] = "mailman" => fired \/ (~sawStuck /\ Lone)

LEMMA OutsideSettle ==
  ASSUME "clip" \notin Drafts, TermType, GateType, SettleInv, OutsideTurn PROVE SettleInv'
<1>1. WorldStep
  BY WorldShape
<1>2. UNCHANGED <<stage, cur, settle, mode, sawPaste, sawStuck, fired, late>> /\ cur \in Msgs
  BY <1>1 DEF WorldStep, Mailman, pasteVars, verifyVars, GateType
<1>3. CASE UNCHANGED cargo
  BY <1>2, <1>3 DEF SettleInv, cargo, Held, Lone
<1>4. CASE TypesText
  <2>1. PICK t \in Drafts : input' = Append(input, t)
    BY <1>4 DEF TypesText
  <2>2. ToSet(input') = ToSet(input) \cup {t} /\ t \notin Msgs /\ t # "clip"
    BY <2>1, ToSetAppend, TerminalAssumption, ScreenAssumption DEF TermType
  <2>3. Held(input') = Held(input) /\ pending' = pending /\ by' = by
    BY <1>4, <2>2 DEF Held, TypesText
  <2> QED
    BY <1>2, <2>2, <2>3 DEF SettleInv, Lone
<1>5. CASE Wipes \/ Submits("operator")
  <2>1. ToSet(input') = {} /\ Held(input') = {} /\ pending' = pending
    BY <1>5, ToSetNone DEF Wipes, Submits, Held
  <2>2. by'[cur] = "mailman" => by[cur] = "mailman"
    BY <1>2, <1>5 DEF Wipes, Submits
  <2> QED
    BY <1>2, <2>1, <2>2 DEF SettleInv, Lone
<1>6. CASE Draws
  <2>0. pending # <<>>
    BY <1>6 DEF Draws
  <2>1. Head(pending) \in Msgs /\ Head(pending) # "clip"
    BY <2>0, ToSetTail, ScreenAssumption DEF TermType, Texts
  <2>2. ToSet(input') = ToSet(input) \cup {Head(pending)}
    <3>1. input \in Seq(Msgs \cup Texts) /\ Head(pending) \in Msgs \cup Texts
      BY <2>1 DEF TermType
    <3>2. input' = Append(input, Head(pending))
      BY <1>6 DEF Draws
    <3> QED
      BY <3>1, <3>2, ToSetAppend
  <2>3. ToSet(pending') \subseteq ToSet(pending)
    BY <1>6, <2>0, ToSetTail DEF Draws, TermType
  <2>4. pending = <<cur>> => pending' = <<>>
    BY <1>2, <1>6 DEF Draws
  <2>5. by' = by /\ ~Lone
    BY <1>6, <2>0 DEF Draws, Lone
  <2> QED
    BY <1>2, <2>0, <2>1, <2>2, <2>3, <2>4, <2>5 DEF SettleInv
<1> QED
  BY <1>1, <1>3, <1>4, <1>5, <1>6 DEF WorldStep

LEMMA GateSettle ==
  ASSUME SettleInv, GateTurn PROVE SettleInv'
<1>1. stage' \notin {"paste"} \cup After
  BY DEF GateTurn, Gating, Claim, GateIdle, GateError, GateLimited, GateDraft, GateUnreadable, GateWait,
         GateCopyMode, GateGivesUp, FlushRead, FlushArchive, FlushClear, ProbeSafe, ProbeBlind, ProbeUnsafe,
         Revert, AfterGate, After, Polls
<1>2. UNCHANGED settle
  BY DEF GateTurn, Gating, Claim, GateIdle, GateError, GateLimited, GateDraft, GateUnreadable, GateWait,
         GateCopyMode, GateGivesUp, FlushRead, FlushArchive, FlushClear, ProbeSafe, ProbeBlind, ProbeUnsafe
<1>3. pending' = pending /\ (input' = input \/ ToSet(input') = {})
  BY GateTouches, ToSetNone DEF cargo, Wipes
<1> QED
  BY <1>1, <1>2, <1>3 DEF SettleInv, Lone, Held, After

(* While the message is on its way, or taken, no paste is seen. *)
LEMMA NoneSeen ==
  ASSUME SettleInv, GateType, Held(input) = {}
  PROVE  ~PasteUnsubmitted(screen, cur)
<1>1. \A p \in ToSet(input) : ~Placeholder(p)
  BY ScreenAssumption DEF Placeholder, SettleInv, Held
<1>2. cur \notin ToSet(input)
  BY DEF Held, GateType
<1> QED
  BY <1>1, <1>2 DEF PasteUnsubmitted, LiveMarker, LiveToken, screen

LEMMA PasteSettle ==
  ASSUME TermType, GateType, PasteType, PollInv, RowInv, SettleInv, PasteTurn PROVE SettleInv'
<1>0. cur' = cur /\ cur \in Msgs /\ cur # "clip"
  BY PasteTouches, ScreenAssumption DEF GateType, Texts
<1>1. CASE Check
  BY <1>0, <1>1 DEF Check, SettleInv, Lone, Held, termVars, Ends, After, Polls
<1>2. CASE PasteChunk /\ stage' = "enter"
  <2>1. /\ stage = "paste" /\ UNCHANGED <<settle, mode, verifyVars>> /\ Pasted(cur)
        /\ late' = IF restoring /\ ~mode THEN late \cup {cur} ELSE late
    BY <1>2 DEF PasteChunk, Ends
  <2>2. PastesInto(cur)
    BY <2>1, VisibleMeans DEF Pasted, PastesInto
  <2>3. ~Located(cur)
    BY <1>0, <2>1 DEF RowInv, Before
  <2>4. /\ ToSet(Append(pending, cur)) = ToSet(pending) \cup {cur}
        /\ ToSet(Append(input, cur)) = ToSet(input) \cup {cur}
    BY <1>0, ToSetAppend DEF TermType
  <2>5. "clip" \notin ToSet(input')
    BY <1>0, <2>2, <2>4 DEF PastesInto, SettleInv
  <2>6. settle = FALSE /\ by' = by /\ by[cur] = "nobody" /\ cur \notin ToSet(pending)
    BY <2>1, <2>2, <2>3 DEF SettleInv, PastesInto, Located, GateType
  <2>7. mode => pending' = <<>> \/ (pending' = <<cur>> /\ Held(input') = {} /\ sawPaste = FALSE)
    <3>1. mode => Lone
      BY <2>1 DEF SettleInv
    <3>2. sawPaste = FALSE
      BY <2>1 DEF PollInv, Polls
    <3> QED
      BY <1>0, <2>2, <3>1, <3>2 DEF PastesInto, Lone
  <2>8. cur \in ToSet(pending') => cur \in late' \/ mode
    BY <2>1, <2>2, <2>6 DEF PastesInto
  <2>9. mode' = mode /\ sawPaste' = sawPaste /\ settle' = settle
    BY <2>1 DEF verifyVars
  <2> QED
    BY <1>0, <1>2, <2>5, <2>6, <2>7, <2>8, <2>9 DEF SettleInv, Polls
<1>3. CASE stage' \notin {"paste"} \cup After
  <2>1. settle' => settle
    BY DEF PasteTurn, Check, Drain, PasteChunk, PressEnter, Verify, VerifyFails, Resubmit, LastEnter, Mark
  <2>2. pending' = pending /\ (input' = input \/ ToSet(input') = {})
    BY <1>3, PasteTouches, ToSetNone DEF cargo, Submits, After
  <2> QED
    BY <1>3, <2>1, <2>2 DEF SettleInv, Lone, Held, After
<1>4. CASE PressEnter /\ stage' = "verify"
  <2>1. /\ stage = "enter" /\ UNCHANGED <<settle, mode, late>> /\ Enter("mailman")
        /\ sawPaste' = sawPaste /\ sawStuck' = FALSE
    BY <1>4 DEF PressEnter, Ends, verifyVars, PollInv, Polls
  <2>2. CASE UNCHANGED cargo
    BY <1>0, <1>4, <2>1, <2>2 DEF cargo, SettleInv, Lone, Held, After, Polls
  <2>3. CASE Submits("mailman")
    <3>1. ToSet(input') = {} /\ Held(input') = {} /\ pending' = pending
      BY <2>3, ToSetNone DEF Submits, Held
    <3>2. by'[cur] = "mailman" => Held(input) # {}
      BY <1>0, <2>1, <2>3 DEF Submits, SettleInv
    <3>3. mode /\ by'[cur] = "mailman" => pending = <<>>
      BY <2>1, <3>2 DEF SettleInv, After
    <3> QED
      BY <1>0, <1>4, <2>1, <3>1, <3>3 DEF SettleInv, Lone, After, Polls
  <2> QED
    BY <2>1, <2>2, <2>3, EnterShape
<1>5. CASE Resubmit /\ stage' \in After
  <2>1. /\ stage = "resubmit" /\ UNCHANGED <<settle, mode, late>>
        /\ sawPaste' = sawPaste /\ fired' = TRUE /\ stage' \in Polls
    BY <1>5 DEF Resubmit, Ends, After, Polls
  <2>2. pending' = pending /\ (input' = input \/ ToSet(input') = {})
    BY <2>1, PasteTouches, ToSetNone DEF cargo, Submits
  <2> QED
    BY <1>0, <2>1, <2>2 DEF SettleInv, Lone, Held, After, Polls
<1>6. CASE Verify /\ stage' \in After
  <2>1. PICK moved \in Moves :
          /\ sawPaste' = (sawPaste \/ PasteUnsubmitted(screen, cur))
          /\ sawStuck' = (sawStuck \/ (PasteUnsubmitted(screen, cur) /\ attempt > 0 /\ moved))
    BY <1>6 DEF Verify, Ends, After, Polls
  <2>2. /\ stage = "verify" /\ UNCHANGED <<settle, mode, late, cargo, fired>> /\ stage' \in Polls
    BY <1>6 DEF Verify, Ends, After, Polls, termVars, cargo, Continue
  <2>3. Held(input) = {} => sawPaste' = sawPaste /\ sawStuck' = sawStuck
    <3>1. {sawPaste, sawStuck} \subseteq BOOLEAN
      BY DEF PasteType
    <3> QED
      BY <2>1, <3>1, NoneSeen
  <2> QED
    BY <1>0, <2>2, <2>3 DEF SettleInv, Lone, Held, After, Polls, cargo
<1>7. \/ Check \/ (PasteChunk /\ stage' = "enter") \/ stage' \notin {"paste"} \cup After
      \/ (PressEnter /\ stage' = "verify") \/ (Resubmit /\ stage' \in After) \/ (Verify /\ stage' \in After)
  <2>1. (Drain \/ VerifyFails \/ LastEnter \/ Mark) => stage' \in {"mark", "claim"}
    BY DEF Drain, VerifyFails, LastEnter, Mark, Ends
  <2>2. (PasteChunk => stage' \in {"enter", "mark"}) /\ (PressEnter => stage' \in {"verify", "mark"})
    BY DEF PasteChunk, PressEnter, Ends
  <2>3. (Verify \/ Resubmit) => stage' # "paste"
    BY DEF Verify, Continue, Resubmit, Ends
  <2> QED
    BY <2>1, <2>2, <2>3 DEF PasteTurn, After, Polls
<1> QED
  BY <1>1, <1>2, <1>3, <1>4, <1>5, <1>6, <1>7

(* Why a poll that accepts may do so. *)
LEMMA AcceptMeans ==
  ASSUME GateType, NEW c \in Cursors(screen), Accepts(c)
  PROVE  by[cur] # "nobody" \/ (cur \notin ToSet(input) /\ (~mode \/ sawPaste))
<1>0. cur \in Msgs
  BY DEF GateType
<1>1. ~PasteUnsubmitted(screen, cur) /\ (IF Anchored(c) THEN Cleared(c) ELSE TokenShown(screen, cur))
  BY DEF Accepts, DeliverySubmitted
<1>2. ~LiveMarker(screen) /\ ~LiveToken(screen, cur)
  BY <1>1 DEF PasteUnsubmitted
<1>3. TokenShown(screen, cur) => by[cur] # "nobody"
  BY <1>0, <1>2 DEF TokenShown, screen
<1>4. CASE Popup
  <2>1. c \in {"away", "failed"}
    BY <1>4, VisibleMeans DEF Cursors, CursorViews
  <2> QED
    BY <1>1, <1>3, <2>1 DEF Anchored
<1>5. CASE ~Popup
  <2>1. cur \notin ToSet(input)
    BY <1>2, <1>5, VisibleMeans DEF LiveMarker, LiveToken, Placeholder, screen
  <2> QED
    BY <1>1, <1>3, <2>1 DEF Accepts
<1> QED
  BY <1>4, <1>5

LEMMA VerifiedStep ==
  ASSUME TermType, GateType, PasteType, PollInv, RowInv, SettleInv, VerifiedWasSubmitted,
         OutsideTurn \/ GateTurn \/ PasteTurn
  PROVE  VerifiedWasSubmitted'
<1>0. cur \in Msgs
  BY DEF GateType
<1>1. CASE OutsideTurn
  <2>1. WorldStep
    BY <1>1, WorldShape
  <2>2. UNCHANGED <<out, cur, late>>
    BY <2>1 DEF WorldStep, Mailman, pasteVars
  <2>3. gone \subseteq gone' /\ (by[cur] # "nobody" => by'[cur] = by[cur]) /\ (by'[cur] = "mailman" => by[cur] = "mailman")
    BY <1>0, <2>1 DEF WorldStep, cargo, TypesText, Submits, Wipes, Draws
  <2> QED
    BY <2>2, <2>3 DEF VerifiedWasSubmitted
<1>2. CASE GateTurn
  <2>1. out' = out /\ stage # "mark"
    BY <1>2, GateTouches DEF pasteVars, GateTurn, Gating, Claim, GateIdle, GateError, GateLimited, GateDraft,
         GateUnreadable, GateWait, GateCopyMode, GateGivesUp, FlushRead, FlushArchive, FlushClear, ProbeSafe,
         ProbeBlind, ProbeUnsafe
  <2> QED
    BY <2>1 DEF PollInv, VerifiedWasSubmitted
<1>3. CASE PasteTurn
  <2>1. CASE out' \notin {"verified", "external"}
    BY <2>1 DEF VerifiedWasSubmitted
  <2>2. CASE out' \in {"verified", "external"}
    <3>1. Verify /\ Ends(Verified) /\ \E c \in Cursors(screen) : Accepts(c)
      <4>1. out \in {"none"} \/ stage = "mark"
        BY DEF PollInv
      <4> QED
        BY <1>3, <2>2, <4>1 DEF PasteTurn, Check, Drain, PasteChunk, PressEnter, Verify, VerifyFails, Resubmit,
             LastEnter, Mark, Ends
    <3>2. UNCHANGED <<by, gone, late, cur>> /\ stage = "verify" /\ out' = Verified
      BY <3>1 DEF Verify, Ends, termVars
    <3>3. by[cur] # "nobody" \/ (cur \notin ToSet(input) /\ (~mode \/ sawPaste))
      BY <3>1, AcceptMeans
    <3>4. by[cur] # "nobody" \/ cur \in gone \/ cur \in late
      <4> SUFFICES ASSUME by[cur] = "nobody", cur \notin gone PROVE cur \in late
        OBVIOUS
      <4>1. Located(cur) /\ stage \in After
        BY <1>0, <3>2 DEF RowInv, After, Polls
      <4>2. cur \in ToSet(pending)
        BY <3>3, <4>1 DEF Located
      <4>3. pending # <<>>
        BY <4>2, ToSetNone
      <4>4. ~mode
        BY <3>3, <4>1, <4>3 DEF SettleInv
      <4> QED
        BY <4>1, <4>2, <4>4 DEF SettleInv
    <3>5. out' = "external" => by[cur] # "mailman"
      <4> SUFFICES ASSUME out' = "external" PROVE by[cur] # "mailman"
        OBVIOUS
      <4>1. mode /\ sawStuck /\ ~fired
        BY <3>2 DEF Verified
      <4> QED
        BY <3>2, <4>1 DEF SettleInv, Polls
    <3> QED
      BY <3>2, <3>4, <3>5 DEF VerifiedWasSubmitted
  <2> QED
    BY <2>1, <2>2
<1> QED
  BY <1>1, <1>2, <1>3

-----------------------------------------------------------------------------
(* The inductive invariant and what follows from it *)

PaneInv == PaneTypeOK /\ PollInv /\ RowInv /\ FlushInv /\ PopupInv /\ LookInv

LEMMA PaneInvInit == PaneInit => PaneInv
<1> SUFFICES ASSUME PaneInit PROVE PaneInv
  OBVIOUS
<1>1. PaneTypeOK /\ PollInv
  BY PaneTypeInit
<1>2. /\ input = <<>> /\ pending = <<>> /\ chrome = {} /\ by = [m \in Msgs |-> "nobody"] /\ gone = {}
      /\ stage = "claim" /\ out = "none" /\ shown = [m \in Msgs |-> 0]
  BY DEF PaneInit, TermInit, GateInit, PasteInit
<1>3. \A m \in Msgs : ~Located(m) /\ shown[m] = 0
  BY <1>2, ToSetNone DEF Located
<1>4. RowInv
  BY <1>2, <1>3 DEF RowInv, Before, After, Polls
<1> QED
  BY <1>1, <1>2, <1>4 DEF PaneInv, FlushInv, Reading, PopupInv, LookInv, Popup, Handing, After, Polls

LEMMA PaneInvStep == ASSUME PaneInv, [PaneNext]_paneVars PROVE PaneInv'
<1>0. TermType /\ GateType /\ PasteType /\ PollInv /\ RowInv /\ FlushInv /\ PopupInv /\ LookInv
  BY TypeParts DEF PaneInv
<1>1. PaneTypeOK' /\ PollInv'
  BY PaneTypeStep DEF PaneInv
<1>2. CASE OutsideTurn
  BY <1>0, <1>1, <1>2, OutsideRow, OutsideFlush, OutsidePopup, LookStep DEF PaneInv
<1>3. CASE GateTurn
  BY <1>0, <1>1, <1>3, GateRow, GateFlush, GatePopup, LookStep DEF PaneInv
<1>4. CASE PasteTurn
  BY <1>0, <1>1, <1>4, PasteRow, PasteFlush, PastePopup, LookStep DEF PaneInv
<1>5. CASE UNCHANGED paneVars
  <2>1. /\ UNCHANGED <<adapter, input, pending, chrome, copy, by, gone, recent>>
        /\ UNCHANGED <<row, stage, cur, content, archived, errors, out, shown>>
    BY <1>5 DEF paneVars, termVars, gateVars, pasteVars
  <2>2. RowInv'
    BY <1>0, <2>1 DEF RowInv, Located
  <2>3. FlushInv' /\ PopupInv' /\ LookInv'
    BY <1>0, <2>1 DEF FlushInv, Reading, Surprised, PopupInv, PopupMoves, Popup, LookInv
  <2> QED
    BY <1>1, <2>2, <2>3 DEF PaneInv
<1> QED
  BY <1>2, <1>3, <1>4, <1>5, TurnCases

(* The types, where the row in hand and its paste are, what the flush has  *)
(* read and what the probe has seen, together.                             *)
THEOREM PaneInvariant == PaneSpec => []PaneInv
<1>1. PaneInit => PaneInv
  BY PaneInvInit
<1>2. PaneInv /\ [PaneNext]_paneVars => PaneInv'
  BY PaneInvStep
<1> QED
  BY <1>1, <1>2, PTL DEF PaneSpec

(* The flush never clears a draft it has not archived, whatever the        *)
(* operator and the program do between its look, the archive and the       *)
(* clearing (flushStaleInput, serve.go:2270-2353).                         *)
THEOREM FlushesOnlyArchived == PaneSpec => ClearedWasArchived
<1>1. ASSUME PaneInv, [PaneNext]_paneVars PROVE ClearStep
  <2> SUFFICES ASSUME stage = "clear", stage' # stage, input' # input
               PROVE  \/ recent \cap {"typed", "drawn", "modal"} # {}
                      \/ [k \in DOMAIN input |-> Shown(input[k])] = archived.rows
    BY DEF ClearStep
  <2>1. ~OutsideTurn /\ ~PasteTurn /\ GateTurn
    <3>1. ~OutsideTurn
      BY WorldShape DEF WorldStep, Mailman
    <3>2. ~PasteTurn
      BY DEF PasteTurn, Check, Drain, PasteChunk, PressEnter, Verify, VerifyFails, Resubmit, LastEnter, Mark
    <3> QED
      BY <1>1, <3>1, <3>2, TurnCases DEF paneVars
  <2>2. input # <<>>
    BY <2>1, GateTouches DEF cargo, Wipes
  <2> QED
    BY <1>1, <2>2 DEF PaneInv, FlushInv, Surprised, Drawn
<1>2. PaneInv /\ [PaneNext]_paneVars => [ClearStep]_paneVars
  BY <1>1
<1> QED
  BY <1>2, PaneInvariant, PTL DEF PaneSpec, ClearedWasArchived

(* No paste and no Enter of the mailman meets a popup that stood there     *)
(* when the probe looked, unless the screen moves beside it, and no paste  *)
(* meets a pane that was scrolled then (classifier.go:262-282).            *)
THEOREM KeysSparePopups == PaneSpec => ModalsAreSpared
<1>1. ASSUME PaneInv, [PaneNext]_paneVars PROVE ModalStep
  <2>1. stage \in Handing /\ Popup => "modal" \in recent \/ PopupMoves
    BY <1>1 DEF PaneInv, PopupInv
  <2>2. PopupMoves => Animated /\ ~(adapter = "claude" /\ "resume" \in chrome)
    BY DEF PopupMoves, Animated
  <2>3. stage = "paste" /\ copy => "copy" \in recent \/ errors > 0
    BY <1>1 DEF PaneInv, PopupInv
  <2>4. stage = "paste" \/ MailmanEnters => stage \in Handing
    BY DEF MailmanEnters, Handing, After, Polls
  <2> QED
    BY <2>1, <2>2, <2>3, <2>4, VisibleMeans DEF ModalStep
<1>2. PaneInv /\ [PaneNext]_paneVars => [ModalStep]_paneVars
  BY <1>1
<1> QED
  BY <1>2, PaneInvariant, PTL DEF PaneSpec, ModalsAreSpared

LEMMA BesideStep ==
  ASSUME StillPopups, PaneInv, BesideInv, [PaneNext]_paneVars PROVE BesideInv'
<1>0. TermType /\ GateType /\ LookInv /\ PopupInv
  BY TypeParts DEF PaneInv
<1>1. CASE OutsideTurn
  BY <1>0, <1>1, OutsideBeside
<1>2. CASE GateTurn
  BY <1>2, GateBeside
<1>3. CASE PasteTurn
  BY <1>0, <1>3, PasteBeside
<1>4. CASE UNCHANGED paneVars
  <2>1. UNCHANGED <<stage, recent, errors, input>>
    BY <1>4 DEF paneVars, termVars
  <2> QED
    BY <2>1 DEF BesideInv, Held
<1> QED
  BY <1>1, <1>2, <1>3, <1>4, TurnCases

LEMMA BesideInvariant ==
  ASSUME StillPopups
  PROVE  PaneSpec => []BesideInv
<1>1. PaneInit => BesideInv
  BY DEF PaneInit, GateInit, BesideInv, After, Polls
<1>2. PaneInv /\ BesideInv /\ [PaneNext]_paneVars => BesideInv'
  BY BesideStep
<1> QED
  BY <1>1, <1>2, PaneInvariant, PTL DEF PaneSpec

(* Where popups other than the resume modal stand still, no Enter of the   *)
(* mailman submits what the operator wrote before the probe looked, blocks *)
(* and pastes of his own aside (pasteUnsubmitted, deliver.go:745).         *)
THEOREM EntersSpareDrafts ==
  ASSUME StillPopups
  PROVE  PaneSpec => DraftsAreSpared
<1>1. ASSUME PaneInv, BesideInv, [PaneNext]_paneVars PROVE DraftStep
  BY <1>1 DEF DraftStep, MailmanEnters, Unreadable, BesideInv, After, Polls
<1>2. PaneInv /\ BesideInv /\ [PaneNext]_paneVars => [DraftStep]_paneVars
  BY <1>1
<1> QED
  BY <1>2, PaneInvariant, BesideInvariant, PTL DEF PaneSpec, DraftsAreSpared

(* Where popups other than the resume modal stand still, no message is     *)
(* pasted onto one that stood in the input when the probe looked (#610,    *)
(* the check of deliver.go for a prior paste and a raced input).           *)
THEOREM PastesDoNotStack ==
  ASSUME StillPopups
  PROVE  PaneSpec => NoStacking
<1>1. ASSUME PaneInv, BesideInv, [PaneNext]_paneVars PROVE StackStep
  BY <1>1 DEF StackStep, BesideInv
<1>2. PaneInv /\ BesideInv /\ [PaneNext]_paneVars => [StackStep]_paneVars
  BY <1>1
<1> QED
  BY <1>2, PaneInvariant, BesideInvariant, PTL DEF PaneSpec, NoStacking

LEMMA SettleInit ==
  PaneInit => SettleInv /\ VerifiedWasSubmitted
<1> SUFFICES ASSUME PaneInit PROVE SettleInv /\ VerifiedWasSubmitted
  OBVIOUS
<1>1. input = <<>> /\ pending = <<>> /\ stage = "claim" /\ mode = FALSE /\ out = "none"
  BY DEF PaneInit, TermInit, GateInit, PasteInit
<1>2. ToSet(input) = {} /\ Lone
  BY <1>1, ToSetNone DEF Lone, Held
<1> QED
  BY <1>1, <1>2 DEF SettleInv, VerifiedWasSubmitted, After, Polls

LEMMA SettleStep ==
  ASSUME "clip" \notin Drafts, PaneInv, SettleInv, VerifiedWasSubmitted, [PaneNext]_paneVars
  PROVE  SettleInv' /\ VerifiedWasSubmitted'
<1>0. TermType /\ GateType /\ PasteType /\ PollInv /\ RowInv
  BY TypeParts DEF PaneInv
<1>1. CASE OutsideTurn
  BY <1>0, <1>1, OutsideSettle, VerifiedStep
<1>2. CASE GateTurn
  BY <1>0, <1>2, GateSettle, VerifiedStep
<1>3. CASE PasteTurn
  BY <1>0, <1>3, PasteSettle, VerifiedStep
<1>4. CASE UNCHANGED paneVars
  <2>1. /\ UNCHANGED <<stage, cur, input, pending, by, gone>>
        /\ UNCHANGED <<settle, mode, sawPaste, sawStuck, fired, out, late>>
    BY <1>4 DEF paneVars, termVars, pasteVars, verifyVars
  <2> QED
    BY <2>1 DEF SettleInv, Lone, Held, VerifiedWasSubmitted
<1> QED
  BY <1>1, <1>2, <1>3, <1>4, TurnCases

(* Where the operator pastes nothing himself, a message called verified    *)
(* was submitted, or wiped or swallowed before, or drawn late outside the  *)
(* settle mode; and one put down to somebody else's Enter was not          *)
(* submitted by the mailman (the acceptance in deliver.go:557-597).        *)
THEOREM VerifiedIsSubmitted ==
  ASSUME "clip" \notin Drafts
  PROVE  PaneSpec => []VerifiedWasSubmitted
<1>1. PaneInv /\ SettleInv /\ VerifiedWasSubmitted /\ [PaneNext]_paneVars => SettleInv' /\ VerifiedWasSubmitted'
  BY SettleStep
<1> QED
  BY <1>1, SettleInit, PaneInvariant, PTL DEF PaneSpec

-----------------------------------------------------------------------------
(* The pane implements Delivery *)

Phase(s) ==
  CASE s \in {"queued", "delivering"} -> "pending"
    [] s \in {"delivered", "boxed"} -> "done"
    [] s = "failed" -> "dropped"

LEMMA PhaseTable ==
  /\ Phase("queued") = "pending" /\ Phase("delivering") = "pending"
  /\ Phase("delivered") = "done" /\ Phase("boxed") = "done" /\ Phase("failed") = "dropped"
  BY DEF Phase

PhaseOf == [m \in Msgs |-> CASE row[m] \in {"queued", "delivering"} -> "pending"
                             [] row[m] \in {"delivered", "boxed"} -> "done"
                             [] row[m] = "failed" -> "dropped"]

LEMMA PhaseOfRow == PhaseOf = [m \in Msgs |-> Phase(row[m])] /\ PhaseOf' = [m \in Msgs |-> Phase(row'[m])]
  BY DEF PhaseOf, Phase

LEMMA PaneRefines ==
  ASSUME PaneInv, [PaneNext]_paneVars
  PROVE  D!DeliveryNext \/ UNCHANGED <<PhaseOf, shown>>
<1>0. TermType /\ GateType /\ PasteType /\ PollInv /\ RowInv
  BY TypeParts DEF PaneInv
<1>1. cur \in Msgs /\ row \in [Msgs -> RowStates] /\ shown \in [Msgs -> Nat]
  BY <1>0 DEF GateType, PasteType
<1>2. ASSUME UNCHANGED shown, \A m \in Msgs : Phase(row'[m]) = Phase(row[m])
      PROVE  UNCHANGED <<PhaseOf, shown>>
  BY <1>2, PhaseOfRow
<1>3. CASE OutsideTurn
  BY <1>2, <1>3, WorldShape DEF WorldStep, Mailman, pasteVars
<1>4. CASE UNCHANGED paneVars
  BY <1>2, <1>4 DEF paneVars, pasteVars
<1>5. CASE GateTurn
  <2>1. UNCHANGED shown
    BY <1>5, GateTouches DEF pasteVars
  <2>2. CASE Claim
    <3>1. \A m \in Msgs : row'[m] = row[m] \/ (row[m] = "queued" /\ row'[m] = "delivering")
      BY <1>1, <2>2 DEF Claim
    <3> QED
      BY <1>2, <2>1, <3>1, PhaseTable
  <2>3. CASE ~Claim
    <3>1. stage # "claim" /\ (UNCHANGED row \/ row' = [row EXCEPT ![cur] = "queued"])
      BY <1>5, <2>3 DEF GateTurn, Gating, GateIdle, GateError, GateLimited, GateDraft, GateUnreadable, GateWait,
         GateCopyMode, GateGivesUp, FlushRead, FlushArchive, FlushClear, ProbeSafe, ProbeBlind, ProbeUnsafe,
         Revert
    <3>2. \A m \in Msgs : row'[m] = row[m] \/ (row[m] = "delivering" /\ row'[m] = "queued")
      BY <1>0, <1>1, <3>1 DEF RowInv
    <3> QED
      BY <1>2, <2>1, <3>2, PhaseTable
  <2> QED
    BY <2>2, <2>3
<1>6. CASE PasteTurn
  <2>1. CASE UNCHANGED <<row, shown>>
    BY <1>2, <2>1
  <2>2. CASE PasteChunk /\ shown' = [shown EXCEPT ![cur] = @ + 1]
    <3>1. row' = row /\ row[cur] = "delivering"
      BY <1>0, <2>2 DEF PasteChunk, RowInv
    <3>2. PhaseOf[cur] = "pending" /\ UNCHANGED PhaseOf
      BY <1>1, <3>1, PhaseOfRow, PhaseTable
    <3>3. D!Show(cur)
      BY <2>2, <3>2 DEF D!Show, PhaseOf
    <3> QED
      BY <1>1, <3>3 DEF D!DeliveryNext
  <2>3. CASE Mark
    <3>1. /\ row' = [row EXCEPT ![cur] = Verdict(out)] /\ UNCHANGED shown
          /\ row[cur] = "delivering" /\ out \in Outcomes \ {"none"}
      BY <1>0, <2>3 DEF Mark, RowInv, PollInv, PasteType
    <3>2. PhaseOf[cur] = "pending" /\ \A m \in Msgs : m # cur => PhaseOf'[m] = PhaseOf[m]
      BY <1>1, <3>1, PhaseOfRow, PhaseTable
    <3>3. CASE out \in {"raced", "stuck"}
      <4>1. Verdict(out) = "queued"
        BY <3>3 DEF Verdict
      <4>2. \A m \in Msgs : row'[m] = row[m] \/ (row[m] = "delivering" /\ row'[m] = "queued")
        BY <1>1, <3>1, <4>1
      <4> QED
        BY <1>2, <3>1, <4>2, PhaseTable
    <3>4. CASE out = "failed"
      <4>1. Verdict(out) = "failed"
        BY <3>4 DEF Verdict
      <4>2. PhaseOf' = [m \in Msgs |-> IF m \in {cur} THEN "dropped" ELSE PhaseOf[m]]
        BY <1>1, <3>1, <3>2, <4>1, PhaseOfRow, PhaseTable
      <4>3. D!Drop({cur})
        BY <3>1, <3>2, <4>2 DEF D!Drop, PhaseOf
      <4>4. \E R \in SUBSET Msgs : D!Drop(R)
        BY <1>1, <4>3 DEF D!Drop
      <4> QED
        BY <4>4 DEF D!DeliveryNext
    <3>5. CASE out \in {"verified", "external", "unverified"}
      <4>1. Verdict(out) \in {"delivered", "boxed"} /\ shown[cur] > 0
        BY <1>0, <3>5 DEF Verdict, RowInv
      <4>2. PhaseOf' = [PhaseOf EXCEPT ![cur] = "done"]
        BY <1>1, <3>1, <3>2, <4>1, PhaseOfRow, PhaseTable
      <4>3. D!Complete(cur)
        BY <3>1, <3>2, <4>1, <4>2 DEF D!Complete, PhaseOf
      <4>4. \E m \in Msgs : D!Complete(m)
        BY <1>1, <4>3 DEF D!Complete
      <4> QED
        BY <4>4 DEF D!DeliveryNext
    <3> QED
      BY <3>1, <3>3, <3>4, <3>5 DEF Outcomes
  <2>4. Mark \/ UNCHANGED <<row, shown>> \/ (PasteChunk /\ shown' = [shown EXCEPT ![cur] = @ + 1])
    BY <1>6 DEF PasteTurn, Check, Drain, PasteChunk, PressEnter, Verify, VerifyFails, Resubmit, LastEnter
  <2> QED
    BY <2>1, <2>2, <2>3, <2>4
<1> QED
  BY <1>3, <1>4, <1>5, <1>6, TurnCases

(* The way into the pane keeps the promise of the bus: a row is marked     *)
(* delivered or boxed only after it was pasted, and what is marked is      *)
(* never pasted again (the outcome switch, serve.go:2522).                 *)
THEOREM PaneDelivers == PaneSpec => PaneImplementsDelivery
<1>1. PaneInit => D!DeliveryInit
  <2> SUFFICES ASSUME PaneInit PROVE D!DeliveryInit
    OBVIOUS
  <2>1. row = [m \in Msgs |-> "queued"] /\ shown = [m \in Msgs |-> 0]
    BY DEF PaneInit, GateInit, PasteInit
  <2>2. PhaseOf \in [Msgs -> {"new", "pending"}]
    BY <2>1, PhaseOfRow, PhaseTable
  <2> QED
    BY <2>1, <2>2 DEF D!DeliveryInit, PhaseOf
<1>2. PaneInv /\ [PaneNext]_paneVars => [D!DeliveryNext]_(D!deliveryVars)
  BY PaneRefines DEF D!deliveryVars, PhaseOf
<1> QED
  BY <1>1, <1>2, PaneInvariant, PTL DEF PaneSpec, PaneImplementsDelivery, D!DeliverySpec
=============================================================================
