---------------------------- MODULE RespawnProofs ----------------------------
(***************************************************************************)
(* What the bounded respawn guarantees for any thresholds and any number   *)
(* of events, faults and acts of the world: compactions are counted once,  *)
(* stray keystrokes are paid for, and a shell it is left with is not       *)
(* registered.                                                             *)
(***************************************************************************)
EXTENDS Respawn, TLAPS

(* A signal not yet taken into the counter. *)
Uncounted == IF row.signal > row.watermark THEN 1 ELSE 0

(* A delivered clear the mailman is about to count. *)
InHand == IF pc = "clear" THEN 1 ELSE 0

(* Everything counted, or still to be counted, is an event of its own. *)
CountInv == counted + Uncounted + InHand <= events

(* Before /exit a turn, and before the launch command anything but a       *)
(* shell, is there only if it began after the mailman looked, and that is  *)
(* one more than was typed into so far.  A program that is starting must   *)
(* be covered already before the exit is seen: it passes for the shell.    *)
(* Only a chamber has turns.                                               *)
KeysInv ==
  /\ StrayKeysArePaidFor
  /\ pane.runs # "chamber" => ~pane.busy
  /\ pc = "exit" /\ pane.runs = "chamber" /\ pane.busy => tally.intruded < tally.turns
  /\ \/ pc \in {"exit", "await"} /\ pane.runs = "starting"
     \/ pc = "relaunch" /\ pane.runs # "shell"
     => tally.strayed < tally.launches

(* The stages between the /exit and the verdict on the relaunch. *)
Relaunching == {"await", "relaunch", "forget", "wait", "confirm", "unregister"}

(* What the mailman answers for: it is running, after the exit was seen no *)
(* chamber is up, and outside a relaunch a bare shell has no row.          *)
ChargeInv ==
  charge = "mailman" =>
    /\ pc # "off"
    /\ pc # "await" => pane.runs # "chamber"
    /\ pc \notin Relaunching /\ pane.runs = "shell" => ~row.registered

RespawnInv == RespawnTypeOK /\ CountInv /\ KeysInv /\ ChargeInv

USE DEF world

(* Which actions write the row, and that they keep its type. *)
LEMMA RowTypeStep ==
  ASSUME RespawnTypeOK, Next
  PROVE  row' \in Rows
<1>0. row \in Rows /\ events \in Nat
  BY RespawnAssumption DEF RespawnTypeOK
<1> USE DEF Rows
<1>1. CASE Exits \/ Dies
  BY <1>0, <1>1 DEF Exits, Dies, SessionEnds
<1>2. CASE SelfRegister
  BY <1>0, <1>2, RespawnAssumption DEF SelfRegister, NewRow
<1>3. CASE SetRespawnAfterShrinks \/ SetRelaunchCmd \/ SetAutoRestart \/ Unregister
  BY <1>0, <1>3 DEF SetRespawnAfterShrinks, SetRelaunchCmd, SetAutoRestart, Unregister,
                    Setting, Removed
<1>4. CASE NoteCompact
  BY <1>0, <1>4 DEF NoteCompact
<1>5. CASE Observe
  <2>1. row' = row \/ row' = CountRow
    BY <1>5 DEF Observe, Counted
  <2>2. row.count + 1 \in Nat /\ row.signal \in Nat
    BY <1>0
  <2>3. CountRow \in Rows
    BY <1>0, <2>2 DEF CountRow
  <2> QED
    BY <1>0, <2>1, <2>3
<1>6. CASE Clear
  BY <1>0, <1>6 DEF Clear, Counted
<1>7. CASE ForgetSession \/ UnregisterDead \/ ResetCount
  <2>1. [row EXCEPT !.session = "none"] \in Rows /\ Removed \in Rows
    BY <1>0 DEF Removed
  <2>2. [row EXCEPT !.count = 0] \in Rows
    BY <1>0
  <2> QED
    BY <1>0, <1>7, <2>1, <2>2 DEF ForgetSession, UnregisterDead, ResetCount
<1>8. CASE UNCHANGED row
  BY <1>0, <1>8
<1> QED
  BY <1>1, <1>2, <1>3, <1>4, <1>5, <1>6, <1>7, <1>8
  DEF Next, World, Mailman, Busy, Launch, Up, Start, Stop, LoopTop, Mail, Gate, SendExit,
      AwaitExit, Relaunch, WaitReady, Confirm

(* Which actions change the pane, and that they keep its type. *)
LEMMA PaneTypeStep ==
  ASSUME RespawnTypeOK, Next
  PROVE  pane' \in PaneStates
<1>0. pane \in PaneStates
  BY DEF RespawnTypeOK
<1> USE DEF PaneStates
<1>1. CASE Busy \/ Up \/ SelfRegister
  BY <1>0, <1>1 DEF Busy, Up, SelfRegister
<1>2. CASE Exits \/ Dies
  BY <1>0, <1>2 DEF Exits, Dies, Ended
<1>3. CASE Launch \/ Relaunch
  BY <1>0, <1>3 DEF Launch, Relaunch, Launched
<1>4. CASE SendExit
  BY <1>0, <1>4 DEF SendExit
<1>5. CASE UNCHANGED pane
  BY <1>0, <1>5
<1> QED
  BY <1>1, <1>2, <1>3, <1>4, <1>5
  DEF Next, World, Mailman, SetRespawnAfterShrinks, SetRelaunchCmd, SetAutoRestart, Unregister,
      Setting, NoteCompact, Start, Stop, Mine, LoopTop, Observe, Counted, Mail, Clear, Gate,
      AwaitExit, ForgetSession, WaitReady, Confirm, UnregisterDead, ResetCount

(* The settings are read by LoopTop alone. *)
LEMMA SettingsTypeStep ==
  ASSUME RespawnTypeOK, Next
  PROVE  a' \in [threshold : Thresholds, cmd : Commands, auto : BOOLEAN]
<1>1. CASE LoopTop
  BY <1>1 DEF RespawnTypeOK, LoopTop, Settings, Rows
<1>2. CASE UNCHANGED a
  BY <1>2 DEF RespawnTypeOK
<1> QED
  BY <1>1, <1>2
  DEF Next, World, Mailman, Busy, Exits, Dies, Launch, Up, SelfRegister,
      SetRespawnAfterShrinks, SetRelaunchCmd, SetAutoRestart, Unregister, Setting, NoteCompact,
      Start, Stop, Mine, Observe, Counted, Mail, Clear, Gate, SendExit, AwaitExit, Relaunch,
      ForgetSession, WaitReady, Confirm, UnregisterDead, ResetCount

(* The counters of the world and of the events stay within their bounds. *)
LEMMA CounterTypeStep ==
  ASSUME RespawnTypeOK, Next
  PROVE  /\ moves' \in 0..MaxMoves /\ faults' \in 0..MaxFaults
         /\ events' \in 0..MaxEvents /\ counted' \in Nat
<1>1. Moves \/ Fault \/ UNCHANGED world
  BY DEF Next, World, Mailman, Busy, Exits, Dies, Launch, Up, SelfRegister,
      SetRespawnAfterShrinks, SetRelaunchCmd, SetAutoRestart, Unregister, Setting, NoteCompact,
      Start, Stop, Mine, LoopTop, Observe, Counted, Mail, Clear, Gate, SendExit, AwaitExit,
      Relaunch, ForgetSession, WaitReady, Confirm, UnregisterDead, ResetCount
<1>2. events' = events \/ (events < MaxEvents /\ events' = events + 1)
  BY DEF Next, World, Mailman, Busy, Exits, Dies, Launch, Up, SelfRegister,
      SetRespawnAfterShrinks, SetRelaunchCmd, SetAutoRestart, Unregister, Setting, NoteCompact,
      Start, Stop, Mine, LoopTop, Observe, Counted, Mail, Clear, Gate, SendExit, AwaitExit,
      Relaunch, ForgetSession, WaitReady, Confirm, UnregisterDead, ResetCount
<1>3. counted' = counted \/ counted' = counted + 1
  BY DEF Next, World, Mailman, Busy, Exits, Dies, Launch, Up, SelfRegister,
      SetRespawnAfterShrinks, SetRelaunchCmd, SetAutoRestart, Unregister, Setting, NoteCompact,
      Start, Stop, Mine, LoopTop, Observe, Counted, Mail, Clear, Gate, SendExit, AwaitExit,
      Relaunch, ForgetSession, WaitReady, Confirm, UnregisterDead, ResetCount
<1>4. moves' \in 0..MaxMoves /\ faults' \in 0..MaxFaults
  BY <1>1, RespawnAssumption DEF RespawnTypeOK, Moves, Fault
<1> QED
  BY <1>2, <1>3, <1>4, RespawnAssumption DEF RespawnTypeOK

(* The stage, the trigger and who answers. *)
LEMMA StageTypeStep ==
  ASSUME RespawnTypeOK, Next
  PROVE  pc' \in Stages /\ via' \in {"self", "clear", "auto"} /\ charge' \in Charges
<1>1. pc' \in Stages
  BY DEF RespawnTypeOK, Stages, Resume, Next, World, Mailman, Busy, Exits, Dies, Launch, Up, SelfRegister,
      SetRespawnAfterShrinks, SetRelaunchCmd, SetAutoRestart, Unregister, Setting, NoteCompact,
      Start, Stop, Mine, LoopTop, Observe, Counted, Mail, Clear, Gate, SendExit, AwaitExit,
      Relaunch, ForgetSession, WaitReady, Confirm, UnregisterDead, ResetCount
<1>2. via' \in {"self", "clear", "auto"} /\ charge' \in Charges
  BY DEF RespawnTypeOK, Charges, GivesUp, Next, World, Mailman, Busy, Exits, Dies, Launch, Up, SelfRegister,
      SetRespawnAfterShrinks, SetRelaunchCmd, SetAutoRestart, Unregister, Setting, NoteCompact,
      Start, Stop, Mine, LoopTop, Observe, Counted, Mail, Clear, Gate, SendExit, AwaitExit,
      Relaunch, ForgetSession, WaitReady, Confirm, UnregisterDead, ResetCount
<1> QED
  BY <1>1, <1>2

(* What was typed and what the world did are only ever counted up. *)
LEMMA TallyTypeStep ==
  ASSUME RespawnTypeOK, Next
  PROVE  tally' \in Tallies
<1>0. tally \in Tallies
  BY DEF RespawnTypeOK
<1>1. CASE Busy
  <2>1. CASE tally' = [tally EXCEPT !.turns = @ + 1] /\ tally.turns < MaxTurns
    <3>1. tally.turns + 1 \in 0..MaxTurns
      BY <1>0, <2>1, RespawnAssumption DEF Tallies
    <3> QED
      BY <1>0, <2>1, <3>1 DEF Tallies
  <2> QED
    BY <1>0, <1>1, <2>1 DEF Busy
<1>2. CASE Launch
  BY <1>0, <1>2 DEF Launch, Tallies
<1>3. CASE SendExit
  <2>1. tally' = tally \/ tally' = [tally EXCEPT !.intruded = @ + 1]
    BY <1>3 DEF SendExit
  <2> QED
    BY <1>0, <2>1 DEF Tallies
<1>4. CASE Relaunch
  BY <1>0, <1>4 DEF Relaunch, Tallies
<1>5. CASE UNCHANGED tally
  BY <1>0, <1>5
<1> QED
  BY <1>1, <1>2, <1>3, <1>4, <1>5
  DEF Next, World, Mailman, Exits, Dies, Up, SelfRegister, SetRespawnAfterShrinks, SetRelaunchCmd,
      SetAutoRestart, Unregister, Setting, NoteCompact, Start, Stop, Mine, LoopTop, Observe, Counted,
      Mail, Clear, Gate, AwaitExit, ForgetSession, WaitReady, Confirm, UnregisterDead, ResetCount

LEMMA TypeStep ==
  ASSUME RespawnTypeOK, Next
  PROVE  RespawnTypeOK'
BY RowTypeStep, PaneTypeStep, SettingsTypeStep, CounterTypeStep, StageTypeStep, TallyTypeStep
DEF RespawnTypeOK

(* A count goes up only for a new signal or the clear in hand. *)
LEMMA CountStep ==
  ASSUME RespawnTypeOK, CountInv, Next
  PROVE  CountInv'
<1>0. /\ row \in Rows /\ row.signal \in Nat /\ row.watermark \in Nat
      /\ counted \in Nat /\ events \in Nat
  BY RespawnAssumption DEF RespawnTypeOK, Rows
<1> USE <1>0 DEF CountInv, Uncounted, InHand
<1>1. CASE Observe
  <2>1. CASE row' = CountRow /\ counted' = counted + 1 /\ row.signal > row.watermark
    <3>1. row'.signal = row.signal /\ row'.watermark = row.signal
      BY <2>1 DEF CountRow, Rows
    <3>2. events' = events /\ pc # "clear" /\ pc' # "clear"
      BY <1>1 DEF Observe, Counted, Mine
    <3> QED
      BY <2>1, <3>1, <3>2
  <2>2. CASE UNCHANGED <<row, counted>>
    BY <1>1, <2>2 DEF Observe, Counted, Mine
  <2> QED
    BY <1>1, <2>1, <2>2 DEF Observe, Counted, Mine
<1>2. CASE Clear
  <2>1. row'.signal = row.signal /\ row'.watermark = row.watermark
    BY <1>2 DEF Clear, Counted, Rows
  <2>2. /\ pc = "clear" /\ pc' # "clear" /\ events' = events
        /\ counted' = counted \/ counted' = counted + 1
    BY <1>2 DEF Clear, Counted, Mine
  <2> QED
    BY <2>1, <2>2
<1>3. CASE Mail
  <2>1. /\ row' = row /\ counted' = counted /\ pc = "mail"
        /\ \/ pc' # "clear" /\ events' = events
           \/ pc' = "clear" /\ events' = events + 1
    BY <1>3 DEF Mail
  <2> QED
    BY <2>1
<1>4. CASE NoteCompact
  <2>1. row'.watermark = row.watermark /\ row'.signal = events + 1
    BY <1>4 DEF NoteCompact, Rows
  <2>2. events' = events + 1 /\ counted' = counted /\ pc' = pc
    BY <1>4 DEF NoteCompact
  <2> QED
    BY <2>1, <2>2
<1>5. CASE SelfRegister
  <2>1. \/ row'.signal = row.signal /\ row'.watermark = row.watermark
        \/ row'.signal = 0 /\ row'.watermark = 0
    BY <1>5 DEF SelfRegister, NewRow, Rows
  <2>2. events' = events /\ counted' = counted /\ pc' = pc
    BY <1>5 DEF SelfRegister
  <2> QED
    BY <2>1, <2>2
<1>6. ASSUME row'.signal = row.signal, row'.watermark = row.watermark,
             events' = events, counted' = counted, pc' = pc \/ pc' # "clear"
      PROVE  CountInv'
  BY <1>6
<1>7. CASE Exits \/ Dies
  BY <1>6, <1>7 DEF Exits, Dies, SessionEnds, Rows
<1>8. CASE SetRespawnAfterShrinks \/ SetRelaunchCmd \/ SetAutoRestart \/ Unregister
  BY <1>6, <1>8 DEF SetRespawnAfterShrinks, SetRelaunchCmd, SetAutoRestart, Unregister,
                    Setting, Removed, Rows
<1>9. CASE ForgetSession \/ UnregisterDead \/ ResetCount
  <2>1. row'.signal = row.signal /\ row'.watermark = row.watermark
    BY <1>9 DEF ForgetSession, UnregisterDead, ResetCount, Removed, Rows
  <2>2. events' = events /\ counted' = counted /\ pc' # "clear"
    BY <1>9 DEF ForgetSession, UnregisterDead, ResetCount, Resume, Mine
  <2> QED
    BY <1>6, <2>1, <2>2
<1>10. CASE Busy \/ Launch \/ Up \/ Start \/ Stop \/ LoopTop \/ Gate \/ SendExit \/ AwaitExit
            \/ Relaunch \/ WaitReady \/ Confirm
  BY <1>6, <1>10 DEF Busy, Launch, Up, Start, Stop, Mine, LoopTop, Gate, SendExit, AwaitExit,
                     Relaunch, WaitReady, Confirm, Resume
<1> QED
  BY <1>1, <1>2, <1>3, <1>4, <1>5, <1>7, <1>8, <1>9, <1>10 DEF Next, World, Mailman

(* What is typed into the wrong thing is paid for. *)
LEMMA KeysStep ==
  ASSUME RespawnTypeOK, KeysInv, Next
  PROVE  KeysInv'
<1> USE DEF RespawnTypeOK, PaneStates, Tallies, KeysInv, StrayKeysArePaidFor
<1>0. /\ tally.turns \in Nat /\ tally.launches \in Nat
      /\ tally.intruded \in Nat /\ tally.strayed \in Nat
  BY RespawnAssumption
<1>1. CASE Busy
  <2>1. /\ pc' = pc /\ pane.runs = "chamber" /\ pane'.runs = "chamber" /\ pane'.busy = ~pane.busy
    BY <1>1 DEF Busy
  <2>2. CASE ~pane.busy /\ pc = "exit"
    <3>1. /\ tally'.turns = tally.turns + 1 /\ tally'.launches = tally.launches
          /\ tally'.intruded = tally.intruded /\ tally'.strayed = tally.strayed
      BY <1>1, <2>2 DEF Busy
    <3> QED
      BY <1>0, <2>1, <2>2, <3>1
  <2>3. CASE ~(~pane.busy /\ pc = "exit")
    <3>1. tally' = tally
      BY <1>1, <2>3 DEF Busy
    <3> QED
      BY <1>0, <2>1, <2>3, <3>1
  <2> QED
    BY <2>2, <2>3
<1>2. CASE Exits
  BY <1>2 DEF Exits, Ended, SessionEnds
<1>3. CASE Dies
  BY <1>3 DEF Dies, Ended, SessionEnds
<1>4. CASE Launch
  <2>1. /\ pc' = pc /\ pane.runs = "shell"
        /\ pane'.runs = "starting" \/ pane'.runs = "shell"
        /\ pane'.busy = pane.busy
    BY <1>4 DEF Launch, Launched
  <2>2. CASE pc \in {"exit", "await", "relaunch"}
    <3>1. /\ tally'.turns = tally.turns /\ tally'.launches = tally.launches + 1
          /\ tally'.intruded = tally.intruded /\ tally'.strayed = tally.strayed
      BY <1>4, <2>2 DEF Launch
    <3> QED
      BY <1>0, <2>1, <3>1
  <2>3. CASE pc \notin {"exit", "await", "relaunch"}
    <3>1. tally' = tally
      BY <1>4, <2>3 DEF Launch
    <3> QED
      BY <1>0, <2>1, <2>3, <3>1
  <2> QED
    BY <2>2, <2>3
<1>5. CASE Up
  BY <1>5 DEF Up
<1>6. CASE SelfRegister
  BY <1>6 DEF SelfRegister, NewRow
<1>7. CASE SetRespawnAfterShrinks
  BY <1>7 DEF SetRespawnAfterShrinks, Setting
<1>8. CASE SetRelaunchCmd
  BY <1>8 DEF SetRelaunchCmd, Setting
<1>9. CASE SetAutoRestart
  BY <1>9 DEF SetAutoRestart, Setting
<1>10. CASE Unregister
  BY <1>10 DEF Unregister, Setting, Removed
<1>11. CASE NoteCompact
  BY <1>11 DEF NoteCompact
<1>12. CASE Start
  BY <1>12 DEF Start, Mine
<1>13. CASE Stop
  BY <1>13 DEF Stop
<1>14. CASE LoopTop
  BY <1>14 DEF LoopTop, Settings
<1>15. CASE Observe
  BY <1>15 DEF Observe, Counted, CountRow, Mine
<1>16. CASE Mail
  BY <1>16 DEF Mail
<1>17. CASE Clear
  BY <1>17 DEF Clear, Counted, Mine
<1>18. CASE Gate
  BY <1>18 DEF Gate, ReadsIdle, Resume, Mine
<1>19. CASE SendExit
  <2>1. pc = "exit" /\ pc' = "await" /\ pane'.runs = pane.runs /\ pane'.busy = pane.busy
    BY <1>19 DEF SendExit
  <2>2. CASE pane.runs = "chamber" /\ pane.busy /\ tally' = [tally EXCEPT !.intruded = @ + 1]
    <3>1. /\ tally'.turns = tally.turns /\ tally'.launches = tally.launches
          /\ tally'.intruded = tally.intruded + 1 /\ tally'.strayed = tally.strayed
      BY <2>2
    <3> QED
      BY <1>0, <2>1, <2>2, <3>1
  <2>3. CASE tally' = tally
    BY <1>0, <2>1, <2>3
  <2> QED
    BY <1>19, <2>2, <2>3 DEF SendExit
<1>20. CASE AwaitExit
  BY <1>20 DEF AwaitExit, Resume, GivesUp
<1>21. CASE Relaunch
  <2>1. /\ pc = "relaunch" /\ pc' \notin {"exit", "await", "relaunch"}
        /\ pane'.runs # "chamber" => ~pane'.busy
    BY <1>21 DEF Relaunch, Launched, Resume
  <2>2. CASE pane.runs # "shell" /\ tally' = [tally EXCEPT !.strayed = @ + 1]
    <3>1. /\ tally'.turns = tally.turns /\ tally'.launches = tally.launches
          /\ tally'.intruded = tally.intruded /\ tally'.strayed = tally.strayed + 1
      BY <2>2
    <3> QED
      BY <1>0, <2>1, <2>2, <3>1
  <2>3. CASE tally' = tally
    BY <1>0, <2>1, <2>3
  <2> QED
    BY <1>21, <2>2, <2>3 DEF Relaunch
<1>22. CASE ForgetSession
  BY <1>22 DEF ForgetSession, Mine
<1>23. CASE WaitReady
  BY <1>23 DEF WaitReady, Mine
<1>24. CASE Confirm
  BY <1>24 DEF Confirm, Mine, Resume
<1>25. CASE UnregisterDead
  BY <1>25 DEF UnregisterDead, Removed, Resume
<1>26. CASE ResetCount
  BY <1>26 DEF ResetCount, Mine, Resume
<1> QED
  BY <1>1, <1>2, <1>3, <1>4, <1>5, <1>6, <1>7, <1>8, <1>9, <1>10, <1>11, <1>12, <1>13,
     <1>14, <1>15, <1>16, <1>17, <1>18, <1>19, <1>20, <1>21, <1>22, <1>23, <1>24, <1>25, <1>26
  DEF Next, World, Mailman

(* What the mailman answers for stays accounted for. *)
LEMMA ChargeStep ==
  ASSUME RespawnTypeOK, ChargeInv, Next
  PROVE  ChargeInv'
<1> USE DEF RespawnTypeOK, Rows, PaneStates, ChargeInv, Relaunching
<1>1. CASE Busy
  BY <1>1 DEF Busy
<1>2. CASE Exits
  BY <1>2 DEF Exits, Ended, SessionEnds
<1>3. CASE Dies
  BY <1>3 DEF Dies, Ended, SessionEnds
<1>4. CASE Launch
  BY <1>4 DEF Launch, Launched
<1>5. CASE Up
  BY <1>5 DEF Up
<1>6. CASE SelfRegister
  BY <1>6 DEF SelfRegister, NewRow
<1>7. CASE SetRespawnAfterShrinks
  BY <1>7 DEF SetRespawnAfterShrinks, Setting
<1>8. CASE SetRelaunchCmd
  BY <1>8 DEF SetRelaunchCmd, Setting
<1>9. CASE SetAutoRestart
  BY <1>9 DEF SetAutoRestart, Setting
<1>10. CASE Unregister
  BY <1>10 DEF Unregister, Setting, Removed
<1>11. CASE NoteCompact
  BY <1>11 DEF NoteCompact
<1>12. CASE Start
  BY <1>12 DEF Start, Mine
<1>13. CASE Stop
  BY <1>13 DEF Stop
<1>14. CASE LoopTop
  BY <1>14 DEF LoopTop, Settings
<1>15. CASE Observe
  BY <1>15 DEF Observe, Counted, CountRow, Mine
<1>16. CASE Mail
  BY <1>16 DEF Mail
<1>17. CASE Clear
  BY <1>17 DEF Clear, Counted, Mine
<1>18. CASE Gate
  BY <1>18 DEF Gate, ReadsIdle, Resume, Mine
<1>19. CASE SendExit
  BY <1>19 DEF SendExit
<1>20. CASE AwaitExit
  BY <1>20 DEF AwaitExit, Resume, GivesUp
<1>21. CASE Relaunch
  BY <1>21 DEF Relaunch, Launched, Resume, GivesUp
<1>22. CASE ForgetSession
  BY <1>22 DEF ForgetSession, Mine
<1>23. CASE WaitReady
  BY <1>23 DEF WaitReady, Mine
<1>24. CASE Confirm
  BY <1>24 DEF Confirm, Mine, Resume
<1>25. CASE UnregisterDead
  BY <1>25 DEF UnregisterDead, Removed, Resume
<1>26. CASE ResetCount
  BY <1>26 DEF ResetCount, Mine, Resume
<1> QED
  BY <1>1, <1>2, <1>3, <1>4, <1>5, <1>6, <1>7, <1>8, <1>9, <1>10, <1>11, <1>12, <1>13,
     <1>14, <1>15, <1>16, <1>17, <1>18, <1>19, <1>20, <1>21, <1>22, <1>23, <1>24, <1>25, <1>26
  DEF Next, World, Mailman

LEMMA RespawnInitInv == Init => RespawnInv
<1> SUFFICES ASSUME Init PROVE RespawnInv
  OBVIOUS
<1>1. RespawnTypeOK
  <2>1. row \in Rows /\ a \in [threshold : Thresholds, cmd : Commands, auto : BOOLEAN]
    BY RespawnAssumption DEF Init, Settings, Rows
  <2>2. pane \in PaneStates
    BY DEF Init, PaneStates
  <2>3. tally \in Tallies
    BY RespawnAssumption DEF Init, Tallies
  <2>4. pc \in Stages /\ via \in {"self", "clear", "auto"} /\ charge \in Charges
    BY DEF Init, Stages, Charges
  <2>5. /\ events \in 0..MaxEvents /\ counted \in Nat
        /\ moves \in 0..MaxMoves /\ faults \in 0..MaxFaults
    BY RespawnAssumption DEF Init
  <2> QED
    BY <2>1, <2>2, <2>3, <2>4, <2>5 DEF RespawnTypeOK
<1>2. CountInv
  BY DEF Init, CountInv, Uncounted, InHand
<1>3. KeysInv /\ ChargeInv
  BY DEF Init, KeysInv, StrayKeysArePaidFor, ChargeInv
<1> QED
  BY <1>1, <1>2, <1>3 DEF RespawnInv

LEMMA RespawnInvStep ==
  ASSUME RespawnInv, [Next]_vars
  PROVE  RespawnInv'
<1>1. CASE Next
  BY <1>1, TypeStep, CountStep, KeysStep, ChargeStep DEF RespawnInv
<1>2. CASE UNCHANGED vars
  BY <1>2 DEF vars, RespawnInv, RespawnTypeOK, CountInv, Uncounted, InHand, KeysInv,
              StrayKeysArePaidFor, ChargeInv
<1> QED
  BY <1>1, <1>2

(* The inductive invariant holds throughout, over stops, faults and        *)
(* everything the operator and the program do meanwhile.                   *)
THEOREM RespawnInvariant == Spec => []RespawnInv
<1>1. RespawnInv /\ [Next]_vars => RespawnInv'
  BY RespawnInvStep
<1> QED
  BY RespawnInitInv, <1>1, PTL DEF Spec

(* The counter never goes up more often than something shrank              *)
(* (CountSelfCompactIfNew, agents.go; IncrementRespawnShrinkCount).        *)
THEOREM NeverDoubleCounted == Spec => []CountedOnce
<1>1. RespawnInv => CountedOnce
  BY DEF RespawnInv, RespawnTypeOK, CountInv, Uncounted, InHand, CountedOnce
<1> QED
  BY RespawnInvariant, <1>1, PTL

(* A shell the mailman made and still answers for is not registered when   *)
(* the loop goes on (tryRespawn's unregister, respawn.go).                 *)
THEOREM NoRowForAShell == Spec => []StrandedIsUnregistered
<1>1. RespawnInv => StrandedIsUnregistered
  BY DEF RespawnInv, ChargeInv, Relaunching, StrandedIsUnregistered
<1> QED
  BY RespawnInvariant, <1>1, PTL

(* Every /exit typed into a turn, and every launch command typed into      *)
(* anything but a shell, has a turn or a launch of its own that came       *)
(* between the mailman's look and its keystrokes (respawn.go:143, 216).    *)
THEOREM StrayKeysPaidFor == Spec => []StrayKeysArePaidFor
<1>1. RespawnInv => StrayKeysArePaidFor
  BY DEF RespawnInv, KeysInv
<1> QED
  BY RespawnInvariant, <1>1, PTL
=============================================================================
