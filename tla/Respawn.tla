------------------------------- MODULE Respawn -------------------------------
(***************************************************************************)
(* The bounded respawn (internal/cli/respawn.go and its two triggers in    *)
(* the mailman's loop).  Compactions and clears are counted; at the        *)
(* threshold the mailman asks the program in the pane to exit, waits for   *)
(* the bare shell, types the registered launch command and looks whether a *)
(* session came up.  Meanwhile the program, its hook and the operator act  *)
(* on the same pane and the same row, calls fail and the mailman may stop. *)
(* One agent with a pane on record, neither paused nor parked.             *)
(***************************************************************************)
EXTENDS Integers

CONSTANTS
  Thresholds,  \* values of respawn_after_shrinks
  MaxEvents,   \* bound: how many compactions and clears there are
  MaxMoves,    \* bound: how often the world acts unprompted
  MaxTurns,    \* bound: how many turns begin while /exit is about to be typed
  MaxFaults    \* bound: how many calls fail

ASSUME RespawnAssumption ==
  /\ Thresholds \subseteq Nat /\ 0 \in Thresholds
  /\ MaxEvents \in Nat /\ MaxMoves \in Nat /\ MaxTurns \in Nat /\ MaxFaults \in Nat

(* relaunch_cmd: not set, starting the chamber through the wrapper that    *)
(* injects a session id, starting it without, or naming no program.        *)
Commands == {"", "wrapper", "plain", "broken"}

(* The columns of agents that respawn reads.  The session on record is the *)
(* one that runs or one that ended; the signal and its watermark are the   *)
(* number of the compaction they were stamped by.  Where there is no row   *)
(* the other columns mean nothing.                                         *)
Rows == [registered : BOOLEAN, session : {"none", "current", "dead"},
         threshold : Thresholds, count : Nat, signal : Nat, watermark : Nat,
         cmd : Commands, auto : BOOLEAN]

Settings(r) == [threshold |-> r.threshold, cmd |-> r.cmd, auto |-> r.auto]

(* What runs in the pane.  A typed command is starting until the program   *)
(* is up; it is injected if the wrapper started it.                        *)
PaneStates == [runs : {"chamber", "starting", "shell"}, injected : BOOLEAN,
               busy : BOOLEAN, leaving : BOOLEAN, announced : BOOLEAN]

Stages == {"off", "top", "observe", "clear", "gate", "exit", "await", "relaunch",
           "forget", "wait", "confirm", "unregister", "reset", "mail"}

VARIABLES
  row,      \* the agent's row
  pane,     \* what runs in its pane
  pc,       \* the mailman's stage
  a,        \* the settings as this iteration read them
  via,      \* "self", "clear" or "auto": what the respawn was triggered by
  events,   \* compactions noted and clears delivered so far
  counted,  \* how often the counter went up
  charge,   \* who answers for the pane, see Charges
  tally,    \* history, see Tallies
  moves,    \* unprompted acts so far
  faults    \* failed calls so far

(* Nobody in particular; the mailman, which has sent /exit or typed the    *)
(* command; it gave up waiting or typing; it was stopped, or a write of    *)
(* its failed.                                                             *)
Charges == {"none", "mailman", "gave up", "cut"}

(* Turns that began between the idle gate and the /exit, launches by hand  *)
(* between it and the launch command, /exit typed into a turn, and the     *)
(* launch command typed into anything but a shell.                         *)
Tallies == [turns : 0..MaxTurns, launches : Nat, intruded : Nat, strayed : Nat]

world == <<moves, faults>>

vars == <<row, pane, pc, a, via, events, counted, charge, tally, moves, faults>>

Init ==
  /\ row \in [registered : {TRUE}, session : {"current"}, threshold : Thresholds,
              count : {0}, signal : {0}, watermark : {0}, cmd : Commands, auto : BOOLEAN]
  /\ pane = [runs |-> "chamber", injected |-> TRUE, busy |-> FALSE,
             leaving |-> FALSE, announced |-> TRUE]
  /\ pc = "off"
  /\ a = Settings(row)
  /\ via = "self"
  /\ events = 0 /\ counted = 0
  /\ charge = "none"
  /\ tally = [turns |-> 0, launches |-> 0, intruded |-> 0, strayed |-> 0]
  /\ moves = 0 /\ faults = 0

Fault == faults < MaxFaults /\ faults' = faults + 1 /\ UNCHANGED moves

Moves == moves < MaxMoves /\ moves' = moves + 1 /\ UNCHANGED faults

-----------------------------------------------------------------------------
(* The pane and the people at it *)

(* A turn begins or ends, by the operator or by a hook. *)
Busy ==
  /\ pane.runs = "chamber"
  /\ IF ~pane.busy /\ pc = "exit"
     THEN tally.turns < MaxTurns /\ tally' = [tally EXCEPT !.turns = @ + 1]
     ELSE UNCHANGED tally
  /\ pane' = [pane EXCEPT !.busy = ~@]
  /\ UNCHANGED <<row, pc, a, via, events, counted, charge, world>>

Ended == [pane EXCEPT !.runs = "shell", !.injected = FALSE, !.busy = FALSE,
                      !.leaving = FALSE, !.announced = FALSE]

SessionEnds == [row EXCEPT !.session = IF @ = "current" THEN "dead" ELSE @]

(* The program gets round to the /exit it was sent. *)
Exits ==
  /\ pane.runs = "chamber" /\ pane.leaving
  /\ pane' = Ended
  /\ row' = SessionEnds
  /\ UNCHANGED <<pc, a, via, events, counted, charge, tally, world>>

(* The operator exits, the program crashes or bails out of a compaction,   *)
(* or a start comes to nothing.                                            *)
Dies ==
  /\ pane.runs # "shell"
  /\ pane' = Ended
  /\ row' = SessionEnds
  /\ charge' = "none"
  /\ Moves
  /\ UNCHANGED <<pc, a, via, events, counted, tally>>

Launched(cmd) ==
  IF cmd = "broken" THEN pane
  ELSE [pane EXCEPT !.runs = "starting", !.injected = (cmd = "wrapper")]

(* The operator launches it by hand. *)
Launch ==
  /\ pane.runs = "shell"
  /\ \E cmd \in {"wrapper", "plain"} : pane' = Launched(cmd)
  /\ charge' = "none"
  /\ tally' = IF pc \in {"exit", "await", "relaunch"} THEN [tally EXCEPT !.launches = @ + 1] ELSE tally
  /\ Moves
  /\ UNCHANGED <<row, pc, a, via, events, counted>>

Up ==
  /\ pane.runs = "starting"
  /\ pane' = [pane EXCEPT !.runs = "chamber"]
  /\ charge' = "none"
  /\ UNCHANGED <<row, pc, a, via, events, counted, tally, world>>

NewRow(cmd, auto) ==
  [registered |-> TRUE, session |-> "none", threshold |-> 0, count |-> 0,
   signal |-> 0, watermark |-> 0, cmd |-> cmd, auto |-> auto]

(* A chamber registers once when it is up, with the session id it finds in *)
(* its own process tree, if any; the settings of a row that is there, and  *)
(* an id it cannot replace, are kept.                                      *)
SelfRegister ==
  /\ pane.runs = "chamber" /\ ~pane.announced
  /\ \E cmd \in Commands, auto \in BOOLEAN :
       LET r == IF row.registered THEN row ELSE NewRow(cmd, auto)
       IN row' = [r EXCEPT !.session = IF pane.injected THEN "current" ELSE @]
  /\ pane' = [pane EXCEPT !.announced = TRUE]
  /\ UNCHANGED <<pc, a, via, events, counted, charge, tally, world>>

(* The operator's settings; the running mailman reads them at its next     *)
(* iteration.                                                              *)
Setting(r) ==
  /\ row.registered
  /\ row' = r
  /\ Moves
  /\ UNCHANGED <<pane, pc, a, via, events, counted, charge, tally>>

SetRespawnAfterShrinks ==
  \E n \in Thresholds \ {row.threshold} : Setting([row EXCEPT !.threshold = n])

SetRelaunchCmd == \E cmd \in Commands \ {row.cmd} : Setting([row EXCEPT !.cmd = cmd])

SetAutoRestart == Setting([row EXCEPT !.auto = ~@])

Removed == [row EXCEPT !.registered = FALSE]

Unregister == Setting(Removed)

(* note-compact, from the hook of a session that compacts itself.  The     *)
(* stamp is later than any before it.                                      *)
NoteCompact ==
  /\ pane.runs = "chamber" /\ row.registered
  /\ events < MaxEvents
  /\ events' = events + 1
  /\ row' = [row EXCEPT !.signal = events + 1]
  /\ UNCHANGED <<pane, pc, a, via, counted, charge, tally, world>>

-----------------------------------------------------------------------------
(* The mailman *)

Mine == <<pane, a, via, events, counted, charge, tally>>

Start ==
  /\ pc = "off"
  /\ pc' = "top"
  /\ UNCHANGED <<row, Mine, world>>

(* SIGTERM or a crash, wherever it stands: every call of the respawn runs  *)
(* under the context SIGTERM cancels.                                      *)
Stop ==
  /\ pc # "off"
  /\ pc' = "off"
  /\ charge' = IF charge = "mailman" THEN "cut" ELSE charge
  /\ Moves
  /\ UNCHANGED <<row, pane, a, via, events, counted, tally>>

(* Mutation: only the first compaction is new. *)
MutLoopTop ==
  /\ pc = "top"
  /\ row.registered
  /\ a' = Settings(row)
  /\ via' = "self"
  /\ pc' = IF row.threshold > 0 /\ row.signal > 0 /\ row.watermark = 0 THEN "observe" ELSE "mail"
  /\ UNCHANGED <<row, pane, events, counted, charge, tally, world>>

(* GetAgent; a row that is gone is waited for. *)
LoopTop ==
  /\ pc = "top"
  /\ row.registered
  /\ a' = Settings(row)
  /\ via' = "self"
  /\ pc' = IF row.threshold > 0 /\ row.signal > row.watermark THEN "observe" ELSE "mail"
  /\ UNCHANGED <<row, pane, events, counted, charge, tally, world>>

Reached(n) == n >= a.threshold

Counted(r) ==
  /\ row' = r
  /\ counted' = counted + 1
  /\ UNCHANGED <<pane, a, via, events, charge, tally>>

(* Mutation: the watermark stays behind. *)
MutCountRow == [row EXCEPT !.count = @ + 1]

CountRow == [row EXCEPT !.count = @ + 1, !.watermark = row.signal]

(* CountSelfCompactIfNew: count and watermark in one statement, read back  *)
(* in another that may fail by itself.                                     *)
Observe ==
  /\ pc = "observe"
  /\ \/ /\ row.registered /\ row.signal > row.watermark
        /\ Counted(CountRow)
        /\ \/ pc' = (IF Reached(row.count + 1) THEN "gate" ELSE "mail") /\ UNCHANGED world
           \/ pc' = "mail" /\ Fault
     \/ /\ ~(row.registered /\ row.signal > row.watermark)
        /\ pc' = "mail"
        /\ UNCHANGED <<row, Mine, world>>
     \/ pc' = "mail" /\ Fault /\ UNCHANGED <<row, Mine>>

(* The rest of the iteration: nothing to deliver, a text, a refused paste, *)
(* or a control row that reaches the session.  A compaction that does not  *)
(* settle may have ended the program.                                      *)
Mail ==
  /\ pc = "mail"
  /\ \/ pc' = "top" /\ UNCHANGED <<via, events>>
     \/ /\ pane.runs = "chamber" /\ ~pane.busy /\ events < MaxEvents
        /\ pc' = "clear" /\ via' = "clear" /\ events' = events + 1
     \/ /\ pane.runs = "chamber" /\ ~pane.busy /\ a.auto /\ a.cmd # ""
        /\ pc' = "await" /\ via' = "auto" /\ UNCHANGED events
  /\ UNCHANGED <<row, pane, a, counted, charge, tally, world>>

(* IncrementRespawnShrinkCount after a delivered clear. *)
Clear ==
  /\ pc = "clear"
  /\ \/ /\ a.threshold > 0 /\ row.registered
        /\ Counted([row EXCEPT !.count = @ + 1])
        /\ \/ pc' = (IF Reached(row.count + 1) THEN "gate" ELSE "top") /\ UNCHANGED world
           \/ pc' = "top" /\ Fault
     \/ /\ ~(a.threshold > 0 /\ row.registered)
        /\ pc' = "top"
        /\ UNCHANGED <<row, Mine, world>>
     \/ a.threshold > 0 /\ pc' = "top" /\ Fault /\ UNCHANGED <<row, Mine>>

(* Where the loop goes on: a respawn after an observed compaction is       *)
(* followed by the rest of the same iteration.                             *)
Resume == pc' = IF via = "self" THEN "mail" ELSE "top"

(* A dead pane may still show the frame of the program that ran in it. *)
ReadsIdle == (pane.runs = "chamber" /\ ~pane.busy) \/ pane.runs = "shell"

ReadsOther == pane.runs # "chamber" \/ pane.busy

(* The idle gate, and the guard that there is a command to come back with. *)
Gate ==
  /\ pc = "gate"
  /\ \/ /\ ReadsIdle /\ a.cmd # ""
        /\ pc' = "exit" /\ UNCHANGED world
     \/ /\ ReadsOther \/ a.cmd = ""
        /\ Resume /\ UNCHANGED world
     \/ Fault /\ Resume
  /\ UNCHANGED <<row, Mine>>

(* /exit, typed whatever is in the input; a failure to type it is logged. *)
SendExit ==
  /\ pc = "exit"
  /\ pc' = "await"
  /\ \/ /\ pane.runs = "chamber"
        /\ \E leaves \in IF pane.busy THEN BOOLEAN ELSE {TRUE} :
             pane' = [pane EXCEPT !.leaving = @ \/ leaves]
        /\ charge' = "mailman"
        /\ tally' = IF pane.busy THEN [tally EXCEPT !.intruded = @ + 1] ELSE tally
        /\ UNCHANGED world
     \/ pane.runs # "chamber" /\ UNCHANGED <<pane, charge, tally, world>>
     \/ Fault /\ UNCHANGED <<pane, charge, tally>>
  /\ UNCHANGED <<row, a, via, events, counted>>

GivesUp == charge' = IF charge = "mailman" THEN "gave up" ELSE charge

(* Mutation: the end of the window is taken for the exit. *)
MutAwaitExit ==
  /\ pc = "await"
  /\ pc' = "relaunch"
  /\ UNCHANGED <<row, Mine, world>>

(* awaitAdapterExit: the shell is seen, or the window ends without one. A  *)
(* wrapper that is starting is a shell to pane_current_command.            *)
AwaitExit ==
  /\ pc = "await"
  /\ \/ pane.runs \in {"shell", "starting"} /\ pc' = "relaunch" /\ UNCHANGED <<charge, world>>
     \/ pane.runs # "shell" /\ Resume /\ GivesUp /\ UNCHANGED world
     \/ Fault /\ Resume /\ GivesUp
  /\ UNCHANGED <<row, pane, a, via, events, counted, tally>>

(* The command as this iteration read it is typed; in a program it is a    *)
(* prompt like any other.                                                  *)
Relaunch ==
  /\ pc = "relaunch"
  /\ \/ /\ pc' = "forget"
        /\ \/ pane.runs = "shell" /\ pane' = Launched(a.cmd) /\ charge' = "mailman"
           \/ pane.runs = "chamber" /\ pane' = [pane EXCEPT !.busy = TRUE] /\ UNCHANGED charge
           \/ pane.runs = "starting" /\ UNCHANGED <<pane, charge>>
        /\ tally' = IF pane.runs = "shell" THEN tally ELSE [tally EXCEPT !.strayed = @ + 1]
        /\ UNCHANGED world
     \/ Fault /\ Resume /\ GivesUp /\ UNCHANGED <<pane, tally>>
  /\ UNCHANGED <<row, a, via, events, counted>>

(* SetSessionID with no id: the session on record has ended. *)
ForgetSession ==
  /\ pc = "forget"
  /\ pc' = "wait"
  /\ \/ row' = [row EXCEPT !.session = "none"] /\ UNCHANGED world
     \/ Fault /\ UNCHANGED row
  /\ UNCHANGED Mine

(* respawnWaitReady: it is ready or the time is up, and both go on. *)
WaitReady ==
  /\ pc = "wait"
  /\ pc' = "confirm"
  /\ UNCHANGED <<row, Mine, world>>

(* Mutation: an idle reading is good enough. *)
MutConfirm ==
  /\ pc = "confirm"
  /\ IF ReadsIdle THEN IF via = "auto" THEN Resume ELSE pc' = "reset" ELSE pc' = "unregister"
  /\ UNCHANGED <<row, Mine, world>>

(* SessionIDForPane: no injected id, no chamber.  The id may be there      *)
(* before the program is up; a walk that fails finds none.                 *)
Confirm ==
  /\ pc = "confirm"
  /\ \/ /\ pane.runs # "shell" /\ pane.injected
        /\ IF via = "auto" THEN Resume ELSE pc' = "reset"
        /\ UNCHANGED world
     \/ ~(pane.runs = "chamber" /\ pane.injected) /\ pc' = "unregister" /\ UNCHANGED world
     \/ Fault /\ pc' = "unregister"
  /\ UNCHANGED <<row, Mine>>

(* DeleteAgent: mail is not to reach the shell. *)
UnregisterDead ==
  /\ pc = "unregister"
  /\ Resume
  /\ \/ row' = Removed /\ UNCHANGED <<charge, world>>
     \/ Fault /\ charge' = (IF charge = "mailman" THEN "cut" ELSE charge) /\ UNCHANGED row
  /\ UNCHANGED <<pane, a, via, events, counted, tally>>

(* ResetRespawnShrinkCount, after a relaunch that brought a chamber back. *)
ResetCount ==
  /\ pc = "reset"
  /\ Resume
  /\ \/ row' = [row EXCEPT !.count = 0] /\ UNCHANGED world
     \/ Fault /\ UNCHANGED row
  /\ UNCHANGED Mine

Mailman == LoopTop \/ Observe \/ Mail \/ Clear \/ Gate \/ SendExit \/ AwaitExit \/ Relaunch
           \/ ForgetSession \/ WaitReady \/ Confirm \/ UnregisterDead \/ ResetCount

World == Busy \/ Exits \/ Dies \/ Launch \/ Up \/ SelfRegister \/ SetRespawnAfterShrinks
         \/ SetRelaunchCmd \/ SetAutoRestart \/ Unregister \/ NoteCompact

Next == World \/ Start \/ Stop \/ Mailman

(* The unit restarts the mailman, and every wait in the path is bounded. *)
Spec == Init /\ [][Next]_vars /\ WF_vars(Start) /\ WF_vars(Mailman)

-----------------------------------------------------------------------------
(* Properties *)

(* Every variable has its type. *)
RespawnTypeOK ==
  /\ row \in Rows
  /\ a \in [threshold : Thresholds, cmd : Commands, auto : BOOLEAN]
  /\ pane \in PaneStates
  /\ pc \in Stages
  /\ via \in {"self", "clear", "auto"}
  /\ events \in 0..MaxEvents /\ counted \in Nat
  /\ charge \in Charges
  /\ tally \in Tallies
  /\ moves \in 0..MaxMoves /\ faults \in 0..MaxFaults

(* "Never double-counted": across stops, failed reads and re-registration  *)
(* the counter never goes up more often than something shrank (the         *)
(* statement of CountSelfCompactIfNew, and the clears).                    *)
CountedOnce == counted <= events

(* What the mailman types into the wrong thing, somebody put in its way    *)
(* that very moment: every /exit typed into a turn has a turn of its own   *)
(* that began after the idle gate ("NEVER respawn under an open operator   *)
(* turn", respawn.go:143), and every launch command typed into a program,  *)
(* or into one that is starting, a launch by hand of its own.  Over any    *)
(* number of respawns, stops and failed calls the mailman never types over *)
(* the program it started itself, and never takes a session that is still  *)
(* leaving for the shell (respawn.go:216).                                 *)
StrayKeysArePaidFor ==
  tally.intruded <= tally.turns /\ tally.strayed <= tally.launches

(* When the loop goes on, a bare shell for which the mailman answers is    *)
(* not registered any more, whatever the command was worth (#761).  Where  *)
(* it gave up, was stopped or could not write, it does not answer.         *)
StrandedIsUnregistered ==
  pc \in {"top", "mail"} /\ pane.runs = "shell" /\ charge = "mailman" => ~row.registered

(* A compaction of an agent that has opted in is counted in the end, over  *)
(* failed statements and restarts; a later one may stand for it.           *)
CompactIsCounted ==
  \A n \in 1..MaxEvents :
    row.registered /\ row.threshold > 0 /\ row.signal = n /\ row.watermark < n
      ~> row.watermark >= n \/ ~row.registered \/ row.threshold = 0
=============================================================================
