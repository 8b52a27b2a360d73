------------------------------ MODULE Register ------------------------------
(***************************************************************************)
(* `register --force' of the agent a mailman serves                        *)
(* (internal/cli/register.go) and the register tool of the MCP server      *)
(* (internal/cli/mcp.go), with the don't-flood policy they apply           *)
(* (internal/cli/backlog.go).                                              *)
(*                                                                         *)
(* The command is a sequence of single statements; the mailman, the        *)
(* senders and a kill get in between any two.  It may give the agent       *)
(* another pane and another delivery mode, clears the parked state, fences *)
(* the queued backlog off and announces it.                                *)
(***************************************************************************)
EXTENDS Mailman

CONSTANTS
  KeepNewest,      \* 0: policy announce; n: auto-deliver the newest n
  RegisterModes,   \* the delivery modes a register asks for
  MaxRegisters     \* bound: how many registers run

ASSUME RegisterAssumption ==
  /\ KeepNewest \in Nat
  /\ RegisterModes \subseteq Modes
  /\ MaxRegisters \in Nat

VARIABLES
  rpc,        \* the next statement of the running register, "idle" if none runs
  req,        \* what it was asked for
  floor,      \* the floor, as it read it
  skipped,    \* the number of rows below it, as it counted them
  registers   \* how many registers were begun

registerVars == <<rpc, req, floor, skipped, registers>>

Requests == [pane : Panes, mode : RegisterModes]

RegisterStages == {"idle", "upsert", "mode", "clear", "session", "depth", "floor", "epoch", "nudge", "promote"}

(* Rows a mode flip would strand. *)
StaleQueued == {i \in Queued(Self) : env[i].after = "none"}

(* A flip with queued rows is refused unless the caller purges or keeps    *)
(* them.  Who runs in the pane is not looked at.                           *)
RegisterBegin ==
  /\ rpc = "idle" /\ registers < MaxRegisters
  /\ \E r \in Requests :
       /\ req' = r
       /\ \/ /\ r.mode # agent[Self].mode /\ StaleQueued # {}
             /\ AckStaleQueued(Self) /\ UNCHANGED agent
          \/ UNCHANGED storeVars
  /\ rpc' = "upsert"
  /\ registers' = registers + 1
  /\ UNCHANGED <<floor, skipped, mailmanVars>>

(* The MCP tool has no such check: it flips the mode over whatever waits.  *)
McpRegister ==
  /\ rpc = "idle" /\ registers < MaxRegisters
  /\ req' \in Requests
  /\ rpc' = "upsert"
  /\ registers' = registers + 1
  /\ UNCHANGED <<storeVars, floor, skipped, mailmanVars>>

(* A failed upsert or mode change ends the command (RegisterDies); later   *)
(* failures are reported and passed over.                                  *)
RegisterAgent ==
  /\ \/ /\ rpc = "upsert" /\ rpc' = "mode"
        /\ UpsertAgent(Self, req.pane)
        /\ UNCHANGED <<msgVars, errorVars>>
     \/ /\ rpc = "mode" /\ rpc' = "clear"
        /\ SetDeliveryMode(Self, req.mode)
        /\ UNCHANGED <<msgVars, errorVars>>
     \/ /\ rpc = "clear" /\ rpc' = "session"
        /\ TryAgent(ClearStuck(Self))
  /\ UNCHANGED <<loopVars, streakVars, compactVars, worldVars, shown, req, floor, skipped, registers>>

(* The session id is read off the pane, whosever it is; one that was not   *)
(* launched through the wrapper has none, and the record stays.            *)
RegisterSession ==
  /\ rpc = "session"
  /\ \/ host[req.pane] \in Agents /\ session' = host[req.pane]
     \/ UNCHANGED session
  /\ rpc' = "depth"
  /\ UNCHANGED <<storeVars, loopVars, streakVars, compactVars, host, limited, shown, errorVars,
                 req, floor, skipped, registers>>

(* applyBacklogPolicy: count the rows to fence off, ... *)
BacklogDepth ==
  /\ rpc = "depth"
  /\ skipped' = IF req.mode = "paste-and-enter" THEN BacklogSkipped(Self, KeepNewest) ELSE 0
  /\ rpc' = IF skipped' > 0 THEN "floor" ELSE "promote"
  /\ UNCHANGED <<storeVars, mailmanVars, req, floor, registers>>

(* ... find the highest of them, unless the queue has shrunk meanwhile, ... *)
BacklogRead ==
  /\ rpc = "floor"
  /\ \/ /\ Cardinality(Queued(Self)) > KeepNewest
        /\ floor' = BacklogFloor(Self, KeepNewest)
        /\ rpc' = "epoch"
     \/ /\ Cardinality(Queued(Self)) <= KeepNewest
        /\ rpc' = "promote"
        /\ UNCHANGED floor
  /\ UNCHANGED <<storeVars, mailmanVars, req, skipped, registers>>

(* Mutation: the floor is set and not announced. *)
MutBacklogFence ==
  /\ rpc = "epoch"
  /\ SetBacklogEpoch(Self, floor)
  /\ rpc' = "promote"
  /\ UNCHANGED <<msgVars, errorVars, loopVars, streakVars, compactVars, worldVars, shown,
                 req, floor, skipped, registers>>

(* ... set the floor, and announce what is below it.  A failure skips the  *)
(* rest.                                                                   *)
BacklogFence ==
  /\ rpc = "epoch"
  /\ \/ /\ SetBacklogEpoch(Self, floor)
        /\ rpc' = "nudge"
        /\ UNCHANGED <<msgVars, errorVars>>
     \/ Fault /\ rpc' = "promote" /\ UNCHANGED storeVars
  /\ UNCHANGED <<loopVars, streakVars, compactVars, worldVars, shown, req, floor, skipped, registers>>

(* The bound on ids is a guard here: the step waits for nothing else. *)
BacklogNudge ==
  /\ rpc = "nudge" /\ nextId \in Ids
  /\ TryMsg(InsertNotice(Notice(Self, "backlog_announce", skipped)))
  /\ rpc' = "promote"
  /\ UNCHANGED <<loopVars, streakVars, compactVars, worldVars, shown, req, floor, skipped, registers>>

RegisterPromote ==
  /\ rpc = "promote"
  /\ TryMsg(PromoteDeferred(Self, "register"))
  /\ rpc' = "idle"
  /\ UNCHANGED <<loopVars, streakVars, compactVars, worldVars, shown, req, floor, skipped, registers>>

(* The command is killed, or its next statement fails and ends it. *)
RegisterDies ==
  /\ rpc # "idle"
  /\ Killed
  /\ rpc' = "idle"
  /\ UNCHANGED <<storeVars, loopVars, streakVars, compactVars, worldVars, shown,
                 req, floor, skipped, registers>>

RegisterInit ==
  /\ rpc = "idle" /\ registers = 0 /\ floor = 0 /\ skipped = 0
  /\ req = [pane |-> agent[Self].pane, mode |-> agent[Self].mode]

RegisterRuns ==
  \/ RegisterAgent \/ RegisterSession \/ BacklogDepth \/ BacklogRead \/ BacklogFence \/ BacklogNudge
  \/ RegisterPromote
=============================================================================
