---------------------------- MODULE Housekeeping ----------------------------
(***************************************************************************)
(* What takes rows and agents away while others still use them:            *)
(* unregister (unregister.go, mcp.go), reset (reset.go), reap (reap.go)    *)
(* and the retention sweep each mailman runs beside its loop (serve.go).   *)
(*                                                                         *)
(* reply_to is a foreign key: a DELETE that would leave a reply without    *)
(* its parent fails as a whole and deletes nothing.                        *)
(***************************************************************************)
EXTENDS Waiting

CONSTANTS
  Swept,      \* the agents whose mailman has a retention window
  Retention   \* that window, in ticks

ASSUME HousekeepingAssumption ==
  /\ Swept \subseteq Agents
  /\ Retention \in Nat

(* parseWindow: created_at grows with the id, so what is older than the    *)
(* window lies below an id.                                                *)
Cutoff(age) == 1 + Cardinality({i \in 1..(nextId - 1) : created[i] < clock - age})

Doomed(scope, cutoff, states) == {i \in Ids : i < cutoff /\ st[i] \in states /\ env[i].to \in scope}

Orphans(doomed) == {i \in Rows \ doomed : parent[i] \in doomed}

(* Mutation: reply_to is no foreign key. *)
MutPurge(scope, cutoff, states) ==
  DeleteMessagesBefore(scope, cutoff, states)

Purge(scope, cutoff, states) ==
  IF Orphans(Doomed(scope, cutoff, states)) # {} THEN UNCHANGED msgVars
  ELSE DeleteMessagesBefore(scope, cutoff, states)

Scope(r) == {r.to[i] : i \in DOMAIN r.to}

-----------------------------------------------------------------------------
(* unregister: look, stop the mailman, purge if asked, remove the row *)

LeaveGuard(c) ==
  /\ At(c, "leave")
  /\ LET r == call[c].req
         a == r.to[1]
     IN Goto(c, IF agent[a].registered /\ (r.force \/ Queued(a) = {}) THEN "stop" ELSE "done")
  /\ UNCHANGED <<storeVars, clock, budgets, columns, world, rings, history>>

(* A unit that cannot be stopped is reported and passed over. *)
StopMailman(c) ==
  /\ At(c, "stop")
  /\ mailmen' \in {mailmen, mailmen \ {call[c].req.to[1]}}
  /\ Goto(c, IF call[c].req.purge THEN "purge" ELSE "remove")
  /\ UNCHANGED <<storeVars, clock, budgets, columns, attached, presence, live, rings, history>>

(* A purge that fails ends the command, the mailman stopped.                *)
PurgeQueue(c) ==
  /\ At(c, "purge")
  /\ LET scope == Scope(call[c].req) IN
     /\ Purge(scope, nextId, {"queued"})
     /\ Goto(c, IF Orphans(Doomed(scope, nextId, {"queued"})) # {} THEN "done" ELSE "remove")
  /\ UNCHANGED <<agent, clock, budgets, columns, world, rings, history>>

RemoveAgent(c) ==
  /\ At(c, "remove")
  /\ LET a == call[c].req.to[1] IN IF agent[a].registered THEN DeleteAgent(a) ELSE UNCHANGED agent
  /\ Goto(c, "done")
  /\ UNCHANGED <<msgVars, clock, budgets, columns, world, rings, history>>

Leave(c) == LeaveGuard(c) \/ StopMailman(c) \/ PurgeQueue(c) \/ RemoveAgent(c)

-----------------------------------------------------------------------------
(* reset, reap and the sweep: one statement each *)

(* --older-than takes rows that are done, and not with --hard. *)
ResetStates(r) ==
  IF r.age >= 0 THEN IF r.states = {} THEN {"delivered", "failed"} ELSE r.states
  ELSE {"queued", "delivering"} \cup IF r.purge THEN {"delivered", "failed"} ELSE {}

Reset(c) ==
  /\ At(c, "reset")
  /\ LET r == call[c].req IN
     IF r.age >= 0 /\ r.purge THEN UNCHANGED msgVars
     ELSE Purge(Scope(r), IF r.age >= 0 THEN Cutoff(r.age) ELSE nextId, ResetStates(r))
  /\ Goto(c, "done")
  /\ UNCHANGED <<agent, clock, budgets, columns, world, rings, history>>

(* What nobody will ever claim is failed; --dry-run only lists it. *)
Reap(c) ==
  /\ At(c, "reap")
  /\ LET r == call[c].req IN
     IF r.dry THEN UNCHANGED msgVars ELSE ReapUndeliverable(Scope(r), Cutoff(r.age))
  /\ Goto(c, "done")
  /\ UNCHANGED <<agent, clock, budgets, columns, world, rings, history>>

RetentionSweep(a) ==
  /\ a \in Swept \cap mailmen
  /\ Purge({a}, Cutoff(Retention), {"delivered", "failed"})
  /\ UNCHANGED <<agent, clock, budgets, call, columns, world, rings, history, lost>>
=============================================================================
