------------------------------ MODULE Waiting -------------------------------
(***************************************************************************)
(* The doorbell (internal/notify, internal/store/notify.go) and the calls  *)
(* that wait behind it: send and ping for the row's end, wait-for-reply    *)
(* for an answer, track --watch for whatever becomes of a row.             *)
(*                                                                         *)
(* A waiter subscribes to a key, reads the store, and sleeps until the     *)
(* doorbell, its poll interval or its deadline wakes it to read again.     *)
(* The channel holds one ring; a ring finds only those who subscribed.     *)
(***************************************************************************)
EXTENDS Sending

VARIABLE
  lost   \* history: a ring was lost, or somebody could not subscribe

waitingVars == <<sendingVars, lost>>

Waiters == {c \in Calls : call[c].pc \in {"watch", "read", "select"}}

(* Whose doorbell a waiter listens to. *)
Key(c) == IF call[c].req.op = "wait" THEN call[c].req.from ELSE env[call[c].row].to

(* Mutation: the waiter does not read again once it has subscribed. *)
MutWatch(c) ==
  /\ At(c, "watch")
  /\ call' = [call EXCEPT ![c].pc = "select", ![c].watch = "open"]
  /\ UNCHANGED <<storeVars, clock, budgets, columns, world, rings, history, lost>>

(* WatchOrNil: without a watcher the waiter only polls. *)
Watch(c) ==
  /\ At(c, "watch")
  /\ LET next == IF call[c].req.op = "track" THEN "select" ELSE "read" IN
     \/ call' = [call EXCEPT ![c].pc = next, ![c].watch = "open", ![c].rung = FALSE] /\ UNCHANGED lost
     \/ call' = [call EXCEPT ![c].pc = next, ![c].watch = "nil"] /\ lost' = TRUE
  /\ UNCHANGED <<storeVars, clock, budgets, columns, world, rings, history>>

(* Notify and fan: a full channel takes no second ring. *)
Ring(a) ==
  /\ a \in rings
  /\ rings' = rings \ {a}
  /\ call' = [c \in Calls |-> IF call[c].watch = "open" /\ c \in Waiters /\ Key(c) = a
                              THEN [call[c] EXCEPT !.rung = TRUE] ELSE call[c]]
  /\ UNCHANGED <<storeVars, clock, budgets, columns, world, history, lost>>

(* The doorbell file cannot be written, or its process dies first. *)
RingFails(a) ==
  /\ a \in rings
  /\ rings' = rings \ {a}
  /\ lost' = TRUE
  /\ UNCHANGED <<storeVars, clock, budgets, call, columns, world, history>>

-----------------------------------------------------------------------------
(* What a read finds *)

(* ListReplies: rows for the caller that answer the question. *)
Replies(c) == {i \in Rows : st[i] # "deferred" /\ env[i].to = call[c].req.from /\ parent[i] = call[c].req.re}

(* isTerminalState of displayState: a row that was delivered without a     *)
(* verdict shows as delivered_in_input_box, which is not one.  A row that  *)
(* was deleted ends the watch and the ping, and is what a send goes on     *)
(* waiting for.                                                            *)
TrackEnds(i) == st[i] = "failed" \/ (st[i] = "delivered" /\ verified[i] # "unverified")

Answered(c) ==
  CASE call[c].req.op = "wait" -> Replies(c) # {}
    [] call[c].req.op = "track" -> call[c].row \notin Rows \/ TrackEnds(call[c].row)
    [] call[c].req.op = "ping" -> st[call[c].row] \in {"delivered", "failed", "purged"}
    [] OTHER -> st[call[c].row] \in {"delivered", "failed"}

Ended(c) == call' = [call EXCEPT ![c] = Onward([call[c] EXCEPT !.watch = "none", !.rung = FALSE])]

(* A wait for the row's end looks at its deadline after each read.  A      *)
(* watch on a row subscribes only once its first read named the recipient. *)
Read(c) ==
  /\ At(c, "read")
  /\ IF Answered(c) THEN Ended(c)
     ELSE \/ Goto(c, IF call[c].watch = "none" THEN "watch" ELSE "select")
          \/ call[c].req.op \notin {"wait", "track"} /\ Ended(c)
  /\ UNCHANGED <<storeVars, clock, budgets, columns, world, rings, history, lost>>

WakeByRing(c) ==
  /\ At(c, "select") /\ call[c].rung
  /\ call' = [call EXCEPT ![c].pc = "read", ![c].rung = FALSE]
  /\ UNCHANGED <<storeVars, clock, budgets, columns, world, rings, history, lost>>

(* Mutation: the poll is dropped, only the doorbell wakes. *)
MutWakeByPoll(c) ==
  /\ At(c, "select") /\ call[c].rung
  /\ Goto(c, "read")
  /\ UNCHANGED <<storeVars, clock, budgets, columns, world, rings, history, lost>>

WakeByPoll(c) ==
  /\ At(c, "select")
  /\ Goto(c, "read")
  /\ UNCHANGED <<storeVars, clock, budgets, columns, world, rings, history, lost>>

(* The context of wait-for-reply expires while it sleeps. *)
Expire(c) ==
  /\ At(c, "select") /\ call[c].req.op = "wait"
  /\ Ended(c)
  /\ UNCHANGED <<storeVars, clock, budgets, columns, world, rings, history, lost>>
=============================================================================
