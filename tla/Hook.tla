-------------------------------- MODULE Hook --------------------------------
(***************************************************************************)
(* `hook-context' (internal/cli/hook.go): the agent's own session pulls    *)
(* its mail.  Each hook fire is a process of its own that puts claimed     *)
(* rows back, claims all there are, marks them delivered one by one and    *)
(* then prints them all; an error on the way prints nothing.               *)
(***************************************************************************)
EXTENDS Register, Sequences

CONSTANTS
  Hooks,      \* the hook processes, each fires once
  MaxClaims   \* bound: claims of one hook; another reader may put rows back forever

ASSUME HookAssumption == IsFiniteSet(Hooks) /\ MaxClaims \in Nat

VARIABLES
  hpc,        \* hook -> what it does next
  took,       \* hook -> the rows it claimed, in order, less those it marked
  batch,      \* hook -> the rows it is going to print
  presented   \* id -> how often hooks printed the row

hookVars == <<hpc, took, batch, presented>>

HookStages == {"ready", "recover", "claim", "mark", "print", "done", "dead"}

ActiveHooks == {h \in Hooks : hpc[h] \notin {"ready", "done", "dead"}}

HookGoto(h, stage) == hpc' = [hpc EXCEPT ![h] = stage]

HookEnds(h, stage) ==
  /\ HookGoto(h, stage)
  /\ took' = [took EXCEPT ![h] = <<>>]
  /\ batch' = [batch EXCEPT ![h] = {}]

(* An error ends the hook with nothing printed. *)
HookFails(h) ==
  /\ HookEnds(h, "done")
  /\ UNCHANGED <<storeVars, presented>>

(* The delivery mode is the single switch between mailman and hook. *)
HookBegin(h) ==
  /\ hpc[h] = "ready"
  /\ HookGoto(h, IF agent[Self].mode = "hook-context" THEN "recover" ELSE "done")
  /\ UNCHANGED <<storeVars, errorVars, took, batch, presented>>

HookRecover(h) ==
  /\ hpc[h] = "recover"
  /\ \/ /\ RecoverDelivering(Self)
        /\ HookGoto(h, "claim")
        /\ UNCHANGED <<agent, errorVars, took, batch, presented>>
     \/ Fault /\ HookFails(h)

HookClaim(h) ==
  /\ hpc[h] = "claim"
  /\ \/ \E i \in Ids : /\ Len(took[h]) < MaxClaims
                       /\ ClaimNext(Self, i)
                       /\ took' = [took EXCEPT ![h] = Append(@, i)]
                       /\ batch' = [batch EXCEPT ![h] = @ \cup {i}]
                       /\ UNCHANGED <<agent, errorVars, hpc, presented>>
     \/ /\ Claimable(Self) = {}
        /\ HookGoto(h, IF took[h] = <<>> THEN "done" ELSE "mark")
        /\ UNCHANGED <<storeVars, errorVars, took, batch, presented>>
     \/ Fault /\ HookFails(h)

MarkedHead(h) ==
  /\ took' = [took EXCEPT ![h] = Tail(@)]
  /\ HookGoto(h, IF Len(took[h]) = 1 THEN "print" ELSE "mark")
  /\ UNCHANGED <<agent, batch, presented>>

(* Mutation: a mark that fails is logged and passed over. *)
MutHookMark(h) ==
  /\ hpc[h] = "mark"
  /\ \/ MarkDelivered(Head(took[h]), "verified") /\ UNCHANGED errorVars
     \/ st[Head(took[h])] # "delivering" /\ UNCHANGED <<msgVars, errorVars>>
     \/ Fault /\ UNCHANGED msgVars
  /\ MarkedHead(h)

(* A mark fails on a store error and on a row that is no longer in flight. *)
HookMark(h) ==
  /\ hpc[h] = "mark"
  /\ \/ /\ MarkDelivered(Head(took[h]), "verified")
        /\ MarkedHead(h)
        /\ UNCHANGED errorVars
     \/ /\ st[Head(took[h])] # "delivering"
        /\ HookFails(h)
        /\ UNCHANGED errorVars
     \/ Fault /\ HookFails(h)

(* Mutation: only the row claimed first is printed. *)
MutHookPrint(h) ==
  /\ hpc[h] = "print"
  /\ presented' = [i \in Ids |-> IF i \in batch[h] /\ \A j \in batch[h] : i <= j
                                THEN presented[i] + 1 ELSE presented[i]]
  /\ HookEnds(h, "done")
  /\ UNCHANGED <<storeVars, errorVars>>

HookPrint(h) ==
  /\ hpc[h] = "print"
  /\ presented' = [i \in Ids |-> IF i \in batch[h] THEN presented[i] + 1 ELSE presented[i]]
  /\ HookEnds(h, "done")
  /\ UNCHANGED <<storeVars, errorVars>>

(* The agent gives up on the hook, or its five seconds are over. *)
HookDies(h) ==
  /\ h \in ActiveHooks
  /\ HookEnds(h, "dead")
  /\ UNCHANGED <<storeVars, errorVars, presented>>

HookInit ==
  /\ hpc = [h \in Hooks |-> "ready"]
  /\ took = [h \in Hooks |-> <<>>]
  /\ batch = [h \in Hooks |-> {}]
  /\ presented = [i \in Ids |-> 0]
=============================================================================
