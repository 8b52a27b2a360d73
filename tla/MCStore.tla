------------------------------- MODULE MCStore -------------------------------
(***************************************************************************)
(* A small store: three rows of two senders, two agents that contend for   *)
(* one pane.  The switches that no operation on messages reads are set and *)
(* then no further explored (SwitchesAtDefault).                           *)
(***************************************************************************)
EXTENDS MessageStore, TLC

CONSTANTS alice, bob, p1

MCAgents == {alice, bob}

OnePane == {p1}

MCSendable ==
  LET e(f, p, t) == [from |-> f, to |-> bob, kind |-> "message", priority |-> p,
                     after |-> t, force |-> FALSE, body |-> "b"]
  IN {e(alice, 20, "none"), e(bob, 30, "register")}

MCCapFloor == (alice :> 0) @@ (bob :> 2)

SwitchesAtDefault ==
  \A a \in Agents : ~agent[a].paused /\ ~agent[a].stuck /\ agent[a].mode = "paste-and-enter"
=============================================================================
