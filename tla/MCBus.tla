------------------------------- MODULE MCBus -------------------------------
(***************************************************************************)
(* Small buses: bob's mailman, mail from alice and from bob himself.       *)
(***************************************************************************)
EXTENDS Bus, TLC

CONSTANTS alice, bob, p1, p2, h1, h2

MCAgents == {alice, bob}

OnePane == {p1}

TwoPanes == {p1, p2}

(* Hook processes are interchangeable. *)
HookSymmetry == Permutations({h1, h2})

MCCapFloor == (alice :> 0) @@ (bob :> 0)

(* Client bodies lie below the bodies of notices. *)
MCBodies == -2..MaxId

Mail(f, k, p, t, frc, b) ==
  [from |-> f, to |-> bob, kind |-> k, priority |-> p, after |-> t, force |-> frc, body |-> b]

Plain(f) == Mail(f, "message", 20, "none", FALSE, 0)

OneSender == {Plain(alice)}

(* A reset command, an unsupported command, a ping, and a row staged for   *)
(* the resume.                                                             *)
ControlMail ==
  {Mail(alice, "control", 20, "none", FALSE, -1), Mail(alice, "control", 20, "none", FALSE, -2),
   Mail(alice, "ping", 20, "none", FALSE, 0), Mail(bob, "message", 20, "resume", FALSE, 0)}

ResetBody == {-1}

(* Rows staged for a register and for the resume among plain ones. *)
BacklogMail ==
  {Plain(alice), Mail(bob, "message", 20, "register", FALSE, 0), Mail(bob, "message", 20, "resume", FALSE, 0)}

ResumeMail == {Plain(alice), Mail(bob, "message", 20, "resume", FALSE, 0)}
=============================================================================
