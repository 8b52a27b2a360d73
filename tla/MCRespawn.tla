------------------------------ MODULE MCRespawn ------------------------------
(***************************************************************************)
(* Respawn off, or after the second event.                                 *)
(***************************************************************************)
EXTENDS Respawn

MCThresholds == {0, 2}
=============================================================================
