------------------------------ MODULE Delivery ------------------------------
(***************************************************************************)
(* What the bus promises of a row, whatever carries it: a row is accepted  *)
(* or refused once; while it is pending it may be shown; it is done only   *)
(* after it was shown, unless it is of a kind that is not shown at all;    *)
(* pending rows may be dropped, and a row that is done or dropped is never *)
(* shown or touched again.  Bus and Pane implement this specification.     *)
(***************************************************************************)
EXTENDS Naturals

CONSTANT Rows

VARIABLES
  phase,   \* row -> "new", "pending", "done", "dropped"
  shows,   \* row -> how often it was shown
  silent   \* the rows that need not be shown

deliveryVars == <<phase, shows, silent>>

DeliveryInit ==
  /\ phase \in [Rows -> {"new", "pending"}]
  /\ shows = [r \in Rows |-> 0]
  /\ silent \subseteq Rows

Accept(r) ==
  /\ phase[r] = "new"
  /\ \E p \in {"pending", "dropped"} : phase' = [phase EXCEPT ![r] = p]
  /\ silent' \in {silent \cup {r}, silent \ {r}}
  /\ UNCHANGED shows

Show(r) ==
  /\ phase[r] = "pending"
  /\ shows' = [shows EXCEPT ![r] = @ + 1]
  /\ UNCHANGED <<phase, silent>>

Complete(r) ==
  /\ phase[r] = "pending"
  /\ shows[r] > 0 \/ r \in silent
  /\ phase' = [phase EXCEPT ![r] = "done"]
  /\ UNCHANGED <<shows, silent>>

Drop(R) ==
  /\ \A r \in R : phase[r] = "pending"
  /\ phase' = [r \in Rows |-> IF r \in R THEN "dropped" ELSE phase[r]]
  /\ UNCHANGED <<shows, silent>>

DeliveryNext ==
  \/ \E r \in Rows : Accept(r) \/ Show(r) \/ Complete(r)
  \/ \E R \in SUBSET Rows : Drop(R)

DeliverySpec == DeliveryInit /\ [][DeliveryNext]_deliveryVars
=============================================================================
