------------------------------- MODULE MCPane -------------------------------
(***************************************************************************)
(* One pane, two messages: a long one, drawn as a placeholder, and a short *)
(* one.                                                                    *)
(***************************************************************************)
EXTENDS Pane

CONSTANTS long, short

MCMsgs == {long, short}

MCLong == {long}

MCLooks == {{"resume", "working"}, {"picker"}, {"compaction", "working"}, {"rate"}, {"error"}}
=============================================================================
