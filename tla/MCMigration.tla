----------------------------- MODULE MCMigration -----------------------------
(***************************************************************************)
(* Two processes, two names in two spellings, up to three rows of the      *)
(* older release and room for one more, two panes, two instants, two       *)
(* messages.                                                               *)
(***************************************************************************)
EXTENDS Migration, TLC

CONSTANTS admin, bosun, p1, p2, m1, m2

MCProcs == {m1, m2}

MCKeys == {admin, bosun}

MCPanes == {p1, p2}

Alike == Permutations(MCProcs) \cup Permutations(MCKeys) \cup Permutations(MCPanes)
=============================================================================
