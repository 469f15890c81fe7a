------------------------------ MODULE MCRoster ------------------------------
(***************************************************************************)
(* Small instances of Roster for TLC.                                      *)
(***************************************************************************)
EXTENDS Roster, TLC

CONSTANTS p1, p2, u1, u2, u3, g1

\* The players' operations, also with a preloaded game, with every unlocked
\* tool of the organizers.
ToolOps == AllOps \ {"capacity", "finish"}

Symmetry == Permutations({u1, u2, u3}) \cup Permutations({p1, p2})
=============================================================================
