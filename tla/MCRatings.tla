----------------------------- MODULE MCRatings ------------------------------
(***************************************************************************)
(* Small instances of Ratings for TLC.  The points of a win and of a loss  *)
(* and the bonus are small numbers no two of which add up to a third.      *)
(***************************************************************************)
EXTENDS Ratings

CONSTANTS p1, p2, u1, u2, g1, g2

WinAndLoss == {-1, 2}
Symmetry   == Permutations({u1, u2}) \cup Permutations({g1, g2})
=============================================================================
