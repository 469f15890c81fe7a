----------------------------- MODULE MCBallots ------------------------------
(***************************************************************************)
(* Small instances of Ballots for TLC: three players without teams, in two *)
(* teams, in three, or one of them not assigned yet; at most one of them   *)
(* on the reserve.                                                         *)
(***************************************************************************)
EXTENDS Ballots, TLC

CONSTANTS u1, u2, u3, w1, p1, p2

Starts ==
  LET Start(x, y, z, S) == <<u1 :> x @@ u2 :> y @@ u3 :> z, S>>
  IN  {Start("none", "none", "none", {u1, u2}), Start("A", "B", "B", {u1, u2}),
       Start("A", "B", "C", Players), Start("A", "B", "none", {u2, u3})}

MCInit == BallotsInit /\ <<team, active>> \in Starts
MCSpec == MCInit /\ [][BallotsNext]_ballotVars

Symmetry == Permutations({p1, p2})
=============================================================================
