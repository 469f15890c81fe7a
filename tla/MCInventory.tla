---------------------------- MODULE MCInventory -----------------------------
(***************************************************************************)
(* Small instances of Inventory for TLC, which begin with one item: it     *)
(* wears out (a lifespan of 3 is one of some 90 days, with a lead of 30;   *)
(* one of 10 has a fifth longer than the lead), or it has no lifespan and  *)
(* there is none left.                                                     *)
(***************************************************************************)
EXTENDS Inventory, TLC

CONSTANTS i1, i2, p1, p2

Updates == {[quantity |-> 0], [quantity |-> 2], [status |-> "REPLACE_SOON"],
            [bought |-> 0, life |-> 3]}

Item(quantity, age, life) ==
  Assessed([quantity |-> quantity, status |-> "IN_STOCK", life |-> life,
            bought |-> 0 - age, alerted |-> Never], 0)

MCInit ==
  /\ now = 0
  /\ items \in {i1 :> item : item \in {Item(1, 1, 3), Item(1, 7, 10), Item(0, 0, NoLife)}}
  /\ born = {i1}
  /\ txn = [p \in Procs |-> Idle]
  /\ edits = 0
  /\ sent = [i \in Items |-> {}]
  /\ warned = [i \in Items |-> Never]

MCSpec == MCInit /\ [][Next]_vars

Symmetry == Permutations({p1, p2})
=============================================================================
