----------------------------- MODULE MCAccounts -----------------------------
(***************************************************************************)
(* Small instances of Accounts for TLC.  They begin in one of three        *)
(* states: nobody but the owner of the game is known yet; two players, one *)
(* with a card, are about to join, to play and to be merged; or the game   *)
(* is over and deleted, and cards are issued.                              *)
(***************************************************************************)
EXTENDS Accounts, TLC

CONSTANTS u1, u2, c1, g1, p1, p2

Card(u) == [user |-> u, chat |-> c1, red |-> TRUE, until |-> Horizon + 1,
            active |-> TRUE, after |-> 0]

Unknown ==
  /\ now = Horizon /\ users = {u1} /\ chats = {} /\ profiles = {} /\ admins = {}
  /\ signups = {} /\ votes = {} /\ books = {} /\ creator = [g \in Games |-> Owner]
  /\ cards = [k \in {} |-> 0] /\ issued = MaxCards /\ merges = MaxMerges

Merging ==
  /\ now = Horizon /\ users = {u1, u2} /\ chats = {c1} /\ profiles = {} /\ admins = {}
  /\ signups = {} /\ votes = {} /\ books = {} /\ creator = [g \in Games |-> Owner]
  /\ cards = 1 :> Card(u2) /\ issued = MaxCards /\ merges = 0

Carding ==
  /\ now = 0 /\ users = {u1, u2} /\ chats = {c1}
  /\ profiles = {u1, u2} \X {c1} /\ admins = {u1, u2} \X {c1}
  /\ signups = {} /\ votes = {} /\ books = {} /\ creator = [g \in {} |-> Owner]
  /\ cards = [k \in {} |-> 0] /\ issued = 0 /\ merges = MaxMerges

MCInit ==
  /\ txn = [p \in Procs |-> Idle]
  /\ Unknown \/ Merging \/ Carding

MCSpec == MCInit /\ [][Next]_vars

Symmetry == Permutations({p1, p2})
=============================================================================
