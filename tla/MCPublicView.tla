---------------------------- MODULE MCPublicView ----------------------------
(***************************************************************************)
(* What is seen of a game, for TLC: a behaviour is one of its details and  *)
(* the texts of its messages (PublicView), or of where these messages are  *)
(* (Announce).  The two share no variable.                                 *)
(***************************************************************************)
EXTENDS PublicView, Announce, TLC

CONSTANTS p1, p2, h1, h2

VARIABLE topic

mcVars == <<topic, vars, announceVars>>

MCInit ==
  /\ Init /\ AnnounceInit
  /\ topic \in {"texts", "places"}
  /\ topic = "texts" => row.chat = "group"

MCNext ==
  /\ UNCHANGED topic
  /\ \/ topic = "texts" /\ Next /\ UNCHANGED announceVars
     \/ topic = "places" /\ AnnounceNext /\ UNCHANGED vars

MCSpec == MCInit /\ [][MCNext]_mcVars /\ Fairness
=============================================================================
