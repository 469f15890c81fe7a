----------------------------- MODULE MCBalancer -----------------------------
(***************************************************************************)
(* Small instances of Balancer for TLC: specialists, and players with an   *)
(* alternative position, most of them in three strengths.                  *)
(***************************************************************************)
EXTENDS Balancer

Plain(bucket, n)    == [bucket |-> bucket, alts |-> {}, rating |-> n]
Also(bucket, alt, n) == [bucket |-> bucket, alts |-> {alt}, rating |-> n]

AllProfiles == <<
  Plain("GK", 2),
  Plain("DEF", 1), Plain("DEF", 2), Plain("DEF", 3),
  Also("DEF", "GK", 1), Also("DEF", "GK", 2), Also("DEF", "GK", 3),
  Plain("MID", 1), Plain("MID", 2), Plain("MID", 3),
  Also("MID", "GK", 1), Also("MID", "GK", 3),
  Also("FWD", "DEF", 2) >>
=============================================================================
