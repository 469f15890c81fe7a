------------------------------ MODULE Balancer -------------------------------
(***************************************************************************)
(* The role-based balancer: keepers first, then defenders, then everybody  *)
(* else into the smallest team and, of those, the weakest.  One step per   *)
(* player placed.                                                          *)
(***************************************************************************)
EXTENDS Integers, FiniteSets, FiniteSetsExt

CONSTANTS
  N,           \* active signups, numbered in the order they are listed
  Profiles,    \* Profiles[i]: a bucket, the buckets of alternatives, a rating
  TeamCounts   \* values of Game.team_count

Buckets == {"GK", "DEF", "MID", "FWD"}

ASSUME BalancerParameters ==
  /\ N \in Nat
  /\ TeamCounts \subseteq Nat \ {0}
  /\ \A i \in DOMAIN Profiles :
       Profiles[i].rating \in Int /\ Profiles[i].bucket \in Buckets

VARIABLES
  profile,  \* profile[p]: which of Profiles the player p has
  count,    \* team_count
  team,     \* team[p]: the index of p's team, None while p is in the pool
  dealt,    \* the players placed by the third phase
  phase,    \* "keepers", "defenders" or "rest"
  slot      \* gks_assigned, or the places for defenders gone through

vars == <<profile, count, team, dealt, phase, slot>>

Players == 1..N
None    == -1
Teams   == 0..(count - 1)
DefTargetPerTeam == 3

\* Players are taken to be listed by profile: who comes first matters only
\* between players of one rating.
Init ==
  /\ profile \in {f \in [Players -> DOMAIN Profiles] :
                    \A p \in Players \ {N} : f[p] <= f[p + 1]}
  /\ count \in TeamCounts
  /\ team = [p \in Players |-> None]
  /\ dealt = {}
  /\ phase = "keepers"
  /\ slot = 0

Bucket(p) == Profiles[profile[p]].bucket
Alts(p)   == Profiles[profile[p]].alts
Rating(p) == Profiles[profile[p]].rating

Pool       == {p \in Players : team[p] = None}
Members(t) == {p \in Players : team[p] = t}
Size(t)    == Cardinality(Members(t))
Strength(t) == MapThenSumSet(Rating, Members(t))

\* The sort by rating is stable.
Best(S) == CHOOSE p \in S : \A q \in S \ {p} :
             Rating(p) > Rating(q) \/ (Rating(p) = Rating(q) /\ p < q)

\* (mutated: alternatives do not count)
MainOnly(bucket) == {p \in Pool : Bucket(p) = bucket}

\* Who could play in bucket: those whose main position it is or, if there is
\* none of them left, those who name it as an alternative.
Candidates(bucket) ==
  LET main == {p \in Pool : Bucket(p) = bucket}
  IN  IF main # {} THEN main ELSE {p \in Pool : bucket \in Alts(p)}

Place(p, t) == team' = [team EXCEPT ![p] = t]

PickKeeper ==
  /\ phase = "keepers"
  /\ slot < count /\ Candidates("GK") # {}
  /\ Place(Best(Candidates("GK")), slot)
  /\ slot' = slot + 1
  /\ UNCHANGED <<profile, count, dealt, phase>>

KeepersDone ==
  /\ phase = "keepers"
  /\ slot = count \/ Candidates("GK") = {}
  /\ phase' = "defenders"
  /\ slot' = 0
  /\ UNCHANGED <<profile, count, team, dealt>>

PickDefender ==
  /\ phase = "defenders"
  /\ slot < DefTargetPerTeam * count
  /\ Candidates("DEF") # {}
  /\ Place(Best(Candidates("DEF")), slot % count)
  /\ slot' = slot + 1
  /\ UNCHANGED <<profile, count, dealt, phase>>

DefendersDone ==
  /\ phase = "defenders"
  /\ slot = DefTargetPerTeam * count \/ Candidates("DEF") = {}
  /\ phase' = "rest"
  /\ UNCHANGED <<profile, count, team, dealt, slot>>

\* Midfielders first, then forwards, defenders and keepers; the strongest
\* of each first.
NextDealt ==
  LET of(bucket) == {p \in Pool : Bucket(p) = bucket}
  IN  Best(IF of("MID") # {} THEN of("MID")
           ELSE IF of("FWD") # {} THEN of("FWD")
           ELSE IF of("DEF") # {} THEN of("DEF") ELSE of("GK"))

\* (mutated: the ratings of the teams are not compared)
SmallestTeam == CHOOSE t \in Teams : \A o \in Teams \ {t} :
                  Size(t) < Size(o) \/ (Size(t) = Size(o) /\ t < o)

\* (mutated: the weakest team, whatever its size)
WeakestTeam == CHOOSE t \in Teams : \A o \in Teams \ {t} :
                 Strength(t) < Strength(o) \/ (Strength(t) = Strength(o) /\ t < o)

TargetTeam ==
  CHOOSE t \in Teams : \A o \in Teams \ {t} :
    \/ Size(t) < Size(o)
    \/ Size(t) = Size(o) /\ Strength(t) < Strength(o)
    \/ Size(t) = Size(o) /\ Strength(t) = Strength(o) /\ t < o

Distribute ==
  /\ phase = "rest"
  /\ Pool # {}
  /\ Place(NextDealt, TargetTeam)
  /\ dealt' = dealt \cup {NextDealt}
  /\ UNCHANGED <<profile, count, phase, slot>>

Next == PickKeeper \/ KeepersDone \/ PickDefender \/ DefendersDone \/ Distribute

Spec == Init /\ [][Next]_vars

(***************************************************************************)
(* Properties.                                                             *)
(***************************************************************************)

\* A team is left without anybody who can keep goal only if there are fewer
\* such players than teams, whatever the later phases do with the others.
KeeperEach ==
  phase # "keepers" =>
    LET able == {p \in Players : Bucket(p) = "GK" \/ "GK" \in Alts(p)}
        kept == {t \in Teams : Members(t) \cap able # {}}
    IN  kept = Teams \/ able \subseteq UNION {Members(t) : t \in kept}

\* Teams end up within one player of each other, except that the keeper and
\* the odd defender of one team may leave it two ahead when there was nobody
\* left to even it out.
SizesEven ==
  \A t, o \in Teams :
    /\ Size(t) <= Size(o) + 2
    /\ Size(t) = Size(o) + 2 => Members(t) \cap dealt = {}

\* Players with nobody between them in strength, the stronger first.
Neighbours ==
  {pq \in Players \X Players :
     /\ Rating(pq[1]) >= Rating(pq[2])
     /\ ~ \E r \in Players : Rating(pq[2]) < Rating(r) /\ Rating(r) < Rating(pq[1])}

\* Among players of one field position two equally large teams differ by no
\* more than two players next to each other in strength.
RatingsClose ==
  LET same == \A p, q \in Players : Bucket(p) = Bucket(q) /\ Bucket(p) \in {"MID", "FWD"}
      plain == \A p \in Players : Alts(p) = {}
  IN  same /\ plain /\ count = 2 /\ Size(0) = Size(1) /\ Size(0) > 0 =>
        \E pq \in Neighbours :
          LET gap == Rating(pq[1]) - Rating(pq[2])
          IN  Strength(0) - Strength(1) \in -gap..gap
=============================================================================
