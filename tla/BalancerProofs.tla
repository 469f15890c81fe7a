---------------------------- MODULE BalancerProofs ----------------------------
(***************************************************************************)
(* Proofs about Balancer, for any number of players and teams and any      *)
(* positions and ratings: keepers are spread, teams are even in size, and  *)
(* teams of players of one field position are close in strength.           *)
(*                                                                         *)
(* None of the three is inductive.  KeeperInv says why the first phase     *)
(* stopped; SizeInv counts what the first two phases have given to each    *)
(* team; CloseInv knows who was dealt last.                                *)
(***************************************************************************)
EXTENDS Balancer, FiniteSetTheorems, WellFoundedInduction, TLAPS

(***************************************************************************)
(* The sum of the ratings of a set of players: MapThenSumSet computes it   *)
(* with a recursive function that takes the players in an order of its     *)
(* own, the balancer adds them in the order it deals them.                 *)
(***************************************************************************)
W(c, p) == Profiles[c[p]].rating
SumOf(c, S) == MapThenSumSet(LAMBDA p : W(c, p), S)

Pick(S) == CHOOSE x \in S : TRUE
Adds(c, f, S) ==
  f = [s \in SUBSET S |-> IF s = {} THEN 0 ELSE W(c, Pick(s)) + f[s \ {Pick(s)}]]

\* Induction over the subsets of a finite set, as the least counterexample.
LEMMA LeastSet ==
  ASSUME NEW U, IsFiniteSet(U), NEW B \in SUBSET (SUBSET U), B # {}
  PROVE  \E S \in B : \A T \in B : ~ (T \subseteq S /\ T # S)
<1>1. IsWellFoundedOn(StrictSubsetOrdering(U), SUBSET U)
  BY FS_StrictSubsetOrderingWellFounded, FS_FiniteSubsetsOfFinite
<1>2. PICK S \in B : \A T \in B : <<T, S>> \notin StrictSubsetOrdering(U)
  BY <1>1, WFMin
<1>3. \A T \in B : T \subseteq S /\ T # S => <<T, S>> \in StrictSubsetOrdering(U)
  BY DEF StrictSubsetOrdering
<1>4. \A T \in B : ~ (T \subseteq S /\ T # S)
  BY <1>2, <1>3
<1>. QED  BY <1>4

LEMMA PickIn ==
  ASSUME NEW S, S # {}
  PROVE  Pick(S) \in S /\ S \ {Pick(S)} \subseteq S /\ S \ {Pick(S)} # S
<1>1. Pick(S) \in S
  BY DEF Pick
<1>. QED  BY <1>1

LEMMA AddsValue ==
  ASSUME NEW c, NEW S, NEW f, Adds(c, f, S)
  PROVE  /\ f[{}] = 0
         /\ \A s \in SUBSET S : s # {} => f[s] = W(c, Pick(s)) + f[s \ {Pick(s)}]
  BY DEF Adds

\* There is at most one such function, whatever larger set it is part of.
LEMMA AddsOnce ==
  ASSUME NEW c, NEW S, IsFiniteSet(S), NEW f, Adds(c, f, S),
         NEW T, S \subseteq T, NEW g, Adds(c, g, T)
  PROVE  \A s \in SUBSET S : f[s] = g[s]
<1>1. SUFFICES ASSUME NEW B, B = {s \in SUBSET S : f[s] # g[s]}, B # {}
               PROVE  FALSE
  BY ZenonT(20)
<1>2. PICK s \in B : \A r \in B : ~ (r \subseteq s /\ r # s)
  BY <1>1, LeastSet
<1>3. s \in SUBSET S /\ s \in SUBSET T /\ f[s] # g[s]
  BY <1>1
<1>4. s # {}
  BY <1>3, AddsValue
<1>5. f[s \ {Pick(s)}] = g[s \ {Pick(s)}]
  BY <1>1, <1>2, <1>3, <1>4, PickIn
<1>. QED  BY <1>3, <1>4, <1>5, AddsValue

LEMMA AddsExists ==
  ASSUME NEW c, NEW U, IsFiniteSet(U)
  PROVE  \A S \in SUBSET U : \E f : Adds(c, f, S)
<1>1. SUFFICES ASSUME NEW B, B = {S \in SUBSET U : ~ \E f : Adds(c, f, S)}, B # {}
               PROVE  FALSE
  OBVIOUS
<1>2. B \in SUBSET (SUBSET U) /\ B # {}
  BY <1>1
<1>3. PICK S \in B : \A T \in B : ~ (T \subseteq S /\ T # S)
  BY <1>2, LeastSet
<1>4. S \in SUBSET U /\ ~ \E f : Adds(c, f, S)
  BY <1>1
<1>. DEFINE F(T) == CHOOSE f : Adds(c, f, T)
            Rest(s) == s \ {Pick(s)}
            f == [s \in SUBSET S |-> IF s = {} THEN 0 ELSE W(c, Pick(s)) + F(Rest(s))[Rest(s)]]
<1>5. ASSUME NEW T \in SUBSET S, T # S
      PROVE  Adds(c, F(T), T)
  BY <1>1, <1>2, <1>3, <1>4, <1>5
<1>6. ASSUME NEW T \in SUBSET S, T # S
      PROVE  F(T)[T] = f[T]
  <2>1. Adds(c, F(T), T) /\ T \in SUBSET T
    BY <1>5, <1>6
  <2>2. CASE T = {}
    BY <2>1, <2>2, AddsValue
  <2>3. CASE T # {}
    <3>1. F(T)[T] = W(c, Pick(T)) + F(T)[Rest(T)]
      BY <2>1, <2>3, AddsValue
    <3>2. Rest(T) \in SUBSET S /\ Rest(T) # S /\ Rest(T) \subseteq T
      BY <2>3, <1>6, PickIn
    <3>3. IsFiniteSet(Rest(T))
      BY <1>4, <3>2, FS_Subset
    <3>4. Adds(c, F(Rest(T)), Rest(T))
      BY <1>5, <3>2
    <3>5. F(Rest(T))[Rest(T)] = F(T)[Rest(T)]
      <4>1. PICK R, here, there : R = Rest(T) /\ here = F(Rest(T)) /\ there = F(T)
        OBVIOUS
      <4>2. IsFiniteSet(R) /\ Adds(c, here, R) /\ R \subseteq T /\ Adds(c, there, T)
        BY <2>1, <3>2, <3>3, <3>4, <4>1
      <4>3. \A s \in SUBSET R : here[s] = there[s]
        BY <4>2, AddsOnce
      <4>. QED  BY <4>1, <4>3
    <3>6. f[T] = W(c, Pick(T)) + F(Rest(T))[Rest(T)]
      BY <2>3
    <3>. QED  BY <3>1, <3>5, <3>6
  <2>. QED  BY <2>2, <2>3
<1>7. ASSUME NEW s \in SUBSET S, s # {}
      PROVE  F(Rest(s))[Rest(s)] = f[Rest(s)]
  <2>1. Rest(s) \in SUBSET S /\ Rest(s) # S
    BY <1>7, PickIn
  <2>. QED  BY <1>6, <2>1
<1>8. \A s \in SUBSET S :
        f[s] = IF s = {} THEN 0 ELSE W(c, Pick(s)) + f[s \ {Pick(s)}]
  <2>1. ASSUME NEW s \in SUBSET S, s # {}
        PROVE  f[s] = W(c, Pick(s)) + F(Rest(s))[Rest(s)]
    BY <2>1
  <2>2. {} \in SUBSET S /\ f[{}] = 0
    OBVIOUS
  <2>. HIDE DEF f, F
  <2>. QED  BY <1>7, <2>1, <2>2
<1>9. f = [s \in SUBSET S |-> f[s]]
  OBVIOUS
<1>. HIDE DEF f, F
<1>10. f = [s \in SUBSET S |-> IF s = {} THEN 0 ELSE W(c, Pick(s)) + f[s \ {Pick(s)}]]
  BY <1>8, <1>9, Zenon
<1>11. Adds(c, f, S)
  BY <1>10 DEF Adds
<1>. QED  BY <1>4, <1>11

LEMMA SumStep ==
  ASSUME NEW c, NEW S, IsFiniteSet(S)
  PROVE  /\ SumOf(c, {}) = 0
         /\ S # {} => SumOf(c, S) = W(c, Pick(S)) + SumOf(c, S \ {Pick(S)})
<1>. DEFINE F(T) == CHOOSE f : Adds(c, f, T)
<1>1. \A T : SumOf(c, T) = F(T)[T]
  BY Zenon DEF SumOf, MapThenSumSet, MapThenFoldSet, Adds, Pick
<1>2. \A T \in SUBSET S : Adds(c, F(T), T)
  BY AddsExists
<1>3. F({})[{}] = 0
  BY <1>2, AddsValue
<1>4. ASSUME S # {}
      PROVE  F(S)[S] = W(c, Pick(S)) + F(S \ {Pick(S)})[S \ {Pick(S)}]
  <2>1. PICK T : T = S \ {Pick(S)} /\ T \subseteq S /\ IsFiniteSet(T)
    BY FS_Subset
  <2>2. F(T)[T] = F(S)[T]
    <3>1. PICK here, there : here = F(T) /\ there = F(S)
      OBVIOUS
    <3>2. Adds(c, here, T) /\ Adds(c, there, S)
      BY <1>2, <2>1, <3>1
    <3>3. \A s \in SUBSET T : here[s] = there[s]
      BY <2>1, <3>2, AddsOnce
    <3>. QED  BY <3>1, <3>3
  <2>3. F(S)[S] = W(c, Pick(S)) + F(S)[S \ {Pick(S)}]
    BY <1>2, <1>4, AddsValue
  <2>. QED  BY <2>1, <2>2, <2>3
<1>. QED  BY <1>1, <1>3, <1>4

LEMMA SumNone ==
  ASSUME NEW c
  PROVE  SumOf(c, {}) = 0
<1>1. IsFiniteSet({})
  BY FS_EmptySet
<1>. QED  BY <1>1, SumStep, Zenon

LEMMA SumInt ==
  ASSUME NEW c, NEW U, IsFiniteSet(U), \A r \in U : W(c, r) \in Int
  PROVE  \A S \in SUBSET U : SumOf(c, S) \in Int
<1>1. SUFFICES ASSUME NEW B, B = {S \in SUBSET U : SumOf(c, S) \notin Int}, B # {}
               PROVE  FALSE
  OBVIOUS
<1>2. B \in SUBSET (SUBSET U) /\ B # {}
  BY <1>1
<1>3. PICK S \in B : \A T \in B : ~ (T \subseteq S /\ T # S)
  BY <1>2, LeastSet
<1>4. S \in SUBSET U /\ SumOf(c, S) \notin Int /\ IsFiniteSet(S)
  BY <1>1, FS_Subset
<1>5. S # {}
  <2>1. SumOf(c, {}) \in Int
    BY SumNone
  <2>. QED  BY <1>4, <2>1
<1>6. PICK x, T : x = Pick(S) /\ T = S \ {Pick(S)} /\ x \in S /\ T \subseteq S /\ T # S
  BY <1>5, PickIn
<1>7. SumOf(c, T) \in Int
  BY <1>1, <1>3, <1>4, <1>6
<1>8. SumOf(c, S) = W(c, x) + SumOf(c, T)
  BY <1>4, <1>5, <1>6, SumStep
<1>. QED  BY <1>4, <1>6, <1>7, <1>8

AnyOrder(c, S) == \A x \in S : SumOf(c, S) = SumOf(c, S \ {x}) + W(c, x)

LEMMA SumAnyOrder ==
  ASSUME NEW c, NEW U, IsFiniteSet(U), \A r \in U : W(c, r) \in Int
  PROVE  \A S \in SUBSET U : AnyOrder(c, S)
<1>1. SUFFICES ASSUME NEW B, B = {S \in SUBSET U : ~ AnyOrder(c, S)}, B # {}
               PROVE  FALSE
  OBVIOUS
<1>2. B \in SUBSET (SUBSET U) /\ B # {}
  BY <1>1
<1>3. PICK S \in B : \A T \in B : ~ (T \subseteq S /\ T # S)
  BY <1>2, LeastSet
<1>4. S \in SUBSET U /\ IsFiniteSet(S)
  BY <1>1, FS_Subset
<1>5. PICK x \in S : SumOf(c, S) # SumOf(c, S \ {x}) + W(c, x)
  BY <1>1 DEF AnyOrder
<1>6. PICK y \in S : y = Pick(S) /\ SumOf(c, S) = W(c, y) + SumOf(c, S \ {y})
  BY <1>4, <1>5, SumStep, PickIn
<1>7. ASSUME NEW T \in SUBSET S, T # S, NEW z \in T
      PROVE  SumOf(c, T) = SumOf(c, T \ {z}) + W(c, z)
  BY <1>1, <1>3, <1>4, <1>7 DEF AnyOrder
<1>8. \A T \in SUBSET S : SumOf(c, T) \in Int
  BY <1>4, SumInt
<1>9. W(c, x) \in Int /\ W(c, y) \in Int
  BY <1>4
<1>10. CASE x = y
  BY <1>5, <1>6, <1>8, <1>9, <1>10
<1>11. CASE x # y
  <2>1. SumOf(c, S \ {y}) = SumOf(c, (S \ {y}) \ {x}) + W(c, x)
    BY <1>7, <1>11
  <2>2. SumOf(c, S \ {x}) = SumOf(c, (S \ {x}) \ {y}) + W(c, y)
    BY <1>7, <1>11
  <2>3. (S \ {y}) \ {x} = (S \ {x}) \ {y}
    OBVIOUS
  <2>4. PICK w \in Int : w = SumOf(c, (S \ {x}) \ {y})
    BY <1>8
  <2>5. SumOf(c, S) = W(c, y) + (w + W(c, x))
    BY <1>6, <2>1, <2>3, <2>4
  <2>6. SumOf(c, S \ {x}) = w + W(c, y)
    BY <2>2, <2>4
  <2>. QED  BY <1>5, <1>9, <2>5, <2>6
<1>. QED  BY <1>10, <1>11

\* A player more, a player less.
LEMMA SumPlus ==
  ASSUME NEW c, NEW S, IsFiniteSet(S), \A r \in S : W(c, r) \in Int,
         NEW x, x \notin S, W(c, x) \in Int
  PROVE  SumOf(c, S \cup {x}) = SumOf(c, S) + W(c, x) /\ SumOf(c, S) \in Int
<1>1. PICK T : T = S \cup {x}
  OBVIOUS
<1>2. IsFiniteSet(T) /\ x \in T /\ T \in SUBSET T /\ S \in SUBSET T /\ T \ {x} = S
  BY <1>1, FS_AddElement
<1>3. \A r \in T : W(c, r) \in Int
  BY <1>1
<1>4. SumOf(c, T) = SumOf(c, T \ {x}) + W(c, x)
  BY <1>2, <1>3, SumAnyOrder DEF AnyOrder
<1>5. SumOf(c, S) \in Int
  BY <1>2, <1>3, SumInt
<1>. QED  BY <1>1, <1>2, <1>4, <1>5

(***************************************************************************)
(* Going round the teams.                                                  *)
(***************************************************************************)
LEMMA Multiple ==
  ASSUME NEW n \in Nat \ {0}, NEW d \in Int, n * d < n, -n < n * d
  PROVE  d = 0
<1>1. CASE d >= 1
  <2>1. n * d = n * (d - 1) + n
    BY Z3
  <2>2. n * (d - 1) >= 0
    BY <1>1, Z3
  <2>3. n * (d - 1) \in Int /\ n * d \in Int
    OBVIOUS
  <2>. QED  BY <2>1, <2>2, <2>3
<1>2. CASE d <= -1
  <2>1. n * d = n * (d + 1) - n
    BY Z3
  <2>2. n * (d + 1) <= 0
    BY <1>2, Z3
  <2>3. n * (d + 1) \in Int /\ n * d \in Int
    OBVIOUS
  <2>. QED  BY <2>1, <2>2, <2>3
<1>. QED  BY <1>1, <1>2

LEMMA Mod ==
  ASSUME NEW a \in Nat, NEW n \in Nat \ {0}
  PROVE  /\ a % n \in 0..(n - 1)
         /\ 0 % n = 0
         /\ (a + 1) % n = IF a % n = n - 1 THEN 0 ELSE (a % n) + 1
<1>1. \A b \in Nat : b % n \in 0..(n - 1) /\ b \div n \in Int /\ b = n * (b \div n) + (b % n)
  OBVIOUS
<1>2. 0 % n = 0
  OBVIOUS
<1>3. ASSUME NEW q \in Int, NEW r \in 0..(n - 1), NEW b \in Nat, b = n * q + r
      PROVE  b % n = r
  <2>1. PICK u \in Int, v \in 0..(n - 1) : v = b % n /\ b = n * u + v
    BY <1>1
  <2>2. n * (q - u) = v - r
    <3>1. n * (q - u) = n * q - n * u
      BY Z3
    <3>2. n * q \in Int /\ n * u \in Int
      OBVIOUS
    <3>. QED  BY <1>3, <2>1, <3>1, <3>2
  <2>3. q - u = 0
    <3>1. v - r < n /\ -n < v - r
      OBVIOUS
    <3>. QED  BY <2>2, <3>1, Multiple
  <2>. QED  BY <2>1, <2>2, <2>3
<1>4. PICK q \in Int, r \in 0..(n - 1) : r = a % n /\ a = n * q + r
  BY <1>1
<1>5. CASE r # n - 1
  <2>1. r + 1 \in 0..(n - 1)
    BY <1>5
  <2>2. a + 1 = n * q + (r + 1)
    <3>1. n * q \in Int
      OBVIOUS
    <3>. QED  BY <1>4, <3>1
  <2>3. (a + 1) % n = r + 1
    <3>1. PICK b \in Nat : b = a + 1
      OBVIOUS
    <3>2. b % n = r + 1
      BY <1>3, <2>1, <2>2, <3>1
    <3>. QED  BY <3>1, <3>2
  <2>. QED  BY <1>1, <1>2, <1>4, <1>5, <2>3
<1>6. CASE r = n - 1
  <2>1. n * (q + 1) = n * q + n
    BY Z3
  <2>2. a + 1 = n * (q + 1) + 0
    <3>1. n * q \in Int
      OBVIOUS
    <3>. QED  BY <1>4, <1>6, <2>1, <3>1
  <2>3. q + 1 \in Int /\ 0 \in 0..(n - 1)
    OBVIOUS
  <2>4. (a + 1) % n = 0
    <3>1. PICK b \in Nat, k \in Int : b = a + 1 /\ k = q + 1
      OBVIOUS
    <3>2. b % n = 0
      BY <1>3, <2>2, <2>3, <3>1
    <3>. QED  BY <3>1, <3>2
  <2>. QED  BY <1>1, <1>2, <1>4, <1>6, <2>4
<1>. QED  BY <1>1, <1>2, <1>5, <1>6

(***************************************************************************)
(* Players, teams and who is picked.                                       *)
(***************************************************************************)
Typed ==
  /\ profile \in [Players -> DOMAIN Profiles]
  /\ count \in Nat \ {0}
  /\ team \in [Players -> Teams \cup {None}]
  /\ dealt \subseteq Players
  /\ phase \in {"keepers", "defenders", "rest"}
  /\ slot \in Nat

LEMMA FinitePlayers == IsFiniteSet(Players) /\ \A S \in SUBSET Players : IsFiniteSet(S)
<1>1. IsFiniteSet(1..N)
  BY FS_Interval, BalancerParameters
<1>. QED  BY <1>1, FS_Subset DEF Players

LEMMA FiniteTeams ==
  ASSUME Typed
  PROVE  IsFiniteSet(Teams)
<1>1. count - 1 \in Int
  BY DEF Typed
<1>. QED  BY <1>1, FS_Interval DEF Teams

LEMMA PlayersTyped ==
  ASSUME Typed
  PROVE  \A p \in Players : /\ Rating(p) \in Int
                            /\ Bucket(p) \in Buckets
                            /\ Rating(p) = W(profile, p)
<1>. SUFFICES ASSUME NEW p \in Players
              PROVE  Rating(p) \in Int /\ Bucket(p) \in Buckets /\ Rating(p) = W(profile, p)
  OBVIOUS
<1>1. profile[p] \in DOMAIN Profiles
  BY DEF Typed
<1>. QED  BY <1>1, BalancerParameters DEF Rating, Bucket, W

Ahead(p, q) == Rating(p) > Rating(q) \/ (Rating(p) = Rating(q) /\ p < q)
Leads(p, S) == \A q \in S \ {p} : Ahead(p, q)

\* The first of a stable sort is one of those sorted, and none is stronger.
LEMMA BestLeads ==
  ASSUME Typed
  PROVE  \A S \in SUBSET Players : S # {} =>
           Best(S) \in S /\ \A q \in S : Rating(Best(S)) >= Rating(q)
<1>1. \A S \in SUBSET Players : S # {} => \E p \in S : Leads(p, S)
  <2>1. SUFFICES ASSUME NEW B, B = {S \in SUBSET Players : S # {} /\ ~ \E p \in S : Leads(p, S)},
                        B # {}
                 PROVE  FALSE
    OBVIOUS
  <2>2. B \in SUBSET (SUBSET Players) /\ B # {}
    BY <2>1
  <2>3. PICK S \in B : \A T \in B : ~ (T \subseteq S /\ T # S)
    BY <2>2, LeastSet, FinitePlayers
  <2>4. S \in SUBSET Players /\ S # {} /\ ~ \E p \in S : Leads(p, S)
    BY <2>1
  <2>5. PICK x \in S : TRUE
    BY <2>4
  <2>6. PICK R : R = S \ {x}
    OBVIOUS
  <2>7. CASE R = {}
    BY <2>4, <2>5, <2>6, <2>7 DEF Leads
  <2>8. CASE R # {}
    <3>1. R \in SUBSET Players /\ R \notin B
      BY <2>3, <2>4, <2>6
    <3>2. PICK b \in R : Leads(b, R)
      BY <2>1, <2>8, <3>1
    <3>3. b \in S /\ b # x /\ b \in Int /\ x \in Int /\ Rating(b) \in Int /\ Rating(x) \in Int
      BY <2>4, <2>6, PlayersTyped DEF Players
    <3>4. CASE Ahead(b, x)
      BY <2>4, <2>6, <3>2, <3>3, <3>4 DEF Leads
    <3>5. CASE Ahead(x, b)
      <4>1. \A q \in R \ {b} : q \in Int /\ Rating(q) \in Int /\ Ahead(b, q)
        BY <3>1, <3>2, PlayersTyped DEF Leads, Players
      <4>2. \A q \in R : Ahead(x, q)
        BY <3>3, <3>5, <4>1 DEF Ahead
      <4>. QED  BY <2>4, <2>6, <4>2 DEF Leads
    <3>. QED  BY <3>3, <3>4, <3>5 DEF Ahead
  <2>. QED  BY <2>7, <2>8
<1>2. ASSUME NEW S \in SUBSET Players, S # {}
      PROVE  Best(S) \in S /\ \A q \in S : Rating(Best(S)) >= Rating(q)
  <2>1. \E p \in S : Leads(p, S)
    BY <1>1, <1>2
  <2>2. Best(S) \in S /\ Leads(Best(S), S)
    <3>1. \E p \in S : \A q \in S \ {p} :
             Rating(p) > Rating(q) \/ (Rating(p) = Rating(q) /\ p < q)
      BY <2>1 DEF Leads, Ahead
    <3>. QED  BY <3>1 DEF Leads, Ahead, Best
  <2>3. \A q \in S : Rating(q) \in Int /\ Rating(Best(S)) \in Int
    BY <2>2, PlayersTyped
  <2>. QED  BY <2>2, <2>3 DEF Leads, Ahead
<1>. QED  BY <1>2

LEMMA StrengthSum == \A t : Strength(t) = SumOf(profile, Members(t))
  BY Zenon DEF Strength, SumOf, W, Rating

LEMMA StrengthSumNext == (\A t : Strength(t) = SumOf(profile, Members(t)))'
<1>1. \A t : Strength(t) = SumOf(profile, Members(t))
  BY StrengthSum
<1>. QED  BY <1>1, PTL

LEMMA TeamsTyped ==
  ASSUME Typed
  PROVE  /\ Pool \in SUBSET Players
         /\ \A t \in Teams : /\ t \in Int
                             /\ Members(t) \in SUBSET Players
                             /\ Size(t) \in Nat
                             /\ Strength(t) = SumOf(profile, Members(t))
                             /\ Strength(t) \in Int
<1>1. Pool \in SUBSET Players
  BY DEF Pool
<1>2. ASSUME NEW t \in Teams
      PROVE  /\ t \in Int
             /\ Members(t) \in SUBSET Players
             /\ Size(t) \in Nat
             /\ Strength(t) = SumOf(profile, Members(t))
             /\ Strength(t) \in Int
  <2>1. t \in Int
    BY DEF Teams
  <2>2. Members(t) \in SUBSET Players
    BY DEF Members
  <2>3. Size(t) \in Nat
    BY <2>2, FinitePlayers, FS_CardinalityType DEF Size
  <2>4. Strength(t) = SumOf(profile, Members(t))
    BY StrengthSum
  <2>5. SumOf(profile, Members(t)) \in Int
    <3>1. \A p \in Players : W(profile, p) \in Int
      BY PlayersTyped
    <3>. QED  BY <2>2, <3>1, FinitePlayers, SumInt
  <2>. QED  BY <2>1, <2>2, <2>3, <2>4, <2>5
<1>. QED  BY <1>1, <1>2

Lower(t, o) ==
  \/ Size(t) < Size(o)
  \/ Size(t) = Size(o) /\ Strength(t) < Strength(o)
  \/ Size(t) = Size(o) /\ Strength(t) = Strength(o) /\ t < o

Lowest(t, S) == \A o \in S \ {t} : Lower(t, o)

\* min() over the teams finds one of them, and none is smaller, nor weaker if
\* it is of the same size.
LEMMA TargetLowest ==
  ASSUME Typed
  PROVE  TargetTeam \in Teams /\ Lowest(TargetTeam, Teams)
<1>1. \A S \in SUBSET Teams : S # {} => \E t \in S : Lowest(t, S)
  <2>1. SUFFICES ASSUME NEW B, B = {S \in SUBSET Teams : S # {} /\ ~ \E t \in S : Lowest(t, S)},
                        B # {}
                 PROVE  FALSE
    OBVIOUS
  <2>2. B \in SUBSET (SUBSET Teams) /\ B # {}
    BY <2>1
  <2>3. PICK S \in B : \A T \in B : ~ (T \subseteq S /\ T # S)
    BY <2>2, LeastSet, FiniteTeams
  <2>4. S \in SUBSET Teams /\ S # {} /\ ~ \E t \in S : Lowest(t, S)
    BY <2>1
  <2>5. PICK x \in S : TRUE
    BY <2>4
  <2>6. PICK R : R = S \ {x}
    OBVIOUS
  <2>7. CASE R = {}
    BY <2>4, <2>5, <2>6, <2>7 DEF Lowest
  <2>8. CASE R # {}
    <3>1. R \in SUBSET Teams /\ R \notin B
      BY <2>3, <2>4, <2>6
    <3>2. PICK b \in R : Lowest(b, R)
      BY <2>1, <2>8, <3>1
    <3>3. \A t \in S : t \in Int /\ Size(t) \in Int /\ Strength(t) \in Int
      BY <2>4, TeamsTyped
    <3>4. b \in S /\ b # x
      BY <2>6
    <3>5. CASE Lower(b, x)
      BY <2>4, <2>6, <3>2, <3>4, <3>5 DEF Lowest
    <3>6. CASE Lower(x, b)
      <4>1. \A o \in R \ {b} : Lower(b, o)
        BY <3>2 DEF Lowest
      <4>2. ASSUME NEW o \in R PROVE Lower(x, o)
        <5>1. o = b \/ Lower(b, o)
          BY <4>1
        <5>2. x \in S /\ b \in S /\ o \in S
          BY <2>5, <2>6
        <5>. QED  BY <3>3, <3>6, <5>1, <5>2 DEF Lower
      <4>. QED  BY <2>4, <2>5, <2>6, <4>2 DEF Lowest
    <3>. QED  BY <3>3, <3>4, <3>5, <3>6, <2>5 DEF Lower
  <2>. QED  BY <2>7, <2>8
<1>2. 0 \in Teams
  BY DEF Typed, Teams
<1>3. PICK t \in Teams : Lowest(t, Teams)
  BY <1>1, <1>2
<1>. QED  BY <1>3 DEF Lowest, Lower, TargetTeam

\* A player of the pool joins a team: the others stay as they are.
LEMMA Placed ==
  ASSUME Typed, NEW p \in Pool, NEW t \in Teams, Place(p, t), UNCHANGED <<profile, count>>
  PROVE  /\ team' \in [Players -> Teams' \cup {None}]
         /\ Teams' = Teams
         /\ Pool' = Pool \ {p}
         /\ \A u \in Teams : Members(u)' = IF u = t THEN Members(u) \cup {p} ELSE Members(u)
         /\ \A u \in Teams : Size(u)' = IF u = t THEN Size(u) + 1 ELSE Size(u)
         /\ \A u \in Teams : Strength(u)' = IF u = t THEN Strength(u) + Rating(p) ELSE Strength(u)
<1>1. p \in Players /\ team[p] = None /\ t # None /\ team \in [Players -> Teams \cup {None}]
  BY DEF Pool, Teams, None, Typed
<1>2. Teams' = Teams
  BY DEF Teams
<1>3. team' = [team EXCEPT ![p] = t]
  BY DEF Place
<1>4. team' \in [Players -> Teams' \cup {None}]
  BY <1>1, <1>2, <1>3
<1>5. \A q \in Players : team'[q] = IF q = p THEN t ELSE team[q]
  BY <1>1, <1>3
<1>6. Pool' = Pool \ {p}
  BY <1>1, <1>5 DEF Pool
<1>7. ASSUME NEW u \in Teams
      PROVE  /\ Members(u)' = IF u = t THEN Members(u) \cup {p} ELSE Members(u)
             /\ p \notin Members(u)
  <2>1. u # None
    BY DEF Teams, None
  <2>2. Members(u)' = {q \in Players : team'[q] = u}
    BY DEF Members
  <2>. QED  BY <1>1, <1>5, <2>1, <2>2 DEF Members
<1>8. ASSUME NEW u \in Teams
      PROVE  /\ Size(u)' = IF u = t THEN Size(u) + 1 ELSE Size(u)
             /\ Strength(u)' = IF u = t THEN Strength(u) + Rating(p) ELSE Strength(u)
  <2>1. PICK M : M = Members(u) /\ M \in SUBSET Players /\ IsFiniteSet(M) /\ p \notin M
    BY <1>7, TeamsTyped, FinitePlayers
  <2>2. /\ Size(u) = Cardinality(M) /\ Size(u)' = Cardinality(Members(u)')
        /\ Strength(u) = SumOf(profile, M) /\ Strength(u)' = SumOf(profile, Members(u)')
    <3>. QED  BY <2>1, StrengthSumNext, TeamsTyped DEF Size
  <2>3. Cardinality(M \cup {p}) = Cardinality(M) + 1
    BY <2>1, FS_AddElement
  <2>4. SumOf(profile, M \cup {p}) = SumOf(profile, M) + Rating(p)
    <3>1. \A q \in Players : W(profile, q) \in Int
      BY PlayersTyped
    <3>2. SumOf(profile, M \cup {p}) = SumOf(profile, M) + W(profile, p)
      BY <1>1, <2>1, <3>1, SumPlus
    <3>. QED  BY <1>1, <3>2, PlayersTyped
  <2>. QED  BY <1>7, <2>1, <2>2, <2>3, <2>4
<1>. QED  BY <1>2, <1>4, <1>6, <1>7, <1>8

LEMMA CandidatesIn ==
  ASSUME Typed, NEW b, Candidates(b) # {}
  PROVE  /\ Best(Candidates(b)) \in Pool
         /\ Best(Candidates(b)) \in Candidates(b)
<1>1. Candidates(b) \in SUBSET Players /\ Candidates(b) \subseteq Pool
  BY DEF Candidates, Pool
<1>. QED  BY <1>1, BestLeads

\* Every player left is of one of the four buckets, so one is dealt.
LEMMA NextIn ==
  ASSUME Typed, Pool # {}
  PROVE  NextDealt \in Pool
<1> DEFINE Of(b) == {p \in Pool : Bucket(p) = b}
<1>1. \A b : Of(b) \in SUBSET Players /\ Of(b) \subseteq Pool
  BY TeamsTyped
<1>2. \A b : Of(b) # {} => Best(Of(b)) \in Pool
  BY <1>1, BestLeads
<1>3. Of("MID") # {} \/ Of("FWD") # {} \/ Of("DEF") # {} \/ Of("GK") # {}
  BY TeamsTyped, PlayersTyped DEF Buckets
<1>4. NextDealt = Best(IF Of("MID") # {} THEN Of("MID")
                       ELSE IF Of("FWD") # {} THEN Of("FWD")
                       ELSE IF Of("DEF") # {} THEN Of("DEF") ELSE Of("GK"))
  BY DEF NextDealt
<1> HIDE DEF Of
<1>. QED  BY <1>2, <1>3, <1>4

(***************************************************************************)
(* What each step picks, and that the types are kept.                      *)
(***************************************************************************)
Joins(p, t) == p \in Pool /\ t \in Teams /\ Place(p, t) /\ UNCHANGED <<profile, count>>

LEMMA KeeperPick ==
  ASSUME Typed, PickKeeper
  PROVE  \E p \in Candidates("GK"), t \in Teams : t = slot /\ Joins(p, t)
<1>1. slot \in Teams
  BY DEF Typed, PickKeeper, Teams
<1>2. Best(Candidates("GK")) \in Pool /\ Best(Candidates("GK")) \in Candidates("GK")
  BY CandidatesIn DEF PickKeeper
<1>. QED  BY <1>1, <1>2 DEF PickKeeper, Joins

LEMMA DefenderPick ==
  ASSUME Typed, PickDefender
  PROVE  \E p \in Candidates("DEF"), t \in Teams : t = slot % count /\ Joins(p, t)
<1>1. slot % count \in Teams
  <2>1. slot % count \in 0..(count - 1)
    BY Mod DEF Typed
  <2>. QED  BY <2>1 DEF Teams
<1>2. Best(Candidates("DEF")) \in Pool /\ Best(Candidates("DEF")) \in Candidates("DEF")
  BY CandidatesIn DEF PickDefender
<1>. QED  BY <1>1, <1>2 DEF PickDefender, Joins

LEMMA RestPick ==
  ASSUME Typed, Distribute
  PROVE  Joins(NextDealt, TargetTeam)
  BY NextIn, TargetLowest DEF Distribute, Joins

LEMMA PicksOne ==
  ASSUME Typed, PickKeeper \/ PickDefender \/ Distribute
  PROVE  \E p, t : Joins(p, t)
  BY KeeperPick, DefenderPick, RestPick

LEMMA TypedInit == Init => Typed
<1>. SUFFICES ASSUME Init PROVE Typed
  OBVIOUS
<1>1. profile \in [Players -> DOMAIN Profiles] /\ count \in Nat \ {0} /\ slot \in Nat
  BY BalancerParameters DEF Init
<1>2. team \in [Players -> Teams \cup {None}]
  BY DEF Init
<1>. QED  BY <1>1, <1>2 DEF Init, Typed

LEMMA TypedNext ==
  ASSUME Typed, [Next]_vars
  PROVE  Typed'
<1>1. CASE PickKeeper \/ PickDefender \/ Distribute
  <2>1. PICK p, t : Joins(p, t)
    BY <1>1, PicksOne
  <2>2. team' \in [Players -> Teams' \cup {None}] /\ UNCHANGED <<profile, count>> /\ p \in Players
    BY <2>1, Placed, TeamsTyped DEF Joins
  <2>3. dealt' \subseteq Players /\ slot' \in Nat /\ phase' = phase
    <3>1. CASE PickKeeper \/ PickDefender
      BY <3>1 DEF Typed, PickKeeper, PickDefender
    <3>2. CASE Distribute
      <4>1. NextDealt \in Players
        BY <3>2, RestPick, TeamsTyped DEF Joins
      <4>. QED  BY <3>2, <4>1 DEF Typed, Distribute
    <3>. QED  BY <1>1, <3>1, <3>2
  <2>4. Players' = Players
    BY DEF Players
  <2>. QED  BY <2>2, <2>3, <2>4 DEF Typed
<1>2. CASE KeepersDone \/ DefendersDone \/ UNCHANGED vars
  <2>1. /\ UNCHANGED <<profile, count, team, dealt>> /\ slot' \in Nat
        /\ phase' \in {"keepers", "defenders", "rest"}
    BY <1>2 DEF KeepersDone, DefendersDone, vars, Typed
  <2>2. Players' = Players /\ Teams' = Teams
    BY <2>1 DEF Teams, Players
  <2>. QED  BY <2>1, <2>2 DEF Typed
<1>. QED  BY <1>1, <1>2 DEF Next

(***************************************************************************)
(* Keepers.                                                                *)
(***************************************************************************)
Able    == {p \in Players : Bucket(p) = "GK" \/ "GK" \in Alts(p)}
Kept(t) == Members(t) \cap Able # {}

\* Every team that has been served has a keeper, and whatever stops the first
\* phase early is that nobody is left who could be one.
KeeperInv ==
  /\ phase = "keepers" => slot <= count /\ \A t \in Teams : t < slot => Kept(t)
  /\ phase # "keepers" => (\A t \in Teams : Kept(t)) \/ Able \cap Pool = {}

LEMMA AbleStays ==
  ASSUME Typed, NEW p, NEW t, Joins(p, t)
  PROVE  /\ Able' = Able
         /\ \A u \in Teams : Kept(u) => Kept(u)'
         /\ p \in Able => Kept(t)'
         /\ Able \cap Pool = {} => (Able \cap Pool)' = {}
<1>1. Able' = Able
  BY DEF Joins, Able, Players, Bucket, Alts
<1>2. Pool' = Pool \ {p} /\ t \in Teams
      /\ \A u \in Teams : Members(u)' = IF u = t THEN Members(u) \cup {p} ELSE Members(u)
  BY Placed DEF Joins
<1>. QED  BY <1>1, <1>2 DEF Kept

LEMMA KeeperNext ==
  ASSUME Typed, KeeperInv, [Next]_vars
  PROVE  KeeperInv'
<1>1. CASE PickKeeper
  <2>1. PICK p \in Candidates("GK"), t \in Teams : t = slot /\ Joins(p, t)
    BY <1>1, KeeperPick
  <2>2. p \in Able
    BY TeamsTyped DEF Candidates, Able
  <2>3. /\ \A u \in Teams : Kept(u) => Kept(u)'
        /\ Kept(t)' /\ Teams' = Teams
    BY <2>1, <2>2, AbleStays, Placed DEF Joins
  <2>4. /\ slot \in Nat /\ slot' = slot + 1 /\ count \in Nat /\ slot < count /\ count' = count
        /\ phase' = "keepers" /\ phase = "keepers" /\ \A u \in Teams : u \in Int
    BY <1>1, TeamsTyped DEF Typed, PickKeeper
  <2>5. \A u \in Teams : u < slot + 1 => u < slot \/ u = t
    BY <2>1, <2>4
  <2>6. \A u \in Teams : u < slot' => Kept(u)'
    BY <2>3, <2>4, <2>5 DEF KeeperInv
  <2>. QED  BY <2>3, <2>4, <2>6 DEF KeeperInv
<1>2. CASE KeepersDone
  <2>1. /\ phase' = "defenders" /\ \A t \in Teams : t < slot => Kept(t)
        /\ \A t : Kept(t)' <=> Kept(t)
        /\ (Able \cap Pool)' = Able \cap Pool /\ Teams' = Teams
    BY <1>2 DEF KeepersDone, KeeperInv, Kept, Members, Able, Pool, Players, Bucket, Alts, Teams
  <2>2. CASE slot = count
    <3>1. \A t \in Teams : t < slot
      BY <2>2 DEF Teams, Typed
    <3>. QED  BY <2>1, <3>1 DEF KeeperInv
  <2>3. CASE Candidates("GK") = {}
    <3>1. Able \cap Pool = {}
      BY <2>3 DEF Candidates, Able
    <3>. QED  BY <2>1, <3>1 DEF KeeperInv
  <2>. QED  BY <1>2, <2>2, <2>3 DEF KeepersDone
<1>3. CASE PickDefender \/ Distribute
  <2>1. PICK p, t : Joins(p, t)
    BY <1>3, PicksOne
  <2>2. phase' = phase /\ phase # "keepers"
    BY <1>3 DEF PickDefender, Distribute
  <2>3. Teams' = Teams
    BY <2>1, Placed DEF Joins
  <2>. QED  BY <2>1, <2>2, <2>3, AbleStays DEF KeeperInv
<1>4. CASE DefendersDone
  BY <1>4 DEF DefendersDone, KeeperInv, Kept, Members, Able, Pool, Players, Bucket, Alts, Teams
<1>5. CASE UNCHANGED vars
  BY <1>5 DEF vars, KeeperInv, Kept, Members, Able, Pool, Players, Bucket, Alts, Teams
<1>. QED  BY <1>1, <1>2, <1>3, <1>4, <1>5 DEF Next

LEMMA KeptEach ==
  ASSUME Typed, KeeperInv
  PROVE  KeeperEach
<1>. SUFFICES ASSUME phase # "keepers"
              PROVE  {t \in Teams : Kept(t)} = Teams
                       \/ Able \subseteq UNION {Members(t) : t \in {t \in Teams : Kept(t)}}
  BY DEF KeeperEach, Kept, Able
<1>1. CASE \A t \in Teams : Kept(t)
  BY <1>1
<1>2. CASE Able \cap Pool = {}
  <2>1. ASSUME NEW p \in Able
        PROVE  \E t \in {t \in Teams : Kept(t)} : p \in Members(t)
    <3>1. p \in Players /\ team[p] # None
      BY <1>2 DEF Able, Pool
    <3>2. team[p] \in Teams
      BY <3>1 DEF Typed
    <3>3. p \in Members(team[p])
      BY <3>1 DEF Members
    <3>. QED  BY <2>1, <3>2, <3>3 DEF Kept
  <2>. QED  BY <2>1
<1>. QED  BY <1>1, <1>2 DEF KeeperInv

\* A team is left without anybody who can keep goal only if there are fewer
\* such players than teams: for any players, positions, ratings and teams.
THEOREM KeepersSpread == Spec => []KeeperEach
<1>1. Init => Typed /\ KeeperInv
  <2>1. Init => Typed
    BY TypedInit
  <2>2. Init /\ Typed => KeeperInv
    <3>1. Init => slot = 0 /\ phase = "keepers"
      BY DEF Init
    <3>2. \A t \in Teams : ~ (t < 0)
      BY DEF Teams
    <3>. QED  BY <3>1, <3>2 DEF KeeperInv, Typed
  <2>. QED  BY <2>1, <2>2
<1>2. Typed /\ KeeperInv /\ [Next]_vars => Typed' /\ KeeperInv'
  BY TypedNext, KeeperNext
<1>3. Typed /\ KeeperInv => KeeperEach
  BY KeptEach
<1>. QED  BY <1>1, <1>2, <1>3, PTL DEF Spec

(***************************************************************************)
(* Sizes.                                                                  *)
(***************************************************************************)
One(b) == IF b THEN 1 ELSE 0

\* Keepers and defenders are given out round the teams; the rest goes to the
\* smallest, whatever the first two phases have left.
SizeInv ==
  /\ phase = "keepers" =>
       dealt = {} /\ slot <= count /\ \A t \in Teams : Size(t) = One(t < slot)
  /\ phase = "defenders" =>
       /\ dealt = {}
       /\ \E k, q \in Nat : \A t \in Teams : Size(t) = One(t < k) + q + One(t < slot % count)
  /\ phase = "rest" => SizesEven

LEMMA SizeInit ==
  ASSUME Typed, Init
  PROVE  SizeInv
<1>1. slot = 0 /\ phase = "keepers" /\ dealt = {} /\ count \in Nat
  BY DEF Init, Typed
<1>2. ASSUME NEW t \in Teams PROVE Size(t) = One(t < 0)
  <2>1. Members(t) = {}
    BY DEF Init, Members, Teams, None
  <2>2. Size(t) = 0
    BY <2>1, FS_EmptySet DEF Size
  <2>3. ~ (t < 0)
    BY DEF Teams
  <2>. QED  BY <2>2, <2>3 DEF One
<1>. QED  BY <1>1, <1>2 DEF SizeInv

LEMMA SizesStay ==
  ASSUME Typed, UNCHANGED <<profile, count, team>>
  PROVE  Teams' = Teams /\ \A t : Members(t)' = Members(t) /\ Size(t)' = Size(t)
  BY DEF Teams, Members, Size, Players

LEMMA SizeKeeper ==
  ASSUME Typed, SizeInv, PickKeeper
  PROVE  SizeInv'
<1>1. PICK p, t : t \in Teams /\ t = slot /\ Joins(p, t)
  BY KeeperPick
<1>2. \A u \in Teams : Size(u)' = IF u = t THEN Size(u) + 1 ELSE Size(u)
  BY <1>1, Placed DEF Joins
<1>3. /\ slot \in Nat /\ slot' = slot + 1 /\ count \in Nat /\ slot < count /\ count' = count
      /\ phase' = "keepers" /\ phase = "keepers" /\ dealt' = dealt /\ \A u \in Teams : u \in Int
      /\ Teams' = Teams
  BY <1>1, TeamsTyped, Placed DEF Joins, Typed, PickKeeper
<1>4. ASSUME NEW u \in Teams PROVE Size(u)' = One(u < slot')
  <2>1. Size(u) = One(u < slot) /\ u \in Int
    BY <1>3 DEF SizeInv
  <2>. QED  BY <1>1, <1>2, <1>3, <2>1 DEF One
<1>. QED  BY <1>3, <1>4 DEF SizeInv

LEMMA SizeKeepersDone ==
  ASSUME Typed, SizeInv, KeepersDone
  PROVE  SizeInv'
<1>1. /\ phase = "keepers" /\ phase' = "defenders" /\ slot' = 0 /\ slot \in Nat
      /\ UNCHANGED <<profile, count, team, dealt>> /\ count \in Nat \ {0}
  BY DEF KeepersDone, Typed
<1>2. Teams' = Teams /\ \A t : Size(t)' = Size(t)
  BY <1>1, SizesStay
<1>3. slot' % count' = 0
  BY <1>1, Mod
<1>4. \A t \in Teams : Size(t) = One(t < slot) + 0 + One(t < 0)
  BY <1>1 DEF SizeInv, Teams, One
<1>5. \E k, q \in Nat : \A t \in Teams' : Size(t)' = One(t < k) + q + One(t < slot' % count')
  BY <1>1, <1>2, <1>3, <1>4
<1>. QED  BY <1>1, <1>5 DEF SizeInv

LEMMA SizeDefender ==
  ASSUME Typed, SizeInv, PickDefender
  PROVE  SizeInv'
<1>1. PICK p, t : t \in Teams /\ t = slot % count /\ Joins(p, t)
  BY DefenderPick
<1>2. \A u \in Teams : Size(u)' = IF u = t THEN Size(u) + 1 ELSE Size(u)
  BY <1>1, Placed DEF Joins
<1>3. /\ slot \in Nat /\ slot' = slot + 1 /\ count \in Nat \ {0} /\ count' = count
      /\ phase' = "defenders" /\ phase = "defenders" /\ dealt' = dealt /\ \A u \in Teams : u \in Int
      /\ Teams' = Teams
  BY <1>1, TeamsTyped, Placed DEF Joins, Typed, PickDefender
<1>4. PICK k, q \in Nat : \A u \in Teams : Size(u) = One(u < k) + q + One(u < slot % count)
  BY <1>3 DEF SizeInv
<1>5. slot' % count' = IF t = count - 1 THEN 0 ELSE t + 1
  BY <1>1, <1>3, Mod
<1>6. \A u \in Teams : u \in 0..(count - 1)
  BY DEF Teams
<1>7. CASE t = count - 1
  <2>1. ASSUME NEW u \in Teams PROVE Size(u)' = One(u < k) + (q + 1) + One(u < 0)
    <3>1. Size(u) = One(u < k) + q + One(u < t) /\ u \in Nat /\ u <= t
      BY <1>1, <1>3, <1>4, <1>6, <1>7
    <3>2. One(u < 0) = 0 /\ One(u < t) = (IF u = t THEN 0 ELSE 1) /\ One(u < k) \in Nat
      BY <1>1, <1>3, <3>1 DEF One
    <3>. QED  BY <1>2, <3>1, <3>2
  <2>2. \A u \in Teams' : Size(u)' = One(u < k) + (q + 1) + One(u < slot' % count')
    BY <1>3, <1>5, <1>7, <2>1
  <2>3. q + 1 \in Nat
    OBVIOUS
  <2>4. dealt' = {}
    BY <1>3 DEF SizeInv
  <2>. QED  BY <1>3, <2>2, <2>3, <2>4 DEF SizeInv
<1>8. CASE t # count - 1
  <2>1. ASSUME NEW u \in Teams PROVE Size(u)' = One(u < k) + q + One(u < t + 1)
    <3>1. Size(u) = One(u < k) + q + One(u < t) /\ u \in Int /\ t \in Int
      BY <1>1, <1>3, <1>4
    <3>2. One(u < t + 1) = One(u < t) + (IF u = t THEN 1 ELSE 0) /\ One(u < k) \in Nat /\ One(u < t) \in Nat
      BY <3>1 DEF One
    <3>. QED  BY <1>2, <3>1, <3>2
  <2>2. \A u \in Teams' : Size(u)' = One(u < k) + q + One(u < slot' % count')
    BY <1>3, <1>5, <1>8, <2>1
  <2>3. dealt' = {}
    BY <1>3 DEF SizeInv
  <2>. QED  BY <1>3, <2>2, <2>3 DEF SizeInv
<1>. QED  BY <1>7, <1>8

LEMMA SizesRound ==
  ASSUME Typed, SizeInv
  PROVE  SizesEven
<1>1. \A b : One(b) \in {0, 1}
  BY DEF One
<1>2. CASE phase = "keepers"
  <2>1. dealt = {} /\ \A t \in Teams : Size(t) = One(t < slot)
    BY <1>2 DEF SizeInv
  <2>. QED  BY <1>1, <2>1 DEF SizesEven
<1>3. CASE phase = "defenders"
  <2>1. dealt = {}
    BY <1>3 DEF SizeInv
  <2>2. PICK k, q \in Nat : \A t \in Teams : Size(t) = One(t < k) + q + One(t < slot % count)
    BY <1>3 DEF SizeInv
  <2>3. \A t, o \in Teams : Size(t) <= Size(o) + 2
    BY <1>1, <2>2
  <2>. QED  BY <2>1, <2>3 DEF SizesEven
<1>. QED  BY <1>2, <1>3 DEF SizeInv, Typed

LEMMA SizeDefendersDone ==
  ASSUME Typed, SizeInv, DefendersDone
  PROVE  SizeInv'
<1>1. phase' = "rest" /\ UNCHANGED <<profile, count, team, dealt>>
  BY DEF DefendersDone
<1>2. Teams' = Teams /\ \A t : Members(t)' = Members(t) /\ Size(t)' = Size(t)
  BY <1>1, SizesStay
<1>3. SizesEven'
  BY <1>1, <1>2, SizesRound DEF SizesEven
<1>. QED  BY <1>1, <1>3 DEF SizeInv

LEMMA SizeRest ==
  ASSUME Typed, SizeInv, Distribute
  PROVE  SizeInv'
<1>1. PICK p, m : p = NextDealt /\ m = TargetTeam
  OBVIOUS
<1>2. /\ phase = "rest" /\ phase' = "rest" /\ dealt' = dealt \cup {p} /\ Joins(p, m)
      /\ \A o \in Teams \ {m} : Lower(m, o)
  BY <1>1, RestPick, TargetLowest DEF Distribute, Lowest
<1>3. /\ Teams' = Teams /\ m \in Teams
      /\ \A u \in Teams : Members(u)' = IF u = m THEN Members(u) \cup {p} ELSE Members(u)
      /\ \A u \in Teams : Size(u)' = IF u = m THEN Size(u) + 1 ELSE Size(u)
  BY <1>2, Placed DEF Joins
<1>4. \A u \in Teams : Size(u) \in Nat
  BY TeamsTyped
<1>5. \A o \in Teams : Size(m) <= Size(o)
  BY <1>2, <1>3, <1>4 DEF Lower
<1>6. \A t \in Teams \ {m} : p \notin Members(t)
  BY <1>2, <1>3 DEF Joins, Pool, Members, Teams, None
<1>7. ASSUME NEW t \in Teams, NEW o \in Teams
      PROVE  /\ Size(t)' <= Size(o)' + 2
             /\ Size(t)' = Size(o)' + 2 => Members(t)' \cap dealt' = {}
  <2>1. /\ Size(t) <= Size(o) + 2
        /\ Size(t) = Size(o) + 2 => Members(t) \cap dealt = {}
    BY <1>2, <1>7 DEF SizeInv, SizesEven
  <2>2. CASE t = m
    <3>1. Size(t)' <= Size(o)' + 1
      BY <1>3, <1>4, <1>5, <2>2
    <3>2. Size(o)' \in Nat /\ Size(t)' \in Nat
      BY <1>3, <1>4
    <3>. QED  BY <3>1, <3>2
  <2>3. CASE t # m
    <3>1. Size(t)' = Size(t) /\ Size(o)' \in {Size(o), Size(o) + 1} /\ Members(t)' = Members(t)
      BY <1>3, <2>3
    <3>2. Members(t)' \cap dealt' = Members(t) \cap dealt
      BY <1>2, <1>6, <2>3, <3>1
    <3>. QED  BY <1>4, <2>1, <3>1, <3>2
  <2>. QED  BY <2>2, <2>3
<1>8. SizesEven'
  BY <1>3, <1>7 DEF SizesEven
<1>. QED  BY <1>2, <1>8 DEF SizeInv

LEMMA SizeNext ==
  ASSUME Typed, SizeInv, [Next]_vars
  PROVE  SizeInv'
<1>1. CASE UNCHANGED vars
  <2>1. UNCHANGED <<profile, count, team, dealt, phase, slot>>
    BY <1>1 DEF vars
  <2>2. Teams' = Teams /\ \A t : Members(t)' = Members(t) /\ Size(t)' = Size(t)
    BY <2>1, SizesStay
  <2>. QED  BY <2>1, <2>2 DEF SizeInv, SizesEven
<1>. QED  BY <1>1, SizeKeeper, SizeKeepersDone, SizeDefender, SizeDefendersDone, SizeRest DEF Next

\* Teams end up within one player of each other, or within two where the
\* keeper and the odd defender of one team could not be evened out: for any
\* number of players and teams.
THEOREM SizesWithin == Spec => []SizesEven
<1>1. Init => Typed /\ SizeInv
  BY TypedInit, SizeInit
<1>2. Typed /\ SizeInv /\ [Next]_vars => Typed' /\ SizeInv'
  BY TypedNext, SizeNext
<1>3. Typed /\ SizeInv => SizesEven
  BY SizesRound
<1>. QED  BY <1>1, <1>2, <1>3, PTL DEF Spec

(***************************************************************************)
(* Strength, among players of one field position.                          *)
(***************************************************************************)
Uniform ==
  /\ \A p, q \in Players : Bucket(p) = Bucket(q) /\ Bucket(p) \in {"MID", "FWD"}
  /\ \A p \in Players : Alts(p) = {}
  /\ count = 2

Gap(pq) == Rating(pq[1]) - Rating(pq[2])
Diff    == Strength(0) - Strength(1)
Gone    == Players \ Pool

\* The stronger are dealt first.
Descending == \A p \in Gone, q \in Pool : Rating(p) >= Rating(q)

\* Before the next pair of players, nobody or two neighbours account for the
\* difference; after the first of a pair, he has gone to the weaker team.
Even ==
  /\ Size(0) = Size(1)
  /\ \/ Size(0) = 0 /\ Diff = 0
     \/ \E pq \in Neighbours : Diff \in (-Gap(pq))..Gap(pq)

Odd ==
  \E a \in Gone : \E pq \in Neighbours :
    /\ \A r \in Gone : Rating(r) >= Rating(a)
    /\ \/ Size(0) = Size(1) + 1 /\ Diff - Rating(a) \in (-Gap(pq))..0
       \/ Size(1) = Size(0) + 1 /\ Diff + Rating(a) \in 0..Gap(pq)

CloseInv == Uniform => (phase # "rest" => Gone = {}) /\ Descending /\ (Even \/ Odd)

LEMMA TwoTeams ==
  ASSUME Typed, Uniform
  PROVE  /\ Teams = {0, 1}
         /\ Size(0) \in Nat /\ Size(1) \in Nat /\ Strength(0) \in Int /\ Strength(1) \in Int
<1>1. Teams = {0, 1}
  BY DEF Uniform, Teams
<1>. QED  BY <1>1, TeamsTyped

LEMMA GapTyped ==
  ASSUME Typed
  PROVE  \A pq \in Neighbours : /\ pq \in Players \X Players
                                /\ Gap(pq) \in Int /\ Gap(pq) >= 0
<1>. SUFFICES ASSUME NEW pq \in Neighbours
              PROVE  pq \in Players \X Players /\ Gap(pq) \in Int /\ Gap(pq) >= 0
  OBVIOUS
<1>1. pq \in Players \X Players /\ Rating(pq[1]) >= Rating(pq[2])
  BY DEF Neighbours
<1>2. Rating(pq[1]) \in Int /\ Rating(pq[2]) \in Int
  BY <1>1, PlayersTyped
<1>. QED  BY <1>1, <1>2 DEF Gap

LEMMA Pair ==
  ASSUME NEW p \in Players, NEW q \in Players, Rating(p) >= Rating(q),
         \A r \in Players : ~ (Rating(q) < Rating(r) /\ Rating(r) < Rating(p))
  PROVE  <<p, q>> \in Neighbours /\ Gap(<<p, q>>) = Rating(p) - Rating(q)
  BY DEF Neighbours, Gap

\* Nobody among them keeps goal or defends.
LEMMA NoPick ==
  ASSUME Typed, Uniform
  PROVE  ~ PickKeeper /\ ~ PickDefender
<1>1. \A p \in Pool : Bucket(p) \in {"MID", "FWD"} /\ Alts(p) = {}
  BY TeamsTyped DEF Uniform
<1>2. Candidates("GK") = {} /\ Candidates("DEF") = {}
  BY <1>1 DEF Candidates
<1>. QED  BY <1>2 DEF PickKeeper, PickDefender

LEMMA BestNext ==
  ASSUME Typed, Uniform, Pool # {}
  PROVE  NextDealt \in Pool /\ \A q \in Pool : Rating(NextDealt) >= Rating(q)
<1>1. PICK b \in {"MID", "FWD"} : \A p \in Pool : Bucket(p) = b
  BY TeamsTyped DEF Uniform
<1>2. NextDealt = Best(Pool)
  <2>1. {p \in Pool : Bucket(p) = b} = Pool
    BY <1>1
  <2>2. b = "FWD" => {p \in Pool : Bucket(p) = "MID"} = {}
    BY <1>1
  <2>. QED  BY <2>1, <2>2 DEF NextDealt
<1>. QED  BY <1>2, BestLeads, TeamsTyped

LEMMA CloseStays ==
  ASSUME Typed, CloseInv, UNCHANGED <<profile, count, team>>, phase = "rest" => phase' = "rest"
  PROVE  CloseInv'
<1>1. /\ Players' = Players /\ Pool' = Pool /\ Gone' = Gone /\ Neighbours' = Neighbours
      /\ Uniform' <=> Uniform
      /\ \A p : Rating(p)' = Rating(p)
      /\ \A pq : Gap(pq)' = Gap(pq)
  BY DEF Players, Pool, Gone, Neighbours, Gap, Rating, Uniform, Bucket, Alts
<1>2. \A t : Members(t)' = Members(t) /\ Size(t)' = Size(t) /\ Strength(t)' = Strength(t)
  <2>1. \A t : Members(t)' = Members(t) /\ Size(t)' = Size(t)
    BY SizesStay
  <2>. QED  BY <2>1, StrengthSum, StrengthSumNext
<1>3. Diff' = Diff
  BY <1>2 DEF Diff
<1>4. Descending' <=> Descending
  BY <1>1 DEF Descending
<1>5. Even' <=> Even
  BY <1>1, <1>2, <1>3 DEF Even
<1>6. Odd' <=> Odd
  BY <1>1, <1>2, <1>3 DEF Odd
<1>. QED  BY <1>1, <1>4, <1>5, <1>6 DEF CloseInv

\* The first of a pair goes to the weaker of two equally large teams.
LEMMA DealFirst ==
  ASSUME Typed, Uniform, Descending, Even, NEW p, NEW t, Joins(p, t),
         \A q \in Pool : Rating(p) >= Rating(q), Lowest(t, Teams)
  PROVE  Odd'
<1>1. /\ p \in Players /\ p \in Pool /\ t \in {0, 1} /\ Teams = {0, 1} /\ Rating(p) \in Int
      /\ Size(0) \in Nat /\ Size(1) \in Nat /\ Strength(0) \in Int /\ Strength(1) \in Int
  BY TwoTeams, TeamsTyped, PlayersTyped DEF Joins
<1>2. /\ Pool' = Pool \ {p} /\ UNCHANGED <<profile, count>>
      /\ \A u \in Teams : Size(u)' = IF u = t THEN Size(u) + 1 ELSE Size(u)
      /\ \A u \in Teams : Strength(u)' = IF u = t THEN Strength(u) + Rating(p) ELSE Strength(u)
  BY Placed DEF Joins
<1>3. /\ Gone' = Gone \cup {p} /\ Neighbours' = Neighbours
      /\ \A q : Rating(q)' = Rating(q)
      /\ \A pq : Gap(pq)' = Gap(pq)
  BY <1>1, <1>2 DEF Gone, Players, Neighbours, Rating, Gap
<1>4. \A r \in Gone' : Rating(r) >= Rating(p)
  BY <1>1, <1>3 DEF Descending
<1>5. PICK pq \in Neighbours : Diff \in (-Gap(pq))..Gap(pq)
  <2>1. CASE Diff = 0
    <3>1. <<p, p>> \in Neighbours /\ Gap(<<p, p>>) = 0
      <4>1. \A r \in Players : ~ (Rating(p) < Rating(r) /\ Rating(r) < Rating(p))
        BY <1>1, PlayersTyped
      <4>. QED  BY <1>1, <4>1, Pair
    <3>. QED  BY <2>1, <3>1
  <2>. QED  BY <2>1 DEF Even
<1>6. Gap(pq) \in Int /\ Diff \in Int /\ Diff = Strength(0) - Strength(1)
  BY <1>1, GapTyped DEF Diff
<1>7. CASE t = 0
  <2>1. Strength(0) <= Strength(1)
    BY <1>1, <1>7 DEF Lowest, Lower, Even
  <2>2. Size(0)' = Size(1)' + 1
    BY <1>1, <1>2, <1>7 DEF Even
  <2>3. Diff' = Diff + Rating(p)
    BY <1>1, <1>2, <1>7 DEF Diff
  <2>4. Diff' - Rating(p) \in (-Gap(pq))..0
    BY <1>1, <1>5, <1>6, <2>1, <2>3
  <2>. QED  BY <1>3, <1>4, <1>5, <2>2, <2>4 DEF Odd
<1>8. CASE t = 1
  <2>1. Strength(1) <= Strength(0)
    BY <1>1, <1>8 DEF Lowest, Lower, Even
  <2>2. Size(1)' = Size(0)' + 1
    BY <1>1, <1>2, <1>8 DEF Even
  <2>3. Diff' = Diff - Rating(p)
    BY <1>1, <1>2, <1>8 DEF Diff
  <2>4. Diff' + Rating(p) \in 0..Gap(pq)
    BY <1>1, <1>5, <1>6, <2>1, <2>3
  <2>. QED  BY <1>3, <1>4, <1>5, <2>2, <2>4 DEF Odd
<1>. QED  BY <1>1, <1>7, <1>8

\* The second goes to the other team, which has one player less, and makes up
\* for the first but for the gap between the two.
LEMMA DealSecond ==
  ASSUME Typed, Uniform, Descending, Odd, NEW p, NEW t, Joins(p, t),
         \A q \in Pool : Rating(p) >= Rating(q), Lowest(t, Teams)
  PROVE  Even'
<1>1. /\ p \in Players /\ p \in Pool /\ t \in {0, 1} /\ Teams = {0, 1} /\ Rating(p) \in Int
      /\ Size(0) \in Nat /\ Size(1) \in Nat /\ Strength(0) \in Int /\ Strength(1) \in Int
  BY TwoTeams, TeamsTyped, PlayersTyped DEF Joins
<1>2. /\ Pool' = Pool \ {p} /\ UNCHANGED <<profile, count>>
      /\ \A u \in Teams : Size(u)' = IF u = t THEN Size(u) + 1 ELSE Size(u)
      /\ \A u \in Teams : Strength(u)' = IF u = t THEN Strength(u) + Rating(p) ELSE Strength(u)
  BY Placed DEF Joins
<1>3. Neighbours' = Neighbours /\ \A pq : Gap(pq)' = Gap(pq)
  BY <1>2 DEF Players, Neighbours, Rating, Gap
<1>4. PICK a \in Gone, pq \in Neighbours :
        /\ \A r \in Gone : Rating(r) >= Rating(a)
        /\ \/ Size(0) = Size(1) + 1 /\ Diff - Rating(a) \in (-Gap(pq))..0
           \/ Size(1) = Size(0) + 1 /\ Diff + Rating(a) \in 0..Gap(pq)
  BY DEF Odd
<1>5. a \in Players /\ Rating(a) \in Int /\ Rating(a) >= Rating(p)
  BY <1>1, PlayersTyped DEF Gone, Descending
<1>6. /\ <<a, p>> \in Neighbours /\ Gap(<<a, p>>) = Rating(a) - Rating(p)
  <2>1. ASSUME NEW r \in Players PROVE ~ (Rating(p) < Rating(r) /\ Rating(r) < Rating(a))
    <3>1. r \in Pool \/ r \in Gone
      BY DEF Gone
    <3>2. Rating(r) \in Int
      BY PlayersTyped
    <3>. QED  BY <1>1, <1>4, <1>5, <3>1, <3>2
  <2>. QED  BY <1>1, <1>5, <2>1, Pair
<1>7. PICK g, h \in Nat : g = Gap(pq) /\ h = Gap(<<a, p>>)
  BY <1>4, <1>6, GapTyped
<1>8. Diff \in Int /\ Diff = Strength(0) - Strength(1)
  BY <1>1 DEF Diff
<1>9. Size(0)' = Size(1)' /\ Diff' \in (-g)..h \cup (-h)..g
  <2>1. CASE Size(0) = Size(1) + 1 /\ Diff - Rating(a) \in (-g)..0
    <3>1. t = 1
      BY <1>1, <2>1 DEF Lowest, Lower
    <3>2. Diff' = Diff - Rating(p) /\ Size(0)' = Size(1)'
      BY <1>1, <1>2, <2>1, <3>1 DEF Diff
    <3>3. Diff' \in (-g)..h
      BY <1>1, <1>5, <1>6, <1>7, <1>8, <2>1, <3>2
    <3>. QED  BY <3>2, <3>3
  <2>2. CASE Size(1) = Size(0) + 1 /\ Diff + Rating(a) \in 0..g
    <3>1. t = 0
      BY <1>1, <2>2 DEF Lowest, Lower
    <3>2. Diff' = Diff + Rating(p) /\ Size(0)' = Size(1)'
      BY <1>1, <1>2, <2>2, <3>1 DEF Diff
    <3>3. Diff' \in (-h)..g
      BY <1>1, <1>5, <1>6, <1>7, <1>8, <2>2, <3>2
    <3>. QED  BY <3>2, <3>3
  <2>. QED  BY <1>4, <1>7, <2>1, <2>2
<1>10. \E mn \in Neighbours : Diff' \in (-Gap(mn))..Gap(mn)
  <2>1. CASE g >= h
    <3>1. Diff' \in (-g)..g
      BY <1>7, <1>9, <2>1
    <3>. QED  BY <1>7, <3>1
  <2>2. CASE g < h
    <3>1. Diff' \in (-h)..h
      BY <1>7, <1>9, <2>2
    <3>. QED  BY <1>6, <1>7, <3>1
  <2>. QED  BY <1>7, <2>1, <2>2
<1>. QED  BY <1>3, <1>9, <1>10 DEF Even

LEMMA CloseRest ==
  ASSUME Typed, CloseInv, Distribute
  PROVE  CloseInv'
<1>1. PICK p, t : p = NextDealt /\ t = TargetTeam
  OBVIOUS
<1>2. /\ Joins(p, t) /\ Lowest(t, Teams) /\ phase' = "rest" /\ Pool # {}
  BY <1>1, RestPick, TargetLowest DEF Distribute
<1>3. Uniform' <=> Uniform
  BY <1>2 DEF Joins, Uniform, Players, Bucket, Alts
<1>. SUFFICES ASSUME Uniform
              PROVE  Descending' /\ (Even' \/ Odd')
  BY <1>2, <1>3 DEF CloseInv
<1>4. p \in Pool /\ p \in Players /\ \A q \in Pool : Rating(p) >= Rating(q)
  BY <1>1, <1>2, BestNext, TeamsTyped
<1>5. Descending /\ (Even \/ Odd)
  BY DEF CloseInv
<1>6. Descending'
  <2>1. Pool' = Pool \ {p} /\ UNCHANGED profile
    BY <1>2, Placed DEF Joins
  <2>2. Gone' = Gone \cup {p} /\ \A q : Rating(q)' = Rating(q)
    BY <1>4, <2>1 DEF Gone, Players, Rating
  <2>. QED  BY <1>4, <1>5, <2>1, <2>2 DEF Descending
<1>7. Even' \/ Odd'
  BY <1>2, <1>4, <1>5, DealFirst, DealSecond
<1>. QED  BY <1>6, <1>7

LEMMA CloseInit ==
  ASSUME Typed, Init
  PROVE  CloseInv
<1>. SUFFICES ASSUME Uniform
              PROVE  Gone = {} /\ Descending /\ Even
  BY DEF CloseInv
<1>1. Gone = {}
  BY DEF Init, Gone, Pool
<1>2. \A t \in Teams : Members(t) = {}
  BY DEF Init, Members, Teams, None
<1>3. \A t \in Teams : Size(t) = 0 /\ Strength(t) = 0
  BY <1>2, FS_EmptySet, StrengthSum, SumNone DEF Size
<1>4. Even
  BY <1>3, TwoTeams DEF Even, Diff
<1>. QED  BY <1>1, <1>4 DEF Descending

LEMMA CloseNext ==
  ASSUME Typed, CloseInv, [Next]_vars
  PROVE  CloseInv'
<1>1. CASE Distribute
  BY <1>1, CloseRest
<1>2. CASE KeepersDone \/ DefendersDone \/ UNCHANGED vars
  <2>1. UNCHANGED <<profile, count, team>> /\ (phase = "rest" => phase' = "rest")
    BY <1>2 DEF KeepersDone, DefendersDone, vars
  <2>. QED  BY <2>1, CloseStays
<1>3. CASE PickKeeper \/ PickDefender
  <2>1. UNCHANGED <<profile, count>>
    BY <1>3 DEF PickKeeper, PickDefender
  <2>2. Uniform' <=> Uniform
    BY <2>1 DEF Uniform, Players, Bucket, Alts
  <2>3. ~ Uniform
    BY <1>3, NoPick
  <2>. QED  BY <2>2, <2>3 DEF CloseInv
<1>. QED  BY <1>1, <1>2, <1>3 DEF Next

LEMMA ClosePair ==
  ASSUME Typed, CloseInv
  PROVE  RatingsClose
<1>. SUFFICES ASSUME Uniform, Size(0) = Size(1), Size(0) > 0
              PROVE  \E pq \in Neighbours : Diff \in (-Gap(pq))..Gap(pq)
  BY DEF RatingsClose, Uniform, Diff, Gap
<1>1. Size(0) \in Nat /\ Size(1) \in Nat
  BY TwoTeams
<1>2. ~ Odd
  BY <1>1 DEF Odd
<1>. QED  BY <1>1, <1>2 DEF CloseInv, Even

\* Two teams of players of one field position, if they are equally large,
\* differ in strength by no more than two of the players who are next to each
\* other in strength do: for any number of players and any ratings.
THEOREM StrengthsClose == Spec => []RatingsClose
<1>1. Init => Typed /\ CloseInv
  BY TypedInit, CloseInit
<1>2. Typed /\ CloseInv /\ [Next]_vars => Typed' /\ CloseInv'
  BY TypedNext, CloseNext
<1>3. Typed /\ CloseInv => RatingsClose
  BY ClosePair
<1>. QED  BY <1>1, <1>2, <1>3, PTL DEF Spec
=============================================================================
