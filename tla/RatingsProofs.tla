--------------------------- MODULE RatingsProofs ----------------------------
(***************************************************************************)
(* Proofs about Ratings, for any number of players, games and transactions.*)
(*                                                                         *)
(* The rows of a game are right as long as no two transactions in flight   *)
(* are about that game (Apart).  The ratings and counters of the accounts, *)
(* which every game of a player writes, agree with the rows as long as no  *)
(* two transactions in flight are about the same player (Separate).        *)
(***************************************************************************)
EXTENDS Ratings, FiniteSetTheorems, TLAPS

\* The transactions in flight are about different games: nothing in the code
\* says so, and it is all the rows of one game need.
Apart ==
  \A p, q \in Procs :
    p # q /\ txn[p] # Idle /\ txn[q] # Idle => txn[p].game # txn[q].game

\* A bonus can be told from the points of a place in the table.
BonusTold == \A x, y \in Points : x + Bonus # y

Rewarded == {x + Bonus : x \in Points}

HistoryRow(r) ==
  /\ r = [game |-> r.game, key |-> r.key, user |-> r.user, change |-> r.change]
  /\ r.game \in Games /\ r.user \in Players /\ r.change \in Int
StatsRow(r) ==
  /\ r = [game |-> r.game, key |-> r.key, user |-> r.user]
  /\ r.game \in Games /\ r.user \in Players

RowTypes ==
  /\ status \in [Games -> {"OPEN", "FINISHED"}]
  /\ roster \in [Games -> SUBSET Players]
  /\ \A r \in history : HistoryRow(r)
  /\ \A r \in stats : StatsRow(r)

OfGame(table, g) == {r \in table : r.game = g}

\* A transaction that has loaded the game knows its status still.
Loaded(t) ==
  /\ t.game \in Games /\ t.was = status[t.game]
  /\ t.at = "finish" => t.named \subseteq Players
  /\ t.at = "mvp" => t.winners \subseteq Players

\* What a finish is going to commit replaces all rows of its game, and the
\* bonus goes to those the statistics are going to name.
Refinishing(t) ==
  /\ t.drops = OfGame(history, t.game) /\ t.mends = {}
  /\ t.dropsStats = OfGame(stats, t.game)
  /\ t.adds = [u \in roster[t.game] |-> t.adds[u]]
  /\ \A u \in roster[t.game] :
       t.adds[u] \in IF u \in t.addsStats THEN Rewarded ELSE Points

\* What an election is going to commit mends the rows of those it adds to the
\* statistics.
Electing(t) ==
  /\ t.drops = {} /\ t.dropsStats = {} /\ DOMAIN t.adds = {}
  /\ \A u \in t.addsStats : RowsOf(stats, t.game, u) = {}
  /\ t.mends = {r \in OfGame(history, t.game) : r.user \in t.addsStats}

Computed(t) ==
  /\ t.game \in Games /\ t.finishes \in BOOLEAN
  /\ t.addsStats \subseteq Players
  /\ IF t.finishes THEN Refinishing(t) ELSE Electing(t)

InFlight(t) ==
  \/ t = Idle
  \/ t.at \in {"finish", "mvp"} /\ Loaded(t)
  \/ t.at = "commit" /\ Computed(t)

\* SingleRows, without counting.
Single ==
  \A g \in Games, u \in Players :
    /\ \A r, s \in RowsOf(history, g, u) : r = s
    /\ status[g] # "FINISHED" => RowsOf(history, g, u) = {}
    /\ \A r, s \in RowsOf(stats, g, u) : r = s

Bonuses == BonusRecorded /\ \A r \in history : r.change \in Points \cup Rewarded

RowsInv ==
  /\ RowTypes
  /\ Single
  /\ BonusTold => Bonuses
  /\ txn = [p \in Procs |-> txn[p]]
  /\ \A p \in Procs : InFlight(txn[p])

(***************************************************************************)
(* What a commit does to the rows of its own game and of the others.       *)
(***************************************************************************)
OtherRowsKept(g) ==
  /\ \A h \in Games \ {g} : /\ OfGame(history, h)' = OfGame(history, h)
                            /\ OfGame(stats, h)' = OfGame(stats, h)
                            /\ status'[h] = status[h]
  /\ \A r \in history' : r.game # g => r \in history
  /\ \A r \in stats' : r.game # g => r \in stats

\* The rows of the other games stay right whatever happens to one game.
LEMMA OtherGames ==
  ASSUME RowTypes, Single, NEW g \in Games, OtherRowsKept(g)
  PROVE  /\ \A h \in Games \ {g}, u \in Players :
              /\ \A r, s \in RowsOf(history, h, u)' : r = s
              /\ status'[h] # "FINISHED" => RowsOf(history, h, u)' = {}
              /\ \A r, s \in RowsOf(stats, h, u)' : r = s
         /\ Bonuses => \A r \in history' : r.game # g =>
              /\ r.change \in Points \cup Rewarded
              /\ r.change \in Rewarded <=> RowsOf(stats, r.game, r.user)' # {}
         /\ \A r \in history' : r.game # g => HistoryRow(r)
         /\ \A r \in stats' : r.game # g => StatsRow(r)
<1>1. \A h \in Games \ {g} : \A u : /\ RowsOf(history, h, u)' = RowsOf(history, h, u)
                                    /\ RowsOf(stats, h, u)' = RowsOf(stats, h, u)
  BY DEF OtherRowsKept, OfGame, RowsOf
<1>. QED  BY <1>1 DEF OtherRowsKept, RowTypes, HistoryRow, Single, Bonuses, BonusRecorded, Rewarded

\* The tables after a finish, and after an election, has been committed.
FinishedRows(t, g, key) ==
  /\ \A r : r \in history' <=>
       \/ r \in history /\ r.game # g
       \/ \E u \in roster[g] :
            r = [game |-> g, key |-> key, user |-> u, change |-> t.adds[u]]
  /\ \A r : r \in stats' <=>
       \/ r \in stats /\ r.game # g
       \/ \E u \in t.addsStats : r = [game |-> g, key |-> key, user |-> u]

ElectedRows(t, g, key) ==
  /\ \A r : r \in history' <=>
       \/ r \in history /\ ~ (r.game = g /\ r.user \in t.addsStats)
       \/ \E s \in history :
            /\ s.game = g /\ s.user \in t.addsStats
            /\ r = [game |-> s.game, key |-> s.key, user |-> s.user,
                    change |-> s.change + Bonus]
  /\ \A r : r \in stats' <=>
       \/ r \in stats
       \/ \E u \in t.addsStats : r = [game |-> g, key |-> key, user |-> u]

LEMMA ImageFinite ==
  ASSUME NEW S, IsFiniteSet(S), NEW f, NEW T, \A y \in T : \E x \in S : y = f[x]
  PROVE  IsFiniteSet(T)
<1>1. PICK U, e : U = {f[x] : x \in S} /\ e = [x \in S |-> f[x]]
  OBVIOUS
<1>2. e \in Surjection(S, U)
  BY <1>1 DEF Surjection
<1>3. IsFiniteSet(U)
  BY <1>2, FS_Surjection
<1>4. T \subseteq U
  BY <1>1
<1>. QED  BY <1>3, <1>4, FS_Subset

LEMMA FinishTables ==
  ASSUME RowsInv, NEW p \in Procs, Commit(p), txn[p].finishes,
         NEW t, t = txn[p], NEW g, g = t.game
  PROVE  /\ g \in Games /\ status' = [status EXCEPT ![g] = "FINISHED"] /\ roster' = roster
         /\ t.addsStats \subseteq Players
         /\ \A u \in roster[g] : t.adds[u] \in IF u \in t.addsStats THEN Rewarded ELSE Points
         /\ \E key : FinishedRows(t, g, key)
         /\ IsFiniteSet(history) /\ IsFiniteSet(stats)
              => IsFiniteSet(history') /\ IsFiniteSet(stats')
<1>1. PICK key : key = FreshKey(p)
  OBVIOUS
<1>2. /\ t.at = "commit" /\ t.finishes
      /\ status' = [status EXCEPT ![t.game] = "FINISHED"]
      /\ history' = (history \ (t.drops \cup t.mends))
                      \cup {[r EXCEPT !.change = @ + Bonus] : r \in t.mends}
                      \cup {[game |-> t.game, key |-> key, user |-> u, change |-> t.adds[u]]
                              : u \in DOMAIN t.adds}
      /\ stats' = (stats \ t.dropsStats)
                    \cup {[game |-> t.game, key |-> key, user |-> u] : u \in t.addsStats}
      /\ roster' = roster
  BY <1>1 DEF Commit
<1>3. Computed(t)
  BY <1>2 DEF RowsInv, InFlight, Idle
<1>4. g \in Games
  BY <1>3 DEF Computed
<1>5. /\ t.drops = OfGame(history, g) /\ t.mends = {}
      /\ t.dropsStats = OfGame(stats, g)
      /\ DOMAIN t.adds = roster[g]
      /\ \A u \in roster[g] : t.adds[u] \in IF u \in t.addsStats THEN Rewarded ELSE Points
      /\ t.addsStats \subseteq Players
  BY <1>2, <1>3 DEF Computed, Refinishing
<1>6. /\ history' = (history \ OfGame(history, g))
           \cup {[game |-> g, key |-> key, user |-> u, change |-> t.adds[u]] : u \in roster[g]}
      /\ stats' = (stats \ OfGame(stats, g))
           \cup {[game |-> g, key |-> key, user |-> u] : u \in t.addsStats}
  BY <1>2, <1>5
<1>7. FinishedRows(t, g, key)
  BY <1>6 DEF OfGame, FinishedRows
<1>8. ASSUME IsFiniteSet(history), IsFiniteSet(stats)
      PROVE  IsFiniteSet(history') /\ IsFiniteSet(stats')
  <2>1. roster[g] \subseteq Players
    BY <1>4 DEF RowsInv, RowTypes
  <2>2. IsFiniteSet(roster[g]) /\ IsFiniteSet(t.addsStats)
    BY <1>5, <2>1, FS_Subset, RatingParameters
  <2>3. IsFiniteSet({[game |-> g, key |-> key, user |-> u, change |-> t.adds[u]] : u \in roster[g]})
    <3>1. PICK f : f = [u \in roster[g] |->
                          [game |-> g, key |-> key, user |-> u, change |-> t.adds[u]]]
      OBVIOUS
    <3>2. \A y \in {[game |-> g, key |-> key, user |-> u, change |-> t.adds[u]] : u \in roster[g]} : \E x \in roster[g] : y = f[x]
      BY <3>1
    <3>. QED  BY <2>2, <3>2, ImageFinite
  <2>4. IsFiniteSet({[game |-> g, key |-> key, user |-> u] : u \in t.addsStats})
    <3>1. PICK f : f = [u \in t.addsStats |-> [game |-> g, key |-> key, user |-> u]]
      OBVIOUS
    <3>2. \A y \in {[game |-> g, key |-> key, user |-> u] : u \in t.addsStats} : \E x \in t.addsStats : y = f[x]
      BY <3>1
    <3>. QED  BY <2>2, <3>2, ImageFinite
  <2>5. IsFiniteSet(history \ OfGame(history, g)) /\ IsFiniteSet(stats \ OfGame(stats, g))
    BY <1>8, FS_Subset
  <2>. QED  BY <1>6, <2>3, <2>4, <2>5, FS_Union
<1>. QED  BY <1>2, <1>4, <1>5, <1>7, <1>8

LEMMA FinishCommit ==
  ASSUME RowsInv, NEW p \in Procs, Commit(p), txn[p].finishes
  PROVE  /\ RowTypes' /\ Single' /\ (BonusTold => Bonuses)'
         /\ txn[p].game \in Games /\ OtherRowsKept(txn[p].game)
<1>1. PICK t : t = txn[p]
  OBVIOUS
<1>4. PICK g \in Games : g = t.game
  BY <1>1, FinishTables
<1>2. status' = [status EXCEPT ![g] = "FINISHED"] /\ roster' = roster
  BY <1>1, <1>4, FinishTables
<1>5. /\ \A u \in roster[g] : t.adds[u] \in IF u \in t.addsStats THEN Rewarded ELSE Points
      /\ t.addsStats \subseteq Players
  BY <1>1, <1>4, FinishTables
<1>5a. PICK key : FinishedRows(t, g, key)
  BY <1>1, <1>4, FinishTables
<1>6. /\ \A r : r \in history' <=>
           \/ r \in history /\ r.game # g
           \/ \E u \in roster[g] :
                r = [game |-> g, key |-> key, user |-> u, change |-> t.adds[u]]
      /\ \A r : r \in stats' <=>
           \/ r \in stats /\ r.game # g
           \/ \E u \in t.addsStats : r = [game |-> g, key |-> key, user |-> u]
  BY <1>5a DEF FinishedRows
<1>8. /\ status' \in [Games -> {"OPEN", "FINISHED"}] /\ status'[g] = "FINISHED"
      /\ \A h \in Games \ {g} : status'[h] = status[h]
  BY <1>2, <1>4 DEF RowsInv, RowTypes
<1>9. OtherRowsKept(g)
  <2>1. \A h \in Games \ {g} : OfGame(history, h)' = OfGame(history, h)
    BY <1>6 DEF OfGame
  <2>2. \A h \in Games \ {g} : OfGame(stats, h)' = OfGame(stats, h)
    BY <1>6 DEF OfGame
  <2>. QED  BY <1>6, <1>8, <2>1, <2>2 DEF OtherRowsKept
<1>10. roster[g] \subseteq Players
  BY DEF RowsInv, RowTypes
<1>11. /\ \A r \in history' : r.game = g =>
             /\ r.user \in roster[g] /\ r.change = t.adds[r.user]
             /\ r = [game |-> g, key |-> key, user |-> r.user, change |-> t.adds[r.user]]
       /\ \A r \in stats' : r.game = g =>
             r.user \in t.addsStats /\ r = [game |-> g, key |-> key, user |-> r.user]
  BY <1>6
<1>12. RowTypes'
  <2>0. \A u \in roster[g] : t.adds[u] \in Int
    <3>1. Points \subseteq Int /\ Rewarded \subseteq Int
      BY RatingParameters DEF Rewarded
    <3>. QED  BY <1>5, <3>1
  <2>1. \A r \in history' : r.game = g => HistoryRow(r)
    BY <1>10, <1>11, <2>0 DEF HistoryRow
  <2>2. \A r \in stats' : r.game = g => StatsRow(r)
    BY <1>5, <1>11 DEF StatsRow
  <2>3. \A r : /\ HistoryRow(r) => HistoryRow(r)'
               /\ StatsRow(r) => StatsRow(r)'
    BY DEF HistoryRow, StatsRow, Rewarded
  <2>. QED  BY <1>2, <1>8, <1>9, <2>1, <2>2, <2>3, OtherGames DEF RowsInv, RowTypes
<1>13. Single'
  <2>1. \A u \in Players : /\ \A r, s \in RowsOf(history, g, u)' : r = s
                           /\ \A r, s \in RowsOf(stats, g, u)' : r = s
    BY <1>11 DEF RowsOf
  <2>. QED  BY <1>8, <1>9, <2>1, OtherGames DEF RowsInv, Single
<1>14. ASSUME BonusTold
       PROVE  Bonuses'
  <2>1. ASSUME NEW r \in history', r.game = g
        PROVE  /\ r.change \in Points \cup Rewarded
               /\ r.change \in Rewarded <=> RowsOf(stats, g, r.user)' # {}
    <3>1. RowsOf(stats, g, r.user)' # {} <=> r.user \in t.addsStats
      <4>1. ASSUME r.user \in t.addsStats
            PROVE  [game |-> g, key |-> key, user |-> r.user] \in RowsOf(stats, g, r.user)'
        BY <1>6, <4>1 DEF RowsOf
      <4>2. \A s \in RowsOf(stats, g, r.user)' : s.user \in t.addsStats /\ s.user = r.user
        BY <1>11 DEF RowsOf
      <4>. QED  BY <4>1, <4>2
    <3>2. r.user \in roster[g] /\ r.change = t.adds[r.user]
      BY <1>11, <2>1
    <3>3. r.user \notin t.addsStats => r.change \notin Rewarded
      BY <1>5, <1>14, <3>2 DEF BonusTold, Rewarded
    <3>. QED  BY <1>5, <3>1, <3>2, <3>3
  <2>. QED  BY <1>9, <1>14, <2>1, OtherGames DEF RowsInv, Bonuses, BonusRecorded, Rewarded
<1>. QED  BY <1>1, <1>4, <1>9, <1>12, <1>13, <1>14 DEF BonusTold

\* The tables after an election has been committed.
LEMMA ElectionTables ==
  ASSUME RowsInv, NEW p \in Procs, Commit(p), ~ txn[p].finishes,
         NEW t, t = txn[p], NEW g, g = t.game
  PROVE  /\ g \in Games /\ status' = status /\ roster' = roster
         /\ t.addsStats \subseteq Players
         /\ \A u \in t.addsStats : RowsOf(stats, g, u) = {}
         /\ \E key : ElectedRows(t, g, key)
         /\ IsFiniteSet(history) /\ IsFiniteSet(stats)
              => IsFiniteSet(history') /\ IsFiniteSet(stats')
<1>1. PICK key : key = FreshKey(p)
  OBVIOUS
<1>2. /\ t.at = "commit" /\ ~ t.finishes
      /\ status' = status
      /\ history' = (history \ (t.drops \cup t.mends))
                      \cup {[r EXCEPT !.change = @ + Bonus] : r \in t.mends}
                      \cup {[game |-> t.game, key |-> key, user |-> u, change |-> t.adds[u]]
                              : u \in DOMAIN t.adds}
      /\ stats' = (stats \ t.dropsStats)
                    \cup {[game |-> t.game, key |-> key, user |-> u] : u \in t.addsStats}
      /\ roster' = roster
  BY <1>1 DEF Commit
<1>3. Computed(t)
  BY <1>2 DEF RowsInv, InFlight, Idle
<1>4. g \in Games
  BY <1>3 DEF Computed
<1>5. /\ t.drops = {} /\ t.dropsStats = {} /\ DOMAIN t.adds = {}
      /\ \A u \in t.addsStats : RowsOf(stats, g, u) = {}
      /\ t.mends = {s \in history : s.game = g /\ s.user \in t.addsStats}
      /\ t.addsStats \subseteq Players
  BY <1>2, <1>3 DEF Computed, Electing, OfGame
<1>6. /\ history' = (history \ t.mends) \cup {[r EXCEPT !.change = @ + Bonus] : r \in t.mends}
      /\ stats' = stats \cup {[game |-> g, key |-> key, user |-> u] : u \in t.addsStats}
  BY <1>2, <1>5
<1>7. \A s \in t.mends :
        [s EXCEPT !.change = @ + Bonus]
          = [game |-> s.game, key |-> s.key, user |-> s.user, change |-> s.change + Bonus]
  BY <1>5 DEF RowsInv, RowTypes, HistoryRow
<1>8. \A r : r \in history' <=>
        \/ r \in history /\ r \notin t.mends
        \/ \E s \in t.mends : r = [s EXCEPT !.change = @ + Bonus]
  BY <1>6
<1>9. ElectedRows(t, g, key)
  <2>1. \A r : r \in history' <=>
          \/ r \in history /\ r \notin t.mends
          \/ \E s \in t.mends :
               r = [game |-> s.game, key |-> s.key, user |-> s.user, change |-> s.change + Bonus]
    <3>1. ASSUME NEW r, NEW s \in t.mends
          PROVE  r = [s EXCEPT !.change = @ + Bonus]
                   <=> r = [game |-> s.game, key |-> s.key, user |-> s.user,
                            change |-> s.change + Bonus]
      BY <1>7
    <3>. QED  BY <1>8, <3>1
  <2>. QED  BY <1>5, <1>6, <2>1 DEF ElectedRows
<1>10. ASSUME IsFiniteSet(history), IsFiniteSet(stats)
       PROVE  IsFiniteSet(history') /\ IsFiniteSet(stats')
  <2>1. IsFiniteSet(t.addsStats) /\ IsFiniteSet(t.mends) /\ IsFiniteSet(history \ t.mends)
    BY <1>5, <1>10, FS_Subset, RatingParameters
  <2>2. IsFiniteSet({[r EXCEPT !.change = @ + Bonus] : r \in t.mends})
    <3>1. PICK f, M : /\ f = [r \in t.mends |-> [r EXCEPT !.change = @ + Bonus]]
                      /\ M = {[r EXCEPT !.change = @ + Bonus] : r \in t.mends}
      OBVIOUS
    <3>2. \A y \in M : \E x \in t.mends : y = f[x]
      BY <3>1
    <3>3. IsFiniteSet(M)
      BY <2>1, <3>2, ImageFinite
    <3>. QED  BY <3>1, <3>3
  <2>3. IsFiniteSet({[game |-> g, key |-> key, user |-> u] : u \in t.addsStats})
    <3>1. PICK f : f = [u \in t.addsStats |-> [game |-> g, key |-> key, user |-> u]]
      OBVIOUS
    <3>2. \A y \in {[game |-> g, key |-> key, user |-> u] : u \in t.addsStats} : \E x \in t.addsStats : y = f[x]
      BY <3>1
    <3>3. IsFiniteSet(t.mends) /\ IsFiniteSet(t.addsStats)
      BY <2>1
    <3>. QED  BY <3>2, <3>3, ImageFinite
  <2>. QED  BY <1>6, <1>10, <2>1, <2>2, <2>3, FS_Union
<1>. QED  BY <1>2, <1>4, <1>5, <1>9, <1>10

\* The rows an election mends are those of players that were not elected
\* before; their change was worth points, and now is worth the bonus as well.
LEMMA ElectionCommit ==
  ASSUME RowsInv, NEW p \in Procs, Commit(p), ~ txn[p].finishes
  PROVE  /\ RowTypes' /\ Single' /\ (BonusTold => Bonuses)'
         /\ txn[p].game \in Games /\ OtherRowsKept(txn[p].game)
<1>1. PICK t : t = txn[p]
  OBVIOUS
<1>4. PICK g \in Games : g = t.game
  BY <1>1, ElectionTables
<1>2. status' = status /\ roster' = roster
  BY <1>1, <1>4, ElectionTables
<1>5. /\ \A u \in t.addsStats : RowsOf(stats, g, u) = {}
      /\ t.addsStats \subseteq Players
  BY <1>1, <1>4, ElectionTables
<1>6. \A r \in history : HistoryRow(r)
  BY DEF RowsInv, RowTypes
<1>5a. PICK key : ElectedRows(t, g, key)
  BY <1>1, <1>4, ElectionTables
<1>7. \A r : r \in history' <=>
        \/ r \in history /\ ~ (r.game = g /\ r.user \in t.addsStats)
        \/ \E s \in history :
             /\ s.game = g /\ s.user \in t.addsStats
             /\ r = [game |-> s.game, key |-> s.key, user |-> s.user,
                     change |-> s.change + Bonus]
  BY <1>5a DEF ElectedRows
<1>8. \A r : r \in stats' <=>
        \/ r \in stats
        \/ \E u \in t.addsStats : r = [game |-> g, key |-> key, user |-> u]
  BY <1>5a DEF ElectedRows
<1>9. OtherRowsKept(g)
  <2>1. \A h \in Games \ {g} : OfGame(history, h)' = OfGame(history, h)
    BY <1>7 DEF OfGame
  <2>2. \A h \in Games \ {g} : OfGame(stats, h)' = OfGame(stats, h)
    BY <1>8 DEF OfGame
  <2>. QED  BY <1>2, <1>7, <1>8, <2>1, <2>2 DEF OtherRowsKept
<1>10. ASSUME BonusTold, NEW s \in history, s.game = g, s.user \in t.addsStats
       PROVE  s.change \in Points /\ s.change + Bonus \in Rewarded
  <2>1. RowsOf(stats, s.game, s.user) = {}
    BY <1>5, <1>10
  <2>2. Bonuses
    BY <1>10 DEF RowsInv
  <2>3. s.change \notin Rewarded
    BY <2>1, <2>2 DEF Bonuses, BonusRecorded, Rewarded
  <2>. QED  BY <2>2, <2>3 DEF Bonuses, Rewarded
<1>11. RowTypes'
  <2>1. ASSUME NEW r \in history'
        PROVE  HistoryRow(r)
    <3>1. CASE r \in history
      BY <1>6, <3>1
    <3>2. CASE r \notin history
      <4>1. PICK s \in history :
              /\ s.game = g /\ s.user \in t.addsStats
              /\ r = [game |-> s.game, key |-> s.key, user |-> s.user,
                      change |-> s.change + Bonus]
        BY <1>7, <3>2
      <4>2. /\ s.game \in Games /\ s.user \in Players
            /\ s.change \in Int /\ s.change + Bonus \in Int
        <5>1. HistoryRow(s)
          BY <1>6
        <5>2. s.change \in Int /\ Bonus \in Int
          BY <5>1, RatingParameters DEF HistoryRow
        <5>. QED  BY <5>1, <5>2 DEF HistoryRow
      <4>. QED  BY <4>1, <4>2 DEF HistoryRow
    <3>. QED  BY <3>1, <3>2
  <2>2. \A r \in stats' : StatsRow(r)
    BY <1>5, <1>8 DEF RowsInv, RowTypes, StatsRow
  <2>. QED  BY <1>2, <2>1, <2>2 DEF RowsInv, RowTypes, HistoryRow, StatsRow, Rewarded
\* Of each player of the game there is the one row there was.
<1>12. ASSUME NEW r \in history', r.game = g
       PROVE  \E s \in RowsOf(history, g, r.user) :
                r = [game |-> g, key |-> s.key, user |-> r.user,
                     change |-> IF r.user \in t.addsStats THEN s.change + Bonus ELSE s.change]
  <2>1. CASE r.user \notin t.addsStats
    <3>1. r \in history
      BY <1>7, <2>1
    <3>. QED  BY <1>6, <1>12, <2>1, <3>1 DEF RowsOf, HistoryRow
  <2>2. CASE r.user \in t.addsStats
    <3>1. PICK s \in history :
            /\ s.game = g /\ s.user \in t.addsStats
            /\ r = [game |-> s.game, key |-> s.key, user |-> s.user,
                    change |-> s.change + Bonus]
      BY <1>7, <1>12, <2>2
    <3>. QED  BY <2>2, <3>1 DEF RowsOf
  <2>. QED  BY <2>1, <2>2
<1>13. Single'
  <2>1. ASSUME NEW u \in Players, NEW r \in RowsOf(history, g, u)', NEW s \in RowsOf(history, g, u)'
        PROVE  r = s
    <3>1. r \in history' /\ r.game = g /\ r.user = u /\ s \in history' /\ s.game = g /\ s.user = u
      BY DEF RowsOf
    <3>2. PICK a \in RowsOf(history, g, u) :
            r = [game |-> g, key |-> a.key, user |-> u,
                 change |-> IF u \in t.addsStats THEN a.change + Bonus ELSE a.change]
      BY <1>12, <3>1
    <3>3. PICK b \in RowsOf(history, g, u) :
            s = [game |-> g, key |-> b.key, user |-> u,
                 change |-> IF u \in t.addsStats THEN b.change + Bonus ELSE b.change]
      BY <1>12, <3>1
    <3>4. a = b
      BY DEF RowsInv, Single
    <3>. QED  BY <3>2, <3>3, <3>4
  <2>2. \A u \in Players : status'[g] # "FINISHED" => RowsOf(history, g, u)' = {}
    BY <1>2, <1>12 DEF RowsInv, Single, RowsOf
  <2>3. ASSUME NEW u \in Players, NEW r \in RowsOf(stats, g, u)', NEW s \in RowsOf(stats, g, u)'
        PROVE  r = s
    <3>1. CASE u \in t.addsStats
      <4>1. RowsOf(stats, g, u) = {}
        BY <1>5, <3>1
      <4>. QED  BY <1>8, <4>1 DEF RowsOf
    <3>2. CASE u \notin t.addsStats
      <4>1. r \in RowsOf(stats, g, u) /\ s \in RowsOf(stats, g, u)
        BY <1>8, <3>2 DEF RowsOf
      <4>. QED  BY <4>1 DEF RowsInv, Single
    <3>. QED  BY <3>1, <3>2
  <2>. QED  BY <1>9, <2>1, <2>2, <2>3, OtherGames DEF RowsInv, Single
<1>14. ASSUME BonusTold
       PROVE  Bonuses'
  <2>1. ASSUME NEW r \in history', r.game = g
        PROVE  /\ r.change \in Points \cup Rewarded
               /\ r.change \in Rewarded <=> RowsOf(stats, g, r.user)' # {}
    <3>1. PICK s \in RowsOf(history, g, r.user) :
            r = [game |-> g, key |-> s.key, user |-> r.user,
                 change |-> IF r.user \in t.addsStats THEN s.change + Bonus ELSE s.change]
      BY <1>12, <2>1
    <3>2. s \in history /\ s.game = g /\ s.user = r.user
      BY DEF RowsOf
    <3>3. CASE r.user \in t.addsStats
      <4>1. r.change \in Rewarded
        BY <1>10, <1>14, <3>1, <3>2, <3>3
      <4>2. [game |-> g, key |-> key, user |-> r.user] \in RowsOf(stats, g, r.user)'
        BY <1>8, <3>3 DEF RowsOf
      <4>. QED  BY <4>1, <4>2
    <3>4. CASE r.user \notin t.addsStats
      <4>1. RowsOf(stats, g, r.user)' = RowsOf(stats, g, r.user)
        BY <1>8, <3>4 DEF RowsOf
      <4>2. r.change = s.change
        BY <3>1, <3>4
      <4>3. /\ s.change \in Points \cup Rewarded
            /\ s.change \in Rewarded <=> RowsOf(stats, s.game, s.user) # {}
        BY <1>14, <3>2 DEF RowsInv, Bonuses, BonusRecorded, Rewarded
      <4>. QED  BY <3>2, <4>1, <4>2, <4>3
    <3>. QED  BY <3>3, <3>4
  <2>. QED  BY <1>9, <1>14, <2>1, OtherGames DEF RowsInv, Bonuses, BonusRecorded, Rewarded
<1>. QED  BY <1>1, <1>4, <1>9, <1>11, <1>13, <1>14 DEF BonusTold

(***************************************************************************)
(* Every step preserves the invariant.                                     *)
(***************************************************************************)

\* What happens to one game leaves the transactions about the others alone.
LEMMA StillInFlight ==
  ASSUME RowTypes, NEW g \in Games, OtherRowsKept(g), roster' = roster,
         NEW t, InFlight(t), t # Idle => t.game # g
  PROVE  InFlight(t)'
<1>1. CASE t = Idle
  BY <1>1 DEF InFlight, Idle
<1>2. CASE t.at \in {"finish", "mvp"} /\ Loaded(t)
  BY <1>2 DEF InFlight, Loaded, OtherRowsKept, Idle
<1>3. CASE t.at = "commit" /\ Computed(t)
  <2>1. t.game \in Games \ {g}
    BY <1>3 DEF Computed, Idle
  <2>2. PICK h \in Games \ {g} : h = t.game
    BY <2>1
  <2>3. /\ OfGame(history, h)' = OfGame(history, h)
        /\ OfGame(stats, h)' = OfGame(stats, h)
    BY DEF OtherRowsKept
  <2>4. \A u : RowsOf(stats, h, u)' = RowsOf(stats, h, u)
    BY <2>3 DEF OfGame, RowsOf
  <2>. QED  BY <1>3, <2>2, <2>3, <2>4 DEF InFlight, Computed, Refinishing, Electing, Rewarded
<1>. QED  BY <1>1, <1>2, <1>3 DEF InFlight

\* A step that commits nothing.
LEMMA UncommittedStep ==
  ASSUME RowsInv, UNCHANGED <<tables, roster>>, NEW p \in Procs, NEW t, Become(p, t),
         InFlight(t)
  PROVE  RowsInv'
<1>1. UNCHANGED <<status, roster, history, stats>>
  BY DEF tables
<1>2. RowTypes' /\ Single' /\ (BonusTold => Bonuses)'
  BY <1>1 DEF RowsInv, RowTypes, HistoryRow, StatsRow, Rewarded, Single, RowsOf, Bonuses,
         BonusRecorded, BonusTold
<1>3. \A x : InFlight(x) <=> InFlight(x)'
  BY <1>1 DEF InFlight, Loaded, Computed, Refinishing, Electing, OfGame, RowsOf, Rewarded, Idle
<1>4. \A q \in Procs : txn'[q] = IF q = p THEN t ELSE txn[q]
  BY DEF RowsInv, Become
<1>5. txn' = [q \in Procs |-> txn'[q]]
  BY DEF RowsInv, Become
<1>. QED  BY <1>2, <1>3, <1>4, <1>5 DEF RowsInv

LEMMA LoadedFinish ==
  ASSUME RowsInv, NEW p \in Procs, FinishLoad(p)
  PROVE  RowsInv'
<1>1. PICK t : t = txn[p]
  OBVIOUS
<1>2. t.at = "finish" /\ Loaded(t)
  BY <1>1 DEF RowsInv, InFlight, FinishLoad, Idle
<1>3. PICK g \in Games : g = t.game /\ t.was = status[g]
  BY <1>2 DEF Loaded
<1>4. Mvps(t) \subseteq Players
  BY <1>2 DEF Mvps, Loaded, RowsInv, RowTypes, StatsRow
<1>5. PICK new, points :
        /\ points \in [roster[g] -> Points]
        /\ Become(p, new)
        /\ new.at = "commit" /\ new.game = g /\ new.finishes = TRUE
        /\ new.drops = IF t.was = "FINISHED" THEN RevertedRows(g) ELSE {}
        /\ new.mends = {}
        /\ new.adds = [u \in roster[g] |->
                         points[u] + (IF u \in Mvps(t) THEN Bonus ELSE 0)]
        /\ new.dropsStats = {r \in stats : r.game = g}
        /\ new.addsStats = Mvps(t)
  <2>1. PICK points, us, ps, cs :
          /\ points \in [roster[t.game] -> Points]
          /\ Become(p, [at |-> "commit", game |-> t.game, finishes |-> TRUE,
                        users |-> us, profiles |-> ps, creates |-> cs,
                        drops |-> IF t.was = "FINISHED" THEN RevertedRows(t.game) ELSE {},
                        mends |-> {},
                        adds |-> [u \in roster[t.game] |->
                                    points[u] + (IF u \in Mvps(t) THEN Bonus ELSE 0)],
                        dropsStats |-> {r \in stats : r.game = t.game}, addsStats |-> Mvps(t)])
    BY ZenonT(20), <1>1 DEF FinishLoad
  <2>2. PICK new :
          new = [at |-> "commit", game |-> t.game, finishes |-> TRUE,
                 users |-> us, profiles |-> ps, creates |-> cs,
                 drops |-> IF t.was = "FINISHED" THEN RevertedRows(t.game) ELSE {},
                 mends |-> {},
                 adds |-> [u \in roster[t.game] |->
                             points[u] + (IF u \in Mvps(t) THEN Bonus ELSE 0)],
                 dropsStats |-> {r \in stats : r.game = t.game}, addsStats |-> Mvps(t)]
    OBVIOUS
  <2>3. points \in [roster[g] -> Points] /\ Become(p, new)
    BY <1>3, <2>1, <2>2
  <2>4. /\ new.at = "commit" /\ new.game = g /\ new.finishes = TRUE
        /\ new.drops = IF t.was = "FINISHED" THEN RevertedRows(g) ELSE {}
        /\ new.mends = {}
        /\ new.dropsStats = {r \in stats : r.game = g}
        /\ new.addsStats = Mvps(t)
    BY <1>3, <2>2
  <2>5. new.adds = [u \in roster[g] |-> points[u] + (IF u \in Mvps(t) THEN Bonus ELSE 0)]
    BY <1>3, <2>2
  <2>. QED  BY <2>3, <2>4, <2>5
<1>6. new.drops = OfGame(history, g)
  <2>1. CASE status[g] = "FINISHED"
    BY <1>3, <1>5, <2>1 DEF RevertedRows, OfGame
  <2>2. CASE status[g] # "FINISHED"
    <3>1. \A r \in history : r.game = g => r \in RowsOf(history, g, r.user) /\ r.user \in Players
      BY DEF RowsInv, RowTypes, HistoryRow, RowsOf
    <3>2. OfGame(history, g) = {}
      BY <2>2, <3>1 DEF OfGame, RowsInv, Single
    <3>. QED  BY <1>3, <1>5, <2>2, <3>2
  <2>. QED  BY <2>1, <2>2
<1>7. ASSUME NEW u \in roster[g]
      PROVE  new.adds[u] \in IF u \in Mvps(t) THEN Rewarded ELSE Points
  <2>1. points[u] \in Points /\ points[u] \in Int
    BY <1>5, <1>7, RatingParameters
  <2>. QED  BY <1>5, <1>7, <2>1, RatingParameters DEF Rewarded
<1>8. Refinishing(new)
  BY <1>5, <1>6, <1>7 DEF Refinishing, OfGame
<1>9. InFlight(new)
  BY <1>3, <1>4, <1>5, <1>8 DEF InFlight, Computed
<1>. QED  BY <1>5, <1>9, UncommittedStep DEF FinishLoad

LEMMA LoadedElection ==
  ASSUME RowsInv, NEW p \in Procs, MvpLoad(p)
  PROVE  RowsInv'
<1>1. PICK t : t = txn[p]
  OBVIOUS
<1>2. t.at = "mvp" /\ Loaded(t)
  <2>1. t.at = "mvp"
    BY <1>1 DEF MvpLoad
  <2>. QED  BY <1>1, <2>1 DEF RowsInv, InFlight, Idle
<1>3. PICK g \in Games : g = t.game /\ t.was = status[g]
  BY <1>2 DEF Loaded
<1>4. PICK new :
        /\ Become(p, new)
        /\ new.at = "commit" /\ new.game = g /\ new.finishes = FALSE
        /\ new.drops = {} /\ new.mends = Mended(t)
        /\ new.adds = [u \in {} |-> 0]
        /\ new.dropsStats = {} /\ new.addsStats = Unelected(t)
  <2>1. PICK us, ps :
          Become(p, [at |-> "commit", game |-> t.game, finishes |-> FALSE,
                     users |-> us, profiles |-> ps, creates |-> {},
                     drops |-> {}, mends |-> Mended(t), adds |-> [u \in {} |-> 0],
                     dropsStats |-> {}, addsStats |-> Unelected(t)])
    BY <1>1, Zenon DEF MvpLoad
  <2>. QED  BY <1>3, <2>1
<1>5. Unelected(t) \subseteq Players
  BY <1>2 DEF Loaded, Unelected
<1>6. Mended(t) = {r \in OfGame(history, g) : r.user \in Unelected(t)}
  <2>1. CASE status[g] = "FINISHED"
    BY <1>3, <2>1 DEF Mended, Awarded, OfGame, RowsOf
  <2>2. CASE status[g] # "FINISHED"
    <3>1. \A r \in history : r.game = g => r \in RowsOf(history, g, r.user) /\ r.user \in Players
      BY DEF RowsInv, RowTypes, HistoryRow, RowsOf
    <3>2. OfGame(history, g) = {}
      BY <2>2, <3>1 DEF OfGame, RowsInv, Single
    <3>. QED  BY <1>3, <2>2, <3>2 DEF Mended, Awarded
  <2>. QED  BY <2>1, <2>2
<1>7. Electing(new)
  BY <1>3, <1>4, <1>6 DEF Electing, Unelected
<1>8. InFlight(new)
  BY <1>3, <1>4, <1>5, <1>7 DEF InFlight, Computed
<1>. QED  BY <1>4, <1>8, UncommittedStep DEF MvpLoad

LEMMA Committed ==
  ASSUME RowsInv, Apart, NEW p \in Procs, Commit(p)
  PROVE  RowsInv'
<1>1. PICK g \in Games : /\ RowTypes' /\ Single' /\ (BonusTold => Bonuses)'
                         /\ g = txn[p].game /\ OtherRowsKept(g)
  BY FinishCommit, ElectionCommit
<1>2. txn[p] # Idle /\ Become(p, Idle) /\ roster' = roster
  BY DEF Commit, Idle
<1>3. ASSUME NEW q \in Procs
      PROVE  InFlight(txn[q])'
  <2>1. CASE q = p
    <3>1. txn'[q] = Idle
      BY <1>2, <2>1 DEF RowsInv, Become
    <3>. QED  BY <3>1 DEF InFlight, Idle
  <2>2. CASE q # p
    <3>1. PICK t : t = txn[q] /\ t = txn'[q]
      BY <1>2, <2>2 DEF RowsInv, Become
    <3>2. InFlight(t) /\ (t # Idle => t.game # g)
      BY <1>1, <1>2, <2>2, <3>1 DEF RowsInv, Apart
    <3>3. InFlight(t)'
      BY <1>1, <1>2, <3>2, StillInFlight DEF RowsInv
    <3>. QED  BY <3>1, <3>3
  <2>. QED  BY <2>1, <2>2
<1>4. txn' = [q \in Procs |-> txn'[q]]
  BY <1>2 DEF RowsInv, Become
<1>. QED  BY <1>1, <1>3, <1>4 DEF RowsInv

LEMMA RowsNext ==
  ASSUME RowsInv, Apart, [Next]_vars
  PROVE  RowsInv'
<1>1. ASSUME NEW p \in Procs, NEW g \in Games, NEW named \in SUBSET Electable(g),
             FinishBegin(p, g, named)
      PROVE  RowsInv'
  <2>1. named \subseteq Players
    BY DEF Electable, RowsInv, RowTypes
  <2>2. InFlight([at |-> "finish", game |-> g, was |-> status[g], named |-> named])
    BY <2>1 DEF InFlight, Loaded
  <2>. QED  BY <1>1, <2>2, UncommittedStep DEF FinishBegin
<1>2. ASSUME NEW p \in Procs, NEW g \in Games, NEW winners \in SUBSET Electable(g),
             MvpBegin(p, g, winners)
      PROVE  RowsInv'
  <2>1. winners \subseteq Players
    BY DEF Electable, RowsInv, RowTypes
  <2>2. InFlight([at |-> "mvp", game |-> g, was |-> status[g], winners |-> winners])
    BY <2>1 DEF InFlight, Loaded
  <2>. QED  BY <1>2, <2>2, UncommittedStep DEF MvpBegin
<1>3. ASSUME NEW p \in Procs, Abort(p)
      PROVE  RowsInv'
  BY <1>3, UncommittedStep DEF Abort, InFlight
<1>4. CASE UNCHANGED vars
  <2>1. UNCHANGED <<status, roster, history, stats, txn>>
    BY <1>4 DEF vars
  <2>2. RowTypes' /\ Single' /\ (BonusTold => Bonuses)'
    BY <2>1 DEF RowsInv, RowTypes, HistoryRow, StatsRow, Rewarded, Single, RowsOf, Bonuses,
         BonusRecorded, BonusTold
  <2>3. \A x : InFlight(x) <=> InFlight(x)'
    BY <2>1 DEF InFlight, Loaded, Computed, Refinishing, Electing, OfGame, RowsOf, Rewarded, Idle
  <2>. QED  BY <2>1, <2>2, <2>3 DEF RowsInv
<1>. QED  BY <1>1, <1>2, <1>3, <1>4, LoadedFinish, LoadedElection, Committed DEF Next, Step

LEMMA RowsInit == Init => RowsInv
  BY DEF Init, RowsInv, RowTypes, Single, RowsOf, Bonuses, BonusRecorded, InFlight

\* At most one row is a set of at most one.
LEMMA OneIsCounted ==
  ASSUME NEW S, \A r, s \in S : r = s
  PROVE  IsFiniteSet(S) /\ Cardinality(S) \in Nat /\ Cardinality(S) <= 1
         /\ (S = {} => Cardinality(S) = 0)
<1>1. CASE S = {}
  BY <1>1, FS_EmptySet
<1>2. CASE S # {}
  <2>1. PICK r : S = {r}
    BY <1>2
  <2>2. IsFiniteSet({r}) /\ Cardinality({r}) = 1
    BY FS_Singleton
  <2>. QED  BY <1>2, <2>1, <2>2
<1>. QED  BY <1>1, <1>2

\* SingleRows: finish_game and calculate_mvp may be at work on any number of
\* games at once, and be repeated in any order, as long as no two of them are
\* at work on one game: it has one history row and one award row of a player
\* at most, so scalar_one_or_none never raises.
THEOREM RowsOfOneGame == Spec /\ []Apart => []SingleRows
<1>1. Init => RowsInv
  BY RowsInit
<1>2. RowsInv /\ Apart /\ [Next]_vars => RowsInv'
  BY RowsNext
<1>3. RowsInv => SingleRows
  BY OneIsCounted DEF RowsInv, Single, SingleRows
<1>. QED  BY <1>1, <1>2, <1>3, PTL DEF Spec

\* BonusRecorded: and the recorded change contains the bonus if and only if
\* the statistics name the player, whoever elected him and when.
THEOREM BonusOfOneGame ==
  ASSUME BonusTold
  PROVE  Spec /\ []Apart => []BonusRecorded
<1>1. Init => RowsInv
  BY RowsInit
<1>2. RowsInv /\ Apart /\ [Next]_vars => RowsInv'
  BY RowsNext
<1>3. RowsInv => BonusRecorded
  BY DEF RowsInv, Bonuses
<1>. QED  BY <1>1, <1>2, <1>3, PTL DEF Spec

(***************************************************************************)
(* The sum of the changes in a set of rows: MapThenSumSet computes it with *)
(* a recursive function that takes the rows in an order of its own.  Rows  *)
(* may be added and taken away in any other order.                         *)
(***************************************************************************)
SumOf(S) == MapThenSumSet(LAMBDA r : r.change, S)

Pick(S) == CHOOSE x \in S : TRUE
Adds(f, S) ==
  f = [s \in SUBSET S |-> IF s = {} THEN 0 ELSE Pick(s).change + f[s \ {Pick(s)}]]

\* Induction over the subsets of a finite set, as the least counterexample.
LEMMA LeastSet ==
  ASSUME NEW U, IsFiniteSet(U), NEW B \in SUBSET (SUBSET U), B # {}
  PROVE  \E S \in B : \A T \in B : ~ (T \subseteq S /\ T # S)
<1>1. IsWellFoundedOn(StrictSubsetOrdering(U), SUBSET U)
  BY FS_StrictSubsetOrderingWellFounded, FS_FiniteSubsetsOfFinite
<1>2. PICK S \in B : \A T \in B : <<T, S>> \notin StrictSubsetOrdering(U)
  BY <1>1, WFMin
<1>3. \A T \in B : T \subseteq S /\ T # S => <<T, S>> \in StrictSubsetOrdering(U)
  BY DEF StrictSubsetOrdering
<1>4. \A T \in B : ~ (T \subseteq S /\ T # S)
  BY <1>2, <1>3
<1>. QED  BY <1>4

LEMMA PickIn ==
  ASSUME NEW S, S # {}
  PROVE  Pick(S) \in S /\ S \ {Pick(S)} \subseteq S /\ S \ {Pick(S)} # S
<1>1. Pick(S) \in S
  BY DEF Pick
<1>. QED  BY <1>1

LEMMA AddsValue ==
  ASSUME NEW S, NEW f, Adds(f, S)
  PROVE  /\ f[{}] = 0
         /\ \A s \in SUBSET S : s # {} => f[s] = Pick(s).change + f[s \ {Pick(s)}]
  BY DEF Adds

\* There is at most one such function, whatever larger set it is part of.
LEMMA AddsOnce ==
  ASSUME NEW S, IsFiniteSet(S), NEW f, Adds(f, S),
         NEW T, S \subseteq T, NEW g, Adds(g, T)
  PROVE  \A s \in SUBSET S : f[s] = g[s]
<1>. SUFFICES ASSUME NEW r \in SUBSET S, f[r] # g[r]
              PROVE  FALSE
  OBVIOUS
<1>1. PICK B : B = {s \in SUBSET S : f[s] # g[s]} /\ B # {}
  BY ZenonT(20)
<1>2. PICK s \in B : \A o \in B : ~ (o \subseteq s /\ o # s)
  BY <1>1, LeastSet
<1>3. s \in SUBSET S /\ s \in SUBSET T /\ f[s] # g[s]
  BY <1>1
<1>4. s # {}
  BY <1>3, AddsValue
<1>5. f[s \ {Pick(s)}] = g[s \ {Pick(s)}]
  BY <1>1, <1>2, <1>3, <1>4, PickIn
<1>. QED  BY <1>3, <1>4, <1>5, AddsValue

LEMMA AddsExists ==
  ASSUME NEW U, IsFiniteSet(U)
  PROVE  \A S \in SUBSET U : \E f : Adds(f, S)
<1>1. SUFFICES ASSUME NEW B, B = {S \in SUBSET U : ~ \E f : Adds(f, S)}, B # {}
               PROVE  FALSE
  OBVIOUS
<1>2. B \in SUBSET (SUBSET U) /\ B # {}
  BY <1>1
<1>3. PICK S \in B : \A T \in B : ~ (T \subseteq S /\ T # S)
  BY <1>2, LeastSet
<1>4. S \in SUBSET U /\ ~ \E f : Adds(f, S)
  BY <1>1
<1>. DEFINE F(T) == CHOOSE f : Adds(f, T)
            Rest(s) == s \ {Pick(s)}
            f == [s \in SUBSET S |-> IF s = {} THEN 0 ELSE Pick(s).change + F(Rest(s))[Rest(s)]]
<1>5. ASSUME NEW T \in SUBSET S, T # S
      PROVE  Adds(F(T), T)
  BY <1>1, <1>2, <1>3, <1>4, <1>5
<1>6. ASSUME NEW T \in SUBSET S, T # S
      PROVE  F(T)[T] = f[T]
  <2>1. Adds(F(T), T) /\ T \in SUBSET T
    BY <1>5, <1>6
  <2>2. CASE T = {}
    BY <2>1, <2>2, AddsValue
  <2>3. CASE T # {}
    <3>1. F(T)[T] = Pick(T).change + F(T)[Rest(T)]
      BY <2>1, <2>3, AddsValue
    <3>2. Rest(T) \in SUBSET S /\ Rest(T) # S /\ Rest(T) \subseteq T
      BY <2>3, <1>6, PickIn
    <3>3. IsFiniteSet(Rest(T))
      BY <1>4, <3>2, FS_Subset
    <3>4. Adds(F(Rest(T)), Rest(T))
      BY <1>5, <3>2
    <3>5. F(Rest(T))[Rest(T)] = F(T)[Rest(T)]
      BY <2>1, <3>2, <3>3, <3>4, AddsOnce
    <3>6. f[T] = Pick(T).change + F(Rest(T))[Rest(T)]
      BY <2>3
    <3>. QED  BY <3>1, <3>5, <3>6
  <2>. QED  BY <2>2, <2>3
<1>7. ASSUME NEW s \in SUBSET S, s # {}
      PROVE  F(Rest(s))[Rest(s)] = f[Rest(s)]
  <2>1. Rest(s) \in SUBSET S /\ Rest(s) # S
    BY <1>7, PickIn
  <2>. QED  BY <1>6, <2>1
<1>8. \A s \in SUBSET S :
        f[s] = IF s = {} THEN 0 ELSE Pick(s).change + f[s \ {Pick(s)}]
  <2>1. ASSUME NEW s \in SUBSET S, s # {}
        PROVE  f[s] = Pick(s).change + F(Rest(s))[Rest(s)]
    BY <2>1
  <2>2. {} \in SUBSET S /\ f[{}] = 0
    OBVIOUS
  <2>. HIDE DEF f, F
  <2>. QED  BY <1>7, <2>1, <2>2
<1>9. f = [s \in SUBSET S |-> f[s]]
  OBVIOUS
<1>. HIDE DEF f, F
<1>10. f = [s \in SUBSET S |-> IF s = {} THEN 0 ELSE Pick(s).change + f[s \ {Pick(s)}]]
  BY <1>8, <1>9, Zenon
<1>11. Adds(f, S)
  BY <1>10 DEF Adds
<1>. QED  BY <1>4, <1>11

LEMMA SumStep ==
  ASSUME NEW S, IsFiniteSet(S)
  PROVE  /\ SumOf({}) = 0
         /\ S # {} => SumOf(S) = Pick(S).change + SumOf(S \ {Pick(S)})
<1>. DEFINE F(T) == CHOOSE f : Adds(f, T)
<1>1. \A T : SumOf(T) = F(T)[T]
  BY Zenon DEF SumOf, MapThenSumSet, MapThenFoldSet, Adds, Pick
<1>2. \A T \in SUBSET S : Adds(F(T), T)
  BY AddsExists
<1>3. F({})[{}] = 0
  BY <1>2, AddsValue
<1>4. ASSUME S # {}
      PROVE  F(S)[S] = Pick(S).change + F(S \ {Pick(S)})[S \ {Pick(S)}]
  <2>1. PICK T : T = S \ {Pick(S)} /\ T \subseteq S /\ IsFiniteSet(T)
    BY FS_Subset
  <2>2. F(T)[T] = F(S)[T]
    BY <1>2, <2>1, AddsOnce
  <2>3. F(S)[S] = Pick(S).change + F(S)[S \ {Pick(S)}]
    BY <1>2, <1>4, AddsValue
  <2>. QED  BY <2>1, <2>2, <2>3
<1>. QED  BY <1>1, <1>3, <1>4

LEMMA SumNone == SumOf({}) = 0
<1>1. IsFiniteSet({})
  BY FS_EmptySet
<1>. QED  BY <1>1, SumStep, Zenon

LEMMA SumInt ==
  ASSUME NEW U, IsFiniteSet(U), \A r \in U : r.change \in Int
  PROVE  \A S \in SUBSET U : SumOf(S) \in Int
<1>1. SUFFICES ASSUME NEW B, B = {S \in SUBSET U : SumOf(S) \notin Int}, B # {}
               PROVE  FALSE
  OBVIOUS
<1>2. B \in SUBSET (SUBSET U) /\ B # {}
  BY <1>1
<1>3. PICK S \in B : \A T \in B : ~ (T \subseteq S /\ T # S)
  BY <1>2, LeastSet
<1>4. S \in SUBSET U /\ SumOf(S) \notin Int /\ IsFiniteSet(S)
  BY <1>1, FS_Subset
<1>5. S # {}
  <2>1. SumOf({}) \in Int
    BY SumNone
  <2>. QED  BY <1>4, <2>1
<1>6. PICK x, T : x = Pick(S) /\ T = S \ {Pick(S)} /\ x \in S /\ T \subseteq S /\ T # S
  BY <1>5, PickIn
<1>7. SumOf(T) \in Int
  BY <1>1, <1>3, <1>4, <1>6
<1>8. SumOf(S) = x.change + SumOf(T)
  BY <1>4, <1>5, <1>6, SumStep
<1>. QED  BY <1>4, <1>6, <1>7, <1>8

AnyOrder(S) == \A x \in S : SumOf(S) = SumOf(S \ {x}) + x.change

LEMMA SumAnyOrder ==
  ASSUME NEW U, IsFiniteSet(U), \A r \in U : r.change \in Int
  PROVE  \A S \in SUBSET U : AnyOrder(S)
<1>1. SUFFICES ASSUME NEW B, B = {S \in SUBSET U : ~ AnyOrder(S)}, B # {}
               PROVE  FALSE
  OBVIOUS
<1>2. B \in SUBSET (SUBSET U) /\ B # {}
  BY <1>1
<1>3. PICK S \in B : \A T \in B : ~ (T \subseteq S /\ T # S)
  BY <1>2, LeastSet
<1>4. S \in SUBSET U /\ IsFiniteSet(S)
  BY <1>1, FS_Subset
<1>5. PICK x \in S : SumOf(S) # SumOf(S \ {x}) + x.change
  BY <1>1 DEF AnyOrder
<1>6. PICK y \in S : y = Pick(S) /\ SumOf(S) = y.change + SumOf(S \ {y})
  BY <1>4, <1>5, SumStep, PickIn
<1>7. ASSUME NEW T \in SUBSET S, T # S, NEW z \in T
      PROVE  SumOf(T) = SumOf(T \ {z}) + z.change
  BY <1>1, <1>3, <1>4, <1>7 DEF AnyOrder
<1>8. \A T \in SUBSET S : SumOf(T) \in Int
  BY <1>4, SumInt
<1>9. x.change \in Int /\ y.change \in Int
  BY <1>4
<1>10. CASE x = y
  BY <1>5, <1>6, <1>8, <1>9, <1>10
<1>11. CASE x # y
  <2>1. SumOf(S \ {y}) = SumOf((S \ {y}) \ {x}) + x.change
    BY <1>7, <1>11
  <2>2. SumOf(S \ {x}) = SumOf((S \ {x}) \ {y}) + y.change
    BY <1>7, <1>11
  <2>3. (S \ {y}) \ {x} = (S \ {x}) \ {y}
    OBVIOUS
  <2>4. PICK w \in Int : w = SumOf((S \ {x}) \ {y})
    BY <1>8
  <2>5. SumOf(S) = y.change + (w + x.change)
    BY <1>6, <2>1, <2>3, <2>4
  <2>6. SumOf(S \ {x}) = w + y.change
    BY <2>2, <2>4
  <2>. QED  BY <1>5, <1>9, <2>5, <2>6
<1>. QED  BY <1>10, <1>11

\* A row more, a row less.
LEMMA SumPlus ==
  ASSUME NEW S, IsFiniteSet(S), \A r \in S : r.change \in Int,
         NEW x, x \notin S, x.change \in Int
  PROVE  SumOf(S \cup {x}) = SumOf(S) + x.change /\ SumOf(S) \in Int
<1>1. PICK T : T = S \cup {x}
  OBVIOUS
<1>2. IsFiniteSet(T) /\ x \in T /\ T \in SUBSET T /\ S \in SUBSET T /\ T \ {x} = S
  BY <1>1, FS_AddElement
<1>3. \A r \in T : r.change \in Int
  BY <1>1
<1>4. SumOf(T) = SumOf(T \ {x}) + x.change
  BY <1>2, <1>3, SumAnyOrder DEF AnyOrder
<1>5. SumOf(S) \in Int
  BY <1>2, <1>3, SumInt
<1>. QED  BY <1>1, <1>2, <1>4, <1>5

(***************************************************************************)
(* The ledgers.  They need more: a transaction reads the ratings and the   *)
(* counters of its players and writes them back later, so meanwhile no     *)
(* other may be in flight that is about one of these players, whatever     *)
(* game it is about.                                                       *)
(***************************************************************************)
Separate ==
  /\ Apart
  /\ \A p, q \in Procs :
       p # q /\ txn[p] # Idle /\ txn[q] # Idle
         => roster[txn[p].game] \cap roster[txn[q].game] = {}

Account == [rating : Int, matches : Nat, mvps : Nat]

\* The rows of the elections that count, and the rows of other games than g.
Elected(u)             == {r \in stats : r.user = u /\ status[r.game] = "FINISHED"}
Elsewhere(g, u)        == {r \in Recorded(u) : r.game # g}
ElectedElsewhere(g, u) == {r \in Elected(u) : r.game # g}

\* Who has a row was an active signup of the game, and every active signup of
\* a finished game has its row of the history and a profile.
Complete ==
  /\ IsFiniteSet(history) /\ IsFiniteSet(stats)
  /\ \A r \in history \cup stats : r.user \in roster[r.game]
  /\ \A g \in Games : status[g] = "FINISHED" =>
       /\ roster[g] \subseteq profiled
       /\ \A u \in roster[g] : RowsOf(history, g, u) # {}
  /\ users \in [Players -> Account] /\ profiles \in [Players -> Account]

\* The players whose accounts a transaction is going to write.
Affected(t) ==
  IF t.finishes THEN roster[t.game]
  ELSE IF status[t.game] = "FINISHED" THEN t.addsStats ELSE {}

AmongSignups(t) ==
  /\ t.at = "finish" => t.named \subseteq roster[t.game]
  /\ t.at = "mvp" => t.winners \subseteq roster[t.game]
  /\ t.at = "commit" =>
       /\ t.addsStats \subseteq roster[t.game]
       /\ t.creates = IF t.finishes THEN roster[t.game] \ profiled ELSE {}
       /\ t.users \in [Affected(t) -> Account]
       /\ t.profiles \in [Affected(t) -> Account]

LedgerInv ==
  /\ RowsInv
  /\ Complete
  /\ \A p \in Procs : AmongSignups(txn[p])

\* The counters of an account agree with the rows, and will do so when what a
\* transaction has computed is committed with the rows it adds.
Counts(account, u) ==
  /\ account.matches = Cardinality(Recorded(u))
  /\ account.mvps = Cardinality(Elected(u))
WillCount(account, t, u) ==
  /\ account.matches = Cardinality(Elsewhere(t.game, u)) + 1
  /\ account.mvps = Cardinality(ElectedElsewhere(t.game, u))
                      + (IF u \in t.addsStats THEN 1 ELSE 0)

\* What is going to be committed counts right.
Counting(t) ==
  t.at = "commit" => \A u \in Affected(t) : /\ WillCount(t.users[u], t, u)
                                            /\ WillCount(t.profiles[u], t, u)

CounterInv ==
  /\ \A u \in Players : Counts(users[u], u) /\ Counts(profiles[u], u)
  /\ \A p \in Procs : Counting(txn[p])

\* Likewise the ratings, of players that never come to stand at 0, neither
\* with all their changes nor without those of one game.
NeverAtZero ==
  \A u \in Players :
    /\ Start + SumOf(Recorded(u)) # 0
    /\ \A g \in Games : Start + SumOf(Elsewhere(g, u)) # 0

Rates(account, u) == account.rating = Start + SumOf(Recorded(u))
WillRate(account, t, u) ==
  account.rating = Start + (IF t.finishes THEN SumOf(Elsewhere(t.game, u)) + t.adds[u]
                                          ELSE SumOf(Recorded(u)) + Bonus)

Rating(t) ==
  t.at = "commit" => \A u \in Affected(t) : /\ WillRate(t.users[u], t, u)
                                            /\ WillRate(t.profiles[u], t, u)

RatingInv ==
  /\ \A u \in Players : Rates(users[u], u) /\ Rates(profiles[u], u)
  /\ \A p \in Procs : Rating(txn[p])

(***************************************************************************)
(* Taking a game back from an account: of a player there is at most one    *)
(* row to take back.                                                       *)
(***************************************************************************)
LEMMA SequenceOfNone == DOMAIN SetToSeq({}) = {}
<1>1. Cardinality({}) = 0 /\ 1..0 = {}
  BY FS_EmptySet
<1>2. [x \in {} |-> x] \in [1..Cardinality({}) -> {}] /\ IsInjective([x \in {} |-> x])
  BY <1>1 DEF IsInjective
<1>3. SetToSeq({}) \in [1..Cardinality({}) -> {}]
  BY <1>2 DEF SetToSeq
<1>. QED  BY <1>1, <1>3

LEMMA SequenceOfOne ==
  ASSUME NEW h
  PROVE  DOMAIN SetToSeq({h}) = {1} /\ SetToSeq({h})[1] = h
<1>1. Cardinality({h}) = 1 /\ 1..1 = {1}
  BY FS_Singleton
<1>2. [x \in {1} |-> h] \in [1..Cardinality({h}) -> {h}] /\ IsInjective([x \in {1} |-> h])
  BY <1>1 DEF IsInjective
<1>3. SetToSeq({h}) \in [1..Cardinality({h}) -> {h}]
  BY <1>2 DEF SetToSeq
<1>. QED  BY <1>1, <1>3

LEMMA LoseNone ==
  ASSUME NEW row
  PROVE  FoldLeft(Lose, row, SetToSeq({})) = row
<1>1. PICK seq : seq = SetToSeq({}) /\ DOMAIN seq = {}
  BY SequenceOfNone
<1>2. FoldLeft(Lose, row, seq) = row
  BY <1>1 DEF FoldLeft, MapThenFoldSet
<1>. QED  BY <1>1, <1>2

LEMMA LoseOne ==
  ASSUME NEW row, NEW h
  PROVE  FoldLeft(Lose, row, SetToSeq({h})) = Lose(row, h)
<1>1. PICK seq : seq = SetToSeq({h}) /\ DOMAIN seq = {1} /\ seq[1] = h
  BY SequenceOfOne
<1>. DEFINE Takes(it) == it = [s \in SUBSET {1} |->
                                 IF s = {} THEN row ELSE Lose(it[s \ {Max(s)}], seq[Max(s)])]
<1>2. FoldLeft(Lose, row, seq) = (CHOOSE it : Takes(it))[{1}]
  BY <1>1 DEF FoldLeft, MapThenFoldSet
<1>3. SUBSET {1} = {{}, {1}} /\ Max({1}) = 1 /\ {1} \ {1} = {}
  BY DEF Max
<1>4. Takes([s \in SUBSET {1} |-> IF s = {} THEN row ELSE Lose(row, h)])
  <2>1. \A s \in SUBSET {1} : s # {} => s = {1}
    BY <1>3
  <2>. QED  BY <1>1, <1>3, <2>1
<1>5. PICK it : it = (CHOOSE i : Takes(i)) /\ Takes(it)
  <2>. HIDE DEF Takes
  <2>1. Takes(CHOOSE i : Takes(i))
    BY <1>4
  <2>. QED  BY <2>1
<1>6. it[{1}] = Lose(it[{}], h) /\ it[{}] = row
  <2>1. it[{}] = row
    BY <1>5
  <2>2. it[{1}] = Lose(it[{1} \ {Max({1})}], seq[Max({1})])
    BY <1>5
  <2>. QED  BY <1>1, <1>3, <2>1, <2>2
<1>. QED  BY <1>1, <1>2, <1>5, <1>6

\* revert_stats takes back what the rows of the game gave, once.
LEMMA RevertEffect ==
  ASSUME RowsInv, NEW row \in Account, NEW g \in Games, NEW u \in Players
  PROVE  /\ Revert(row, g, u) \in Account
         /\ Revert(row, g, u).matches =
              IF RowsOf(history, g, u) = {} THEN row.matches ELSE Floor0(row.matches - 1)
         /\ Revert(row, g, u).mvps = Floor0(row.mvps - Cardinality(RowsOf(stats, g, u)))
         /\ RowsOf(history, g, u) = {} => Revert(row, g, u).rating = row.rating
         /\ \A h \in RowsOf(history, g, u) :
              Revert(row, g, u).rating = OrStart(row.rating) - h.change
<1>1. Cardinality(RowsOf(stats, g, u)) \in Nat
  BY OneIsCounted DEF RowsInv, Single
<1>2. \A n \in Int : Floor0(n) \in Nat
  BY DEF Floor0
<1>3. OrStart(row.rating) \in Int
  BY RatingParameters DEF OrStart, Account
<1>4. CASE RowsOf(history, g, u) = {}
  <2>1. FoldLeft(Lose, row, SetToSeq(RowsOf(history, g, u))) = row
    BY <1>4, LoseNone
  <2>2. Revert(row, g, u) = [row EXCEPT !.mvps = Floor0(@ - Cardinality(RowsOf(stats, g, u)))]
    BY <2>1 DEF Revert
  <2>. QED  BY <1>1, <1>2, <1>4, <2>2 DEF Account
<1>5. CASE RowsOf(history, g, u) # {}
  <2>1. PICK h : h \in RowsOf(history, g, u) /\ RowsOf(history, g, u) = {h}
    BY <1>5 DEF RowsInv, Single
  <2>2. h.change \in Int
    BY <2>1 DEF RowsInv, RowTypes, HistoryRow, RowsOf
  <2>3. FoldLeft(Lose, row, SetToSeq(RowsOf(history, g, u))) = Lose(row, h)
    BY <2>1, LoseOne
  <2>4. PICK lost : lost = Lose(row, h)
    OBVIOUS
  <2>5. /\ lost \in Account
        /\ lost.rating = OrStart(row.rating) - h.change
        /\ lost.matches = Floor0(row.matches - 1)
        /\ lost.mvps = row.mvps
    <3>1. PICK rating, matches, mvps :
            /\ rating \in Int /\ matches \in Nat /\ mvps \in Nat
            /\ row = [rating |-> rating, matches |-> matches, mvps |-> mvps]
      BY DEF Account
    <3>2. lost = [rating |-> OrStart(rating) - h.change, matches |-> Floor0(matches - 1),
                  mvps |-> mvps]
      BY <2>4, <3>1 DEF Lose
    <3>3. Floor0(matches - 1) \in Nat
      BY <1>2, <3>1
    <3>. QED  BY <1>3, <2>2, <3>1, <3>2, <3>3 DEF Account
  <2>6. Revert(row, g, u) = [lost EXCEPT !.mvps = Floor0(@ - Cardinality(RowsOf(stats, g, u)))]
    BY <2>3, <2>4 DEF Revert
  <2>7. \A x \in RowsOf(history, g, u) : x = h
    BY <2>1
  <2>. QED  BY <1>1, <1>2, <1>5, <2>5, <2>6, <2>7 DEF Account
<1>. QED  BY <1>4, <1>5

LEMMA GainEffect ==
  ASSUME NEW row \in Account, NEW change \in Int, NEW mvp \in BOOLEAN
  PROVE  /\ Gain(row, change, mvp) \in Account
         /\ Gain(row, change, mvp).rating = OrStart(row.rating) + change
         /\ Gain(row, change, mvp).matches = row.matches + 1
         /\ Gain(row, change, mvp).mvps = IF mvp THEN row.mvps + 1 ELSE row.mvps
<1>1. OrStart(row.rating) \in Int
  BY RatingParameters DEF OrStart, Account
<1>. QED  BY <1>1 DEF Gain, Account

\* The rows of a player, those of one game apart.
LEMMA Split ==
  ASSUME LedgerInv, NEW g \in Games, NEW u \in Players
  PROVE  /\ Recorded(u) = Elsewhere(g, u) \cup RowsOf(history, g, u)
         /\ Elsewhere(g, u) \cap RowsOf(history, g, u) = {}
         /\ status[g] = "FINISHED" => Elected(u) = ElectedElsewhere(g, u) \cup RowsOf(stats, g, u)
         /\ status[g] # "FINISHED" => Elected(u) = ElectedElsewhere(g, u)
         /\ ElectedElsewhere(g, u) \cap RowsOf(stats, g, u) = {}
         /\ IsFiniteSet(Elsewhere(g, u)) /\ IsFiniteSet(ElectedElsewhere(g, u))
         /\ Cardinality(Elsewhere(g, u)) \in Nat /\ Cardinality(ElectedElsewhere(g, u)) \in Nat
         /\ \A r \in Elsewhere(g, u) : r.change \in Int
<1>1. /\ Elsewhere(g, u) \subseteq history /\ ElectedElsewhere(g, u) \subseteq stats
      /\ IsFiniteSet(history) /\ IsFiniteSet(stats)
  BY DEF LedgerInv, Complete, Elsewhere, ElectedElsewhere, Recorded, Elected
<1>2. IsFiniteSet(Elsewhere(g, u)) /\ IsFiniteSet(ElectedElsewhere(g, u))
  BY <1>1, FS_Subset
<1>3. \A r \in Elsewhere(g, u) : r.change \in Int
  BY <1>1 DEF LedgerInv, RowsInv, RowTypes, HistoryRow
<1>4. /\ Recorded(u) = Elsewhere(g, u) \cup RowsOf(history, g, u)
      /\ Elsewhere(g, u) \cap RowsOf(history, g, u) = {}
  BY DEF Recorded, Elsewhere, RowsOf
<1>5. /\ status[g] = "FINISHED" => Elected(u) = ElectedElsewhere(g, u) \cup RowsOf(stats, g, u)
      /\ status[g] # "FINISHED" => Elected(u) = ElectedElsewhere(g, u)
      /\ ElectedElsewhere(g, u) \cap RowsOf(stats, g, u) = {}
  BY DEF Elected, ElectedElsewhere, RowsOf
<1>. QED  BY <1>2, <1>3, <1>4, <1>5, FS_CardinalityType

\* What they count and what they add up to, if there is a row of the game.
LEMMA CountSplit ==
  ASSUME LedgerInv, NEW g \in Games, NEW u \in Players, NEW h, RowsOf(history, g, u) = {h}
  PROVE  /\ Cardinality(Recorded(u)) = Cardinality(Elsewhere(g, u)) + 1
         /\ SumOf(Recorded(u)) = SumOf(Elsewhere(g, u)) + h.change
         /\ h.change \in Int /\ SumOf(Elsewhere(g, u)) \in Int
<1>1. h \notin Elsewhere(g, u) /\ Recorded(u) = Elsewhere(g, u) \cup {h}
  BY Split
<1>2. h.change \in Int
  <2>1. h \in history
    BY DEF RowsOf
  <2>. QED  BY <2>1 DEF LedgerInv, RowsInv, RowTypes, HistoryRow
<1>3. IsFiniteSet(Elsewhere(g, u)) /\ \A r \in Elsewhere(g, u) : r.change \in Int
  BY Split
<1>4. Cardinality(Elsewhere(g, u) \cup {h}) = Cardinality(Elsewhere(g, u)) + 1
  BY <1>1, <1>3, FS_AddElement
<1>5. /\ SumOf(Elsewhere(g, u) \cup {h}) = SumOf(Elsewhere(g, u)) + h.change
      /\ SumOf(Elsewhere(g, u)) \in Int
  BY <1>1, <1>2, <1>3, SumPlus
<1>. QED  BY <1>1, <1>2, <1>4, <1>5

LEMMA ElectedSplit ==
  ASSUME LedgerInv, NEW g \in Games, NEW u \in Players, status[g] = "FINISHED"
  PROVE  Cardinality(Elected(u)) = Cardinality(ElectedElsewhere(g, u))
                                     + (IF RowsOf(stats, g, u) = {} THEN 0 ELSE 1)
         /\ Cardinality(RowsOf(stats, g, u)) = IF RowsOf(stats, g, u) = {} THEN 0 ELSE 1
<1>1. CASE RowsOf(stats, g, u) = {}
  <2>1. /\ Elected(u) = ElectedElsewhere(g, u) \cup RowsOf(stats, g, u)
        /\ Cardinality(ElectedElsewhere(g, u)) \in Nat
    BY Split
  <2>2. Elected(u) = ElectedElsewhere(g, u)
    BY <1>1, <2>1
  <2>. QED  BY <1>1, <2>1, <2>2, FS_EmptySet
<1>2. CASE RowsOf(stats, g, u) # {}
  <2>1. PICK s : s \in RowsOf(stats, g, u) /\ RowsOf(stats, g, u) = {s}
    BY <1>2 DEF LedgerInv, RowsInv, Single
  <2>2. /\ Elected(u) = ElectedElsewhere(g, u) \cup {s} /\ s \notin ElectedElsewhere(g, u)
        /\ IsFiniteSet(ElectedElsewhere(g, u))
    BY <2>1, Split
  <2>3. Cardinality(ElectedElsewhere(g, u) \cup {s}) = Cardinality(ElectedElsewhere(g, u)) + 1
    BY <2>2, FS_AddElement
  <2>4. Cardinality({s}) = 1
    BY FS_Singleton
  <2>. QED  BY <1>2, <2>1, <2>2, <2>3, <2>4
<1>. QED  BY <1>1, <1>2

\* In a game that is not finished nobody has a row that counts.
LEMMA NothingYet ==
  ASSUME LedgerInv, NEW g \in Games, NEW u \in Players, status[g] # "FINISHED"
  PROVE  /\ RowsOf(history, g, u) = {}
         /\ Recorded(u) = Elsewhere(g, u) /\ Elected(u) = ElectedElsewhere(g, u)
<1>1. RowsOf(history, g, u) = {}
  BY DEF LedgerInv, RowsInv, Single
<1>. QED  BY <1>1, Split

\* The account of a player as finish_game has it before it gives the points of
\* the game: without what the game gave before.
Before(table, g, u) == IF status[g] = "FINISHED" THEN Revert(table[u], g, u) ELSE table[u]

LEMMA BeforeGame ==
  ASSUME LedgerInv, NEW g \in Games, NEW u \in roster[g],
         NEW table \in [Players -> Account], Counts(table[u], u)
  PROVE  /\ Before(table, g, u) \in Account
         /\ Before(table, g, u).matches = Cardinality(Elsewhere(g, u))
         /\ Before(table, g, u).mvps = Cardinality(ElectedElsewhere(g, u))
         /\ NeverAtZero /\ Rates(table[u], u)
              => Before(table, g, u).rating = Start + SumOf(Elsewhere(g, u))
<1>1. u \in Players /\ RowsInv /\ table[u] \in Account
  BY DEF LedgerInv, RowsInv, RowTypes
<1>2. Cardinality(Elsewhere(g, u)) \in Nat /\ Cardinality(ElectedElsewhere(g, u)) \in Nat
  BY <1>1, Split
<1>3. CASE status[g] # "FINISHED"
  <2>1. Recorded(u) = Elsewhere(g, u) /\ Elected(u) = ElectedElsewhere(g, u)
    BY <1>1, <1>3, NothingYet
  <2>2. Before(table, g, u) = table[u]
    BY <1>3 DEF Before
  <2>. QED  BY <1>1, <2>1, <2>2 DEF Counts, Rates
<1>4. CASE status[g] = "FINISHED"
  <2>0. RowsOf(history, g, u) # {} /\ \A r, s \in RowsOf(history, g, u) : r = s
    BY <1>1, <1>4 DEF LedgerInv, Complete, RowsInv, Single
  <2>1. PICK h : h \in RowsOf(history, g, u) /\ RowsOf(history, g, u) = {h}
    BY <2>0
  <2>2. Before(table, g, u) = Revert(table[u], g, u)
    BY <1>4 DEF Before
  <2>3. PICK row : row = Revert(table[u], g, u)
    OBVIOUS
  <2>4. /\ row \in Account /\ row.matches = Floor0(table[u].matches - 1)
        /\ row.mvps = Floor0(table[u].mvps - Cardinality(RowsOf(stats, g, u)))
        /\ row.rating = OrStart(table[u].rating) - h.change
    BY <1>1, <2>1, <2>3, RevertEffect
  <2>5. /\ table[u].matches = Cardinality(Elsewhere(g, u)) + 1
        /\ SumOf(Recorded(u)) = SumOf(Elsewhere(g, u)) + h.change
        /\ h.change \in Int /\ SumOf(Elsewhere(g, u)) \in Int
    BY <1>1, <2>1, CountSplit DEF Counts
  <2>6. table[u].mvps = Cardinality(ElectedElsewhere(g, u)) + Cardinality(RowsOf(stats, g, u))
    BY <1>1, <1>4, ElectedSplit DEF Counts
  <2>7. Cardinality(RowsOf(stats, g, u)) \in Nat
    BY <1>1, <1>4, ElectedSplit
  <2>8. row.matches = Cardinality(Elsewhere(g, u)) /\ row.mvps = Cardinality(ElectedElsewhere(g, u))
    BY <1>2, <2>4, <2>5, <2>6, <2>7 DEF Floor0
  <2>9. NeverAtZero /\ Rates(table[u], u) => row.rating = Start + SumOf(Elsewhere(g, u))
    BY <1>1, <2>4, <2>5, RatingParameters DEF NeverAtZero, Rates, OrStart
  <2>. QED  BY <2>2, <2>3, <2>4, <2>8, <2>9
<1>. QED  BY <1>3, <1>4

(***************************************************************************)
(* What finish_game and calculate_mvp are going to commit.                 *)
(***************************************************************************)
Award(row) == [row EXCEPT !.rating = OrStart(@) + Bonus, !.mvps = @ + 1]

LEMMA PointsInt == /\ \A x \in Points : x \in Int /\ x + Bonus \in Int
                   /\ Start \in Int \ {0} /\ Bonus \in Int
  BY RatingParameters

\* Every active signup of the game gains, and nobody else is affected.
Finishes(t, g) ==
  /\ t.at = "commit" /\ t.game = g /\ t.finishes
  /\ t.addsStats \subseteq roster[g]
  /\ t.creates = roster[g] \ profiled
  /\ \A u \in roster[g] : t.adds[u] \in Int
  /\ t.users = [u \in roster[g] |-> Gain(Before(users, g, u), t.adds[u], u \in t.addsStats)]
  /\ t.profiles = [u \in roster[g] |-> Gain(Before(profiles, g, u), t.adds[u], u \in t.addsStats)]

LEMMA FinishWrites ==
  ASSUME LedgerInv, NEW p \in Procs, FinishLoad(p)
  PROVE  \E new : \E g \in Games : Become(p, new) /\ Finishes(new, g)
<1>1. PICK t : t = txn[p] /\ t.at = "finish"
  BY DEF FinishLoad
<1>2. Loaded(t) /\ AmongSignups(t)
  BY <1>1 DEF LedgerInv, RowsInv, InFlight, Idle
<1>3. PICK g \in Games : g = t.game /\ t.was = status[g]
  BY <1>2 DEF Loaded
<1>4. \A r \in history \cup stats : r.game = g => r.user \in roster[g]
  BY DEF LedgerInv, Complete
<1>5. Mvps(t) \subseteq roster[g]
  BY <1>1, <1>2, <1>3, <1>4 DEF Mvps, AmongSignups
<1>. DEFINE G == txn[p].game
            redone == txn[p].was = "FINISHED"
            mvps == Mvps(txn[p])
            elected == {r \in stats : r.game = G}
            affected == roster[G] \cup (IF redone THEN {r.user : r \in elected \cup {h \in history : h.game = G}} ELSE {})
            change(points) == [u \in roster[G] |-> points[u] + (IF u \in mvps THEN Bonus ELSE 0)]
            before(table, u) == IF redone THEN Revert(table[u], G, u) ELSE table[u]
            after(points, table, u) ==
              IF u \in roster[G] THEN Gain(before(table, u), change(points)[u], u \in mvps)
                                 ELSE before(table, u)
            writes(points) ==
                  [at |-> "commit", game |-> G, finishes |-> TRUE,
                   users |-> [u \in affected |-> after(points, users, u)],
                   profiles |-> [u \in affected \cap (profiled \cup roster[G])
                                   |-> after(points, profiles, u)],
                   creates |-> roster[G] \ profiled,
                   drops |-> IF redone THEN RevertedRows(G) ELSE {},
                   mends |-> {}, adds |-> change(points),
                   dropsStats |-> elected, addsStats |-> mvps]
<1>7. \E points \in [roster[G] -> Points] : Become(p, writes(points))
  BY Zenon DEF FinishLoad
<1>8. PICK points, new : /\ points \in [roster[G] -> Points] /\ Become(p, new)
                         /\ new = writes(points)
  BY <1>7
<1>9. /\ new.at = "commit" /\ new.game = G /\ new.finishes = TRUE
      /\ new.users = [u \in affected |-> after(points, users, u)]
      /\ new.profiles = [u \in affected \cap (profiled \cup roster[G])
                           |-> after(points, profiles, u)]
      /\ new.creates = roster[G] \ profiled
      /\ new.adds = change(points) /\ new.addsStats = mvps
  <2>. HIDE DEF redone, mvps, elected, affected, change, after
  <2>. QED  BY <1>8
<1>10. G = g /\ mvps = Mvps(t) /\ (redone <=> status[g] = "FINISHED")
  BY <1>1, <1>3
<1>11. affected = roster[g] /\ affected \cap (profiled \cup roster[G]) = roster[g]
  BY <1>4, <1>10
<1>12. ASSUME NEW u \in roster[g]
       PROVE  /\ new.adds[u] = points[u] + (IF u \in mvps THEN Bonus ELSE 0)
              /\ new.adds[u] \in Int
  <2>. HIDE DEF mvps, writes
  <2>0. points \in [roster[g] -> Points]
    BY <1>8, <1>10
  <2>1. points[u] \in Points
    BY <2>0, <1>12
  <2>2. new.adds[u] = points[u] + (IF u \in mvps THEN Bonus ELSE 0)
    BY <1>9, <1>10
  <2>3. points[u] \in Int /\ Bonus \in Int
    BY <2>1, PointsInt
  <2>. QED  BY <2>2, <2>3
<1>13. ASSUME NEW u \in roster[g], NEW table
       PROVE  after(points, table, u)
                = Gain(Before(table, g, u), new.adds[u], u \in new.addsStats)
  <2>1. before(table, u) = Before(table, g, u)
    BY <1>10 DEF Before
  <2>2. change(points)[u] = new.adds[u] /\ mvps = new.addsStats
    BY <1>9
  <2>3. u \in roster[G]
    BY <1>10
  <2>. HIDE DEF before, change, mvps
  <2>. QED  BY <2>1, <2>2, <2>3
<1>14. /\ new.users = [u \in roster[g] |->
                Gain(Before(users, g, u), new.adds[u], u \in new.addsStats)]
       /\ new.profiles = [u \in roster[g] |->
                Gain(Before(profiles, g, u), new.adds[u], u \in new.addsStats)]
  <2>. HIDE DEF affected, after
  <2>. QED  BY <1>9, <1>11, <1>13
<1>15. /\ Become(p, new) /\ new.at = "commit" /\ new.game = g /\ new.finishes
       /\ new.creates = roster[g] \ profiled /\ new.addsStats \subseteq roster[g]
       /\ \A u \in roster[g] : new.adds[u] \in Int
  BY <1>5, <1>8, <1>9, <1>10, <1>12
<1>. HIDE DEF mvps, writes, affected, after
<1>16. Become(p, new) /\ Finishes(new, g)
  BY <1>14, <1>15 DEF Finishes
<1>. QED  BY <1>16

\* Whoever gets an award of the statistics gets it on the account, if the game
\* is finished.
Elects(t, g) ==
  /\ t.at = "commit" /\ t.game = g /\ t.finishes = FALSE
  /\ t.addsStats \subseteq roster[g]
  /\ \A u \in t.addsStats : RowsOf(stats, g, u) = {}
  /\ t.creates = {}
  /\ t.users = [u \in Affected(t) |-> Award(users[u])]
  /\ t.profiles = [u \in Affected(t) |-> Award(profiles[u])]

LEMMA ElectionWrites ==
  ASSUME LedgerInv, NEW p \in Procs, MvpLoad(p)
  PROVE  \E new : \E g \in Games : Become(p, new) /\ Elects(new, g)
<1>1. PICK t : t = txn[p] /\ t.at = "mvp"
  BY DEF MvpLoad
<1>2. Loaded(t) /\ AmongSignups(t)
  BY <1>1 DEF LedgerInv, RowsInv, InFlight, Idle
<1>3. PICK g \in Games : g = t.game /\ t.was = status[g]
  BY <1>2 DEF Loaded
<1>. DEFINE award(row) == [row EXCEPT !.rating = OrStart(@) + Bonus, !.mvps = @ + 1]
            writes == [at |-> "commit", game |-> t.game, finishes |-> FALSE,
                       users |-> [u \in Awarded(t) |-> award(users[u])],
                       profiles |-> [u \in Awarded(t) \cap profiled |-> award(profiles[u])],
                       creates |-> {}, drops |-> {}, mends |-> Mended(t),
                       adds |-> [u \in {} |-> 0],
                       dropsStats |-> {}, addsStats |-> Unelected(t)]
<1>4. Become(p, writes)
  BY <1>1, Zenon DEF MvpLoad
<1>5. PICK new : Become(p, new) /\ new = writes
  BY <1>4
<1>6. /\ new.at = "commit" /\ new.game = g /\ new.finishes = FALSE
      /\ new.users = [u \in Awarded(t) |-> award(users[u])]
      /\ new.profiles = [u \in Awarded(t) \cap profiled |-> award(profiles[u])]
      /\ new.creates = {} /\ new.addsStats = Unelected(t)
  <2>. HIDE DEF award
  <2>. QED  BY <1>3, <1>5
<1>7. Unelected(t) \subseteq roster[g] /\ \A u \in Unelected(t) : RowsOf(stats, g, u) = {}
  BY <1>1, <1>2, <1>3 DEF Unelected, AmongSignups
<1>8. Affected(new) = Awarded(t)
  BY <1>3, <1>6 DEF Affected, Awarded
<1>9. Awarded(t) \cap profiled = Awarded(t)
  <2>1. Awarded(t) \subseteq roster[g]
    BY <1>7 DEF Awarded
  <2>2. status[g] = "FINISHED" => roster[g] \subseteq profiled
    BY DEF LedgerInv, Complete
  <2>. QED  BY <1>3, <2>1, <2>2 DEF Awarded
<1>10. \A row : award(row) = Award(row)
  BY DEF Award
<1>11. /\ new.users = [u \in Affected(new) |-> Award(users[u])]
       /\ new.profiles = [u \in Affected(new) |-> Award(profiles[u])]
  <2>. HIDE DEF award
  <2>. QED  BY <1>6, <1>8, <1>9, <1>10
<1>12. new.addsStats \subseteq roster[g] /\ \A u \in new.addsStats : RowsOf(stats, g, u) = {}
  BY <1>6, <1>7
<1>. HIDE DEF writes, award
<1>13. Become(p, new) /\ Elects(new, g)
  BY <1>5, <1>6, <1>11, <1>12 DEF Elects
<1>. QED  BY <1>13

LEMMA AwardEffect ==
  ASSUME NEW row \in Account
  PROVE  /\ Award(row) \in Account
         /\ Award(row).rating = OrStart(row.rating) + Bonus
         /\ Award(row).matches = row.matches
         /\ Award(row).mvps = row.mvps + 1
<1>1. PICK rating, matches, mvps :
        /\ rating \in Int /\ matches \in Nat /\ mvps \in Nat
        /\ row = [rating |-> rating, matches |-> matches, mvps |-> mvps]
  BY DEF Account
<1>2. Award(row) = [rating |-> OrStart(rating) + Bonus, matches |-> matches, mvps |-> mvps + 1]
  <2>1. row.rating = rating /\ row.mvps = mvps
    BY <1>1
  <2>2. Award(row) = [row EXCEPT !.rating = OrStart(rating) + Bonus, !.mvps = mvps + 1]
    BY <2>1 DEF Award
  <2>. QED  BY <1>1, <2>2
<1>3. OrStart(rating) + Bonus \in Int
  BY <1>1, RatingParameters DEF OrStart
<1>. QED  BY <1>1, <1>2, <1>3 DEF Account

(***************************************************************************)
(* The rows of a player in the game a commit is about.                     *)
(***************************************************************************)
LEMMA RowsFinished ==
  ASSUME RowsInv, NEW p \in Procs, Commit(p), txn[p].finishes,
         NEW t, t = txn[p], NEW g \in Games, g = t.game, NEW u
  PROVE  /\ u \in roster[g] => /\ RowsOf(history, g, u)' # {}
                                /\ \A h \in RowsOf(history, g, u)' : h.change = t.adds[u]
         /\ u \notin roster[g] => RowsOf(history, g, u)' = {}
         /\ RowsOf(stats, g, u)' # {} <=> u \in t.addsStats
<1>1. PICK key : FinishedRows(t, g, key)
  BY FinishTables
<1>2. PICK h, s : /\ h = [game |-> g, key |-> key, user |-> u, change |-> t.adds[u]]
                  /\ s = [game |-> g, key |-> key, user |-> u]
  OBVIOUS
<1>3. h.game = g /\ h.user = u /\ h.change = t.adds[u] /\ s.game = g /\ s.user = u
  BY <1>2
<1>4. \A r : r \in RowsOf(history, g, u)' <=> u \in roster[g] /\ r = h
  BY <1>1, <1>2 DEF FinishedRows, RowsOf
<1>5. \A r : r \in RowsOf(stats, g, u)' <=> u \in t.addsStats /\ r = s
  BY <1>1, <1>2 DEF FinishedRows, RowsOf
<1>6. u \in roster[g] => /\ RowsOf(history, g, u)' # {}
                        /\ \A r \in RowsOf(history, g, u)' : r = h
  BY <1>4
<1>7. u \notin roster[g] => RowsOf(history, g, u)' = {}
  BY <1>4
<1>8. RowsOf(stats, g, u)' # {} <=> u \in t.addsStats
  BY <1>5
<1>. QED  BY <1>3, <1>6, <1>7, <1>8

LEMMA RowsElected ==
  ASSUME RowsInv, NEW p \in Procs, Commit(p), ~ txn[p].finishes,
         NEW t, t = txn[p], NEW g \in Games, g = t.game, NEW u
  PROVE  /\ u \notin t.addsStats => /\ RowsOf(history, g, u)' = RowsOf(history, g, u)
                                    /\ RowsOf(stats, g, u)' = RowsOf(stats, g, u)
         /\ u \in t.addsStats =>
              /\ RowsOf(stats, g, u) = {} /\ RowsOf(stats, g, u)' # {}
              /\ RowsOf(history, g, u)' = {} <=> RowsOf(history, g, u) = {}
              /\ \A h \in RowsOf(history, g, u), k \in RowsOf(history, g, u)' :
                   k.change = h.change + Bonus
<1>1. PICK key : ElectedRows(t, g, key)
  BY ElectionTables
<1>2. ASSUME u \notin t.addsStats
      PROVE  /\ RowsOf(history, g, u)' = RowsOf(history, g, u)
             /\ RowsOf(stats, g, u)' = RowsOf(stats, g, u)
  <2>1. \A r : r \in RowsOf(history, g, u)' <=> r \in RowsOf(history, g, u)
    BY <1>1, <1>2 DEF ElectedRows, RowsOf
  <2>2. \A r : r \in RowsOf(stats, g, u)' <=> r \in RowsOf(stats, g, u)
    BY <1>1, <1>2 DEF ElectedRows, RowsOf
  <2>. QED  BY <2>1, <2>2
<1>3. ASSUME u \in t.addsStats
      PROVE  RowsOf(stats, g, u) = {} /\ RowsOf(stats, g, u)' # {}
  <2>1. RowsOf(stats, g, u) = {}
    BY <1>3, ElectionTables
  <2>2. [game |-> g, key |-> key, user |-> u] \in RowsOf(stats, g, u)'
    BY <1>1, <1>3 DEF ElectedRows, RowsOf
  <2>. QED  BY <2>1, <2>2
<1>4. ASSUME u \in t.addsStats, NEW k \in RowsOf(history, g, u)'
      PROVE  \E s \in RowsOf(history, g, u) : k.change = s.change + Bonus
  BY <1>1, <1>4 DEF ElectedRows, RowsOf
<1>5. ASSUME u \in t.addsStats, NEW s \in RowsOf(history, g, u)
      PROVE  RowsOf(history, g, u)' # {}
  <2>1. [game |-> s.game, key |-> s.key, user |-> s.user, change |-> s.change + Bonus]
          \in RowsOf(history, g, u)'
    BY <1>1, <1>5 DEF ElectedRows, RowsOf
  <2>. QED  BY <2>1
<1>6. ASSUME u \in t.addsStats
      PROVE  \A h \in RowsOf(history, g, u), k \in RowsOf(history, g, u)' :
               k.change = h.change + Bonus
  <2>1. \A r, s \in RowsOf(history, g, u) : r = s
    BY <1>6, ElectionTables DEF RowsInv, Single
  <2>. QED  BY <1>4, <1>6, <2>1
<1>7. u \in t.addsStats => (RowsOf(history, g, u)' = {} <=> RowsOf(history, g, u) = {})
  BY <1>4, <1>5
<1>. QED  BY <1>2, <1>3, <1>6, <1>7

\* The accounts after a commit.
LEMMA AccountsCommitted ==
  ASSUME LedgerInv, NEW p \in Procs, Commit(p), NEW t, t = txn[p]
  PROVE  /\ t.users \in [Affected(t) -> Account] /\ t.profiles \in [Affected(t) -> Account]
         /\ \A u \in Players : /\ users'[u] = IF u \in Affected(t) THEN t.users[u] ELSE users[u]
                               /\ profiles'[u] = IF u \in Affected(t) THEN t.profiles[u]
                                                                      ELSE profiles[u]
         /\ users' \in [Players -> Account] /\ profiles' \in [Players -> Account]
         /\ t.addsStats \subseteq roster[t.game]
         /\ profiled' = profiled \cup (IF t.finishes THEN roster[t.game] \ profiled ELSE {})
<1>1. /\ t.at = "commit"
      /\ users' = [u \in Players |-> IF u \in DOMAIN t.users THEN t.users[u] ELSE users[u]]
      /\ profiles' = [u \in Players |->
                        IF u \in DOMAIN t.profiles THEN t.profiles[u] ELSE profiles[u]]
      /\ profiled' = profiled \cup t.creates
  BY DEF Commit
<1>2. /\ t.users \in [Affected(t) -> Account] /\ t.profiles \in [Affected(t) -> Account]
      /\ t.addsStats \subseteq roster[t.game]
      /\ t.creates = IF t.finishes THEN roster[t.game] \ profiled ELSE {}
  BY <1>1 DEF LedgerInv, AmongSignups
<1>3. users \in [Players -> Account] /\ profiles \in [Players -> Account]
  BY DEF LedgerInv, Complete
<1>4. /\ users' = [u \in Players |-> IF u \in Affected(t) THEN t.users[u] ELSE users[u]]
      /\ profiles' = [u \in Players |-> IF u \in Affected(t) THEN t.profiles[u] ELSE profiles[u]]
  BY <1>1, <1>2
<1>. QED  BY <1>1, <1>2, <1>3, <1>4

LEMMA CompleteCommitted ==
  ASSUME LedgerInv, NEW p \in Procs, Commit(p)
  PROVE  Complete'
<1>0. RowsInv
  BY DEF LedgerInv
<1>1. PICK t : t = txn[p]
  OBVIOUS
<1>2. PICK g \in Games : g = t.game /\ OtherRowsKept(g) /\ roster' = roster
  BY <1>1, FinishCommit, ElectionCommit DEF LedgerInv, Commit
<1>3. /\ users' \in [Players -> Account] /\ profiles' \in [Players -> Account]
      /\ t.addsStats \subseteq roster[g]
      /\ profiled' = profiled \cup (IF t.finishes THEN roster[g] \ profiled ELSE {})
  BY <1>1, <1>2, AccountsCommitted
<1>4. IsFiniteSet(history') /\ IsFiniteSet(stats')
  BY <1>1, FinishTables, ElectionTables DEF LedgerInv, Complete
<1>5. ASSUME NEW u
      PROVE  /\ RowsOf(history, g, u)' # {} => u \in roster[g]
             /\ RowsOf(stats, g, u)' # {} => u \in roster[g]
             /\ u \in roster[g] /\ status'[g] = "FINISHED" => RowsOf(history, g, u)' # {}
  <2>1. CASE t.finishes
    <3>1. /\ u \in roster[g] => RowsOf(history, g, u)' # {}
          /\ u \notin roster[g] => RowsOf(history, g, u)' = {}
          /\ RowsOf(stats, g, u)' # {} <=> u \in t.addsStats
      BY <1>0, <1>1, <1>2, <2>1, RowsFinished
    <3>. QED  BY <1>3, <3>1
  <2>2. CASE ~ t.finishes
    <3>1. status' = status
      BY <1>1, <2>2, ElectionTables DEF LedgerInv
    <3>2. /\ RowsOf(history, g, u) # {} => u \in roster[g]
          /\ RowsOf(stats, g, u) # {} => u \in roster[g]
      BY DEF LedgerInv, Complete, RowsOf
    <3>3. u \in roster[g] /\ status[g] = "FINISHED" => RowsOf(history, g, u) # {}
      BY DEF LedgerInv, Complete
    <3>4. u \notin t.addsStats => /\ RowsOf(history, g, u)' = RowsOf(history, g, u)
                                  /\ RowsOf(stats, g, u)' = RowsOf(stats, g, u)
      BY <1>0, <1>1, <1>2, <2>2, RowsElected
    <3>5. u \in t.addsStats => (RowsOf(history, g, u)' = {} <=> RowsOf(history, g, u) = {})
      BY <1>0, <1>1, <1>2, <2>2, RowsElected
    <3>6. u \in t.addsStats => u \in roster[g]
      BY <1>3
    <3>. QED  BY <3>1, <3>2, <3>3, <3>4, <3>5, <3>6
  <2>. QED  BY <2>1, <2>2
<1>6. \A r \in history' \cup stats' : r.user \in roster'[r.game]
  <2>1. ASSUME NEW r \in history', r.game = g
        PROVE  r.user \in roster[g]
    <3>1. r \in RowsOf(history, g, r.user)'
      BY <2>1 DEF RowsOf
    <3>. QED  BY <1>5, <3>1
  <2>2. ASSUME NEW r \in stats', r.game = g
        PROVE  r.user \in roster[g]
    <3>1. r \in RowsOf(stats, g, r.user)'
      BY <2>2 DEF RowsOf
    <3>. QED  BY <1>5, <3>1
  <2>. QED  BY <1>2, <2>1, <2>2 DEF OtherRowsKept, LedgerInv, Complete
<1>7. ASSUME NEW h \in Games, status'[h] = "FINISHED"
      PROVE  roster'[h] \subseteq profiled' /\ \A u \in roster'[h] : RowsOf(history, h, u)' # {}
  <2>1. CASE h = g
    <3>1. CASE t.finishes
      BY <1>2, <1>3, <1>5, <1>7, <2>1, <3>1
    <3>2. CASE ~ t.finishes
      <4>1. status'[g] = status[g]
        BY <1>1, <3>2, ElectionTables DEF LedgerInv
      <4>2. roster[g] \subseteq profiled
        BY <1>7, <2>1, <4>1 DEF LedgerInv, Complete
      <4>. QED  BY <1>2, <1>3, <1>5, <1>7, <2>1, <4>2
    <3>. QED  BY <3>1, <3>2
  <2>2. CASE h # g
    <3>1. /\ status'[h] = status[h]
          /\ \A u : RowsOf(history, h, u)' = RowsOf(history, h, u)
      BY <1>2, <2>2 DEF OtherRowsKept, OfGame, RowsOf
    <3>2. roster[h] \subseteq profiled /\ \A u \in roster[h] : RowsOf(history, h, u) # {}
      BY <1>7, <3>1 DEF LedgerInv, Complete
    <3>. QED  BY <1>2, <1>3, <3>1, <3>2
  <2>. QED  BY <2>1, <2>2
<1>. QED  BY <1>3, <1>4, <1>6, <1>7 DEF Complete, Account

LEMMA UncommittedLedger ==
  ASSUME LedgerInv, UNCHANGED <<tables, roster>>, NEW p \in Procs, NEW t, Become(p, t),
         AmongSignups(t), RowsInv'
  PROVE  LedgerInv'
<1>1. UNCHANGED <<status, roster, users, profiles, profiled, history, stats>>
  BY DEF tables
<1>2. Complete'
  BY <1>1 DEF LedgerInv, Complete, RowsOf, Account
<1>3. \A x : AmongSignups(x) <=> AmongSignups(x)'
  BY <1>1 DEF AmongSignups, Affected, Account
<1>4. \A q \in Procs : txn'[q] = IF q = p THEN t ELSE txn[q]
  BY DEF LedgerInv, RowsInv, Become
<1>. QED  BY <1>2, <1>3, <1>4 DEF LedgerInv

LEMMA BeforeAccount ==
  ASSUME LedgerInv, NEW g \in Games, NEW u \in Players, NEW table \in [Players -> Account]
  PROVE  Before(table, g, u) \in Account
  BY RevertEffect DEF Before, LedgerInv

LEMMA FinishAmong ==
  ASSUME LedgerInv, NEW new, NEW g \in Games, Finishes(new, g)
  PROVE  AmongSignups(new)
<1>1. /\ new.at = "commit" /\ new.game = g /\ new.finishes
      /\ new.addsStats \subseteq roster[g]
      /\ new.creates = roster[g] \ profiled
      /\ \A u \in roster[g] : new.adds[u] \in Int
  BY DEF Finishes
<1>2. Affected(new) = roster[g] /\ roster[g] \subseteq Players
  BY <1>1 DEF Affected, LedgerInv, RowsInv, RowTypes
<1>3. ASSUME NEW u \in roster[g], NEW table \in [Players -> Account]
      PROVE  Gain(Before(table, g, u), new.adds[u], u \in new.addsStats) \in Account
  <2>1. Before(table, g, u) \in Account /\ new.adds[u] \in Int
    BY <1>1, <1>2, BeforeAccount
  <2>2. (u \in new.addsStats) \in BOOLEAN
    OBVIOUS
  <2>. QED  BY <2>1, <2>2, GainEffect
<1>4. new.users \in [roster[g] -> Account] /\ new.profiles \in [roster[g] -> Account]
  BY <1>3 DEF Finishes, LedgerInv, Complete
<1>. QED  BY <1>1, <1>2, <1>4 DEF AmongSignups

LEMMA ElectionAmong ==
  ASSUME LedgerInv, NEW new, NEW g \in Games, Elects(new, g)
  PROVE  AmongSignups(new)
<1>1. Affected(new) \subseteq roster[g] /\ roster[g] \subseteq Players
  BY DEF Elects, Affected, LedgerInv, RowsInv, RowTypes
<1>2. ASSUME NEW u \in roster[g], NEW table \in [Players -> Account]
      PROVE  Award(table[u]) \in Account
  BY <1>1, AwardEffect
<1>3. new.users \in [Affected(new) -> Account] /\ new.profiles \in [Affected(new) -> Account]
  BY <1>1, <1>2 DEF Elects, LedgerInv, Complete
<1>. QED  BY <1>3 DEF AmongSignups, Elects

\* A commit leaves alone what another transaction is going to commit.
LEMMA Bystander ==
  ASSUME LedgerInv, Separate, NEW p \in Procs, Commit(p),
         NEW q \in Procs, q # p, NEW t, t = txn[q]
  PROVE  /\ txn'[q] = t /\ AmongSignups(t)'
         /\ t.at = "commit" => /\ Affected(t)' = Affected(t)
                               /\ Affected(t) \cap Affected(txn[p]) = {}
                               /\ Affected(t) \subseteq Players
<1>1. PICK s : s = txn[p] /\ s.at = "commit" /\ s # Idle
  BY DEF Commit, Idle
<1>2. PICK g \in Games : g = s.game /\ OtherRowsKept(g)
  BY <1>1, FinishCommit, ElectionCommit DEF LedgerInv
<1>3. /\ txn'[q] = t /\ roster' = roster
      /\ profiled' = profiled \cup (IF s.finishes THEN roster[g] \ profiled ELSE {})
  BY <1>1, <1>2, AccountsCommitted DEF Commit, Become, LedgerInv, RowsInv
<1>4. InFlight(t) /\ AmongSignups(t) /\ AmongSignups(s)
  BY <1>1 DEF LedgerInv, RowsInv
<1>5. CASE t.at # "commit"
  BY <1>3, <1>4, <1>5 DEF AmongSignups
<1>6. CASE t.at = "commit"
  <2>1. t # Idle /\ t.game \in Games
    BY <1>4, <1>6 DEF Idle, InFlight, Computed
  <2>2. t.game # g /\ roster[t.game] \cap roster[g] = {}
    BY <1>1, <1>2, <2>1 DEF Separate, Apart
  <2>3. status'[t.game] = status[t.game]
    BY <1>2, <2>1, <2>2 DEF OtherRowsKept
  <2>4. Affected(t)' = Affected(t)
    BY <1>3, <2>3 DEF Affected
  <2>5. Affected(t) \subseteq roster[t.game] /\ Affected(s) \subseteq roster[g]
    BY <1>1, <1>2, <1>4, <1>6 DEF AmongSignups, Affected
  <2>6. roster[t.game] \subseteq Players
    BY <2>1 DEF LedgerInv, RowsInv, RowTypes
  <2>7. t.finishes => roster[t.game] \ profiled' = roster[t.game] \ profiled
    BY <1>3, <2>2
  <2>8. AmongSignups(t)'
    BY <1>3, <1>4, <1>6, <2>4, <2>7 DEF AmongSignups, Account
  <2>. QED  BY <1>1, <1>3, <2>2, <2>4, <2>5, <2>6, <2>8
<1>. QED  BY <1>5, <1>6

LEMMA LedgerNext ==
  ASSUME LedgerInv, Separate, ~ OutsiderVotes, [Next]_vars
  PROVE  LedgerInv'
<1>1. RowsInv'
  BY RowsNext DEF LedgerInv, Separate
<1>2. ASSUME NEW p \in Procs, NEW g \in Games, NEW named \in SUBSET Electable(g),
             FinishBegin(p, g, named)
      PROVE  LedgerInv'
  <2>1. AmongSignups([at |-> "finish", game |-> g, was |-> status[g], named |-> named])
    BY DEF AmongSignups, Electable
  <2>. QED  BY <1>1, <1>2, <2>1, UncommittedLedger DEF FinishBegin
<1>3. ASSUME NEW p \in Procs, NEW g \in Games, NEW winners \in SUBSET Electable(g),
             MvpBegin(p, g, winners)
      PROVE  LedgerInv'
  <2>1. AmongSignups([at |-> "mvp", game |-> g, was |-> status[g], winners |-> winners])
    BY DEF AmongSignups, Electable
  <2>. QED  BY <1>1, <1>3, <2>1, UncommittedLedger DEF MvpBegin
<1>4. ASSUME NEW p \in Procs, Abort(p)
      PROVE  LedgerInv'
  <2>1. AmongSignups(Idle)
    BY DEF AmongSignups, Idle
  <2>. QED  BY <1>1, <1>4, <2>1, UncommittedLedger DEF Abort
<1>5. ASSUME NEW p \in Procs, FinishLoad(p)
      PROVE  LedgerInv'
  <2>1. PICK new : \E g \in Games : Become(p, new) /\ Finishes(new, g)
    BY <1>5, FinishWrites
  <2>2. Become(p, new) /\ AmongSignups(new)
    BY <2>1, FinishAmong
  <2>. QED  BY <1>1, <1>5, <2>2, UncommittedLedger DEF FinishLoad
<1>6. ASSUME NEW p \in Procs, MvpLoad(p)
      PROVE  LedgerInv'
  <2>1. PICK new : \E g \in Games : Become(p, new) /\ Elects(new, g)
    BY <1>6, ElectionWrites
  <2>2. Become(p, new) /\ AmongSignups(new)
    BY <2>1, ElectionAmong
  <2>. QED  BY <1>1, <1>6, <2>2, UncommittedLedger DEF MvpLoad
<1>7. ASSUME NEW p \in Procs, Commit(p)
      PROVE  LedgerInv'
  <2>1. txn'[p] = Idle
    BY <1>7 DEF Commit, Become, LedgerInv, RowsInv
  <2>2. AmongSignups(Idle)'
    BY DEF AmongSignups, Idle
  <2>3. ASSUME NEW q \in Procs, q # p
        PROVE  AmongSignups(txn[q])'
    <3>1. PICK t : t = txn[q]
      OBVIOUS
    <3>2. txn'[q] = t /\ AmongSignups(t)'
      BY <1>7, <2>3, <3>1, Bystander
    <3>. QED  BY <3>2
  <2>4. \A q \in Procs : AmongSignups(txn[q])'
    BY <2>1, <2>2, <2>3
  <2>. QED  BY <1>1, <1>7, <2>4, CompleteCommitted DEF LedgerInv
<1>8. CASE UNCHANGED vars
  <2>1. UNCHANGED <<status, roster, users, profiles, profiled, history, stats, txn>>
    BY <1>8 DEF vars, tables
  <2>2. Complete'
    BY <2>1 DEF LedgerInv, Complete, RowsOf, Account
  <2>3. \A x : AmongSignups(x) <=> AmongSignups(x)'
    BY <2>1 DEF AmongSignups, Affected, Account
  <2>. QED  BY <1>1, <2>1, <2>2, <2>3 DEF LedgerInv
<1>. QED  BY <1>2, <1>3, <1>4, <1>5, <1>6, <1>7, <1>8 DEF Next, Step

LEMMA LedgerInit == Init => LedgerInv
<1>1. SUFFICES ASSUME Init PROVE LedgerInv
  OBVIOUS
<1>2. Fresh \in Account
  BY RatingParameters DEF Fresh, Account
<1>3. Complete
  BY <1>1, <1>2, FS_EmptySet DEF Init, Complete
<1>4. \A p \in Procs : AmongSignups(txn[p])
  BY <1>1 DEF Init, AmongSignups, Idle
<1>. QED  BY <1>1, <1>3, <1>4, RowsInit DEF LedgerInv

(***************************************************************************)
(* What a commit does to the rows of a player.                             *)
(***************************************************************************)
LEMMA SplitCommitted ==
  ASSUME LedgerInv, LedgerInv', NEW g \in Games, OtherRowsKept(g), NEW u
  PROVE  /\ Recorded(u)' = Elsewhere(g, u) \cup RowsOf(history, g, u)'
         /\ Elsewhere(g, u) \cap RowsOf(history, g, u)' = {}
         /\ status'[g] = "FINISHED" => Elected(u)' = ElectedElsewhere(g, u) \cup RowsOf(stats, g, u)'
         /\ status'[g] # "FINISHED" => Elected(u)' = ElectedElsewhere(g, u)
         /\ ElectedElsewhere(g, u) \cap RowsOf(stats, g, u)' = {}
<1>1. /\ \A r \in history \cup stats : r.game \in Games
      /\ \A r \in history' \cup stats' : r.game \in Games
  BY DEF LedgerInv, RowsInv, RowTypes, HistoryRow, StatsRow
<1>2. \A r : r.game # g => (r \in history' <=> r \in history) /\ (r \in stats' <=> r \in stats)
  BY <1>1 DEF OtherRowsKept, OfGame
<1>3. \A r \in stats : r.game # g => status'[r.game] = status[r.game]
  BY <1>1 DEF OtherRowsKept
<1>4. \A r : r \in Recorded(u)' <=> r \in Elsewhere(g, u) \/ r \in RowsOf(history, g, u)'
  BY <1>2 DEF Recorded, Elsewhere, RowsOf
<1>5. \A r : r \in Elected(u)' <=> \/ r \in ElectedElsewhere(g, u)
                                   \/ status'[g] = "FINISHED" /\ r \in RowsOf(stats, g, u)'
  BY <1>2, <1>3 DEF Elected, ElectedElsewhere, RowsOf
<1>6. /\ \A r \in Elsewhere(g, u) \cup ElectedElsewhere(g, u) : r.game # g
      /\ \A r \in RowsOf(history, g, u)' \cup RowsOf(stats, g, u)' : r.game = g
  BY DEF Elsewhere, ElectedElsewhere, RowsOf
<1>. QED  BY <1>4, <1>5, <1>6

\* Of a player whose account is written the game has one row of the history,
\* and one of the statistics if the transaction adds it.
LEMMA AffectedRows ==
  ASSUME LedgerInv, LedgerInv', NEW p \in Procs, Commit(p),
         NEW t, t = txn[p], NEW g \in Games, g = t.game, NEW u \in Affected(t)
  PROVE  /\ u \in Players /\ u \in roster[g] /\ status'[g] = "FINISHED"
         /\ RowsOf(history, g, u)' # {}
         /\ RowsOf(stats, g, u)' # {} <=> u \in t.addsStats
         /\ \A h \in RowsOf(history, g, u)' :
              IF t.finishes THEN h.change = t.adds[u]
                            ELSE \A k \in RowsOf(history, g, u) : h.change = k.change + Bonus
         /\ ~ t.finishes => RowsOf(stats, g, u) = {} /\ status[g] = "FINISHED"
<1>1. RowsInv
  BY DEF LedgerInv
<1>2. u \in roster[g] /\ roster' = roster
  <2>1. roster' = roster /\ t.at = "commit"
    BY DEF Commit
  <2>2. t.addsStats \subseteq roster[g]
    BY <2>1 DEF LedgerInv, AmongSignups
  <2>. QED  BY <2>1, <2>2 DEF Affected
<1>3. u \in Players
  BY <1>1, <1>2 DEF RowsInv, RowTypes
<1>4. status'[g] = "FINISHED" => RowsOf(history, g, u)' # {}
  BY <1>2 DEF LedgerInv, Complete
<1>5. CASE t.finishes
  <2>1. status'[g] = "FINISHED"
    BY <1>1, <1>5, FinishTables DEF RowsInv, RowTypes
  <2>2. /\ RowsOf(stats, g, u)' # {} <=> u \in t.addsStats
        /\ u \in roster[g] => \A h \in RowsOf(history, g, u)' : h.change = t.adds[u]
    BY <1>1, <1>5, RowsFinished
  <2>. QED  BY <1>2, <1>3, <1>4, <1>5, <2>1, <2>2
<1>6. CASE ~ t.finishes
  <2>1. u \in t.addsStats /\ status[g] = "FINISHED"
    BY <1>6 DEF Affected
  <2>2. status' = status
    BY <1>1, <1>6, ElectionTables
  <2>3. /\ RowsOf(stats, g, u) = {} /\ RowsOf(stats, g, u)' # {}
        /\ \A h \in RowsOf(history, g, u), k \in RowsOf(history, g, u)' :
             k.change = h.change + Bonus
    BY <1>1, <1>6, <2>1, RowsElected
  <2>. QED  BY <1>2, <1>3, <1>4, <1>6, <2>1, <2>2, <2>3
<1>. QED  BY <1>5, <1>6

\* Of any other player nothing is changed that counts.
LEMMA UnaffectedRows ==
  ASSUME LedgerInv, LedgerInv', NEW p \in Procs, Commit(p),
         NEW t, t = txn[p], NEW g \in Games, g = t.game, OtherRowsKept(g),
         NEW u \in Players, u \notin Affected(t)
  PROVE  Recorded(u)' = Recorded(u) /\ Elected(u)' = Elected(u)
<1>1. RowsInv
  BY DEF LedgerInv
<1>2. /\ Recorded(u)' = Elsewhere(g, u) \cup RowsOf(history, g, u)'
      /\ status'[g] = "FINISHED" => Elected(u)' = ElectedElsewhere(g, u) \cup RowsOf(stats, g, u)'
      /\ status'[g] # "FINISHED" => Elected(u)' = ElectedElsewhere(g, u)
  BY SplitCommitted
<1>3. /\ Recorded(u) = Elsewhere(g, u) \cup RowsOf(history, g, u)
      /\ status[g] = "FINISHED" => Elected(u) = ElectedElsewhere(g, u) \cup RowsOf(stats, g, u)
      /\ status[g] # "FINISHED" => Elected(u) = ElectedElsewhere(g, u)
  BY Split
<1>4. CASE t.finishes
  <2>1. u \notin roster[g]
    BY <1>4 DEF Affected
  <2>2. RowsOf(history, g, u) = {} /\ RowsOf(stats, g, u) = {}
    BY <2>1 DEF LedgerInv, Complete, RowsOf
  <2>3. RowsOf(history, g, u)' = {} /\ RowsOf(stats, g, u)' = {}
    <3>1. roster' = roster
      BY DEF Commit
    <3>. QED  BY <2>1, <3>1 DEF LedgerInv, Complete, RowsOf
  <2>. QED  BY <1>2, <1>3, <2>2, <2>3
<1>5. CASE ~ t.finishes /\ u \notin t.addsStats
  <2>1. status' = status
    BY <1>1, <1>5, ElectionTables
  <2>2. /\ RowsOf(history, g, u)' = RowsOf(history, g, u)
        /\ RowsOf(stats, g, u)' = RowsOf(stats, g, u)
    BY <1>1, <1>5, RowsElected
  <2>. QED  BY <1>2, <1>3, <2>1, <2>2
<1>6. CASE ~ t.finishes /\ u \in t.addsStats
  <2>1. status' = status
    BY <1>1, <1>6, ElectionTables
  <2>2. status[g] # "FINISHED"
    BY <1>6 DEF Affected
  <2>3. RowsOf(history, g, u) = {}
    BY <2>2, NothingYet
  <2>4. RowsOf(history, g, u)' = {}
    BY <1>1, <1>6, <2>3, RowsElected
  <2>. QED  BY <1>2, <1>3, <2>1, <2>2, <2>3, <2>4
<1>. QED  BY <1>4, <1>5, <1>6

\* Nor does a commit change the rows the accounts of another transaction are
\* counted by.
LEMMA BystanderRows ==
  ASSUME LedgerInv, LedgerInv', Separate, NEW p \in Procs, Commit(p),
         NEW q \in Procs, q # p, NEW t, t = txn[q], t.at = "commit",
         NEW u \in Affected(t)
  PROVE  /\ Recorded(u)' = Recorded(u)
         /\ Elsewhere(t.game, u)' = Elsewhere(t.game, u)
         /\ ElectedElsewhere(t.game, u)' = ElectedElsewhere(t.game, u)
<1>1. PICK s : s = txn[p]
  OBVIOUS
<1>2. PICK g \in Games : g = s.game /\ OtherRowsKept(g)
  BY <1>1, FinishCommit, ElectionCommit DEF LedgerInv, Commit
<1>3. u \in Players /\ u \notin Affected(s)
  BY <1>1, Bystander
<1>4. Recorded(u)' = Recorded(u) /\ Elected(u)' = Elected(u)
  BY <1>1, <1>2, <1>3, UnaffectedRows
<1>. QED  BY <1>4 DEF Elsewhere, ElectedElsewhere

(***************************************************************************)
(* The counters.                                                           *)
(***************************************************************************)
LEMMA CountsCommitted ==
  ASSUME LedgerInv, LedgerInv', CounterInv, NEW p \in Procs, Commit(p), NEW u \in Players
  PROVE  /\ users'[u].matches = Cardinality(Recorded(u)')
         /\ users'[u].mvps = Cardinality(Elected(u)')
         /\ profiles'[u].matches = Cardinality(Recorded(u)')
         /\ profiles'[u].mvps = Cardinality(Elected(u)')
<1>1. PICK t : t = txn[p] /\ t.at = "commit"
  BY DEF Commit
<1>2. PICK g \in Games : g = t.game /\ OtherRowsKept(g)
  BY <1>1, FinishCommit, ElectionCommit DEF LedgerInv
<1>3. /\ users'[u] = IF u \in Affected(t) THEN t.users[u] ELSE users[u]
      /\ profiles'[u] = IF u \in Affected(t) THEN t.profiles[u] ELSE profiles[u]
  BY <1>1, AccountsCommitted
<1>4. CASE u \notin Affected(t)
  <2>1. Recorded(u)' = Recorded(u) /\ Elected(u)' = Elected(u)
    BY <1>1, <1>2, <1>4, UnaffectedRows
  <2>2. Counts(users[u], u) /\ Counts(profiles[u], u)
    BY DEF CounterInv
  <2>. QED  BY <1>3, <1>4, <2>1, <2>2 DEF Counts
<1>5. CASE u \in Affected(t)
  <2>1. PICK E, F : E = Elsewhere(g, u) /\ F = ElectedElsewhere(g, u)
    OBVIOUS
  <2>2. /\ Recorded(u)' = E \cup RowsOf(history, g, u)' /\ E \cap RowsOf(history, g, u)' = {}
        /\ Elected(u)' = F \cup RowsOf(stats, g, u)' /\ F \cap RowsOf(stats, g, u)' = {}
        /\ RowsOf(history, g, u)' # {}
        /\ RowsOf(stats, g, u)' # {} <=> u \in t.addsStats
    BY <1>1, <1>2, <1>5, <2>1, SplitCommitted, AffectedRows
  <2>3. IsFiniteSet(E) /\ IsFiniteSet(F) /\ Cardinality(E) \in Nat /\ Cardinality(F) \in Nat
    BY <2>1, Split
  <2>4. /\ \A r, s \in RowsOf(history, g, u)' : r = s
        /\ \A r, s \in RowsOf(stats, g, u)' : r = s
    BY DEF LedgerInv, RowsInv, Single
  <2>5. Cardinality(Recorded(u)') = Cardinality(E) + 1
    <3>1. PICK h : h \notin E /\ Recorded(u)' = E \cup {h}
      BY <2>2, <2>4
    <3>. QED  BY <2>3, <3>1, FS_AddElement
  <2>6. Cardinality(Elected(u)') = Cardinality(F) + (IF u \in t.addsStats THEN 1 ELSE 0)
    <3>1. CASE u \in t.addsStats
      <4>1. PICK s : s \notin F /\ Elected(u)' = F \cup {s}
        BY <2>2, <2>4, <3>1
      <4>. QED  BY <2>3, <3>1, <4>1, FS_AddElement
    <3>2. CASE u \notin t.addsStats
      <4>1. Elected(u)' = F
        BY <2>2, <3>2
      <4>. QED  BY <2>3, <3>2, <4>1
    <3>. QED  BY <3>1, <3>2
  <2>7. WillCount(t.users[u], t, u) /\ WillCount(t.profiles[u], t, u)
    BY <1>1, <1>5 DEF CounterInv, Counting
  <2>. QED  BY <1>2, <1>3, <1>5, <2>1, <2>5, <2>6, <2>7 DEF WillCount
<1>. QED  BY <1>4, <1>5

LEMMA FinishCounts ==
  ASSUME LedgerInv, CounterInv, NEW new, NEW g \in Games, Finishes(new, g)
  PROVE  Counting(new)
<1>1. /\ new.game = g /\ new.finishes
      /\ \A u \in roster[g] : new.adds[u] \in Int
      /\ new.users = [u \in roster[g] |->
           Gain(Before(users, g, u), new.adds[u], u \in new.addsStats)]
      /\ new.profiles = [u \in roster[g] |->
           Gain(Before(profiles, g, u), new.adds[u], u \in new.addsStats)]
  BY DEF Finishes
<1>2. Affected(new) = roster[g] /\ roster[g] \subseteq Players
  BY <1>1 DEF Affected, LedgerInv, RowsInv, RowTypes
<1>3. ASSUME NEW u \in roster[g], NEW table \in [Players -> Account], Counts(table[u], u)
      PROVE  WillCount(Gain(Before(table, g, u), new.adds[u], u \in new.addsStats), new, u)
  <2>1. PICK row : row = Before(table, g, u)
    OBVIOUS
  <2>2. /\ row \in Account /\ row.matches = Cardinality(Elsewhere(g, u))
        /\ row.mvps = Cardinality(ElectedElsewhere(g, u))
    BY <1>3, <2>1, BeforeGame
  <2>3. new.adds[u] \in Int /\ (u \in new.addsStats) \in BOOLEAN
    BY <1>1
  <2>4. /\ Gain(row, new.adds[u], u \in new.addsStats).matches = row.matches + 1
        /\ Gain(row, new.adds[u], u \in new.addsStats).mvps
             = IF u \in new.addsStats THEN row.mvps + 1 ELSE row.mvps
    BY <2>2, <2>3, GainEffect
  <2>5. row.mvps \in Nat
    BY <2>2 DEF Account
  <2>. QED  BY <1>1, <2>1, <2>2, <2>4, <2>5 DEF WillCount
<1>4. /\ users \in [Players -> Account] /\ profiles \in [Players -> Account]
      /\ \A u \in roster[g] : Counts(users[u], u) /\ Counts(profiles[u], u)
  BY <1>2 DEF LedgerInv, Complete, CounterInv
<1>5. \A u \in roster[g] : WillCount(new.users[u], new, u) /\ WillCount(new.profiles[u], new, u)
  BY <1>1, <1>3, <1>4
<1>. QED  BY <1>2, <1>5 DEF Counting

LEMMA ElectionCounts ==
  ASSUME LedgerInv, CounterInv, NEW new, NEW g \in Games, Elects(new, g)
  PROVE  Counting(new)
<1>1. /\ new.game = g /\ new.finishes = FALSE
      /\ new.addsStats \subseteq roster[g]
      /\ \A u \in new.addsStats : RowsOf(stats, g, u) = {}
      /\ new.users = [u \in Affected(new) |-> Award(users[u])]
      /\ new.profiles = [u \in Affected(new) |-> Award(profiles[u])]
  BY DEF Elects
<1>2. ASSUME NEW u \in Affected(new)
      PROVE  u \in new.addsStats /\ status[g] = "FINISHED" /\ u \in roster[g] /\ u \in Players
  BY <1>1 DEF Affected, LedgerInv, RowsInv, RowTypes
<1>3. ASSUME NEW u \in Affected(new), NEW table \in [Players -> Account], Counts(table[u], u)
      PROVE  WillCount(Award(table[u]), new, u)
  <2>1. PICK h : RowsOf(history, g, u) = {h}
    <3>1. RowsOf(history, g, u) # {} /\ \A r, s \in RowsOf(history, g, u) : r = s
      BY <1>2 DEF LedgerInv, Complete, RowsInv, Single
    <3>. QED  BY <3>1
  <2>2. Cardinality(Recorded(u)) = Cardinality(Elsewhere(g, u)) + 1
    BY <1>2, <2>1, CountSplit
  <2>3. Cardinality(Elected(u)) = Cardinality(ElectedElsewhere(g, u))
    <3>1. RowsOf(stats, g, u) = {}
      BY <1>1, <1>2
    <3>2. Elected(u) = ElectedElsewhere(g, u) \cup RowsOf(stats, g, u)
      BY <1>2, Split
    <3>. QED  BY <3>1, <3>2
  <2>4. /\ Award(table[u]).matches = table[u].matches
        /\ Award(table[u]).mvps = table[u].mvps + 1
    BY <1>2, AwardEffect
  <2>. QED  BY <1>1, <1>2, <1>3, <2>2, <2>3, <2>4 DEF WillCount, Counts
<1>4. /\ users \in [Players -> Account] /\ profiles \in [Players -> Account]
      /\ \A u \in Affected(new) : Counts(users[u], u) /\ Counts(profiles[u], u)
  BY <1>2 DEF LedgerInv, Complete, CounterInv
<1>5. \A u \in Affected(new) : WillCount(new.users[u], new, u) /\ WillCount(new.profiles[u], new, u)
  BY <1>1, <1>3, <1>4
<1>. QED  BY <1>5 DEF Counting

LEMMA UncommittedCounter ==
  ASSUME LedgerInv, CounterInv, UNCHANGED <<tables, roster>>,
         NEW p \in Procs, NEW t, Become(p, t), Counting(t)
  PROVE  CounterInv'
<1>1. UNCHANGED <<status, roster, users, profiles, profiled, history, stats>>
  BY DEF tables
<1>2. \A x, u : Counts(x, u) <=> Counts(x, u)'
  BY <1>1 DEF Counts, Recorded, Elected
<1>3. \A x : Counting(x) <=> Counting(x)'
  BY <1>1 DEF Counting, WillCount, Affected, Elsewhere, ElectedElsewhere, Recorded, Elected
<1>4. \A q \in Procs : txn'[q] = IF q = p THEN t ELSE txn[q]
  BY DEF LedgerInv, RowsInv, Become
<1>5. \A u \in Players : Counts(users[u], u)' /\ Counts(profiles[u], u)'
  BY <1>1, <1>2 DEF CounterInv
<1>6. \A q \in Procs : Counting(txn[q])
  BY DEF CounterInv
<1>7. \A q \in Procs : Counting(txn[q])'
  BY <1>3, <1>4, <1>6
<1>. QED  BY <1>5, <1>7 DEF CounterInv

LEMMA CounterNext ==
  ASSUME LedgerInv, CounterInv, Separate, ~ OutsiderVotes, [Next]_vars
  PROVE  CounterInv'
<1>1. LedgerInv'
  BY LedgerNext
<1>2. ASSUME NEW p \in Procs, NEW t, Become(p, t), UNCHANGED <<tables, roster>>, t.at # "commit"
      PROVE  CounterInv'
  BY <1>2, UncommittedCounter DEF Counting
<1>3. ASSUME NEW p \in Procs, NEW g \in Games, NEW named, FinishBegin(p, g, named)
      PROVE  CounterInv'
  BY <1>2, <1>3 DEF FinishBegin
<1>4. ASSUME NEW p \in Procs, NEW g \in Games, NEW winners, MvpBegin(p, g, winners)
      PROVE  CounterInv'
  BY <1>2, <1>4 DEF MvpBegin
<1>5. ASSUME NEW p \in Procs, Abort(p)
      PROVE  CounterInv'
  BY <1>2, <1>5 DEF Abort, Idle
<1>6. ASSUME NEW p \in Procs, FinishLoad(p)
      PROVE  CounterInv'
  <2>1. PICK new : \E g \in Games : Become(p, new) /\ Finishes(new, g)
    BY <1>6, FinishWrites
  <2>2. Become(p, new) /\ Counting(new)
    BY <2>1, FinishCounts
  <2>. QED  BY <1>6, <2>2, UncommittedCounter DEF FinishLoad
<1>7. ASSUME NEW p \in Procs, MvpLoad(p)
      PROVE  CounterInv'
  <2>1. PICK new : \E g \in Games : Become(p, new) /\ Elects(new, g)
    BY <1>7, ElectionWrites
  <2>2. Become(p, new) /\ Counting(new)
    BY <2>1, ElectionCounts
  <2>. QED  BY <1>7, <2>2, UncommittedCounter DEF MvpLoad
<1>8. ASSUME NEW p \in Procs, Commit(p)
      PROVE  CounterInv'
  <2>1. txn'[p] = Idle
    BY <1>8 DEF Commit, Become, LedgerInv, RowsInv
  <2>2. Counting(Idle)'
    BY DEF Counting, Idle
  <2>3. \A u \in Players : Counts(users[u], u)' /\ Counts(profiles[u], u)'
    BY <1>1, <1>8, CountsCommitted DEF Counts
  <2>4. ASSUME NEW q \in Procs, q # p
        PROVE  Counting(txn[q])'
    <3>1. PICK t : t = txn[q]
      OBVIOUS
    <3>2. txn'[q] = t /\ (t.at = "commit" => Affected(t)' = Affected(t))
      BY <1>8, <2>4, <3>1, Bystander
    <3>3. ASSUME t.at = "commit", NEW u \in Affected(t)
          PROVE  WillCount(t.users[u], t, u)' /\ WillCount(t.profiles[u], t, u)'
      <4>1. /\ Recorded(u)' = Recorded(u)
            /\ Elsewhere(t.game, u)' = Elsewhere(t.game, u)
            /\ ElectedElsewhere(t.game, u)' = ElectedElsewhere(t.game, u)
        BY <1>1, <1>8, <2>4, <3>1, <3>3, BystanderRows
      <4>2. WillCount(t.users[u], t, u) /\ WillCount(t.profiles[u], t, u)
        BY <3>1, <3>3 DEF CounterInv, Counting
      <4>. QED  BY <4>1, <4>2 DEF WillCount
    <3>4. Counting(t)'
      BY <3>2, <3>3 DEF Counting
    <3>. QED  BY <3>2, <3>4
  <2>5. \A q \in Procs : Counting(txn[q])'
    BY <2>1, <2>2, <2>4
  <2>. QED  BY <2>3, <2>5 DEF CounterInv
<1>9. CASE UNCHANGED vars
  <2>1. UNCHANGED <<status, roster, users, profiles, profiled, history, stats, txn>>
    BY <1>9 DEF vars, tables
  <2>2. \A x, u : Counts(x, u) <=> Counts(x, u)'
    BY <2>1 DEF Counts, Recorded, Elected
  <2>3. \A x : Counting(x) <=> Counting(x)'
    BY <2>1 DEF Counting, WillCount, Affected, Elsewhere, ElectedElsewhere, Recorded, Elected
  <2>. QED  BY <2>1, <2>2, <2>3 DEF CounterInv
<1>. QED  BY <1>3, <1>4, <1>5, <1>6, <1>7, <1>8, <1>9 DEF Next, Step

LEMMA CounterInit == Init => CounterInv
<1>1. SUFFICES ASSUME Init PROVE CounterInv
  OBVIOUS
<1>2. \A u : Recorded(u) = {} /\ Elected(u) = {}
  BY <1>1 DEF Init, Recorded, Elected
<1>3. \A u \in Players : Counts(users[u], u) /\ Counts(profiles[u], u)
  BY <1>1, <1>2, FS_EmptySet DEF Init, Counts, Fresh
<1>4. \A p \in Procs : Counting(txn[p])
  BY <1>1 DEF Init, Counting, Idle
<1>. QED  BY <1>3, <1>4 DEF CounterInv

\* CounterLedger: finishing, refinishing and electing in any order and for any
\* games, also at the same time as long as the games have no player in common,
\* whatever fails in between, keeps the counters of both tables equal to the
\* number of rows: what a second finish takes back is what the first and the
\* election gave.
THEOREM CountersAgree ==
  ASSUME ~ OutsiderVotes
  PROVE  Spec /\ []Separate => []CounterLedger
<1>1. Init => LedgerInv /\ CounterInv
  BY LedgerInit, CounterInit
<1>2. LedgerInv /\ CounterInv /\ Separate /\ [Next]_vars => (LedgerInv /\ CounterInv)'
  BY LedgerNext, CounterNext
<1>3. CounterInv => CounterLedger
  BY DEF CounterInv, Counts, CounterLedger, Elected
<1>. QED  BY <1>1, <1>2, <1>3, PTL DEF Spec

(***************************************************************************)
(* The ratings.                                                            *)
(***************************************************************************)
LEMMA RatesCommitted ==
  ASSUME LedgerInv, LedgerInv', RatingInv, NEW p \in Procs, Commit(p), NEW u \in Players
  PROVE  /\ users'[u].rating = Start + SumOf(Recorded(u)')
         /\ profiles'[u].rating = Start + SumOf(Recorded(u)')
<1>1. PICK t : t = txn[p] /\ t.at = "commit"
  BY DEF Commit
<1>2. PICK g \in Games : g = t.game /\ OtherRowsKept(g)
  BY <1>1, FinishCommit, ElectionCommit DEF LedgerInv
<1>3. /\ users'[u] = IF u \in Affected(t) THEN t.users[u] ELSE users[u]
      /\ profiles'[u] = IF u \in Affected(t) THEN t.profiles[u] ELSE profiles[u]
  BY <1>1, AccountsCommitted
<1>4. CASE u \notin Affected(t)
  <2>1. Recorded(u)' = Recorded(u)
    BY <1>1, <1>2, <1>4, UnaffectedRows
  <2>2. Rates(users[u], u) /\ Rates(profiles[u], u)
    BY DEF RatingInv
  <2>. QED  BY <1>3, <1>4, <2>1, <2>2 DEF Rates
<1>5. CASE u \in Affected(t)
  <2>1. PICK E : E = Elsewhere(g, u)
    OBVIOUS
  <2>2. /\ Recorded(u)' = E \cup RowsOf(history, g, u)' /\ E \cap RowsOf(history, g, u)' = {}
        /\ RowsOf(history, g, u)' # {}
        /\ \A h \in RowsOf(history, g, u)' :
             IF t.finishes THEN h.change = t.adds[u]
                           ELSE \A k \in RowsOf(history, g, u) : h.change = k.change + Bonus
        /\ u \in roster[g]
        /\ ~ t.finishes => status[g] = "FINISHED"
    BY <1>1, <1>2, <1>5, <2>1, SplitCommitted, AffectedRows
  <2>3. IsFiniteSet(E) /\ \A r \in E : r.change \in Int
    BY <2>1, Split
  <2>4. PICK h : h \in RowsOf(history, g, u)' /\ h \notin E /\ Recorded(u)' = E \cup {h}
    <3>1. \A r, s \in RowsOf(history, g, u)' : r = s
      BY DEF LedgerInv, RowsInv, Single
    <3>. QED  BY <2>2, <3>1
  <2>5. h.change \in Int
    <3>1. h \in history'
      BY <2>4 DEF RowsOf
    <3>. QED  BY <3>1 DEF LedgerInv, RowsInv, RowTypes, HistoryRow
  <2>6. SumOf(E \cup {h}) = SumOf(E) + h.change /\ SumOf(E) \in Int
    BY <2>3, <2>4, <2>5, SumPlus
  <2>7. WillRate(t.users[u], t, u) /\ WillRate(t.profiles[u], t, u)
    BY <1>1, <1>5 DEF RatingInv, Rating
  <2>8. CASE t.finishes
    <3>1. h.change = t.adds[u]
      BY <2>2, <2>4, <2>8
    <3>. QED  BY <1>2, <1>3, <1>5, <2>1, <2>4, <2>6, <2>7, <2>8, <3>1 DEF WillRate
  <2>9. CASE ~ t.finishes
    <3>1. PICK k : k \in RowsOf(history, g, u) /\ RowsOf(history, g, u) = {k}
      <4>1. RowsOf(history, g, u) # {} /\ \A r, s \in RowsOf(history, g, u) : r = s
        BY <2>2, <2>9 DEF LedgerInv, Complete, RowsInv, Single
      <4>. QED  BY <4>1
    <3>2. SumOf(Recorded(u)) = SumOf(E) + k.change /\ k.change \in Int
      BY <2>1, <3>1, CountSplit
    <3>3. h.change = k.change + Bonus
      BY <2>2, <2>4, <2>9, <3>1
    <3>4. SumOf(Recorded(u)) + Bonus = SumOf(E) + h.change
      BY <2>6, <3>2, <3>3, RatingParameters
    <3>. QED  BY <1>3, <1>5, <2>4, <2>6, <2>7, <2>9, <3>4 DEF WillRate
  <2>. QED  BY <2>8, <2>9
<1>. QED  BY <1>4, <1>5

LEMMA SumsInt ==
  ASSUME LedgerInv
  PROVE  \A u \in Players : SumOf(Recorded(u)) \in Int
<1>1. IsFiniteSet(history) /\ \A r \in history : r.change \in Int
  BY DEF LedgerInv, Complete, RowsInv, RowTypes, HistoryRow
<1>2. \A u : Recorded(u) \in SUBSET history
  BY DEF Recorded
<1>. QED  BY <1>1, <1>2, SumInt

LEMMA FinishRates ==
  ASSUME LedgerInv, CounterInv, RatingInv, NeverAtZero, NEW new, NEW g \in Games, Finishes(new, g)
  PROVE  Rating(new)
<1>1. /\ new.game = g /\ new.finishes
      /\ \A u \in roster[g] : new.adds[u] \in Int
      /\ new.users = [u \in roster[g] |->
           Gain(Before(users, g, u), new.adds[u], u \in new.addsStats)]
      /\ new.profiles = [u \in roster[g] |->
           Gain(Before(profiles, g, u), new.adds[u], u \in new.addsStats)]
  BY DEF Finishes
<1>2. Affected(new) = roster[g] /\ roster[g] \subseteq Players
  BY <1>1 DEF Affected, LedgerInv, RowsInv, RowTypes
<1>3. ASSUME NEW u \in roster[g], NEW table \in [Players -> Account],
             Counts(table[u], u), Rates(table[u], u)
      PROVE  WillRate(Gain(Before(table, g, u), new.adds[u], u \in new.addsStats), new, u)
  <2>1. PICK row : row = Before(table, g, u)
    OBVIOUS
  <2>2. row \in Account /\ row.rating = Start + SumOf(Elsewhere(g, u))
    BY <1>3, <2>1, BeforeGame
  <2>3. new.adds[u] \in Int /\ (u \in new.addsStats) \in BOOLEAN
    BY <1>1
  <2>4. Gain(row, new.adds[u], u \in new.addsStats).rating = OrStart(row.rating) + new.adds[u]
    BY <2>2, <2>3, GainEffect
  <2>5. OrStart(row.rating) = Start + SumOf(Elsewhere(g, u))
    BY <1>2, <2>2 DEF OrStart, NeverAtZero
  <2>6. SumOf(Elsewhere(g, u)) \in Int /\ Start \in Int
    <3>1. IsFiniteSet(Elsewhere(g, u)) /\ \A r \in Elsewhere(g, u) : r.change \in Int
      BY <1>2, Split
    <3>. QED  BY <3>1, SumInt, RatingParameters
  <2>. QED  BY <1>1, <2>1, <2>3, <2>4, <2>5, <2>6 DEF WillRate
<1>4. /\ users \in [Players -> Account] /\ profiles \in [Players -> Account]
      /\ \A u \in roster[g] : Counts(users[u], u) /\ Counts(profiles[u], u)
      /\ \A u \in roster[g] : Rates(users[u], u) /\ Rates(profiles[u], u)
  BY <1>2 DEF LedgerInv, Complete, CounterInv, RatingInv
<1>5. \A u \in roster[g] : WillRate(new.users[u], new, u) /\ WillRate(new.profiles[u], new, u)
  BY <1>1, <1>3, <1>4
<1>. QED  BY <1>2, <1>5 DEF Rating

LEMMA ElectionRates ==
  ASSUME LedgerInv, RatingInv, NeverAtZero, NEW new, NEW g \in Games, Elects(new, g)
  PROVE  Rating(new)
<1>1. /\ new.finishes = FALSE /\ new.addsStats \subseteq roster[g]
      /\ new.users = [u \in Affected(new) |-> Award(users[u])]
      /\ new.profiles = [u \in Affected(new) |-> Award(profiles[u])]
  BY DEF Elects
<1>2. \A u \in Affected(new) : u \in Players
  BY <1>1 DEF Affected, LedgerInv, RowsInv, RowTypes
<1>3. ASSUME NEW u \in Affected(new), NEW table \in [Players -> Account], Rates(table[u], u)
      PROVE  WillRate(Award(table[u]), new, u)
  <2>1. Award(table[u]).rating = OrStart(table[u].rating) + Bonus
    BY <1>2, AwardEffect
  <2>2. OrStart(table[u].rating) = Start + SumOf(Recorded(u))
    BY <1>2, <1>3 DEF OrStart, Rates, NeverAtZero
  <2>3. SumOf(Recorded(u)) \in Int /\ Start \in Int /\ Bonus \in Int
    BY <1>2, SumsInt, RatingParameters
  <2>. QED  BY <1>1, <2>1, <2>2, <2>3 DEF WillRate
<1>4. /\ users \in [Players -> Account] /\ profiles \in [Players -> Account]
      /\ \A u \in Affected(new) : Rates(users[u], u) /\ Rates(profiles[u], u)
  BY <1>2 DEF LedgerInv, Complete, RatingInv
<1>5. \A u \in Affected(new) : WillRate(new.users[u], new, u) /\ WillRate(new.profiles[u], new, u)
  BY <1>1, <1>3, <1>4
<1>. QED  BY <1>5 DEF Rating

LEMMA UncommittedRating ==
  ASSUME LedgerInv, RatingInv, UNCHANGED <<tables, roster>>,
         NEW p \in Procs, NEW t, Become(p, t), Rating(t)
  PROVE  RatingInv'
<1>1. UNCHANGED <<status, roster, users, profiles, profiled, history, stats>>
  BY DEF tables
<1>2. \A x, u : Rates(x, u) <=> Rates(x, u)'
  BY <1>1 DEF Rates, Recorded
<1>3. \A x : Rating(x) <=> Rating(x)'
  BY <1>1 DEF Rating, WillRate, Affected, Elsewhere, Recorded
<1>4. \A q \in Procs : txn'[q] = IF q = p THEN t ELSE txn[q]
  BY DEF LedgerInv, RowsInv, Become
<1>5. \A u \in Players : Rates(users[u], u)' /\ Rates(profiles[u], u)'
  BY <1>1, <1>2 DEF RatingInv
<1>6. \A q \in Procs : Rating(txn[q])
  BY DEF RatingInv
<1>7. \A q \in Procs : Rating(txn[q])'
  BY <1>3, <1>4, <1>6
<1>. QED  BY <1>5, <1>7 DEF RatingInv

LEMMA RatingNext ==
  ASSUME LedgerInv, CounterInv, RatingInv, Separate, NeverAtZero, ~ OutsiderVotes, [Next]_vars
  PROVE  RatingInv'
<1>1. LedgerInv'
  BY LedgerNext
<1>2. ASSUME NEW p \in Procs, NEW t, Become(p, t), UNCHANGED <<tables, roster>>, t.at # "commit"
      PROVE  RatingInv'
  BY <1>2, UncommittedRating DEF Rating
<1>3. ASSUME NEW p \in Procs, NEW g \in Games, NEW named, FinishBegin(p, g, named)
      PROVE  RatingInv'
  BY <1>2, <1>3 DEF FinishBegin
<1>4. ASSUME NEW p \in Procs, NEW g \in Games, NEW winners, MvpBegin(p, g, winners)
      PROVE  RatingInv'
  BY <1>2, <1>4 DEF MvpBegin
<1>5. ASSUME NEW p \in Procs, Abort(p)
      PROVE  RatingInv'
  BY <1>2, <1>5 DEF Abort, Idle
<1>6. ASSUME NEW p \in Procs, FinishLoad(p)
      PROVE  RatingInv'
  <2>1. PICK new : \E g \in Games : Become(p, new) /\ Finishes(new, g)
    BY <1>6, FinishWrites
  <2>2. Become(p, new) /\ Rating(new)
    BY <2>1, FinishRates
  <2>. QED  BY <1>6, <2>2, UncommittedRating DEF FinishLoad
<1>7. ASSUME NEW p \in Procs, MvpLoad(p)
      PROVE  RatingInv'
  <2>1. PICK new : \E g \in Games : Become(p, new) /\ Elects(new, g)
    BY <1>7, ElectionWrites
  <2>2. Become(p, new) /\ Rating(new)
    BY <2>1, ElectionRates
  <2>. QED  BY <1>7, <2>2, UncommittedRating DEF MvpLoad
<1>8. ASSUME NEW p \in Procs, Commit(p)
      PROVE  RatingInv'
  <2>1. txn'[p] = Idle
    BY <1>8 DEF Commit, Become, LedgerInv, RowsInv
  <2>2. Rating(Idle)'
    BY DEF Rating, Idle
  <2>3. \A u \in Players : Rates(users[u], u)' /\ Rates(profiles[u], u)'
    BY <1>1, <1>8, RatesCommitted DEF Rates
  <2>4. ASSUME NEW q \in Procs, q # p
        PROVE  Rating(txn[q])'
    <3>1. PICK t : t = txn[q]
      OBVIOUS
    <3>2. txn'[q] = t /\ (t.at = "commit" => Affected(t)' = Affected(t))
      BY <1>8, <2>4, <3>1, Bystander
    <3>3. ASSUME t.at = "commit", NEW u \in Affected(t)
          PROVE  WillRate(t.users[u], t, u)' /\ WillRate(t.profiles[u], t, u)'
      <4>1. /\ Recorded(u)' = Recorded(u)
            /\ Elsewhere(t.game, u)' = Elsewhere(t.game, u)
            /\ ElectedElsewhere(t.game, u)' = ElectedElsewhere(t.game, u)
        BY <1>1, <1>8, <2>4, <3>1, <3>3, BystanderRows
      <4>2. WillRate(t.users[u], t, u) /\ WillRate(t.profiles[u], t, u)
        BY <3>1, <3>3 DEF RatingInv, Rating
      <4>. QED  BY <4>1, <4>2 DEF WillRate
    <3>4. Rating(t)'
      BY <3>2, <3>3 DEF Rating
    <3>. QED  BY <3>2, <3>4
  <2>5. \A q \in Procs : Rating(txn[q])'
    BY <2>1, <2>2, <2>4
  <2>. QED  BY <2>3, <2>5 DEF RatingInv
<1>9. CASE UNCHANGED vars
  <2>1. UNCHANGED <<status, roster, users, profiles, profiled, history, stats, txn>>
    BY <1>9 DEF vars, tables
  <2>2. \A x, u : Rates(x, u) <=> Rates(x, u)'
    BY <2>1 DEF Rates, Recorded
  <2>3. \A x : Rating(x) <=> Rating(x)'
    BY <2>1 DEF Rating, WillRate, Affected, Elsewhere, Recorded
  <2>. QED  BY <2>1, <2>2, <2>3 DEF RatingInv
<1>. QED  BY <1>3, <1>4, <1>5, <1>6, <1>7, <1>8, <1>9 DEF Next, Step

LEMMA RatingInit == Init => RatingInv
<1>1. SUFFICES ASSUME Init PROVE RatingInv
  OBVIOUS
<1>2. \A u : SumOf(Recorded(u)) = 0
  <2>1. \A u : Recorded(u) = {}
    BY <1>1 DEF Init, Recorded
  <2>. QED  BY <2>1, SumNone
<1>3. \A u \in Players : Rates(users[u], u) /\ Rates(profiles[u], u)
  BY <1>1, <1>2, RatingParameters DEF Init, Rates, Fresh
<1>4. \A p \in Procs : Rating(txn[p])
  BY <1>1 DEF Init, Rating, Idle
<1>. QED  BY <1>3, <1>4 DEF RatingInv

\* RatingLedger: likewise a rating is the start plus what the history records,
\* as long as no player comes to stand at 0: then a second finish takes exactly
\* that game back, however many games were finished and refinished since.
THEOREM RatingsAgree ==
  ASSUME ~ OutsiderVotes
  PROVE  Spec /\ []Separate /\ []NeverAtZero => []RatingLedger
<1>1. Init => LedgerInv /\ CounterInv /\ RatingInv
  BY LedgerInit, CounterInit, RatingInit
<1>2. LedgerInv /\ CounterInv /\ RatingInv /\ Separate /\ NeverAtZero /\ [Next]_vars
        => (LedgerInv /\ CounterInv /\ RatingInv)'
  BY LedgerNext, CounterNext, RatingNext
<1>3. RatingInv => RatingLedger
  <2>1. \A u : Earned(u) = SumOf(Recorded(u))
    BY DEF Earned, SumOf
  <2>. QED  BY <2>1 DEF RatingInv, Rates, RatingLedger
<1>. QED  BY <1>1, <1>2, <1>3, PTL DEF Spec
=============================================================================
