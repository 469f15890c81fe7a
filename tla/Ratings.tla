------------------------------ MODULE Ratings -------------------------------
(***************************************************************************)
(* Finishing games and electing their most valuable players: finish_game   *)
(* and calculate_mvp, with the ratings and counters they keep in two       *)
(* tables (users and player_profiles), the rating history they record, and *)
(* the revert a second finish of a game begins with.                       *)
(*                                                                         *)
(* A transaction reads the game, awaits Telegram, reads what it computes   *)
(* with, and commits the values it computed: three steps, and no lock.     *)
(***************************************************************************)
EXTENDS Integers, FiniteSets, SequencesExt

CONSTANTS
  Players, Games, Procs,
  Start,         \* the rating everybody starts with (100)
  Points,        \* what a place in the final table is worth
  Bonus,         \* rating_mvp_bonus
  OutsiderVotes  \* whether votes go to players who are no active signups

ASSUME RatingParameters ==
  /\ IsFiniteSet(Players)
  /\ Start \in Int \ {0} /\ Points \subseteq Int /\ Bonus \in Nat
  /\ OutsiderVotes \in BOOLEAN

VARIABLES
  status,   \* Game.status
  roster,   \* roster[g]: the active signups of g
  users,    \* users[u]: rating, stats_matches and stats_mvp of the User
  profiles, \* the same columns of the PlayerProfile, once there is one
  profiled, \* the players with a PlayerProfile
  history,  \* rows of RatingHistory
  stats,    \* rows of GameStats with is_mvp
  txn       \* txn[p]: how far the request or job p has come

tables == <<status, users, profiles, profiled, history, stats>>
vars   == <<status, roster, users, profiles, profiled, history, stats, txn>>

Idle  == [at |-> "idle"]
Fresh == [rating |-> Start, matches |-> 0, mvps |-> 0]

Init ==
  /\ status = [g \in Games |-> "OPEN"]
  /\ roster \in [Games -> SUBSET Players]
  /\ users = [u \in Players |-> Fresh]
  /\ profiles = [u \in Players |-> Fresh]
  /\ profiled = {}
  /\ history = {}
  /\ stats = {}
  /\ txn = [p \in Procs |-> Idle]

(***************************************************************************)
(* The arithmetic of StatsService.                                         *)
(***************************************************************************)

\* (rating or 100) in the code: a rating of 0 counts as none.
OrStart(rating) == IF rating = 0 THEN Start ELSE rating
Floor0(n) == IF n < 0 THEN 0 ELSE n

\* _update_single_player_stats
Gain(row, change, mvp) ==
  [rating  |-> OrStart(row.rating) + change,
   matches |-> row.matches + 1,
   mvps    |-> IF mvp THEN row.mvps + 1 ELSE row.mvps]

\* _revert_history_and_ratings, for one row of the history
Lose(row, h) ==
  [row EXCEPT !.rating = OrStart(@) - h.change, !.matches = Floor0(@ - 1)]

RowsOf(table, g, u) == {r \in table : r.game = g /\ r.user = u}

\* (mutated: the counter of elections is not taken back)
RevertKeepsMvps(row, g, u) == FoldLeft(Lose, row, SetToSeq(RowsOf(history, g, u)))

\* revert_stats, for one player: every recorded change is taken back, and
\* one election for every row of the statistics.
Revert(row, g, u) ==
  LET reverted == FoldLeft(Lose, row, SetToSeq(RowsOf(history, g, u)))
  IN  [reverted EXCEPT !.mvps = Floor0(@ - Cardinality(RowsOf(stats, g, u)))]

(***************************************************************************)
(* Transactions.  A transaction that has computed what to write says so:   *)
(* the values of the users and profiles it touches, the history rows it    *)
(* drops, mends (adds Bonus to) and adds, the statistics likewise, and     *)
(* whether the game is finished.                                           *)
(***************************************************************************)
Become(p, t) == txn' = [txn EXCEPT ![p] = t]

\* Who may be ahead in the votes for g at the moment they are counted (a tie
\* puts several ahead).  The votes themselves are not modelled.
Electable(g) == IF OutsiderVotes THEN Players ELSE roster[g]

\* The route loads the game, and finish_game goes by the status loaded here.
\* named are the players the organizer named or, failing any, those ahead in
\* the votes.
FinishBegin(p, g, named) ==
  /\ txn[p] = Idle
  /\ Become(p, [at |-> "finish", game |-> g, was |-> status[g], named |-> named])
  /\ UNCHANGED <<tables, roster>>

\* Whom finish_game gives the bonus: also whoever calculate_mvp elected
\* before the game was finished.
Mvps(t) ==
  t.named \cup (IF t.was = "FINISHED" THEN {}
                ELSE {r.user : r \in {s \in stats : s.game = t.game}})

\* (mutated: the reverted rows stay)
RevertedRowsStay(g) == {}

\* The history rows a revert of g deletes.
RevertedRows(g) == {r \in history : r.game = g}

\* The results of a finished game are reverted first; then every active
\* signup gets the points of its team, and the most valuable ones the bonus.
FinishLoad(p) ==
  LET g      == txn[p].game
      redone == txn[p].was = "FINISHED"
      mvps   == Mvps(txn[p])
      elected == {r \in stats : r.game = g}
      affected == roster[g] \cup (IF redone THEN {r.user : r \in elected \cup {h \in history : h.game = g}} ELSE {})
  IN  /\ txn[p].at = "finish"
      /\ \E points \in [roster[g] -> Points] :
           LET change == [u \in roster[g] |-> points[u] + (IF u \in mvps THEN Bonus ELSE 0)]
               before(table, u) == IF redone THEN Revert(table[u], g, u) ELSE table[u]
               after(table, u) == IF u \in roster[g]
                                    THEN Gain(before(table, u), change[u], u \in mvps)
                                    ELSE before(table, u)
           IN  Become(p, [at |-> "commit", game |-> g, finishes |-> TRUE,
                          users |-> [u \in affected |-> after(users, u)],
                          profiles |-> [u \in affected \cap (profiled \cup roster[g])
                                          |-> after(profiles, u)],
                          creates |-> roster[g] \ profiled,
                          drops |-> IF redone THEN RevertedRows(g) ELSE {},
                          mends |-> {}, adds |-> change,
                          dropsStats |-> elected, addsStats |-> mvps])
      /\ UNCHANGED <<tables, roster>>

\* The scheduled job loads the game, closes the voting message and counts.
MvpBegin(p, g, winners) ==
  /\ txn[p] = Idle
  /\ winners # {}
  /\ Become(p, [at |-> "mvp", game |-> g, was |-> status[g], winners |-> winners])
  /\ UNCHANGED <<tables, roster>>

\* Winners without an is_mvp row get one, and the award, if the game was
\* finished when the job loaded it.
Unelected(t) == {u \in t.winners : RowsOf(stats, t.game, u) = {}}

\* (mutated: whoever wins is awarded, elected before or not)
AwardedAgain(t) == IF t.was = "FINISHED" THEN t.winners ELSE {}

Awarded(t) == IF t.was = "FINISHED" THEN Unelected(t) ELSE {}

\* (mutated: the history is not told of the bonus)
MendedNone(t) == {}

\* The history rows the award adds the bonus to: those there are.
Mended(t) == UNION {RowsOf(history, t.game, u) : u \in Awarded(t)}

\* More than one row of a kind is an error that ends the job.
MvpLoad(p) ==
  LET t   == txn[p]
      award(row) == [row EXCEPT !.rating = OrStart(@) + Bonus, !.mvps = @ + 1]
  IN  /\ t.at = "mvp"
      /\ \A u \in t.winners : Cardinality(RowsOf(stats, t.game, u)) <= 1
      /\ \A u \in Awarded(t) : Cardinality(RowsOf(history, t.game, u)) <= 1
      /\ Become(p, [at |-> "commit", game |-> t.game, finishes |-> FALSE,
                    users |-> [u \in Awarded(t) |-> award(users[u])],
                    profiles |-> [u \in Awarded(t) \cap profiled |-> award(profiles[u])],
                    creates |-> {}, drops |-> {}, mends |-> Mended(t),
                    adds |-> [u \in {} |-> 0],
                    dropsStats |-> {}, addsStats |-> Unelected(t)])
      /\ UNCHANGED <<tables, roster>>

\* A key no row has, nor any row another transaction has read.
FreshKey(p) ==
  LET held == history \cup stats \cup
              UNION {txn[q].drops \cup txn[q].mends \cup txn[q].dropsStats :
                       q \in {q \in Procs \ {p} : txn[q].at = "commit"}}
      own  == txn[p].drops \cup txn[p].dropsStats
      used == {r.key : r \in held \ own}
  IN  CHOOSE k \in 1..(Cardinality(used) + 1) :
        k \notin used /\ \A j \in 1..(k - 1) : j \in used

\* A second PlayerProfile of a player breaks unique_group_profile, and a row
\* to be mended that is gone fails the flush: then there is only Abort.
Commit(p) ==
  LET t    == txn[p]
      kept == history \ (t.drops \cup t.mends)
      key  == FreshKey(p)
  IN  /\ t.at = "commit"
      /\ t.creates \cap profiled = {}
      /\ t.mends \subseteq history
      /\ status' = IF t.finishes THEN [status EXCEPT ![t.game] = "FINISHED"] ELSE status
      /\ users' = [u \in Players |-> IF u \in DOMAIN t.users THEN t.users[u] ELSE users[u]]
      /\ profiles' = [u \in Players |->
                        IF u \in DOMAIN t.profiles THEN t.profiles[u] ELSE profiles[u]]
      /\ profiled' = profiled \cup t.creates
      /\ history' = kept \cup {[r EXCEPT !.change = @ + Bonus] : r \in t.mends}
                         \cup {[game |-> t.game, key |-> key, user |-> u, change |-> t.adds[u]]
                                 : u \in DOMAIN t.adds}
      /\ stats' = (stats \ t.dropsStats)
                    \cup {[game |-> t.game, key |-> key, user |-> u] : u \in t.addsStats}
      /\ Become(p, Idle)
      /\ UNCHANGED roster

\* Whatever fails before the commit rolls everything back.
Abort(p) ==
  /\ txn[p] # Idle
  /\ Become(p, Idle)
  /\ UNCHANGED <<tables, roster>>

Step(p) ==
  \/ \E g \in Games : \E named \in SUBSET Electable(g) : FinishBegin(p, g, named)
  \/ FinishLoad(p)
  \/ \E g \in Games : \E winners \in SUBSET Electable(g) : MvpBegin(p, g, winners)
  \/ MvpLoad(p)
  \/ Commit(p)
  \/ Abort(p)

Next == \E p \in Procs : Step(p)

Spec == Init /\ [][Next]_vars

(***************************************************************************)
(* Properties.                                                             *)
(***************************************************************************)
Recorded(u) == {r \in history : r.user = u}
Earned(u)   == MapThenSumSet(LAMBDA r : r.change, Recorded(u))

\* A rating is the start plus every change the history records, in both
\* tables: only then does reverting the history of a game take exactly that
\* game back ("Reverts rating deltas without clobbering ratings earned in
\* subsequent matches", stats.py:55).
RatingLedger ==
  \A u \in Players :
    /\ users[u].rating = Start + Earned(u)
    /\ u \in profiled => profiles[u].rating = Start + Earned(u)

\* The counters agree with the rows: matches with the history, elections
\* with the statistics of the finished games.
CounterLedger ==
  \A u \in Players :
    LET elected == {r \in stats : r.user = u /\ status[r.game] = "FINISHED"}
    IN  /\ users[u].matches = Cardinality(Recorded(u))
        /\ users[u].mvps = Cardinality(elected)
        /\ u \in profiled => /\ profiles[u].matches = users[u].matches
                             /\ profiles[u].mvps = users[u].mvps

\* calculate_mvp asks for the history and the statistics of a player in a
\* game with scalar_one_or_none: there is never more than one row, and none
\* in the history of a game that is not finished.
SingleRows ==
  \A g \in Games, u \in Players :
    /\ Cardinality(RowsOf(history, g, u)) <= (IF status[g] = "FINISHED" THEN 1 ELSE 0)
    /\ Cardinality(RowsOf(stats, g, u)) <= 1

\* In a finished game the recorded change of a player contains the bonus if
\* and only if the statistics name the player, once, whoever elected him.
BonusRecorded ==
  \A r \in history :
    r.change \in {x + Bonus : x \in Points} <=> RowsOf(stats, r.game, r.user) # {}
=============================================================================
