------------------------------- MODULE Roster -------------------------------
(***************************************************************************)
(* The signups of one game, as the database commits them, and the          *)
(* transactions that change them: join, leave, the release of reserved     *)
(* slots and the roster repair hold the row lock of the game               *)
(* (SELECT ... FOR UPDATE, RosterService and release_gk_slots); the        *)
(* organizers' own tools (add_player, the status patch, update_teams,      *)
(* update_game, publish_teams, finish_game) read first and write later     *)
(* without it.                                                             *)
(*                                                                         *)
(* The database is PostgreSQL at READ COMMITTED.  An action is a           *)
(* statement, or a run of statements no other transaction can come         *)
(* between: taking the lock and the first read under it are one action.    *)
(* An INSERT of a signup takes a KEY SHARE lock of its game and an UPDATE  *)
(* of the game a NO KEY UPDATE one, so both wait for the lock's holder; an *)
(* UPDATE of a signup waits only for a writer of the same row.             *)
(***************************************************************************)
EXTENDS Integers, FiniteSets

CONSTANTS
  Players,     \* registered users (user_id >= 0)
  Guests,      \* guests an organizer entered (user_id < 0)
  Procs,       \* requests and jobs in flight at the same time
  Capacities,  \* values max_players is given
  SignupLimit, \* signup_limit; 0 is "no limit"
  Carded,      \* players with an active RED card in the chat
  Milestones,  \* the instants of Instants that pass in this instance
  Ops,         \* the operations of AllOps in use
  NoProc, NoOne

Persons  == Players \cup Guests
Instants == {"registration", "cancellation", "kickoff"}
AllOps   == {"join", "api_join", "leave", "release", "fix", "insert", "restore",
             "status", "teams", "capacity", "finish", "publish"}

\* The operations that take the game's row lock, or wait for it, before they
\* write a signup or max_players.
LockedOps == {"join", "leave", "release", "fix", "insert", "capacity", "finish"}

ASSUME PersonsAssumption ==
  /\ IsFiniteSet(Players) /\ IsFiniteSet(Guests)
  /\ Players \cap Guests = {}
  /\ Persons \cap Procs = {}
  /\ NoProc \notin Procs /\ NoOne \notin Persons
ASSUME ParametersAssumption ==
  /\ Capacities \subseteq Nat \ {0} /\ Capacities # {}
  /\ SignupLimit \in Nat
  /\ Carded \subseteq Players
  /\ Milestones \subseteq Instants
  /\ Ops \subseteq AllOps

VARIABLES
  status,     \* Game.status; nothing in the code ever sets CANCELLED
  maxPlayers, \* Game.max_players
  signup,     \* signup[u]: Signup.status of u, "none" without a row
  older,      \* <<x, y>>: x has an earlier created_at than y
  passed,     \* the instants that are in the past
  lock,       \* the transaction holding the row lock of the game
  txn,        \* txn[p]: how far the request p has come, and what it has read
  granted     \* ghost: active signups whose place an organizer granted

gameVars == <<status, maxPlayers, passed>>
vars == <<status, maxPlayers, signup, older, passed, lock, txn, granted>>

GameStatus   == {"OPEN", "ACTIVE", "FINISHED"}
SignupStatus == {"ACTIVE", "RESERVE", "CANCELLED"}
Row          == SignupStatus \cup {"none"}
GameView     == [status : GameStatus, max : Capacities]

(***************************************************************************)
(* What the rows say.                                                      *)
(***************************************************************************)
Active  == {u \in Persons : signup[u] = "ACTIVE"}
Reserve == {u \in Persons : signup[u] = "RESERVE"}
Present == {u \in Persons : signup[u] # "none"}
Waiting == Reserve \cap Players

\* get_active_signups_count and get_total_signups_count.
ActiveCount == Cardinality(Active)
TotalCount  == Cardinality(Active \cup Reserve)

\* ORDER BY created_at LIMIT n: the n oldest members of S (all, if fewer).
OldestOf(S, n) ==
  {T \in SUBSET S : /\ Cardinality(T) = n \/ (T = S /\ Cardinality(S) < n)
                    /\ \A u \in T, v \in S \ T : <<u, v>> \in older}

(***************************************************************************)
(* created_at is the database's now(): the instant the inserting           *)
(* transaction BEGAN, which for a join lies before the wait for the lock.  *)
(* A transaction that may insert therefore has a place in the order of     *)
(* created_at from its first statement on, and its row takes the place     *)
(* over.                                                                   *)
(***************************************************************************)
Inserting == {"join", "api_join", "join_count", "join_insert", "insert"}
Dated     == Present \cup {p \in Procs : txn[p].at \in Inserting}

Entering(p) == older \cup (Dated \X {p})
Leaving(x)  == {e \in older : e[1] # x /\ e[2] # x}
Becoming(p, u) ==
  LET name(x) == IF x = p THEN u ELSE x
  IN  {<<name(e[1]), name(e[2])>> : e \in older}

(***************************************************************************)
(* Transactions.                                                           *)
(***************************************************************************)
Idle == [at |-> "idle"]

\* The statuses a session is going to write: it writes a row only when the
\* status assigned differs from the one it loaded, and keeps the others.
Writes == [Persons -> SignupStatus \cup {"keep"}]

Assign(want) == [u \in Persons |-> IF want[u] = signup[u] THEN "keep" ELSE want[u]]
Written(write, rows) ==
  [u \in Persons |-> IF u \in rows /\ write[u] # "keep" THEN write[u] ELSE signup[u]]

Joining    == [at : {"join"}, who : Players, admin : BOOLEAN]
ApiJoining == [at : {"api_join"}, who : Players, admin : {FALSE}, game : GameView]
Counting   == [at : {"join_count"}, who : Players, admin : BOOLEAN, game : GameView]
SigningUp  == [at : {"join_insert"}, who : Players, admin : BOOLEAN,
               as : {"ACTIVE", "RESERVE"}]
Deleting   == [at : {"leave_delete"}, who : Persons, vacates : BOOLEAN,
               inherits : BOOLEAN]
HandingOn  == [at : {"leave_commit"}, who : Persons, heir : Players \cup {NoOne},
               inherits : BOOLEAN]
Releasing  == [at : {"release"}, slots : Nat \ {0}]
Filling    == [at : {"release_commit"}, pick : SUBSET Players]
Fixing     == [at : {"fix"}, write : Writes, main : SUBSET Players]
Adding     == [at : {"insert"}, who : Persons]
Updating   == [at : {"update"}, write : Writes]
Publishing == [at : {"publish"}]

Txn == {Idle} \cup Joining \cup ApiJoining \cup Counting \cup SigningUp
       \cup Deleting \cup HandingOn \cup Releasing \cup Filling \cup Fixing
       \cup Adding \cup Updating \cup Publishing

TypeOK ==
  /\ status \in GameStatus
  /\ maxPlayers \in Capacities
  /\ signup \in [Persons -> Row]
  /\ older \subseteq (Persons \cup Procs) \X (Persons \cup Procs)
  /\ passed \subseteq Milestones
  /\ lock \in Procs \cup {NoProc}
  /\ txn \in [Procs -> Txn]
  /\ granted \subseteq Persons

Init ==
  /\ status = "OPEN"
  /\ maxPlayers \in Capacities
  /\ signup = [u \in Persons |-> "none"]
  /\ older = {}
  /\ passed = {}
  /\ lock = NoProc
  /\ txn = [p \in Procs |-> Idle]
  /\ granted = {}

Holds(p, label) == lock = p /\ txn[p].at = label
Become(p, t)    == txn' = [txn EXCEPT ![p] = t]
Begin(p, op, t) == /\ op \in Ops
                   /\ txn[p] = Idle
                   /\ Become(p, t)

(***************************************************************************)
(* RosterService.join_player                                               *)
(***************************************************************************)

\* process_join, the CLI and /add_player read the user, which opens the
\* transaction; the game is not in the session yet.  admin is ignore_limit.
JoinBegin(p, u, admin) ==
  /\ Begin(p, "join", [at |-> "join", who |-> u, admin |-> admin])
  /\ older' = Entering(p)
  /\ UNCHANGED <<gameVars, signup, lock, granted>>

\* join_game of the API loads the game into the session to ask Telegram
\* whether a non-admin is a member of its chat, before join_player locks it.
ApiJoinBegin(p, u) ==
  /\ Begin(p, "api_join", [at |-> "api_join", who |-> u, admin |-> FALSE,
                           game |-> [status |-> status, max |-> maxPlayers]])
  /\ older' = Entering(p)
  /\ UNCHANGED <<gameVars, signup, lock, granted>>

\* The Game object join_player decides with.  The locking SELECT does not
\* refresh an object the session has already loaded.
SessionGame(p) ==
  IF txn[p].at = "api_join" THEN txn[p].game
                            ELSE [status |-> status, max |-> maxPlayers]

\* The early returns of join_player, in any order: the order only picks the
\* message.
JoinRefusedLimitOffByOne(p) ==
  \/ SessionGame(p).status \notin {"OPEN", "ACTIVE"}
  \/ signup[txn[p].who] # "none"
  \/ "kickoff" \in passed
  \/ ~ txn[p].admin /\ SignupLimit > 0 /\ TotalCount > SignupLimit

JoinRefusedAnyStatus(p) ==
  \/ signup[txn[p].who] # "none"
  \/ "kickoff" \in passed
  \/ ~ txn[p].admin /\ (txn[p].who \in Carded \/ "registration" \in passed)

JoinRefused(p) ==
  \/ SessionGame(p).status \notin {"OPEN", "ACTIVE"}
  \/ signup[txn[p].who] # "none"
  \/ "kickoff" \in passed
  \/ /\ ~ txn[p].admin
     /\ \/ txn[p].who \in Carded
        \/ "registration" \in passed
        \/ SignupLimit > 0 /\ TotalCount >= SignupLimit

\* (mutated: a refusal keeps the row lock)
JoinLockNotReleased(p) ==
  /\ txn[p].at \in {"join", "api_join"}
  /\ lock = NoProc
  /\ lock' = p
  /\ IF JoinRefused(p)
       THEN Become(p, Idle) /\ older' = Leaving(p)
       ELSE /\ Become(p, [at |-> "join_count", who |-> txn[p].who,
                          admin |-> txn[p].admin, game |-> SessionGame(p)])
            /\ UNCHANGED older
  /\ UNCHANGED <<gameVars, signup, granted>>

JoinLock(p) ==
  /\ txn[p].at \in {"join", "api_join"}
  /\ lock = NoProc
  /\ IF JoinRefused(p)
       THEN /\ Become(p, Idle)
            /\ older' = Leaving(p)
            /\ UNCHANGED lock
       ELSE /\ Become(p, [at |-> "join_count", who |-> txn[p].who,
                          admin |-> txn[p].admin, game |-> SessionGame(p)])
            /\ lock' = p
            /\ UNCHANGED older
  /\ UNCHANGED <<gameVars, signup, granted>>

\* (mutated: one place too many, one too few)
JoinCountTooMany(p) ==
  /\ Holds(p, "join_count")
  /\ Become(p, [at |-> "join_insert", who |-> txn[p].who, admin |-> txn[p].admin,
                as |-> IF ActiveCount > txn[p].game.max THEN "RESERVE" ELSE "ACTIVE"])
  /\ UNCHANGED <<gameVars, signup, older, lock, granted>>

JoinCountTooFew(p) ==
  /\ Holds(p, "join_count")
  /\ Become(p, [at |-> "join_insert", who |-> txn[p].who, admin |-> txn[p].admin,
                as |-> IF ActiveCount + 1 >= txn[p].game.max THEN "RESERVE" ELSE "ACTIVE"])
  /\ UNCHANGED <<gameVars, signup, older, lock, granted>>

\* The active signups are counted and the slot is decided.
JoinCount(p) ==
  /\ Holds(p, "join_count")
  /\ Become(p, [at |-> "join_insert", who |-> txn[p].who, admin |-> txn[p].admin,
                as |-> IF ActiveCount >= txn[p].game.max THEN "RESERVE" ELSE "ACTIVE"])
  /\ UNCHANGED <<gameVars, signup, older, lock, granted>>

JoinCommit(p) ==
  /\ Holds(p, "join_insert")
  /\ signup' = [signup EXCEPT ![txn[p].who] = txn[p].as]
  /\ older' = Becoming(p, txn[p].who)
  /\ lock' = NoProc
  /\ Become(p, Idle)
  /\ UNCHANGED <<gameVars, granted>>

(***************************************************************************)
(* RosterService.leave_player: a player's own leave, or a kick (admin).    *)
(***************************************************************************)
LeaveLock(p, u, admin) ==
  /\ lock = NoProc
  /\ signup[u] # "none"
  /\ admin \/ "cancellation" \notin passed
  /\ Begin(p, "leave", [at |-> "leave_delete", who |-> u,
                        vacates |-> signup[u] = "ACTIVE", inherits |-> u \in granted])
  /\ lock' = p
  /\ UNCHANGED <<gameVars, signup, older, granted>>

\* (mutated: no ORDER BY, guests included; a promotion whatever was vacated)
LeaveDeleteAnyReserve(p) ==
  /\ Holds(p, "leave_delete")
  /\ \E heir \in IF txn[p].vacates /\ Waiting \ {txn[p].who} # {}
                 THEN Waiting \ {txn[p].who} ELSE {NoOne} :
       Become(p, [at |-> "leave_commit", who |-> txn[p].who, heir |-> heir,
                  inherits |-> txn[p].inherits])
  /\ UNCHANGED <<gameVars, signup, older, lock, granted>>

LeaveDeleteAlwaysPromotes(p) ==
  /\ Holds(p, "leave_delete")
  /\ \E heirs \in OldestOf(Waiting \ {txn[p].who}, 1) :
       Become(p, [at |-> "leave_commit", who |-> txn[p].who,
                  heir |-> IF heirs # {} THEN CHOOSE r \in heirs : TRUE ELSE NoOne,
                  inherits |-> txn[p].inherits])
  /\ UNCHANGED <<gameVars, signup, older, lock, granted>>

\* The DELETE is flushed and, if u was read as ACTIVE, the first reserve is
\* read; a reserve counts only when it is a registered user.
LeaveDelete(p) ==
  /\ Holds(p, "leave_delete")
  /\ \E heirs \in OldestOf(Waiting \ {txn[p].who}, 1) :
       Become(p, [at |-> "leave_commit", who |-> txn[p].who,
                  heir |-> IF txn[p].vacates /\ heirs # {}
                             THEN CHOOSE r \in heirs : TRUE ELSE NoOne,
                  inherits |-> txn[p].inherits])
  /\ UNCHANGED <<gameVars, signup, older, lock, granted>>

\* The place of a player an organizer had added above the limit passes on
\* to the heir: the promotion does not look at max_players.
LeaveCommit(p) ==
  LET gone == txn[p].who
      heir == txn[p].heir
  IN  /\ Holds(p, "leave_commit")
      /\ signup' = [u \in Persons |-> IF u = gone THEN "none"
                                      ELSE IF u = heir THEN "ACTIVE" ELSE signup[u]]
      /\ granted' = (granted \ {gone}) \cup
                    (IF txn[p].inherits /\ heir # NoOne THEN {heir} ELSE {})
      /\ older' = Leaving(gone)
      /\ lock' = NoProc
      /\ Become(p, Idle)
      /\ UNCHANGED gameVars

(***************************************************************************)
(* release_gk_slots: the job that fills free slots from the reserve.       *)
(***************************************************************************)
\* (mutated: the test for a free slot is dropped)
ReleaseLockUntested(p) ==
  /\ lock = NoProc
  /\ status \in {"OPEN", "ACTIVE"}
  /\ Begin(p, "release", [at |-> "release", slots |-> maxPlayers - ActiveCount])
  /\ lock' = p
  /\ UNCHANGED <<gameVars, signup, older, granted>>

ReleaseLock(p) ==
  /\ lock = NoProc
  /\ status \in {"OPEN", "ACTIVE"}
  /\ ActiveCount < maxPlayers
  /\ Begin(p, "release", [at |-> "release", slots |-> maxPlayers - ActiveCount])
  /\ lock' = p
  /\ UNCHANGED <<gameVars, signup, older, granted>>

\* (mutated: no LIMIT)
ReleasePickAll(p) ==
  /\ Holds(p, "release")
  /\ IF Waiting = {}
       THEN Become(p, Idle) /\ lock' = NoProc
       ELSE Become(p, [at |-> "release_commit", pick |-> Waiting]) /\ UNCHANGED lock
  /\ UNCHANGED <<gameVars, signup, older, granted>>

ReleasePick(p) ==
  /\ Holds(p, "release")
  /\ \E pick \in OldestOf(Waiting, txn[p].slots) :
       IF pick = {}
         THEN Become(p, Idle) /\ lock' = NoProc
         ELSE Become(p, [at |-> "release_commit", pick |-> pick]) /\ UNCHANGED lock
  /\ UNCHANGED <<gameVars, signup, older, granted>>

ReleaseCommit(p) ==
  /\ Holds(p, "release_commit")
  /\ signup' = [u \in Persons |-> IF u \in txn[p].pick THEN "ACTIVE" ELSE signup[u]]
  /\ lock' = NoProc
  /\ Become(p, Idle)
  /\ UNCHANGED <<gameVars, older, granted>>

(***************************************************************************)
(* RosterService.recalculate_roster, the repair of the CLI.                *)
(***************************************************************************)
\* (mutated: the reserves are forgotten)
FixLockActiveOnly(p) ==
  /\ lock = NoProc
  /\ \E main \in OldestOf(Active \cap Players, maxPlayers) :
       LET want == [u \in Persons |-> IF u \notin Active \cup Reserve THEN signup[u]
                                      ELSE IF u \in main THEN "ACTIVE" ELSE "RESERVE"]
       IN  Begin(p, "fix", [at |-> "fix", write |-> Assign(want), main |-> main])
  /\ lock' = p
  /\ UNCHANGED <<gameVars, signup, older, granted>>

FixLock(p) ==
  /\ lock = NoProc
  /\ \E main \in OldestOf((Active \cup Reserve) \cap Players, maxPlayers) :
       LET want == [u \in Persons |-> IF u \notin Active \cup Reserve THEN signup[u]
                                      ELSE IF u \in main THEN "ACTIVE" ELSE "RESERVE"]
       IN  Begin(p, "fix", [at |-> "fix", write |-> Assign(want), main |-> main])
  /\ lock' = p
  /\ UNCHANGED <<gameVars, signup, older, granted>>

FixCommit(p) ==
  /\ Holds(p, "fix")
  /\ signup' = Written(txn[p].write, Persons)
  /\ granted' = {u \in granted \ txn[p].main : signup'[u] = "ACTIVE"}
  /\ lock' = NoProc
  /\ Become(p, Idle)
  /\ UNCHANGED <<gameVars, older>>

(***************************************************************************)
(* The organizers' tools: read, ask Telegram for the caller's rights, and  *)
(* write later, without the game's lock.                                   *)
(***************************************************************************)

\* admin_add_player for a user without a signup, and the two add_guest.
InsertBegin(p, u) ==
  /\ signup[u] = "none"
  /\ Begin(p, "insert", [at |-> "insert", who |-> u])
  /\ older' = Entering(p)
  /\ UNCHANGED <<gameVars, signup, lock, granted>>

\* The foreign key makes the INSERT wait for the game's lock; a signup that
\* has appeared meanwhile breaks unique_signup and the request fails.
InsertCommit(p) ==
  LET u == txn[p].who
  IN  /\ txn[p].at = "insert"
      /\ lock = NoProc
      /\ IF signup[u] = "none"
           THEN /\ signup' = [signup EXCEPT ![u] = "ACTIVE"]
                /\ granted' = granted \cup {u}
                /\ older' = Becoming(p, u)
           ELSE /\ older' = Leaving(p)
                /\ UNCHANGED <<signup, granted>>
      /\ Become(p, Idle)
      /\ UNCHANGED <<gameVars, lock>>

\* Signups are loaded and given the statuses want.
UpdateBegin(p, op, want) ==
  /\ want # signup
  /\ Begin(p, op, [at |-> "update", write |-> Assign(want)])
  /\ UNCHANGED <<gameVars, signup, older, lock, granted>>

\* admin_add_player for a user whose signup is not active.
RestoreBegin(p, u) ==
  /\ signup[u] \in {"RESERVE", "CANCELLED"}
  /\ UpdateBegin(p, "restore", [signup EXCEPT ![u] = "ACTIVE"])

\* update_player_status: any status, for any signup.
StatusBegin(p, u, s) ==
  /\ signup[u] # "none"
  /\ UpdateBegin(p, "status", [signup EXCEPT ![u] = s])

\* RosterService.update_teams: of the active and reserve signups those the
\* organizer placed or listed as unassigned become active, all others
\* reserve.
TeamsBegin(p, playing) ==
  UpdateBegin(p, "teams", [u \in Persons |->
                             IF u \notin Active \cup Reserve THEN signup[u]
                             ELSE IF u \in playing THEN "ACTIVE" ELSE "RESERVE"])

\* An UPDATE waits for the DELETE of its row to commit.  A row deleted
\* before fails the flush (StaleDataError) and with it the transaction; a
\* batch of several rows need not notice and may write the others.
BeingDeleted(u) == \E q \in Procs : txn[q].at = "leave_commit" /\ txn[q].who = u

UpdateCommit(p) ==
  LET write  == txn[p].write
      wanted == {u \in Persons : write[u] # "keep"}
      found  == wanted \cap Present
  IN  /\ txn[p].at = "update"
      /\ \A u \in wanted : ~ BeingDeleted(u)
      /\ \E rows \in {found} \cup (IF found = wanted THEN {} ELSE {{}}) :
           /\ signup' = Written(write, rows)
           /\ granted' = {u \in Persons : /\ signup'[u] = "ACTIVE"
                                          /\ u \in granted \/ signup[u] # "ACTIVE"}
      /\ Become(p, Idle)
      /\ UNCHANGED <<gameVars, older, lock>>

\* update_game: the signups are not looked at again.
UpdateCapacity(m) ==
  /\ "capacity" \in Ops
  /\ lock = NoProc
  /\ m # maxPlayers
  /\ maxPlayers' = m
  /\ granted' = IF m < maxPlayers THEN Active ELSE granted
  /\ UNCHANGED <<status, passed, signup, older, lock, txn>>

\* admin_finish_game.
Finish ==
  /\ "finish" \in Ops
  /\ lock = NoProc
  /\ status # "FINISHED"
  /\ status' = "FINISHED"
  /\ UNCHANGED <<maxPlayers, passed, signup, older, lock, txn, granted>>

\* admin_publish_teams: an OPEN game is made ACTIVE.
PublishBegin(p) ==
  /\ status = "OPEN"
  /\ Begin(p, "publish", [at |-> "publish"])
  /\ UNCHANGED <<gameVars, signup, older, lock, granted>>

PublishCommit(p) ==
  /\ txn[p].at = "publish"
  /\ lock = NoProc
  /\ status' = "ACTIVE"
  /\ Become(p, Idle)
  /\ UNCHANGED <<maxPlayers, passed, signup, older, lock, granted>>

\* The end of the registration window (registration_hours), the start of
\* the window without free cancellation, and the match itself.
TimePasses(i) ==
  /\ i \notin passed
  /\ passed' = passed \cup {i}
  /\ UNCHANGED <<status, maxPlayers, signup, older, lock, txn, granted>>

Step(p) ==
  \/ \E u \in Players : \E admin \in BOOLEAN : JoinBegin(p, u, admin)
  \/ \E u \in Players : ApiJoinBegin(p, u)
  \/ JoinLock(p)
  \/ JoinCount(p)
  \/ JoinCommit(p)
  \/ \E u \in Persons : \E admin \in BOOLEAN : LeaveLock(p, u, admin)
  \/ LeaveDelete(p)
  \/ LeaveCommit(p)
  \/ ReleaseLock(p)
  \/ ReleasePick(p)
  \/ ReleaseCommit(p)
  \/ FixLock(p)
  \/ FixCommit(p)
  \/ \E u \in Persons : InsertBegin(p, u)
  \/ InsertCommit(p)
  \/ \E u \in Persons : RestoreBegin(p, u)
  \/ \E u \in Persons : \E s \in SignupStatus : StatusBegin(p, u, s)
  \/ \E playing \in SUBSET Persons : TeamsBegin(p, playing)
  \/ UpdateCommit(p)
  \/ PublishBegin(p)
  \/ PublishCommit(p)

Next ==
  \/ \E p \in Procs : Step(p)
  \/ \E m \in Capacities : UpdateCapacity(m)
  \/ Finish
  \/ \E i \in Milestones : TimePasses(i)

Spec == Init /\ [][Next]_vars

(***************************************************************************)
(* A request that has begun goes on to its end.  PostgreSQL serves the     *)
(* waiters of a row lock in turn, so what waits for one is strongly fair.  *)
(***************************************************************************)
WaitsForLock(p) ==
  JoinLock(p) \/ InsertCommit(p) \/ UpdateCommit(p) \/ PublishCommit(p)
HoldsLock(p) ==
  \/ JoinCount(p) \/ JoinCommit(p) \/ LeaveDelete(p) \/ LeaveCommit(p)
  \/ ReleasePick(p) \/ ReleaseCommit(p) \/ FixCommit(p)

Served(p)   == SF_vars(WaitsForLock(p))
Finishes(p) == WF_vars(HoldsLock(p))

Fairness == \A p \in Procs : Served(p) /\ Finishes(p)

FairSpec == Spec /\ Fairness

(***************************************************************************)
(* Properties.                                                             *)
(***************************************************************************)

\* Every active signup beyond max_players is one whose place an organizer
\* granted: by adding the person, by setting the status, by lowering
\* max_players under the players already in, or by inheriting such a place
\* (the capacity test of join_player, roster.py:124, and the promotions of
\* leave_player and release_gk_slots, interleaved with the unlocked tools).
WithinCapacity == Cardinality(Active \ granted) <= maxPlayers

\* The inductive invariant behind WithinCapacity, as long as no game is
\* preloaded (api_join): whoever works under the lock has it, a joiner
\* decides with the current max_players, and what a transaction has decided
\* still fits, whatever the unlocked tools commit before it does.  They grant
\* every place they give, so the ungranted signups only shrink meanwhile.
Ungranted == Active \ granted

Locked(t) == t.at \in {"join_count", "join_insert", "leave_delete", "leave_commit",
                       "release", "release_commit", "fix"}

Fits(t) ==
  /\ t.at = "join_insert" /\ t.as = "ACTIVE" => Cardinality(Ungranted) < maxPlayers
  /\ t.at = "leave_delete" /\ t.vacates /\ ~ t.inherits =>
       Cardinality(Ungranted \ {t.who}) < maxPlayers
  /\ t.at = "leave_commit" /\ t.heir # NoOne /\ ~ t.inherits =>
       Cardinality(Ungranted \ {t.who}) < maxPlayers
  /\ t.at = "release" => Cardinality(Ungranted) + t.slots <= maxPlayers
  /\ t.at = "release_commit" =>
       Cardinality(Ungranted) + Cardinality(t.pick) <= maxPlayers
  /\ t.at = "fix" =>
       /\ Cardinality(t.main) <= maxPlayers
       /\ \A u \in Persons \ t.main :
            /\ t.write[u] # "ACTIVE"
            /\ t.write[u] = "keep" /\ signup[u] = "ACTIVE" => u \in granted

CapacityInv ==
  /\ TypeOK
  /\ WithinCapacity
  /\ \A p \in Procs :
       /\ Locked(txn[p]) => lock = p
       /\ txn[p].at # "api_join"
       /\ txn[p].at = "join_count" => txn[p].game.max = maxPlayers
       /\ Fits(txn[p])

\* Nobody who may be promoted waits next to a free slot.  With max_players
\* unchanged no transaction under the lock brings that about, and a release
\* or a repair ends it ("last-minute dropouts stall waitlists" is the problem
\* README.md:26 sets out to solve).
NoIdleSlot == Waiting # {} => ActiveCount >= maxPlayers

KeepsSlotsFilled ==
  [][\/ NoIdleSlot /\ maxPlayers' = maxPlayers
     \/ \E p \in Procs : txn[p].at \in {"release_commit", "fix"} /\ txn'[p] = Idle
     => NoIdleSlot']_vars

\* A player's own join never takes the signups past signup_limit.
RespectsSignupLimit ==
  [][\A p \in Procs :
       /\ SignupLimit > 0
       /\ txn[p].at = "join_insert" /\ ~ txn[p].admin
       /\ txn'[p] = Idle
       => TotalCount' <= SignupLimit]_vars

Promoted == {u \in Persons : signup[u] = "RESERVE" /\ signup'[u] = "ACTIVE"}

\* A leave or a release moves up registered players only, and nobody who
\* signed up later than a registered player it leaves waiting
\* (get_first_reserve, and the same ORDER BY in release_gk_slots).
PromotesOldest ==
  [][\A p \in Procs :
       txn[p].at \in {"leave_commit", "release_commit"} /\ txn'[p] = Idle =>
         /\ Promoted \subseteq Players
         /\ \A u \in Promoted, v \in Waiting \ Promoted :
              signup'[v] = "RESERVE" => <<u, v>> \in older]_vars

\* A signup a join commits is a signup to a game that is open or active at
\* that moment (roster.py:157 "Validates if the game exists and is in an
\* open/active state", under the lock of roster.py:75).
JoinsOpenGame ==
  [][\A p \in Procs :
       txn[p].at = "join_insert" /\ txn'[p] = Idle => status \in {"OPEN", "ACTIVE"}]_vars

\* A release only fills free slots with people who are still waiting
\* (tasks.py:381 "Releases GK reservation atomically under row lock").
ReleaseIsAtomic ==
  [][\A p \in Procs :
       txn[p].at = "release_commit" /\ txn'[p] = Idle =>
         /\ txn[p].pick \subseteq Reserve
         /\ Cardinality(Active') <= maxPlayers]_vars

\* Every request is answered: no early return keeps the game's lock.
Answered == \A p \in Procs : txn[p].at # "idle" ~> txn[p].at = "idle"

\* The repair leaves the oldest registered signups in the main roster.
FixSettles ==
  [][\A p \in Procs :
       txn[p].at = "fix" /\ txn'[p] = Idle =>
         /\ Active' \subseteq Players
         /\ Active' \in OldestOf((Active \cup Reserve) \cap Players, maxPlayers)]_vars

\* The signups as the abstract waitlist sees them, and the promise that with
\* nothing but locked operations in use they behave like it.
List == INSTANCE Waitlist WITH
          People <- Persons, Promotable <- Players, Sizes <- Capacities,
          slots <- maxPlayers, playing <- Active, waiting <- Reserve,
          order <- older \cap (Present \X Present)

ImplementsWaitlist == List!Spec
=============================================================================
