---------------------------- MODULE RosterProofs ----------------------------
(***************************************************************************)
(* Proofs about Roster, for every set of players, guests and transactions, *)
(* every set of capacities and every choice of operations.                 *)
(***************************************************************************)
EXTENDS Roster, FiniteSetTheorems, TLAPS

(***************************************************************************)
(* Facts about the operators Roster is built from.                         *)
(***************************************************************************)

\* What the label of a transaction says about its other fields.
LEMMA TxnFields ==
  ASSUME NEW t \in Txn
  PROVE  /\ t.at \in {"join", "api_join", "join_count", "join_insert"} =>
              t.who \in Players /\ t.admin \in BOOLEAN
         /\ t.at \in {"api_join", "join_count"} => t.game \in GameView
         /\ t.at = "join_insert" => t.as \in {"ACTIVE", "RESERVE"}
         /\ t.at = "leave_delete" =>
              t.who \in Persons /\ t.vacates \in BOOLEAN /\ t.inherits \in BOOLEAN
         /\ t.at = "leave_commit" =>
              /\ t.who \in Persons /\ t.heir \in Players \cup {NoOne}
              /\ t.inherits \in BOOLEAN
         /\ t.at = "release" => t.slots \in Nat \ {0}
         /\ t.at = "release_commit" => t.pick \in SUBSET Players
         /\ t.at = "fix" => t.write \in Writes /\ t.main \in SUBSET Players
         /\ t.at = "insert" => t.who \in Persons
         /\ t.at = "update" => t.write \in Writes
<1>1. CASE t = Idle  BY <1>1 DEF Idle
<1>2. CASE t \in Joining  BY <1>2 DEF Joining
<1>3. CASE t \in ApiJoining  BY <1>3 DEF ApiJoining
<1>4. CASE t \in Counting  BY <1>4 DEF Counting
<1>5. CASE t \in SigningUp  BY <1>5 DEF SigningUp
<1>6. CASE t \in Deleting  BY <1>6 DEF Deleting
<1>7. CASE t \in HandingOn  BY <1>7 DEF HandingOn
<1>8. CASE t \in Releasing  BY <1>8 DEF Releasing
<1>9. CASE t \in Filling  BY <1>9 DEF Filling
<1>10. CASE t \in Fixing  BY <1>10 DEF Fixing
<1>11. CASE t \in Adding  BY <1>11 DEF Adding
<1>12. CASE t \in Updating  BY <1>12 DEF Updating
<1>13. CASE t \in Publishing  BY <1>13 DEF Publishing
<1>. QED
  BY <1>1, <1>2, <1>3, <1>4, <1>5, <1>6, <1>7, <1>8, <1>9, <1>10, <1>11, <1>12, <1>13
     DEF Txn

\* Storing a well-formed transaction keeps txn well-formed.
LEMMA BecomeType ==
  ASSUME NEW p \in Procs, NEW t \in Txn, txn \in [Procs -> Txn], Become(p, t)
  PROVE  txn' \in [Procs -> Txn]
  BY DEF Become

\* The order only ever relates persons and transactions.
LEMMA OrderType ==
  ASSUME older \subseteq (Persons \cup Procs) \X (Persons \cup Procs)
  PROVE  /\ \A p \in Procs : Entering(p) \subseteq (Persons \cup Procs) \X (Persons \cup Procs)
         /\ \A x : Leaving(x) \subseteq (Persons \cup Procs) \X (Persons \cup Procs)
         /\ \A p \in Procs, u \in Persons :
              Becoming(p, u) \subseteq (Persons \cup Procs) \X (Persons \cup Procs)
<1>1. \A p \in Procs : Entering(p) \subseteq (Persons \cup Procs) \X (Persons \cup Procs)
  BY DEF Entering, Dated, Present
<1>2. \A x : Leaving(x) \subseteq (Persons \cup Procs) \X (Persons \cup Procs)
  BY DEF Leaving
<1>3. ASSUME NEW p \in Procs, NEW u \in Persons
      PROVE  Becoming(p, u) \subseteq (Persons \cup Procs) \X (Persons \cup Procs)
  <2>1. \A e \in older : e[1] \in Persons \cup Procs /\ e[2] \in Persons \cup Procs
    OBVIOUS
  <2>. QED  BY <2>1 DEF Becoming
<1>. QED  BY <1>1, <1>2, <1>3

\* A session writes only statuses, and a row it keeps stays as it is.
LEMMA WriteType ==
  ASSUME signup \in [Persons -> Row]
  PROVE  /\ \A want \in [Persons -> Row] :
              (\A u \in Persons : want[u] = "none" => signup[u] = "none")
                => Assign(want) \in Writes
         /\ \A w \in Writes, rows \in SUBSET Persons : Written(w, rows) \in [Persons -> Row]
  BY DEF Assign, Written, Writes, Row, SignupStatus

\* Fewer elements in a part than in the whole.
LEMMA Fewer ==
  ASSUME NEW T \in SUBSET Persons, NEW S \in SUBSET T
  PROVE  /\ IsFiniteSet(S) /\ IsFiniteSet(T)
         /\ Cardinality(S) \in Nat /\ Cardinality(T) \in Nat
         /\ Cardinality(S) <= Cardinality(T)
<1>1. IsFiniteSet(Persons)
  BY PersonsAssumption, FS_Union DEF Persons
<1>2. IsFiniteSet(T) /\ IsFiniteSet(S)
  BY <1>1, FS_Subset
<1>. QED  BY <1>2, FS_Subset, FS_CardinalityType

(***************************************************************************)
(* Type correctness.                                                       *)
(***************************************************************************)
LEMMA InitType == Init => TypeOK
  BY ParametersAssumption
     DEF Init, TypeOK, GameStatus, Row, Active, Txn

LEMMA JoinType ==
  ASSUME TypeOK, NEW p \in Procs
  PROVE  /\ \A u \in Players, admin \in BOOLEAN : JoinBegin(p, u, admin) => TypeOK'
         /\ \A u \in Players : ApiJoinBegin(p, u) => TypeOK'
         /\ JoinLock(p) => TypeOK'
         /\ JoinCount(p) => TypeOK'
         /\ JoinCommit(p) => TypeOK'
<1>1. ASSUME NEW u \in Players, NEW admin \in BOOLEAN, JoinBegin(p, u, admin)
      PROVE  TypeOK'
  <2>1. [at |-> "join", who |-> u, admin |-> admin] \in Txn
    BY DEF Txn, Joining
  <2>. QED
    BY <1>1, <2>1, BecomeType, OrderType
       DEF TypeOK, JoinBegin, Begin, gameVars
<1>2. ASSUME NEW u \in Players, ApiJoinBegin(p, u)
      PROVE  TypeOK'
  <2>1. [status |-> status, max |-> maxPlayers] \in GameView
    BY DEF TypeOK, GameView
  <2>2. [at |-> "api_join", who |-> u, admin |-> FALSE,
         game |-> [status |-> status, max |-> maxPlayers]] \in Txn
    BY <2>1 DEF Txn, ApiJoining
  <2>. QED
    BY <1>2, <2>2, BecomeType, OrderType
       DEF TypeOK, ApiJoinBegin, Begin, gameVars
<1>3. ASSUME JoinLock(p)
      PROVE  TypeOK'
  <2>1. txn[p] \in Txn /\ txn[p].at \in {"join", "api_join"}
    BY <1>3 DEF TypeOK, JoinLock
  <2>2. txn[p].who \in Players /\ txn[p].admin \in BOOLEAN
    BY <2>1, TxnFields
  <2>3. SessionGame(p) \in GameView
    BY <2>1, TxnFields DEF SessionGame, TypeOK, GameView
  <2>4. [at |-> "join_count", who |-> txn[p].who, admin |-> txn[p].admin,
         game |-> SessionGame(p)] \in Txn
    BY <2>2, <2>3 DEF Txn, Counting
  <2>5. Idle \in Txn
    BY DEF Txn
  <2>6. txn' \in [Procs -> Txn]
    BY <1>3, <2>4, <2>5, BecomeType DEF TypeOK, JoinLock
  <2>7. older' \subseteq (Persons \cup Procs) \X (Persons \cup Procs) /\ lock' \in Procs \cup {NoProc}
    BY <1>3, OrderType DEF TypeOK, JoinLock
  <2>. QED
    BY <1>3, <2>6, <2>7 DEF TypeOK, JoinLock, gameVars
<1>4. ASSUME JoinCount(p)
      PROVE  TypeOK'
  <2>1. txn[p] \in Txn /\ txn[p].at = "join_count"
    BY <1>4 DEF TypeOK, JoinCount, Holds
  <2>2. txn[p].who \in Players /\ txn[p].admin \in BOOLEAN
    BY <2>1, TxnFields
  <2>3. [at |-> "join_insert", who |-> txn[p].who, admin |-> txn[p].admin,
         as |-> IF ActiveCount >= txn[p].game.max THEN "RESERVE" ELSE "ACTIVE"] \in Txn
    BY <2>2 DEF Txn, SigningUp
  <2>. QED
    BY <1>4, <2>3, BecomeType DEF TypeOK, JoinCount, gameVars
<1>5. ASSUME JoinCommit(p)
      PROVE  TypeOK'
  <2>1. txn[p] \in Txn /\ txn[p].at = "join_insert"
    BY <1>5 DEF TypeOK, JoinCommit, Holds
  <2>2. txn[p].who \in Persons /\ txn[p].as \in {"ACTIVE", "RESERVE"}
    BY <2>1, TxnFields DEF Persons
  <2>3. Idle \in Txn
    BY DEF Txn
  <2>4. signup' \in [Persons -> Row]
    BY <1>5, <2>2 DEF TypeOK, JoinCommit, Row, SignupStatus
  <2>. QED
    BY <1>5, <2>2, <2>3, <2>4, BecomeType, OrderType
       DEF TypeOK, JoinCommit, gameVars
<1>. QED  BY <1>1, <1>2, <1>3, <1>4, <1>5

LEMMA LeaveType ==
  ASSUME TypeOK, NEW p \in Procs
  PROVE  /\ \A u \in Persons, admin \in BOOLEAN : LeaveLock(p, u, admin) => TypeOK'
         /\ LeaveDelete(p) => TypeOK'
         /\ LeaveCommit(p) => TypeOK'
<1>1. ASSUME NEW u \in Persons, NEW admin \in BOOLEAN, LeaveLock(p, u, admin)
      PROVE  TypeOK'
  <2>1. [at |-> "leave_delete", who |-> u, vacates |-> signup[u] = "ACTIVE",
         inherits |-> u \in granted] \in Txn
    BY DEF Txn, Deleting
  <2>. QED
    BY <1>1, <2>1, BecomeType DEF TypeOK, LeaveLock, Begin, gameVars
<1>2. ASSUME LeaveDelete(p)
      PROVE  TypeOK'
  <2>1. txn[p].who \in Persons /\ txn[p].inherits \in BOOLEAN
    BY <1>2, TxnFields DEF TypeOK, LeaveDelete, Holds
  <2>2. PICK heirs \in OldestOf(Waiting \ {txn[p].who}, 1) :
          Become(p, [at |-> "leave_commit", who |-> txn[p].who,
                     heir |-> IF txn[p].vacates /\ heirs # {}
                                THEN CHOOSE r \in heirs : TRUE ELSE NoOne,
                     inherits |-> txn[p].inherits])
    BY <1>2 DEF LeaveDelete
  <2>3. heirs \subseteq Players
    BY <2>2 DEF OldestOf, Waiting
  <2>4. (IF txn[p].vacates /\ heirs # {} THEN CHOOSE r \in heirs : TRUE ELSE NoOne)
          \in Players \cup {NoOne}
    BY <2>3
  <2>5. [at |-> "leave_commit", who |-> txn[p].who,
         heir |-> IF txn[p].vacates /\ heirs # {}
                    THEN CHOOSE r \in heirs : TRUE ELSE NoOne,
         inherits |-> txn[p].inherits] \in Txn
    BY <2>1, <2>4 DEF Txn, HandingOn
  <2>. QED
    BY <1>2, <2>2, <2>5, BecomeType DEF TypeOK, LeaveDelete, gameVars
<1>3. ASSUME LeaveCommit(p)
      PROVE  TypeOK'
  <2>1. txn[p].who \in Persons /\ txn[p].heir \in Players \cup {NoOne}
    BY <1>3, TxnFields DEF TypeOK, LeaveCommit, Holds
  <2>2. Idle \in Txn
    BY DEF Txn
  <2>3. signup' \in [Persons -> Row]
    BY <1>3 DEF TypeOK, LeaveCommit, Row, SignupStatus
  <2>4. granted' \subseteq Persons
    BY <1>3, <2>1 DEF TypeOK, LeaveCommit, Persons
  <2>. QED
    BY <1>3, <2>2, <2>3, <2>4, BecomeType, OrderType DEF TypeOK, LeaveCommit, gameVars
<1>. QED  BY <1>1, <1>2, <1>3

\* Counting the active signups gives a number.
LEMMA ActiveNat == ActiveCount \in Nat
  BY Fewer DEF ActiveCount, Active

LEMMA ReleaseType ==
  ASSUME TypeOK, NEW p \in Procs
  PROVE  /\ ReleaseLock(p) => TypeOK'
         /\ ReleasePick(p) => TypeOK'
         /\ ReleaseCommit(p) => TypeOK'
<1>1. ASSUME ReleaseLock(p)
      PROVE  TypeOK'
  <2>1. maxPlayers \in Nat /\ ActiveCount < maxPlayers
    BY <1>1, ParametersAssumption DEF TypeOK, ReleaseLock
  <2>2. maxPlayers - ActiveCount \in Nat \ {0}
    BY <2>1, ActiveNat
  <2>3. [at |-> "release", slots |-> maxPlayers - ActiveCount] \in Txn
    BY <2>2 DEF Txn, Releasing
  <2>. QED
    BY <1>1, <2>3, BecomeType DEF TypeOK, ReleaseLock, Begin, gameVars
<1>2. ASSUME ReleasePick(p)
      PROVE  TypeOK'
  <2>1. PICK pick \in OldestOf(Waiting, txn[p].slots) :
          IF pick = {}
            THEN Become(p, Idle) /\ lock' = NoProc
            ELSE Become(p, [at |-> "release_commit", pick |-> pick]) /\ UNCHANGED lock
    BY <1>2 DEF ReleasePick
  <2>2. pick \in SUBSET Players
    BY <2>1 DEF OldestOf, Waiting
  <2>3. [at |-> "release_commit", pick |-> pick] \in Txn
    BY <2>2 DEF Txn, Filling
  <2>4. Idle \in Txn
    BY DEF Txn
  <2>5. txn' \in [Procs -> Txn] /\ lock' \in Procs \cup {NoProc}
    BY <2>1, <2>3, <2>4, BecomeType DEF TypeOK
  <2>. QED
    BY <1>2, <2>5 DEF TypeOK, ReleasePick, gameVars
<1>3. ASSUME ReleaseCommit(p)
      PROVE  TypeOK'
  <2>1. Idle \in Txn
    BY DEF Txn
  <2>2. signup' \in [Persons -> Row]
    BY <1>3 DEF TypeOK, ReleaseCommit, Row, SignupStatus
  <2>. QED
    BY <1>3, <2>1, <2>2, BecomeType DEF TypeOK, ReleaseCommit, gameVars
<1>. QED  BY <1>1, <1>2, <1>3

LEMMA FixType ==
  ASSUME TypeOK, NEW p \in Procs
  PROVE  /\ FixLock(p) => TypeOK'
         /\ FixCommit(p) => TypeOK'
<1>1. ASSUME FixLock(p)
      PROVE  TypeOK'
  <2> DEFINE Want(main) == [u \in Persons |->
                              IF u \notin Active \cup Reserve THEN signup[u]
                              ELSE IF u \in main THEN "ACTIVE" ELSE "RESERVE"]
  <2>1. PICK main \in OldestOf((Active \cup Reserve) \cap Players, maxPlayers) :
          Begin(p, "fix", [at |-> "fix", write |-> Assign(Want(main)), main |-> main])
    BY <1>1 DEF FixLock
  <2>2. main \in SUBSET Players
    BY <2>1 DEF OldestOf
  <2>3. /\ Want(main) \in [Persons -> Row]
        /\ \A u \in Persons : Want(main)[u] = "none" => signup[u] = "none"
    BY DEF TypeOK, Row, SignupStatus
  <2>4. Assign(Want(main)) \in Writes
    BY <2>3, WriteType DEF TypeOK
  <2> HIDE DEF Want
  <2>5. [at |-> "fix", write |-> Assign(Want(main)), main |-> main] \in Txn
    BY <2>2, <2>4 DEF Txn, Fixing
  <2>6. txn' \in [Procs -> Txn]
    BY <2>1, <2>5, BecomeType DEF TypeOK, Begin
  <2>. QED
    BY <1>1, <2>6 DEF TypeOK, FixLock, gameVars
<1>2. ASSUME FixCommit(p)
      PROVE  TypeOK'
  <2>1. Idle \in Txn
    BY DEF Txn
  <2>2. txn[p].write \in Writes
    BY <1>2, TxnFields DEF TypeOK, FixCommit, Holds
  <2>3. signup' \in [Persons -> Row]
    BY <1>2, <2>2, WriteType DEF TypeOK, FixCommit
  <2>4. granted' \subseteq Persons
    BY <1>2 DEF TypeOK, FixCommit
  <2>. QED
    BY <1>2, <2>1, <2>3, <2>4, BecomeType DEF TypeOK, FixCommit, gameVars
<1>. QED  BY <1>1, <1>2

\* The transactions of the organizers' tools.
LEMMA UpdateBeginType ==
  ASSUME TypeOK, NEW p \in Procs, NEW op, NEW want \in [Persons -> Row],
         \A u \in Persons : want[u] = "none" => signup[u] = "none",
         UpdateBegin(p, op, want)
  PROVE  TypeOK'
<1>1. Assign(want) \in Writes
  BY WriteType DEF TypeOK
<1>2. [at |-> "update", write |-> Assign(want)] \in Txn
  BY <1>1 DEF Txn, Updating
<1>. QED
  BY <1>2, BecomeType DEF TypeOK, UpdateBegin, Begin, gameVars

LEMMA ToolType ==
  ASSUME TypeOK, NEW p \in Procs
  PROVE  /\ \A u \in Persons : InsertBegin(p, u) => TypeOK'
         /\ InsertCommit(p) => TypeOK'
         /\ \A u \in Persons : RestoreBegin(p, u) => TypeOK'
         /\ \A u \in Persons, s \in SignupStatus : StatusBegin(p, u, s) => TypeOK'
         /\ \A playing \in SUBSET Persons : TeamsBegin(p, playing) => TypeOK'
         /\ UpdateCommit(p) => TypeOK'
         /\ PublishBegin(p) => TypeOK'
         /\ PublishCommit(p) => TypeOK'
<1>0. Idle \in Txn
  BY DEF Txn
<1>1. ASSUME NEW u \in Persons, InsertBegin(p, u)
      PROVE  TypeOK'
  <2>1. [at |-> "insert", who |-> u] \in Txn
    BY DEF Txn, Adding
  <2>. QED
    BY <1>1, <2>1, BecomeType, OrderType DEF TypeOK, InsertBegin, Begin, gameVars
<1>2. ASSUME InsertCommit(p)
      PROVE  TypeOK'
  <2>1. txn[p].who \in Persons
    BY <1>2, TxnFields DEF TypeOK, InsertCommit
  <2>2. signup' \in [Persons -> Row] /\ granted' \subseteq Persons
    BY <1>2, <2>1 DEF TypeOK, InsertCommit, Row, SignupStatus
  <2>3. older' \subseteq (Persons \cup Procs) \X (Persons \cup Procs)
    BY <1>2, <2>1, OrderType DEF TypeOK, InsertCommit
  <2>. QED
    BY <1>0, <1>2, <2>2, <2>3, BecomeType DEF TypeOK, InsertCommit, gameVars
<1>3. ASSUME NEW u \in Persons, RestoreBegin(p, u)
      PROVE  TypeOK'
  <2> DEFINE want == [signup EXCEPT ![u] = "ACTIVE"]
  <2>1. /\ want \in [Persons -> Row]
        /\ \A v \in Persons : want[v] = "none" => signup[v] = "none"
    BY DEF TypeOK, Row, SignupStatus
  <2>2. UpdateBegin(p, "restore", want)
    BY <1>3 DEF RestoreBegin
  <2> HIDE DEF want
  <2>. QED  BY <2>1, <2>2, UpdateBeginType
<1>4. ASSUME NEW u \in Persons, NEW s \in SignupStatus, StatusBegin(p, u, s)
      PROVE  TypeOK'
  <2> DEFINE want == [signup EXCEPT ![u] = s]
  <2>1. /\ want \in [Persons -> Row]
        /\ \A v \in Persons : want[v] = "none" => signup[v] = "none"
    BY DEF TypeOK, Row, SignupStatus
  <2>2. UpdateBegin(p, "status", want)
    BY <1>4 DEF StatusBegin
  <2> HIDE DEF want
  <2>. QED  BY <2>1, <2>2, UpdateBeginType
<1>5. ASSUME NEW playing \in SUBSET Persons, TeamsBegin(p, playing)
      PROVE  TypeOK'
  <2> DEFINE want == [u \in Persons |->
                        IF u \notin Active \cup Reserve THEN signup[u]
                        ELSE IF u \in playing THEN "ACTIVE" ELSE "RESERVE"]
  <2>1. /\ want \in [Persons -> Row]
        /\ \A u \in Persons : want[u] = "none" => signup[u] = "none"
    BY DEF TypeOK, Row, SignupStatus
  <2>2. UpdateBegin(p, "teams", want)
    BY <1>5 DEF TeamsBegin
  <2> HIDE DEF want
  <2>. QED  BY <2>1, <2>2, UpdateBeginType
<1>6. ASSUME UpdateCommit(p)
      PROVE  TypeOK'
  <2>1. txn[p].write \in Writes
    BY <1>6, TxnFields DEF TypeOK, UpdateCommit
  <2>2. PICK rows \in SUBSET Persons : signup' = Written(txn[p].write, rows)
    BY <1>6 DEF UpdateCommit, Present
  <2>3. signup' \in [Persons -> Row]
    BY <2>1, <2>2, WriteType DEF TypeOK
  <2>4. granted' \subseteq Persons
    BY <1>6 DEF UpdateCommit
  <2>. QED
    BY <1>0, <1>6, <2>3, <2>4, BecomeType DEF TypeOK, UpdateCommit, gameVars
<1>7. ASSUME PublishBegin(p)
      PROVE  TypeOK'
  <2>1. [at |-> "publish"] \in Txn
    BY DEF Txn, Publishing
  <2>. QED
    BY <1>7, <2>1, BecomeType DEF TypeOK, PublishBegin, Begin, gameVars
<1>8. ASSUME PublishCommit(p)
      PROVE  TypeOK'
  BY <1>0, <1>8, BecomeType DEF TypeOK, PublishCommit, GameStatus
<1>. QED  BY <1>1, <1>2, <1>3, <1>4, <1>5, <1>6, <1>7, <1>8

LEMMA NextType == TypeOK /\ [Next]_vars => TypeOK'
<1>1. ASSUME TypeOK, NEW p \in Procs, Step(p)
      PROVE  TypeOK'
  BY <1>1, JoinType, LeaveType, ReleaseType, FixType, ToolType DEF Step
<1>2. ASSUME TypeOK, NEW m \in Capacities, UpdateCapacity(m)
      PROVE  TypeOK'
  BY <1>2 DEF TypeOK, UpdateCapacity, Active
<1>3. ASSUME TypeOK, Finish
      PROVE  TypeOK'
  BY <1>3 DEF TypeOK, Finish, GameStatus
<1>4. ASSUME TypeOK, NEW i \in Milestones, TimePasses(i)
      PROVE  TypeOK'
  BY <1>4 DEF TypeOK, TimePasses
<1>5. ASSUME TypeOK, UNCHANGED vars
      PROVE  TypeOK'
  BY <1>5 DEF TypeOK, vars, gameVars
<1>. QED  BY <1>1, <1>2, <1>3, <1>4, <1>5 DEF Next

\* The state of a game's signups and of the transactions at work on them is
\* always well formed; in particular a release that has taken the lock has
\* at least one free slot to fill.
THEOREM Typing == Spec => []TypeOK
<1>1. Init => TypeOK
  BY InitType
<1>2. TypeOK /\ [Next]_vars => TypeOK'
  BY NextType
<1>. QED  BY <1>1, <1>2, PTL DEF Spec

(***************************************************************************)
(* The places of a game: every active signup beyond max_players is one an  *)
(* organizer granted, however the requests interleave, provided that no    *)
(* join decides with a preloaded game.                                     *)
(***************************************************************************)

\* Whoever is active and was not before, or was granted a place and still
\* has it, is granted: what a transaction without the lock does.
GrantsWhatItGives ==
  \A u \in Persons :
    signup'[u] = "ACTIVE" => u \in granted' \/ (signup[u] = "ACTIVE" /\ u \notin granted)

LEMMA Parameters ==
  ASSUME TypeOK
  PROVE  maxPlayers \in Nat \ {0} /\ NoProc \notin Procs /\ NoOne \notin Persons
  BY ParametersAssumption, PersonsAssumption DEF TypeOK

\* Counting ungranted signups.
LEMMA UngrantedFinite ==
  /\ IsFiniteSet(Ungranted) /\ Cardinality(Ungranted) \in Nat
  /\ \A S \in SUBSET Persons : IsFiniteSet(S) /\ Cardinality(S) \in Nat
  /\ \A S \in SUBSET Persons : \A T \in SUBSET S : Cardinality(T) <= Cardinality(S)
  /\ \A S \in SUBSET Persons : \A u : Cardinality(S \cup {u}) <= Cardinality(S) + 1
<1>1. Ungranted \in SUBSET Persons
  BY DEF Ungranted, Active
<1>2. \A S \in SUBSET Persons : IsFiniteSet(S) /\ Cardinality(S) \in Nat
  BY Fewer
<1>3. \A S \in SUBSET Persons : \A T \in SUBSET S : Cardinality(T) <= Cardinality(S)
  BY Fewer
<1>4. ASSUME NEW S \in SUBSET Persons, NEW u
      PROVE  Cardinality(S \cup {u}) <= Cardinality(S) + 1
  <2>1. Cardinality(S \cup {u}) = IF u \in S THEN Cardinality(S) ELSE Cardinality(S) + 1
    BY <1>2, FS_AddElement
  <2>. QED  BY <1>2, <2>1
<1>. QED  BY <1>1, <1>2, <1>3, <1>4

\* A step that grants what it gives leaves no new ungranted signup.
LEMMA UngrantedShrinks ==
  ASSUME GrantsWhatItGives
  PROVE  /\ Ungranted' \subseteq Ungranted
         /\ Cardinality(Ungranted') <= Cardinality(Ungranted)
         /\ Cardinality(Ungranted') \in Nat
<1>1. Ungranted' \subseteq Ungranted
  BY DEF GrantsWhatItGives, Ungranted, Active
<1>2. Ungranted \in SUBSET Persons
  BY DEF Ungranted, Active
<1>. QED  BY <1>1, <1>2, UngrantedFinite

\* What a transaction has decided still fits after such a step.
LEMMA StillFits ==
  ASSUME TypeOK, GrantsWhatItGives, maxPlayers' = maxPlayers,
         NEW t \in Txn, Fits(t)
  PROVE  Fits(t)'
<1>0. maxPlayers \in Nat
  BY Parameters
<1>1. /\ Ungranted' \subseteq Ungranted
      /\ Cardinality(Ungranted') <= Cardinality(Ungranted)
      /\ Cardinality(Ungranted') \in Nat /\ Cardinality(Ungranted) \in Nat
  BY UngrantedShrinks, UngrantedFinite
<1>2. \A u : /\ Cardinality(Ungranted' \ {u}) <= Cardinality(Ungranted \ {u})
             /\ Cardinality(Ungranted' \ {u}) \in Nat
             /\ Cardinality(Ungranted \ {u}) \in Nat
  <2>1. \A u : /\ Ungranted \ {u} \in SUBSET Persons
               /\ Ungranted' \ {u} \in SUBSET (Ungranted \ {u})
               /\ Ungranted' \ {u} \in SUBSET Persons
    BY <1>1 DEF Ungranted, Active
  <2>. QED  BY <2>1, UngrantedFinite
<1>3. CASE t.at = "join_insert"
  BY <1>0, <1>1, <1>3 DEF Fits
<1>4. CASE t.at \in {"leave_delete", "leave_commit"}
  <2> DEFINE before == Cardinality(Ungranted \ {t.who})
             after  == Cardinality(Ungranted' \ {t.who})
  <2>1. after <= before /\ after \in Nat /\ before \in Nat
    BY <1>2
  <2> HIDE DEF before, after
  <2>2. before < maxPlayers => after < maxPlayers
    BY <1>0, <2>1
  <2>3. Cardinality(Ungranted \ {t.who}) < maxPlayers =>
          Cardinality(Ungranted' \ {t.who}) < maxPlayers'
    BY <2>2 DEF before, after
  <2>. QED  BY <1>4, <2>3, Zenon DEF Fits
<1>5. CASE t.at = "release"
  <2>1. t.slots \in Nat
    BY <1>5, TxnFields
  <2>. QED  BY <1>0, <1>1, <1>5, <2>1 DEF Fits
<1>6. CASE t.at = "release_commit"
  <2>1. t.pick \in SUBSET Persons
    BY <1>6, TxnFields DEF Persons
  <2>2. Cardinality(t.pick) \in Nat
    BY <2>1, UngrantedFinite
  <2>. QED  BY <1>0, <1>1, <1>6, <2>2 DEF Fits
<1>7. CASE t.at = "fix"
  BY <1>7 DEF Fits, GrantsWhatItGives
<1>8. CASE t.at \notin {"join_insert", "leave_delete", "leave_commit", "release",
                        "release_commit", "fix"}
  BY <1>8 DEF Fits
<1>. QED  BY <1>3, <1>4, <1>5, <1>6, <1>7, <1>8

\* Nothing is asked of a transaction that does not work under the lock.
LEMMA UnlockedFits ==
  ASSUME NEW t, ~ Locked(t)
  PROVE  Fits(t) /\ Fits(t)'
  BY DEF Locked, Fits

\* The part of CapacityInv that concerns one transaction.
Sound(t, p) ==
  /\ Locked(t) => lock = p
  /\ t.at # "api_join"
  /\ t.at = "join_count" => t.game.max = maxPlayers
  /\ Fits(t)

LEMMA CapacityParts ==
  CapacityInv <=> TypeOK /\ WithinCapacity /\ \A p \in Procs : Sound(txn[p], p)
  BY DEF CapacityInv, Sound

\* A step of p that leaves max_players alone is judged by what it does to
\* the ungranted signups and by the state it leaves p in; the others are
\* safe if it grants what it gives, or if it had the lock.
LEMMA StepOfOne ==
  ASSUME CapacityInv, TypeOK', NEW p \in Procs, NEW t \in Txn, Become(p, t),
         maxPlayers' = maxPlayers,
         GrantsWhatItGives \/ lock = p,
         lock' = lock \/ lock \in {p, NoProc},
         WithinCapacity', Sound(t, p)'
  PROVE  CapacityInv'
<1>1. txn' = [txn EXCEPT ![p] = t] /\ txn \in [Procs -> Txn]
  BY DEF Become, CapacityInv, TypeOK
<1>2. ASSUME NEW q \in Procs, q # p
      PROVE  Sound(txn[q], q)'
  <2>1. txn'[q] = txn[q] /\ txn[q] \in Txn
    BY <1>1, <1>2
  <2>2. Sound(txn[q], q)
    BY CapacityParts
  <2>3. CASE GrantsWhatItGives
    <3>1. Fits(txn[q])'
      <4>1. \A s \in Txn : Fits(s) => Fits(s)'
        BY <2>3, StillFits DEF CapacityInv
      <4>. QED  BY <2>1, <2>2, <4>1 DEF Sound, Fits
    <3>2. Locked(txn[q]) => lock' = q
      BY <1>2, <2>2, Parameters DEF Sound, CapacityInv
    <3>. QED  BY <2>1, <2>2, <3>1, <3>2 DEF Sound, Locked
  <2>4. CASE lock = p
    <3>1. ~ Locked(txn[q])
      BY <1>2, <2>2, <2>4 DEF Sound
    <3>. QED  BY <2>1, <2>2, <3>1 DEF Sound, Locked, Fits
  <2>. QED  BY <2>3, <2>4
<1>3. Sound(txn[p], p)'
  <2>1. txn'[p] = t
    BY <1>1
  <2>. QED  BY <2>1 DEF Sound, Locked, Fits
<1>. QED  BY <1>2, <1>3, CapacityParts DEF CapacityInv, Sound

(***************************************************************************)
(* The invariant holds initially and every step preserves it.              *)
(***************************************************************************)
LEMMA CapacityInit == Init => CapacityInv
<1>. SUFFICES ASSUME Init
              PROVE  CapacityInv
  OBVIOUS
<1>1. TypeOK
  BY InitType
<1>2. WithinCapacity
  <2>1. Active \ granted = {}
    BY DEF Init, Active
  <2>. QED  BY <1>1, <2>1, Parameters, FS_EmptySet DEF WithinCapacity
<1>3. ASSUME NEW p \in Procs
      PROVE  Sound(txn[p], p)
  BY DEF Init, Idle, Sound, Locked, Fits
<1>. QED  BY <1>1, <1>2, <1>3, CapacityParts

\* Steps that change no signup and no grant: what is left to show is that p
\* is in a sound state afterwards.
LEMMA QuietCapacity ==
  ASSUME CapacityInv, TypeOK', NEW p \in Procs, NEW t \in Txn, Become(p, t),
         maxPlayers' = maxPlayers, signup' = signup, granted' = granted,
         lock' = lock \/ lock \in {p, NoProc},
         Sound(t, p)'
  PROVE  CapacityInv'
<1>1. GrantsWhatItGives
  BY DEF GrantsWhatItGives
<1>2. WithinCapacity'
  BY DEF CapacityInv, WithinCapacity, Active
<1>. QED  BY <1>1, <1>2, StepOfOne

LEMMA IdleSound ==
  ASSUME NEW p \in Procs
  PROVE  Idle \in Txn /\ Sound(Idle, p) /\ Sound(Idle, p)'
  BY DEF Txn, Idle, Sound, Locked, Fits

LEMMA JoinCapacity ==
  ASSUME CapacityInv, TypeOK', NEW p \in Procs
  PROVE  /\ \A u \in Players, admin \in BOOLEAN : JoinBegin(p, u, admin) => CapacityInv'
         /\ JoinLock(p) => CapacityInv'
         /\ JoinCount(p) => CapacityInv'
         /\ JoinCommit(p) => CapacityInv'
<1>0. TypeOK /\ Sound(txn[p], p) /\ txn[p] \in Txn
  BY CapacityParts DEF TypeOK
<1>1. ASSUME NEW u \in Players, NEW admin \in BOOLEAN, JoinBegin(p, u, admin)
      PROVE  CapacityInv'
  <2> DEFINE t == [at |-> "join", who |-> u, admin |-> admin]
  <2>1. t \in Txn
    BY DEF Txn, Joining
  <2>2. Sound(t, p)'
    BY DEF Sound, Locked, Fits
  <2> HIDE DEF t
  <2>. QED
    BY <1>1, <2>1, <2>2, QuietCapacity DEF JoinBegin, Begin, gameVars, t
<1>2. ASSUME JoinLock(p)
      PROVE  CapacityInv'
  <2>1. CASE JoinRefused(p)
    BY <1>2, <2>1, IdleSound, QuietCapacity DEF JoinLock, gameVars
  <2>2. CASE ~ JoinRefused(p)
    <3> DEFINE game == [status |-> status, max |-> maxPlayers]
               rec  == [at |-> "join_count", who |-> txn[p].who,
                        admin |-> txn[p].admin, game |-> game]
    <3>1. txn[p].at = "join" /\ lock = NoProc
      BY <1>0, <1>2 DEF JoinLock, Sound
    <3>2. SessionGame(p) = game
      BY <3>1 DEF SessionGame
    <3>3. rec \in Txn
      <4>1. game \in GameView
        BY <1>0 DEF TypeOK, GameView
      <4>2. txn[p].who \in Players /\ txn[p].admin \in BOOLEAN
        BY <1>0, <3>1, TxnFields
      <4> HIDE DEF game
      <4>. QED  BY <4>1, <4>2 DEF Txn, Counting
    <3>4. PICK t \in Txn : t = rec
      BY <3>3
    <3>5. lock' = p /\ Become(p, t) /\ maxPlayers' = maxPlayers
      BY <1>2, <2>2, <3>2, <3>4 DEF JoinLock, gameVars
    <3>6. t.at = "join_count" /\ t.game.max = maxPlayers
      BY <3>4
    <3>7. Sound(t, p)'
      BY <3>5, <3>6 DEF Sound, Locked, Fits
    <3>. QED
      BY <1>2, <3>1, <3>5, <3>7, QuietCapacity DEF JoinLock, gameVars
  <2>. QED  BY <2>1, <2>2
<1>3. ASSUME JoinCount(p)
      PROVE  CapacityInv'
  <2> DEFINE as == IF ActiveCount >= txn[p].game.max THEN "RESERVE" ELSE "ACTIVE"
             rec == [at |-> "join_insert", who |-> txn[p].who, admin |-> txn[p].admin,
                     as |-> as]
  <2>1. lock = p /\ txn[p].at = "join_count" /\ txn[p].game.max = maxPlayers
    BY <1>0, <1>3 DEF JoinCount, Holds, Sound
  <2>2. rec \in Txn
    <3>1. txn[p].who \in Players /\ txn[p].admin \in BOOLEAN
      BY <1>0, <2>1, TxnFields
    <3>. QED  BY <3>1 DEF Txn, SigningUp
  <2>3. as = "ACTIVE" => Cardinality(Ungranted) < maxPlayers
    <3>1. Active \in SUBSET Persons /\ Ungranted \in SUBSET Active
      BY DEF Ungranted, Active
    <3>2. Cardinality(Ungranted) <= ActiveCount /\ ActiveCount \in Nat
      BY <3>1, UngrantedFinite DEF ActiveCount
    <3>. QED  BY <1>0, <2>1, <3>2, UngrantedFinite, Parameters
  <2>4. PICK t \in Txn : t = rec
    BY <2>2
  <2>5. /\ maxPlayers' = maxPlayers /\ Ungranted' = Ungranted /\ lock' = p
        /\ Become(p, t) /\ signup' = signup /\ granted' = granted
    BY <1>3, <2>1, <2>4 DEF JoinCount, gameVars, Ungranted, Active
  <2>6. t.at = "join_insert" /\ (t.as = "ACTIVE" => Cardinality(Ungranted) < maxPlayers)
    BY <2>3, <2>4
  <2>7. Sound(t, p)'
    BY <2>5, <2>6 DEF Sound, Locked, Fits
  <2>. QED  BY <2>1, <2>5, <2>7, QuietCapacity
<1>4. ASSUME JoinCommit(p)
      PROVE  CapacityInv'
  <2>1. lock = p /\ txn[p].at = "join_insert" /\ maxPlayers' = maxPlayers
    BY <1>4 DEF JoinCommit, Holds, gameVars
  <2>2. txn[p].who \in Persons /\ txn[p].as \in {"ACTIVE", "RESERVE"}
    BY <1>0, <2>1, TxnFields DEF Persons
  <2>3. signup' = [signup EXCEPT ![txn[p].who] = txn[p].as] /\ granted' = granted
    BY <1>4 DEF JoinCommit
  <2>4. ASSUME txn[p].as = "RESERVE"
        PROVE  WithinCapacity'
    <3>1. Ungranted' \in SUBSET Ungranted /\ Ungranted \in SUBSET Persons
      BY <1>0, <2>2, <2>3, <2>4 DEF Ungranted, Active, TypeOK
    <3>2. Cardinality(Ungranted') <= Cardinality(Ungranted) /\ Cardinality(Ungranted') \in Nat
      BY <3>1, UngrantedFinite
    <3>. QED
      BY <1>0, <2>1, <3>2, UngrantedFinite, Parameters
         DEF CapacityInv, WithinCapacity, Ungranted
  <2>5. ASSUME txn[p].as = "ACTIVE"
        PROVE  WithinCapacity'
    <3>1. /\ Ungranted' \in SUBSET (Ungranted \cup {txn[p].who})
          /\ Ungranted \cup {txn[p].who} \in SUBSET Persons
      BY <1>0, <2>2, <2>3, <2>5 DEF Ungranted, Active, TypeOK
    <3>2. /\ Cardinality(Ungranted') <= Cardinality(Ungranted \cup {txn[p].who})
          /\ Cardinality(Ungranted \cup {txn[p].who}) <= Cardinality(Ungranted) + 1
          /\ Cardinality(Ungranted') \in Nat /\ Cardinality(Ungranted) \in Nat
          /\ Cardinality(Ungranted \cup {txn[p].who}) \in Nat
      <4>1. Ungranted \in SUBSET Persons
        BY DEF Ungranted, Active
      <4>. QED  BY <3>1, <4>1, UngrantedFinite
    <3>3. Cardinality(Ungranted) < maxPlayers
      BY <1>0, <2>1, <2>5 DEF Sound, Fits
    <3>. QED
      BY <1>0, <2>1, <3>2, <3>3, Parameters DEF WithinCapacity, Ungranted
  <2>6. WithinCapacity'
    BY <2>2, <2>4, <2>5
  <2>. QED
    BY <1>4, <2>1, <2>6, IdleSound, StepOfOne DEF JoinCommit
<1>. QED  BY <1>1, <1>2, <1>3, <1>4

LEMMA LeaveCapacity ==
  ASSUME CapacityInv, TypeOK', NEW p \in Procs
  PROVE  /\ \A u \in Persons, admin \in BOOLEAN : LeaveLock(p, u, admin) => CapacityInv'
         /\ LeaveDelete(p) => CapacityInv'
         /\ LeaveCommit(p) => CapacityInv'
<1>0. TypeOK /\ Sound(txn[p], p) /\ txn[p] \in Txn
  BY CapacityParts DEF TypeOK
<1>1. ASSUME NEW u \in Persons, NEW admin \in BOOLEAN, LeaveLock(p, u, admin)
      PROVE  CapacityInv'
  <2> DEFINE rec == [at |-> "leave_delete", who |-> u, vacates |-> signup[u] = "ACTIVE",
                     inherits |-> u \in granted]
  <2>1. PICK t \in Txn : t = rec
    <3>1. rec \in Txn
      BY DEF Txn, Deleting
    <3>. QED  BY <3>1
  <2>2. /\ maxPlayers' = maxPlayers /\ signup' = signup /\ granted' = granted
        /\ lock = NoProc /\ lock' = p /\ Become(p, t)
    BY <1>1, <2>1 DEF LeaveLock, Begin, gameVars
  <2>3. ASSUME t.vacates, ~ t.inherits
        PROVE  Cardinality(Ungranted \ {u}) < maxPlayers
    <3>1. u \in Ungranted
      BY <2>1, <2>3 DEF Ungranted, Active
    <3>2. Cardinality(Ungranted \ {u}) = Cardinality(Ungranted) - 1
      BY <3>1, UngrantedFinite, FS_RemoveElement
    <3>. QED
      BY <1>0, <3>2, UngrantedFinite, Parameters DEF CapacityInv, WithinCapacity, Ungranted
  <2>4. t.at = "leave_delete" /\ t.who = u
    BY <2>1
  <2>5. Ungranted' = Ungranted
    BY <2>2 DEF Ungranted, Active
  <2>6. Sound(t, p)'
    BY <2>2, <2>3, <2>4, <2>5 DEF Sound, Locked, Fits
  <2>. QED  BY <2>2, <2>6, QuietCapacity
<1>2. ASSUME LeaveDelete(p)
      PROVE  CapacityInv'
  <2>1. lock = p /\ txn[p].at = "leave_delete"
    BY <1>2 DEF LeaveDelete, Holds
  <2>2. PICK heirs \in OldestOf(Waiting \ {txn[p].who}, 1) :
          Become(p, [at |-> "leave_commit", who |-> txn[p].who,
                     heir |-> IF txn[p].vacates /\ heirs # {}
                                THEN CHOOSE r \in heirs : TRUE ELSE NoOne,
                     inherits |-> txn[p].inherits])
    BY <1>2 DEF LeaveDelete
  <2> DEFINE heir == IF txn[p].vacates /\ heirs # {}
                       THEN CHOOSE r \in heirs : TRUE ELSE NoOne
             rec  == [at |-> "leave_commit", who |-> txn[p].who, heir |-> heir,
                      inherits |-> txn[p].inherits]
  <2>3. heir \in Players \cup {NoOne} /\ (heir # NoOne => txn[p].vacates)
    <3>1. heirs \subseteq Players
      BY <2>2 DEF OldestOf, Waiting
    <3>. QED  BY <3>1
  <2>4. Become(p, rec)
    BY <2>2
  <2> HIDE DEF heir
  <2>5. PICK t \in Txn : t = rec
    <3>1. txn[p].who \in Persons /\ txn[p].inherits \in BOOLEAN
      BY <1>0, <2>1, TxnFields
    <3>2. rec \in Txn
      BY <2>3, <3>1 DEF Txn, HandingOn
    <3>. QED  BY <3>2
  <2>6. /\ maxPlayers' = maxPlayers /\ signup' = signup /\ granted' = granted
        /\ lock' = p /\ Become(p, t) /\ Ungranted' = Ungranted
    BY <1>2, <2>1, <2>4, <2>5 DEF LeaveDelete, gameVars, Ungranted, Active
  <2>7. /\ t.at = "leave_commit" /\ t.who = txn[p].who /\ t.heir = heir
        /\ t.inherits = txn[p].inherits
    BY <2>5
  <2>8. t.heir # NoOne /\ ~ t.inherits => Cardinality(Ungranted \ {t.who}) < maxPlayers
    BY <1>0, <2>1, <2>3, <2>7 DEF Sound, Fits
  <2>9. Sound(t, p)'
    BY <2>6, <2>7, <2>8 DEF Sound, Locked, Fits
  <2>. QED  BY <2>1, <2>6, <2>9, QuietCapacity
<1>3. ASSUME LeaveCommit(p)
      PROVE  CapacityInv'
  <2> DEFINE gone == txn[p].who
             heir == txn[p].heir
  <2>1. lock = p /\ txn[p].at = "leave_commit" /\ maxPlayers' = maxPlayers
    BY <1>3 DEF LeaveCommit, Holds, gameVars
  <2>2. gone \in Persons /\ heir \in Players \cup {NoOne} /\ txn[p].inherits \in BOOLEAN
    BY <1>0, <2>1, TxnFields
  <2>3. /\ signup' = [u \in Persons |-> IF u = gone THEN "none"
                                       ELSE IF u = heir THEN "ACTIVE" ELSE signup[u]]
        /\ granted' = (granted \ {gone}) \cup
                      (IF txn[p].inherits /\ heir # NoOne THEN {heir} ELSE {})
    BY <1>3 DEF LeaveCommit
  <2>4. \A u \in Persons :
          u \in Ungranted' => u # gone /\ (u \in Ungranted \/ (u = heir /\ ~ txn[p].inherits))
    BY <2>2, <2>3, Parameters DEF Ungranted, Active, CapacityInv
  <2> HIDE DEF gone, heir
  <2>5. ASSUME heir = NoOne \/ txn[p].inherits
        PROVE  WithinCapacity'
    <3>1. Ungranted' \in SUBSET Ungranted /\ Ungranted \in SUBSET Persons
      BY <1>0, <2>4, <2>5, Parameters DEF Ungranted, Active
    <3>2. Cardinality(Ungranted') <= Cardinality(Ungranted) /\ Cardinality(Ungranted') \in Nat
      BY <3>1, UngrantedFinite
    <3>. QED
      BY <1>0, <2>1, <3>2, UngrantedFinite, Parameters
         DEF CapacityInv, WithinCapacity, Ungranted
  <2>6. ASSUME heir # NoOne, ~ txn[p].inherits
        PROVE  WithinCapacity'
    <3> DEFINE rest == Ungranted \ {gone}
    <3>1. /\ Ungranted' \in SUBSET (rest \cup {heir})
          /\ rest \cup {heir} \in SUBSET Persons /\ rest \in SUBSET Persons
      BY <2>2, <2>4, <2>6 DEF Ungranted, Active, Persons
    <3> HIDE DEF rest
    <3>2. /\ Cardinality(Ungranted') <= Cardinality(rest \cup {heir})
          /\ Cardinality(rest \cup {heir}) <= Cardinality(rest) + 1
          /\ Cardinality(Ungranted') \in Nat /\ Cardinality(rest) \in Nat
          /\ Cardinality(rest \cup {heir}) \in Nat
      <4>1. Ungranted' \in SUBSET Persons
        BY <3>1
      <4>. QED  BY <3>1, <4>1, UngrantedFinite
    <3>3. Cardinality(rest) < maxPlayers
      BY <1>0, <2>1, <2>6 DEF Sound, Fits, rest, gone, heir
    <3>. QED
      BY <1>0, <2>1, <3>2, <3>3, Parameters DEF WithinCapacity, Ungranted
  <2>7. WithinCapacity' /\ lock' = NoProc /\ Become(p, Idle)
    BY <1>3, <2>5, <2>6 DEF LeaveCommit
  <2>. QED
    BY <2>1, <2>7, IdleSound, StepOfOne
<1>. QED  BY <1>1, <1>2, <1>3

LEMMA ReleaseCapacity ==
  ASSUME CapacityInv, TypeOK', NEW p \in Procs
  PROVE  /\ ReleaseLock(p) => CapacityInv'
         /\ ReleasePick(p) => CapacityInv'
         /\ ReleaseCommit(p) => CapacityInv'
<1>0. TypeOK /\ Sound(txn[p], p) /\ txn[p] \in Txn
  BY CapacityParts DEF TypeOK
<1>1. ASSUME ReleaseLock(p)
      PROVE  CapacityInv'
  <2> DEFINE rec == [at |-> "release", slots |-> maxPlayers - ActiveCount]
  <2>0. ActiveCount \in Nat /\ maxPlayers \in Nat /\ ActiveCount < maxPlayers
    BY <1>0, <1>1, ActiveNat, Parameters DEF ReleaseLock
  <2>1. PICK t \in Txn : t = rec
    <3>1. maxPlayers - ActiveCount \in Nat \ {0}
      BY <2>0
    <3>2. rec \in Txn
      BY <3>1 DEF Txn, Releasing
    <3>. QED  BY <3>2
  <2>2. /\ maxPlayers' = maxPlayers /\ signup' = signup /\ granted' = granted
        /\ lock = NoProc /\ lock' = p /\ Become(p, t) /\ Ungranted' = Ungranted
    BY <1>1, <2>1 DEF ReleaseLock, Begin, gameVars, Ungranted, Active
  <2>3. Cardinality(Ungranted) + t.slots <= maxPlayers
    <3>1. Active \in SUBSET Persons /\ Ungranted \in SUBSET Active
      BY DEF Ungranted, Active
    <3>2. Cardinality(Ungranted) <= ActiveCount
      BY <3>1, UngrantedFinite DEF ActiveCount
    <3>3. t.slots = maxPlayers - ActiveCount
      BY <2>1
    <3>. QED  BY <2>0, <3>2, <3>3, UngrantedFinite
  <2>4. t.at = "release"
    BY <2>1
  <2>5. Sound(t, p)'
    BY <2>2, <2>3, <2>4 DEF Sound, Locked, Fits
  <2>. QED  BY <2>2, <2>5, QuietCapacity
<1>2. ASSUME ReleasePick(p)
      PROVE  CapacityInv'
  <2>1. lock = p /\ txn[p].at = "release"
    BY <1>2 DEF ReleasePick, Holds
  <2>2. PICK pick \in OldestOf(Waiting, txn[p].slots) :
          IF pick = {}
            THEN Become(p, Idle) /\ lock' = NoProc
            ELSE Become(p, [at |-> "release_commit", pick |-> pick]) /\ UNCHANGED lock
    BY <1>2 DEF ReleasePick
  <2>3. /\ maxPlayers' = maxPlayers /\ signup' = signup /\ granted' = granted
        /\ Ungranted' = Ungranted
    BY <1>2 DEF ReleasePick, gameVars, Ungranted, Active
  <2>4. CASE pick = {}
    BY <2>1, <2>2, <2>3, <2>4, IdleSound, QuietCapacity
  <2>5. CASE pick # {}
    <3>1. txn[p].slots \in Nat
      BY <1>0, <2>1, TxnFields
    <3>2. Cardinality(pick) <= txn[p].slots /\ pick \in SUBSET Players
      <4>1. Cardinality(pick) = txn[p].slots \/ Cardinality(pick) < txn[p].slots
        BY <2>2 DEF OldestOf
      <4>2. pick \in SUBSET Players
        BY <2>2 DEF OldestOf, Waiting
      <4>3. Cardinality(pick) \in Nat
        BY <4>2, UngrantedFinite DEF Persons
      <4>. QED  BY <3>1, <4>1, <4>2, <4>3
    <3>3. PICK t \in Txn : t = [at |-> "release_commit", pick |-> pick]
      <4>1. [at |-> "release_commit", pick |-> pick] \in Txn
        BY <3>2 DEF Txn, Filling
      <4>. QED  BY <4>1
    <3>4. Cardinality(Ungranted) + txn[p].slots <= maxPlayers
      BY <1>0, <2>1 DEF Sound, Fits
    <3>5. t.at = "release_commit" /\ t.pick = pick
      BY <3>3
    <3>6. Cardinality(Ungranted) + Cardinality(t.pick) <= maxPlayers
      <4>1. Cardinality(pick) \in Nat
        BY <3>2, UngrantedFinite DEF Persons
      <4>. QED
        BY <1>0, <3>1, <3>2, <3>4, <3>5, <4>1, UngrantedFinite, Parameters
    <3>7. Become(p, t) /\ lock' = p
      BY <2>1, <2>2, <2>5, <3>3
    <3>8. Sound(t, p)'
      BY <2>3, <3>5, <3>6, <3>7 DEF Sound, Locked, Fits
    <3>. QED  BY <2>1, <2>3, <3>7, <3>8, QuietCapacity
  <2>. QED  BY <2>4, <2>5
<1>3. ASSUME ReleaseCommit(p)
      PROVE  CapacityInv'
  <2> DEFINE pick == txn[p].pick
  <2>1. /\ lock = p /\ txn[p].at = "release_commit" /\ maxPlayers' = maxPlayers
        /\ lock' = NoProc /\ Become(p, Idle) /\ granted' = granted
        /\ signup' = [u \in Persons |-> IF u \in pick THEN "ACTIVE" ELSE signup[u]]
    BY <1>3 DEF ReleaseCommit, Holds, gameVars
  <2>2. pick \in SUBSET Persons
    BY <1>0, <2>1, TxnFields DEF Persons
  <2>3. Cardinality(Ungranted) + Cardinality(pick) <= maxPlayers
    BY <1>0, <2>1 DEF Sound, Fits
  <2>4. Ungranted' \in SUBSET (Ungranted \cup pick) /\ Ungranted \in SUBSET Persons
    BY <2>1, <2>2 DEF Ungranted, Active
  <2> HIDE DEF pick
  <2>5. Cardinality(Ungranted \cup pick) <= Cardinality(Ungranted) + Cardinality(pick)
    <3>1. /\ Cardinality(Ungranted \cup pick) = Cardinality(Ungranted) + Cardinality(pick)
                                               - Cardinality(Ungranted \cap pick)
          /\ Cardinality(Ungranted \cap pick) \in Nat
      BY <2>2, <2>4, UngrantedFinite, FS_Union, FS_Intersection
    <3>. QED  BY <2>2, <3>1, UngrantedFinite
  <2>6. /\ Cardinality(Ungranted') <= Cardinality(Ungranted \cup pick)
        /\ Cardinality(Ungranted') \in Nat /\ Cardinality(pick) \in Nat
        /\ Cardinality(Ungranted \cup pick) \in Nat
    <3>1. Ungranted \cup pick \in SUBSET Persons /\ Ungranted' \in SUBSET Persons
      BY <2>2, <2>4
    <3>. QED  BY <2>2, <2>4, <3>1, UngrantedFinite
  <2>7. WithinCapacity'
    BY <1>0, <2>1, <2>3, <2>5, <2>6, UngrantedFinite, Parameters DEF WithinCapacity, Ungranted
  <2>. QED  BY <2>1, <2>7, IdleSound, StepOfOne
<1>. QED  BY <1>1, <1>2, <1>3

LEMMA FixCapacity ==
  ASSUME CapacityInv, TypeOK', NEW p \in Procs
  PROVE  /\ FixLock(p) => CapacityInv'
         /\ FixCommit(p) => CapacityInv'
<1>0. TypeOK /\ Sound(txn[p], p) /\ txn[p] \in Txn
  BY CapacityParts DEF TypeOK
<1>1. ASSUME FixLock(p)
      PROVE  CapacityInv'
  <2> DEFINE Want(main) == [u \in Persons |->
                              IF u \notin Active \cup Reserve THEN signup[u]
                              ELSE IF u \in main THEN "ACTIVE" ELSE "RESERVE"]
             Rec(main)  == [at |-> "fix", write |-> Assign(Want(main)), main |-> main]
  <2>1. PICK main \in OldestOf((Active \cup Reserve) \cap Players, maxPlayers) :
          Begin(p, "fix", Rec(main))
    BY <1>1 DEF FixLock
  <2>2. main \in SUBSET Players
    BY <2>1 DEF OldestOf
  <2>3. PICK t \in Txn : t = Rec(main)
    <3>1. /\ Want(main) \in [Persons -> Row]
          /\ \A u \in Persons : Want(main)[u] = "none" => signup[u] = "none"
      BY <1>0 DEF TypeOK, Row, SignupStatus
    <3>2. Assign(Want(main)) \in Writes
      BY <1>0, <3>1, WriteType DEF TypeOK
    <3> HIDE DEF Want
    <3>3. Rec(main) \in Txn
      BY <2>2, <3>2 DEF Txn, Fixing
    <3>. QED  BY <3>3
  <2>4. /\ maxPlayers' = maxPlayers /\ signup' = signup /\ granted' = granted
        /\ lock = NoProc /\ lock' = p /\ Become(p, t) /\ Ungranted' = Ungranted
    BY <1>1, <2>1, <2>3 DEF FixLock, Begin, gameVars, Ungranted, Active
  <2>5. t.at = "fix" /\ t.main = main /\ t.write = Assign(Want(main))
    BY <2>3
  <2>6. Cardinality(t.main) <= maxPlayers
    <3>1. Cardinality(main) = maxPlayers \/ Cardinality(main) < maxPlayers
      BY <2>1 DEF OldestOf
    <3>2. Cardinality(main) \in Nat
      BY <2>2, UngrantedFinite DEF Persons
    <3>. QED  BY <1>0, <2>5, <3>1, <3>2, Parameters
  <2>7. ASSUME NEW u \in Persons \ t.main
        PROVE  /\ t.write[u] # "ACTIVE"
               /\ t.write[u] = "keep" /\ signup[u] = "ACTIVE" => u \in granted
    <3>1. t.write[u] = IF Want(main)[u] = signup[u] THEN "keep" ELSE Want(main)[u]
      BY <2>5 DEF Assign
    <3>2. Want(main)[u] = IF u \notin Active \cup Reserve THEN signup[u] ELSE "RESERVE"
      BY <2>5, <2>7
    <3>. QED  BY <3>1, <3>2 DEF Active
  <2>8. Sound(t, p)'
    BY <2>4, <2>5, <2>6, <2>7 DEF Sound, Locked, Fits
  <2>. QED  BY <2>4, <2>8, QuietCapacity
<1>2. ASSUME FixCommit(p)
      PROVE  CapacityInv'
  <2> DEFINE main  == txn[p].main
             write == txn[p].write
  <2>1. /\ lock = p /\ txn[p].at = "fix" /\ maxPlayers' = maxPlayers
        /\ lock' = NoProc /\ Become(p, Idle)
        /\ signup' = Written(write, Persons)
        /\ granted' = {u \in granted \ main : signup'[u] = "ACTIVE"}
    BY <1>2 DEF FixCommit, Holds, gameVars
  <2>2. main \in SUBSET Persons
    BY <1>0, <2>1, TxnFields DEF Persons
  <2>3. /\ Cardinality(main) <= maxPlayers
        /\ \A u \in Persons \ main :
             /\ write[u] # "ACTIVE"
             /\ write[u] = "keep" /\ signup[u] = "ACTIVE" => u \in granted
    BY <1>0, <2>1 DEF Sound, Fits
  <2> HIDE DEF main, write
  <2>4. Ungranted' \in SUBSET main
    <3>1. ASSUME NEW u \in Persons, signup'[u] = "ACTIVE", u \notin main
          PROVE  u \in granted'
      <4>1. write[u] = "keep" /\ signup[u] = "ACTIVE"
        BY <2>1, <2>3, <3>1 DEF Written
      <4>. QED  BY <2>1, <2>3, <3>1, <4>1
    <3>. QED  BY <3>1 DEF Ungranted, Active
  <2>5. Cardinality(Ungranted') <= Cardinality(main) /\ Cardinality(main) \in Nat
        /\ Cardinality(Ungranted') \in Nat
    <3>1. Ungranted' \in SUBSET Persons
      BY <2>2, <2>4
    <3>. QED  BY <2>2, <2>4, <3>1, UngrantedFinite
  <2>6. WithinCapacity'
    BY <1>0, <2>1, <2>3, <2>5, Parameters DEF WithinCapacity, Ungranted
  <2>. QED  BY <2>1, <2>6, IdleSound, StepOfOne
<1>. QED  BY <1>1, <1>2

\* The organizers' tools begin.
LEMMA UpdateBeginCapacity ==
  ASSUME CapacityInv, TypeOK', NEW p \in Procs, NEW op, NEW want \in [Persons -> Row],
         \A u \in Persons : want[u] = "none" => signup[u] = "none",
         UpdateBegin(p, op, want)
  PROVE  CapacityInv'
<1>1. PICK t \in Txn : t = [at |-> "update", write |-> Assign(want)]
  <2>1. Assign(want) \in Writes
    BY WriteType DEF CapacityInv, TypeOK
  <2>2. [at |-> "update", write |-> Assign(want)] \in Txn
    BY <2>1 DEF Txn, Updating
  <2>. QED  BY <2>2
<1>2. /\ maxPlayers' = maxPlayers /\ signup' = signup /\ granted' = granted
      /\ lock' = lock /\ Become(p, t)
  BY <1>1 DEF UpdateBegin, Begin, gameVars
<1>3. t.at = "update"
  BY <1>1
<1>4. Sound(t, p)'
  BY <1>3 DEF Sound, Locked, Fits
<1>. QED  BY <1>2, <1>4, QuietCapacity

\* A step without the lock that grants what it gives keeps within capacity.
LEMMA GrantingStep ==
  ASSUME CapacityInv, TypeOK', NEW p \in Procs, Become(p, Idle),
         maxPlayers' = maxPlayers, lock' = lock, GrantsWhatItGives
  PROVE  CapacityInv'
<1>1. WithinCapacity'
  BY UngrantedShrinks, UngrantedFinite, Parameters
     DEF CapacityInv, WithinCapacity, Ungranted
<1>. QED  BY <1>1, IdleSound, StepOfOne

LEMMA ToolCapacity ==
  ASSUME CapacityInv, TypeOK', NEW p \in Procs
  PROVE  /\ \A u \in Persons : InsertBegin(p, u) => CapacityInv'
         /\ InsertCommit(p) => CapacityInv'
         /\ \A u \in Persons : RestoreBegin(p, u) => CapacityInv'
         /\ \A u \in Persons, s \in SignupStatus : StatusBegin(p, u, s) => CapacityInv'
         /\ \A playing \in SUBSET Persons : TeamsBegin(p, playing) => CapacityInv'
         /\ UpdateCommit(p) => CapacityInv'
         /\ PublishBegin(p) => CapacityInv'
         /\ PublishCommit(p) => CapacityInv'
<1>0. TypeOK /\ Sound(txn[p], p) /\ txn[p] \in Txn
  BY CapacityParts DEF TypeOK
<1>1. ASSUME NEW u \in Persons, InsertBegin(p, u)
      PROVE  CapacityInv'
  <2> DEFINE t == [at |-> "insert", who |-> u]
  <2>1. t \in Txn
    BY DEF Txn, Adding
  <2>2. Sound(t, p)'
    BY DEF Sound, Locked, Fits
  <2>. QED
    BY <1>1, <2>1, <2>2, QuietCapacity DEF InsertBegin, Begin, gameVars
<1>2. ASSUME InsertCommit(p)
      PROVE  CapacityInv'
  <2>1. txn[p].who \in Persons
    BY <1>0, <1>2, TxnFields DEF InsertCommit
  <2>2. GrantsWhatItGives
    BY <1>0, <1>2, <2>1 DEF InsertCommit, GrantsWhatItGives, TypeOK
  <2>. QED  BY <1>2, <2>2, GrantingStep DEF InsertCommit, gameVars
<1>3. ASSUME NEW u \in Persons, RestoreBegin(p, u)
      PROVE  CapacityInv'
  <2> DEFINE want == [signup EXCEPT ![u] = "ACTIVE"]
  <2>1. PICK w \in [Persons -> Row] : w = want
    BY <1>0 DEF TypeOK, Row, SignupStatus
  <2>2. \A v \in Persons : w[v] = "none" => signup[v] = "none"
    BY <1>0, <2>1 DEF TypeOK
  <2>3. UpdateBegin(p, "restore", w)
    BY <1>3, <2>1 DEF RestoreBegin
  <2>. QED  BY <2>2, <2>3, UpdateBeginCapacity
<1>4. ASSUME NEW u \in Persons, NEW s \in SignupStatus, StatusBegin(p, u, s)
      PROVE  CapacityInv'
  <2> DEFINE want == [signup EXCEPT ![u] = s]
  <2>1. PICK w \in [Persons -> Row] : w = want
    BY <1>0 DEF TypeOK, Row, SignupStatus
  <2>2. \A v \in Persons : w[v] = "none" => signup[v] = "none"
    BY <1>0, <2>1 DEF TypeOK, SignupStatus
  <2>3. UpdateBegin(p, "status", w)
    BY <1>4, <2>1 DEF StatusBegin
  <2>. QED  BY <2>2, <2>3, UpdateBeginCapacity
<1>5. ASSUME NEW playing \in SUBSET Persons, TeamsBegin(p, playing)
      PROVE  CapacityInv'
  <2> DEFINE want == [u \in Persons |->
                        IF u \notin Active \cup Reserve THEN signup[u]
                        ELSE IF u \in playing THEN "ACTIVE" ELSE "RESERVE"]
  <2>1. want \in [Persons -> Row]
    BY <1>0 DEF TypeOK, Row, SignupStatus
  <2>2. PICK w \in [Persons -> Row] : w = want
    BY <2>1
  <2>3. \A v \in Persons : w[v] = "none" => signup[v] = "none"
    BY <2>2
  <2>4. UpdateBegin(p, "teams", w)
    BY <1>5, <2>2 DEF TeamsBegin
  <2>. QED  BY <2>3, <2>4, UpdateBeginCapacity
<1>6. ASSUME UpdateCommit(p)
      PROVE  CapacityInv'
  <2>1. granted' = {u \in Persons : /\ signup'[u] = "ACTIVE"
                                    /\ u \in granted \/ signup[u] # "ACTIVE"}
    BY <1>6 DEF UpdateCommit
  <2>2. GrantsWhatItGives
    BY <2>1 DEF GrantsWhatItGives
  <2>. QED  BY <1>6, <2>2, GrantingStep DEF UpdateCommit, gameVars
<1>7. ASSUME PublishBegin(p)
      PROVE  CapacityInv'
  <2> DEFINE t == [at |-> "publish"]
  <2>1. t \in Txn
    BY DEF Txn, Publishing
  <2>2. Sound(t, p)'
    BY DEF Sound, Locked, Fits
  <2>. QED
    BY <1>7, <2>1, <2>2, QuietCapacity DEF PublishBegin, Begin, gameVars
<1>8. ASSUME PublishCommit(p)
      PROVE  CapacityInv'
  BY <1>8, IdleSound, QuietCapacity DEF PublishCommit
<1>. QED  BY <1>1, <1>2, <1>3, <1>4, <1>5, <1>6, <1>7, <1>8

\* max_players only changes while nobody works under the lock.
LEMMA ResizeCapacity ==
  ASSUME CapacityInv, TypeOK', NEW m \in Capacities, UpdateCapacity(m)
  PROVE  CapacityInv'
<1>1. m \in Nat /\ maxPlayers \in Nat /\ NoProc \notin Procs
  BY ParametersAssumption, Parameters DEF CapacityInv
<1>2. ASSUME NEW p \in Procs
      PROVE  Sound(txn[p], p)'
  <2>1. ~ Locked(txn[p]) /\ txn[p].at # "api_join"
    BY <1>1, CapacityParts DEF UpdateCapacity, Sound
  <2>. QED  BY <2>1 DEF UpdateCapacity, Sound, Locked, Fits
<1>3. WithinCapacity'
  <2>1. CASE m < maxPlayers
    <3>1. (Active \ granted)' = {}
      BY <2>1 DEF UpdateCapacity, Active
    <3>2. Cardinality((Active \ granted)') = 0
      BY <3>1, FS_EmptySet
    <3>. QED  BY <1>1, <3>2 DEF WithinCapacity, UpdateCapacity
  <2>2. CASE ~ (m < maxPlayers)
    <3>1. (Active \ granted)' = Active \ granted
      BY <2>2 DEF UpdateCapacity, Active
    <3>. QED
      BY <1>1, <2>2, <3>1, UngrantedFinite
         DEF CapacityInv, WithinCapacity, UpdateCapacity, Ungranted
  <2>. QED  BY <2>1, <2>2
<1>. QED  BY <1>2, <1>3 DEF CapacityInv, Sound

LEMMA CapacityNext ==
  ASSUME "api_join" \notin Ops, CapacityInv, [Next]_vars
  PROVE  CapacityInv'
<1>0. TypeOK'
  BY NextType DEF CapacityInv
<1>1. ASSUME NEW p \in Procs, Step(p)
      PROVE  CapacityInv'
  <2>1. ~ \E u \in Players : ApiJoinBegin(p, u)
    BY DEF ApiJoinBegin, Begin
  <2>. QED
    BY <1>0, <1>1, <2>1, JoinCapacity, LeaveCapacity, ReleaseCapacity, FixCapacity,
       ToolCapacity DEF Step
<1>2. ASSUME NEW m \in Capacities, UpdateCapacity(m)
      PROVE  CapacityInv'
  BY <1>0, <1>2, ResizeCapacity
<1>3. ASSUME /\ UNCHANGED <<maxPlayers, signup, lock, txn, granted>>
      PROVE  CapacityInv'
  <2>1. WithinCapacity'
    BY <1>3 DEF CapacityInv, WithinCapacity, Active
  <2>2. ASSUME NEW p \in Procs
        PROVE  Sound(txn[p], p)'
    BY <1>3, CapacityParts DEF Sound, Locked, Fits, Ungranted, Active
  <2>. QED  BY <1>0, <2>1, <2>2 DEF CapacityInv, Sound
<1>4. Finish \/ (\E i \in Milestones : TimePasses(i)) \/ UNCHANGED vars
        => UNCHANGED <<maxPlayers, signup, lock, txn, granted>>
  BY DEF Finish, TimePasses, vars, gameVars
<1>. QED  BY <1>1, <1>2, <1>3, <1>4 DEF Next

\* As long as no join decides with a preloaded game, every active signup
\* beyond max_players is one whose place an organizer granted: neither the
\* capacity test of join_player nor the promotions of leave_player and
\* release_gk_slots ever overbook a game on their own, whatever the unlocked
\* tools of the organizers commit in between.
THEOREM Capacity ==
  ASSUME "api_join" \notin Ops
  PROVE  Spec => []WithinCapacity
<1>1. Init => CapacityInv
  BY CapacityInit
<1>2. CapacityInv /\ [Next]_vars => CapacityInv'
  BY CapacityNext
<1>3. CapacityInv => WithinCapacity
  BY DEF CapacityInv
<1>. QED  BY <1>1, <1>2, <1>3, PTL DEF Spec

(***************************************************************************)
(* Who joins: a join that decides with the game as it is under the lock    *)
(* commits its signup to a game that is still open or active.              *)
(***************************************************************************)

\* The game a joiner has looked at under the lock is still open to joins.
StillOpen ==
  \A p \in Procs :
    txn[p].at \in {"join_count", "join_insert"} => status \in {"OPEN", "ACTIVE"}

\* Nothing else begins to join by changing the state of a request.
LEMMA NoNewJoiner ==
  ASSUME TypeOK, StillOpen, NEW p \in Procs, NEW t, Become(p, t),
         t.at \notin {"join_count", "join_insert"},
         status' = status \/ status' = "ACTIVE"
  PROVE  StillOpen'
<1>1. \A q \in Procs : txn'[q] = IF q = p THEN t ELSE txn[q]
  BY DEF Become, TypeOK
<1>. QED  BY <1>1 DEF StillOpen

LEMMA JoinStillOpen ==
  ASSUME CapacityInv, StillOpen, NEW p \in Procs
  PROVE  /\ JoinLock(p) => StillOpen'
         /\ JoinCount(p) => StillOpen'
         /\ JoinCommit(p) => StillOpen'
<1>0. TypeOK /\ txn[p].at # "api_join"
  BY DEF CapacityInv
<1>1. ASSUME JoinLock(p)
      PROVE  StillOpen'
  <2>1. CASE JoinRefused(p)
    BY <1>0, <1>1, <2>1, NoNewJoiner DEF JoinLock, Idle, gameVars
  <2>2. CASE ~ JoinRefused(p)
    <3>1. status \in {"OPEN", "ACTIVE"}
      BY <1>0, <2>2 DEF JoinRefused, SessionGame
    <3>. QED  BY <1>1, <3>1 DEF JoinLock, gameVars, StillOpen
  <2>. QED  BY <2>1, <2>2
<1>2. ASSUME JoinCount(p)
      PROVE  StillOpen'
  BY <1>2 DEF JoinCount, Holds, gameVars, StillOpen
<1>3. ASSUME JoinCommit(p)
      PROVE  StillOpen'
  BY <1>0, <1>3, NoNewJoiner DEF JoinCommit, Idle, gameVars
<1>. QED  BY <1>1, <1>2, <1>3

LEMMA OtherStillOpen ==
  ASSUME TypeOK, StillOpen, NEW p \in Procs
  PROVE  /\ \A u \in Players, admin \in BOOLEAN : JoinBegin(p, u, admin) => StillOpen'
         /\ \A u \in Persons, admin \in BOOLEAN : LeaveLock(p, u, admin) => StillOpen'
         /\ LeaveDelete(p) => StillOpen'
         /\ LeaveCommit(p) => StillOpen'
         /\ ReleaseLock(p) => StillOpen'
         /\ ReleasePick(p) => StillOpen'
         /\ ReleaseCommit(p) => StillOpen'
         /\ FixLock(p) => StillOpen'
         /\ FixCommit(p) => StillOpen'
         /\ \A u \in Persons : InsertBegin(p, u) => StillOpen'
         /\ InsertCommit(p) => StillOpen'
         /\ \A u \in Persons : RestoreBegin(p, u) => StillOpen'
         /\ \A u \in Persons, s \in SignupStatus : StatusBegin(p, u, s) => StillOpen'
         /\ \A playing \in SUBSET Persons : TeamsBegin(p, playing) => StillOpen'
         /\ UpdateCommit(p) => StillOpen'
         /\ PublishBegin(p) => StillOpen'
         /\ PublishCommit(p) => StillOpen'
<1>1. \A u \in Players, admin \in BOOLEAN : JoinBegin(p, u, admin) => StillOpen'
  BY NoNewJoiner DEF JoinBegin, Begin, gameVars
<1>2. \A u \in Persons, admin \in BOOLEAN : LeaveLock(p, u, admin) => StillOpen'
  BY NoNewJoiner DEF LeaveLock, Begin, gameVars
<1>3. (LeaveDelete(p) => StillOpen') /\ (LeaveCommit(p) => StillOpen')
  BY NoNewJoiner DEF LeaveDelete, LeaveCommit, Idle, gameVars
<1>4. (ReleaseLock(p) => StillOpen') /\ (ReleasePick(p) => StillOpen')
        /\ (ReleaseCommit(p) => StillOpen')
  BY NoNewJoiner DEF ReleaseLock, ReleasePick, ReleaseCommit, Begin, Idle, gameVars
<1>5. (FixLock(p) => StillOpen') /\ (FixCommit(p) => StillOpen')
  BY NoNewJoiner DEF FixLock, FixCommit, Begin, Idle, gameVars
<1>6. (\A u \in Persons : InsertBegin(p, u) => StillOpen') /\ (InsertCommit(p) => StillOpen')
  BY NoNewJoiner DEF InsertBegin, InsertCommit, Begin, Idle, gameVars
<1>7. ASSUME NEW op, NEW want, UpdateBegin(p, op, want)
      PROVE  StillOpen'
  BY <1>7, NoNewJoiner DEF UpdateBegin, Begin, gameVars
<1>8. /\ \A u \in Persons : RestoreBegin(p, u) => StillOpen'
      /\ \A u \in Persons, s \in SignupStatus : StatusBegin(p, u, s) => StillOpen'
      /\ \A playing \in SUBSET Persons : TeamsBegin(p, playing) => StillOpen'
  BY <1>7 DEF RestoreBegin, StatusBegin, TeamsBegin
<1>9. UpdateCommit(p) => StillOpen'
  BY NoNewJoiner DEF UpdateCommit, Idle, gameVars
<1>10. (PublishBegin(p) => StillOpen') /\ (PublishCommit(p) => StillOpen')
  BY NoNewJoiner DEF PublishBegin, PublishCommit, Begin, Idle, gameVars
<1>. QED  BY <1>1, <1>2, <1>3, <1>4, <1>5, <1>6, <1>8, <1>9, <1>10

\* A finish waits for the lock, so nobody is between the test and the insert.
LEMMA NextStillOpen ==
  ASSUME "api_join" \notin Ops, CapacityInv, StillOpen, [Next]_vars
  PROVE  StillOpen'
<1>0. TypeOK
  BY DEF CapacityInv
<1>1. ASSUME NEW p \in Procs, Step(p)
      PROVE  StillOpen'
  <2>1. ~ \E u \in Players : ApiJoinBegin(p, u)
    BY DEF ApiJoinBegin, Begin
  <2>. QED  BY <1>0, <1>1, <2>1, JoinStillOpen, OtherStillOpen DEF Step
<1>2. ASSUME Finish
      PROVE  StillOpen'
  <2>1. \A p \in Procs : ~ Locked(txn[p])
    BY <1>2, PersonsAssumption DEF Finish, CapacityInv
  <2>. QED  BY <1>2, <2>1 DEF Finish, Locked, StillOpen
<1>3. (\E m \in Capacities : UpdateCapacity(m)) \/ (\E i \in Milestones : TimePasses(i))
        \/ UNCHANGED vars
        => UNCHANGED <<status, txn>>
  BY DEF UpdateCapacity, TimePasses, vars, gameVars
<1>4. ASSUME UNCHANGED <<status, txn>>
      PROVE  StillOpen'
  BY <1>4 DEF StillOpen
<1>. QED  BY <1>1, <1>2, <1>3, <1>4 DEF Next

\* As long as no join decides with a preloaded game, whoever joins joins a
\* game that is open or active at the moment the signup is committed: what
\* join_player has tested under the lock holds until its transaction ends,
\* whatever is finished, published or changed by hand in between.
THEOREM JoinsOpen ==
  ASSUME "api_join" \notin Ops
  PROVE  Spec => JoinsOpenGame
<1>1. Init => CapacityInv
  BY CapacityInit
<1>2. CapacityInv /\ [Next]_vars => CapacityInv'
  BY CapacityNext
<1>3. Init => StillOpen
  BY DEF Init, StillOpen, Idle
<1>4. CapacityInv /\ StillOpen /\ [Next]_vars => StillOpen'
  BY NextStillOpen
<1>5. StillOpen /\ [Next]_vars =>
        [\A p \in Procs : txn[p].at = "join_insert" /\ txn'[p] = Idle =>
           status \in {"OPEN", "ACTIVE"}]_vars
  BY DEF StillOpen
<1>. QED  BY <1>1, <1>2, <1>3, <1>4, <1>5, PTL DEF Spec, JoinsOpenGame

(***************************************************************************)
(* What the row lock of a game buys: as long as only transactions that     *)
(* take it, or wait for it, change the signups, the roster behaves like    *)
(* the abstract waitlist, for any number of people and requests.           *)
(***************************************************************************)

(***************************************************************************)
(* The inductive invariant.                                                *)
(***************************************************************************)
Heirs(t) == {t.heir} \ {NoOne}

\* What a transaction has decided under the lock is still right: nobody else
\* writes a signup or max_players meanwhile.
Decided(t) ==
  /\ t.at \in {"join_count", "join_insert"} =>
       /\ signup[t.who] = "none"
       /\ ~ t.admin /\ SignupLimit > 0 => TotalCount < SignupLimit
  /\ t.at = "join_count" => t.game.max = maxPlayers
  /\ t.at = "join_insert" => (t.as = "ACTIVE" <=> ActiveCount < maxPlayers)
  /\ t.at = "leave_delete" => signup[t.who] # "none" /\ (t.vacates <=> t.who \in Active)
  /\ t.at = "leave_commit" =>
       /\ signup[t.who] # "none"
       /\ IF t.who \in Active THEN Heirs(t) \in OldestOf(Waiting \ {t.who}, 1)
                              ELSE Heirs(t) = {}
  /\ t.at = "release" => t.slots = maxPlayers - ActiveCount
  /\ t.at = "release_commit" =>
       /\ ActiveCount < maxPlayers
       /\ t.pick \in OldestOf(Waiting, maxPlayers - ActiveCount)
  /\ t.at = "fix" =>
       /\ t.main \in OldestOf((Active \cup Reserve) \cap Players, maxPlayers)
       /\ \A u \in Persons : Written(t.write, Persons)[u] =
            IF u \notin Active \cup Reserve THEN signup[u]
            ELSE IF u \in t.main THEN "ACTIVE" ELSE "RESERVE"

Orderly(t, p) ==
  /\ Locked(t) => lock = p
  /\ t.at \notin {"api_join", "update", "publish"}
  /\ Decided(t)

\* created_at puts every row, and every transaction that may insert one, in
\* one order: of two exactly one is older.
Sorted ==
  /\ older \subseteq Dated \X Dated
  /\ \A x \in Dated : <<x, x>> \notin older
  /\ \A x, y \in Dated : x # y => (<<x, y>> \in older <=> <<y, x>> \notin older)

ListInv ==
  /\ TypeOK
  /\ \A u \in Persons : signup[u] # "CANCELLED"
  /\ Sorted
  /\ \A p \in Procs : Orderly(txn[p], p)

(***************************************************************************)
(* The order of created_at.                                                *)
(***************************************************************************)
LEMMA DatedStep ==
  ASSUME TypeOK, NEW p \in Procs, NEW t, Become(p, t)
  PROVE  Dated' = Present' \cup {q \in Procs \ {p} : txn[q].at \in Inserting}
                           \cup {q \in {p} : t.at \in Inserting}
<1>1. \A q \in Procs : txn'[q] = IF q = p THEN t ELSE txn[q]
  BY DEF Become, TypeOK
<1>. QED  BY <1>1 DEF Dated, Inserting

LEMMA SortedSame ==
  ASSUME Sorted, Dated' = Dated, older' = older
  PROVE  Sorted'
  BY DEF Sorted

LEMMA SortedEntering ==
  ASSUME Sorted, NEW p \in Procs, p \notin Dated,
         Dated' = Dated \cup {p}, older' = Entering(p)
  PROVE  Sorted'
  BY DEF Sorted, Entering

LEMMA SortedLeaving ==
  ASSUME Sorted, NEW x, Dated' = Dated \ {x}, older' = Leaving(x)
  PROVE  Sorted'
<1>1. \A e \in older : e \in older' <=> e[1] # x /\ e[2] # x
  BY DEF Leaving
<1>2. older' \subseteq older
  BY DEF Leaving
<1>. QED  BY <1>1, <1>2 DEF Sorted

\* The pairs of an order in which p has become u.
LEMMA Renaming ==
  ASSUME Sorted, NEW p, p \in Dated, NEW u, u \notin Dated
  PROVE  /\ \A x, y \in Dated \ {p} : <<x, y>> \in Becoming(p, u) <=> <<x, y>> \in older
         /\ \A x \in Dated \ {p} : <<x, u>> \in Becoming(p, u) <=> <<x, p>> \in older
         /\ \A y \in Dated \ {p} : <<u, y>> \in Becoming(p, u) <=> <<p, y>> \in older
         /\ <<u, u>> \notin Becoming(p, u)
         /\ Becoming(p, u) \subseteq ((Dated \ {p}) \cup {u}) \X ((Dated \ {p}) \cup {u})
<1> DEFINE name(x) == IF x = p THEN u ELSE x
<1>1. Becoming(p, u) = {<<name(e[1]), name(e[2])>> : e \in older}
  BY DEF Becoming
<1>2. \A e \in older : e[1] \in Dated /\ e[2] \in Dated /\ e = <<e[1], e[2]>>
  BY DEF Sorted
<1>3. \A x, y \in Dated : <<x, y>> \in older => <<name(x), name(y)>> \in Becoming(p, u)
  <2>1. \A x, y : <<x, y>>[1] = x /\ <<x, y>>[2] = y
    OBVIOUS
  <2>. QED  BY <1>1, <2>1
<1>4. \A f \in Becoming(p, u) : \E x, y \in Dated : <<x, y>> \in older /\ f = <<name(x), name(y)>>
  BY <1>1, <1>2
<1>5. name(p) = u /\ \A a \in Dated \ {p} : name(a) = a /\ a # u
  OBVIOUS
<1> HIDE DEF name
<1>6. ASSUME NEW a \in Dated, NEW b \in Dated
      PROVE  <<name(a), name(b)>> \in Becoming(p, u) <=> <<a, b>> \in older
  <2>1. ASSUME NEW x \in Dated, NEW y \in Dated, <<name(x), name(y)>> = <<name(a), name(b)>>
        PROVE  x = a /\ y = b
    BY <1>5, <2>1
  <2>. QED  BY <1>3, <1>4, <2>1
<1>7. \A x, y \in Dated \ {p} : <<x, y>> \in Becoming(p, u) <=> <<x, y>> \in older
  BY <1>5, <1>6
<1>8. \A x \in Dated \ {p} : <<x, u>> \in Becoming(p, u) <=> <<x, p>> \in older
  BY <1>5, <1>6
<1>9. \A y \in Dated \ {p} : <<u, y>> \in Becoming(p, u) <=> <<p, y>> \in older
  BY <1>5, <1>6
<1>10. <<u, u>> \notin Becoming(p, u)
  BY <1>5, <1>6 DEF Sorted
<1>11. Becoming(p, u) \subseteq ((Dated \ {p}) \cup {u}) \X ((Dated \ {p}) \cup {u})
  <2>1. \A x \in Dated : name(x) \in (Dated \ {p}) \cup {u}
    BY <1>5
  <2>2. \A x, y \in Dated :
          <<name(x), name(y)>> \in ((Dated \ {p}) \cup {u}) \X ((Dated \ {p}) \cup {u})
    BY <2>1
  <2>. SUFFICES ASSUME NEW f \in Becoming(p, u)
                PROVE  f \in ((Dated \ {p}) \cup {u}) \X ((Dated \ {p}) \cup {u})
    OBVIOUS
  <2>3. PICK x \in Dated, y \in Dated : f = <<name(x), name(y)>>
    BY <1>4
  <2>. QED  BY <2>2, <2>3
<1>. QED  BY <1>7, <1>8, <1>9, <1>10, <1>11

LEMMA SortedBecoming ==
  ASSUME Sorted, NEW p, p \in Dated, NEW u, u \notin Dated,
         Dated' = (Dated \ {p}) \cup {u}, older' = Becoming(p, u)
  PROVE  Sorted'
<1>1. \A x, y \in Dated \ {p} : x # y => (<<x, y>> \in older' <=> <<y, x>> \notin older')
  BY Renaming DEF Sorted
<1>2. \A x \in Dated \ {p} : <<x, u>> \in older' <=> <<u, x>> \notin older'
  BY Renaming DEF Sorted
<1>3. \A x \in Dated \ {p} : <<x, x>> \notin older'
  BY Renaming DEF Sorted
<1>4. <<u, u>> \notin older' /\ older' \subseteq Dated' \X Dated'
  BY Renaming
<1>. QED  BY <1>1, <1>2, <1>3, <1>4 DEF Sorted

(***************************************************************************)
(* What one transaction knows.                                             *)
(***************************************************************************)

\* The oldest of some people depend on the order of those people only.
LEMMA SameOldest ==
  ASSUME older' \cap (Persons \X Persons) = older \cap (Persons \X Persons)
  PROVE  \A S \in SUBSET Persons : \A n : OldestOf(S, n)' = OldestOf(S, n)
<1>1. \A u, v \in Persons : <<u, v>> \in older' <=> <<u, v>> \in older
  BY Zenon
<1>. QED  BY <1>1 DEF OldestOf

\* A decision stands as long as no signup and no capacity is written.
LEMMA StillDecided ==
  ASSUME signup' = signup, maxPlayers' = maxPlayers,
         older' \cap (Persons \X Persons) = older \cap (Persons \X Persons)
  PROVE  \A t \in Txn : Decided(t) => Decided(t)'
<1>1. UNCHANGED <<Active, Reserve, Waiting, ActiveCount, TotalCount>>
  BY DEF Active, Reserve, Waiting, ActiveCount, TotalCount
<1>2. /\ (Active \cup Reserve) \cap Players \in SUBSET Persons
      /\ \A x : Waiting \ {x} \in SUBSET Persons
      /\ Waiting \in SUBSET Persons
  BY DEF Active, Reserve, Waiting, Persons
<1>3. \A t : /\ OldestOf(Waiting \ {t.who}, 1)' = OldestOf(Waiting \ {t.who}, 1)
             /\ OldestOf(Waiting, maxPlayers - ActiveCount)' = OldestOf(Waiting, maxPlayers - ActiveCount)
             /\ OldestOf((Active \cup Reserve) \cap Players, maxPlayers)'
                  = OldestOf((Active \cup Reserve) \cap Players, maxPlayers)
  BY <1>1, <1>2, SameOldest DEF OldestOf
<1>4. \A w : Written(w, Persons)' = Written(w, Persons)
  BY DEF Written
<1>. SUFFICES ASSUME NEW t \in Txn, Decided(t)
              PROVE  Decided(t)'
  OBVIOUS
<1>5. CASE t.at \in {"join_count", "join_insert", "leave_delete", "release"}
  BY <1>1, <1>5 DEF Decided
<1>6. CASE t.at = "leave_commit"
  BY <1>1, <1>3, <1>6 DEF Decided, Heirs, OldestOf
<1>7. CASE t.at = "release_commit"
  BY <1>1, <1>3, <1>7 DEF Decided, OldestOf
<1>8. CASE t.at = "fix"
  BY <1>1, <1>3, <1>4, <1>8 DEF Decided, OldestOf, Written
<1>9. CASE ~ Locked(t)
  BY <1>9 DEF Decided, Locked
<1>. QED  BY <1>5, <1>6, <1>7, <1>8, <1>9 DEF Locked

\* Nothing is decided by a transaction that does not work under the lock.
LEMMA Undecided ==
  ASSUME NEW t, ~ Locked(t)
  PROVE  Decided(t) /\ Decided(t)'
  BY DEF Locked, Decided

\* What is true of the value of txn[p] is true of p.
LEMMA OrderlyOne ==
  ASSUME NEW p \in Procs, NEW t, txn'[p] = t, Orderly(t, p)'
  PROVE  Orderly(txn[p], p)'
  BY DEF Orderly, Locked, Decided, Heirs, OldestOf, Written

\* A step of p that writes no signup and no capacity.
LEMMA QuietStep ==
  ASSUME ListInv, TypeOK', NEW p \in Procs, NEW t \in Txn, Become(p, t),
         signup' = signup, maxPlayers' = maxPlayers,
         older' \cap (Persons \X Persons) = older \cap (Persons \X Persons),
         lock' = lock \/ lock \in {p, NoProc},
         Sorted', Orderly(t, p)'
  PROVE  ListInv'
<1>1. \A q \in Procs : txn[q] \in Txn /\ txn'[q] = IF q = p THEN t ELSE txn[q]
  BY DEF Become, ListInv, TypeOK
<1>2. ASSUME NEW q \in Procs, q # p
      PROVE  Orderly(txn[q], q)'
  <2>1. PICK s \in Txn : s = txn[q] /\ s = txn'[q]
    BY <1>1, <1>2
  <2>2. Orderly(s, q)
    BY <2>1 DEF ListInv
  <2>3. Locked(s) => lock' = q
    BY <1>2, <2>2, PersonsAssumption DEF Orderly
  <2>4. Decided(s)'
    BY <2>2, StillDecided DEF Orderly
  <2>5. Orderly(s, q)'
    BY <2>2, <2>3, <2>4 DEF Orderly, Locked
  <2>. QED  BY <2>1, <2>5, OrderlyOne
<1>3. Orderly(txn[p], p)'
  BY <1>1, OrderlyOne
<1>. QED  BY <1>2, <1>3 DEF ListInv

\* A step that writes signups or the capacity while nobody but p has the lock.
LEMMA WritingStep ==
  ASSUME ListInv, TypeOK', NEW p \in Procs,
         \A q \in Procs \ {p} : txn'[q] = txn[q],
         txn'[p] = Idle \/ (txn'[p] = txn[p] /\ lock = NoProc),
         lock \in {p, NoProc},
         \A u \in Persons : signup'[u] # "CANCELLED", Sorted'
  PROVE  ListInv'
<1>1. ASSUME NEW q \in Procs
      PROVE  Orderly(txn[q], q)'
  <2>1. PICK s : s = txn'[q]
    OBVIOUS
  <2>2. ~ Locked(s) /\ s.at \notin {"api_join", "update", "publish"}
    BY <2>1, PersonsAssumption DEF ListInv, Orderly, Locked, Idle
  <2>3. Orderly(s, q)'
    BY <2>2, Undecided DEF Orderly, Locked
  <2>. QED  BY <2>1, <2>3, OrderlyOne
<1>. QED  BY <1>1 DEF ListInv

(***************************************************************************)
(* Every step preserves the invariant.                                     *)
(***************************************************************************)
LEMMA ListFacts ==
  ASSUME ListInv
  PROVE  /\ TypeOK /\ Sorted
         /\ \A p \in Procs : txn[p] \in Txn /\ Orderly(txn[p], p)
         /\ Present = Active \cup Reserve
         /\ \A u \in Persons : signup[u] \in {"none", "ACTIVE", "RESERVE"}
         /\ \A p \in Procs : p \notin Persons /\ p \notin Present /\ p # NoProc
         /\ maxPlayers \in Nat \ {0}
  BY PersonsAssumption, ParametersAssumption
     DEF ListInv, TypeOK, Present, Active, Reserve, Row, SignupStatus

LEMMA IdleOrderly ==
  ASSUME NEW p
  PROVE  Idle \in Txn /\ ~ Locked(Idle) /\ Orderly(Idle, p)'
  BY Undecided DEF Txn, Idle, Locked, Orderly

\* Requests come and go without a trace in the order of the rows.
LEMMA OrderOfPersons ==
  ASSUME ListInv, NEW p \in Procs
  PROVE  /\ Entering(p) \cap (Persons \X Persons) = older \cap (Persons \X Persons)
         /\ Leaving(p) \cap (Persons \X Persons) = older \cap (Persons \X Persons)
  BY ListFacts DEF Entering, Leaving

\* Nothing is inserted: everybody keeps the place in the order, or p, that was
\* about to, leaves it.
LEMMA DatedQuiet ==
  ASSUME ListInv, NEW p \in Procs, NEW t, Become(p, t), signup' = signup
  PROVE  /\ txn[p].at \in Inserting /\ t.at \in Inserting => Dated' = Dated
         /\ txn[p].at \notin Inserting /\ t.at \notin Inserting => Dated' = Dated
         /\ txn[p].at \notin Inserting /\ t.at \in Inserting =>
              p \notin Dated /\ Dated' = Dated \cup {p}
         /\ t.at \notin Inserting => Dated' = Dated \ {p}
<1>1. Present' = Present /\ p \notin Present
  BY ListFacts DEF Present
<1>. QED  BY <1>1, DatedStep, ListFacts DEF Dated

LEMMA JoinList ==
  ASSUME ListInv, TypeOK', NEW p \in Procs
  PROVE  /\ \A u \in Players, admin \in BOOLEAN : JoinBegin(p, u, admin) => ListInv'
         /\ JoinLock(p) => ListInv'
         /\ JoinCount(p) => ListInv'
         /\ JoinCommit(p) => ListInv'
<1>0. Sorted /\ TypeOK /\ Orderly(txn[p], p) /\ txn[p] \in Txn
  BY ListFacts
<1>1. ASSUME NEW u \in Players, NEW admin \in BOOLEAN, JoinBegin(p, u, admin)
      PROVE  ListInv'
  <2> DEFINE t == [at |-> "join", who |-> u, admin |-> admin]
  <2>1. t \in Txn /\ Become(p, t) /\ older' = Entering(p) /\ signup' = signup
          /\ maxPlayers' = maxPlayers /\ lock' = lock /\ txn[p] = Idle
    BY <1>1 DEF JoinBegin, Begin, Txn, Joining, gameVars
  <2>2. Sorted'
    BY <1>0, <2>1, DatedQuiet, SortedEntering DEF Inserting, Idle
  <2>3. Orderly(t, p)'
    BY Undecided DEF Locked, Orderly
  <2> HIDE DEF t
  <2>. QED  BY <2>1, <2>2, <2>3, OrderOfPersons, QuietStep
<1>2. ASSUME JoinLock(p)
      PROVE  ListInv'
  <2>1. signup' = signup /\ maxPlayers' = maxPlayers /\ txn[p].at = "join" /\ lock = NoProc
    BY <1>0, <1>2 DEF JoinLock, gameVars, Orderly
  <2>2. CASE JoinRefused(p)
    <3>1. Become(p, Idle) /\ older' = Leaving(p) /\ lock' = lock
      BY <1>2, <2>2 DEF JoinLock
    <3>2. Sorted'
      BY <1>0, <2>1, <3>1, DatedQuiet, SortedLeaving DEF Inserting, Idle
    <3>. QED  BY <2>1, <3>1, <3>2, IdleOrderly, OrderOfPersons, QuietStep
  <2>3. CASE ~ JoinRefused(p)
    <3>0. PICK t : t = [at |-> "join_count", who |-> txn[p].who, admin |-> txn[p].admin,
                        game |-> SessionGame(p)]
      OBVIOUS
    <3>1. Become(p, t) /\ older' = older /\ lock' = p
      BY <1>2, <2>3, <3>0 DEF JoinLock
    <3>2. t \in Txn
      BY <1>0, <2>1, <3>0, TxnFields DEF Txn, Counting, SessionGame, TypeOK, GameView
    <3>3. Sorted'
      BY <1>0, <2>1, <3>0, <3>1, DatedQuiet, SortedSame DEF Inserting
    <3>4. /\ signup[txn[p].who] = "none"
          /\ ~ txn[p].admin /\ SignupLimit > 0 => ~ (TotalCount >= SignupLimit)
      BY <2>3 DEF JoinRefused
    <3>5. TotalCount' = TotalCount /\ TotalCount \in Nat
      BY <2>1, Fewer DEF TotalCount, Active, Reserve
    <3>6. SignupLimit \in Nat /\ txn[p].admin \in BOOLEAN
      BY <1>0, <2>1, TxnFields, ParametersAssumption
    <3>7. ~ txn[p].admin /\ SignupLimit > 0 => TotalCount' < SignupLimit
      BY <3>4, <3>5, <3>6
    <3>8. Orderly(t, p)'
      BY <2>1, <3>0, <3>1, <3>4, <3>7 DEF Orderly, Decided, Locked, SessionGame
    <3>. QED  BY <2>1, <3>1, <3>2, <3>3, <3>8, QuietStep
  <2>. QED  BY <2>2, <2>3
<1>3. ASSUME JoinCount(p)
      PROVE  ListInv'
  <2>0. PICK t : t = [at |-> "join_insert", who |-> txn[p].who, admin |-> txn[p].admin,
                      as |-> IF ActiveCount >= txn[p].game.max THEN "RESERVE" ELSE "ACTIVE"]
    OBVIOUS
  <2>1. /\ signup' = signup /\ maxPlayers' = maxPlayers /\ txn[p].at = "join_count"
        /\ older' = older /\ lock' = lock /\ lock = p /\ Become(p, t)
    BY <1>3, <2>0 DEF JoinCount, gameVars, Holds
  <2>2. t \in Txn
    BY <1>0, <2>0, <2>1, TxnFields DEF Txn, SigningUp
  <2>3. Sorted'
    BY <1>0, <2>0, <2>1, DatedQuiet, SortedSame DEF Inserting
  <2>4. /\ signup[txn[p].who] = "none"
        /\ ~ txn[p].admin /\ SignupLimit > 0 => TotalCount < SignupLimit
        /\ txn[p].game.max = maxPlayers
    BY <1>0, <2>1 DEF Orderly, Decided
  <2>5. TotalCount' = TotalCount /\ ActiveCount' = ActiveCount /\ ActiveCount \in Nat
    BY <2>1, ActiveNat DEF TotalCount, ActiveCount, Active, Reserve
  <2>6. t.as = "ACTIVE" <=> ActiveCount < maxPlayers
    BY <2>0, <2>4, <2>5, ListFacts
  <2>7. Orderly(t, p)'
    BY <2>0, <2>1, <2>4, <2>5, <2>6 DEF Orderly, Decided, Locked
  <2>. QED  BY <2>1, <2>2, <2>3, <2>7, QuietStep
<1>4. ASSUME JoinCommit(p)
      PROVE  ListInv'
  <2>1. /\ txn[p].at = "join_insert" /\ lock = p /\ Become(p, Idle)
        /\ signup' = [signup EXCEPT ![txn[p].who] = txn[p].as]
        /\ older' = Becoming(p, txn[p].who)
    BY <1>4 DEF JoinCommit, Holds
  <2>2. txn[p].who \in Persons /\ txn[p].as \in {"ACTIVE", "RESERVE"} /\ signup[txn[p].who] = "none"
    BY <1>0, <2>1, TxnFields DEF Orderly, Decided, Persons
  <2>3. \A u \in Persons : signup'[u] # "CANCELLED"
    BY <2>1, <2>2, ListFacts DEF TypeOK
  <2>4. Present' = Present \cup {txn[p].who}
    BY <1>0, <2>1, <2>2 DEF Present, TypeOK
  <2>5. Dated' = (Dated \ {p}) \cup {txn[p].who}
    BY <1>0, <2>1, <2>2, <2>4, DatedStep, ListFacts DEF Dated, Inserting, Idle
  <2>6. p \in Dated /\ txn[p].who \notin Dated
    BY <2>1, <2>2, ListFacts DEF Dated, Inserting, Present
  <2>7. Sorted'
    BY <1>0, <2>1, <2>5, <2>6, SortedBecoming
  <2>8. txn'[p] = Idle /\ \A q \in Procs \ {p} : txn'[q] = txn[q]
    BY <1>0, <2>1 DEF Become, TypeOK
  <2>. QED  BY <2>1, <2>3, <2>7, <2>8, WritingStep
<1>. QED  BY <1>1, <1>2, <1>3, <1>4

\* The one oldest of nobody is nobody, and otherwise one person.
LEMMA OneOldest ==
  ASSUME NEW S \in SUBSET Players, NEW T \in OldestOf(S, 1)
  PROVE  /\ T \subseteq S /\ NoOne \notin T
         /\ T = {} => S = {}
         /\ T # {} => \E r \in S : T = {r}
<1>1. T \subseteq S /\ (Cardinality(T) = 1 \/ (T = S /\ Cardinality(S) < 1))
  BY DEF OldestOf
<1>2. IsFiniteSet(S) /\ IsFiniteSet(T) /\ Cardinality(S) \in Nat
  BY <1>1, Fewer DEF Persons
<1>3. T # {} => Cardinality(T) = 1
  BY <1>1, <1>2, FS_EmptySet
<1>4. T = {} => S = {}
  BY <1>1, <1>2, FS_EmptySet
<1>5. T # {} => \E r \in S : T = {r}
  BY <1>1, <1>2, <1>3, FS_Singleton
<1>6. NoOne \notin T
  BY <1>1, PersonsAssumption DEF Persons
<1>. QED  BY <1>1, <1>4, <1>5, <1>6

\* What the commit of a leave does to the list.
LEMMA LeaveCommitEffect ==
  ASSUME ListInv, NEW p \in Procs, LeaveCommit(p),
         NEW gone, gone = txn[p].who, NEW heirs, heirs = Heirs(txn[p])
  PROVE  /\ txn[p].at = "leave_commit" /\ lock = p /\ Become(p, Idle)
         /\ gone \in Persons /\ gone \in Active \cup Reserve
         /\ gone \in Active => heirs \in OldestOf(Waiting \ {gone}, 1)
         /\ gone \notin Active => heirs = {}
         /\ heirs \subseteq Waiting \ {gone}
         /\ Active' = (Active \ {gone}) \cup heirs
         /\ Reserve' = Reserve \ ({gone} \cup heirs)
         /\ Present' = Present \ {gone}
         /\ \A u \in Persons : signup'[u] # "CANCELLED"
         /\ older' = Leaving(gone) /\ maxPlayers' = maxPlayers
<1>1. /\ txn[p].at = "leave_commit" /\ lock = p /\ Become(p, Idle)
      /\ signup' = [u \in Persons |-> IF u = gone THEN "none"
                                      ELSE IF u = txn[p].heir THEN "ACTIVE" ELSE signup[u]]
      /\ older' = Leaving(gone) /\ maxPlayers' = maxPlayers
  BY DEF LeaveCommit, Holds, gameVars
<1>2. gone \in Persons /\ txn[p].heir \in Players \cup {NoOne}
  BY <1>1, ListFacts, TxnFields
<1>3. /\ signup[gone] # "none"
      /\ gone \in Active => heirs \in OldestOf(Waiting \ {gone}, 1)
      /\ gone \notin Active => heirs = {}
  BY <1>1, ListFacts DEF Orderly, Decided
<1>4. gone \in Active \cup Reserve
  BY <1>2, <1>3, ListFacts DEF Active, Reserve
<1>5. heirs \subseteq Waiting \ {gone}
  BY <1>3, OneOldest DEF Waiting
<1>6. \A u \in Persons : u \in heirs <=> u = txn[p].heir
  BY PersonsAssumption DEF Heirs
<1>7. \A u \in heirs : u \in Persons /\ signup[u] = "RESERVE" /\ u # gone
  BY <1>5 DEF Waiting, Reserve
<1>8. \A u \in Persons : signup'[u] = IF u = gone THEN "none"
                                      ELSE IF u \in heirs THEN "ACTIVE" ELSE signup[u]
  BY <1>1, <1>6
<1>9. Active' = (Active \ {gone}) \cup heirs
  BY <1>7, <1>8 DEF Active
<1>10. Reserve' = Reserve \ ({gone} \cup heirs)
  BY <1>7, <1>8 DEF Reserve
<1>11. Present' = Present \ {gone}
  BY <1>7, <1>8 DEF Present
<1>12. \A u \in Persons : signup'[u] # "CANCELLED"
  BY <1>8, ListFacts
<1>. QED  BY <1>1, <1>2, <1>3, <1>4, <1>5, <1>9, <1>10, <1>11, <1>12

LEMMA LeaveList ==
  ASSUME ListInv, TypeOK', NEW p \in Procs
  PROVE  /\ \A u \in Persons, admin \in BOOLEAN : LeaveLock(p, u, admin) => ListInv'
         /\ LeaveDelete(p) => ListInv'
         /\ LeaveCommit(p) => ListInv'
<1>0. Sorted /\ TypeOK /\ Orderly(txn[p], p) /\ txn[p] \in Txn
  BY ListFacts
<1>1. ASSUME NEW u \in Persons, NEW admin \in BOOLEAN, LeaveLock(p, u, admin)
      PROVE  ListInv'
  <2>1. PICK t : t = [at |-> "leave_delete", who |-> u, vacates |-> signup[u] = "ACTIVE",
                      inherits |-> u \in granted]
    OBVIOUS
  <2>2. /\ txn[p] = Idle /\ lock = NoProc /\ lock' = p /\ Become(p, t)
        /\ signup' = signup /\ maxPlayers' = maxPlayers /\ older' = older
        /\ signup[u] # "none"
    BY <1>1, <2>1 DEF LeaveLock, Begin, gameVars
  <2>3. t \in Txn
    BY <2>1 DEF Txn, Deleting
  <2>4. Sorted'
    BY <1>0, <2>1, <2>2, DatedQuiet, SortedSame DEF Inserting, Idle
  <2>5. Orderly(t, p)'
    BY <2>1, <2>2 DEF Orderly, Decided, Locked, Active
  <2>. QED  BY <2>2, <2>3, <2>4, <2>5, QuietStep
<1>2. ASSUME LeaveDelete(p)
      PROVE  ListInv'
  <2>1. txn[p].at = "leave_delete" /\ lock = p
    BY <1>2 DEF LeaveDelete, Holds
  <2>2. PICK heirs \in OldestOf(Waiting \ {txn[p].who}, 1) :
          Become(p, [at |-> "leave_commit", who |-> txn[p].who,
                     heir |-> IF txn[p].vacates /\ heirs # {}
                                THEN CHOOSE r \in heirs : TRUE ELSE NoOne,
                     inherits |-> txn[p].inherits])
    BY <1>2 DEF LeaveDelete
  <2>3. PICK heir : heir = IF txn[p].vacates /\ heirs # {}
                             THEN CHOOSE r \in heirs : TRUE ELSE NoOne
    OBVIOUS
  <2>4. PICK t : t = [at |-> "leave_commit", who |-> txn[p].who, heir |-> heir,
                      inherits |-> txn[p].inherits]
    OBVIOUS
  <2>5. /\ Become(p, t) /\ signup' = signup /\ maxPlayers' = maxPlayers /\ older' = older
        /\ lock' = lock
    BY <1>2, <2>2, <2>3, <2>4 DEF LeaveDelete, gameVars
  <2>6. /\ signup[txn[p].who] # "none" /\ (txn[p].vacates <=> txn[p].who \in Active)
        /\ txn[p].who \in Persons /\ txn[p].inherits \in BOOLEAN /\ txn[p].vacates \in BOOLEAN
    BY <1>0, <2>1, TxnFields DEF Orderly, Decided
  <2>7. Waiting \ {txn[p].who} \in SUBSET Players
    BY DEF Waiting
  <2>8. /\ heirs \subseteq Players /\ NoOne \notin heirs
        /\ heirs # {} => \E r \in Players : heirs = {r}
    BY <2>2, <2>7, OneOldest
  <2>9. heir \in Players \cup {NoOne}
    BY <2>3, <2>8
  <2>10. t \in Txn
    BY <2>4, <2>6, <2>9 DEF Txn, HandingOn
  <2>11. Heirs(t) = IF txn[p].vacates THEN heirs ELSE {}
    BY <2>3, <2>4, <2>8 DEF Heirs
  <2>12. Sorted'
    BY <1>0, <2>1, <2>4, <2>5, DatedQuiet, SortedSame DEF Inserting
  <2>13. UNCHANGED <<Active, Waiting>>
    BY <2>5 DEF Active, Waiting, Reserve
  <2>14. Decided(t)'
    BY <2>2, <2>4, <2>5, <2>6, <2>11, <2>13 DEF Decided, OldestOf, Heirs
  <2>15. Orderly(t, p)'
    BY <2>1, <2>4, <2>5, <2>14 DEF Orderly, Locked
  <2>. QED  BY <2>5, <2>10, <2>12, <2>15, QuietStep
<1>3. ASSUME LeaveCommit(p)
      PROVE  ListInv'
  <2>1. PICK gone : gone = txn[p].who
    OBVIOUS
  <2>2. /\ txn[p].at = "leave_commit" /\ lock = p /\ Become(p, Idle)
        /\ gone \in Persons /\ Present' = Present \ {gone} /\ older' = Leaving(gone)
        /\ \A u \in Persons : signup'[u] # "CANCELLED"
    BY ZenonT(20), <1>3, <2>1, LeaveCommitEffect
  <2>3. Dated' = Dated \ {gone}
    BY <1>0, <2>2, DatedStep, ListFacts DEF Dated, Inserting, Idle
  <2>4. Sorted'
    BY <1>0, <2>2, <2>3, SortedLeaving
  <2>5. txn'[p] = Idle /\ \A q \in Procs \ {p} : txn'[q] = txn[q]
    BY <1>0, <2>2 DEF Become, TypeOK
  <2>. QED  BY <2>2, <2>4, <2>5, WritingStep
<1>. QED  BY <1>1, <1>2, <1>3

\* What the commit of a release does to the list.
LEMMA ReleaseCommitEffect ==
  ASSUME ListInv, NEW p \in Procs, ReleaseCommit(p), NEW pick, pick = txn[p].pick
  PROVE  /\ txn[p].at = "release_commit" /\ lock = p /\ Become(p, Idle)
         /\ ActiveCount < maxPlayers
         /\ pick \in OldestOf(Waiting, maxPlayers - ActiveCount)
         /\ pick \subseteq Waiting
         /\ Active' = Active \cup pick
         /\ Reserve' = Reserve \ pick
         /\ Present' = Present
         /\ \A u \in Persons : signup'[u] # "CANCELLED"
         /\ older' = older /\ maxPlayers' = maxPlayers
<1>1. /\ txn[p].at = "release_commit" /\ lock = p /\ Become(p, Idle)
      /\ signup' = [u \in Persons |-> IF u \in pick THEN "ACTIVE" ELSE signup[u]]
      /\ older' = older /\ maxPlayers' = maxPlayers
  BY DEF ReleaseCommit, Holds, gameVars
<1>2. ActiveCount < maxPlayers /\ pick \in OldestOf(Waiting, maxPlayers - ActiveCount)
  BY <1>1, ListFacts DEF Orderly, Decided
<1>3. pick \subseteq Waiting
  BY <1>2 DEF OldestOf
<1>4. \A u \in pick : u \in Persons /\ signup[u] = "RESERVE"
  BY <1>3 DEF Waiting, Reserve
<1>5. Active' = Active \cup pick
  BY <1>1, <1>4 DEF Active
<1>6. Reserve' = Reserve \ pick
  BY <1>1, <1>4 DEF Reserve
<1>7. Present' = Present
  BY <1>1, <1>4 DEF Present
<1>8. \A u \in Persons : signup'[u] # "CANCELLED"
  BY <1>1, ListFacts
<1>. QED  BY <1>1, <1>2, <1>3, <1>5, <1>6, <1>7, <1>8

LEMMA ReleaseList ==
  ASSUME ListInv, TypeOK', NEW p \in Procs
  PROVE  /\ ReleaseLock(p) => ListInv'
         /\ ReleasePick(p) => ListInv'
         /\ ReleaseCommit(p) => ListInv'
<1>0. Sorted /\ TypeOK /\ Orderly(txn[p], p) /\ txn[p] \in Txn
  BY ListFacts
<1>1. ASSUME ReleaseLock(p)
      PROVE  ListInv'
  <2>1. PICK t : t = [at |-> "release", slots |-> maxPlayers - ActiveCount]
    OBVIOUS
  <2>2. /\ txn[p] = Idle /\ lock = NoProc /\ lock' = p /\ Become(p, t)
        /\ signup' = signup /\ maxPlayers' = maxPlayers /\ older' = older
        /\ ActiveCount < maxPlayers
    BY <1>1, <2>1 DEF ReleaseLock, Begin, gameVars
  <2>3. t \in Txn
    BY <2>1, <2>2, ActiveNat, ListFacts DEF Txn, Releasing
  <2>4. Sorted'
    BY <1>0, <2>1, <2>2, DatedQuiet, SortedSame DEF Inserting, Idle
  <2>5. ActiveCount' = ActiveCount
    BY <2>2 DEF ActiveCount, Active
  <2>6. Orderly(t, p)'
    BY <2>1, <2>2, <2>5 DEF Orderly, Decided, Locked
  <2>. QED  BY <2>2, <2>3, <2>4, <2>6, QuietStep
<1>2. ASSUME ReleasePick(p)
      PROVE  ListInv'
  <2>1. txn[p].at = "release" /\ lock = p /\ signup' = signup /\ maxPlayers' = maxPlayers
          /\ older' = older
    BY <1>2 DEF ReleasePick, Holds, gameVars
  <2>2. txn[p].slots = maxPlayers - ActiveCount /\ txn[p].slots \in Nat \ {0}
    BY <1>0, <2>1, TxnFields DEF Orderly, Decided
  <2>3. PICK pick \in OldestOf(Waiting, txn[p].slots) :
          IF pick = {}
            THEN Become(p, Idle) /\ lock' = NoProc
            ELSE Become(p, [at |-> "release_commit", pick |-> pick]) /\ UNCHANGED lock
    BY <1>2 DEF ReleasePick
  <2>4. CASE pick = {}
    <3>1. Become(p, Idle) /\ lock' = NoProc
      BY <2>3, <2>4
    <3>2. Sorted'
      BY <1>0, <2>1, <3>1, DatedQuiet, SortedSame DEF Inserting, Idle
    <3>. QED  BY <2>1, <3>1, <3>2, IdleOrderly, QuietStep
  <2>5. CASE pick # {}
    <3>1. PICK t : t = [at |-> "release_commit", pick |-> pick]
      OBVIOUS
    <3>2. Become(p, t) /\ lock' = lock
      BY <2>3, <2>5, <3>1
    <3>3. pick \in SUBSET Players
      BY <2>3 DEF OldestOf, Waiting
    <3>4. t \in Txn
      BY <3>1, <3>3 DEF Txn, Filling
    <3>5. Sorted'
      BY <1>0, <2>1, <3>1, <3>2, DatedQuiet, SortedSame DEF Inserting
    <3>6. UNCHANGED <<ActiveCount, Waiting>>
      BY <2>1 DEF ActiveCount, Active, Waiting, Reserve
    <3>7. ActiveCount < maxPlayers
      BY <2>2, ActiveNat, ListFacts
    <3>8. Decided(t)'
      BY <2>1, <2>2, <2>3, <3>1, <3>6, <3>7 DEF Decided, OldestOf
    <3>9. Orderly(t, p)'
      BY <2>1, <3>1, <3>2, <3>8 DEF Orderly, Locked
    <3>. QED  BY <2>1, <3>2, <3>4, <3>5, <3>9, QuietStep
  <2>. QED  BY <2>4, <2>5
<1>3. ASSUME ReleaseCommit(p)
      PROVE  ListInv'
  <2>1. PICK pick : pick = txn[p].pick
    OBVIOUS
  <2>2. /\ txn[p].at = "release_commit" /\ lock = p /\ Become(p, Idle)
        /\ Present' = Present /\ older' = older
        /\ \A u \in Persons : signup'[u] # "CANCELLED"
    BY <1>3, <2>1, ReleaseCommitEffect
  <2>3. Dated' = Dated
    BY <1>0, <2>2, DatedStep, ListFacts DEF Dated, Inserting, Idle
  <2>4. txn'[p] = Idle /\ \A q \in Procs \ {p} : txn'[q] = txn[q]
    BY <1>0, <2>2 DEF Become, TypeOK
  <2>. QED  BY <1>0, <2>2, <2>3, <2>4, SortedSame, WritingStep
<1>. QED  BY <1>1, <1>2, <1>3

\* What the commit of a repair does to the list.
LEMMA FixCommitEffect ==
  ASSUME ListInv, NEW p \in Procs, FixCommit(p), NEW main, main = txn[p].main
  PROVE  /\ txn[p].at = "fix" /\ lock = p /\ Become(p, Idle)
         /\ main \in OldestOf((Active \cup Reserve) \cap Players, maxPlayers)
         /\ main \subseteq (Active \cup Reserve) \cap Players
         /\ Active' = main
         /\ Reserve' = (Active \cup Reserve) \ main
         /\ Present' = Present
         /\ \A u \in Persons : signup'[u] # "CANCELLED"
         /\ older' = older /\ maxPlayers' = maxPlayers
<1>1. /\ txn[p].at = "fix" /\ lock = p /\ Become(p, Idle)
      /\ signup' = Written(txn[p].write, Persons)
      /\ older' = older /\ maxPlayers' = maxPlayers
  BY DEF FixCommit, Holds, gameVars
<1>2. /\ main \in OldestOf((Active \cup Reserve) \cap Players, maxPlayers)
      /\ \A u \in Persons : signup'[u] =
            IF u \notin Active \cup Reserve THEN signup[u]
            ELSE IF u \in main THEN "ACTIVE" ELSE "RESERVE"
  BY <1>1, ListFacts DEF Orderly, Decided
<1>3. main \subseteq (Active \cup Reserve) \cap Players
  BY <1>2 DEF OldestOf
<1>4. \A u \in Persons : u \notin Active \cup Reserve => signup[u] = "none"
  BY ListFacts DEF Active, Reserve
<1>5. Active' = main
  BY <1>2, <1>3, <1>4 DEF Active, Reserve
<1>6. Reserve' = (Active \cup Reserve) \ main
  BY <1>2, <1>3, <1>4 DEF Active, Reserve
<1>7. Present' = Present
  BY <1>2, <1>4 DEF Present, Active, Reserve
<1>8. \A u \in Persons : signup'[u] # "CANCELLED"
  BY <1>2, <1>4
<1>. QED  BY <1>1, <1>2, <1>3, <1>5, <1>6, <1>7, <1>8

LEMMA FixList ==
  ASSUME ListInv, TypeOK', NEW p \in Procs
  PROVE  /\ FixLock(p) => ListInv'
         /\ FixCommit(p) => ListInv'
<1>0. Sorted /\ TypeOK /\ Orderly(txn[p], p) /\ txn[p] \in Txn
  BY ListFacts
<1>1. ASSUME FixLock(p)
      PROVE  ListInv'
  <2>1. PICK main \in OldestOf((Active \cup Reserve) \cap Players, maxPlayers) :
          Begin(p, "fix",
            [at |-> "fix",
             write |-> Assign([u \in Persons |->
                         IF u \notin Active \cup Reserve THEN signup[u]
                         ELSE IF u \in main THEN "ACTIVE" ELSE "RESERVE"]),
             main |-> main])
    BY <1>1 DEF FixLock
  <2>2. PICK want : want = [u \in Persons |-> IF u \notin Active \cup Reserve THEN signup[u]
                                     ELSE IF u \in main THEN "ACTIVE" ELSE "RESERVE"]
    OBVIOUS
  <2>3. PICK write : write = Assign(want)
    OBVIOUS
  <2>4. PICK t : t = [at |-> "fix", write |-> write, main |-> main]
    OBVIOUS
  <2>5. /\ txn[p] = Idle /\ lock = NoProc /\ lock' = p /\ Become(p, t)
        /\ signup' = signup /\ maxPlayers' = maxPlayers /\ older' = older
    BY <1>1, <2>1, <2>2, <2>3, <2>4 DEF FixLock, Begin, gameVars
  <2>6. t \in Txn
    BY <2>4, <2>5 DEF TypeOK, Become
  <2>7. Sorted'
    BY <1>0, <2>4, <2>5, DatedQuiet, SortedSame DEF Inserting, Idle
  <2>8. UNCHANGED <<Active, Reserve>>
    BY <2>5 DEF Active, Reserve
  <2>9. \A u \in Persons : Written(write, Persons)[u] = want[u]
    BY <2>2, <2>3, ListFacts DEF Written, Assign, Active, Reserve
  <2>10. \A u \in Persons : Written(write, Persons)'[u] = want[u]
    BY <2>5, <2>9 DEF Written
  <2>11. Decided(t)'
    BY <2>1, <2>2, <2>4, <2>5, <2>8, <2>10 DEF Decided, OldestOf, Written
  <2>12. Orderly(t, p)'
    BY <2>4, <2>5, <2>11 DEF Orderly, Locked
  <2>. QED  BY <2>5, <2>6, <2>7, <2>12, QuietStep
<1>2. ASSUME FixCommit(p)
      PROVE  ListInv'
  <2>1. PICK main : main = txn[p].main
    OBVIOUS
  <2>2. /\ txn[p].at = "fix" /\ lock = p /\ Become(p, Idle)
        /\ Present' = Present /\ older' = older
        /\ \A u \in Persons : signup'[u] # "CANCELLED"
    BY <1>2, <2>1, FixCommitEffect
  <2>3. Dated' = Dated
    BY <1>0, <2>2, DatedStep, ListFacts DEF Dated, Inserting, Idle
  <2>4. txn'[p] = Idle /\ \A q \in Procs \ {p} : txn'[q] = txn[q]
    BY <1>0, <2>2 DEF Become, TypeOK
  <2>. QED  BY <1>0, <2>2, <2>3, <2>4, SortedSame, WritingStep
<1>. QED  BY <1>1, <1>2

\* What the commit of an insertion, by a join or by an organizer, does.
LEMMA InsertEffect ==
  ASSUME ListInv, NEW p \in Procs, txn[p].at \in Inserting, Become(p, Idle),
         NEW u \in Persons, signup[u] = "none",
         NEW s \in {"ACTIVE", "RESERVE"}, signup' = [signup EXCEPT ![u] = s],
         older' = Becoming(p, u)
  PROVE  /\ u \notin Active \cup Reserve
         /\ Active' = IF s = "ACTIVE" THEN Active \cup {u} ELSE Active
         /\ Reserve' = IF s = "RESERVE" THEN Reserve \cup {u} ELSE Reserve
         /\ Present' = Present \cup {u}
         /\ p \in Dated /\ u \notin Dated
         /\ \A v \in Persons : signup'[v] # "CANCELLED"
         /\ Sorted'
<1>1. \A v \in Persons : signup'[v] = IF v = u THEN s ELSE signup[v]
  BY ListFacts DEF TypeOK
<1>2. u \notin Active \cup Reserve
  BY DEF Active, Reserve
<1>3. Active' = IF s = "ACTIVE" THEN Active \cup {u} ELSE Active
  BY <1>1 DEF Active
<1>4. Reserve' = IF s = "RESERVE" THEN Reserve \cup {u} ELSE Reserve
  BY <1>1 DEF Reserve
<1>5. Present' = Present \cup {u}
  BY <1>1 DEF Present
<1>6. p \in Dated /\ u \notin Dated
  BY ListFacts DEF Dated, Present
<1>7. \A v \in Persons : signup'[v] # "CANCELLED"
  BY <1>1, ListFacts
<1>8. Dated' = (Dated \ {p}) \cup {u}
  BY <1>5, DatedStep, ListFacts DEF Dated, Inserting, Idle
<1>9. Sorted'
  BY <1>6, <1>8, SortedBecoming, ListFacts
<1>. QED  BY <1>2, <1>3, <1>4, <1>5, <1>6, <1>7, <1>9

LEMMA InsertList ==
  ASSUME ListInv, TypeOK', NEW p \in Procs
  PROVE  /\ \A u \in Persons : InsertBegin(p, u) => ListInv'
         /\ InsertCommit(p) => ListInv'
<1>0. Sorted /\ TypeOK /\ Orderly(txn[p], p) /\ txn[p] \in Txn
  BY ListFacts
<1>1. ASSUME NEW u \in Persons, InsertBegin(p, u)
      PROVE  ListInv'
  <2>1. PICK t : t = [at |-> "insert", who |-> u]
    OBVIOUS
  <2>2. /\ t \in Txn /\ Become(p, t) /\ older' = Entering(p) /\ signup' = signup
        /\ maxPlayers' = maxPlayers /\ lock' = lock /\ txn[p] = Idle
    BY <1>1, <2>1 DEF InsertBegin, Begin, Txn, Adding, gameVars
  <2>3. Sorted'
    BY <1>0, <2>1, <2>2, DatedQuiet, SortedEntering DEF Inserting, Idle
  <2>4. Orderly(t, p)'
    BY <2>1, Undecided DEF Locked, Orderly
  <2>. QED  BY <2>2, <2>3, <2>4, OrderOfPersons, QuietStep
<1>2. ASSUME InsertCommit(p)
      PROVE  ListInv'
  <2>1. /\ txn[p].at = "insert" /\ lock = NoProc /\ lock' = lock /\ Become(p, Idle)
        /\ maxPlayers' = maxPlayers
    BY <1>2 DEF InsertCommit, gameVars
  <2>2. txn[p].who \in Persons
    BY <1>0, <2>1, TxnFields
  <2>3. CASE signup[txn[p].who] = "none"
    <3>1. signup' = [signup EXCEPT ![txn[p].who] = "ACTIVE"] /\ older' = Becoming(p, txn[p].who)
      BY <1>2, <2>3 DEF InsertCommit
    <3>2. Sorted' /\ \A v \in Persons : signup'[v] # "CANCELLED"
      BY <2>1, <2>2, <2>3, <3>1, InsertEffect DEF Inserting
    <3>3. txn'[p] = Idle /\ \A q \in Procs \ {p} : txn'[q] = txn[q]
      BY <1>0, <2>1 DEF Become, TypeOK
    <3>. QED  BY <2>1, <3>2, <3>3, WritingStep
  <2>4. CASE signup[txn[p].who] # "none"
    <3>1. signup' = signup /\ older' = Leaving(p)
      BY <1>2, <2>4 DEF InsertCommit
    <3>2. Sorted'
      BY <1>0, <2>1, <3>1, DatedQuiet, SortedLeaving DEF Inserting, Idle
    <3>. QED  BY <2>1, <3>1, <3>2, IdleOrderly, OrderOfPersons, QuietStep
  <2>. QED  BY <2>3, <2>4
<1>. QED  BY <1>1, <1>2

\* Steps that touch neither requests nor rows: the game, and time.
LEMMA GameList ==
  ASSUME ListInv, TypeOK'
  PROVE  /\ \A m \in Capacities : UpdateCapacity(m) => ListInv'
         /\ Finish => ListInv'
         /\ \A i \in Milestones : TimePasses(i) => ListInv'
         /\ UNCHANGED vars => ListInv'
<1>1. ASSUME UNCHANGED <<signup, older, lock, txn>>,
             maxPlayers' = maxPlayers \/ lock = NoProc
      PROVE  ListInv'
  <2>1. Dated' = Dated
    BY <1>1 DEF Dated, Present
  <2>2. Sorted'
    BY <1>1, <2>1, SortedSame, ListFacts
  <2>3. ASSUME NEW p \in Procs
        PROVE  Orderly(txn[p], p)'
    <3>1. PICK t \in Txn : t = txn[p] /\ t = txn'[p]
      BY <1>1, ListFacts
    <3>2. Orderly(t, p)
      BY <3>1, ListFacts
    <3>3. CASE maxPlayers' = maxPlayers
      BY <1>1, <3>1, <3>2, <3>3, StillDecided, OrderlyOne DEF Orderly, Locked
    <3>4. CASE lock = NoProc
      BY <1>1, <3>1, <3>2, <3>4, Undecided, OrderlyOne, ListFacts DEF Orderly, Locked
    <3>. QED  BY <1>1, <3>3, <3>4
  <2>. QED  BY <1>1, <2>2, <2>3 DEF ListInv
<1>. QED  BY <1>1 DEF UpdateCapacity, Finish, TimePasses, vars, gameVars

\* With nothing but locked operations in use, these are the only steps.
LEMMA LockedNext ==
  ASSUME Ops \subseteq LockedOps, ListInv, [Next]_vars
  PROVE  \/ \E p \in Procs :
              \/ \E u \in Players, admin \in BOOLEAN : JoinBegin(p, u, admin)
              \/ JoinLock(p) \/ JoinCount(p) \/ JoinCommit(p)
              \/ \E u \in Persons, admin \in BOOLEAN : LeaveLock(p, u, admin)
              \/ LeaveDelete(p) \/ LeaveCommit(p)
              \/ ReleaseLock(p) \/ ReleasePick(p) \/ ReleaseCommit(p)
              \/ FixLock(p) \/ FixCommit(p)
              \/ \E u \in Persons : InsertBegin(p, u)
              \/ InsertCommit(p)
         \/ \E m \in Capacities : UpdateCapacity(m)
         \/ Finish
         \/ \E i \in Milestones : TimePasses(i)
         \/ UNCHANGED vars
<1>1. \A op \in {"api_join", "restore", "status", "teams", "publish"} : op \notin Ops
  BY DEF LockedOps
<1>2. ASSUME NEW p \in Procs, Step(p)
      PROVE  \/ \E u \in Players, admin \in BOOLEAN : JoinBegin(p, u, admin)
             \/ JoinLock(p) \/ JoinCount(p) \/ JoinCommit(p)
             \/ \E u \in Persons, admin \in BOOLEAN : LeaveLock(p, u, admin)
             \/ LeaveDelete(p) \/ LeaveCommit(p)
             \/ ReleaseLock(p) \/ ReleasePick(p) \/ ReleaseCommit(p)
             \/ FixLock(p) \/ FixCommit(p)
             \/ \E u \in Persons : InsertBegin(p, u)
             \/ InsertCommit(p)
  <2>1. ~ \E u \in Players : ApiJoinBegin(p, u)
    BY <1>1 DEF ApiJoinBegin, Begin
  <2>2. /\ ~ \E u \in Persons : RestoreBegin(p, u)
        /\ ~ \E u \in Persons : \E s \in SignupStatus : StatusBegin(p, u, s)
        /\ ~ \E playing \in SUBSET Persons : TeamsBegin(p, playing)
    BY <1>1 DEF RestoreBegin, StatusBegin, TeamsBegin, UpdateBegin, Begin
  <2>3. ~ UpdateCommit(p) /\ ~ PublishCommit(p)
    BY ListFacts DEF Orderly, UpdateCommit, PublishCommit
  <2>4. ~ PublishBegin(p)
    BY <1>1 DEF PublishBegin, Begin
  <2>. QED  BY <1>2, <2>1, <2>2, <2>3, <2>4 DEF Step
<1>. QED  BY <1>2 DEF Next

LEMMA ListNext ==
  ASSUME Ops \subseteq LockedOps, ListInv, [Next]_vars
  PROVE  ListInv'
<1>1. TypeOK'
  BY NextType, ListFacts
<1>. QED  BY <1>1, LockedNext, JoinList, LeaveList, ReleaseList, FixList, InsertList, GameList

LEMMA ListInit == Init => ListInv
<1>. SUFFICES ASSUME Init
              PROVE  ListInv
  OBVIOUS
<1>1. Dated = {} /\ older = {}
  BY DEF Init, Dated, Present, Inserting, Idle
<1>2. Sorted
  BY <1>1 DEF Sorted
<1>3. \A p \in Procs : Orderly(txn[p], p)
  BY DEF Init, Idle, Orderly, Locked, Decided
<1>. QED  BY <1>2, <1>3, InitType DEF Init, ListInv

(***************************************************************************)
(* The abstract waitlist: every step maps to a step of it or is invisible. *)
(***************************************************************************)
LEMMA Unseen ==
  ASSUME signup' = signup, maxPlayers' = maxPlayers,
         older' \cap (Persons \X Persons) = older \cap (Persons \X Persons)
  PROVE  UNCHANGED List!vars
<1>1. Active' = Active /\ Reserve' = Reserve /\ Present' = Present
  BY DEF Active, Reserve, Present
<1>2. Present \X Present \subseteq Persons \X Persons
  BY DEF Present
<1>3. (older \cap (Present \X Present))' = older \cap (Present \X Present)
  BY <1>1, <1>2
<1>. QED  BY <1>1, <1>3 DEF List!vars

\* The waitlist counts as the roster does.
LEMMA SameCardinality == \A S : List!Cardinality(S) = Cardinality(S)
  BY DEF List!Cardinality, Cardinality

\* Who orders the rows of some people orders them on the list.
LEMMA OldestIsForemost ==
  ASSUME NEW S \in SUBSET Present, NEW n
  PROVE  OldestOf(S, n) = List!Foremost(S, n)
<1>1. ASSUME NEW T \in SUBSET S
      PROVE  T \in OldestOf(S, n) <=> T \in List!Foremost(S, n)
  <2>1. \A u \in T, v \in S \ T :
          <<u, v>> \in older <=> <<u, v>> \in older \cap (Present \X Present)
    OBVIOUS
  <2>. QED  BY <2>1, SameCardinality DEF OldestOf, List!Foremost
<1>2. OldestOf(S, n) \subseteq SUBSET S /\ List!Foremost(S, n) \subseteq SUBSET S
  BY DEF OldestOf, List!Foremost
<1>. QED  BY <1>1, <1>2

\* The new row takes the place its transaction had in the order.
LEMMA TakesPlace ==
  ASSUME ListInv, NEW p \in Procs, p \in Dated, NEW u \in Persons, u \notin Dated,
         Present' = Present \cup {u}, older' = Becoming(p, u)
  PROVE  List!LinesUp(u)
<1> DEFINE before == {x \in Present : <<x, p>> \in older}
           order  == older \cap (Present \X Present)
           after  == older' \cap (Present' \X Present')
<1>1. Present \subseteq Dated \ {p} /\ u \notin Present /\ Present = Active \cup Reserve
  BY ListFacts DEF Dated
<1>2. \A x \in Present : <<p, x>> \in older <=> x \notin before
  BY <1>1, ListFacts DEF Sorted
<1>3. after = order \cup (before \X {u}) \cup ({u} \X (Present \ before))
  <2>0. /\ \A x, y \in Dated \ {p} : <<x, y>> \in older' <=> <<x, y>> \in older
        /\ \A x \in Dated \ {p} : <<x, u>> \in older' <=> <<x, p>> \in older
        /\ \A y \in Dated \ {p} : <<u, y>> \in older' <=> <<p, y>> \in older
        /\ <<u, u>> \notin older'
    BY Renaming, ListFacts
  <2>1. \A x, y \in Present : <<x, y>> \in after <=> <<x, y>> \in order
    BY <1>1, <2>0
  <2>2. \A x \in Present : <<x, u>> \in after <=> x \in before
    BY <1>1, <2>0
  <2>3. \A y \in Present : <<u, y>> \in after <=> y \in Present \ before
    BY <1>1, <1>2, <2>0
  <2>4. <<u, u>> \notin after
    BY <2>0
  <2>. QED  BY <1>1, <2>1, <2>2, <2>3, <2>4
<1>4. before \in SUBSET Present
  OBVIOUS
<1>. QED  BY <1>1, <1>3, <1>4 DEF List!LinesUp, List!Listed

\* Whoever goes leaves the order of those who stay.
LEMMA GivesUpPlace ==
  ASSUME NEW u, Present' = Present \ {u}, older' = Leaving(u)
  PROVE  older' \cap (Present' \X Present')
           = {e \in older \cap (Present \X Present) : e[1] # u /\ e[2] # u}
  BY DEF Leaving

LEMMA JoinRegisters ==
  ASSUME ListInv, NEW p \in Procs, JoinCommit(p)
  PROVE  \E u \in Persons : List!Register(u)
<1>1. PICK u, s : u = txn[p].who /\ s = txn[p].as
  OBVIOUS
<1>2. /\ txn[p].at = "join_insert" /\ Become(p, Idle) /\ maxPlayers' = maxPlayers
      /\ signup' = [signup EXCEPT ![u] = s] /\ older' = Becoming(p, u)
  BY <1>1 DEF JoinCommit, Holds, gameVars
<1>3. /\ u \in Persons /\ s \in {"ACTIVE", "RESERVE"} /\ signup[u] = "none"
      /\ s = "ACTIVE" <=> Cardinality(Active) < maxPlayers
  BY <1>1, <1>2, ListFacts, TxnFields DEF Orderly, Decided, Persons, ActiveCount
<1>4. /\ u \notin Active \cup Reserve
      /\ Active' = IF s = "ACTIVE" THEN Active \cup {u} ELSE Active
      /\ Reserve' = IF s = "RESERVE" THEN Reserve \cup {u} ELSE Reserve
      /\ Present' = Present \cup {u} /\ p \in Dated /\ u \notin Dated
  BY <1>2, <1>3, InsertEffect DEF Inserting
<1>5. List!LinesUp(u)
  BY <1>2, <1>3, <1>4, TakesPlace
<1>. QED
  BY <1>2, <1>3, <1>4, <1>5, SameCardinality DEF List!Register, List!Listed

LEMMA InsertAdmits ==
  ASSUME ListInv, NEW p \in Procs, InsertCommit(p)
  PROVE  (\E u \in Persons : List!Admit(u)) \/ UNCHANGED List!vars
<1>1. PICK u : u = txn[p].who
  OBVIOUS
<1>2. txn[p].at = "insert" /\ Become(p, Idle) /\ maxPlayers' = maxPlayers
  BY DEF InsertCommit, gameVars
<1>3. u \in Persons
  BY <1>1, <1>2, ListFacts, TxnFields
<1>4. CASE signup[u] = "none"
  <2>1. signup' = [signup EXCEPT ![u] = "ACTIVE"] /\ older' = Becoming(p, u)
    BY <1>1, <1>4 DEF InsertCommit
  <2>2. /\ u \notin Active \cup Reserve
        /\ Active' = Active \cup {u} /\ Reserve' = Reserve
        /\ Present' = Present \cup {u} /\ p \in Dated /\ u \notin Dated
    BY <1>2, <1>3, <1>4, <2>1, InsertEffect DEF Inserting
  <2>3. List!LinesUp(u)
    BY <1>3, <2>1, <2>2, TakesPlace
  <2>. QED  BY <1>2, <1>3, <2>2, <2>3 DEF List!Admit, List!Listed
<1>5. CASE signup[u] # "none"
  <2>1. signup' = signup /\ older' = Leaving(p)
    BY <1>1, <1>5 DEF InsertCommit
  <2>. QED  BY <1>2, <2>1, OrderOfPersons, Unseen
<1>. QED  BY <1>4, <1>5

LEMMA LeaveWithdraws ==
  ASSUME ListInv, NEW p \in Procs, LeaveCommit(p)
  PROVE  \E u \in Persons : List!Withdraw(u)
<1>1. PICK gone, heirs : gone = txn[p].who /\ heirs = Heirs(txn[p])
  OBVIOUS
<1>2. /\ gone \in Persons /\ gone \in Active \cup Reserve
      /\ gone \in Active => heirs \in OldestOf(Waiting \ {gone}, 1)
      /\ gone \notin Active => heirs = {}
      /\ heirs \subseteq Waiting \ {gone}
      /\ Active' = (Active \ {gone}) \cup heirs
      /\ Reserve' = Reserve \ ({gone} \cup heirs)
      /\ Present' = Present \ {gone}
      /\ older' = Leaving(gone) /\ maxPlayers' = maxPlayers
  BY <1>1, LeaveCommitEffect
<1>3. gone \in Active => gone \notin Reserve
  BY DEF Active, Reserve
<1>4. (older \cap (Present \X Present))'
        = {e \in older \cap (Present \X Present) : e[1] # gone /\ e[2] # gone}
  BY <1>2, GivesUpPlace
<1>5. Waiting \ {gone} \in SUBSET Present
  BY DEF Waiting, Reserve, Present
<1>6. gone \in Active => heirs \in List!Foremost((Reserve \cap Players) \ {gone}, 1)
  BY <1>2, <1>5, OldestIsForemost DEF Waiting
<1>7. gone \in Active => Reserve' = Reserve \ heirs
  BY <1>2, <1>3
<1>8. gone \notin Active => Active' = Active /\ Reserve' = Reserve \ {gone}
  BY <1>2
<1>. QED  BY <1>2, <1>4, <1>6, <1>7, <1>8 DEF List!Withdraw, List!Listed

LEMMA ReleaseRefills ==
  ASSUME ListInv, NEW p \in Procs, ReleaseCommit(p)
  PROVE  List!Refill
<1>1. PICK pick : pick = txn[p].pick
  OBVIOUS
<1>2. /\ ActiveCount < maxPlayers
      /\ pick \in OldestOf(Waiting, maxPlayers - ActiveCount)
      /\ Active' = Active \cup pick /\ Reserve' = Reserve \ pick
      /\ Present' = Present /\ older' = older /\ maxPlayers' = maxPlayers
  BY <1>1, ReleaseCommitEffect
<1>3. Waiting \in SUBSET Present
  BY DEF Waiting, Reserve, Present
<1>4. pick \in List!Foremost(Reserve \cap Players, maxPlayers - List!Cardinality(Active))
  BY <1>2, <1>3, OldestIsForemost, SameCardinality DEF Waiting, ActiveCount
<1>. QED  BY <1>2, <1>4, SameCardinality DEF List!Refill, ActiveCount

LEMMA FixReseats ==
  ASSUME ListInv, NEW p \in Procs, FixCommit(p)
  PROVE  List!Reseat
<1>1. PICK main : main = txn[p].main
  OBVIOUS
<1>2. /\ main \in OldestOf((Active \cup Reserve) \cap Players, maxPlayers)
      /\ Active' = main /\ Reserve' = (Active \cup Reserve) \ main
      /\ Present' = Present /\ older' = older /\ maxPlayers' = maxPlayers
  BY <1>1, FixCommitEffect
<1>3. (Active \cup Reserve) \cap Players \in SUBSET Present
  BY DEF Active, Reserve, Present
<1>4. main \in List!Foremost((Active \cup Reserve) \cap Players, maxPlayers)
  BY <1>2, <1>3, OldestIsForemost
<1>. QED  BY <1>2, <1>4 DEF List!Reseat, List!Listed

\* Requests that begin, wait, or are refused, and what only the game or the
\* clock does, are not seen.
LEMMA UnseenSteps ==
  ASSUME ListInv
  PROVE  /\ \A p \in Procs :
              /\ \A u \in Players, admin \in BOOLEAN : JoinBegin(p, u, admin) => UNCHANGED List!vars
              /\ JoinLock(p) \/ JoinCount(p) => UNCHANGED List!vars
              /\ \A u \in Persons, admin \in BOOLEAN : LeaveLock(p, u, admin) => UNCHANGED List!vars
              /\ LeaveDelete(p) => UNCHANGED List!vars
              /\ ReleaseLock(p) \/ ReleasePick(p) \/ FixLock(p) => UNCHANGED List!vars
              /\ \A u \in Persons : InsertBegin(p, u) => UNCHANGED List!vars
         /\ Finish \/ UNCHANGED vars => UNCHANGED List!vars
         /\ \A i \in Milestones : TimePasses(i) => UNCHANGED List!vars
<1>1. ASSUME NEW p \in Procs
      PROVE  /\ \A u \in Players, admin \in BOOLEAN : JoinBegin(p, u, admin) => UNCHANGED List!vars
             /\ \A u \in Persons : InsertBegin(p, u) => UNCHANGED List!vars
             /\ JoinLock(p) => UNCHANGED List!vars
  BY OrderOfPersons, Unseen DEF JoinBegin, InsertBegin, JoinLock, gameVars
<1>2. ASSUME NEW p \in Procs
      PROVE  /\ JoinCount(p) => UNCHANGED List!vars
             /\ \A u \in Persons, admin \in BOOLEAN : LeaveLock(p, u, admin) => UNCHANGED List!vars
             /\ LeaveDelete(p) => UNCHANGED List!vars
             /\ ReleaseLock(p) \/ ReleasePick(p) \/ FixLock(p) => UNCHANGED List!vars
  BY Unseen DEF JoinCount, LeaveLock, LeaveDelete, ReleaseLock, ReleasePick, FixLock, gameVars
<1>3. Finish \/ UNCHANGED vars => UNCHANGED List!vars
  BY Unseen DEF Finish, vars, gameVars
<1>4. \A i \in Milestones : TimePasses(i) => UNCHANGED List!vars
  BY Unseen DEF TimePasses
<1>. QED  BY <1>1, <1>2, <1>3, <1>4

LEMMA Simulates ==
  ASSUME Ops \subseteq LockedOps, ListInv, [Next]_vars
  PROVE  [List!Next]_(List!vars)
<1>1. ASSUME NEW m \in Capacities, UpdateCapacity(m)
      PROVE  List!Resize
  <2>1. /\ maxPlayers' = m /\ older' = older
        /\ Active' = Active /\ Reserve' = Reserve /\ Present' = Present
    BY <1>1 DEF UpdateCapacity, Active, Reserve, Present
  <2>. QED  BY <2>1 DEF List!Resize
<1>2. ASSUME NEW p \in Procs,
             JoinCommit(p) \/ InsertCommit(p) \/ LeaveCommit(p) \/ ReleaseCommit(p) \/ FixCommit(p)
      PROVE  [List!Next]_(List!vars)
  BY <1>2, JoinRegisters, InsertAdmits, LeaveWithdraws, ReleaseRefills, FixReseats DEF List!Next
<1>. QED  BY <1>1, <1>2, UnseenSteps, LockedNext DEF List!Next

LEMMA StartsAsList == Init => List!Init
  BY DEF Init, List!Init, Active, Reserve

\* ImplementsWaitlist: with nothing in use but operations that take the row
\* lock of the game or wait for it, the signups behave like the abstract
\* waitlist, however join_player, leave_player, release_gk_slots,
\* recalculate_roster and the insertions of organizers interleave.
THEOREM Refinement ==
  ASSUME Ops \subseteq LockedOps
  PROVE  Spec => ImplementsWaitlist
<1>1. Init => ListInv /\ List!Init
  BY ListInit, StartsAsList
<1>2. ListInv /\ [Next]_vars => ListInv'
  BY ListNext
<1>3. ListInv /\ [Next]_vars => [List!Next]_(List!vars)
  BY Simulates
<1>. QED  BY <1>1, <1>2, <1>3, PTL DEF Spec, ImplementsWaitlist, List!Spec

(***************************************************************************)
(* What the steps of the locked operations promise.                        *)
(***************************************************************************)

\* A request that was about to commit, and is through, has committed.
LEMMA OwnCommit ==
  ASSUME Ops \subseteq LockedOps, ListInv, [Next]_vars,
         NEW p \in Procs, txn'[p] = Idle
  PROVE  /\ txn[p].at = "join_insert" => JoinCommit(p)
         /\ txn[p].at = "leave_commit" => LeaveCommit(p)
         /\ txn[p].at = "release_commit" => ReleaseCommit(p)
         /\ txn[p].at = "fix" => FixCommit(p)
<1>. SUFFICES ASSUME txn[p].at \in {"join_insert", "leave_commit", "release_commit", "fix"}
              PROVE  /\ txn[p].at = "join_insert" => JoinCommit(p)
                     /\ txn[p].at = "leave_commit" => LeaveCommit(p)
                     /\ txn[p].at = "release_commit" => ReleaseCommit(p)
                     /\ txn[p].at = "fix" => FixCommit(p)
  OBVIOUS
<1>1. txn[p] # Idle /\ txn'[p] # txn[p]
  BY DEF Idle
<1>2. \A q \in Procs : \A t : q # p => ~ Become(q, t)
  BY <1>1, ListFacts DEF Become, TypeOK
<1>3. \A q \in Procs :
        /\ \A u \in Players, admin \in BOOLEAN : ~ JoinBegin(q, u, admin) \/ q = p
        /\ JoinLock(q) \/ JoinCount(q) \/ JoinCommit(q) => q = p
        /\ \A u \in Persons, admin \in BOOLEAN : ~ LeaveLock(q, u, admin) \/ q = p
        /\ LeaveDelete(q) \/ LeaveCommit(q) => q = p
        /\ ReleaseLock(q) \/ ReleasePick(q) \/ ReleaseCommit(q) => q = p
        /\ FixLock(q) \/ FixCommit(q) => q = p
        /\ \A u \in Persons : ~ InsertBegin(q, u) \/ q = p
        /\ InsertCommit(q) => q = p
  BY ZenonT(20), <1>2 DEF JoinBegin, JoinLock, JoinCount, JoinCommit, LeaveLock, LeaveDelete, LeaveCommit,
              ReleaseLock, ReleasePick, ReleaseCommit, FixLock, FixCommit, InsertBegin,
              InsertCommit, Begin
<1>4. /\ \A u \in Players, admin \in BOOLEAN : ~ JoinBegin(p, u, admin)
      /\ \A u \in Persons, admin \in BOOLEAN : ~ LeaveLock(p, u, admin)
      /\ \A u \in Persons : ~ InsertBegin(p, u)
      /\ ~ ReleaseLock(p) /\ ~ FixLock(p)
  BY <1>1 DEF JoinBegin, LeaveLock, InsertBegin, ReleaseLock, FixLock, Begin
<1>5. /\ ~ JoinLock(p) /\ ~ JoinCount(p) /\ ~ LeaveDelete(p) /\ ~ ReleasePick(p)
      /\ ~ InsertCommit(p)
  BY DEF JoinLock, JoinCount, LeaveDelete, ReleasePick, InsertCommit, Holds
<1>6. /\ \A m \in Capacities : ~ UpdateCapacity(m)
      /\ ~ Finish
      /\ \A i \in Milestones : ~ TimePasses(i)
      /\ ~ UNCHANGED vars
  BY <1>1 DEF UpdateCapacity, Finish, TimePasses, vars
<1>7. JoinCommit(p) \/ LeaveCommit(p) \/ ReleaseCommit(p) \/ FixCommit(p)
  BY <1>3, <1>4, <1>5, <1>6, LockedNext
<1>. QED  BY <1>7 DEF JoinCommit, LeaveCommit, ReleaseCommit, FixCommit, Holds

\* A join commits the status it has decided on, for somebody who was not on
\* the list.
LEMMA JoinCommitEffect ==
  ASSUME ListInv, NEW p \in Procs, JoinCommit(p),
         NEW u, u = txn[p].who, NEW s, s = txn[p].as
  PROVE  /\ u \in Players /\ u \notin Active \cup Reserve
         /\ s \in {"ACTIVE", "RESERVE"}
         /\ s = "ACTIVE" <=> ActiveCount < maxPlayers
         /\ Active' = IF s = "ACTIVE" THEN Active \cup {u} ELSE Active
         /\ Reserve' = IF s = "RESERVE" THEN Reserve \cup {u} ELSE Reserve
         /\ ~ txn[p].admin /\ SignupLimit > 0 => TotalCount < SignupLimit
<1>1. /\ txn[p].at = "join_insert" /\ Become(p, Idle)
      /\ signup' = [signup EXCEPT ![u] = s] /\ older' = Becoming(p, u)
  BY DEF JoinCommit, Holds
<1>2. u \in Players /\ s \in {"ACTIVE", "RESERVE"}
  BY <1>1, ListFacts, TxnFields
<1>3. /\ signup[u] = "none"
      /\ s = "ACTIVE" <=> ActiveCount < maxPlayers
      /\ ~ txn[p].admin /\ SignupLimit > 0 => TotalCount < SignupLimit
  BY <1>1, ListFacts DEF Orderly, Decided
<1>4. u \in Persons /\ txn[p].at \in Inserting
  BY <1>1, <1>2 DEF Persons, Inserting
<1>. QED  BY <1>1, <1>2, <1>3, <1>4, InsertEffect

LEMMA JoinKeepsLimit ==
  ASSUME ListInv, NEW p \in Procs, JoinCommit(p), SignupLimit > 0, ~ txn[p].admin
  PROVE  TotalCount' <= SignupLimit
<1>1. PICK u, S : /\ S = Active \cup Reserve /\ S \in SUBSET Persons
                  /\ Active' \cup Reserve' = S \cup {u}
                  /\ TotalCount < SignupLimit
  <2>1. PICK u, s : /\ s \in {"ACTIVE", "RESERVE"}
                    /\ Active' = IF s = "ACTIVE" THEN Active \cup {u} ELSE Active
                    /\ Reserve' = IF s = "RESERVE" THEN Reserve \cup {u} ELSE Reserve
                    /\ TotalCount < SignupLimit
    BY JoinCommitEffect
  <2>2. Active' \cup Reserve' = (Active \cup Reserve) \cup {u}
    BY <2>1
  <2>3. Active \cup Reserve \in SUBSET Persons
    BY DEF Active, Reserve
  <2>. QED  BY <2>1, <2>2, <2>3
<1>2. IsFiniteSet(S) /\ Cardinality(S) \in Nat
  BY <1>1, Fewer
<1>3. Cardinality(S \cup {u}) = IF u \in S THEN Cardinality(S) ELSE Cardinality(S) + 1
  BY <1>2, FS_AddElement
<1>4. TotalCount = Cardinality(S) /\ TotalCount' = Cardinality(S \cup {u})
  BY <1>1 DEF TotalCount
<1>. QED  BY <1>1, <1>2, <1>3, <1>4, ParametersAssumption

\* Who is picked by age is older than everybody who is passed over.
LEMMA PromotionByAge ==
  ASSUME NEW S \in SUBSET Waiting, NEW n, NEW T \in OldestOf(S, n),
         Active' \cap Reserve = T, Reserve' \cap Waiting \subseteq S
  PROVE  /\ Promoted \subseteq Players
         /\ \A u \in Promoted, v \in Waiting \ Promoted :
              signup'[v] = "RESERVE" => <<u, v>> \in older
<1>1. Promoted = T
  BY DEF Promoted, Active, Reserve
<1>2. T \subseteq S /\ \A u \in T, v \in S \ T : <<u, v>> \in older
  BY DEF OldestOf
<1>3. \A v \in Waiting : signup'[v] = "RESERVE" => v \in S
  BY DEF Waiting, Reserve
<1>. QED  BY <1>1, <1>2, <1>3 DEF Waiting

LEMMA LeavePromotes ==
  ASSUME ListInv, NEW p \in Procs, LeaveCommit(p)
  PROVE  /\ Promoted \subseteq Players
         /\ \A u \in Promoted, v \in Waiting \ Promoted :
              signup'[v] = "RESERVE" => <<u, v>> \in older
<1>1. PICK gone, heirs : gone = txn[p].who /\ heirs = Heirs(txn[p])
  OBVIOUS
<1>2. /\ gone \in Active => heirs \in OldestOf(Waiting \ {gone}, 1)
      /\ gone \notin Active => heirs = {}
      /\ heirs \subseteq Waiting \ {gone}
      /\ Active' = (Active \ {gone}) \cup heirs
      /\ Reserve' = Reserve \ ({gone} \cup heirs)
  BY <1>1, LeaveCommitEffect
<1>3. Active' \cap Reserve = heirs
  BY <1>2 DEF Active, Reserve, Waiting
<1>4. CASE gone \in Active
  BY <1>2, <1>3, <1>4, PromotionByAge
<1>5. CASE gone \notin Active
  BY <1>2, <1>3, <1>5 DEF Promoted, Active, Reserve
<1>. QED  BY <1>4, <1>5

LEMMA ReleasePromotes ==
  ASSUME ListInv, NEW p \in Procs, ReleaseCommit(p)
  PROVE  /\ Promoted \subseteq Players
         /\ \A u \in Promoted, v \in Waiting \ Promoted :
              signup'[v] = "RESERVE" => <<u, v>> \in older
<1>1. PICK pick : pick = txn[p].pick
  OBVIOUS
<1>2. /\ pick \in OldestOf(Waiting, maxPlayers - ActiveCount)
      /\ pick \subseteq Waiting
      /\ Active' = Active \cup pick
      /\ Reserve' = Reserve \ pick
  BY <1>1, ReleaseCommitEffect
<1>3. Active' \cap Reserve = pick
  BY <1>2 DEF Active, Reserve, Waiting
<1>. QED  BY <1>2, <1>3, PromotionByAge

\* Filling n free slots by age fills them all or leaves nobody waiting.
LEMMA Filled ==
  ASSUME NEW S \in SUBSET Persons, NEW n \in Nat, NEW T \in OldestOf(S, n)
  PROVE  /\ T \subseteq S /\ IsFiniteSet(T)
         /\ Cardinality(T) \in Nat /\ Cardinality(T) <= n
         /\ Cardinality(T) = n \/ T = S
<1>1. T \subseteq S /\ (Cardinality(T) = n \/ (T = S /\ Cardinality(S) < n))
  BY DEF OldestOf
<1>2. IsFiniteSet(T) /\ Cardinality(T) \in Nat /\ Cardinality(S) \in Nat
  BY <1>1, Fewer
<1>. QED  BY <1>1, <1>2

LEMMA ReleaseFills ==
  ASSUME ListInv, NEW p \in Procs, ReleaseCommit(p)
  PROVE  /\ txn[p].pick \subseteq Reserve
         /\ Cardinality(Active') <= maxPlayers
         /\ NoIdleSlot'
<1>1. PICK pick : pick = txn[p].pick
  OBVIOUS
<1>2. /\ ActiveCount < maxPlayers /\ maxPlayers' = maxPlayers
      /\ pick \in OldestOf(Waiting, maxPlayers - ActiveCount)
      /\ pick \subseteq Waiting
      /\ Active' = Active \cup pick
      /\ Reserve' = Reserve \ pick
  BY <1>1, ReleaseCommitEffect
<1>3. Active \in SUBSET Persons /\ Waiting \in SUBSET Persons
  BY DEF Active, Waiting, Reserve
<1>4. IsFiniteSet(Active) /\ ActiveCount \in Nat /\ maxPlayers \in Nat
  BY <1>3, Fewer, ListFacts DEF ActiveCount
<1>5. /\ IsFiniteSet(pick) /\ Cardinality(pick) \in Nat
      /\ Cardinality(pick) <= maxPlayers - ActiveCount
      /\ Cardinality(pick) = maxPlayers - ActiveCount \/ pick = Waiting
  BY <1>2, <1>3, <1>4, Filled
<1>6. Active \cap pick = {}
  BY <1>2 DEF Active, Waiting, Reserve
<1>7. Cardinality(Active \cup pick) = ActiveCount + Cardinality(pick)
  <2>1. Cardinality(Active \cup pick)
          = Cardinality(Active) + Cardinality(pick) - Cardinality(Active \cap pick)
    BY <1>4, <1>5, FS_Union
  <2>2. Cardinality(Active \cap pick) = 0
    BY <1>6, FS_EmptySet
  <2>. QED  BY <1>4, <1>5, <2>1, <2>2 DEF ActiveCount
<1>8. Cardinality(Active') = ActiveCount + Cardinality(pick)
  BY <1>2, <1>7
<1>9. Cardinality(Active') <= maxPlayers
  BY <1>4, <1>5, <1>8
<1>10. pick = Waiting => Waiting' = {}
  BY <1>2 DEF Waiting
<1>11. Cardinality(pick) = maxPlayers - ActiveCount => ActiveCount' >= maxPlayers'
  BY <1>2, <1>4, <1>8 DEF ActiveCount
<1>. QED  BY <1>1, <1>2, <1>5, <1>9, <1>10, <1>11 DEF NoIdleSlot, Waiting

LEMMA FixFills ==
  ASSUME ListInv, NEW p \in Procs, FixCommit(p)
  PROVE  /\ Active' \subseteq Players
         /\ Active' \in OldestOf((Active \cup Reserve) \cap Players, maxPlayers)
         /\ NoIdleSlot'
<1>1. PICK main : main = txn[p].main
  OBVIOUS
<1>2. PICK S \in SUBSET Persons : S = (Active \cup Reserve) \cap Players
  BY DEF Persons
<1>3. /\ main \in OldestOf(S, maxPlayers) /\ main \subseteq S
      /\ Active' = main
      /\ Reserve' = (Active \cup Reserve) \ main
      /\ maxPlayers' = maxPlayers /\ maxPlayers \in Nat
  BY <1>1, <1>2, FixCommitEffect, ListFacts
<1>4. Cardinality(main) = maxPlayers \/ main = S
  BY <1>3, Filled
<1>5. main = S => Waiting' = {}
  BY <1>2, <1>3 DEF Waiting
<1>6. Cardinality(main) = maxPlayers => ActiveCount' >= maxPlayers'
  BY <1>3 DEF ActiveCount
<1>. QED  BY <1>2, <1>3, <1>4, <1>5, <1>6 DEF NoIdleSlot

\* Without a new place or a new somebody waiting, no slot falls idle.
LEMMA StillFilled ==
  ASSUME TypeOK, NoIdleSlot, maxPlayers' = maxPlayers,
         \/ Waiting' = {}
         \/ ActiveCount >= maxPlayers /\ Cardinality(Active') >= ActiveCount
         \/ Waiting' \subseteq Waiting /\ Cardinality(Active') >= ActiveCount
  PROVE  NoIdleSlot'
<1>1. ActiveCount \in Nat /\ Cardinality(Active') \in Nat /\ maxPlayers \in Nat
  BY Fewer, ParametersAssumption DEF TypeOK, ActiveCount, Active
<1>. QED  BY <1>1 DEF NoIdleSlot, ActiveCount

LEMMA JoinKeepsFilled ==
  ASSUME ListInv, NoIdleSlot, NEW p \in Procs, JoinCommit(p)
  PROVE  NoIdleSlot'
<1>1. PICK u, s : /\ u \in Players /\ s \in {"ACTIVE", "RESERVE"}
                  /\ s = "ACTIVE" <=> ActiveCount < maxPlayers
                  /\ Active' = IF s = "ACTIVE" THEN Active \cup {u} ELSE Active
                  /\ Reserve' = IF s = "RESERVE" THEN Reserve \cup {u} ELSE Reserve
  BY JoinCommitEffect
<1>2. maxPlayers' = maxPlayers
  BY DEF JoinCommit, gameVars
<1>3. Active' \in SUBSET Persons /\ Active \subseteq Active'
  BY <1>1 DEF Active, Persons
<1>4. Cardinality(Active') >= ActiveCount
  BY <1>3, Fewer DEF ActiveCount
<1>5. ActiveCount \in Nat /\ maxPlayers \in Nat
  BY Fewer, ListFacts DEF ActiveCount, Active
<1>6. CASE s = "ACTIVE"
  BY <1>1, <1>2, <1>4, <1>6, StillFilled, ListFacts DEF Waiting
<1>7. CASE s = "RESERVE"
  BY <1>1, <1>2, <1>4, <1>5, <1>7, StillFilled, ListFacts
<1>. QED  BY <1>1, <1>6, <1>7

LEMMA InsertKeepsFilled ==
  ASSUME ListInv, NoIdleSlot, NEW p \in Procs, InsertCommit(p)
  PROVE  NoIdleSlot'
<1>1. maxPlayers' = maxPlayers /\ txn[p].at = "insert"
  BY DEF InsertCommit, gameVars
<1>2. PICK u \in Persons : u = txn[p].who
  BY <1>1, ListFacts, TxnFields
<1>3. CASE signup[u] = "none"
  <2>1. signup' = [signup EXCEPT ![u] = "ACTIVE"] /\ older' = Becoming(p, u) /\ Become(p, Idle)
    BY <1>2, <1>3 DEF InsertCommit
  <2>2. Active' = Active \cup {u} /\ Reserve' = Reserve
    BY <1>1, <1>3, <2>1, InsertEffect DEF Inserting
  <2>3. Cardinality(Active') >= ActiveCount
    BY <2>2, Fewer DEF ActiveCount, Active
  <2>. QED  BY <1>1, <2>2, <2>3, StillFilled, ListFacts DEF Waiting
<1>4. CASE signup[u] # "none"
  <2>1. signup' = signup
    BY <1>2, <1>4 DEF InsertCommit
  <2>. QED  BY <1>1, <2>1 DEF NoIdleSlot, Waiting, Reserve, ActiveCount, Active
<1>. QED  BY <1>3, <1>4

\* The heir takes the place of who leaves.
LEMMA LeaveKeepsFilled ==
  ASSUME ListInv, NoIdleSlot, NEW p \in Procs, LeaveCommit(p)
  PROVE  NoIdleSlot'
<1>1. PICK gone, heirs :
        /\ gone \in Active => heirs \in OldestOf(Waiting \ {gone}, 1)
        /\ gone \notin Active => heirs = {}
        /\ heirs \subseteq Waiting \ {gone}
        /\ Active' = (Active \ {gone}) \cup heirs
        /\ Reserve' = Reserve \ ({gone} \cup heirs)
        /\ maxPlayers' = maxPlayers
  BY LeaveCommitEffect
<1>2. Waiting' \subseteq Waiting
  BY <1>1 DEF Waiting
<1>3. CASE gone \notin Active
  BY <1>1, <1>2, <1>3, StillFilled, ListFacts, Fewer DEF ActiveCount, Active
<1>4. CASE gone \in Active /\ heirs = {}
  <2>1. Waiting \ {gone} = {}
    BY <1>1, <1>4, OneOldest DEF Waiting
  <2>2. Waiting' = {}
    BY <1>1, <2>1 DEF Waiting
  <2>. QED  BY <1>1, <2>2, StillFilled, ListFacts
<1>5. CASE gone \in Active /\ heirs # {}
  <2>1. PICK r : r \in Waiting /\ heirs = {r}
    BY <1>1, <1>5, OneOldest DEF Waiting
  <2>2. r \notin Active
    BY <2>1 DEF Waiting, Reserve, Active
  <2>3. PICK S \in SUBSET Persons : S = Active
    BY DEF Active
  <2>4. IsFiniteSet(S) /\ IsFiniteSet(S \ {gone}) /\ Cardinality(S) \in Nat
    BY Fewer
  <2>5. Cardinality(S \ {gone}) = Cardinality(S) - 1
    BY <1>5, <2>3, <2>4, FS_RemoveElement
  <2>6. Cardinality((S \ {gone}) \cup {r}) = Cardinality(S \ {gone}) + 1
    BY <2>2, <2>3, <2>4, FS_AddElement
  <2>7. Cardinality(Active') = ActiveCount /\ ActiveCount \in Nat
    BY <1>1, <2>1, <2>3, <2>4, <2>5, <2>6 DEF ActiveCount
  <2>. QED  BY <1>1, <1>2, <2>7, StillFilled, ListFacts
<1>. QED  BY <1>3, <1>4, <1>5

LEMMA StepKeepsFilled ==
  ASSUME Ops \subseteq LockedOps, ListInv, [Next]_vars, NoIdleSlot, maxPlayers' = maxPlayers
  PROVE  NoIdleSlot'
<1>1. ASSUME signup' = signup
      PROVE  NoIdleSlot'
  BY <1>1 DEF NoIdleSlot, Waiting, Reserve, ActiveCount, Active
<1>2. ASSUME NEW p \in Procs
      PROVE  /\ \A u \in Players, admin \in BOOLEAN : JoinBegin(p, u, admin) => signup' = signup
             /\ JoinLock(p) \/ JoinCount(p) => signup' = signup
             /\ \A u \in Persons, admin \in BOOLEAN : LeaveLock(p, u, admin) => signup' = signup
             /\ LeaveDelete(p) \/ ReleaseLock(p) \/ ReleasePick(p) => signup' = signup
             /\ FixLock(p) => signup' = signup
             /\ \A u \in Persons : InsertBegin(p, u) => signup' = signup
  BY DEF JoinBegin, JoinLock, JoinCount, LeaveLock, LeaveDelete, ReleaseLock, ReleasePick,
         FixLock, InsertBegin
<1>3. /\ \A m \in Capacities : UpdateCapacity(m) => signup' = signup
      /\ Finish \/ UNCHANGED vars => signup' = signup
      /\ \A i \in Milestones : TimePasses(i) => signup' = signup
  BY DEF UpdateCapacity, Finish, TimePasses, vars
<1>. QED  BY <1>1, <1>2, <1>3, LockedNext, JoinKeepsFilled, InsertKeepsFilled, LeaveKeepsFilled,
             ReleaseFills, FixFills

\* RespectsSignupLimit: however many joins and insertions are in flight, a
\* player's own join commits only where signup_limit leaves room (join_player).
THEOREM SignupLimitKept ==
  ASSUME Ops \subseteq LockedOps
  PROVE  Spec => RespectsSignupLimit
<1>1. Init => ListInv
  BY ListInit
<1>2. ListInv /\ [Next]_vars => ListInv'
  BY ListNext
<1>3. ListInv /\ [Next]_vars =>
        [\A p \in Procs :
           /\ SignupLimit > 0
           /\ txn[p].at = "join_insert" /\ ~ txn[p].admin
           /\ txn'[p] = Idle
           => TotalCount' <= SignupLimit]_vars
  BY OwnCommit, JoinKeepsLimit
<1>. QED  BY <1>1, <1>2, <1>3, PTL DEF Spec, RespectsSignupLimit

\* PromotesOldest: leave_player and release_gk_slots move up registered
\* players only, and nobody ahead of an older one they leave waiting, although
\* they read the reserve in one statement and write it in a later one.
THEOREM OldestPromoted ==
  ASSUME Ops \subseteq LockedOps
  PROVE  Spec => PromotesOldest
<1>1. Init => ListInv
  BY ListInit
<1>2. ListInv /\ [Next]_vars => ListInv'
  BY ListNext
<1>3. ListInv /\ [Next]_vars =>
        [\A p \in Procs :
           txn[p].at \in {"leave_commit", "release_commit"} /\ txn'[p] = Idle =>
             /\ Promoted \subseteq Players
             /\ \A u \in Promoted, v \in Waiting \ Promoted :
                  signup'[v] = "RESERVE" => <<u, v>> \in older]_vars
  BY OwnCommit, LeavePromotes, ReleasePromotes
<1>. QED  BY <1>1, <1>2, <1>3, PTL DEF Spec, PromotesOldest

\* ReleaseIsAtomic: what release_gk_slots commits still is what it read: it
\* moves up people who are waiting, and fills no slot that is not free.
THEOREM ReleaseAtomic ==
  ASSUME Ops \subseteq LockedOps
  PROVE  Spec => ReleaseIsAtomic
<1>1. Init => ListInv
  BY ListInit
<1>2. ListInv /\ [Next]_vars => ListInv'
  BY ListNext
<1>3. ListInv /\ [Next]_vars =>
        [\A p \in Procs :
           txn[p].at = "release_commit" /\ txn'[p] = Idle =>
             /\ txn[p].pick \subseteq Reserve
             /\ Cardinality(Active') <= maxPlayers]_vars
  BY OwnCommit, ReleaseFills
<1>. QED  BY <1>1, <1>2, <1>3, PTL DEF Spec, ReleaseIsAtomic

\* FixSettles: recalculate_roster leaves exactly the oldest registered signups
\* in the main roster, as many as max_players admits.
THEOREM FixRestores ==
  ASSUME Ops \subseteq LockedOps
  PROVE  Spec => FixSettles
<1>1. Init => ListInv
  BY ListInit
<1>2. ListInv /\ [Next]_vars => ListInv'
  BY ListNext
<1>3. ListInv /\ [Next]_vars =>
        [\A p \in Procs :
           txn[p].at = "fix" /\ txn'[p] = Idle =>
             /\ Active' \subseteq Players
             /\ Active' \in OldestOf((Active \cup Reserve) \cap Players, maxPlayers)]_vars
  BY OwnCommit, FixFills
<1>. QED  BY <1>1, <1>2, <1>3, PTL DEF Spec, FixSettles

\* KeepsSlotsFilled: with max_players unchanged no operation under the lock
\* lets a slot fall idle next to somebody who may be promoted, and a release
\* or a repair fills the slots that a larger max_players had opened.
THEOREM SlotsFilled ==
  ASSUME Ops \subseteq LockedOps
  PROVE  Spec => KeepsSlotsFilled
<1>1. Init => ListInv
  BY ListInit
<1>2. ListInv /\ [Next]_vars => ListInv'
  BY ListNext
<1>3. ListInv /\ [Next]_vars =>
        [\/ NoIdleSlot /\ maxPlayers' = maxPlayers
         \/ \E p \in Procs : txn[p].at \in {"release_commit", "fix"} /\ txn'[p] = Idle
         => NoIdleSlot']_vars
  BY OwnCommit, ReleaseFills, FixFills, StepKeepsFilled
<1>. QED  BY <1>1, <1>2, <1>3, PTL DEF Spec, KeepsSlotsFilled


(***************************************************************************)
(* Liveness: every request is answered, and so no early return keeps the   *)
(* game's lock, for any number of requests of every kind.                  *)
(*                                                                         *)
(* Whoever has the lock has at most two steps to take, and gives it back   *)
(* with the last one; the lock is therefore free again and again, and who  *)
(* waits for it is served.  Fairness speaks of steps that can be taken     *)
(* (ENABLED), of which the provers know nothing: Able says that a holder   *)
(* of the lock can go on, and that a waiter can when the lock is free.     *)
(***************************************************************************)

\* How far a transaction is: queueing for the lock, or at the first or the
\* last of its steps under it.
Waits(t) == t.at \in {"join", "api_join", "insert", "update", "publish"}
First(t) == t.at \in {"join_count", "leave_delete", "release"}
Last(t)  == t.at \in {"join_insert", "leave_commit", "release_commit", "fix"}

\* What a step of p does with the lock.
Turn(p) ==
  \/ txn[p] = Idle /\ lock' = lock /\ Waits(txn'[p])
  \/ txn[p] = Idle /\ lock = NoProc /\ lock' = p /\ Locked(txn'[p])
  \/ WaitsForLock(p) /\ Waits(txn[p]) /\ lock' = lock /\ txn'[p] = Idle
  \/ WaitsForLock(p) /\ Waits(txn[p]) /\ lock = NoProc /\ lock' = p /\ Locked(txn'[p])
  \/ HoldsLock(p) /\ lock = p /\ lock' = p /\ First(txn[p]) /\ Last(txn'[p])
  \/ HoldsLock(p) /\ lock = p /\ lock' = NoProc /\ txn'[p] = Idle

\* Whoever has the lock is at work under it, and the other way round.
LockInv ==
  /\ TypeOK
  /\ \A p \in Procs : lock = p <=> Locked(txn[p])

\* A transaction is at rest, queues, or has one or two steps to go.
LEMMA Labels ==
  ASSUME NEW t \in Txn
  PROVE  /\ t.at = "idle" <=> t = Idle
         /\ t = Idle \/ Waits(t) \/ First(t) \/ Last(t)
         /\ Locked(t) <=> First(t) \/ Last(t)
         /\ Waits(t) => t # Idle /\ ~ Locked(t)
         /\ Locked(t) => t # Idle
         /\ ~ (First(t) /\ Last(t))
<1>1. CASE t = Idle  BY <1>1 DEF Idle, Waits, First, Last, Locked
<1>2. CASE t \in Joining  BY <1>2 DEF Joining, Idle, Waits, First, Last, Locked
<1>3. CASE t \in ApiJoining  BY <1>3 DEF ApiJoining, Idle, Waits, First, Last, Locked
<1>4. CASE t \in Counting  BY <1>4 DEF Counting, Idle, Waits, First, Last, Locked
<1>5. CASE t \in SigningUp  BY <1>5 DEF SigningUp, Idle, Waits, First, Last, Locked
<1>6. CASE t \in Deleting  BY <1>6 DEF Deleting, Idle, Waits, First, Last, Locked
<1>7. CASE t \in HandingOn  BY <1>7 DEF HandingOn, Idle, Waits, First, Last, Locked
<1>8. CASE t \in Releasing  BY <1>8 DEF Releasing, Idle, Waits, First, Last, Locked
<1>9. CASE t \in Filling  BY <1>9 DEF Filling, Idle, Waits, First, Last, Locked
<1>10. CASE t \in Fixing  BY <1>10 DEF Fixing, Idle, Waits, First, Last, Locked
<1>11. CASE t \in Adding  BY <1>11 DEF Adding, Idle, Waits, First, Last, Locked
<1>12. CASE t \in Updating  BY <1>12 DEF Updating, Idle, Waits, First, Last, Locked
<1>13. CASE t \in Publishing  BY <1>13 DEF Publishing, Idle, Waits, First, Last, Locked
<1>. QED
  BY <1>1, <1>2, <1>3, <1>4, <1>5, <1>6, <1>7, <1>8, <1>9, <1>10, <1>11, <1>12, <1>13
     DEF Txn

\* A step of p is a turn of p, and of nobody else.
LEMMA Turns ==
  ASSUME TypeOK, NEW p \in Procs, Step(p)
  PROVE  Turn(p) /\ \A q \in Procs : q # p => txn'[q] = txn[q]
<1>0. \A t : Become(p, t) => txn'[p] = t /\ \A q \in Procs : q # p => txn'[q] = txn[q]
  BY DEF Become, TypeOK
<1>1. ASSUME NEW u \in Players, NEW admin \in BOOLEAN, JoinBegin(p, u, admin)
      PROVE  Turn(p) /\ \A q \in Procs : q # p => txn'[q] = txn[q]
  BY <1>0, <1>1 DEF JoinBegin, Begin, Turn, Waits
<1>2. ASSUME NEW u \in Players, ApiJoinBegin(p, u)
      PROVE  Turn(p) /\ \A q \in Procs : q # p => txn'[q] = txn[q]
  BY <1>0, <1>2 DEF ApiJoinBegin, Begin, Turn, Waits
<1>3. ASSUME JoinLock(p)
      PROVE  Turn(p) /\ \A q \in Procs : q # p => txn'[q] = txn[q]
  <2>1. WaitsForLock(p) /\ Waits(txn[p]) /\ lock = NoProc
    BY <1>3 DEF JoinLock, WaitsForLock, Waits
  <2>2. CASE JoinRefused(p)
    BY <1>0, <1>3, <2>1, <2>2 DEF JoinLock, Turn
  <2>3. CASE ~ JoinRefused(p)
    <3> DEFINE t == [at |-> "join_count", who |-> txn[p].who,
                     admin |-> txn[p].admin, game |-> SessionGame(p)]
    <3>1. Become(p, t) /\ lock' = p
      BY <1>3, <2>3 DEF JoinLock
    <3>2. Locked(t)
      BY DEF Locked
    <3>. QED  BY <1>0, <2>1, <3>1, <3>2 DEF Turn
  <2>. QED  BY <2>2, <2>3
<1>4. ASSUME JoinCount(p)
      PROVE  Turn(p) /\ \A q \in Procs : q # p => txn'[q] = txn[q]
  BY <1>0, <1>4 DEF JoinCount, Holds, HoldsLock, Turn, First, Last
<1>5. ASSUME JoinCommit(p) \/ LeaveCommit(p) \/ ReleaseCommit(p) \/ FixCommit(p)
      PROVE  Turn(p) /\ \A q \in Procs : q # p => txn'[q] = txn[q]
  <2>1. HoldsLock(p) /\ lock = p /\ lock' = NoProc /\ Become(p, Idle)
    BY <1>5 DEF JoinCommit, LeaveCommit, ReleaseCommit, FixCommit, Holds, HoldsLock
  <2>. QED  BY <1>0, <2>1 DEF Turn
<1>6. ASSUME NEW u \in Persons, NEW admin \in BOOLEAN, LeaveLock(p, u, admin)
      PROVE  Turn(p) /\ \A q \in Procs : q # p => txn'[q] = txn[q]
  BY <1>0, <1>6 DEF LeaveLock, Begin, Turn, Locked
<1>7. ASSUME LeaveDelete(p)
      PROVE  Turn(p) /\ \A q \in Procs : q # p => txn'[q] = txn[q]
  <2>1. HoldsLock(p) /\ lock = p /\ lock' = p /\ First(txn[p])
    BY <1>7 DEF LeaveDelete, Holds, HoldsLock, First
  <2>2. \E t : Become(p, t) /\ Last(t)
    BY <1>7 DEF LeaveDelete, Last
  <2>. QED  BY <1>0, <2>1, <2>2 DEF Turn
<1>8. ASSUME ReleaseLock(p)
      PROVE  Turn(p) /\ \A q \in Procs : q # p => txn'[q] = txn[q]
  BY <1>0, <1>8 DEF ReleaseLock, Begin, Turn, Locked
<1>9. ASSUME ReleasePick(p)
      PROVE  Turn(p) /\ \A q \in Procs : q # p => txn'[q] = txn[q]
  <2>1. HoldsLock(p) /\ lock = p /\ First(txn[p])
    BY <1>9 DEF ReleasePick, Holds, HoldsLock, First
  <2>2. \/ Become(p, Idle) /\ lock' = NoProc
        \/ lock' = lock /\ \E t : Become(p, t) /\ Last(t)
    BY <1>9 DEF ReleasePick, Last
  <2>. QED  BY <1>0, <2>1, <2>2 DEF Turn
<1>10. ASSUME FixLock(p)
       PROVE  Turn(p) /\ \A q \in Procs : q # p => txn'[q] = txn[q]
  <2>1. lock = NoProc /\ lock' = p /\ txn[p] = Idle
    BY <1>10 DEF FixLock, Begin
  <2>2. \E t : Become(p, t) /\ Locked(t)
    BY <1>10 DEF FixLock, Begin, Locked
  <2>. QED  BY <1>0, <2>1, <2>2 DEF Turn
<1>11. ASSUME \E u \in Persons : InsertBegin(p, u)
       PROVE  Turn(p) /\ \A q \in Procs : q # p => txn'[q] = txn[q]
  BY <1>0, <1>11 DEF InsertBegin, Begin, Turn, Waits
<1>12. ASSUME InsertCommit(p) \/ UpdateCommit(p) \/ PublishCommit(p)
       PROVE  Turn(p) /\ \A q \in Procs : q # p => txn'[q] = txn[q]
  <2>1. WaitsForLock(p) /\ Waits(txn[p]) /\ lock' = lock /\ Become(p, Idle)
    BY <1>12 DEF InsertCommit, UpdateCommit, PublishCommit, WaitsForLock, Waits
  <2>. QED  BY <1>0, <2>1 DEF Turn
<1>13. ASSUME NEW op, NEW want, UpdateBegin(p, op, want)
       PROVE  Turn(p) /\ \A q \in Procs : q # p => txn'[q] = txn[q]
  BY <1>0, <1>13 DEF UpdateBegin, Begin, Turn, Waits
<1>14. ASSUME PublishBegin(p)
       PROVE  Turn(p) /\ \A q \in Procs : q # p => txn'[q] = txn[q]
  BY <1>0, <1>14 DEF PublishBegin, Begin, Turn, Waits
<1>. QED
  BY <1>1, <1>2, <1>3, <1>4, <1>5, <1>6, <1>7, <1>8, <1>9, <1>10, <1>11, <1>12, <1>13, <1>14
     DEF Step, RestoreBegin, StatusBegin, TeamsBegin
\* What is not a turn of anybody leaves the lock and the transactions.
LEMMA NoTurn ==
  ASSUME [Next]_vars, ~ \E p \in Procs : Step(p)
  PROVE  lock' = lock /\ txn' = txn
  BY DEF Next, UpdateCapacity, Finish, TimePasses, vars

\* No step leaves the lock with a transaction that is not at work under it.
LEMMA LockStep == LockInv /\ [Next]_vars => LockInv'
<1> SUFFICES ASSUME LockInv, [Next]_vars PROVE LockInv'
  OBVIOUS
<1>1. TypeOK /\ TypeOK'
  BY NextType DEF LockInv
<1>2. NoProc \notin Procs /\ lock \in Procs \cup {NoProc}
  BY <1>1, PersonsAssumption DEF TypeOK
<1>3. \A q \in Procs : txn[q] \in Txn /\ txn'[q] \in Txn
  BY <1>1 DEF TypeOK
<1>4. ~ Locked(Idle) /\ Idle \in Txn
  BY DEF Locked, Idle, Txn
<1>5. ASSUME NEW p \in Procs, Step(p), NEW q \in Procs
      PROVE  lock' = q <=> Locked(txn'[q])
  <2>1. Turn(p) /\ (q # p => txn'[q] = txn[q])
    BY <1>1, <1>5, Turns
  <2>2. (lock = q <=> Locked(txn[q])) /\ (lock = p <=> Locked(txn[p]))
    BY DEF LockInv
  <2>3. \A t \in Txn : (Waits(t) => ~ Locked(t)) /\ (Last(t) => Locked(t))
    BY Labels
  <2>. QED  BY <1>2, <1>3, <1>4, <2>1, <2>2, <2>3 DEF Turn
<1>6. CASE \E p \in Procs : Step(p)
  BY <1>1, <1>5, <1>6 DEF LockInv
<1>7. CASE ~ \E p \in Procs : Step(p)
  <2>1. lock' = lock /\ txn' = txn
    BY <1>7, NoTurn
  <2>. QED  BY <1>1, <2>1 DEF LockInv
<1>. QED  BY <1>6, <1>7

LEMMA LockInvariant == Spec => []LockInv
<1>1. Init => LockInv
  <2> SUFFICES ASSUME Init PROVE LockInv
    OBVIOUS
  <2>1. TypeOK
    BY InitType
  <2>2. \A p \in Procs : lock # p /\ ~ Locked(txn[p])
    BY PersonsAssumption DEF Init, Idle, Locked
  <2>. QED  BY <2>1, <2>2 DEF LockInv
<1>. QED  BY <1>1, LockStep, PTL DEF Spec

AtRest(p) == txn[p].at = "idle"
Queues(p) == Waits(txn[p])
Begins(p) == First(txn[p])
Ends(p)   == Last(txn[p])
Free      == lock = NoProc

\* What a step of anybody may do to p: it leaves p where it is or moves it
\* on, and its own last step under the lock frees the lock.
LEMMA Fates ==
  ASSUME LockInv, [Next]_vars, NEW p \in Procs
  PROVE  /\ AtRest(p) \/ Queues(p) \/ Begins(p) \/ Ends(p)
         /\ Begins(p) \/ Ends(p) <=> lock = p
         /\ Queues(p) => Queues(p)' \/ AtRest(p)' \/ Begins(p)' \/ Ends(p)'
         /\ Queues(p) /\ WaitsForLock(p) => AtRest(p)' \/ Begins(p)' \/ Ends(p)'
         /\ Begins(p) => Begins(p)' \/ Ends(p)' \/ (AtRest(p)' /\ Free')
         /\ Begins(p) /\ HoldsLock(p) => Ends(p)' \/ (AtRest(p)' /\ Free')
         /\ Ends(p) => Ends(p)' \/ (AtRest(p)' /\ Free')
         /\ Ends(p) /\ HoldsLock(p) => AtRest(p)' /\ Free'
<1>1. TypeOK /\ LockInv'
  BY LockStep DEF LockInv
<1>2. txn[p] \in Txn /\ txn'[p] \in Txn
  BY <1>1 DEF LockInv, TypeOK
<1>3. /\ AtRest(p) <=> txn[p] = Idle
      /\ AtRest(p)' <=> txn'[p] = Idle
      /\ AtRest(p) \/ Queues(p) \/ Begins(p) \/ Ends(p)
      /\ AtRest(p)' \/ Queues(p)' \/ Begins(p)' \/ Ends(p)'
      /\ Begins(p) \/ Ends(p) <=> lock = p
      /\ Begins(p)' \/ Ends(p)' <=> lock' = p
      /\ ~ (Begins(p) /\ Ends(p))
      /\ Queues(p) => lock # p /\ ~ AtRest(p)
      /\ lock = p => ~ AtRest(p)
  BY <1>1, <1>2, Labels DEF LockInv, AtRest, Queues, Begins, Ends
<1>4. WaitsForLock(p) \/ HoldsLock(p) => Step(p)
  BY DEF WaitsForLock, HoldsLock, Step
<1>5. p # NoProc
  BY PersonsAssumption
<1>6. CASE Step(p)
  <2>1. Turn(p)
    BY <1>1, <1>6, Turns
  <2>2. \/ AtRest(p)
        \/ Queues(p) /\ (AtRest(p)' \/ lock' = p)
        \/ HoldsLock(p) /\ lock = p /\ Begins(p) /\ Ends(p)'
        \/ HoldsLock(p) /\ lock = p /\ AtRest(p)' /\ Free'
    BY <1>3, <2>1 DEF Turn, Queues, Begins, Ends, Free
  <2>. QED  BY <1>3, <1>5, <2>2
<1>7. CASE ~ Step(p)
  <2>1. txn'[p] = txn[p]
    BY <1>1, <1>7, Turns, NoTurn
  <2>2. Queues(p)' = Queues(p) /\ Begins(p)' = Begins(p) /\ Ends(p)' = Ends(p)
    BY <2>1 DEF Queues, Begins, Ends
  <2>. QED  BY <1>3, <1>4, <1>7, <2>2
<1>. QED  BY <1>6, <1>7

\* The steps that fairness is about can be taken where the code takes them.
CanFinish(p)  == [](Locked(txn[p]) => ENABLED <<HoldsLock(p)>>_vars)
CanProceed(p) == [](Waits(txn[p]) /\ lock = NoProc => ENABLED <<WaitsForLock(p)>>_vars)
Able          == \A p \in Procs : CanFinish(p) /\ CanProceed(p)

Freed(p)  == [](lock = p => <>Free)
Closes(p) == [](lock = p => <>AtRest(p))

\* Two fair steps at most, and p has given the lock back and is done.
LEMMA LocksAreFreed ==
  ASSUME NEW p \in Procs
  PROVE  Spec /\ Finishes(p) /\ CanFinish(p) => Freed(p) /\ Closes(p)
<1>1. LockInv /\ [Next]_vars =>
        /\ (Begins(p) \/ Ends(p)) <=> lock = p
        /\ Begins(p) => Begins(p)' \/ Ends(p)' \/ (AtRest(p)' /\ Free')
        /\ Begins(p) /\ <<HoldsLock(p)>>_vars => Ends(p)' \/ (AtRest(p)' /\ Free')
        /\ Ends(p) => Ends(p)' \/ (AtRest(p)' /\ Free')
        /\ Ends(p) /\ <<HoldsLock(p)>>_vars => AtRest(p)' /\ Free'
  BY Fates
<1>2. LockInv /\ lock = p => Locked(txn[p])
  BY DEF LockInv
<1>. QED  BY <1>1, <1>2, LockInvariant, PTL DEF Finishes, CanFinish, Freed, Closes, Spec, Free

\* If everybody gives the lock back, it is free again and again.
LEMMA AlwaysFreed == (\A p \in Procs : Freed(p)) => [](LockInv => <>Free)
<1>1. (\A p \in Procs : Freed(p)) => \A p \in Procs : [](lock = p => <>Free)
  BY DEF Freed
<1>2. (\A p \in Procs : [](lock = p => <>Free)) => [](\A p \in Procs : lock = p => <>Free)
  OBVIOUS
<1>3. LockInv /\ (\A p \in Procs : lock = p => <>Free) => Free \/ <>Free
  BY DEF LockInv, TypeOK, Free
<1>. QED  BY <1>1, <1>2, <1>3, PTL

\* A lock that is free again and again is got, and p finishes under it.
LEMMA LeavesQueue ==
  ASSUME NEW p \in Procs
  PROVE  Spec /\ Served(p) /\ CanProceed(p) /\ []<>Free /\ Closes(p)
           => (~ AtRest(p) ~> AtRest(p))
<1>1. LockInv /\ [Next]_vars =>
        /\ AtRest(p) \/ Queues(p) \/ Begins(p) \/ Ends(p)
        /\ (Begins(p) \/ Ends(p)) <=> lock = p
        /\ Queues(p) => Queues(p)' \/ AtRest(p)' \/ Begins(p)' \/ Ends(p)'
        /\ Queues(p) /\ <<WaitsForLock(p)>>_vars => AtRest(p)' \/ Begins(p)' \/ Ends(p)'
  BY Fates
<1>. QED  BY <1>1, LockInvariant, PTL DEF Served, CanProceed, Closes, Spec, Queues, Free
Answers(p)    == txn[p].at # "idle" ~> txn[p].at = "idle"
Fairly(p)     == Served(p) /\ Finishes(p) /\ CanFinish(p) /\ CanProceed(p)
FreesLock(p)  == Spec /\ Fairly(p) => Freed(p)
IsAnswered(p) == Spec /\ Fairly(p) /\ []<>Free => Answers(p)

LEMMA EachAnswered ==
  ASSUME NEW p \in Procs
  PROVE  FreesLock(p) /\ IsAnswered(p)
<1>1. txn[p].at # "idle" <=> ~ AtRest(p)
  BY DEF AtRest
<1>2. txn[p].at = "idle" <=> AtRest(p)
  BY DEF AtRest
<1>. QED
  BY <1>1, <1>2, LocksAreFreed, LeavesQueue, PTL DEF FreesLock, IsAnswered, Fairly, Answers

\* Answered: every join, leave, release, repair or tool that has begun comes
\* to its end, for any number of them (roster.py:76: no early return of
\* join_player or leave_player keeps the row lock), if the database serves
\* the waiters of a lock in turn and the steps of the code can be taken.
THEOREM AllAnswered ==
  FairSpec /\ Able => Answered
<1>1. FairSpec /\ Able => Spec /\ \A p \in Procs : Fairly(p)
  BY DEF FairSpec, Fairness, Able, Fairly
<1>2. \A p \in Procs : FreesLock(p) /\ IsAnswered(p)
  BY EachAnswered
<1>3. FairSpec /\ Able => \A p \in Procs : Freed(p)
  BY <1>1, <1>2 DEF FreesLock
<1>4. FairSpec /\ Able => []<>Free
  BY <1>1, <1>3, AlwaysFreed, LockInvariant, PTL
<1>5. FairSpec /\ Able => \A p \in Procs : Answers(p)
  BY <1>1, <1>2, <1>4 DEF IsAnswered
<1>6. (\A p \in Procs : Answers(p)) => Answered
  BY DEF Answered, Answers
<1>. QED  BY <1>5, <1>6
=============================================================================
