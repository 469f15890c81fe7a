--------------------------- MODULE AccountsProofs ---------------------------
(***************************************************************************)
(* Proofs about Accounts, for any people, groups, games and requests, as   *)
(* long as nobody merges an account with itself: every reference leads to  *)
(* a row, a card leaves none of the earlier ones in force, and a merge     *)
(* hands on every record, but the games the new account leaves meanwhile.  *)
(*                                                                         *)
(* The invariant adds to these what the requests hold: a request for a     *)
(* card has found every active one among the cards of its beginning, and a *)
(* merge what it is going to move, as far as others have not deleted it.   *)
(***************************************************************************)
EXTENDS Accounts, TLAPS

VoteSet == [game : Games, voter : People, target : People]
BookSet == [game : Games, user : People, earned : People]
CardSet == [user : People, chat : Chats, red : BOOLEAN, until : Int,
            active : BOOLEAN, after : Nat]

Inserts == [at : {"insert"}, users : SUBSET People, chats : SUBSET Chats,
            profiles : SUBSET (People \X Chats), admins : SUBSET (People \X Chats)]
Issues  == [at : {"card"}, lifts : SUBSET Nat, card : CardSet]
Merges  == [at : {"merge"}, old : People, new : People,
            played : SUBSET Games, clash : SUBSET Games, left : SUBSET Games,
            cast : SUBSET VoteSet, twice : SUBSET VoteSet, earned : SUBSET BookSet]

\* The tables of accounts, with the references between them.
Tables ==
  /\ users \subseteq People /\ chats \subseteq Chats
  /\ profiles \cup admins \subseteq users \X chats
  /\ DOMAIN creator \subseteq Games /\ creator \in [DOMAIN creator -> users]
  /\ signups \subseteq users \X DOMAIN creator
  /\ votes \subseteq [game : DOMAIN creator, voter : users, target : users]
  /\ books \subseteq [game : DOMAIN creator, user : users, earned : People]

Counters == now \in 0..Horizon /\ merges \in 0..MaxMerges /\ issued \in 0..MaxCards

Deck ==
  /\ DOMAIN cards \subseteq 1..issued
  /\ \A k \in DOMAIN cards : /\ cards[k] \in CardSet
                             /\ cards[k].user \in users /\ cards[k].chat \in chats
                             /\ cards[k].after < k

\* What the requests hold.
Issuing(t) ==
  /\ t.card.chat \in chats
  /\ t.card.after <= issued
  /\ \A k \in DOMAIN cards :
       /\ cards[k].user = t.card.user /\ cards[k].chat = t.card.chat
       /\ k <= t.card.after /\ cards[k].active
       => k \in t.lifts

Merging(t) ==
  /\ t.old # t.new /\ t.old \in users /\ t.new \in users
  /\ t.played \subseteq Played(t.old)
  /\ \A g \in t.clash : <<t.new, g>> \in signups \/ g \in t.left
  /\ t.cast \subseteq Cast(t.old)
  /\ t.twice \subseteq t.cast
  /\ \A b \in t.twice : b.game \in VotedIn(t.new)
  /\ t.earned \subseteq Earned(t.old)

Requests ==
  /\ txn \in [Procs -> {Idle} \cup Inserts \cup Issues \cup Merges]
  /\ \A p \in Procs : txn[p].at = "card" => Issuing(txn[p])
  /\ \A p \in Procs : txn[p].at = "merge" => Merging(txn[p])
  /\ \A p, q \in Procs : txn[p].at = "merge" /\ txn[q].at = "merge" => p = q

\* The inductive invariant.
AccountInv ==
  Counters /\ Tables /\ Deck /\ Requests /\ LiftsEarlier

LEMMA AccountInit == Init => AccountInv
<1> SUFFICES ASSUME Init PROVE AccountInv
  OBVIOUS
<1>1. Counters /\ Tables
  BY AccountParameters DEF Init, Counters, Tables
<1>2. Deck /\ LiftsEarlier
  BY DEF Init, Deck, LiftsEarlier
<1>3. Requests
  BY DEF Init, Requests, Idle
<1> QED BY <1>1, <1>2, <1>3 DEF AccountInv

\* What is held outlasts a step that adds rows, deactivates cards and drops
\* some of them, and lets no request go on.
LEMMA HeldOutlasts ==
  ASSUME AccountInv,
         users \subseteq users', chats \subseteq chats', signups \subseteq signups',
         votes \subseteq votes', books \subseteq books', issued' = issued,
         DOMAIN cards' \subseteq DOMAIN cards,
         \A k \in DOMAIN cards' :
           /\ cards'[k].user = cards[k].user /\ cards'[k].chat = cards[k].chat
           /\ cards'[k].active => cards[k].active
  PROVE  /\ \A t : Issuing(t) => Issuing(t)'
         /\ \A t : Merging(t) => Merging(t)'
<1>1. ASSUME NEW t, Issuing(t)
      PROVE  Issuing(t)'
  BY <1>1 DEF Issuing
<1>2. ASSUME NEW t, Merging(t)
      PROVE  Merging(t)'
  BY <1>2 DEF Merging, Played, Cast, VotedIn, Earned
<1> QED BY <1>1, <1>2

\* A step of one request that changes no table.
LEMMA HoldStep ==
  ASSUME AccountInv, NEW p \in Procs,
         NEW t \in {Idle} \cup Inserts \cup Issues \cup Merges, Become(p, t),
         t.at = "card" => Issuing(t),
         t.at = "merge" => Merging(t) /\ \A q \in Procs : txn[q].at # "merge",
         UNCHANGED <<now, tables>>, merges' \in 0..MaxMerges
  PROVE  AccountInv'
<1>1. UNCHANGED <<now, users, chats, profiles, admins, signups, votes, books, creator, cards, issued>>
  BY DEF tables
<1>2. Counters' /\ Tables' /\ Deck' /\ LiftsEarlier'
  BY <1>1 DEF AccountInv, Counters, Tables, Deck, LiftsEarlier
<1>3. txn' \in [Procs -> {Idle} \cup Inserts \cup Issues \cup Merges]
  BY DEF AccountInv, Requests, Become
<1>4. \A q \in Procs : txn'[q] = IF q = p THEN t ELSE txn[q]
  BY DEF AccountInv, Requests, Become
<1>5. /\ \A s : Issuing(s) => Issuing(s)'
      /\ \A s : Merging(s) => Merging(s)'
  BY <1>1, HeldOutlasts
<1>6. Requests'
  BY <1>3, <1>4, <1>5 DEF AccountInv, Requests
<1> QED BY <1>2, <1>6 DEF AccountInv

LEMMA InsertStep ==
  ASSUME AccountInv, NEW p \in Procs, NEW newUsers \in SUBSET People,
         NEW newChats \in SUBSET Chats, NEW newProfiles \in SUBSET (People \X Chats),
         NEW newAdmins \in SUBSET (People \X Chats),
         Insert(p, newUsers, newChats, newProfiles, newAdmins)
  PROVE  AccountInv'
<1> DEFINE t == [at |-> "insert", users |-> newUsers, chats |-> newChats,
                 profiles |-> newProfiles, admins |-> newAdmins]
<1>1. t \in Inserts /\ t.at = "insert"
  BY DEF Inserts
<1>2. Become(p, t) /\ UNCHANGED <<now, tables>> /\ merges' \in 0..MaxMerges
  BY DEF Insert, AccountInv, Counters
<1> HIDE DEF t
<1> QED BY <1>1, <1>2, HoldStep

LEMMA InsertCommitStep ==
  ASSUME AccountInv, NEW p \in Procs, InsertCommit(p)
  PROVE  AccountInv'
<1>1. txn[p] \in Inserts
  BY DEF InsertCommit, AccountInv, Requests, Issues, Merges, Idle
<1>2. UNCHANGED <<now, signups, votes, books, creator, cards, issued, merges>>
  BY DEF InsertCommit
<1>3. Counters' /\ LiftsEarlier'
  BY <1>2 DEF AccountInv, Counters, LiftsEarlier
<1>4. users \subseteq users' /\ chats \subseteq chats'
  BY DEF InsertCommit
<1>5. Tables'
  <2>1. users' \subseteq People /\ chats' \subseteq Chats
    BY <1>1 DEF InsertCommit, AccountInv, Tables, Inserts
  <2>2. profiles' \cup admins' \subseteq users' \X chats'
    BY DEF InsertCommit, AccountInv, Tables
  <2>3. signups' \subseteq users' \X DOMAIN creator'
    BY <1>2, <1>4 DEF AccountInv, Tables
  <2>4. votes' \subseteq [game : DOMAIN creator', voter : users', target : users']
    BY <1>2, <1>4 DEF AccountInv, Tables
  <2>5. books' \subseteq [game : DOMAIN creator', user : users', earned : People]
    BY <1>2, <1>4 DEF AccountInv, Tables
  <2>6. DOMAIN creator' \subseteq Games /\ creator' \in [DOMAIN creator' -> users']
    BY <1>2, <1>4 DEF AccountInv, Tables
  <2> QED BY <2>1, <2>2, <2>3, <2>4, <2>5, <2>6 DEF Tables
<1>6. Deck'
  BY <1>2, <1>4 DEF AccountInv, Deck
<1>7. /\ \A s : Issuing(s) => Issuing(s)'
      /\ \A s : Merging(s) => Merging(s)'
  BY <1>2, <1>4, HeldOutlasts
<1>8. Requests'
  <2>1. txn' = [txn EXCEPT ![p] = Idle]
    BY DEF InsertCommit, Become
  <2> QED BY <2>1, <1>7 DEF AccountInv, Requests, Idle
<1> QED BY <1>3, <1>5, <1>6, <1>8 DEF AccountInv

\* What the other components do, where they only add rows.
LEMMA OutsideStep ==
  ASSUME AccountInv,
         \/ \E u \in People, g \in Games : AddGuest(u, g) \/ \E c \in Chats : Join(u, g, c)
         \/ \E v, w \in People, g \in Games : Vote(v, w, g)
         \/ Tick
  PROVE  AccountInv'
<1>1. UNCHANGED <<chats, profiles, admins, creator, cards, issued, merges, txn>>
  BY DEF AddGuest, Join, Vote, Tick, tables
<1>2. /\ users \subseteq users' /\ signups \subseteq signups'
      /\ votes \subseteq votes' /\ books \subseteq books'
  BY DEF AddGuest, Join, Vote, Tick, tables
<1>3. Counters' /\ LiftsEarlier'
  <2>1. Horizon \in Nat
    BY AccountParameters
  <2>2. now' \in 0..Horizon
    <3>1. now' = now \/ (now < Horizon /\ now' = now + 1)
      BY DEF AddGuest, Join, Vote, Tick
    <3> QED BY <2>1, <3>1 DEF AccountInv, Counters
  <2> QED BY <1>1, <2>2 DEF AccountInv, Counters, LiftsEarlier
<1>4. Tables'
  <2>1. CASE \E u \in People, g \in Games : AddGuest(u, g)
    BY <2>1 DEF AddGuest, AccountInv, Tables
  <2>2. CASE \E u \in People, g \in Games, c \in Chats : Join(u, g, c)
    BY <2>2 DEF Join, AccountInv, Tables
  <2>3. ASSUME NEW v \in People, NEW w \in People, NEW g \in Games, Vote(v, w, g)
        PROVE  Tables'
    <3>1. v \in users /\ w \in users
      BY <2>3 DEF Vote, AccountInv, Tables
    <3> QED BY <2>3, <3>1 DEF Vote, AccountInv, Tables
  <2>4. CASE Tick
    BY <2>4 DEF Tick, tables, AccountInv, Tables
  <2> QED BY <2>1, <2>2, <2>3, <2>4
<1>5. Deck'
  BY <1>1, <1>2 DEF AccountInv, Deck
<1>6. /\ \A s : Issuing(s) => Issuing(s)'
      /\ \A s : Merging(s) => Merging(s)'
  BY <1>1, <1>2, HeldOutlasts
<1>7. Requests'
  BY <1>1, <1>6 DEF AccountInv, Requests
<1> QED BY <1>3, <1>4, <1>5, <1>7 DEF AccountInv

\* What is held outlasts a step that deletes rows, which a merge at work then
\* does not find any more; ballots are deleted for whole games.
LEMMA HeldShrinks ==
  ASSUME AccountInv, NEW gone, NEW ballots, NEW entries, Delete(gone, ballots, entries),
         UNCHANGED <<users, chats, cards, issued>>,
         signups \ gone \subseteq signups', votes \ ballots \subseteq votes',
         books \ entries \subseteq books',
         \A b \in ballots, c \in votes : c.game = b.game => c \in ballots
  PROVE  Requests'
<1>1. \A t : Issuing(t) => Issuing(t)'
  BY DEF Issuing
<1>2. ASSUME NEW t \in Merges, Merging(t), NEW f, f = Found(t, gone, ballots, entries)
      PROVE  f \in Merges /\ Merging(f)' /\ f.at = "merge"
  <2>1. f = [t EXCEPT !.played = {g \in @ : <<t.old, g>> \notin gone},
                      !.left = @ \cup {g \in Games : <<t.new, g>> \in gone},
                      !.cast = @ \ ballots, !.twice = @ \ ballots, !.earned = @ \ entries]
    BY <1>2 DEF Found, Merges
  <2>2. /\ f.at = "merge" /\ f.old = t.old /\ f.new = t.new /\ f.clash = t.clash
        /\ f.played = {g \in t.played : <<t.old, g>> \notin gone}
        /\ f.left = t.left \cup {g \in Games : <<t.new, g>> \in gone}
        /\ f.cast = t.cast \ ballots /\ f.twice = t.twice \ ballots
        /\ f.earned = t.earned \ entries
    BY <2>1 DEF Merges
  <2>3. f \in Merges
    BY <2>1 DEF Merges
  <2>4. f.old # f.new /\ f.old \in users' /\ f.new \in users'
    BY <1>2, <2>2 DEF Merging
  <2>5. f.played \subseteq Played(f.old)'
    BY <1>2, <2>2 DEF Merging, Played
  <2>6. \A g \in f.clash : <<f.new, g>> \in signups' \/ g \in f.left
    BY <1>2, <2>2 DEF Merging, Merges
  <2>7. f.cast \subseteq Cast(f.old)' /\ f.twice \subseteq f.cast
    BY <1>2, <2>2 DEF Merging, Cast
  <2>8. ASSUME NEW b \in f.twice
        PROVE  b.game \in VotedIn(f.new)'
    <3>1. PICK c \in Cast(t.new) : c.game = b.game
      BY <1>2, <2>2 DEF Merging, VotedIn
    <3>2. b \in votes /\ b \notin ballots
      BY <1>2, <2>2 DEF Merging, Cast
    <3>3. c \notin ballots
      BY <3>1, <3>2
    <3> QED BY <2>2, <3>1, <3>3 DEF VotedIn, Cast
  <2>9. f.earned \subseteq Earned(f.old)'
    BY <1>2, <2>2 DEF Merging, Earned
  <2>10. Merging(f)'
    BY <2>4, <2>5, <2>6, <2>7, <2>8, <2>9 DEF Merging
  <2> QED BY <2>2, <2>3, <2>10
<1>3. \A t : t.at # "merge" => Found(t, gone, ballots, entries) = t
  BY DEF Found
<1>4. \A q \in Procs : txn'[q] = Found(txn[q], gone, ballots, entries)
  BY DEF Delete
<1>5. \A q \in Procs : txn[q].at = "merge" => txn[q] \in Merges /\ Merging(txn[q])
  BY DEF AccountInv, Requests, Inserts, Issues, Idle
<1>6. ASSUME NEW q \in Procs, NEW f, f = txn'[q]
      PROVE  /\ f \in {Idle} \cup Inserts \cup Issues \cup Merges
             /\ f.at = txn[q].at
             /\ f.at # "merge" => f = txn[q]
             /\ f.at = "merge" => Merging(f)'
  <2>1. f = Found(txn[q], gone, ballots, entries)
    BY <1>4, <1>6
  <2>2. CASE txn[q].at # "merge"
    BY <1>3, <2>1, <2>2 DEF AccountInv, Requests
  <2>3. CASE txn[q].at = "merge"
    <3>1. PICK t \in Merges : t = txn[q] /\ Merging(t)
      BY <1>5, <2>3
    <3>2. f \in Merges /\ Merging(f)' /\ f.at = "merge"
      BY <1>2, <2>1, <3>1
    <3> QED BY <2>3, <3>2
  <2> QED BY <2>2, <2>3
<1>7. txn' \in [Procs -> {Idle} \cup Inserts \cup Issues \cup Merges]
  BY <1>6 DEF Delete
<1>8. \A q \in Procs : txn'[q].at = "card" => Issuing(txn[q]) /\ txn'[q] = txn[q]
  BY <1>6 DEF AccountInv, Requests
<1>9. \A q \in Procs : \A f : f = txn'[q] /\ f.at = "merge" => Merging(f)'
  BY <1>6
<1> QED BY <1>1, <1>6, <1>7, <1>8, <1>9 DEF AccountInv, Requests, Issuing, Merging

\* What the other components do, where they delete rows.
LEMMA DeleteStep ==
  ASSUME AccountInv, NEW g \in Games, NEW u \in People, Leave(u, g) \/ Finish(g) \/ DeleteGame(g)
  PROVE  AccountInv'
<1>1. UNCHANGED <<now, users, chats, profiles, admins, cards, issued, merges>>
  BY DEF Leave, Finish, DeleteGame
<1>2. Counters' /\ LiftsEarlier' /\ Deck'
  BY <1>1 DEF AccountInv, Counters, LiftsEarlier, Deck
<1>3. CASE Leave(u, g)
  <2>1. Tables'
    BY <1>1, <1>3 DEF Leave, AccountInv, Tables
  <2>2. Requests'
    BY <1>1, <1>3, HeldShrinks DEF Leave
  <2> QED BY <1>2, <2>1, <2>2 DEF AccountInv
<1>4. CASE Finish(g)
  <2>1. users \subseteq People
    BY DEF AccountInv, Tables
  <2>2. \A w \in users :
          [game |-> g, user |-> w, earned |-> w] \in [game : DOMAIN creator, user : users, earned : People]
    BY <1>4, <2>1 DEF Finish
  <2>3. books' \subseteq [game : DOMAIN creator, user : users, earned : People]
    BY <1>4, <2>2 DEF Finish, AccountInv, Tables
  <2>4. Tables'
    BY <1>1, <1>4, <2>3 DEF Finish, AccountInv, Tables
  <2>5. Requests'
    BY <1>1, <1>4, HeldShrinks DEF Finish
  <2> QED BY <1>2, <2>4, <2>5 DEF AccountInv
<1>5. CASE DeleteGame(g)
  <2>1. DOMAIN creator' = DOMAIN creator \ {g} /\ creator' \in [DOMAIN creator' -> users']
    BY <1>1, <1>5 DEF DeleteGame, AccountInv, Tables
  <2>2. signups' \subseteq users' \X DOMAIN creator'
    BY <1>1, <1>5, <2>1 DEF DeleteGame, AccountInv, Tables
  <2>3. votes' \subseteq [game : DOMAIN creator', voter : users', target : users']
    BY <1>1, <1>5, <2>1 DEF DeleteGame, AccountInv, Tables
  <2>4. books' \subseteq [game : DOMAIN creator', user : users', earned : People]
    BY <1>1, <1>5, <2>1 DEF DeleteGame, AccountInv, Tables
  <2>5. Tables'
    BY <1>1, <2>1, <2>2, <2>3, <2>4 DEF AccountInv, Tables
  <2>6. Requests'
    BY <1>1, <1>5, HeldShrinks DEF DeleteGame
  <2> QED BY <1>2, <2>5, <2>6 DEF AccountInv
<1> QED BY <1>3, <1>4, <1>5

\* The cards after some were deactivated.
LEMMA LiftedCards ==
  ASSUME Deck, NEW K
  PROVE  /\ DOMAIN Lifted(K) = DOMAIN cards
         /\ \A k \in DOMAIN cards :
              /\ Lifted(K)[k] \in CardSet
              /\ Lifted(K)[k].user = cards[k].user /\ Lifted(K)[k].chat = cards[k].chat
              /\ Lifted(K)[k].after = cards[k].after
              /\ Lifted(K)[k].active <=> cards[k].active /\ k \notin K
<1>1. DOMAIN Lifted(K) = DOMAIN cards
  BY DEF Lifted
<1>2. ASSUME NEW k \in DOMAIN cards
      PROVE  /\ Lifted(K)[k] \in CardSet
             /\ Lifted(K)[k].user = cards[k].user /\ Lifted(K)[k].chat = cards[k].chat
             /\ Lifted(K)[k].after = cards[k].after
             /\ Lifted(K)[k].active <=> cards[k].active /\ k \notin K
  <2>1. cards[k] \in CardSet
    BY DEF Deck
  <2>2. Lifted(K)[k] = [cards[k] EXCEPT !.active = @ /\ k \notin K]
    BY DEF Lifted
  <2> QED BY <2>1, <2>2 DEF CardSet
<1> QED BY <1>1, <1>2

LEMMA RevokeStep ==
  ASSUME AccountInv, NEW u \in People, NEW c \in Chats, Revoke(u, c)
  PROVE  AccountInv'
<1>1. UNCHANGED <<now, users, chats, profiles, admins, signups, votes, books, creator, issued, merges, txn>>
  BY DEF Revoke
<1>2. cards' = Lifted(Lifts(u, c))
  BY DEF Revoke
<1>3. /\ DOMAIN cards' = DOMAIN cards
      /\ \A k \in DOMAIN cards :
           /\ cards'[k] \in CardSet
           /\ cards'[k].user = cards[k].user /\ cards'[k].chat = cards[k].chat
           /\ cards'[k].after = cards[k].after
           /\ cards'[k].active => cards[k].active
  BY <1>2, LiftedCards DEF AccountInv
<1>4. Counters' /\ Tables'
  BY <1>1 DEF AccountInv, Counters, Tables
<1>5. Deck' /\ LiftsEarlier'
  BY <1>1, <1>3 DEF AccountInv, Deck, LiftsEarlier
<1>6. /\ \A s : Issuing(s) => Issuing(s)'
      /\ \A s : Merging(s) => Merging(s)'
  BY <1>1, <1>3, HeldOutlasts
<1>7. Requests'
  BY <1>1, <1>6 DEF AccountInv, Requests
<1> QED BY <1>4, <1>5, <1>7 DEF AccountInv

LEMMA IssueStep ==
  ASSUME AccountInv, NEW p \in Procs, NEW u \in People, NEW c \in Chats,
         NEW red \in BOOLEAN, NEW weeks \in Weeks, Issue(p, u, c, red, weeks)
  PROVE  AccountInv'
<1> DEFINE card == [user |-> u, chat |-> c, red |-> red, until |-> now + weeks,
                    active |-> TRUE, after |-> issued]
           t == [at |-> "card", lifts |-> Lifts(u, c), card |-> card]
<1>1. card \in CardSet
  BY AccountParameters DEF CardSet, AccountInv, Counters
<1>2. Lifts(u, c) \subseteq Nat
  BY AccountParameters DEF Lifts, AccountInv, Deck, Counters
<1>3. t \in Issues /\ t.at = "card"
  BY <1>1, <1>2 DEF Issues
<1>4. Issuing(t)
  BY AccountParameters DEF Issuing, Lifts, Issue, AccountInv, Counters
<1>5. Become(p, t) /\ UNCHANGED <<now, tables>> /\ merges' \in 0..MaxMerges
  BY DEF Issue, AccountInv, Counters
<1> HIDE DEF t
<1> QED BY <1>3, <1>4, <1>5, HoldStep

\* The new card comes after every card its request found, and lifts all the
\* active ones among those; only a card that was issued meanwhile stays.
LEMMA IssueCommitStep ==
  ASSUME AccountInv, NEW p \in Procs, IssueCommit(p)
  PROVE  AccountInv'
<1> DEFINE t == txn[p]
<1>1. t \in Issues /\ Issuing(t)
  BY DEF IssueCommit, AccountInv, Requests, Inserts, Merges, Idle
<1>2. UNCHANGED <<now, users, chats, profiles, admins, signups, votes, books, creator, merges>>
  BY DEF IssueCommit
<1>3. issued' = issued + 1 /\ issued \in Nat /\ issued' \in 0..MaxCards
  BY AccountParameters DEF IssueCommit, AccountInv, Counters
<1>4. DOMAIN cards' = DOMAIN cards \cup {issued'} /\ issued' \notin DOMAIN cards
  BY <1>3 DEF IssueCommit, AccountInv, Deck
<1>5. cards'[issued'] = t.card
  BY <1>4 DEF IssueCommit
<1>6. \A k \in DOMAIN cards :
        /\ cards'[k] \in CardSet
        /\ cards'[k].user = cards[k].user /\ cards'[k].chat = cards[k].chat
        /\ cards'[k].after = cards[k].after
        /\ cards'[k].active <=> cards[k].active /\ k \notin t.lifts
  <2>1. \A k \in DOMAIN cards : cards'[k] = Lifted(t.lifts)[k]
    BY <1>4 DEF IssueCommit
  <2> QED BY <2>1, LiftedCards DEF AccountInv
<1>7. Counters' /\ Tables'
  BY <1>2, <1>3 DEF AccountInv, Counters, Tables
<1>8. t.card \in CardSet /\ t.card.user \in users /\ t.card.chat \in chats /\ t.card.after < issued'
  BY <1>1, <1>3 DEF Issues, IssueCommit, Issuing, CardSet
<1>9. Deck'
  <2>1. DOMAIN cards' \subseteq 1..issued'
    BY <1>3, <1>4 DEF AccountInv, Deck
  <2> QED BY <2>1, <1>2, <1>4, <1>5, <1>6, <1>8 DEF AccountInv, Deck
<1>10. LiftsEarlier'
  <2> SUFFICES ASSUME NEW j \in DOMAIN cards', NEW k \in DOMAIN cards',
                      cards'[j].user = cards'[k].user, cards'[j].chat = cards'[k].chat,
                      j <= cards'[k].after
               PROVE  ~cards'[j].active
    BY DEF LiftsEarlier
  <2>1. cards'[k].after <= issued
    BY <1>1, <1>3, <1>4, <1>5, <1>6 DEF AccountInv, Deck, Issuing, CardSet, Issues
  <2>2. j \in DOMAIN cards
    BY <2>1, <1>1, <1>3, <1>4, <1>5, <1>6 DEF AccountInv, Deck, CardSet, Issues
  <2>3. CASE k \in DOMAIN cards
    BY <2>2, <2>3, <1>6 DEF AccountInv, LiftsEarlier
  <2>4. CASE k = issued'
    <3>1. cards[j].active => j \in t.lifts
      BY <2>2, <2>4, <1>1, <1>5, <1>6 DEF Issuing
    <3> QED BY <3>1, <2>2, <1>6
  <2> QED BY <2>3, <2>4, <1>4
<1>11. \A s : s \in Issues /\ Issuing(s) => Issuing(s)'
  BY <1>2, <1>3, <1>4, <1>6 DEF Issuing, Issues, CardSet
<1>12. \A s : Merging(s) => Merging(s)'
  BY <1>2 DEF Merging, Played, Cast, VotedIn, Earned
<1>13. txn' = [txn EXCEPT ![p] = Idle]
  BY DEF IssueCommit, Become
<1>14. \A q \in Procs : txn[q].at = "card" => txn[q] \in Issues
  BY DEF AccountInv, Requests, Inserts, Merges, Idle
<1>15. Requests'
  BY <1>11, <1>12, <1>13, <1>14 DEF AccountInv, Requests, Idle
<1> QED BY <1>7, <1>9, <1>10, <1>15 DEF AccountInv

LEMMA RowSets ==
  ASSUME AccountInv
  PROVE  votes \subseteq VoteSet /\ books \subseteq BookSet
<1>1. DOMAIN creator \subseteq Games /\ users \subseteq People
  BY DEF AccountInv, Tables
<1>2. votes \subseteq VoteSet
  BY <1>1 DEF AccountInv, Tables, VoteSet
<1>3. books \subseteq BookSet
  BY <1>1 DEF AccountInv, Tables, BookSet
<1> QED BY <1>2, <1>3

LEMMA MergeBeginStep ==
  ASSUME AccountInv, SelfMerge = FALSE, NEW p \in Procs,
         NEW old \in People, NEW new \in People, MergeBegin(p, old, new)
  PROVE  AccountInv'
<1> DEFINE t == [at |-> "merge", old |-> old, new |-> new,
                 played |-> Played(old), clash |-> Played(old) \cap Played(new), left |-> {},
                 cast |-> Cast(old), twice |-> {b \in Cast(old) : b.game \in VotedIn(new)},
                 earned |-> Earned(old)]
<1>1. votes \subseteq VoteSet /\ books \subseteq BookSet
  BY RowSets
<1>2. t \in Merges /\ t.at = "merge"
  BY <1>1 DEF Merges, Played, Cast, Earned
<1>3. Merging(t)
  BY DEF Merging, MergeBegin, Played
<1>4. Become(p, t) /\ UNCHANGED <<now, tables>>
  BY DEF MergeBegin
<1>5. merges' \in 0..MaxMerges
  BY AccountParameters DEF MergeBegin, AccountInv, Counters
<1>6. \A q \in Procs : txn[q].at # "merge"
  BY DEF MergeBegin
<1> HIDE DEF t
<1> QED BY <1>2, <1>3, <1>4, <1>5, <1>6, HoldStep

\* What a request that commits a merge leaves behind.
LEMMA MergeCommitTables ==
  ASSUME AccountInv, NEW p \in Procs, MergeCommit(p)
  PROVE  /\ txn[p] \in Merges /\ Merging(txn[p])
         /\ users' = users \ {txn[p].old}
         /\ Tables'
<1> DEFINE t == txn[p]
           cast == (votes \ t.cast) \cup Handed(t)
           aimed == {[b EXCEPT !.target = IF @ = t.old THEN t.new ELSE @] : b \in cast}
<1>1. t \in Merges /\ Merging(t)
  BY DEF MergeCommit, AccountInv, Requests, Inserts, Issues, Idle
<1>2. /\ users' = users \ {t.old} /\ t.new \in users'
      /\ UNCHANGED <<chats, profiles, admins>>
      /\ DOMAIN creator' = DOMAIN creator
  BY <1>1 DEF MergeCommit, Merging
<1>3. users' \subseteq People /\ chats' \subseteq Chats
  BY <1>2 DEF AccountInv, Tables
<1>4. profiles' \cup admins' \subseteq users' \X chats'
  BY <1>2 DEF MergeCommit, Of, AccountInv, Tables
<1>5. signups' \subseteq users' \X DOMAIN creator
  <2>1. Moved(t) \subseteq users' \X DOMAIN creator
    BY <1>1, <1>2 DEF Moved, Merging, Played, AccountInv, Tables
  <2>2. signups' \subseteq users \X DOMAIN creator
    BY <2>1, <1>2 DEF MergeCommit, AccountInv, Tables
  <2>3. \A r \in signups' : r[1] # t.old
    BY DEF MergeCommit, Of
  <2> QED BY <2>2, <2>3, <1>2
<1>6. votes' \subseteq [game : DOMAIN creator, voter : users', target : users']
  <2>1. Handed(t) \subseteq [game : DOMAIN creator, voter : users, target : users]
    <3>1. t.cast \subseteq [game : DOMAIN creator, voter : users, target : users] /\ t.new \in users
      BY <1>1 DEF Merging, Cast, AccountInv, Tables
    <3> QED BY <3>1 DEF Handed
  <2>2. cast \subseteq [game : DOMAIN creator, voter : users, target : users]
    BY <2>1 DEF AccountInv, Tables
  <2>3. \A b \in cast :
          LET a == [b EXCEPT !.target = IF @ = t.old THEN t.new ELSE @]
          IN  a \in [game : DOMAIN creator, voter : users, target : users']
    BY <2>2, <1>2
  <2>4. aimed \subseteq [game : DOMAIN creator, voter : users, target : users']
    BY <2>3
  <2>5. votes' = aimed /\ \A b \in aimed : b.voter # t.old
    BY DEF MergeCommit
  <2> QED BY <2>4, <2>5, <1>2
<1>7. books' \subseteq [game : DOMAIN creator, user : users', earned : People]
  <2>1. \A r \in t.earned : [r EXCEPT !.user = t.new] \in [game : DOMAIN creator, user : users', earned : People]
    BY <1>1, <1>2 DEF Merging, Earned, AccountInv, Tables
  <2>2. \A r \in books' : r.user # t.old
    BY DEF MergeCommit
  <2>3. \A r \in books' : r \in [game : DOMAIN creator, user : users, earned : People]
    BY <2>1, <1>2 DEF MergeCommit, AccountInv, Tables
  <2> QED BY <2>2, <2>3, <1>2
<1>8. DOMAIN creator' \subseteq Games /\ creator' \in [DOMAIN creator' -> users']
  BY <1>2 DEF MergeCommit, AccountInv, Tables
<1> QED BY <1>1, <1>2, <1>3, <1>4, <1>5, <1>6, <1>7, <1>8 DEF Tables

LEMMA MergeCommitStep ==
  ASSUME AccountInv, NEW p \in Procs, MergeCommit(p)
  PROVE  AccountInv'
<1> DEFINE t == txn[p]
<1>1. t.at = "merge" /\ users' = users \ {t.old} /\ Tables'
  BY MergeCommitTables DEF MergeCommit
<1>2. UNCHANGED <<now, chats, issued, merges>> /\ cards' = CardsWithout(t.old)
  BY DEF MergeCommit
<1>3. /\ DOMAIN cards' \subseteq DOMAIN cards
      /\ \A k \in DOMAIN cards' : cards'[k] = cards[k] /\ cards[k].user # t.old
  BY <1>2 DEF CardsWithout
<1>4. Counters' /\ LiftsEarlier'
  BY <1>2, <1>3 DEF AccountInv, Counters, LiftsEarlier
<1>5. Deck'
  BY <1>1, <1>2, <1>3 DEF AccountInv, Deck
<1>6. \A s : Issuing(s) => Issuing(s)'
  BY <1>2, <1>3 DEF Issuing
<1>7. txn' = [txn EXCEPT ![p] = Idle]
  BY DEF MergeCommit, Become
<1>8. \A q \in Procs : txn'[q].at # "merge"
  BY <1>1, <1>7 DEF AccountInv, Requests, Idle
<1>9. Requests'
  BY <1>6, <1>7, <1>8 DEF AccountInv, Requests, Idle
<1> QED BY <1>1, <1>4, <1>5, <1>9 DEF AccountInv

LEMMA AccountStep ==
  ASSUME SelfMerge = FALSE
  PROVE  AccountInv /\ [Next]_vars => AccountInv'
<1> SUFFICES ASSUME AccountInv, [Next]_vars PROVE AccountInv'
  OBVIOUS
<1>1. ASSUME NEW p \in Procs, NEW u \in People, Meet(p, u)
      PROVE  AccountInv'
  BY <1>1, InsertStep DEF Meet
<1>2. ASSUME NEW p \in Procs, NEW u \in People, NEW c \in Chats,
             Register(p, u, c) \/ Speak(p, u, c) \/ Promote(p, u, c)
      PROVE  AccountInv'
  <2>1. {u} \ users \in SUBSET People /\ {<<u, c>>} \ profiles \in SUBSET (People \X Chats)
        /\ {<<u, c>>} \in SUBSET (People \X Chats)
    OBVIOUS
  <2>2. CASE Register(p, u, c)
    BY <2>1, <2>2, InsertStep DEF Register
  <2>3. CASE Speak(p, u, c)
    BY <2>1, <2>3, InsertStep DEF Speak
  <2>4. CASE Promote(p, u, c)
    BY <2>1, <2>4, InsertStep DEF Promote
  <2> QED BY <1>2, <2>2, <2>3, <2>4
<1>3. ASSUME NEW p \in Procs, NEW c \in Chats, Enter(p, c)
      PROVE  AccountInv'
  BY <1>3, InsertStep DEF Enter
<1>4. CASE \E p \in Procs : InsertCommit(p)
  BY <1>4, InsertCommitStep
<1>5. CASE \E p \in Procs, u \in People, c \in Chats, red \in BOOLEAN, weeks \in Weeks :
             Issue(p, u, c, red, weeks)
  BY <1>5, IssueStep
<1>6. CASE \E p \in Procs : IssueCommit(p)
  BY <1>6, IssueCommitStep
<1>7. CASE \E p \in Procs, old, new \in People : MergeBegin(p, old, new)
  BY <1>7, MergeBeginStep
<1>8. CASE \E p \in Procs : MergeCommit(p)
  BY <1>8, MergeCommitStep
<1>9. ASSUME NEW p \in Procs, Fail(p)
      PROVE  AccountInv'
  BY <1>9, HoldStep DEF Fail, Idle, AccountInv, Counters
<1>10. CASE \E u \in People, c \in Chats : Revoke(u, c)
  BY <1>10, RevokeStep
<1>11. CASE \/ \E u \in People, g \in Games : AddGuest(u, g) \/ \E c \in Chats : Join(u, g, c)
            \/ \E v, w \in People, g \in Games : Vote(v, w, g)
            \/ Tick
  BY <1>11, OutsideStep
<1>13. CASE \/ \E u \in People, g \in Games : Leave(u, g)
            \/ \E g \in Games : Finish(g) \/ DeleteGame(g)
  <2>1. Owner \in People
    BY AccountParameters
  <2> QED BY <1>13, <2>1, DeleteStep
<1>12. CASE UNCHANGED vars
  <2>1. UNCHANGED <<now, users, chats, profiles, admins, signups, votes, books, creator, cards, issued, merges, txn>>
    BY <1>12 DEF vars, tables
  <2>2. /\ \A s : Issuing(s) => Issuing(s)'
        /\ \A s : Merging(s) => Merging(s)'
    BY <2>1, HeldOutlasts
  <2>3. Requests'
    BY <2>1, <2>2 DEF AccountInv, Requests
  <2> QED BY <2>1, <2>3 DEF AccountInv, Counters, Tables, Deck, LiftsEarlier
<1> QED BY <1>1, <1>2, <1>3, <1>4, <1>5, <1>6, <1>7, <1>8, <1>9, <1>10, <1>11, <1>12, <1>13 DEF Next

LEMMA AccountInvariant ==
  ASSUME SelfMerge = FALSE
  PROVE  Spec => []AccountInv
<1>1. AccountInv /\ [Next]_vars => AccountInv'
  BY AccountStep
<1> QED BY <1>1, AccountInit, PTL DEF Spec

\* Every reference between the tables leads to a row, also after a merge
\* that raced joins, leaves, votes and finishes (user_repository.py:114-176).
THEOREM References ==
  ASSUME SelfMerge = FALSE
  PROVE  Spec => []TypeOK
<1>1. AccountInv => TypeOK
  BY DEF AccountInv, Counters, Tables, Deck, TypeOK
<1> QED BY <1>1, AccountInvariant, PTL

\* A card that is issued leaves none in force of those committed before its
\* request began, whatever other organizers issue and revoke meanwhile
\* (user_repository.py:207-233, dashboard.py:633-660).
THEOREM Lifting ==
  ASSUME SelfMerge = FALSE
  PROVE  Spec => []LiftsEarlier
<1>1. AccountInv => LiftsEarlier
  BY DEF AccountInv
<1> QED BY <1>1, AccountInvariant, PTL

\* The account that takes over has what both had.
LEMMA HandedOn ==
  ASSUME AccountInv, NEW p \in Procs, MergeCommit(p),
         NEW old, old = txn[p].old, NEW new, new = txn[p].new
  PROVE  /\ (Played(new) \cup Played(old)) \ txn[p].left \subseteq Played(new)'
         /\ Played(new)' \subseteq Played(new) \cup Played(old)
         /\ VotedIn(new)' = VotedIn(new) \cup VotedIn(old)
         /\ {r.earned : r \in Earned(new)'} = {r.earned : r \in Earned(new) \cup Earned(old)}
<1> DEFINE t == txn[p]
           cast == (votes \ t.cast) \cup Handed(t)
           aim(b) == [b EXCEPT !.target = IF @ = t.old THEN t.new ELSE @]
<1>1. t \in Merges /\ Merging(t) /\ old # new
  BY MergeCommitTables DEF Merging
<1>2. votes \subseteq VoteSet /\ books \subseteq BookSet
  BY RowSets
<1>3. /\ (Played(new) \cup Played(old)) \ t.left \subseteq Played(new)'
      /\ Played(new)' \subseteq Played(new) \cup Played(old)
  <2>1. signups' = (signups \ ({old} \X t.played)) \cup ({new} \X (t.played \ t.clash))
    BY DEF MergeCommit, Moved
  <2>2. \A g \in Games : <<old, g>> \notin signups'
    BY DEF MergeCommit, Of
  <2>3. \A g \in Games : <<old, g>> \in signups => g \in t.played
    BY <2>1, <2>2, <1>1
  <2>4. \A g \in Games : <<new, g>> \in signups' <=> <<new, g>> \in signups \/ g \in t.played \ t.clash
    BY <2>1, <1>1
  <2>5. /\ t.played \subseteq Played(old)
        /\ \A g \in t.clash : <<new, g>> \in signups \/ g \in t.left
    BY <1>1 DEF Merging
  <2> QED BY <2>3, <2>4, <2>5 DEF Played
<1>4. VotedIn(new)' = VotedIn(new) \cup VotedIn(old)
  <2>1. votes' = {aim(b) : b \in cast} /\ \A c \in votes' : c.voter # old
    BY DEF MergeCommit
  <2>2. t.cast \subseteq VoteSet /\ t.new \in People
    BY <1>1 DEF Merges
  <2>3. /\ \A b \in t.cast \ t.twice : [b EXCEPT !.voter = new] \in Handed(t)
        /\ \A h \in Handed(t) : \E b \in t.cast \ t.twice : h = [b EXCEPT !.voter = new]
    BY DEF Handed
  <2>4. cast \subseteq VoteSet
    BY <2>2, <2>3, <1>1, <1>2 DEF VoteSet, Merges
  <2>5. \A b \in cast : aim(b) \in votes' /\ aim(b).voter = b.voter /\ aim(b).game = b.game
    BY <2>1, <2>4 DEF VoteSet
  <2>6. \A b \in cast : b.voter # old
    BY <2>1, <2>5
  <2>7. \A b \in votes : b.voter = old => b \in t.cast
    BY <2>6
  <2>8. \A h \in Handed(t) : h.voter = new /\ \E b \in t.cast : h.game = b.game
    BY <2>2, <2>3 DEF VoteSet
  <2>9. \A b \in t.cast : b \in votes /\ b.voter = old
    BY <1>1 DEF Merging, Cast
  <2>10. \A b \in t.twice : \E c \in votes : c.voter = new /\ c.game = b.game
    BY <1>1 DEF Merging, VotedIn, Cast
  <2>11. \A c \in votes : c.voter = new => c \in cast
    BY <2>9, <1>1
  <2>12. ASSUME NEW c \in votes, c.voter = new \/ c.voter = old
         PROVE  \E b \in cast : b.voter = new /\ b.game = c.game
    <3>1. CASE c.voter = new
      BY <3>1, <2>11
    <3>2. CASE c.voter = old /\ c \in t.twice
      BY <3>2, <2>10, <2>11
    <3>3. CASE c.voter = old /\ c \notin t.twice
      <4>1. c \in t.cast \ t.twice
        BY <3>3, <2>7
      <4>2. [c EXCEPT !.voter = new].voter = new /\ [c EXCEPT !.voter = new].game = c.game
        BY <1>2 DEF VoteSet
      <4> QED BY <4>1, <4>2, <2>3
    <3> QED BY <2>12, <3>1, <3>2, <3>3
  <2>13. ASSUME NEW b \in cast, b.voter = new
         PROVE  \E c \in votes : (c.voter = new \/ c.voter = old) /\ c.game = b.game
    BY <2>8, <2>9, <2>13
  <2>14. \A c \in votes' : \E b \in cast : c = aim(b)
    BY <2>1
  <2> HIDE DEF cast, aim
  <2>15. \A g : (\E c \in votes' : c.voter = new /\ c.game = g)
                  <=> (\E b \in cast : b.voter = new /\ b.game = g)
    BY <2>5, <2>14
  <2>16. \A g : (\E b \in cast : b.voter = new /\ b.game = g)
                  <=> (\E c \in votes : (c.voter = new \/ c.voter = old) /\ c.game = g)
    BY <2>12, <2>13
  <2>17. \A g : g \in VotedIn(new)' <=> \E c \in votes' : c.voter = new /\ c.game = g
    BY DEF VotedIn, Cast
  <2>18. \A g : g \in VotedIn(new) \cup VotedIn(old)
                  <=> \E c \in votes : (c.voter = new \/ c.voter = old) /\ c.game = g
    BY DEF VotedIn, Cast
  <2> QED BY <2>15, <2>16, <2>17, <2>18
<1>5. {r.earned : r \in Earned(new)'} = {r.earned : r \in Earned(new) \cup Earned(old)}
  <2>1. books' = (books \ t.earned) \cup {[r EXCEPT !.user = new] : r \in t.earned}
    BY DEF MergeCommit
  <2>2. \A r \in books' : r.user # old
    BY DEF MergeCommit
  <2>3. \A r \in books : r.user = old => r \in t.earned
    BY <2>1, <2>2
  <2>4. \A r \in t.earned : r \in books /\ r.user = old
    BY <1>1 DEF Merging, Earned
  <2>5. \A r \in t.earned : /\ [r EXCEPT !.user = new] \in books'
                            /\ [r EXCEPT !.user = new].user = new
                            /\ [r EXCEPT !.user = new].earned = r.earned
    BY <2>1, <2>4, <1>2 DEF BookSet
  <2>6. \A r \in books : r.user = new => r \in books'
    BY <2>1, <2>4, <1>1
  <2>7. \A r \in books' : r \in books \/ \E q \in t.earned : r = [q EXCEPT !.user = new]
    BY <2>1
  <2>8. \A e : (\E r \in books' : r.user = new /\ r.earned = e)
                 <=> (\E r \in books : (r.user = new \/ r.user = old) /\ r.earned = e)
    <3>1. ASSUME NEW r \in books', r.user = new
          PROVE  \E q \in books : (q.user = new \/ q.user = old) /\ q.earned = r.earned
      <4>1. CASE r \in books
        BY <3>1, <4>1
      <4>2. ASSUME NEW q \in t.earned, r = [q EXCEPT !.user = new]
            PROVE  \E c \in books : (c.user = new \/ c.user = old) /\ c.earned = r.earned
        BY <4>2, <2>4, <2>5
      <4> QED BY <2>7, <4>1, <4>2
    <3>2. ASSUME NEW q \in books, q.user = new \/ q.user = old
          PROVE  \E r \in books' : r.user = new /\ r.earned = q.earned
      <4>1. CASE q.user = new
        BY <4>1, <2>6
      <4>2. CASE q.user = old
        BY <4>2, <2>3, <2>5
      <4> QED BY <3>2, <4>1, <4>2
    <3> QED BY <3>1, <3>2
  <2>9. \A e : e \in {r.earned : r \in Earned(new)'} <=> \E r \in books' : r.user = new /\ r.earned = e
    BY DEF Earned
  <2>10. \A e : e \in {r.earned : r \in Earned(new) \cup Earned(old)}
                  <=> \E r \in books : (r.user = new \/ r.user = old) /\ r.earned = e
    BY DEF Earned
  <2> QED BY <2>8, <2>9, <2>10
<1> QED BY <1>3, <1>4, <1>5

\* Nobody but a merge deletes an account.
LEMMA OnlyMergesDelete ==
  ASSUME Next, NEW old \in users \ users'
  PROVE  \E p \in Procs : MergeCommit(p) /\ old = txn[p].old
<1>1. \A p \in Procs : \A U, C, P, A : Insert(p, U, C, P, A) => users \subseteq users'
  BY DEF Insert, tables
<1>2. \A p \in Procs, u \in People, c \in Chats :
        Meet(p, u) \/ Register(p, u, c) \/ Speak(p, u, c) \/ Promote(p, u, c) \/ Enter(p, c)
        => users \subseteq users'
  BY <1>1 DEF Meet, Register, Speak, Promote, Enter
<1>3. \A p \in Procs, u \in People : Meet(p, u) => users \subseteq users'
  BY <1>1 DEF Meet
<1>4. \A p \in Procs, c \in Chats : Enter(p, c) => users \subseteq users'
  BY <1>1 DEF Enter
<1>5. \A p \in Procs : InsertCommit(p) \/ IssueCommit(p) \/ Fail(p) => users \subseteq users'
  BY DEF InsertCommit, IssueCommit, Fail, tables
<1>6. \A p, u, c, red, weeks : Issue(p, u, c, red, weeks) => users \subseteq users'
  BY DEF Issue, tables
<1>7. \A p, o, n : MergeBegin(p, o, n) => users \subseteq users'
  BY DEF MergeBegin, tables
<1>8. \A u, c, g, v : Revoke(u, c) \/ AddGuest(u, g) \/ Join(u, g, c) \/ Vote(u, v, g)
                     \/ Leave(u, g) \/ Finish(g) \/ DeleteGame(g) \/ Tick => users \subseteq users'
  BY DEF Revoke, AddGuest, Join, Vote, Leave, Finish, DeleteGame, Tick, tables
<1>9. ~(users \subseteq users')
  OBVIOUS
<1>10. \E p \in Procs : MergeCommit(p)
  BY <1>2, <1>3, <1>4, <1>5, <1>6, <1>7, <1>8, <1>9 DEF Next
<1> QED BY <1>10 DEF MergeCommit

\* A merge that goes through hands on every game, ballot and entry of the
\* history, also those that were written, deleted or written again while it
\* was at work, except games the new account left meanwhile
\* (user_repository.py:115, "re-assigning all foreign key references").
THEOREM NothingLost ==
  ASSUME SelfMerge = FALSE
  PROVE  Spec => MergeKeepsRecords
<1> DEFINE Kept(p, new, old) ==
             /\ txn[p].at = "merge" /\ txn[p].old = old /\ txn[p].new = new
             /\ (Played(new) \cup Played(old)) \ txn[p].left \subseteq Played(new)'
             /\ Played(new)' \subseteq Played(new) \cup Played(old)
             /\ VotedIn(new)' = VotedIn(new) \cup VotedIn(old)
             /\ {r.earned : r \in Earned(new)'} = {r.earned : r \in Earned(new) \cup Earned(old)}
<1>1. ASSUME AccountInv, Next, NEW old \in users \ users'
      PROVE  \E p \in Procs, new \in users' : Kept(p, new, old)
  <2>1. PICK p \in Procs : MergeCommit(p) /\ old = txn[p].old
    BY <1>1, OnlyMergesDelete
  <2> PICK new : new = txn[p].new
    OBVIOUS
  <2>2. new \in users' /\ txn[p].at = "merge"
    BY <1>1, <2>1, MergeCommitTables DEF Merging, MergeCommit
  <2>3. Kept(p, new, old)
    BY <1>1, <2>1, <2>2, HandedOn
  <2> HIDE DEF Kept
  <2> QED BY <2>2, <2>3
<1>2. AccountInv /\ [Next]_vars =>
        [\A old \in users \ users' : \E p \in Procs, new \in users' : Kept(p, new, old)]_vars
  <2> HIDE DEF Kept
  <2> QED BY <1>1
<1>3. Spec => [][\A old \in users \ users' : \E p \in Procs, new \in users' : Kept(p, new, old)]_vars
  <2> HIDE DEF Kept
  <2> QED BY <1>2, AccountInvariant, PTL DEF Spec
<1> QED BY <1>3 DEF MergeKeepsRecords

\* After a revocation no card blocks the player, however many were active
\* (user_repository.py:236, "Revokes all active cards").
THEOREM Freeing ==
  ASSUME SelfMerge = FALSE
  PROVE  Spec => RevokeFrees
<1>1. ASSUME AccountInv, NEW u \in People, NEW c \in Chats, Revoke(u, c)
      PROVE  ~Blocked(u, c)'
  <2>1. cards' = Lifted(Lifts(u, c))
    BY <1>1 DEF Revoke
  <2>2. \A k \in DOMAIN cards' :
          cards'[k].user = u /\ cards'[k].chat = c => ~cards'[k].active
    BY <1>1, <2>1, LiftedCards DEF AccountInv, Lifts
  <2>3. Live(u, c)' = {}
    BY <2>2 DEF Live
  <2> QED BY <2>3 DEF Blocked, ActiveCard
<1>2. AccountInv /\ [Next]_vars =>
        [\A u \in People, c \in Chats : Revoke(u, c) => ~Blocked(u, c)']_vars
  BY <1>1
<1> QED BY <1>2, AccountInvariant, PTL DEF Spec, RevokeFrees
=============================================================================
