------------------------------ MODULE Accounts -----------------------------
(***************************************************************************)
(* The people of the platform: how rows of User, PlayerProfile, ChatAdmin  *)
(* and PlayerCard come about, how disciplinary cards are issued and        *)
(* revoked, and how two accounts are merged.                               *)
(*                                                                         *)
(* Every request checks with one statement and writes with another; what   *)
(* keeps concurrent ones apart are the keys of the tables alone: primary,  *)
(* unique and foreign.  What names, positions and ratings say is left out. *)
(***************************************************************************)
EXTENDS Integers, FiniteSets

CONSTANTS
  People, Chats, Games, Procs,
  Owner,      \* the player who created the games
  Weeks,      \* for how long a card may be issued
  MaxCards,   \* bound on the cards
  MaxMerges,  \* bound on the merges
  SelfMerge,  \* whether somebody merges an account with itself
  Horizon     \* bound on time

ASSUME AccountParameters ==
  /\ Owner \in People
  /\ Weeks \subseteq Nat \ {0}
  /\ {MaxCards, MaxMerges, Horizon} \subseteq Nat /\ SelfMerge \in BOOLEAN

VARIABLES
  now,      \* in weeks
  users,    \* rows of User
  chats,    \* rows of Chat
  profiles, \* rows of PlayerProfile: <<person, chat>>
  admins,   \* rows of ChatAdmin: <<person, chat>>
  signups,  \* rows of Signup: <<person, game>>
  votes,    \* rows of Vote; the teams of a game are left out
  books,    \* rows of RatingHistory and GameStats; .earned tells them apart
  creator,  \* rows of Game: who created it
  cards,    \* rows of PlayerCard, by their id
  issued,   \* how many cards were issued
  merges,   \* how many accounts were merged
  txn       \* how far each request has come

tables == <<users, chats, profiles, admins, signups, votes, books, creator, cards, issued>>
vars == <<now, tables, merges, txn>>

Idle == [at |-> "idle"]
Become(p, t) == txn' = [txn EXCEPT ![p] = t]

Init ==
  /\ now = 0
  /\ users = {Owner} /\ chats = {}
  /\ profiles = {} /\ admins = {}
  /\ signups = {} /\ votes = {} /\ books = {}
  /\ creator = [g \in Games |-> Owner]
  /\ cards = [k \in {} |-> 0] /\ issued = 0
  /\ merges = 0
  /\ txn = [p \in Procs |-> Idle]

(***************************************************************************)
(* Rows that are there once.  A request reads that a row is missing, and   *)
(* inserts what it needs; the commit fails if somebody was faster, or if a *)
(* row refers to nothing.                                                  *)
(***************************************************************************)
Insert(p, newUsers, newChats, newProfiles, newAdmins) ==
  /\ txn[p] = Idle
  /\ newUsers \cap users = {} /\ newChats \cap chats = {}
  /\ newProfiles \cap profiles = {} /\ newAdmins \cap admins = {}
  /\ newUsers \cup newChats \cup newProfiles \cup newAdmins # {}
  /\ Become(p, [at |-> "insert", users |-> newUsers, chats |-> newChats,
                profiles |-> newProfiles, admins |-> newAdmins])
  /\ UNCHANGED <<now, tables, merges>>

\* register_user: the user, unless he is there, and a profile, if the page
\* was opened for a group.  A group nobody knows fails the whole request.
Register(p, u, c) == Insert(p, {u} \ users, {}, {<<u, c>>} \ profiles, {})

\* A user without a profile: by choosing a language (cb_process_user_lang),
\* by creating a game (_ensure_creator_exists), or registering on his own.
Meet(p, u) == Insert(p, {u}, {}, {}, {})

\* The first one hears of a group: an update of the bot's membership, the
\* command register_chat, any message in it, or a game created for it.
Enter(p, c) == Insert(p, {}, {c}, {}, {})

\* TenantMiddleware: whoever speaks in a group has a profile there.
Speak(p, u, c) ==
  /\ u \in users /\ c \in chats
  /\ Insert(p, {}, {}, {<<u, c>>}, {})

\* cmd_promote_admin
Promote(p, u, c) == Insert(p, {}, {}, {}, {<<u, c>>})

InsertCommit(p) ==
  LET t == txn[p]
  IN  /\ t.at = "insert"
      /\ t.users \cap users = {} /\ t.chats \cap chats = {}
      /\ t.profiles \cap profiles = {} /\ t.admins \cap admins = {}
      /\ t.profiles \cup t.admins \subseteq (users \cup t.users) \X (chats \cup t.chats)
      /\ users' = users \cup t.users
      /\ chats' = chats \cup t.chats
      /\ profiles' = profiles \cup t.profiles
      /\ admins' = admins \cup t.admins
      /\ Become(p, Idle)
      /\ UNCHANGED <<now, signups, votes, books, creator, cards, issued, merges>>

(***************************************************************************)
(* What the other components do with people, each in one step: a guest is  *)
(* written with his signup, players join, leave and vote, a finish writes  *)
(* history for those with a signup, and a game is deleted.                 *)
(***************************************************************************)
AddGuest(u, g) ==
  /\ u \notin users /\ g \in DOMAIN creator
  /\ users' = users \cup {u}
  /\ signups' = signups \cup {<<u, g>>}
  /\ UNCHANGED <<now, chats, profiles, admins, votes, books, creator, cards, issued, merges, txn>>

\* The newest card that is active and has not expired (get_active_card).
Live(u, c) ==
  {k \in DOMAIN cards : /\ cards[k].user = u /\ cards[k].chat = c
                        /\ cards[k].active /\ cards[k].until > now}

ActiveCard(u, c) == {k \in Live(u, c) : \A j \in Live(u, c) : j <= k}

Blocked(u, c) == \E k \in ActiveCard(u, c) : cards[k].red

Join(u, g, c) ==
  /\ u \in users /\ g \in DOMAIN creator
  /\ <<u, g>> \notin signups
  /\ ~Blocked(u, c)
  /\ signups' = signups \cup {<<u, g>>}
  /\ UNCHANGED <<now, users, chats, profiles, admins, votes, books, creator, cards, issued, merges, txn>>

Vote(v, w, g) ==
  /\ v # w
  /\ {<<v, g>>, <<w, g>>} \subseteq signups
  /\ \A b \in votes : ~(b.voter = v /\ b.game = g)
  /\ votes' = votes \cup {[game |-> g, voter |-> v, target |-> w]}
  /\ UNCHANGED <<now, users, chats, profiles, admins, signups, books, creator, cards, issued, merges, txn>>

\* What a merge has found is not there to be moved once it was deleted, even
\* if the same is written again.  .left are the games the new account has
\* left since, which no action reads.
Found(t, gone, ballots, entries) ==
  IF t.at # "merge" THEN t
  ELSE [t EXCEPT !.played = {g \in @ : <<t.old, g>> \notin gone},
                 !.left = @ \cup {g \in Games : <<t.new, g>> \in gone},
                 !.cast = @ \ ballots, !.twice = @ \ ballots, !.earned = @ \ entries]

Delete(gone, ballots, entries) ==
  txn' = [p \in Procs |-> Found(txn[p], gone, ballots, entries)]

\* leave_player, for the player himself or for an admin who removes him.
Leave(u, g) ==
  /\ <<u, g>> \in signups
  /\ signups' = signups \ {<<u, g>>}
  /\ Delete({<<u, g>>}, {}, {})
  /\ UNCHANGED <<now, users, chats, profiles, admins, votes, books, creator, cards, issued, merges>>

\* A game that is finished again loses its entries and gets new ones.
Finish(g) ==
  LET entries == {r \in books : r.game = g}
  IN  /\ g \in DOMAIN creator
      /\ books' = (books \ entries) \cup {[game |-> g, user |-> u, earned |-> u] :
                                           u \in {w \in users : <<w, g>> \in signups}}
      /\ Delete({}, {}, entries)
      /\ UNCHANGED <<now, users, chats, profiles, admins, signups, votes, creator, cards, issued, merges>>

DeleteGame(g) ==
  LET gone    == {s \in signups : s[2] = g}
      ballots == {b \in votes : b.game = g}
      entries == {r \in books : r.game = g}
  IN  /\ g \in DOMAIN creator
      /\ creator' = [h \in DOMAIN creator \ {g} |-> creator[h]]
      /\ signups' = signups \ gone
      /\ votes' = votes \ ballots
      /\ books' = books \ entries
      /\ Delete(gone, ballots, entries)
      /\ UNCHANGED <<now, users, chats, profiles, admins, cards, issued, merges>>

(***************************************************************************)
(* Disciplinary cards.                                                     *)
(***************************************************************************)

\* (mutated: the card in force is lifted, not every one that is active)
LiftsOne(u, c) == ActiveCard(u, c)

\* What an UPDATE of the active cards of a player in a group finds: expired
\* ones as well.
Lifts(u, c) ==
  {k \in DOMAIN cards : cards[k].user = u /\ cards[k].chat = c /\ cards[k].active}

\* issue_player_card and issue_card deactivate and insert in one
\* transaction; .after is how many cards there were when it began.
Issue(p, u, c, red, weeks) ==
  /\ txn[p] = Idle
  /\ u \in users /\ c \in chats
  /\ Become(p, [at |-> "card", lifts |-> Lifts(u, c),
                card |-> [user |-> u, chat |-> c, red |-> red, until |-> now + weeks,
                          active |-> TRUE, after |-> issued]])
  /\ UNCHANGED <<now, tables, merges>>

Lifted(K) ==
  [k \in DOMAIN cards |-> [cards[k] EXCEPT !.active = @ /\ k \notin K]]

\* The player may have been merged away since.
IssueCommit(p) ==
  LET t == txn[p]
  IN  /\ t.at = "card"
      /\ issued < MaxCards
      /\ t.card.user \in users
      /\ issued' = issued + 1
      /\ cards' = [k \in DOMAIN cards \cup {issued'} |->
                     IF k = issued' THEN t.card ELSE Lifted(t.lifts)[k]]
      /\ Become(p, Idle)
      /\ UNCHANGED <<now, users, chats, profiles, admins, signups, votes, books, creator, merges>>

\* revoke_player_card and revoke_card: one UPDATE, committed.
Revoke(u, c) ==
  /\ Lifts(u, c) # {}
  /\ cards' = Lifted(Lifts(u, c))
  /\ UNCHANGED <<now, users, chats, profiles, admins, signups, votes, books, creator, issued, merges, txn>>

(***************************************************************************)
(* merge_users.  What it moves and what it deletes goes by the rows it     *)
(* found, the rest by a condition; at last the old account is deleted.     *)
(* The command is the owner's, who gives one at a time.                    *)
(***************************************************************************)
Of(rows, u)   == {r \in rows : r[1] = u}
Cast(u)       == {b \in votes : b.voter = u}
Earned(u)     == {r \in books : r.user = u}
Played(u)     == {g \in Games : <<u, g>> \in signups}
VotedIn(u)    == {b.game : b \in Cast(u)}

MergeBegin(p, old, new) ==
  /\ txn[p] = Idle
  /\ \A q \in Procs : txn[q].at # "merge"
  /\ merges < MaxMerges
  /\ {old, new} \subseteq users
  /\ SelfMerge \/ old # new
  /\ merges' = merges + 1
  /\ Become(p, [at |-> "merge", old |-> old, new |-> new,
                played |-> Played(old), clash |-> Played(old) \cap Played(new), left |-> {},
                cast |-> Cast(old), twice |-> {b \in Cast(old) : b.game \in VotedIn(new)},
                earned |-> Earned(old)])
  /\ UNCHANGED <<now, tables>>

\* (mutated: every signup of the old account is dropped)
MovedNone(t) == {}

\* The games the new account takes over from the old one.
Moved(t) == {t.new} \X (t.played \ t.clash)

\* The ballots it takes over.
Handed(t) == {[b EXCEPT !.voter = t.new] : b \in t.cast \ t.twice}

\* (mutated: the cards of the old account stay)
CardsStay(u) == cards

\* ON DELETE CASCADE
CardsWithout(u) ==
  [k \in {j \in DOMAIN cards : cards[j].user # u} |-> cards[k]]

\* Signups and ballots of both accounts, also those committed meanwhile, must
\* not clash, and nothing may refer to the old account any more: a profile,
\* the rights in a group, or a row that has come since it was looked for.
MergeCommit(p) ==
  LET t       == txn[p]
      signed  == (signups \ ({t.old} \X t.played)) \cup Moved(t)
      cast    == (votes \ t.cast) \cup Handed(t)
      aimed   == {[b EXCEPT !.target = IF @ = t.old THEN t.new ELSE @] : b \in cast}
      earned  == (books \ t.earned) \cup {[r EXCEPT !.user = t.new] : r \in t.earned}
  IN  /\ t.at = "merge"
      /\ Moved(t) \cap signups \subseteq {t.old} \X t.played
      /\ \A b \in Handed(t), c \in votes \ t.cast : ~(b.voter = c.voter /\ b.game = c.game)
      /\ Of(signed, t.old) = {}
      /\ \A b \in aimed : b.voter # t.old
      /\ \A r \in earned : r.user # t.old
      /\ Of(profiles \cup admins, t.old) = {}
      /\ users' = users \ {t.old}
      /\ signups' = signed
      /\ votes' = aimed
      /\ books' = earned
      /\ creator' = [g \in DOMAIN creator |-> IF creator[g] = t.old THEN t.new ELSE creator[g]]
      /\ cards' = CardsWithout(t.old)
      /\ Become(p, Idle)
      /\ UNCHANGED <<now, chats, profiles, admins, issued, merges>>

\* The commit fails, or what came before it: everything is rolled back.
Fail(p) ==
  /\ txn[p] # Idle
  /\ Become(p, Idle)
  /\ UNCHANGED <<now, tables, merges>>

Tick ==
  /\ now < Horizon
  /\ now' = now + 1
  /\ UNCHANGED <<tables, merges, txn>>

Next ==
  \/ \E p \in Procs :
       \/ \E u \in People : \/ Meet(p, u)
                            \/ \E c \in Chats : Register(p, u, c) \/ Speak(p, u, c) \/ Promote(p, u, c)
       \/ \E c \in Chats : Enter(p, c)
       \/ InsertCommit(p)
       \/ \E u \in People, c \in Chats, red \in BOOLEAN, weeks \in Weeks : Issue(p, u, c, red, weeks)
       \/ IssueCommit(p)
       \/ \E old, new \in People : MergeBegin(p, old, new)
       \/ MergeCommit(p)
       \/ Fail(p)
  \/ \E u \in People, c \in Chats : Revoke(u, c)
  \/ \E u \in People, g \in Games :
       AddGuest(u, g) \/ Leave(u, g) \/ \E c \in Chats : Join(u, g, c)
  \/ \E v, w \in People, g \in Games : Vote(v, w, g)
  \/ \E g \in Games : Finish(g) \/ DeleteGame(g)
  \/ Tick

Spec == Init /\ [][Next]_vars

(***************************************************************************)
(* Properties.                                                             *)
(***************************************************************************)

\* Types, and every reference leads to a row.
TypeOK ==
  /\ now \in 0..Horizon /\ merges \in 0..MaxMerges /\ issued \in 0..MaxCards
  /\ users \subseteq People /\ chats \subseteq Chats
  /\ profiles \cup admins \subseteq users \X chats
  /\ DOMAIN creator \subseteq Games /\ creator \in [DOMAIN creator -> users]
  /\ signups \subseteq users \X DOMAIN creator
  /\ votes \subseteq [game : DOMAIN creator, voter : users, target : users]
  /\ books \subseteq [game : DOMAIN creator, user : users, earned : People]
  /\ DOMAIN cards \subseteq 1..issued
  /\ \A k \in DOMAIN cards : cards[k].user \in users /\ cards[k].chat \in chats

\* A merge that goes through hands on every game, every ballot and every
\* entry of the history the old account has by then, also what was written,
\* deleted or written again while it was at work ("re-assigning all foreign
\* key references from old to new", user_repository.py:115): where both
\* accounts have the same, one is left.  A game may be lost only if the new
\* account has left it since the merge read its signups (line 140): the old
\* one's is then dropped as a double.
MergeKeepsRecords ==
  [][\A old \in users \ users' : \E p \in Procs, new \in users' :
         /\ txn[p].at = "merge" /\ txn[p].old = old /\ txn[p].new = new
         /\ (Played(new) \cup Played(old)) \ txn[p].left \subseteq Played(new)'
         /\ Played(new)' \subseteq Played(new) \cup Played(old)
         /\ VotedIn(new)' = VotedIn(new) \cup VotedIn(old)
         /\ {r.earned : r \in Earned(new)'} = {r.earned : r \in Earned(new) \cup Earned(old)}]_vars

\* An issued card leaves none in force of those committed before its request
\* began ("deactivating any prior active cards", user_repository.py:203),
\* even where two organizers at once have left two of them.
LiftsEarlier ==
  \A j, k \in DOMAIN cards :
    /\ cards[j].user = cards[k].user /\ cards[j].chat = cards[k].chat
    /\ j <= cards[k].after
    => ~cards[j].active

\* Revoking the card of a player lets him join again, however many cards are
\* active ("Revokes all active cards", user_repository.py:236).
RevokeFrees ==
  [][\A u \in People, c \in Chats : Revoke(u, c) => ~Blocked(u, c)']_vars
=============================================================================
