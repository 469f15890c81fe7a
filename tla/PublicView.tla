----------------------------- MODULE PublicView ------------------------------
(***************************************************************************)
(* What others see of a game: the details the API serves through a         *)
(* look-aside cache in Redis, and the messages in the chat and the channel *)
(* of the game, which listeners of the event bus edit after a change.      *)
(*                                                                         *)
(* A change is whatever commits something the details or the messages      *)
(* show; only its number matters here.  Routes differ in what they do      *)
(* around the commit.                                                      *)
(***************************************************************************)
EXTENDS Integers, FiniteSets

CONSTANTS
  Procs,       \* requests and jobs that change the game
  Readers,     \* requests for its details
  Boards,      \* its messages: {"chat"} or {"chat", "channel"}
  Used,        \* the routes in use
  TTL,         \* seconds a cache entry lives (300)
  Faults,      \* whether Redis and Telegram fail and processes die
  MaxChanges,  \* bound on the changes
  Horizon      \* bound on time

ASSUME ViewParameters ==
  /\ "chat" \in Boards /\ Boards \subseteq {"chat", "channel"}
  /\ TTL \in Nat \ {0} /\ {MaxChanges, Horizon} \subseteq Nat
  /\ Faults \in BOOLEAN

\* What a route does: evict the cache before its commit, evict it after, and
\* which messages the event it publishes (or its own code) has edited.
Routes ==
  LET Route(before, after, tells) ==
        [before |-> before, after |-> after, tells |-> tells]
  IN  [bot     |-> Route(TRUE,  FALSE, Boards),    \* join, leave and kick
       api     |-> Route(TRUE,  TRUE,  Boards),    \* join_game, leave_game
       tool    |-> Route(FALSE, TRUE,  Boards),    \* teams, players, guests, update_game
       status  |-> Route(FALSE, FALSE, Boards),    \* status patch, finish_game
       publish |-> Route(FALSE, FALSE, {"chat"}),  \* publish_teams
       release |-> Route(FALSE, TRUE,  {"chat"}),  \* release_gk_slots
       late    |-> Route(FALSE, TRUE,  {}),        \* toggle_late
       repair  |-> Route(TRUE,  FALSE, {})]        \* the roster repair of the CLI

ASSUME RoutesAssumption == Used \subseteq DOMAIN Routes

VARIABLES
  now,
  version, \* how many changes are committed
  ended,   \* ended[v]: when the state after v changes was superseded
  cache,   \* the entry of the details in Redis, Nothing if there is none
  shown,   \* shown[b]: the version the message b shows
  due,     \* due[b]: the last change that is to be shown in b
  lost,    \* lost[b]: the last change whose edit of b was given up
  txn,     \* how far each change has come
  query    \* how far each request for the details has come

views == <<cache, shown>>
vars  == <<now, version, ended, cache, shown, due, lost, txn, query>>

Nothing  == [seen |-> -1]
Idle     == [at |-> "idle"]
Versions == 0..MaxChanges

Init ==
  /\ now = 0 /\ version = 0
  /\ ended = [v \in Versions |-> 0]
  /\ cache = Nothing
  /\ shown = [b \in Boards |-> 0]
  /\ due = [b \in Boards |-> 0]
  /\ lost = [b \in Boards |-> 0]
  /\ txn = [p \in Procs |-> Idle]
  /\ query = [r \in Readers |-> Idle]

Become(p, t) == txn' = [txn EXCEPT ![p] = t]
Raised(f, S, v) == [b \in Boards |-> IF b \in S /\ f[b] < v THEN v ELSE f[b]]

\* evict swallows the failures of Redis.
Evict == cache' \in {Nothing} \cup (IF Faults THEN {cache} ELSE {})

(***************************************************************************)
(* A change.                                                               *)
(***************************************************************************)
Begin(p, route) ==
  /\ txn[p] = Idle
  /\ version + Cardinality({q \in Procs : txn[q].at \in {"evict", "commit"}}) < MaxChanges
  /\ Become(p, [at |-> IF Routes[route].before THEN "evict" ELSE "commit", route |-> route])
  /\ UNCHANGED <<now, version, ended, views, due, lost, query>>

EvictBefore(p) ==
  /\ txn[p].at = "evict"
  /\ Evict
  /\ Become(p, [txn[p] EXCEPT !.at = "commit"])
  /\ UNCHANGED <<now, version, ended, shown, due, lost, query>>

\* The messages the change is to be shown in.
Tells(p) == Routes[txn[p].route].tells

Told(p) == IF Tells(p) = {} THEN Idle
           ELSE [at |-> "read", made |-> version', boards |-> Tells(p)]

\* (mutated: the roster is read before the change commits)
CommitReadsBefore(p) ==
  /\ txn[p].at = "commit"
  /\ version < MaxChanges
  /\ version' = version + 1
  /\ ended' = [ended EXCEPT ![version] = now]
  /\ due' = Raised(due, Tells(p), version')
  /\ Become(p, IF Tells(p) = {} THEN Idle
               ELSE [at |-> "edit", made |-> version', boards |-> Tells(p), seen |-> version])
  /\ UNCHANGED <<now, views, lost, query>>

Commit(p) ==
  /\ txn[p].at = "commit"
  /\ version < MaxChanges
  /\ version' = version + 1
  /\ ended' = [ended EXCEPT ![version] = now]
  /\ due' = Raised(due, Tells(p), version')
  /\ Become(p, IF Routes[txn[p].route].after
                 THEN [at |-> "evict_after", made |-> version', route |-> txn[p].route]
                 ELSE Told(p))
  /\ UNCHANGED <<now, views, lost, query>>

EvictAfter(p) ==
  /\ txn[p].at = "evict_after"
  /\ Evict
  /\ Become(p, IF Tells(p) = {} THEN Idle
               ELSE [at |-> "read", made |-> txn[p].made, boards |-> Tells(p)])
  /\ UNCHANGED <<now, version, ended, shown, due, lost, query>>

\* The listener reads game and signups in a session of its own.
ReadRoster(p) ==
  /\ txn[p].at = "read"
  /\ Become(p, [at |-> "edit", made |-> txn[p].made, boards |-> txn[p].boards,
                seen |-> version])
  /\ UNCHANGED <<now, version, ended, views, due, lost, query>>

\* The channel's message is edited before the chat's, both with what was
\* read at the beginning.  An attempt that fails is repeated with it; the
\* last one is given up.
EditOf(p) == IF "channel" \in txn[p].boards THEN "channel" ELSE "chat"

EditedNext(p) ==
  Become(p, IF Cardinality(txn[p].boards) = 1 THEN Idle
            ELSE [txn[p] EXCEPT !.boards = @ \ {EditOf(p)}])

Edit(p) ==
  /\ txn[p].at = "edit"
  /\ shown' = [shown EXCEPT ![EditOf(p)] = txn[p].seen]
  /\ EditedNext(p)
  /\ UNCHANGED <<now, version, ended, cache, due, lost, query>>

GiveUp(p) ==
  /\ Faults
  /\ txn[p].at = "edit"
  /\ lost' = Raised(lost, {EditOf(p)}, txn[p].made)
  /\ EditedNext(p)
  /\ UNCHANGED <<now, version, ended, views, due, query>>

\* A change that fails before its commit, or a process that dies after it:
\* the events of the bus live in memory.
Die(p) ==
  /\ Faults
  /\ txn[p] # Idle
  /\ lost' = CASE txn[p].at \in {"read", "edit"} -> Raised(lost, txn[p].boards, txn[p].made)
               [] txn[p].at = "evict_after"      -> Raised(lost, Tells(p), txn[p].made)
               [] OTHER                          -> lost
  /\ Become(p, Idle)
  /\ UNCHANGED <<now, version, ended, views, due, query>>

(***************************************************************************)
(* get_game_details: the entry if there is one, otherwise what the         *)
(* database says, which is then stored.                                    *)
(***************************************************************************)
Ask(r, q) == query' = [query EXCEPT ![r] = q]

\* (mutated: a hit prolongs the life of the entry)
LookupRenews(r) ==
  /\ query[r] = Idle
  /\ IF cache = Nothing
       THEN Ask(r, [at |-> "load"]) /\ UNCHANGED cache
       ELSE /\ Ask(r, [at |-> "answered", seen |-> cache.seen])
            /\ cache' = [cache EXCEPT !.expires = now + TTL]
  /\ UNCHANGED <<now, version, ended, shown, due, lost, txn>>

Lookup(r) ==
  /\ query[r] = Idle
  /\ Ask(r, IF cache = Nothing THEN [at |-> "load"]
            ELSE [at |-> "answered", seen |-> cache.seen])
  /\ UNCHANGED <<now, version, ended, views, due, lost, txn>>

Load(r) ==
  /\ query[r].at = "load"
  /\ Ask(r, [at |-> "store", seen |-> version])
  /\ UNCHANGED <<now, version, ended, views, due, lost, txn>>

Store(r) ==
  /\ query[r].at = "store"
  /\ cache' \in {[seen |-> query[r].seen, expires |-> now + TTL]}
                  \cup (IF Faults THEN {cache} ELSE {})
  /\ Ask(r, [at |-> "answered", seen |-> query[r].seen])
  /\ UNCHANGED <<now, version, ended, shown, due, lost, txn>>

Answer(r) ==
  /\ query[r].at = "answered"
  /\ Ask(r, Idle)
  /\ UNCHANGED <<now, version, ended, views, due, lost, txn>>

\* Redis drops an entry when its time is over, or before (volatile-lru).
Drop ==
  /\ cache # Nothing
  /\ cache' = Nothing
  /\ UNCHANGED <<now, version, ended, shown, due, lost, txn, query>>

\* Seconds pass: no request for the details takes that long.
Tick ==
  /\ now < Horizon
  /\ \A r \in Readers : query[r] = Idle
  /\ cache # Nothing => now < cache.expires
  /\ now' = now + 1
  /\ UNCHANGED <<version, ended, views, due, lost, txn, query>>

Work(p) ==
  \/ EvictBefore(p) \/ Commit(p) \/ EvictAfter(p)
  \/ ReadRoster(p) \/ Edit(p) \/ GiveUp(p) \/ Die(p)

Read(r) == Lookup(r) \/ Load(r) \/ Store(r) \/ Answer(r)

Next ==
  \/ \E p \in Procs : Work(p) \/ \E route \in Used : Begin(p, route)
  \/ \E r \in Readers : Read(r)
  \/ Drop
  \/ Tick

Spec == Init /\ [][Next]_vars

\* What was begun goes on, or fails.
Proceeds(p) == WF_vars(Work(p))

Fairness == \A p \in Procs : Proceeds(p)

FairSpec == Spec /\ Fairness

(***************************************************************************)
(* Properties.                                                             *)
(***************************************************************************)

\* Nobody is answered with details that have been out of date for longer
\* than an entry lives, whichever evictions come too early, fail, or are
\* overtaken by a reader that stores what it had read before the commit
\* ("Passive Cache: save serialized JSON value with a TTL", cache.py:52).
AnswersFresh ==
  \A r \in Readers :
    query[r].at = "answered" =>
      query[r].seen = version \/ now <= ended[query[r].seen] + TTL

\* The inductive invariant behind AnswersFresh: an entry lives for TTL from
\* the moment it is stored, and what a reader is about to store became out
\* of date, if at all, in this very second.
ViewTypes ==
  /\ now \in Nat /\ version \in Versions
  /\ ended \in [Versions -> Nat]
  /\ cache \in {Nothing} \cup [seen : Versions, expires : Nat]
  /\ query \in [Readers -> {Idle} \cup [at : {"load"}]
                             \cup [at : {"store", "answered"}, seen : Versions]]

FreshInv ==
  /\ ViewTypes
  /\ cache # Nothing =>
       /\ now <= cache.expires /\ cache.expires <= now + TTL
       /\ cache.seen <= version
       /\ cache.seen = version \/ cache.expires <= ended[cache.seen] + TTL
  /\ \A r \in Readers :
       /\ query[r].at \in {"store", "answered"} => query[r].seen <= version
       /\ query[r].at = "store" =>
            query[r].seen = version \/ now <= ended[query[r].seen]
  /\ AnswersFresh

\* Every change a route announces appears in every message it is announced
\* to, at least for a moment, unless the edit was given up: events are
\* published after the commit and read the committed rows.
EachChangeTold ==
  \A b \in Boards : \A v \in Versions :
    <>(due[b] >= v) => <>(shown[b] >= v \/ lost[b] >= v)
=============================================================================
