-------------------------- MODULE PublicViewProofs --------------------------
(***************************************************************************)
(* Proofs about what people are shown of a game: PublicView and Announce.  *)
(***************************************************************************)
EXTENDS PublicView, Announce, FiniteSetTheorems, TLAPS

(***************************************************************************)
(* The details: nobody is answered with some that have been out of date for*)
(* longer than a cache entry lives, for every life time, any number of     *)
(* changes, routes and readers, with whatever evictions fail or come too   *)
(* early.                                                                  *)
(***************************************************************************)

LEMMA Initially == Init => FreshInv
<1> SUFFICES ASSUME Init PROVE FreshInv
  OBVIOUS
<1>1. ViewTypes
  BY ViewParameters DEF Init, ViewTypes, Versions, Idle
<1>. QED  BY <1>1 DEF Init, FreshInv, AnswersFresh, Idle, Nothing

\* What a change does to the views of others: at most it evicts.
LEMMA QuietSteps ==
  ASSUME FreshInv,
         now' = now, version' = version, ended' = ended, query' = query,
         cache' \in {cache, Nothing}
  PROVE  FreshInv'
<1>1. ViewTypes'
  BY DEF FreshInv, ViewTypes
<1>2. AnswersFresh'
  BY DEF FreshInv, AnswersFresh
<1>3. CASE cache' = cache
  BY <1>1, <1>2, <1>3 DEF FreshInv
<1>4. CASE cache' = Nothing
  BY <1>1, <1>2, <1>4 DEF FreshInv
<1>. QED  BY <1>3, <1>4

\* The commit ends the reign of one version, at this very second: entries and
\* readers that have it are up to date until now.
LEMMA CommitStep ==
  ASSUME FreshInv, NEW p \in Procs, Commit(p)
  PROVE  FreshInv'
<1>1. /\ version' = version + 1 /\ ended' = [ended EXCEPT ![version] = now]
      /\ now' = now /\ cache' = cache /\ query' = query
      /\ version \in Nat /\ version' \in Versions /\ version \in Versions
      /\ now \in Nat /\ TTL \in Nat
  BY ViewParameters DEF Commit, views, FreshInv, ViewTypes, Versions
<1>2. ViewTypes'
  BY <1>1 DEF FreshInv, ViewTypes
<1>3. ended'[version] = now /\ \A v \in Versions \ {version} : ended'[v] = ended[v]
  BY <1>1 DEF FreshInv, ViewTypes
<1>4. /\ \A v \in Versions : v <= version => v # version'
      /\ \A v \in Versions : v <= version => v <= version'
  BY <1>1 DEF Versions
<1>5. cache # Nothing =>
        /\ cache.seen \in Versions /\ cache.seen <= version
        /\ cache.expires \in Nat /\ now <= cache.expires /\ cache.expires <= now + TTL
        /\ cache.seen = version \/ cache.expires <= ended[cache.seen] + TTL
  BY DEF FreshInv, ViewTypes
<1>6. cache # Nothing => cache.seen <= version' /\ cache.expires <= ended'[cache.seen] + TTL
  BY <1>1, <1>3, <1>4, <1>5
<1>7. ASSUME NEW r \in Readers
      PROVE  /\ query[r].at \in {"store", "answered"} => query[r].seen <= version'
             /\ query[r].at = "store" => now <= ended'[query[r].seen]
             /\ query[r].at = "answered" => now <= ended'[query[r].seen] + TTL
  <2>1. query[r].at \in {"store", "answered"} =>
          query[r].seen \in Versions /\ query[r].seen <= version
    BY DEF FreshInv, ViewTypes, Idle
  <2>2. query[r].at = "store" => query[r].seen = version \/ now <= ended[query[r].seen]
    BY DEF FreshInv
  <2>3. query[r].at = "answered" =>
          query[r].seen = version \/ now <= ended[query[r].seen] + TTL
    BY DEF FreshInv, AnswersFresh
  <2>4. CASE query[r].at \notin {"store", "answered"}
    BY <2>4
  <2>5. CASE query[r].at \in {"store", "answered"}
    <3> DEFINE s == query[r].seen
    <3>1. s \in Versions /\ s <= version /\ s <= version'
      BY <1>4, <2>1, <2>5
    <3>2. s = version => ended'[s] = now
      BY <1>3
    <3>3. s # version => ended'[s] = ended[s]
      BY <1>3, <3>1
    <3>4. query[r].at = "store" => s = version \/ now <= ended[s]
      BY <2>2
    <3>5. query[r].at = "answered" => s = version \/ now <= ended[s] + TTL
      BY <2>3
    <3> HIDE DEF s
    <3>6. now <= now /\ now <= now + TTL
      BY <1>1
    <3>7. query[r].at = "store" => now <= ended'[s]
      BY <3>2, <3>3, <3>4, <3>6
    <3>8. query[r].at = "answered" => now <= ended'[s] + TTL
      BY <3>2, <3>3, <3>5, <3>6
    <3>. QED  BY <3>1, <3>7, <3>8 DEF s
  <2>. QED  BY <2>4, <2>5
<1>. QED  BY <1>1, <1>2, <1>5, <1>6, <1>7 DEF FreshInv, AnswersFresh

LEMMA WorkStep ==
  ASSUME FreshInv, NEW p \in Procs, Work(p)
  PROVE  FreshInv'
<1>1. CASE EvictBefore(p)
  BY <1>1, QuietSteps DEF EvictBefore, Evict
<1>2. CASE Commit(p)
  BY <1>2, CommitStep
<1>3. CASE EvictAfter(p)
  BY <1>3, QuietSteps DEF EvictAfter, Evict
<1>4. CASE ReadRoster(p)
  BY <1>4, QuietSteps DEF ReadRoster, views
<1>5. CASE Edit(p)
  BY <1>5, QuietSteps DEF Edit
<1>6. CASE GiveUp(p)
  BY <1>6, QuietSteps DEF GiveUp, views
<1>7. CASE Die(p)
  BY <1>7, QuietSteps DEF Die, views
<1>. QED  BY <1>1, <1>2, <1>3, <1>4, <1>5, <1>6, <1>7 DEF Work

\* What a reader may hold, and what it may store.
Held(q) ==
  /\ q \in {Idle} \cup [at : {"load"}] \cup [at : {"store", "answered"}, seen : Versions]
  /\ q.at \in {"store", "answered"} => q.seen <= version
  /\ q.at = "store" => q.seen = version \/ now <= ended[q.seen]
  /\ q.at = "answered" => q.seen = version \/ now <= ended[q.seen] + TTL

Stored(e) ==
  /\ e \in [seen : Versions, expires : Nat]
  /\ e.seen <= version /\ e.expires = now + TTL
  /\ e.seen = version \/ now <= ended[e.seen]

LEMMA Times ==
  ASSUME FreshInv
  PROVE  /\ now \in Nat /\ TTL \in Nat /\ version \in Nat /\ version \in Versions
         /\ \A v \in Versions : ended[v] \in Nat
         /\ now <= now + TTL /\ now + TTL \in Nat
         /\ \A v \in Versions : now <= ended[v] => /\ now + TTL <= ended[v] + TTL
                                                  /\ now <= ended[v] + TTL
  BY ViewParameters DEF FreshInv, ViewTypes, Versions

\* A reader changes what it has and, when it stores, the entry.
LEMMA Advance ==
  ASSUME FreshInv, NEW r \in Readers, NEW q, Held(q),
         query' = [query EXCEPT ![r] = q],
         now' = now, version' = version, ended' = ended,
         cache' = cache \/ Stored(cache')
  PROVE  FreshInv'
<1>1. ViewTypes'
  BY DEF FreshInv, ViewTypes, Held, Stored
<1>2. cache' # Nothing =>
        /\ now <= cache'.expires /\ cache'.expires <= now + TTL
        /\ cache'.seen <= version
        /\ cache'.seen = version \/ cache'.expires <= ended[cache'.seen] + TTL
  <2>1. CASE cache' = cache
    BY <2>1 DEF FreshInv
  <2>2. CASE Stored(cache')
    BY <2>2, Times DEF Stored
  <2>. QED  BY <2>1, <2>2
<1>3. \A s \in Readers : query'[s] = query[s] \/ query'[s] = q
  BY DEF FreshInv, ViewTypes
<1>4. \A s \in Readers :
        /\ query'[s].at \in {"store", "answered"} => query'[s].seen <= version
        /\ query'[s].at = "store" => query'[s].seen = version \/ now <= ended[query'[s].seen]
        /\ query'[s].at = "answered" =>
             query'[s].seen = version \/ now <= ended[query'[s].seen] + TTL
  BY <1>3 DEF FreshInv, AnswersFresh, Held
<1>. QED  BY <1>1, <1>2, <1>4 DEF FreshInv, AnswersFresh

LEMMA ReadStep ==
  ASSUME FreshInv, NEW r \in Readers, Read(r)
  PROVE  FreshInv'
<1>1. now' = now /\ version' = version /\ ended' = ended
  BY DEF Read, Lookup, Load, Store, Answer
<1>2. CASE Lookup(r)
  <2>1. CASE cache = Nothing
    <3> DEFINE q == [at |-> "load"]
    <3>1. Held(q)
      BY DEF Held
    <3>2. query' = [query EXCEPT ![r] = q] /\ cache' = cache
      BY <1>2, <2>1 DEF Lookup, Ask, views
    <3>. QED  BY <1>1, <3>1, <3>2, Advance
  <2>2. CASE cache # Nothing
    <3> DEFINE q == [at |-> "answered", seen |-> cache.seen]
    <3>1. /\ cache.seen \in Versions /\ cache.seen <= version
          /\ cache.expires \in Nat /\ now <= cache.expires
          /\ cache.seen = version \/ cache.expires <= ended[cache.seen] + TTL
      BY <2>2 DEF FreshInv, ViewTypes
    <3>2. \A m, n, k \in Nat : m <= n /\ n <= k => m <= k
      OBVIOUS
    <3>3. cache.seen = version \/ now <= ended[cache.seen] + TTL
      <4>1. ended[cache.seen] + TTL \in Nat
        BY <3>1, Times
      <4>. QED  BY <3>1, <3>2, <4>1, Times
    <3>4. Held(q)
      BY <3>1, <3>3 DEF Held
    <3>5. query' = [query EXCEPT ![r] = q] /\ cache' = cache
      BY <1>2, <2>2 DEF Lookup, Ask, views
    <3>. QED  BY <1>1, <3>4, <3>5, Advance
  <2>. QED  BY <2>1, <2>2
<1>3. CASE Load(r)
  <2> DEFINE q == [at |-> "store", seen |-> version]
  <2>1. version \in Versions /\ version <= version
    BY Times
  <2>2. Held(q)
    BY <2>1 DEF Held
  <2>3. query' = [query EXCEPT ![r] = q] /\ cache' = cache
    BY <1>3 DEF Load, Ask, views
  <2>. QED  BY <1>1, <2>2, <2>3, Advance
<1>4. CASE Store(r)
  <2> DEFINE s == query[r].seen
             q == [at |-> "answered", seen |-> s]
             e == [seen |-> s, expires |-> now + TTL]
  <2>1. query[r].at = "store"
    BY <1>4 DEF Store
  <2>2. s \in Versions
    BY <2>1 DEF FreshInv, ViewTypes, Idle
  <2>3. s <= version /\ (s = version \/ now <= ended[s])
    BY <2>1 DEF FreshInv
  <2>4. s = version \/ now <= ended[s] + TTL
    BY <2>2, <2>3, Times
  <2>5. Held(q)
    BY <2>2, <2>3, <2>4 DEF Held
  <2>6. Stored(e)
    BY <2>2, <2>3, Times DEF Stored
  <2>7. query' = [query EXCEPT ![r] = q] /\ (cache' = cache \/ cache' = e)
    BY <1>4 DEF Store, Ask
  <2> HIDE DEF q, e
  <2>8. cache' = cache \/ Stored(cache')
    BY <2>6, <2>7
  <2>. QED  BY <1>1, <2>5, <2>7, <2>8, Advance
<1>5. CASE Answer(r)
  <2>1. Held(Idle)
    BY DEF Held, Idle
  <2>2. query' = [query EXCEPT ![r] = Idle] /\ cache' = cache
    BY <1>5 DEF Answer, Ask, views
  <2>. QED  BY <1>1, <2>1, <2>2, Advance
<1>. QED  BY <1>2, <1>3, <1>4, <1>5 DEF Read

\* Time passes only while nobody reads and no entry has outlived its time.
LEMMA TickStep ==
  ASSUME FreshInv, Tick
  PROVE  FreshInv'
<1>1. /\ now' = now + 1 /\ version' = version /\ ended' = ended /\ cache' = cache
      /\ query' = query /\ now \in Nat /\ TTL \in Nat
      /\ \A r \in Readers : query[r] = Idle
      /\ cache # Nothing => cache.expires \in Nat /\ now < cache.expires
  BY ViewParameters DEF Tick, views, FreshInv, ViewTypes
<1>2. ViewTypes'
  BY <1>1 DEF FreshInv, ViewTypes
<1>. QED  BY <1>1, <1>2 DEF FreshInv, AnswersFresh, Idle

LEMMA Stepwise == FreshInv /\ [Next]_vars => FreshInv'
<1> SUFFICES ASSUME FreshInv, [Next]_vars PROVE FreshInv'
  OBVIOUS
<1>1. ASSUME NEW p \in Procs, Work(p) PROVE FreshInv'
  BY <1>1, WorkStep
<1>2. ASSUME NEW p \in Procs, NEW route \in Used, Begin(p, route) PROVE FreshInv'
  BY <1>2, QuietSteps DEF Begin, views
<1>3. ASSUME NEW r \in Readers, Read(r) PROVE FreshInv'
  BY <1>3, ReadStep
<1>4. CASE Drop
  BY <1>4, QuietSteps DEF Drop
<1>5. CASE Tick
  BY <1>5, TickStep
<1>6. CASE UNCHANGED vars
  BY <1>6, QuietSteps DEF vars, views
<1>. QED  BY <1>1, <1>2, <1>3, <1>4, <1>5, <1>6 DEF Next

\* Details that are answered were up to date no longer ago than a cache entry
\* lives (get_game_details, and set with its ttl in cache.py), whatever the
\* routes, the failures and the life time.
THEOREM Freshness == Spec => []AnswersFresh
<1>1. FreshInv => AnswersFresh
  BY DEF FreshInv
<1>. QED  BY Initially, Stepwise, <1>1, PTL DEF Spec

(***************************************************************************)
(* The messages: every change a route announces appears in them, or is     *)
(* given up, for any number of changes at once, whatever fails.            *)
(*                                                                         *)
(* The invariant says what a change that has been committed takes along:   *)
(* its number, the messages it is to be shown in, and, once the roster has *)
(* been read, a version that is not older than the change.  A change that  *)
(* is due is carried by somebody, until the message shows it or it is      *)
(* lost; and nobody carries forever, since each step of a change brings it *)
(* nearer to its end.                                                      *)
(***************************************************************************)

Tellings == {Boards, {"chat"}}

CarryTypes ==
  {Idle}
    \cup [at : {"evict", "commit"}, route : Used]
    \cup [at : {"evict_after"}, made : Nat, route : Used]
    \cup [at : {"read"}, made : Nat, boards : Tellings]
    \cup {t \in [at : {"edit"}, made : Nat, boards : Tellings, seen : Nat] : t.made <= t.seen}

CarryInv ==
  /\ version \in Nat
  /\ txn \in [Procs -> CarryTypes]
  /\ \A p \in Procs : txn[p].at \in {"evict_after", "read", "edit"} => txn[p].made <= version
  /\ {shown, due, lost} \subseteq [Boards -> Nat]

\* What the label of a change says about its other fields.
LEMMA CarryFields ==
  ASSUME NEW t \in CarryTypes
  PROVE  /\ t.at \in {"idle", "evict", "commit", "evict_after", "read", "edit"}
         /\ t.at = "idle" <=> t = Idle
         /\ t.at \in {"evict", "commit", "evict_after"} => t.route \in Used
         /\ t.at \in {"evict_after", "read", "edit"} => t.made \in Nat
         /\ t.at \in {"read", "edit"} => t.boards \in Tellings
         /\ t.at = "edit" => t.seen \in Nat /\ t.made <= t.seen
<1>1. CASE t = Idle
  BY <1>1 DEF Idle
<1>2. CASE t \in [at : {"evict", "commit"}, route : Used]
  BY <1>2 DEF Idle
<1>3. CASE t \in [at : {"evict_after"}, made : Nat, route : Used]
  BY <1>3 DEF Idle
<1>4. CASE t \in [at : {"read"}, made : Nat, boards : Tellings]
  BY <1>4 DEF Idle
<1>5. CASE t \in [at : {"edit"}, made : Nat, boards : Tellings, seen : Nat] /\ t.made <= t.seen
  BY <1>5 DEF Idle
<1>. QED  BY <1>1, <1>2, <1>3, <1>4, <1>5 DEF CarryTypes

\* A route announces its change in all messages, in the chat's, or nowhere.
LEMMA RouteTells ==
  ASSUME NEW route \in Used
  PROVE  Routes[route].tells \in Tellings \cup {{}}
<1>1. route \in {"bot", "api", "tool", "status", "publish", "release", "late", "repair"}
  BY RoutesAssumption DEF Routes
<1>2. CASE route \in {"bot", "api", "tool", "status"}
  BY <1>2 DEF Routes, Tellings
<1>3. CASE route \in {"publish", "release", "late", "repair"}
  BY <1>3 DEF Routes, Tellings
<1>. QED  BY <1>1, <1>2, <1>3

\* The message that is edited next is among those left, and the only one
\* exactly if it is the chat's.
LEMMA NextMessage ==
  ASSUME NEW S \in Tellings
  PROVE  /\ S \subseteq Boards /\ S \subseteq {"chat", "channel"} /\ "chat" \in S
         /\ IsFiniteSet(S)
         /\ Cardinality(S) = 1 <=> S = {"chat"}
         /\ S \ {"channel"} = {"chat"}
<1>1. S = {"chat"} \/ S = {"chat", "channel"}
  BY ViewParameters DEF Tellings
<1>2. S \subseteq Boards /\ S \subseteq {"chat", "channel"} /\ "chat" \in S
  BY ViewParameters DEF Tellings
<1>3. IsFiniteSet({"chat"}) /\ Cardinality({"chat"}) = 1
  BY FS_Singleton
<1>4. IsFiniteSet({"chat", "channel"})
  <2>1. {"chat"} \cup {"channel"} = {"chat", "channel"}
    OBVIOUS
  <2>2. IsFiniteSet({"chat"} \cup {"channel"})
    BY <1>3, FS_AddElement
  <2>. QED  BY <2>1, <2>2
<1>5. Cardinality({"chat", "channel"}) # 1
  <2>1. \A x : {"chat", "channel"} # {x}
    OBVIOUS
  <2>. QED  BY <1>4, <2>1, FS_Singleton
<1>. QED  BY <1>1, <1>2, <1>3, <1>4, <1>5

LEMMA CarryInit == Init => CarryInv
<1>1. CarryTypes # {} /\ Idle \in CarryTypes
  BY DEF CarryTypes
<1>. QED  BY <1>1 DEF Init, CarryInv, Idle

\* Raising what is due or lost keeps its type, and lowers nothing.
LEMMA Raising ==
  ASSUME NEW f \in [Boards -> Nat], NEW S \in SUBSET Boards, NEW v \in Nat
  PROVE  /\ Raised(f, S, v) \in [Boards -> Nat]
         /\ \A b \in Boards : Raised(f, S, v)[b] >= f[b]
         /\ \A b \in S : Raised(f, S, v)[b] >= v
         /\ \A b \in Boards : Raised(f, S, v)[b] # f[b] => b \in S /\ Raised(f, S, v)[b] = v
  BY DEF Raised

\* One transaction moves, the others stay.
LEMMA CarryMove ==
  ASSUME CarryInv, NEW p \in Procs, NEW t \in CarryTypes, Become(p, t),
         t.at \in {"evict_after", "read", "edit"} => t.made <= version',
         version' \in Nat, version <= version',
         shown' \in [Boards -> Nat], due' \in [Boards -> Nat], lost' \in [Boards -> Nat]
  PROVE  CarryInv'
<1>1. txn' \in [Procs -> CarryTypes]
  BY DEF CarryInv, Become
<1>2. ASSUME NEW q \in Procs, txn'[q].at \in {"evict_after", "read", "edit"}
      PROVE  txn'[q].made <= version'
  <2>1. CASE q = p
    BY <1>2, <2>1 DEF Become, CarryInv
  <2>2. CASE q # p
    <3>1. txn'[q] = txn[q]
      BY <2>2 DEF Become, CarryInv
    <3>2. txn[q].made <= version /\ txn[q].made \in Nat /\ version \in Nat
      BY <1>2, <3>1, CarryFields DEF CarryInv
    <3>. QED  BY <3>1, <3>2
  <2>. QED  BY <2>1, <2>2
<1>. QED  BY <1>1, <1>2 DEF CarryInv

(***************************************************************************)
(* What a step of a change does: it goes on, never back, and what it takes *)
(* along it keeps until the message shows it or it is given up.            *)
(***************************************************************************)

\* p has yet to show its change, number v or a later one, in the message b.
Carries(p, b, v) ==
  /\ txn[p].at \in {"evict_after", "read", "edit"}
  /\ b \in (IF txn[p].at = "evict_after" THEN Tells(p) ELSE txn[p].boards)
  /\ v <= txn[p].made

\* What EachChangeTold waits for.
Reached(b, v) == shown[b] >= v \/ lost[b] >= v

\* How far a change has come, from its beginning to rest.
Rank(p) ==
  CASE txn[p].at = "evict"       -> 1
    [] txn[p].at = "commit"      -> 2
    [] txn[p].at = "evict_after" -> 3
    [] txn[p].at = "read"        -> 4
    [] txn[p].at = "edit"        -> IF "channel" \in txn[p].boards THEN 5 ELSE 6
    [] txn[p].at = "idle"        -> 7

\* A step of a change: nothing carried is dropped, what becomes due is
\* carried, and the change comes nearer to its end.
Advances(p) ==
  /\ CarryInv'
  /\ \A b \in Boards, v \in Nat :
       /\ Carries(p, b, v) => Carries(p, b, v)' \/ Reached(b, v)'
       /\ due'[b] >= v => due[b] >= v \/ Carries(p, b, v)'
  /\ Rank(p)' \in (Rank(p) + 1)..7

LEMMA CarryPresent ==
  ASSUME CarryInv, NEW p \in Procs
  PROVE  /\ txn[p] \in CarryTypes
         /\ version \in Nat
         /\ txn[p].at \in {"evict_after", "read", "edit"} => txn[p].made <= version
         /\ shown \in [Boards -> Nat] /\ due \in [Boards -> Nat] /\ lost \in [Boards -> Nat]
         /\ \A t : Become(p, t) => txn'[p] = t
  BY DEF CarryInv, Become

LEMMA EvictBeforeStep ==
  ASSUME CarryInv, NEW p \in Procs, EvictBefore(p)
  PROVE  Advances(p)
<1> DEFINE t == [txn[p] EXCEPT !.at = "commit"]
<1>1. Become(p, t) /\ txn[p].at = "evict"
      /\ version' = version /\ shown' = shown /\ due' = due /\ lost' = lost
  BY DEF EvictBefore
<1>2. txn[p] \in [at : {"evict", "commit"}, route : Used]
  BY <1>1, CarryPresent DEF CarryTypes, Idle
<1>3. t \in CarryTypes /\ t.at = "commit"
  BY <1>2 DEF CarryTypes
<1> HIDE DEF t
<1>4. CarryInv'
  BY <1>1, <1>3, CarryPresent, CarryMove
<1>5. txn'[p] = t
  BY <1>1, CarryPresent
<1>6. Rank(p) = 1 /\ Rank(p)' = 2
  BY <1>1, <1>3, <1>5 DEF Rank
<1>7. \A b \in Boards, v \in Nat : ~ Carries(p, b, v)
  BY <1>1 DEF Carries
<1>. QED  BY <1>1, <1>4, <1>6, <1>7 DEF Advances

\* The commit makes its number due, and carries it.
LEMMA CommitCarries ==
  ASSUME CarryInv, NEW p \in Procs, Commit(p)
  PROVE  Advances(p)
<1> DEFINE route == txn[p].route
           t == IF Routes[route].after
                  THEN [at |-> "evict_after", made |-> version', route |-> route]
                  ELSE IF Tells(p) = {} THEN Idle
                  ELSE [at |-> "read", made |-> version', boards |-> Tells(p)]
<1>1. /\ Become(p, t) /\ txn[p].at = "commit" /\ version' = version + 1
      /\ shown' = shown /\ due' = Raised(due, Tells(p), version') /\ lost' = lost
  BY DEF Commit, Told, views
<1>2. route \in Used
  BY <1>1, CarryPresent, CarryFields
<1>3. /\ version \in Nat /\ version' \in Nat /\ version <= version'
      /\ shown' \in [Boards -> Nat] /\ lost' \in [Boards -> Nat]
  BY <1>1, CarryPresent
<1>4. Tells(p) \in Tellings \cup {{}} /\ Tells(p) \subseteq Boards
  BY <1>2, RouteTells, NextMessage DEF Tells
<1>5. /\ due' \in [Boards -> Nat]
      /\ \A b \in Boards : due'[b] # due[b] => b \in Tells(p) /\ due'[b] = version'
  <2>1. due \in [Boards -> Nat] /\ Tells(p) \in SUBSET Boards
    BY <1>4, CarryPresent
  <2>2. /\ Raised(due, Tells(p), version') \in [Boards -> Nat]
        /\ \A b \in Boards : Raised(due, Tells(p), version')[b] # due[b] =>
             b \in Tells(p) /\ Raised(due, Tells(p), version')[b] = version'
    BY <1>3, <2>1, Raising
  <2>. QED  BY <1>1, <2>2
<1>6. /\ t \in CarryTypes
      /\ t.at \in {"evict_after", "read", "edit"} => t.made = version'
      /\ t.at \in {"evict_after", "read", "idle"}
      /\ t.at = "evict_after" => t.route = route
      /\ t.at = "read" => t.boards = Tells(p)
      /\ t.at = "idle" => Tells(p) = {}
  <2>1. CASE Routes[route].after
    BY <1>2, <1>3, <2>1 DEF CarryTypes, Idle
  <2>2. CASE ~ Routes[route].after /\ Tells(p) = {}
    BY <2>2 DEF CarryTypes, Idle
  <2>3. CASE ~ Routes[route].after /\ Tells(p) # {}
    BY <1>3, <1>4, <2>3 DEF CarryTypes, Idle
  <2>. QED  BY <2>1, <2>2, <2>3
<1> HIDE DEF t
<1>7. CarryInv'
  BY <1>1, <1>3, <1>5, <1>6, CarryMove
<1>8. txn'[p] = t
  BY <1>1, CarryPresent
<1>9. Rank(p) = 2 /\ Rank(p)' \in 3..7
  BY <1>1, <1>6, <1>8 DEF Rank
<1>10. ASSUME NEW b \in Boards, NEW v \in Nat, due'[b] >= v, ~ (due[b] >= v)
       PROVE  Carries(p, b, v)'
  <2>1. b \in Tells(p) /\ due'[b] = version'
    BY <1>5, <1>10
  <2>2. t.at \in {"evict_after", "read"} /\ t.made = version' /\ v <= version'
    BY <1>3, <1>6, <1>10, <2>1
  <2>3. t.at = "evict_after" => Tells(p)' = Tells(p)
    BY <1>6, <1>8 DEF Tells
  <2>. QED  BY <1>6, <1>8, <2>1, <2>2, <2>3 DEF Carries
<1>11. \A b \in Boards, v \in Nat : ~ Carries(p, b, v)
  BY <1>1 DEF Carries
<1>. QED  BY <1>7, <1>9, <1>10, <1>11 DEF Advances

LEMMA EvictAfterStep ==
  ASSUME CarryInv, NEW p \in Procs, EvictAfter(p)
  PROVE  Advances(p)
<1> DEFINE t == IF Tells(p) = {} THEN Idle
                ELSE [at |-> "read", made |-> txn[p].made, boards |-> Tells(p)]
<1>1. /\ Become(p, t) /\ txn[p].at = "evict_after" /\ version' = version
      /\ shown' = shown /\ due' = due /\ lost' = lost
  BY DEF EvictAfter
<1>2. txn[p].route \in Used /\ txn[p].made \in Nat /\ txn[p].made <= version
  BY <1>1, CarryPresent, CarryFields
<1>3. Tells(p) \in Tellings \cup {{}}
  BY <1>2, RouteTells DEF Tells
<1>4. /\ t \in CarryTypes
      /\ t.at \in {"read", "idle"}
      /\ t.at = "read" => t.made = txn[p].made /\ t.boards = Tells(p)
      /\ t.at = "idle" => Tells(p) = {}
  <2>1. CASE Tells(p) = {}
    BY <2>1 DEF CarryTypes, Idle
  <2>2. CASE Tells(p) # {}
    BY <1>2, <1>3, <2>2 DEF CarryTypes, Idle
  <2>. QED  BY <2>1, <2>2
<1> HIDE DEF t
<1>5. CarryInv'
  BY <1>1, <1>2, <1>4, CarryPresent, CarryMove
<1>6. txn'[p] = t
  BY <1>1, CarryPresent
<1>7. Rank(p) = 3 /\ Rank(p)' \in 4..7
  BY <1>1, <1>4, <1>6 DEF Rank
<1>8. \A b \in Boards, v \in Nat : Carries(p, b, v) => Carries(p, b, v)'
  BY <1>1, <1>4, <1>6 DEF Carries
<1>. QED  BY <1>1, <1>5, <1>7, <1>8 DEF Advances

\* What is read is not older than the change, which is committed.
LEMMA ReadRosterStep ==
  ASSUME CarryInv, NEW p \in Procs, ReadRoster(p)
  PROVE  Advances(p)
<1> DEFINE t == [at |-> "edit", made |-> txn[p].made, boards |-> txn[p].boards, seen |-> version]
<1>1. /\ Become(p, t) /\ txn[p].at = "read" /\ version' = version
      /\ shown' = shown /\ due' = due /\ lost' = lost
  BY DEF ReadRoster, views
<1>2. /\ txn[p].boards \in Tellings /\ txn[p].made \in Nat /\ txn[p].made <= version
      /\ version \in Nat
  BY <1>1, CarryPresent, CarryFields
<1>3. /\ t \in CarryTypes
      /\ t.at = "edit" /\ t.made = txn[p].made /\ t.boards = txn[p].boards
  BY <1>2 DEF CarryTypes
<1> HIDE DEF t
<1>4. CarryInv'
  BY <1>1, <1>2, <1>3, CarryPresent, CarryMove
<1>5. txn'[p] = t
  BY <1>1, CarryPresent
<1>6. Rank(p) = 4 /\ Rank(p)' \in 5..7
  BY <1>1, <1>3, <1>5 DEF Rank
<1>7. \A b \in Boards, v \in Nat : Carries(p, b, v) => Carries(p, b, v)'
  BY <1>1, <1>3, <1>5 DEF Carries
<1>. QED  BY <1>1, <1>4, <1>6, <1>7 DEF Advances

\* After the message that is edited next is done with, the others remain.
LEMMA EditedStep ==
  ASSUME CarryInv, NEW p \in Procs, txn[p].at = "edit", EditedNext(p),
         version' = version, due' = due,
         shown' \in [Boards -> Nat], lost' \in [Boards -> Nat],
         shown'[EditOf(p)] >= txn[p].made \/ lost'[EditOf(p)] >= txn[p].made
  PROVE  Advances(p)
<1> DEFINE S == txn[p].boards
           t == IF Cardinality(S) = 1 THEN Idle
                ELSE [txn[p] EXCEPT !.boards = @ \ {EditOf(p)}]
<1>1. Become(p, t)
  BY DEF EditedNext
<1>2. /\ txn[p] \in [at : {"edit"}, made : Nat, boards : Tellings, seen : Nat]
      /\ txn[p].made <= txn[p].seen /\ txn[p].made <= version /\ txn[p].made \in Nat
      /\ S \in Tellings
  BY CarryPresent DEF CarryTypes, Idle
<1>3. /\ S \subseteq Boards /\ S \subseteq {"chat", "channel"} /\ "chat" \in S
      /\ Cardinality(S) = 1 <=> S = {"chat"}
      /\ S \ {"channel"} = {"chat"}
  BY <1>2, NextMessage
<1>4. EditOf(p) = IF "channel" \in S THEN "channel" ELSE "chat"
  BY DEF EditOf
<1>5. CASE "channel" \in S
  <2>1. t = [txn[p] EXCEPT !.boards = S \ {"channel"}]
    BY <1>3, <1>4, <1>5
  <2>2. S \ {"channel"} = {"chat"} /\ {"chat"} \in Tellings
    BY <1>3 DEF Tellings
  <2>3. /\ t \in CarryTypes /\ t.at = "edit" /\ t.made = txn[p].made /\ t.boards = {"chat"}
    BY <1>2, <2>1, <2>2 DEF CarryTypes
  <2> HIDE DEF t
  <2>4. CarryInv'
    BY <1>1, <1>2, <2>3, CarryPresent, CarryMove
  <2>5. txn'[p] = t
    BY <1>1, CarryPresent
  <2>6. Rank(p) = 5 /\ Rank(p)' = 6
    BY <1>5, <2>3, <2>5 DEF Rank
  <2>7. ASSUME NEW b \in Boards, NEW v \in Nat, Carries(p, b, v)
        PROVE  Carries(p, b, v)' \/ Reached(b, v)'
    <3>1. b \in S /\ v <= txn[p].made
      BY <2>7 DEF Carries
    <3>2. CASE b = "channel"
      <4>1. EditOf(p) = b
        BY <1>4, <1>5, <3>2
      <4>2. shown'[b] >= txn[p].made \/ lost'[b] >= txn[p].made
        BY <4>1
      <4>3. shown'[b] \in Nat /\ lost'[b] \in Nat
        OBVIOUS
      <4>. QED  BY <1>2, <3>1, <4>2, <4>3 DEF Reached
    <3>3. CASE b = "chat"
      BY <2>3, <2>5, <3>1, <3>3 DEF Carries
    <3>. QED  BY <1>3, <3>1, <3>2, <3>3
  <2>. QED  BY <2>4, <2>6, <2>7 DEF Advances
<1>6. CASE "channel" \notin S
  <2>1. S = {"chat"} /\ t = Idle /\ EditOf(p) = "chat"
    BY <1>3, <1>4, <1>6
  <2>2. Idle \in CarryTypes /\ Idle.at = "idle"
    BY DEF CarryTypes, Idle
  <2>3. CarryInv'
    <3>1. Become(p, Idle)
      BY <1>1, <2>1
    <3> HIDE DEF t
    <3>. QED  BY <2>2, <3>1, CarryPresent, CarryMove
  <2>4. txn'[p] = Idle
    BY <1>1, <2>1, CarryPresent
  <2>5. Rank(p) = 6 /\ Rank(p)' = 7
    BY <1>6, <2>2, <2>4 DEF Rank
  <2>6. ASSUME NEW b \in Boards, NEW v \in Nat, Carries(p, b, v)
        PROVE  Reached(b, v)'
    <3>1. b = "chat" /\ v <= txn[p].made
      BY <2>1, <2>6 DEF Carries
    <3>2. shown'[b] >= txn[p].made \/ lost'[b] >= txn[p].made
      BY <2>1, <3>1
    <3>3. shown'[b] \in Nat /\ lost'[b] \in Nat
      OBVIOUS
    <3>. QED  BY <1>2, <3>1, <3>2, <3>3 DEF Reached
  <2>. QED  BY <2>3, <2>5, <2>6 DEF Advances
<1>. QED  BY <1>5, <1>6

LEMMA EditFacts ==
  ASSUME CarryInv, NEW p \in Procs, txn[p].at = "edit"
  PROVE  /\ EditOf(p) \in Boards
         /\ txn[p].made \in Nat /\ txn[p].seen \in Nat /\ txn[p].made <= txn[p].seen
<1>1. txn[p].boards \in Tellings
  BY CarryPresent, CarryFields
<1>. QED  BY <1>1, CarryPresent, CarryFields, NextMessage DEF EditOf

LEMMA EditStep ==
  ASSUME CarryInv, NEW p \in Procs, Edit(p)
  PROVE  Advances(p)
<1>1. /\ txn[p].at = "edit" /\ EditedNext(p)
      /\ version' = version /\ due' = due /\ lost' = lost
      /\ shown' = [shown EXCEPT ![EditOf(p)] = txn[p].seen]
  BY DEF Edit
<1>2. shown' \in [Boards -> Nat] /\ shown'[EditOf(p)] >= txn[p].made
  BY <1>1, EditFacts, CarryPresent
<1>. QED  BY <1>1, <1>2, CarryPresent, EditedStep

LEMMA GiveUpStep ==
  ASSUME CarryInv, NEW p \in Procs, GiveUp(p)
  PROVE  Advances(p)
<1>1. /\ txn[p].at = "edit" /\ EditedNext(p)
      /\ version' = version /\ due' = due /\ shown' = shown
      /\ lost' = Raised(lost, {EditOf(p)}, txn[p].made)
  BY DEF GiveUp, views
<1>2. {EditOf(p)} \in SUBSET Boards /\ txn[p].made \in Nat
  BY <1>1, EditFacts
<1>3. lost' \in [Boards -> Nat] /\ lost'[EditOf(p)] >= txn[p].made
  <2> DEFINE made == txn[p].made
             m == EditOf(p)
  <2>1. lost \in [Boards -> Nat] /\ {m} \in SUBSET Boards /\ made \in Nat
    BY <1>2, CarryPresent
  <2> HIDE DEF made, m
  <2>2. Raised(lost, {m}, made) \in [Boards -> Nat] /\ Raised(lost, {m}, made)[m] >= made
    BY <2>1, Raising
  <2>. QED  BY <1>1, <2>2 DEF made, m
<1>. QED  BY <1>1, <1>3, CarryPresent, EditedStep

\* What a change still carries when it dies is lost.
LEMMA DieStep ==
  ASSUME CarryInv, NEW p \in Procs, Die(p)
  PROVE  Advances(p)
<1> DEFINE Left == IF txn[p].at = "evict_after" THEN Tells(p) ELSE txn[p].boards
           made == txn[p].made
<1>1. /\ txn[p] # Idle /\ Become(p, Idle) /\ version' = version /\ shown' = shown /\ due' = due
      /\ lost' = IF txn[p].at \in {"evict_after", "read", "edit"}
                   THEN Raised(lost, Left, made) ELSE lost
  BY DEF Die, views
<1>2. ASSUME txn[p].at \in {"evict_after", "read", "edit"}
      PROVE  Left \in SUBSET Boards /\ made \in Nat
  <2>1. txn[p].at = "evict_after" => Tells(p) \in Tellings \cup {{}}
    BY CarryPresent, CarryFields, RouteTells DEF Tells
  <2>2. txn[p].at # "evict_after" => txn[p].boards \in Tellings
    BY <1>2, CarryPresent, CarryFields
  <2>. QED  BY <1>2, <2>1, <2>2, CarryPresent, CarryFields, NextMessage
<1>3. /\ lost' \in [Boards -> Nat]
      /\ txn[p].at \in {"evict_after", "read", "edit"} => \A b \in Left : lost'[b] >= made
  <2>1. CASE txn[p].at \in {"evict_after", "read", "edit"}
    <3>1. /\ Raised(lost, Left, made) \in [Boards -> Nat]
          /\ \A b \in Left : Raised(lost, Left, made)[b] >= made
      <4> HIDE DEF Left, made
      <4>. QED  BY <1>2, <2>1, CarryPresent, Raising
    <3>. QED  BY <1>1, <2>1, <3>1
  <2>2. CASE txn[p].at \notin {"evict_after", "read", "edit"}
    BY <1>1, <2>2, CarryPresent
  <2>. QED  BY <2>1, <2>2
<1>4. Idle \in CarryTypes /\ Idle.at = "idle"
  BY DEF CarryTypes, Idle
<1>5. CarryInv'
  BY <1>1, <1>3, <1>4, CarryPresent, CarryMove
<1>6. txn'[p] = Idle
  BY <1>1, CarryPresent
<1>7. Rank(p)' = 7 /\ Rank(p) \in 1..6
  <2>1. Rank(p)' = 7
    BY <1>4, <1>6 DEF Rank
  <2>2. txn[p].at \in {"evict", "commit", "evict_after", "read", "edit"}
    BY <1>1, CarryPresent, CarryFields
  <2>3. Rank(p) \in 1..6
    BY <2>2 DEF Rank
  <2>. QED  BY <2>1, <2>3
<1>8. ASSUME NEW b \in Boards, NEW v \in Nat, Carries(p, b, v)
      PROVE  Reached(b, v)'
  <2>1. txn[p].at \in {"evict_after", "read", "edit"} /\ b \in Left /\ v <= made
    BY <1>8 DEF Carries
  <2>2. lost'[b] >= made /\ lost'[b] \in Nat /\ made \in Nat
    BY <1>2, <1>3, <2>1
  <2>3. lost'[b] >= v
    <3> HIDE DEF made
    <3>. QED  BY <2>1, <2>2
  <2>. QED  BY <2>3 DEF Reached
<1>. QED  BY <1>1, <1>5, <1>7, <1>8 DEF Advances

LEMMA WorkAdvances ==
  ASSUME CarryInv, NEW p \in Procs, Work(p)
  PROVE  Advances(p)
  BY EvictBeforeStep, CommitCarries, EvictAfterStep, ReadRosterStep, EditStep, GiveUpStep, DieStep
     DEF Work

\* What is not a step of a change in hand leaves it, and announces nothing.
LEMMA OthersStay ==
  ASSUME CarryInv, [Next]_vars, ~ \E q \in Procs : Work(q)
  PROVE  /\ CarryInv'
         /\ due' = due
         /\ \A p \in Procs : txn[p] # Idle => txn'[p] = txn[p]
<1>1. ASSUME NEW p \in Procs, NEW route \in Used, Begin(p, route)
      PROVE  /\ CarryInv' /\ due' = due
             /\ \A q \in Procs : txn[q] # Idle => txn'[q] = txn[q]
  <2> DEFINE t == [at |-> IF Routes[route].before THEN "evict" ELSE "commit", route |-> route]
  <2>1. /\ txn[p] = Idle /\ Become(p, t)
        /\ version' = version /\ shown' = shown /\ due' = due /\ lost' = lost
    BY <1>1 DEF Begin, views
  <2>2. t \in CarryTypes /\ t.at \in {"evict", "commit"}
    BY DEF CarryTypes
  <2> HIDE DEF t
  <2>3. CarryInv'
    BY <2>1, <2>2, CarryPresent, CarryMove
  <2>. QED  BY <2>1, <2>3 DEF Become, CarryInv
<1>2. ASSUME \/ \E r \in Readers : Read(r)
             \/ Drop \/ Tick \/ UNCHANGED vars
      PROVE  txn' = txn /\ due' = due /\ version' = version /\ shown' = shown /\ lost' = lost
  BY <1>2 DEF Read, Lookup, Load, Store, Answer, Drop, Tick, vars, views
<1>3. CASE \/ \E r \in Readers : Read(r)
           \/ Drop \/ Tick \/ UNCHANGED vars
  BY <1>2, <1>3 DEF CarryInv
<1>. QED  BY <1>1, <1>3 DEF Next

\* A change in hand is moved by its own steps only.
LEMMA WorkIsOwn ==
  ASSUME CarryInv, NEW q \in Procs, Work(q)
  PROVE  \A p \in Procs : p # q => txn'[p] = txn[p]
<1>1. \E t : Become(q, t)
  BY DEF Work, EvictBefore, Commit, EvictAfter, ReadRoster, Edit, GiveUp, Die, EditedNext
<1>. QED  BY <1>1 DEF Become, CarryInv

LEMMA RankType ==
  ASSUME CarryInv, NEW p \in Procs
  PROVE  Rank(p) \in 1..7 /\ (Rank(p) = 7 => txn[p] = Idle)
<1>1. /\ txn[p].at \in {"idle", "evict", "commit", "evict_after", "read", "edit"}
      /\ txn[p].at = "idle" <=> txn[p] = Idle
  BY CarryPresent, CarryFields
<1>2. CASE txn[p].at = "edit"
  BY <1>2 DEF Rank
<1>3. CASE txn[p].at # "edit"
  BY <1>1, <1>3 DEF Rank
<1>. QED  BY <1>2, <1>3

LEMMA CarryStep == CarryInv /\ [Next]_vars => CarryInv'
  BY OthersStay, WorkAdvances DEF Advances

LEMMA CarryInvariant == Spec => []CarryInv
  BY CarryInit, CarryStep, PTL DEF Spec

(***************************************************************************)
(* Fairness speaks of steps that can be taken (ENABLED), of which the      *)
(* provers know nothing: Able says that a change that is not at rest can   *)
(* take its next step, or die.                                             *)
(***************************************************************************)

AtRest(p)  == txn[p] = Idle
Past(p, k) == Rank(p) >= k
Able(p)    == [](~ AtRest(p) => ENABLED <<Work(p)>>_vars)

\* A change that does not come to rest climbs from rank to rank.
Climbs(p, k, j) ==
  Spec /\ Proceeds(p) /\ Able(p) =>
    (<>[](~ AtRest(p)) /\ <>[]Past(p, k) => <>[]Past(p, j))

LEMMA Climb ==
  ASSUME NEW p \in Procs, NEW k \in 1..6, NEW j \in 2..7, j = k + 1
  PROVE  Climbs(p, k, j)
<1>1. CarryInv /\ [Next]_vars /\ ~ AtRest(p) /\ ~ AtRest(p)' /\ Past(p, j) => Past(p, j)'
  <2> SUFFICES ASSUME CarryInv, [Next]_vars, ~ AtRest(p), ~ AtRest(p)', Past(p, j)
               PROVE  Past(p, j)'
    OBVIOUS
  <2>1. CASE Work(p)
    <3>1. Rank(p)' \in (Rank(p) + 1)..7
      BY <2>1, WorkAdvances DEF Advances
    <3>2. Rank(p) \in 1..7
      BY RankType
    <3>. QED  BY <3>1, <3>2 DEF Past
  <2>2. CASE ~ Work(p)
    <3>1. txn'[p] = txn[p]
      BY <2>2, OthersStay, WorkIsOwn DEF AtRest
    <3>. QED  BY <3>1 DEF Past, Rank
  <2>. QED  BY <2>1, <2>2
<1>2. CarryInv /\ [Next]_vars /\ <<Work(p)>>_vars /\ Past(p, k) => Past(p, j)'
  <2> SUFFICES ASSUME CarryInv, [Next]_vars, Work(p), Past(p, k)
               PROVE  Past(p, j)'
    OBVIOUS
  <2>1. Rank(p)' \in (Rank(p) + 1)..7
    BY WorkAdvances DEF Advances
  <2>2. Rank(p) \in 1..7
    BY RankType
  <2>. QED  BY <2>1, <2>2 DEF Past
<1>. QED
  BY <1>1, <1>2, CarryInvariant, PTL DEF Climbs, Proceeds, Able, Spec

\* Every change comes to rest again and again.
LEMMA ComesToRest ==
  ASSUME NEW p \in Procs
  PROVE  Spec /\ Proceeds(p) /\ Able(p) => []<>AtRest(p)
<1>1. CarryInv => Past(p, 1)
  BY RankType DEF Past
<1>2. CarryInv /\ Past(p, 7) => AtRest(p)
  BY RankType DEF Past, AtRest
<1>3. Climbs(p, 1, 2) /\ Climbs(p, 2, 3) /\ Climbs(p, 3, 4)
  BY Climb
<1>4. Climbs(p, 4, 5) /\ Climbs(p, 5, 6) /\ Climbs(p, 6, 7)
  BY Climb
<1>. QED  BY <1>1, <1>2, <1>3, <1>4, CarryInvariant, PTL DEF Climbs

Spared(p, b, v) == []~ Carries(p, b, v)

\* What a change carries, it carries until it is reached, but not forever.
LEMMA Delivers ==
  ASSUME NEW p \in Procs, NEW b \in Boards, NEW v \in Nat
  PROVE  Spec /\ []<>AtRest(p) /\ []~ Reached(b, v) => Spared(p, b, v)
<1>1. CarryInv /\ [Next]_vars /\ Carries(p, b, v) => Carries(p, b, v)' \/ Reached(b, v)'
  <2> SUFFICES ASSUME CarryInv, [Next]_vars, Carries(p, b, v)
               PROVE  Carries(p, b, v)' \/ Reached(b, v)'
    OBVIOUS
  <2>1. CASE Work(p)
    BY <2>1, WorkAdvances DEF Advances
  <2>2. CASE ~ Work(p)
    <3>1. txn[p] # Idle
      BY DEF Carries, Idle
    <3>2. txn'[p] = txn[p]
      BY <2>2, <3>1, OthersStay, WorkIsOwn
    <3>. QED  BY <3>2 DEF Carries, Tells
  <2>. QED  BY <2>1, <2>2
<1>2. AtRest(p) => ~ Carries(p, b, v)
  BY DEF AtRest, Carries, Idle
<1>. QED  BY <1>1, <1>2, CarryInvariant, PTL DEF Spared, Spec

\* Somebody carries v to b.
Carried(b, v) == \E p \in Procs : Carries(p, b, v)

LEMMA NobodyCarries ==
  ASSUME NEW b \in Boards, NEW v \in Nat
  PROVE  (\A p \in Procs : Spared(p, b, v)) => []~ Carried(b, v)
<1>1. (\A p \in Procs : []~ Carries(p, b, v)) => [](\A p \in Procs : ~ Carries(p, b, v))
  OBVIOUS
<1>2. (\A p \in Procs : ~ Carries(p, b, v)) => ~ Carried(b, v)
  BY DEF Carried
<1>3. (\A p \in Procs : Spared(p, b, v)) => (\A p \in Procs : []~ Carries(p, b, v))
  BY DEF Spared
<1>. QED  BY <1>1, <1>2, <1>3, PTL

Carefree(p, b, v) == Spec /\ Proceeds(p) /\ Able(p) /\ []~ Reached(b, v) => Spared(p, b, v)

LEMMA EachDelivers ==
  ASSUME NEW p \in Procs, NEW b \in Boards, NEW v \in Nat
  PROVE  Carefree(p, b, v)
  BY ComesToRest, Delivers, PTL DEF Carefree

AllAble == \A p \in Procs : Able(p)

LEMMA NoneCarried ==
  ASSUME NEW b \in Boards, NEW v \in Nat
  PROVE  FairSpec /\ AllAble /\ []~ Reached(b, v) => []~ Carried(b, v)
<1>1. \A p \in Procs : Carefree(p, b, v)
  BY EachDelivers
<1>2. FairSpec /\ AllAble => Spec /\ (\A p \in Procs : Proceeds(p)) /\ (\A p \in Procs : Able(p))
  BY DEF FairSpec, Fairness, AllAble
<1>3. FairSpec /\ AllAble /\ []~ Reached(b, v) => \A p \in Procs : Spared(p, b, v)
  BY <1>1, <1>2 DEF Carefree
<1>. QED  BY <1>3, NobodyCarries

Due(b, v) == due[b] >= v

\* What becomes due is carried by then, unless it has been reached before.
LEMMA DueIsReached ==
  ASSUME NEW b \in Boards, NEW v \in Nat
  PROVE  FairSpec /\ AllAble => (<>Due(b, v) => <>Reached(b, v))
<1>1. Init => (Due(b, v) => Reached(b, v))
  BY DEF Init, Due, Reached
<1>2. CarryInv /\ [Next]_vars => (Due(b, v)' => Due(b, v) \/ Carried(b, v)')
  <2> SUFFICES ASSUME CarryInv, [Next]_vars, Due(b, v)'
               PROVE  Due(b, v) \/ Carried(b, v)'
    OBVIOUS
  <2>1. ASSUME NEW p \in Procs, Work(p) PROVE Due(b, v) \/ Carries(p, b, v)'
    BY <2>1, WorkAdvances DEF Advances, Due
  <2>2. CASE ~ \E p \in Procs : Work(p)
    BY <2>2, OthersStay DEF Due
  <2>. QED  BY <2>1, <2>2 DEF Carried
<1>. QED
  BY <1>1, <1>2, CarryInvariant, NoneCarried, PTL DEF FairSpec, Spec

Appears(b, v) == <>Due(b, v) => <>Reached(b, v)

\* EachChangeTold: every change that is announced appears in every message
\* it is announced to, at least for a moment, or its edit was given up or
\* died (the listeners of the event bus, dashboard.py and utils.py:376), for
\* any number of changes and routes, if what has begun can go on and does.
THEOREM EachTold ==
  FairSpec /\ AllAble => EachChangeTold
<1>1. \A b \in Boards : \A v \in Versions : FairSpec /\ AllAble => Appears(b, v)
  BY DueIsReached DEF Versions, Appears
<1>2. (\A b \in Boards : \A v \in Versions : Appears(b, v)) => EachChangeTold
  BY DEF EachChangeTold, Appears, Due, Reached
<1>. QED  BY <1>1, <1>2

(***************************************************************************)
(* The announcements, for any number of hands and messages: the row of     *)
(* a game names messages of the bot, each in its own chat, as long as no   *)
(* two hands post at once without the lock.                                *)
(*                                                                         *)
(* The invariant is about what the hands are going to write.  A publisher  *)
(* that has flushed its post in the channel holds the row, so that the     *)
(* handler of its forward waits; anybody else but such handlers is alone,  *)
(* and the chat it loaded is still that of the game.  A handler writes the *)
(* message together with its chat, and since messages are numbered as they *)
(* come, the number it writes differs from the one it loaded.              *)
(***************************************************************************)

Columns == {"chat", "message", "channel", "cmsg"}
Places  == {"group", "channel"}
Rows    == [chat : Places, message : Nat, channel : {"none", "channel"}, cmsg : Nat]

\* Whether a row names messages that are there.
Names(r) ==
  /\ r.message # 0 => Message(r.chat, r.message) \in posted
  /\ r.cmsg # 0 => r.channel = "channel" /\ Message("channel", r.cmsg) \in posted

\* Messages are numbered as they come, and people discuss those of a channel.
Numbered ==
  /\ IsFiniteSet(posted)
  /\ \A m \in posted : m.id \in 1..Cardinality(posted)
  /\ \A id \in forwards : Message("channel", id) \in posted

\* What somebody at work has set: a channel it keeps or brings along, a
\* message in it, and at last a new message where it was sent.
Wanting(t) ==
  /\ DOMAIN t.wants \subseteq Columns
  /\ t.at # "write" => DOMAIN t.wants \subseteq {"channel", "cmsg"}
  /\ "channel" \in DOMAIN t.wants => t.wants.channel = "channel"
  /\ "cmsg" \in DOMAIN t.wants => /\ Message("channel", t.wants.cmsg) \in posted
                                  /\ "channel" \in DOMAIN t.wants \/ t.read.channel = "channel"
  /\ t.at = "write" => /\ "message" \in DOMAIN t.wants
                       /\ t.wants.message \notin {0, t.read.message}
                       /\ Message(Target(t), t.wants.message) \in posted
  /\ "chat" \in DOMAIN t.wants => t.wants.chat = "group"
  /\ "chat" \in DOMAIN t.wants <=> t.at = "write" /\ t.duty = "forward"

\* Somebody at work loaded a row, and games never leave a group or lose their
\* channel.
AtWork(h, t) ==
  /\ DOMAIN t = {"duty", "at", "read", "wants"}
  /\ t.duty \in {"created", "publish", "teams", "forward"}
  /\ t.at \in {"channel", "flush", "post", "write"}
  /\ t.read \in Rows /\ Names(t.read)
  /\ t.read.chat = "group" => row.chat = "group"
  /\ t.read.channel = "channel" => row.channel = "channel"
  /\ t.at = "channel" => t.read.channel = "channel" /\ DOMAIN t.wants = {}
  /\ Wanting(t)
  /\ t.duty # "forward" => t.read.chat = row.chat
  /\ t.duty = "publish" /\ "cmsg" \in DOMAIN t.wants => t.wants.cmsg # t.read.cmsg
  /\ Flushed(t) => holder = h

\* Who is not a handler of forwards is alone, but for a publisher that has
\* flushed its post in the channel.
Apart ==
  \A p, q \in Hands :
    p # q /\ hand[p].duty \notin {"none", "forward"} /\ hand[q].duty # "none"
      => Flushed(hand[p]) /\ hand[q].duty = "forward"

\* The inductive invariant.
NamesInv ==
  /\ row \in Rows /\ Names(row)
  /\ Numbered
  /\ DOMAIN hand = Hands
  /\ \A h \in Hands : hand[h] = Resting \/ AtWork(h, hand[h])
  /\ Apart

LEMMA NamesInit == AnnounceInit => NamesInv
<1> SUFFICES ASSUME AnnounceInit PROVE NamesInv
  OBVIOUS
<1>1. row \in Rows /\ Names(row)
  BY DEF AnnounceInit, Rows, Places, Names
<1>2. Numbered
  BY FS_EmptySet DEF AnnounceInit, Numbered
<1>3. DOMAIN hand = Hands /\ \A h \in Hands : hand[h] = Resting
  BY DEF AnnounceInit
<1>4. Apart
  BY <1>3 DEF Apart, Resting
<1> QED BY <1>1, <1>2, <1>3, <1>4 DEF NamesInv

\* What h does to itself only.
LEMMA Moves ==
  ASSUME NamesInv, NEW h \in Hands, NEW t,
         hand' = [hand EXCEPT ![h] = t]
  PROVE  DOMAIN hand' = Hands /\ \A k \in Hands : hand'[k] = IF k = h THEN t ELSE hand[k]
  BY DEF NamesInv

\* A new message gets a number no row has.
LEMMA Fresh ==
  ASSUME NamesInv, NEW place \in Places, posted' = posted \cup {Message(place, NewPost)},
         forwards' \subseteq forwards \cup {NewPost}, NewPost \in forwards' => place = "channel"
  PROVE  /\ Numbered' /\ NewPost \in Nat \ {0}
         /\ \A r \in Rows : Names(r) => NewPost \notin {r.message, r.cmsg} /\ Names(r)'
         /\ Message(place, NewPost) \in posted'
<1>1. IsFiniteSet(posted) /\ Cardinality(posted) \in Nat
  BY FS_CardinalityType DEF NamesInv, Numbered
<1>2. \A m \in posted : m.id \in 1..Cardinality(posted)
  BY DEF NamesInv, Numbered
<1>3. Message(place, NewPost).id = NewPost /\ NewPost = Cardinality(posted) + 1
  BY DEF Message, NewPost
<1>4. Message(place, NewPost) \notin posted
  BY <1>1, <1>2, <1>3
<1>5. IsFiniteSet(posted') /\ Cardinality(posted') = Cardinality(posted) + 1
  BY <1>1, <1>4, FS_AddElement
<1>6. \A m \in posted' : m.id \in 1..Cardinality(posted')
  BY <1>1, <1>2, <1>3, <1>5
<1>7. \A id \in forwards' : Message("channel", id) \in posted'
  BY DEF NamesInv, Numbered
<1>8. Numbered'
  BY <1>5, <1>6, <1>7 DEF Numbered
<1>9. \A r \in Rows : Names(r) => NewPost \notin {r.message, r.cmsg} /\ Names(r)'
  <2> SUFFICES ASSUME NEW r \in Rows, Names(r) PROVE NewPost \notin {r.message, r.cmsg} /\ Names(r)'
    OBVIOUS
  <2>1. Names(r)'
    BY DEF Names
  <2>2. r.message # 0 => r.message \in 1..Cardinality(posted)
    BY <1>2 DEF Names, Message
  <2>3. r.cmsg # 0 => r.cmsg \in 1..Cardinality(posted)
    BY <1>2 DEF Names, Message
  <2> QED BY <1>1, <1>3, <2>1, <2>2, <2>3
<1> QED BY <1>1, <1>3, <1>8, <1>9

\* A step that keeps the row, and all messages, keeps what others hold.
LEMMA OthersKeep ==
  ASSUME NamesInv, NEW h \in Hands, NEW t, hand' = [hand EXCEPT ![h] = t],
         posted \subseteq posted', row' = row,
         \A k \in Hands \ {h} : holder = k => holder' = k,
         Numbered',
         t = Resting \/ AtWork(h, t)',
         \A k \in Hands \ {h} :
           /\ t.duty \notin {"none", "forward"} /\ hand[k].duty # "none"
                => Flushed(t) /\ hand[k].duty = "forward"
           /\ hand[k].duty \notin {"none", "forward"} /\ t.duty # "none"
                => Flushed(hand[k]) /\ t.duty = "forward"
  PROVE  NamesInv'
<1>1. DOMAIN hand' = Hands /\ \A k \in Hands : hand'[k] = IF k = h THEN t ELSE hand[k]
  BY Moves
<1>2. (row \in Rows /\ Names(row))'
  BY DEF NamesInv, Names
<1>3. ASSUME NEW k \in Hands \ {h}, AtWork(k, hand[k]) PROVE AtWork(k, hand[k])'
  <2>1. hand'[k] = hand[k]
    BY <1>1
  <2>2. Names(hand[k].read)'
    BY <1>3, <2>1 DEF AtWork, Names
  <2>3. Wanting(hand[k])'
    BY <1>3, <2>1 DEF AtWork, Wanting, Target
  <2>4. (Flushed(hand[k]) => holder = k)'
    BY <1>3, <2>1 DEF AtWork, Flushed
  <2> QED BY <1>3, <2>1, <2>2, <2>3, <2>4 DEF AtWork
<1>4. \A k \in Hands : hand'[k] = Resting \/ AtWork(k, hand[k])'
  BY <1>1, <1>3 DEF NamesInv
<1>5. Apart'
  BY <1>1 DEF NamesInv, Apart, Flushed
<1> QED BY <1>1, <1>2, <1>4, <1>5 DEF NamesInv

(***************************************************************************)
(* Steps that keep the row.                                                *)
(***************************************************************************)
LEMMA UndertakeStep ==
  ASSUME NamesInv, NEW h \in Hands, NEW duty \in {"created", "publish", "teams", "forward"},
         NEW at \in {"channel", "flush"}, NEW wants,
         Undertake(h, duty, at, wants), forwards' \subseteq forwards,
         DOMAIN wants \subseteq {"channel", "cmsg"},
         "channel" \in DOMAIN wants => wants.channel = "channel",
         "cmsg" \in DOMAIN wants => /\ duty = "forward" /\ "channel" \in DOMAIN wants
                                    /\ Message("channel", wants.cmsg) \in posted,
         at = "channel" => row.channel = "channel" /\ DOMAIN wants = {},
         \A k \in Hands : hand[k].duty # "none" =>
           duty = "forward" /\ (hand[k].duty = "forward" \/ Flushed(hand[k]))
  PROVE  NamesInv'
<1> SUFFICES ASSUME NEW t, t = [duty |-> duty, at |-> at, read |-> row, wants |-> wants]
             PROVE  NamesInv'
  OBVIOUS
<1>1. hand' = [hand EXCEPT ![h] = t] /\ UNCHANGED <<row, posted, gone, holder>>
  BY DEF Undertake
<1>2. DOMAIN t = {"duty", "at", "read", "wants"} /\ t.duty = duty /\ t.at = at /\ t.read = row /\ t.wants = wants
  OBVIOUS
<1>3. AtWork(h, t)'
  <2>1. Names(row)' /\ row \in Rows
    BY <1>1 DEF NamesInv, Names
  <2>2. Wanting(t)'
    BY <1>1, <1>2 DEF Wanting, Columns
  <2> QED BY <1>1, <1>2, <2>1, <2>2 DEF AtWork, Flushed
<1>4. Numbered'
  BY <1>1 DEF NamesInv, Numbered
<1> QED BY <1>1, <1>2, <1>3, <1>4, OthersKeep

LEMMA BeginSteps ==
  ASSUME NamesInv, ~Overlap, NEW h \in Hands,
         \/ \E known \in BOOLEAN : CreatedBegin(h, known)
         \/ PublishBegin(h)
         \/ TeamsBegin(h)
         \/ \E id \in forwards : ForwardBegin(h, id)
  PROVE  NamesInv'
<1>1. Alone => \A k \in Hands : hand[k].duty = "none"
  BY DEF Alone, Resting
<1>2. DOMAIN Unset = {}
  BY DEF Unset
<1>3. ASSUME NEW known \in BOOLEAN, CreatedBegin(h, known) PROVE NamesInv'
  <2> DEFINE wants == IF known /\ row.chat = "channel" THEN [channel |-> "channel"] ELSE Unset
  <2>1. /\ Undertake(h, "created", "flush", wants)
        /\ forwards' = forwards /\ Alone
    BY <1>3 DEF CreatedBegin
  <2>2. DOMAIN wants \subseteq {"channel"} /\ ("channel" \in DOMAIN wants => wants.channel = "channel")
    BY <1>2
  <2> HIDE DEF wants
  <2> QED BY <1>1, <2>1, <2>2, UndertakeStep
<1>4. CASE PublishBegin(h)
  <2> DEFINE at == IF row.channel = "none" THEN "flush" ELSE "channel"
  <2>1. Undertake(h, "publish", at, Unset) /\ forwards' = forwards /\ Alone
    BY <1>4 DEF PublishBegin
  <2>2. at = "channel" => row.channel = "channel"
    BY DEF NamesInv, Rows
  <2>3. at \in {"channel", "flush"}
    OBVIOUS
  <2> HIDE DEF at
  <2> QED BY <1>1, <1>2, <2>1, <2>2, <2>3, UndertakeStep
<1>5. CASE TeamsBegin(h)
  <2>1. Undertake(h, "teams", "flush", Unset) /\ forwards' = forwards /\ Alone
    BY <1>5 DEF TeamsBegin
  <2> QED BY <1>1, <1>2, <2>1, UndertakeStep
<1>6. ASSUME NEW id \in forwards, ForwardBegin(h, id) PROVE NamesInv'
  <2> DEFINE wants == [channel |-> "channel", cmsg |-> id]
  <2>1. /\ forwards' = forwards \ {id}
        /\ \A k \in Hands : hand[k].duty \in {"none", "forward"} \/ Flushed(hand[k])
    BY <1>6 DEF ForwardBegin
  <2>2. CASE UNCHANGED <<row, posted, gone, holder, hand>>
    <3>1. Numbered'
      BY <2>1, <2>2 DEF NamesInv, Numbered
    <3> QED BY <2>2, <3>1 DEF NamesInv, Names, AtWork, Wanting, Target, Flushed, Apart
  <2>3. CASE Undertake(h, "forward", "flush", wants)
    <3>1. /\ DOMAIN wants = {"channel", "cmsg"} /\ wants.channel = "channel"
          /\ Message("channel", wants.cmsg) \in posted
      BY DEF NamesInv, Numbered
    <3> HIDE DEF wants
    <3> QED BY <2>1, <2>3, <3>1, UndertakeStep
  <2> QED BY <1>6, <2>2, <2>3 DEF ForwardBegin
<1> QED BY <1>3, <1>4, <1>5, <1>6

\* Somebody at work goes on, and has flushed what was flushed before.
LEMMA GoesOn ==
  ASSUME NamesInv, NEW h \in Hands, NEW t, hand' = [hand EXCEPT ![h] = t],
         posted \subseteq posted', row' = row,
         \A k \in Hands \ {h} : holder = k => holder' = k,
         Numbered', AtWork(h, t)',
         hand[h] # Resting, t.duty = hand[h].duty, Flushed(hand[h]) => Flushed(t)
  PROVE  NamesInv'
<1>1. ASSUME NEW k \in Hands \ {h}
      PROVE  /\ t.duty \notin {"none", "forward"} /\ hand[k].duty # "none"
                  => Flushed(t) /\ hand[k].duty = "forward"
             /\ hand[k].duty \notin {"none", "forward"} /\ t.duty # "none"
                  => Flushed(hand[k]) /\ t.duty = "forward"
  <2>1. /\ hand[h].duty \notin {"none", "forward"} /\ hand[k].duty # "none"
             => Flushed(hand[h]) /\ hand[k].duty = "forward"
        /\ hand[k].duty \notin {"none", "forward"} /\ hand[h].duty # "none"
             => Flushed(hand[k]) /\ hand[h].duty = "forward"
    BY DEF NamesInv, Apart
  <2>. QED  BY <2>1
<1>. QED  BY <1>1, OthersKeep

LEMMA PostChannelStep ==
  ASSUME NamesInv, NEW h \in Hands, NEW arrives \in BOOLEAN, PostChannel(h, arrives)
  PROVE  NamesInv'
<1> SUFFICES ASSUME NEW s, NEW t, s = hand[h],
                    t = IF arrives THEN [s EXCEPT !.at = "flush", !.wants = [cmsg |-> NewPost]]
                        ELSE [s EXCEPT !.at = "flush"]
             PROVE  NamesInv'
  OBVIOUS
<1>1. s # Resting /\ AtWork(h, s) /\ s.at = "channel"
  BY DEF PostChannel, NamesInv, Resting
<1>2. /\ DOMAIN t = {"duty", "at", "read", "wants"} /\ t.duty = s.duty /\ t.at = "flush" /\ t.read = s.read
      /\ IF arrives THEN DOMAIN t.wants = {"cmsg"} /\ t.wants.cmsg = NewPost
                    ELSE t.wants = s.wants
  BY <1>1 DEF AtWork
<1>3. hand' = [hand EXCEPT ![h] = t] /\ row' = row /\ holder' = holder
  BY DEF PostChannel
<1>4. CASE arrives
  <2>1. posted' = posted \cup {Message("channel", NewPost)} /\ forwards' = forwards \cup {NewPost}
    BY <1>4 DEF PostChannel
  <2>2. /\ Numbered' /\ Message("channel", NewPost) \in posted'
        /\ NewPost # s.read.cmsg /\ Names(s.read)'
    BY <1>1, <2>1, Fresh DEF AtWork, Places
  <2>3. Wanting(t)'
    BY <1>1, <1>2, <1>4, <2>2 DEF Wanting, AtWork, Columns
  <2>4. AtWork(h, t)'
    BY <1>1, <1>2, <1>3, <1>4, <2>2, <2>3 DEF AtWork, Flushed
  <2> QED BY <1>1, <1>2, <1>3, <2>1, <2>2, <2>4, GoesOn DEF Flushed
<1>5. CASE ~arrives
  <2>1. posted' = posted /\ forwards' = forwards
    BY <1>5 DEF PostChannel
  <2>2. Numbered'
    BY <2>1 DEF NamesInv, Numbered
  <2>3. AtWork(h, t)'
    BY <1>1, <1>2, <1>3, <1>5, <2>1 DEF AtWork, Flushed, Wanting, Names
  <2> QED BY <1>1, <1>2, <1>3, <2>1, <2>2, <2>3, GoesOn DEF Flushed
<1> QED BY <1>4, <1>5

LEMMA FlushStep ==
  ASSUME NamesInv, NEW h \in Hands, Flush(h)
  PROVE  NamesInv'
<1> SUFFICES ASSUME NEW s, NEW t, s = hand[h], t = [s EXCEPT !.at = "post"]
             PROVE  NamesInv'
  OBVIOUS
<1>1. s # Resting /\ AtWork(h, s) /\ s.at = "flush"
  BY DEF Flush, NamesInv, Resting
<1>2. /\ DOMAIN t = {"duty", "at", "read", "wants"} /\ t.duty = s.duty /\ t.at = "post"
      /\ t.read = s.read /\ t.wants = s.wants
  BY <1>1 DEF AtWork
<1>3. hand' = [hand EXCEPT ![h] = t] /\ UNCHANGED <<row, posted, forwards>>
  BY DEF Flush
<1>4. \A k \in Hands \ {h} : holder = k => holder' = k
  BY AnnounceHands DEF Flush
<1>5. t.duty = "publish" /\ "cmsg" \in DOMAIN t.wants => holder' = h
  <2>1. SUFFICES ASSUME s.duty = "publish", "cmsg" \in DOMAIN s.wants PROVE Dirty(s) # {}
    BY <1>2 DEF Flush
  <2> QED BY <1>1, <2>1 DEF Dirty, AtWork
<1>6. Numbered'
  BY <1>3 DEF NamesInv, Numbered
<1>7. AtWork(h, t)'
  BY <1>1, <1>2, <1>3, <1>5 DEF AtWork, Flushed, Wanting, Names
<1> QED BY <1>1, <1>2, <1>3, <1>4, <1>6, <1>7, GoesOn DEF Flushed

\* What is set once the message for the chat has been sent.
LEMMA SentColumns ==
  ASSUME NEW h \in Hands, NEW t, AtWork(h, t), t.at = "post", NEW id
  PROVE  /\ DOMAIN Sent(t, id) \subseteq Columns
         /\ "message" \in DOMAIN Sent(t, id) /\ Sent(t, id).message = id
         /\ "channel" \in DOMAIN Sent(t, id) <=> "channel" \in DOMAIN t.wants
         /\ "channel" \in DOMAIN t.wants => Sent(t, id).channel = t.wants.channel
         /\ "chat" \in DOMAIN Sent(t, id) <=> t.duty = "forward"
         /\ t.duty = "forward" => Sent(t, id).chat = "group"
         /\ \/ /\ "cmsg" \in DOMAIN Sent(t, id) <=> "cmsg" \in DOMAIN t.wants
               /\ "cmsg" \in DOMAIN t.wants => Sent(t, id).cmsg = t.wants.cmsg
            \/ /\ t.duty = "created" /\ t.read.chat = "channel" /\ Sent(t, id).cmsg = id
               /\ "channel" \in DOMAIN t.wants \/ t.read.channel = "channel"
<1> DEFINE channel == Over(t.wants, t.read).channel
           forward == [chat |-> "group", message |-> id]
           both    == [cmsg |-> id, message |-> id]
           one     == [message |-> id]
           base    == IF t.duty = "forward" THEN forward
                      ELSE IF t.duty = "created" /\ channel = t.read.chat THEN both ELSE one
<1>1. DOMAIN t.wants \subseteq {"channel", "cmsg"}
  BY DEF AtWork, Wanting
<1>2. Sent(t, id) = [c \in DOMAIN base \cup DOMAIN t.wants |->
                       IF c \in DOMAIN base THEN base[c] ELSE t.wants[c]]
  BY DEF Sent
<1>3. channel = IF "channel" \in DOMAIN t.wants THEN t.wants.channel ELSE t.read.channel
  BY DEF Over, AtWork, Rows
<1> HIDE DEF channel
<1>4. CASE t.duty = "forward"
  <2>1. base = forward
    BY <1>4
  <2>2. DOMAIN forward = {"chat", "message"} /\ forward.chat = "group" /\ forward.message = id
    OBVIOUS
  <2> HIDE DEF base, forward
  <2> QED BY <1>1, <1>2, <1>4, <2>1, <2>2 DEF Columns
<1>5. CASE t.duty = "created" /\ channel = t.read.chat
  <2>1. base = both
    BY <1>5
  <2>2. DOMAIN both = {"cmsg", "message"} /\ both.cmsg = id /\ both.message = id
    OBVIOUS
  <2>3. t.read.chat = "channel" /\ ("channel" \in DOMAIN t.wants \/ t.read.channel = "channel")
    BY <1>3, <1>5 DEF AtWork, Rows, Places, Wanting
  <2> HIDE DEF base, both
  <2> QED BY <1>1, <1>2, <1>5, <2>1, <2>2, <2>3 DEF Columns
<1>6. CASE t.duty # "forward" /\ ~(t.duty = "created" /\ channel = t.read.chat)
  <2>1. base = one
    BY <1>6
  <2>2. DOMAIN one = {"message"} /\ one.message = id
    OBVIOUS
  <2> HIDE DEF base, one
  <2> QED BY <1>1, <1>2, <1>6, <2>1, <2>2 DEF Columns
<1> QED BY <1>4, <1>5, <1>6

LEMMA PostChatStep ==
  ASSUME NamesInv, NEW h \in Hands, PostChat(h)
  PROVE  NamesInv'
<1> SUFFICES ASSUME NEW s, NEW id, NEW t, s = hand[h], id = NewPost,
                    t = [s EXCEPT !.at = "write", !.wants = Sent(s, id)]
             PROVE  NamesInv'
  OBVIOUS
<1>1. s # Resting /\ AtWork(h, s) /\ s.at = "post"
  BY DEF PostChat, NamesInv, Resting
<1>2. /\ DOMAIN t = {"duty", "at", "read", "wants"} /\ t.duty = s.duty /\ t.at = "write"
      /\ t.read = s.read /\ t.wants = Sent(s, id)
  BY <1>1 DEF AtWork
<1>3. /\ hand' = [hand EXCEPT ![h] = t] /\ UNCHANGED <<row, forwards, holder>>
      /\ posted' = posted \cup {Message(Target(s), id)}
  BY DEF PostChat
<1>4. Target(s) \in Places /\ Target(t) = Target(s)
  BY <1>1, <1>2 DEF Target, AtWork, Rows, Places
<1>5. NewPost \in forwards' => Target(s) = "channel"
  <2>1. NewPost \notin forwards
    <3>1. \A m \in posted : m.id # NewPost
      BY FS_CardinalityType DEF NamesInv, Numbered, NewPost
    <3> QED BY <3>1 DEF NamesInv, Numbered, Message
  <2> QED BY <1>3, <2>1
<1>6. /\ Numbered' /\ id \in Nat \ {0} /\ id \notin {s.read.message, s.read.cmsg}
      /\ Names(s.read)' /\ Message(Target(s), id) \in posted'
  BY <1>1, <1>3, <1>4, <1>5, Fresh DEF AtWork
<1>7. /\ DOMAIN t.wants \subseteq Columns
      /\ "message" \in DOMAIN t.wants /\ t.wants.message = id
      /\ "channel" \in DOMAIN t.wants <=> "channel" \in DOMAIN s.wants
      /\ "channel" \in DOMAIN s.wants => t.wants.channel = s.wants.channel
      /\ "chat" \in DOMAIN t.wants <=> t.duty = "forward"
      /\ t.duty = "forward" => t.wants.chat = "group"
      /\ \/ /\ "cmsg" \in DOMAIN t.wants <=> "cmsg" \in DOMAIN s.wants
            /\ "cmsg" \in DOMAIN s.wants => t.wants.cmsg = s.wants.cmsg
         \/ /\ t.duty = "created" /\ Target(s) = "channel" /\ t.wants.cmsg = id
            /\ "channel" \in DOMAIN s.wants \/ s.read.channel = "channel"
  <2> QED BY <1>1, <1>2, SentColumns DEF Target
<1>8. Flushed(t) <=> Flushed(s)
  BY <1>1, <1>2, <1>7 DEF Flushed
<1>9. /\ t.duty = "publish" /\ "cmsg" \in DOMAIN t.wants => t.wants.cmsg # t.read.cmsg
      /\ Wanting(t)'
  <2>1. t.duty = "publish" /\ "cmsg" \in DOMAIN t.wants => t.wants.cmsg # t.read.cmsg
    BY <1>1, <1>2, <1>7 DEF AtWork
  <2>2. "cmsg" \in DOMAIN t.wants =>
          /\ Message("channel", t.wants.cmsg) \in posted'
          /\ "channel" \in DOMAIN t.wants \/ t.read.channel = "channel"
    BY <1>1, <1>2, <1>3, <1>6, <1>7 DEF AtWork, Wanting
  <2>3. "channel" \in DOMAIN t.wants => t.wants.channel = "channel"
    BY <1>1, <1>7 DEF AtWork, Wanting
  <2>4. Message(Target(t), t.wants.message) \in posted' /\ t.wants.message \notin {0, t.read.message}
    BY <1>2, <1>4, <1>6, <1>7
  <2>5. (Message(Target(t), t.wants.message) \in posted)'
    BY <2>4 DEF Target
  <2> QED BY <1>2, <1>7, <2>1, <2>2, <2>3, <2>4, <2>5 DEF Wanting
<1>10. AtWork(h, t)'
  BY <1>1, <1>2, <1>3, <1>6, <1>8, <1>9 DEF AtWork
<1> QED BY <1>1, <1>2, <1>3, <1>6, <1>8, <1>10, GoesOn

LEMMA AbandonStep ==
  ASSUME NamesInv, NEW h \in Hands, Abandon(h)
  PROVE  NamesInv'
<1>1. hand' = [hand EXCEPT ![h] = Resting] /\ UNCHANGED <<row, posted, forwards>>
  BY DEF Abandon
<1>2. \A k \in Hands \ {h} : holder = k => holder' = k
  BY DEF Abandon, Released
<1>3. Numbered'
  BY <1>1 DEF NamesInv, Numbered
<1>4. Resting.duty = "none"
  BY DEF Resting
<1> QED BY <1>1, <1>2, <1>3, <1>4, OthersKeep

(***************************************************************************)
(* The write: a publisher keeps others off with the lock, and a handler of *)
(* a forward writes message and chat together.                             *)
(***************************************************************************)
LEMMA WriteRowStep ==
  ASSUME NamesInv, NEW h \in Hands, WriteRow(h)
  PROVE  NamesInv'
<1> SUFFICES ASSUME NEW t, t = hand[h] PROVE NamesInv'
  OBVIOUS
<1>1. t # Resting /\ AtWork(h, t) /\ t.at = "write"
  BY DEF WriteRow, NamesInv, Resting
<1>2. /\ hand' = [hand EXCEPT ![h] = Resting] /\ UNCHANGED <<posted, forwards>>
      /\ holder \in {NoHand, h} /\ holder' = Released(h)
      /\ row' = Over([c \in Dirty(t) |-> t.wants[c]], row)
  BY DEF WriteRow
<1>3. DOMAIN hand' = Hands /\ \A k \in Hands : hand'[k] = IF k = h THEN Resting ELSE hand[k]
  BY <1>2, Moves
<1>4. row' = [c \in Columns |->
                IF c \in DOMAIN t.wants /\ t.wants[c] # t.read[c] THEN t.wants[c] ELSE row[c]]
  BY <1>2 DEF NamesInv, Rows, Columns, Over, Dirty
<1>5. /\ row'.message = t.wants.message
      /\ Message(Target(t), t.wants.message) \in posted /\ t.wants.message # 0
  BY <1>1, <1>4 DEF AtWork, Wanting, Columns
<1>6. row'.chat = Target(t)
  BY <1>1, <1>4 DEF AtWork, Wanting, Columns, Target, NamesInv, Rows, Places
<1>7. row'.channel \in {"none", "channel"} /\ (row.channel = "channel" => row'.channel = "channel")
  BY <1>1, <1>4 DEF AtWork, Wanting, Columns, NamesInv, Rows
<1>8. row'.cmsg # 0 => row'.channel = "channel" /\ Message("channel", row'.cmsg) \in posted
  BY <1>1, <1>4 DEF AtWork, Wanting, Columns, NamesInv, Rows, Names
<1>9. row.chat = "group" => row'.chat = "group"
  BY <1>1, <1>4 DEF AtWork, Wanting, Columns
<1>10. row' \in Rows /\ Names(row)'
  <2>1. \A m \in posted : m.id \in Nat
    BY FS_CardinalityType DEF NamesInv, Numbered
  <2>2. row'.message \in Nat /\ row'.cmsg \in Nat
    BY <1>5, <1>8, <2>1 DEF Message
  <2>3. row' \in Rows
    BY <1>1, <1>4, <1>6, <1>7, <2>2 DEF Rows, Columns, AtWork, Target, Places
  <2> QED BY <1>2, <1>5, <1>6, <1>8, <2>3 DEF Names
<1>11. ASSUME NEW k \in Hands \ {h}, AtWork(k, hand[k]) PROVE AtWork(k, hand[k])'
  <2> SUFFICES ASSUME NEW u, u = hand[k], AtWork(k, u) PROVE AtWork(k, u)'
    BY <1>3, <1>11
  <2>1. ~Flushed(u)
    BY <1>2, AnnounceHands DEF AtWork
  <2>2. u.duty = "forward"
    <3>1. SUFFICES ASSUME u.duty # "forward" PROVE FALSE
      OBVIOUS
    <3>2. u.duty # "none" /\ t.duty # "none"
      BY <1>1 DEF AtWork
    <3> QED BY <2>1, <3>1, <3>2 DEF NamesInv, Apart
  <2>3. Names(u.read)' /\ Wanting(u)'
    BY <1>2 DEF AtWork, Names, Wanting, Target
  <2> QED BY <1>7, <1>9, <2>1, <2>2, <2>3 DEF AtWork, Flushed
<1>12. \A k \in Hands : hand'[k] = Resting \/ AtWork(k, hand[k])'
  BY <1>3, <1>11 DEF NamesInv
<1>13. Numbered' /\ Apart'
  BY <1>2, <1>3 DEF NamesInv, Numbered, Apart, Resting
<1> QED BY <1>3, <1>10, <1>12, <1>13 DEF NamesInv

LEMMA NamesStep ==
  ASSUME NamesInv, ~Overlap, [AnnounceNext]_announceVars
  PROVE  NamesInv'
<1>1. ASSUME UNCHANGED <<row, posted, forwards, holder, hand>> PROVE NamesInv'
  BY <1>1 DEF NamesInv, Names, Numbered, AtWork, Wanting, Target, Flushed, Apart
<1>2. ASSUME NEW m \in posted, Remove(m) PROVE NamesInv'
  BY <1>1, <1>2 DEF Remove
<1>3. ASSUME NEW h \in Hands,
             \/ \E arrives \in BOOLEAN : PostChannel(h, arrives)
             \/ Flush(h) \/ PostChat(h) \/ WriteRow(h) \/ Abandon(h)
      PROVE  NamesInv'
  BY <1>3, PostChannelStep, FlushStep, PostChatStep, WriteRowStep, AbandonStep
<1>4. CASE UNCHANGED announceVars
  BY <1>1, <1>4 DEF announceVars
<1> QED BY <1>2, <1>3, <1>4, BeginSteps DEF AnnounceNext

\* NamesOwnMessages: whatever publications, forwards and refreshes come
\* together, the row names messages of the bot, each in its own chat, as long
\* as no two post at once without the lock (publish_game_task,
\* handle_auto_forward, on_teams_published).
THEOREM OwnMessages ==
  ASSUME ~Overlap
  PROVE  AnnounceSpec => []NamesOwnMessages
<1>1. ~Overlap /\ NamesInv /\ [AnnounceNext]_announceVars => NamesInv'
  BY NamesStep
<1>2. NamesInv => NamesOwnMessages
  BY DEF NamesInv, Names, NamesOwnMessages
<1> QED BY <1>1, <1>2, NamesInit, ~Overlap, PTL DEF AnnounceSpec
=============================================================================
