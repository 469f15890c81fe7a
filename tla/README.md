# Formal verification of the football manager

TLA+ models of the program in `src/app`, TLC configurations that check them on
small instances, and theorems about them that TLAPS proves for every value of
the constants. File and line references are to the sources the models were
translated from; `PROJECT.json` maps each definition to its lines.

1. [The system](#1-the-system)
2. [The models](#2-the-models)
3. [The runs](#3-the-runs)
4. [Fairness](#4-fairness)
5. [The proofs](#5-the-proofs)
6. [What the code does that one might not expect](#6-what-the-code-does-that-one-might-not-expect)
7. [What is not modelled](#7-what-is-not-modelled)
8. [Plan](#8-plan)

## 1. The system

A Telegram bot (aiogram), a web API (FastAPI) and a scheduler (APScheduler with
a Redis job store) share one PostgreSQL database and one Redis. Organizers of a
group create games, players sign up, leave and pay, reserves are promoted, teams
are balanced and published; after the match votes are cast for the most valuable
players, scores are entered and ratings change. Groups also keep an inventory of
their equipment and hand out disciplinary cards.

Each request, bot update or job is a coroutine with its own database session:
one transaction, READ COMMITTED, committed at the end or rolled back. Between
its statements and at every await of Telegram or Redis others run. Bot, API and
scheduler are separate processes, so nothing but the database orders them.

| Component | State | Operations | What makes it correct |
|---|---|---|---|
| Roster (`core/services/roster.py`, `core/repositories/game_repo.py`, `release_gk_slots`) | `Game.status`, `max_players`, `Signup.status`, `created_at`; the row lock of the game | join, leave, kick, release of reserved places, repair; unlocked: add player or guest, status patch, team editor, update, publish, finish | nobody overbooks a game, reserves move up in order and do not wait next to free places, locks are given back |
| Ratings (`core/services/stats.py`, `finish_game`, `calculate_mvp`) | ratings and counters of `User` and `PlayerProfile`, `RatingHistory`, `GameStats` | finish, finish again (revert first), election of the MVPs | ratings are the sum of what the history records; a revert takes back exactly one game |
| Game jobs (`infrastructure/scheduler/service.py`, `scheduler/tasks.py`, `core/services/game_lifecycle.py`) | five jobs per game in Redis, the game's date and duration, its voting message | create, update, delete, open a voting by schedule or by hand, close it | each voting is known, stays open for its window, and is closed |
| Balancer (`core/domain/balancer.py`) | none | `balance` | keepers, sizes and strengths are spread |
| Public view (`core/services/cache.py`, `core/events.py`, `bot/listeners.py`, `bot/utils.py`, `publish_game_task`, `handle_auto_forward`) | the cached game details, the messages in chat and channel and the columns that name them | look-aside read, eviction, event, edit; publish, republish, move to the group of a channel | answers are not out of date for longer than an entry lives; changes are shown, in the game's own messages |
| Ballots (`bot/handlers/vote_handlers.py`, `api/routers/voting.py`) | `Vote`, the keyboards and pages in the hands of voters | vote by button or page, count (twice, differently) | one vote per voter and team; both counts elect the same |
| Accounts (`core/repositories/user_repository.py`, `api/routers/users.py`, `bot/middlewares.py`) | `User`, `Chat`, `PlayerProfile`, `ChatAdmin`, `PlayerCard` | register, enter a group, promote, merge, issue and revoke a card | no reference dangles; a merge keeps what both accounts had; cards lift one another |
| Inventory (`core/services/inventory.py`, `api/routers/inventory.py`) | `InventoryItem` | create, edit, buy, delete, sweep and alert | alerts are sent with a pause and not lost; a sweep overwrites no edit |
| Payments (`core/services/billing.py`, `qr_svg.py`, payment routes) | price and account of a game, mode of its group, `Signup.is_paid`, log of reminders | settings, marks of payment, reminders, QR code | no order to a stranger's account; every debtor is written to; codes can be read |
| Tenancy, dialogs, event stream, locales, tools, front ends | see `PROJECT.json` | | |

How they interact:

- **Shared rows.** Joins, leaves, jobs and organizers' tools write the same
  signups. Some take the row lock of the game (`get_with_lock`, `SELECT ... FOR
  UPDATE`), most do not; inserts wait for the lock through the foreign key.
- **Jobs.** Requests schedule and cancel jobs in Redis before they commit; a job
  opens the voting, another closes it and elects, a third releases places.
- **Events.** After a commit the in-process `EventBus` starts listeners that
  read the rows in sessions of their own and edit the messages of the game.
- **Cache.** Routes evict the details around their commits; the roster service
  does it before its caller commits.
- **Votes to ratings.** The election and the finish count the votes, in either
  order, and hand the same bonus to the same players.
- **Keys.** What keeps concurrent inserts of people, votes and signups apart are
  the unique and foreign keys of the tables, never a check in the code.

Hard behaviour is therefore: reads that are old when used (before an await, a
lock or a commit), writers that do not take the lock, check-then-insert,
side effects in Redis and Telegram that no rollback undoes, jobs and listeners
that overtake requests, and sequences of finishes, reverts and elections.
`PROJECT.json` lists these hazards at their lines, with the properties that
would notice.

## 2. The models

All models follow one scheme. The variables are the committed state; `txn[p]`
(`hand`, `req`) says how far request or job `p` has come and what it has read.
An action is a statement, or the run of statements nobody else can come between,
with every write it makes. Data nothing depends on (names, texts, goals) is left
out. A commit of SQLAlchemy writes the columns a session has changed, not whole
rows; the models write the same. Definitions marked *(mutated: ...)* are slips
the properties are tested against (section 3); no action uses them.
`MCRoster`, `MCRatings`, `MCBalancer`, `MCBallots`, `MCInventory` and `MCAccounts`
give the constants that a cfg cannot write (starting rows, capacities, sets of
requests) and the symmetries. The proofs of module `M` are in `MProofs`, with
four exceptions: `PublicViewProofs` is about `PublicView` and `Announce`, all
that people are shown of a game; `ElectionProofs` about `GameJobs` and
`Ballots`, when votes are cast and which; `GroupProofs` about `Inventory`,
`Billing` and `Reminders`, what a group keeps and collects; and `QrProofs` about
`QrCode`.

### Roster and Waitlist

`Roster` is one game. `JoinBegin`, `JoinLock`, `JoinCount`, `JoinCommit` are
`join_player` as called by the bot; `ApiJoinBegin` is the API's join, which has
loaded the game before. `LeaveLock/Delete/Commit`, `ReleaseLock/Pick/Commit` and
`FixLock/Commit` are the other holders of the lock. `InsertBegin/Commit`,
`RestoreBegin`, `StatusBegin`, `TeamsBegin` with `UpdateCommit`,
`UpdateCapacity`, `Finish` and `PublishBegin/Commit` are the organizers' tools:
they read, await Telegram, and write without the lock. An update of a row that
has been deleted fails, or, in a batch, may go unnoticed.

`created_at` is PostgreSQL's `now()`, the start of the transaction: `older`
orders rows and the transactions that may yet insert one. `granted` is a ghost:
the active signups that hold a place because an organizer gave it, with or
without room. `passed` holds the instants (end of registration, end of free
cancellation, kickoff) that lie in the past.

`Waitlist` is what the roster promises without transactions or locks: whoever
registers plays if there is room, whoever leaves hands the place to the one who
has waited longest. `Roster` implements it (`ImplementsWaitlist`) with `slots <-
maxPlayers`, `playing <- Active`, `waiting <- Reserve`, `order <- older` on the
rows present, as long as only operations under the lock, or waiting for it
(`LockedOps`), change signups. The abstract order of arrival lets newcomers enter anywhere: a
join counts from its beginning, not from when it was served.

### Ratings

Several games and players. A finish loads the game (`FinishBegin`), computes
everything from what it reads then (`FinishLoad`: revert of an earlier finish,
points by the place of the team, bonus) and writes it (`Commit`); an election
likewise (`MvpBegin`, `MvpLoad`). History and statistics rows carry keys, so
that a row deleted and written again is a different row. Teams and scores are
abstracted to the points each player gets; votes to the set of winners, which
may be any active players (`Electable`), or anybody if `OutsiderVotes`.

### GameJobs

One game in time. Jobs are due times in a store that changes at once, whatever
the request does later. Requests and jobs interleave at their awaits and are
over before time moves on. `open` are the voting messages with a keyboard.
Listeners take the keyboard off after a finish and write it anew after a
publication (`Heard`, `FinishedEdit`, `PublishedEdit`).

Two things go wrong there that the code logs and passes over, and both are in
the model. Telegram refuses a call: the old voting is not deleted and the new
one is sent all the same (`Send`, `tasks.py:79-87`); the election cannot take
the keyboard off and does not try again (`Close`, `tasks.py:184-196`); a
deletion leaves the voting message behind (`DeleteCommit`); and the store may
refuse to remove a job (`Cancelled` is a set of outcomes). And requests and jobs
fail half way (`Fail`): an update between cancelling and scheduling
(`FailRescheduling`), a deletion whose row cannot be deleted
(`FailDeleting`, a vote or join having committed meanwhile), a voting after its
message was sent, or between its commit and its election's scheduling, or an
election before it has closed it (`FailVoting`, `tasks.py:92-133`).
`stranded` is a ghost: the voting messages that such a refusal or failure has
left with their keyboard or without their election. The properties of the
run except these and only these, and say that nothing else leaves a voting
unknown, without election, cut short or open for good. A stranded message is
forgotten when time passes and its keyboard is gone.

Three flags admit behaviour the code does not guard against; they are FALSE in
the passing run. With `Overlap` an organizer opens a voting by hand while another
request or job of the game is at work, or in the very instant in which the
voting falls due by itself: `OneOpenVoting` and `ElectionFollows` then fail.
`trigger_voting` (`admin.py:662-684`) checks none of this, nor whether the match
is over; the run takes organizers who trigger at other times, the match over or
not (`TriggerTimes`). With `MovesBack` a game is given a date in the past:
`ElectionFollows` and `FullWindow` fail. With `Reopens` teams are published after
the voting has closed: `OneOpenVoting`, `ElectionFollows` and `FullWindow` fail.

### Ballots

The buttons of the voting messages, the voting page, the rows of `Vote`, and the
two counts. `Press` is the bot's button: it files the ballot under the team its
target is in at that moment; `OpenPage` and `Submit` are the page, which files
under the team it showed. Both check, await, and `Insert`; the unique constraint
is `Unique`. `JobElects` and `FinishElects` choose the teams to count by
different rules (`JobTeams`, `FinishTeams`). Meanwhile `Move` changes a player's
team, or drops him to the reserve and brings him back. `had[u]` is a ghost: the
teams a ballot for `u` could have been filed under so far.

### Accounts

How rows of users, groups, profiles and rights come about, from every place that
inserts one (`Register`, `Meet`, `Enter`, `Speak`, `Promote`): a read that finds
nothing, and an insertion that fails if somebody was faster (`InsertCommit`).
Cards are issued in two steps (the rows the UPDATE finds, then the commit) and
revoked in one. `MergeBegin` is what `merge_users` reads, `MergeCommit` all it
writes, with the keys of every table as guards, while joins, leaves, votes, finishes
and the deletion of a game commit in between. What these delete the merge no
longer finds, even if the same is written again (`Found`): a player who left
and joined again has a new row. `.left` in a merge is a ghost, the games the new
account has left since the merge read its signups; only `MergeKeepsRecords` reads
it. What the other components do is one step here: a join, a leave, a vote, a
finish and a deletion each happen at their commit. `earned` in a history row tells rows of the same game apart.
`SelfMerge` admits the merge of an account with itself, which the command does
not refuse; merges come one at a time, since the command is the owner's.

### Inventory

Rows with quantity, status, lifespan, date of purchase and date of the last
alert, in days. Requests of organizers load a row, compute what it is to become,
and commit the columns they changed (`Edit`, `Changed`). A sweep loads the rows
of a group (or of all, for the job), assesses and alerts one by one while others
commit (`SweepItem`), and commits everything at the end, or nothing. `sent` and
`warned` are ghosts: the days on which somebody was told of an item, and the day
of the job's last recorded alert.

### Billing, Reminders, QrCode

`Billing`: the price of a game and the account it is to be paid to. Accounts are
sequences of digits with the checks of the Czech National Bank (`CheckCnbMod11`)
and of IBANs (`Mod97`), converted as `czech_account_to_iban` does.
`Reminders`: marks of payment and the three reminders, one message after the
other, with what came of each; the entries of the cache may get lost or expire.
`QrCode`: the whole of `encode_qr_matrix`, from bytes to modules: version,
codewords with Reed-Solomon over GF(256), interleaving, walk, mask, format. A
byte is the set of its bits, a matrix the set of its dark modules. The
properties read the matrix back by a definition of their own, that of the
standard. Loops of the code are recursive functions; `ErrorCodewords` divides
one half of its bytes after the other, so that TLC's recursion stays shallow.
What depends on the version alone and not on the payload is stated there as
assumptions (`PowersCycle`, `ReadersPlaces`, `Versions`): closed facts about the
field and the ten versions, which TLC evaluates in every run of the module and
the proofs use. `MCPayments` takes one topic per behaviour; they share no variable.

### Balancer

`RoleBasedBalancingStrategy.balance`, one step per player placed, over every
roster of the given profiles. `Init` lists players by profile, since only the
order within one rating matters to the algorithm.

### PublicView and Announce

`PublicView`: a change of a game is a number; `Routes` says of each kind of
route whether it evicts before or after the commit and which messages it has
edited. Readers do the look-aside read in steps. `ended[v]` is when version `v`
was superseded. With `Faults`, Redis operations fail silently, edits are given
up after their retries, and processes die. `due` and `lost` are ghosts: the last
change to be shown in a message, and the last whose edit was given up.

`Announce`: where these messages are. `on_game_created`, `publish_game_task` and
`on_teams_published` post to the chat of the row they loaded; the post in a
channel is forwarded by Telegram to the group that discusses it, where
`handle_auto_forward` replaces it and moves the game there. Each writes the
columns it changed; what a session has changed is flushed before its next query,
and from then on the row is locked (`Flush`, `holder`). `Overlap` admits two
hands that post at once without such a flush between them: a publisher before
it has posted in the channel, a publication of teams, two publishers.
`MCPublicView` takes one of the two modules per behaviour.

## 3. The runs

| Run | Checks | Bounds |
|---|---|---|
| `RosterLocked` | types; no reserve is left beside a free place; the abstract waitlist; oldest first; atomic release; the repair settles; the signup limit; joins enter open games | 3 players, 1 guest, 2 requests, capacities 1 and 2, limit 3, operations under the lock or waiting for it |
| `RosterFair` | only granted places exceed `max_players`; every request is answered | 2 players, 2 requests, one place, kickoff passes; the unlocked tools and the API's join against join, leave and release |
| `Ratings` | rating and counter ledgers, single rows, the bonus is recorded if and only if awarded | 2 players, 2 games, any number of finishes and elections, one request at a time |
| `GameJobs` | one known voting, an election follows, the whole window, votings close, all but what a refusal or failure leaves behind | 2 concurrent requests or jobs, 4 requests in all, two dates, two durations, 11 units of time |
| `Balancer` | keepers, sizes, strengths | 5 players of 13 profiles, 2 or 3 teams |
| `PublicView` | fresh answers; each change is told; the row names the game's own messages | 2 changes, 1 reader, 2 messages, 8 kinds of route, all faults; or 2 hands and 4 messages |
| `Ballots` | one ballot per team, filed under a team the target has been in; the counts agree; nobody is elected by himself or by strangers | 3 players, a stranger, 2 requests, 1 move, 4 starting positions |
| `Inventory` | alerts spaced; silence only after an alert; wear announced in time; a sweep keeps edits | 2 items, 2 requests, 2 edits, 3 days, a cooldown of 2 |
| `Accounts` | references; cards lift earlier ones; a merge keeps everything but games its new account has left meanwhile; a revocation frees | 2 people, 1 group, 1 game, 2 requests, 3 cards, 1 merge, 3 starting positions |
| `Payments` | exact payment orders; every debtor told; blocks correctable; codes read back | 8 texts of accounts, with every slip in number, prefix or IBAN; 2 players, a guest, 2 organizers; 22 texts over all 10 versions |
| `RosterStaleJoin`, `QrFormat` | each one sentence of the repository the code does not keep (section 6) | as small as shows it |

Why these bounds are enough to be of interest:

- **Roster.** With three players and a guest on one or two places there are two
  reserves to choose between, a reserve nobody may promote (a guest), a free
  place while somebody waits, and a limit that is reached. Two requests are
  every pair of interleaved transactions; the lock admits one holder, and a
  third request could only wait. Capacity changes in the runs go up and down.
  A game that is never cancelled is all there is: nothing sets `CANCELLED`.
- **Ratings.** Two games of the same two players make finish, second finish and
  election of one interleave with the other's. The points (-1, 2) and the bonus
  (10) are chosen so that a wrong sum shows, and the start (50) so that no
  instance reaches 0, which the code treats as "no rating" (a listed hazard).
- **GameJobs.** Day and window are both 3 units, so elections of a scheduled and
  of a manual voting fall before, on and after one another. Organizers open a
  voting by hand at 5: after a match that ended at 3, once the voting of one that
  ends at 5 has begun, or before the end of one that lasts until 7. No release of
  places is scheduled (`GkHours = 0`): like the reminder, such a job only comes
  and goes. `MaxRequests` bounds the requests of the whole history (jobs are not
  counted): the creation and three more. No election falls due in the instant in
  which another voting is being opened, and `FullWindow` depends on that. With
  `Window = 2` and `TriggerTimes = {3}` it fails: an update moves the scheduled
  voting to 5, a voting by hand at 3 leaves an election due at 5, and that
  election fires after the second voting has committed and before it has
  rescheduled the election, and closes the voting that has just begun. In the
  code such instants are moments of microseconds, but nothing rules them out.
- **Ballots.** Two taps of one voter race each other and the page; one move lets
  a page or a keyboard be older than the teams; the starting positions have no
  teams, two, three, and one player still to be assigned.
- **Inventory.** A unit of lifespan is some 30 days, the lead: one item wears
  out within the horizon by the lead, one by the fifth of its lifespan, one is
  missing. The cooldown ends on the last day; on the days before, sweeps of
  organizers, who have no cooldown, and edits come between two of the job.
- **Accounts.** Each starting position leaves out what another has: strangers
  who register at once; a merge against joins, leaves, votes, finishes and the
  deletion of the game; cards by two organizers that expire, with everybody
  known and the game deleted.
- **Payments.** Texts at both ends of what each version holds make the headers,
  the short terminators, the unequal blocks and the remainder bits occur. One
  slip is a wrong digit or two neighbours exchanged, in the number or the prefix
  of a domestic account, or in the account or the check digits of an IBAN; the
  code of a bank, which nothing checks, is not among them (section 6).
- **Balancer.** Five players in two or three teams include teams without a
  keeper, with the odd defender, and with nobody left to even them out.
- **PublicView.** A cache entry lives one unit and time runs for two: an entry
  can be stored, superseded, served stale and expire. Four messages are one in
  the channel and one in the chat of two publications, with a forward each.

Deadlock is checked in the runs of Roster, Ratings and Ballots, which always may
go on; the others stop at a horizon, at a bound on requests, or when everybody
is placed or the code is drawn. Symmetry (of players, requests and games) is
used in runs of invariants and action properties; `ImplementsWaitlist`, the
refinement in `RosterLocked`, is a safety property as well.

Every property of a passing run has a mutant in `PROJECT.json`: a plausible slip
in one mapped definition that makes TLC report that property.

## 4. Fairness

- `Roster!FairSpec`: a holder of the lock goes on (`Finishes`, weak fairness): its
  further statements wait for nobody. What waits for the lock gets it if it keeps
  becoming free (`Served`, strong fairness), since PostgreSQL queues the waiters
  of a row.
- `GameJobs!FairSpec`: time passes, the scheduler starts what is due (weak
  fairness), and a request or job that has begun goes on or fails. A scheduler
  that is down past its one-second misfire grace is outside the model.
- `PublicView!FairSpec`: a change that has begun goes on, fails or dies
  (`Proceeds`, weak fairness). There is
  no fairness for readers or for time, and no property needs any.

No request of a user or organizer is ever assumed to happen. Ballots, Accounts,
Inventory, Payments and Announce promise nothing in time: a request that fails is
not repeated by anybody.

## 5. The proofs

All hold for every value of the constants, from the assumptions named in the
modules (finite sets of people that are disjoint from the requests, positive
capacities, and so on), which TLC evaluates in the runs.

- `RosterProofs!Typing`: `Spec => []TypeOK`. One lemma per group of actions;
  `TxnFields` says what a label tells of the other fields of a transaction.
- `RosterProofs!Capacity`: `Spec => []WithinCapacity` if `api_join` is
  not in use. `WithinCapacity` is not inductive: a joiner that has counted
  inserts later. `CapacityInv` adds that whoever is past the lock holds it, that
  a joiner decides with the current `max_players`, and that what each
  transaction has decided still fits (`Fits`). The argument is that unlocked
  tools grant every place they give (`GrantsWhatItGives`), so the ungranted
  signups only shrink under a transaction that has counted them
  (`UngrantedShrinks`, `StillFits`), and `max_players` cannot change while
  somebody holds the lock. `RosterStaleJoin` shows how a preloaded game
  invalidates the tests the next theorem relies on; the run `RosterFair` leaves
  out changes of capacity, and so can include `api_join`.
- `RosterProofs!JoinsOpen`: `Spec => JoinsOpenGame` under the same
  hypothesis, from `CapacityInv` and `StillOpen`: what a joiner has tested under
  the lock stays true, since a finish waits for the lock.
- `RosterProofs!Refinement`: `Spec => ImplementsWaitlist`, the refinement of
  `Waitlist`, if only `LockedOps` are in use (the bot's joins and leaves,
  release, repair, the insertion of a player or guest, changes of capacity, and
  finishes), which is what `RosterLocked` runs.
  `ListInv` says that who is past the lock holds it, that what it has decided is
  still right (`Decided`: the counts of a join, the heir of a leave, the picks of
  a release, the whole plan of a repair), since nobody else writes a signup or
  `max_players` meanwhile, that nobody is `CANCELLED`, and that of two rows, or
  requests about to insert one, exactly one is the older (`Sorted`). From it each
  commit is one abstract step and every other step leaves what the waitlist sees
  alone. The same invariant gives the five action properties of that run:
  `SignupLimitKept`, `OldestPromoted`, `ReleaseAtomic`, `FixRestores` and
  `SlotsFilled`. TLC checks `ListInv` on the states of `RosterLocked`.
- `RosterProofs!AllAnswered`: `FairSpec /\ Able => Answered`, with operations of
  every kind in use. `LockInv` says that exactly the holder of the lock is past
  it. A holder takes at most two fair steps and gives the lock back with the last
  one (`Fates`, `LocksAreFreed`), whatever early return it takes; so the lock is
  free again and again (`AlwaysFreed`), a waiter is served (`LeavesQueue`) and
  becomes a holder, or is done at once. `Able` is explained below.
- `RatingsProofs!RowsOfOneGame`, `BonusOfOneGame`: `[]SingleRows` and
  `[]BonusRecorded` in every behaviour in which no two transactions in flight are
  about the same game (`Apart`, which the code leaves to its users; two finishes
  of one game may both insert), with as many games and players as one likes at
  the same time. `RowsInv` says of a transaction that has computed its writes
  that the rows it deletes are still all the rows of its game, and that the
  changes it adds contain the bonus for exactly those its statistics name.
  `BonusTold` says that a bonus cannot be mistaken for the points of a place.
- `RatingsProofs!CountersAgree`, `RatingsAgree`: the two ledgers, `[]CounterLedger`
  and `[]RatingLedger`. Accounts are written by every game of a player, and a
  finish writes what it computed from an earlier read, so here no two
  transactions in flight may be about the same game or about games with a player
  in common (`Separate`); any number of others may be. Winners are signups of
  the game (`~OutsiderVotes`): section 6 says what happens otherwise. `LedgerInv`
  says that who has a row was a signup of the game, and that a finished game has
  all its rows; `CounterInv` and `RatingInv` say what the accounts a transaction
  is about to write will amount to with the rows it adds and drops. The ratings are added up by `(rating or
  100)`, which takes 0 for "no rating": `RatingsAgree` holds as long as no
  rating, with all of a player's changes or without those of one game, is
  exactly 0 (`NeverAtZero`; a listed hazard). The lemmas on sums are proved by a
  least set for which they fail, since the library's sum recurses in an order
  of its own choice.
- `ElectionProofs!WindowKept`: `FullWindow`, under `Orderly`, in every behaviour
  in which no election falls due while a voting that has been committed has yet
  to schedule its own (`NoElectionDue`; section 3 shows the instant), if the
  window is at most a day. The last is needed: an update that gives the game a
  new date moves the election of an open voting to a day after the new match
  (`update_game` adds 24 hours whatever the policy says), while
  `mvp_voting_window_hours` may be up to 168 (`tenant_policy.py:51`; the default
  is 24); with `Window = 6` and `Day = 3` TLC finds a voting that is cut short.
  `WindowInv` says that the election ahead is not due before the window of what
  is open is over (`Ahead`) and that an election at work closes what has been
  open for it (`Elapsed`).
- `ElectionProofs!OneVoting`, `ElectionAhead`: `[]OneOpenVoting` and
  `[]ElectionFollows` if none of the three flags is set (`Orderly`), with refused
  calls and failures anywhere. Both speak of the quiet between requests;
  `JobsInv` says what holds meanwhile: one voting is being opened at a time
  (`Sending`: no voting job is due in an instant in which one is at work), what is
  open is known to the game or to the job that has just sent it, or has been left
  behind (`Known`), and of what has not been left behind an election is in the
  store, or somebody is about to schedule one, to take the keyboard off, or to
  delete the game (`Elected`).
- `ElectionProofs!OneBallot`, `FiledWell`, `ElectedWell`, `Agreeing`: the four
  invariants of the run. `BallotInv` says of the ballots in the hands of requests
  what the invariants say of those in the table, and of pages that the players
  they show have been in the team; the sets `had[u]` only grow.
  `CountsAgree` needs no more than the types: where teams A and B are
  both on the pitch the two rules choose the same teams.
- `GroupProofs!Spacing`, `QuietItems`, `Announcing`, `EditsKept`: the four
  properties of the run. The spacing is not inductive: that a row's last alert is
  no earlier than the job's last on record has to survive commits of requests
  that loaded the row long before. It does, because they write the day only where
  they changed it, to today (`Editing`, `Rested`). `Announcing` is arithmetic: a
  lead of at least one day cannot be jumped over in one.
- `AccountsProofs!References`, `Lifting`, `NothingLost`, `Freeing`: the type
  invariant with all references, and the three properties of the run, if nobody
  merges an account with itself. `AccountInv` adds what requests hold: a card's
  request has found every active card among those of its beginning (`Issuing`),
  what a merge is going to move is still there, and of a game it has found twice
  the new account still has a signup, or has left since (`Merging`).
  `HeldOutlasts` and `HeldShrinks` say that this survives steps that add rows and
  steps that delete them.
- `BalancerProofs!KeepersSpread`, `SizesWithin`, `StrengthsClose`: the three
  properties of the run, for any number of players and teams and any ratings and
  positions, without further hypotheses. `KeeperInv`: every team already served
  has a keeper, and what ends the phase early is that nobody is left who could
  be one. `SizeInv`: sizes are known exactly while keepers and defenders go round
  the teams, by a number of full rounds and who has been served in the current
  one (arithmetic of `%`); from then on the smallest team gets the next player,
  which keeps `SizesEven`. `CloseInv`: players of one position are dealt in
  descending order, two at a time; between pairs the difference of two teams is
  within that of two neighbours, within a pair the first has gone to the weaker
  team. `Strength` is a sum over a set, with lemmas like those of `RatingsProofs`.
- `PublicViewProofs!Freshness`: `Spec => []AnswersFresh`, for any life time, any
  routes, readers and faults. `FreshInv` adds that an entry that is out of date
  expires no later than one life time after it became so, and that a reader
  about to store stores what was current in that very second (requests for the
  details are over within a second of the model's time).
- `PublicViewProofs!OwnMessages`: `AnnounceSpec => []NamesOwnMessages` if no two
  hands post at once without the lock (`~Overlap`). `NamesInv` adds that a
  publisher who has flushed its channel post holds the row, so that the handler
  of the forward waits (`Flushed`, `AtWork`); that anybody but such handlers is
  alone at work and the chat it loaded is still the game's (`Apart`); that a
  handler writes the number of its message together with its chat; and that
  numbers are fresh (`Numbered`).
- `PublicViewProofs!EachTold`: `FairSpec /\ AllAble => EachChangeTold`. What becomes
  due to a message is, in that state, carried by the change that made it due
  (`CarryInv`, `DueIsReached`); a step of a change that carries it brings the
  change nearer its end (`Advances`, `Climb`) and never drops it, unless the
  message shows it or the edit is lost. So while it is not reached the change
  comes to rest (`ComesToRest`) and yet must carry it (`Delivers`).
- `GroupProofs!Reminded`: `RemindSpec => []DebtorsTold`, for any number of
  debtors, guests and organizers at work and any ways a message fails. `InStep`
  follows a request through its list: whoever is off it has been written to, but
  for guests, nobody else has save the one whose message is out and not recorded,
  and there are as many messages as people.

- `GroupProofs!OrdersRight`: the specification of Billing implies `[]OrdersExact`,
  for all accounts and IBANs of digits of the lengths the code admits, all slips
  (a digit mistyped, two neighbours exchanged, in the number or the prefix of a
  domestic account, in the account or the check digits of an IBAN; not in the
  code of a bank or in a country) and any prices. Remainders and
  weighted sums over digits are recursive functions; `Recursion` says that such
  functions exist and `UpTo` is induction over their arguments, both proved from
  the well-foundedness of the numbers, since the library's induction theorems
  take an operator. Up to the slip two numbers have the same remainder; at the
  slip the remainders differ, by at most 9 or by 9 times a difference of digits;
  after it they keep differing, since 10 has an inverse modulo 97
  (`Mod97` of IBANs). For domestic accounts, two sums of digits times weights
  differ by a weight times a difference of digits, or by the product of the
  differences of two neighbouring weights and digits: neither is a multiple of
  11. The check digits of a converted account make its remainder 1. What is used
  of the constants is `BillingParameters`.
- `QrProofs!Correctable`: `QrSpec => []BlocksCorrectable`, for payloads of any
  bytes. `PowersCycle` makes the bytes a field (`Field`: the products of
  logarithms are associative, commutative and distribute over exclusive or,
  `MulXorPower`). A polynomial is evaluated by Horner's rule (`Horner`); the
  generator has the roots it was multiplied from (`GeneratorRoots`); one step of
  the division (`DivideValue`) takes the value of the remainder at such a root to
  that value times the root, plus the byte times the root to the degree, so that
  after all bytes it is the value of the data, shifted (`ErrorValue`); data and
  error codewords together have the value 0 (`BlockDivisible`). `InterleavedArrives`
  follows each byte to where the reader looks for it. `Parity` and `EvenTerms`
  turn the value 0 into the count of bits that the invariant speaks of.
- `QrProofs!Readable`: `QrSpec => []ReadsBack`, for payloads of any bytes that fit.
  `QrInv` says what the codewords and the matrix are at each stage (`Sent`,
  `Placed`, `Drawn`). The walk passes no module twice, since the reader's order
  increases along it (`PathIs`), and meets neither patterns nor format; so each
  module, unmasked, shows the bit that was placed there (`ModulesRead`), and the
  codewords come back (`WordsRead`), the blocks from them (`BlocksHoldParts`), the
  data from the blocks (`DataRead`), and with the data mode, length and text,
  which terminator, alignment and padding only follow (`DataAre`, `TextRead`).

The two theorems about liveness take one thing as a hypothesis. Fairness speaks of
steps that can be taken (ENABLED), and the provers know nothing of that operator;
so `Able` and `AllAble` say of the specification's own actions that a holder of
the lock, a waiter at a free lock, and a change that is not at rest can take their
step. It is no demand on the environment but a fact of the model: asked as
invariants, TLC finds both true on the instances of `RosterFair` and `PublicView`
(with failures and without), and the same runs check the liveness itself, with
ENABLED evaluated. What is proved is the rest: for every number of requests and
from every reachable state, that such steps lead to the end.

Model-checked only: `VotingCloses`, whose argument is an induction over the time
that is left (each instant is worked off before time passes), of a temporal
formula, which neither the provers nor the library can state; and, as assumptions
without variables, what `QrCode` says of the field's table and of its ten
versions.

## 6. What the code does that one might not expect

Two sentences of the repository the code does not keep; each has a run that must
report the violation, and the quoted sentence in `PROJECT.json`.

- **`RosterStaleJoin`** The API's join decides with the game it loaded before it
  took the lock, and can enter a finished game (and overbook a shrunk one).
- **`QrFormat`** The copy of the format around the upper left finder is written
  with rows and columns exchanged, so that it differs from the other copy, by
  which the codes are read.

Behaviour the models show that no property forbids:

- *Ratings.* Two finishes at once overwrite each other's ratings. A winner who
  is no active player of the game gets a bonus that no history row records.
- *GameJobs.* An update of the duration alone reschedules nothing; one of the
  date drops the reminder, the release and the publication. A voting whose
  message Telegram refuses to delete stays next to the new one, and the game
  knows the new one only (`tasks.py:79-87`). A voting from which Telegram refuses
  to take the keyboard stays open for good, its election spent
  (`tasks.py:184-196`). A job that fails between its commit and the scheduling of
  the election (`tasks.py:120-131`) leaves the election of before, which may be
  due too early or not exist; one that fails between sending and the commit
  leaves a voting the game does not know. A deletion that fails has cancelled the
  election all the same.
- *Ballots.* The job and the finish elect different players if team A or B is
  empty on the pitch. Votes are accepted after the voting has closed. The
  server does not compare the choices of a page with what it showed: the model
  takes them from there, as the page does.
- *Accounts.* An account with a profile or rights in a group cannot be merged
  away: the deletion fails by its foreign key and everything is rolled back.
  Cards of the old account go with it. A vote of the old account for the new one
  becomes a vote for oneself, and two history rows of one game may result. If
  both accounts are signed up for a game and the new one leaves it between the
  merge's read and its commit (`user_repository.py:140-147`), the old one's
  signup is dropped as a double and neither is left. Two organizers can leave a
  player with two active cards.
- *Inventory.* An item of a lifespan up to the lead is never in stock. One
  without a lifespan, once URGENT, stays so when an update fills it up. An item
  bought with quantity 0 is in stock until it is assessed again. A sweep may
  overwrite the status of an item without lifespan that was bought meanwhile.
  At this commit nothing schedules the job.
- *Payments.* The code of a bank is not checked: 19-2000145399/0800 typed with
  /0300 is a valid IBAN of another bank, and is paid to. Details once given to a game cannot be taken back by an update,
  which does not look at the mode of the group either. The page falls back to the
  group's account, a reminder does not. A reminder to one player is sent whether
  or not he has paid; two organizers who remind everybody write to everybody
  twice; two of them who mark the same payment at once leave one mark.
- *PublicView.* The bot's joins and leaves evict the cache before the commit
  only; the life time of the entry is what ends the old answer. Two refreshes may
  edit out of order.
- *Announce.* Nothing but a game created in a channel and the handler of
  forwards ever sets the channel of a game, and only the scheduled publication
  posts there with the link by which the forward is known.

## 7. What is not modelled

- Tenancy: rows a middleware creates and organizers edit; the insertion of groups
  and rights is in `Accounts`, policies are constants of the other models. The
  approval of a group is a flag of its row, read when a game is created.
- The bot's dialogs (their states are per user, and the joins and leaves they end
  in are Roster's), locales, presets, front ends, banners, wiring and migrations.
- The event stream: its consumer only logs.
- Command line tools other than the roster repair: they rewrite tables by hand
  while nothing else runs.
- In the modelled parts: texts and languages, direct messages to promoted
  players, missed jobs, the snake and random balancers (only tests use them),
  goals, leaderboards and rankings, names and notes of inventory, the SVG of a
  code. A
  republication that reopens a finished game is in Roster, but Ratings checks
  only games that stay finished; the ledgers are checked without merges.

## 8. Plan

Written in the order of what matters most to players: Roster with Waitlist,
Ratings, GameJobs, Balancer, PublicView; then Ballots, Inventory, Accounts,
Payments and Announce, with the proofs of section 5.

What would add most next:

1. Proofs: which of the theorems about `LockedOps` survive with the unlocked
   tools (`RespectsSignupLimit` and `ReleaseIsAtomic` speak of the moment of a
   commit, and may not).
2. Compositions: Ratings with the ballots of `Ballots` in place of `Electable`,
   and with games that are published again after their finish.
3. `Tenancy`: approval and policies of a group that change while games are
   created in it and jobs are scheduled by them.
