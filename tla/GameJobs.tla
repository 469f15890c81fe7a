------------------------------ MODULE GameJobs -------------------------------
(***************************************************************************)
(* The timed jobs of one game (SchedulerService and its Redis job store),  *)
(* the requests that schedule and cancel them (create_game, update_game,   *)
(* delete_game, trigger_voting), and the voting they open and close        *)
(* (send_voting_message, calculate_mvp).                                   *)
(*                                                                         *)
(* Jobs are kept in Redis, outside the database transaction: they change   *)
(* the moment they are scheduled, whether or not the request commits.      *)
(* Requests and jobs interleave at their awaits; all of them are over      *)
(* before time moves on.                                                   *)
(*                                                                         *)
(* Telegram may refuse any call, which the code logs and passes over, and  *)
(* any request or job may fail half way.  The voting messages that kept    *)
(* their keyboard, or lost their election, by such a failure are recorded  *)
(* in stranded, which no action reads.                                     *)
(***************************************************************************)
EXTENDS Integers, FiniteSets

CONSTANTS
  Procs,         \* requests and jobs at work at the same time
  Dates,         \* kickoffs a game may be given
  Durations,     \* lengths of a match
  Lead,          \* how long before kickoff the reminder is sent (3 h)
  GkHours,       \* how long after creation reserved places are released
  Day,           \* from the end of a match to its election (24 h)
  Window,        \* mvp_voting_window_hours
  Horizon,       \* bound on time
  Announced,     \* when a game may be announced
  MaxRequests,   \* bound on the requests of organizers
  TriggerTimes,  \* bound on when organizers open a voting by hand
  Overlap,       \* whether they do so while another request or job is at work,
                 \* or in the instant in which the voting falls due
  MovesBack,     \* whether they move a game into the past
  Reopens        \* whether they publish teams again once the voting is closed

ASSUME JobParameters ==
  /\ IsFiniteSet(Procs)
  /\ Dates \subseteq Nat /\ Durations \subseteq Nat \ {0}
  /\ Lead \in Nat /\ GkHours \in Nat /\ Day \in Nat \ {0} /\ Window \in Nat \ {0}
  /\ {Horizon, MaxRequests} \subseteq Nat /\ Announced \cup TriggerTimes \subseteq Nat
  /\ {Overlap, MovesBack, Reopens} \subseteq BOOLEAN

VARIABLES
  now,
  phase,    \* "none", "kept" or "deleted": the row of the game
  game,     \* its date, its duration and the voting message it knows
  jobs,     \* when each job of the game is due; None if it is not in the store
  open,     \* voting messages with a keyboard, and when they were sent
  stranded, \* voting messages a refused call or a failure has left behind
  asked,    \* how many requests organizers have made
  txn       \* how far each request or job has come

posts == <<open, stranded>>
vars == <<now, phase, game, jobs, posts, asked, txn>>

Kinds == {"voting", "mvp", "gk_release", "publish", "reminder"}
None  == -1
Idle  == [at |-> "idle"]

Init ==
  /\ now = 0
  /\ phase = "none"
  /\ game \in [date : Dates, duration : Durations, message : {None}]
  /\ jobs = [k \in Kinds |-> None]
  /\ open = {}
  /\ stranded = {}
  /\ asked = 0
  /\ txn = [p \in Procs |-> Idle]

Become(p, t) == txn' = [txn EXCEPT ![p] = t]
Quiet == \A p \in Procs : txn[p] = Idle

(***************************************************************************)
(* SchedulerService: a job is added only if it lies ahead, and replaces    *)
(* the one with its id.                                                    *)
(***************************************************************************)
Schedule(store, k, due) == IF due > now THEN [store EXCEPT ![k] = due] ELSE store

\* (mutated: the end of the voting is not scheduled with its beginning)
ScheduleVotingOnly(store, date, duration) == Schedule(store, "voting", date + duration)

ScheduleVoting(store, date, duration) ==
  Schedule(Schedule(store, "voting", date + duration), "mvp", date + duration + Day)

ScheduleLifecycle(store, date, duration) ==
  LET voting   == ScheduleVoting(store, date, duration)
      released == IF GkHours > 0 THEN Schedule(voting, "gk_release", now + GkHours)
                                 ELSE voting
  IN  Schedule(released, "reminder", date - Lead)

\* cancel_game_tasks passes over the jobs that the store refuses to remove.
Cancelled == {[k \in Kinds |-> IF k \in left THEN jobs[k] ELSE None] :
                left \in SUBSET {k \in Kinds : jobs[k] # None}}

\* Keyboards.
OpenIds      == {o.id : o \in open}
Without(ids) == {o \in open : o.id \notin ids}

(***************************************************************************)
(* create_game.  A game of the past is recorded without jobs.              *)
(***************************************************************************)
Create(p) ==
  /\ phase = "none" /\ Quiet
  /\ \E announced \in Announced :
       jobs' = IF game.date < now THEN jobs
               ELSE ScheduleLifecycle(Schedule(jobs, "publish", announced),
                                      game.date, game.duration)
  /\ Become(p, [at |-> "create"])
  /\ UNCHANGED <<now, phase, game, posts>>

CreateCommit(p) ==
  /\ txn[p].at = "create"
  /\ phase' = "kept"
  /\ Become(p, Idle)
  /\ UNCHANGED <<now, game, jobs, posts>>

(***************************************************************************)
(* update_game: the route loads the game and awaits the rights check; a    *)
(* date other than the one loaded cancels every job and schedules the      *)
(* voting, with the duration loaded; then the changed columns are written. *)
(***************************************************************************)
UpdateBegin(p) ==
  /\ phase = "kept" /\ txn[p] = Idle
  /\ \E date \in Dates, duration \in Durations :
       /\ MovesBack \/ date > now \/ date = game.date
       /\ Become(p, [at |-> "update", loaded |-> game, date |-> date, duration |-> duration])
  /\ UNCHANGED <<now, phase, game, jobs, posts>>

UpdateJobs(p) ==
  LET t == txn[p] IN
  /\ t.at = "update"
  /\ jobs' \in IF t.date = t.loaded.date THEN {jobs}
               ELSE {ScheduleVoting(store, t.date, t.loaded.duration) : store \in Cancelled}
  /\ Become(p, [t EXCEPT !.at = "updated"])
  /\ UNCHANGED <<now, phase, game, posts>>

\* A game deleted meanwhile fails the flush.
UpdateCommit(p) ==
  LET t       == txn[p]
      new(column, loaded, given) == IF given = loaded THEN column ELSE given
  IN
  /\ t.at = "updated"
  /\ phase = "kept"
  /\ game' = [game EXCEPT !.date = new(@, t.loaded.date, t.date),
                          !.duration = new(@, t.loaded.duration, t.duration)]
  /\ Become(p, Idle)
  /\ UNCHANGED <<now, phase, jobs, posts>>

(***************************************************************************)
(* delete_game: jobs are cancelled and messages deleted before the row.    *)
(***************************************************************************)
DeleteBegin(p) ==
  /\ phase = "kept" /\ txn[p] = Idle
  /\ Become(p, [at |-> "delete", message |-> game.message])
  /\ UNCHANGED <<now, phase, game, jobs, posts>>

DeleteJobs(p) ==
  /\ txn[p].at = "delete"
  /\ jobs' \in Cancelled
  /\ Become(p, [txn[p] EXCEPT !.at = "deleted"])
  /\ UNCHANGED <<now, phase, game, posts>>

\* The voting message is deleted after the others; it stays if Telegram
\* refuses one of those.
DeleteCommit(p) ==
  /\ txn[p].at = "deleted"
  /\ phase = "kept"
  /\ open' \in {open, Without({txn[p].message})}
  /\ phase' = "deleted"
  /\ Become(p, Idle)
  /\ UNCHANGED <<now, game, jobs, stranded>>

(***************************************************************************)
(* send_voting_message, by its job or by an organizer.                     *)
(***************************************************************************)
Begun == [at |-> "send", old |-> game.message]

Trigger(p) ==
  /\ phase = "kept" /\ txn[p] = Idle
  /\ now \in TriggerTimes
  /\ Overlap \/ (Quiet /\ jobs["voting"] # now)
  /\ Become(p, Begun)
  /\ UNCHANGED <<now, phase, game, jobs, posts>>

\* (mutated: the message sent before is not asked to be deleted)
ReplacedNone(t) == {}

\* What Telegram is asked to delete: the message the game knew when the job
\* began.
Replaced(t) == {t.old}

\* The ids of messages, and those a request or job remembers.
UsedIds ==
  OpenIds \cup stranded \cup {game.message}
    \cup {txn[q].old : q \in {q \in Procs : txn[q].at = "send"}}
    \cup {txn[q].message : q \in {q \in Procs : txn[q].at \in
             {"opened", "schedule", "close", "finished", "published", "delete", "deleted"}}}
    \cup {txn[q].loaded.message : q \in {q \in Procs : txn[q].at \in {"update", "updated"}}}

NewId ==
  CHOOSE i \in 0..Cardinality(UsedIds) :
    i \notin UsedIds /\ \A j \in 0..(i - 1) : j \in UsedIds

\* The new message is sent whether or not Telegram deletes the old one.
Send(p) ==
  LET new == [id |-> NewId, sent |-> now]
  IN
  /\ txn[p].at = "send"
  /\ \/ open' = Without(Replaced(txn[p])) \cup {new} /\ stranded' = stranded
     \/ open' = open \cup {new} /\ stranded' = stranded \cup Replaced(txn[p])
  /\ Become(p, [at |-> "opened", message |-> NewId])
  /\ UNCHANGED <<now, phase, game, jobs>>

\* Nobody plays, or Telegram refuses the new message, or the job fails here.
SendNothing(p) ==
  /\ txn[p].at = "send"
  /\ open' \in {open, Without(Replaced(txn[p]))}
  /\ Become(p, Idle)
  /\ UNCHANGED <<now, phase, game, jobs, stranded>>

SendCommit(p) ==
  /\ txn[p].at = "opened"
  /\ phase = "kept"
  /\ game' = [game EXCEPT !.message = txn[p].message]
  /\ Become(p, [at |-> "schedule", message |-> txn[p].message])
  /\ UNCHANGED <<now, phase, jobs, posts>>

\* (mutated: an election already scheduled is kept)
SendScheduleKeeps(p) ==
  /\ txn[p].at = "schedule"
  /\ jobs' = IF jobs["mvp"] # None THEN jobs ELSE Schedule(jobs, "mvp", now + Window)
  /\ Become(p, Idle)
  /\ UNCHANGED <<now, phase, game, posts>>

SendSchedule(p) ==
  /\ txn[p].at = "schedule"
  /\ jobs' = Schedule(jobs, "mvp", now + Window)
  /\ Become(p, Idle)
  /\ UNCHANGED <<now, phase, game, posts>>

(***************************************************************************)
(* The scheduler takes a due job out of the store and starts it.  The      *)
(* other kinds of jobs touch neither the schedule nor the voting: what a   *)
(* release does is module Roster's.                                        *)
(***************************************************************************)
Started(k) ==
  IF phase # "kept" THEN Idle
  ELSE CASE k = "voting" -> Begun
         [] k = "mvp"    -> [at |-> "close", message |-> game.message]
         [] OTHER        -> Idle

Fire(p, k) ==
  /\ txn[p] = Idle
  /\ jobs[k] = now
  /\ jobs' = [jobs EXCEPT ![k] = None]
  /\ Become(p, Started(k))
  /\ UNCHANGED <<now, phase, game, posts>>

\* calculate_mvp asks Telegram to take the keyboard off, and never again if
\* that is refused; whom it elects is module Ratings'.
\* (mutated: it does not ask)
CloseKeeps(p) ==
  /\ txn[p].at = "close"
  /\ Become(p, Idle)
  /\ UNCHANGED <<now, phase, game, jobs, posts>>

Close(p) ==
  /\ txn[p].at = "close"
  /\ \/ open' = Without({txn[p].message}) /\ stranded' = stranded
     \/ open' = open /\ stranded' = stranded \cup {txn[p].message}
  /\ Become(p, Idle)
  /\ UNCHANGED <<now, phase, game, jobs>>

(***************************************************************************)
(* The listeners of the event bus read the message of a game that has been *)
(* finished or whose teams have been published, and edit it: the first     *)
(* takes the keyboard off, the second writes it anew.                      *)
(***************************************************************************)
Heard(p, event) ==
  /\ phase = "kept" /\ txn[p] = Idle
  /\ game.message # None
  /\ Become(p, [at |-> event, message |-> game.message])
  /\ UNCHANGED <<now, phase, game, jobs, posts>>

FinishedEdit(p) ==
  /\ txn[p].at = "finished"
  /\ open' \in {open, Without({txn[p].message})}
  /\ Become(p, Idle)
  /\ UNCHANGED <<now, phase, game, jobs, stranded>>

PublishedEdit(p) ==
  LET closed   == \A o \in open : o.id # txn[p].message
      reopened == open \cup {[id |-> txn[p].message, sent |-> now]}
  IN
  /\ txn[p].at = "published"
  /\ open' \in {open, IF Reopens /\ closed THEN reopened ELSE open}
  /\ Become(p, Idle)
  /\ UNCHANGED <<now, phase, game, jobs, stranded>>

(***************************************************************************)
(* A request or job that fails keeps what it did to the store and to       *)
(* Telegram.  The row of a game that is gone cannot be written, one that   *)
(* has got a new signup or vote cannot be deleted, and the database, the   *)
(* job store and the process may fail wherever they are called.            *)
(***************************************************************************)

\* Before anything has been done.  The jobs of a creation that fails are
\* those of an id that is never given again.
FailEarly(p) ==
  /\ txn[p].at \in {"create", "update", "updated", "delete"}
  /\ jobs' = IF txn[p].at = "create" THEN [k \in Kinds |-> None] ELSE jobs
  /\ UNCHANGED posts

\* An update may come no further than cancelling the jobs, or scheduling the
\* first of two; and what was open has lost its election.
FailRescheduling(p) ==
  LET t == txn[p] IN
  /\ t.at = "update"
  /\ t.date # t.loaded.date
  /\ \E store \in Cancelled :
       jobs' \in {store, Schedule(store, "voting", t.date + t.loaded.duration)}
  /\ stranded' = stranded \cup OpenIds
  /\ UNCHANGED open

\* A deletion that fails may have cancelled the election and deleted the
\* message.
FailDeleting(p) ==
  /\ txn[p].at = "deleted"
  /\ open' \in {open, Without({txn[p].message})}
  /\ stranded' = IF jobs["mvp"] = None THEN stranded \cup OpenIds ELSE stranded
  /\ UNCHANGED jobs

\* A voting that was sent and is not known, or has got no election of its
\* own, or whose election fails before it has closed it.
FailVoting(p) ==
  /\ txn[p].at \in {"opened", "schedule", "close"}
  /\ stranded' = stranded \cup {txn[p].message}
  /\ UNCHANGED <<open, jobs>>

Fail(p) ==
  /\ FailEarly(p) \/ FailRescheduling(p) \/ FailDeleting(p) \/ FailVoting(p)
  /\ Become(p, Idle)
  /\ UNCHANGED <<now, phase, game>>

Tick ==
  /\ Quiet
  /\ now < Horizon
  /\ \A k \in Kinds : jobs[k] # now
  /\ now' = now + 1
  /\ stranded' = stranded \cap OpenIds
  /\ UNCHANGED <<phase, game, jobs, open, asked, txn>>

Work(p) ==
  /\ \/ CreateCommit(p) \/ UpdateJobs(p) \/ UpdateCommit(p)
     \/ DeleteJobs(p) \/ DeleteCommit(p)
     \/ Send(p) \/ SendNothing(p) \/ SendCommit(p) \/ SendSchedule(p)
     \/ Close(p) \/ FinishedEdit(p) \/ PublishedEdit(p) \/ Fail(p)
     \/ \E k \in Kinds : Fire(p, k)
  /\ UNCHANGED asked

Request(p) ==
  /\ \/ Create(p) \/ UpdateBegin(p) \/ DeleteBegin(p) \/ Trigger(p)
     \/ Heard(p, "finished") \/ Heard(p, "published")
  /\ asked < MaxRequests
  /\ asked' = asked + 1

Next == Tick \/ \E p \in Procs : Work(p) \/ Request(p)

Spec == Init /\ [][Next]_vars

\* Time passes, the scheduler starts what is due and no request hangs.
Fairness == WF_vars(Tick) /\ \A p \in Procs : WF_vars(Work(p))

FairSpec == Spec /\ Fairness

(***************************************************************************)
(* Properties.                                                             *)
(***************************************************************************)

\* Between requests and jobs every voting that is open is the one the game
\* knows, which the next voting or the election will find, or Telegram has
\* refused to delete it, or the request or job that dealt with it has failed.
OneOpenVoting ==
  Quiet /\ phase = "kept" => \A o \in open : o.id = game.message \/ o.id \in stranded

\* A voting that is open has an election ahead, unless a refused call or a
\* failed request has left it behind.
ElectionFollows ==
  Quiet /\ phase = "kept" /\ ~ (OpenIds \subseteq stranded) => jobs["mvp"] # None

\* calculate_mvp takes the keyboard off no voting that has not been open for
\* the whole window ("Schedules automatic MVP calculation according to
\* TenantPolicy.mvp_voting_window_hours", tasks.py:23), unless the job that
\* opened it failed before it had scheduled its election.
FullWindow ==
  [][\A p \in Procs, o \in open :
       /\ txn[p].at = "close" /\ txn'[p] = Idle
       /\ o \notin open' /\ o.id \notin stranded
       => now >= o.sent + Window]_vars

\* Whoever opens a voting, it is closed in the end, or the game is deleted,
\* or it is left behind by a refused call or a failure.
VotingCloses ==
  ~ (OpenIds \subseteq stranded) ~> (OpenIds \subseteq stranded \/ phase = "deleted")
=============================================================================
