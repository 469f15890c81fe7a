--------------------------- MODULE ElectionProofs ---------------------------
(***************************************************************************)
(* Proofs about the election of a game: GameJobs says when it is open,     *)
(* Ballots who votes for whom.                                             *)
(*                                                                         *)
(* GameJobs, for any requests, dates and durations: between                *)
(* requests every voting that is open is the one the game knows, and an    *)
(* election is scheduled for it, but for those left behind by a call that  *)
(* Telegram refused or by a request or job that failed.  They hold as long *)
(* as nobody opens a voting by hand while another request or job is at     *)
(* work, moves a game into the past or publishes teams after the voting.   *)
(*                                                                         *)
(* Neither is inductive: between its statements a job has sent a message   *)
(* the game does not know yet, or has no election scheduled yet.           *)
(*                                                                         *)
(* And a voting stays open for its whole window, if the window is no       *)
(* longer than a day and no election falls due while another voting is     *)
(* between its commit and the scheduling of its own.                       *)
(***************************************************************************)
EXTENDS GameJobs, Ballots, FiniteSetTheorems, WellFoundedInduction, TLAPS

Orderly == ~Overlap /\ ~MovesBack /\ ~Reopens

Jobs(l) == {p \in Procs : txn[p].at = l}

\* Types, as far as they matter, and what an update is going to write.
Typed ==
  /\ now \in Nat
  /\ jobs \in [Kinds -> Int]
  /\ DOMAIN game = {"date", "duration", "message"}
  /\ game.date \in Nat /\ game.duration \in Nat \ {0}
  /\ DOMAIN txn = Procs
  /\ \A p \in Procs : "at" \in DOMAIN txn[p]
  /\ \A p \in Procs : txn[p].at \in {"update", "updated"} =>
       /\ txn[p].date \in Nat /\ txn[p].duration \in Nat \ {0}
       /\ txn[p].loaded.duration \in Nat \ {0}
       /\ txn[p].date > now \/ txn[p].date = txn[p].loaded.date

\* A game is created alone, and nothing of it is open before.
Newborn ==
  /\ phase = "none" => open = {} /\ \A p \in Procs : txn[p].at \in {"idle", "create"}
  /\ \A p \in Jobs("create") : phase = "none" /\ \A q \in Procs : txn[q].at = "create" => q = p

\* One voting is opened at a time, of which the game knows the last.
Openers == Jobs("send") \cup Jobs("opened") \cup Jobs("schedule")

Sending ==
  /\ \A p, q \in Openers : p = q
  /\ Openers # {} => jobs["voting"] # now
  /\ \A p \in Jobs("send") : txn[p].old = game.message
  /\ \A p \in Jobs("schedule") : txn[p].message = game.message

Known ==
  phase = "kept" =>
    IF Jobs("opened") = {} THEN \A o \in open : o.id = game.message \/ o.id \in stranded
    ELSE \A p \in Jobs("opened"), o \in open : o.id = txn[p].message \/ o.id \in stranded

\* Whoever is going to schedule an election, to close what is open, or to
\* delete the game.
Elected ==
  phase = "kept" /\ ~ (OpenIds \subseteq stranded) =>
    \/ jobs["mvp"] # None
    \/ Jobs("opened") \cup Jobs("schedule") \cup Jobs("deleted") # {}
    \/ \E p \in Jobs("close") : \A o \in open : o.id \in stranded \/ o.id = txn[p].message

\* Abbreviations, expanded in every proof.
USE DEF posts, OpenIds, Openers

\* The inductive invariant.
JobsInv == Typed /\ Newborn /\ Sending /\ Known /\ Elected

LEMMA JobsInit == Init => JobsInv
<1> SUFFICES ASSUME Init PROVE JobsInv
  OBVIOUS
<1>1. \A p \in Procs : txn[p].at = "idle"
  BY DEF Init, Idle
<1>2. Typed
  <2>1. now \in Nat /\ jobs \in [Kinds -> Int]
    BY DEF Init, None
  <2>2. game \in [date : Dates, duration : Durations, message : {None}]
    BY DEF Init
  <2>3. DOMAIN game = {"date", "duration", "message"} /\ game.date \in Dates /\ game.duration \in Durations
    BY <2>2
  <2>4. DOMAIN txn = Procs /\ \A p \in Procs : "at" \in DOMAIN txn[p]
    BY DEF Init, Idle
  <2> QED BY <2>1, <2>3, <2>4, <1>1, JobParameters DEF Typed
<1>3. phase = "none" /\ open = {}
  BY DEF Init
<1> QED BY <1>1, <1>2, <1>3 DEF JobsInv, Newborn, Sending, Known, Elected, Jobs

LEMMA Becomes ==
  ASSUME JobsInv, NEW p \in Procs, NEW t, Become(p, t)
  PROVE  DOMAIN txn' = Procs /\ \A q \in Procs : txn'[q] = IF q = p THEN t ELSE txn[q]
  BY DEF JobsInv, Typed, Become

\* What is left of the store once jobs have been cancelled.
LEMMA CancelledType ==
  ASSUME jobs \in [Kinds -> Int], NEW store \in Cancelled
  PROVE  store \in [Kinds -> Int] /\ \A k \in Kinds : store[k] \in {jobs[k], None}
  BY DEF Cancelled, None

LEMMA CreateCommitStep ==
  ASSUME Orderly, JobsInv, NEW p \in Procs, CreateCommit(p)
  PROVE  JobsInv'
<1>1. Typed'
  BY JobParameters, Becomes DEF Orderly, JobsInv, Typed, CreateCommit, Idle
<1>2. Newborn'
  BY Becomes DEF JobsInv, Newborn, Jobs, CreateCommit, Idle
<1>3. Sending'
  BY Becomes DEF JobsInv, Sending, Jobs, CreateCommit, Idle
<1>4. Known'
  BY Becomes DEF JobsInv, Newborn, Known, Jobs, CreateCommit, Idle
<1>5. Elected'
  BY Becomes DEF JobsInv, Newborn, Elected, Jobs, CreateCommit, Idle
<1> QED BY <1>1, <1>2, <1>3, <1>4, <1>5 DEF JobsInv

LEMMA UpdateBeginStep ==
  ASSUME Orderly, JobsInv, NEW p \in Procs, UpdateBegin(p)
  PROVE  JobsInv'
<1>1. Typed'
  BY JobParameters, Becomes DEF Orderly, JobsInv, Typed, UpdateBegin, Idle
<1>2. Newborn'
  BY Becomes DEF JobsInv, Newborn, Jobs, UpdateBegin, Idle
<1>3. Sending'
  BY Becomes DEF JobsInv, Sending, Jobs, UpdateBegin, Idle
<1>4. Known'
  BY Becomes DEF Orderly, JobsInv, Known, Jobs, UpdateBegin, Idle
<1>5. Elected'
  BY Becomes DEF Orderly, JobsInv, Elected, Jobs, UpdateBegin, Idle
<1> QED BY <1>1, <1>2, <1>3, <1>4, <1>5 DEF JobsInv

LEMMA UpdateJobsStep ==
  ASSUME Orderly, JobsInv, NEW p \in Procs, UpdateJobs(p)
  PROVE  JobsInv'
<1> DEFINE t == [txn[p] EXCEPT !.at = "updated"]
<1>1. t.at = "updated" /\ "at" \in DOMAIN t /\ t.date = txn[p].date /\ t.duration = txn[p].duration /\ t.loaded = txn[p].loaded
  BY DEF JobsInv, Typed
<1>2. Become(p, t) /\ txn[p].at = "update" /\ UNCHANGED <<now, phase, game, open, stranded>>
  BY DEF UpdateJobs
<1> HIDE DEF t
<1>3. DOMAIN txn' = Procs /\ \A q \in Procs : txn'[q] = IF q = p THEN t ELSE txn[q]
  BY <1>2, Becomes
<1>4. /\ jobs' \in [Kinds -> Int]
      /\ jobs'["voting"] # now \/ jobs'["voting"] = jobs["voting"]
      /\ jobs'["mvp"] # None \/ jobs'["mvp"] = jobs["mvp"]
  <2> DEFINE u == txn[p]
  <2>1. /\ now \in Nat /\ jobs \in [Kinds -> Int]
        /\ u.date \in Nat /\ u.loaded.duration \in Nat \ {0}
        /\ u.date > now \/ u.date = u.loaded.date
        /\ jobs' \in IF u.date = u.loaded.date THEN {jobs}
                     ELSE {ScheduleVoting(store, u.date, u.loaded.duration) : store \in Cancelled}
    BY <1>2 DEF JobsInv, Typed, UpdateJobs
  <2> HIDE DEF u
  <2>2. CASE u.date = u.loaded.date
    BY <2>1, <2>2
  <2>3. CASE u.date # u.loaded.date
    <3>1. PICK store \in Cancelled : jobs' = ScheduleVoting(store, u.date, u.loaded.duration)
      BY <2>1, <2>3
    <3>2. store \in [Kinds -> Int]
      BY <2>1, CancelledType
    <3> QED BY <2>1, <2>3, <3>1, <3>2, JobParameters DEF ScheduleVoting, Schedule, Kinds, None
  <2> QED BY <2>2, <2>3
<1>5. Typed'
  BY <1>1, <1>2, <1>3, <1>4 DEF JobsInv, Typed
<1>6. Newborn'
  BY <1>1, <1>2, <1>3 DEF JobsInv, Newborn, Jobs
<1>7. Sending'
  BY <1>1, <1>2, <1>3, <1>4 DEF JobsInv, Sending, Jobs
<1>8. Known'
  BY <1>1, <1>2, <1>3 DEF JobsInv, Known, Jobs
<1>9. Elected'
  BY <1>1, <1>2, <1>3, <1>4 DEF JobsInv, Elected, Jobs
<1> QED BY <1>5, <1>6, <1>7, <1>8, <1>9 DEF JobsInv

LEMMA UpdateCommitStep ==
  ASSUME Orderly, JobsInv, NEW p \in Procs, UpdateCommit(p)
  PROVE  JobsInv'
<1>1. Typed'
  BY JobParameters, Becomes DEF Orderly, JobsInv, Typed, UpdateCommit, Idle
<1>2. Newborn'
  BY Becomes DEF JobsInv, Newborn, Jobs, UpdateCommit, Idle
<1>3. Sending'
  BY Becomes DEF JobsInv, Sending, Jobs, UpdateCommit, Idle
<1>4. Known'
  BY Becomes DEF Orderly, JobsInv, Known, Jobs, UpdateCommit, Idle
<1>5. Elected'
  BY Becomes DEF Orderly, JobsInv, Elected, Jobs, UpdateCommit, Idle
<1> QED BY <1>1, <1>2, <1>3, <1>4, <1>5 DEF JobsInv

LEMMA DeleteBeginStep ==
  ASSUME Orderly, JobsInv, NEW p \in Procs, DeleteBegin(p)
  PROVE  JobsInv'
<1>1. Typed'
  BY JobParameters, Becomes DEF Orderly, JobsInv, Typed, DeleteBegin, Idle
<1>2. Newborn'
  BY Becomes DEF JobsInv, Newborn, Jobs, DeleteBegin, Idle
<1>3. Sending'
  BY Becomes DEF JobsInv, Sending, Jobs, DeleteBegin, Idle
<1>4. Known'
  BY Becomes DEF Orderly, JobsInv, Known, Jobs, DeleteBegin, Idle
<1>5. Elected'
  BY Becomes DEF Orderly, JobsInv, Elected, Jobs, DeleteBegin, Idle
<1> QED BY <1>1, <1>2, <1>3, <1>4, <1>5 DEF JobsInv

LEMMA DeleteJobsStep ==
  ASSUME Orderly, JobsInv, NEW p \in Procs, DeleteJobs(p)
  PROVE  JobsInv'
<1> DEFINE t == [txn[p] EXCEPT !.at = "deleted"]
<1>1. t.at = "deleted" /\ "at" \in DOMAIN t /\ t.message = txn[p].message
  BY DEF JobsInv, Typed
<1>2. Become(p, t) /\ txn[p].at = "delete" /\ UNCHANGED <<now, phase, game, open, stranded>>
  BY DEF DeleteJobs
<1> HIDE DEF t
<1>3. DOMAIN txn' = Procs /\ \A q \in Procs : txn'[q] = IF q = p THEN t ELSE txn[q]
  BY <1>2, Becomes
<1>4. jobs' \in [Kinds -> Int] /\ jobs'["voting"] \in {jobs["voting"], None} /\ now # None
  BY CancelledType DEF JobsInv, Typed, DeleteJobs, Kinds, None
<1>5. Typed'
  BY <1>1, <1>2, <1>3, <1>4 DEF JobsInv, Typed
<1>6. Newborn'
  BY <1>1, <1>2, <1>3 DEF JobsInv, Newborn, Jobs
<1>7. Sending'
  BY <1>1, <1>2, <1>3, <1>4 DEF JobsInv, Sending, Jobs
<1>8. Known'
  BY <1>1, <1>2, <1>3 DEF JobsInv, Known, Jobs
<1>9. Elected'
  <2>1. p \in Jobs("deleted")'
    BY <1>1, <1>3 DEF Jobs
  <2> QED BY <2>1 DEF Elected
<1> QED BY <1>5, <1>6, <1>7, <1>8, <1>9 DEF JobsInv

LEMMA DeleteCommitStep ==
  ASSUME Orderly, JobsInv, NEW p \in Procs, DeleteCommit(p)
  PROVE  JobsInv'
<1>1. Typed'
  BY JobParameters, Becomes DEF Orderly, JobsInv, Typed, DeleteCommit, Idle
<1>2. Newborn'
  BY Becomes DEF JobsInv, Newborn, Jobs, DeleteCommit, Idle
<1>3. Sending'
  BY Becomes DEF JobsInv, Sending, Jobs, DeleteCommit, Idle
<1>4. Known'
  BY Becomes DEF Orderly, JobsInv, Known, Jobs, DeleteCommit, Idle
<1>5. Elected'
  BY Becomes DEF Orderly, JobsInv, Elected, Jobs, DeleteCommit, Idle
<1> QED BY <1>1, <1>2, <1>3, <1>4, <1>5 DEF JobsInv

LEMMA TriggerStep ==
  ASSUME Orderly, JobsInv, NEW p \in Procs, Trigger(p)
  PROVE  JobsInv'
<1>1. Typed'
  BY Becomes DEF JobsInv, Typed, Trigger, Begun
<1>2. Newborn'
  BY Becomes DEF JobsInv, Newborn, Jobs, Trigger, Begun, Idle
<1>3. Sending'
  BY Becomes DEF Orderly, JobsInv, Sending, Jobs, Trigger, Begun, Quiet, Kinds, Idle
<1>4. Known'
  BY Becomes DEF JobsInv, Known, Jobs, Trigger, Begun, Idle
<1>5. Elected'
  BY Becomes DEF JobsInv, Elected, Jobs, Trigger, Begun, Idle
<1> QED BY <1>1, <1>2, <1>3, <1>4, <1>5 DEF JobsInv

LEMMA SendStep ==
  ASSUME Orderly, JobsInv, NEW p \in Procs, Send(p)
  PROVE  JobsInv'
<1> DEFINE t == [at |-> "opened", message |-> NewId]
           new == [id |-> NewId, sent |-> now]
<1>1. /\ txn[p].at = "send" /\ txn[p].old = game.message /\ Jobs("opened") = {}
      /\ \/ open' = {o \in open : o.id # txn[p].old} \cup {new} /\ stranded' = stranded
         \/ open' = open \cup {new} /\ stranded' = stranded \cup {txn[p].old}
      /\ Become(p, t) /\ UNCHANGED <<now, phase, game, jobs>>
  <2>1. Without(Replaced(txn[p])) = {o \in open : o.id # txn[p].old}
    BY DEF Without, Replaced
  <2>2. txn[p].at = "send" /\ txn[p].old = game.message /\ Jobs("opened") = {}
    BY DEF JobsInv, Sending, Jobs, Send
  <2>3. \/ open' = Without(Replaced(txn[p])) \cup {new} /\ stranded' = stranded
        \/ open' = open \cup {new} /\ stranded' = stranded \cup {txn[p].old}
    BY DEF Send, Replaced
  <2> QED BY <2>1, <2>2, <2>3 DEF Send
<1>2. t.at = "opened" /\ t.message = new.id /\ "at" \in DOMAIN t
  OBVIOUS
<1> HIDE DEF t, new
<1>3. DOMAIN txn' = Procs /\ \A q \in Procs : txn'[q] = IF q = p THEN t ELSE txn[q]
  BY <1>1, Becomes
<1>4. Typed'
  BY <1>1, <1>2, <1>3 DEF JobsInv, Typed
<1>5. Newborn'
  BY <1>1, <1>2, <1>3 DEF JobsInv, Newborn, Jobs
<1>6. Sending'
  BY <1>1, <1>2, <1>3 DEF JobsInv, Sending, Jobs
<1>7. Known'
  <2>1. \A q \in Procs : txn'[q].at = "opened" => q = p
    BY <1>1, <1>3 DEF Jobs
  <2>2. phase = "kept" => \A o \in open' : o = new \/ o.id \in stranded'
    BY <1>1 DEF JobsInv, Known
  <2> QED BY <1>1, <1>2, <1>3, <2>1, <2>2 DEF Known, Jobs
<1>8. Elected'
  <2>1. p \in Jobs("opened")'
    BY <1>2, <1>3 DEF Jobs
  <2> QED BY <2>1 DEF Elected
<1> QED BY <1>4, <1>5, <1>6, <1>7, <1>8 DEF JobsInv

LEMMA SendNothingStep ==
  ASSUME Orderly, JobsInv, NEW p \in Procs, SendNothing(p)
  PROVE  JobsInv'
<1>1. Typed'
  BY JobParameters, Becomes DEF Orderly, JobsInv, Typed, SendNothing, Idle
<1>2. Newborn'
  BY Becomes DEF JobsInv, Newborn, Jobs, SendNothing, Idle
<1>3. Sending'
  BY Becomes DEF JobsInv, Sending, Jobs, SendNothing, Idle
<1>4. Known'
  BY Becomes DEF Orderly, JobsInv, Known, Jobs, SendNothing, Without, Idle
<1>5. Elected'
  BY Becomes DEF Orderly, JobsInv, Elected, Jobs, SendNothing, Without, Idle
<1> QED BY <1>1, <1>2, <1>3, <1>4, <1>5 DEF JobsInv

LEMMA SendCommitStep ==
  ASSUME Orderly, JobsInv, NEW p \in Procs, SendCommit(p)
  PROVE  JobsInv'
<1>1. Typed'
  BY JobParameters, Becomes DEF Orderly, JobsInv, Typed, SendCommit, Idle
<1>2. Newborn'
  BY Becomes DEF JobsInv, Newborn, Jobs, SendCommit, Idle
<1>3. Sending'
  BY Becomes DEF JobsInv, Sending, Jobs, SendCommit, Idle
<1>4. Known'
  BY Becomes DEF Orderly, JobsInv, Known, Jobs, SendCommit, Idle
<1>5. Elected'
  BY Becomes DEF Orderly, JobsInv, Elected, Jobs, SendCommit, Idle
<1> QED BY <1>1, <1>2, <1>3, <1>4, <1>5 DEF JobsInv

LEMMA SendScheduleStep ==
  ASSUME Orderly, JobsInv, NEW p \in Procs, SendSchedule(p)
  PROVE  JobsInv'
<1>1. Typed'
  BY JobParameters, Becomes DEF Orderly, JobsInv, Typed, SendSchedule, Schedule, Kinds, None, Idle
<1>2. Newborn'
  BY Becomes DEF JobsInv, Newborn, Jobs, SendSchedule, Idle
<1>3. Sending'
  BY Becomes DEF JobsInv, Sending, Jobs, SendSchedule, Schedule, Kinds, None, Idle
<1>4. Known'
  BY Becomes DEF Orderly, JobsInv, Known, Jobs, SendSchedule, Idle
<1>5. Elected'
  <2>1. now \in Nat /\ jobs \in [Kinds -> Int]
    BY DEF JobsInv, Typed
  <2>2. jobs'["mvp"] # None
    BY <2>1, JobParameters DEF SendSchedule, Schedule, Kinds, None
  <2> QED BY <2>2 DEF Elected
<1> QED BY <1>1, <1>2, <1>3, <1>4, <1>5 DEF JobsInv

LEMMA CloseStep ==
  ASSUME Orderly, JobsInv, NEW p \in Procs, Close(p)
  PROVE  JobsInv'
<1>1. Typed'
  BY JobParameters, Becomes DEF Orderly, JobsInv, Typed, Close, Idle
<1>2. Newborn'
  BY Becomes DEF JobsInv, Newborn, Jobs, Close, Idle
<1>3. Sending'
  BY Becomes DEF JobsInv, Sending, Jobs, Close, Idle
<1>4. Known'
  BY Becomes DEF Orderly, JobsInv, Known, Jobs, Close, Without, Idle
<1>5. Elected'
  BY Becomes DEF Orderly, JobsInv, Elected, Jobs, Close, Without, Idle
<1> QED BY <1>1, <1>2, <1>3, <1>4, <1>5 DEF JobsInv

LEMMA FinishedEditStep ==
  ASSUME Orderly, JobsInv, NEW p \in Procs, FinishedEdit(p)
  PROVE  JobsInv'
<1>1. Typed'
  BY JobParameters, Becomes DEF Orderly, JobsInv, Typed, FinishedEdit, Idle
<1>2. Newborn'
  BY Becomes DEF JobsInv, Newborn, Jobs, FinishedEdit, Idle
<1>3. Sending'
  BY Becomes DEF JobsInv, Sending, Jobs, FinishedEdit, Idle
<1>4. Known'
  BY Becomes DEF Orderly, JobsInv, Known, Jobs, FinishedEdit, Without, Idle
<1>5. Elected'
  BY Becomes DEF Orderly, JobsInv, Elected, Jobs, FinishedEdit, Without, Idle
<1> QED BY <1>1, <1>2, <1>3, <1>4, <1>5 DEF JobsInv

LEMMA PublishedEditStep ==
  ASSUME Orderly, JobsInv, NEW p \in Procs, PublishedEdit(p)
  PROVE  JobsInv'
<1>1. Typed'
  BY JobParameters, Becomes DEF Orderly, JobsInv, Typed, PublishedEdit, Idle
<1>2. Newborn'
  BY Becomes DEF JobsInv, Newborn, Jobs, PublishedEdit, Idle
<1>3. Sending'
  BY Becomes DEF JobsInv, Sending, Jobs, PublishedEdit, Idle
<1>4. Known'
  BY Becomes DEF Orderly, JobsInv, Known, Jobs, PublishedEdit, Idle
<1>5. Elected'
  BY Becomes DEF Orderly, JobsInv, Elected, Jobs, PublishedEdit, Idle
<1> QED BY <1>1, <1>2, <1>3, <1>4, <1>5 DEF JobsInv

\* What a failure leaves of the store.
LEMMA FailedStore ==
  ASSUME Orderly, JobsInv, NEW p \in Procs, Fail(p)
  PROVE  /\ jobs' \in [Kinds -> Int]
         /\ phase # "none" => jobs'["voting"] # now \/ jobs'["voting"] = jobs["voting"]
<1>1. now \in Nat /\ jobs \in [Kinds -> Int] /\ {"voting", "mvp"} \subseteq Kinds
  BY DEF JobsInv, Typed, Kinds
<1>2. CASE FailEarly(p)
  <2>1. CASE txn[p].at = "create"
    <3>1. phase = "none"
      BY <2>1 DEF JobsInv, Newborn, Jobs
    <3>2. jobs' = [k \in Kinds |-> None]
      BY <1>2, <2>1 DEF FailEarly
    <3> QED BY <3>1, <3>2 DEF None
  <2>2. CASE txn[p].at # "create"
    BY <1>1, <1>2, <2>2 DEF FailEarly
  <2> QED BY <2>1, <2>2
<1>3. CASE FailRescheduling(p)
  <2> DEFINE due == txn[p].date + txn[p].loaded.duration
  <2>1. PICK store \in Cancelled : jobs' \in {store, Schedule(store, "voting", due)}
    BY <1>3 DEF FailRescheduling
  <2>2. store \in [Kinds -> Int] /\ \A k \in Kinds : store[k] \in {jobs[k], None}
    BY <1>1, CancelledType
  <2>3. due \in Nat
    BY <1>3 DEF JobsInv, Typed, FailRescheduling
  <2> HIDE DEF due
  <2> QED BY <1>1, <2>1, <2>2, <2>3 DEF Schedule, None
<1>4. CASE FailDeleting(p) \/ FailVoting(p)
  BY <1>1, <1>4 DEF FailDeleting, FailVoting
<1> QED BY <1>2, <1>3, <1>4 DEF Fail

\* A voting that fails leaves behind every message that is open.
LEMMA FailedVoting ==
  ASSUME JobsInv, NEW p \in Procs, Fail(p), txn[p].at \in {"opened", "schedule"}, phase = "kept"
  PROVE  OpenIds' \subseteq stranded'
<1>1. open' = open /\ stranded' = stranded \cup {txn[p].message}
  BY DEF Fail, FailEarly, FailRescheduling, FailDeleting, FailVoting
<1>2. \A o \in open : o.id = txn[p].message \/ o.id \in stranded
  <2>1. CASE txn[p].at = "opened"
    BY <2>1 DEF JobsInv, Known, Jobs
  <2>2. CASE txn[p].at = "schedule"
    <3>1. Jobs("opened") = {} /\ txn[p].message = game.message
      BY <2>2 DEF JobsInv, Sending, Jobs
    <3> QED BY <3>1 DEF JobsInv, Known
  <2> QED BY <2>1, <2>2
<1> QED BY <1>1, <1>2

\* Whatever fails leaves behind what it has deprived of its election.
LEMMA FailStep ==
  ASSUME Orderly, JobsInv, NEW p \in Procs, Fail(p)
  PROVE  JobsInv'
<1>1. DOMAIN txn' = Procs /\ \A q \in Procs : txn'[q] = IF q = p THEN Idle ELSE txn[q]
  BY Becomes DEF Fail
<1>2. Idle.at = "idle" /\ "at" \in DOMAIN Idle /\ UNCHANGED <<now, phase, game>>
  BY DEF Idle, Fail
<1>3. open' \subseteq open /\ stranded \subseteq stranded'
  BY DEF Fail, FailEarly, FailRescheduling, FailDeleting, FailVoting, Without
<1>4. jobs' \in [Kinds -> Int] /\ (phase # "none" => jobs'["voting"] # now \/ jobs'["voting"] = jobs["voting"])
  BY FailedStore
<1>5. Typed'
  BY <1>1, <1>2, <1>4 DEF JobsInv, Typed
<1>6. Newborn'
  BY <1>1, <1>2, <1>3 DEF JobsInv, Newborn, Jobs
<1>7. Sending'
  BY <1>1, <1>2, <1>4 DEF JobsInv, Newborn, Sending, Jobs
<1>8. Known'
  <2>1. CASE txn[p].at # "opened"
    BY <1>1, <1>2, <1>3, <2>1 DEF JobsInv, Known, Jobs
  <2>2. CASE txn[p].at = "opened"
    BY <1>1, <1>2, <1>3, <2>2, FailedVoting DEF Known
  <2> QED BY <2>1, <2>2
<1>9. Elected'
  <2>1. CASE txn[p].at \in {"opened", "schedule"}
    BY <1>2, <2>1, FailedVoting DEF Elected
  <2>2. CASE txn[p].at = "close"
    <3>1. jobs' = jobs /\ open' = open /\ stranded' = stranded \cup {txn[p].message}
      BY <2>2 DEF Fail, FailEarly, FailRescheduling, FailDeleting, FailVoting
    <3> QED BY <1>1, <1>2, <2>2, <3>1 DEF JobsInv, Elected, Jobs
  <2>3. CASE txn[p].at \notin {"opened", "schedule", "close"}
    <3>1. \/ jobs'["mvp"] = jobs["mvp"] /\ (txn[p].at = "deleted" => jobs["mvp"] # None \/ OpenIds' \subseteq stranded')
          \/ OpenIds' \subseteq stranded'
          \/ txn[p].at = "create"
      BY <2>3 DEF Fail, FailEarly, FailRescheduling, FailDeleting, FailVoting, Without
    <3>2. txn[p].at = "create" => phase = "none"
      BY DEF JobsInv, Newborn, Jobs
    <3> QED BY <1>1, <1>2, <1>3, <2>3, <3>1, <3>2 DEF JobsInv, Elected, Jobs
  <2> QED BY <2>1, <2>2, <2>3
<1> QED BY <1>5, <1>6, <1>7, <1>8, <1>9 DEF JobsInv

LEMMA CreateStep ==
  ASSUME Orderly, JobsInv, NEW p \in Procs, Create(p)
  PROVE  JobsInv'
<1>1. /\ phase = "none" /\ UNCHANGED <<now, phase, game, open>>
      /\ \A q \in Procs : txn[q].at = "idle"
  BY DEF Create, Quiet, Idle
<1>2. DOMAIN txn' = Procs
  BY Becomes DEF Create
<1>3. /\ \A q \in Procs : "at" \in DOMAIN txn'[q]
      /\ \A q \in Procs : txn'[q].at = IF q = p THEN "create" ELSE "idle"
  BY <1>1, Becomes DEF Create, JobsInv, Typed
<1>4. now \in Nat /\ jobs \in [Kinds -> Int] /\ game.date \in Nat /\ game.duration \in Nat
  BY DEF JobsInv, Typed
<1>5. jobs' \in [Kinds -> Int]
  <2>1. \A store \in [Kinds -> Int], k \in Kinds, due \in Int : Schedule(store, k, due) \in [Kinds -> Int]
    BY DEF Schedule
  <2>2. /\ game.date + game.duration \in Int /\ game.date + game.duration + Day \in Int
        /\ now + GkHours \in Int /\ game.date - Lead \in Int
    BY <1>4, JobParameters
  <2>3. {"voting", "mvp", "gk_release", "publish", "reminder"} = Kinds
    BY DEF Kinds
  <2>4. \A store \in [Kinds -> Int] : ScheduleVoting(store, game.date, game.duration) \in [Kinds -> Int]
    BY <2>1, <2>2, <2>3 DEF ScheduleVoting
  <2>5. \A store \in [Kinds -> Int] : ScheduleLifecycle(store, game.date, game.duration) \in [Kinds -> Int]
    BY <2>1, <2>2, <2>3, <2>4 DEF ScheduleLifecycle
  <2>6. Announced \subseteq Int
    BY JobParameters
  <2> QED BY <1>4, <2>1, <2>3, <2>5, <2>6 DEF Create
<1>6. Typed'
  BY <1>1, <1>2, <1>3, <1>5 DEF JobsInv, Typed
<1>7. Newborn'
  BY <1>1, <1>3 DEF JobsInv, Newborn, Jobs
<1>8. Sending'
  BY <1>3 DEF Sending, Jobs
<1>9. Known' /\ Elected'
  BY <1>1 DEF Known, Elected
<1> QED BY <1>6, <1>7, <1>8, <1>9 DEF JobsInv

LEMMA HeardStep ==
  ASSUME Orderly, JobsInv, NEW p \in Procs, NEW event \in {"finished", "published"}, Heard(p, event)
  PROVE  JobsInv'
<1>1. Typed'
  BY Becomes DEF JobsInv, Typed, Heard
<1>2. Newborn'
  BY Becomes DEF JobsInv, Newborn, Jobs, Heard, Idle
<1>3. Sending'
  BY Becomes DEF JobsInv, Sending, Jobs, Heard, Idle
<1>4. Known'
  BY Becomes DEF JobsInv, Known, Jobs, Heard, Idle
<1>5. Elected'
  BY Becomes DEF JobsInv, Elected, Jobs, Heard, Idle
<1> QED BY <1>1, <1>2, <1>3, <1>4, <1>5 DEF JobsInv

LEMMA FireStep ==
  ASSUME Orderly, JobsInv, NEW p \in Procs, NEW k \in Kinds, Fire(p, k)
  PROVE  JobsInv'
<1> DEFINE t == Started(k)
<1>1. /\ "at" \in DOMAIN t /\ t.at \in {"idle", "send", "close"}
      /\ t.at = "send" => k = "voting" /\ phase = "kept" /\ t.old = game.message
      /\ t.at = "close" => t.message = game.message
      /\ phase = "kept" /\ k = "mvp" => t.at = "close"
      /\ phase # "kept" => t.at = "idle"
  <2>1. CASE phase # "kept"
    BY <2>1 DEF Started, Idle
  <2>2. CASE phase = "kept" /\ k = "voting"
    BY <2>2 DEF Started, Begun
  <2>3. CASE phase = "kept" /\ k = "mvp"
    BY <2>3 DEF Started
  <2>4. CASE phase = "kept" /\ k \notin {"voting", "mvp"}
    <3>1. t = Idle
      BY <2>4 DEF Started
    <3>2. Idle.at = "idle" /\ "at" \in DOMAIN Idle
      BY DEF Idle
    <3> HIDE DEF t
    <3> QED BY <3>1, <3>2, <2>4
  <2> QED BY <2>1, <2>2, <2>3, <2>4
<1>2. /\ Become(p, t) /\ txn[p].at = "idle" /\ UNCHANGED <<now, phase, game, open, stranded>>
      /\ jobs[k] = now
  BY DEF Fire, Idle
<1> HIDE DEF t
<1>3. DOMAIN txn' = Procs /\ \A q \in Procs : txn'[q] = IF q = p THEN t ELSE txn[q]
  BY <1>2, Becomes
<1>4. /\ jobs' \in [Kinds -> Int] /\ jobs'[k] = None
      /\ \A other \in Kinds \ {k} : jobs'[other] = jobs[other]
  BY DEF JobsInv, Typed, Fire, None
<1>5. Typed'
  BY <1>1, <1>2, <1>3, <1>4 DEF JobsInv, Typed
<1>6. Newborn'
  BY <1>1, <1>2, <1>3 DEF JobsInv, Newborn, Jobs
<1>7. Sending'
  <2>1. jobs'["voting"] # now \/ (jobs'["voting"] = jobs["voting"] /\ k # "voting")
    BY <1>4 DEF JobsInv, Typed, Kinds, None
  <2>2. t.at = "send" => Openers = {}
    BY <1>1, <1>2 DEF JobsInv, Sending
  <2>3. t.at = "send" => jobs'["voting"] # now
    BY <1>1, <2>1
  <2> QED BY <1>1, <1>2, <1>3, <2>1, <2>2, <2>3 DEF JobsInv, Sending, Jobs
<1>8. Known'
  BY <1>1, <1>2, <1>3 DEF JobsInv, Known, Jobs
<1>9. Elected'
  <2> SUFFICES ASSUME phase = "kept", ~ (OpenIds \subseteq stranded) PROVE Elected'
    BY <1>2 DEF Elected
  <2>1. CASE k # "mvp"
    <3>1. jobs'["mvp"] = jobs["mvp"]
      BY <1>4, <2>1 DEF Kinds
    <3> QED BY <1>1, <1>2, <1>3, <3>1 DEF JobsInv, Elected, Jobs
  <2>2. CASE k = "mvp"
    <3>1. t.at = "close" /\ t.message = game.message
      BY <1>1, <2>2
    <3>2. CASE Jobs("opened") = {}
      BY <1>2, <1>3, <3>1, <3>2 DEF JobsInv, Known, Elected, Jobs
    <3>3. CASE Jobs("opened") # {}
      BY <1>2, <1>3, <3>1, <3>3 DEF Elected, Jobs
    <3> QED BY <3>2, <3>3
  <2> QED BY <2>1, <2>2
<1> QED BY <1>5, <1>6, <1>7, <1>8, <1>9 DEF JobsInv

LEMMA TickStep ==
  ASSUME JobsInv, Tick
  PROVE  JobsInv'
<1>1. /\ \A p \in Procs : txn[p].at = "idle"
      /\ now \in Nat /\ now' = now + 1 /\ UNCHANGED <<phase, game, jobs, open, txn>>
      /\ \A o \in open : o.id \in stranded' <=> o.id \in stranded
  BY DEF JobsInv, Typed, Tick, Quiet, Idle
<1>2. Typed'
  BY <1>1 DEF JobsInv, Typed
<1>3. Sending'
  BY <1>1 DEF Sending, Jobs
<1>4. Newborn' /\ Known'
  BY <1>1 DEF JobsInv, Newborn, Known, Jobs
<1>5. Elected'
  BY <1>1 DEF JobsInv, Elected, Jobs
<1> QED BY <1>2, <1>3, <1>4, <1>5 DEF JobsInv

LEMMA JobsStep ==
  ASSUME Orderly, JobsInv, [Next]_vars
  PROVE  JobsInv'
<1>1. CASE Tick
  BY <1>1, TickStep
<1>2. ASSUME NEW p \in Procs, Work(p) PROVE JobsInv'
  BY <1>2, CreateCommitStep, UpdateJobsStep, UpdateCommitStep, DeleteJobsStep, DeleteCommitStep,
     SendStep, SendNothingStep, SendCommitStep, SendScheduleStep, CloseStep, FinishedEditStep,
     PublishedEditStep, FailStep, FireStep DEF Work
<1>3. ASSUME NEW p \in Procs, Request(p) PROVE JobsInv'
  BY <1>3, CreateStep, UpdateBeginStep, DeleteBeginStep, TriggerStep, HeardStep DEF Request
<1>4. CASE UNCHANGED vars
  BY <1>4 DEF vars, JobsInv, Typed, Newborn, Sending, Known, Elected, Jobs
<1> QED BY <1>1, <1>2, <1>3, <1>4 DEF Next

LEMMA JobsInvariant ==
  ASSUME Orderly
  PROVE  Spec => []JobsInv
<1>1. Orderly /\ JobsInv /\ [Next]_vars => JobsInv'
  BY JobsStep
<1>2. Init => JobsInv
  BY JobsInit
<1> QED BY <1>1, <1>2, Orderly, PTL DEF Spec

\* Between requests and jobs every voting of a game that is open is the one
\* the game knows (send_voting_message, calculate_mvp), as long as organizers
\* are orderly, unless Telegram refused to delete or to close it or the
\* request or job that dealt with it failed (tasks.py:79, tasks.py:184).
THEOREM OneVoting ==
  ASSUME Orderly
  PROVE  Spec => []OneOpenVoting
<1>1. JobsInv => OneOpenVoting
  BY DEF JobsInv, Known, Jobs, OneOpenVoting, Quiet, Idle
<1> QED BY <1>1, JobsInvariant, PTL

\* A voting that is open has an election ahead: as long as organizers are
\* orderly, no request or job leaves one open that nothing is going to close,
\* but by failing half way or by a call that Telegram refuses and the code
\* does not repeat.
THEOREM ElectionAhead ==
  ASSUME Orderly
  PROVE  Spec => []ElectionFollows
<1>1. JobsInv => ElectionFollows
  BY DEF JobsInv, Elected, Jobs, ElectionFollows, Quiet, Idle
<1> QED BY <1>1, JobsInvariant, PTL

(***************************************************************************)
(* The window of a voting.                                                 *)
(***************************************************************************)

\* No election falls due between the commit of a voting and its scheduling.
NoElectionDue == Jobs("schedule") # {} => jobs["mvp"] # now

Finite == IsFiniteSet(open) /\ IsFiniteSet(stranded)

Past == \A o \in open : o.sent \in Nat /\ o.sent <= now

\* The message a job has sent is not the one the game knows.
Fresh == \A p \in Jobs("opened") : txn[p].message # game.message

\* The election ahead is not due before the window of what is open is over,
\* unless it is going to be put off or nobody cares for it any more.
Ahead ==
  phase = "kept" /\ Jobs("opened") \cup Jobs("schedule") = {} /\ jobs["mvp"] # None =>
    \A o \in open : o.id \in stranded \/ o.sent + Window <= jobs["mvp"]

\* What an election at work is going to close has been open for its window.
Elapsed ==
  \A p \in Jobs("close") : \A o \in open :
    o.id = txn[p].message => o.id \in stranded \/ o.sent + Window <= now

WindowInv == Finite /\ Past /\ Fresh /\ Ahead /\ Elapsed

LEMMA LeastNat ==
  ASSUME NEW T \in SUBSET Nat, T # {}
  PROVE  \E m \in T : \A n \in T : m <= n
<1>1. PICK m \in T : \A n \in T : <<n, m>> \notin OpToRel(<, Nat)
  BY NatLessThanWellFounded, WFMin
<1>2. \A n \in T : n < m => <<n, m>> \in OpToRel(<, Nat)
  BY DEF OpToRel
<1>3. \A n \in T : ~ (n < m)
  BY <1>1, <1>2
<1>4. m \in Nat /\ \A n \in T : n \in Nat
  OBVIOUS
<1>5. \A n \in T : m <= n
  BY <1>3, <1>4
<1> QED BY <1>5

LEMMA FiniteImage ==
  ASSUME NEW S, IsFiniteSet(S), NEW f, f = [x \in S |-> f[x]]
  PROVE  IsFiniteSet({f[x] : x \in S})
<1> DEFINE T == {f[x] : x \in S}
<1>1. f \in Surjection(S, T)
  <2>1. f \in [S -> T]
    OBVIOUS
  <2>2. \A t \in T : \E x \in S : f[x] = t
    OBVIOUS
  <2> QED BY <2>1, <2>2 DEF Surjection
<1> HIDE DEF T
<1>2. IsFiniteSet(T)
  BY <1>1, FS_Surjection
<1> QED BY <1>2 DEF T

\* Telegram never gives an id twice.
LEMMA NewIdIsNew ==
  ASSUME WindowInv
  PROVE  NewId \notin UsedIds
<1>1. /\ IsFiniteSet({o.id : o \in open})
      /\ IsFiniteSet({txn[q].old : q \in {q \in Procs : txn[q].at = "send"}})
      /\ IsFiniteSet({txn[q].message : q \in {q \in Procs : txn[q].at \in
           {"opened", "schedule", "close", "finished", "published", "delete", "deleted"}}})
      /\ IsFiniteSet({txn[q].loaded.message : q \in {q \in Procs : txn[q].at \in {"update", "updated"}}})
  <2>1. \A S \in SUBSET Procs : IsFiniteSet(S)
    BY FS_Subset, JobParameters
  <2>2. IsFiniteSet(open)
    BY DEF WindowInv, Finite
  <2> DEFINE Senders == {q \in Procs : txn[q].at = "send"}
             Keepers == {q \in Procs : txn[q].at \in
                           {"opened", "schedule", "close", "finished", "published", "delete", "deleted"}}
             Updates == {q \in Procs : txn[q].at \in {"update", "updated"}}
             ids == [o \in open |-> o.id]
             olds == [q \in Senders |-> txn[q].old]
             kept == [q \in Keepers |-> txn[q].message]
             loaded == [q \in Updates |-> txn[q].loaded.message]
  <2>3. IsFiniteSet({ids[o] : o \in open})
    BY <2>2, FiniteImage
  <2>4. IsFiniteSet({olds[q] : q \in Senders})
    <3>1. IsFiniteSet(Senders) /\ olds = [q \in Senders |-> olds[q]]
      BY <2>1
    <3> HIDE DEF Senders, olds
    <3> QED BY <3>1, FiniteImage
  <2>5. IsFiniteSet({kept[q] : q \in Keepers})
    <3>1. IsFiniteSet(Keepers) /\ kept = [q \in Keepers |-> kept[q]]
      BY <2>1
    <3> HIDE DEF Keepers, kept
    <3> QED BY <3>1, FiniteImage
  <2>6. IsFiniteSet({loaded[q] : q \in Updates})
    <3>1. IsFiniteSet(Updates) /\ loaded = [q \in Updates |-> loaded[q]]
      BY <2>1
    <3> HIDE DEF Updates, loaded
    <3> QED BY <3>1, FiniteImage
  <2> QED BY <2>3, <2>4, <2>5, <2>6
<1>2. IsFiniteSet({game.message})
  BY FS_Singleton
<1>3. IsFiniteSet(UsedIds)
  <2>1. IsFiniteSet(stranded)
    BY DEF WindowInv, Finite
  <2> QED BY <1>1, <1>2, <2>1, FS_Union DEF UsedIds
<1> DEFINE n == Cardinality(UsedIds)
<1>4. n \in Nat
  BY <1>3, FS_CardinalityType
<1>5. ~ (0..n \subseteq UsedIds)
  <2>1. Cardinality(0..n) = n + 1
    BY <1>4, FS_Interval
  <2>2. 0..n \subseteq UsedIds => Cardinality(0..n) <= n
    BY <1>3, FS_Subset
  <2> HIDE DEF n
  <2> QED BY <2>1, <2>2, <1>4
<1> HIDE DEF n
<1> DEFINE Free == {i \in Nat : i \notin UsedIds}
<1>6. PICK m \in Free : \A i \in Free : m <= i
  <2>1. Free \in SUBSET Nat /\ Free # {}
    BY <1>4, <1>5
  <2> HIDE DEF Free
  <2> QED BY <2>1, LeastNat
<1>7. m \in 0..n /\ m \notin UsedIds /\ \A j \in 0..(m - 1) : j \in UsedIds
  BY <1>4, <1>5, <1>6
<1> QED BY <1>7 DEF NewId, n

LEMMA WindowInit == Init => WindowInv
<1> SUFFICES ASSUME Init PROVE WindowInv
  OBVIOUS
<1>1. open = {} /\ stranded = {} /\ IsFiniteSet({}) /\ \A p \in Procs : txn[p].at = "idle"
  BY FS_EmptySet DEF Init, Idle
<1> QED BY <1>1 DEF WindowInv, Finite, Past, Fresh, Ahead, Elapsed, Jobs

\* A step that opens nothing, lets no election begin and brings none nearer.
LEMMA Steady ==
  ASSUME JobsInv, WindowInv, NEW p \in Procs, NEW t, Become(p, t),
         t.at \notin {"opened", "close"},
         txn[p].at \notin {"opened", "schedule"} \/ phase' # "kept",
         now' = now, game'.message = game.message, open' \subseteq open,
         stranded \subseteq stranded', IsFiniteSet(stranded'),
         phase' = "kept" => phase = "kept" \/ open = {},
         jobs'["mvp"] \in {jobs["mvp"], None} \/ open = {}
  PROVE  WindowInv'
<1>1. DOMAIN txn' = Procs /\ \A q \in Procs : txn'[q] = IF q = p THEN t ELSE txn[q]
  BY Becomes
<1>2. Finite'
  BY FS_Subset DEF WindowInv, Finite
<1>3. Past'
  BY DEF WindowInv, Past
<1>4. Fresh'
  BY <1>1 DEF WindowInv, Fresh, Jobs
<1>5. Ahead'
  BY <1>1 DEF WindowInv, Ahead, Jobs
<1>6. Elapsed'
  BY <1>1 DEF WindowInv, Elapsed, Jobs
<1> QED BY <1>2, <1>3, <1>4, <1>5, <1>6 DEF WindowInv

\* The steps of requests and jobs that neither open nor elect.
LEMMA SteadySteps ==
  ASSUME JobsInv, WindowInv, NEW p \in Procs,
         CreateCommit(p) \/ UpdateCommit(p) \/ DeleteCommit(p) \/ SendNothing(p) \/ Close(p)
           \/ FinishedEdit(p) \/ UpdateBegin(p) \/ DeleteBegin(p) \/ Trigger(p)
           \/ Heard(p, "finished") \/ Heard(p, "published")
  PROVE  WindowInv'
<1>1. Idle.at = "idle" /\ IsFiniteSet(stranded)
  BY DEF Idle, WindowInv, Finite
<1>2. CASE CreateCommit(p)
  <2>1. phase = "none" /\ open = {}
    BY <1>2 DEF JobsInv, Newborn, Jobs, CreateCommit
  <2> QED BY <1>1, <1>2, <2>1, Steady DEF CreateCommit
<1>3. CASE UpdateCommit(p)
  <2>1. game'.message = game.message
    BY <1>3 DEF JobsInv, Typed, UpdateCommit
  <2> QED BY <1>1, <1>3, <2>1, Steady DEF UpdateCommit
<1>4. CASE DeleteCommit(p)
  BY <1>1, <1>4, Steady DEF DeleteCommit, Without
<1>5. CASE SendNothing(p)
  BY <1>1, <1>5, Steady DEF SendNothing, Without
<1>6. CASE Close(p)
  <2>1. open' \subseteq open /\ stranded' \in {stranded, stranded \cup {txn[p].message}}
    BY <1>6 DEF Close, Without
  <2>2. IsFiniteSet(stranded')
    BY <1>1, <2>1, FS_AddElement
  <2> QED BY <1>1, <1>6, <2>1, <2>2, Steady DEF Close
<1>7. CASE FinishedEdit(p)
  BY <1>1, <1>7, Steady DEF FinishedEdit, Without
<1>8. CASE UpdateBegin(p)
  <2>1. PICK t : t.at = "update" /\ Become(p, t)
    BY <1>8 DEF UpdateBegin
  <2> QED BY <1>1, <1>8, <2>1, Steady DEF UpdateBegin
<1>9. CASE DeleteBegin(p)
  BY <1>1, <1>9, Steady DEF DeleteBegin
<1>10. CASE Trigger(p)
  BY <1>1, <1>10, Steady DEF Trigger, Begun
<1>11. CASE Heard(p, "finished")
  BY <1>1, <1>11, Steady DEF Heard
<1>12. CASE Heard(p, "published")
  BY <1>1, <1>12, Steady DEF Heard
<1> QED BY <1>2, <1>3, <1>4, <1>5, <1>6, <1>7, <1>8, <1>9, <1>10, <1>11, <1>12

LEMMA PublishedWindow ==
  ASSUME Orderly, JobsInv, WindowInv, NEW p \in Procs, PublishedEdit(p)
  PROVE  WindowInv'
<1>1. open' = open
  BY DEF PublishedEdit, Orderly
<1>2. Idle.at = "idle" /\ IsFiniteSet(stranded)
  BY DEF Idle, WindowInv, Finite
<1> QED BY <1>1, <1>2, Steady DEF PublishedEdit

\* The ids of what is open are finitely many.
LEMMA OpenFinite ==
  ASSUME WindowInv
  PROVE  IsFiniteSet(OpenIds)
<1> DEFINE ids == [o \in open |-> o.id]
<1>1. IsFiniteSet(open) /\ ids = [o \in open |-> ids[o]]
  BY DEF WindowInv, Finite
<1>2. OpenIds = {ids[o] : o \in open}
  OBVIOUS
<1> HIDE DEF ids
<1> QED BY <1>1, <1>2, FiniteImage

LEMMA FailWindow ==
  ASSUME Orderly, JobsInv, WindowInv, NEW p \in Procs, Fail(p)
  PROVE  WindowInv'
<1>1. DOMAIN txn' = Procs /\ \A q \in Procs : txn'[q] = IF q = p THEN Idle ELSE txn[q]
  BY Becomes DEF Fail
<1>2. Idle.at = "idle" /\ Become(p, Idle) /\ UNCHANGED <<now, phase, game>>
  BY DEF Idle, Fail
<1>3. open' \subseteq open /\ stranded \subseteq stranded'
  BY DEF Fail, FailEarly, FailRescheduling, FailDeleting, FailVoting, Without
<1>4. IsFiniteSet(stranded')
  <2>1. stranded' \in {stranded, stranded \cup {txn[p].message}, stranded \cup OpenIds}
    BY DEF Fail, FailEarly, FailRescheduling, FailDeleting, FailVoting
  <2>2. IsFiniteSet(stranded) /\ IsFiniteSet(stranded \cup {txn[p].message})
    BY FS_AddElement DEF WindowInv, Finite
  <2>3. IsFiniteSet(stranded \cup OpenIds)
    BY <2>2, OpenFinite, FS_Union
  <2> QED BY <2>1, <2>2, <2>3
<1>5. CASE txn[p].at \notin {"opened", "schedule"} /\ jobs'["mvp"] \in {jobs["mvp"], None}
  BY <1>2, <1>3, <1>4, <1>5, Steady
<1>6. CASE phase = "kept" => OpenIds' \subseteq stranded'
  <2>1. Finite' /\ Past'
    BY <1>2, <1>3, <1>4, FS_Subset DEF WindowInv, Finite, Past
  <2>2. Fresh' /\ Elapsed'
    BY <1>1, <1>2, <1>3 DEF WindowInv, Fresh, Elapsed, Jobs
  <2>3. Ahead'
    BY <1>2, <1>6 DEF Ahead
  <2> QED BY <2>1, <2>2, <2>3 DEF WindowInv
<1>7. CASE txn[p].at \in {"opened", "schedule"}
  BY <1>6, <1>7, FailedVoting
<1>8. CASE txn[p].at \notin {"opened", "schedule"}
  <2>1. \/ jobs'["mvp"] \in {jobs["mvp"], None}
        \/ OpenIds' \subseteq stranded'
    BY DEF Fail, FailEarly, FailRescheduling, FailDeleting, FailVoting, Kinds
  <2> QED BY <1>5, <1>6, <1>8, <2>1
<1> QED BY <1>7, <1>8

LEMMA DeleteJobsWindow ==
  ASSUME JobsInv, WindowInv, NEW p \in Procs, DeleteJobs(p)
  PROVE  WindowInv'
<1>1. jobs'["mvp"] \in {jobs["mvp"], None} /\ IsFiniteSet(stranded)
  BY CancelledType DEF JobsInv, Typed, DeleteJobs, Kinds, WindowInv, Finite
<1>2. PICK t : t.at = "deleted" /\ Become(p, t)
  BY DEF DeleteJobs, JobsInv, Typed
<1> QED BY <1>1, <1>2, Steady DEF DeleteJobs

\* A game is created before anything of it is open.
LEMMA CreateWindow ==
  ASSUME JobsInv, WindowInv, NEW p \in Procs, Create(p)
  PROVE  WindowInv'
<1>1. open = {} /\ phase = "none" /\ IsFiniteSet(stranded)
  BY DEF JobsInv, Newborn, Create, WindowInv, Finite
<1>2. PICK t : t.at = "create" /\ Become(p, t)
  BY DEF Create
<1>3. txn[p].at = "idle"
  BY DEF Create, Quiet, Idle
<1> QED BY <1>1, <1>2, <1>3, Steady DEF Create

\* An election scheduled by an update is more than a day ahead.
LEMMA UpdateJobsWindow ==
  ASSUME Window <= Day, JobsInv, WindowInv, NEW p \in Procs, UpdateJobs(p)
  PROVE  WindowInv'
<1> DEFINE t == [txn[p] EXCEPT !.at = "updated"]
<1>1. t.at = "updated" /\ Become(p, t) /\ txn[p].at = "update" /\ UNCHANGED <<now, phase, game, open, stranded>>
  BY DEF JobsInv, Typed, UpdateJobs
<1> HIDE DEF t
<1>2. CASE txn[p].date = txn[p].loaded.date
  BY <1>1, <1>2, Steady DEF UpdateJobs, WindowInv, Finite
<1>3. CASE txn[p].date # txn[p].loaded.date
  <2> DEFINE due == txn[p].date + txn[p].loaded.duration + Day
  <2>1. /\ now \in Nat /\ txn[p].date \in Nat /\ txn[p].loaded.duration \in Nat
        /\ Day \in Nat /\ Window \in Nat /\ txn[p].date > now
    BY <1>1, <1>3, JobParameters DEF JobsInv, Typed
  <2>2. due \in Nat /\ now + Window < due
    BY <2>1
  <2>3. jobs'["mvp"] = due
    <3>1. PICK store \in Cancelled : jobs' = ScheduleVoting(store, txn[p].date, txn[p].loaded.duration)
      BY <1>3 DEF UpdateJobs
    <3>2. store \in [Kinds -> Int]
      BY CancelledType DEF JobsInv, Typed
    <3> QED BY <2>1, <2>2, <3>1, <3>2 DEF ScheduleVoting, Schedule, Kinds
  <2> HIDE DEF due
  <2>4. DOMAIN txn' = Procs /\ \A q \in Procs : txn'[q] = IF q = p THEN t ELSE txn[q]
    BY <1>1, Becomes
  <2>5. Finite' /\ Past'
    BY <1>1 DEF WindowInv, Finite, Past
  <2>6. Fresh'
    BY <1>1, <2>4 DEF WindowInv, Fresh, Jobs
  <2>7. Ahead'
    <3>1. \A o \in open : o.sent + Window <= due
      BY <2>1, <2>2 DEF WindowInv, Past
    <3> QED BY <1>1, <2>3, <3>1 DEF Ahead
  <2>8. Elapsed'
    BY <1>1, <2>4 DEF WindowInv, Elapsed, Jobs
  <2> QED BY <2>5, <2>6, <2>7, <2>8 DEF WindowInv
<1> QED BY <1>2, <1>3

LEMMA SendWindow ==
  ASSUME JobsInv, WindowInv, NEW p \in Procs, Send(p)
  PROVE  WindowInv'
<1> DEFINE t == [at |-> "opened", message |-> NewId]
           new == [id |-> NewId, sent |-> now]
<1>1. /\ t.at = "opened" /\ t.message = NewId /\ new.id = NewId /\ new.sent = now
      /\ Become(p, t) /\ open' \subseteq open \cup {new} /\ UNCHANGED <<now, phase, game, jobs>>
      /\ stranded' \in {stranded, stranded \cup {txn[p].old}}
  BY DEF Send, Replaced, Without
<1> HIDE DEF t, new
<1>2. DOMAIN txn' = Procs /\ \A q \in Procs : txn'[q] = IF q = p THEN t ELSE txn[q]
  BY <1>1, Becomes
<1>3. NewId # game.message /\ \A q \in Jobs("close") : NewId # txn[q].message
  BY NewIdIsNew DEF UsedIds, Jobs
<1>4. now \in Nat
  BY DEF JobsInv, Typed
<1>5. Finite'
  <2>1. IsFiniteSet(open \cup {new}) /\ IsFiniteSet(stranded')
    BY <1>1, FS_AddElement DEF WindowInv, Finite
  <2> QED BY <1>1, <2>1, FS_Subset DEF Finite
<1>6. Past'
  BY <1>1, <1>4 DEF WindowInv, Past
<1>7. Fresh'
  BY <1>1, <1>2, <1>3 DEF WindowInv, Fresh, Jobs
<1>8. Ahead'
  BY <1>1, <1>2 DEF Ahead, Jobs
<1>9. Elapsed'
  BY <1>1, <1>2, <1>3 DEF WindowInv, Elapsed, Jobs
<1> QED BY <1>5, <1>6, <1>7, <1>8, <1>9 DEF WindowInv

LEMMA SendCommitWindow ==
  ASSUME JobsInv, WindowInv, NEW p \in Procs, SendCommit(p)
  PROVE  WindowInv'
<1> DEFINE t == [at |-> "schedule", message |-> txn[p].message]
<1>1. t.at = "schedule" /\ Become(p, t) /\ txn[p].at = "opened"
      /\ UNCHANGED <<now, phase, jobs, open, stranded>>
  BY DEF SendCommit
<1> HIDE DEF t
<1>2. DOMAIN txn' = Procs /\ \A q \in Procs : txn'[q] = IF q = p THEN t ELSE txn[q]
  BY <1>1, Becomes
<1>3. Finite' /\ Past'
  BY <1>1 DEF WindowInv, Finite, Past
<1>4. Jobs("opened")' = {}
  BY <1>1, <1>2 DEF JobsInv, Sending, Jobs
<1>5. Fresh'
  BY <1>4 DEF Fresh
<1>6. Ahead'
  BY <1>1, <1>2 DEF Ahead, Jobs
<1>7. Elapsed'
  BY <1>1, <1>2 DEF WindowInv, Elapsed, Jobs
<1> QED BY <1>3, <1>5, <1>6, <1>7 DEF WindowInv

LEMMA SendScheduleWindow ==
  ASSUME JobsInv, WindowInv, NEW p \in Procs, SendSchedule(p)
  PROVE  WindowInv'
<1>1. Idle.at = "idle" /\ Become(p, Idle) /\ UNCHANGED <<now, phase, game, open, stranded>>
  BY DEF SendSchedule, Idle
<1>2. DOMAIN txn' = Procs /\ \A q \in Procs : txn'[q] = IF q = p THEN Idle ELSE txn[q]
  BY <1>1, Becomes
<1>3. now \in Nat /\ Window \in Nat \ {0} /\ jobs \in [Kinds -> Int]
  BY JobParameters DEF JobsInv, Typed
<1>4. jobs'["mvp"] = now + Window
  BY <1>3 DEF SendSchedule, Schedule, Kinds
<1>5. Finite' /\ Past'
  BY <1>1 DEF WindowInv, Finite, Past
<1>6. Fresh'
  BY <1>1, <1>2 DEF WindowInv, Fresh, Jobs
<1>7. Ahead'
  BY <1>1, <1>3, <1>4 DEF WindowInv, Past, Ahead
<1>8. Elapsed'
  BY <1>1, <1>2 DEF WindowInv, Elapsed, Jobs
<1> QED BY <1>5, <1>6, <1>7, <1>8 DEF WindowInv

\* An election that begins finds what the game knows open for its window.
LEMMA FireWindow ==
  ASSUME JobsInv, WindowInv, NoElectionDue, NEW p \in Procs, NEW k \in Kinds, Fire(p, k)
  PROVE  WindowInv'
<1> DEFINE t == Started(k)
<1>1. /\ t.at # "opened"
      /\ t.at = "close" => k = "mvp" /\ phase = "kept" /\ t.message = game.message
  <2>1. CASE phase # "kept"
    BY <2>1 DEF Started, Idle
  <2>2. CASE phase = "kept" /\ k = "voting"
    BY <2>2 DEF Started, Begun
  <2>3. CASE phase = "kept" /\ k = "mvp"
    BY <2>3 DEF Started
  <2>4. CASE phase = "kept" /\ k \notin {"voting", "mvp"}
    BY <2>4 DEF Started, Idle
  <2> QED BY <2>1, <2>2, <2>3, <2>4
<1>2. /\ Become(p, t) /\ txn[p].at = "idle" /\ UNCHANGED <<now, phase, game, open, stranded>>
      /\ jobs[k] = now
  BY DEF Fire, Idle
<1> HIDE DEF t
<1>3. DOMAIN txn' = Procs /\ \A q \in Procs : txn'[q] = IF q = p THEN t ELSE txn[q]
  BY <1>2, Becomes
<1>4. jobs'["mvp"] \in {jobs["mvp"], None}
  BY DEF JobsInv, Typed, Fire, Kinds
<1>5. CASE t.at # "close"
  BY <1>1, <1>2, <1>4, <1>5, Steady DEF WindowInv, Finite
<1>6. CASE t.at = "close"
  <2>1. k = "mvp" /\ phase = "kept" /\ jobs["mvp"] = now /\ now \in Nat
    BY <1>1, <1>2, <1>6 DEF JobsInv, Typed
  <2>2. Jobs("schedule") = {}
    BY <2>1 DEF NoElectionDue
  <2>3. \A o \in open : o.id = game.message => o.id \in stranded \/ o.sent + Window <= now
    <3>1. CASE Jobs("opened") = {}
      BY <2>1, <2>2, <3>1 DEF WindowInv, Ahead, None
    <3>2. CASE Jobs("opened") # {}
      BY <2>1, <3>2 DEF JobsInv, Known, WindowInv, Fresh
    <3> QED BY <3>1, <3>2
  <2>4. Finite' /\ Past'
    BY <1>2 DEF WindowInv, Finite, Past
  <2>5. Fresh'
    BY <1>1, <1>2, <1>3 DEF WindowInv, Fresh, Jobs
  <2>6. Ahead'
    BY <1>2, <1>3, <1>4 DEF WindowInv, Ahead, Jobs
  <2>7. Elapsed'
    BY <1>1, <1>2, <1>3, <1>6, <2>3 DEF WindowInv, Elapsed, Jobs
  <2> QED BY <2>4, <2>5, <2>6, <2>7 DEF WindowInv
<1> QED BY <1>5, <1>6

LEMMA TickWindow ==
  ASSUME JobsInv, WindowInv, Tick
  PROVE  WindowInv'
<1>1. /\ \A p \in Procs : txn[p].at = "idle"
      /\ now \in Nat /\ now' = now + 1 /\ UNCHANGED <<phase, game, jobs, open, txn>>
      /\ stranded' = stranded \cap OpenIds
  BY DEF JobsInv, Typed, Tick, Quiet, Idle
<1>2. Past'
  BY <1>1 DEF WindowInv, Past
<1>3. Finite'
  BY <1>1, FS_Subset DEF WindowInv, Finite
<1>4. Fresh' /\ Ahead' /\ Elapsed'
  BY <1>1 DEF WindowInv, Fresh, Ahead, Elapsed, Jobs
<1> QED BY <1>2, <1>3, <1>4 DEF WindowInv

LEMMA WindowStep ==
  ASSUME Orderly, Window <= Day, JobsInv, WindowInv, NoElectionDue, [Next]_vars
  PROVE  WindowInv'
<1>1. CASE Tick
  BY <1>1, TickWindow
<1>2. ASSUME NEW p \in Procs, Work(p) PROVE WindowInv'
  BY <1>2, SteadySteps, PublishedWindow, FailWindow, DeleteJobsWindow, UpdateJobsWindow,
     SendWindow, SendCommitWindow, SendScheduleWindow, FireWindow DEF Work
<1>3. ASSUME NEW p \in Procs, Request(p) PROVE WindowInv'
  BY <1>3, SteadySteps, CreateWindow DEF Request
<1>4. CASE UNCHANGED vars
  BY <1>4 DEF vars, WindowInv, Finite, Past, Fresh, Ahead, Elapsed, Jobs
<1> QED BY <1>1, <1>2, <1>3, <1>4 DEF Next

\* Only the election itself ends the work of an election.
LEMMA OnlyClose ==
  ASSUME JobsInv, WindowInv, [Next]_vars, NEW p \in Procs, NEW o \in open,
         txn[p].at = "close", txn'[p] = Idle, o \notin open'
  PROVE  o.id = txn[p].message
<1>1. Idle.at = "idle"
  BY DEF Idle
<1>2. ASSUME NEW q \in Procs, NEW t, q # p, Become(q, t) PROVE FALSE
  BY <1>1, <1>2, Becomes
<1>3. CASE Tick
  BY <1>3 DEF Tick
<1>4. ASSUME NEW q \in Procs, Work(q) PROVE o.id = txn[p].message
  <2>1. CASE q = p
    <3>1. Close(p)
      BY <1>1, <1>4, <2>1 DEF Work, CreateCommit, UpdateJobs, UpdateCommit, DeleteJobs, DeleteCommit,
         Send, SendNothing, SendCommit, SendSchedule, FinishedEdit, PublishedEdit,
         Fail, FailEarly, FailRescheduling, FailDeleting, FailVoting, Fire
    <3> QED BY <3>1 DEF Close, Without
  <2>2. CASE q # p
    BY <1>2, <1>4, <2>2 DEF Work, CreateCommit, UpdateJobs, UpdateCommit, DeleteJobs, DeleteCommit,
       Send, SendNothing, SendCommit, SendSchedule, Close, FinishedEdit, PublishedEdit, Fail, Fire
  <2> QED BY <2>1, <2>2
<1>5. ASSUME NEW q \in Procs, Request(q) PROVE o.id = txn[p].message
  BY <1>5 DEF Request, Create, UpdateBegin, DeleteBegin, Trigger, Heard
<1>6. CASE UNCHANGED vars
  BY <1>6 DEF vars
<1> QED BY <1>3, <1>4, <1>5, <1>6 DEF Next

\* calculate_mvp takes the keyboard off no voting that no failure left behind
\* before its window is over,
\* whatever schedules, reschedules and cancels the election meanwhile, as long
\* as the window is no longer than the day update_game reschedules it by, and
\* no election falls due between the commit of another voting and the
\* rescheduling it ends with.
THEOREM WindowKept ==
  ASSUME Orderly, Window <= Day
  PROVE  Spec /\ []NoElectionDue => FullWindow
<1>1. Init => WindowInv
  BY WindowInit
<1>2. Orderly /\ Window <= Day /\ JobsInv /\ WindowInv /\ NoElectionDue /\ [Next]_vars => WindowInv'
  BY WindowStep
<1>3. Orderly /\ Window <= Day
  OBVIOUS
<1>4. Spec => []JobsInv
  BY JobsInvariant
<1>5. Spec /\ []NoElectionDue => []WindowInv
  BY <1>1, <1>2, <1>3, <1>4, PTL DEF Spec
<1> DEFINE Kept == \A p \in Procs, o \in open :
             /\ txn[p].at = "close" /\ txn'[p] = Idle
             /\ o \notin open' /\ o.id \notin stranded
             => now >= o.sent + Window
<1>6. JobsInv /\ WindowInv /\ [Next]_vars => Kept
  <2> SUFFICES ASSUME JobsInv, WindowInv, [Next]_vars, NEW p \in Procs, NEW o \in open,
                      txn[p].at = "close", txn'[p] = Idle, o \notin open', o.id \notin stranded
               PROVE  now >= o.sent + Window
    OBVIOUS
  <2>1. o.id = txn[p].message
    BY OnlyClose
  <2>2. o.sent + Window <= now
    BY <2>1 DEF WindowInv, Elapsed, Jobs
  <2>3. o.sent + Window \in Nat /\ now \in Nat
    BY JobParameters DEF WindowInv, Past, JobsInv, Typed
  <2> QED BY <2>2, <2>3
<1>7. JobsInv /\ WindowInv /\ [Next]_vars => [Kept]_vars
  BY <1>6
<1>8. Spec /\ []NoElectionDue => [][Kept]_vars
  BY <1>4, <1>5, <1>7, PTL DEF Spec
<1> QED BY <1>8 DEF FullWindow

(***************************************************************************)
(* Ballots, for any players, guests, requests and moves: the rows of votes *)
(* are one per voter and team, each for somebody who has been in that      *)
(* team, and nobody is elected by himself or by strangers.                 *)
(*                                                                         *)
(* None of this is inductive as it stands: what is inserted was composed   *)
(* before, from a page opened before that.  The invariant says the same of *)
(* the ballots in the hands of the requests, and of the players each page  *)
(* shows.  The sets had[u] only grow, so what held of them keeps holding.  *)
(***************************************************************************)
BallotSet == [voter : Players, target : Players, team : Teams]

\* A ballot of a player, for another, who has been in the team; h is had.
Fair(b, h) ==
  /\ b \in BallotSet
  /\ b.voter # b.target
  /\ b.team \in h[b.target]

Distinct(S) == \A b, c \in S : b.voter = c.voter /\ b.team = c.team => b = c

Page(t, h) ==
  /\ t \in [at : {"page"}, voter : Players, a : SUBSET Players, b : SUBSET Players]
  /\ \A u \in t.a : "A" \in h[u]
  /\ \A u \in t.b : "B" \in h[u]

Ready(t, h) ==
  /\ t \in [at : {"insert"}, ballots : SUBSET BallotSet]
  /\ \A b \in t.ballots : Fair(b, h)
  /\ Distinct(t.ballots)

Held(t, h) == t = Unused \/ Page(t, h) \/ Ready(t, h)

RequestKinds ==
  {Unused} \cup [at : {"page"}, voter : Players, a : SUBSET Players, b : SUBSET Players]
         \cup [at : {"insert"}, ballots : SUBSET BallotSet]

\* The inductive invariant.
BallotInv ==
  /\ active \subseteq Players
  /\ team \in [Players -> Teams \cup {"none"}]
  /\ had \in [Players -> SUBSET Teams]
  /\ \A u \in Players : Filed(team[u]) \in had[u]
  /\ buttons \subseteq Players
  /\ \A b \in votes : Fair(b, had)
  /\ Distinct(votes)
  /\ elected \subseteq Players
  /\ ElectedByOthers
  /\ request \in [Requests -> RequestKinds]
  /\ \A p \in Requests : Held(request[p], had)

\* A player without a team is filed under A, any other under his own.
LEMMA FiledType ==
  ASSUME NEW t \in Teams \cup {"none"}
  PROVE  Filed(t) \in Teams /\ (t # "none" => Filed(t) = t)
  BY DEF Filed, Teams

\* Whoever leads a team has a ballot for it.
LEMMA LeadersVoted ==
  ASSUME NEW t, NEW u \in Leaders(t)
  PROVE  u \in Players /\ \E b \in votes : b.target = u
<1>1. u \in Players /\ Cardinality({b \in votes : b.team = t /\ b.target = u}) > 0
  BY DEF Leaders, Received
<1>2. {b \in votes : b.team = t /\ b.target = u} # {}
  BY <1>1, FS_EmptySet
<1> QED BY <1>1, <1>2

\* Winners have a ballot of somebody else.
LEMMA WinnersByOthers ==
  ASSUME BallotInv, NEW u, NEW t, u \in Leaders(t)
  PROVE  u \in Players /\ \E b \in votes : b.target = u /\ b.voter \in Players \ {u}
  BY LeadersVoted DEF BallotInv, Fair, BallotSet

\* What is held stays fair when the teams a player has been in grow.
LEMMA HeldGrows ==
  ASSUME NEW h \in [Players -> SUBSET Teams], NEW g \in [Players -> SUBSET Teams],
         \A u \in Players : h[u] \subseteq g[u]
  PROVE  /\ \A b : Fair(b, h) => Fair(b, g)
         /\ \A t : Held(t, h) => Held(t, g)
<1>1. \A b : Fair(b, h) => Fair(b, g)
  BY DEF Fair, BallotSet
<1>2. ASSUME NEW t, Page(t, h)
      PROVE  Page(t, g)
  BY <1>2 DEF Page
<1>3. ASSUME NEW t, Ready(t, h)
      PROVE  Ready(t, g)
  BY <1>1, <1>3 DEF Ready
<1> QED BY <1>1, <1>2, <1>3 DEF Held

LEMMA BallotInit == BallotsInit => BallotInv
<1> SUFFICES ASSUME BallotsInit PROVE BallotInv
  OBVIOUS
<1>1. \A u \in Players : Filed(team[u]) \in Teams
  BY FiledType DEF BallotsInit
<1>2. had \in [Players -> SUBSET Teams] /\ \A u \in Players : Filed(team[u]) \in had[u]
  BY <1>1 DEF BallotsInit
<1>3. request \in [Requests -> RequestKinds] /\ \A p \in Requests : Held(request[p], had)
  BY DEF BallotsInit, RequestKinds, Held
<1> QED BY <1>2, <1>3 DEF BallotsInit, BallotInv, Distinct, ElectedByOthers

\* A step that only moves one request, to something fair.
LEMMA HoldStep ==
  ASSUME BallotInv, NEW p \in Requests, NEW t \in RequestKinds, Held(t, had), Goes(p, t),
         UNCHANGED <<roster, buttons, votes, finished, elected>>
  PROVE  BallotInv'
<1>1. request' \in [Requests -> RequestKinds]
  BY DEF BallotInv, Goes
<1>2. \A q \in Requests : Held(request'[q], had)
  BY DEF BallotInv, Goes
<1> QED BY <1>1, <1>2 DEF BallotInv, roster, ElectedByOthers

LEMMA OpenPageStep ==
  ASSUME BallotInv, NEW p \in Requests, NEW v \in Players, OpenPage(p, v)
  PROVE  BallotInv'
<1> DEFINE t == [at |-> "page", voter |-> v, a |-> InTeam("A"), b |-> InTeam("B")]
<1>1. \A s \in {"A", "B"} : InTeam(s) \subseteq Players /\ \A u \in InTeam(s) : s \in had[u]
  BY FiledType DEF BallotInv, InTeam
<1>2. Page(t, had)
  BY <1>1 DEF Page
<1>3. t \in RequestKinds /\ Held(t, had)
  BY <1>2 DEF RequestKinds, Held, Page
<1>4. Goes(p, t) /\ UNCHANGED <<roster, buttons, votes, finished, elected>>
  BY DEF OpenPage
<1> HIDE DEF t
<1> QED BY <1>3, <1>4, HoldStep

LEMMA PressStep ==
  ASSUME BallotInv, NEW p \in Requests, NEW v \in Voters, NEW u \in Players, Press(p, v, u)
  PROVE  BallotInv'
<1> DEFINE b == Ballot(v, u, Filed(team[u]))
           t == [at |-> "insert", ballots |-> {b}]
<1>1. v \in Players /\ v # u
  BY DEF Press, Eligible, BallotInv
<1>2. Filed(team[u]) \in Teams /\ Filed(team[u]) \in had[u]
  BY FiledType DEF BallotInv
<1>3. Fair(b, had)
  BY <1>1, <1>2 DEF Fair, Ballot, BallotSet
<1>4. t \in RequestKinds /\ Held(t, had)
  <2> HIDE DEF b
  <2>1. t \in [at : {"insert"}, ballots : SUBSET BallotSet]
    BY <1>3 DEF Fair
  <2> QED BY <2>1, <1>3 DEF RequestKinds, Held, Ready, Distinct
<1>5. Goes(p, t) /\ UNCHANGED <<roster, buttons, votes, finished, elected>>
  BY DEF Press
<1> HIDE DEF t
<1> QED BY <1>4, <1>5, HoldStep

LEMMA SubmitStep ==
  ASSUME BallotInv, NEW p \in Requests, NEW a \in Players, NEW b \in Players, Submit(p, a, b)
  PROVE  BallotInv'
<1> DEFINE v == request[p].voter
           t == [at |-> "insert", ballots |-> PageBallots(v, a, b)]
<1>1. Page(request[p], had)
  BY DEF BallotInv, Held, Submit, Unused, Ready
<1>2. v \in Players /\ "A" \in had[a] /\ "B" \in had[b] /\ v # a /\ v # b
  BY <1>1 DEF Submit, Eligible, Page
<1>3. \A c \in PageBallots(v, a, b) : Fair(c, had)
  BY <1>2 DEF PageBallots, Ballot, Fair, BallotSet, Teams
<1>4. Distinct(PageBallots(v, a, b))
  BY DEF PageBallots, Ballot, Distinct
<1>5. t \in [at : {"insert"}, ballots : SUBSET BallotSet]
  <2>1. PageBallots(v, a, b) \subseteq BallotSet
    BY <1>3 DEF Fair
  <2> QED BY <2>1
<1>6. t \in RequestKinds /\ Held(t, had)
  BY <1>3, <1>4, <1>5 DEF RequestKinds, Held, Ready
<1>7. Goes(p, t) /\ UNCHANGED <<roster, buttons, votes, finished, elected>>
  BY DEF Submit
<1> HIDE DEF t
<1> QED BY <1>6, <1>7, HoldStep

\* The constraint keeps apart what is inserted from what is there, and the
\* ballots of one request are for different teams.
LEMMA InsertStep ==
  ASSUME BallotInv, NEW p \in Requests, Insert(p)
  PROVE  BallotInv'
<1>1. Ready(request[p], had)
  BY DEF BallotInv, Held, Insert, Unused, Page
<1>2. votes' = votes \cup request[p].ballots /\ UNCHANGED <<active, team, had, buttons, elected>>
  BY DEF Insert, roster
<1>3. \A b \in votes' : Fair(b, had)
  BY <1>1, <1>2 DEF BallotInv, Ready
<1>4. Distinct(votes')
  BY <1>1, <1>2 DEF BallotInv, Ready, Distinct, Insert, Unique
<1>5. ElectedByOthers'
  BY <1>2 DEF BallotInv, ElectedByOthers
<1>6. request' \in [Requests -> RequestKinds] /\ \A q \in Requests : Held(request'[q], had)
  BY DEF BallotInv, Insert, Goes, RequestKinds, Held
<1> QED BY <1>2, <1>3, <1>4, <1>5, <1>6 DEF BallotInv

LEMMA ElectStep ==
  ASSUME BallotInv, JobElects \/ FinishElects
  PROVE  BallotInv'
<1>1. \A u \in JobWinners \cup FinishWinners :
        u \in Players /\ \E b \in votes : b.target = u /\ b.voter \in Players \ {u}
  BY WinnersByOthers DEF JobWinners, FinishWinners
<1>2. elected' \subseteq elected \cup JobWinners \cup FinishWinners
  BY DEF JobElects, FinishElects
<1>3. UNCHANGED <<active, team, had, buttons, votes, request>>
  BY DEF JobElects, FinishElects, roster
<1>4. elected' \subseteq Players /\ ElectedByOthers'
  BY <1>1, <1>2, <1>3 DEF BallotInv, ElectedByOthers
<1> QED BY <1>3, <1>4 DEF BallotInv

LEMMA MoveStep ==
  ASSUME BallotInv, NEW u \in Players, Move(u)
  PROVE  BallotInv'
<1> DEFINE Grown ==
             /\ team' \in [Players -> Teams \cup {"none"}]
             /\ had' \in [Players -> SUBSET Teams]
             /\ \A w \in Players : had[w] \subseteq had'[w] /\ Filed(team'[w]) \in had'[w]
<1>1. Grown
  <2>1. CASE UNCHANGED <<team, had>>
    BY <2>1 DEF BallotInv
  <2>2. ASSUME NEW t \in Teams \cup {"none"}, team' = [team EXCEPT ![u] = t],
               had' = [had EXCEPT ![u] = @ \cup {Filed(t)}]
        PROVE  Grown
    <3>1. Filed(t) \in Teams
      BY FiledType
    <3> QED BY <2>2, <3>1 DEF BallotInv
  <2> QED BY <2>1, <2>2 DEF Move
<1>2. /\ active' \subseteq Players
      /\ UNCHANGED <<buttons, votes, elected, request>>
  BY DEF Move, BallotInv
<1>3. had \in [Players -> SUBSET Teams]
  BY DEF BallotInv
<1>4. /\ \A b : Fair(b, had) => Fair(b, had')
      /\ \A t : Held(t, had) => Held(t, had')
  BY <1>1, <1>3, HeldGrows
<1> QED BY <1>1, <1>2, <1>4 DEF BallotInv, ElectedByOthers

LEMMA BallotStep == BallotInv /\ [BallotsNext]_ballotVars => BallotInv'
<1> SUFFICES ASSUME BallotInv, [BallotsNext]_ballotVars PROVE BallotInv'
  OBVIOUS
<1>1. CASE ShowButtons
  BY <1>1 DEF ShowButtons, BallotInv, roster, ElectedByOthers
<1>2. CASE \E p \in Requests, v \in Players : OpenPage(p, v)
  BY <1>2, OpenPageStep
<1>3. CASE \E p \in Requests, v \in Voters, u \in Players : Press(p, v, u)
  BY <1>3, PressStep
<1>4. CASE \E p \in Requests, a, b \in Players : Submit(p, a, b)
  BY <1>4, SubmitStep
<1>5. CASE \E p \in Requests : Insert(p)
  BY <1>5, InsertStep
<1>6. ASSUME NEW p \in Requests, GiveUp(p)
      PROVE  BallotInv'
  BY <1>6, HoldStep DEF GiveUp, RequestKinds, Held
<1>7. CASE JobElects \/ FinishElects
  BY <1>7, ElectStep
<1>8. CASE \E u \in Players : Move(u)
  BY <1>8, MoveStep
<1>9. CASE UNCHANGED ballotVars
  BY <1>9 DEF ballotVars, roster, BallotInv, ElectedByOthers
<1> QED BY <1>1, <1>2, <1>3, <1>4, <1>5, <1>6, <1>7, <1>8, <1>9 DEF BallotsNext

LEMMA BallotInvariant == BallotsSpec => []BallotInv
  BY BallotInit, BallotStep, PTL DEF BallotsSpec

\* The unique constraint and the composition of each request's ballots leave
\* no voter with two ballots for one team, however the requests interleave
\* (vote_handlers.py:53 and voting.py:69, whose checks precede an await).
THEOREM OneBallot == BallotsSpec => []OneBallotPerTeam
<1>1. BallotInv => OneBallotPerTeam
  BY DEF BallotInv, Distinct, OneBallotPerTeam
<1> QED BY <1>1, BallotInvariant, PTL

\* Every ballot stands for a team its target has been in, whatever moved
\* between the page or the keyboard and the insertion (vote_handlers.py:48).
THEOREM FiledWell == BallotsSpec => []FiledUnderTeam
<1>1. BallotInv => FiledUnderTeam
  BY DEF BallotInv, Fair, FiledUnderTeam
<1> QED BY <1>1, BallotInvariant, PTL

\* Whoever is elected, by the job or by a finish, has the vote of another
\* player (voting.py:79, vote_handlers.py:32).
THEOREM ElectedWell == BallotsSpec => []ElectedByOthers
<1>1. BallotInv => ElectedByOthers
  BY DEF BallotInv
<1> QED BY <1>1, BallotInvariant, PTL

\* CountsAgree: calculate_mvp and _get_mvp_winners_from_votes choose the teams
\* by different rules, and yet the same ones unless a team is empty.
THEOREM Agreeing == BallotsSpec => []CountsAgree
<1>1. BallotInv => CountsAgree
  <2> SUFFICES ASSUME BallotInv,
                      \/ InTeam("A") # {} /\ InTeam("B") # {}
                      \/ \A u \in active : team[u] = "none"
               PROVE  JobTeams = FinishTeams
    BY DEF CountsAgree, JobWinners, FinishWinners
  <2> DEFINE playing == {team[u] : u \in active} \ {"none"}
  <2>1. \A u \in active : team[u] \in {"A", "B", "C", "none"}
    BY DEF BallotInv, Teams
  <2>2. \A t \in {"A", "B", "C"} : t \in playing <=> InTeam(t) # {}
    BY DEF InTeam
  <2>3. playing \subseteq {"A", "B", "C"}
    BY <2>1
  <2>4. CASE InTeam("A") # {} /\ InTeam("B") # {}
    <3>1. playing = {"A", "B"} \cup (IF InTeam("C") # {} THEN {"C"} ELSE {})
      BY <2>2, <2>3, <2>4
    <3>2. playing # {}
      BY <2>2, <2>4
    <3> QED BY <3>1, <3>2 DEF JobTeams, FinishTeams
  <2>5. CASE \A u \in active : team[u] = "none"
    <3>1. playing = {}
      BY <2>5
    <3>2. InTeam("C") = {}
      BY <2>2, <3>1
    <3> QED BY <3>1, <3>2 DEF JobTeams, FinishTeams
  <2> QED BY <2>4, <2>5
<1> QED BY <1>1, BallotInvariant, PTL
=============================================================================
