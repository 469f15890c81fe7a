----------------------------- MODULE Reminders ------------------------------
(***************************************************************************)
(* Who has paid, and who is reminded (the payment routes of                *)
(* app/api/routers/dashboard.py).                                          *)
(*                                                                         *)
(* Requests of organizers interleave wherever they await the database,     *)
(* the check of rights or Telegram.  A message sent is one of Outcomes, as *)
(* the sender sees it.                                                     *)
(***************************************************************************)
EXTENDS Integers, Sequences, Functions, FiniteSets

CONSTANTS
  CreatedAt,  \* when each active player signed up; guests are negative
  Organizers,
  Outcomes    \* "delivered", and the ways a message fails

Players == DOMAIN CreatedAt
Guests  == {p \in Players : p < 0}

ASSUME RemindParameters ==
  /\ Players \subseteq Int /\ IsFiniteSet(Players)
  /\ CreatedAt \in [Players -> Nat]

VARIABLES
  mode,       \* billing_mode of the group
  isPaid,     \* Signup.is_paid
  notifyLog,  \* the entry notify_log:<game>:<player> of the cache
  groupLog,   \* how many owed at the last reminder in the group, 0 for none
  req         \* the request each organizer has under way

remindVars == <<mode, isPaid, notifyLog, groupLog, req>>

NoRequest == [pc |-> "idle"]

RemindInit ==
  /\ mode \in {"manual", "free_corporate"}
  /\ isPaid = [p \in Players |-> FALSE]
  /\ notifyLog = [p \in Players |-> "none"]
  /\ groupLog = 0
  /\ req = [o \in Organizers |-> NoRequest]

ChangeMode ==
  /\ mode' \in {"manual", "free_corporate"} \ {mode}
  /\ UNCHANGED <<isPaid, notifyLog, groupLog, req>>

\* The signup is loaded, the rights are checked, the mark is turned round.
TogglePayBegin(o) ==
  /\ req[o].pc = "idle"
  /\ \E p \in Players : req' = [req EXCEPT ![o] = [pc |-> "toggle", player |-> p, was |-> isPaid[p]]]
  /\ UNCHANGED <<mode, isPaid, notifyLog, groupLog>>

TogglePayment(o) ==
  /\ req[o].pc = "toggle"
  /\ isPaid' = [isPaid EXCEPT ![req[o].player] = ~ req[o].was]
  /\ req' = [req EXCEPT ![o] = NoRequest]
  /\ UNCHANGED <<mode, notifyLog, groupLog>>

Unpaid == {p \in Players : ~ isPaid[p]}

Reminding(them) ==
  [pc |-> "next", todo |-> them, results |-> [p \in them |-> "none"], sent |-> <<>>]

\* The rows are worked through in the order of created_at.
Following(todo) == {p \in todo : \A q \in todo : CreatedAt[p] <= CreatedAt[q]}

\* The rows are read before the mode: nobody in debt is an answer even in a
\* group that is free.
NotifyAllBegin(o) ==
  /\ req[o].pc = "idle"
  /\ Unpaid # {}
  /\ mode # "free_corporate"
  /\ req' = [req EXCEPT ![o] = Reminding(Unpaid)]
  /\ UNCHANGED <<mode, isPaid, notifyLog, groupLog>>

\* One player, paid or not; a guest is recorded before the mode is read.
NotifyOneBegin(o) ==
  /\ req[o].pc = "idle"
  /\ \E p \in Players :
       /\ p \in Guests \/ mode # "free_corporate"
       /\ req' = [req EXCEPT ![o] = Reminding({p})]
  /\ UNCHANGED <<mode, isPaid, notifyLog, groupLog>>

\* The entry of the cache; a failure to write it is only a warning.
Log(p, status) == notifyLog' \in {notifyLog, [notifyLog EXCEPT ![p] = status]}

NotifyGuest(o) ==
  /\ req[o].pc = "next"
  /\ \E p \in Following(req[o].todo) \cap Guests :
       /\ Log(p, "guest")
       /\ req' = [req EXCEPT ![o].todo = @ \ {p}, ![o].results[p] = "guest"]
  /\ UNCHANGED <<mode, isPaid, groupLog>>

Send(o) ==
  /\ req[o].pc = "next"
  /\ \E p \in Following(req[o].todo) \ Guests, outcome \in Outcomes :
       req' = [req EXCEPT ![o].pc = "log", ![o].sent = Append(@, <<p, outcome>>)]
  /\ UNCHANGED <<mode, isPaid, notifyLog, groupLog>>

Latest(reminder) == reminder.sent[Len(reminder.sent)]

\* (mutated: a message that fails ends the request)
RecordOrStop(o) ==
  /\ req[o].pc = "log"
  /\ LET p      == Latest(req[o])[1]
         status == Latest(req[o])[2]
     IN  /\ Log(p, status)
         /\ req' = [req EXCEPT ![o].pc = "next", ![o].results[p] = status,
                      ![o].todo = IF status = "delivered" THEN @ \ {p} ELSE {}]
  /\ UNCHANGED <<mode, isPaid, groupLog>>

\* Both branches of the try: what Telegram answered is logged, the loop goes on.
Record(o) ==
  /\ req[o].pc = "log"
  /\ LET p      == Latest(req[o])[1]
         status == Latest(req[o])[2]
     IN  /\ Log(p, status)
         /\ req' = [req EXCEPT ![o].pc = "next", ![o].results[p] = status, ![o].todo = @ \ {p}]
  /\ UNCHANGED <<mode, isPaid, groupLog>>

Answered(o) == req[o].pc = "next" /\ req[o].todo = {}

AnswerRequest(o) ==
  /\ Answered(o)
  /\ req' = [req EXCEPT ![o] = NoRequest]
  /\ UNCHANGED <<mode, isPaid, notifyLog, groupLog>>

NotifyGroupBegin(o) ==
  /\ req[o].pc = "idle"
  /\ Unpaid # {}
  /\ mode # "free_corporate"
  /\ req' = [req EXCEPT ![o] = [pc |-> "group", owing |-> Cardinality(Unpaid)]]
  /\ UNCHANGED <<mode, isPaid, notifyLog, groupLog>>

\* A post that fails is answered with an error and leaves no record.
NotifyGroup(o) ==
  /\ req[o].pc = "group"
  /\ groupLog' \in {groupLog, req[o].owing}
  /\ req' = [req EXCEPT ![o] = NoRequest]
  /\ UNCHANGED <<mode, isPaid, notifyLog>>

\* Entries of the cache live for thirty days.
LogExpires ==
  /\ \E p \in Players : notifyLog[p] # "none" /\ notifyLog' = [notifyLog EXCEPT ![p] = "none"]
  /\ UNCHANGED <<mode, isPaid, groupLog, req>>

RemindNext ==
  \/ ChangeMode
  \/ LogExpires
  \/ \E o \in Organizers :
       \/ TogglePayBegin(o) \/ TogglePayment(o)
       \/ NotifyAllBegin(o) \/ NotifyOneBegin(o)
       \/ NotifyGuest(o) \/ Send(o) \/ Record(o) \/ AnswerRequest(o)
       \/ NotifyGroupBegin(o) \/ NotifyGroup(o)

RemindSpec == RemindInit /\ [][RemindNext]_remindVars

(***************************************************************************)
(* Properties.                                                             *)
(***************************************************************************)
\* When a request to remind is answered, everybody who owed when it began,
\* whoever has paid, been reminded or been refused by Telegram meanwhile, was
\* written to exactly once and is reported with what came of it; a guest is
\* reported and was not written to.
DebtorsTold ==
  \A o \in Organizers :
    Answered(o) =>
      /\ DOMAIN req[o].results \ Guests = {m[1] : m \in Range(req[o].sent)}
      /\ Len(req[o].sent) = Cardinality(DOMAIN req[o].results \ Guests)
      /\ \A m \in Range(req[o].sent) : req[o].results[m[1]] = m[2]
      /\ \A p \in DOMAIN req[o].results \cap Guests : req[o].results[p] = "guest"
=============================================================================
