----------------------------- MODULE Inventory ------------------------------
(***************************************************************************)
(* The equipment of the groups: the requests of organizers, the sweep that *)
(* looks for worn or missing items and alerts whoever looks after them,    *)
(* and the alert an organizer sends by hand.                               *)
(*                                                                         *)
(* Every one of them loads rows, computes, awaits Telegram, and commits,   *)
(* writing the columns it changed and no other; nothing is locked.  The    *)
(* unit of time is a day, and a request takes less.                        *)
(***************************************************************************)
EXTENDS Integers, FiniteSets

CONSTANTS
  Items,      \* identities of rows, never used twice
  Procs,      \* requests of organizers, and the job
  Payloads,   \* what an update may ask for: records of some of the columns
  Ages,       \* how long ago a new item may have been bought
  Lives,      \* lifespans, NoLife for an item without one
  NoLife,
  Lead,       \* days before its end an item is to be replaced soon (30)
  Cooldown,   \* days the job leaves between two alerts (7)
  MaxEdits,   \* bound on the requests of organizers
  Horizon     \* bound on time

ASSUME InventoryParameters ==
  /\ NoLife \in Lives /\ Lives \ {NoLife} \subseteq Nat \ {0}
  /\ Ages \subseteq Nat
  /\ Lead \in Nat \ {0} /\ Cooldown \in Nat \ {0}
  /\ {MaxEdits, Horizon} \subseteq Nat

\* An update can take the lifespan from an item no more than it can change
\* when the last alert was.
ASSUME PayloadColumns ==
  \A y \in Payloads :
    /\ DOMAIN y \subseteq {"quantity", "status", "life", "bought"}
    /\ "quantity" \in DOMAIN y => y["quantity"] \in Nat
    /\ "life" \in DOMAIN y => y["life"] \in Lives \ {NoLife}
    /\ "bought" \in DOMAIN y => y["bought"] \in Int

VARIABLES
  now,
  items,   \* the rows of InventoryItem, by identity
  born,    \* the identities used so far
  txn,     \* how far each request has come
  edits,   \* how many requests of organizers there have been
  sent,    \* sent[i]: the days on which an alert reached somebody, or an
           \* organizer had one sent
  warned   \* warned[i]: the day of the last alert of the job on record

rows == <<items, born>>
vars == <<now, items, born, txn, edits, sent, warned>>

Never    == -1
Idle     == [at |-> "idle"]

Init ==
  /\ now = 0
  /\ items = [i \in {} |-> Never] /\ born = {}
  /\ txn = [p \in Procs |-> Idle]
  /\ edits = 0
  /\ sent = [i \in Items |-> {}]
  /\ warned = [i \in Items |-> Never]

Become(p, t) == txn' = [txn EXCEPT ![p] = t]

(***************************************************************************)
(* The status of an item.                                                  *)
(***************************************************************************)
Left(row, day) == row.life - (day - row.bought)

\* (mutated: no lead)
WornTooLate(row, day) == 5 * Left(row, day) <= row.life

\* A fifth of the lifespan, but no less than the lead.
Worn(row, day) == Left(row, day) <= Lead \/ 5 * Left(row, day) <= row.life

\* calculate_item_status: a row without a lifespan keeps what it says.
Status(row, day) ==
  CASE row.quantity <= 0    -> "URGENT_PURCHASE"
    [] row.quantity > 0 /\ row.life = NoLife -> row.status
    [] OTHER -> CASE Left(row, day) <= 0 -> "URGENT_PURCHASE"
                  [] Left(row, day) > 0 /\ Worn(row, day) -> "REPLACE_SOON"
                  [] OTHER -> "IN_STOCK"

Assessed(row, day) == [row EXCEPT !.status = Status(row, day)]

(***************************************************************************)
(* Requests of organizers: t.read is what the request loaded, t.wants what *)
(* the rows are to become.                                                 *)
(***************************************************************************)
Works(t) == t.at # "idle"

Edit(p, i, wants) ==
  /\ i \in DOMAIN items
  /\ txn[p] = Idle
  /\ edits < MaxEdits
  /\ edits' = edits + 1
  /\ Become(p, [at |-> "edit", read |-> [j \in {i} |-> items[i]], wants |-> [j \in {i} |-> wants]])
  /\ UNCHANGED <<now, rows, sent, warned>>

\* Created in one transaction nobody else can see.
Create(p, i, quantity, age, life) ==
  /\ txn[p] = Idle
  /\ edits < MaxEdits
  /\ i \notin born
  /\ edits' = edits + 1
  /\ born' = born \cup {i}
  /\ LET new == Assessed([quantity |-> quantity, status |-> "IN_STOCK", life |-> life,
                          bought |-> now - age, alerted |-> Never], now)
     IN  items' = [j \in DOMAIN items \cup {i} |-> IF j = i THEN new ELSE items[j]]
  /\ UNCHANGED <<now, txn, sent, warned>>

\* The status is calculated anew unless the update names one.
Update(p, i, payload) ==
  LET row == [c \in DOMAIN items[i] |-> IF c \in DOMAIN payload THEN payload[c] ELSE items[i][c]]
  IN  Edit(p, i, IF "status" \in DOMAIN payload THEN row ELSE Assessed(row, now))

\* mark_item_as_purchased; without a number the quantity stays as it was.
Purchase(p, i, quantity) ==
  Edit(p, i, [items[i] EXCEPT !.bought = now, !.status = "IN_STOCK",
                              !.quantity = IF quantity = 0 THEN @ ELSE quantity])

Delete(p, i) ==
  /\ i \in DOMAIN items
  /\ txn[p] = Idle
  /\ edits < MaxEdits
  /\ edits' = edits + 1
  /\ items' = [j \in DOMAIN items \ {i} |-> items[j]]
  /\ UNCHANGED <<now, born, txn, sent, warned>>

\* send_item_alert_now: no cooldown, and the day is recorded whether or not
\* the message arrives.
AlertNow(p, i) ==
  Edit(p, i, [Assessed(items[i], now) EXCEPT !.alerted = now])

(***************************************************************************)
(* The sweep: by the job, over all groups with the cooldown, or by an      *)
(* organizer, over his group and without one.                              *)
(***************************************************************************)
SweepBegin(p, job, group) ==
  /\ txn[p] = Idle
  /\ IF job
       THEN /\ group = DOMAIN items
            /\ \A q \in Procs : Works(txn[q]) => ~(txn[q].at = "sweep" /\ txn[q].job)
            /\ UNCHANGED edits
       ELSE /\ group \subseteq DOMAIN items
            /\ edits < MaxEdits
            /\ edits' = edits + 1
  /\ group # {}
  /\ LET read == [i \in group |-> items[i]]
     IN  Become(p, [at |-> "sweep", job |-> job, read |-> read, wants |-> read,
                    todo |-> group, told |-> {}])
  /\ UNCHANGED <<now, rows, sent, warned>>

\* (mutated: the cutoff is a day off)
QuietShort(row, job) ==
  row.alerted # Never /\ row.alerted > now - (IF job THEN Cooldown - 1 ELSE 0)

\* Whether the item was alerted about after the cutoff.
Quiet(row, job) ==
  row.alerted # Never /\ row.alerted > now - (IF job THEN Cooldown ELSE 0)

\* (mutated: the alert counts as sent whatever Telegram says)
StampAlways(row, arrives) == [row EXCEPT !.alerted = now]

Stamp(row, arrives) == IF arrives THEN [row EXCEPT !.alerted = now] ELSE row

SweepItem(p, i, arrives) ==
  LET t   == txn[p]
      row == Assessed(t.read[i], now)
      due == row.status # "IN_STOCK" /\ ~Quiet(row, t.job)
  IN  /\ t.at = "sweep"
      /\ i \in t.todo
      /\ arrives => due
      /\ Become(p, [t EXCEPT !.todo = @ \ {i},
                             !.wants[i] = IF due THEN Stamp(row, arrives) ELSE row,
                             !.told = IF arrives THEN @ \cup {i} ELSE @])
      /\ sent' = IF arrives THEN [sent EXCEPT ![i] = @ \cup {now}] ELSE sent
      /\ UNCHANGED <<now, rows, edits, warned>>

(***************************************************************************)
(* The commit: an UPDATE of the changed columns of the changed rows.  If   *)
(* one of these rows is gone the flush fails (StaleDataError), and nothing *)
(* of the transaction stays.                                               *)
(***************************************************************************)

\* (mutated: whole rows are written)
ChangedAll(row, old, new) == new

\* The columns of the row in which old and new differ.
Changed(row, old, new) ==
  [c \in DOMAIN row |-> IF old[c] # new[c] THEN new[c] ELSE row[c]]

Written(t) ==
  {i \in DOMAIN t.read : t.read[i] # t.wants[i]}

Commit(p) ==
  LET t == txn[p]
  IN  /\ t.at = "edit" \/ (t.at = "sweep" /\ t.todo = {})
      /\ Written(t) \subseteq DOMAIN items
      /\ items' = [i \in DOMAIN items |->
                     IF i \in Written(t) THEN Changed(items[i], t.read[i], t.wants[i])
                     ELSE items[i]]
      /\ sent' = [i \in Items |->
                    IF t.at = "edit" /\ i \in Written(t) /\ t.wants[i].alerted # t.read[i].alerted
                      THEN sent[i] \cup {now} ELSE sent[i]]
      /\ warned' = [i \in Items |->
                      IF t.at = "sweep" /\ t.job /\ i \in t.told THEN now ELSE warned[i]]
      /\ Become(p, Idle)
      /\ UNCHANGED <<now, born, edits>>

\* The commit fails, or the process dies: the job only logs it, the request
\* answers with an error, and the alerts are out.
Fail(p) ==
  /\ Works(txn[p])
  /\ Become(p, Idle)
  /\ UNCHANGED <<now, rows, edits, sent, warned>>

Tick ==
  /\ now < Horizon
  /\ \A p \in Procs : ~Works(txn[p])
  /\ now' = now + 1
  /\ UNCHANGED <<rows, txn, edits, sent, warned>>

Next ==
  \/ \E p \in Procs :
       \/ \E i \in Items :
            \/ \E quantity \in {0, 1}, age \in Ages, life \in Lives :
                 Create(p, i, quantity, age, life)
            \/ \E payload \in Payloads : Update(p, i, payload)
            \/ \E quantity \in {0, 1} : Purchase(p, i, quantity)
            \/ Delete(p, i)
            \/ AlertNow(p, i)
            \/ \E arrives \in BOOLEAN : SweepItem(p, i, arrives)
       \/ \E job \in BOOLEAN, group \in SUBSET DOMAIN items : SweepBegin(p, job, group)
       \/ Commit(p)
       \/ Fail(p)
  \/ Tick

Spec == Init /\ [][Next]_vars

(***************************************************************************)
(* Properties.                                                             *)
(***************************************************************************)
\* The job leaves the cooldown between two of its alerts about an item
\* ("Rate-limited to prevent alert fatigue", inventory.py:222), whatever
\* organizers edit, buy or send in the meantime, unless the transaction that
\* was to record the earlier one failed.
AlertsSpaced ==
  \A p \in Procs :
    txn[p].at = "sweep" /\ txn[p].job =>
      \A i \in txn[p].told : warned[i] = Never \/ now - warned[i] >= Cooldown

\* An item the sweeps keep quiet about is one somebody was told of: on the
\* day on record an alert arrived, or an organizer had one sent.
QuietIsTold ==
  \A i \in DOMAIN items : items[i].alerted # Never => items[i].alerted \in sent[i]

\* Time alone never takes an item from IN_STOCK to URGENT_PURCHASE: there is
\* a day on which it is announced to be replaced soon.
AnnouncedFirst ==
  [][now' # now =>
       \A i \in DOMAIN items :
         Status(items[i], now) = "IN_STOCK" => Status(items[i], now') # "URGENT_PURCHASE"]_vars

\* What organizers commit while a sweep is under way outlives the sweep: its
\* commit changes no quantity, no date and no lifespan.
SweepKeepsEdits ==
  [][\A p \in Procs : txn[p].at = "sweep" =>
       \A i \in DOMAIN items \cap DOMAIN items' :
         txn'[p] = Idle => /\ items'[i].quantity = items[i].quantity
                           /\ items'[i].bought = items[i].bought
                           /\ items'[i].life = items[i].life]_vars
=============================================================================
