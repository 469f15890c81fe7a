----------------------------- MODULE GroupProofs ------------------------------
(***************************************************************************)
(* Proofs about what a group keeps and collects: Inventory, Billing and    *)
(* Reminders, for any items, requests, accounts, prices and people.        *)
(***************************************************************************)
EXTENDS Inventory, Billing, Reminders, FiniteSetTheorems, SequenceTheorems,
        WellFoundedInduction, TLAPS

(***************************************************************************)
(* Alerts.                                                                 *)
(*                                                                         *)
(* The spacing of alerts is not inductive: that a row on record was last   *)
(* alerted about no earlier than the last alert of the job has to survive  *)
(* commits of requests that loaded the row long before.  It does, because  *)
(* they write the day only where they changed it, to today.                *)
(***************************************************************************)

Columns == {"quantity", "status", "life", "bought", "alerted"}

\* A row that has all columns, last alerted about today at the latest.
Sound(row, day) ==
  /\ DOMAIN row = Columns
  /\ row.quantity \in Nat /\ row.life \in Lives /\ row.bought \in Int
  /\ row.alerted \in {Never} \cup 0..day

Shelf ==
  /\ now \in Nat
  /\ DOMAIN items \subseteq born /\ born \subseteq Items
  /\ \A i \in DOMAIN items : Sound(items[i], now)

\* What is remembered of the alerts.
Memory ==
  /\ sent \in [Items -> SUBSET Nat]
  /\ warned \in [Items -> {Never} \cup 0..now]
  /\ \A i \in Items : warned[i] # Never => i \in born
  /\ \A i \in DOMAIN items : warned[i] <= items[i].alerted

\* What an organizer's request holds: a row as it was and as it is to be.
Editing(t, day) ==
  /\ t.at = "edit"
  /\ DOMAIN t.read \subseteq Items
  /\ \A i \in DOMAIN t.read :
       /\ Sound(t.read[i], day) /\ Sound(t.wants[i], day)
       /\ t.wants[i].alerted \in {t.read[i].alerted, day}

\* What a sweep holds of a row: it changes status and day of alert only, and
\* the day of those that were told of, ...
Swept(t, i, day, s) ==
  /\ Sound(t.read[i], day) /\ Sound(t.wants[i], day)
  /\ t.wants[i].quantity = t.read[i].quantity
  /\ t.wants[i].bought = t.read[i].bought
  /\ t.wants[i].life = t.read[i].life
  /\ i \in t.todo => i \notin t.told
  /\ i \notin t.told => t.wants[i].alerted = t.read[i].alerted
  /\ i \in t.told => t.wants[i].alerted = day /\ day \in s[i]

\* ... which, for the job, had been quiet for long enough.
Rested(t, i, day, w) ==
  /\ w[i] <= t.read[i].alerted
  /\ i \in t.told => t.read[i].alerted = Never \/ t.read[i].alerted + Cooldown <= day

Sweeping(t, day, s, w) ==
  /\ t.at = "sweep"
  /\ DOMAIN t = {"at", "job", "read", "wants", "todo", "told"}
  /\ t.job \in BOOLEAN
  /\ DOMAIN t.read \subseteq Items /\ DOMAIN t.wants = DOMAIN t.read
  /\ t.told \subseteq DOMAIN t.read /\ t.todo \subseteq DOMAIN t.read
  /\ \A i \in DOMAIN t.read : Swept(t, i, day, s)
  /\ t.job => \A i \in DOMAIN t.read : Rested(t, i, day, w)

Holds(t, day, s, w) == t = Idle \/ Editing(t, day) \/ Sweeping(t, day, s, w)

Job(t) == t.at = "sweep" /\ t.job

Requests ==
  /\ DOMAIN txn = Procs /\ txn = [p \in Procs |-> txn[p]]
  /\ \A p \in Procs : Holds(txn[p], now, sent, warned)
  /\ \A p, q \in Procs : Job(txn[p]) /\ Job(txn[q]) => p = q

\* The inductive invariant.
InventoryInv == Shelf /\ Memory /\ Requests /\ QuietIsTold

LEMMA InventoryInit == Init => InventoryInv
<1> SUFFICES ASSUME Init PROVE InventoryInv
  OBVIOUS
<1>1. Shelf /\ Memory /\ QuietIsTold
  BY DEF Init, Shelf, Memory, QuietIsTold, Never
<1>2. Requests
  BY DEF Init, Requests, Holds, Job, Idle
<1> QED BY <1>1, <1>2 DEF InventoryInv

(***************************************************************************)
(* Rows.                                                                   *)
(***************************************************************************)

LEMMA AssessedSound ==
  ASSUME NEW row, NEW day, Sound(row, day)
  PROVE  \A today : /\ Sound(Assessed(row, today), day)
                    /\ Assessed(row, today).quantity = row.quantity
                    /\ Assessed(row, today).life = row.life
                    /\ Assessed(row, today).bought = row.bought
                    /\ Assessed(row, today).alerted = row.alerted
                    /\ Assessed(row, today).status = Status(row, today)
  BY DEF Assessed, Sound, Columns

LEMMA StampedSound ==
  ASSUME NEW row, NEW day \in Nat, Sound(row, day)
  PROVE  LET new == [row EXCEPT !.alerted = day]
         IN  /\ Sound(new, day)
             /\ new.quantity = row.quantity /\ new.life = row.life
             /\ new.bought = row.bought /\ new.alerted = day
  BY DEF Sound, Columns

\* What a commit makes of a row.
LEMMA ChangedSound ==
  ASSUME NEW row, NEW old, NEW new, NEW day,
         Sound(row, day), Sound(old, day), Sound(new, day)
  PROVE  /\ Sound(Changed(row, old, new), day)
         /\ Changed(row, old, new).alerted
              = IF old.alerted # new.alerted THEN new.alerted ELSE row.alerted
         /\ old.quantity = new.quantity => Changed(row, old, new).quantity = row.quantity
         /\ old.bought = new.bought => Changed(row, old, new).bought = row.bought
         /\ old.life = new.life => Changed(row, old, new).life = row.life
<1>1. DOMAIN Changed(row, old, new) = Columns
  BY DEF Changed, Sound
<1>2. \A c \in Columns : Changed(row, old, new)[c] = IF old[c] # new[c] THEN new[c] ELSE row[c]
  BY DEF Changed, Sound
<1> QED BY <1>1, <1>2 DEF Sound, Columns

(***************************************************************************)
(* Steps.                                                                  *)
(***************************************************************************)

\* What a request holds stays true as more alerts are sent.
LEMMA HoldsOn ==
  ASSUME NEW t, NEW day, NEW s, NEW w, NEW more, Holds(t, day, s, w),
         \A i \in Items : s[i] \subseteq more[i]
  PROVE  Holds(t, day, more, w)
<1>1. CASE t = Idle
  BY <1>1 DEF Holds
<1>2. CASE Editing(t, day)
  BY <1>2 DEF Holds
<1>3. CASE Sweeping(t, day, s, w)
  <2>1. \A i \in DOMAIN t.read : i \in Items
    BY <1>3 DEF Sweeping
  <2>2. \A i \in DOMAIN t.read : Swept(t, i, day, more)
    BY <1>3, <2>1 DEF Sweeping, Swept
  <2> QED BY <1>3, <2>2 DEF Sweeping, Holds
<1> QED BY <1>1, <1>2, <1>3 DEF Holds

\* A step of one request, without a commit.
LEMMA HoldStep ==
  ASSUME InventoryInv, NEW p \in Procs, NEW t, Become(p, t),
         UNCHANGED <<now, rows, warned>>,
         sent' \in [Items -> SUBSET Nat], \A i \in Items : sent[i] \subseteq sent'[i],
         Holds(t, now, sent', warned),
         Job(t) => \A q \in Procs \ {p} : ~Job(txn[q])
  PROVE  InventoryInv'
<1>1. UNCHANGED <<now, items, born, warned>>
  BY DEF rows
<1>2. Shelf'
  BY <1>1 DEF InventoryInv, Shelf
<1>3. Memory' /\ QuietIsTold'
  BY <1>1 DEF InventoryInv, Memory, QuietIsTold, Shelf
<1>4. /\ DOMAIN txn' = Procs /\ txn' = [q \in Procs |-> txn'[q]]
      /\ \A q \in Procs : txn'[q] = IF q = p THEN t ELSE txn[q]
  BY DEF InventoryInv, Requests, Become
<1>5. \A q \in Procs : Holds(txn[q], now, sent', warned)
  BY HoldsOn DEF InventoryInv, Requests
<1>6. \A q \in Procs : Holds(txn'[q], now, sent', warned)
  BY <1>4, <1>5
<1>7. ASSUME NEW q \in Procs, NEW r \in Procs, Job(txn'[q]), Job(txn'[r])
      PROVE  q = r
  BY <1>4, <1>7 DEF InventoryInv, Requests
<1>8. \A q, r \in Procs : Job(txn[q])' /\ Job(txn[r])' => q = r
  BY <1>7 DEF Job
<1>9. \A q \in Procs : Holds(txn[q], now, sent, warned)'
  <2>1. \A q \in Procs : Holds(txn'[q], now', sent', warned')
    BY <1>1, <1>6
  <2> QED BY <2>1 DEF Holds, Editing, Sweeping, Swept, Rested, Sound
<1>10. Requests'
  BY <1>4, <1>8, <1>9 DEF Requests
<1> QED BY <1>2, <1>3, <1>10 DEF InventoryInv

\* A step of no request, in which rows come or go.
LEMMA RowStep ==
  ASSUME InventoryInv, UNCHANGED <<now, txn, sent, warned>>, Shelf', born \subseteq born',
         \A i \in DOMAIN items' : \/ i \in DOMAIN items /\ items'[i] = items[i]
                                  \/ i \notin born /\ items'[i].alerted = Never
  PROVE  InventoryInv'
<1>1. Requests'
  <2> DEFINE H(t) == Holds(t, now, sent, warned)
  <2>1. \A p \in Procs : H(txn[p])'
    <3>1. \A p \in Procs : H(txn'[p])
      BY DEF InventoryInv, Requests
    <3> QED BY <3>1 DEF Holds, Editing, Sweeping, Swept, Rested, Sound
  <2>2. \A p, q \in Procs : Job(txn[p])' /\ Job(txn[q])' => p = q
    BY DEF InventoryInv, Requests, Job
  <2>3. DOMAIN txn' = Procs /\ txn' = [p \in Procs |-> txn'[p]]
    BY DEF InventoryInv, Requests
  <2> QED BY <2>1, <2>2, <2>3 DEF Requests
<1>2. \A i \in DOMAIN items' : warned[i] <= items'[i].alerted
  <2> TAKE i \in DOMAIN items'
  <2>1. CASE i \in DOMAIN items /\ items'[i] = items[i]
    BY <2>1 DEF InventoryInv, Memory
  <2>2. CASE i \notin born /\ items'[i].alerted = Never
    <3>1. i \in Items
      BY DEF Shelf
    <3>2. warned[i] = Never
      BY <2>2, <3>1 DEF InventoryInv, Memory
    <3> QED BY <2>2, <3>2 DEF Never
  <2> QED BY <2>1, <2>2
<1>3. Memory'
  BY <1>2 DEF InventoryInv, Memory
<1>4. QuietIsTold'
  BY DEF InventoryInv, QuietIsTold
<1> QED BY <1>1, <1>3, <1>4 DEF InventoryInv

\* Loading a row and changing it.
LEMMA EditStep ==
  ASSUME InventoryInv, NEW p \in Procs, NEW i, NEW wants, Edit(p, i, wants),
         Sound(wants, now), wants.alerted \in {items[i].alerted, now}
  PROVE  InventoryInv'
<1> DEFINE t == [at |-> "edit", read |-> [j \in {i} |-> items[i]], wants |-> [j \in {i} |-> wants]]
<1>1. i \in DOMAIN items /\ i \in Items /\ Sound(items[i], now)
  BY DEF Edit, InventoryInv, Shelf
<1>2. Editing(t, now)
  BY <1>1 DEF Editing
<1>3. Become(p, t) /\ UNCHANGED <<now, rows, warned>> /\ sent' = sent
  BY DEF Edit
<1>4. ~Job(t)
  BY DEF Job
<1> HIDE DEF t
<1> QED BY <1>2, <1>3, <1>4, HoldStep DEF Holds, InventoryInv, Memory

LEMMA CreateStep ==
  ASSUME InventoryInv, NEW p \in Procs, NEW i \in Items,
         NEW quantity \in {0, 1}, NEW age \in Ages, NEW life \in Lives, Create(p, i, quantity, age, life)
  PROVE  InventoryInv'
<1> DEFINE row == [quantity |-> quantity, status |-> "IN_STOCK", life |-> life,
                   bought |-> now - age, alerted |-> Never]
           new == Assessed(row, now)
<1>1. now \in Nat /\ age \in Nat
  BY InventoryParameters DEF InventoryInv, Shelf
<1>2. Sound(row, now) /\ row.alerted = Never
  BY <1>1 DEF Sound, Columns
<1>3. Sound(new, now) /\ new.alerted = Never
  BY <1>2, AssessedSound
<1>4. /\ UNCHANGED <<now, txn, sent, warned>> /\ born' = born \cup {i} /\ i \notin born
      /\ items' = [j \in DOMAIN items \cup {i} |-> IF j = i THEN new ELSE items[j]]
  BY DEF Create
<1> HIDE DEF new
<1>5. \A j \in DOMAIN items' : IF j = i THEN items'[j] = new
                               ELSE j \in DOMAIN items /\ items'[j] = items[j]
  BY <1>4
<1>6. \A j \in DOMAIN items' : Sound(items'[j], now)
  BY <1>3, <1>5 DEF InventoryInv, Shelf
<1>7. Shelf'
  BY <1>4, <1>6 DEF InventoryInv, Shelf, Sound
<1>8. \A j \in DOMAIN items' : \/ j \in DOMAIN items /\ items'[j] = items[j]
                               \/ j \notin born /\ items'[j].alerted = Never
  BY <1>3, <1>4, <1>5
<1>9. UNCHANGED <<now, txn, sent, warned>> /\ born \subseteq born'
  BY <1>4
<1> QED BY <1>7, <1>8, <1>9, RowStep

LEMMA DeleteStep ==
  ASSUME InventoryInv, NEW p \in Procs, NEW i \in Items, Delete(p, i)
  PROVE  InventoryInv'
<1>1. /\ UNCHANGED <<now, txn, sent, warned>> /\ born' = born
      /\ \A j \in DOMAIN items' : j \in DOMAIN items /\ items'[j] = items[j]
  BY DEF Delete
<1>2. Shelf'
  BY <1>1 DEF InventoryInv, Shelf, Sound
<1>3. \A j \in DOMAIN items' : \/ j \in DOMAIN items /\ items'[j] = items[j]
                               \/ j \notin born /\ items'[j].alerted = Never
  BY <1>1
<1>4. UNCHANGED <<now, txn, sent, warned>> /\ born \subseteq born'
  BY <1>1
<1> QED BY <1>2, <1>3, <1>4, RowStep

LEMMA UpdateStep ==
  ASSUME InventoryInv, NEW p \in Procs, NEW i \in Items, NEW payload \in Payloads,
         Update(p, i, payload)
  PROVE  InventoryInv'
<1> DEFINE row == [c \in DOMAIN items[i] |-> IF c \in DOMAIN payload THEN payload[c] ELSE items[i][c]]
<1>1. i \in DOMAIN items
  BY DEF Update, Edit
<1>2. Sound(items[i], now)
  BY <1>1 DEF InventoryInv, Shelf
<1>3. Sound(row, now) /\ row.alerted = items[i].alerted
  BY <1>2, PayloadColumns DEF Sound, Columns
<1>4. Sound(Assessed(row, now), now) /\ Assessed(row, now).alerted = items[i].alerted
  BY <1>3, AssessedSound
<1>5. \/ Edit(p, i, row)
      \/ Edit(p, i, Assessed(row, now))
  BY DEF Update
<1> HIDE DEF row
<1> QED BY <1>3, <1>4, <1>5, EditStep

LEMMA PurchaseStep ==
  ASSUME InventoryInv, NEW p \in Procs, NEW i \in Items, NEW quantity \in {0, 1}, Purchase(p, i, quantity)
  PROVE  InventoryInv'
<1> DEFINE row == [items[i] EXCEPT !.bought = now, !.status = "IN_STOCK",
                                   !.quantity = IF quantity = 0 THEN @ ELSE quantity]
<1>1. i \in DOMAIN items /\ now \in Nat
  BY DEF Purchase, Edit, InventoryInv, Shelf
<1>2. Sound(items[i], now)
  BY <1>1 DEF InventoryInv, Shelf
<1>3. Sound(row, now) /\ row.alerted = items[i].alerted
  BY <1>1, <1>2 DEF Sound, Columns
<1>4. Edit(p, i, row)
  BY DEF Purchase
<1> HIDE DEF row
<1> QED BY <1>3, <1>4, EditStep

LEMMA AlertNowStep ==
  ASSUME InventoryInv, NEW p \in Procs, NEW i \in Items, AlertNow(p, i)
  PROVE  InventoryInv'
<1> DEFINE row == [Assessed(items[i], now) EXCEPT !.alerted = now]
<1>1. i \in DOMAIN items /\ now \in Nat
  BY DEF AlertNow, Edit, InventoryInv, Shelf
<1>2. Sound(Assessed(items[i], now), now)
  BY <1>1, AssessedSound DEF InventoryInv, Shelf
<1>3. Sound(row, now) /\ row.alerted = now
  BY <1>1, <1>2, StampedSound
<1>4. Edit(p, i, row)
  BY DEF AlertNow
<1> HIDE DEF row
<1> QED BY <1>3, <1>4, EditStep

LEMMA SweepBeginStep ==
  ASSUME InventoryInv, NEW p \in Procs, NEW job \in BOOLEAN,
         NEW group \in SUBSET DOMAIN items, SweepBegin(p, job, group)
  PROVE  InventoryInv'
<1> DEFINE read == [i \in group |-> items[i]]
           t    == [at |-> "sweep", job |-> job, read |-> read, wants |-> read,
                    todo |-> group, told |-> {}]
<1>1. \A i \in group : /\ i \in Items /\ Sound(items[i], now)
                       /\ warned[i] <= items[i].alerted
  BY DEF InventoryInv, Shelf, Memory
<1>2. \A i \in group : Swept(t, i, now, sent) /\ Rested(t, i, now, warned)
  BY <1>1 DEF Swept, Rested
<1>3. Sweeping(t, now, sent, warned)
  BY <1>1, <1>2 DEF Sweeping
<1>4. Become(p, t) /\ UNCHANGED <<now, rows, warned>> /\ sent' = sent
  BY DEF SweepBegin
<1>5. Job(t) => \A q \in Procs : ~Job(txn[q])
  BY DEF SweepBegin, Job, Works
<1> HIDE DEF t
<1> QED BY <1>3, <1>4, <1>5, HoldStep DEF Holds, InventoryInv, Memory

\* What a sweep that has come to a row makes of it.
LEMMA SweptRow ==
  ASSUME NEW read, NEW job \in BOOLEAN, NEW due, NEW arrives \in BOOLEAN,
         now \in Nat, Sound(read, now),
         arrives => due /\ ~Quiet(Assessed(read, now), job)
  PROVE  LET row  == Assessed(read, now)
             want == IF due THEN Stamp(row, arrives) ELSE row
         IN  /\ Sound(want, now)
             /\ want.quantity = read.quantity /\ want.life = read.life
             /\ want.bought = read.bought
             /\ want.alerted = IF arrives THEN now ELSE read.alerted
             /\ arrives /\ job => read.alerted = Never \/ read.alerted + Cooldown <= now
<1> DEFINE row  == Assessed(read, now)
           want == IF due THEN Stamp(row, arrives) ELSE row
<1>1. /\ Sound(row, now) /\ row.quantity = read.quantity /\ row.life = read.life
      /\ row.bought = read.bought /\ row.alerted = read.alerted
  BY AssessedSound
<1>2. want = IF arrives THEN [row EXCEPT !.alerted = now] ELSE row
  BY DEF Stamp
<1>3. arrives => ~Quiet(row, job)
  OBVIOUS
<1> HIDE DEF row, want
<1>4. arrives /\ job => read.alerted = Never \/ read.alerted + Cooldown <= now
  BY <1>1, <1>3, InventoryParameters DEF Quiet, Sound, Never
<1>5. CASE arrives
  <2>1. /\ Sound([row EXCEPT !.alerted = now], now)
        /\ [row EXCEPT !.alerted = now].quantity = row.quantity
        /\ [row EXCEPT !.alerted = now].life = row.life
        /\ [row EXCEPT !.alerted = now].bought = row.bought
        /\ [row EXCEPT !.alerted = now].alerted = now
    BY <1>1, StampedSound
  <2>2. want = [row EXCEPT !.alerted = now]
    BY <1>2, <1>5
  <2>3. /\ Sound(want, now) /\ want.quantity = read.quantity /\ want.life = read.life
        /\ want.bought = read.bought /\ want.alerted = now
    BY <1>1, <2>1, <2>2
  <2> QED BY <1>4, <1>5, <2>3 DEF want, row
<1>6. CASE ~arrives
  <2>1. want = row
    BY <1>2, <1>6
  <2>2. /\ Sound(want, now) /\ want.quantity = read.quantity /\ want.life = read.life
        /\ want.bought = read.bought /\ want.alerted = read.alerted
    BY <1>1, <2>1
  <2> QED BY <1>6, <2>2 DEF want, row
<1> QED BY <1>5, <1>6

LEMMA AtSweep ==
  ASSUME InventoryInv, NEW p \in Procs, txn[p].at = "sweep"
  PROVE  Sweeping(txn[p], now, sent, warned)
<1>1. Holds(txn[p], now, sent, warned)
  BY DEF InventoryInv, Requests
<1> QED BY <1>1 DEF Holds, Editing, Idle

LEMMA SweepItemStep ==
  ASSUME InventoryInv, NEW p \in Procs, NEW i \in Items, NEW arrives \in BOOLEAN,
         SweepItem(p, i, arrives)
  PROVE  InventoryInv'
<1> DEFINE t    == txn[p]
           row  == Assessed(t.read[i], now)
           due  == row.status # "IN_STOCK" /\ ~Quiet(row, t.job)
           want == IF due THEN Stamp(row, arrives) ELSE row
           new  == [t EXCEPT !.todo = @ \ {i}, !.wants[i] = want,
                             !.told = IF arrives THEN @ \cup {i} ELSE @]
<1>1. t.at = "sweep" /\ i \in t.todo
  BY DEF SweepItem
<1>2. arrives => due /\ ~Quiet(row, t.job)
  BY DEF SweepItem
<1>3. Become(p, new) /\ UNCHANGED <<now, rows, warned>>
  BY DEF SweepItem
<1>4. sent' = IF arrives THEN [sent EXCEPT ![i] = @ \cup {now}] ELSE sent
  BY DEF SweepItem
<1>5. Sweeping(t, now, sent, warned)
  BY <1>1, AtSweep
<1> HIDE DEF t
<1>6. now \in Nat /\ sent \in [Items -> SUBSET Nat]
  BY DEF InventoryInv, Shelf, Memory
<1>7. /\ sent' \in [Items -> SUBSET Nat]
      /\ \A j \in Items : sent[j] \subseteq sent'[j]
      /\ arrives => now \in sent'[i]
  BY <1>4, <1>6
<1>8. i \in DOMAIN t.read /\ t.job \in BOOLEAN /\ Sound(t.read[i], now)
  BY <1>1, <1>5 DEF Sweeping, Swept
<1> HIDE DEF due, row
<1>9. /\ Sound(want, now) /\ want.quantity = t.read[i].quantity
      /\ want.life = t.read[i].life /\ want.bought = t.read[i].bought
      /\ want.alerted = IF arrives THEN now ELSE t.read[i].alerted
      /\ arrives /\ t.job => t.read[i].alerted = Never \/ t.read[i].alerted + Cooldown <= now
  BY <1>2, <1>6, <1>8, SweptRow DEF row
<1> HIDE DEF want
<1>10. /\ DOMAIN new = DOMAIN t /\ new.at = t.at /\ new.job = t.job /\ new.read = t.read
       /\ DOMAIN new.wants = DOMAIN t.wants
       /\ \A j \in DOMAIN t.wants : new.wants[j] = IF j = i THEN want ELSE t.wants[j]
       /\ new.todo = t.todo \ {i}
       /\ new.told = IF arrives THEN t.told \cup {i} ELSE t.told
  BY <1>5 DEF Sweeping
<1> HIDE DEF new
<1>11. Sweeping(new, now, sent', warned)
  <2>1. ASSUME NEW j \in DOMAIN t.read
        PROVE  Swept(new, j, now, sent') /\ (t.job => Rested(new, j, now, warned))
    <3>1. j \in Items /\ Swept(t, j, now, sent) /\ (t.job => Rested(t, j, now, warned))
      BY <1>5 DEF Sweeping
    <3>2. j \in DOMAIN t.wants
      BY <1>5 DEF Sweeping
    <3>3. CASE j = i
      BY <1>1, <1>7, <1>9, <1>10, <3>1, <3>2, <3>3 DEF Swept, Rested
    <3>4. CASE j # i
      BY <1>7, <1>10, <3>1, <3>2, <3>4 DEF Swept, Rested
    <3> QED BY <3>3, <3>4
  <2> QED BY <1>1, <1>5, <1>8, <1>10, <2>1 DEF Sweeping
<1>12. Job(new) => Job(t)
  BY <1>10 DEF Job
<1>13. Job(new) => \A q \in Procs \ {p} : ~Job(txn[q])
  BY <1>12 DEF InventoryInv, Requests, t
<1> QED BY <1>3, <1>7, <1>11, <1>13, HoldStep DEF Holds

LEMMA FailStep ==
  ASSUME InventoryInv, NEW p \in Procs, Fail(p)
  PROVE  InventoryInv'
<1>1. Become(p, Idle) /\ UNCHANGED <<now, rows, warned>> /\ sent' = sent
  BY DEF Fail
<1>2. ~Job(Idle)
  BY DEF Job, Idle
<1> QED BY <1>1, <1>2, HoldStep DEF Holds, InventoryInv, Memory

LEMMA TickStep ==
  ASSUME InventoryInv, Tick
  PROVE  InventoryInv'
<1>1. now' = now + 1 /\ UNCHANGED <<items, born, txn, sent, warned>> /\ now \in Nat
  BY DEF Tick, rows, InventoryInv, Shelf
<1>2. \A p \in Procs : txn[p] = Idle
  BY DEF Tick, Works, InventoryInv, Requests, Holds, Editing, Sweeping
<1>3. Shelf' /\ QuietIsTold'
  BY <1>1 DEF InventoryInv, Shelf, Sound, QuietIsTold
<1>4. Memory'
  BY <1>1 DEF InventoryInv, Memory
<1>5. Requests'
  BY <1>1, <1>2 DEF InventoryInv, Requests, Holds, Job, Idle
<1> QED BY <1>3, <1>4, <1>5 DEF InventoryInv

(***************************************************************************)
(* The commit.                                                             *)
(***************************************************************************)

LEMMA Committing ==
  ASSUME InventoryInv, NEW p \in Procs, Commit(p)
  PROVE  /\ Editing(txn[p], now) \/ Sweeping(txn[p], now, sent, warned)
         /\ UNCHANGED <<now, born>>
         /\ DOMAIN items' = DOMAIN items
         /\ \A i \in DOMAIN items :
              items'[i] = IF i \in Written(txn[p])
                            THEN Changed(items[i], txn[p].read[i], txn[p].wants[i]) ELSE items[i]
<1>1. Holds(txn[p], now, sent, warned) /\ txn[p] # Idle
  BY DEF InventoryInv, Requests, Commit, Idle
<1> QED BY <1>1 DEF Holds, Commit

\* What becomes of a row.
LEMMA CommittedRow ==
  ASSUME InventoryInv, NEW p \in Procs, Commit(p), NEW i \in DOMAIN items
  PROVE  LET old == txn[p].read[i]
             new == txn[p].wants[i]
         IN  IF i \in Written(txn[p])
             THEN /\ i \in DOMAIN txn[p].read /\ Sound(old, now) /\ Sound(new, now)
                  /\ new.alerted \in {old.alerted, now}
                  /\ Sound(items'[i], now)
                  /\ items'[i].alerted = IF old.alerted # new.alerted THEN now ELSE items[i].alerted
             ELSE items'[i] = items[i]
<1> DEFINE old == txn[p].read[i]
           new == txn[p].wants[i]
<1>1. CASE i \in Written(txn[p])
  <2>1. i \in DOMAIN txn[p].read
    BY <1>1 DEF Written
  <2>2. Sound(old, now) /\ Sound(new, now) /\ new.alerted \in {old.alerted, now}
    BY <2>1, Committing DEF Editing, Sweeping, Swept
  <2>3. Sound(items[i], now) /\ items'[i] = Changed(items[i], old, new)
    BY <1>1, Committing DEF InventoryInv, Shelf
  <2> HIDE DEF old, new
  <2>4. /\ Sound(items'[i], now)
        /\ items'[i].alerted = IF old.alerted # new.alerted THEN new.alerted ELSE items[i].alerted
    BY <2>2, <2>3, ChangedSound
  <2> QED BY <1>1, <2>1, <2>2, <2>4 DEF old, new
<1>2. CASE i \notin Written(txn[p])
  BY <1>2, Committing
<1> QED BY <1>1, <1>2

\* The alerts on record.
LEMMA CommittedAlerts ==
  ASSUME InventoryInv, NEW p \in Procs, Commit(p)
  PROVE  /\ sent' \in [Items -> SUBSET Nat]
         /\ \A i \in Items : sent[i] \subseteq sent'[i]
         /\ warned' \in [Items -> {Never} \cup 0..now]
         /\ \A i \in Items : warned'[i] # warned[i] => /\ Job(txn[p]) /\ i \in txn[p].told
                                                       /\ warned'[i] = now
<1>1. now \in Nat /\ sent \in [Items -> SUBSET Nat] /\ warned \in [Items -> {Never} \cup 0..now]
  BY DEF InventoryInv, Shelf, Memory
<1>2. sent' \in [Items -> SUBSET Nat] /\ \A i \in Items : sent[i] \subseteq sent'[i]
  BY <1>1 DEF Commit
<1>3. warned' = [i \in Items |-> IF txn[p].at = "sweep" /\ txn[p].job /\ i \in txn[p].told
                                   THEN now ELSE warned[i]]
  BY DEF Commit
<1>4. warned' \in [Items -> {Never} \cup 0..now]
  BY <1>1, <1>3
<1> QED BY <1>1, <1>2, <1>3, <1>4 DEF Job

\* The job records an alert in the row and in memory alike.
LEMMA TellsRow ==
  ASSUME InventoryInv, NEW p \in Procs, Commit(p), Job(txn[p]), NEW i \in txn[p].told
  PROVE  i \in DOMAIN items /\ items'[i].alerted = now
<1>1. Sweeping(txn[p], now, sent, warned)
  BY Committing DEF Job, Editing
<1>2. i \in DOMAIN txn[p].read
  BY <1>1 DEF Sweeping
<1>3. Swept(txn[p], i, now, sent) /\ Rested(txn[p], i, now, warned)
  BY <1>1, <1>2 DEF Sweeping, Job
<1>4. txn[p].read[i].alerted # now /\ txn[p].wants[i].alerted = now
  BY <1>3, InventoryParameters DEF Swept, Rested, Never, InventoryInv, Shelf, Sound
<1>5. i \in Written(txn[p])
  BY <1>2, <1>4 DEF Written
<1>6. i \in DOMAIN items
  BY <1>5 DEF Commit
<1> QED BY <1>4, <1>5, <1>6, CommittedRow

LEMMA CommitStep ==
  ASSUME InventoryInv, NEW p \in Procs, Commit(p)
  PROVE  InventoryInv'
<1>1. now \in Nat /\ UNCHANGED <<now, born>> /\ DOMAIN items' = DOMAIN items
  BY Committing DEF InventoryInv, Shelf
<1>2. \A i \in DOMAIN items : Sound(items'[i], now)
  BY CommittedRow DEF InventoryInv, Shelf
<1>3. Shelf'
  BY <1>1, <1>2 DEF InventoryInv, Shelf, Sound
<1>4. \A i \in Items : warned'[i] # Never => i \in born
  <2>1. \A i \in Items : warned'[i] # warned[i] => i \in DOMAIN items
    BY CommittedAlerts, TellsRow
  <2> QED BY <2>1 DEF InventoryInv, Memory, Shelf
<1>5. ASSUME NEW i \in DOMAIN items
      PROVE  warned'[i] <= items'[i].alerted
  <2>1. i \in Items /\ warned[i] <= items[i].alerted /\ warned[i] \in {Never} \cup 0..now
        /\ items[i].alerted \in {Never} \cup 0..now
    BY DEF InventoryInv, Shelf, Memory, Sound
  <2>2. items'[i].alerted \in {items[i].alerted, now}
    BY CommittedRow
  <2>3. CASE warned'[i] = warned[i]
    BY <1>1, <2>1, <2>2, <2>3 DEF Never
  <2>4. CASE warned'[i] # warned[i]
    <3>1. Job(txn[p]) /\ i \in txn[p].told /\ warned'[i] = now
      BY <2>1, <2>4, CommittedAlerts
    <3> QED BY <1>1, <3>1, TellsRow
  <2> QED BY <2>3, <2>4
<1>6. Memory'
  BY <1>1, <1>4, <1>5, CommittedAlerts DEF Memory
<1>7. ASSUME NEW i \in DOMAIN items, items'[i].alerted # Never
      PROVE  items'[i].alerted \in sent'[i]
  <2> DEFINE old == txn[p].read[i]
             new == txn[p].wants[i]
  <2>1. i \in Items /\ sent[i] \subseteq sent'[i]
        /\ (items[i].alerted # Never => items[i].alerted \in sent[i])
    BY CommittedAlerts DEF InventoryInv, Shelf, QuietIsTold
  <2>2. CASE items'[i].alerted = items[i].alerted
    BY <1>7, <2>1, <2>2
  <2>3. CASE items'[i].alerted # items[i].alerted
    <3>1. /\ i \in Written(txn[p]) /\ i \in DOMAIN txn[p].read
          /\ old.alerted # new.alerted /\ items'[i].alerted = now
      BY <2>3, CommittedRow
    <3>2. CASE txn[p].at = "edit"
      BY <2>1, <3>1, <3>2 DEF Commit
    <3>3. CASE Sweeping(txn[p], now, sent, warned)
      <4>1. Swept(txn[p], i, now, sent)
        BY <3>1, <3>3 DEF Sweeping
      <4> QED BY <2>1, <3>1, <4>1 DEF Swept
    <3> QED BY <3>2, <3>3, Committing DEF Editing
  <2> QED BY <2>2, <2>3
<1>8. QuietIsTold'
  BY <1>1, <1>7 DEF QuietIsTold
<1>9. /\ DOMAIN txn' = Procs /\ txn' = [q \in Procs |-> txn'[q]]
      /\ \A q \in Procs : txn'[q] = IF q = p THEN Idle ELSE txn[q]
  BY DEF InventoryInv, Requests, Commit, Become
<1>10. ASSUME NEW q \in Procs, q # p
       PROVE  Holds(txn[q], now, sent', warned')
  <2>1. Holds(txn[q], now, sent', warned)
    BY HoldsOn, CommittedAlerts DEF InventoryInv, Requests
  <2>2. CASE txn[q] = Idle
    BY <2>2 DEF Holds
  <2>3. CASE Editing(txn[q], now)
    BY <2>3 DEF Holds
  <2>4. CASE Sweeping(txn[q], now, sent', warned)
    <3>1. txn[q].job => ~Job(txn[p])
      BY <1>10, <2>4 DEF InventoryInv, Requests, Job, Sweeping
    <3>2. txn[q].job => \A i \in Items : warned'[i] = warned[i]
      BY <3>1, CommittedAlerts
    <3> QED BY <2>4, <3>2 DEF Holds, Sweeping, Rested
  <2> QED BY <2>1, <2>2, <2>3, <2>4 DEF Holds
<1>11. \A q \in Procs : Holds(txn[q], now, sent, warned)'
  <2>1. \A q \in Procs : Holds(txn'[q], now', sent', warned')
    BY <1>1, <1>9, <1>10 DEF Holds
  <2> QED BY <2>1 DEF Holds, Editing, Sweeping, Swept, Rested, Sound
<1>12. \A q, r \in Procs : Job(txn[q])' /\ Job(txn[r])' => q = r
  BY <1>9 DEF InventoryInv, Requests, Job, Idle
<1>13. Requests'
  BY <1>9, <1>11, <1>12 DEF Requests
<1> QED BY <1>3, <1>6, <1>8, <1>13 DEF InventoryInv

(***************************************************************************)
(* Every step, and the theorems.                                           *)
(***************************************************************************)

LEMMA InventoryStep ==
  ASSUME InventoryInv, [Next]_vars
  PROVE  InventoryInv'
<1>1. CASE UNCHANGED vars
  <2>1. UNCHANGED <<now, items, born, txn, sent, warned>>
    BY <1>1 DEF vars
  <2>2. Shelf'
    BY <2>1 DEF InventoryInv, Shelf, Sound
  <2> QED BY <2>1, <2>2, RowStep
<1>2. CASE Tick
  BY <1>2, TickStep
<1>3. ASSUME NEW p \in Procs, NEW i \in Items,
             \/ \E quantity \in {0, 1}, age \in Ages, life \in Lives :
                  Create(p, i, quantity, age, life)
             \/ \E payload \in Payloads : Update(p, i, payload)
             \/ \E quantity \in {0, 1} : Purchase(p, i, quantity)
             \/ Delete(p, i)
             \/ AlertNow(p, i)
             \/ \E arrives \in BOOLEAN : SweepItem(p, i, arrives)
      PROVE  InventoryInv'
  BY <1>3, CreateStep, UpdateStep, PurchaseStep, DeleteStep, AlertNowStep, SweepItemStep
<1>4. ASSUME NEW p \in Procs,
             \E job \in BOOLEAN, group \in SUBSET DOMAIN items : SweepBegin(p, job, group)
      PROVE  InventoryInv'
  BY <1>4, SweepBeginStep
<1>5. ASSUME NEW p \in Procs, Commit(p) \/ Fail(p)
      PROVE  InventoryInv'
  BY <1>5, CommitStep, FailStep
<1> QED BY <1>1, <1>2, <1>3, <1>4, <1>5 DEF Next

LEMMA InventoryInvariant == Spec => []InventoryInv
<1> QED BY InventoryInit, InventoryStep, PTL DEF Spec

\* AlertsSpaced: the job (check_and_notify_inventory_alerts) leaves its
\* cooldown between two alerts, whatever organizers commit meanwhile.
THEOREM Spacing == Spec => []AlertsSpaced
<1>1. InventoryInv => AlertsSpaced
  <2> SUFFICES ASSUME InventoryInv, NEW p \in Procs, txn[p].at = "sweep", txn[p].job,
                      NEW i \in txn[p].told
               PROVE  warned[i] = Never \/ now - warned[i] >= Cooldown
    BY DEF AlertsSpaced
  <2>1. i \in Items /\ Rested(txn[p], i, now, warned) /\ Sound(txn[p].read[i], now)
    BY AtSweep DEF Sweeping, Swept
  <2>2. warned[i] \in {Never} \cup 0..now /\ now \in Nat
    BY <2>1 DEF InventoryInv, Shelf, Memory
  <2> QED BY <2>1, <2>2, InventoryParameters DEF Rested, Sound, Never
<1> QED BY <1>1, InventoryInvariant, PTL

\* QuietIsTold: the day in last_alert_sent_at is one on which somebody was
\* told of the item.
THEOREM QuietItems == Spec => []QuietIsTold
<1>1. InventoryInv => QuietIsTold
  BY DEF InventoryInv
<1> QED BY <1>1, InventoryInvariant, PTL

LEMMA OnlyTimePasses ==
  ASSUME Next, now' # now
  PROVE  Tick
<1>1. ASSUME NEW p \in Procs, NEW i \in Items,
             \/ \E quantity \in {0, 1}, age \in Ages, life \in Lives :
                  Create(p, i, quantity, age, life)
             \/ \E payload \in Payloads : Update(p, i, payload)
             \/ \E quantity \in {0, 1} : Purchase(p, i, quantity)
             \/ Delete(p, i)
             \/ AlertNow(p, i)
             \/ \E arrives \in BOOLEAN : SweepItem(p, i, arrives)
      PROVE  now' = now
  BY <1>1 DEF Create, Update, Purchase, Delete, AlertNow, Edit, SweepItem
<1>2. ASSUME NEW p \in Procs,
             \/ \E job \in BOOLEAN, group \in SUBSET DOMAIN items : SweepBegin(p, job, group)
             \/ Commit(p)
             \/ Fail(p)
      PROVE  now' = now
  BY <1>2 DEF SweepBegin, Commit, Fail
<1> QED BY <1>1, <1>2 DEF Next

\* AnnouncedFirst: calculate_item_status leaves a day on which an item is to
\* be replaced soon before it is to be bought urgently.
THEOREM Announcing == Spec => AnnouncedFirst
<1>1. ASSUME InventoryInv, Next, now' # now, NEW i \in DOMAIN items,
             Status(items[i], now) = "IN_STOCK"
      PROVE  Status(items[i], now') # "URGENT_PURCHASE"
  <2>1. now \in Nat /\ now' = now + 1
    BY <1>1, OnlyTimePasses DEF Tick, InventoryInv, Shelf
  <2>2. items[i].quantity \in Nat /\ items[i].bought \in Int /\ items[i].life \in Lives
    BY <1>1 DEF InventoryInv, Shelf, Sound
  <2>3. CASE items[i].quantity <= 0
    BY <1>1, <2>2, <2>3 DEF Status
  <2>4. CASE items[i].quantity > 0 /\ items[i].life = NoLife
    BY <1>1, <2>2, <2>4 DEF Status
  <2>5. CASE items[i].quantity > 0 /\ items[i].life # NoLife
    <3>1. items[i].life \in Nat
      BY <2>2, <2>5, InventoryParameters
    <3>2. Left(items[i], now) > Lead
      BY <1>1, <2>1, <2>2, <2>5, <3>1, InventoryParameters DEF Status, Worn, Left
    <3>3. Left(items[i], now') > 0
      BY <2>1, <2>2, <3>1, <3>2, InventoryParameters DEF Left
    <3> QED BY <2>1, <2>2, <2>5, <3>1, <3>3 DEF Status, Left
  <2> QED BY <2>2, <2>3, <2>4, <2>5
<1>2. InventoryInv /\ [Next]_vars =>
        [now' # now =>
           \A i \in DOMAIN items :
             Status(items[i], now) = "IN_STOCK" => Status(items[i], now') # "URGENT_PURCHASE"]_vars
  BY <1>1
<1> QED BY <1>2, InventoryInvariant, PTL DEF Spec, AnnouncedFirst

\* A sweep ends with its commit or fails.
LEMMA SweepEnds ==
  ASSUME InventoryInv, Next, NEW p \in Procs, txn[p].at = "sweep", txn'[p] = Idle
  PROVE  Commit(p) \/ items' = items
<1>1. \A q \in Procs : \A t : Become(q, t) => txn'[p] = IF q = p THEN t ELSE txn[p]
  BY DEF InventoryInv, Requests, Become
<1>2. txn'[p] # txn[p]
  BY DEF Idle
<1>3. ASSUME NEW q \in Procs, NEW i \in Items,
             \/ \E quantity \in {0, 1}, age \in Ages, life \in Lives :
                  Create(q, i, quantity, age, life)
             \/ \E payload \in Payloads : Update(q, i, payload)
             \/ \E quantity \in {0, 1} : Purchase(q, i, quantity)
             \/ Delete(q, i)
             \/ AlertNow(q, i)
             \/ \E arrives \in BOOLEAN : SweepItem(q, i, arrives)
      PROVE  items' = items
  BY <1>2, <1>3 DEF Create, Delete, Update, Purchase, AlertNow, Edit, SweepItem, rows
<1>4. ASSUME NEW q \in Procs,
             \/ \E job \in BOOLEAN, group \in SUBSET DOMAIN items : SweepBegin(q, job, group)
             \/ Fail(q)
      PROVE  items' = items
  BY <1>4 DEF SweepBegin, Fail, rows
<1>5. ASSUME NEW q \in Procs, Commit(q)
      PROVE  Commit(p)
  BY <1>1, <1>2, <1>5 DEF Commit
<1>6. CASE Tick
  BY <1>6 DEF Tick, rows
<1> QED BY <1>3, <1>4, <1>5, <1>6 DEF Next

\* SweepKeepsEdits: the UPDATE at the end of a sweep writes status and
\* last_alert_sent_at only.
THEOREM EditsKept == Spec => SweepKeepsEdits
<1>1. ASSUME InventoryInv, Next, NEW p \in Procs, txn[p].at = "sweep",
             NEW i \in DOMAIN items \cap DOMAIN items', txn'[p] = Idle
      PROVE  /\ items'[i].quantity = items[i].quantity
             /\ items'[i].bought = items[i].bought
             /\ items'[i].life = items[i].life
  <2>1. CASE items' = items
    BY <2>1
  <2>2. CASE Commit(p) /\ i \in Written(txn[p])
    <3>1. i \in DOMAIN txn[p].read
      BY <2>2 DEF Written
    <3>2. Swept(txn[p], i, now, sent)
      BY <1>1, <3>1, AtSweep DEF Sweeping
    <3>3. items'[i] = Changed(items[i], txn[p].read[i], txn[p].wants[i])
      BY <1>1, <2>2, Committing
    <3>4. Sound(items[i], now)
      BY <1>1 DEF InventoryInv, Shelf
    <3> QED BY SMTT(20), <3>2, <3>3, <3>4, ChangedSound DEF Swept
  <2>3. CASE Commit(p) /\ i \notin Written(txn[p])
    BY <1>1, <2>3, Committing
  <2> QED BY <1>1, <2>1, <2>2, <2>3, SweepEnds
<1> DEFINE Q == \A p \in Procs : txn[p].at = "sweep" =>
                  \A i \in DOMAIN items \cap DOMAIN items' :
                    txn'[p] = Idle => /\ items'[i].quantity = items[i].quantity
                                      /\ items'[i].bought = items[i].bought
                                      /\ items'[i].life = items[i].life
<1>2. InventoryInv /\ Next => Q
  BY <1>1
<1>3. Spec => [][Q]_vars
  <2> HIDE DEF Q
  <2> QED BY <1>2, InventoryInvariant, PTL DEF Spec
<1>4. [][Q]_vars => SweepKeepsEdits
  BY DEF SweepKeepsEdits
<1> QED BY <1>3, <1>4

(***************************************************************************)
(* Payment orders: induction over the digits.                              *)
(*                                                                         *)
(* A sum or remainder over digits is a function defined by recursion; what *)
(* it does for every sequence follows by induction over the numbers up to  *)
(* its length, for the set of those for which something holds.             *)
(***************************************************************************)

LEMMA LeastNat ==
  ASSUME NEW T \in SUBSET Nat, T # {}
  PROVE  \E m \in T : \A n \in T : m <= n
<1>1. PICK m \in T : \A n \in T : <<n, m>> \notin OpToRel(<, Nat)
  BY NatLessThanWellFounded, WFMin
<1>2. \A n \in T : n < m => <<n, m>> \in OpToRel(<, Nat)
  BY DEF OpToRel
<1>3. \A n \in T : ~ (n < m)
  BY <1>1, <1>2
<1>4. m \in Nat /\ \A n \in T : n \in Nat
  OBVIOUS
<1>5. \A n \in T : m <= n
  BY <1>3, <1>4
<1> QED BY <1>5

\* Induction over the numbers up to N, for the set of those for which
\* something holds.
LEMMA UpTo ==
  ASSUME NEW N \in Nat, NEW H, 0 \in H, \A n \in 1..N : n - 1 \in H => n \in H
  PROVE  0..N \subseteq H
<1>1. SUFFICES ASSUME (0..N) \ H # {} PROVE FALSE
  OBVIOUS
<1>2. PICK m \in (0..N) \ H : \A n \in (0..N) \ H : m <= n
  <2>1. (0..N) \ H \in SUBSET Nat
    OBVIOUS
  <2>. QED  BY <1>1, <2>1, LeastNat
<1>3. m \in 1..N /\ m - 1 \in 0..N /\ ~ (m <= m - 1)
  BY <1>2
<1>. QED  BY <1>2, <1>3

\* There is a function defined by recursion from the value before.
Iterates(f, N, base, next) == f[0] = base /\ \A n \in 1..N : f[n] = next[n][f[n - 1]]

LEMMA Recursion ==
  ASSUME NEW N \in Nat, NEW V, NEW base \in V, NEW next \in [1..N -> [V -> V]]
  PROVE  \E f \in [0..N -> V] : Iterates(f, N, base, next)
<1>. DEFINE Good(f, k) == f[0] = base /\ \A n \in 1..k : f[n] = next[n][f[n - 1]]
            H == {k \in 0..N : \E f \in [0..k -> V] : Good(f, k)}
<1>1. 0 \in H
  <2>. DEFINE f == [n \in 0..0 |-> base]
  <2>1. f \in [0..0 -> V]
    OBVIOUS
  <2>2. Good(f, 0)
    OBVIOUS
  <2>. HIDE DEF f, Good
  <2>3. 0 \in 0..N
    OBVIOUS
  <2>. QED  BY <2>1, <2>2, <2>3
<1>2. ASSUME NEW n \in 1..N, n - 1 \in H
      PROVE  n \in H
  <2>1. PICK f \in [0..(n - 1) -> V] : Good(f, n - 1)
    BY <1>2
  <2>. DEFINE g == [m \in 0..n |-> IF m = n THEN next[n][f[n - 1]] ELSE f[m]]
  <2>2. next[n][f[n - 1]] \in V
    <3>1. f[n - 1] \in V /\ next[n] \in [V -> V]
      BY <2>1
    <3>. QED  BY <3>1
  <2>3. g \in [0..n -> V]
    BY <2>1, <2>2
  <2>4. ASSUME NEW m \in 1..n PROVE g[m] = next[m][g[m - 1]]
    <3>1. CASE m = n
      BY <3>1, <2>1
    <3>2. CASE m # n
      <4>1. m \in 1..(n - 1) /\ m - 1 \in 0..n /\ m - 1 # n /\ m \in 0..n
        BY <3>2
      <4>. QED  BY <4>1, <2>1, <3>2
    <3>. QED  BY <3>1, <3>2
  <2>5. Good(g, n)
    <3>1. g[0] = base
      BY <2>1
    <3>. HIDE DEF g
    <3>. QED  BY <2>4, <3>1
  <2>. HIDE DEF g, Good
  <2>6. n \in 0..N
    OBVIOUS
  <2>. QED  BY <2>3, <2>5, <2>6
<1>. HIDE DEF H
<1>3. 0..N \subseteq H
  BY <1>1, <1>2, UpTo
<1>4. N \in H
  BY <1>3
<1>. QED  BY <1>4 DEF H, Iterates

\* What Mod97 goes through: the remainders of the first digits.
Rest97(f, x, N) == f[0] = 0 /\ \A n \in 1..N : f[n] = (10 * f[n - 1] + x[n]) % 97

LEMMA Mod97Is ==
  ASSUME NEW N \in Nat, NEW x \in [1..N -> Nat]
  PROVE  \E f \in [0..N -> 0..96] : Rest97(f, x, N) /\ Mod97(x) = f[N]
<1>1. Len(x) = N
  OBVIOUS
<1>. DEFINE next == [n \in 1..N |-> [v \in 0..96 |-> (10 * v + x[n]) % 97]]
            Good(f) == f = [n \in 0..N |-> IF n = 0 THEN 0 ELSE (10 * f[n - 1] + x[n]) % 97]
<1>2. next \in [1..N -> [0..96 -> 0..96]]
  <2>1. \A n \in 1..N, v \in 0..96 : 10 * v + x[n] \in Int
    OBVIOUS
  <2>2. \A z \in Int : z % 97 \in 0..96
    OBVIOUS
  <2>. QED  BY <2>1, <2>2
<1>3. \A n \in 1..N, v \in 0..96 : next[n][v] = (10 * v + x[n]) % 97
  OBVIOUS
<1>. HIDE DEF next
<1>4. \E f \in [0..N -> 0..96] : Iterates(f, N, 0, next)
  <2>1. 0 \in 0..96
    OBVIOUS
  <2>. QED  BY <1>2, <2>1, Recursion
<1>5. PICK f \in [0..N -> 0..96] : f[0] = 0 /\ \A n \in 1..N : f[n] = (10 * f[n - 1] + x[n]) % 97
  <2>1. PICK f \in [0..N -> 0..96] : f[0] = 0 /\ \A n \in 1..N : f[n] = next[n][f[n - 1]]
    BY <1>4 DEF Iterates
  <2>2. \A n \in 1..N : n - 1 \in 0..N /\ f[n - 1] \in 0..96
    OBVIOUS
  <2>3. \A n \in 1..N : f[n] = (10 * f[n - 1] + x[n]) % 97
    BY <1>3, <2>1, <2>2
  <2>. QED  BY <2>1, <2>3
<1>6. Good(f)
  <2>1. \A n \in 0..N : f[n] = IF n = 0 THEN 0 ELSE (10 * f[n - 1] + x[n]) % 97
    BY <1>5
  <2>. QED  BY <1>5, <2>1
<1>. DEFINE h == CHOOSE g : Good(g)
<1>7. Mod97(x) = h[N]
  BY <1>1 DEF Mod97
<1>8. Good(h)
  BY <1>6
<1>9. \A n \in 0..N : h[n] = IF n = 0 THEN 0 ELSE (10 * h[n - 1] + x[n]) % 97
  BY <1>8
<1>. HIDE DEF h
<1>10. 0..N \subseteq {n \in 0..N : h[n] = f[n]}
  <2>1. h[0] = f[0]
    BY <1>5, <1>9
  <2>2. ASSUME NEW n \in 1..N, h[n - 1] = f[n - 1] PROVE h[n] = f[n]
    BY <1>5, <1>9, <2>2
  <2>. DEFINE H == {n \in 0..N : h[n] = f[n]}
  <2>3. 0 \in H /\ \A n \in 1..N : n - 1 \in H => n \in H
    BY <2>1, <2>2
  <2>. HIDE DEF H
  <2>4. 0..N \subseteq H
    BY <2>3, UpTo
  <2>. QED  BY <2>4 DEF H
<1>11. N \in 0..N
  OBVIOUS
<1>12. Rest97(f, x, N) /\ Mod97(x) = f[N]
  BY <1>5, <1>7, <1>10, <1>11 DEF Rest97
<1>. QED  BY <1>12

LEMMA WeightedSumIs ==
  ASSUME NEW N \in Nat, NEW x \in [1..N -> Int], NEW w \in [1..N -> Int], w = Weights(N)
  PROVE  \E f \in [0..N -> Int] :
           /\ f[0] = 0 /\ WeightedSum(x) = f[N]
           /\ \A n \in 1..N : f[n] = f[n - 1] + x[n] * w[n]
<1>1. Len(x) = N
  OBVIOUS
<1>. DEFINE next == [n \in 1..N |-> [v \in Int |-> v + x[n] * w[n]]]
            Good(f) == f = [n \in 0..N |-> IF n = 0 THEN 0 ELSE f[n - 1] + x[n] * w[n]]
<1>2. next \in [1..N -> [Int -> Int]]
  <2>1. \A n \in 1..N, v \in Int : v + x[n] * w[n] \in Int
    OBVIOUS
  <2>. QED  BY <2>1
<1>3. \A n \in 1..N, v \in Int : next[n][v] = v + x[n] * w[n]
  OBVIOUS
<1>. HIDE DEF next
<1>4. \E f \in [0..N -> Int] : Iterates(f, N, 0, next)
  <2>1. 0 \in Int
    OBVIOUS
  <2>. QED  BY <1>2, <2>1, Recursion
<1>5. PICK f \in [0..N -> Int] : f[0] = 0 /\ \A n \in 1..N : f[n] = f[n - 1] + x[n] * w[n]
  <2>1. PICK f \in [0..N -> Int] : f[0] = 0 /\ \A n \in 1..N : f[n] = next[n][f[n - 1]]
    BY <1>4 DEF Iterates
  <2>2. \A n \in 1..N : n - 1 \in 0..N /\ f[n - 1] \in Int
    OBVIOUS
  <2>3. \A n \in 1..N : f[n] = f[n - 1] + x[n] * w[n]
    BY <1>3, <2>1, <2>2
  <2>. QED  BY <2>1, <2>3
<1>6. Good(f)
  <2>1. \A n \in 0..N : f[n] = IF n = 0 THEN 0 ELSE f[n - 1] + x[n] * w[n]
    BY <1>5
  <2>. QED  BY <1>5, <2>1
<1>. DEFINE h == CHOOSE g : Good(g)
<1>7. WeightedSum(x) = h[N]
  BY <1>1 DEF WeightedSum
<1>8. Good(h)
  BY <1>6
<1>9. \A n \in 0..N : h[n] = IF n = 0 THEN 0 ELSE h[n - 1] + x[n] * w[n]
  BY <1>8
<1>. HIDE DEF h
<1>10. 0..N \subseteq {n \in 0..N : h[n] = f[n]}
  <2>1. h[0] = f[0]
    BY <1>5, <1>9
  <2>2. ASSUME NEW n \in 1..N, h[n - 1] = f[n - 1] PROVE h[n] = f[n]
    BY <1>5, <1>9, <2>2
  <2>. DEFINE H == {n \in 0..N : h[n] = f[n]}
  <2>3. 0 \in H /\ \A n \in 1..N : n - 1 \in H => n \in H
    BY <2>1, <2>2
  <2>. HIDE DEF H
  <2>4. 0..N \subseteq H
    BY <2>3, UpTo
  <2>. QED  BY <2>4 DEF H
<1>11. N \in 0..N
  OBVIOUS
<1>. QED  BY <1>5, <1>7, <1>10, <1>11


(***************************************************************************)
(* Slips: a digit mistyped, or two neighbours swapped.  Digits before and  *)
(* after do not hide one.                                                  *)
(***************************************************************************)
Mistyped(x, y, N) == \E i \in 1..N : y[i] # x[i] /\ \A j \in (1..N) \ {i} : y[j] = x[j]
Swapped(x, y, N) ==
  \E i \in 1..(N - 1) :
    /\ x[i] # x[i + 1] /\ y[i] = x[i + 1] /\ y[i + 1] = x[i]
    /\ \A j \in (1..N) \ {i, i + 1} : y[j] = x[j]
Slipped(x, y, N) ==
  x \in [1..N -> 0..9] /\ y \in [1..N -> 0..9] /\ (Mistyped(x, y, N) \/ Swapped(x, y, N))

LEMMA SlipsSlipped ==
  ASSUME NEW N \in Nat, NEW x \in [1..N -> 0..9], NEW y \in Slips(x) \ {x}
  PROVE  Slipped(x, y, N)
<1>1. Len(x) = N /\ DOMAIN x = 1..N
  OBVIOUS
<1>2. CASE \E i \in 1..N, d \in 0..9 : y = [x EXCEPT ![i] = d]
  <2>1. PICK i \in 1..N, d \in 0..9 : y = [x EXCEPT ![i] = d]
    BY <1>2
  <2>2. y \in [1..N -> 0..9] /\ y[i] = d /\ \A j \in (1..N) \ {i} : y[j] = x[j]
    BY <2>1
  <2>3. y[i] # x[i]
    <3>1. SUFFICES ASSUME y[i] = x[i] PROVE y = x
      OBVIOUS
    <3>2. \A j \in 1..N : y[j] = x[j]
      BY <2>2, <3>1
    <3>. QED  BY <2>2, <3>2
  <2>. QED  BY <2>2, <2>3 DEF Slipped, Mistyped
<1>3. CASE \E i \in 1..(N - 1) : y = [x EXCEPT ![i] = x[i + 1], ![i + 1] = x[i]]
  <2>1. PICK i \in 1..(N - 1) : y = [x EXCEPT ![i] = x[i + 1], ![i + 1] = x[i]]
    BY <1>3
  <2>2. i \in 1..N /\ i + 1 \in 1..N /\ i # i + 1
    OBVIOUS
  <2>3. y \in [1..N -> 0..9] /\ y[i] = x[i + 1] /\ y[i + 1] = x[i]
        /\ \A j \in (1..N) \ {i, i + 1} : y[j] = x[j]
    BY <2>1, <2>2
  <2>4. x[i] # x[i + 1]
    <3>1. SUFFICES ASSUME x[i] = x[i + 1] PROVE y = x
      OBVIOUS
    <3>2. \A j \in 1..N : y[j] = x[j]
      BY <2>3, <3>1
    <3>. QED  BY <2>3, <3>2
  <2>. QED  BY <2>3, <2>4 DEF Slipped, Swapped
<1>. QED  BY <1>1, <1>2, <1>3 DEF Slips

LEMMA DigitsJoined ==
  ASSUME NEW K \in Nat, NEW N \in Nat, NEW a \in [1..K -> 0..9], NEW x \in [1..N -> 0..9]
  PROVE  /\ a \o x \in [1..(K + N) -> 0..9]
         /\ \A j \in 1..K : (a \o x)[j] = a[j]
         /\ \A j \in 1..N : (a \o x)[K + j] = x[j]
<1>1. Len(a) = K /\ Len(x) = N /\ a \in Seq(0..9) /\ x \in Seq(0..9)
  OBVIOUS
<1>2. a \o x \in Seq(0..9) /\ Len(a \o x) = K + N
  BY <1>1
<1>3. \A j \in 1..(K + N) : (a \o x)[j] = IF j <= K THEN a[j] ELSE x[j - K]
  BY SMTT(20), <1>1
<1>4. a \o x \in [1..(K + N) -> 0..9]
  BY <1>2, LenProperties
<1>5. \A j \in 1..K : (a \o x)[j] = a[j]
  <2>1. \A j \in 1..K : j \in 1..(K + N) /\ j <= K
    OBVIOUS
  <2>. QED  BY <1>3, <2>1
<1>6. \A j \in 1..N : (a \o x)[K + j] = x[j]
  <2>1. \A j \in 1..N : K + j \in 1..(K + N) /\ ~ (K + j <= K) /\ (K + j) - K = j
    OBVIOUS
  <2>. QED  BY <1>3, <2>1
<1>. QED  BY <1>4, <1>5, <1>6

\* What follows and what precedes a slip does not hide it.
LEMMA SlippedBehind ==
  ASSUME NEW K \in Nat, NEW N \in Nat, NEW a \in [1..K -> 0..9], NEW x, NEW y, Slipped(x, y, N)
  PROVE  Slipped(a \o x, a \o y, K + N)
<1>1. x \in [1..N -> 0..9] /\ y \in [1..N -> 0..9]
  BY DEF Slipped
<1>. DEFINE u == a \o x
            v == a \o y
<1>2. /\ u \in [1..(K + N) -> 0..9] /\ v \in [1..(K + N) -> 0..9]
      /\ \A j \in 1..K : u[j] = a[j] /\ v[j] = a[j]
      /\ \A j \in 1..N : u[K + j] = x[j] /\ v[K + j] = y[j]
  BY ZenonT(20), <1>1, DigitsJoined
<1>. HIDE DEF u, v
<1>3. \A j \in 1..(K + N) : j \in 1..K \/ (j - K \in 1..N /\ K + (j - K) = j)
  OBVIOUS
<1>4. CASE Mistyped(x, y, N)
  <2>1. PICK i \in 1..N : y[i] # x[i] /\ \A j \in (1..N) \ {i} : y[j] = x[j]
    BY <1>4 DEF Mistyped
  <2>2. K + i \in 1..(K + N) /\ v[K + i] # u[K + i]
    BY <1>2, <2>1
  <2>3. \A j \in (1..(K + N)) \ {K + i} : v[j] = u[j]
    <3>1. SUFFICES ASSUME NEW j \in (1..(K + N)) \ {K + i} PROVE v[j] = u[j]
      OBVIOUS
    <3>2. CASE j \in 1..K
      BY <1>2, <3>2
    <3>3. CASE j - K \in 1..N /\ K + (j - K) = j
      <4>1. j - K # i
        BY <3>3
      <4>2. y[j - K] = x[j - K]
        BY <2>1, <3>3, <4>1
      <4>. QED  BY <1>2, <3>3, <4>2
    <3>. QED  BY <1>3, <3>2, <3>3
  <2>. QED  BY <1>2, <2>2, <2>3 DEF Slipped, Mistyped, u, v
<1>5. CASE Swapped(x, y, N)
  <2>1. PICK i \in 1..(N - 1) :
          /\ x[i] # x[i + 1] /\ y[i] = x[i + 1] /\ y[i + 1] = x[i]
          /\ \A j \in (1..N) \ {i, i + 1} : y[j] = x[j]
    BY <1>5 DEF Swapped
  <2>2. i \in 1..N /\ i + 1 \in 1..N /\ K + i \in 1..((K + N) - 1) /\ K + (i + 1) = (K + i) + 1
    OBVIOUS
  <2>3. u[K + i] = x[i] /\ u[(K + i) + 1] = x[i + 1] /\ v[K + i] = y[i] /\ v[(K + i) + 1] = y[i + 1]
    BY <1>2, <2>2
  <2>4. \A j \in (1..(K + N)) \ {K + i, (K + i) + 1} : v[j] = u[j]
    <3>1. SUFFICES ASSUME NEW j \in (1..(K + N)) \ {K + i, (K + i) + 1} PROVE v[j] = u[j]
      OBVIOUS
    <3>2. CASE j \in 1..K
      BY <1>2, <3>2
    <3>3. CASE j - K \in 1..N /\ K + (j - K) = j
      <4>1. j - K # i /\ j - K # i + 1
        BY <3>3
      <4>2. y[j - K] = x[j - K]
        BY <2>1, <3>3, <4>1
      <4>. QED  BY <1>2, <3>3, <4>2
    <3>. QED  BY <1>3, <3>2, <3>3
  <2>5. Swapped(u, v, K + N)
    BY <2>1, <2>2, <2>3, <2>4 DEF Swapped
  <2>. QED  BY <1>2, <2>5 DEF Slipped, u, v
<1>. QED  BY <1>4, <1>5 DEF Slipped

LEMMA SlippedBefore ==
  ASSUME NEW K \in Nat, NEW N \in Nat, NEW a \in [1..K -> 0..9], NEW x, NEW y, Slipped(x, y, N)
  PROVE  Slipped(x \o a, y \o a, N + K)
<1>1. x \in [1..N -> 0..9] /\ y \in [1..N -> 0..9]
  BY DEF Slipped
<1>. DEFINE u == x \o a
            v == y \o a
<1>2. /\ u \in [1..(N + K) -> 0..9] /\ v \in [1..(N + K) -> 0..9]
      /\ \A j \in 1..N : u[j] = x[j] /\ v[j] = y[j]
      /\ \A j \in 1..K : u[N + j] = a[j] /\ v[N + j] = a[j]
  BY ZenonT(20), <1>1, DigitsJoined
<1>. HIDE DEF u, v
<1>3. \A j \in (1..(N + K)) \ (1..N) : v[j] = u[j]
  <2>1. SUFFICES ASSUME NEW j \in (1..(N + K)) \ (1..N) PROVE v[j] = u[j]
    OBVIOUS
  <2>2. j - N \in 1..K /\ N + (j - N) = j
    OBVIOUS
  <2>. QED  BY <1>2, <2>2
<1>4. CASE Mistyped(x, y, N)
  <2>1. PICK i \in 1..N : y[i] # x[i] /\ \A j \in (1..N) \ {i} : y[j] = x[j]
    BY <1>4 DEF Mistyped
  <2>2. i \in 1..(N + K) /\ v[i] # u[i]
    BY <1>2, <2>1
  <2>3. \A j \in (1..(N + K)) \ {i} : v[j] = u[j]
    BY <1>2, <1>3, <2>1
  <2>. QED  BY <1>2, <2>2, <2>3 DEF Slipped, Mistyped, u, v
<1>5. CASE Swapped(x, y, N)
  <2>1. PICK i \in 1..(N - 1) :
          /\ x[i] # x[i + 1] /\ y[i] = x[i + 1] /\ y[i + 1] = x[i]
          /\ \A j \in (1..N) \ {i, i + 1} : y[j] = x[j]
    BY <1>5 DEF Swapped
  <2>2. i \in 1..N /\ i + 1 \in 1..N /\ i \in 1..((N + K) - 1)
    OBVIOUS
  <2>3. u[i] = x[i] /\ u[i + 1] = x[i + 1] /\ v[i] = y[i] /\ v[i + 1] = y[i + 1]
    BY <1>2, <2>2
  <2>4. \A j \in (1..(N + K)) \ {i, i + 1} : v[j] = u[j]
    BY <1>2, <1>3, <2>1
  <2>5. Swapped(u, v, N + K)
    BY <2>1, <2>2, <2>3, <2>4 DEF Swapped
  <2>. QED  BY <1>2, <2>5 DEF Slipped, u, v
<1>. QED  BY <1>4, <1>5 DEF Slipped

(***************************************************************************)
(* The checksum of an IBAN: a slip changes the remainder by 97, and the    *)
(* digits that follow cannot make up for it.                               *)
(***************************************************************************)
LEMMA Rest97Kept ==
  ASSUME NEW a \in 0..96, NEW b \in 0..96, NEW d \in 0..9, a # b
  PROVE  (10 * a + d) % 97 # (10 * b + d) % 97
OBVIOUS

LEMMA Rest97Mistyped ==
  ASSUME NEW a \in 0..96, NEW d \in 0..9, NEW e \in 0..9, d # e
  PROVE  (10 * a + d) % 97 # (10 * a + e) % 97
OBVIOUS

LEMMA Rest97Swapped ==
  ASSUME NEW a \in 0..96, NEW d \in 0..9, NEW e \in 0..9, d # e
  PROVE  (10 * ((10 * a + d) % 97) + e) % 97 # (10 * ((10 * a + e) % 97) + d) % 97
OBVIOUS

SameUpTo(x, y, k) == \A j \in 1..k : y[j] = x[j]

EqualAt(f, g, k) == f[k] = g[k]

LEMMA SameStart ==
  ASSUME NEW N \in Nat, NEW k \in 0..N, NEW x, NEW y, SameUpTo(x, y, k),
         NEW f, Rest97(f, x, N), NEW g, Rest97(g, y, N)
  PROVE  EqualAt(f, g, k)
<1>. USE DEF SameUpTo, EqualAt
<1>. DEFINE H == {n \in 0..k : f[n] = g[n]}
<1>1. 0 \in H
  BY DEF Rest97
<1>2. \A n \in 1..k : n - 1 \in H => n \in H
  <2>1. SUFFICES ASSUME NEW n \in 1..k, n - 1 \in H PROVE n \in H
    OBVIOUS
  <2>2. n \in 1..N /\ f[n - 1] = g[n - 1] /\ x[n] = y[n]
    BY <2>1
  <2>. QED  BY <2>2 DEF Rest97
<1>. HIDE DEF H
<1>3. 0..k \subseteq H
  <2>1. k \in Nat
    OBVIOUS
  <2>. QED  BY <1>1, <1>2, <2>1, UpTo
<1>. QED  BY <1>3 DEF H

LEMMA StaysApart ==
  ASSUME NEW N \in Nat, NEW k \in 0..N, NEW x \in [1..N -> 0..9], NEW y \in [1..N -> 0..9],
         \A j \in (k + 1)..N : y[j] = x[j],
         NEW f \in [0..N -> 0..96], Rest97(f, x, N), NEW g \in [0..N -> 0..96], Rest97(g, y, N), f[k] # g[k]
  PROVE  f[N] # g[N]
<1>. DEFINE H == {n \in 0..N : n >= k => f[n] # g[n]}
<1>1. 0 \in H
  OBVIOUS
<1>2. \A n \in 1..N : n - 1 \in H => n \in H
  <2>1. SUFFICES ASSUME NEW n \in 1..N, n - 1 \in H, n >= k PROVE f[n] # g[n]
    OBVIOUS
  <2>2. CASE n = k
    BY <2>2
  <2>3. CASE n # k
    <3>1. n - 1 >= k /\ n \in (k + 1)..N /\ n - 1 \in 0..N
      BY <2>1, <2>3
    <3>2. f[n - 1] # g[n - 1] /\ y[n] = x[n]
      BY <2>1, <3>1
    <3>3. f[n - 1] \in 0..96 /\ g[n - 1] \in 0..96 /\ x[n] \in 0..9
      BY <3>1
    <3>4. (10 * f[n - 1] + x[n]) % 97 # (10 * g[n - 1] + x[n]) % 97
      BY ZenonT(20), <3>2, <3>3, Rest97Kept
    <3>. QED  BY <3>2, <3>4 DEF Rest97
  <2>. QED  BY <2>2, <2>3
<1>. HIDE DEF H
<1>3. 0..N \subseteq H
  BY <1>1, <1>2, UpTo
<1>. QED  BY <1>3 DEF H

\* No slip goes unnoticed by the checksum of an IBAN.
LEMMA Mod97Slip ==
  ASSUME NEW N \in Nat, NEW x, NEW y, Slipped(x, y, N)
  PROVE  Mod97(x) # Mod97(y)
<1>1. x \in [1..N -> 0..9] /\ y \in [1..N -> 0..9]
  BY DEF Slipped
<1>2. x \in [1..N -> Nat] /\ y \in [1..N -> Nat]
  BY <1>1
<1>3. PICK f \in [0..N -> 0..96] : Rest97(f, x, N) /\ Mod97(x) = f[N]
  BY <1>2, Mod97Is
<1>4. PICK g \in [0..N -> 0..96] : Rest97(g, y, N) /\ Mod97(y) = g[N]
  BY <1>2, Mod97Is
<1>5. CASE Mistyped(x, y, N)
  <2>1. PICK i \in 1..N : y[i] # x[i] /\ \A j \in (1..N) \ {i} : y[j] = x[j]
    BY <1>5 DEF Mistyped
  <2>2. f[i - 1] = g[i - 1]
    <3>1. PICK k \in 0..N : k = i - 1
      OBVIOUS
    <3>2. \A j \in 1..k : y[j] = x[j]
      BY <2>1, <3>1
    <3>3. f[k] = g[k]
      <4>1. Rest97(f, x, N) /\ Rest97(g, y, N)
        BY <1>3, <1>4
      <4>2. SameUpTo(x, y, k)
        BY <3>2 DEF SameUpTo
      <4>3. EqualAt(f, g, k)
        BY <4>1, <4>2, SameStart, Zenon
      <4>. QED  BY <4>3 DEF EqualAt
    <3>. QED  BY <3>1, <3>3
  <2>3. f[i] # g[i]
    <3>1. f[i - 1] \in 0..96 /\ x[i] \in 0..9 /\ y[i] \in 0..9
      BY <1>1
    <3>2. (10 * f[i - 1] + x[i]) % 97 # (10 * f[i - 1] + y[i]) % 97
      BY <2>1, <3>1, Rest97Mistyped
    <3>. QED  BY <1>3, <1>4, <2>2, <3>2 DEF Rest97
  <2>4. i \in 0..N /\ \A j \in (i + 1)..N : y[j] = x[j]
    BY <2>1
  <2>5. f[N] # g[N]
    BY <1>1, <1>3, <1>4, <2>3, <2>4, StaysApart
  <2>. QED  BY <1>3, <1>4, <2>5
<1>6. CASE Swapped(x, y, N)
  <2>1. PICK i \in 1..(N - 1) :
          /\ x[i] # x[i + 1] /\ y[i] = x[i + 1] /\ y[i + 1] = x[i]
          /\ \A j \in (1..N) \ {i, i + 1} : y[j] = x[j]
    BY <1>6 DEF Swapped
  <2>2. f[i - 1] = g[i - 1]
    <3>1. PICK k \in 0..N : k = i - 1
      OBVIOUS
    <3>2. \A j \in 1..k : y[j] = x[j]
      BY <2>1, <3>1
    <3>3. f[k] = g[k]
      <4>1. Rest97(f, x, N) /\ Rest97(g, y, N)
        BY <1>3, <1>4
      <4>2. SameUpTo(x, y, k)
        BY <3>2 DEF SameUpTo
      <4>3. EqualAt(f, g, k)
        BY <4>1, <4>2, SameStart, Zenon
      <4>. QED  BY <4>3 DEF EqualAt
    <3>. QED  BY <3>1, <3>3
  <2>3. f[i + 1] # g[i + 1]
    <3>1. f[i - 1] \in 0..96 /\ x[i] \in 0..9 /\ x[i + 1] \in 0..9
      BY <1>1
    <3>2. /\ f[i] = (10 * f[i - 1] + x[i]) % 97 /\ f[i + 1] = (10 * f[i] + x[i + 1]) % 97
          /\ g[i] = (10 * f[i - 1] + x[i + 1]) % 97 /\ g[i + 1] = (10 * g[i] + x[i]) % 97
      <4>1. i \in 1..N /\ i + 1 \in 1..N /\ (i + 1) - 1 = i
        OBVIOUS
      <4>. QED  BY <1>3, <1>4, <2>1, <2>2, <4>1 DEF Rest97
    <3>3. (10 * ((10 * f[i - 1] + x[i]) % 97) + x[i + 1]) % 97
            # (10 * ((10 * f[i - 1] + x[i + 1]) % 97) + x[i]) % 97
      <4>1. PICK a \in 0..96, d \in 0..9, e \in 0..9 : a = f[i - 1] /\ d = x[i] /\ e = x[i + 1]
        BY <3>1
      <4>2. (10 * ((10 * a + d) % 97) + e) % 97 # (10 * ((10 * a + e) % 97) + d) % 97
        <5>1. d # e
          BY <2>1, <4>1
        <5>. QED  BY ZenonT(20), <5>1, Rest97Swapped
      <4>. QED  BY <4>1, <4>2
    <3>. QED  BY <3>2, <3>3
  <2>4. i + 1 \in 0..N /\ \A j \in ((i + 1) + 1)..N : y[j] = x[j]
    BY <2>1
  <2>5. f[N] # g[N]
    BY ZenonT(20), <1>1, <1>3, <1>4, <2>3, <2>4, StaysApart
  <2>. QED  BY <1>3, <1>4, <2>5
<1>. QED  BY <1>5, <1>6 DEF Slipped

LEMMA Mod97Bounds ==
  ASSUME NEW N \in Nat, NEW x \in [1..N -> Nat]
  PROVE  Mod97(x) \in 0..96
<1>1. PICK f \in [0..N -> 0..96] : Mod97(x) = f[N]
  BY Mod97Is
<1>2. N \in 0..N
  OBVIOUS
<1>. QED  BY <1>1, <1>2

LEMMA Horner97 ==
  ASSUME NEW a \in Nat, NEW d \in Nat
  PROVE  (10 * (a % 97) + d) % 97 = (10 * a + d) % 97
OBVIOUS

LEMMA Complement97 ==
  ASSUME NEW r \in 0..96, NEW d \in 0..9, NEW e \in 0..9, NEW c \in Nat,
         10 * d + e = c, c = 98 - ((10 * ((10 * r) % 97)) % 97)
  PROVE  (10 * ((10 * r + d) % 97) + e) % 97 = 1
<1>1. (10 * ((10 * r) % 97)) % 97 = (100 * r) % 97
  <2>1. 10 * r \in Nat
    OBVIOUS
  <2>2. (10 * ((10 * r) % 97) + 0) % 97 = (10 * (10 * r) + 0) % 97
    BY <2>1, Horner97
  <2>. QED  BY <2>2
<1>2. (10 * ((10 * r + d) % 97) + e) % 97 = (100 * r + c) % 97
  <2>1. 10 * r + d \in Nat /\ e \in Nat
    OBVIOUS
  <2>2. (10 * ((10 * r + d) % 97) + e) % 97 = (10 * (10 * r + d) + e) % 97
    BY <2>1, Horner97
  <2>3. 10 * (10 * r + d) + e = 100 * r + c
    OBVIOUS
  <2>. QED  BY <2>2, <2>3
<1>3. c = 98 - ((100 * r) % 97)
  BY <1>1
<1>4. (100 * r + c) % 97 = 1
  BY <1>3
<1>. QED  BY <1>2, <1>4

LEMMA LastTwo ==
  ASSUME NEW M \in Nat, NEW N \in Nat, N = M + 2,
         NEW x \in [1..N -> 0..9], NEW y \in [1..N -> 0..9], \A j \in 1..M : y[j] = x[j],
         x[M + 1] = 0, x[M + 2] = 0, NEW c \in 2..98,
         y[M + 1] = c \div 10, y[M + 2] = c % 10
  PROVE  c = 98 - Mod97(x) => Mod97(y) = 1
<1>0. SUFFICES ASSUME c = 98 - Mod97(x) PROVE Mod97(y) = 1
  OBVIOUS
<1>1. x \in [1..N -> Nat] /\ y \in [1..N -> Nat]
  BY SMTT(20)
<1>2. PICK f \in [0..N -> 0..96] : Rest97(f, x, N) /\ Mod97(x) = f[N]
  BY <1>1, Mod97Is
<1>3. PICK g \in [0..N -> 0..96] : Rest97(g, y, N) /\ Mod97(y) = g[N]
  BY <1>1, Mod97Is
<1>4. PICK k \in 0..N : k = M
  OBVIOUS
<1>5. f[k] = g[k]
  <2>1. \A j \in 1..k : y[j] = x[j]
    BY <1>4
  <2>2. Rest97(f, x, N) /\ Rest97(g, y, N)
    BY <1>2, <1>3
  <2>3. SameUpTo(x, y, k)
    BY <2>1 DEF SameUpTo
  <2>4. EqualAt(f, g, k)
    BY <2>2, <2>3, SameStart, Zenon
  <2>. QED  BY <2>4 DEF EqualAt
<1>6. PICK r \in 0..96 : r = f[M]
  BY <1>4
<1>7. /\ M + 1 \in 1..N /\ (M + 1) - 1 = M /\ M + 2 \in 1..N /\ (M + 2) - 1 = M + 1
      /\ f[M + 1] \in 0..96 /\ g[M + 1] \in 0..96
  OBVIOUS
<1>8. f[M + 1] = (10 * r) % 97 /\ f[N] = (10 * f[M + 1]) % 97
  <2>1. f[M + 1] = (10 * r + 0) % 97 /\ f[N] = (10 * f[M + 1] + 0) % 97
    BY <1>2, <1>6, <1>7 DEF Rest97
  <2>. QED  BY <1>7, <2>1
<1>9. g[M + 1] = (10 * r + (c \div 10)) % 97 /\ g[N] = (10 * g[M + 1] + (c % 10)) % 97
  BY <1>3, <1>4, <1>5, <1>6, <1>7 DEF Rest97
<1>10. c \in Nat /\ c = 98 - ((10 * ((10 * r) % 97)) % 97) /\ 10 * (c \div 10) + (c % 10) = c
  <2>1. c = 98 - ((10 * ((10 * r) % 97)) % 97)
    BY <1>0, <1>2, <1>8
  <2>. QED  BY <2>1
<1>11. PICK d \in 0..9, e \in 0..9 : d = c \div 10 /\ e = c % 10
  <2>1. M + 1 \in 1..N /\ M + 2 \in 1..N
    OBVIOUS
  <2>2. y[M + 1] \in 0..9 /\ y[M + 2] \in 0..9
    BY <2>1
  <2>. QED  BY <2>2
<1>12. (10 * ((10 * r + d) % 97) + e) % 97 = 1
  <2>1. c \in Nat /\ 10 * d + e = c /\ c = 98 - ((10 * ((10 * r) % 97)) % 97)
    BY <1>10, <1>11
  <2>. QED  BY ZenonT(20), <2>1, Complement97
<1>. QED  BY <1>3, <1>9, <1>11, <1>12

\* The check digits 98 - rest make the remainder 1.
LEMMA CheckDigits ==
  ASSUME NEW K \in Nat, NEW a \in [1..K -> 0..9], NEW c \in 2..98
  PROVE  c = 98 - Mod97(a \o <<1, 2, 3, 5, 0, 0>>)
           => Mod97((a \o <<1, 2, 3, 5>>) \o <<c \div 10, c % 10>>) = 1
<1>1. PICK N \in Nat, M \in Nat : N = K + 6 /\ M = K + 4 /\ N = M + 2
  <2>1. K + 6 \in Nat /\ K + 4 \in Nat /\ K + 6 = (K + 4) + 2
    OBVIOUS
  <2>. QED  BY <2>1
<1>. DEFINE z == <<1, 2, 3, 5, 0, 0>>
            w == <<1, 2, 3, 5>>
<1>2. z \in [1..6 -> 0..9] /\ z[5] = 0 /\ z[6] = 0 /\ w \in [1..4 -> 0..9] /\ \A j \in 1..4 : w[j] = z[j]
  OBVIOUS
<1>. HIDE DEF z, w
<1>. DEFINE x == a \o z
            b == a \o w
<1>3. /\ x \in [1..N -> 0..9] /\ x[M + 1] = 0 /\ x[M + 2] = 0
      /\ b \in [1..M -> 0..9] /\ \A j \in 1..M : b[j] = x[j]
  <2>1. /\ x \in [1..(K + 6) -> 0..9]
        /\ \A j \in 1..K : x[j] = a[j]
        /\ \A j \in 1..6 : x[K + j] = z[j]
    <3>1. 6 \in Nat
      OBVIOUS
    <3>. QED  BY ZenonT(20), <1>2, <3>1, DigitsJoined
  <2>2. /\ b \in [1..(K + 4) -> 0..9]
        /\ \A j \in 1..K : b[j] = a[j]
        /\ \A j \in 1..4 : b[K + j] = w[j]
    <3>1. 4 \in Nat
      OBVIOUS
    <3>. QED  BY ZenonT(20), <1>2, <3>1, DigitsJoined
  <2>. HIDE DEF x, b
  <2>3. x[M + 1] = 0 /\ x[M + 2] = 0
    <3>1. M + 1 = K + 5 /\ M + 2 = K + 6 /\ 5 \in 1..6 /\ 6 \in 1..6
      BY <1>1
    <3>2. x[K + 5] = z[5] /\ x[K + 6] = z[6]
      BY <2>1
    <3>. QED  BY <1>2, <3>1, <3>2
  <2>4. ASSUME NEW j \in 1..M PROVE b[j] = x[j]
    <3>1. CASE j \in 1..K
      BY <2>1, <2>2, <3>1
    <3>2. CASE ~ (j \in 1..K)
      <4>1. PICK l \in 1..4 : j = K + l
        <5>1. j - K \in 1..4 /\ j = K + (j - K)
          BY <1>1, <3>2
        <5>. QED  BY <5>1
      <4>2. l \in 1..6
        OBVIOUS
      <4>3. b[K + l] = w[l] /\ x[K + l] = z[l]
        BY <2>1, <2>2, <4>2
      <4>. QED  BY <1>2, <4>1, <4>3
    <3>. QED  BY <3>1, <3>2
  <2>. QED  BY <1>1, <2>1, <2>2, <2>3, <2>4
<1>. HIDE DEF x, b
<1>6. c \div 10 \in 0..9 /\ c % 10 \in 0..9
  OBVIOUS
<1>. DEFINE t == <<c \div 10, c % 10>>
            y == b \o t
<1>7. t \in [1..2 -> 0..9] /\ t[1] = c \div 10 /\ t[2] = c % 10
  BY <1>6
<1>. HIDE DEF t
<1>8. /\ y \in [1..(M + 2) -> 0..9] /\ \A j \in 1..M : y[j] = b[j]
      /\ \A j \in 1..2 : y[M + j] = t[j]
  <2>1. 2 \in Nat
    OBVIOUS
  <2>2. b \in [1..M -> 0..9] /\ t \in [1..2 -> 0..9]
    BY <1>3, <1>7
  <2>. QED  BY ZenonT(20), <2>1, <2>2, DigitsJoined
<1>. HIDE DEF y
<1>9. y \in [1..N -> 0..9] /\ \A j \in 1..M : y[j] = x[j]
  BY <1>1, <1>3, <1>8
<1>10. y[M + 1] = c \div 10 /\ y[M + 2] = c % 10
  <2>1. 1 \in 1..2 /\ 2 \in 1..2
    OBVIOUS
  <2>. QED  BY <1>7, <1>8, <2>1
<1>11. c = 98 - Mod97(x) => Mod97(y) = 1
  BY <1>1, <1>3, <1>9, <1>10, LastTwo
<1>. QED  BY <1>11 DEF x, y, b, t, z, w

(***************************************************************************)
(* The check of the Czech National Bank: the weights, and the differences  *)
(* of neighbouring weights, are no multiples of 11.                        *)
(***************************************************************************)
LEMMA NotAMultipleOf11 ==
  ASSUME NEW k \in (-10)..10, NEW d \in (-9)..9, k # 0, d # 0, NEW m \in Int
  PROVE  k * d # 11 * m
<1>1. ASSUME NEW l \in 1..10, NEW q \in Int PROVE l * d # 11 * q
  <2>1. CASE l \in {1, 2, 3}
    BY <2>1
  <2>2. CASE l \in {4, 5}
    BY <2>2
  <2>3. CASE l \in {6, 7}
    BY <2>3
  <2>4. CASE l \in {8, 9, 10}
    BY <2>4
  <2>. QED  BY <2>1, <2>2, <2>3, <2>4
<1>2. CASE k \in 1..10
  BY <1>1, <1>2
<1>3. CASE - k \in 1..10
  <2>1. (- k) * d # 11 * (- m)
    BY <1>1, <1>3
  <2>2. (- k) * d = - (k * d) /\ 11 * (- m) = - (11 * m)
    OBVIOUS
  <2>. QED  BY <2>1, <2>2
<1>. QED  BY <1>2, <1>3

Sums(f, x, w, N) == f[0] = 0 /\ \A n \in 1..N : f[n] = f[n - 1] + x[n] * w[n]

\* From k to m, where nothing differs, the difference of two sums stays.
SameBetween(x, y, k, m) == \A j \in (k + 1)..m : y[j] = x[j]

SameGap(f, g, k, m) == f[m] - g[m] = f[k] - g[k]

LEMMA SameDifference ==
  ASSUME NEW N \in Nat, NEW k \in 0..N, NEW m \in k..N,
         NEW x \in [1..N -> Int], NEW y \in [1..N -> Int], NEW w \in [1..N -> Int],
         SameBetween(x, y, k, m),
         NEW f \in [0..N -> Int], Sums(f, x, w, N), NEW g \in [0..N -> Int], Sums(g, y, w, N)
  PROVE  SameGap(f, g, k, m)
<1>. USE DEF SameBetween, SameGap
<1>. DEFINE H == {n \in 0..m : n >= k => f[n] - g[n] = f[k] - g[k]}
<1>1. 0 \in H
  OBVIOUS
<1>2. \A n \in 1..m : n - 1 \in H => n \in H
  <2>1. SUFFICES ASSUME NEW n \in 1..m, n - 1 \in H, n >= k PROVE f[n] - g[n] = f[k] - g[k]
    OBVIOUS
  <2>2. CASE n = k
    BY <2>2
  <2>3. CASE n # k
    <3>1. n - 1 >= k /\ n \in (k + 1)..m /\ n - 1 \in 0..N /\ n \in 1..N /\ n \in 0..N /\ k \in 0..N
      BY <2>1, <2>3
    <3>2. f[n - 1] - g[n - 1] = f[k] - g[k] /\ y[n] = x[n]
      BY <2>1, <3>1
    <3>3. f[n] = f[n - 1] + x[n] * w[n] /\ g[n] = g[n - 1] + x[n] * w[n]
      BY <3>1, <3>2 DEF Sums
    <3>4. PICK p \in Int : p = x[n] * w[n]
      BY <3>1
    <3>5. f[n - 1] \in Int /\ g[n - 1] \in Int /\ f[k] \in Int /\ g[k] \in Int
      BY <3>1
    <3>. QED  BY SMTT(20), <3>2, <3>3, <3>4, <3>5
  <2>. QED  BY <2>2, <2>3
<1>. HIDE DEF H
<1>3. 0..m \subseteq H
  <2>1. m \in Nat
    OBVIOUS
  <2>. QED  BY <1>1, <1>2, <2>1, UpTo
<1>. QED  BY <1>3 DEF H

LEMMA Product ==
  ASSUME NEW d \in Int, NEW e \in Int, NEW u \in Int, NEW v \in Int
  PROVE  /\ d * u - e * u = u * (d - e)
         /\ (d * u + e * v) - (e * u + d * v) = (u - v) * (d - e)
OBVIOUS

\* The weights are prime to 11, and so are the differences of neighbours.
WellWeighted(w, N) ==
  /\ w \in [1..N -> 1..10]
  /\ \A i \in 1..(N - 1) : w[i] # w[i + 1]

LEMMA WeightsFine ==
  ASSUME NEW N \in {6, 10}
  PROVE  WellWeighted(Weights(N), N)
<1>1. CASE N = 6
  <2>. DEFINE w == <<10, 5, 8, 4, 2, 1>>
  <2>1. w \in [1..6 -> 1..10]
    OBVIOUS
  <2>2. w[1] # w[2] /\ w[2] # w[3] /\ w[3] # w[4] /\ w[4] # w[5] /\ w[5] # w[6]
    OBVIOUS
  <2>. HIDE DEF w
  <2>3. \A i \in 1..5 : w[i] # w[i + 1]
    <3>1. \A i \in 1..5 : i = 1 \/ i = 2 \/ i = 3 \/ i = 4 \/ i = 5
      OBVIOUS
    <3>. QED  BY <2>2, <3>1
  <2>4. N - 1 = 5 /\ Weights(N) = w
    BY <1>1 DEF Weights, w
  <2>. QED  BY <1>1, <2>1, <2>3, <2>4 DEF WellWeighted
<1>2. CASE N = 10
  <2>. DEFINE w == <<6, 3, 7, 9, 10, 5, 8, 4, 2, 1>>
  <2>1. w \in [1..10 -> 1..10]
    OBVIOUS
  <2>2. /\ w[1] # w[2] /\ w[2] # w[3] /\ w[3] # w[4] /\ w[4] # w[5] /\ w[5] # w[6]
        /\ w[6] # w[7] /\ w[7] # w[8] /\ w[8] # w[9] /\ w[9] # w[10]
    OBVIOUS
  <2>. HIDE DEF w
  <2>3. \A i \in 1..9 : w[i] # w[i + 1]
    <3>1. \A i \in 1..9 : i = 1 \/ i = 2 \/ i = 3 \/ i = 4 \/ i = 5 \/ i = 6 \/ i = 7 \/ i = 8 \/ i = 9
      OBVIOUS
    <3>. QED  BY <2>2, <3>1
  <2>4. N - 1 = 9 /\ Weights(N) = w
    BY <1>2 DEF Weights, w
  <2>. QED  BY <1>2, <2>1, <2>3, <2>4 DEF WellWeighted
<1>. QED  BY <1>1, <1>2

\* No slip goes unnoticed by the check of the Czech National Bank.
LEMMA CnbSlip ==
  ASSUME NEW N \in {6, 10}, NEW x, NEW y, Slipped(x, y, N), CheckCnbMod11(x)
  PROVE  ~ CheckCnbMod11(y)
<1>. DEFINE w == Weights(N)
<1>1. WellWeighted(w, N)
  BY WeightsFine
<1>2. N \in Nat /\ N >= 1
  OBVIOUS
<1>. HIDE DEF w
<1>3. x \in [1..N -> 0..9] /\ y \in [1..N -> 0..9]
  BY DEF Slipped
<1>4. x \in [1..N -> Int] /\ y \in [1..N -> Int] /\ w \in [1..N -> Int]
  <2>1. x \in [1..N -> Int] /\ y \in [1..N -> Int]
    BY <1>3
  <2>2. w \in [1..N -> 1..10]
    BY <1>1 DEF WellWeighted
  <2>3. w \in [1..N -> Int]
    BY <2>2
  <2>. QED  BY <2>1, <2>3
<1>5. PICK f \in [0..N -> Int] : Sums(f, x, w, N) /\ WeightedSum(x) = f[N]
  BY <1>2, <1>4, WeightedSumIs DEF Sums, w
<1>6. PICK g \in [0..N -> Int] : Sums(g, y, w, N) /\ WeightedSum(y) = g[N]
  BY <1>2, <1>4, WeightedSumIs DEF Sums, w
<1>7. \E k \in (-10)..10, d \in (-9)..9 : k # 0 /\ d # 0 /\ f[N] - g[N] = k * d
  <2>0. Sums(f, x, w, N) /\ Sums(g, y, w, N) /\ f[0] - g[0] = 0
    BY <1>5, <1>6 DEF Sums
  <2>1. CASE Mistyped(x, y, N)
    <3>1. PICK i \in 1..N : y[i] # x[i] /\ \A j \in (1..N) \ {i} : y[j] = x[j]
      BY <2>1 DEF Mistyped
    <3>2. PICK k \in 0..N, z \in 0..N : k = i - 1 /\ z = 0
      BY <1>2
    <3>3. f[k] - g[k] = 0
      <4>1. SameBetween(x, y, z, k) /\ k \in z..N
        BY <3>1, <3>2 DEF SameBetween
      <4>2. SameGap(f, g, z, k)
        BY <1>2, <1>4, <2>0, <4>1, SameDifference, Zenon
      <4>. QED  BY <2>0, <3>2, <4>2 DEF SameGap
    <3>4. f[N] - g[N] = f[i] - g[i]
      <4>1. SameBetween(x, y, i, N) /\ N \in i..N /\ i \in 0..N
        BY <3>1 DEF SameBetween
      <4>2. SameGap(f, g, i, N)
        BY <1>2, <1>4, <2>0, <4>1, SameDifference, Zenon
      <4>. QED  BY <4>2 DEF SameGap
    <3>5. PICK u \in 1..10, d \in 0..9, e \in 0..9, a \in Int, b \in Int :
            u = w[i] /\ d = x[i] /\ e = y[i] /\ a = f[k] /\ b = g[k]
      BY <1>1, <1>3 DEF WellWeighted
    <3>6. f[i] = a + d * u /\ g[i] = b + e * u
      BY <2>0, <3>2, <3>5 DEF Sums
    <3>7. f[N] - g[N] = u * (d - e)
      <4>1. d * u - e * u = u * (d - e) /\ d * u \in Int /\ e * u \in Int
        BY Product
      <4>2. a - b = 0
        BY <3>3, <3>5
      <4>3. (a + d * u) - (b + e * u) = d * u - e * u
        BY <4>1, <4>2
      <4>. QED  BY <3>4, <3>6, <4>1, <4>3
    <3>8. u \in (-10)..10 /\ d - e \in (-9)..9 /\ u # 0 /\ d - e # 0
      <4>1. d # e
        BY <3>1, <3>5
      <4>. QED  BY <4>1
    <3>. QED  BY <3>7, <3>8
  <2>2. CASE Swapped(x, y, N)
    <3>1. PICK i \in 1..(N - 1) :
            /\ x[i] # x[i + 1] /\ y[i] = x[i + 1] /\ y[i + 1] = x[i]
            /\ \A j \in (1..N) \ {i, i + 1} : y[j] = x[j]
      BY <2>2 DEF Swapped
    <3>2. PICK k \in 0..N, z \in 0..N, m \in 0..N : k = i - 1 /\ z = 0 /\ m = i + 1
      <4>1. i - 1 \in 0..N /\ 0 \in 0..N /\ i + 1 \in 0..N
        BY <1>2
      <4>. QED  BY <4>1
    <3>3. f[k] - g[k] = 0
      <4>1. SameBetween(x, y, z, k) /\ k \in z..N
        BY <3>1, <3>2 DEF SameBetween
      <4>2. SameGap(f, g, z, k)
        BY <1>2, <1>4, <2>0, <4>1, SameDifference, Zenon
      <4>. QED  BY <2>0, <3>2, <4>2 DEF SameGap
    <3>4. f[N] - g[N] = f[m] - g[m]
      <4>1. SameBetween(x, y, m, N) /\ N \in m..N
        BY <3>1, <3>2 DEF SameBetween
      <4>2. SameGap(f, g, m, N)
        BY <1>2, <1>4, <2>0, <4>1, SameDifference, Zenon
      <4>. QED  BY <4>2 DEF SameGap
    <3>5. PICK u \in 1..10, v \in 1..10, d \in 0..9, e \in 0..9, a \in Int, b \in Int :
            u = w[i] /\ v = w[m] /\ d = x[i] /\ e = x[m] /\ a = f[k] /\ b = g[k]
      <4>1. i \in 1..N /\ m \in 1..N
        BY <3>2
      <4>. QED  BY <1>1, <1>3, <4>1 DEF WellWeighted
    <3>6. (f[m] = (a + d * u) + e * v) /\ (g[m] = (b + e * u) + d * v)
      <4>1. i \in 1..N /\ m \in 1..N /\ m - 1 = i
        BY <3>2
      <4>2. f[m] = f[i] + e * v /\ g[m] = g[i] + d * v
        BY <2>0, <3>1, <3>2, <3>5, <4>1 DEF Sums
      <4>3. f[i] = a + d * u /\ g[i] = b + e * u
        BY <2>0, <3>1, <3>2, <3>5, <4>1 DEF Sums
      <4>. QED  BY <4>2, <4>3
    <3>7. f[N] - g[N] = (u - v) * (d - e)
      <4>1. PICK p \in Int, q \in Int, r \in Int, s \in Int : p = d * u /\ q = e * v /\ r = e * u /\ s = d * v
        OBVIOUS
      <4>2. (p + q) - (r + s) = (u - v) * (d - e)
        BY <4>1, Product
      <4>3. a - b = 0
        BY <3>3, <3>5
      <4>4. ((a + p) + q) - ((b + r) + s) = (p + q) - (r + s)
        BY <4>3
      <4>. QED  BY <3>4, <3>6, <4>1, <4>2, <4>4
    <3>8. u - v \in (-10)..10 /\ d - e \in (-9)..9 /\ u - v # 0 /\ d - e # 0
      <4>1. w[i] # w[i + 1]
        BY <1>1 DEF WellWeighted
      <4>2. u # v /\ d # e
        BY <3>1, <3>2, <3>5, <4>1
      <4>. QED  BY <4>2
    <3>. QED  BY <3>7, <3>8
  <2>. QED  BY <2>1, <2>2 DEF Slipped
<1>8. PICK k \in (-10)..10, d \in (-9)..9 : k # 0 /\ d # 0 /\ f[N] - g[N] = k * d
  BY <1>7
<1>9. SUFFICES ASSUME CheckCnbMod11(y) PROVE FALSE
  OBVIOUS
<1>10. f[N] % 11 = 0 /\ g[N] % 11 = 0 /\ f[N] \in Int /\ g[N] \in Int
  <2>1. N \in 0..N
    BY <1>2
  <2>. QED  BY <1>5, <1>6, <1>9, <2>1 DEF CheckCnbMod11
<1>11. PICK m \in Int : f[N] - g[N] = 11 * m
  <2>1. PICK p \in Int, q \in Int : f[N] = 11 * p /\ g[N] = 11 * q
    <3>1. \A z \in Int : z % 11 = 0 => z \div 11 \in Int /\ z = 11 * (z \div 11)
      OBVIOUS
    <3>. QED  BY <1>10, <3>1
  <2>2. f[N] - g[N] = 11 * (p - q) /\ p - q \in Int
    BY <2>1
  <2>. QED  BY <2>2
<1>12. k * d # 11 * m
  BY <1>8, NotAMultipleOf11
<1>. QED  BY <1>8, <1>11, <1>12

(***************************************************************************)
(* What a group gets to see of this.                                       *)
(***************************************************************************)
LEMMA DigitsTyped ==
  ASSUME NEW lengths, NEW x \in Digits(lengths)
  PROVE  \E N \in lengths : x \in [1..N -> 0..9]
<1>1. x \in Seq(0..9) /\ Len(x) \in lengths
  BY DEF Digits
<1>2. x \in [1..Len(x) -> 0..9]
  BY <1>1, LenProperties
<1>. QED  BY <1>1, <1>2

LEMMA DigitsOfLength ==
  ASSUME NEW n, NEW x \in Digits({n})
  PROVE  x \in [1..n -> 0..9]
BY LenProperties DEF Digits

LEMMA ZeroFilledIs ==
  ASSUME NEW n \in Nat, NEW N \in 0..n, NEW x \in [1..N -> 0..9]
  PROVE  /\ [i \in 1..(n - N) |-> 0] \in [1..(n - N) -> 0..9]
         /\ ZeroFilled(x, n) = [i \in 1..(n - N) |-> 0] \o x
         /\ ZeroFilled(x, n) \in [1..n -> 0..9]
<1>. DEFINE z == [i \in 1..(n - N) |-> 0]
<1>1. PICK K \in Nat : K = n - N /\ K + N = n
  OBVIOUS
<1>2. z \in [1..K -> 0..9]
  BY <1>1
<1>3. Len(x) = N
  OBVIOUS
<1>4. ZeroFilled(x, n) = z \o x
  BY <1>3 DEF ZeroFilled
<1>. HIDE DEF z
<1>5. N \in Nat
  OBVIOUS
<1>6. z \o x \in [1..(K + N) -> 0..9]
  BY <1>2, <1>5, DigitsJoined
<1>. QED  BY <1>1, <1>2, <1>4, <1>6 DEF z

LEMMA ZeroFilledSlipped ==
  ASSUME NEW n \in Nat, NEW N \in 0..n, NEW x, NEW y, Slipped(x, y, N)
  PROVE  Slipped(ZeroFilled(x, n), ZeroFilled(y, n), n)
<1>1. x \in [1..N -> 0..9] /\ y \in [1..N -> 0..9]
  BY DEF Slipped
<1>. DEFINE z == [i \in 1..(n - N) |-> 0]
<1>2. ZeroFilled(x, n) = z \o x /\ ZeroFilled(y, n) = z \o y /\ z \in [1..(n - N) -> 0..9]
  BY <1>1, ZeroFilledIs
<1>. HIDE DEF z
<1>3. PICK K \in Nat : K = n - N /\ K + N = n
  OBVIOUS
<1>4. N \in Nat /\ z \in [1..K -> 0..9]
  BY <1>2, <1>3
<1>5. Slipped(z \o x, z \o y, K + N)
  BY <1>4, SlippedBehind
<1>. QED  BY <1>2, <1>3, <1>5

\* The IBAN made of a domestic account is valid.
LEMMA ConvertedValid ==
  ASSUME NEW info \in Details, info.kind = "domestic", Converted(info) # NoIban
  PROVE  /\ ValidIban(Converted(info))
         /\ CheckCnbMod11(ZeroFilled(info.prefix, 6)) /\ CheckCnbMod11(ZeroFilled(info.number, 10))
<1>1. info.prefix \in Digits(0..6) /\ info.number \in Digits(2..10) /\ info.bank \in Digits({4})
  BY DEF Details
<1>. DEFINE prefix == ZeroFilled(info.prefix, 6)
            number == ZeroFilled(info.number, 10)
            bban   == info.bank \o prefix \o number
            c      == 98 - Mod97(bban \o <<1, 2, 3, 5, 0, 0>>)
<1>2. prefix \in [1..6 -> 0..9]
  <2>1. PICK N \in 0..6 : info.prefix \in [1..N -> 0..9]
    BY <1>1, DigitsTyped
  <2>2. 6 \in Nat
    OBVIOUS
  <2>. QED  BY <2>1, <2>2, ZeroFilledIs
<1>3. number \in [1..10 -> 0..9]
  <2>1. PICK N \in 2..10 : info.number \in [1..N -> 0..9]
    BY <1>1, DigitsTyped
  <2>2. 10 \in Nat /\ N \in 0..10
    OBVIOUS
  <2>. QED  BY <2>1, <2>2, ZeroFilledIs
<1>4. info.bank \in [1..4 -> 0..9]
  BY <1>1, DigitsOfLength
<1>. HIDE DEF prefix, number
<1>5. bban \in [1..20 -> 0..9]
  <2>1. info.bank \o prefix \in [1..(4 + 6) -> 0..9]
    <3>1. 4 \in Nat /\ 6 \in Nat
      OBVIOUS
    <3>. QED  BY <1>2, <1>4, <3>1, DigitsJoined
  <2>2. info.bank \o prefix \in [1..10 -> 0..9]
    BY <2>1
  <2>3. bban \in [1..(10 + 10) -> 0..9]
    <3>1. 10 \in Nat
      OBVIOUS
    <3>. QED  BY <1>3, <2>2, <3>1, DigitsJoined
  <2>. QED  BY <2>3
<1>. HIDE DEF bban
<1>6. c \in 2..98
  <2>. DEFINE z == <<1, 2, 3, 5, 0, 0>>
              x == bban \o z
  <2>1. z \in [1..6 -> 0..9]
    OBVIOUS
  <2>. HIDE DEF z
  <2>2. 20 \in Nat /\ 6 \in Nat
    OBVIOUS
  <2>3. x \in [1..(20 + 6) -> 0..9]
    BY <1>5, <2>1, <2>2, DigitsJoined
  <2>. HIDE DEF x
  <2>4. 26 \in Nat /\ x \in [1..26 -> Nat]
    BY <2>3
  <2>5. Mod97(x) \in 0..96
    BY <2>4, Mod97Bounds
  <2>6. c = 98 - Mod97(x)
    BY DEF x, z
  <2>. HIDE DEF c
  <2>. QED  BY <2>5, <2>6
<1>7. Mod97((bban \o <<1, 2, 3, 5>>) \o <<c \div 10, c % 10>>) = 1
  <2>1. 20 \in Nat /\ c = 98 - Mod97(bban \o <<1, 2, 3, 5, 0, 0>>)
    OBVIOUS
  <2>. HIDE DEF c
  <2>. QED  BY <1>5, <1>6, <2>1, CheckDigits
<1>8. /\ CheckCnbMod11(prefix) /\ CheckCnbMod11(number)
      /\ Converted(info) = [check |-> <<c \div 10, c % 10>>, country |-> <<1, 2, 3, 5>>, bban |-> bban]
  BY DEF Converted, bban, prefix, number
<1>9. Len(bban) \in 11..30
  BY <1>5
<1>10. ValidIban(Converted(info))
  <2>. HIDE DEF c
  <2>. QED  BY <1>7, <1>8, <1>9 DEF ValidIban
<1>. QED  BY <1>8, <1>10 DEF prefix, number

\* One slip in either number, and there is no IBAN.
LEMMA DomesticSlip ==
  ASSUME NEW info \in Details, info.kind = "domestic", Converted(info) # NoIban,
         NEW other \in Misspelt(info)
  PROVE  CzechAccountToIban(other) = NoIban
<1>1. info.prefix \in Digits(0..6) /\ info.number \in Digits(2..10)
  BY DEF Details
<1>2. CheckCnbMod11(ZeroFilled(info.prefix, 6)) /\ CheckCnbMod11(ZeroFilled(info.number, 10))
  BY ConvertedValid
<1>3. other.kind = "domestic"
  BY DEF Misspelt, Details
<1>4. ~ CheckCnbMod11(ZeroFilled(other.prefix, 6)) \/ ~ CheckCnbMod11(ZeroFilled(other.number, 10))
  <2>1. CASE \E n \in Slips(info.number) \ {info.number} : other = [info EXCEPT !.number = n]
    <3>1. PICK n \in Slips(info.number) \ {info.number} : other = [info EXCEPT !.number = n]
      BY <2>1
    <3>2. other.number = n
      BY <3>1 DEF Details
    <3>3. PICK N \in 2..10 : info.number \in [1..N -> 0..9]
      BY <1>1, DigitsTyped
    <3>4. Slipped(info.number, n, N)
      BY <3>3, SlipsSlipped
    <3>5. Slipped(ZeroFilled(info.number, 10), ZeroFilled(n, 10), 10)
      BY <3>4, ZeroFilledSlipped
    <3>. QED  BY <1>2, <3>2, <3>5, CnbSlip
  <2>2. CASE \E p \in Slips(info.prefix) \ {info.prefix} : other = [info EXCEPT !.prefix = p]
    <3>1. PICK p \in Slips(info.prefix) \ {info.prefix} : other = [info EXCEPT !.prefix = p]
      BY <2>2
    <3>2. other.prefix = p
      BY <3>1 DEF Details
    <3>3. PICK N \in 0..6 : info.prefix \in [1..N -> 0..9]
      BY <1>1, DigitsTyped
    <3>4. Slipped(info.prefix, p, N)
      BY <3>3, SlipsSlipped
    <3>5. Slipped(ZeroFilled(info.prefix, 6), ZeroFilled(p, 6), 6)
      BY <3>4, ZeroFilledSlipped
    <3>. QED  BY <1>2, <3>2, <3>5, CnbSlip
  <2>. QED  BY <2>1, <2>2 DEF Misspelt
<1>5. Converted(other) = NoIban
  BY <1>4 DEF Converted
<1>. QED  BY <1>3, <1>5 DEF CzechAccountToIban

\* One slip in the account or its check digits, and an IBAN is not valid.
LEMMA IbanSlip ==
  ASSUME NEW info \in Details, info.kind = "iban", ValidIban(info.iban), NEW other \in Misspelt(info)
  PROVE  CzechAccountToIban(other) = NoIban
<1>0. /\ info.iban.bban \in Digits(11..30)
      /\ info.iban.country \in Digits({4}) /\ info.iban.check \in Digits({2})
  BY DEF Details, Ibans
<1>1. PICK K \in 11..30 : info.iban.bban \in [1..K -> 0..9]
  BY <1>0, DigitsTyped
<1>2. info.iban.country \in [1..4 -> 0..9] /\ info.iban.check \in [1..2 -> 0..9]
  BY <1>0, DigitsOfLength
<1>. DEFINE b == info.iban.bban
            y == info.iban.country
            c == info.iban.check
<1>3. Mod97((b \o y) \o c) = 1
  BY DEF ValidIban
<1>4. other.kind = "iban" /\ Mod97(other.iban.bban \o other.iban.country \o other.iban.check) # 1
  <2>1. CASE \E n \in Slips(b) \ {b} : other = [info EXCEPT !.iban.bban = n]
    <3>1. PICK n \in Slips(b) \ {b} : other = [info EXCEPT !.iban.bban = n]
      BY <2>1
    <3>2. other.kind = "iban" /\ other.iban.bban = n /\ other.iban.country = y /\ other.iban.check = c
      BY <3>1 DEF Details, Ibans
    <3>. HIDE DEF b, y, c
    <3>3. Slipped(b, n, K)
      BY <1>1, SlipsSlipped DEF b
    <3>4. Slipped(b \o y, n \o y, K + 4)
      <4>1. 4 \in Nat
        OBVIOUS
      <4>2. K \in Nat /\ y \in [1..4 -> 0..9]
        BY <1>2 DEF y
      <4>. QED  BY <3>3, <4>1, <4>2, SlippedBefore
    <3>5. PICK L \in Nat : L = K + 4 /\ Slipped(b \o y, n \o y, L)
      BY <1>1, <3>4
    <3>6. Slipped((b \o y) \o c, (n \o y) \o c, L + 2)
      <4>1. 2 \in Nat
        OBVIOUS
      <4>. QED  BY <1>2, <3>5, <4>1, SlippedBefore DEF c
    <3>7. Mod97((b \o y) \o c) # Mod97((n \o y) \o c)
      <4>1. L + 2 \in Nat
        OBVIOUS
      <4>. QED  BY <3>6, <4>1, Mod97Slip
    <3>. QED  BY <1>3, <3>2, <3>7
  <2>2. CASE \E n \in Slips(c) \ {c} : other = [info EXCEPT !.iban.check = n]
    <3>1. PICK n \in Slips(c) \ {c} : other = [info EXCEPT !.iban.check = n]
      BY <2>2
    <3>2. other.kind = "iban" /\ other.iban.bban = b /\ other.iban.country = y /\ other.iban.check = n
      BY <3>1 DEF Details, Ibans
    <3>. HIDE DEF b, y, c
    <3>3. Slipped(c, n, 2)
      BY <1>2, SlipsSlipped DEF c
    <3>4. b \o y \in [1..(K + 4) -> 0..9]
      <4>1. 4 \in Nat
        OBVIOUS
      <4>2. K \in Nat /\ b \in [1..K -> 0..9] /\ y \in [1..4 -> 0..9]
        BY <1>1, <1>2 DEF b, y
      <4>. QED  BY <4>1, <4>2, DigitsJoined
    <3>5. PICK L \in Nat : L = K + 4 /\ b \o y \in [1..L -> 0..9]
      BY <1>1, <3>4
    <3>6. Slipped((b \o y) \o c, (b \o y) \o n, L + 2)
      <4>1. 2 \in Nat
        OBVIOUS
      <4>. QED  BY <3>3, <3>5, <4>1, SlippedBehind
    <3>7. Mod97((b \o y) \o c) # Mod97((b \o y) \o n)
      <4>1. L + 2 \in Nat
        OBVIOUS
      <4>. QED  BY <3>6, <4>1, Mod97Slip
    <3>. QED  BY <1>3, <3>2, <3>7
  <2>. QED  BY <2>1, <2>2 DEF Misspelt
<1>5. ~ ValidIban(other.iban) /\ other.kind = "iban"
  BY <1>4 DEF ValidIban
<1>. QED  BY <1>5 DEF CzechAccountToIban

BillingInv ==
  /\ game \in [price : Int, info : Details]
  /\ chat \in [mode : BillingMode, info : Details]

LEMMA BillingTyped == BillingInit /\ [][BillingNext]_billingVars => []BillingInv
<1>1. BillingInit => BillingInv
  BY DEF BillingInit, BillingInv, BillingMode, Details
<1>2. BillingInv /\ [BillingNext]_billingVars => BillingInv'
  BY BillingParameters DEF BillingInv, BillingNext, billingVars, UpdateGroupSettings, CreateGame, UpdateGame, BillingMode, Details
<1>. QED  BY <1>1, <1>2, PTL

LEMMA ExactIfTyped == BillingInv => OrdersExact
<1>. DEFINE bill == ResolveGameBilling
<1>1. SUFFICES ASSUME BillingInv, bill.spayd
               PROVE  /\ bill.amount > 0 /\ chat.mode = "spayd_qr" /\ ValidIban(bill.iban)
                      /\ \A other \in Misspelt(bill.info) : CzechAccountToIban(other) = NoIban
  BY DEF OrdersExact
<1>2. /\ chat.mode = "spayd_qr" /\ bill.amount = game.price /\ game.price > 0
      /\ bill.info = EffectiveInfo /\ bill.iban = CzechAccountToIban(EffectiveInfo)
      /\ CzechAccountToIban(EffectiveInfo) # NoIban
  <2>. DEFINE free == chat.mode = "free_corporate" \/ game.price <= 0
              iban == IF free THEN NoIban ELSE CzechAccountToIban(EffectiveInfo)
  <2>1. /\ bill.spayd = (chat.mode = "spayd_qr" /\ iban # NoIban) /\ bill.iban = iban
        /\ bill.amount = (IF free THEN 0 ELSE game.price)
        /\ bill.info = (IF chat.mode = "free_corporate" THEN [kind |-> "none"] ELSE EffectiveInfo)
    BY DEF ResolveGameBilling
  <2>. HIDE DEF bill
  <2>2. chat.mode = "spayd_qr" /\ iban # NoIban
    BY <1>1, <2>1
  <2>3. ~ free
    BY <2>2
  <2>4. game.price > 0
    BY <1>1, <2>3 DEF BillingInv
  <2>. QED  BY <2>1, <2>2, <2>3, <2>4
<1>3. EffectiveInfo \in Details
  BY <1>1 DEF EffectiveInfo, BillingInv
<1>. HIDE DEF bill
<1>4. CASE EffectiveInfo.kind = "iban" /\ ValidIban(EffectiveInfo.iban)
  <2>1. CzechAccountToIban(EffectiveInfo) = EffectiveInfo.iban
    BY <1>4 DEF CzechAccountToIban
  <2>. QED  BY <1>2, <1>3, <1>4, <2>1, IbanSlip
<1>5. CASE EffectiveInfo.kind = "domestic"
  <2>1. CzechAccountToIban(EffectiveInfo) = Converted(EffectiveInfo)
    BY <1>5 DEF CzechAccountToIban
  <2>2. Converted(EffectiveInfo) # NoIban
    BY <1>2, <2>1
  <2>3. ValidIban(bill.iban)
    BY <1>2, <1>3, <1>5, <2>1, <2>2, ConvertedValid
  <2>4. \A other \in Misspelt(bill.info) : CzechAccountToIban(other) = NoIban
    BY <1>2, <1>3, <1>5, <2>2, DomesticSlip
  <2>. QED  BY <1>2, <2>3, <2>4
<1>6. CASE ~ (EffectiveInfo.kind = "iban" /\ ValidIban(EffectiveInfo.iban)) /\ EffectiveInfo.kind # "domestic"
  <2>1. CzechAccountToIban(EffectiveInfo) = NoIban
    BY <1>6 DEF CzechAccountToIban
  <2>. QED  BY <1>2, <2>1
<1>. QED  BY <1>4, <1>5, <1>6

\* Every payment order that is offered asks for a price above zero and names
\* a valid account; and whatever account was typed, one slip, a digit or two
\* neighbours, would have made it none: in the number or the prefix of a
\* domestic account by check_cnb_mod11, in the account or the check digits of
\* an IBAN by validate_iban_checksum.  The code of the bank of a domestic
\* account and the country of an IBAN are not among what is misspelt.
THEOREM OrdersRight == BillingSpec => []OrdersExact
BY BillingTyped, ExactIfTyped, PTL DEF BillingSpec

(***************************************************************************)
(* The reminders, for any number of players, guests, organizers and ways a *)
(* message fails: what is answered is what was sent.                       *)
(*                                                                         *)
(* The invariant follows one request through its list.  Whoever is off the *)
(* list has been written to, but for guests, and nobody else, save the one *)
(* whose message is out and not recorded; each was written to once, so     *)
(* that there are as many messages as people; and what came of a message   *)
(* is in the results as soon as its player is off the list.                *)
(***************************************************************************)
Statuses == Outcomes \cup {"none", "guest"}

Results == UNION {[S -> Statuses] : S \in SUBSET Players}

ListRequests ==
  [pc : {"next", "log"}, todo : SUBSET Players, results : Results, sent : Seq(Players \X Outcomes)]

Others ==
  {NoRequest} \cup [pc : {"toggle"}, player : Players, was : BOOLEAN]
              \cup [pc : {"group"}, owing : Nat]

WrittenTo(r) == {m[1] : m \in Range(r.sent)}

OffList(r) == DOMAIN r.results \ r.todo

InStep(r) ==
  /\ r.todo \subseteq DOMAIN r.results
  /\ r.pc = "next" => WrittenTo(r) = OffList(r) \ Guests
  /\ r.pc = "log" =>
       /\ r.sent # <<>> /\ Latest(r)[1] \in r.todo \ Guests
       /\ WrittenTo(r) = (OffList(r) \ Guests) \cup {Latest(r)[1]}
       /\ \A m \in Range(r.sent) : m[1] = Latest(r)[1] => m = Latest(r)
  /\ Len(r.sent) = Cardinality(WrittenTo(r))
  /\ \A m \in Range(r.sent) : m[1] \notin r.todo => r.results[m[1]] = m[2]
  /\ \A p \in OffList(r) \cap Guests : r.results[p] = "guest"

RemindInv ==
  \A o \in Organizers : req[o] \in Others \/ (req[o] \in ListRequests /\ InStep(req[o]))

RemindTypes ==
  /\ isPaid \in [Players -> BOOLEAN]
  /\ DOMAIN req = Organizers

\* A new list: nobody has been written to.
LEMMA NewList ==
  ASSUME NEW S \in SUBSET Players
  PROVE  Reminding(S) \in ListRequests /\ InStep(Reminding(S))
<1>. DEFINE r == Reminding(S)
<1>1. /\ r.pc = "next" /\ r.todo = S /\ r.sent = <<>> /\ r.results = [p \in S |-> "none"]
      /\ DOMAIN r.results = S
  BY DEF Reminding
<1>2. r \in ListRequests
  <2>1. r.results \in Results
    BY <1>1 DEF Results, Statuses
  <2>. QED  BY <2>1 DEF Reminding, ListRequests
<1>3. Range(r.sent) = {} /\ WrittenTo(r) = {} /\ Len(r.sent) = 0
  BY <1>1 DEF Range, WrittenTo
<1>4. Cardinality(WrittenTo(r)) = 0
  BY <1>3, FS_EmptySet
<1>5. OffList(r) = {}
  BY <1>1 DEF OffList
<1>. HIDE DEF r
<1>6. InStep(r)
  BY <1>1, <1>3, <1>4, <1>5 DEF InStep
<1>. QED  BY <1>2, <1>6 DEF r

\* What a message more is to the list of those sent.
LEMMA OneMore ==
  ASSUME NEW T, NEW s \in Seq(T), NEW e \in T
  PROVE  /\ Append(s, e) \in Seq(T) /\ Append(s, e) # <<>>
         /\ Len(Append(s, e)) = Len(s) + 1 /\ Append(s, e)[Len(s) + 1] = e
         /\ Range(Append(s, e)) = Range(s) \cup {e}
<1>. DEFINE t == Append(s, e)
<1>1. t \in Seq(T) /\ Len(t) = Len(s) + 1 /\ t[Len(s) + 1] = e /\ \A i \in 1..Len(s) : t[i] = s[i]
  OBVIOUS
<1>2. t # <<>> /\ DOMAIN t = 1..(Len(s) + 1) /\ DOMAIN s = 1..Len(s) /\ Len(s) \in Nat
  BY <1>1
<1>. HIDE DEF t
<1>3. Range(t) = Range(s) \cup {e}
  BY <1>1, <1>2 DEF Range
<1>. QED  BY <1>1, <1>2, <1>3 DEF t

\* What is written to is finite: people are.
LEMMA WrittenFinite ==
  ASSUME NEW r \in ListRequests
  PROVE  /\ WrittenTo(r) \subseteq Players /\ IsFiniteSet(WrittenTo(r))
         /\ Range(r.sent) \subseteq Players \X Outcomes
<1>1. r.sent \in Seq(Players \X Outcomes)
  BY DEF ListRequests
<1>2. Range(r.sent) \subseteq Players \X Outcomes
  BY <1>1 DEF Range
<1>3. WrittenTo(r) \subseteq Players
  BY <1>2 DEF WrittenTo
<1>. QED  BY <1>2, <1>3, RemindParameters, FS_Subset

\* A guest is recorded, and nobody is written to.
LEMMA GuestRecorded ==
  ASSUME NEW r \in ListRequests, InStep(r), r.pc = "next", NEW p \in r.todo \cap Guests, NEW r1,
         r1 = [r EXCEPT !.todo = @ \ {p}, !.results[p] = "guest"]
  PROVE  r1 \in ListRequests /\ InStep(r1)
<1>1. PICK S \in SUBSET Players : r.results \in [S -> Statuses]
  BY DEF ListRequests, Results
<1>2. p \in S /\ p \in Players
  BY <1>1 DEF InStep, ListRequests
<1>3. r1.results = [r.results EXCEPT ![p] = "guest"] /\ r1.todo = r.todo \ {p}
      /\ r1.pc = "next" /\ r1.sent = r.sent
  BY DEF ListRequests
<1>4. r1.results \in [S -> Statuses] /\ r1.results[p] = "guest"
      /\ \A q \in S \ {p} : r1.results[q] = r.results[q]
  BY <1>1, <1>2, <1>3 DEF Statuses
<1>5. r1 \in ListRequests
  <2>1. r1 = [pc |-> r.pc, todo |-> r1.todo, results |-> r1.results, sent |-> r.sent]
    BY <1>3 DEF ListRequests
  <2>2. r1.results \in Results
    BY <1>4 DEF Results
  <2>. QED  BY <2>1, <2>2, <1>3 DEF ListRequests
<1>6. WrittenTo(r1) = WrittenTo(r)
  BY <1>3 DEF WrittenTo
<1>7. OffList(r1) = OffList(r) \cup {p}
  BY <1>1, <1>2, <1>3, <1>4 DEF OffList
<1>8. WrittenTo(r1) = OffList(r1) \ Guests
  BY <1>6, <1>7 DEF InStep
<1>9. \A m \in Range(r.sent) : m[1] # p /\ m[1] \in S \ r.todo
  BY <1>1, <1>2 DEF InStep, WrittenTo, OffList
<1>10. \A m \in Range(r1.sent) : m[1] \notin r1.todo => r1.results[m[1]] = m[2]
  BY <1>3, <1>4, <1>9 DEF InStep
<1>11. \A q \in OffList(r1) \cap Guests : r1.results[q] = "guest"
  BY <1>1, <1>4, <1>7 DEF InStep, OffList
<1>12. r1.todo \subseteq DOMAIN r1.results
  BY <1>1, <1>3, <1>4 DEF InStep
<1>13. Len(r1.sent) = Cardinality(WrittenTo(r1))
  BY <1>3, <1>6 DEF InStep
<1>. QED  BY <1>3, <1>5, <1>8, <1>10, <1>11, <1>12, <1>13 DEF InStep

\* A message goes out to somebody on the list.
LEMMA MessageSent ==
  ASSUME NEW r \in ListRequests, InStep(r), r.pc = "next", NEW p \in r.todo \ Guests,
         NEW outcome \in Outcomes, NEW r1,
         r1 = [r EXCEPT !.pc = "log", !.sent = Append(@, <<p, outcome>>)]
  PROVE  r1 \in ListRequests /\ InStep(r1)
<1>. DEFINE m1 == <<p, outcome>>
<1>1. p \in Players /\ m1 \in Players \X Outcomes /\ r.sent \in Seq(Players \X Outcomes)
  BY DEF ListRequests
<1>2. r1.sent = Append(r.sent, m1) /\ r1.pc = "log" /\ r1.todo = r.todo /\ r1.results = r.results
  BY DEF ListRequests
<1>3. m1[1] = p /\ m1[2] = outcome
  OBVIOUS
<1>. HIDE DEF m1
<1>4. /\ r1.sent \in Seq(Players \X Outcomes) /\ r1.sent # <<>>
      /\ Len(r1.sent) = Len(r.sent) + 1 /\ r1.sent[Len(r.sent) + 1] = m1
      /\ Range(r1.sent) = Range(r.sent) \cup {m1}
  BY <1>1, <1>2, OneMore
<1>5. Latest(r1) = m1
  BY <1>4 DEF Latest
<1>6. r1 \in ListRequests
  BY <1>2, <1>4 DEF ListRequests
<1>7. WrittenTo(r1) = WrittenTo(r) \cup {p}
  BY <1>3, <1>4 DEF WrittenTo
<1>8. OffList(r1) = OffList(r)
  BY <1>2 DEF OffList
<1>9. WrittenTo(r) = OffList(r) \ Guests /\ p \notin WrittenTo(r)
  BY DEF InStep, OffList
<1>10. Cardinality(WrittenTo(r1)) = Cardinality(WrittenTo(r)) + 1
  BY <1>7, <1>9, WrittenFinite, FS_AddElement
<1>11. Len(r1.sent) = Cardinality(WrittenTo(r1))
  BY <1>4, <1>10 DEF InStep
<1>12. \A m \in Range(r.sent) : m[1] # p
  BY <1>9 DEF WrittenTo
<1>13. \A m \in Range(r1.sent) : m[1] = p => m = m1
  BY <1>4, <1>12
<1>14. \A m \in Range(r1.sent) : m[1] \notin r1.todo => r1.results[m[1]] = m[2]
  BY <1>2, <1>3, <1>4 DEF InStep
<1>15. \A q \in OffList(r1) \cap Guests : r1.results[q] = "guest"
  BY <1>2, <1>8 DEF InStep
<1>16. r1.todo \subseteq DOMAIN r1.results
  BY <1>2 DEF InStep
<1>17. WrittenTo(r1) = (OffList(r1) \ Guests) \cup {p}
  BY <1>7, <1>8, <1>9
<1>. QED  BY SMTT(20), <1>2, <1>3, <1>4, <1>5, <1>6, <1>11, <1>13, <1>14, <1>15, <1>16, <1>17 DEF InStep

\* What came of it is recorded, and its player leaves the list.
LEMMA OutcomeRecorded ==
  ASSUME NEW r \in ListRequests, InStep(r), r.pc = "log", NEW r1,
         r1 = [r EXCEPT !.pc = "next", !.results[Latest(r)[1]] = Latest(r)[2],
                        !.todo = @ \ {Latest(r)[1]}]
  PROVE  r1 \in ListRequests /\ InStep(r1)
<1>. DEFINE p == Latest(r)[1]
            status == Latest(r)[2]
<1>1. PICK S \in SUBSET Players : r.results \in [S -> Statuses]
  BY DEF ListRequests, Results
<1>2. p \in r.todo \ Guests /\ p \in S /\ p \in Players
  BY <1>1 DEF InStep, ListRequests
<1>3. Latest(r) \in Range(r.sent) /\ Latest(r) \in Players \X Outcomes
  <2>1. r.sent \in Seq(Players \X Outcomes) /\ r.sent # <<>>
    BY DEF ListRequests, InStep
  <2>2. Len(r.sent) \in DOMAIN r.sent /\ r.sent[Len(r.sent)] \in Players \X Outcomes
    BY <2>1
  <2>. QED  BY <2>2 DEF Latest, Range
<1>4. status \in Statuses
  BY <1>3 DEF Statuses
<1>. HIDE DEF p, status
<1>5. /\ r1.results = [r.results EXCEPT ![p] = status] /\ r1.todo = r.todo \ {p}
      /\ r1.pc = "next" /\ r1.sent = r.sent
  BY DEF ListRequests, p, status
<1>6. r1.results \in [S -> Statuses] /\ r1.results[p] = status
      /\ \A q \in S \ {p} : r1.results[q] = r.results[q]
  BY <1>1, <1>2, <1>4, <1>5
<1>7. r1 \in ListRequests
  <2>1. r1 = [pc |-> "next", todo |-> r1.todo, results |-> r1.results, sent |-> r.sent]
    BY <1>5 DEF ListRequests
  <2>2. r1.results \in Results
    BY <1>6 DEF Results
  <2>. QED  BY <2>1, <2>2, <1>5 DEF ListRequests
<1>8. WrittenTo(r1) = WrittenTo(r)
  BY <1>5 DEF WrittenTo
<1>9. OffList(r1) = OffList(r) \cup {p}
  BY <1>1, <1>2, <1>5, <1>6 DEF OffList
<1>10. WrittenTo(r) = (OffList(r) \ Guests) \cup {p}
  BY DEF InStep, p
<1>11. WrittenTo(r1) = OffList(r1) \ Guests
  BY <1>2, <1>8, <1>9, <1>10
<1>12. \A m \in Range(r.sent) : m[1] # p => m[1] \in S \ {p} /\ m[1] \notin r.todo
  BY <1>1, <1>10 DEF WrittenTo, OffList
<1>13. \A m \in Range(r.sent) : m[1] = p => m[2] = status
  BY DEF InStep, p, status
<1>14. \A m \in Range(r1.sent) : m[1] \notin r1.todo => r1.results[m[1]] = m[2]
  BY <1>5, <1>6, <1>12, <1>13 DEF InStep
<1>15. \A q \in OffList(r1) \cap Guests : r1.results[q] = "guest"
  BY <1>1, <1>2, <1>6, <1>9 DEF InStep, OffList
<1>16. r1.todo \subseteq DOMAIN r1.results
  BY <1>1, <1>5, <1>6 DEF InStep
<1>17. Len(r1.sent) = Cardinality(WrittenTo(r1))
  BY <1>5, <1>8 DEF InStep
<1>. QED  BY <1>5, <1>7, <1>11, <1>14, <1>15, <1>16, <1>17 DEF InStep

(***************************************************************************)
(* Every step, and what an answer says.                                    *)
(***************************************************************************)
ReminderInv == RemindTypes /\ RemindInv

LEMMA RemindBegins == RemindInit => ReminderInv
  BY DEF RemindInit, ReminderInv, RemindTypes, RemindInv, Others

\* A request that is begun, ended or taken a step further leaves the others.
LEMMA OneRequest ==
  ASSUME ReminderInv, NEW o \in Organizers, NEW r,
         r \in Others \/ (r \in ListRequests /\ InStep(r)),
         req' = [req EXCEPT ![o] = r], isPaid' \in [Players -> BOOLEAN]
  PROVE  ReminderInv'
<1>1. \A u \in Organizers : req'[u] = IF u = o THEN r ELSE req[u]
  BY DEF ReminderInv, RemindTypes
<1>2. DOMAIN req' = Organizers
  BY DEF ReminderInv, RemindTypes
<1>3. \A u \in Organizers : req'[u] \in Others \/ (req'[u] \in ListRequests /\ InStep(req'[u]))
  BY <1>1 DEF ReminderInv, RemindInv
<1>. QED  BY <1>2, <1>3 DEF ReminderInv, RemindTypes, RemindInv

LEMMA RemindStep == ReminderInv /\ [RemindNext]_remindVars => ReminderInv'
<1> SUFFICES ASSUME ReminderInv, [RemindNext]_remindVars PROVE ReminderInv'
  OBVIOUS
<1>1. isPaid \in [Players -> BOOLEAN] /\ DOMAIN req = Organizers
  BY DEF ReminderInv, RemindTypes
<1>2. CASE UNCHANGED <<req, isPaid>>
  BY <1>2 DEF ReminderInv, RemindTypes, RemindInv
<1>3. ASSUME NEW o \in Organizers, TogglePayBegin(o) PROVE ReminderInv'
  <2>1. PICK p \in Players : req' = [req EXCEPT ![o] = [pc |-> "toggle", player |-> p, was |-> isPaid[p]]]
    BY <1>3 DEF TogglePayBegin
  <2>2. [pc |-> "toggle", player |-> p, was |-> isPaid[p]] \in Others
    BY <1>1 DEF Others
  <2>3. isPaid' \in [Players -> BOOLEAN]
    BY <1>1, <1>3 DEF TogglePayBegin
  <2>. QED  BY <2>1, <2>2, <2>3, OneRequest
<1>4. ASSUME NEW o \in Organizers, TogglePayment(o) PROVE ReminderInv'
  <2>1. isPaid' \in [Players -> BOOLEAN]
    <3>1. req[o].was \in BOOLEAN
      BY <1>4 DEF TogglePayment, ReminderInv, RemindInv, Others, ListRequests, NoRequest
    <3>2. (~ req[o].was) \in BOOLEAN
      BY <3>1
    <3>. QED  BY <1>1, <1>4, <3>2 DEF TogglePayment
  <2>. QED  BY <1>4, <2>1, OneRequest DEF TogglePayment, Others
<1>5. ASSUME NEW o \in Organizers, NotifyAllBegin(o) PROVE ReminderInv'
  <2>1. Unpaid \in SUBSET Players
    BY DEF Unpaid
  <2>. QED  BY <1>1, <1>5, <2>1, NewList, OneRequest DEF NotifyAllBegin
<1>6. ASSUME NEW o \in Organizers, NotifyOneBegin(o) PROVE ReminderInv'
  <2>1. PICK p \in Players : req' = [req EXCEPT ![o] = Reminding({p})]
    BY <1>6 DEF NotifyOneBegin
  <2>2. {p} \in SUBSET Players
    OBVIOUS
  <2>. QED  BY <1>1, <1>6, <2>1, <2>2, NewList, OneRequest DEF NotifyOneBegin
<1>7. ASSUME NEW o \in Organizers, NotifyGuest(o) PROVE ReminderInv'
  <2>1. PICK p \in Following(req[o].todo) \cap Guests :
          req' = [req EXCEPT ![o].todo = @ \ {p}, ![o].results[p] = "guest"]
    BY <1>7 DEF NotifyGuest
  <2>2. req[o] \in ListRequests /\ InStep(req[o]) /\ req[o].pc = "next"
    BY <1>7 DEF NotifyGuest, ReminderInv, RemindInv, Others, NoRequest
  <2>3. p \in req[o].todo \cap Guests
    BY <2>1 DEF Following
  <2>4. req' = [req EXCEPT ![o] = [req[o] EXCEPT !.todo = @ \ {p}, !.results[p] = "guest"]]
    BY <1>1, <2>1, <2>2 DEF ListRequests
  <2>. QED  BY <1>1, <1>7, <2>2, <2>3, <2>4, GuestRecorded, OneRequest DEF NotifyGuest
<1>8. ASSUME NEW o \in Organizers, Send(o) PROVE ReminderInv'
  <2>1. PICK p \in Following(req[o].todo) \ Guests, outcome \in Outcomes :
          req' = [req EXCEPT ![o].pc = "log", ![o].sent = Append(@, <<p, outcome>>)]
    BY <1>8 DEF Send
  <2>2. req[o] \in ListRequests /\ InStep(req[o]) /\ req[o].pc = "next"
    BY <1>8 DEF Send, ReminderInv, RemindInv, Others, NoRequest
  <2>3. p \in req[o].todo \ Guests
    BY <2>1 DEF Following
  <2>4. req' = [req EXCEPT ![o] = [req[o] EXCEPT !.pc = "log", !.sent = Append(@, <<p, outcome>>)]]
    BY <1>1, <2>1, <2>2 DEF ListRequests
  <2>. QED  BY <1>1, <1>8, <2>2, <2>3, <2>4, MessageSent, OneRequest DEF Send
<1>9. ASSUME NEW o \in Organizers, Record(o) PROVE ReminderInv'
  <2>. DEFINE p == Latest(req[o])[1]
              status == Latest(req[o])[2]
  <2>1. req' = [req EXCEPT ![o].pc = "next", ![o].results[p] = status, ![o].todo = @ \ {p}]
    BY <1>9 DEF Record
  <2>2. req[o] \in ListRequests /\ InStep(req[o]) /\ req[o].pc = "log"
    BY <1>9 DEF Record, ReminderInv, RemindInv, Others, NoRequest
  <2>. HIDE DEF p, status
  <2>3. req' = [req EXCEPT ![o] = [req[o] EXCEPT !.pc = "next", !.results[p] = status, !.todo = @ \ {p}]]
    BY <1>1, <2>1, <2>2 DEF ListRequests
  <2>. QED  BY <1>1, <1>9, <2>2, <2>3, OutcomeRecorded, OneRequest DEF Record, p, status
<1>10. ASSUME NEW o \in Organizers, AnswerRequest(o) PROVE ReminderInv'
  BY <1>1, <1>10, OneRequest DEF AnswerRequest, Others
<1>11. ASSUME NEW o \in Organizers, NotifyGroupBegin(o) PROVE ReminderInv'
  <2>1. Unpaid \subseteq Players
    BY DEF Unpaid
  <2>2. Cardinality(Unpaid) \in Nat
    BY <2>1, RemindParameters, FS_Subset, FS_CardinalityType
  <2>3. [pc |-> "group", owing |-> Cardinality(Unpaid)] \in Others
    BY <2>2 DEF Others
  <2>. QED  BY <1>1, <1>11, <2>3, OneRequest DEF NotifyGroupBegin
<1>12. ASSUME NEW o \in Organizers, NotifyGroup(o) PROVE ReminderInv'
  BY <1>1, <1>12, OneRequest DEF NotifyGroup, Others
<1>. QED  BY <1>2, <1>3, <1>4, <1>5, <1>6, <1>7, <1>8, <1>9, <1>10, <1>11, <1>12
          DEF RemindNext, remindVars, ChangeMode, LogExpires

\* A list that is worked through: everybody on it who is no guest was written
\* to, once, and is reported with what came of it.
LEMMA Worked == ReminderInv => DebtorsTold
<1> SUFFICES ASSUME ReminderInv, NEW o \in Organizers, req[o].pc = "next", req[o].todo = {}
             PROVE  /\ DOMAIN req[o].results \ Guests = {m[1] : m \in Range(req[o].sent)}
                    /\ Len(req[o].sent) = Cardinality(DOMAIN req[o].results \ Guests)
                    /\ \A m \in Range(req[o].sent) : req[o].results[m[1]] = m[2]
                    /\ \A p \in DOMAIN req[o].results \cap Guests : req[o].results[p] = "guest"
  BY DEF DebtorsTold, Answered
<1>1. req[o] \in ListRequests /\ InStep(req[o])
  BY DEF ReminderInv, RemindInv, Others, NoRequest
<1>2. OffList(req[o]) = DOMAIN req[o].results
  BY DEF OffList
<1>3. WrittenTo(req[o]) = DOMAIN req[o].results \ Guests
  BY <1>1, <1>2 DEF InStep
<1>. QED  BY <1>1, <1>2, <1>3 DEF InStep, WrittenTo

\* Whoever owes when a request to remind begins is written to exactly once
\* before it is answered, and reported with what came of it.
THEOREM Reminded == RemindSpec => []DebtorsTold
<1>. QED  BY RemindBegins, RemindStep, Worked, PTL DEF RemindSpec
=============================================================================
