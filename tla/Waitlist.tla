------------------------------ MODULE Waitlist ------------------------------
(***************************************************************************)
(* What the roster of a game promises, without transactions: whoever       *)
(* registers plays if there is room and waits otherwise, and whoever       *)
(* leaves a place hands it to the one who has waited longest.  Roster      *)
(* implements this with row locks, as long as only transactions that take  *)
(* the lock of the game, or wait for it, change signups.                   *)
(***************************************************************************)
EXTENDS Integers, FiniteSets

CONSTANTS
  People,     \* everybody who can be on the list
  Promotable, \* those the list itself may move up: not the guests
  Sizes       \* possible numbers of places

VARIABLES
  slots,   \* how many may play
  playing,
  waiting,
  order    \* <<x, y>>: x comes before y

vars == <<slots, playing, waiting, order>>

Listed == playing \cup waiting

Init ==
  /\ slots \in Sizes
  /\ playing = {} /\ waiting = {} /\ order = {}

\* The n foremost of S.
Foremost(S, n) ==
  {T \in SUBSET S : /\ Cardinality(T) = n \/ (T = S /\ Cardinality(S) < n)
                    /\ \A u \in T, v \in S \ T : <<u, v>> \in order}

\* Somebody new takes a place in the order.  It need not be the last one: a
\* request counts from the moment it reached the system, not from the moment
\* it was served.
LinesUp(u) ==
  \E before \in SUBSET Listed :
    order' = order \cup (before \X {u}) \cup ({u} \X (Listed \ before))

Register(u) ==
  /\ u \notin Listed
  /\ LinesUp(u)
  /\ IF Cardinality(playing) < slots
       THEN playing' = playing \cup {u} /\ UNCHANGED waiting
       ELSE waiting' = waiting \cup {u} /\ UNCHANGED playing
  /\ UNCHANGED slots

Withdraw(u) ==
  /\ u \in Listed
  /\ order' = {e \in order : e[1] # u /\ e[2] # u}
  /\ IF u \in playing
       THEN \E next \in Foremost((waiting \cap Promotable) \ {u}, 1) :
              /\ playing' = (playing \ {u}) \cup next
              /\ waiting' = waiting \ next
       ELSE waiting' = waiting \ {u} /\ UNCHANGED playing
  /\ UNCHANGED slots

\* Free places are given to those who wait.
Refill ==
  /\ Cardinality(playing) < slots
  /\ \E next \in Foremost(waiting \cap Promotable, slots - Cardinality(playing)) :
       playing' = playing \cup next /\ waiting' = waiting \ next
  /\ UNCHANGED <<slots, order>>

\* The places are given out again from the front of the order.
Reseat ==
  /\ playing' \in Foremost(Listed \cap Promotable, slots)
  /\ waiting' = Listed \ playing'
  /\ UNCHANGED <<slots, order>>

\* An organizer puts somebody on the field, room or not.
Admit(u) ==
  /\ u \notin Listed
  /\ LinesUp(u)
  /\ playing' = playing \cup {u}
  /\ UNCHANGED <<slots, waiting>>

\* The number of places changes and nobody is moved.
Resize ==
  /\ slots' \in Sizes
  /\ UNCHANGED <<playing, waiting, order>>

Next ==
  \/ \E u \in People : Register(u) \/ Withdraw(u) \/ Admit(u)
  \/ Refill \/ Reseat \/ Resize

Spec == Init /\ [][Next]_vars
=============================================================================
