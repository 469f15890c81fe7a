----------------------------- MODULE MCPayments -----------------------------
(***************************************************************************)
(* Payments for TLC: a behaviour is one of the account and price of a      *)
(* game, of the reminders to pay it, or of drawing one code.  The three    *)
(* share no variable.  The texts to draw are at both ends of what each     *)
(* version holds.                                                          *)
(***************************************************************************)
EXTENDS Billing, Reminders, QrCode

Domestic(prefix, number, bank) ==
  [kind |-> "domestic", prefix |-> prefix, number |-> number, bank |-> bank]
Iban(check, bban) == [kind |-> "iban", iban |-> [check |-> check, country |-> <<1, 2, 3, 5>>, bban |-> bban]]

\* 19-2000145399/0800, the same with a wrong digit, accounts without prefix,
\* number zero, an IBAN, and one with its check digits swapped.
SomeInfos == {
  [kind |-> "none"], [kind |-> "note"],
  Domestic(<<1, 9>>, <<2, 0, 0, 0, 1, 4, 5, 3, 9, 9>>, <<0, 8, 0, 0>>),
  Domestic(<<1, 9>>, <<2, 0, 0, 0, 1, 4, 5, 3, 9, 8>>, <<0, 8, 0, 0>>),
  Domestic(<<>>, <<1, 9>>, <<0, 1, 0, 0>>),
  Domestic(<<>>, <<0, 0>>, <<0, 1, 0, 0>>),
  Domestic(<<>>, <<8, 6, 0, 0, 0, 0, 0, 0, 0>>, <<2, 0, 1, 0>>),
  Iban(<<6, 5>>, <<0, 8, 0, 0, 0, 0, 0, 0, 1, 9, 2, 0, 0, 0, 1, 4, 5, 3, 9, 9>>),
  Iban(<<5, 6>>, <<0, 8, 0, 0, 0, 0, 0, 0, 1, 9, 2, 0, 0, 0, 1, 4, 5, 3, 9, 9>>) }

\* Two players and a guest between them.
SomeSignups == (1 :> 0) @@ (-1 :> 1) @@ (2 :> 2)

Text(n) == [k \in 1..n |-> BitsIn((k * 37 + n) % 256)]
SomePayloads == {Text(n) : n \in {0, 1, 17, 18, 32, 33, 53, 54, 78, 79, 106, 107, 134, 135,
                                  154, 155, 192, 193, 230, 231, 271, 272}}

VARIABLE topic

vars == <<topic, billingVars, remindVars, qrVars>>

Init ==
  /\ BillingInit /\ RemindInit /\ QrInit
  /\ topic \in {"account", "reminders", "code"}
  /\ topic # "reminders" => mode = "manual"
  /\ topic # "code" => payload = <<>>

Next ==
  /\ UNCHANGED topic
  /\ \/ topic = "account" /\ BillingNext /\ UNCHANGED <<remindVars, qrVars>>
     \/ topic = "reminders" /\ RemindNext /\ UNCHANGED <<billingVars, qrVars>>
     \/ topic = "code" /\ QrNext /\ UNCHANGED <<billingVars, remindVars>>

Spec == Init /\ [][Next]_vars
=============================================================================
