------------------------------ MODULE Billing -------------------------------
(***************************************************************************)
(* What a game costs and to which account (app/core/services/billing.py,   *)
(* the settings of a group in app/api/routers/dashboard.py, the payment    *)
(* routes of app/api/routers/platform.py).                                 *)
(*                                                                         *)
(* The text an organizer types as payment details is a record: an account  *)
(* in domestic form, an IBAN, or anything else ("note", "none").  Numbers  *)
(* of accounts are sequences of digits; an IBAN keeps its country as the   *)
(* digits the checksum sees ("CZ" is 1 2 3 5).                             *)
(***************************************************************************)
EXTENDS Integers, Sequences, Functions

CONSTANTS
  Infos,    \* the payment details that get typed
  Prices

Digits(lengths) == {digits \in Seq(0..9) : Len(digits) \in lengths}

Ibans == [check : Digits({2}), country : Digits({4}), bban : Digits(11..30)]

\* What _CZ_DOMESTIC_RE and _IBAN_CLEAN_RE let through, and other texts.
Details ==
  [kind : {"none", "note"}] \cup [kind : {"iban"}, iban : Ibans]
    \cup [kind : {"domestic"}, prefix : Digits(0..6), number : Digits(2..10), bank : Digits({4})]

ASSUME BillingParameters == Infos \subseteq Details /\ Prices \subseteq Int

BillingMode == {"spayd_qr", "manual", "free_corporate"}

VARIABLES
  game,  \* price and payment_info of the game
  chat   \* billing_mode and payment_info of its group

billingVars == <<game, chat>>

(***************************************************************************)
(* Accounts.                                                               *)
(***************************************************************************)
Mod97(digits) ==
  LET rest[n \in 0..Len(digits)] == IF n = 0 THEN 0 ELSE (10 * rest[n - 1] + digits[n]) % 97
  IN  rest[Len(digits)]

\* _IBAN_CLEAN_RE bounds the length, the checksum does the rest.
ValidIban(iban) ==
  /\ Len(iban.bban) \in 11..30
  /\ Mod97(iban.bban \o iban.country \o iban.check) = 1

ZeroFilled(digits, n) == [i \in 1..(n - Len(digits)) |-> 0] \o digits

\* _CNB_WEIGHTS_6 and _CNB_WEIGHTS_10, in the order the code pairs them with
\* the digits: from the most significant one.
Weights(n) == IF n = 6 THEN <<10, 5, 8, 4, 2, 1>> ELSE <<6, 3, 7, 9, 10, 5, 8, 4, 2, 1>>

WeightedSum(digits) ==
  LET w == Weights(Len(digits))
      sum[n \in 0..Len(digits)] == IF n = 0 THEN 0 ELSE sum[n - 1] + digits[n] * w[n]
  IN  sum[Len(digits)]

\* (mutated: only the number is checked, not the prefix)
CheckNumber(digits) == Len(digits) = 6 \/ WeightedSum(digits) % 11 = 0

CheckCnbMod11(digits) == WeightedSum(digits) % 11 = 0

NoIban == [check |-> <<>>, country |-> <<>>, bban |-> <<>>]

\* The IBAN of a domestic account whose numbers pass their check.
Converted(info) ==
  LET prefix == ZeroFilled(info.prefix, 6)
      number == ZeroFilled(info.number, 10)
      bban   == info.bank \o prefix \o number
      check  == 98 - Mod97(bban \o <<1, 2, 3, 5, 0, 0>>)
  IN  IF Range(number) = {0} \/ ~ CheckCnbMod11(prefix) \/ ~ CheckCnbMod11(number) THEN NoIban
      ELSE [check |-> <<check \div 10, check % 10>>, country |-> <<1, 2, 3, 5>>, bban |-> bban]

CzechAccountToIban(info) ==
  CASE info.kind = "iban" /\ ValidIban(info.iban) -> info.iban
    [] info.kind = "domestic"                     -> Converted(info)
    [] OTHER                                      -> NoIban

(***************************************************************************)
(* What the page and the QR route answer.                                  *)
(***************************************************************************)
EffectiveInfo == IF game.info.kind # "none" THEN game.info ELSE chat.info

ResolveGameBilling ==
  LET free == chat.mode = "free_corporate" \/ game.price <= 0
      iban == IF free THEN NoIban ELSE CzechAccountToIban(EffectiveInfo)
  IN  [amount |-> IF free THEN 0 ELSE game.price,
       info   |-> IF chat.mode = "free_corporate" THEN [kind |-> "none"] ELSE EffectiveInfo,
       iban   |-> iban,
       spayd  |-> chat.mode = "spayd_qr" /\ iban # NoIban]

(***************************************************************************)
(* Settings.                                                               *)
(***************************************************************************)
BillingInit ==
  /\ game = [price |-> 0, info |-> [kind |-> "none"]]
  /\ chat = [mode |-> "manual", info |-> [kind |-> "none"]]

UpdateGroupSettings ==
  /\ \E mode \in BillingMode, info \in Infos : chat' = [mode |-> mode, info |-> info]
  /\ UNCHANGED game

\* The game that is looked at from now on is a new one.  A group that is free
\* creates it without price; others lend it their details.
CreateGame ==
  /\ \E price \in Prices, info \in Infos :
       game' = IF chat.mode = "free_corporate"
               THEN [price |-> 0, info |-> [kind |-> "none"]]
               ELSE [price |-> price, info |-> IF info.kind = "none" THEN chat.info ELSE info]
  /\ UNCHANGED chat

\* The mode of the group is not looked at again, and details once given to a
\* game cannot be taken back, only replaced.
UpdateGame ==
  /\ \E price \in Prices, info \in Infos :
       game' = [price |-> price, info |-> IF info.kind = "none" THEN game.info ELSE info]
  /\ UNCHANGED chat

BillingNext == UpdateGroupSettings \/ CreateGame \/ UpdateGame

BillingSpec == BillingInit /\ [][BillingNext]_billingVars

(***************************************************************************)
(* Properties.                                                             *)
(***************************************************************************)
\* A digit mistyped, or two neighbours swapped.
Slips(digits) ==
  {[digits EXCEPT ![i] = d] : i \in DOMAIN digits, d \in 0..9}
    \cup {[digits EXCEPT ![i] = digits[i + 1], ![i + 1] = digits[i]] : i \in 1..(Len(digits) - 1)}

\* The texts one slip away, where a check can tell: in the number and the
\* prefix of a domestic account, and in what follows the country of an IBAN.
\* The code of the bank is taken unchecked (any four digits,
\* _CZ_DOMESTIC_RE), so that a slip there makes a valid IBAN of another bank.
Misspelt(info) ==
  IF info.kind = "domestic"
  THEN {[info EXCEPT !.number = n] : n \in Slips(info.number) \ {info.number}}
         \cup {[info EXCEPT !.prefix = p] : p \in Slips(info.prefix) \ {info.prefix}}
  ELSE {[info EXCEPT !.iban.bban = b] : b \in Slips(info.iban.bban) \ {info.iban.bban}}
         \cup {[info EXCEPT !.iban.check = c] : c \in Slips(info.iban.check) \ {info.iban.check}}

\* A payment order asks for a price above zero, in a group that pays that
\* way, to a valid IBAN; and an organizer who made one slip in the number or
\* the prefix of an account, or in the digits of an IBAN, would have got no
\* order instead of the account of a stranger.  For the code of the bank of
\* a domestic account this is not so.
OrdersExact ==
  LET bill == ResolveGameBilling
  IN  bill.spayd =>
        /\ bill.amount > 0
        /\ chat.mode = "spayd_qr"
        /\ ValidIban(bill.iban)
        /\ \A other \in Misspelt(bill.info) : CzechAccountToIban(other) = NoIban
=============================================================================
