------------------------------ MODULE QrProofs ------------------------------

(***************************************************************************)
(* Proofs about QrCode, for payloads of any bytes: every block of a code   *)
(* can be corrected, and a reader gets the payload back.                   *)
(*                                                                         *)
(* What depends on the version alone - the table of the field, where the   *)
(* bytes of the blocks stand, the walk through the free modules - are      *)
(* closed facts about ten versions; QrCode states them as assumptions that *)
(* TLC evaluates.  What depends on the payload is proved from them: the    *)
(* arithmetic of the field and of polynomials over it, the division that   *)
(* makes the error codewords, and the way of every bit from the text to    *)
(* its module and back.                                                    *)
(*                                                                         *)
(* The recursions are functions over 0..n.  Recursion says that there are  *)
(* such functions, UpTo is induction over their arguments.                 *)
(***************************************************************************)
EXTENDS QrCode, FiniteSetTheorems, SequenceTheorems, WellFoundedInduction, TLAPS

\* Every set of numbers that is not empty has a least one.
LEMMA LeastNat ==
  ASSUME NEW T \in SUBSET Nat, T # {}
  PROVE  \E m \in T : \A n \in T : m <= n
<1>1. PICK m \in T : \A n \in T : <<n, m>> \notin OpToRel(<, Nat)
  BY NatLessThanWellFounded, WFMin
<1>2. \A n \in T : n < m => <<n, m>> \in OpToRel(<, Nat)
  BY DEF OpToRel
<1>3. \A n \in T : ~ (n < m)
  BY <1>1, <1>2
<1>4. m \in Nat /\ \A n \in T : n \in Nat
  OBVIOUS
<1>5. \A n \in T : m <= n
  BY <1>3, <1>4
<1> QED BY <1>5

\* Induction over the numbers up to N, for the set of those for which
\* something holds.
LEMMA UpTo ==
  ASSUME NEW N \in Nat, NEW H, 0 \in H, \A n \in 1..N : n - 1 \in H => n \in H
  PROVE  0..N \subseteq H
<1>1. SUFFICES ASSUME (0..N) \ H # {} PROVE FALSE
  OBVIOUS
<1>2. PICK m \in (0..N) \ H : \A n \in (0..N) \ H : m <= n
  <2>1. (0..N) \ H \in SUBSET Nat
    OBVIOUS
  <2>. QED  BY <1>1, <2>1, LeastNat
<1>3. m \in 1..N /\ m - 1 \in 0..N /\ ~ (m <= m - 1)
  BY <1>2
<1>. QED  BY <1>2, <1>3

\* There is a function defined by recursion from the value before.
Iterates(f, N, base, next) == f[0] = base /\ \A n \in 1..N : f[n] = next[n][f[n - 1]]

\* It exists whenever the steps stay within the values.
LEMMA Recursion ==
  ASSUME NEW N \in Nat, NEW V, NEW base \in V, NEW next \in [1..N -> [V -> V]]
  PROVE  \E f \in [0..N -> V] : Iterates(f, N, base, next)
<1>. DEFINE Good(f, k) == f[0] = base /\ \A n \in 1..k : f[n] = next[n][f[n - 1]]
            H == {k \in 0..N : \E f \in [0..k -> V] : Good(f, k)}
<1>1. 0 \in H
  <2>. DEFINE f == [n \in 0..0 |-> base]
  <2>1. f \in [0..0 -> V]
    OBVIOUS
  <2>2. Good(f, 0)
    OBVIOUS
  <2>. HIDE DEF f, Good
  <2>3. 0 \in 0..N
    OBVIOUS
  <2>. QED  BY <2>1, <2>2, <2>3
<1>2. ASSUME NEW n \in 1..N, n - 1 \in H
      PROVE  n \in H
  <2>1. PICK f \in [0..(n - 1) -> V] : Good(f, n - 1)
    BY <1>2
  <2>. DEFINE g == [m \in 0..n |-> IF m = n THEN next[n][f[n - 1]] ELSE f[m]]
  <2>2. next[n][f[n - 1]] \in V
    <3>1. f[n - 1] \in V /\ next[n] \in [V -> V]
      BY <2>1
    <3>. QED  BY <3>1
  <2>3. g \in [0..n -> V]
    BY <2>1, <2>2
  <2>4. ASSUME NEW m \in 1..n PROVE g[m] = next[m][g[m - 1]]
    <3>1. CASE m = n
      BY <3>1, <2>1
    <3>2. CASE m # n
      <4>1. m \in 1..(n - 1) /\ m - 1 \in 0..n /\ m - 1 # n /\ m \in 0..n
        BY <3>2
      <4>. QED  BY <4>1, <2>1, <3>2
    <3>. QED  BY <3>1, <3>2
  <2>5. Good(g, n)
    <3>1. g[0] = base
      BY <2>1
    <3>. HIDE DEF g
    <3>. QED  BY <2>4, <3>1
  <2>. HIDE DEF g, Good
  <2>6. n \in 0..N
    OBVIOUS
  <2>. QED  BY <2>3, <2>5, <2>6
<1>. HIDE DEF H
<1>3. 0..N \subseteq H
  BY <1>1, <1>2, UpTo
<1>4. N \in H
  BY <1>3
<1>. QED  BY <1>4 DEF H, Iterates

(***************************************************************************)
(* Bytes: an exclusive or of what is the same twice is nothing.            *)
(***************************************************************************)
\* The order does not matter, and the bytes are closed.
LEMMA Xor ==
  ASSUME NEW a, NEW b
  PROVE  /\ SymDiff(a, b) = SymDiff(b, a) /\ SymDiff(a, a) = {}
         /\ SymDiff(a, {}) = a /\ SymDiff({}, a) = a
         /\ a \in Byte /\ b \in Byte => SymDiff(a, b) \in Byte
BY DEF SymDiff, Byte

\* Nor do parentheses.
LEMMA XorOfThree ==
  ASSUME NEW a, NEW b, NEW c
  PROVE  /\ SymDiff(SymDiff(a, b), c) = SymDiff(a, SymDiff(b, c))
         /\ SymDiff(SymDiff(a, b), SymDiff(b, c)) = SymDiff(a, c)
BY DEF SymDiff

\* Four bytes can be paired either way.
LEMMA XorOfFour ==
  ASSUME NEW a, NEW b, NEW c, NEW d
  PROVE  SymDiff(SymDiff(a, b), SymDiff(c, d)) = SymDiff(SymDiff(a, c), SymDiff(b, d))
BY DEF SymDiff

(***************************************************************************)
(* The powers of x.                                                        *)
(***************************************************************************)
\* Times x: the bits move up, and the field polynomial takes the ninth away.
LEMMA StepIs ==
  ASSUME NEW b
  PROVE  Shift(b) = IF 8 \in {k + 1 : k \in b} THEN SymDiff({k + 1 : k \in b}, {8, 4, 3, 2, 0})
                    ELSE {k + 1 : k \in b}
<1>1. Max({8, 4, 3, 2, 0}) = 8
  BY DEF Max
<1>. QED  BY <1>1 DEF Shift, Step, FieldPolynomial

\* It stays a byte, and it is linear.
LEMMA ShiftByte ==
  ASSUME NEW a \in Byte, NEW b \in Byte
  PROVE  /\ Shift(a) \in Byte
         /\ Shift(SymDiff(a, b)) = SymDiff(Shift(a), Shift(b))
         /\ Shift({}) = {}
<1>. DEFINE up(x) == {k + 1 : k \in x}
<1>1. \A x \in Byte : up(x) \subseteq 1..8
  BY DEF Byte
<1>2. up(SymDiff(a, b)) = SymDiff(up(a), up(b))
  <2>1. \A x \in Byte : \A n : n \in up(x) <=> n \in 1..8 /\ n - 1 \in x
    BY DEF Byte
  <2>2. SymDiff(a, b) \in Byte
    BY Xor
  <2>. HIDE DEF up
  <2>. QED  BY <2>1, <2>2 DEF SymDiff
<1>3. up({}) = {}
  OBVIOUS
<1>4. \A x : Shift(x) = IF 8 \in up(x) THEN SymDiff(up(x), {8, 4, 3, 2, 0}) ELSE up(x)
  BY StepIs
<1>. HIDE DEF up
<1>5. Shift(a) \in Byte
  <2>1. Shift(a) \subseteq 0..8 /\ 8 \notin Shift(a)
    BY <1>1, <1>4 DEF SymDiff
  <2>. QED  BY <2>1 DEF Byte
<1>6. Shift(SymDiff(a, b)) = SymDiff(Shift(a), Shift(b))
  BY <1>2, <1>4 DEF SymDiff
<1>. QED  BY <1>3, <1>4, <1>5, <1>6

Bytes1 == Byte \ {{}}

\* Exponents count modulo 255.
LEMMA Modulo255 ==
  /\ \A i \in Nat : i % 255 \in 0..254 /\ (i % 255) % 255 = i % 255
  /\ \A i \in 0..254 : i % 255 = i
  /\ \A i \in Nat : (i + 1) % 255 = IF i % 255 = 254 THEN 0 ELSE (i % 255) + 1
  /\ \A i, j \in Nat : ((i % 255) + j) % 255 = (i + j) % 255
OBVIOUS

\* The table holds every byte but 0 ...
LEMMA PowersAre ==
  {Powers[n] : n \in 1..255} = Bytes1 /\ Powers[256] = Powers[1] /\ Powers[1] = {0}
BY PowersCycle, Zenon DEF Bytes1

\* ... once ...
LEMMA PowersOnce == \A m, n \in 1..255 : Powers[m] = Powers[n] => m = n
BY PowersCycle, Zenon

\* ... each the one before times x.
LEMMA PowersShift == \A n \in 1..255 : Powers[n + 1] = Shift(Powers[n])
BY PowersCycle, Zenon

\* So the powers are the bytes but 0, and x to the i + 1 is x to the i, shifted.
LEMMA PowerIs ==
  /\ \A i \in Nat : /\ Power(i) \in Bytes1 /\ Power(i) = Power(i % 255)
                    /\ Power(i + 1) = Shift(Power(i))
  /\ Power(0) = {0}
  /\ \A i, j \in 0..254 : Power(i) = Power(j) => i = j
  /\ \A b \in Bytes1 : \E i \in 0..254 : Power(i) = b
<1>1. ASSUME NEW i \in Nat
      PROVE  /\ Power(i) \in Bytes1 /\ Power(i) = Power(i % 255)
             /\ Power(i + 1) = Shift(Power(i))
  <2>1. PICK k \in 0..254 : k = i % 255 /\ k = k % 255
    BY Modulo255
  <2>2. k + 1 \in 1..255 /\ Power(i) = Powers[k + 1] /\ Power(k) = Powers[k + 1]
    BY <2>1 DEF Power
  <2>3. Powers[k + 1] \in Bytes1
    <3>1. Powers[k + 1] \in {Powers[n] : n \in 1..255}
      BY <2>2
    <3>. QED  BY <3>1, PowersAre
  <2>4. Power(i + 1) = Shift(Power(i))
    <3>1. Powers[(k + 1) + 1] = Shift(Powers[k + 1])
      BY <2>2, PowersShift
    <3>2. CASE k = 254
      <4>1. (i + 1) % 255 = 0 /\ 0 + 1 = 1 /\ (k + 1) + 1 = 256
        BY <2>1, <3>2, Modulo255
      <4>2. Power(i + 1) = Powers[1]
        BY <4>1 DEF Power
      <4>. QED  BY <2>2, <3>1, <4>1, <4>2, PowersAre
    <3>3. CASE k # 254
      <4>1. (i + 1) % 255 = k + 1
        BY <2>1, <3>3, Modulo255
      <4>2. Power(i + 1) = Powers[(k + 1) + 1]
        BY <4>1 DEF Power
      <4>. QED  BY <2>2, <3>1, <4>2
    <3>. QED  BY <3>2, <3>3
  <2>. QED  BY <2>1, <2>2, <2>3, <2>4
<1>2. ASSUME NEW i \in 0..254
      PROVE  Power(i) = Powers[i + 1] /\ i + 1 \in 1..255
  <2>1. i % 255 = i /\ i + 1 \in 1..255
    OBVIOUS
  <2>. QED  BY <2>1 DEF Power
<1>3. Power(0) = {0}
  <2>1. 0 \in 0..254 /\ 0 + 1 = 1
    OBVIOUS
  <2>2. Power(0) = Powers[1]
    BY <1>2, <2>1
  <2>. QED  BY <2>2, PowersAre
<1>4. ASSUME NEW i \in 0..254, NEW j \in 0..254, Power(i) = Power(j)
      PROVE  i = j
  <2>1. i + 1 = j + 1
    BY <1>2, <1>4, PowersOnce
  <2>. QED  BY <2>1
<1>5. ASSUME NEW b \in Bytes1
      PROVE  \E i \in 0..254 : Power(i) = b
  <2>1. PICK n \in 1..255 : Powers[n] = b
    <3>1. b \in {Powers[n] : n \in 1..255}
      BY PowersAre
    <3>. QED  BY <3>1
  <2>2. PICK i \in 0..254 : i + 1 = n
    <3>1. n - 1 \in 0..254 /\ (n - 1) + 1 = n
      OBVIOUS
    <3>. QED  BY <3>1
  <2>. QED  BY <1>2, <2>1, <2>2
<1>. QED  BY <1>1, <1>3, <1>4, <1>5

\* The logarithm is the inverse of the power.
LEMMA ExponentIs ==
  /\ \A b \in Bytes1 : Exponent[b] \in 0..254 /\ Power(Exponent[b]) = b
  /\ \A i \in Nat : Exponent[Power(i)] = i % 255
<1>1. ASSUME NEW b \in Bytes1
      PROVE  Exponent[b] \in 0..254 /\ Power(Exponent[b]) = b
  <2>1. Exponent[b] = CHOOSE i \in 0..254 : Power(i) = b
    BY DEF Exponent, Bytes1
  <2>2. \E i \in 0..254 : Power(i) = b
    BY PowerIs
  <2>. QED  BY <2>1, <2>2
<1>2. ASSUME NEW i \in Nat
      PROVE  Exponent[Power(i)] = i % 255
  <2>1. PICK b \in Bytes1 : b = Power(i)
    BY PowerIs
  <2>2. PICK k \in 0..254 : k = i % 255
    BY Modulo255
  <2>3. Power(k) = b
    <3>1. Power(i) = Power(i % 255)
      BY PowerIs, Zenon
    <3>. QED  BY <2>1, <2>2, <3>1
  <2>4. Exponent[b] = k
    <3>1. PICK e \in 0..254 : e = Exponent[b] /\ Power(e) = b
      BY <1>1
    <3>2. Power(e) = Power(k) => e = k
      BY PowerIs
    <3>. QED  BY <2>3, <3>1, <3>2
  <2>. QED  BY <2>1, <2>2, <2>4
<1>. QED  BY <1>1, <1>2

\* Multiplying by a power of x is shifting that often.
LEMMA MulPower ==
  ASSUME NEW a \in Byte, NEW k \in Nat
  PROVE  /\ Mul(a, Power(k)) \in Byte
         /\ Mul(a, Power(0)) = a
         /\ Mul(a, Power(k + 1)) = Shift(Mul(a, Power(k)))
         /\ a # {} => Mul(a, Power(k)) = Power(Exponent[a] + k)
<1>1. CASE a = {}
  <2>1. \A b : Mul(a, b) = {}
    BY <1>1 DEF Mul
  <2>. QED  BY <1>1, <2>1, ShiftByte DEF Byte
<1>2. CASE a # {}
  <2>1. PICK e \in 0..254 : e = Exponent[a] /\ Power(e) = a
    BY <1>2, ExponentIs DEF Bytes1
  <2>2. ASSUME NEW i \in Nat
        PROVE  Mul(a, Power(i)) = Power(e + i)
    <3>1. Power(i) # {} /\ Exponent[Power(i)] = i % 255
      <4>1. Power(i) \in Bytes1
        BY PowerIs, Zenon
      <4>2. Exponent[Power(i)] = i % 255
        BY ExponentIs, Zenon
      <4>. QED  BY <4>1, <4>2 DEF Bytes1
    <3>2. Mul(a, Power(i)) = Power(e + (i % 255))
      BY <1>2, <2>1, <3>1 DEF Mul
    <3>3. (e + (i % 255)) % 255 = (e + i) % 255
      OBVIOUS
    <3>. QED  BY <3>2, <3>3 DEF Power
  <2>3. /\ e + k \in Nat /\ e + (k + 1) = (e + k) + 1 /\ e + 0 = e /\ k + 1 \in Nat /\ 0 \in Nat
    OBVIOUS
  <2>4. Mul(a, Power(k)) = Power(e + k) /\ Mul(a, Power(k + 1)) = Power((e + k) + 1)
    BY <2>2, <2>3
  <2>5. Mul(a, Power(0)) = a
    BY <2>1, <2>2, <2>3
  <2>6. Power((e + k) + 1) = Shift(Power(e + k)) /\ Power(e + k) \in Byte
    BY <2>3, PowerIs DEF Bytes1
  <2>. QED  BY <2>1, <2>4, <2>5, <2>6
<1>. QED  BY <1>1, <1>2

\* Multiplying by two powers of x is multiplying by one.
LEMMA MulPowers ==
  ASSUME NEW a \in Byte, NEW i \in Nat, NEW j \in Nat
  PROVE  Mul(Mul(a, Power(i)), Power(j)) = Mul(a, Power(i + j))
<1>1. CASE a = {}
  BY <1>1 DEF Mul
<1>2. CASE a # {}
  <2>1. PICK e \in 0..254 : e = Exponent[a]
    BY <1>2, ExponentIs DEF Bytes1
  <2>2. Mul(a, Power(i)) = Power(e + i) /\ Mul(a, Power(i + j)) = Power(e + (i + j))
    <3>1. \A k \in Nat : Mul(a, Power(k)) = Power(e + k)
      BY <1>2, <2>1, MulPower
    <3>2. i + j \in Nat
      OBVIOUS
    <3>. QED  BY <3>1, <3>2
  <2>3. PICK n \in Nat : n = e + i
    OBVIOUS
  <2>4. PICK b \in Bytes1 : b = Power(n)
    BY PowerIs
  <2>5. Mul(b, Power(j)) = Power(Exponent[b] + j) /\ Exponent[b] = n % 255
    <3>1. b \in Byte /\ b # {}
      BY DEF Bytes1
    <3>2. Mul(b, Power(j)) = Power(Exponent[b] + j)
      BY <3>1, MulPower
    <3>3. Exponent[Power(n)] = n % 255
      BY ExponentIs, Zenon
    <3>. QED  BY <2>4, <3>2, <3>3
  <2>6. ((n % 255) + j) % 255 = (e + (i + j)) % 255
    <3>1. n + j = e + (i + j)
      BY <2>3
    <3>2. ((n % 255) + j) % 255 = (n + j) % 255
      BY Modulo255
    <3>. QED  BY <3>1, <3>2
  <2>7. Power((n % 255) + j) = Power(e + (i + j))
    BY <2>6 DEF Power
  <2>. QED  BY <2>2, <2>3, <2>4, <2>5, <2>7
<1>. QED  BY <1>1, <1>2

\* So multiplication distributes over the exclusive or.
LEMMA MulXorPower ==
  ASSUME NEW a \in Byte, NEW b \in Byte, NEW k \in Nat
  PROVE  Mul(SymDiff(a, b), Power(k)) = SymDiff(Mul(a, Power(k)), Mul(b, Power(k)))
<1>. DEFINE H == {n \in 0..k : Mul(SymDiff(a, b), Power(n))
                                 = SymDiff(Mul(a, Power(n)), Mul(b, Power(n)))}
<1>1. SymDiff(a, b) \in Byte
  BY Xor
<1>2. 0 \in H
  <2>1. \A c \in Byte : Mul(c, Power(0)) = c
    <3>1. 0 \in Nat
      OBVIOUS
    <3>. QED  BY <3>1, MulPower
  <2>2. 0 \in 0..k
    OBVIOUS
  <2>. QED  BY <1>1, <2>1, <2>2
<1>3. ASSUME NEW n \in 1..k, n - 1 \in H PROVE n \in H
  <2>1. PICK m \in Nat : m = n - 1 /\ n = m + 1
    OBVIOUS
  <2>2. ASSUME NEW c \in Byte
        PROVE  Mul(c, Power(n)) = Shift(Mul(c, Power(m))) /\ Mul(c, Power(m)) \in Byte
    BY <2>1, MulPower
  <2>3. Mul(SymDiff(a, b), Power(m)) = SymDiff(Mul(a, Power(m)), Mul(b, Power(m)))
    BY <1>3, <2>1
  <2>4. Shift(SymDiff(Mul(a, Power(m)), Mul(b, Power(m))))
          = SymDiff(Shift(Mul(a, Power(m))), Shift(Mul(b, Power(m))))
    BY <2>2, ShiftByte
  <2>5. Mul(SymDiff(a, b), Power(n)) = SymDiff(Mul(a, Power(n)), Mul(b, Power(n)))
    BY <1>1, <2>2, <2>3, <2>4
  <2>6. n \in 0..k
    OBVIOUS
  <2>. QED  BY <2>5, <2>6
<1>. HIDE DEF H
<1>4. 0..k \subseteq H
  BY <1>2, <1>3, UpTo
<1>5. k \in H
  BY <1>4
<1>. QED  BY <1>5 DEF H

\* One is a byte.
LEMMA UnitByte == {0} \in Byte
BY DEF Byte

\* Bytes are a field: what the proofs need of it.
LEMMA Field ==
  ASSUME NEW a \in Byte, NEW b \in Byte, NEW c \in Byte
  PROVE  /\ Mul(a, b) \in Byte /\ Mul(a, b) = Mul(b, a)
         /\ Mul({}, a) = {} /\ Mul({0}, a) = a
         /\ Mul(SymDiff(a, b), c) = SymDiff(Mul(a, c), Mul(b, c))
         /\ Mul(Mul(a, b), c) = Mul(a, Mul(b, c))
<1>1. ASSUME NEW x \in Bytes1 PROVE \E k \in Nat : x = Power(k)
  <2>1. 0..254 \subseteq Nat
    OBVIOUS
  <2>. QED  BY <1>1, <2>1, PowerIs
<1>2. ASSUME NEW x \in Byte, NEW y \in Byte
      PROVE  Mul(x, y) = Mul(y, x) /\ Mul(x, y) \in Byte
  <2>1. x # {} /\ y # {} => Exponent[x] \in 0..254 /\ Exponent[y] \in 0..254
    BY ExponentIs DEF Bytes1
  <2>2. Mul(x, y) = Mul(y, x)
    <3>1. CASE x # {} /\ y # {}
      <4>1. PICK i, j \in 0..254 : i = Exponent[x] /\ j = Exponent[y]
        BY <2>1, <3>1
      <4>2. i + j = j + i
        OBVIOUS
      <4>. QED  BY <3>1, <4>1, <4>2 DEF Mul
    <3>2. CASE ~ (x # {} /\ y # {})
      BY <3>2 DEF Mul
    <3>. QED  BY <3>1, <3>2
  <2>3. Mul(x, y) \in Byte
    <3>1. CASE y = {}
      BY <3>1 DEF Mul, Byte
    <3>2. CASE y # {}
      <4>1. PICK k \in Nat : y = Power(k)
        BY <1>1, <3>2 DEF Bytes1
      <4>. QED  BY <4>1, MulPower
    <3>. QED  BY <3>1, <3>2
  <2>. QED  BY <2>2, <2>3
<1>3. Mul({}, a) = {}
  BY DEF Mul
<1>4. Mul({0}, a) = a
  <2>1. {0} \in Byte /\ {0} = Power(0) /\ 0 \in Nat
    BY PowerIs, UnitByte
  <2>2. Mul(a, {0}) = a
    BY <2>1, MulPower
  <2>. QED  BY <1>2, <2>1, <2>2
<1>5. Mul(SymDiff(a, b), c) = SymDiff(Mul(a, c), Mul(b, c))
  <2>1. CASE c = {}
    <3>1. \A x : Mul(x, c) = {}
      BY <2>1 DEF Mul
    <3>. QED  BY <3>1, Xor
  <2>2. CASE c # {}
    <3>1. PICK k \in Nat : c = Power(k)
      BY <1>1, <2>2 DEF Bytes1
    <3>. QED  BY <3>1, MulXorPower
  <2>. QED  BY <2>1, <2>2
<1>6. Mul(Mul(a, b), c) = Mul(a, Mul(b, c))
  <2>1. CASE b = {} \/ c = {}
    BY <2>1 DEF Mul
  <2>2. CASE b # {} /\ c # {}
    <3>1. PICK i \in Nat : b = Power(i)
      BY <1>1, <2>2 DEF Bytes1
    <3>2. PICK j \in Nat : c = Power(j)
      BY <1>1, <2>2 DEF Bytes1
    <3>3. Mul(Power(i), Power(j)) = Power(i + j)
      <4>1. {0} \in Byte /\ {0} = Power(0) /\ 0 \in Nat /\ i + j \in Nat
        <5>1. 0 \in Nat /\ i + j \in Nat
          OBVIOUS
        <5>. QED  BY <5>1, PowerIs, UnitByte
      <4>2. \A k \in Nat : Power(k) \in Byte /\ Mul({0}, Power(k)) = Power(k)
        <5>1. ASSUME NEW k \in Nat PROVE Power(k) \in Byte /\ Mul({0}, Power(k)) = Power(k)
          <6>1. Power(k) \in Byte
            BY PowerIs DEF Bytes1
          <6>2. Mul(Power(k), {0}) = Power(k)
            BY <4>1, <6>1, MulPower
          <6>. QED  BY <1>2, <4>1, <6>1, <6>2
        <5>. QED  BY <5>1
      <4>3. Mul(Mul({0}, Power(i)), Power(j)) = Mul({0}, Power(i + j))
        BY <4>1, MulPowers
      <4>. QED  BY <4>1, <4>2, <4>3
    <3>. QED  BY <3>1, <3>2, <3>3, MulPowers
  <2>. QED  BY <2>1, <2>2
<1>. QED  BY <1>2, <1>3, <1>4, <1>5, <1>6

(***************************************************************************)
(* Polynomials, highest coefficient first, and their values by Horner's    *)
(* rule: H[k] is the value of the first k coefficients at r.               *)
(***************************************************************************)
Horner(H, s, n, r) == H[0] = {} /\ \A k \in 1..n : H[k] = SymDiff(Mul(H[k - 1], r), s[k])

\* A polynomial of n coefficients that is 0 at x^i.
Divisible(s, n, i) == \A H \in [0..n -> Byte] : Horner(H, s, n, Power(i)) => H[n] = {}

\* A power of x is a byte.
LEMMA PowerByte == \A i \in Nat : Power(i) \in Byte
BY PowerIs DEF Bytes1

\* Every polynomial has a value at every byte.
LEMMA HornerExists ==
  ASSUME NEW n \in Nat, NEW s \in [1..n -> Byte], NEW r \in Byte
  PROVE  \E H \in [0..n -> Byte] : Horner(H, s, n, r)
<1>. DEFINE next == [k \in 1..n |-> [b \in Byte |-> SymDiff(Mul(b, r), s[k])]]
<1>1. next \in [1..n -> [Byte -> Byte]]
  <2>1. ASSUME NEW k \in 1..n, NEW b \in Byte PROVE SymDiff(Mul(b, r), s[k]) \in Byte
    <3>1. Mul(b, r) \in Byte /\ s[k] \in Byte
      BY Field
    <3>. QED  BY <3>1, Xor
  <2>. QED  BY <2>1
<1>2. \A k \in 1..n, b \in Byte : next[k][b] = SymDiff(Mul(b, r), s[k])
  OBVIOUS
<1>. HIDE DEF next
<1>3. {} \in Byte
  BY DEF Byte
<1>4. PICK H \in [0..n -> Byte] : Iterates(H, n, {}, next)
  BY <1>1, <1>3, Recursion
<1>5. ASSUME NEW k \in 1..n PROVE H[k] = SymDiff(Mul(H[k - 1], r), s[k])
  <2>1. k - 1 \in 0..n
    OBVIOUS
  <2>2. H[k - 1] \in Byte
    BY <2>1
  <2>3. H[k] = next[k][H[k - 1]]
    BY <1>4 DEF Iterates
  <2>. QED  BY <1>2, <2>2, <2>3
<1>. QED  BY <1>4, <1>5 DEF Horner, Iterates

\* One step of Horner's rule.
LEMMA HornerStep ==
  ASSUME NEW n \in Nat, NEW s, NEW r, NEW H \in [0..n -> Byte], Horner(H, s, n, r),
         NEW j \in Nat, NEW k \in 1..n, k = j + 1
  PROVE  H[k] = SymDiff(Mul(H[j], r), s[k]) /\ H[j] \in Byte /\ H[k] \in Byte
<1>1. k - 1 = j /\ j \in 0..n /\ k \in 0..n
  OBVIOUS
<1>. QED  BY <1>1 DEF Horner

Stepped(H, s, r, j, k) == H[k] = SymDiff(Mul(H[j], r), s[k]) /\ H[j] \in Byte /\ H[k] \in Byte

\* One step of Horner's rule, with both values bytes.
LEMMA HornerStepped ==
  ASSUME NEW n \in Nat, NEW s, NEW r, NEW H \in [0..n -> Byte], Horner(H, s, n, r),
         NEW j \in Nat, NEW k \in 1..n, k = j + 1
  PROVE  Stepped(H, s, r, j, k)
BY HornerStep DEF Stepped

(***************************************************************************)
(* The sum of the terms, bit by bit.                                       *)
(***************************************************************************)
Totals(S, f, n) == S[0] = {} /\ \A k \in 1..n : S[k] = SymDiff(S[k - 1], f[k])

Having(f, k, bit) == {j \in 1..k : bit \in f[j]}

OddIf(c, S, bit) == c % 2 = IF bit \in S THEN 1 ELSE 0

\* A bit of a sum is set if an odd number of the terms have it.
LEMMA Parity ==
  ASSUME NEW n \in Nat, NEW f, NEW S, Totals(S, f, n), NEW bit
  PROVE  OddIf(Cardinality(Having(f, n, bit)), S[n], bit)
<1>. DEFINE H == {k \in 0..n : IsFiniteSet(Having(f, k, bit))
                               /\ OddIf(Cardinality(Having(f, k, bit)), S[k], bit)}
<1>1. 0 \in H
  <2>1. Having(f, 0, bit) = {}
    BY DEF Having
  <2>2. IsFiniteSet({}) /\ Cardinality({}) = 0 /\ 0 % 2 = 0
    BY FS_EmptySet
  <2>3. S[0] = {}
    BY DEF Totals
  <2>4. OddIf(0, {}, bit)
    BY <2>2 DEF OddIf
  <2>5. 0 \in 0..n
    OBVIOUS
  <2>. QED  BY <2>1, <2>2, <2>3, <2>4, <2>5
<1>2. ASSUME NEW k \in 1..n, k - 1 \in H PROVE k \in H
  <2>1. PICK j \in 0..n : j = k - 1 /\ k = j + 1 /\ j \in H
    BY <1>2
  <2>2. PICK A, B : A = Having(f, j, bit) /\ B = Having(f, k, bit)
    OBVIOUS
  <2>3. B = A \cup (IF bit \in f[k] THEN {k} ELSE {}) /\ k \notin A
    <3>1. 1..k = (1..j) \cup {k} /\ k \notin 1..j
      BY <2>1
    <3>. QED  BY <2>2, <3>1 DEF Having
  <2>4. IsFiniteSet(A) /\ OddIf(Cardinality(A), S[j], bit)
    BY <2>1, <2>2
  <2>5. S[k] = SymDiff(S[j], f[k])
    BY <2>1 DEF Totals
  <2>6. PICK c \in Nat : c = Cardinality(A)
    BY <2>4, FS_CardinalityType
  <2>7. IsFiniteSet(B) /\ OddIf(Cardinality(B), S[k], bit)
    <3>1. CASE bit \in f[k]
      <4>1. B = A \cup {k}
        BY <2>3, <3>1
      <4>2. IsFiniteSet(B) /\ Cardinality(B) = c + 1
        BY <2>3, <2>4, <2>6, <4>1, FS_AddElement
      <4>3. bit \in S[k] <=> bit \notin S[j]
        BY <2>5, <3>1 DEF SymDiff
      <4>4. c % 2 = 1 => (c + 1) % 2 = 0
        OBVIOUS
      <4>5. c % 2 = 0 => (c + 1) % 2 = 1
        OBVIOUS
      <4>. QED  BY <2>4, <2>6, <4>2, <4>3, <4>4, <4>5 DEF OddIf
    <3>2. CASE bit \notin f[k]
      <4>1. B = A
        BY <2>3, <3>2
      <4>2. bit \in S[k] <=> bit \in S[j]
        BY <2>5, <3>2 DEF SymDiff
      <4>. QED  BY <2>4, <4>1, <4>2 DEF OddIf
    <3>. QED  BY <3>1, <3>2
  <2>8. k \in 0..n
    OBVIOUS
  <2>. QED  BY <2>2, <2>7, <2>8
<1>. HIDE DEF H
<1>3. n \in H
  <2>1. 0..n \subseteq H /\ n \in 0..n
    BY <1>1, <1>2, UpTo
  <2>. QED  BY <2>1
<1>. QED  BY <1>3 DEF H

EvenAt(s, n, i, bit) == Cardinality({j \in 1..n : bit \in Mul(s[j], Power(i * (n - j)))}) % 2 = 0

\* The value is the sum of the terms.
LEMMA EvenTerms ==
  ASSUME NEW n \in Nat, NEW s \in [1..n -> Byte], NEW i \in Nat, Divisible(s, n, i), NEW bit
  PROVE  EvenAt(s, n, i, bit)
<1>1. PICK r \in Byte : r = Power(i)
  BY PowerByte
<1>2. PICK H \in [0..n -> Byte] : Horner(H, s, n, r)
  BY HornerExists
<1>3. H[n] = {}
  BY <1>1, <1>2 DEF Divisible
<1>. DEFINE S == [k \in 0..n |-> Mul(H[k], Power(i * (n - k)))]
            f == [k \in 1..n |-> Mul(s[k], Power(i * (n - k)))]
<1>4. S[0] = {}
  <2>1. H[0] = {} /\ 0 \in 0..n
    BY <1>2 DEF Horner
  <2>. QED  BY <2>1 DEF Mul
<1>5. ASSUME NEW k \in 1..n PROVE S[k] = SymDiff(S[k - 1], f[k])
  <2>1. PICK j \in 0..n : j = k - 1 /\ k = j + 1
    OBVIOUS
  <2>2. H[k] = SymDiff(Mul(H[j], r), s[k]) /\ H[j] \in Byte /\ s[k] \in Byte
    BY <1>2, <2>1, HornerStep
  <2>3. PICK e \in Nat : e = i * (n - k)
    <3>1. n - k \in Nat
      OBVIOUS
    <3>. QED  BY <3>1
  <2>4. i * (n - j) = i + e
    <3>1. n - j = (n - k) + 1 /\ n - k \in Nat
      BY <2>1
    <3>. QED  BY <2>3, <3>1
  <2>5. k \in 0..n
    OBVIOUS
  <2>6. S[k] = Mul(SymDiff(Mul(H[j], r), s[k]), Power(e))
    BY <2>2, <2>3, <2>5
  <2>7. S[k - 1] = Mul(H[j], Power(i + e)) /\ f[k] = Mul(s[k], Power(e))
    BY <2>1, <2>3, <2>4
  <2>8. Mul(H[j], r) \in Byte /\ Power(e) \in Byte
    BY <2>2, Field, PowerByte
  <2>9. Mul(SymDiff(Mul(H[j], r), s[k]), Power(e))
          = SymDiff(Mul(Mul(H[j], r), Power(e)), Mul(s[k], Power(e)))
    BY <2>2, <2>8, Field
  <2>10. Mul(Mul(H[j], r), Power(e)) = Mul(H[j], Power(i + e))
    BY <1>1, <2>2, MulPowers
  <2>. QED  BY <2>6, <2>7, <2>9, <2>10
<1>6. S[n] = {}
  <2>1. n \in 0..n
    OBVIOUS
  <2>. QED  BY <1>3, <2>1 DEF Mul
<1>7. Having(f, n, bit) = {j \in 1..n : bit \in Mul(s[j], Power(i * (n - j)))}
  BY DEF Having
<1>. HIDE DEF S, f
<1>8. Totals(S, f, n)
  BY <1>4, <1>5 DEF Totals
<1>9. OddIf(Cardinality(Having(f, n, bit)), S[n], bit)
  BY <1>8, Parity
<1>. QED  BY <1>6, <1>7, <1>9 DEF OddIf, EvenAt

(***************************************************************************)
(* The generator has the roots it is made of.                              *)
(***************************************************************************)
\* A factor keeps the roots and adds its own.
LEMMA TimesRootDivisible ==
  ASSUME NEW m \in Nat \ {0}, NEW poly \in [1..m -> Byte], NEW i \in Nat, NEW k \in Nat,
         Divisible(poly, m, i) \/ i = k, NEW new, new = TimesRoot(poly, k)
  PROVE  /\ new \in [1..(m + 1) -> Byte] /\ new[1] = poly[1]
         /\ Divisible(new, m + 1, i)
<1>0. PICK M \in Nat : M = m + 1 /\ m \in Nat
  OBVIOUS
<1>1. PICK r, c \in Byte : r = Power(i) /\ c = Power(k)
  BY PowerByte
<1>2. Len(poly) = m
  OBVIOUS
<1>3. new = [j \in 1..(m + 1) |-> SymDiff(IF j <= m THEN poly[j] ELSE {},
                                          IF j > 1 THEN Mul(poly[j - 1], c) ELSE {})]
  BY <1>1, <1>2 DEF TimesRoot
<1>4. new[1] = poly[1]
  <2>1. 1 \in 1..(m + 1) /\ 1 <= m /\ ~ (1 > 1)
    OBVIOUS
  <2>2. new[1] = SymDiff(poly[1], {})
    BY <1>3, <2>1
  <2>. QED  BY <2>2, Xor
<1>5. ASSUME NEW j \in 1..m, NEW h \in 2..(m + 1), h = j + 1
      PROVE  new[h] = SymDiff(IF h <= m THEN poly[h] ELSE {}, Mul(poly[j], c))
  <2>1. h \in 1..(m + 1) /\ h > 1 /\ h - 1 = j
    BY <1>5
  <2>. QED  BY <1>3, <2>1
<1>6. new \in [1..(m + 1) -> Byte]
  <2>1. {} \in Byte
    BY DEF Byte
  <2>2. ASSUME NEW h \in 1..(m + 1)
        PROVE  /\ (IF h <= m THEN poly[h] ELSE {}) \in Byte
               /\ (IF h > 1 THEN Mul(poly[h - 1], c) ELSE {}) \in Byte
    <3>1. h <= m => h \in 1..m
      OBVIOUS
    <3>2. ASSUME h > 1 PROVE Mul(poly[h - 1], c) \in Byte
      <4>1. h - 1 \in 1..m
        BY <3>2
      <4>2. poly[h - 1] \in Byte
        BY <4>1
      <4>. QED  BY <4>2, Field
    <3>. QED  BY <2>1, <3>1, <3>2
  <2>3. \A h \in 1..(m + 1) : SymDiff(IF h <= m THEN poly[h] ELSE {},
                                      IF h > 1 THEN Mul(poly[h - 1], c) ELSE {}) \in Byte
    BY <2>2, Xor
  <2>. QED  BY <1>3, <2>3
<1>7. ASSUME NEW N \in [0..M -> Byte], Horner(N, new, M, r)
      PROVE  N[M] = {}
  <2>1. PICK H \in [0..m -> Byte] : Horner(H, poly, m, r)
    BY HornerExists
  <2>2. H[0] = {} /\ N[0] = {}
    BY <1>7, <2>1 DEF Horner
  <2>. DEFINE E == {h \in 0..m : h = 0 \/ N[h] = SymDiff(H[h], Mul(H[h - 1], c))}
  <2>3. 0 \in E
    OBVIOUS
  <2>4. ASSUME NEW h \in 1..m, h - 1 \in E PROVE h \in E
    <3>1. PICK j \in 0..m : j = h - 1 /\ h = j + 1 /\ j \in E
      BY <2>4
    <3>2. h \in 1..M /\ j \in Nat /\ h <= m /\ h \in 0..m /\ m \in Nat
      BY <1>0
    <3>3. N[h] = SymDiff(Mul(N[j], r), new[h])
      <4>1. h = j + 1
        BY <3>1
      <4>2. Stepped(N, new, r, j, h)
        BY <1>0, <1>7, <3>2, <4>1, HornerStepped
      <4>. QED  BY <4>2 DEF Stepped
    <3>4. H[h] = SymDiff(Mul(H[j], r), poly[h]) /\ H[j] \in Byte /\ H[h] \in Byte
      <4>1. h = j + 1
        BY <3>1
      <4>2. Stepped(H, poly, r, j, h)
        BY <1>0, <2>1, <3>2, <4>1, HornerStepped
      <4>. QED  BY <4>2 DEF Stepped
    <3>5. CASE j = 0
      <4>1. h = 1
        BY <3>1, <3>5
      <4>2. Mul(H[j], r) = {} /\ Mul(N[j], r) = {} /\ Mul(H[j], c) = {}
        BY <2>2, <3>5 DEF Mul
      <4>3. N[h] = new[h] /\ H[h] = poly[h] /\ new[h] = poly[h]
        BY <1>4, <3>3, <3>4, <4>1, <4>2, Xor
      <4>4. N[h] = SymDiff(H[h], Mul(H[j], c))
        BY <4>2, <4>3, Xor
      <4>. QED  BY <3>1, <3>2, <4>4
    <3>6. CASE j # 0
      <4>1. PICK k1 \in 0..m : k1 = j - 1 /\ j = k1 + 1
        BY <3>6
      <4>2. j \in 1..m /\ h \in 2..(m + 1) /\ k1 \in Nat
        BY <3>1, <3>6
      <4>3. N[j] = SymDiff(H[j], Mul(H[k1], c))
        BY <3>1, <3>6, <4>1
      <4>4. new[h] = SymDiff(poly[h], Mul(poly[j], c))
        BY <1>5, <3>1, <3>2, <4>2
      <4>5. H[j] = SymDiff(Mul(H[k1], r), poly[j]) /\ H[k1] \in Byte /\ poly[j] \in Byte
        <5>1. H[j] = SymDiff(Mul(H[k1], r), poly[j]) /\ H[k1] \in Byte
          <6>1. Stepped(H, poly, r, k1, j)
            BY <1>0, <2>1, <4>1, <4>2, HornerStepped
          <6>. QED  BY <6>1 DEF Stepped
        <5>. QED  BY <4>2, <5>1
      <4>6. PICK a, b, d \in Byte : a = H[j] /\ b = H[k1] /\ d = poly[j]
        BY <3>4, <4>5
      <4>7. PICK p \in Byte : p = poly[h]
        OBVIOUS
      <4>8. N[h] = SymDiff(Mul(SymDiff(a, Mul(b, c)), r), SymDiff(p, Mul(d, c)))
        BY <3>3, <4>3, <4>4, <4>6, <4>7
      <4>9. a = SymDiff(Mul(b, r), d) /\ H[h] = SymDiff(Mul(a, r), p)
        BY <3>4, <4>5, <4>6, <4>7
      <4>10. Mul(b, c) \in Byte /\ Mul(b, r) \in Byte /\ Mul(d, c) \in Byte /\ Mul(a, r) \in Byte
        BY Field
      <4>11. Mul(SymDiff(a, Mul(b, c)), r) = SymDiff(Mul(a, r), Mul(Mul(b, c), r))
        BY <4>10, Field
      <4>12. Mul(Mul(b, c), r) = Mul(Mul(b, r), c)
        <5>1. Mul(Mul(b, c), r) = Mul(b, Mul(c, r)) /\ Mul(Mul(b, r), c) = Mul(b, Mul(r, c))
          BY Field
        <5>2. Mul(c, r) = Mul(r, c)
          BY Field
        <5>. QED  BY <5>1, <5>2
      <4>13. Mul(a, c) = SymDiff(Mul(Mul(b, r), c), Mul(d, c))
        BY <4>9, <4>10, Field
      <4>14. N[h] = SymDiff(SymDiff(Mul(a, r), p), SymDiff(Mul(Mul(b, r), c), Mul(d, c)))
        BY <4>8, <4>11, <4>12, XorOfFour
      <4>15. N[h] = SymDiff(H[h], Mul(H[j], c))
        BY <4>6, <4>9, <4>13, <4>14
      <4>. QED  BY <3>1, <3>2, <4>15
    <3>. QED  BY <3>5, <3>6
  <2>5. m \in E
    <3>. HIDE DEF E
    <3>1. m \in Nat /\ m \in 0..m
      BY <1>0
    <3>2. \A h \in 1..m : h - 1 \in E => h \in E
      BY <2>4
    <3>3. 0..m \subseteq E
      BY <2>3, <3>1, <3>2, UpTo
    <3>. QED  BY <3>1, <3>3
  <2>6. PICK j \in Nat : j = m - 1 /\ m = j + 1
    <3>1. m - 1 \in Nat /\ m = (m - 1) + 1
      OBVIOUS
    <3>. QED  BY <3>1
  <2>7. PICK a, b \in Byte : a = H[m] /\ b = H[j]
    <3>1. m \in 0..m /\ j \in 0..m
      BY <2>6
    <3>. QED  BY <3>1
  <2>8. N[m] = SymDiff(a, Mul(b, c))
    BY <2>5, <2>6, <2>7
  <2>9. m \in 1..m /\ M \in 2..(m + 1) /\ M \in 1..M /\ ~ (M <= m)
    BY <1>0
  <2>10. a = SymDiff(Mul(b, r), poly[m]) /\ poly[m] \in Byte
    <3>1. Stepped(H, poly, r, j, m)
      BY <1>0, <2>1, <2>6, <2>9, HornerStepped
    <3>. QED  BY <2>7, <2>9, <3>1 DEF Stepped
  <2>11. N[M] = SymDiff(Mul(N[m], r), new[M])
    <3>1. m \in Nat /\ M = m + 1
      BY <1>0
    <3>2. Stepped(N, new, r, m, M)
      BY <1>0, <1>7, <2>9, <3>1, HornerStepped
    <3>. QED  BY <3>2 DEF Stepped
  <2>12. new[M] = Mul(poly[m], c)
    <3>1. new[M] = SymDiff({}, Mul(poly[m], c))
      BY <1>0, <1>5, <2>9
    <3>. QED  BY <3>1, Xor
  <2>13. PICK d \in Byte : d = poly[m]
    BY <2>10
  <2>14. Mul(b, c) \in Byte /\ Mul(b, r) \in Byte /\ Mul(d, c) \in Byte /\ Mul(a, r) \in Byte
    BY Field
  <2>15. Mul(SymDiff(a, Mul(b, c)), r) = SymDiff(Mul(a, r), Mul(Mul(b, c), r))
    BY <2>14, Field
  <2>16. Mul(Mul(b, c), r) = Mul(Mul(b, r), c)
    <3>1. Mul(Mul(b, c), r) = Mul(b, Mul(c, r)) /\ Mul(Mul(b, r), c) = Mul(b, Mul(r, c))
      BY Field
    <3>2. Mul(c, r) = Mul(r, c)
      BY Field
    <3>. QED  BY <3>1, <3>2
  <2>17. Mul(a, c) = SymDiff(Mul(Mul(b, r), c), Mul(d, c))
    BY <2>10, <2>13, <2>14, Field
  <2>18. N[M] = SymDiff(Mul(a, r), Mul(a, c))
    <3>1. N[M] = SymDiff(SymDiff(Mul(a, r), Mul(Mul(b, r), c)), Mul(d, c))
      BY <2>8, <2>11, <2>12, <2>13, <2>15, <2>16
    <3>. QED  BY <2>17, <3>1, XorOfThree
  <2>19. CASE i = k
    BY <1>1, <2>18, <2>19, Xor
  <2>20. CASE Divisible(poly, m, i)
    <3>1. a = {}
      BY <1>1, <2>1, <2>7, <2>20 DEF Divisible
    <3>. QED  BY <2>18, <3>1, Xor DEF Mul
  <2>. QED  BY <2>19, <2>20
<1>8. Divisible(new, m + 1, i)
  BY <1>0, <1>1, <1>7 DEF Divisible
<1>. QED  BY <1>4, <1>6, <1>8

\* What Generator goes through: the products of the first factors.
Firsts == {s \in Seq(Byte) : Len(s) > 0}
RootsBelow(p, n) == /\ p \in [1..(n + 1) -> Byte] /\ p[1] = {0}
                    /\ \A i \in Nat : i < n => Divisible(p, n + 1, i)

\* By induction over the factors: the product of the first n has the roots
\* x^0 to x^(n - 1), and begins with 1.
LEMMA GeneratorRoots ==
  ASSUME NEW d \in Nat
  PROVE  RootsBelow(Generator(d), d)
<1>. DEFINE next == [n \in 1..d |-> [s \in Firsts |-> TimesRoot(s, n - 1)]]
            Good(f) == f = [n \in 0..d |-> IF n = 0 THEN << {0} >> ELSE TimesRoot(f[n - 1], n - 1)]
<1>1. ASSUME NEW s \in Firsts, NEW k \in Nat PROVE TimesRoot(s, k) \in Firsts
  <2>1. PICK m \in Nat \ {0} : m = Len(s) /\ s \in [1..m -> Byte]
    BY DEF Firsts
  <2>2. TimesRoot(s, k) \in [1..(m + 1) -> Byte]
    BY <2>1, TimesRootDivisible
  <2>3. m + 1 \in Nat
    OBVIOUS
  <2>4. TimesRoot(s, k) \in Seq(Byte) /\ Len(TimesRoot(s, k)) = m + 1
    BY <2>2, <2>3
  <2>. QED  BY <2>4 DEF Firsts
<1>2. next \in [1..d -> [Firsts -> Firsts]]
  <2>1. \A n \in 1..d : n - 1 \in Nat
    OBVIOUS
  <2>. QED  BY <1>1, <2>1
<1>3. \A n \in 1..d, s \in Firsts : next[n][s] = TimesRoot(s, n - 1)
  OBVIOUS
<1>. HIDE DEF next
<1>4. << {0} >> \in Firsts
  BY UnitByte DEF Firsts
<1>5. PICK f \in [0..d -> Firsts] : Iterates(f, d, << {0} >>, next)
  BY <1>2, <1>4, Recursion
<1>6. f[0] = << {0} >>
  BY <1>5 DEF Iterates
<1>7. ASSUME NEW n \in 1..d PROVE f[n] = TimesRoot(f[n - 1], n - 1)
  <2>1. n - 1 \in 0..d
    OBVIOUS
  <2>2. f[n - 1] \in Firsts
    BY <2>1
  <2>3. f[n] = next[n][f[n - 1]]
    BY <1>5 DEF Iterates
  <2>. QED  BY <1>3, <2>2, <2>3
<1>8. Good(f)
  <2>1. \A n \in 0..d : f[n] = IF n = 0 THEN << {0} >> ELSE TimesRoot(f[n - 1], n - 1)
    <3>1. \A n \in 0..d : n = 0 \/ n \in 1..d
      OBVIOUS
    <3>. QED  BY <1>6, <1>7, <3>1
  <2>. QED  BY <2>1
<1>. DEFINE h == CHOOSE g : Good(g)
<1>9. Generator(d) = h[d]
  BY DEF Generator
<1>10. Good(h)
  BY <1>8
<1>11. \A n \in 0..d : h[n] = IF n = 0 THEN << {0} >> ELSE TimesRoot(h[n - 1], n - 1)
  BY <1>10
<1>. HIDE DEF h
<1>. DEFINE H == {n \in 0..d : RootsBelow(h[n], n)}
<1>12. 0 \in H
  <2>1. 0 \in 0..d
    OBVIOUS
  <2>2. h[0] = << {0} >>
    BY <1>11, <2>1, Zenon
  <2>3. << {0} >> \in [1..(0 + 1) -> Byte] /\ << {0} >>[1] = {0}
    <3>1. PICK u \in Byte : u = {0}
      BY UnitByte
    <3>2. << u >> \in [1..1 -> Byte] /\ << u >>[1] = u /\ 0 + 1 = 1
      OBVIOUS
    <3>. QED  BY <3>1, <3>2
  <2>4. \A i \in Nat : ~ (i < 0)
    OBVIOUS
  <2>5. RootsBelow(<< {0} >>, 0)
    BY <2>3, <2>4 DEF RootsBelow
  <2>. QED  BY <2>1, <2>2, <2>5
<1>13. ASSUME NEW n \in 1..d, n - 1 \in H PROVE n \in H
  <2>1. PICK m \in Nat : m = n - 1 /\ n = m + 1 /\ m \in 0..d
    OBVIOUS
  <2>2. PICK p : p = h[m] /\ RootsBelow(p, m)
    BY <1>13, <2>1
  <2>3. n \in 0..d /\ n # 0 /\ n \in Nat \ {0}
    OBVIOUS
  <2>4. PICK new : new = h[n] /\ new = TimesRoot(p, m)
    BY <1>11, <2>1, <2>2, <2>3
  <2>5. p \in [1..n -> Byte] /\ p[1] = {0} /\ \A i \in Nat : i < m => Divisible(p, n, i)
    BY <2>1, <2>2 DEF RootsBelow
  <2>6. ASSUME NEW i \in Nat, i < n
        PROVE  new \in [1..(n + 1) -> Byte] /\ new[1] = {0} /\ Divisible(new, n + 1, i)
    <3>1. i < m \/ i = m
      BY <2>1, <2>6
    <3>2. Divisible(p, n, i) \/ i = m
      BY <2>5, <3>1
    <3>. QED  BY <2>3, <2>4, <2>5, <3>2, TimesRootDivisible
  <2>7. m < n
    BY <2>1
  <2>8. RootsBelow(new, n)
    BY <2>6, <2>7 DEF RootsBelow
  <2>. QED  BY <2>3, <2>4, <2>8
<1>14. d \in H
  <2>. HIDE DEF H
  <2>1. 0..d \subseteq H /\ d \in 0..d
    BY <1>12, <1>13, UpTo
  <2>. QED  BY <2>1
<1>. QED  BY <1>9, <1>14

(***************************************************************************)
(* The remainder.                                                          *)
(***************************************************************************)
\* Exponents add.
LEMMA PowerProduct ==
  ASSUME NEW i \in Nat, NEW j \in Nat
  PROVE  Mul(Power(i), Power(j)) = Power(i + j)
<1>1. i + j \in Nat
  OBVIOUS
<1>2. \A k \in Nat : Power(k) \in Byte /\ Mul({0}, Power(k)) = Power(k)
  BY PowerByte, Field
<1>3. Mul(Mul({0}, Power(i)), Power(j)) = Mul({0}, Power(i + j))
  BY UnitByte, MulPowers
<1>. QED  BY <1>1, <1>2, <1>3

\* The powers of a root x^i.
LEMMA NextPower ==
  ASSUME NEW i \in Nat, NEW j \in Nat
  PROVE  Mul(Power(i * j), Power(i)) = Power(i * (j + 1)) /\ i * j \in Nat /\ i * (j + 1) \in Nat
<1>1. i * j \in Nat /\ i * (j + 1) = (i * j) + i
  OBVIOUS
<1>2. PICK e \in Nat : e = i * j
  BY <1>1
<1>3. Mul(Power(e), Power(i)) = Power(e + i)
  BY PowerProduct
<1>. QED  BY <1>1, <1>2, <1>3

\* Two sums of three, pair by pair.
LEMMA XorOfSix ==
  ASSUME NEW a, NEW b, NEW c, NEW d, NEW e, NEW f
  PROVE  SymDiff(SymDiff(SymDiff(a, b), SymDiff(c, d)), SymDiff(e, f))
           = SymDiff(SymDiff(SymDiff(a, e), b), SymDiff(SymDiff(c, f), d))
<1>1. \A x, y, z : SymDiff(SymDiff(x, y), z) = SymDiff(x, SymDiff(y, z))
  BY XorOfThree
<1>2. \A x, y : SymDiff(x, y) = SymDiff(y, x)
  BY Xor
<1>3. SymDiff(SymDiff(SymDiff(a, b), SymDiff(c, d)), SymDiff(e, f))
        = SymDiff(SymDiff(SymDiff(a, b), e), SymDiff(SymDiff(c, d), f))
  BY XorOfFour
<1>4. SymDiff(SymDiff(a, b), e) = SymDiff(SymDiff(a, e), b)
  <2>1. SymDiff(SymDiff(a, b), e) = SymDiff(a, SymDiff(b, e))
    BY <1>1
  <2>2. SymDiff(SymDiff(a, e), b) = SymDiff(a, SymDiff(e, b))
    BY <1>1
  <2>. QED  BY <1>2, <2>1, <2>2
<1>5. SymDiff(SymDiff(c, d), f) = SymDiff(SymDiff(c, f), d)
  <2>1. SymDiff(SymDiff(c, d), f) = SymDiff(c, SymDiff(d, f))
    BY <1>1
  <2>2. SymDiff(SymDiff(c, f), d) = SymDiff(c, SymDiff(f, d))
    BY <1>1
  <2>. QED  BY <1>2, <2>1, <2>2
<1>. QED  BY <1>3, <1>4, <1>5

\* Multiplication distributes from either side.
LEMMA Distributes ==
  ASSUME NEW a \in Byte, NEW b \in Byte, NEW c \in Byte
  PROVE  Mul(c, SymDiff(a, b)) = SymDiff(Mul(c, a), Mul(c, b))
<1>1. SymDiff(a, b) \in Byte
  BY Xor
<1>. QED  BY <1>1, Field

\* One step of the division, as an identity of values.
Quotient(q, x, y, z, first, f) == q = SymDiff(SymDiff(x, Mul(first, z)), Mul(f, SymDiff(y, z)))

\* It is kept by one step of Horner's rule for all three polynomials.
LEMMA DivideIdentity ==
  ASSUME NEW x \in Byte, NEW y \in Byte, NEW z \in Byte, NEW r \in Byte, NEW first \in Byte,
         NEW f \in Byte, NEW e \in Byte, NEW g \in Byte,
         NEW q, Quotient(q, x, y, z, first, f)
  PROVE  Quotient(SymDiff(Mul(q, r), SymDiff(e, Mul(g, f))),
                  SymDiff(Mul(x, r), e), SymDiff(Mul(y, r), g), Mul(z, r), first, f)
<1>1. \A a, b \in Byte : Mul(a, b) \in Byte /\ SymDiff(a, b) \in Byte
  BY Field, Xor
<1>2. \A a, b, c \in Byte : /\ Mul(SymDiff(a, b), c) = SymDiff(Mul(a, c), Mul(b, c))
                            /\ Mul(c, SymDiff(a, b)) = SymDiff(Mul(c, a), Mul(c, b))
                            /\ Mul(Mul(a, b), c) = Mul(a, Mul(b, c))
  BY Field, Distributes
<1>3. PICK A, B, C, D, F \in Byte : /\ A = Mul(x, r) /\ B = Mul(first, Mul(z, r))
                                    /\ C = Mul(f, Mul(y, r)) /\ D = Mul(f, Mul(z, r))
                                    /\ F = Mul(f, g)
  BY <1>1
<1>4. Mul(q, r) = SymDiff(SymDiff(A, B), SymDiff(C, D))
  <2>1. PICK s, t \in Byte : s = SymDiff(x, Mul(first, z)) /\ t = Mul(f, SymDiff(y, z))
    BY <1>1
  <2>2. Mul(q, r) = SymDiff(Mul(s, r), Mul(t, r))
    <3>1. q = SymDiff(s, t)
      BY <2>1 DEF Quotient
    <3>. QED  BY <1>2, <3>1
  <2>3. Mul(s, r) = SymDiff(A, B)
    <3>1. Mul(first, z) \in Byte
      BY <1>1
    <3>2. Mul(s, r) = SymDiff(Mul(x, r), Mul(Mul(first, z), r))
      BY <1>2, <2>1, <3>1
    <3>. QED  BY <1>2, <1>3, <3>2
  <2>4. Mul(t, r) = SymDiff(C, D)
    <3>1. SymDiff(y, z) \in Byte /\ Mul(y, r) \in Byte /\ Mul(z, r) \in Byte
      BY <1>1
    <3>2. Mul(t, r) = Mul(f, Mul(SymDiff(y, z), r))
      BY <1>2, <2>1, <3>1
    <3>3. Mul(SymDiff(y, z), r) = SymDiff(Mul(y, r), Mul(z, r))
      BY <1>2
    <3>4. Mul(f, SymDiff(Mul(y, r), Mul(z, r))) = SymDiff(Mul(f, Mul(y, r)), Mul(f, Mul(z, r)))
      BY <1>2, <3>1
    <3>. QED  BY <1>3, <3>2, <3>3, <3>4
  <2>. QED  BY <2>2, <2>3, <2>4
<1>5. Mul(g, f) = F
  BY <1>3, Field
<1>6. Mul(f, SymDiff(SymDiff(Mul(y, r), g), Mul(z, r))) = SymDiff(SymDiff(C, F), D)
  <2>1. Mul(y, r) \in Byte /\ Mul(z, r) \in Byte /\ SymDiff(Mul(y, r), g) \in Byte
    BY <1>1
  <2>2. Mul(f, SymDiff(SymDiff(Mul(y, r), g), Mul(z, r)))
          = SymDiff(Mul(f, SymDiff(Mul(y, r), g)), Mul(f, Mul(z, r)))
    BY <1>2, <2>1
  <2>3. Mul(f, SymDiff(Mul(y, r), g)) = SymDiff(Mul(f, Mul(y, r)), Mul(f, g))
    BY <1>2, <2>1
  <2>. QED  BY <1>3, <2>2, <2>3
<1>7. SymDiff(SymDiff(SymDiff(A, B), SymDiff(C, D)), SymDiff(e, F))
        = SymDiff(SymDiff(SymDiff(A, e), B), SymDiff(SymDiff(C, F), D))
  BY XorOfSix
<1>. QED  BY <1>3, <1>4, <1>5, <1>6, <1>7 DEF Quotient

\* What dividing on changes: the value of the remainder becomes what the one
\* before and the new byte make it.
Continues(q, p, r, byte, e) == q = SymDiff(Mul(p, r), Mul(byte, Power(e)))

\* So a step of the division takes the value p of the remainder to p times
\* the root, plus the byte times the root to the n-th.
LEMMA DivideValue ==
  ASSUME NEW n \in Nat \ {0}, NEW M \in Nat, M = n + 1,
         NEW gen \in [1..M -> Byte], gen[1] = {0}, NEW i \in Nat, Divisible(gen, M, i),
         NEW rem \in [1..n -> Byte], NEW byte \in Byte, NEW new, new = Divide(rem, byte, gen),
         NEW r \in Byte, r = Power(i),
         NEW R \in [0..n -> Byte], Horner(R, rem, n, r),
         NEW Q \in [0..n -> Byte], Horner(Q, new, n, r)
  PROVE  Continues(Q[n], R[n], r, byte, i * n)
<1>1. PICK G \in [0..M -> Byte] : Horner(G, gen, M, r)
  BY HornerExists
<1>2. G[M] = {}
  BY <1>1 DEF Divisible
<1>3. PICK first, f \in Byte : first = rem[1] /\ f = SymDiff(byte, first)
  <2>1. 1 \in 1..n
    OBVIOUS
  <2>2. rem[1] \in Byte
    BY <2>1
  <2>. QED  BY <2>2, Xor
<1>. DEFINE E(j) == IF j < n THEN rem[j + 1] ELSE {}
            X(j) == IF j < n THEN R[j + 1] ELSE Mul(R[n], r)
            Z(j) == Power(i * j)
            Claim(j) == Q[j] = SymDiff(SymDiff(X(j), Mul(first, Z(j))),
                                       Mul(f, SymDiff(G[j + 1], Z(j))))
<1>4. ASSUME NEW j \in 0..n PROVE Z(j) \in Byte
  <2>1. i * j \in Nat
    OBVIOUS
  <2>. QED  BY <2>1, PowerByte
<1>5. ASSUME NEW k \in 0..(n - 1), NEW j \in 1..n, j = k + 1
      PROVE  /\ X(k) \in Byte /\ E(j) \in Byte /\ X(j) = SymDiff(Mul(X(k), r), E(j))
             /\ G[k + 1] \in Byte /\ gen[j + 1] \in Byte
             /\ G[j + 1] = SymDiff(Mul(G[k + 1], r), gen[j + 1])
             /\ new[j] = SymDiff(E(j), Mul(gen[j + 1], f))
             /\ Q[j] = SymDiff(Mul(Q[k], r), new[j])
             /\ Z(j) = Mul(Z(k), r)
  <2>1. /\ k < n /\ k + 1 = j /\ j \in 0..n /\ j \in 1..M /\ k \in Nat /\ n \in Nat
        /\ j \in Nat /\ j + 1 \in 1..M
    BY <1>5
  <2>2. X(k) = R[j] /\ R[j] \in Byte
    BY <2>1
  <2>3. E(j) \in Byte /\ X(j) = SymDiff(Mul(R[j], r), E(j))
    <3>1. CASE j < n
      <4>1. PICK h \in 1..n : h = j + 1
        BY <2>1, <3>1
      <4>2. Stepped(R, rem, r, j, h)
        BY <2>1, <4>1, HornerStepped
      <4>3. E(j) = rem[h] /\ X(j) = R[h] /\ rem[h] \in Byte
        BY <3>1, <4>1
      <4>. QED  BY <4>2, <4>3 DEF Stepped
    <3>2. CASE ~ (j < n)
      <4>1. j = n
        BY <2>1, <3>2
      <4>2. E(j) = {} /\ X(j) = Mul(R[j], r)
        BY <3>2, <4>1
      <4>3. {} \in Byte
        BY DEF Byte
      <4>. QED  BY <4>2, <4>3, Xor
    <3>. QED  BY <3>1, <3>2
  <2>4. G[j] \in Byte /\ gen[j + 1] \in Byte /\ G[j + 1] = SymDiff(Mul(G[j], r), gen[j + 1])
    <3>1. PICK h \in 1..M : h = j + 1
      BY <2>1
    <3>2. Stepped(G, gen, r, j, h)
      BY <1>1, <2>1, <3>1, HornerStepped
    <3>3. gen[h] \in Byte
      OBVIOUS
    <3>. QED  BY <3>1, <3>2, <3>3 DEF Stepped
  <2>5. new[j] = SymDiff(E(j), Mul(gen[j + 1], f))
    <3>1. Len(rem) = n
      BY <2>1
    <3>2. new = [h \in 1..n |-> SymDiff(IF h < n THEN rem[h + 1] ELSE {},
                                       Mul(gen[h + 1], SymDiff(byte, rem[1])))]
      BY <3>1 DEF Divide
    <3>. QED  BY <1>3, <3>2
  <2>6. Q[j] = SymDiff(Mul(Q[k], r), new[j])
    <3>1. Stepped(Q, new, r, k, j)
      BY <2>1, HornerStepped
    <3>. QED  BY <3>1 DEF Stepped
  <2>7. Z(j) = Mul(Z(k), r)
    BY <2>1, NextPower
  <2>. HIDE DEF X, E, Z
  <2>. QED  BY <2>1, <2>2, <2>3, <2>4, <2>5, <2>6, <2>7
<1>6. X(0) = first /\ Z(0) = {0} /\ G[0 + 1] = {0}
  <2>1. 0 < n /\ 0 + 1 = 1 /\ 1 \in 1..n /\ 1 \in 1..M /\ 0 \in Nat /\ n \in Nat /\ i * 0 = 0
    OBVIOUS
  <2>2. Z(0) = {0}
    BY <2>1, PowerIs
  <2>3. R[0] = {} /\ G[0] = {}
    BY <1>1 DEF Horner
  <2>4. Stepped(R, rem, r, 0, 1) /\ Stepped(G, gen, r, 0, 1)
    BY <1>1, <2>1, HornerStepped
  <2>5. Mul({}, r) = {}
    BY DEF Mul
  <2>6. R[1] = first
    <3>1. R[1] = SymDiff({}, rem[1])
      BY <2>3, <2>4, <2>5 DEF Stepped
    <3>. QED  BY <1>3, <3>1, Xor
  <2>7. G[1] = {0}
    <3>1. G[1] = SymDiff({}, gen[1])
      BY <2>3, <2>4, <2>5 DEF Stepped
    <3>. QED  BY <3>1, Xor
  <2>8. X(0) = R[1]
    BY <2>1
  <2>. QED  BY <2>1, <2>2, <2>6, <2>7, <2>8
<1>. HIDE DEF X, E, Z
<1>7. Claim(0)
  <2>1. Q[0] = {}
    BY DEF Horner
  <2>2. Mul(first, {0}) = first
    BY Field, UnitByte
  <2>3. Mul(f, SymDiff({0}, {0})) = {}
    BY Xor DEF Mul
  <2>4. SymDiff(SymDiff(first, first), {}) = {}
    BY Xor
  <2>. QED  BY <1>6, <2>1, <2>2, <2>3, <2>4
<1>8. ASSUME NEW j \in 1..n, Claim(j - 1) PROVE Claim(j)
  <2>1. PICK k \in 0..(n - 1) : k = j - 1 /\ j = k + 1 /\ k \in 0..n
    OBVIOUS
  <2>2. PICK x, y, z, e, g \in Byte :
          x = X(k) /\ y = G[k + 1] /\ z = Z(k) /\ e = E(j) /\ g = gen[j + 1]
    BY <1>4, <1>5, <2>1
  <2>3. /\ X(j) = SymDiff(Mul(x, r), e) /\ G[j + 1] = SymDiff(Mul(y, r), g)
        /\ new[j] = SymDiff(e, Mul(g, f)) /\ Q[j] = SymDiff(Mul(Q[k], r), new[j])
        /\ Z(j) = Mul(z, r)
    BY <1>5, <2>1, <2>2
  <2>4. Q[k] = SymDiff(SymDiff(x, Mul(first, z)), Mul(f, SymDiff(y, z)))
    BY <1>8, <2>1, <2>2
  <2>5. Q[j] = SymDiff(Mul(Q[k], r), SymDiff(e, Mul(g, f)))
    BY <2>3
  <2>6. PICK q : q = Q[k]
    OBVIOUS
  <2>7. Quotient(q, x, y, z, first, f)
    BY <2>4, <2>6 DEF Quotient
  <2>8. Quotient(SymDiff(Mul(q, r), SymDiff(e, Mul(g, f))),
                 SymDiff(Mul(x, r), e), SymDiff(Mul(y, r), g), Mul(z, r), first, f)
    BY <2>7, DivideIdentity
  <2>. QED  BY <2>3, <2>5, <2>6, <2>8 DEF Quotient
<1>9. Claim(n)
  <2>. DEFINE H == {j \in 0..n : Claim(j)}
  <2>. HIDE DEF Claim
  <2>1. 0 \in H
    BY <1>7
  <2>2. \A j \in 1..n : j - 1 \in H => j \in H
    BY <1>8
  <2>3. n \in Nat /\ n \in 0..n
    OBVIOUS
  <2>. HIDE DEF H
  <2>4. 0..n \subseteq H
    BY <2>1, <2>2, <2>3, UpTo
  <2>. QED  BY <2>3, <2>4 DEF H
<1>10. X(n) = Mul(R[n], r)
  BY DEF X
<1>11. PICK z \in Byte : z = Z(n) /\ z = Power(i * n)
  BY <1>4 DEF Z
<1>12. Q[n] = SymDiff(SymDiff(Mul(R[n], r), Mul(first, z)), Mul(f, z))
  <2>1. SymDiff(G[n + 1], z) = z
    BY <1>2, Xor
  <2>. QED  BY <1>9, <1>10, <1>11, <2>1
<1>13. Mul(f, z) = SymDiff(Mul(byte, z), Mul(first, z))
  BY <1>3, Field
<1>14. SymDiff(SymDiff(Mul(R[n], r), Mul(first, z)), SymDiff(Mul(first, z), Mul(byte, z)))
         = SymDiff(Mul(R[n], r), Mul(byte, z))
  BY XorOfThree
<1>15. SymDiff(Mul(byte, z), Mul(first, z)) = SymDiff(Mul(first, z), Mul(byte, z))
  BY Xor
<1>. QED  BY <1>11, <1>12, <1>13, <1>14, <1>15 DEF Continues

\* The remainders on the way.
Remainders(h, data, gen, n, L) ==
  /\ h[0] = [j \in 1..n |-> {}]
  /\ \A k \in 1..L : h[k] = Divide(h[k - 1], data[k], gen)
  /\ ErrorCodewords(data, gen) = h[L]

\* Dividing leaves bytes.
LEMMA DivideByte ==
  ASSUME NEW n \in Nat \ {0}, NEW M \in Nat, M = n + 1, NEW gen \in [1..M -> Byte],
         NEW rem \in [1..n -> Byte], NEW byte \in Byte
  PROVE  Divide(rem, byte, gen) \in [1..n -> Byte]
<1>1. Len(rem) = n /\ rem[1] \in Byte
  <2>1. 1 \in 1..n
    OBVIOUS
  <2>. QED  BY <2>1
<1>2. PICK f \in Byte : f = SymDiff(byte, rem[1])
  BY <1>1, Xor
<1>3. Divide(rem, byte, gen)
        = [j \in 1..n |-> SymDiff(IF j < n THEN rem[j + 1] ELSE {}, Mul(gen[j + 1], f))]
  BY <1>1, <1>2 DEF Divide
<1>4. ASSUME NEW j \in 1..n
      PROVE  SymDiff(IF j < n THEN rem[j + 1] ELSE {}, Mul(gen[j + 1], f)) \in Byte
  <2>1. (IF j < n THEN rem[j + 1] ELSE {}) \in Byte
    <3>1. j < n => j + 1 \in 1..n
      OBVIOUS
    <3>2. {} \in Byte
      BY DEF Byte
    <3>. QED  BY <3>1, <3>2
  <2>2. j + 1 \in 1..M
    OBVIOUS
  <2>3. gen[j + 1] \in Byte
    BY <2>2
  <2>4. Mul(gen[j + 1], f) \in Byte
    BY <2>3, Field
  <2>. QED  BY <2>1, <2>4, Xor
<1>. QED  BY <1>3, <1>4

\* The remainders from one byte on.
Runs(h, rem, data, from, to, gen) ==
  /\ Remainder(rem, data, from, to, gen) = h[to]
  /\ \A k \in 0..from : h[k] = rem
  /\ \A k \in (from + 1)..to : h[k] = Divide(h[k - 1], data[k], gen)

\* The recursion of Remainder runs as written.
LEMMA RemainderRuns ==
  ASSUME NEW n \in Nat \ {0}, NEW M \in Nat, M = n + 1, NEW gen \in [1..M -> Byte],
         NEW L \in Nat, NEW data \in [1..L -> Byte], NEW from \in 0..L, NEW to \in from..L,
         NEW start \in [1..n -> Byte]
  PROVE  \E h \in [0..to -> [1..n -> Byte]] :
           Runs(h, start, data, from, to, gen)
<1>. DEFINE next == [k \in 1..to |-> [rem \in [1..n -> Byte] |->
                       IF k <= from THEN rem ELSE Divide(rem, data[k], gen)]]
            Good(f) == f = [k \in 0..to |-> IF k <= from THEN start
                                            ELSE Divide(f[k - 1], data[k], gen)]
<1>1. next \in [1..to -> [[1..n -> Byte] -> [1..n -> Byte]]]
  <2>1. ASSUME NEW k \in 1..to, NEW rem \in [1..n -> Byte]
        PROVE  Divide(rem, data[k], gen) \in [1..n -> Byte]
    <3>1. PICK byte \in Byte : byte = data[k]
      OBVIOUS
    <3>. QED  BY <3>1, DivideByte
  <2>. QED  BY <2>1
<1>2. \A k \in 1..to, rem \in [1..n -> Byte] :
        next[k][rem] = IF k <= from THEN rem ELSE Divide(rem, data[k], gen)
  OBVIOUS
<1>3. to \in Nat
  OBVIOUS
<1>. HIDE DEF next
<1>4. PICK f \in [0..to -> [1..n -> Byte]] : Iterates(f, to, start, next)
  BY <1>1, <1>3, Recursion
<1>5. f[0] = start
  BY <1>4 DEF Iterates
<1>6. ASSUME NEW k \in 1..to
      PROVE  f[k] = IF k <= from THEN f[k - 1] ELSE Divide(f[k - 1], data[k], gen)
  <2>1. k - 1 \in 0..to
    OBVIOUS
  <2>2. f[k - 1] \in [1..n -> Byte]
    BY <2>1
  <2>3. f[k] = next[k][f[k - 1]]
    BY <1>4 DEF Iterates
  <2>. QED  BY <1>2, <2>2, <2>3
<1>7. \A k \in 0..from : f[k] = start
  <2>. DEFINE E == {k \in 0..from : f[k] = start}
  <2>1. 0 \in E
    BY <1>5
  <2>2. ASSUME NEW k \in 1..from, k - 1 \in E PROVE k \in E
    <3>1. k \in 1..to /\ k <= from /\ k \in 0..from
      OBVIOUS
    <3>. QED  BY <1>6, <2>2, <3>1
  <2>. HIDE DEF E
  <2>3. from \in Nat
    OBVIOUS
  <2>4. 0..from \subseteq E
    BY <2>1, <2>2, <2>3, UpTo
  <2>. QED  BY <2>4 DEF E
<1>8. \A k \in (from + 1)..to : f[k] = Divide(f[k - 1], data[k], gen)
  <2>1. \A k \in (from + 1)..to : k \in 1..to /\ ~ (k <= from)
    OBVIOUS
  <2>. QED  BY <1>6, <2>1
<1>9. Good(f)
  <2>1. \A k \in 0..to : f[k] = IF k <= from THEN start ELSE Divide(f[k - 1], data[k], gen)
    <3>1. \A k \in 0..to : IF k <= from THEN k \in 0..from ELSE k \in (from + 1)..to
      OBVIOUS
    <3>. QED  BY <1>7, <1>8, <3>1
  <2>. QED  BY <2>1
<1>. DEFINE h == CHOOSE g : Good(g)
<1>10. Good(h)
  BY <1>9
<1>11. Remainder(start, data, from, to, gen) = h[to]
  BY DEF Remainder
<1>12. \A k \in 0..to : h[k] = IF k <= from THEN start ELSE Divide(h[k - 1], data[k], gen)
  BY <1>10
<1>. HIDE DEF h
<1>13. h[to] = f[to]
  <2>. DEFINE E == {k \in 0..to : h[k] = f[k]}
  <2>1. 0 \in E
    <3>1. 0 \in 0..to /\ 0 <= from
      OBVIOUS
    <3>2. h[0] = start
      BY <1>12, <3>1, Zenon
    <3>. QED  BY <1>5, <3>1, <3>2
  <2>2. ASSUME NEW k \in 1..to, k - 1 \in E PROVE k \in E
    <3>1. k \in 0..to
      OBVIOUS
    <3>2. h[k] = IF k <= from THEN start ELSE Divide(h[k - 1], data[k], gen)
      BY <1>12, <3>1
    <3>3. h[k - 1] = f[k - 1]
      BY <2>2
    <3>4. CASE k <= from
      <4>1. k \in 0..from
        BY <3>4
      <4>. QED  BY <1>7, <3>1, <3>2, <3>4, <4>1
    <3>5. CASE ~ (k <= from)
      <4>1. f[k] = Divide(f[k - 1], data[k], gen)
        BY <1>6, <3>5
      <4>2. h[k] = f[k]
        BY <3>2, <3>3, <3>5, <4>1
      <4>. QED  BY <3>1, <4>2
    <3>. QED  BY <3>4, <3>5
  <2>. HIDE DEF E
  <2>3. to \in 0..to
    OBVIOUS
  <2>4. to \in E
    BY <1>3, <2>1, <2>2, <2>3, UpTo
  <2>. QED  BY <2>4 DEF E
<1>14. Runs(f, start, data, from, to, gen)
  BY <1>7, <1>8, <1>11, <1>13 DEF Runs
<1>. QED  BY <1>14

\* The two halves of ErrorCodewords are one run from the first byte to the
\* last.
LEMMA RemaindersExist ==
  ASSUME NEW n \in Nat \ {0}, NEW M \in Nat, M = n + 1, NEW gen \in [1..M -> Byte],
         NEW L \in Nat, NEW data \in [1..L -> Byte]
  PROVE  \E h \in [0..L -> [1..n -> Byte]] : Remainders(h, data, gen, n, L)
<1>1. PICK half \in 0..L : half = L \div 2
  OBVIOUS
<1>2. PICK zero \in [1..n -> Byte] : zero = [j \in 1..n |-> {}]
  <2>1. {} \in Byte
    BY DEF Byte
  <2>. QED  BY <2>1
<1>4. PICK f \in [0..half -> [1..n -> Byte]] : Runs(f, zero, data, 0, half, gen)
  <2>1. 0 \in 0..L /\ half \in 0..L
    OBVIOUS
  <2>. QED  BY <2>1, RemainderRuns
<1>5. PICK mid \in [1..n -> Byte] : mid = f[half]
  <2>1. half \in 0..half
    OBVIOUS
  <2>. QED  BY <2>1
<1>6. PICK g \in [0..L -> [1..n -> Byte]] : Runs(g, mid, data, half, L, gen)
  <2>1. half \in 0..L /\ L \in half..L
    OBVIOUS
  <2>. QED  BY <2>1, RemainderRuns
<1>7. ErrorCodewords(data, gen) = g[L]
  <2>1. Len(data) = L /\ Len(gen) - 1 = n
    OBVIOUS
  <2>. DEFINE twice(z, h, l) ==
         CHOOSE rem \in {Remainder(m, data, h, l, gen) : m \in {Remainder(z, data, 0, h, gen)}} : TRUE
  <2>2. ErrorCodewords(data, gen) = twice(zero, half, L)
    <3>1. ErrorCodewords(data, gen)
            = twice([j \in 1..(Len(gen) - 1) |-> {}], Len(data) \div 2, Len(data))
      BY DEF ErrorCodewords
    <3>2. half = Len(data) \div 2 /\ zero = [j \in 1..(Len(gen) - 1) |-> {}]
      BY <1>1, <1>2, <2>1
    <3>. HIDE DEF twice
    <3>. QED  BY <2>1, <3>1, <3>2
  <2>3. ErrorCodewords(data, gen) = CHOOSE rem \in {g[L]} : TRUE
    <3>1. {Remainder(m, data, half, L, gen) : m \in {Remainder(zero, data, 0, half, gen)}} = {g[L]}
      BY <1>4, <1>5, <1>6 DEF Runs
    <3>. QED  BY <2>2, <3>1
  <2>. QED  BY <2>3
<1>. DEFINE h == [k \in 0..L |-> IF k <= half THEN f[k] ELSE g[k]]
<1>8. h \in [0..L -> [1..n -> Byte]]
  <2>1. \A k \in 0..L : k <= half => k \in 0..half
    OBVIOUS
  <2>. QED  BY <2>1
<1>9. h[0] = zero
  <2>1. 0 \in 0..0 /\ 0 <= half
    OBVIOUS
  <2>. QED  BY <1>4, <2>1 DEF Runs
<1>10. ASSUME NEW k \in 1..L PROVE h[k] = Divide(h[k - 1], data[k], gen)
  <2>1. CASE k <= half
    <3>1. k \in (0 + 1)..half /\ k - 1 <= half /\ k - 1 \in 0..L
      BY <2>1
    <3>2. f[k] = Divide(f[k - 1], data[k], gen)
      BY <1>4, <3>1 DEF Runs
    <3>. QED  BY <2>1, <3>1, <3>2
  <2>2. CASE ~ (k <= half)
    <3>1. k \in (half + 1)..L /\ k - 1 \in 0..L /\ (k - 1 <= half => k - 1 = half) /\ half \in 0..half
      BY <2>2
    <3>2. g[k] = Divide(g[k - 1], data[k], gen) /\ g[half] = f[half]
      BY <1>5, <1>6, <3>1 DEF Runs
    <3>3. h[k - 1] = g[k - 1]
      BY <3>1, <3>2
    <3>. QED  BY <2>2, <3>2, <3>3
  <2>. QED  BY <2>1, <2>2
<1>11. h[L] = g[L]
  <2>1. L \in 0..L /\ (L <= half => L = half) /\ half \in 0..half
    OBVIOUS
  <2>2. g[half] = f[half]
    BY <1>5, <1>6, <2>1 DEF Runs
  <2>. QED  BY <2>1, <2>2
<1>. HIDE DEF h
<1>12. Remainders(h, data, gen, n, L)
  BY <1>2, <1>7, <1>9, <1>10, <1>11 DEF Remainders
<1>. QED  BY <1>8, <1>12

\* The value of the remainder is the value of the data, shifted by the length
\* of the remainder.
LEMMA ZeroValue ==
  ASSUME NEW n \in Nat, NEW s, s = [j \in 1..n |-> {}], NEW r \in Byte,
         NEW Q \in [0..n -> Byte], Horner(Q, s, n, r)
  PROVE  Q[n] = {}
<1>. DEFINE H == {j \in 0..n : Q[j] = {}}
<1>1. 0 \in H
  <2>1. 0 \in 0..n
    OBVIOUS
  <2>. QED  BY <2>1 DEF Horner
<1>2. ASSUME NEW j \in 1..n, j - 1 \in H PROVE j \in H
  <2>1. Q[j] = SymDiff(Mul(Q[j - 1], r), s[j]) /\ Q[j - 1] = {} /\ s[j] = {}
    BY <1>2 DEF Horner
  <2>2. Mul({}, r) = {}
    BY DEF Mul
  <2>3. Q[j] = {}
    BY <2>1, <2>2, Xor
  <2>4. j \in 0..n
    OBVIOUS
  <2>. QED  BY <2>3, <2>4
<1>. HIDE DEF H
<1>3. n \in H
  <2>1. n \in 0..n
    OBVIOUS
  <2>2. \A j \in 1..n : j - 1 \in H => j \in H
    BY <1>2
  <2>3. 0..n \subseteq H
    BY <1>1, <2>2, UpTo
  <2>. QED  BY <2>1, <2>3
<1>. QED  BY <1>3 DEF H

\* One step of the data, as an identity of values.
LEMMA DataIdentity ==
  ASSUME NEW d \in Byte, NEW r \in Byte, NEW z \in Byte, NEW byte \in Byte
  PROVE  Mul(SymDiff(Mul(d, r), byte), z) = SymDiff(Mul(Mul(d, z), r), Mul(byte, z))
<1>1. Mul(d, r) \in Byte
  BY Field
<1>2. Mul(SymDiff(Mul(d, r), byte), z) = SymDiff(Mul(Mul(d, r), z), Mul(byte, z))
  BY <1>1, Field
<1>3. Mul(Mul(d, r), z) = Mul(Mul(d, z), r)
  <2>1. Mul(Mul(d, r), z) = Mul(d, Mul(r, z)) /\ Mul(Mul(d, z), r) = Mul(d, Mul(z, r))
    BY Field
  <2>2. Mul(r, z) = Mul(z, r)
    BY Field
  <2>. QED  BY <2>1, <2>2
<1>. QED  BY <1>2, <1>3

Carries(q, p, e) == q = Mul(p, Power(e))

\* So the value of the error codewords is that of the data times the root to
\* the n-th.
LEMMA ErrorValue ==
  ASSUME NEW n \in Nat \ {0}, NEW M \in Nat, M = n + 1,
         NEW gen \in [1..M -> Byte], gen[1] = {0}, NEW i \in Nat, Divisible(gen, M, i),
         NEW L \in Nat, NEW data \in [1..L -> Byte],
         NEW r \in Byte, r = Power(i),
         NEW D \in [0..L -> Byte], Horner(D, data, L, r),
         NEW err, err = ErrorCodewords(data, gen),
         NEW Q \in [0..n -> Byte], Horner(Q, err, n, r)
  PROVE  Carries(Q[n], D[L], i * n)
<1>1. PICK h \in [0..L -> [1..n -> Byte]] : Remainders(h, data, gen, n, L)
  BY RemaindersExist
<1>2. PICK z \in Byte : z = Power(i * n)
  <2>1. i * n \in Nat
    OBVIOUS
  <2>. QED  BY <2>1, PowerByte
<1>. DEFINE Claim(k) == \A P \in [0..n -> Byte] : Horner(P, h[k], n, r) => P[n] = Mul(D[k], z)
            H == {k \in 0..L : Claim(k)}
<1>3. 0 \in H
  <2>1. D[0] = {} /\ Mul({}, z) = {}
    BY DEF Horner, Mul
  <2>2. h[0] = [j \in 1..n |-> {}]
    BY <1>1 DEF Remainders
  <2>3. n \in Nat
    OBVIOUS
  <2>4. ASSUME NEW P \in [0..n -> Byte], Horner(P, h[0], n, r) PROVE P[n] = {}
    BY <2>2, <2>3, <2>4, ZeroValue
  <2>5. 0 \in 0..L
    OBVIOUS
  <2>. QED  BY <2>1, <2>4, <2>5
<1>4. ASSUME NEW k \in 1..L, k - 1 \in H PROVE k \in H
  <2>1. PICK j \in 0..L : j = k - 1 /\ k = j + 1 /\ j \in Nat
    OBVIOUS
  <2>2. Claim(j)
    BY <1>4, <2>1
  <2>3. PICK rem \in [1..n -> Byte] : rem = h[j]
    OBVIOUS
  <2>4. PICK byte \in Byte : byte = data[k]
    OBVIOUS
  <2>5. PICK new : new = h[k] /\ new = Divide(rem, byte, gen)
    BY <1>1, <2>1, <2>3, <2>4 DEF Remainders
  <2>6. n \in Nat
    OBVIOUS
  <2>7. PICK R \in [0..n -> Byte] : Horner(R, rem, n, r)
    BY <2>6, HornerExists
  <2>8. PICK d \in Byte : d = D[j]
    OBVIOUS
  <2>9. R[n] = Mul(d, z)
    BY <2>2, <2>3, <2>7, <2>8
  <2>10. D[k] = SymDiff(Mul(d, r), byte)
    <3>1. Stepped(D, data, r, j, k)
      BY <2>1, HornerStepped
    <3>. QED  BY <2>4, <2>8, <3>1 DEF Stepped
  <2>11. Mul(D[k], z) = SymDiff(Mul(R[n], r), Mul(byte, z))
    BY <2>9, <2>10, DataIdentity
  <2>12. ASSUME NEW P \in [0..n -> Byte], Horner(P, new, n, r)
         PROVE  P[n] = SymDiff(Mul(R[n], r), Mul(byte, z))
    <3>1. new = Divide(rem, byte, gen)
      BY <2>5
    <3>. HIDE DEF Claim, H
    <3>2. Continues(P[n], R[n], r, byte, i * n)
      BY <2>7, <2>12, <3>1, DivideValue
    <3>. QED  BY <1>2, <3>2 DEF Continues
  <2>13. Claim(k)
    BY <2>5, <2>11, <2>12
  <2>14. k \in 0..L
    OBVIOUS
  <2>. QED  BY <2>13, <2>14
<1>5. Claim(L)
  <2>. HIDE DEF Claim
  <2>1. \A k \in 1..L : k - 1 \in H => k \in H
    BY <1>4
  <2>. HIDE DEF H
  <2>2. L \in 0..L
    OBVIOUS
  <2>3. 0..L \subseteq H
    BY <1>3, <2>1, UpTo
  <2>. QED  BY <2>2, <2>3 DEF H
<1>6. err = h[L]
  BY <1>1 DEF Remainders
<1>. QED  BY <1>2, <1>5, <1>6 DEF Carries

\* The data followed by the remainder of their division by the generator have
\* the roots of the generator.
Joined(b, data, err, L, n) == /\ \A k \in 1..L : b[k] = data[k]
                              /\ \A j \in 1..n : b[L + j] = err[j]

\* Error codewords are bytes.
LEMMA ErrorBytes ==
  ASSUME NEW n \in Nat \ {0}, NEW M \in Nat, M = n + 1, NEW gen \in [1..M -> Byte],
         NEW L \in Nat, NEW data \in [1..L -> Byte]
  PROVE  ErrorCodewords(data, gen) \in [1..n -> Byte]
<1>1. PICK h \in [0..L -> [1..n -> Byte]] : Remainders(h, data, gen, n, L)
  BY RemaindersExist
<1>2. L \in 0..L
  OBVIOUS
<1>. QED  BY <1>1, <1>2 DEF Remainders

\* A block, data and then error codewords, has value 0 at every root.
LEMMA BlockDivisible ==
  ASSUME NEW n \in Nat \ {0}, NEW L \in Nat, NEW data \in [1..L -> Byte],
         NEW i \in Nat, i < n, NEW T \in Nat, T = L + n, NEW b \in [1..T -> Byte],
         Joined(b, data, ErrorCodewords(data, Generator(n)), L, n)
  PROVE  Divisible(b, T, i)
<1>1. PICK M \in Nat : M = n + 1 /\ n \in Nat
  OBVIOUS
<1>2. PICK gen : gen = Generator(n) /\ RootsBelow(gen, n)
  BY <1>1, GeneratorRoots
<1>3. gen \in [1..M -> Byte] /\ gen[1] = {0} /\ Divisible(gen, M, i)
  BY <1>1, <1>2 DEF RootsBelow
<1>4. PICK err \in [1..n -> Byte] : err = ErrorCodewords(data, gen)
  BY <1>1, <1>3, ErrorBytes
<1>5. Joined(b, data, err, L, n)
  BY <1>2, <1>4
<1>6. PICK r \in Byte : r = Power(i)
  BY PowerByte
<1>7. PICK D \in [0..L -> Byte] : Horner(D, data, L, r)
  BY HornerExists
<1>8. PICK Q \in [0..n -> Byte] : Horner(Q, err, n, r)
  BY <1>1, HornerExists
<1>9. PICK d \in Byte : d = D[L]
  <2>1. L \in 0..L
    OBVIOUS
  <2>. QED  BY <2>1
<1>10. Q[n] = Mul(d, Power(i * n))
  <2>1. Carries(Q[n], D[L], i * n)
    BY <1>1, <1>3, <1>4, <1>6, <1>7, <1>8, ErrorValue
  <2>. QED  BY <1>9, <2>1 DEF Carries
<1>11. ASSUME NEW W \in [0..T -> Byte], Horner(W, b, T, r)
       PROVE  W[T] = {}
  <2>1. W[L] = d
    <3>. DEFINE E == {k \in 0..L : W[k] = D[k]}
    <3>1. 0 \in E
      <4>1. 0 \in 0..L
        OBVIOUS
      <4>. QED  BY <1>7, <1>11, <4>1 DEF Horner
    <3>2. ASSUME NEW k \in 1..L, k - 1 \in E PROVE k \in E
      <4>1. PICK j \in 0..L : j = k - 1 /\ k = j + 1 /\ j \in Nat
        OBVIOUS
      <4>2. k \in 1..T /\ k \in 0..L /\ k = j + 1
        BY <4>1
      <4>3. Stepped(W, b, r, j, k)
        BY <1>11, <4>1, <4>2, HornerStepped
      <4>4. Stepped(D, data, r, j, k)
        BY <1>7, <4>1, <4>2, HornerStepped
      <4>5. b[k] = data[k] /\ W[j] = D[j]
        BY <1>5, <3>2, <4>1 DEF Joined
      <4>6. W[k] = D[k]
        BY <4>3, <4>4, <4>5 DEF Stepped
      <4>. QED  BY <4>2, <4>6
    <3>. HIDE DEF E
    <3>3. L \in 0..L
      OBVIOUS
    <3>4. 0..L \subseteq E
      BY <3>1, <3>2, UpTo
    <3>5. L \in E
      BY <3>3, <3>4
    <3>. QED  BY <1>9, <3>5 DEF E
  <2>. DEFINE Claim(j) == W[L + j] = SymDiff(Mul(d, Power(i * j)), Q[j])
  <2>2. Claim(0)
    <3>1. L + 0 = L /\ i * 0 = 0 /\ 0 \in Nat
      OBVIOUS
    <3>2. Mul(d, Power(0)) = d
      BY <3>1, MulPower
    <3>3. Q[0] = {}
      BY <1>8 DEF Horner
    <3>4. SymDiff(d, {}) = d
      BY Xor
    <3>. QED  BY <2>1, <3>1, <3>2, <3>3, <3>4
  <2>3. ASSUME NEW j \in 1..n, Claim(j - 1) PROVE Claim(j)
    <3>1. PICK k \in 0..n : k = j - 1 /\ j = k + 1 /\ k \in Nat
      OBVIOUS
    <3>2. PICK p \in Nat, q \in 1..T : p = L + k /\ q = L + j /\ q = p + 1
      <4>1. L + k \in Nat /\ L + j \in 1..T /\ L + j = (L + k) + 1
        BY <3>1
      <4>. QED  BY <4>1
    <3>3. Stepped(W, b, r, p, q)
      BY <1>11, <3>2, HornerStepped
    <3>4. Stepped(Q, err, r, k, j)
      <4>1. j = k + 1
        BY <3>1
      <4>. QED  BY <1>1, <1>8, <3>1, <4>1, HornerStepped
    <3>5. b[q] = err[j]
      BY <1>5, <3>2 DEF Joined
    <3>6. W[p] = SymDiff(Mul(d, Power(i * k)), Q[k])
      BY <2>3, <3>1, <3>2
    <3>7. PICK e \in Nat : e = i * k /\ i * j = e + i
      <4>1. i * k \in Nat /\ i * (k + 1) = (i * k) + i
        BY <3>1
      <4>. QED  BY <3>1, <4>1
    <3>8. PICK v \in Byte : v = Mul(d, Power(e))
      BY <3>7, MulPower
    <3>9. Mul(v, r) = Mul(d, Power(i * j))
      <4>1. Mul(Mul(d, Power(e)), Power(i)) = Mul(d, Power(e + i))
        BY <3>7, MulPowers
      <4>. QED  BY <1>6, <3>7, <3>8, <4>1
    <3>10. PICK y \in Byte : y = Q[k]
      BY <3>1
    <3>11. Mul(SymDiff(v, y), r) = SymDiff(Mul(v, r), Mul(y, r))
      BY Field
    <3>12. W[q] = SymDiff(Mul(SymDiff(v, y), r), b[q])
      BY <3>3, <3>6, <3>7, <3>8, <3>10 DEF Stepped
    <3>13. Q[j] = SymDiff(Mul(y, r), err[j])
      BY <3>4, <3>10 DEF Stepped
    <3>14. W[q] = SymDiff(Mul(v, r), SymDiff(Mul(y, r), err[j]))
      BY <3>5, <3>11, <3>12, XorOfThree
    <3>. QED  BY <3>2, <3>9, <3>13, <3>14
  <2>4. Claim(n)
    <3>. DEFINE H == {j \in 0..n : Claim(j)}
    <3>. HIDE DEF Claim
    <3>1. 0 \in H
      BY <2>2
    <3>2. \A j \in 1..n : j - 1 \in H => j \in H
      BY <2>3
    <3>3. n \in 0..n
      BY <1>1
    <3>. HIDE DEF H
    <3>4. 0..n \subseteq H
      BY <1>1, <3>1, <3>2, UpTo
    <3>. QED  BY <3>3, <3>4 DEF H
  <2>5. W[T] = SymDiff(Q[n], Q[n])
    BY <1>10, <2>4
  <2>. QED  BY <2>5, Xor
<1>. QED  BY <1>6, <1>11 DEF Divisible

(***************************************************************************)
(* From the payload to the codewords.                                      *)
(***************************************************************************)
Concatenates(b, s, t, m, n, T, S) == /\ b \in [1..T -> S] /\ Len(b) = T
                                     /\ \A k \in 1..m : b[k] = s[k]
                                     /\ \A k \in 1..n : b[m + k] = t[k]

\* First the one, then the other.
LEMMA Concatenation ==
  ASSUME NEW S, NEW m \in Nat, NEW n \in Nat, NEW T \in Nat, T = m + n,
         NEW s \in [1..m -> S], NEW t \in [1..n -> S]
  PROVE  Concatenates(s \o t, s, t, m, n, T, S)
<1>1. s \in Seq(S) /\ t \in Seq(S) /\ Len(s) = m /\ Len(t) = n
  OBVIOUS
<1>2. /\ s \o t \in Seq(S) /\ Len(s \o t) = m + n
      /\ \A i \in 1..Len(s) + Len(t) : (s \o t)[i] = IF i <= Len(s) THEN s[i] ELSE t[i - Len(s)]
  BY <1>1, ConcatProperties
<1>3. PICK b : b = s \o t
  OBVIOUS
<1>4. b \in [1..T -> S] /\ Len(b) = T
  <2>1. b \in Seq(S) /\ Len(b) = T
    BY <1>1, <1>2, <1>3
  <2>. QED  BY <2>1, LenProperties
<1>5. ASSUME NEW k \in 1..m PROVE b[k] = s[k]
  <2>1. k \in 1..(Len(s) + Len(t)) /\ k <= Len(s)
    BY <1>1
  <2>. QED  BY <1>2, <1>3, <2>1
<1>6. ASSUME NEW k \in 1..n PROVE b[m + k] = t[k]
  <2>1. PICK h : h = m + k
    OBVIOUS
  <2>2. h \in 1..(Len(s) + Len(t)) /\ ~ (h <= Len(s)) /\ h - Len(s) = k
    BY <1>1, <2>1
  <2>3. b[h] = t[h - Len(s)]
    BY <1>2, <1>3, <2>2
  <2>. QED  BY <2>1, <2>2, <2>3
<1>. QED  BY <1>3, <1>4, <1>5, <1>6 DEF Concatenates

\* The length takes some bits.
LEMMA CountBitsNat == \A v \in 1..10 : CountBits(v) \in Nat
BY DEF CountBits

\* Mode, length and text.
Headed(bits, bytes, l, c) ==
  /\ bits[1] = FALSE /\ bits[2] = TRUE /\ bits[3] = FALSE /\ bits[4] = FALSE
  /\ \A i \in 1..c : bits[4 + i] = ((c - i) \in BitsIn(l))
  /\ \A i \in 1..(8 * l) : bits[(4 + c) + i] = Stream(bytes)[i]

\* These are the bits a payload begins as.
LEMMA BitsAre ==
  ASSUME NEW v \in 1..10, NEW bytes \in Seq(Byte), NEW l \in Nat, l = Len(bytes),
         NEW n \in Nat, n = 4 + CountBits(v) + 8 * l
  PROVE  /\ Bits(bytes, v) \in [1..n -> BOOLEAN] /\ Len(Bits(bytes, v)) = n
         /\ Headed(Bits(bytes, v), bytes, l, CountBits(v))
<1>1. PICK c \in Nat : c = CountBits(v)
  BY CountBitsNat
<1>2. PICK f \in [1..4 -> BOOLEAN] : f = <<FALSE, TRUE, FALSE, FALSE>>
  <2>. DEFINE g == <<FALSE, TRUE, FALSE, FALSE>>
  <2>1. g \in Seq(BOOLEAN) /\ Len(g) = 4
    OBVIOUS
  <2>. HIDE DEF g
  <2>2. g \in [1..4 -> BOOLEAN]
    BY <2>1, LenProperties
  <2>. QED  BY <2>2, Zenon DEF g
<1>3. PICK g \in [1..c -> BOOLEAN] : g = BitList(BitsIn(l), c)
  <2>1. \A k \in 1..c : ((c - k) \in BitsIn(l)) \in BOOLEAN
    OBVIOUS
  <2>2. BitList(BitsIn(l), c) \in [1..c -> BOOLEAN]
    BY <2>1, Zenon DEF BitList
  <2>. QED  BY <2>2
<1>4. PICK h \in [1..(8 * l) -> BOOLEAN] : h = Stream(bytes)
  <2>1. \A i \in 1..(8 * Len(bytes)) : ((7 - ((i - 1) % 8)) \in bytes[((i - 1) \div 8) + 1]) \in BOOLEAN
    OBVIOUS
  <2>2. Stream(bytes) \in [1..(8 * Len(bytes)) -> BOOLEAN]
    BY <2>1, Zenon DEF Stream
  <2>. QED  BY <2>2
<1>5. PICK m, k \in Nat : m = 4 + c /\ k = 8 * l /\ 4 \in Nat /\ n = m + k
  <2>1. 4 + c \in Nat /\ 8 * l \in Nat /\ 4 \in Nat /\ n = (4 + c) + (8 * l)
    BY <1>1
  <2>. QED  BY <2>1
<1>6. PICK fg \in [1..m -> BOOLEAN] : fg = f \o g /\ Concatenates(fg, f, g, 4, c, m, BOOLEAN)
  <2>1. Concatenates(f \o g, f, g, 4, c, m, BOOLEAN)
    BY <1>5, Concatenation
  <2>. QED  BY <2>1 DEF Concatenates
<1>7. Concatenates(fg \o h, fg, h, m, k, n, BOOLEAN)
  <2>1. h \in [1..k -> BOOLEAN]
    BY <1>5
  <2>. QED  BY <1>5, <2>1, Concatenation
<1>8. Bits(bytes, v) = fg \o h
  BY <1>1, <1>2, <1>3, <1>4, <1>6 DEF Bits
<1>9. PICK b : b = fg \o h
  OBVIOUS
<1>10. /\ \A i \in 1..m : b[i] = fg[i]
       /\ \A i \in 1..k : b[m + i] = h[i]
  BY <1>7, <1>9 DEF Concatenates
<1>11. b[1] = FALSE /\ b[2] = TRUE /\ b[3] = FALSE /\ b[4] = FALSE
  <2>1. \A i \in 1..4 : i \in 1..m
    BY <1>5
  <2>2. \A i \in 1..4 : b[i] = f[i]
    BY <1>6, <1>10, <2>1 DEF Concatenates
  <2>3. 1 \in 1..4 /\ 2 \in 1..4 /\ 3 \in 1..4 /\ 4 \in 1..4
    OBVIOUS
  <2>4. f[1] = FALSE /\ f[2] = TRUE /\ f[3] = FALSE /\ f[4] = FALSE
    BY <1>2
  <2>. QED  BY <2>2, <2>3, <2>4
<1>12. ASSUME NEW i \in 1..c PROVE b[4 + i] = ((c - i) \in BitsIn(l))
  <2>1. 4 + i \in 1..m
    BY <1>5
  <2>2. fg[4 + i] = g[i]
    BY <1>6 DEF Concatenates
  <2>3. g[i] = ((c - i) \in BitsIn(l))
    BY <1>3, Zenon DEF BitList
  <2>. QED  BY <1>10, <2>1, <2>2, <2>3
<1>13. \A i \in 1..(8 * l) : b[(4 + c) + i] = Stream(bytes)[i]
  BY <1>4, <1>5, <1>10
<1>14. Headed(b, bytes, l, c)
  BY <1>11, <1>12, <1>13 DEF Headed
<1>. QED  BY <1>1, <1>7, <1>8, <1>9, <1>14 DEF Concatenates

\* Bits followed by zeros.
LEMMA ZerosAppended ==
  ASSUME NEW n \in Nat, NEW bits \in [1..n -> BOOLEAN], NEW k \in Nat, NEW T \in Nat, T = n + k
  PROVE  Concatenates(bits \o [i \in 1..k |-> FALSE], bits, [i \in 1..k |-> FALSE], n, k, T, BOOLEAN)
<1>1. [i \in 1..k |-> FALSE] \in [1..k -> BOOLEAN]
  OBVIOUS
<1>. QED  BY <1>1, Concatenation

\* The smaller of two numbers.
LEMMA LeastOfTwo ==
  ASSUME NEW a \in Int, NEW b \in Int
  PROVE  Min({a, b}) = IF a <= b THEN a ELSE b
<1>. DEFINE c == CHOOSE x \in {a, b} : \A y \in {a, b} : x <= y
<1>1. PICK m : m = IF a <= b THEN a ELSE b
  OBVIOUS
<1>2. m \in {a, b} /\ \A y \in {a, b} : m <= y
  BY <1>1
<1>3. c \in {a, b} /\ \A y \in {a, b} : c <= y
  BY <1>2
<1>4. Min({a, b}) = c
  BY DEF Min
<1>. HIDE DEF c
<1>5. c = a \/ c = b
  BY <1>3
<1>6. c <= a /\ c <= b
  BY <1>3
<1>7. c = m
  BY <1>1, <1>5, <1>6
<1>. QED  BY <1>1, <1>4, <1>7

\* The longer one begins with these bits.
Begins(longer, bits, n) == \A k \in 1..n : longer[k] = bits[k]

\* Terminator and alignment fill whole bytes, no more than the version holds.
LEMMA WholeBytes ==
  ASSUME NEW v \in 1..10, NEW D \in Nat, D = DataLength(v),
         NEW n \in Nat, n <= 8 * D, NEW bits \in [1..n -> BOOLEAN]
  PROVE  \E w \in 0..D : /\ n <= 8 * w
                         /\ Aligned(Terminated(bits, v)) \in [1..(8 * w) -> BOOLEAN]
                         /\ Begins(Aligned(Terminated(bits, v)), bits, n)
<1>1. Len(bits) = n
  OBVIOUS
<1>2. PICK k \in Nat, m \in Nat : k = Min({4, 8 * D - n}) /\ m = n + k /\ m <= 8 * D
  <2>1. 4 \in Int /\ 8 * D - n \in Nat
    OBVIOUS
  <2>2. PICK x \in Nat : x = 8 * D - n
    BY <2>1
  <2>3. Min({4, x}) = IF 4 <= x THEN 4 ELSE x
    BY <2>1, <2>2, LeastOfTwo
  <2>4. PICK k : k = Min({4, x})
    OBVIOUS
  <2>5. k \in Nat /\ n + k \in Nat /\ n + k <= 8 * D
    BY <2>2, <2>3, <2>4
  <2>. QED  BY <2>2, <2>4, <2>5
<1>3. PICK ended \in [1..m -> BOOLEAN] :
        ended = Terminated(bits, v) /\ Len(ended) = m /\ Begins(ended, bits, n)
  <2>1. Concatenates(bits \o [i \in 1..k |-> FALSE], bits, [i \in 1..k |-> FALSE], n, k, m, BOOLEAN)
    BY <1>2, ZerosAppended
  <2>2. Terminated(bits, v) = bits \o [i \in 1..k |-> FALSE]
    BY <1>1, <1>2 DEF Terminated
  <2>. QED  BY <2>1, <2>2 DEF Concatenates, Begins
<1>4. PICK r \in Nat, w \in 0..D : r = (8 - (m % 8)) % 8 /\ 8 * w = m + r
  <2>0. m \in Nat /\ m <= 8 * D
    BY <1>2
  <2>1. PICK q \in Nat, s \in 0..7 : m = 8 * q + s /\ s = m % 8
    <3>1. m \div 8 \in Nat /\ m % 8 \in 0..7 /\ m = 8 * (m \div 8) + (m % 8)
      OBVIOUS
    <3>. QED  BY <3>1
  <2>2. CASE s = 0
    <3>1. (8 - s) % 8 = 0 /\ q \in 0..D /\ 8 * q = m + 0
      BY <2>0, <2>1, <2>2
    <3>. QED  BY <2>1, <3>1
  <2>3. CASE s # 0
    <3>1. (8 - s) % 8 = 8 - s /\ 8 - s \in Nat
      BY <2>3
    <3>2. q + 1 \in 0..D /\ 8 * (q + 1) = m + (8 - s)
      BY <2>0, <2>1, <2>3
    <3>. QED  BY <2>1, <3>1, <3>2
  <2>. QED  BY <2>2, <2>3
<1>5. PICK T \in Nat : T = 8 * w /\ T = m + r
  BY <1>4
<1>6. Concatenates(ended \o [i \in 1..r |-> FALSE], ended, [i \in 1..r |-> FALSE], m, r, T, BOOLEAN)
  BY <1>5, ZerosAppended
<1>7. Aligned(ended) = ended \o [i \in 1..r |-> FALSE]
  BY <1>3, <1>4 DEF Aligned
<1>8. Aligned(ended) \in [1..T -> BOOLEAN] /\ Begins(Aligned(ended), ended, m)
  BY <1>6, <1>7 DEF Concatenates, Begins
<1>9. Begins(Aligned(ended), bits, n)
  <2>1. \A i \in 1..n : i \in 1..m
    BY <1>2
  <2>. QED  BY <1>3, <1>8, <2>1 DEF Begins
<1>10. n <= 8 * w
  <2>1. n <= m
    BY <1>2
  <2>2. m <= T
    BY <1>5
  <2>. QED  BY <1>5, <2>1, <2>2
<1>. QED  BY <1>3, <1>5, <1>8, <1>9, <1>10

\* Bits of whole bytes, as bytes.
LEMMA BytesAre ==
  ASSUME NEW w \in Nat, NEW bits \in [1..(8 * w) -> BOOLEAN]
  PROVE  Bytes(bits) = [j \in 1..w |-> {k \in 0..7 : bits[8 * j - k]}] /\ Bytes(bits) \in [1..w -> Byte]
<1>1. Len(bits) \div 8 = w
  <2>1. PICK n \in Nat : n = 8 * w
    OBVIOUS
  <2>2. Len(bits) = n
    BY <2>1
  <2>3. n \div 8 = w
    BY <2>1
  <2>. QED  BY <2>2, <2>3
<1>2. Bytes(bits) = [j \in 1..w |-> {k \in 0..7 : bits[8 * j - k]}]
  BY <1>1 DEF Bytes
<1>3. \A j \in 1..w : {k \in 0..7 : bits[8 * j - k]} \in Byte
  BY DEF Byte
<1>. QED  BY <1>2, <1>3

\* The data codewords of a version: n bits, whole bytes, padding.
Packed(data, first, n, D) ==
  \E w \in 0..D : \E bits \in [1..(8 * w) -> BOOLEAN] :
    n <= 8 * w /\ Begins(bits, first, n) /\ Begins(data, Bytes(bits), w)

\* The data codewords fill the version and pack the bits of the payload.
LEMMA DataAre ==
  ASSUME NEW v \in 1..10, NEW D \in Nat, D = DataLength(v),
         NEW bytes \in Seq(Byte), NEW l \in Nat, l = Len(bytes), Fits(l, v)
  PROVE  /\ DataCodewords(bytes, v) \in [1..D -> Byte]
         /\ Packed(DataCodewords(bytes, v), Bits(bytes, v), 4 + CountBits(v) + 8 * l, D)
         /\ Headed(Bits(bytes, v), bytes, l, CountBits(v))
<1>1. PICK c \in Nat : c = CountBits(v)
  BY CountBitsNat
<1>2. PICK n \in Nat : n = 4 + c + 8 * l /\ n <= 8 * D
  <2>1. l <= (D * 8 - 4 - c) \div 8
    BY <1>1 DEF Fits
  <2>2. PICK e \in Int : e = D * 8 - 4 - c
    OBVIOUS
  <2>3. PICK q \in Int, r \in 0..7 : q = e \div 8 /\ e = 8 * q + r
    <3>1. e \div 8 \in Int /\ e % 8 \in 0..7 /\ e = 8 * (e \div 8) + (e % 8)
      OBVIOUS
    <3>. QED  BY <3>1
  <2>4. l <= q
    BY <2>1, <2>2, <2>3
  <2>5. 8 * l <= e
    BY <2>3, <2>4
  <2>. QED  BY <2>2, <2>5
<1>3. PICK first \in [1..n -> BOOLEAN] : first = Bits(bytes, v)
  <2>1. n = 4 + CountBits(v) + 8 * l
    BY <1>1, <1>2
  <2>2. Bits(bytes, v) \in [1..n -> BOOLEAN]
    BY <2>1, BitsAre
  <2>. QED  BY <2>2
<1>4. PICK w \in 0..D : /\ n <= 8 * w
                        /\ Aligned(Terminated(first, v)) \in [1..(8 * w) -> BOOLEAN]
                        /\ Begins(Aligned(Terminated(first, v)), first, n)
  BY <1>2, WholeBytes
<1>5. PICK bits \in [1..(8 * w) -> BOOLEAN] : bits = Aligned(Terminated(first, v))
  BY <1>4
<1>6. PICK filled \in [1..w -> Byte] : filled = Bytes(bits)
  <2>1. w \in Nat
    OBVIOUS
  <2>. QED  BY <2>1, BytesAre
<1>7. PICK r \in Nat : r = D - w /\ D = w + r /\ w \in Nat
  OBVIOUS
<1>8. PICK pad \in [1..r -> Byte] :
        pad = [k \in 1..r |-> IF k % 2 = 1 THEN BitsIn(236) ELSE BitsIn(17)]
  <2>1. [k \in 1..r |-> IF k % 2 = 1 THEN BitsIn(236) ELSE BitsIn(17)] \in [1..r -> Byte]
    BY PadBytes
  <2>. QED  BY <2>1
<1>9. Concatenates(filled \o pad, filled, pad, w, r, D, Byte)
  BY <1>7, Concatenation
<1>10. DataCodewords(bytes, v) = filled \o pad
  <2>1. Len(filled) = w
    BY <1>7
  <2>. QED  BY <1>3, <1>5, <1>6, <1>7, <1>8, <2>1 DEF DataCodewords, Padded
<1>11. DataCodewords(bytes, v) \in [1..D -> Byte] /\ Begins(DataCodewords(bytes, v), filled, w)
  BY <1>9, <1>10 DEF Concatenates, Begins
<1>12. Begins(bits, Bits(bytes, v), n) /\ n <= 8 * w
  BY <1>3, <1>4, <1>5
<1>13. n = 4 + CountBits(v) + 8 * l
  BY <1>1, <1>2
<1>14. Packed(DataCodewords(bytes, v), Bits(bytes, v), n, D)
  BY <1>6, <1>11, <1>12 DEF Packed
<1>15. Headed(Bits(bytes, v), bytes, l, CountBits(v))
  BY <1>13, BitsAre
<1>. QED  BY <1>11, <1>13, <1>14, <1>15

(***************************************************************************)
(* Blocks and their order.                                                 *)
(***************************************************************************)
\* Types of the table of versions.
LEMMA LengthsAre ==
  ASSUME NEW v \in 1..10
  PROVE  /\ Lengths(v) \in [1..Len(Lengths(v)) -> Nat] /\ Len(Lengths(v)) \in Nat
         /\ DOMAIN Lengths(v) = 1..Len(Lengths(v))
         /\ DataLength(v) \in Nat /\ ErrorLength(v) \in Nat \ {0}
<1>1. Lengths(v) \in Seq(Nat) /\ DataLength(v) \in Nat /\ ErrorLength(v) \in Nat \ {0}
  BY ReadersPlaces
<1>. QED  BY <1>1, LenProperties

\* A block is a part of the data.
PartOf(block, data, o, l) == block \in [1..l -> Byte] /\ Len(block) = l
                             /\ \A j \in 1..l : block[j] = data[o + j]

\* A slice of the data is a part of it.
LEMMA Part ==
  ASSUME NEW D \in Nat, NEW data \in [1..D -> Byte], NEW o \in Nat, NEW l \in Nat, o + l <= D
  PROVE  PartOf(SubSeq(data, o + 1, o + l), data, o, l)
<1>1. PICK m, n \in Int : m = o + 1 /\ n = o + l
  OBVIOUS
<1>2. \A i \in m..n : data[i] \in Byte
  <2>1. \A i \in m..n : i \in 1..D
    BY <1>1
  <2>. QED  BY <2>1
<1>3. PICK s : s = SubSeq(data, m, n)
  OBVIOUS
<1>4. /\ s \in Seq(Byte) /\ Len(s) = (IF m <= n THEN n - m + 1 ELSE 0)
      /\ \A i \in 1..(n - m + 1) : s[i] = data[m + i - 1]
  <2>1. /\ SubSeq(data, m, n) \in Seq(Byte)
        /\ Len(SubSeq(data, m, n)) = (IF m <= n THEN n - m + 1 ELSE 0)
        /\ \A i \in 1..(n - m + 1) : SubSeq(data, m, n)[i] = data[m + i - 1]
    BY <1>2, SubSeqProperties
  <2>. QED  BY <1>3, <2>1
<1>5. (IF m <= n THEN n - m + 1 ELSE 0) = l /\ n - m + 1 = l
  BY <1>1
<1>6. s \in [1..l -> Byte] /\ Len(s) = l
  BY <1>4, <1>5, LenProperties
<1>7. ASSUME NEW j \in 1..l PROVE s[j] = data[o + j]
  <2>1. m + j - 1 = o + j
    BY <1>1
  <2>. QED  BY <1>4, <1>5, <2>1
<1>. QED  BY <1>1, <1>3, <1>6, <1>7 DEF PartOf

\* Every block is such a part.
LEMMA BlocksAre ==
  ASSUME NEW v \in 1..10, NEW D \in Nat, D = DataLength(v), NEW data \in [1..D -> Byte],
         NEW b \in DOMAIN Lengths(v)
  PROVE  /\ DOMAIN Blocks(data, v) = DOMAIN Lengths(v)
         /\ PartOf(Blocks(data, v)[b], data, Offset(b, v), Lengths(v)[b])
         /\ Lengths(v)[b] \in Nat /\ Offset(b, v) \in Nat
<1>1. PICK o, l \in Nat : o = Offset(b, v) /\ l = Lengths(v)[b] /\ o + l <= D
  <2>1. Offset(b, v) \in Nat /\ Offset(b, v) + Lengths(v)[b] <= D
    BY ReadersPlaces
  <2>2. Lengths(v)[b] \in Nat
    BY LengthsAre
  <2>. QED  BY <2>1, <2>2
<1>2. Blocks(data, v)[b] = SubSeq(data, o + 1, o + l)
  BY <1>1 DEF Blocks
<1>3. PartOf(SubSeq(data, o + 1, o + l), data, o, l)
  BY <1>1, Part
<1>4. DOMAIN Blocks(data, v) = DOMAIN Lengths(v)
  BY DEF Blocks
<1>. QED  BY <1>1, <1>2, <1>3, <1>4

\* What a reader finds in the places.
Arrives(words, blocks, errors, v) ==
  \A b \in DOMAIN Lengths(v) :
    /\ \A j \in 1..Lengths(v)[b] : words[DataPlace(j, b, v)] = blocks[b][j]
    /\ \A j \in 1..ErrorLength(v) : words[DataLength(v) + ErrorPlace(j, b, v)] = errors[b][j]

\* The order in which the bytes are sent puts each where the reader expects.
LEMMA InterleavedArrives ==
  ASSUME NEW v \in 1..10,
         NEW blocks, DOMAIN blocks = DOMAIN Lengths(v),
         \A b \in DOMAIN Lengths(v) : Len(blocks[b]) = Lengths(v)[b],
         NEW errors, DOMAIN errors = DOMAIN Lengths(v),
         \A b \in DOMAIN Lengths(v) : Len(errors[b]) = ErrorLength(v)
  PROVE  Arrives(Interleaved(blocks) \o Interleaved(errors), blocks, errors, v)
<1>1. PICK order, after : order = Woven(Lengths(v)) /\ after = ErrorOrder(v)
  OBVIOUS
<1>2. PICK D, E, T \in Nat : D = DataLength(v) /\ E = Len(Lengths(v)) * ErrorLength(v) /\ T = D + E
  <2>1. Len(Lengths(v)) \in Nat /\ ErrorLength(v) \in Nat /\ DataLength(v) \in Nat
    BY LengthsAre
  <2>2. Len(Lengths(v)) * ErrorLength(v) \in Nat
    BY <2>1
  <2>. QED  BY <2>1, <2>2
<1>3. DOMAIN order = 1..D /\ DOMAIN after = 1..E
  BY <1>1, <1>2, ReadersPlaces
<1>4. Interleaved(blocks) = [n \in 1..D |-> blocks[order[n].block][order[n].at]]
  <2>1. Lengths(v) = [b \in DOMAIN blocks |-> Len(blocks[b])]
    BY LengthsAre
  <2>. QED  BY <1>1, <1>3, <2>1 DEF Interleaved
<1>5. Interleaved(errors) = [n \in 1..E |-> errors[after[n].block][after[n].at]]
  <2>1. [b \in DOMAIN Lengths(v) |-> ErrorLength(v)] = [b \in DOMAIN errors |-> Len(errors[b])]
    OBVIOUS
  <2>. QED  BY <1>1, <1>3, <2>1 DEF Interleaved, ErrorOrder
<1>6. PICK s, t : s = Interleaved(blocks) /\ t = Interleaved(errors)
  OBVIOUS
<1>7. PICK S : s \in [1..D -> S] /\ t \in [1..E -> S]
  <2>. DEFINE R == {s[n] : n \in 1..D} \cup {t[n] : n \in 1..E}
  <2>1. s \in [1..D -> R] /\ t \in [1..E -> R]
    BY <1>4, <1>5, <1>6
  <2>. QED  BY <2>1
<1>8. Concatenates(s \o t, s, t, D, E, T, S)
  BY <1>2, <1>7, Concatenation
<1>9. PICK words : words = s \o t
  OBVIOUS
<1>10. ASSUME NEW b \in DOMAIN Lengths(v), NEW j \in 1..Lengths(v)[b]
       PROVE  words[DataPlace(j, b, v)] = blocks[b][j]
  <2>1. PICK n \in 1..D : n = DataPlace(j, b, v) /\ order[n] = [block |-> b, at |-> j]
    <3>1. /\ DataPlace(j, b, v) \in 1..DataLength(v)
          /\ Woven(Lengths(v))[DataPlace(j, b, v)] = [block |-> b, at |-> j]
      <4>1. \A c \in DOMAIN Lengths(v) : \A i \in 1..Lengths(v)[c] :
              /\ DataPlace(i, c, v) \in 1..DataLength(v)
              /\ Woven(Lengths(v))[DataPlace(i, c, v)] = [block |-> c, at |-> i]
        BY ReadersPlaces
      <4>. QED  BY <4>1, Zenon
    <3>. QED  BY <1>1, <1>2, <3>1
  <2>2. words[n] = s[n]
    BY <1>8, <1>9 DEF Concatenates
  <2>3. order[n].block = b /\ order[n].at = j
    BY <2>1
  <2>. QED  BY <1>4, <1>6, <2>1, <2>2, <2>3
<1>11. ASSUME NEW b \in DOMAIN Lengths(v), NEW j \in 1..ErrorLength(v)
       PROVE  words[D + ErrorPlace(j, b, v)] = errors[b][j]
  <2>1. PICK n \in 1..E : n = ErrorPlace(j, b, v) /\ after[n] = [block |-> b, at |-> j]
    <3>1. /\ ErrorPlace(j, b, v) \in DOMAIN ErrorOrder(v)
          /\ ErrorOrder(v)[ErrorPlace(j, b, v)] = [block |-> b, at |-> j]
      <4>1. \A c \in DOMAIN Lengths(v) : \A i \in 1..ErrorLength(v) :
              /\ ErrorPlace(i, c, v) \in DOMAIN ErrorOrder(v)
              /\ ErrorOrder(v)[ErrorPlace(i, c, v)] = [block |-> c, at |-> i]
        BY ReadersPlaces
      <4>. QED  BY <4>1, Zenon
    <3>. QED  BY <1>1, <1>3, <3>1
  <2>2. words[D + n] = t[n]
    BY <1>8, <1>9 DEF Concatenates
  <2>3. after[n].block = b /\ after[n].at = j
    BY <2>1
  <2>. QED  BY <1>5, <1>6, <2>1, <2>2, <2>3
<1>. QED  BY <1>2, <1>6, <1>9, <1>10, <1>11 DEF Arrives

\* What is sent for the data, and what is read.
Errors(data, v) ==
  [b \in DOMAIN Blocks(data, v) |-> ErrorCodewords(Blocks(data, v)[b], Generator(ErrorLength(v)))]

Sent(data, v) == Interleaved(Blocks(data, v)) \o Interleaved(Errors(data, v))

ErrorsOf(data, v, b, n) ==
  /\ DOMAIN Errors(data, v) = DOMAIN Lengths(v)
  /\ Errors(data, v)[b] = ErrorCodewords(Blocks(data, v)[b], Generator(n))
  /\ Errors(data, v)[b] \in [1..n -> Byte] /\ Len(Errors(data, v)[b]) = n

\* Every block has its error codewords.
LEMMA ErrorsAre ==
  ASSUME NEW v \in 1..10, NEW D \in Nat, D = DataLength(v), NEW data \in [1..D -> Byte],
         NEW b \in DOMAIN Lengths(v), NEW n \in Nat \ {0}, n = ErrorLength(v)
  PROVE  ErrorsOf(data, v, b, n)
<1>1. PICK l \in Nat : l = Lengths(v)[b]
  BY BlocksAre
<1>2. PICK block \in [1..l -> Byte] : block = Blocks(data, v)[b]
  BY <1>1, BlocksAre DEF PartOf
<1>3. DOMAIN Blocks(data, v) = DOMAIN Lengths(v)
  BY BlocksAre
<1>4. PICK M \in Nat : M = n + 1 /\ n \in Nat
  OBVIOUS
<1>5. PICK gen : gen = Generator(n) /\ RootsBelow(gen, n)
  BY <1>4, GeneratorRoots
<1>6. gen \in [1..M -> Byte]
  BY <1>4, <1>5 DEF RootsBelow
<1>7. ErrorCodewords(block, gen) \in [1..n -> Byte]
  BY <1>4, <1>6, ErrorBytes
<1>8. Errors(data, v)[b] = ErrorCodewords(block, gen)
  BY <1>2, <1>3, <1>5 DEF Errors
<1>9. DOMAIN Errors(data, v) = DOMAIN Lengths(v)
  BY <1>3 DEF Errors
<1>10. PICK e \in [1..n -> Byte] : e = ErrorCodewords(block, gen) /\ Len(e) = n
  BY <1>4, <1>7
<1>. QED  BY <1>2, <1>5, <1>8, <1>9, <1>10 DEF ErrorsOf

IsBlock(block, s, l, n, T) ==
  /\ block \in [1..T -> Byte] /\ Len(block) = T
  /\ Joined(block, s, ErrorCodewords(s, Generator(n)), l, n)

\* The reader gets each block, with the data it was made of.
LEMMA BlockRead ==
  ASSUME NEW v \in 1..10, NEW D \in Nat, D = DataLength(v), NEW data \in [1..D -> Byte],
         NEW b \in DOMAIN Lengths(v), NEW l \in Nat, l = Lengths(v)[b],
         NEW n \in Nat \ {0}, n = ErrorLength(v), NEW T \in Nat, T = l + n,
         NEW block, block = ReadBlocks(Sent(data, v), v)[b]
  PROVE  IsBlock(block, Blocks(data, v)[b], l, n, T)
<1>1. PICK words : words = Sent(data, v)
  OBVIOUS
<1>2. Arrives(words, Blocks(data, v), Errors(data, v), v)
  <2>1. DOMAIN Blocks(data, v) = DOMAIN Lengths(v) /\ DOMAIN Errors(data, v) = DOMAIN Lengths(v)
    BY BlocksAre, ErrorsAre DEF ErrorsOf
  <2>2. \A c \in DOMAIN Lengths(v) : Len(Blocks(data, v)[c]) = Lengths(v)[c]
    <3>1. ASSUME NEW c \in DOMAIN Lengths(v) PROVE Len(Blocks(data, v)[c]) = Lengths(v)[c]
      <4>1. PartOf(Blocks(data, v)[c], data, Offset(c, v), Lengths(v)[c])
        BY BlocksAre
      <4>. QED  BY <4>1 DEF PartOf
    <3>. QED  BY <3>1
  <2>3. \A c \in DOMAIN Lengths(v) : Len(Errors(data, v)[c]) = ErrorLength(v)
    <3>1. ASSUME NEW c \in DOMAIN Lengths(v) PROVE Len(Errors(data, v)[c]) = n
      <4>1. ErrorsOf(data, v, c, n)
        BY ErrorsAre
      <4>. QED  BY <4>1 DEF ErrorsOf
    <3>. QED  BY <3>1
  <2>4. Arrives(Interleaved(Blocks(data, v)) \o Interleaved(Errors(data, v)),
                Blocks(data, v), Errors(data, v), v)
    BY <2>1, <2>2, <2>3, InterleavedArrives
  <2>. QED  BY <1>1, <2>4 DEF Sent
<1>3. PICK s \in [1..l -> Byte] : s = Blocks(data, v)[b]
  BY BlocksAre DEF PartOf
<1>4. PICK e \in [1..n -> Byte] :
        e = Errors(data, v)[b] /\ e = ErrorCodewords(Blocks(data, v)[b], Generator(n))
  <2>1. /\ Errors(data, v)[b] = ErrorCodewords(Blocks(data, v)[b], Generator(n))
        /\ Errors(data, v)[b] \in [1..n -> Byte]
    <3>1. ErrorsOf(data, v, b, n)
      BY ErrorsAre
    <3>. QED  BY <3>1 DEF ErrorsOf
  <2>. QED  BY <2>1
<1>5. PICK x, y : /\ x = [j \in 1..l |-> words[DataPlace(j, b, v)]]
                  /\ y = [j \in 1..n |-> words[D + ErrorPlace(j, b, v)]]
  OBVIOUS
<1>6. x = s
  <2>1. \A j \in 1..l : words[DataPlace(j, b, v)] = s[j]
    BY <1>2, <1>3 DEF Arrives
  <2>2. x = [j \in 1..l |-> s[j]]
    BY <1>5, <2>1
  <2>. QED  BY <2>2
<1>7. y = e
  <2>1. \A j \in 1..n : words[D + ErrorPlace(j, b, v)] = e[j]
    <3>1. \A j \in 1..ErrorLength(v) :
            words[DataLength(v) + ErrorPlace(j, b, v)] = Errors(data, v)[b][j]
      BY <1>2, Zenon DEF Arrives
    <3>. QED  BY <1>4, <3>1
  <2>2. y = [j \in 1..n |-> e[j]]
    BY <1>5, <2>1
  <2>. QED  BY <2>2
<1>8. block = s \o e
  <2>1. block = x \o y
    BY <1>1, <1>5 DEF ReadBlocks
  <2>. QED  BY <1>6, <1>7, <2>1
<1>9. Concatenates(s \o e, s, e, l, n, T, Byte)
  <2>1. n \in Nat
    OBVIOUS
  <2>. QED  BY <2>1, Concatenation
<1>. QED  BY <1>3, <1>4, <1>8, <1>9 DEF Concatenates, Joined, IsBlock

Divided(words, v) ==
  \A b \in DOMAIN ReadBlocks(words, v), i \in 0..(ErrorLength(v) - 1) :
    LET n     == Len(ReadBlocks(words, v)[b])
        terms == [j \in 1..n |-> Mul(ReadBlocks(words, v)[b][j], Power(i * (n - j)))]
    IN  \A bit \in 0..7 : Cardinality({j \in 1..n : bit \in terms[j]}) % 2 = 0

\* So every block it gets is divided by the roots of the generator.
LEMMA SentDivided ==
  ASSUME NEW v \in 1..10, NEW D \in Nat, D = DataLength(v), NEW data \in [1..D -> Byte]
  PROVE  Divided(Sent(data, v), v)
<1>1. PICK words : words = Sent(data, v)
  OBVIOUS
<1>2. DOMAIN ReadBlocks(words, v) = DOMAIN Lengths(v)
  BY DEF ReadBlocks
<1>3. PICK n \in Nat \ {0} : n = ErrorLength(v)
  BY LengthsAre
<1>4. ASSUME NEW b \in DOMAIN Lengths(v), NEW i \in 0..(n - 1), NEW block,
             block = ReadBlocks(words, v)[b], NEW bit \in 0..7
      PROVE  EvenAt(block, Len(block), i, bit)
  <2>1. PICK l \in Nat : l = Lengths(v)[b]
    BY BlocksAre
  <2>2. PICK s \in [1..l -> Byte] : s = Blocks(data, v)[b]
    BY <2>1, BlocksAre DEF PartOf
  <2>3. PICK T \in Nat : T = l + n
    OBVIOUS
  <2>4. block = ReadBlocks(Sent(data, v), v)[b]
    BY <1>1, <1>4
  <2>5. IsBlock(block, Blocks(data, v)[b], l, n, T)
    BY <1>3, <2>1, <2>3, <2>4, BlockRead
  <2>6. /\ block \in [1..T -> Byte] /\ Len(block) = T
        /\ Joined(block, s, ErrorCodewords(s, Generator(n)), l, n)
    BY <2>2, <2>5 DEF IsBlock
  <2>7. i \in Nat /\ i < n
    OBVIOUS
  <2>8. Divisible(block, T, i)
    BY <2>3, <2>6, <2>7, BlockDivisible
  <2>9. EvenAt(block, T, i, bit)
    BY <2>6, <2>7, <2>8, EvenTerms
  <2>. QED  BY <2>6, <2>9
<1>5. ASSUME NEW b \in DOMAIN ReadBlocks(words, v), NEW i \in 0..(ErrorLength(v) - 1), NEW bit \in 0..7
      PROVE  LET T     == Len(ReadBlocks(words, v)[b])
                 terms == [j \in 1..T |-> Mul(ReadBlocks(words, v)[b][j], Power(i * (T - j)))]
             IN  Cardinality({j \in 1..T : bit \in terms[j]}) % 2 = 0
  <2>1. PICK block : block = ReadBlocks(words, v)[b]
    OBVIOUS
  <2>2. PICK T : T = Len(block)
    OBVIOUS
  <2>3. PICK terms : terms = [j \in 1..T |-> Mul(block[j], Power(i * (T - j)))]
    OBVIOUS
  <2>4. Cardinality({j \in 1..T : bit \in terms[j]}) % 2 = 0
    <3>1. EvenAt(block, T, i, bit)
      BY <1>2, <1>3, <1>4, <2>1, <2>2
    <3>2. {j \in 1..T : bit \in terms[j]} = {j \in 1..T : bit \in Mul(block[j], Power(i * (T - j)))}
      BY <2>3
    <3>. QED  BY <3>1, <3>2 DEF EvenAt
  <2>. QED  BY <2>1, <2>2, <2>3, <2>4
<1>6. Divided(words, v)
  BY <1>5, Zenon DEF Divided
<1>. QED  BY <1>1, <1>6

\* What is sent are bytes, as many as the version takes.
LEMMA SentBytes ==
  ASSUME NEW v \in 1..10, NEW D \in Nat, D = DataLength(v), NEW data \in [1..D -> Byte],
         NEW T \in Nat, T = D + Len(Lengths(v)) * ErrorLength(v)
  PROVE  Sent(data, v) \in [1..T -> Byte]
<1>1. PICK E \in Nat : E = Len(Lengths(v)) * ErrorLength(v)
  <2>1. Len(Lengths(v)) \in Nat /\ ErrorLength(v) \in Nat
    BY LengthsAre
  <2>2. Len(Lengths(v)) * ErrorLength(v) \in Nat
    BY <2>1
  <2>. QED  BY <2>2
<1>2. PICK n \in Nat \ {0} : n = ErrorLength(v)
  BY LengthsAre
<1>3. PICK order, after : order = Woven(Lengths(v)) /\ after = ErrorOrder(v)
  OBVIOUS
<1>4. DOMAIN order = 1..D /\ DOMAIN after = 1..E
  BY <1>1, <1>3, ReadersPlaces
<1>5. PICK blocks, errors : blocks = Blocks(data, v) /\ errors = Errors(data, v)
  OBVIOUS
<1>6. ASSUME NEW b \in DOMAIN Lengths(v)
      PROVE  /\ blocks[b] \in [1..Lengths(v)[b] -> Byte] /\ Len(blocks[b]) = Lengths(v)[b]
             /\ errors[b] \in [1..n -> Byte] /\ Len(errors[b]) = n
             /\ DOMAIN blocks = DOMAIN Lengths(v) /\ DOMAIN errors = DOMAIN Lengths(v)
  <2>1. PartOf(blocks[b], data, Offset(b, v), Lengths(v)[b]) /\ DOMAIN blocks = DOMAIN Lengths(v)
    BY <1>5, BlocksAre
  <2>2. ErrorsOf(data, v, b, n)
    BY <1>2, ErrorsAre
  <2>. QED  BY <1>5, <2>1, <2>2 DEF PartOf, ErrorsOf
<1>7. DOMAIN blocks = DOMAIN Lengths(v) /\ DOMAIN errors = DOMAIN Lengths(v)
  BY <1>5 DEF Blocks, Errors
<1>8. PICK s \in [1..D -> Byte] : s = Interleaved(blocks)
  <2>1. Lengths(v) = [b \in DOMAIN blocks |-> Len(blocks[b])]
    BY <1>6, <1>7, LengthsAre
  <2>2. Interleaved(blocks) = [m \in 1..D |-> blocks[order[m].block][order[m].at]]
    BY <1>3, <1>4, <2>1 DEF Interleaved
  <2>3. ASSUME NEW m \in 1..D PROVE blocks[order[m].block][order[m].at] \in Byte
    <3>1. order[m].block \in DOMAIN Lengths(v) /\ order[m].at \in 1..Lengths(v)[order[m].block]
      BY <1>3, ReadersPlaces
    <3>. QED  BY <1>6, <3>1
  <2>. QED  BY <2>2, <2>3
<1>9. PICK t \in [1..E -> Byte] : t = Interleaved(errors)
  <2>1. [b \in DOMAIN Lengths(v) |-> ErrorLength(v)] = [b \in DOMAIN errors |-> Len(errors[b])]
    BY <1>2, <1>6, <1>7
  <2>2. Interleaved(errors) = [m \in 1..E |-> errors[after[m].block][after[m].at]]
    BY <1>3, <1>4, <2>1 DEF Interleaved, ErrorOrder
  <2>3. ASSUME NEW m \in 1..E PROVE errors[after[m].block][after[m].at] \in Byte
    <3>1. after[m].block \in DOMAIN Lengths(v) /\ after[m].at \in 1..ErrorLength(v)
      BY <1>3, <1>4, ReadersPlaces
    <3>. QED  BY <1>2, <1>6, <3>1
  <2>. QED  BY <2>2, <2>3
<1>10. Concatenates(s \o t, s, t, D, E, T, Byte)
  <2>1. T = D + E
    BY <1>1
  <2>. QED  BY <2>1, Concatenation
<1>. QED  BY <1>5, <1>8, <1>9, <1>10 DEF Sent, Concatenates

(***************************************************************************)
(* Reading what was drawn.                                                 *)
(***************************************************************************)
\* Places in the stream are numbers.
LEMMA PlaceInt == \A j, k \in Int : 8 * j - k \in Int
OBVIOUS

\* What bit i tells.
BitTold(bits, i, s, j, k) == bits[i] = (k \in s[j])

\* Bit k of byte j stands at place 8 j - k of the stream.
LEMMA StreamBit ==
  ASSUME NEW T \in Nat, NEW s \in [1..T -> Byte], NEW j \in 1..T, NEW k \in 0..7,
         NEW i \in Int, i = 8 * j - k
  PROVE  i \in 1..(8 * T) /\ BitTold(Stream(s), i, s, j, k)
<1>1. PICK n \in Nat : n = 8 * T
  OBVIOUS
<1>2. i \in 1..n
  BY <1>1
<1>3. (i - 1) % 8 = 7 - k /\ (i - 1) \div 8 = j - 1
  OBVIOUS
<1>4. 7 - (7 - k) = k /\ (j - 1) + 1 = j /\ Len(s) = T
  OBVIOUS
<1>5. Stream(s) = [m \in 1..n |-> (7 - ((m - 1) % 8)) \in s[((m - 1) \div 8) + 1]]
  BY <1>1, <1>4 DEF Stream
<1>6. Stream(s)[i] = ((7 - ((i - 1) % 8)) \in s[((i - 1) \div 8) + 1])
  BY <1>2, <1>5, Zenon
<1>. QED  BY <1>1, <1>2, <1>3, <1>4, <1>6 DEF BitTold

\* The stream has eight bits for every byte.
LEMMA StreamLength ==
  ASSUME NEW T \in Nat, NEW s \in [1..T -> Byte], NEW n \in Nat, n = 8 * T
  PROVE  Stream(s) \in [1..n -> BOOLEAN] /\ Len(Stream(s)) = n
<1>1. Len(s) = T
  OBVIOUS
<1>2. \A i \in 1..n : ((7 - ((i - 1) % 8)) \in s[((i - 1) \div 8) + 1]) \in BOOLEAN
  OBVIOUS
<1>3. Stream(s) = [i \in 1..n |-> (7 - ((i - 1) % 8)) \in s[((i - 1) \div 8) + 1]]
  BY <1>1 DEF Stream
<1>4. Stream(s) \in [1..n -> BOOLEAN]
  BY <1>2, <1>3, Zenon
<1>. QED  BY <1>4

\* Bits of whole bytes and less than a byte more, in which the bytes are told.
Tells(bits, s, T) == \A j \in 1..T, k \in 0..7 : bits[8 * j - k] = (k \in s[j])

\* The bytes are told from them.
LEMMA BytesBack ==
  ASSUME NEW T \in Nat, NEW s \in [1..T -> Byte], NEW n \in Nat, n - 8 * T \in 0..7,
         NEW bits \in [1..n -> BOOLEAN], Tells(bits, s, T)
  PROVE  Bytes(bits) = s
<1>1. Len(bits) = n
  OBVIOUS
<1>2. n \div 8 = T
  OBVIOUS
<1>3. Bytes(bits) = [j \in 1..T |-> {k \in 0..7 : bits[8 * j - k]}]
  BY <1>1, <1>2 DEF Bytes
<1>4. ASSUME NEW j \in 1..T PROVE {k \in 0..7 : bits[8 * j - k]} = s[j]
  <2>1. s[j] \subseteq 0..7
    BY DEF Byte
  <2>2. \A k \in 0..7 : bits[8 * j - k] = (k \in s[j])
    BY DEF Tells
  <2>. QED  BY <2>1, <2>2
<1>5. [j \in 1..T |-> {k \in 0..7 : bits[8 * j - k]}] = [j \in 1..T |-> s[j]]
  BY <1>4
<1>. QED  BY <1>3, <1>5

\* The path passes no module twice.
LEMMA Increasing ==
  ASSUME NEW L \in Nat, NEW K \in [1..L -> Int], \A i \in 2..L : K[i - 1] < K[i]
  PROVE  \A i, j \in 1..L : K[i] = K[j] => i = j
<1>1. ASSUME NEW i \in 1..L, NEW j \in 1..L, i < j PROVE K[i] < K[j]
  <2>. DEFINE H == {d \in 0..(L - i) : d > 0 => K[i] < K[i + d]}
  <2>1. 0 \in H
    OBVIOUS
  <2>2. ASSUME NEW d \in 1..(L - i), d - 1 \in H PROVE d \in H
    <3>1. PICK m \in 2..L : m = i + d /\ m - 1 = i + (d - 1) /\ m - 1 \in 1..L
      OBVIOUS
    <3>2. K[m - 1] < K[m] /\ K[m - 1] \in Int /\ K[m] \in Int /\ K[i] \in Int
      BY <3>1
    <3>3. d - 1 > 0 => K[i] < K[m - 1]
      BY <2>2, <3>1
    <3>4. ~ (d - 1 > 0) => m - 1 = i
      BY <3>1
    <3>5. K[i] < K[m]
      BY <3>2, <3>3, <3>4
    <3>. QED  BY <3>1, <3>5
  <2>. HIDE DEF H
  <2>3. PICK N \in Nat : N = L - i
    OBVIOUS
  <2>4. 0..N \subseteq H
    BY <2>1, <2>2, <2>3, UpTo
  <2>5. j - i \in 0..N /\ j - i > 0 /\ i + (j - i) = j
    BY <1>1, <2>3
  <2>6. j - i \in H
    BY <2>4, <2>5
  <2>. QED  BY <2>5, <2>6 DEF H
<1>2. ASSUME NEW i \in 1..L, NEW j \in 1..L, K[i] = K[j] PROVE i = j
  <2>1. K[i] \in Int /\ K[j] \in Int
    OBVIOUS
  <2>2. ~ (K[i] < K[j]) /\ ~ (K[j] < K[i])
    BY <1>2, <2>1
  <2>3. ~ (i < j) /\ ~ (j < i)
    BY <1>1, <2>2
  <2>. QED  BY <2>3
<1>. QED  BY <1>2

\* Places of the reader are numbers.
LEMMA KeyInt ==
  ASSUME NEW v \in 1..10, NEW m \in Grid(v)
  PROVE  Key(m, v) \in Int
<1>1. PICK n \in Nat : n = Size(v)
  BY DEF Size
<1>2. m[1] \in Int /\ m[2] \in Int
  BY <1>1 DEF Grid
<1>3. PICK f \in Int : f = Size(v) - 1 - (IF m[2] > 6 THEN m[2] ELSE m[2] + 1)
  BY <1>1, <1>2
<1>4. PICK p \in Int : p = f \div 2
  OBVIOUS
<1>5. PICK c \in Int : c = IF p % 2 = 0 THEN Size(v) - 1 - m[1] ELSE m[1]
  BY <1>1, <1>2
<1>6. PICK q \in Int : q = p * n
  BY <1>1
<1>7. 2 * (q + c) + (f % 2) \in Int
  OBVIOUS
<1>8. Key(m, v) = 2 * (p * n + c) + (f % 2)
  BY <1>1, <1>3, <1>4, <1>5 DEF Key
<1>. QED  BY <1>6, <1>7, <1>8

\* The path, its length and the free modules.
IsPath(path, v, L) ==
  /\ path \in [1..L -> Grid(v)] /\ Len(path) = L
  /\ \A i \in 1..L : path[i] \notin FunctionArea(v)
  /\ \A i, j \in 1..L : path[i] = path[j] => i = j

\* The walk is a path: on the grid, off the patterns, no module twice.
LEMMA PathIs ==
  ASSUME NEW v \in 1..10
  PROVE  /\ Len(ZigZag(v)) \in Nat /\ IsPath(ZigZag(v), v, Len(ZigZag(v)))
         /\ Walk(ZigZag(v), v)
<1>1. PICK path : path = ZigZag(v)
  OBVIOUS
<1>2. path \in Seq(Grid(v)) /\ Walk(path, v)
  BY <1>1, Versions
<1>3. PICK L \in Nat : L = Len(path)
  BY <1>2
<1>4. path \in [1..L -> Grid(v)]
  BY <1>2, <1>3, LenProperties
<1>5. \A i \in 1..L : path[i] \notin FunctionArea(v)
  <2>1. {path[i] : i \in 1..L} = Grid(v) \ FunctionArea(v)
    BY <1>2, <1>4 DEF Walk, Range
  <2>. QED  BY <2>1
<1>. DEFINE K == [i \in 1..L |-> Key(path[i], v)]
<1>6. K \in [1..L -> Int]
  BY <1>4, KeyInt
<1>7. \A i \in 2..L : K[i - 1] < K[i]
  <2>1. \A i \in 2..L : Key(path[i - 1], v) < Key(path[i], v)
    BY <1>2, <1>3 DEF Walk
  <2>2. \A i \in 2..L : i \in 1..L /\ i - 1 \in 1..L
    OBVIOUS
  <2>. QED  BY <2>1, <2>2
<1>8. \A i, j \in 1..L : path[i] = path[j] => K[i] = K[j]
  OBVIOUS
<1>. HIDE DEF K
<1>9. \A i, j \in 1..L : K[i] = K[j] => i = j
  BY <1>6, <1>7, Increasing
<1>10. \A i, j \in 1..L : path[i] = path[j] => i = j
  BY <1>8, <1>9
<1>. QED  BY <1>1, <1>2, <1>3, <1>4, <1>5, <1>10 DEF IsPath

\* What is dark after PlaceCodewords, and after DrawFormat.
Placed(words, v) ==
  FunctionDark(v)
    \cup {ZigZag(v)[i] : i \in {j \in DOMAIN ZigZag(v) :
            (j <= Len(Stream(words)) /\ Stream(words)[j]) # Masked(ZigZag(v)[j])}}

Drawn(words, v) ==
  (Placed(words, v) \ FormatArea(v))
    \cup {FirstCopy(i) : i \in FormatBits} \cup {SecondCopy(i, v) : i \in FormatBits}
    \cup {<<Size(v) - 8, 8>>}

\* The copies of the format lie in its area; the second is read bit by bit.
LEMMA FormatPlaces ==
  ASSUME NEW v \in 1..10
  PROVE  /\ \A i \in 0..14 : FirstCopy(i) \in FormatArea(v) /\ SecondCopy(i, v) \in FormatArea(v)
         /\ <<Size(v) - 8, 8>> \in FormatArea(v)
         /\ \A i, j \in 0..14 : SecondCopy(i, v) = SecondCopy(j, v) => i = j
         /\ \A i, j \in 0..14 : SecondCopy(i, v) # FirstCopy(j)
         /\ \A i \in 0..14 : SecondCopy(i, v) # <<Size(v) - 8, 8>>
<1>1. PICK n \in Nat : n = Size(v) /\ n >= 21
  BY DEF Size
<1>2. /\ \A i \in 0..8 \ {6} : <<8, i>> \in FormatArea(v) /\ <<i, 8>> \in FormatArea(v)
      /\ \A i \in 0..7 : <<8, n - 1 - i>> \in FormatArea(v) /\ <<n - 1 - i, 8>> \in FormatArea(v)
  BY <1>1 DEF FormatArea
<1>3. ASSUME NEW i \in 0..14 PROVE FirstCopy(i) \in FormatArea(v)
  <2>1. CASE i < 9
    <3>1. /\ i \in 0..8 \ {6} \/ i = 6
          /\ 7 \in 0..8 \ {6} /\ 8 \in 0..8 \ {6}
      BY <2>1
    <3>2. FirstCopy(i) \in {<<8, i>>, <<8, 7>>, <<8, 8>>, <<7, 8>>} /\ (i = 6 => FirstCopy(i) = <<8, 7>>)
      BY <2>1 DEF FirstCopy
    <3>. QED  BY <1>2, <3>1, <3>2
  <2>2. CASE i >= 9
    <3>1. 14 - i \in 0..8 \ {6} /\ FirstCopy(i) = <<14 - i, 8>>
      BY <2>2 DEF FirstCopy
    <3>. QED  BY <1>2, <3>1
  <2>. QED  BY <2>1, <2>2
<1>4. ASSUME NEW i \in 0..14 PROVE SecondCopy(i, v) \in FormatArea(v)
  <2>1. CASE i < 8
    <3>1. i \in 0..7 /\ SecondCopy(i, v) = <<8, n - 1 - i>>
      BY <1>1, <2>1 DEF SecondCopy
    <3>. QED  BY <1>2, <3>1
  <2>2. CASE i >= 8
    <3>1. PICK k \in 0..7 : k = 14 - i
      BY <2>2
    <3>2. SecondCopy(i, v) = <<n - 15 + i, 8>> /\ n - 15 + i = n - 1 - k
      BY <1>1, <2>2, <3>1 DEF SecondCopy
    <3>. QED  BY <1>2, <3>1, <3>2
  <2>. QED  BY <2>1, <2>2
<1>5. <<n - 8, 8>> \in FormatArea(v)
  <2>1. 7 \in 0..7 /\ n - 1 - 7 = n - 8
    BY <1>1
  <2>. QED  BY <1>2, <2>1
<1>6. ASSUME NEW i \in 0..14
      PROVE  SecondCopy(i, v) = IF i < 8 THEN <<8, n - 1 - i>> ELSE <<n - 15 + i, 8>>
  BY <1>1 DEF SecondCopy
<1>7. ASSUME NEW i \in 0..14, NEW j \in 0..14, SecondCopy(i, v) = SecondCopy(j, v)
      PROVE  i = j
  <2>1. SecondCopy(i, v)[1] = (IF i < 8 THEN 8 ELSE n - 15 + i) /\ SecondCopy(i, v)[2] = (IF i < 8 THEN n - 1 - i ELSE 8)
    BY <1>6
  <2>2. SecondCopy(j, v)[1] = (IF j < 8 THEN 8 ELSE n - 15 + j) /\ SecondCopy(j, v)[2] = (IF j < 8 THEN n - 1 - j ELSE 8)
    BY <1>6
  <2>3. (IF i < 8 THEN 8 ELSE n - 15 + i) = (IF j < 8 THEN 8 ELSE n - 15 + j)
    BY <1>7, <2>1, <2>2
  <2>4. (IF i < 8 THEN n - 1 - i ELSE 8) = (IF j < 8 THEN n - 1 - j ELSE 8)
    BY <1>7, <2>1, <2>2
  <2>. QED  BY <1>1, <2>3, <2>4
<1>8. ASSUME NEW j \in 0..14 PROVE FirstCopy(j)[1] <= 8 /\ FirstCopy(j)[2] <= 8
  BY DEF FirstCopy
<1>9. ASSUME NEW i \in 0..14, NEW j \in 0..14 PROVE SecondCopy(i, v) # FirstCopy(j)
  <2>1. IF i < 8 THEN SecondCopy(i, v)[2] = n - 1 - i ELSE SecondCopy(i, v)[1] = n - 15 + i
    BY <1>6
  <2>. QED  BY <1>1, <1>8, <2>1
<1>10. ASSUME NEW i \in 0..14 PROVE SecondCopy(i, v) # <<n - 8, 8>>
  <2>1. SecondCopy(i, v)[1] = (IF i < 8 THEN 8 ELSE n - 15 + i)
    BY <1>6
  <2>2. <<n - 8, 8>>[1] = n - 8
    OBVIOUS
  <2>3. (IF i < 8 THEN 8 ELSE n - 15 + i) # n - 8
    BY <1>1
  <2>. QED  BY <2>1, <2>2, <2>3
<1>. QED  BY <1>1, <1>3, <1>4, <1>5, <1>7, <1>9, <1>10

\* Reading the second copy gives the format that was drawn.
LEMMA FormatRead ==
  ASSUME NEW v \in 1..10, NEW words, dark = Drawn(words, v)
  PROVE  SymDiff(ReadFormat([i \in 0..14 |-> SecondCopy(i, v)]), BitsIn(21522))
           = WithRemainder({3}, BitsIn(1335))
<1>1. FormatBits \subseteq 0..14
  BY Versions
<1>2. ASSUME NEW i \in 0..14 PROVE SecondCopy(i, v) \in dark <=> i \in FormatBits
  <2>1. SecondCopy(i, v) \in FormatArea(v)
    BY FormatPlaces
  <2>2. SecondCopy(i, v) # <<Size(v) - 8, 8>>
    BY FormatPlaces
  <2>3. SecondCopy(i, v) \notin {FirstCopy(j) : j \in FormatBits}
    BY <1>1, FormatPlaces
  <2>4. SecondCopy(i, v) \in dark <=> SecondCopy(i, v) \in {SecondCopy(j, v) : j \in FormatBits}
    BY <2>1, <2>2, <2>3 DEF Drawn
  <2>5. SecondCopy(i, v) \in {SecondCopy(j, v) : j \in FormatBits} => i \in FormatBits
    BY <1>1, FormatPlaces
  <2>. QED  BY <2>4, <2>5
<1>3. ReadFormat([i \in 0..14 |-> SecondCopy(i, v)]) = FormatBits
  BY <1>1, <1>2 DEF ReadFormat
<1>4. FormatBits = SymDiff(WithRemainder({3}, BitsIn(1335)), BitsIn(21522))
  BY DEF FormatBits
<1>5. \A a, b : SymDiff(SymDiff(a, b), b) = a
  BY DEF SymDiff
<1>. QED  BY <1>3, <1>4, <1>5

\* Unmasked, the modules of the path tell the bits that were sent.
Unmasked(m, bits, n, i) == ((m \in dark) # Masked(m)) = (i <= n /\ bits[i])

\* A module on the path, unmasked, shows the bit that was placed there.
LEMMA ModulesRead ==
  ASSUME NEW v \in 1..10, NEW words, dark = Drawn(words, v),
         NEW n \in Nat, NEW bits \in [1..n -> BOOLEAN], bits = Stream(words), Len(bits) = n,
         NEW L \in Nat, NEW path, path = ZigZag(v), IsPath(path, v, L), NEW i \in 1..L
  PROVE  Unmasked(path[i], bits, n, i)
<1>1. path[i] \notin FunctionArea(v)
  BY DEF IsPath
<1>2. path[i] \notin FormatArea(v) /\ path[i] \notin FunctionDark(v)
  <2>1. FunctionDark(v) \subseteq FunctionArea(v)
    BY Versions
  <2>. QED  BY <1>1, <2>1 DEF FunctionArea
<1>3. FormatBits \subseteq 0..14
  BY Versions
<1>4. /\ path[i] \notin {FirstCopy(j) : j \in FormatBits}
      /\ path[i] \notin {SecondCopy(j, v) : j \in FormatBits}
      /\ path[i] # <<Size(v) - 8, 8>>
  <2>1. \A j \in FormatBits : FirstCopy(j) \in FormatArea(v) /\ SecondCopy(j, v) \in FormatArea(v)
    BY <1>3, FormatPlaces
  <2>2. <<Size(v) - 8, 8>> \in FormatArea(v)
    BY FormatPlaces
  <2>. QED  BY <1>2, <2>1, <2>2
<1>. DEFINE filled == {j \in 1..L : (j <= n /\ bits[j]) # Masked(path[j])}
<1>5. Placed(words, v) = FunctionDark(v) \cup {path[j] : j \in filled}
  BY DEF Placed, IsPath
<1>6. path[i] \in dark <=> path[i] \in {path[j] : j \in filled}
  BY <1>2, <1>4, <1>5 DEF Drawn
<1>7. path[i] \in {path[j] : j \in filled} <=> i \in filled
  BY DEF IsPath
<1>8. path[i] \in dark <=> ((i <= n /\ bits[i]) # Masked(path[i]))
  BY <1>6, <1>7
<1>. QED  BY <1>8 DEF Masked, Unmasked

\* So the walk gives back all codewords.
LEMMA WordsRead ==
  ASSUME NEW v \in 1..10, NEW T \in Nat, NEW words \in [1..T -> Byte], dark = Drawn(words, v),
         T = DataLength(v) + Len(Lengths(v)) * ErrorLength(v)
  PROVE  Bytes([i \in DOMAIN ZigZag(v) |-> (ZigZag(v)[i] \in dark) # Masked(ZigZag(v)[i])]) = words
<1>1. PICK path : path = ZigZag(v)
  OBVIOUS
<1>2. PICK L \in Nat : L = Len(path) /\ IsPath(path, v, L) /\ Walk(path, v)
  BY <1>1, PathIs
<1>3. PICK n \in Nat : n = 8 * T
  OBVIOUS
<1>4. PICK bits \in [1..n -> BOOLEAN] : bits = Stream(words) /\ Len(bits) = n
  BY <1>3, StreamLength
<1>5. L - 8 * T \in 0..7 /\ n <= L
  <2>1. L - 8 * T \in 0..7
    BY <1>2 DEF Walk
  <2>. QED  BY <1>3, <2>1
<1>. DEFINE seen == [i \in 1..L |-> (path[i] \in dark) # Masked(path[i])]
<1>6. \A i \in 1..L : ((path[i] \in dark) # Masked(path[i])) = (i <= n /\ bits[i])
  <2>1. ASSUME NEW i \in 1..L PROVE Unmasked(path[i], bits, n, i)
    BY <1>1, <1>2, <1>4, ModulesRead
  <2>. QED  BY <2>1 DEF Unmasked
<1>7. seen \in [1..L -> BOOLEAN]
  <2>1. \A i \in 1..L : ((path[i] \in dark) # Masked(path[i])) \in BOOLEAN
    OBVIOUS
  <2>. QED  BY <2>1, Zenon
<1>8. \A i \in 1..L : seen[i] = ((path[i] \in dark) # Masked(path[i]))
  BY Zenon
<1>9. seen = [i \in DOMAIN path |-> (path[i] \in dark) # Masked(path[i])]
  BY <1>2, Zenon DEF IsPath
<1>. HIDE DEF seen
<1>10. Tells(seen, words, T)
  <2>1. ASSUME NEW j \in 1..T, NEW k \in 0..7 PROVE seen[8 * j - k] = (k \in words[j])
    <3>0. 8 * j - k \in Int
      <4>1. j \in Int /\ k \in Int
        OBVIOUS
      <4>. QED  BY <4>1, PlaceInt
    <3>1. PICK i \in Int : i = 8 * j - k
      BY <3>0
    <3>2. i \in 1..(8 * T) /\ bits[i] = (k \in words[j])
      <4>1. i \in 1..(8 * T) /\ BitTold(Stream(words), i, words, j, k)
        BY <3>1, StreamBit
      <4>. QED  BY <1>4, <4>1 DEF BitTold
    <3>3. i \in 1..L /\ i <= n
      <4>1. i \in 1..n
        BY <1>3, <3>2
      <4>. QED  BY <1>5, <4>1
    <3>4. seen[i] = (i <= n /\ bits[i])
      BY <1>6, <1>8, <3>3
    <3>. QED  BY <3>1, <3>2, <3>3, <3>4
  <2>. QED  BY <2>1 DEF Tells
<1>11. Bytes(seen) = words
  BY <1>5, <1>7, <1>10, BytesBack
<1>. QED  BY <1>1, <1>9, <1>11

\* The blocks that were read hold the data, one part each.
HoldParts(blocks, data, v) ==
  \A b \in DOMAIN Lengths(v) :
    PartOf(SubSeq(blocks[b], 1, Lengths(v)[b]), data, Offset(b, v), Lengths(v)[b])

\* The blocks the reader gets hold them.
LEMMA BlocksHoldParts ==
  ASSUME NEW v \in 1..10, NEW D \in Nat, D = DataLength(v), NEW data \in [1..D -> Byte]
  PROVE  HoldParts(ReadBlocks(Sent(data, v), v), data, v)
<1>1. ASSUME NEW b \in DOMAIN Lengths(v), NEW block, block = ReadBlocks(Sent(data, v), v)[b],
             NEW l \in Nat, l = Lengths(v)[b], NEW o \in Nat, o = Offset(b, v)
      PROVE  PartOf(SubSeq(block, 1, l), data, o, l)
  <2>1. PICK n \in Nat \ {0} : n = ErrorLength(v)
    BY LengthsAre
  <2>2. PICK T \in Nat : T = l + n
    OBVIOUS
  <2>3. PICK s : s = Blocks(data, v)[b]
    OBVIOUS
  <2>4. IsBlock(block, Blocks(data, v)[b], l, n, T)
    BY <1>1, <2>1, <2>2, BlockRead
  <2>5. block \in [1..T -> Byte] /\ \A j \in 1..l : block[j] = s[j]
    BY <2>3, <2>4 DEF IsBlock, Joined
  <2>6. PartOf(s, data, o, l)
    BY <1>1, <2>3, BlocksAre
  <2>7. PartOf(SubSeq(block, 0 + 1, 0 + l), block, 0, l)
    <3>1. 0 \in Nat /\ 0 + l <= T
      BY <2>2
    <3>. QED  BY <2>5, <3>1, Part
  <2>8. 0 + 1 = 1 /\ 0 + l = l /\ \A j \in 1..l : 0 + j = j
    OBVIOUS
  <2>. QED  BY <2>5, <2>6, <2>7, <2>8 DEF PartOf
<1>2. ASSUME NEW b \in DOMAIN Lengths(v)
      PROVE  Lengths(v)[b] \in Nat /\ Offset(b, v) \in Nat
  BY BlocksAre
<1>. QED  BY <1>1, <1>2 DEF HoldParts

\* A first part of the data.
FirstPart(s, data, n) == s \in [1..n -> Byte] /\ Len(s) = n /\ Begins(s, data, n)

\* A first part and the part that follows make a longer one.
LEMMA PartAdded ==
  ASSUME NEW D \in Nat, NEW data \in [1..D -> Byte], NEW m \in Nat, NEW l \in Nat,
         NEW n \in Nat, n = m + l, n <= D,
         NEW s, FirstPart(s, data, m), NEW part, PartOf(part, data, m, l)
  PROVE  FirstPart(s \o part, data, n)
<1>1. PICK t : t = s \o part
  OBVIOUS
<1>2. /\ t \in [1..n -> Byte] /\ Len(t) = n
      /\ \A k \in 1..m : t[k] = s[k]
      /\ \A k \in 1..l : t[m + k] = part[k]
  <2>1. s \in [1..m -> Byte] /\ part \in [1..l -> Byte]
    BY DEF FirstPart, PartOf
  <2>2. Concatenates(s \o part, s, part, m, l, n, Byte)
    BY <2>1, Concatenation
  <2>. QED  BY <1>1, <2>2 DEF Concatenates
<1>3. \A k \in 1..l : t[m + k] = data[m + k]
  BY <1>2 DEF PartOf
<1>4. ASSUME NEW k \in 1..n PROVE t[k] = data[k]
  <2>1. CASE k <= m
    <3>1. k \in 1..m
      BY <2>1
    <3>2. t[k] = s[k]
      BY <1>2, <3>1
    <3>. QED  BY <3>1, <3>2 DEF FirstPart, Begins
  <2>2. CASE ~ (k <= m)
    <3>1. PICK j \in 1..l : k = m + j
      <4>1. k - m \in 1..l /\ k = m + (k - m)
        BY <2>2
      <4>. QED  BY <4>1
    <3>. QED  BY <1>3, <3>1
  <2>. QED  BY <2>1, <2>2
<1>. QED  BY <1>1, <1>2, <1>4 DEF FirstPart, Begins

\* Each part begins where the one before ends.
LEMMA OffsetsAre ==
  ASSUME NEW v \in 1..10, NEW B \in Nat, B = Len(Lengths(v)), NEW k \in 1..B
  PROVE  /\ Offset(k, v) \in Nat /\ Lengths(v)[k] \in Nat
         /\ Offset(k + 1, v) = Offset(k, v) + Lengths(v)[k]
         /\ Offset(k, v) + Lengths(v)[k] <= DataLength(v)
         /\ k \in DOMAIN Lengths(v)
<1>1. k \in DOMAIN Lengths(v)
  BY LengthsAre
<1>2. Lengths(v)[k] \in Nat
  BY LengthsAre
<1>3. Offset(k + 1, v) = Offset(k, v) + Lengths(v)[k]
  BY <1>1, Versions
<1>4. Offset(k, v) \in Nat /\ Offset(k, v) + Lengths(v)[k] <= DataLength(v)
  BY <1>1, ReadersPlaces
<1>. QED  BY <1>1, <1>2, <1>3, <1>4

\* So the parts together are the data.
LEMMA DataRead ==
  ASSUME NEW v \in 1..10, NEW D \in Nat, D = DataLength(v), NEW data \in [1..D -> Byte],
         NEW blocks, HoldParts(blocks, data, v)
  PROVE  ReadData(blocks, v) = data
<1>1. PICK B \in Nat : B = Len(Lengths(v))
  BY LengthsAre
<1>2. PICK parts : parts = [b \in 1..B |-> SubSeq(blocks[b], 1, Lengths(v)[b])]
  OBVIOUS
<1>3. ASSUME NEW b \in 1..B
      PROVE  PartOf(parts[b], data, Offset(b, v), Lengths(v)[b]) /\ parts[b] \in Seq(Byte)
  <2>1. b \in DOMAIN Lengths(v) /\ Lengths(v)[b] \in Nat
    BY <1>1, OffsetsAre
  <2>2. PartOf(parts[b], data, Offset(b, v), Lengths(v)[b])
    BY <1>2, <2>1 DEF HoldParts
  <2>. QED  BY <2>1, <2>2 DEF PartOf
<1>. DEFINE next == [b \in 1..B |-> [s \in Seq(Byte) |-> s \o parts[b]]]
            Good(f) == f = [b \in 0..B |-> IF b = 0 THEN <<>>
                                           ELSE f[b - 1] \o SubSeq(blocks[b], 1, Lengths(v)[b])]
<1>4. next \in [1..B -> [Seq(Byte) -> Seq(Byte)]]
  BY <1>3
<1>5. \A b \in 1..B, s \in Seq(Byte) : next[b][s] = s \o parts[b]
  OBVIOUS
<1>6. << >> \in Seq(Byte)
  OBVIOUS
<1>. HIDE DEF next
<1>7. PICK f \in [0..B -> Seq(Byte)] : Iterates(f, B, << >>, next)
  BY <1>4, <1>6, Recursion
<1>8. f[0] = << >>
  BY <1>7 DEF Iterates
<1>9. ASSUME NEW b \in 1..B PROVE f[b] = f[b - 1] \o parts[b]
  <2>1. b - 1 \in 0..B
    OBVIOUS
  <2>2. f[b - 1] \in Seq(Byte)
    BY <2>1
  <2>3. f[b] = next[b][f[b - 1]]
    BY <1>7 DEF Iterates
  <2>. QED  BY <1>5, <2>2, <2>3
<1>10. Good(f)
  <2>1. \A b \in 0..B : f[b] = IF b = 0 THEN << >> ELSE f[b - 1] \o SubSeq(blocks[b], 1, Lengths(v)[b])
    <3>1. \A b \in 0..B : b = 0 \/ (b \in 1..B /\ b # 0)
      OBVIOUS
    <3>2. \A b \in 1..B : parts[b] = SubSeq(blocks[b], 1, Lengths(v)[b])
      BY <1>2
    <3>. QED  BY <1>8, <1>9, <3>1, <3>2
  <2>. QED  BY <2>1
<1>. DEFINE h == CHOOSE g : Good(g)
<1>11. Good(h)
  BY <1>10
<1>12. ReadData(blocks, v) = h[B]
  BY <1>1 DEF ReadData
<1>13. \A b \in 0..B : h[b] = IF b = 0 THEN << >> ELSE h[b - 1] \o SubSeq(blocks[b], 1, Lengths(v)[b])
  BY <1>11
<1>. HIDE DEF h
<1>14. h[B] = f[B]
  <2>. DEFINE E == {b \in 0..B : h[b] = f[b]}
  <2>1. 0 \in E
    <3>1. 0 \in 0..B
      OBVIOUS
    <3>2. h[0] = << >>
      BY <1>13, <3>1, Zenon
    <3>. QED  BY <1>8, <3>1, <3>2
  <2>2. ASSUME NEW b \in 1..B, b - 1 \in E PROVE b \in E
    <3>1. b \in 0..B /\ b # 0
      OBVIOUS
    <3>2. h[b] = h[b - 1] \o SubSeq(blocks[b], 1, Lengths(v)[b])
      BY <1>13, <3>1
    <3>3. h[b - 1] = f[b - 1] /\ parts[b] = SubSeq(blocks[b], 1, Lengths(v)[b])
      BY <1>2, <2>2
    <3>4. h[b] = f[b]
      BY <1>9, <3>2, <3>3
    <3>. QED  BY <3>1, <3>4
  <2>. HIDE DEF E
  <2>3. B \in 0..B
    OBVIOUS
  <2>4. B \in E
    BY <2>1, <2>2, <2>3, UpTo
  <2>. QED  BY <2>4 DEF E
<1>15. FirstPart(f[B], data, Offset(B + 1, v))
  <2>. DEFINE H == {b \in 0..B : FirstPart(f[b], data, Offset(b + 1, v))}
  <2>1. 0 \in H
    <3>1. Offset(0 + 1, v) = 0
      <4>1. Offset(1, v) = 0
        BY Versions, Zenon
      <4>2. 0 + 1 = 1
        OBVIOUS
      <4>. QED  BY <4>1, <4>2
    <3>2. << >> \in [1..0 -> Byte] /\ Len(<< >>) = 0 /\ \A k \in 1..0 : << >>[k] = data[k]
      OBVIOUS
    <3>. QED  BY <1>8, <3>1, <3>2 DEF FirstPart, Begins
  <2>2. ASSUME NEW b \in 1..B, b - 1 \in H PROVE b \in H
    <3>1. PICK m, l, n \in Nat : /\ m = Offset(b, v) /\ l = Lengths(v)[b] /\ n = m + l /\ n <= D
                                 /\ n = Offset(b + 1, v)
      <4>1. PICK m \in Nat : m = Offset(b, v)
        BY <1>1, OffsetsAre
      <4>2. PICK l \in Nat : l = Lengths(v)[b]
        BY <1>1, OffsetsAre
      <4>3. Offset(b + 1, v) = m + l /\ m + l <= D
        BY <1>1, <4>1, <4>2, OffsetsAre
      <4>4. m + l \in Nat
        OBVIOUS
      <4>. QED  BY <4>1, <4>2, <4>3, <4>4
    <3>2. PICK s : s = f[b - 1]
      OBVIOUS
    <3>3. FirstPart(s, data, m)
      <4>1. FirstPart(f[b - 1], data, Offset((b - 1) + 1, v)) /\ (b - 1) + 1 = b
        BY <2>2
      <4>. QED  BY <3>1, <3>2, <4>1
    <3>4. PartOf(parts[b], data, m, l)
      BY <1>3, <3>1
    <3>5. FirstPart(s \o parts[b], data, n)
      BY <3>1, <3>3, <3>4, PartAdded
    <3>6. f[b] = f[b - 1] \o parts[b]
      BY <1>9
    <3>7. b \in 0..B
      OBVIOUS
    <3>. QED  BY <3>1, <3>2, <3>5, <3>6, <3>7
  <2>. HIDE DEF H
  <2>3. B \in 0..B
    OBVIOUS
  <2>4. B \in H
    BY <2>1, <2>2, <2>3, UpTo
  <2>. QED  BY <2>4 DEF H
<1>16. FirstPart(f[B], data, D)
  <2>1. Offset(B + 1, v) = D
    BY <1>1, Versions
  <2>. QED  BY <1>15, <2>1
<1>17. f[B] = data
  <2>1. f[B] \in [1..D -> Byte] /\ \A k \in 1..D : f[B][k] = data[k]
    BY <1>16 DEF FirstPart, Begins
  <2>. QED  BY <2>1
<1>. QED  BY <1>12, <1>14, <1>17

\* The bits of the data begin with mode, length and text.
LEMMA StreamBegins ==
  ASSUME NEW D \in Nat, NEW data \in [1..D -> Byte],
         NEW n \in Nat, NEW first, Packed(data, first, n, D)
  PROVE  Begins(Stream(data), first, n)
<1>1. PICK w \in 0..D : \E b \in [1..(8 * w) -> BOOLEAN] :
                          n <= 8 * w /\ Begins(b, first, n) /\ Begins(data, Bytes(b), w)
  BY DEF Packed
<1>2. PICK bits \in [1..(8 * w) -> BOOLEAN] :
             n <= 8 * w /\ Begins(bits, first, n) /\ Begins(data, Bytes(bits), w)
  BY <1>1
<1>3. Bytes(bits) = [j \in 1..w |-> {k \in 0..7 : bits[8 * j - k]}]
  <2>1. w \in Nat
    OBVIOUS
  <2>. QED  BY <2>1, BytesAre
<1>4. ASSUME NEW i \in 1..n PROVE Stream(data)[i] = first[i]
  <2>1. PICK j \in 1..w, k \in 0..7 : i = 8 * j - k
    <3>1. PICK q \in Int, r \in 0..7 : i - 1 = 8 * q + r
      <4>1. (i - 1) \div 8 \in Int /\ (i - 1) % 8 \in 0..7 /\ i - 1 = 8 * ((i - 1) \div 8) + ((i - 1) % 8)
        OBVIOUS
      <4>. QED  BY <4>1
    <3>2. i <= 8 * w
      BY <1>2
    <3>3. q + 1 \in 1..w /\ 7 - r \in 0..7 /\ i = 8 * (q + 1) - (7 - r)
      BY <3>1, <3>2
    <3>. QED  BY <3>3
  <2>2. j \in 1..D /\ i \in Int
    OBVIOUS
  <2>3. BitTold(Stream(data), i, data, j, k)
    BY <2>1, <2>2, StreamBit
  <2>4. data[j] = {m \in 0..7 : bits[8 * j - m]}
    BY <1>2, <1>3 DEF Begins
  <2>5. (k \in data[j]) = bits[i]
    <3>1. bits[i] \in BOOLEAN
      <4>1. i \in 1..(8 * w)
        BY <1>2
      <4>. QED  BY <4>1
    <3>. QED  BY <2>1, <2>4, <3>1
  <2>6. bits[i] = first[i]
    BY <1>2 DEF Begins
  <2>. QED  BY <2>3, <2>5, <2>6 DEF BitTold
<1>. QED  BY <1>4 DEF Begins

Shows(bits, from, n, S) == \A k \in 0..(n - 1) : bits[from + n - k] = (k \in S)

\* The number they tell.
LEMMA NumberIs ==
  ASSUME NEW bits, NEW from \in Nat, NEW n \in Nat, NEW S \in SUBSET (0..(n - 1)),
         Shows(bits, from, n, S)
  PROVE  Number(bits, from, n) = Value(S)
<1>1. {k \in 0..(n - 1) : bits[from + n - k]} = S
  BY DEF Shows
<1>. QED  BY <1>1 DEF Number

TextTold(bits, bytes, l, c) ==
  /\ Number(bits, 0, 4) = Value({2})
  /\ Number(bits, 4, c) = Value({k \in 0..(c - 1) : k \in BitsIn(l)})
  /\ \A k \in 1..l : Number(bits, 4 + c + 8 * (k - 1), 8) = Value(bytes[k])

\* Bits that begin with mode, length and text tell mode, length and text.
LEMMA TextRead ==
  ASSUME NEW v \in 1..10, NEW bytes \in Seq(Byte), NEW l \in Nat, l = Len(bytes),
         NEW c \in Nat, NEW n \in Nat, n = 4 + c + 8 * l, NEW first, Headed(first, bytes, l, c),
         NEW bits, Begins(bits, first, n)
  PROVE  TextTold(bits, bytes, l, c)
<1>1. Number(bits, 0, 4) = Value({2})
  <2>1. ASSUME NEW k \in 0..(4 - 1) PROVE bits[0 + 4 - k] = (k \in {2})
    <3>1. 4 - k \in 1..n /\ 0 + 4 - k = 4 - k
      OBVIOUS
    <3>2. bits[4 - k] = first[4 - k]
      BY <3>1 DEF Begins
    <3>3. first[4 - k] = (k = 2)
      <4>1. /\ (k = 0 /\ 4 - k = 4) \/ (k = 1 /\ 4 - k = 3) \/ (k = 2 /\ 4 - k = 2) \/ (k = 3 /\ 4 - k = 1)
        OBVIOUS
      <4>. QED  BY <4>1 DEF Headed
    <3>. QED  BY <3>1, <3>2, <3>3
  <2>2. {2} \in SUBSET (0..(4 - 1)) /\ 0 \in Nat /\ 4 \in Nat
    OBVIOUS
  <2>3. Shows(bits, 0, 4, {2})
    BY <2>1 DEF Shows
  <2>. QED  BY <2>2, <2>3, NumberIs
<1>2. Number(bits, 4, c) = Value({k \in 0..(c - 1) : k \in BitsIn(l)})
  <2>. DEFINE S == {k \in 0..(c - 1) : k \in BitsIn(l)}
  <2>1. ASSUME NEW k \in 0..(c - 1) PROVE bits[4 + c - k] = (k \in S)
    <3>1. PICK i \in 1..c : i = c - k /\ c - i = k /\ 4 + c - k = 4 + i /\ 4 + i \in 1..n
      <4>1. c - k \in 1..c /\ c - (c - k) = k /\ 4 + c - k = 4 + (c - k) /\ 4 + (c - k) \in 1..n
        OBVIOUS
      <4>. QED  BY <4>1
    <3>2. bits[4 + i] = first[4 + i]
      BY <3>1 DEF Begins
    <3>3. first[4 + i] = ((c - i) \in BitsIn(l))
      BY DEF Headed
    <3>. QED  BY <3>1, <3>2, <3>3
  <2>2. S \in SUBSET (0..(c - 1)) /\ 4 \in Nat
    OBVIOUS
  <2>. HIDE DEF S
  <2>3. Number(bits, 4, c) = Value(S)
    <3>1. Shows(bits, 4, c, S)
      BY <2>1 DEF Shows
    <3>. QED  BY <2>2, <3>1, NumberIs
  <2>. QED  BY <2>3 DEF S
<1>3. ASSUME NEW k \in 1..l PROVE Number(bits, 4 + c + 8 * (k - 1), 8) = Value(bytes[k])
  <2>1. PICK from \in Nat : from = 4 + c + 8 * (k - 1)
    OBVIOUS
  <2>2. bytes \in [1..l -> Byte]
    BY LenProperties
  <2>3. PICK s \in Byte : s = bytes[k]
    BY <2>2
  <2>4. ASSUME NEW m \in 0..(8 - 1) PROVE bits[from + 8 - m] = (m \in s)
    <3>1. PICK i \in Int : i = 8 * k - m
      <4>1. 8 * k - m \in Int
        OBVIOUS
      <4>. QED  BY <4>1
    <3>2. m \in 0..7
      OBVIOUS
    <3>3. i \in 1..(8 * l) /\ BitTold(Stream(bytes), i, bytes, k, m)
      BY <2>2, <3>1, <3>2, StreamBit
    <3>4. from + 8 - m = (4 + c) + i /\ (4 + c) + i \in 1..n
      BY <2>1, <3>1, <3>3
    <3>5. bits[(4 + c) + i] = first[(4 + c) + i]
      BY <3>4 DEF Begins
    <3>6. first[(4 + c) + i] = Stream(bytes)[i]
      BY <3>3 DEF Headed
    <3>. QED  BY <2>3, <3>3, <3>4, <3>5, <3>6 DEF BitTold
  <2>5. s \in SUBSET (0..(8 - 1)) /\ 8 \in Nat
    BY DEF Byte
  <2>6. Number(bits, from, 8) = Value(s)
    <3>1. Shows(bits, from, 8, s)
      BY <2>4 DEF Shows
    <3>. QED  BY <2>5, <3>1, NumberIs
  <2>. QED  BY <2>1, <2>3, <2>6
<1>. QED  BY <1>1, <1>2, <1>3 DEF TextTold

(***************************************************************************)
(* The invariant of encode_qr_matrix.                                      *)
(***************************************************************************)
Sized == stage # "text" /\ stage # "refused" => version \in 1..10 /\ Fits(Len(payload), version)

QrInv ==
  /\ payload \in Seq(Byte)
  /\ Sized
  /\ stage \in {"encoded", "placed", "drawn"}
       => codewords = Sent(DataCodewords(payload, version), version)
  /\ stage = "placed" => dark = Placed(codewords, version)
  /\ stage = "drawn" => dark = Drawn(codewords, version)

\* The invariant holds of every step of encode_qr_matrix.
LEMMA QrInductive == QrSpec => []QrInv
<1>1. QrInit => QrInv
  BY PayloadBytes DEF QrInit, QrInv, Sized
<1>2. ASSUME QrInv, [QrNext]_qrVars PROVE QrInv'
  <2>1. CASE SelectVersion
    <3>1. PICK fitting : fitting = {v \in 1..10 : Fits(Len(payload), v)}
      OBVIOUS
    <3>2. CASE fitting = {}
      <4>1. stage' = "refused" /\ payload' = payload
        BY <2>1, <3>1, <3>2 DEF SelectVersion
      <4>. QED  BY <1>2, <4>1 DEF QrInv, Sized
    <3>3. CASE fitting # {}
      <4>1. stage' = "sized" /\ payload' = payload /\ version' = Min(fitting)
        BY <2>1, <3>1, <3>3 DEF SelectVersion
      <4>2. Min(fitting) \in fitting
        <5>1. fitting \in SUBSET Nat
          BY <3>1
        <5>2. \E m \in fitting : \A n \in fitting : m <= n
          BY <3>3, <5>1, LeastNat
        <5>. QED  BY <5>2 DEF Min
      <4>3. version' \in 1..10 /\ Fits(Len(payload), version')
        BY <3>1, <4>1, <4>2
      <4>4. Sized'
        BY <4>1, <4>3 DEF Sized
      <4>. QED  BY <1>2, <4>1, <4>4 DEF QrInv
    <3>. QED  BY <3>2, <3>3
  <2>2. CASE Encode
    <3>1. stage = "sized" /\ stage' = "encoded" /\ payload' = payload /\ version' = version
      BY <2>2 DEF Encode
    <3>2. Sized'
      BY <1>2, <3>1 DEF QrInv, Sized, Fits
    <3>3. codewords' = Sent(DataCodewords(payload, version), version)
      BY <2>2 DEF Encode, Sent, Errors
    <3>. QED  BY <1>2, <3>1, <3>2, <3>3 DEF QrInv
  <2>3. CASE PlaceCodewords
    <3>1. /\ stage = "encoded" /\ stage' = "placed" /\ payload' = payload /\ version' = version
          /\ codewords' = codewords
      BY <2>3 DEF PlaceCodewords
    <3>2. Sized'
      BY <1>2, <3>1 DEF QrInv, Sized
    <3>3. dark' = Placed(codewords, version)
      BY <2>3 DEF PlaceCodewords, Placed
    <3>. QED  BY <1>2, <3>1, <3>2, <3>3 DEF QrInv
  <2>4. CASE DrawFormat
    <3>1. /\ stage = "placed" /\ stage' = "drawn" /\ payload' = payload /\ version' = version
          /\ codewords' = codewords
      BY <2>4 DEF DrawFormat
    <3>2. Sized'
      BY <1>2, <3>1 DEF QrInv, Sized
    <3>3. dark' = Drawn(codewords, version)
      <4>1. dark = Placed(codewords, version)
        BY <1>2, <3>1 DEF QrInv
      <4>. QED  BY <2>4, <4>1 DEF DrawFormat, Drawn
    <3>. QED  BY <1>2, <3>1, <3>2, <3>3 DEF QrInv
  <2>5. CASE UNCHANGED qrVars
    BY <1>2, <2>5 DEF QrInv, Sized, qrVars
  <2>. QED  BY <1>2, <2>1, <2>2, <2>3, <2>4, <2>5 DEF QrNext
<1>. QED  BY <1>1, <1>2, PTL DEF QrSpec

\* What is known of a code that was encoded.
Encoded(data, D, T, l) ==
  /\ version \in 1..10 /\ payload \in Seq(Byte) /\ l = Len(payload) /\ l \in 0..D
  /\ D \in Nat /\ D = DataLength(version) /\ T \in Nat
  /\ T = D + Len(Lengths(version)) * ErrorLength(version)
  /\ data \in [1..D -> Byte]
  /\ Packed(data, Bits(payload, version), 4 + CountBits(version) + 8 * l, D)
  /\ Headed(Bits(payload, version), payload, l, CountBits(version))
  /\ codewords = Sent(data, version) /\ codewords \in [1..T -> Byte]

\* From encoding on, there is data of this kind behind the codewords.
LEMMA QrEncoded ==
  ASSUME QrInv, stage \in {"encoded", "placed", "drawn"}
  PROVE  \E data, D, T, l : Encoded(data, D, T, l)
<1>1. /\ version \in 1..10 /\ Fits(Len(payload), version) /\ payload \in Seq(Byte)
      /\ codewords = Sent(DataCodewords(payload, version), version)
  BY DEF QrInv, Sized
<1>2. PICK D, l \in Nat : D = DataLength(version) /\ l = Len(payload)
  <2>1. DataLength(version) \in Nat
    BY <1>1, LengthsAre
  <2>2. Len(payload) \in Nat
    BY <1>1
  <2>. QED  BY <2>1, <2>2
<1>3. PICK T \in Nat : T = D + Len(Lengths(version)) * ErrorLength(version)
  <2>1. Len(Lengths(version)) \in Nat /\ ErrorLength(version) \in Nat
    BY <1>1, LengthsAre
  <2>2. Len(Lengths(version)) * ErrorLength(version) \in Nat
    BY <2>1
  <2>. QED  BY <2>2
<1>4. PICK data : data = DataCodewords(payload, version)
  OBVIOUS
<1>5. /\ data \in [1..D -> Byte]
      /\ Packed(data, Bits(payload, version), 4 + CountBits(version) + 8 * l, D)
      /\ Headed(Bits(payload, version), payload, l, CountBits(version))
  BY <1>1, <1>2, <1>4, DataAre
<1>6. codewords \in [1..T -> Byte]
  BY <1>1, <1>2, <1>3, <1>4, <1>5, SentBytes
<1>7. l \in 0..D
  <2>1. PICK c \in Nat : c = CountBits(version)
    BY <1>1, CountBitsNat
  <2>2. l <= (D * 8 - 4 - c) \div 8
    BY <1>1, <1>2, <2>1 DEF Fits
  <2>3. (D * 8 - 4 - c) \div 8 <= D
    OBVIOUS
  <2>. QED  BY <2>2, <2>3
<1>. QED  BY <1>1, <1>2, <1>3, <1>4, <1>5, <1>6, <1>7 DEF Encoded

\* Every block of every code can be corrected: it is divided by all roots of
\* its generator, whatever the payload and its version.
THEOREM Correctable == QrSpec => []BlocksCorrectable
<1>1. QrInv => BlocksCorrectable
  <2>1. SUFFICES ASSUME QrInv, stage = "encoded"
                 PROVE  Divided(codewords, version)
    BY DEF BlocksCorrectable, Divided
  <2>2. PICK data, D, T, l : Encoded(data, D, T, l)
    BY <2>1, QrEncoded
  <2>. QED  BY <2>2, SentDivided DEF Encoded
<1>. QED  BY <1>1, QrInductive, PTL

\* Every code that was drawn is read back, whatever the payload: the reader
\* finds the format, the mode, the length and every byte of the text.
THEOREM Readable == QrSpec => []ReadsBack
<1>1. QrInv => ReadsBack
  <2>1. SUFFICES ASSUME QrInv, stage = "drawn",
                        NEW bits, bits = Stream(ReadData(ReadBlocks(Bytes(
                          [i \in DOMAIN ZigZag(version) |->
                             (ZigZag(version)[i] \in dark) # Masked(ZigZag(version)[i])]),
                          version), version))
                 PROVE  /\ SymDiff(ReadFormat([i \in 0..14 |-> SecondCopy(i, version)]), BitsIn(21522))
                             = WithRemainder({3}, BitsIn(1335))
                        /\ Walk(ZigZag(version), version)
                        /\ Number(bits, 0, 4) = 4
                        /\ Number(bits, 4, CountLength(version)) = Len(payload)
                        /\ \A k \in DOMAIN payload :
                             Number(bits, 4 + CountLength(version) + 8 * (k - 1), 8) = Value(payload[k])
    BY DEF ReadsBack
  <2>2. PICK data, D, T, l : Encoded(data, D, T, l)
    BY <2>1, QrEncoded
  <2>3. PICK v \in 1..10 : v = version
    BY <2>2 DEF Encoded
  <2>4. dark = Drawn(codewords, v)
    BY <2>1, <2>3 DEF QrInv
  <2>5. SymDiff(ReadFormat([i \in 0..14 |-> SecondCopy(i, v)]), BitsIn(21522))
          = WithRemainder({3}, BitsIn(1335))
    BY <2>4, FormatRead
  <2>6. Walk(ZigZag(v), v)
    BY PathIs
  <2>7. Bytes([i \in DOMAIN ZigZag(v) |-> (ZigZag(v)[i] \in dark) # Masked(ZigZag(v)[i])]) = codewords
    BY <2>2, <2>3, <2>4, WordsRead DEF Encoded
  <2>8. ReadData(ReadBlocks(codewords, v), v) = data
    <3>1. HoldParts(ReadBlocks(Sent(data, v), v), data, v)
      BY <2>2, <2>3, BlocksHoldParts DEF Encoded
    <3>2. codewords = Sent(data, v)
      BY <2>2, <2>3 DEF Encoded
    <3>. QED  BY <2>2, <2>3, <3>1, <3>2, DataRead DEF Encoded
  <2>9. PICK c \in Nat : c = CountBits(v) /\ c = CountLength(v)
    BY DEF CountBits, CountLength
  <2>10. bits = Stream(data)
    BY <2>1, <2>3, <2>7, <2>8
  <2>11. PICK first : first = Bits(payload, v)
    OBVIOUS
  <2>12. PICK n \in Nat : n = 4 + c + 8 * l
    BY <2>2, <2>9 DEF Encoded
  <2>13. Begins(bits, first, n)
    BY <2>2, <2>3, <2>9, <2>10, <2>11, <2>12, StreamBegins DEF Encoded
  <2>14. Headed(first, payload, l, c)
    BY <2>2, <2>3, <2>9, <2>11 DEF Encoded
  <2>15. l \in Nat /\ l = Len(payload) /\ payload \in Seq(Byte) /\ DOMAIN payload = 1..l
    <3>1. l \in Nat /\ l = Len(payload) /\ payload \in Seq(Byte)
      BY <2>2 DEF Encoded
    <3>. QED  BY <3>1, LenProperties
  <2>16. /\ Number(bits, 0, 4) = Value({2})
         /\ Number(bits, 4, c) = Value({k \in 0..(c - 1) : k \in BitsIn(l)})
         /\ \A k \in 1..l : Number(bits, 4 + c + 8 * (k - 1), 8) = Value(payload[k])
    <3>1. TextTold(bits, payload, l, c)
      BY <2>12, <2>13, <2>14, <2>15, TextRead
    <3>. QED  BY <3>1 DEF TextTold
  <2>17. Value({2}) = 4 /\ Value({k \in 0..(c - 1) : k \in BitsIn(l)}) = l
    <3>1. Value({2}) = 4
      BY Versions
    <3>2. l \in 0..DataLength(v)
      BY <2>2, <2>3 DEF Encoded
    <3>3. Value({k \in 0..(CountLength(v) - 1) : k \in BitsIn(l)}) = l
      BY <3>2, Versions
    <3>. QED  BY <2>9, <3>1, <3>3
  <2>18. /\ Number(bits, 0, 4) = 4 /\ Number(bits, 4, CountLength(v)) = Len(payload)
         /\ \A k \in DOMAIN payload : Number(bits, 4 + CountLength(v) + 8 * (k - 1), 8) = Value(payload[k])
    BY <2>9, <2>15, <2>16, <2>17
  <2>. QED  BY <2>3, <2>5, <2>6, <2>18
<1>. QED  BY <1>1, QrInductive, PTL
=============================================================================
