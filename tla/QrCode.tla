------------------------------- MODULE QrCode -------------------------------
(***************************************************************************)
(* The QR code of a payment order (app/core/services/qr_svg.py): byte      *)
(* mode, error correction level L, versions 1 to 10, always mask 0.        *)
(*                                                                         *)
(* A byte is the set of its bits that are 1 and a polynomial over GF(2)    *)
(* the set of its exponents, so an exclusive or is a symmetric difference. *)
(* A matrix is the set of its dark modules, a module a pair <<row, col>>   *)
(* counted from 0.  Lists are sequences, counted from 1.                   *)
(*                                                                         *)
(* A behaviour takes one payload through the four steps of                 *)
(* encode_qr_matrix; \E x \in {e} names a value that is computed once.    *)
(***************************************************************************)
EXTENDS Integers, Sequences, SequencesExt, FiniteSetsExt

CONSTANT Payloads   \* the texts to draw: sequences of bytes

VARIABLES
  stage,      \* how far encode_qr_matrix has come
  payload,    \* text.encode("utf-8")
  version,
  codewords,  \* what _encode_codewords returned
  dark        \* the dark modules of the grid

qrVars == <<stage, payload, version, codewords, dark>>

(***************************************************************************)
(* Arithmetic.                                                             *)
(***************************************************************************)
Byte       == SUBSET (0..7)
BitsIn(n)  == {k \in 0..15 : (n \div 2^k) % 2 = 1}
Value(s)   == SumSet({2^k : k \in s})

ASSUME PayloadBytes == Payloads \subseteq Seq(Byte)

\* One step of a division: p times x, less the divisor when it goes in.
Step(p, divisor) ==
  LET shifted == {k + 1 : k \in p}
  IN  IF Max(divisor) \in shifted THEN SymDiff(shifted, divisor) ELSE shifted

FieldPolynomial == {8, 4, 3, 2, 0}    \* 0x11D

Shift(b) == Step(b, FieldPolynomial)

\* Eight powers of x times b.
Eight(b) ==
  LET c == Shift(Shift(b))   d == Shift(Shift(c))   e == Shift(Shift(d))
  IN  <<b, Shift(b), c, Shift(c), d, Shift(d), e, Shift(e)>>

\* _GF_EXP: the powers of x modulo the field polynomial, from x^0 on.
Powers ==
  LET first[n \in 0..31] ==
        IF n = 0 THEN Eight({0})
        ELSE LET s == first[n - 1] IN s \o Eight(Shift(s[Len(s)]))
  IN  first[31]

\* Each is the one before times x; they run through all bytes but 0, each
\* once, and begin again.
ASSUME PowersCycle ==
  /\ {Powers[n] : n \in 1..255} = Byte \ {{}} /\ Powers[1] = {0} /\ Powers[256] = {0}
  /\ \A m, n \in 1..255 : Powers[m] = Powers[n] => m = n
  /\ \A n \in 1..255 : Powers[n + 1] = Shift(Powers[n])

Power(i) == Powers[(i % 255) + 1]

\* _GF_LOG
Exponent == [b \in Byte \ {{}} |-> CHOOSE i \in 0..254 : Power(i) = b]

Mul(a, b) == IF a = {} \/ b = {} THEN {} ELSE Power(Exponent[a] + Exponent[b])

\* A polynomial, highest coefficient first, times (x - x^i).
TimesRoot(poly, i) ==
  [j \in 1..(Len(poly) + 1) |->
     SymDiff(IF j <= Len(poly) THEN poly[j] ELSE {},
             IF j > 1 THEN Mul(poly[j - 1], Power(i)) ELSE {})]

\* (mutated: the roots begin at x^1)
GeneratorShifted(degree) ==
  LET product[n \in 0..degree] == IF n = 0 THEN << {0} >> ELSE TimesRoot(product[n - 1], n)
  IN  product[degree]

\* The product of (x - x^i), i < degree.
Generator(degree) ==
  LET product[n \in 0..degree] == IF n = 0 THEN << {0} >> ELSE TimesRoot(product[n - 1], n - 1)
  IN  product[degree]

\* One step of the division of the data, as a polynomial, by a generator.
Divide(rem, byte, gen) ==
  [i \in DOMAIN rem |-> SymDiff(IF i < Len(rem) THEN rem[i + 1] ELSE {},
                                Mul(gen[i + 1], SymDiff(byte, rem[1])))]

\* What remains after the bytes up to `to', from what remained at `from'.
Remainder(rem, data, from, to, gen) ==
  LET after[k \in 0..to] == IF k <= from THEN rem ELSE Divide(after[k - 1], data[k], gen)
  IN  after[to]

\* One half after the other: the recursion goes as deep as the bytes it reads.
ErrorCodewords(data, gen) ==
  LET half == Len(data) \div 2
      zero == [i \in 1..(Len(gen) - 1) |-> {}]
  IN  CHOOSE rem \in {Remainder(mid, data, half, Len(data), gen) :
                        mid \in {Remainder(zero, data, 0, half, gen)}} : TRUE

(***************************************************************************)
(* From bytes to codewords.                                                *)
(***************************************************************************)
\* _VERSION_SPECS_L: data codewords of each block, error codewords per block.
SpecsL == <<
  [blocks |-> <<19>>, ec |-> 7],       [blocks |-> <<34>>, ec |-> 10],
  [blocks |-> <<55>>, ec |-> 15],      [blocks |-> <<80>>, ec |-> 20],
  [blocks |-> <<108>>, ec |-> 26],     [blocks |-> <<68, 68>>, ec |-> 18],
  [blocks |-> <<78, 78>>, ec |-> 20],  [blocks |-> <<97, 97>>, ec |-> 24],
  [blocks |-> <<116, 116>>, ec |-> 30],[blocks |-> <<68, 68, 69, 69>>, ec |-> 18] >>

Sum(seq)       == FoldLeft(LAMBDA a, b : a + b, 0, seq)
Lengths(v)     == SpecsL[v].blocks
ErrorLength(v) == SpecsL[v].ec
DataLength(v)  == Sum(Lengths(v))

\* (mutated: the length always takes a byte)
CountBits8(v) == 8

CountBits(v) == IF v <= 9 THEN 8 ELSE 16

Fits(n, v) == n <= (DataLength(v) * 8 - 4 - CountBits(v)) \div 8

SelectVersion ==
  /\ stage = "text"
  /\ LET fitting == {v \in 1..10 : Fits(Len(payload), v)}
     IN  IF fitting = {} THEN stage' = "refused" /\ UNCHANGED version
                         ELSE stage' = "sized" /\ version' = Min(fitting)
  /\ UNCHANGED <<payload, codewords, dark>>

BitList(s, n) == [k \in 1..n |-> (n - k) \in s]
Stream(bytes) == [i \in 1..(8 * Len(bytes)) |-> (7 - ((i - 1) % 8)) \in bytes[(i - 1) \div 8 + 1]]
Bytes(bits)   == [j \in 1..(Len(bits) \div 8) |-> {k \in 0..7 : bits[8 * j - k]}]

\* Mode, length and payload.
Bits(bytes, v) ==
  <<FALSE, TRUE, FALSE, FALSE>> \o BitList(BitsIn(Len(bytes)), CountBits(v)) \o Stream(bytes)

Terminated(bits, v) == bits \o [k \in 1..Min({4, 8 * DataLength(v) - Len(bits)}) |-> FALSE]
Aligned(bits)       == bits \o [k \in 1..((8 - (Len(bits) % 8)) % 8) |-> FALSE]

\* 0xEC, 0x11
ASSUME PadBytes == BitsIn(236) \in Byte /\ BitsIn(17) \in Byte

Padded(words, v) ==
  words \o [k \in 1..(DataLength(v) - Len(words)) |-> IF k % 2 = 1 THEN BitsIn(236) ELSE BitsIn(17)]

DataCodewords(bytes, v) == Padded(Bytes(Aligned(Terminated(Bits(bytes, v), v))), v)

\* Where block b begins in the data.
Offset(b, v) == Sum(SubSeq(Lengths(v), 1, b - 1))

Blocks(data, v) ==
  [b \in DOMAIN Lengths(v) |-> SubSeq(data, Offset(b, v) + 1, Offset(b, v) + Lengths(v)[b])]

\* The places of blocks of these lengths in the order they are sent: the
\* first byte of every block, then the second of every block that has one...
Woven(lengths) ==
  LET b     == Len(lengths)
      cells == [n \in 1..(b * Max(Range(lengths))) |->
                  [block |-> ((n - 1) % b) + 1, at |-> (n - 1) \div b + 1]]
  IN  SelectSeq(cells, LAMBDA c : c.at <= lengths[c.block])

Interleaved(blocks) ==
  LET order == Woven([b \in DOMAIN blocks |-> Len(blocks[b])])
  IN  [n \in DOMAIN order |-> blocks[order[n].block][order[n].at]]

Encode ==
  /\ stage = "sized"
  /\ \E blocks \in {Blocks(DataCodewords(payload, version), version)} :
       \E gen \in {Generator(ErrorLength(version))} :
         \E errors \in {[b \in DOMAIN blocks |-> ErrorCodewords(blocks[b], gen)]} :
           codewords' = Interleaved(blocks) \o Interleaved(errors)
  /\ stage' = "encoded"
  /\ UNCHANGED <<payload, version, dark>>

(***************************************************************************)
(* The patterns of a version: the modules they reserve and the dark ones.  *)
(***************************************************************************)
Size(v)    == 17 + 4 * v
Grid(v)    == (0..(Size(v) - 1)) \X (0..(Size(v) - 1))
Distance(a, b) == IF a > b THEN a - b ELSE b - a

\* The distance of a module from a centre, in rings.
Ring(m, centre) == Max({Distance(m[1], centre[1]), Distance(m[2], centre[2])})

\* A square of modules around a centre, as far as it lies on the grid.
Around(centre, n, v) ==
  {m \in ((centre[1] - n)..(centre[1] + n)) \X ((centre[2] - n)..(centre[2] + n)) : m \in Grid(v)}

FinderCentres(v) == {<<3, 3>>, <<3, Size(v) - 4>>, <<Size(v) - 4, 3>>}
FinderArea(v)    == UNION {Around(c, 4, v) : c \in FinderCentres(v)}
FinderDark(v)    ==
  UNION {{m \in Around(c, 4, v) : Ring(m, c) \in {0, 1, 3}} : c \in FinderCentres(v)}

TimingArea(v) == {<<6, i>> : i \in 8..(Size(v) - 9)} \cup {<<i, 6>> : i \in 8..(Size(v) - 9)}
TimingDark(v) == {m \in TimingArea(v) : (m[1] + m[2]) % 2 = 0}

AlignmentAt == << {}, {6, 18}, {6, 22}, {6, 26}, {6, 30}, {6, 34},
                  {6, 22, 38}, {6, 24, 42}, {6, 26, 46}, {6, 28, 50} >>
AlignmentCentres(v) ==
  (AlignmentAt[v] \X AlignmentAt[v]) \ {<<6, 6>>, <<6, Size(v) - 7>>, <<Size(v) - 7, 6>>}
AlignmentArea(v) == UNION {Around(c, 2, v) : c \in AlignmentCentres(v)}
AlignmentDark(v) ==
  UNION {{m \in Around(c, 2, v) : Ring(m, c) \in {0, 2}} : c \in AlignmentCentres(v)}

FormatArea(v) ==
  {<<8, i>> : i \in 0..8 \ {6}} \cup {<<i, 8>> : i \in 0..8 \ {6}}
    \cup {<<8, Size(v) - 1 - i>> : i \in 0..7} \cup {<<Size(v) - 1 - i, 8>> : i \in 0..7}

\* A value and the remainder of its division, as Bose-Chaudhuri-Hocquenghem
\* codes append it.
WithRemainder(value, divisor) ==
  LET n   == Max(divisor)
      rem == FoldLeft(LAMBDA r, i : Step(r, divisor), value, [i \in 1..n |-> i])
  IN  {k + n : k \in value} \cup rem

VersionBits(v) == WithRemainder(BitsIn(v), BitsIn(7973))       \* 0x1F25
VersionArea(v) ==
  IF v < 7 THEN {}
  ELSE {m \in Grid(v) : \E i \in {1, 2} :
          m[i] \in 0..5 /\ m[3 - i] \in (Size(v) - 11)..(Size(v) - 9)}
VersionDark(v) ==
  {m \in VersionArea(v) : 3 * Min({m[1], m[2]}) + Max({m[1], m[2]}) - (Size(v) - 11) \in VersionBits(v)}

\* The places reserved for the format are light until it is drawn.
FunctionArea(v) == FinderArea(v) \cup TimingArea(v) \cup AlignmentArea(v)
                     \cup FormatArea(v) \cup VersionArea(v)
FunctionDark(v) == FinderDark(v) \cup (TimingDark(v) \ AlignmentArea(v)) \cup AlignmentDark(v)
                     \cup {<<Size(v) - 8, 8>>} \cup VersionDark(v)

(***************************************************************************)
(* Placement of the codewords, the mask and the format.                    *)
(***************************************************************************)
\* The free modules in the order they are filled: two columns at a time from
\* the right, leaving out column 6, by turns upwards and downwards.
ZigZag(v) ==
  LET n       == Size(v)
      area    == FunctionArea(v)
      right(k) == IF n - 1 - 2 * k > 6 THEN n - 1 - 2 * k ELSE n - 2 - 2 * k
      cell(i) == LET k   == i \div (2 * n)
                     off == (i % (2 * n)) \div 2
                 IN  << IF k % 2 = 0 THEN n - 1 - off ELSE off, right(k) - (i % 2) >>
  IN  SelectSeq([i \in 1..(n * (n - 1)) |-> cell(i - 1)], LAMBDA m : m \notin area)

Masked(m) == (m[1] + m[2]) % 2 = 0

PlaceCodewords ==
  /\ stage = "encoded"
  /\ \E path \in {ZigZag(version)}, bits \in {Stream(codewords)} :
         dark' = FunctionDark(version)
                   \cup {path[i] : i \in {j \in DOMAIN path :
                           (j <= Len(bits) /\ bits[j]) # Masked(path[j])}}
  /\ stage' = "placed"
  /\ UNCHANGED <<payload, version, codewords>>

\* Level L and mask 0.
FormatBits == SymDiff(WithRemainder({3}, BitsIn(1335)), BitsIn(21522))   \* 0x537, 0x5412

\* Where _draw_format_bits puts bit i, in the corner and along two edges.
FirstCopy(i) == IF i < 6 THEN <<8, i>> ELSE IF i = 6 THEN <<8, 7>> ELSE IF i = 7 THEN <<8, 8>>
                ELSE IF i = 8 THEN <<7, 8>> ELSE <<14 - i, 8>>
SecondCopy(i, v) == IF i < 8 THEN <<8, Size(v) - 1 - i>> ELSE <<Size(v) - 15 + i, 8>>

DrawFormat ==
  /\ stage = "placed"
  /\ dark' = (dark \ FormatArea(version))
               \cup {FirstCopy(i) : i \in FormatBits} \cup {SecondCopy(i, version) : i \in FormatBits}
               \cup {<<Size(version) - 8, 8>>}
  /\ stage' = "drawn"
  /\ UNCHANGED <<payload, version, codewords>>

QrInit ==
  /\ stage = "text"
  /\ payload \in Payloads
  /\ version = 0
  /\ codewords = <<>>
  /\ dark = {}

QrNext == SelectVersion \/ Encode \/ PlaceCodewords \/ DrawFormat

QrSpec == QrInit /\ [][QrNext]_qrVars

(***************************************************************************)
(* Properties: a reader that follows ISO/IEC 18004.                        *)
(***************************************************************************)
\* The place of a module in the reader's walk: pairs of columns from the
\* right without column 6, the right one of a pair first, turning at the edge.
Key(m, v) ==
  LET fromRight == Size(v) - 1 - (IF m[2] > 6 THEN m[2] ELSE m[2] + 1)
      pair      == fromRight \div 2
      climb     == IF pair % 2 = 0 THEN Size(v) - 1 - m[1] ELSE m[1]
  IN  2 * (pair * Size(v) + climb) + (fromRight % 2)

\* Where byte j of block b stands among B blocks of which the first ones,
\* short, have n bytes and the others one more.
Stands(j, b, B, short, n) == IF j <= n THEN (j - 1) * B + b ELSE n * B + b - short

DataPlace(j, b, v) ==
  LET n == Min(Range(Lengths(v)))
  IN  Stands(j, b, Len(Lengths(v)), Cardinality({c \in DOMAIN Lengths(v) : Lengths(v)[c] = n}), n)

ErrorPlace(j, b, v) == Stands(j, b, Len(Lengths(v)), Len(Lengths(v)), ErrorLength(v))

ReadBlocks(words, v) ==
  [b \in DOMAIN Lengths(v) |->
     [j \in 1..Lengths(v)[b] |-> words[DataPlace(j, b, v)]]
       \o [j \in 1..ErrorLength(v) |-> words[DataLength(v) + ErrorPlace(j, b, v)]]]

\* For every version these are the places of the order in which they are sent.
ErrorOrder(v) == Woven([b \in DOMAIN Lengths(v) |-> ErrorLength(v)])

ASSUME ReadersPlaces ==
  \A v \in 1..10 :
    /\ Lengths(v) \in Seq(Nat) /\ DataLength(v) \in Nat /\ ErrorLength(v) \in Nat \ {0}
    /\ DOMAIN Woven(Lengths(v)) = 1..DataLength(v)
    /\ DOMAIN ErrorOrder(v) = 1..(Len(Lengths(v)) * ErrorLength(v))
    /\ \A n \in 1..DataLength(v) :
         LET c == Woven(Lengths(v))[n] IN c.block \in DOMAIN Lengths(v) /\ c.at \in 1..Lengths(v)[c.block]
    /\ \A n \in DOMAIN ErrorOrder(v) :
         LET c == ErrorOrder(v)[n] IN c.block \in DOMAIN Lengths(v) /\ c.at \in 1..ErrorLength(v)
    /\ \A b \in DOMAIN Lengths(v) :
         /\ Offset(b, v) \in Nat /\ Offset(b, v) + Lengths(v)[b] <= DataLength(v)
         /\ \A j \in 1..Lengths(v)[b] :
              /\ DataPlace(j, b, v) \in 1..DataLength(v)
              /\ Woven(Lengths(v))[DataPlace(j, b, v)] = [block |-> b, at |-> j]
         /\ \A j \in 1..ErrorLength(v) :
              /\ ErrorPlace(j, b, v) \in DOMAIN ErrorOrder(v)
              /\ ErrorOrder(v)[ErrorPlace(j, b, v)] = [block |-> b, at |-> j]

ReadFormat(dots) == {i \in 0..14 : dots[i] \in dark}

\* Every block that is sent is divided by each root of its generator, so that
\* a reader can correct half as many damaged bytes as it has error codewords.
BlocksCorrectable ==
  stage = "encoded" =>
    LET blocks == ReadBlocks(codewords, version)
    IN  \A b \in DOMAIN blocks, i \in 0..(ErrorLength(version) - 1) :
          LET n     == Len(blocks[b])
              terms == [j \in 1..n |-> Mul(blocks[b][j], Power(i * (n - j)))]
          IN  \A bit \in 0..7 : Cardinality({j \in 1..n : bit \in terms[j]}) % 2 = 0

\* The data of the blocks, one after the other.
ReadData(blocks, v) ==
  LET joined[b \in 0..Len(Lengths(v))] ==
        IF b = 0 THEN <<>> ELSE joined[b - 1] \o SubSeq(blocks[b], 1, Lengths(v)[b])
  IN  joined[Len(Lengths(v))]

\* A walk that passes every free module in the reader's order and leaves less
\* than a byte over.
Walk(path, v) ==
  /\ Range(path) = Grid(v) \ FunctionArea(v)
  /\ \A i \in 2..Len(path) : Key(path[i - 1], v) < Key(path[i], v)
  /\ Len(path) - 8 * (DataLength(v) + Len(Lengths(v)) * ErrorLength(v)) \in 0..7

\* The number in n bits after a place, and how many bits tell the length.
Number(bits, from, n) == Value({k \in 0..(n - 1) : bits[from + n - k]})
CountLength(v)        == IF v < 10 THEN 8 ELSE 16

\* What depends on the version alone.
ASSUME Versions ==
  /\ \A v \in 1..10 :
       /\ Walk(ZigZag(v), v) /\ ZigZag(v) \in Seq(Grid(v)) /\ FunctionDark(v) \subseteq FunctionArea(v)
       /\ Offset(1, v) = 0 /\ Offset(Len(Lengths(v)) + 1, v) = DataLength(v)
       /\ \A b \in DOMAIN Lengths(v) : Offset(b + 1, v) = Offset(b, v) + Lengths(v)[b]
       /\ \A n \in 0..DataLength(v) : Value({k \in 0..(CountLength(v) - 1) : k \in BitsIn(n)}) = n
  /\ Value({2}) = 4 /\ FormatBits \subseteq 0..14

\* A reader that takes the format from the edges gets the payload back: the
\* bytes on the walk, unmasked and sorted into blocks, begin with mode,
\* length and text.
ReadsBack ==
  stage = "drawn" =>
    LET path  == ZigZag(version)
        words == Bytes([i \in DOMAIN path |-> (path[i] \in dark) # Masked(path[i])])
        data  == ReadData(ReadBlocks(words, version), version)
        bits  == Stream(data)
        text  == 4 + CountLength(version)
    IN  /\ SymDiff(ReadFormat([i \in 0..14 |-> SecondCopy(i, version)]), BitsIn(21522))
             = WithRemainder({3}, BitsIn(1335))
        /\ Walk(path, version)
        /\ Number(bits, 0, 4) = 4
        /\ Number(bits, 4, CountLength(version)) = Len(payload)
        /\ \A k \in DOMAIN payload : Number(bits, text + 8 * (k - 1), 8) = Value(payload[k])

\* The format stands twice in the matrix, and a reader may take either copy:
\* in the corner it reads down column 8 and then back along row 8.
CopiesAgree ==
  stage = "drawn" =>
    LET corner(i) == IF i < 6 THEN <<i, 8>> ELSE IF i = 6 THEN <<7, 8>> ELSE IF i = 7 THEN <<8, 8>>
                     ELSE IF i = 8 THEN <<8, 7>> ELSE <<8, 14 - i>>
    IN  ReadFormat([i \in 0..14 |-> corner(i)])
          = ReadFormat([i \in 0..14 |-> SecondCopy(i, version)])
=============================================================================
