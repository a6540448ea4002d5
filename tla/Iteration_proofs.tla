--------------------------- MODULE Iteration_proofs ---------------------------
(***************************************************************************)
(* What holds of constants and loops for integers of every width and for   *)
(* expressions of every length: constants mean to the compiler what they   *)
(* mean to the program, and a loop sees its elements once and in order.    *)
(***************************************************************************)
EXTENDS Iteration, Lemmas

LEMMA Sizes ==
    /\ Half \in Nat /\ Half > 1 /\ Size \in Nat \ {0} /\ Size = Half + Half
    /\ MaxSigned = Half - 1 /\ MaxSigned \in Nat
  BY HalfAssumption DEF Size, MaxSigned

-----------------------------------------------------------------------------
(* Patterns *)

LEMMA WrapInPatterns ==
    ASSUME NEW n \in Int
    PROVE  Wrap(n) \in Patterns
  BY Sizes, DivMod, Zenon DEF Wrap, Patterns

\* A pattern is wrapped to itself.
LEMMA SmallWrap ==
    ASSUME NEW n \in Patterns
    PROVE  Wrap(n) = n
<1>1. n \in 0..Size - 1
  BY DEF Patterns
<1>2. (Size * 0 + n) % Size = n
  BY <1>1, Sizes, ModUnique
<1>3. Size * 0 + n = n
  BY <1>1, Sizes
<1> QED
  BY <1>2, <1>3 DEF Wrap

\* A number that fits is what remains of it with any multiple of Size added.
LEMMA WrapSigned ==
    ASSUME NEW v \in -Half..MaxSigned, NEW k \in Int
    PROVE  /\ Wrap(v + Size * k) \in Patterns
           /\ SignedOf(Wrap(v + Size * k)) = v
<1> DEFINE r == IF v >= 0 THEN v ELSE v + Size
           q == IF v >= 0 THEN k ELSE k - 1
<1>1. r \in 0..Size - 1 /\ q \in Int
  BY Sizes
<1>2. v + Size * k = Size * q + r
  <2>1. CASE v >= 0
    BY Sizes, <2>1
  <2>2. CASE ~(v >= 0)
    <3>1. Size * (k - 1) = Size * k - Size
      BY Sizes
    <3> QED
      BY Sizes, <2>2, <3>1
  <2> QED
    BY <2>1, <2>2
<1>3. Wrap(v + Size * k) = r
  <2> HIDE DEF r, q
  <2> QED
    BY <1>1, <1>2, Sizes, ModUnique DEF Wrap
<1>4. SignedOf(r) = v
  BY Sizes DEF SignedOf
<1> QED
  BY <1>1, <1>3, <1>4 DEF Patterns

LEMMA WrapFits ==
    ASSUME NEW v \in -Half..MaxSigned
    PROVE  Wrap(v) \in Patterns /\ SignedOf(Wrap(v)) = v
<1>1. v + Size * 0 = v /\ 0 \in Int
  BY Sizes
<1> QED
  BY <1>1, WrapSigned, Zenon

\* Numbers that differ by a multiple of Size have one pattern.
LEMMA SameWrap ==
    ASSUME NEW v \in -Half..MaxSigned, NEW k \in Int
    PROVE  Wrap(v + Size * k) = Wrap(v)
<1>1. /\ Wrap(v + Size * k) \in Patterns /\ SignedOf(Wrap(v + Size * k)) = v
      /\ Wrap(v) \in Patterns /\ SignedOf(Wrap(v)) = v
  BY WrapSigned, WrapFits
<1>2. \A a, b \in Patterns : SignedOf(a) = SignedOf(b) => a = b
  BY Sizes DEF Patterns, SignedOf
<1> QED
  BY <1>1, <1>2, Zenon

\* A pattern and the number it stands for differ by a multiple of Size.
LEMMA SignedDiffers ==
    ASSUME NEW a \in Patterns
    PROVE  /\ SignedOf(a) \in -Half..MaxSigned
           /\ \E k \in {0, 1} : a = SignedOf(a) + Size * k
<1>1. a \in 0..Size - 1
  BY DEF Patterns
<1>2. CASE a < Half
  BY <1>1, <1>2, Sizes DEF SignedOf
<1>3. CASE ~(a < Half)
  BY <1>1, <1>3, Sizes DEF SignedOf
<1> QED
  BY <1>2, <1>3

\* A literal stands for itself.
LEMMA LiteralsStand ==
    ASSUME NEW n \in Literals
    PROVE  n \in 0..MaxSigned /\ n \in Patterns /\ SignedOf(n) = n
  BY Sizes, LiteralsAssumption DEF Patterns, SignedOf

LEMMA QuotientIsInt ==
    ASSUME NEW a \in Int, NEW b \in Int, b # 0
    PROVE  Quotient(a, b) \in Int
<1> DEFINE x == IF a < 0 THEN -a ELSE a
           y == IF b < 0 THEN -b ELSE b
<1>1. x \in Int /\ y \in Nat \ {0}
  OBVIOUS
<1>2. Quotient(a, b) = IF (a < 0) = (b < 0) THEN x \div y ELSE -(x \div y)
  BY DEF Quotient
<1> HIDE DEF x, y
<1>3. x \div y \in Int
  BY <1>1, DivMod, Zenon
<1> QED
  BY <1>2, <1>3

-----------------------------------------------------------------------------
(* Constants *)

\* The five operators, as the program computes them.
LEMMA OpInPatterns ==
    ASSUME NEW a \in Patterns, NEW b \in Patterns, NEW op \in Operators, NEW sg \in BOOLEAN
    PROVE  OpBinary(op, sg, a, b) \in Patterns \cup {Undefined}
<1>1. a \in Int /\ b \in Int
  BY Sizes DEF Patterns
<1> DEFINE x == View(sg, a)
           y == View(sg, b)
           q == Quotient(x, y)
<1>2. x \in Int /\ y \in Int
  BY <1>1, Sizes DEF View, SignedOf
<1>3. y # 0 => q \in Int
  BY <1>2, QuotientIsInt, Zenon
<1>4. /\ OpBinary("+", sg, a, b) = Wrap(a + b)
      /\ OpBinary("-", sg, a, b) = Wrap(a - b)
      /\ OpBinary("*", sg, a, b) = Wrap(a * b)
      /\ OpBinary("/", sg, a, b) = IF y = 0 \/ Traps(sg, x, y) THEN Undefined ELSE Wrap(q)
      /\ OpBinary("%", sg, a, b) = IF y = 0 \/ Traps(sg, x, y) THEN Undefined ELSE Wrap(x - y * q)
  BY DEF OpBinary
<1> HIDE DEF x, y, q
<1>5. a + b \in Int /\ a - b \in Int /\ a * b \in Int /\ (q \in Int => x - y * q \in Int)
  BY <1>1, <1>2
<1> QED
  BY <1>3, <1>4, <1>5, WrapInPatterns, Zenon DEF Operators

\* What the compiler makes of an operation fits, or is no constant.
LEMMA FoldFits ==
    ASSUME NEW op, NEW x, NEW y
    PROVE  Fold(op, x, y) \in Constants \cup {NoConstant, Undefined}
  BY Zenon DEF Fold

\* What an operation gives at compile time is what it gives at run time, whatever the
\* numbers, as long as it gives a constant and does not divide a u32 that is below 0.
LEMMA FoldMeansSource ==
    ASSUME NEW a \in Patterns, NEW n \in Literals, NEW op \in Operators, NEW sg \in BOOLEAN,
           Fold(op, SignedOf(a), n) \notin {NoConstant, Undefined},
           op = "/" /\ ~sg => SignedOf(a) >= 0
    PROVE  OpBinary(op, sg, a, n) = Wrap(Fold(op, SignedOf(a), n))
<1> DEFINE l == SignedOf(a)
           q == Quotient(l, n)
           f == Fold(op, l, n)
<1>1. /\ l \in -Half..MaxSigned /\ n \in 0..MaxSigned /\ SignedOf(n) = n /\ n \in Patterns
      /\ \E k \in {0, 1} : a = l + Size * k
  BY SignedDiffers, LiteralsStand
<1>2. f \in -Half..MaxSigned
  BY FoldFits DEF Constants
<1>3. CASE op \in {"+", "-", "*"}
  <2>1. PICK k \in {0, 1} : a = l + Size * k
    BY <1>1
  <2>2. /\ op = "+" => f = l + n /\ OpBinary(op, sg, a, n) = Wrap(a + n)
        /\ op = "-" => f = l - n /\ OpBinary(op, sg, a, n) = Wrap(a - n)
        /\ op = "*" => f = l * n /\ OpBinary(op, sg, a, n) = Wrap(a * n)
    BY <1>3 DEF Fold, OpBinary
  <2> HIDE DEF l, f
  <2>3. l \in Int /\ n \in Int /\ k \in Int /\ Size \in Int
    BY <1>1, Sizes
  <2>4. /\ a + n = l + n + Size * k
        /\ a - n = l - n + Size * k
    BY <2>1, <2>3
  <2>5. a * n = l * n + Size * (k * n) /\ k * n \in Int
    <3>1. a * n = (l + Size * k) * n
      BY <2>1
    <3> QED
      BY <2>3, <3>1
  <2>6. \E j \in Int : OpBinary(op, sg, a, n) = Wrap(f + Size * j)
    <3>1. CASE op = "+"
      BY <2>2, <2>3, <2>4, <3>1, Zenon
    <3>2. CASE op = "-"
      BY <2>2, <2>3, <2>4, <3>2, Zenon
    <3>3. CASE op = "*"
      BY <2>2, <2>5, <3>3, Zenon
    <3> QED
      BY <1>3, <3>1, <3>2, <3>3
  <2>7. PICK j \in Int : OpBinary(op, sg, a, n) = Wrap(f + Size * j)
    BY <2>6
  <2>8. Wrap(f + Size * j) = Wrap(f)
    BY <1>2, SameWrap
  <2> QED
    BY <2>7, <2>8 DEF f, l
<1>4. CASE op = "/"
  <2>1. n # 0 /\ f = q
    <3>1. n = 0 => f \in {NoConstant, Undefined}
      BY <1>4, Sizes DEF Fold, Constants
    <3>2. n # 0 => f = q \/ f = Undefined
      BY <1>4 DEF Fold
    <3> QED
      BY <3>1, <3>2
  <2>2. ~Traps(sg, l, n)
    <3>1. q \in -Half..MaxSigned
      BY <1>2, <2>1
    <3> HIDE DEF q
    <3>2. ~(q > MaxSigned)
      BY <3>1, Sizes
    <3> QED
      BY <3>2 DEF Traps, q
  <2>3. View(sg, a) = l /\ View(sg, n) = n
    <3>1. CASE sg
      BY <1>1, <3>1 DEF View
    <3>2. CASE ~sg
      <4>1. SignedOf(a) >= 0 => SignedOf(a) = a
        BY Sizes DEF SignedOf, Patterns
      <4> QED
        BY <1>4, <3>2, <4>1 DEF View
    <3> QED
      BY <3>1, <3>2
  <2>4. OpBinary(op, sg, a, n) = Wrap(q)
    BY <1>4, <2>1, <2>2, <2>3 DEF OpBinary
  <2> QED
    BY <2>1, <2>4, Zenon
<1>5. CASE op = "%"
  <2>1. op \notin {"+", "-", "*", "/"}
    BY <1>5
  <2>2. f = NoConstant
    BY <2>1, Zenon DEF Fold
  <2> QED
    BY <2>2
<1> QED
  BY <1>3, <1>4, <1>5 DEF Operators
-----------------------------------------------------------------------------
(* The inductive invariant *)

\* A constant is what the program computes, unless it has been misread.
NumbersOK ==
    /\ is_signed \in BOOLEAN /\ misread \in BOOLEAN
    /\ folded \in Constants \cup {NoConstant, Refused, Undefined}
    /\ computed \in Patterns \cup {Undefined}
    /\ folded \in Constants /\ ~misread => computed = Wrap(folded)

\* What is iterated once the loop has been chosen.
IsArrayLoop == loop.kind = "array" /\ loop.size \in Patterns
IsRangeLoop ==
    /\ loop.kind = "range" /\ loop.signed \in BOOLEAN /\ loop.inclusive \in BOOLEAN
    /\ loop.lo \in Literals /\ loop.hi \in Patterns
LoopOK == IF phase \in {"parsing", "refused", "crashed"} THEN loop = NoLoop ELSE IsArrayLoop \/ IsRangeLoop

Phases == {"parsing", "refused", "crashed", "init", "cond", "body", "update", "end"}

\* The index of an array is at most its size, and below it while the body runs; the
\* element read last is that at the index, unless the body has written.
PlacesOK ==
    /\ phase \in Phases /\ left \in {"no", "broke", "wrote"}
    /\ count \in 0..Size + 1 /\ index \in Patterns
    /\ phase \in {"body", "update"} => count > 0
    /\ value \in Patterns \/ (value = Outside /\ loop.kind = "array")
    /\ phase \in {"parsing", "init"} => index = 0 /\ count = 0 /\ value = 0 /\ reads = {}
    /\ loop.kind = "array" =>
          /\ index \in 0..loop.size /\ reads \subseteq 0..loop.size
          /\ phase \in {"body", "update"} => index < loop.size
          /\ phase \in {"cond", "body", "update"} /\ left # "wrote" => value = Element(index)

\* Where the loop is.
At == IF loop.kind = "array" THEN index ELSE View(loop.signed, value)

\* How many elements the body has seen.
SeenOK ==
    left # "wrote" /\ Bounded =>
        /\ phase = "cond" => At = Lowest + count /\ (count = 0 \/ At <= Beyond)
        /\ phase \in {"body", "update"} => At = Lowest + count - 1 /\ At < Beyond
        /\ phase = "end" /\ left = "no" => count = IF Beyond > Lowest THEN Beyond - Lowest ELSE 0

IInv == NumbersOK /\ LoopOK /\ PlacesOK /\ SeenOK
-----------------------------------------------------------------------------
(* Loops over ranges *)

\* A range that is bounded starts at a literal and ends where integers can still count.
LEMMA RangeFacts ==
    ASSUME IsRangeLoop, Bounded
    PROVE  /\ Lowest = loop.lo /\ Lowest \in 0..MaxSigned
           /\ Beyond \in -Half..Size - 1
           /\ loop.signed \/ loop.inclusive => Beyond <= MaxSigned
<1>1. Lowest = loop.lo /\ Lowest \in 0..MaxSigned
  BY LiteralsStand DEF IsRangeLoop, Lowest
<1>2. loop.hi \in 0..Size - 1 /\ SignedOf(loop.hi) \in -Half..MaxSigned /\ loop.signed \in BOOLEAN
  BY SignedDiffers DEF IsRangeLoop, Patterns
<1> DEFINE hi == loop.hi
           signed == SignedOf(hi)
           view == View(loop.signed, hi)
<1>3. view = IF loop.signed THEN signed ELSE hi
  BY DEF View
<1>4. Beyond = IF loop.inclusive THEN view + 1 ELSE view
  BY DEF Beyond, IsRangeLoop
<1>5. loop.inclusive => signed < MaxSigned /\ (~loop.signed => hi <= MaxSigned)
  BY DEF Bounded, IsRangeLoop
<1>6. hi \in 0..Size - 1 /\ signed \in -Half..MaxSigned
  BY <1>2
<1> HIDE DEF view, signed, hi
<1>7. view \in -Half..Size - 1 /\ (loop.signed => view <= MaxSigned)
  BY <1>3, <1>6, Sizes
<1>8. loop.inclusive => view < MaxSigned
  <2>1. CASE loop.signed
    BY <1>3, <1>5, <2>1
  <2>2. CASE ~loop.signed
    <3>1. hi < Half => signed = hi
      BY DEF signed, SignedOf
    <3>2. hi <= MaxSigned => hi < Half
      BY <1>6, Sizes
    <3> QED
      BY <1>3, <1>5, <2>2, <3>1, <3>2
  <2> QED
    BY <2>1, <2>2
<1>9. CASE loop.inclusive
  <2>1. Beyond = view + 1 /\ view < MaxSigned
    BY <1>4, <1>8, <1>9
  <2>2. Beyond \in -Half..Size - 1 /\ Beyond <= MaxSigned
    BY <1>7, <2>1, Sizes
  <2> QED
    BY <1>1, <2>2
<1>10. CASE ~loop.inclusive
  <2>1. Beyond = view
    BY <1>4, <1>10
  <2> QED
    BY <1>1, <1>7, <1>10, <2>1
<1> QED
  BY <1>9, <1>10

\* The condition of a range is that the value is not beyond its end, although it is
\* compared as a signed number by `<=' and not by `<'.
LEMMA RangeCondition ==
    ASSUME IsRangeLoop, Bounded, value \in Patterns, At >= 0, loop.inclusive => At <= MaxSigned
    PROVE  /\ At \in Int
           /\ Condition <=> At < Beyond
<1> DEFINE hi == loop.hi
           signedHi == SignedOf(hi)
           signedValue == SignedOf(value)
<1>1. /\ value \in 0..Size - 1 /\ hi \in 0..Size - 1 /\ loop.signed \in BOOLEAN /\ loop.inclusive \in BOOLEAN
      /\ loop.kind = "range"
  BY DEF IsRangeLoop, Patterns
<1>2. /\ signedValue = IF value < Half THEN value ELSE value - Size
      /\ signedHi = IF hi < Half THEN hi ELSE hi - Size
  BY DEF SignedOf
<1>3. /\ At = IF loop.signed THEN signedValue ELSE value
      /\ Beyond = IF loop.inclusive THEN (IF loop.signed THEN signedHi ELSE hi) + 1
                  ELSE IF loop.signed THEN signedHi ELSE hi
  BY <1>1 DEF At, Beyond, View
<1>4. Condition = IF loop.inclusive THEN signedValue <= signedHi
                  ELSE IF loop.signed THEN signedValue < signedHi ELSE value < hi
  BY <1>1 DEF Condition, OpBinary, View
<1>5. loop.inclusive => signedHi < MaxSigned /\ (~loop.signed => hi <= MaxSigned)
  BY <1>1 DEF Bounded
<1>6. CASE loop.inclusive
  <2>1. Condition = (signedValue <= signedHi) /\ Beyond = (IF loop.signed THEN signedHi ELSE hi) + 1
    BY <1>3, <1>4, <1>6
  <2>2. At <= MaxSigned /\ At >= 0 /\ signedHi < MaxSigned /\ (~loop.signed => hi <= MaxSigned)
    BY <1>5, <1>6
  <2> HIDE DEF hi, signedHi, signedValue
  <2>3. CASE loop.signed
    <3>1. At = signedValue /\ Beyond = signedHi + 1
      BY <1>3, <2>1, <2>3
    <3>2. signedValue \in Int /\ signedHi \in Int
      BY <1>1, <1>2, Sizes
    <3>3. signedValue <= signedHi <=> signedValue < signedHi + 1
      BY <3>2
    <3> QED
      BY <2>1, <3>1, <3>2, <3>3, Zenon
  <2>4. CASE ~loop.signed
    <3>1. At = value /\ Beyond = hi + 1 /\ value <= MaxSigned /\ hi <= MaxSigned
      BY <1>3, <2>1, <2>2, <2>4
    <3>2. signedValue = value /\ signedHi = hi /\ value \in Int /\ hi \in Int
      BY <1>1, <1>2, <3>1, Sizes
    <3>3. value <= hi <=> value < hi + 1
      BY <3>2
    <3> QED
      BY <2>1, <3>1, <3>2, <3>3, Zenon
  <2> QED
    BY <1>1, <2>3, <2>4
<1>7. CASE ~loop.inclusive
  <2> HIDE DEF hi, signedHi, signedValue
  <2>1. At \in Int
    BY <1>1, <1>2, <1>3, Sizes
  <2> QED
    BY <1>3, <1>4, <1>7, <2>1
<1> QED
  BY <1>1, <1>6, <1>7

\* A value below the end of a bounded range has a successor.
LEMMA RangeUpdate ==
    ASSUME IsRangeLoop, Bounded, value \in Patterns, At >= 0, At < Beyond
    PROVE  At \in Int /\ View(loop.signed, Wrap(value + 1)) = At + 1
<1>1. /\ value \in 0..Size - 1 /\ loop.signed \in BOOLEAN /\ At = View(loop.signed, value)
      /\ Beyond \in -Half..Size - 1 /\ (loop.signed => Beyond <= MaxSigned)
  BY RangeFacts DEF IsRangeLoop, Patterns, At
<1>2. value + 1 \in Patterns /\ View(loop.signed, value + 1) = At + 1 /\ At \in Int
  <2>1. CASE loop.signed
    BY <1>1, <2>1, Sizes DEF View, SignedOf, Patterns
  <2>2. CASE ~loop.signed
    BY <1>1, <2>2, Sizes DEF View, Patterns
  <2> QED
    BY <2>1, <2>2
<1> QED
  BY <1>2, SmallWrap
-----------------------------------------------------------------------------
(* Every step keeps the invariant. *)

LEMMA InitIInv == Init => IInv
<1> SUFFICES ASSUME Init PROVE IInv
  OBVIOUS
<1>1. folded \in 0..MaxSigned /\ folded \in Patterns /\ SignedOf(folded) = folded /\ computed = folded
  BY LiteralsStand DEF Init
<1>2. NumbersOK
  <2>1. is_signed \in BOOLEAN /\ misread \in BOOLEAN
    BY DEF Init
  <2> QED
    BY <1>1, <2>1, SmallWrap, Sizes DEF NumbersOK, Constants
<1>3. loop.kind = "none"
  BY DEF Init, NoLoop
<1>4. PlacesOK
  BY <1>3, Sizes DEF Init, PlacesOK, Phases, Patterns
<1> QED
  BY <1>2, <1>4 DEF Init, IInv, LoopOK, SeenOK

\* The marks for what is no constant are not numbers an i32 holds.
LEMMA MarksAreNoConstants ==
    NoConstant \notin Constants /\ Refused \notin Constants /\ Undefined \notin Constants
  BY Sizes DEF NoConstant, Refused, Undefined, Constants

LEMMA ParseIInv == ASSUME IInv, Parse PROVE IInv'
<1>1. /\ phase = "parsing" /\ folded # Undefined /\ computed # Undefined /\ NumbersOK
      /\ UNCHANGED <<phase, is_signed, loop, value, index, count, reads, left>>
  BY DEF Parse, IInv
<1>2. PICK op \in Operators, n \in Literals :
          /\ folded' = IF folded \in {NoConstant, Refused} THEN Refused ELSE Fold(op, folded, n)
          /\ computed' = OpBinary(op, is_signed, computed, n)
          /\ misread' = (misread \/ (op = "/" /\ ~is_signed /\ folded < 0))
  BY DEF Parse
<1>3. computed \in Patterns /\ n \in Patterns /\ is_signed \in BOOLEAN
  BY <1>1, LiteralsStand DEF NumbersOK
<1>4. computed' \in Patterns \cup {Undefined}
  BY <1>2, <1>3, OpInPatterns
<1>5. folded' \in Constants \cup {NoConstant, Refused, Undefined}
  BY <1>2, FoldFits
<1>6. ASSUME folded' \in Constants, ~misread' PROVE computed' = Wrap(folded')
  <2>1. folded \notin {NoConstant, Refused} /\ folded' = Fold(op, folded, n) /\ folded' \notin {NoConstant, Undefined}
    BY <1>2, <1>6, MarksAreNoConstants
  <2>2. folded \in Constants /\ ~misread /\ computed = Wrap(folded)
    BY <1>1, <1>2, <1>6, <2>1 DEF NumbersOK
  <2>3. SignedOf(computed) = folded /\ folded \in Int
    BY <2>2, WrapFits, Sizes DEF Constants
  <2>4. ~(op = "/" /\ ~is_signed /\ folded < 0)
    BY <1>2, <1>6
  <2> QED
    <3>1. op = "/" /\ ~is_signed => SignedOf(computed) >= 0
      BY <2>3, <2>4
    <3> QED
      BY <1>2, <1>3, <2>1, <2>3, <3>1, FoldMeansSource
<1>7. NumbersOK'
  <2>1. is_signed' \in BOOLEAN /\ misread' \in BOOLEAN
    BY <1>1, <1>2 DEF NumbersOK
  <2> QED
    BY <1>4, <1>5, <1>6, <2>1 DEF NumbersOK, Wrap, Constants, Patterns, Undefined, NoConstant, Refused, Size, MaxSigned
<1>8. LoopOK' /\ PlacesOK'
  BY <1>1 DEF IInv, LoopOK, PlacesOK, Element
<1>9. SeenOK'
  BY <1>1 DEF SeenOK
<1> QED
  BY <1>7, <1>8, <1>9 DEF IInv

LEMMA ForIInv == ASSUME IInv, ForStmt PROVE IInv'
<1>1. /\ phase = "parsing" /\ phase' = "init" /\ folded' = 0 /\ computed' = 0 /\ misread' = FALSE /\ loop' \in Loops
      /\ UNCHANGED <<is_signed, value, index, count, reads, left>>
      /\ NumbersOK /\ PlacesOK
  BY DEF ForStmt, IInv
<1>2. IsArrayLoop' \/ IsRangeLoop'
  <2>1. CASE computed # Undefined
               /\ \E s \in BOOLEAN, lo \in Literals, inc \in BOOLEAN : loop' = RangeLoop(s, lo, computed, inc)
    <3>1. computed \in Patterns
      BY <1>1, <2>1 DEF NumbersOK
    <3> QED
      BY <2>1, <3>1 DEF RangeLoop, IsRangeLoop, Patterns
  <2>2. CASE folded \in Constants /\ loop' = ArrayLoop(Wrap(folded))
    <3>1. Wrap(folded) \in Patterns
      BY <2>2, WrapFits DEF Constants
    <3> QED
      BY <2>2, <3>1 DEF ArrayLoop, IsArrayLoop, Patterns
  <2> QED
    BY <1>1, <2>1, <2>2 DEF Loops
<1>3. 0 \in Patterns /\ Wrap(0) = 0 /\ 0 \in Constants
  BY Sizes, SmallWrap DEF Patterns, Constants
<1>4. NumbersOK'
  BY <1>1, <1>3 DEF NumbersOK, Wrap, Patterns
<1>5. LoopOK'
  BY <1>1, <1>2 DEF LoopOK
<1>6. PlacesOK'
  <2>1. loop'.kind = "array" => index' \in 0..loop'.size
    <3>1. loop'.kind = "array" => loop'.size \in 0..Size - 1
      BY <1>2 DEF IsArrayLoop, IsRangeLoop, Patterns
    <3> QED
      BY <1>1, <3>1, Sizes DEF PlacesOK
  <2> QED
    BY <1>1, <2>1 DEF PlacesOK, Phases, Element
<1>7. SeenOK'
  BY <1>1 DEF SeenOK
<1> QED
  BY <1>4, <1>5, <1>6, <1>7 DEF IInv

LEMMA SizeFailsIInv == ASSUME IInv, SizeFails PROVE IInv'
<1>1. /\ phase = "parsing" /\ phase' \in {"refused", "crashed"}
      /\ UNCHANGED <<is_signed, folded, computed, misread, loop, value, index, count, reads, left>>
      /\ NumbersOK /\ PlacesOK /\ LoopOK
  BY DEF SizeFails, IInv
<1>2. NumbersOK' /\ LoopOK'
  BY <1>1 DEF NumbersOK, LoopOK, Wrap, Patterns
<1>3. PlacesOK' /\ SeenOK'
  BY <1>1 DEF PlacesOK, SeenOK, Phases, Element
<1> QED
  BY <1>2, <1>3 DEF IInv

\* What the invariant says once there is a loop, and what a step keeps that leaves it.
LEMMA LoopFacts ==
    ASSUME IInv, phase \notin {"parsing", "refused", "crashed"}
    PROVE  /\ IsArrayLoop \/ IsRangeLoop
           /\ NumbersOK /\ PlacesOK /\ SeenOK
           /\ IsArrayLoop => Lowest = 0 /\ Beyond = loop.size /\ At = index /\ Beyond \in 0..Size - 1 /\ Bounded
           /\ IsRangeLoop => ~IsArrayLoop /\ At = View(loop.signed, value)
  BY DEF IInv, LoopOK, IsArrayLoop, IsRangeLoop, Lowest, Beyond, At, Bounded, Patterns

LEMMA LoopKept ==
    ASSUME IInv, phase \notin {"parsing", "refused", "crashed"},
           phase' \notin {"parsing", "refused", "crashed"}, UNCHANGED <<is_signed, folded, computed, misread, loop>>
    PROVE  NumbersOK' /\ LoopOK' /\ Lowest' = Lowest /\ Beyond' = Beyond /\ Bounded' = Bounded
<1>1. LoopOK'
  BY DEF IInv, LoopOK, IsArrayLoop, IsRangeLoop, Patterns
<1>2. NumbersOK'
  BY DEF IInv, NumbersOK, Wrap, Patterns
<1> QED
  BY <1>1, <1>2 DEF Lowest, Beyond, Bounded, View, SignedOf

\* Elements are patterns, but for what is behind the last.
LEMMA ElementsArePatterns ==
    ASSUME IsArrayLoop, NEW i \in Nat
    PROVE  Element(i) \in Patterns \/ Element(i) = Outside
<1> DEFINE n == loop.size
<1>1. n \in 0..Size - 1 /\ Element(i) = IF i < n /\ i < Half THEN i ELSE Outside
  BY DEF IsArrayLoop, Element, Patterns
<1> HIDE DEF n
<1>2. i < n => i \in Patterns
  BY <1>1, Sizes DEF Patterns
<1> QED
  BY <1>1, <1>2

LEMMA IterInitIInv == ASSUME IInv, IterInit PROVE IInv'
<1>1. /\ phase = "init" /\ phase' = "cond" /\ UNCHANGED <<is_signed, folded, computed, misread, loop, index, count, left>>
      /\ PlacesOK /\ (IsArrayLoop \/ IsRangeLoop)
  BY LoopFacts DEF IterInit
<1>2. NumbersOK' /\ LoopOK' /\ Lowest' = Lowest /\ Beyond' = Beyond /\ Bounded' = Bounded
  BY <1>1, LoopKept
<1>3. index = 0 /\ count = 0 /\ reads = {}
  BY <1>1 DEF PlacesOK
<1>4. CASE IsArrayLoop
  <2>1. value' = Element(index) /\ reads' = reads \cup {index} /\ loop.kind = "array" /\ loop.size \in 0..Size - 1
    BY <1>4 DEF IterInit, IsArrayLoop, Patterns
  <2>2. value' \in Patterns \/ value' = Outside
    BY <1>3, <1>4, <2>1, ElementsArePatterns
  <2>3. 0 \in 0..loop.size
    BY <2>1, Sizes
  <2>4. PlacesOK'
    BY <1>1, <1>3, <2>1, <2>2, <2>3 DEF PlacesOK, Phases, Element
  <2>5. SeenOK'
    BY <1>1, <1>3, <2>1 DEF SeenOK, At, Lowest
  <2> QED
    BY <1>2, <2>4, <2>5 DEF IInv
<1>5. CASE IsRangeLoop
  <2>1. value' = loop.lo /\ reads' = reads /\ loop.kind = "range" /\ loop.lo \in Literals
    BY <1>5 DEF IterInit, IsRangeLoop
  <2>2. loop.lo \in Patterns /\ View(loop.signed, loop.lo) = loop.lo /\ loop.lo \in Int
    BY <2>1, LiteralsStand, Sizes DEF View
  <2>3. PlacesOK'
    BY <1>1, <1>3, <2>1, <2>2 DEF PlacesOK, Phases, Element
  <2>4. At' = Lowest' + count' /\ count' = 0
    BY <1>1, <1>3, <2>1, <2>2 DEF At, Lowest, View, SignedOf
  <2>5. SeenOK'
    BY <1>1, <2>4 DEF SeenOK
  <2> QED
    BY <1>2, <2>3, <2>5 DEF IInv
<1> QED
  BY <1>1, <1>4, <1>5

LEMMA BodyIInv == ASSUME IInv, BodyEnds \/ BodyBreaks \/ BodyWrites PROVE IInv'
<1>1. /\ phase = "body" /\ UNCHANGED <<is_signed, folded, computed, misread, loop, index, count, reads>>
      /\ \/ phase' = "update" /\ left' = left /\ value' = value
         \/ phase' = "end" /\ left' = "broke" /\ value' = value
         \/ phase' = "body" /\ left' = "wrote" /\ value' \in Literals
  BY DEF BodyEnds, BodyBreaks, BodyWrites
<1>2. PlacesOK /\ SeenOK /\ NumbersOK' /\ LoopOK' /\ Lowest' = Lowest /\ Beyond' = Beyond /\ Bounded' = Bounded
  BY <1>1, LoopFacts, LoopKept
<1>3. \A n \in Literals : n \in Patterns
  BY LiteralsStand
<1>4. PlacesOK'
  BY <1>1, <1>2, <1>3 DEF PlacesOK, Phases, Element, Patterns
<1>5. SeenOK'
  <2>1. CASE phase' = "update" /\ left' = left /\ value' = value
    <3>1. At' = At
      BY <1>1, <2>1 DEF At, View, SignedOf
    <3> QED
      BY <1>1, <1>2, <2>1, <3>1 DEF SeenOK
  <2>2. CASE phase' = "end" /\ left' = "broke" /\ value' = value
    BY <2>2 DEF SeenOK
  <2>3. CASE phase' = "body" /\ left' = "wrote" /\ value' \in Literals
    BY <2>3 DEF SeenOK
  <2> QED
    BY <1>1, <2>1, <2>2, <2>3
<1> QED
  BY <1>2, <1>4, <1>5 DEF IInv

\* The condition is that the loop is not at its end.
LEMMA ConditionMeans ==
    ASSUME IInv, phase = "cond", left # "wrote", Bounded
    PROVE  /\ At \in Int /\ Lowest \in 0..MaxSigned /\ Beyond \in -Half..Size - 1
           /\ Condition <=> At < Beyond
<1>1. /\ PlacesOK /\ SeenOK /\ (IsArrayLoop \/ IsRangeLoop)
      /\ At = Lowest + count /\ (count = 0 \/ At <= Beyond)
  BY LoopFacts DEF SeenOK
<1>2. CASE IsArrayLoop
  <2>1. Lowest = 0 /\ Beyond = loop.size /\ At = index /\ Beyond \in 0..Size - 1
    BY <1>2, LoopFacts
  <2>2. Condition <=> index < loop.size
    BY <1>2 DEF IsArrayLoop, Condition, OpBinary, View
  <2>3. index \in Int
    BY <1>1, Sizes DEF PlacesOK, Patterns
  <2> QED
    BY <2>1, <2>2, <2>3, Sizes
<1>3. CASE IsRangeLoop
  <2>1. /\ Lowest \in 0..MaxSigned /\ Beyond \in -Half..Size - 1
        /\ loop.inclusive => Beyond <= MaxSigned
    BY <1>3, RangeFacts
  <2>2. value \in Patterns /\ count \in Nat
    BY <1>1, <1>3, Sizes DEF PlacesOK, IsRangeLoop
  <2>3. At >= 0 /\ (loop.inclusive => At <= MaxSigned)
    BY <1>1, <2>1, <2>2, Sizes
  <2>4. At \in Int /\ (Condition <=> At < Beyond)
    BY <1>3, <2>2, <2>3, RangeCondition
  <2> QED
    BY <2>1, <2>4
<1> QED
  BY <1>1, <1>2, <1>3

LEMMA IterConditionIInv == ASSUME IInv, IterCondition PROVE IInv'
<1>1. /\ phase = "cond" /\ phase' = IF Condition THEN "body" ELSE "end"
      /\ count' = IF Condition /\ count <= Size THEN count + 1 ELSE count
      /\ UNCHANGED <<is_signed, folded, computed, misread, loop, value, index, reads, left>>
  BY DEF IterCondition
<1>2. /\ PlacesOK /\ SeenOK /\ NumbersOK' /\ LoopOK' /\ Lowest' = Lowest /\ Beyond' = Beyond
      /\ Bounded' = Bounded /\ (IsArrayLoop \/ IsRangeLoop) /\ phase' \in {"body", "end"}
  BY <1>1, LoopFacts, LoopKept
<1>3. At' = At
  BY <1>1 DEF At, View, SignedOf
<1>4. count \in 0..Size + 1 /\ count' \in 0..Size + 1 /\ (phase' = "body" => count' > 0)
  <2>1. count \in 0..Size + 1
    BY <1>2 DEF PlacesOK
  <2>2. CASE Condition
    <3>1. count' \in 0..Size + 1 /\ count' > 0
      BY <1>1, <2>1, <2>2, Sizes
    <3> QED
      BY <2>1, <3>1
  <2>3. CASE ~Condition
    BY <1>1, <2>1, <2>3
  <2> QED
    BY <2>2, <2>3
<1>5. loop.kind = "array" /\ phase' = "body" => index < loop.size
  BY <1>1 DEF Condition, OpBinary, View
<1>6. PlacesOK'
  BY <1>1, <1>2, <1>4, <1>5 DEF PlacesOK, Phases, Element, Patterns
<1>7. SeenOK'
  <2> SUFFICES ASSUME left # "wrote", Bounded
               PROVE  /\ phase' = "body" => At = Lowest + count' - 1 /\ At < Beyond
                      /\ phase' = "end" /\ left = "no" =>
                            count' = IF Beyond > Lowest THEN Beyond - Lowest ELSE 0
    BY <1>1, <1>2, <1>3 DEF SeenOK
  <2>1. /\ At \in Int /\ Lowest \in 0..MaxSigned /\ Beyond \in -Half..Size - 1
        /\ Condition <=> At < Beyond
    BY <1>1, ConditionMeans
  <2>2. At = Lowest + count /\ (count = 0 \/ At <= Beyond)
    BY <1>1, <1>2 DEF SeenOK
  <2>3. CASE Condition
    <3>1. count <= Size
      BY <1>4, <2>1, <2>2, <2>3, Sizes
    <3>2. count' = count + 1 /\ phase' = "body"
      BY <1>1, <2>3, <3>1
    <3>3. At = Lowest + (count + 1) - 1
      BY <1>4, <2>1, <2>2, Sizes
    <3> QED
      BY <2>1, <2>3, <3>2, <3>3
  <2>4. CASE ~Condition
    <3>1. count' = count /\ phase' = "end"
      BY <1>1, <2>4
    <3>2. count = IF Beyond > Lowest THEN Beyond - Lowest ELSE 0
      BY <1>4, <2>1, <2>2, <2>4, Sizes
    <3> QED
      BY <3>1, <3>2
  <2> QED
    BY <2>3, <2>4
<1> QED
  BY <1>2, <1>6, <1>7 DEF IInv

LEMMA IterUpdateIInv == ASSUME IInv, IterUpdate PROVE IInv'
<1>1. /\ phase = "update" /\ phase' = "cond" /\ UNCHANGED <<is_signed, folded, computed, misread, loop, count, left>>
      /\ index' = Wrap(index + 1)
  BY DEF IterUpdate, OpBinary
<1>2. /\ PlacesOK /\ SeenOK /\ NumbersOK' /\ LoopOK' /\ Lowest' = Lowest /\ Beyond' = Beyond
      /\ Bounded' = Bounded /\ (IsArrayLoop \/ IsRangeLoop)
  BY <1>1, LoopFacts, LoopKept
<1>3. index \in Int /\ count \in Int
  BY <1>2, Sizes DEF PlacesOK, Patterns
<1>4. index' \in Patterns
  BY <1>1, <1>3, WrapInPatterns
<1>5. left # "wrote" /\ Bounded => At = Lowest + count - 1 /\ At < Beyond
  BY <1>1, <1>2 DEF SeenOK
<1>6. CASE IsArrayLoop
  <2>1. value' = Element(index') /\ reads' = reads \cup {index'} /\ loop.kind = "array"
    BY <1>1, <1>6 DEF IterUpdate, IsArrayLoop
  <2>2. index \in 0..loop.size /\ index < loop.size /\ loop.size \in 0..Size - 1
    BY <1>1, <1>2, <1>6 DEF PlacesOK, IsArrayLoop, Patterns
  <2>3. index + 1 \in Patterns /\ index + 1 \in 0..loop.size
    BY <2>2, Sizes DEF Patterns
  <2>4. index' = index + 1
    BY <1>1, <2>3, SmallWrap
  <2>5. value' \in Patterns \/ value' = Outside
    <3>1. index' \in Nat
      BY <2>2, <2>4
    <3> QED
      BY <1>6, <2>1, <3>1, ElementsArePatterns
  <2>6. reads' \subseteq 0..loop.size /\ index' \in 0..loop.size
    BY <1>2, <2>1, <2>3, <2>4 DEF PlacesOK
  <2>7. PlacesOK'
    BY <1>1, <1>2, <1>4, <2>1, <2>5, <2>6 DEF PlacesOK, Phases, Element, Patterns
  <2>8. Lowest = 0 /\ Beyond = loop.size /\ At = index /\ At' = index'
    BY <1>1, <1>2, <1>6, <2>1, LoopFacts DEF At
  <2>9. left # "wrote" /\ Bounded => At' = Lowest + count /\ At' <= Beyond
    BY <1>3, <1>5, <2>2, <2>3, <2>4, <2>8
  <2>10. SeenOK'
    BY <1>1, <1>2, <2>9 DEF SeenOK
  <2> QED
    BY <1>2, <2>7, <2>10 DEF IInv
<1>7. CASE IsRangeLoop
  <2>1. value' = Wrap(value + 1) /\ reads' = reads /\ loop.kind = "range" /\ value \in Patterns
    BY <1>2, <1>7 DEF IterUpdate, IsRangeLoop, OpBinary, PlacesOK
  <2>2. value' \in Patterns
    <3>1. value + 1 \in Int
      BY <2>1, Sizes DEF Patterns
    <3> QED
      BY <2>1, <3>1, WrapInPatterns
  <2>3. PlacesOK'
    BY <1>1, <1>2, <1>4, <2>1, <2>2 DEF PlacesOK, Phases, Element, Patterns
  <2>4. At' = View(loop.signed, Wrap(value + 1))
    BY <1>1, <2>1 DEF At, View, SignedOf
  <2>5. ASSUME left # "wrote", Bounded
        PROVE  At' = Lowest + count /\ At' <= Beyond
    <3>1. Lowest \in 0..MaxSigned /\ Beyond \in -Half..Size - 1
      BY <1>7, <2>5, RangeFacts
    <3>2. At = Lowest + count - 1 /\ At < Beyond
      BY <1>5, <2>5
    <3>3. At >= 0
      <4>1. count > 0
        BY <1>1, <1>2 DEF PlacesOK
      <4> QED
        BY <1>3, <3>1, <3>2, <4>1, Sizes
    <3>4. At \in Int /\ At' = At + 1
      BY <1>7, <2>1, <2>4, <2>5, <3>2, <3>3, RangeUpdate
    <3> QED
      BY <1>3, <3>1, <3>2, <3>4, Sizes
  <2>6. SeenOK'
    BY <1>1, <1>2, <2>5 DEF SeenOK
  <2> QED
    BY <1>2, <2>3, <2>6 DEF IInv
<1> QED
  BY <1>2, <1>6, <1>7

LEMMA NextIInv == IInv /\ [Next]_loopVars => IInv'
<1> SUFFICES ASSUME IInv, [Next]_loopVars PROVE IInv'
  OBVIOUS
<1>1. CASE UNCHANGED loopVars
  BY <1>1 DEF loopVars, IInv, NumbersOK, LoopOK, IsArrayLoop, IsRangeLoop, PlacesOK, SeenOK, At, Lowest, Beyond,
              Bounded, Element, View, SignedOf, Wrap, Patterns
<1> QED
  BY <1>1, ParseIInv, ForIInv, SizeFailsIInv, IterInitIInv, BodyIInv, IterConditionIInv, IterUpdateIInv DEF Next, Step

LEMMA LoopInvariance == Spec => []IInv
  BY InitIInv, NextIInv, PTL DEF Spec

-----------------------------------------------------------------------------
(* The theorems *)

\* The variables keep their types; an array is read at most at the place behind its last
\* element, for integers of every width and whatever the body does.
THEOREM LoopTypeCorrect == Spec => []TypeOK
<1>1. IInv => TypeOK
  <2> SUFFICES ASSUME IInv PROVE TypeOK
    OBVIOUS
  <2>1. loop.kind = "array" => reads \subseteq 0..loop.size
    BY DEF IInv, PlacesOK
  <2> QED
    BY <2>1 DEF IInv, NumbersOK, PlacesOK, TypeOK, Phases
<1> QED
  BY <1>1, LoopInvariance, PTL

\* What the compiler computes for a constant is the pattern the program would compute, for
\* both signs, integers of every width and expressions of every length in which no u32 is
\* divided that is below 0 for the compiler.
THEOREM ConstantsKeepTheirMeaning == Spec => []ConstantsMeanTheirSource
<1>1. IInv => ConstantsMeanTheirSource
  BY DEF IInv, NumbersOK, ConstantsMeanTheirSource
<1> QED
  BY <1>1, LoopInvariance, PTL

\* The body of a loop sees every value of its range and every element of its array once
\* and in order and none from beyond the end, and all of them when it ends by itself.
THEOREM LoopsSeeTheirElements == Spec => []ElementsInOrder
<1>1. IInv => ElementsInOrder
  <2> SUFFICES ASSUME IInv, left # "wrote", Bounded, Addressable
               PROVE  /\ phase = "body" => /\ View(loop.kind = "range" /\ loop.signed, value) = Lowest + count - 1
                                           /\ Lowest + count - 1 < Beyond
                      /\ phase = "end" /\ left = "no" =>
                            count = IF Beyond > Lowest THEN Beyond - Lowest ELSE 0
    BY DEF ElementsInOrder
  <2>1. SeenOK /\ PlacesOK
    BY DEF IInv
  <2>2. ASSUME phase = "body"
        PROVE  View(loop.kind = "range" /\ loop.signed, value) = At
    <3>1. CASE IsArrayLoop
      <4>1. value = Element(index) /\ index < loop.size /\ At = index
        BY <2>1, <2>2, <3>1 DEF PlacesOK, IsArrayLoop, At
      <4> QED
        <5>1. index < Half
          BY <3>1, <4>1, <2>1, Sizes DEF Addressable, IsArrayLoop, PlacesOK, Patterns
        <5> QED
          BY <3>1, <4>1, <5>1 DEF Element, View, IsArrayLoop
    <3>2. CASE IsRangeLoop
      BY <3>2 DEF IsRangeLoop, At, View
    <3> QED
      BY <2>2, <3>1, <3>2, LoopFacts
  <2>3. phase = "body" => At = Lowest + count - 1 /\ At < Beyond
    BY <2>1 DEF SeenOK
  <2>4. phase = "end" /\ left = "no" => count = IF Beyond > Lowest THEN Beyond - Lowest ELSE 0
    BY <2>1 DEF SeenOK
  <2> QED
    BY <2>2, <2>3, <2>4, Zenon
<1> QED
  BY <1>1, LoopInvariance, PTL
=============================================================================
