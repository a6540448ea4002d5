------------------------------ MODULE Iteration ------------------------------
(***************************************************************************)
(* Integers and `for': arithmetic as the compiler does it itself for       *)
(* constants (comp_eval.cpp) and as the code it emits does it (type.cpp),  *)
(* and the loops over ranges and arrays whose bounds it computes           *)
(* (stmt.cpp, type.cpp).                                                   *)
(*                                                                         *)
(* A behaviour parses a constant expression, which is the size of an array *)
(* or the upper bound of a range, and then runs a loop over it step by     *)
(* step. An integer of w bits is one of Size = 2^w patterns, half of them  *)
(* negative if it has a sign; an LLVM integer is a pattern and has none.   *)
(***************************************************************************)
EXTENDS Integers

CONSTANTS
    Half,        \* 2^(w-1) for the width w of i32 and u32
    Literals     \* the literals of the program

ASSUME HalfAssumption == Half \in Nat /\ Half > 1
ASSUME LiteralsAssumption == Literals \subseteq 0..Half - 1

VARIABLES
    phase,     \* "parsing", then the block of the loop, "init", "cond", "body", "update", "end",
               \* or, if there is no loop, "refused" or "crashed"
    is_signed, \* the type of the constant expression: i32, or else u32
    folded,    \* what the compiler makes of the constant expression
    computed,  \* what the program makes of it
    misread,   \* history: the compiler has divided a u32 that is below 0 for it
    loop,      \* what is iterated
    value,     \* the loop variable, or Outside
    index,     \* the index of the loop, its own when the loop has no second binding
    count,     \* how often the body has been entered
    reads,     \* the elements of the array that have been read
    left       \* how the body has interfered: "no", "broke", "wrote"

loopVars == <<phase, is_signed, folded, computed, misread, loop, value, index, count, reads, left>>

-----------------------------------------------------------------------------
(* Integers at run time *)

Size == 2 * Half
Patterns == 0..Size - 1
Wrap(n) == n % Size
SignedOf(p) == IF p < Half THEN p ELSE p - Size
View(signed, p) == IF signed THEN SignedOf(p) ELSE p
MaxSigned == Half - 1

\* No integer: the program traps, or may do anything.
Undefined == 2 * Size
Quotient(a, b) ==
    LET abs(n) == IF n < 0 THEN -n ELSE n
        q == abs(a) \div abs(b)
    IN  IF (a < 0) = (b < 0) THEN q ELSE -q

\* The only quotient that does not fit is that of the least number by -1.
Traps(signed, x, y) == signed /\ Quotient(x, y) > MaxSigned

\* A fault: nothing asks for the sign.
OpBinaryUnsigned(op, signed, a, b) ==
    CASE op = "+" -> Wrap(a + b)
      [] op = "-" -> Wrap(a - b)
      [] op = "*" -> Wrap(a * b)
      [] op = "/" -> IF b = 0 THEN Undefined ELSE a \div b
      [] op = "%" -> IF b = 0 THEN Undefined ELSE a % b
      [] op = "<" -> a < b
      [] op = ">" -> a > b
      [] op = "<=" -> a <= b
      [] op = ">=" -> a >= b

\* IntegerType::op_binary. Of the comparisons only `<' asks for the sign.
OpBinary(op, signed, a, b) ==
    LET x == View(signed, a)
        y == View(signed, b)
    IN  CASE op = "+" -> Wrap(a + b)
          [] op = "-" -> Wrap(a - b)
          [] op = "*" -> Wrap(a * b)
          [] op = "/" -> IF y = 0 \/ Traps(signed, x, y) THEN Undefined
                         ELSE Wrap(Quotient(x, y))
          [] op = "%" -> IF y = 0 \/ Traps(signed, x, y) THEN Undefined
                         ELSE Wrap(x - y * Quotient(x, y))
          [] op = "<"  -> x < y
          [] op = ">"  -> SignedOf(a) > SignedOf(b)
          [] op = "<=" -> SignedOf(a) <= SignedOf(b)
          [] op = ">=" -> SignedOf(a) >= SignedOf(b)

-----------------------------------------------------------------------------
(* Integers at compile time *)

Operators == {"+", "-", "*", "/", "%"}

\* CompEval::visit(BinaryExpr): C++ arithmetic on i32 whatever the type is, where an
\* overflow is undefined. The other operators give a null pointer, and with that as an
\* operand the expression is refused.
NoConstant == 2 * Size + 1
Refused    == 2 * Size + 2
Constants  == -Half..MaxSigned
Fold(op, x, y) ==
    LET exact == CASE op = "+" -> x + y [] op = "-" -> x - y [] op = "*" -> x * y
                   [] OTHER -> IF y = 0 THEN MaxSigned + 1 ELSE Quotient(x, y)
    IN  IF op \notin {"+", "-", "*", "/"} THEN NoConstant
        ELSE IF exact \in Constants THEN exact ELSE Undefined

-----------------------------------------------------------------------------
(* Loops *)

Outside == -1    \* what is read behind the end of an array
NoLoop == [kind |-> "none"]
RangeLoop(signed, lo, hi, inclusive) ==
    [kind |-> "range", signed |-> signed, lo |-> lo, hi |-> hi, inclusive |-> inclusive]
ArrayLoop(size) == [kind |-> "array", size |-> size]

\* UNSIZED_ARRAY, the size of an array that takes it from its initializer.
Unsized == Size - 1

\* Every element is its index. Addresses are computed with signed indices.
Element(i) == IF i < loop.size /\ i < Half THEN i ELSE Outside

Init ==
    /\ phase = "parsing" /\ loop = NoLoop
    /\ is_signed \in BOOLEAN /\ folded \in Literals /\ computed = folded /\ misread = FALSE
    /\ value = 0 /\ index = 0 /\ count = 0 /\ reads = {} /\ left = "no"

\* An operator and its right operand: operators are left associative here, so that is a
\* literal. An undefined operation leaves nothing to build upon.
Parse ==
    /\ phase = "parsing" /\ folded # Undefined /\ computed # Undefined
    /\ \E op \in Operators, n \in Literals :
          /\ folded' = IF folded \in {NoConstant, Refused} THEN Refused ELSE Fold(op, folded, n)
          /\ computed' = OpBinary(op, is_signed, computed, n)
          /\ misread' = (misread \/ (op = "/" /\ ~is_signed /\ folded < 0))
    /\ UNCHANGED <<phase, is_signed, loop, value, index, count, reads, left>>

\* The bound of a range is computed by the program. The size of an array is computed by
\* the compiler and stored into a u32 as it is (visit(ArrayType)).
Loops ==
    (IF computed = Undefined THEN {}
     ELSE {RangeLoop(s, lo, computed, inc) : s \in BOOLEAN, lo \in Literals, inc \in BOOLEAN})
    \cup (IF folded \in Constants /\ Wrap(folded) # Unsized THEN {ArrayLoop(Wrap(folded))} ELSE {})

\* What was parsed is forgotten.
ForStmt ==
    /\ phase = "parsing"
    /\ loop' \in Loops
    /\ phase' = "init" /\ folded' = 0 /\ computed' = 0 /\ misread' = FALSE
    /\ UNCHANGED <<is_signed, value, index, count, reads, left>>

\* Sizes there is no array of: the null pointer is dereferenced; an error is reported if an
\* operand was no constant, or for a variable without initializer of the size that means
\* none (visit(ArrayType), visit(VarDeclStmt)).
SizeFails ==
    /\ phase = "parsing"
    /\ \/ folded = NoConstant /\ phase' = "crashed"
       \/ folded = Refused /\ phase' = "refused"
       \/ folded \in Constants /\ Wrap(folded) = Unsized /\ phase' = "refused"
    /\ UNCHANGED <<is_signed, folded, computed, misread, loop, value, index, count, reads, left>>

\* iter_emit_init: arrays load their first element before its index has been tested.
IterInit ==
    /\ phase = "init" /\ phase' = "cond"
    /\ value' = IF loop.kind = "range" THEN loop.lo ELSE Element(index)
    /\ reads' = IF loop.kind = "range" THEN reads ELSE reads \cup {index}
    /\ UNCHANGED <<is_signed, folded, computed, misread, loop, index, count, left>>

\* A fault: the size of an array is compared with `<='.
ConditionBeyond ==
    IF loop.kind = "array" THEN OpBinary("<=", FALSE, index, loop.size)
    ELSE OpBinary(IF loop.inclusive THEN "<=" ELSE "<", loop.signed, value, loop.hi)

\* iter_emit_condition: ranges compare as their lower bound does, arrays as u32 does.
Condition ==
    IF loop.kind = "array" THEN OpBinary("<", FALSE, index, loop.size)
    ELSE OpBinary(IF loop.inclusive THEN "<=" ELSE "<", loop.signed, value, loop.hi)

IterCondition ==
    /\ phase = "cond"
    /\ phase' = IF Condition THEN "body" ELSE "end"
    /\ count' = IF Condition /\ count <= Size THEN count + 1 ELSE count
    /\ UNCHANGED <<is_signed, folded, computed, misread, loop, value, index, reads, left>>

\* The body comes to its end or continues.
BodyEnds ==
    /\ phase = "body" /\ phase' = "update"
    /\ UNCHANGED <<is_signed, folded, computed, misread, loop, value, index, count, reads, left>>

BodyBreaks ==
    /\ phase = "body" /\ phase' = "end" /\ left' = "broke"
    /\ UNCHANGED <<is_signed, folded, computed, misread, loop, value, index, count, reads>>

\* The body assigns to the loop variable, once.
BodyWrites ==
    /\ phase = "body" /\ left = "no"
    /\ value' \in Literals /\ left' = "wrote"
    /\ UNCHANGED <<phase, is_signed, folded, computed, misread, loop, index, count, reads>>

\* A fault: the element is loaded before the index is increased.
IterUpdateEarly ==
    /\ phase = "update" /\ phase' = "cond"
    /\ index' = OpBinary("+", TRUE, index, 1)
    /\ value' = IF loop.kind = "range" THEN OpBinary("+", TRUE, value, 1) ELSE Element(index)
    /\ reads' = IF loop.kind = "range" THEN reads ELSE reads \cup {index}
    /\ UNCHANGED <<is_signed, folded, computed, misread, loop, count, left>>

\* A fault: only the index is increased.
IterUpdateIndex ==
    /\ phase = "update" /\ phase' = "cond"
    /\ index' = OpBinary("+", TRUE, index, 1)
    /\ value' = IF loop.kind = "range" THEN value ELSE Element(index')
    /\ reads' = IF loop.kind = "range" THEN reads ELSE reads \cup {index'}
    /\ UNCHANGED <<is_signed, folded, computed, misread, loop, count, left>>

\* The index, then iter_emit_update: the next element is loaded before its index has
\* been tested.
IterUpdate ==
    /\ phase = "update" /\ phase' = "cond"
    /\ index' = OpBinary("+", TRUE, index, 1)
    /\ value' = IF loop.kind = "range" THEN OpBinary("+", TRUE, value, 1) ELSE Element(index')
    /\ reads' = IF loop.kind = "range" THEN reads ELSE reads \cup {index'}
    /\ UNCHANGED <<is_signed, folded, computed, misread, loop, count, left>>

Step == IterInit \/ IterCondition \/ BodyEnds \/ BodyBreaks \/ IterUpdate
Next == Parse \/ ForStmt \/ SizeFails \/ Step \/ BodyWrites

\* A program that has begun a loop goes on with it.
Spec == Init /\ [][Next]_loopVars /\ WF_loopVars(Step)

-----------------------------------------------------------------------------
(* Properties *)

TypeOK ==
    /\ phase \in {"parsing", "refused", "crashed", "init", "cond", "body", "update", "end"}
    /\ is_signed \in BOOLEAN /\ misread \in BOOLEAN
    /\ folded \in Constants \cup {NoConstant, Refused, Undefined}
    /\ computed \in Patterns \cup {Undefined}
    /\ count \in 0..Size + 1 /\ index \in Patterns
    /\ left \in {"no", "broke", "wrote"}
    /\ loop.kind = "array" => reads \subseteq 0..loop.size
    /\ value \in Patterns \/ (value = Outside /\ loop.kind = "array")

\* What the compiler computes for a constant is the pattern the program would compute, for
\* i32 and u32 and as long as the arithmetic of the compiler is defined: an array has as
\* many elements as the range up to the same expression. Not so once a u32 is divided that
\* is below 0 for the compiler, which divides i32, and large for the program
\* (CompEval::visit, IntegerType::op_binary).
ConstantsMeanTheirSource ==
    phase = "parsing" /\ folded \in Constants /\ ~misread => computed = Wrap(folded)

\* Ranges whose last value has a successor, and is ordered by `<=' as by `<'.
Bounded ==
    loop.kind = "range" /\ loop.inclusive =>
        SignedOf(loop.hi) < MaxSigned /\ (~loop.signed => loop.hi <= MaxSigned)

\* Arrays whose elements all have an address: sizes that were below 0 for the compiler are
\* larger than the largest index.
Addressable == loop.kind = "array" => loop.size <= Half

Lowest  == IF loop.kind = "array" THEN 0 ELSE loop.lo
Beyond  ==    \* the value that ends the loop
    IF loop.kind = "array" THEN loop.size
    ELSE IF loop.inclusive THEN View(loop.signed, loop.hi) + 1
    ELSE View(loop.signed, loop.hi)

\* The body sees every value of the range and every element of the array once and in order
\* and none from beyond the end, although arrays load each element before its index is
\* tested; and it has seen all of them at the end (iter_emit_init, iter_emit_condition,
\* iter_emit_update).
ElementsInOrder ==
    left # "wrote" /\ Bounded /\ Addressable =>
        /\ phase = "body" => /\ View(loop.kind = "range" /\ loop.signed, value) = Lowest + count - 1
                             /\ Lowest + count - 1 < Beyond
        /\ phase = "end" /\ left = "no" =>
              count = IF Beyond > Lowest THEN Beyond - Lowest ELSE 0

\* Every loop whose body does not write its variable ends, unless it is an inclusive
\* range up to the largest value.
LoopsEnd == phase = "init" ~> (phase = "end" \/ left = "wrote" \/ ~Bounded)
=============================================================================
