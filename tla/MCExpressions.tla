---------------------------- MODULE MCExpressions ----------------------------
(* Short functions over a struct with a number, a pointer to its own kind and an array, *)
(* a pointer, an array and a wide integer, that may declare one variable more, mutable   *)
(* or not. Declarations name no type, the struct, an alias of it, a slice or an array    *)
(* that is longer than its initializer.                                                  *)
EXTENDS Expressions

Pair == Arr(2, I32, <<>>)
U64  == IntType(64, FALSE)
S    == Struct("S")

MCFields == [S |-> <<[name |-> "x", type |-> I32], [name |-> "next", type |-> Ptr(S)],
                     [name |-> "v", type |-> Pair]>>]

MCDeclared ==
    [s |-> [type |-> S, mut |-> {}],    p |-> [type |-> Ptr(S), mut |-> {}],
     a |-> [type |-> Pair, mut |-> {}], w |-> [type |-> U64, mut |-> {}]]

\* { .v = a, .x = 1 } and { 1, p }
MCBraces ==
    {Braces(<<[name |-> "v", value |-> Sym("a")], [name |-> "x", value |-> Lit(I32)]>>),
     Braces(<<[name |-> "", value |-> Lit(I32)], [name |-> "", value |-> Sym("p")]>>)}

MCStarts == {Sym(x) : x \in {"s", "p", "a", "w", "y"}} \cup {Lit(I32)} \cup MCBraces
MCMembers == {"x", "next", "v", "length"}
MCCastTypes == {U64}
MCDeclTypes == {NoType, S, Alias("T", FALSE, S), Slice(I32), Arr(3, I32, <<>>)}
MCNewNames == <<"y">>
=============================================================================
