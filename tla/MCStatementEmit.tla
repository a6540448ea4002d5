-------------------------- MODULE MCStatementEmit --------------------------
(***************************************************************************)
(* Model checking of StatementEmit over every program of at most Size      *)
(* statements, and of at most CompSize ones with compile time ifs among    *)
(* them. The branch of a compile time if that does not hold is empty or    *)
(* missing: nothing is emitted for it whatever it holds.                   *)
(***************************************************************************)
EXTENDS StatementEmit

LOCAL INSTANCE SequencesExt

CONSTANTS Size, CompSize

\* A statement; a list of statements is its code together with the numbers of those
\* that are not inside of others.
S(kind, then, other, else, holds) ==
    [kind |-> kind, then |-> then, other |-> other, else |-> else, holds |-> holds]
L(code_, list) == [code |-> code_, body |-> list]
Nothing == L(<<>>, <<>>)

\* The list with n statements before it.
Behind(n, b) ==
    LET To(list) == <<>> \o [i \in DOMAIN list |-> list[i] + n]
    IN  L(<<>> \o [s \in DOMAIN b.code |-> [b.code[s] EXCEPT !.then = To(@), !.other = To(@)]],
          To(b.body))

\* (TLC sorts a set when it compares it, and then finds its elements much faster.)
All(sets) == FoldSeq(LAMBDA s, t : IF s = {} THEN t ELSE IF t = {} THEN s ELSE s \cup t, {}, sets)

\* One statement in front of those inside of it.
Alone(kind, holds, b) == L(<<S(kind, b.body, <<>>, "none", holds)>> \o b.code, <<1>>)
Both(kind, b, e, else) == L(<<S(kind, b.body, e.body, else, FALSE)>> \o b.code \o e.code, <<1>>)

\* The statements of n nodes, all those inside of the first, from the lists of fewer
\* nodes: small[k + 1] are those of k nodes. The first is number 1.
Stmts(n, small, comp) ==
    LET Lists(k, from) == {Behind(from, b) : b \in small[k + 1]}
        Ifs(k, from) == {c \in Lists(k, from) : Len(c.body) = 1 /\ c.code[1].kind = "if"}
    IN  (IF n = 1 THEN {L(<<S(k, <<>>, <<>>, "none", FALSE)>>, <<1>>) : k \in {"do"} \cup Jumps} ELSE {})
        \cup {Alone(k, FALSE, b) : k \in {"if"} \cup Loops, b \in Lists(n - 1, 1)}
        \cup All([k \in 1..n |->
                  {Both("if", b, e, "block") : b \in Lists(k - 1, 1), e \in Lists(n - k, k)}
                  \cup {Both("if", b, c, "if") : b \in Lists(k - 1, 1), c \in Ifs(n - k, k)}])
        \cup (IF comp
              THEN {Alone("compif", TRUE, b) : b \in Lists(n - 1, 1)}
                   \cup {Both("compif", Nothing, b, "block") : b \in Lists(n - 1, 1)}
                   \cup {Both("compif", Nothing, c, "if") : c \in Ifs(n - 1, 1)}
              ELSE {})

\* The lists of 0, ..., n nodes, one set for each length.
RECURSIVE Blocks(_, _)
Blocks(n, comp) ==
    IF n = 0 THEN <<{Nothing}>>
    ELSE LET small == Blocks(n - 1, comp)
             Joined(c, b) == L(c.code \o b.code, <<1>> \o b.body)
         IN  Append(small,
                 LET first == [k \in 1..n |-> IF k = n THEN Stmts(n, small, comp)
                                              ELSE {c \in small[k + 1] : Len(c.body) = 1}]
                 IN  All([k \in 1..n |->
                          {Joined(c, b) : c \in first[k], b \in {Behind(k, b) : b \in small[n - k + 1]}}]))

MCPrograms == All(Blocks(Size, FALSE) \o Blocks(CompSize, TRUE))
=============================================================================
