------------------------------ MODULE MCCalls ------------------------------
(***************************************************************************)
(* Model checking of Calls: all pairs of parameter lists with up to two    *)
(* parameters of two types, with and without defaults, and triples of      *)
(* lists without defaults, against all lists of up to two arguments.       *)
(***************************************************************************)
EXTENDS Calls

CONSTANTS small, large, p, q, r

ParamName == <<p, q>>

\* Parameter lists; the parser requires that defaults come last.
Lists ==
    UNION {{[j \in 1..n |-> [name |-> ParamName[j], type |-> types[j], default |-> j > required]] :
              types \in [1..n -> {small, large}], required \in 0..n} : n \in 0..2}

Plain == {f \in Lists : \A j \in DOMAIN f : ~f[j].default /\ f[j].type = small}

MCOverloads ==
    {<<f>> : f \in Lists} \cup {<<f, g>> : f \in Lists, g \in Lists}
        \cup {<<f, g, h>> : f \in Plain, g \in Plain, h \in Plain}

Args ==
    {[kind |-> "typed", type |-> t, name |-> None] : t \in {small, large}}
        \cup {[kind |-> "symbol", type |-> t, name |-> None] : t \in {small, large}}
        \cup {[kind |-> "literal", type |-> small, name |-> None],
              [kind |-> "brace", type |-> Unknown, name |-> None]}
        \cup {[kind |-> "typed", type |-> small, name |-> n] : n \in {p, q, r}}
        \cup {[kind |-> "brace", type |-> Unknown, name |-> n] : n \in {p, q}}

\* A literal adapts to its own type and to a wider one.
Widening == {<<small, small>>, <<small, large>>, <<large, large>>}

MCArguments == UNION {[1..n -> Args] : n \in 0..2}
=============================================================================
