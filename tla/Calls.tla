-------------------------------- MODULE Calls --------------------------------
(***************************************************************************)
(* How a call finds its function and its arguments find their parameters:  *)
(* overload resolution (FnCollection, fn_collection.cpp), the visitor of a *)
(* call (analyzer.cpp) and its emission (expr.cpp).                        *)
(*                                                                         *)
(* A module declares some functions of one name and one call of that name. *)
(* All declarations are parsed before any is analysed. The analysis visits *)
(* them in order and the call somewhere between them; visiting a function  *)
(* resolves the types of its parameters, which are equal to nothing before.*)
(* The call is emitted when the whole module has been analysed.            *)
(*                                                                         *)
(* An argument has a type from the start ("typed", or a "literal", which   *)
(* later adapts to the type of its parameter), or one that its visit finds *)
(* (a "symbol"), or takes the type the visit asks for (a "brace" list).    *)
(***************************************************************************)
EXTENDS Naturals, Sequences, FiniteSets

CONSTANTS
    Type,         \* resolved types
    Unresolved,   \* the type of a parameter that has not been visited
    Unknown,      \* no type yet (a null pointer)
    None,         \* no parameter name: a positional argument
    Coerces,      \* pairs of types: a literal of the first adapts to the second
    Overloads,    \* the declarations considered: sequences of parameter lists
    Arguments     \* the argument lists considered

ASSUME CallsAssumption ==
    /\ Unresolved \notin Type /\ Unknown \notin Type \cup {Unresolved}
    /\ Coerces \subseteq Type \X Type
    /\ \A o \in Overloads :
          /\ Len(o) \in Nat \ {0} /\ DOMAIN o = 1..Len(o)
          /\ \A f \in DOMAIN o : /\ Len(o[f]) \in Nat /\ DOMAIN o[f] = 1..Len(o[f])
                                /\ \A j \in DOMAIN o[f] : o[f][j].type \in Type
    /\ \A a \in Arguments :
          /\ Len(a) \in Nat /\ DOMAIN a = 1..Len(a)
          /\ \A j \in DOMAIN a : IF a[j].kind = "brace" THEN a[j].type = Unknown
                                ELSE a[j].kind \in {"typed", "literal", "symbol"} /\ a[j].type \in Type

VARIABLES
    functions,   \* FnCollection::functions: parameters with name, type and default
    analyzed,    \* how many of them have been visited
    given,       \* the arguments as written
    args,        \* CallExpr::arguments: `at' is the place where one was written
    candidate,   \* the overload get_fn tries
    chosen,      \* the function the call has been resolved to
    phase,       \* how far the call is
    argv         \* what is passed for each parameter

vars == <<functions, analyzed, given, args, candidate, chosen, phase, argv>>

Least(S) == CHOOSE i \in S : \A j \in S : i <= j
Shorter(s, t) == IF Len(s) < Len(t) THEN Len(s) ELSE Len(t)

\* callable_arity: the parameters without a default value, which come first.
Arity(f) == Cardinality({j \in DOMAIN functions[f] : ~functions[f][j].default})

\* The type of a parameter at this point, and Type::is_equal.
ParamType(f, j) == IF f <= analyzed THEN functions[f][j].type ELSE Unresolved
Equal(s, t) == s \in Type /\ s = t

\* Visiting an argument that asks for type t.
Visited(arg, t) ==
    [arg EXCEPT !.type =
        CASE arg.kind = "symbol" -> arg.own
          [] arg.kind = "brace" -> IF @ = Unknown THEN t ELSE @
          [] arg.kind = "literal" -> IF <<@, t>> \in Coerces THEN t ELSE @
          [] OTHER -> @]

Position(f, name) == {j \in DOMAIN functions[f] : functions[f][j].name = name}
-----------------------------------------------------------------------------
(* Declarations *)

Init ==
    /\ functions \in Overloads
    /\ given \in Arguments
    /\ analyzed = 0
    /\ args = <<>>
    /\ candidate = 0
    /\ chosen = 0
    /\ phase = "declared"
    /\ argv = <<>>

\* A fault: the lengths are not compared.
DuplicateOfShorter(f) ==
    LET Matches(g) == \A j \in DOMAIN functions[g] :
            Len(functions[f]) > 0 /\ Equal(ParamType(f, 1), ParamType(g, j))
    IN  Cardinality({g \in DOMAIN functions : Matches(g)}) > 1

\* fn_is_duplicate, when function f is being visited: the first function of another
\* length ends the search, and only the first parameter of f is ever compared.
\* f itself is among the matches.
Duplicate(f) ==
    LET Matches(g) == \A j \in DOMAIN functions[g] : Equal(ParamType(f, 1), ParamType(g, j))
    IN  /\ \A g \in DOMAIN functions : Len(functions[g]) = Len(functions[f])
        /\ Cardinality({g \in DOMAIN functions : Matches(g)}) > 1

\* A function is visited: its parameters get their types.
AnalyzeFn ==
    /\ phase \in {"declared", "bound"}
    /\ analyzed < Len(functions)
    /\ analyzed' = analyzed + 1
    /\ UNCHANGED <<functions, given, args, candidate, chosen, argv>>
    /\ phase' = IF Duplicate(analyzed)' THEN "duplicate" ELSE phase

-----------------------------------------------------------------------------
(* The call *)

\* The visitor first visits the arguments that do not depend on a context, among
\* them every named argument, whose value is asked for no type.
BeginCall ==
    /\ phase = "declared"
    /\ args' = [j \in DOMAIN given |->
                  [kind |-> given[j].kind, own |-> given[j].type, name |-> given[j].name, at |-> j,
                   type |-> IF \/ given[j].kind \in {"typed", "literal"}
                               \/ given[j].kind = "symbol" /\ given[j].name # None
                            THEN given[j].type ELSE Unknown]]
    /\ candidate' = 1
    /\ phase' = "pick"
    /\ UNCHANGED <<functions, analyzed, given, chosen, argv>>

\* A function that is alone is taken as it is.
TakeOnlyFn ==
    /\ phase = "pick" /\ Len(functions) = 1
    /\ chosen' = 1
    /\ phase' = "check"
    /\ UNCHANGED <<functions, analyzed, given, args, candidate, argv>>

Trying == phase = "pick" /\ Len(functions) > 1 /\ candidate <= Len(functions)

\* What trying an overload makes of argument j: one without a type is visited with
\* the type of the parameter, and keeps the type it gets.
Tried(j) ==
    IF args[j].type = Unknown /\ args[j].kind \in {"symbol", "brace"} /\ args[j].name = None
    THEN Visited(args[j], ParamType(candidate, j)) ELSE args[j]

\* A fault: the index of the parameter is not advanced.
MismatchesFirst ==
    {j \in 1..Shorter(args, functions[candidate]) : ~Equal(Tried(j).type, ParamType(candidate, 1))}

\* The arguments that do not fit the candidate. Those behind its last parameter are
\* not looked at, nor those behind the first that does not fit.
Mismatches ==
    {j \in 1..Shorter(args, functions[candidate]) : ~Equal(Tried(j).type, ParamType(candidate, j))}

LookedAt ==
    IF Mismatches = {} THEN 1..Shorter(args, functions[candidate]) ELSE 1..Least(Mismatches)

\* As many arguments have got their type from this candidate as it has parameters.
Ambiguous ==
    Cardinality({j \in LookedAt : args[j].type = Unknown /\ Tried(j) # args[j]})
        = Len(functions[candidate])

\* The candidate needs more arguments than there are.
SkipFn ==
    /\ Trying /\ Arity(candidate) > Len(args)
    /\ candidate' = candidate + 1
    /\ UNCHANGED <<functions, analyzed, given, args, chosen, phase, argv>>

\* One overload is tried.
TryFn ==
    /\ Trying /\ Arity(candidate) <= Len(args)
    /\ args' = [j \in DOMAIN args |-> IF j \in LookedAt THEN Tried(j) ELSE args[j]]
    /\ \/ /\ Ambiguous
          /\ phase' = "no overload"
          /\ UNCHANGED <<candidate, chosen>>
       \/ /\ ~Ambiguous /\ Mismatches = {}
          /\ chosen' = candidate
          /\ phase' = "check"
          /\ UNCHANGED candidate
       \/ /\ ~Ambiguous /\ Mismatches # {}
          /\ candidate' = candidate + 1
          /\ UNCHANGED <<chosen, phase>>
    /\ UNCHANGED <<functions, analyzed, given, argv>>

\* "could not resolve function overload".
NoFn ==
    /\ phase = "pick" /\ Len(functions) > 1 /\ candidate > Len(functions)
    /\ phase' = "no overload"
    /\ UNCHANGED <<functions, analyzed, given, args, candidate, chosen, argv>>

\* A fault: an argument without a type is not visited again.
CheckArityOnly ==
    /\ phase = "check"
    /\ phase' = IF Len(args) < Arity(chosen) \/ Len(args) > Len(functions[chosen])
                THEN "wrong number" ELSE "replace"
    /\ UNCHANGED <<functions, analyzed, given, args, candidate, chosen, argv>>

\* The number of arguments is checked, and those still without a type are visited
\* with the type of the parameter at their own place, named or not.
CheckArity ==
    /\ phase = "check"
    /\ IF Len(args) < Arity(chosen) \/ Len(args) > Len(functions[chosen])
       THEN phase' = "wrong number" /\ UNCHANGED args
       ELSE /\ phase' = "replace"
            /\ args' = [j \in DOMAIN args |->
                          IF args[j].type = Unknown \/ (args[j].kind = "literal" /\ args[j].name = None)
                          THEN Visited(args[j], ParamType(chosen, j)) ELSE args[j]]
    /\ UNCHANGED <<functions, analyzed, given, candidate, chosen, argv>>

\* The named arguments, in the order written, that name a parameter.
Named == {k \in DOMAIN args : args[k].name # None /\ Position(chosen, args[k].name) # {}}
Target(k) == CHOOSE j \in Position(chosen, args[k].name) : TRUE

\* A place behind the last argument is read; a place that holds a positional
\* argument, or an argument moved there before, is refused.
Outside == {k \in Named : Target(k) > Len(args)}
Fulfilled ==
    {k \in Named \ Outside : \/ args[Target(k)].name = None
                             \/ \E l \in Named : l < k /\ Target(l) = Target(k)}

\* A fault: a place may be fulfilled twice.
ReplaceAny ==
    /\ phase = "replace"
    /\ phase' = "bound"
    /\ args' = [j \in DOMAIN args |->
                  IF \E k \in Named : Target(k) = j
                  THEN args[CHOOSE k \in Named : Target(k) = j /\ \A l \in Named : Target(l) = j => l <= k]
                  ELSE args[j]]
    /\ UNCHANGED <<functions, analyzed, given, candidate, chosen, argv>>

\* named_replace_list is worked off: named arguments move to the places of their
\* parameters. Reading behind the last argument is undefined.
ReplaceNamed ==
    /\ phase = "replace"
    /\ IF Fulfilled \cup Outside = {}
       THEN /\ phase' = "bound"
            /\ args' = [j \in DOMAIN args |->
                          IF \E k \in Named : Target(k) = j
                          THEN args[CHOOSE k \in Named : Target(k) = j] ELSE args[j]]
       ELSE /\ phase' = IF Least(Fulfilled \cup Outside) \in Outside THEN "undefined" ELSE "fulfilled twice"
            /\ UNCHANGED args
    /\ UNCHANGED <<functions, analyzed, given, candidate, chosen, argv>>

\* The module is emitted: each argument must have the type of its parameter. For
\* every parameter left over, the default of the first one left over is passed.
Emit ==
    /\ phase = "bound" /\ analyzed = Len(functions)
    /\ IF \E j \in DOMAIN args : ~Equal(args[j].type, functions[chosen][j].type)
       THEN phase' = "wrong type" /\ UNCHANGED argv
       ELSE /\ phase' = "emitted"
            /\ argv' = [j \in DOMAIN functions[chosen] |->
                          IF j <= Len(args) THEN [written |-> args[j].at, default |-> 0]
                          ELSE [written |-> 0, default |-> Len(args) + 1]]
    /\ UNCHANGED <<functions, analyzed, given, args, candidate, chosen>>

Errors == {"duplicate", "no overload", "wrong number", "fulfilled twice", "wrong type", "undefined"}

\* The compiler has gone on to something else or reported an error.
Stopped == phase \in Errors \cup {"emitted"} /\ UNCHANGED vars

Next ==
    \/ AnalyzeFn
    \/ BeginCall
    \/ TakeOnlyFn
    \/ SkipFn
    \/ TryFn
    \/ NoFn
    \/ CheckArity
    \/ ReplaceNamed
    \/ Emit
    \/ Stopped

Spec == Init /\ [][Next]_vars

-----------------------------------------------------------------------------
(* Correctness *)

\* Every variable has its type; an argument that has been bound has one too.
TypeOK ==
    /\ analyzed \in 0..Len(functions)
    /\ candidate \in 0..(Len(functions) + 1)
    /\ chosen \in 0..Len(functions)
    /\ phase \in Errors \cup {"declared", "pick", "check", "replace", "bound", "emitted"}
    /\ Len(args) \in {0, Len(given)}
    /\ \A j \in DOMAIN args : /\ args[j].type \in Type \cup {Unresolved, Unknown}
                              /\ phase \in {"replace", "bound", "emitted"} => args[j].type # Unknown

\* The declared types of a parameter list.
Types(f) == [j \in DOMAIN functions[f] |-> functions[f][j].type]

\* "Function is a duplicate" (analyzer.cpp:156) is only reported when there are two
\* functions with the same parameter types, odd as fn_is_duplicate compares them.
RejectedAreDuplicates ==
    phase = "duplicate" =>
        \E f, g \in DOMAIN functions : f # g /\ Types(f) = Types(g)

\* The type of an argument is plain, and fits function f.
Definite(arg) == arg.kind \in {"typed", "literal", "symbol"} /\ arg.name = None
Fits(f) ==
    /\ Len(given) = Len(functions[f])
    /\ \A j \in DOMAIN given : Definite(given[j]) /\ given[j].type = functions[f][j].type

\* Among overloads of one length that have all been visited, a call whose arguments
\* have their types from the start reaches a function exactly when one fits, and
\* then that one (get_fn, fn_collection.cpp).
EqualLengthsResolve ==
    (/\ Len(functions) > 1
     /\ chosen # 0 \/ phase = "no overload"
     /\ \A j \in DOMAIN given : given[j].kind \in {"typed", "literal"} /\ given[j].name = None
     /\ \A f \in DOMAIN functions : Len(functions[f]) = Len(given) /\ Arity(f) = Len(given)
     /\ Len(given) > 0
     /\ analyzed = Len(functions))
        => IF chosen # 0 THEN Fits(chosen)
           ELSE ~\E f \in DOMAIN functions : Fits(f)

\* What get_fn has found fitting among several functions is still fitting when the
\* call is emitted, although arguments keep types other candidates gave them and
\* literals adapt: no type error is left for the emission, but for named arguments,
\* which get_fn compares in the order written.
OverloadedCallsEmit ==
    phase = "wrong type" => Len(functions) = 1 \/ \E j \in DOMAIN given : given[j].name # None

\* When each name given is a parameter's, no argument is lost or passed twice, and
\* each ends at its parameter, whatever the order of the named ones
\* (readme.md:103). A name that no parameter has is not reported: the argument keeps
\* its place, where a named one may overwrite it.
ArgumentsReachParameters ==
    (phase = "emitted" /\ \A k \in DOMAIN given : given[k].name # None => Position(chosen, given[k].name) # {}) =>
        /\ \A k \in DOMAIN given : \E j \in DOMAIN argv : argv[j].written = k
        /\ \A j \in DOMAIN argv :
             LET k == argv[j].written
             IN  k # 0 => IF given[k].name = None THEN k = j ELSE given[k].name = functions[chosen][j].name
=============================================================================
