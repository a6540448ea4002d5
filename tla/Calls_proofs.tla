----------------------------- MODULE Calls_proofs -----------------------------
(***************************************************************************)
(* What holds of a call for every set of overloads and arguments:          *)
(* fn_is_duplicate has no false alarms; get_fn is exact among overloads    *)
(* of one length, and what it finds still fits when the call is           *)
(* emitted; named arguments reach their parameters whatever their order.   *)
(*                                                                         *)
(* CInv is the invariant the last three rest on.  That named arguments     *)
(* reach every place they leave is a pigeonhole argument: each moves to a  *)
(* place a named one leaves, and no two move to the same.                  *)
(***************************************************************************)
EXTENDS Calls, Lemmas, SequenceTheorems

\* The overloads are those that were declared.
Declarations == functions \in Overloads

\* The report of a duplicate is as true as when it was made: no function is visited
\* after it.
ErrorIsDuplicate == phase = "duplicate" => Duplicate(analyzed)

\* What fn_is_duplicate finds are two functions of the same parameter types: each
\* parameter of either has the type of the first parameter of f.
LEMMA DuplicatesShareTypes ==
    ASSUME Declarations, NEW f, Duplicate(f)
    PROVE  \E g, h \in DOMAIN functions : g # h /\ Types(g) = Types(h)
<1> DEFINE Matches(g) == \A j \in DOMAIN functions[g] : Equal(ParamType(f, 1), ParamType(g, j))
           S == {g \in DOMAIN functions : Matches(g)}
<1>1. /\ \A g \in DOMAIN functions : Len(functions[g]) = Len(functions[f])
      /\ Cardinality(S) > 1
  BY DEF Duplicate
<1>2. PICK g, h \in S : g # h
  <2> HIDE DEF S
  <2> QED
    BY <1>1, TwoElements
<1>3. DOMAIN functions[g] = DOMAIN functions[h]
  BY <1>1, CallsAssumption DEF Declarations
<1>4. ASSUME NEW j \in DOMAIN functions[g]
      PROVE  functions[g][j].type = functions[h][j].type
  <2>1. ASSUME NEW k \in {g, h}
        PROVE  functions[k][j].type = ParamType(f, 1)
    <3>1. ParamType(f, 1) \in Type /\ ParamType(k, j) = ParamType(f, 1)
      BY <1>3, <1>4, <2>1 DEF Equal
    <3> QED
      BY <3>1, CallsAssumption DEF ParamType
  <2> QED
    BY <2>1
<1> QED
  BY <1>2, <1>3, <1>4 DEF Types

LEMMA InitReport == Init => Declarations /\ ErrorIsDuplicate
  BY DEF Init, Declarations, ErrorIsDuplicate

\* Only AnalyzeFn reports a duplicate, and after the report only Stopped is left.
LEMMA NextReport ==
    Declarations /\ ErrorIsDuplicate /\ [Next]_vars => Declarations' /\ ErrorIsDuplicate'
<1> SUFFICES ASSUME Declarations, ErrorIsDuplicate, [Next]_vars
             PROVE  Declarations' /\ ErrorIsDuplicate'
  OBVIOUS
<1>1. CASE AnalyzeFn
  BY <1>1 DEF AnalyzeFn, Declarations, ErrorIsDuplicate
<1>2. CASE BeginCall \/ TakeOnlyFn \/ SkipFn \/ TryFn \/ NoFn
  <2>1. phase' # "duplicate" /\ functions' = functions
    BY <1>2 DEF BeginCall, TakeOnlyFn, SkipFn, TryFn, NoFn, Trying
  <2> QED
    BY <2>1 DEF Declarations, ErrorIsDuplicate
<1>3. CASE CheckArity \/ ReplaceNamed \/ Emit
  <2>1. phase' # "duplicate" /\ functions' = functions
    BY <1>3 DEF CheckArity, ReplaceNamed, Emit
  <2> QED
    BY <2>1 DEF Declarations, ErrorIsDuplicate
<1>4. CASE UNCHANGED vars
  BY <1>4 DEF vars, Declarations, ErrorIsDuplicate, Duplicate, ParamType
<1> QED
  BY <1>1, <1>2, <1>3, <1>4 DEF Next, Stopped

\* "Function is a duplicate" (analyzer.cpp:156) is only reported when there are two
\* functions with the same parameter types.
THEOREM OnlyDuplicatesAreRejected == Spec => []RejectedAreDuplicates
<1>1. Declarations /\ ErrorIsDuplicate => RejectedAreDuplicates
  BY DuplicatesShareTypes DEF ErrorIsDuplicate, RejectedAreDuplicates
<1> QED
  BY <1>1, InitReport, NextReport, PTL DEF Spec
-----------------------------------------------------------------------------
(* The inductive invariant of a call *)

\* The arguments of the call are those written, at the places they were written at or
\* at those they have been moved to.
IsArg(a) == a = [kind |-> a.kind, own |-> a.own, name |-> a.name, at |-> a.at, type |-> a.type]

ArgOK(a) ==
    /\ IsArg(a)
    /\ a.at \in DOMAIN given
    /\ a.kind = given[a.at].kind /\ a.own = given[a.at].type /\ a.name = given[a.at].name
    /\ a.type \in Type \cup {Unresolved, Unknown}
    /\ a.kind \in {"typed", "literal"} => a.type \in Type

ArgsOK ==
    /\ DOMAIN args = DOMAIN given /\ Len(args) = Len(given)
    /\ \A j \in DOMAIN args : ArgOK(args[j])

Phases == Errors \cup {"declared", "pick", "check", "replace", "bound", "emitted"}

\* The call is where its phase says.
PlaceOK ==
    /\ functions \in Overloads /\ given \in Arguments
    /\ analyzed \in 0..Len(functions)
    /\ candidate \in 0..(Len(functions) + 1) /\ (phase = "pick" => candidate > 0)
    /\ chosen \in 0..Len(functions)
    /\ phase \in {"declared", "pick"} => chosen = 0
    /\ phase \in {"check", "replace", "bound", "emitted"} => chosen > 0
    /\ phase \in Phases

\* The arguments are made when the call is begun; they stay in place up to the phase in
\* which the named ones move, and have types from then on.
BindingOK ==
    /\ \/ phase \in {"declared", "duplicate"} /\ args = <<>>
       \/ phase # "declared" /\ ArgsOK
    /\ phase \in {"pick", "check", "replace"} => \A j \in DOMAIN args : args[j].at = j
    /\ phase \in {"replace", "bound", "emitted"} =>
          /\ Len(args) <= Len(functions[chosen])
          /\ \A j \in DOMAIN args : args[j].type # Unknown

CInv == PlaceOK /\ BindingOK

\* A function found among several fits the arguments from then on, if none is named.
StillFits ==
    Len(functions) > 1 /\ (\A j \in DOMAIN given : given[j].name = None) =>
        /\ phase # "wrong type"
        /\ phase \in {"check", "replace", "bound"} =>
              \A j \in DOMAIN args \cap DOMAIN functions[chosen] :
                  chosen <= analyzed /\ args[j].type = functions[chosen][j].type

\* Every name given is that of a parameter.
KnownNames ==
    \A k \in DOMAIN given : given[k].name # None => Position(chosen, given[k].name) # {}

\* Once the named arguments have moved, each argument is at one place, that of its
\* parameter if it is named and its own if not.
AllPlaced ==
    phase \in {"bound", "emitted"} /\ KnownNames =>
        /\ \A k \in DOMAIN given : \E j \in DOMAIN args : args[j].at = k
        /\ \A j \in DOMAIN args :
              IF args[j].name = None THEN args[j].at = j
              ELSE args[j].name = functions[chosen][j].name

AllPassed ==
    phase = "emitted" =>
        /\ DOMAIN argv = DOMAIN functions[chosen]
        /\ \A j \in DOMAIN argv : argv[j].written = IF j <= Len(args) THEN args[j].at ELSE 0

\* The calls EqualLengthsResolve is about.
EqualLengths ==
    /\ Len(functions) > 1
    /\ \A j \in DOMAIN given : given[j].kind \in {"typed", "literal"} /\ given[j].name = None
    /\ \A f \in DOMAIN functions : Len(functions[f]) = Len(given) /\ Arity(f) = Len(given)
    /\ Len(given) > 0

\* The search goes past a visited function only if it does not fit, and stops at none
\* that does not.
SearchIsExact ==
    EqualLengths =>
        /\ phase = "pick" =>
              /\ \A j \in DOMAIN args : args[j].type = given[j].type
              /\ \A f \in 1..(candidate - 1) : f <= analyzed => ~Fits(f)
        /\ chosen # 0 => Fits(chosen)
        /\ phase = "no overload" => \A f \in 1..analyzed : ~Fits(f)

-----------------------------------------------------------------------------
(* Lemmas about the arguments *)

LEMMA Shapes ==
    ASSUME functions \in Overloads, given \in Arguments
    PROVE  /\ Len(functions) \in Nat \ {0} /\ DOMAIN functions = 1..Len(functions)
           /\ \A f \in DOMAIN functions :
                 /\ Len(functions[f]) \in Nat /\ DOMAIN functions[f] = 1..Len(functions[f])
                 /\ \A j \in DOMAIN functions[f] : functions[f][j].type \in Type
           /\ Len(given) \in Nat /\ DOMAIN given = 1..Len(given)
  BY CallsAssumption

\* The length of a function over the places of the arguments.
LEMMA LengthKept ==
    ASSUME given \in Arguments, NEW s, s = [j \in DOMAIN given |-> s[j]]
    PROVE  DOMAIN s = DOMAIN given /\ Len(s) = Len(given)
<1>1. Len(given) \in Nat /\ DOMAIN given = 1..Len(given)
  BY CallsAssumption
<1>2. s = [j \in 1..Len(given) |-> s[j]]
  BY <1>1
<1> QED
  BY <1>1, <1>2

LEMMA ParamTypes ==
    ASSUME functions \in Overloads, NEW f \in DOMAIN functions, NEW j \in DOMAIN functions[f]
    PROVE  ParamType(f, j) \in Type \cup {Unresolved}
  BY CallsAssumption DEF ParamType

\* An argument that is visited has a type.
LEMMA VisitedOK ==
    ASSUME given \in Arguments, NEW a, ArgOK(a), NEW t \in Type \cup {Unresolved}
    PROVE  /\ ArgOK(Visited(a, t))
           /\ Visited(a, t).at = a.at /\ Visited(a, t).name = a.name /\ Visited(a, t).kind = a.kind
           /\ Visited(a, t).type # Unknown
<1> DEFINE type == CASE a.kind = "symbol" -> a.own
                     [] a.kind = "brace" -> IF a.type = Unknown THEN t ELSE a.type
                     [] a.kind = "literal" -> IF <<a.type, t>> \in Coerces THEN t ELSE a.type
                     [] OTHER -> a.type
<1>1. Visited(a, t) = [a EXCEPT !.type = type]
  BY DEF Visited
<1>2. /\ Unresolved \notin Type /\ Unknown \notin Type \cup {Unresolved}
      /\ Coerces \subseteq Type \X Type
  BY CallsAssumption
<1>3. IF a.kind = "brace" THEN a.own = Unknown
      ELSE a.kind \in {"typed", "literal", "symbol"} /\ a.own \in Type
  BY CallsAssumption DEF ArgOK
<1>4. type \in Type \cup {Unresolved} /\ (a.kind \in {"typed", "literal"} => type \in Type)
  <2>1. CASE a.kind = "symbol"
    BY <1>3, <2>1
  <2>2. CASE a.kind = "brace"
    BY <1>3, <2>2 DEF ArgOK
  <2>3. CASE a.kind = "literal"
    BY <1>2, <2>3 DEF ArgOK
  <2>4. CASE a.kind = "typed"
    BY <1>2, <2>4 DEF ArgOK
  <2> QED
    BY <1>3, <2>1, <2>2, <2>3, <2>4
<1> HIDE DEF type
<1>5. Visited(a, t) = [kind |-> a.kind, own |-> a.own, name |-> a.name, at |-> a.at, type |-> type]
  BY <1>1 DEF ArgOK, IsArg
<1> QED
  BY <1>2, <1>4, <1>5 DEF ArgOK, IsArg

LEMMA ArgsKept ==
    ASSUME ArgsOK, args' = args, given' = given
    PROVE  ArgsOK'
  BY DEF ArgsOK, ArgOK, IsArg

\* What the invariant says of a call in each phase.
LEMMA CallFacts ==
    ASSUME CInv
    PROVE  /\ functions \in Overloads /\ given \in Arguments
           /\ Len(functions) \in Nat \ {0} /\ DOMAIN functions = 1..Len(functions)
           /\ phase = "pick" => candidate \in 1..(Len(functions) + 1) /\ chosen = 0
           /\ phase \in {"check", "replace", "bound", "emitted"} =>
                 chosen \in 1..Len(functions) /\ chosen \in DOMAIN functions
           /\ phase \notin {"declared", "duplicate"} => ArgsOK
<1>1. functions \in Overloads /\ given \in Arguments
  BY DEF CInv, PlaceOK
<1>2. Len(functions) \in Nat \ {0} /\ DOMAIN functions = 1..Len(functions)
  BY <1>1, Shapes
<1>3. phase = "pick" => candidate \in 1..(Len(functions) + 1) /\ chosen = 0
  BY <1>2 DEF CInv, PlaceOK
<1>4. phase \in {"check", "replace", "bound", "emitted"} => chosen \in 1..Len(functions)
  BY <1>2 DEF CInv, PlaceOK
<1>5. phase \notin {"declared", "duplicate"} => ArgsOK
  BY DEF CInv, BindingOK
<1> QED
  BY <1>1, <1>2, <1>3, <1>4, <1>5

\* Trying an overload looks at arguments that have a parameter.
LEMMA LookedAtPlaces ==
    ASSUME CInv, Trying
    PROVE  /\ candidate \in DOMAIN functions
           /\ 1..Shorter(args, functions[candidate]) = DOMAIN args \cap DOMAIN functions[candidate]
           /\ LookedAt \subseteq DOMAIN args \cap DOMAIN functions[candidate]
           /\ Mismatches = {} => LookedAt = DOMAIN args \cap DOMAIN functions[candidate]
<1>1. /\ phase = "pick" /\ candidate \in 1..Len(functions) /\ functions \in Overloads /\ given \in Arguments
      /\ ArgsOK
  BY CallFacts DEF Trying
<1>2. candidate \in DOMAIN functions
  BY <1>1, Shapes
<1> DEFINE m == Len(args)
           n == Len(functions[candidate])
           shorter == Shorter(args, functions[candidate])
<1>3. m \in Nat /\ DOMAIN args = 1..m /\ n \in Nat /\ DOMAIN functions[candidate] = 1..n
  BY <1>1, <1>2, Shapes DEF ArgsOK
<1>4. shorter = IF m < n THEN m ELSE n
  BY DEF Shorter
<1> HIDE DEF m, n, shorter
<1>5. shorter \in Nat /\ 1..shorter = DOMAIN args \cap DOMAIN functions[candidate]
  BY <1>3, <1>4
<1>6. Mismatches # {} => Least(Mismatches) \in 1..shorter
  <2>1. Mismatches \in SUBSET (1..shorter)
    BY DEF Mismatches, shorter
  <2>2. Mismatches \in SUBSET Nat
    BY <1>5, <2>1
  <2> QED
    BY <2>1, <2>2, LeastNatural DEF Least
<1>7. LookedAt = IF Mismatches = {} THEN 1..shorter ELSE 1..Least(Mismatches)
  BY DEF LookedAt, shorter
<1>8. LookedAt \subseteq 1..shorter
  BY <1>5, <1>6, <1>7
<1> QED
  BY <1>2, <1>5, <1>7, <1>8 DEF shorter

\* Trying an overload leaves arguments.
LEMMA TriedOK ==
    ASSUME CInv, Trying, NEW j \in DOMAIN args \cap DOMAIN functions[candidate]
    PROVE  ArgOK(Tried(j)) /\ Tried(j).at = args[j].at
<1>1. candidate \in DOMAIN functions
  BY LookedAtPlaces
<1>2. ParamType(candidate, j) \in Type \cup {Unresolved}
  BY <1>1, ParamTypes, CallFacts
<1>3. given \in Arguments /\ ArgOK(args[j])
  BY CallFacts DEF Trying, ArgsOK
<1> QED
  BY <1>2, <1>3, VisitedOK DEF Tried

-----------------------------------------------------------------------------
(* Every step keeps the invariant. *)

\* The places the search may go to from a candidate: on to the next, or to its end.
LEMMA Places ==
    ASSUME NEW n \in Nat \ {0}, NEW c \in 1..(n + 1)
    PROVE  /\ c \in 0..(n + 1) /\ c > 0 /\ 0 \in 0..n
           /\ c <= n => c + 1 \in 0..(n + 1) /\ c + 1 > 0
           /\ \A h \in 1..n : h \in 0..n /\ h > 0
  OBVIOUS

LEMMA InRange ==
    ASSUME NEW n \in Nat \ {0}, NEW c \in 1..(n + 1), NEW p, NEW d, NEW h,
           \/ p = "pick" /\ d = c + 1 /\ c <= n /\ h = 0
           \/ p = "check" /\ d = c /\ h \in 1..n
           \/ p = "no overload" /\ d = c /\ h = 0
    PROVE  /\ d \in 0..(n + 1) /\ (p = "pick" => d > 0) /\ h \in 0..n
           /\ (p = "pick" => h = 0) /\ (p = "check" => h > 0)
           /\ p \in {"pick", "check", "no overload"}
  BY Places, Zenon

LEMMA InitCInv == Init => CInv
<1> SUFFICES ASSUME Init PROVE CInv
  OBVIOUS
<1>1. functions \in Overloads /\ given \in Arguments
  BY DEF Init
<1>2. Len(functions) \in Nat
  BY <1>1, Shapes
<1>3. DOMAIN args = {}
  BY DEF Init
<1> QED
  BY <1>1, <1>2, <1>3 DEF Init, CInv, PlaceOK, BindingOK, Phases

LEMMA BeginCInv == ASSUME CInv, BeginCall PROVE CInv'
<1>1. functions \in Overloads /\ given \in Arguments /\ chosen = 0 /\ Len(functions) \in Nat
  BY CallFacts DEF CInv, PlaceOK, BeginCall
<1>2. DOMAIN args' = DOMAIN given /\ Len(args') = Len(given)
  <2>1. args' = [j \in DOMAIN given |-> args'[j]]
    BY DEF BeginCall
  <2> QED
    BY <1>1, <2>1, LengthKept
<1>3. ASSUME NEW j \in DOMAIN given PROVE ArgOK(args'[j]) /\ args'[j].at = j
  <2>1. PICK t : args'[j] = [kind |-> given[j].kind, own |-> given[j].type, name |-> given[j].name, at |-> j,
                             type |-> IF t THEN given[j].type ELSE Unknown]
                 /\ t = (\/ given[j].kind \in {"typed", "literal"}
                         \/ given[j].kind = "symbol" /\ given[j].name # None)
    BY DEF BeginCall
  <2>2. IF given[j].kind = "brace" THEN given[j].type = Unknown
        ELSE given[j].kind \in {"typed", "literal", "symbol"} /\ given[j].type \in Type
    BY <1>1, CallsAssumption
  <2> QED
    BY <2>1, <2>2 DEF ArgOK, IsArg
<1>4. given' = given
  BY DEF BeginCall
<1>5. ArgsOK'
  BY <1>2, <1>3, <1>4 DEF ArgsOK, ArgOK, IsArg
<1>6. \A j \in DOMAIN args' : args'[j].at = j
  BY <1>2, <1>3
<1> QED
  BY <1>1, <1>5, <1>6 DEF BeginCall, CInv, PlaceOK, BindingOK, Phases

\* A step that leaves the arguments alone.
LEMMA OtherCInv ==
    ASSUME CInv, AnalyzeFn \/ TakeOnlyFn \/ SkipFn \/ NoFn \/ Emit \/ UNCHANGED vars
    PROVE  CInv'
<1>1. functions \in Overloads /\ given \in Arguments /\ Len(functions) \in Nat \ {0} /\ PlaceOK /\ BindingOK
  BY CallFacts DEF CInv
<1>2. functions' = functions /\ given' = given /\ args' = args
  <2>1. AnalyzeFn \/ TakeOnlyFn \/ SkipFn => functions' = functions /\ given' = given /\ args' = args
    BY DEF AnalyzeFn, TakeOnlyFn, SkipFn
  <2>2. NoFn \/ Emit \/ UNCHANGED vars => functions' = functions /\ given' = given /\ args' = args
    BY DEF NoFn, Emit, vars
  <2> QED
    BY <2>1, <2>2
<1>3. ArgsOK => ArgsOK'
  BY <1>2, ArgsKept
<1>4. CASE AnalyzeFn
  <2>1. /\ analyzed \in 0..Len(functions) /\ analyzed < Len(functions) /\ analyzed' = analyzed + 1
        /\ candidate' = candidate /\ chosen' = chosen
        /\ phase \in {"declared", "bound"} /\ phase' \in {"duplicate", phase}
    BY <1>1, <1>4 DEF AnalyzeFn, PlaceOK
  <2>2. PlaceOK'
    <3>1. phase' \in Phases
      BY <2>1 DEF Phases, Errors
    <3> QED
      BY <1>1, <1>2, <2>1, <3>1 DEF PlaceOK
  <2>3. BindingOK'
    BY <1>1, <1>2, <1>3, <2>1 DEF BindingOK
  <2> QED
    BY <2>2, <2>3 DEF CInv
<1>5. CASE TakeOnlyFn \/ SkipFn \/ NoFn
  <2>1. phase = "pick" /\ candidate \in 1..(Len(functions) + 1) /\ chosen = 0 /\ ArgsOK
    BY <1>5, CallFacts DEF TakeOnlyFn, SkipFn, NoFn, Trying
  <2>2. /\ analyzed' = analyzed
        /\ \/ phase' = "pick" /\ candidate' = candidate + 1 /\ candidate <= Len(functions) /\ chosen' = 0
           \/ phase' = "check" /\ candidate' = candidate /\ chosen' \in 1..Len(functions)
           \/ phase' = "no overload" /\ candidate' = candidate /\ chosen' = 0
    <3>1. TakeOnlyFn => /\ analyzed' = analyzed
                        /\ phase' = "check" /\ candidate' = candidate /\ chosen' = 1 /\ 1 \in 1..Len(functions)
      BY <1>1 DEF TakeOnlyFn
    <3>2. SkipFn => /\ analyzed' = analyzed /\ candidate <= Len(functions)
                    /\ phase' = "pick" /\ candidate' = candidate + 1 /\ chosen' = 0
      BY <2>1 DEF SkipFn, Trying
    <3>3. NoFn => /\ analyzed' = analyzed
                  /\ phase' = "no overload" /\ candidate' = candidate /\ chosen' = 0
      BY <2>1 DEF NoFn
    <3> QED
      BY <1>5, <3>1, <3>2, <3>3
  <2>3. PlaceOK'
    <3>1. phase' \in Phases
      BY <2>1, <2>2 DEF Phases, Errors
    <3>2. /\ candidate' \in 0..(Len(functions) + 1) /\ (phase' = "pick" => candidate' > 0)
          /\ chosen' \in 0..Len(functions)
          /\ (phase' = "pick" => chosen' = 0) /\ (phase' = "check" => chosen' > 0)
          /\ phase' \in {"pick", "check", "no overload"}
      BY <1>1, <2>1, <2>2, InRange
    <3> QED
      BY <1>1, <1>2, <2>2, <3>1, <3>2 DEF PlaceOK
  <2>4. BindingOK'
    BY <1>1, <1>2, <1>3, <2>1, <2>2 DEF BindingOK
  <2> QED
    BY <2>3, <2>4 DEF CInv
<1>6. CASE Emit
  <2>1. phase = "bound" /\ phase' \in {"wrong type", "emitted"}
    BY <1>6 DEF Emit
  <2>2. analyzed' = analyzed /\ candidate' = candidate /\ chosen' = chosen
    BY <1>6 DEF Emit
  <2>3. PlaceOK'
    <3>1. phase' \in Phases
      BY <2>1, <2>2 DEF Phases, Errors
    <3> QED
      BY <1>1, <1>2, <2>1, <2>2, <3>1 DEF PlaceOK
  <2>4. BindingOK'
    BY <1>1, <1>2, <1>3, <2>1, <2>2 DEF BindingOK
  <2> QED
    BY <2>3, <2>4 DEF CInv
<1>7. CASE UNCHANGED vars
  BY <1>1, <1>2, <1>3, <1>7 DEF vars, CInv, PlaceOK, BindingOK
<1> QED
  BY <1>4, <1>5, <1>6, <1>7

LEMMA TryCInv == ASSUME CInv, TryFn PROVE CInv'
<1>1. /\ Trying /\ phase = "pick" /\ functions \in Overloads /\ given \in Arguments /\ ArgsOK
      /\ Len(functions) \in Nat \ {0} /\ candidate \in 1..Len(functions) /\ PlaceOK /\ BindingOK
  <2>1. Trying /\ phase = "pick" /\ candidate <= Len(functions)
    BY DEF TryFn, Trying
  <2>2. candidate \in 1..(Len(functions) + 1) /\ ArgsOK
    BY <2>1, CallFacts
  <2> QED
    BY <2>1, <2>2, CallFacts DEF CInv
<1>2. functions' = functions /\ given' = given /\ analyzed' = analyzed
  BY DEF TryFn
<1>3. DOMAIN args = DOMAIN given
  BY <1>1 DEF ArgsOK
<1>4. args' = [j \in DOMAIN args |-> IF j \in LookedAt THEN Tried(j) ELSE args[j]]
  BY DEF TryFn
<1>5. DOMAIN args' = DOMAIN given /\ Len(args') = Len(given)
  <2>1. args' = [j \in DOMAIN given |-> args'[j]]
    BY <1>3, <1>4
  <2> QED
    BY <1>1, <2>1, LengthKept
<1>6. ASSUME NEW j \in DOMAIN args PROVE ArgOK(args'[j]) /\ args'[j].at = args[j].at
  <2>1. CASE j \in LookedAt
    BY <1>1, <1>4, <2>1, LookedAtPlaces, TriedOK
  <2>2. CASE j \notin LookedAt
    BY <1>1, <1>4, <2>2 DEF ArgsOK
  <2> QED
    BY <2>1, <2>2
<1>7. ArgsOK'
  BY <1>2, <1>3, <1>5, <1>6 DEF ArgsOK, ArgOK, IsArg
<1>8. \A j \in DOMAIN args' : args'[j].at = j
  BY <1>1, <1>3, <1>5, <1>6 DEF BindingOK
<1>9. \/ phase' = "pick" /\ candidate' = candidate + 1 /\ candidate <= Len(functions) /\ chosen' = 0
      \/ phase' = "check" /\ candidate' = candidate /\ chosen' \in 1..Len(functions)
      \/ phase' = "no overload" /\ candidate' = candidate /\ chosen' = 0
  <2>1. chosen = 0 /\ candidate <= Len(functions)
    BY <1>1 DEF PlaceOK
  <2> QED
    BY <1>1, <2>1 DEF TryFn
<1>10. PlaceOK'
  <2>1. phase' \in Phases
    BY <1>9 DEF Phases, Errors
  <2>2. candidate \in 1..(Len(functions) + 1)
    BY <1>1
  <2>3. /\ candidate' \in 0..(Len(functions) + 1) /\ (phase' = "pick" => candidate' > 0)
        /\ chosen' \in 0..Len(functions)
        /\ (phase' = "pick" => chosen' = 0) /\ (phase' = "check" => chosen' > 0)
        /\ phase' \in {"pick", "check", "no overload"}
    BY <1>1, <1>9, <2>2, InRange
  <2> QED
    BY <1>1, <1>2, <2>1, <2>3 DEF PlaceOK
<1>11. BindingOK'
  BY <1>7, <1>8, <1>9 DEF BindingOK
<1> QED
  BY <1>10, <1>11 DEF CInv

LEMMA CheckCInv == ASSUME CInv, CheckArity PROVE CInv'
<1>1. /\ phase = "check" /\ functions \in Overloads /\ given \in Arguments /\ ArgsOK
      /\ chosen \in 1..Len(functions) /\ Len(functions) \in Nat \ {0} /\ PlaceOK /\ BindingOK
  BY CallFacts DEF CInv, CheckArity
<1>2. functions' = functions /\ given' = given /\ analyzed' = analyzed /\ candidate' = candidate /\ chosen' = chosen
  BY Zenon DEF CheckArity
<1>3. CASE Len(args) < Arity(chosen) \/ Len(args) > Len(functions[chosen])
  <2>1. args' = args /\ phase' = "wrong number"
    BY <1>3 DEF CheckArity
  <2> QED
    BY <1>1, <1>2, <2>1, ArgsKept DEF CInv, PlaceOK, BindingOK, Phases, Errors
<1>4. CASE ~(Len(args) < Arity(chosen) \/ Len(args) > Len(functions[chosen]))
  <2>1. /\ phase' = "replace"
        /\ args' = [j \in DOMAIN args |->
                      IF args[j].type = Unknown \/ (args[j].kind = "literal" /\ args[j].name = None)
                      THEN Visited(args[j], ParamType(chosen, j)) ELSE args[j]]
    BY <1>4 DEF CheckArity
  <2>2. DOMAIN args = DOMAIN given /\ Len(args) = Len(given)
    BY <1>1 DEF ArgsOK
  <2>3. DOMAIN args' = DOMAIN given /\ Len(args') = Len(given)
    <3>1. args' = [j \in DOMAIN given |-> args'[j]]
      BY <2>1, <2>2
    <3> QED
      BY <1>1, <3>1, LengthKept
  <2>4. Len(args) <= Len(functions[chosen]) /\ DOMAIN args \subseteq DOMAIN functions[chosen]
    <3>1. chosen \in DOMAIN functions
      BY <1>1, Shapes
    <3> DEFINE m == Len(args)
               n == Len(functions[chosen])
    <3>2. m \in Nat /\ n \in Nat /\ DOMAIN args = 1..m /\ DOMAIN functions[chosen] = 1..n
      BY <1>1, <2>2, <3>1, Shapes
    <3>3. ~(m > n)
      BY <1>4
    <3> HIDE DEF m, n
    <3>4. m <= n /\ DOMAIN args \subseteq DOMAIN functions[chosen]
      BY <3>2, <3>3
    <3> QED
      BY <3>4 DEF m, n
  <2>5. ASSUME NEW j \in DOMAIN args
        PROVE  ArgOK(args'[j]) /\ args'[j].at = args[j].at /\ args'[j].type # Unknown
    <3>1. ParamType(chosen, j) \in Type \cup {Unresolved}
      BY <1>1, <2>4, ParamTypes, Shapes
    <3>2. ArgOK(args[j])
      BY <1>1 DEF ArgsOK
    <3> QED
      BY <1>1, <2>1, <3>1, <3>2, VisitedOK
  <2>6. ArgsOK'
    BY <1>2, <2>2, <2>3, <2>5 DEF ArgsOK, ArgOK, IsArg
  <2>7. \A j \in DOMAIN args' : args'[j].at = j /\ args'[j].type # Unknown
    BY <1>1, <2>2, <2>3, <2>5 DEF BindingOK
  <2>8. Len(args') <= Len(functions[chosen])
    BY <2>2, <2>3, <2>4
  <2>9. PlaceOK'
    BY <1>1, <1>2, <2>1 DEF PlaceOK, Phases, Errors
  <2>10. BindingOK'
    BY <1>2, <2>1, <2>6, <2>7, <2>8 DEF BindingOK
  <2> QED
    BY <2>9, <2>10 DEF CInv
<1> QED
  BY <1>3, <1>4

\* The target of a named argument is a parameter of that name.
LEMMA Targets ==
    ASSUME NEW k \in Named
    PROVE  /\ k \in DOMAIN args /\ args[k].name # None
           /\ Target(k) \in DOMAIN functions[chosen]
           /\ functions[chosen][Target(k)].name = args[k].name
  BY DEF Named, Target, Position

\* What replacing the named arguments does to a list that is accepted.
LEMMA Replaced ==
    ASSUME CInv, ReplaceNamed, phase' = "bound"
    PROVE  /\ Fulfilled = {} /\ Outside = {}
           /\ DOMAIN args' = DOMAIN args /\ Len(args') = Len(args)
           /\ \A j \in DOMAIN args :
                 \/ /\ args'[j] = args[j]
                    /\ ~\E k \in Named : Target(k) = j
                 \/ \E k \in Named : Target(k) = j /\ args'[j] = args[k]
<1>1. Fulfilled \cup Outside = {}
  BY DEF ReplaceNamed
<1>2. args' = [j \in DOMAIN args |->
                IF \E k \in Named : Target(k) = j
                THEN args[CHOOSE k \in Named : Target(k) = j] ELSE args[j]]
  BY <1>1 DEF ReplaceNamed
<1>3. DOMAIN args = DOMAIN given /\ Len(args) = Len(given) /\ given \in Arguments
  BY CallFacts DEF ReplaceNamed, ArgsOK
<1>4. DOMAIN args' = DOMAIN args /\ Len(args') = Len(args)
  <2>1. args' = [j \in DOMAIN given |-> args'[j]]
    BY <1>2, <1>3
  <2> QED
    BY <1>3, <2>1, LengthKept
<1> QED
  BY <1>1, <1>2, <1>4

LEMMA ReplaceCInv == ASSUME CInv, ReplaceNamed PROVE CInv'
<1>1. /\ phase = "replace" /\ ArgsOK /\ Len(functions) \in Nat \ {0}
      /\ functions' = functions /\ given' = given /\ analyzed' = analyzed /\ candidate' = candidate
      /\ chosen' = chosen /\ PlaceOK /\ BindingOK
  BY CallFacts DEF CInv, ReplaceNamed
<1>2. CASE phase' = "bound"
  <2>1. DOMAIN args' = DOMAIN args /\ Len(args') = Len(args)
    BY <1>2, Replaced
  <2>2. \A j \in DOMAIN args : \E k \in DOMAIN args : args'[j] = args[k]
    BY <1>2, Replaced, Targets
  <2>0. \A j \in DOMAIN args : ArgOK(args'[j])
    BY <1>1, <2>2 DEF ArgsOK
  <2>3. ArgsOK'
    BY <1>1, <2>1, <2>0 DEF ArgsOK, ArgOK, IsArg
  <2>4. \A j \in DOMAIN args' : args'[j].type # Unknown
    BY <1>1, <2>1, <2>2 DEF BindingOK
  <2>5. PlaceOK'
    BY <1>1, <1>2 DEF PlaceOK, Phases, Errors
  <2>6. BindingOK'
    BY <1>1, <1>2, <2>1, <2>3, <2>4 DEF BindingOK
  <2> QED
    BY <2>5, <2>6 DEF CInv
<1>3. CASE phase' # "bound"
  <2>1. phase' \in {"undefined", "fulfilled twice"} /\ args' = args
    BY <1>3 DEF ReplaceNamed
  <2> QED
    BY <1>1, <2>1, ArgsKept DEF CInv, PlaceOK, BindingOK, Phases, Errors
<1> QED
  BY <1>2, <1>3

LEMMA NextCInv == CInv /\ [Next]_vars => CInv'
  BY BeginCInv, OtherCInv, TryCInv, CheckCInv, ReplaceCInv DEF Next, Stopped

LEMMA CallInvariance == Spec => []CInv
  BY InitCInv, NextCInv, PTL DEF Spec

\* The variables keep their types, and an argument that has been bound has a type, for
\* every set of overloads and arguments.
THEOREM CallTypeCorrect == Spec => []TypeOK
<1>1. CInv => TypeOK
  <2> SUFFICES ASSUME CInv PROVE TypeOK
    OBVIOUS
  <2>1. Len(args) \in {0, Len(given)} /\ \A j \in DOMAIN args : args[j].type \in Type \cup {Unresolved, Unknown}
    <3>1. CASE args = <<>>
      BY <3>1
    <3>2. CASE ArgsOK
      BY <3>2 DEF ArgsOK, ArgOK
    <3> QED
      BY <3>1, <3>2 DEF CInv, BindingOK
  <2> QED
    BY <2>1 DEF CInv, PlaceOK, BindingOK, TypeOK, Phases
<1> QED
  BY <1>1, CallInvariance, PTL
-----------------------------------------------------------------------------
(* The function found fits until the call is emitted. *)

\* get_fn settles on a function whose parameters have been visited and have the types
\* of the arguments.
LEMMA FoundFits ==
    ASSUME CInv, TryFn, phase' = "check",
           NEW j \in DOMAIN args \cap DOMAIN functions[candidate]
    PROVE  /\ chosen' = candidate /\ candidate <= analyzed
           /\ args'[j].type = functions[candidate][j].type
<1>1. Trying /\ Mismatches = {} /\ chosen' = candidate
  BY DEF TryFn, Trying
<1>2. j \in LookedAt /\ candidate \in DOMAIN functions
  BY <1>1, LookedAtPlaces
<1>3. args'[j] = Tried(j)
  BY <1>2 DEF TryFn
<1>4. Equal(Tried(j).type, ParamType(candidate, j))
  BY <1>1, LookedAtPlaces DEF Mismatches
<1> QED
  BY <1>1, <1>3, <1>4, CallsAssumption DEF Equal, ParamType

\* A visit that asks for the type an argument has leaves it that type.
LEMMA VisitedKeepsType ==
    ASSUME given \in Arguments, NEW a, ArgOK(a), a.kind = "literal", NEW t, a.type = t
    PROVE  Visited(a, t).type = t
<1>1. Visited(a, t) = [a EXCEPT !.type = t]
  BY DEF Visited
<1> QED
  BY <1>1 DEF ArgOK, IsArg

\* An argument has the name it was written with.
LEMMA NamesKept ==
    ASSUME ArgsOK, \A j \in DOMAIN given : given[j].name = None
    PROVE  \A j \in DOMAIN args : args[j].name = None
  BY DEF ArgsOK, ArgOK

\* The arguments of a call that is bound have parameters.
LEMMA BoundPlaces ==
    ASSUME CInv, phase \in {"replace", "bound", "emitted"}
    PROVE  /\ DOMAIN args \subseteq DOMAIN functions[chosen]
           /\ DOMAIN args = 1..Len(args) /\ DOMAIN functions[chosen] = 1..Len(functions[chosen])
           /\ Len(args) \in Nat /\ Len(functions[chosen]) \in Nat /\ Len(args) <= Len(functions[chosen])
<1> DEFINE m == Len(args)
           n == Len(functions[chosen])
<1>1. chosen \in DOMAIN functions /\ functions \in Overloads /\ given \in Arguments /\ ArgsOK
  BY CallFacts
<1>2. m \in Nat /\ n \in Nat /\ DOMAIN args = 1..m /\ DOMAIN functions[chosen] = 1..n
  BY <1>1, Shapes DEF ArgsOK
<1>3. m <= n
  BY DEF CInv, BindingOK
<1> HIDE DEF m, n
<1>4. DOMAIN args \subseteq DOMAIN functions[chosen]
  BY <1>2, <1>3
<1> QED
  BY <1>2, <1>3, <1>4 DEF m, n

\* The arguments a call has while its function is kept.
FoundOK ==
    \A j \in DOMAIN args \cap DOMAIN functions[chosen] :
        chosen <= analyzed /\ args[j].type = functions[chosen][j].type

LEMMA CheckStillFits ==
    ASSUME CInv, CheckArity, phase' = "replace", FoundOK
    PROVE  FoundOK'
<1>1. /\ functions \in Overloads /\ given \in Arguments /\ ArgsOK /\ chosen \in DOMAIN functions
      /\ functions' = functions /\ chosen' = chosen /\ analyzed' = analyzed
  BY CallFacts DEF CheckArity
<1>2. args' = [j \in DOMAIN args |->
                IF args[j].type = Unknown \/ (args[j].kind = "literal" /\ args[j].name = None)
                THEN Visited(args[j], ParamType(chosen, j)) ELSE args[j]]
  BY DEF CheckArity
<1>3. ASSUME NEW j \in DOMAIN args \cap DOMAIN functions[chosen]
      PROVE  chosen <= analyzed /\ args'[j].type = functions[chosen][j].type
  <2>1. chosen <= analyzed /\ args[j].type = functions[chosen][j].type /\ ArgOK(args[j])
    BY <1>1 DEF FoundOK, ArgsOK
  <2>2. args[j].type = ParamType(chosen, j) /\ args[j].type # Unknown
    BY <1>1, <2>1, CallsAssumption DEF ParamType
  <2>3. CASE args[j].kind = "literal" /\ args[j].name = None
    BY <1>1, <1>2, <2>1, <2>2, <2>3, VisitedKeepsType
  <2>4. CASE ~(args[j].kind = "literal" /\ args[j].name = None)
    BY <1>2, <2>1, <2>2, <2>4
  <2> QED
    BY <2>3, <2>4
<1>4. DOMAIN args' = DOMAIN args
  BY <1>2
<1> QED
  BY <1>1, <1>3, <1>4 DEF FoundOK

LEMMA EmitStillFits ==
    ASSUME CInv, Emit, FoundOK
    PROVE  phase' # "wrong type"
<1>1. /\ functions \in Overloads /\ chosen \in DOMAIN functions
      /\ DOMAIN args \subseteq DOMAIN functions[chosen]
  BY CallFacts, BoundPlaces DEF Emit
<1>2. ASSUME NEW j \in DOMAIN args
      PROVE  Equal(args[j].type, functions[chosen][j].type)
  BY <1>1, CallsAssumption DEF Equal, FoundOK
<1> QED
  BY <1>2 DEF Emit

LEMMA OneOrMore == ASSUME NEW n \in Nat \ {0} PROVE n > 1 <=> n # 1
  OBVIOUS

LEMMA NextStillFits ==
    CInv /\ StillFits /\ [Next]_vars => StillFits'
<1> SUFFICES ASSUME CInv, StillFits, [Next]_vars PROVE StillFits'
  OBVIOUS
<1>1. functions' = functions /\ given' = given
  BY DEF Next, Stopped, vars, AnalyzeFn, BeginCall, TakeOnlyFn, SkipFn, TryFn, NoFn, CheckArity, ReplaceNamed, Emit
<1> SUFFICES ASSUME Len(functions) > 1, \A j \in DOMAIN given : given[j].name = None
             PROVE  /\ phase' # "wrong type"
                    /\ phase' \in {"check", "replace", "bound"} => FoundOK'
  BY <1>1 DEF StillFits, FoundOK
<1>2. phase # "wrong type" /\ (phase \in {"check", "replace", "bound"} => FoundOK)
  BY DEF StillFits, FoundOK
<1>3. CASE AnalyzeFn
  <2>1. /\ phase' \in {"duplicate", phase} /\ phase \in {"declared", "bound"} /\ args' = args /\ chosen' = chosen
        /\ analyzed' = analyzed + 1 /\ analyzed \in Nat /\ chosen \in Nat
    BY <1>3 DEF AnalyzeFn, CInv, PlaceOK
  <2>2. chosen <= analyzed => chosen <= analyzed'
    BY <2>1
  <2>3. FoundOK => FoundOK'
    BY <1>1, <2>1, <2>2 DEF FoundOK
  <2> QED
    BY <1>2, <2>1, <2>3
<1>4. CASE BeginCall \/ SkipFn \/ NoFn
  BY <1>4 DEF BeginCall, SkipFn, NoFn, Trying
<1>5. CASE TakeOnlyFn
  <2>1. Len(functions) = 1 /\ Len(functions) \in Nat \ {0}
    BY <1>5, CallFacts DEF TakeOnlyFn
  <2> QED
    BY <2>1, OneOrMore, Zenon
<1>6. CASE TryFn
  <2>1. phase' \in {"pick", "check", "no overload"}
    BY <1>6 DEF TryFn, Trying
  <2>2. CASE phase' = "check"
    <3>1. DOMAIN args' = DOMAIN args /\ chosen' = candidate /\ analyzed' = analyzed
      BY <1>6, <2>2 DEF TryFn, Trying
    <3>2. \A j \in DOMAIN args \cap DOMAIN functions[candidate] :
              candidate <= analyzed /\ args'[j].type = functions[candidate][j].type
      BY <1>6, <2>2, FoundFits
    <3> QED
      BY <1>1, <2>2, <3>1, <3>2 DEF FoundOK
  <2> QED
    BY <2>1, <2>2
<1>7. CASE CheckArity
  <2>1. phase' \in {"wrong number", "replace"} /\ phase = "check"
    BY <1>7 DEF CheckArity
  <2> QED
    BY <1>2, <1>7, <2>1, CheckStillFits
<1>8. CASE ReplaceNamed
  <2>1. phase = "replace" /\ ArgsOK /\ analyzed' = analyzed /\ chosen' = chosen
        /\ phase' \in {"bound", "undefined", "fulfilled twice"}
    BY <1>8, CallFacts DEF ReplaceNamed
  <2>2. Named = {}
    BY <2>1, NamesKept DEF Named
  <2>3. phase' = "bound" => DOMAIN args' = DOMAIN args /\ \A j \in DOMAIN args : args'[j] = args[j]
    BY <1>8, <2>2, Replaced
  <2>4. phase' = "bound" => FoundOK'
    BY <1>1, <1>2, <2>1, <2>3 DEF FoundOK
  <2> QED
    BY <2>1, <2>4
<1>9. CASE Emit
  <2>1. phase = "bound" /\ phase' \in {"wrong type", "emitted"}
    BY <1>9 DEF Emit
  <2> QED
    BY <1>2, <1>9, <2>1, EmitStillFits
<1>10. CASE UNCHANGED vars
  BY <1>2, <1>10 DEF vars, FoundOK
<1> QED
  BY <1>3, <1>4, <1>5, <1>6, <1>7, <1>8, <1>9, <1>10 DEF Next, Stopped

\* What get_fn has found fitting among several functions still fits when the call is
\* emitted, unless an argument is named, for every set of overloads and arguments.
THEOREM OverloadsFoundAreEmitted == Spec => []OverloadedCallsEmit
<1>1. Init => StillFits
  BY DEF Init, StillFits
<1>2. CInv /\ StillFits => OverloadedCallsEmit
  <2> SUFFICES ASSUME CInv, StillFits, phase = "wrong type", \A j \in DOMAIN given : given[j].name = None
               PROVE  Len(functions) = 1
    BY DEF OverloadedCallsEmit
  <2>1. Len(functions) \in Nat \ {0}
    BY CallFacts
  <2>2. ~(Len(functions) > 1)
    BY DEF StillFits
  <2> QED
    BY <2>1, <2>2, OneOrMore, Zenon
<1> QED
  BY <1>1, <1>2, NextStillFits, CallInvariance, PTL DEF Spec
-----------------------------------------------------------------------------
(* Named arguments reach their parameters. *)

\* When each name is a parameter's and no place is refused, the named arguments change
\* places among themselves, and each place gets one of them.
LEMMA NamedChangePlaces ==
    ASSUME CInv, phase = "replace", KnownNames, Fulfilled = {}, Outside = {}
    PROVE  /\ Named = {k \in DOMAIN args : args[k].name # None}
           /\ \A k \in Named : Target(k) \in Named
           /\ \A k, l \in Named : Target(k) = Target(l) => k = l
           /\ \A j \in Named : \E k \in Named : Target(k) = j
<1>1. ArgsOK /\ given \in Arguments /\ \A j \in DOMAIN args : args[j].at = j
  BY CallFacts DEF CInv, BindingOK
<1>2. Named = {k \in DOMAIN args : args[k].name # None}
  <2>1. \A k \in DOMAIN args : args[k].name = given[k].name /\ k \in DOMAIN given
    BY <1>1 DEF ArgsOK, ArgOK
  <2> QED
    BY <2>1 DEF Named, KnownNames
<1>3. DOMAIN args = 1..Len(args) /\ Len(args) \in Nat
  BY BoundPlaces
<1>4. ASSUME NEW k \in Named PROVE Target(k) \in Named
  <2>1. Target(k) \in DOMAIN functions[chosen] /\ DOMAIN functions[chosen] = 1..Len(functions[chosen])
    BY Targets, BoundPlaces
  <2>2. ~(Target(k) > Len(args)) /\ args[Target(k)].name # None
    BY DEF Outside, Fulfilled
  <2>3. Target(k) \in Nat \ {0}
    <3>1. Len(functions[chosen]) \in Nat
      BY BoundPlaces
    <3> QED
      BY <2>1, <3>1
  <2>4. Target(k) \in 1..Len(args)
    BY <1>3, <2>2, <2>3
  <2> QED
    BY <1>2, <1>3, <2>2, <2>4
<1>5. ASSUME NEW k \in Named, NEW l \in Named, Target(k) = Target(l) PROVE k = l
  <2>1. ~(l < k) /\ ~(k < l)
    BY <1>5 DEF Fulfilled, Outside
  <2>2. k \in Nat /\ l \in Nat
    BY <1>2, <1>3
  <2> QED
    BY <2>1, <2>2
<1>6. \A j \in Named : \E k \in Named : Target(k) = j
  <2> DEFINE to == [k \in Named |-> Target(k)]
  <2>1. IsFiniteSet(Named)
    <3>1. IsFiniteSet(1..Len(args))
      BY <1>3, FS_Interval
    <3>2. Named \subseteq 1..Len(args)
      BY <1>2, <1>3
    <3> QED
      BY <3>1, <3>2, FS_Subset
  <2>2. to \in [Named -> Named]
    BY <1>4
  <2>3. \A k, l \in Named : to[k] = to[l] => k = l
    BY <1>5
  <2>4. \A j \in Named : \E k \in Named : to[k] = j
    <3> HIDE DEF to
    <3> QED
      BY <2>1, <2>2, <2>3, InjectionIsOnto
  <2> QED
    BY <2>4
<1> QED
  BY <1>2, <1>4, <1>5, <1>6

\* What AllPlaced says of the arguments.
PlacedOK ==
    /\ \A k \in DOMAIN given : \E j \in DOMAIN args : args[j].at = k
    /\ \A j \in DOMAIN args :
          IF args[j].name = None THEN args[j].at = j
          ELSE args[j].name = functions[chosen][j].name

LEMMA ReplacePlaces ==
    ASSUME CInv, ReplaceNamed, phase' = "bound", KnownNames
    PROVE  PlacedOK'
<1>1. /\ phase = "replace" /\ ArgsOK /\ functions' = functions /\ given' = given /\ chosen' = chosen
      /\ \A j \in DOMAIN args : args[j].at = j
  BY CallFacts DEF ReplaceNamed, CInv, BindingOK
<1>2. /\ Fulfilled = {} /\ Outside = {} /\ DOMAIN args' = DOMAIN args /\ DOMAIN args = DOMAIN given
      /\ \A j \in DOMAIN args :
            \/ args'[j] = args[j] /\ ~\E k \in Named : Target(k) = j
            \/ \E k \in Named : Target(k) = j /\ args'[j] = args[k]
  BY <1>1, Replaced DEF ArgsOK
<1>3. /\ Named = {k \in DOMAIN args : args[k].name # None}
      /\ \A k \in Named : Target(k) \in Named
      /\ \A k, l \in Named : Target(k) = Target(l) => k = l
      /\ \A j \in Named : \E k \in Named : Target(k) = j
  BY <1>1, <1>2, NamedChangePlaces
<1>4. ASSUME NEW j \in DOMAIN args, j \notin Named
      PROVE  args'[j] = args[j] /\ args[j].name = None /\ args[j].at = j
  BY <1>1, <1>2, <1>3, <1>4
<1>5. ASSUME NEW k \in Named
      PROVE  /\ Target(k) \in DOMAIN args /\ args'[Target(k)] = args[k]
             /\ args[k].name # None /\ args[k].name = functions[chosen][Target(k)].name
  <2>1. Target(k) \in DOMAIN args /\ args'[Target(k)] = args[k]
    BY <1>2, <1>3
  <2> QED
    BY <2>1, Targets
<1>6. ASSUME NEW k \in DOMAIN given
      PROVE  \E j \in DOMAIN args : args'[j].at = k
  <2>1. CASE k \in Named
    BY <1>1, <1>2, <1>5, <2>1
  <2>2. CASE k \notin Named
    BY <1>2, <1>4, <2>2
  <2> QED
    BY <2>1, <2>2
<1>7. ASSUME NEW j \in DOMAIN args
      PROVE  IF args'[j].name = None THEN args'[j].at = j
             ELSE args'[j].name = functions[chosen][j].name
  <2>1. CASE j \in Named
    <3>1. PICK k \in Named : Target(k) = j
      BY <1>3, <2>1
    <3> QED
      BY <1>5, <3>1
  <2>2. CASE j \notin Named
    BY <1>4, <2>2
  <2> QED
    BY <2>1, <2>2
<1> QED
  BY <1>1, <1>2, <1>6, <1>7 DEF PlacedOK

LEMMA NextPlaced ==
    CInv /\ AllPlaced /\ AllPassed /\ [Next]_vars => AllPlaced' /\ AllPassed'
<1> SUFFICES ASSUME CInv, AllPlaced, AllPassed, [Next]_vars PROVE AllPlaced' /\ AllPassed'
  OBVIOUS
<1>1. functions' = functions /\ given' = given
  BY DEF Next, Stopped, vars, AnalyzeFn, BeginCall, TakeOnlyFn, SkipFn, TryFn, NoFn, CheckArity, ReplaceNamed, Emit
<1>2. CASE phase' \notin {"bound", "emitted"}
  BY <1>2 DEF AllPlaced, AllPassed
<1>3. CASE phase' \in {"bound", "emitted"}
  <2>1. \/ ReplaceNamed /\ phase' = "bound"
        \/ AnalyzeFn /\ phase = "bound" /\ phase' = "bound"
        \/ Emit /\ phase = "bound" /\ phase' = "emitted"
        \/ UNCHANGED vars
    <3>1. BeginCall \/ TakeOnlyFn \/ SkipFn \/ NoFn => phase' \notin {"bound", "emitted"}
      BY DEF BeginCall, TakeOnlyFn, SkipFn, NoFn, Trying
    <3>2. TryFn \/ CheckArity => phase' \notin {"bound", "emitted"}
      BY DEF TryFn, CheckArity, Trying
    <3>3. AnalyzeFn => phase = phase' \/ phase' = "duplicate"
      BY DEF AnalyzeFn
    <3>4. AnalyzeFn => phase \in {"declared", "bound"}
      BY DEF AnalyzeFn
    <3>5. Emit => phase = "bound" /\ phase' \in {"wrong type", "emitted"}
      BY DEF Emit
    <3>6. ReplaceNamed => phase' \in {"bound", "undefined", "fulfilled twice"}
      BY DEF ReplaceNamed
    <3> QED
      BY <1>3, <3>1, <3>2, <3>3, <3>4, <3>5, <3>6 DEF Next, Stopped
  <2>2. CASE ReplaceNamed /\ phase' = "bound"
    <3>1. chosen' = chosen
      BY <2>2 DEF ReplaceNamed
    <3>2. KnownNames' => KnownNames
      BY <1>1, <3>1 DEF KnownNames, Position
    <3>3. KnownNames' => PlacedOK'
      BY <2>2, <3>2, ReplacePlaces
    <3> QED
      BY <2>2, <3>3 DEF AllPlaced, AllPassed, PlacedOK
  <2>3. CASE AnalyzeFn /\ phase = "bound" /\ phase' = "bound"
    <3>1. chosen' = chosen /\ args' = args
      BY <2>3 DEF AnalyzeFn
    <3> QED
      BY <1>1, <2>3, <3>1 DEF AllPlaced, AllPassed, KnownNames, Position
  <2>4. CASE Emit /\ phase = "bound" /\ phase' = "emitted"
    <3>1. /\ chosen' = chosen /\ args' = args
          /\ argv' = [j \in DOMAIN functions[chosen] |->
                        IF j <= Len(args) THEN [written |-> args[j].at, default |-> 0]
                        ELSE [written |-> 0, default |-> Len(args) + 1]]
      BY <2>4 DEF Emit
    <3>2. AllPlaced'
      BY <1>1, <2>4, <3>1 DEF AllPlaced, KnownNames, Position
    <3>3. AllPassed'
      BY <1>1, <3>1, Zenon DEF AllPassed
    <3> QED
      BY <3>2, <3>3
  <2>5. CASE UNCHANGED vars
    BY <2>5 DEF vars, AllPlaced, AllPassed, KnownNames, Position
  <2> QED
    BY <2>1, <2>2, <2>3, <2>4, <2>5
<1> QED
  BY <1>2, <1>3

\* When each name given is a parameter's, no argument of an emitted call is lost or
\* passed twice and each ends at its parameter, for every order of the named ones.
THEOREM ArgumentsArePassed == Spec => []ArgumentsReachParameters
<1>1. Init => AllPlaced /\ AllPassed
  BY DEF Init, AllPlaced, AllPassed
<1>2. CInv /\ AllPlaced /\ AllPassed => ArgumentsReachParameters
  <2> SUFFICES ASSUME CInv, AllPlaced, AllPassed, phase = "emitted", KnownNames
               PROVE  /\ \A k \in DOMAIN given : \E j \in DOMAIN argv : argv[j].written = k
                      /\ \A j \in DOMAIN argv :
                           LET k == argv[j].written
                           IN  k # 0 => IF given[k].name = None THEN k = j
                                        ELSE given[k].name = functions[chosen][j].name
    BY DEF ArgumentsReachParameters, KnownNames
  <2>1. /\ DOMAIN args \subseteq DOMAIN functions[chosen] /\ ArgsOK
        /\ DOMAIN args = 1..Len(args) /\ DOMAIN functions[chosen] = 1..Len(functions[chosen])
        /\ Len(args) \in Nat /\ Len(functions[chosen]) \in Nat
    BY BoundPlaces, CallFacts
  <2>2. PlacedOK /\ DOMAIN argv = DOMAIN functions[chosen]
        /\ \A j \in DOMAIN argv : argv[j].written = IF j <= Len(args) THEN args[j].at ELSE 0
    BY DEF AllPlaced, AllPassed, PlacedOK
  <2>3. ASSUME NEW k \in DOMAIN given PROVE \E j \in DOMAIN argv : argv[j].written = k
    <3>1. PICK j \in DOMAIN args : args[j].at = k
      BY <2>2 DEF PlacedOK
    <3>2. j <= Len(args)
      BY <2>1
    <3> QED
      BY <2>1, <2>2, <3>1, <3>2
  <2>4. ASSUME NEW j \in DOMAIN argv, argv[j].written # 0
        PROVE  IF given[argv[j].written].name = None THEN argv[j].written = j
               ELSE given[argv[j].written].name = functions[chosen][j].name
    <3>1. j <= Len(args) /\ argv[j].written = args[j].at
      BY <2>2, <2>4
    <3>2. j \in DOMAIN args
      BY <2>1, <2>2, <3>1
    <3>3. given[args[j].at].name = args[j].name
      BY <2>1, <3>2 DEF ArgsOK, ArgOK
    <3> QED
      BY <2>2, <3>1, <3>2, <3>3 DEF PlacedOK
  <2> QED
    BY <2>3, <2>4
<1> QED
  BY <1>1, <1>2, NextPlaced, CallInvariance, PTL DEF Spec
-----------------------------------------------------------------------------
(* The search among overloads of one length is exact. *)

\* While the search goes on, the arguments have the types they were written with.
AsWritten == \A j \in DOMAIN args : args[j].type = given[j].type

\* Which of the calls EqualLengths describes fit a function.
LEMMA EqualFits ==
    ASSUME functions \in Overloads, given \in Arguments, EqualLengths, NEW f \in DOMAIN functions
    PROVE  /\ DOMAIN functions[f] = DOMAIN given
           /\ Fits(f) <=> \A j \in DOMAIN given : given[j].type = functions[f][j].type
<1>1. Len(functions[f]) = Len(given) /\ DOMAIN functions[f] = 1..Len(functions[f]) /\ DOMAIN given = 1..Len(given)
  BY Shapes DEF EqualLengths
<1>2. \A j \in DOMAIN given : Definite(given[j])
  BY DEF EqualLengths, Definite
<1> QED
  BY <1>1, <1>2 DEF Fits

\* Trying an overload then changes no argument, and takes the overload if it has been
\* visited and fits.
LEMMA TryIsExact ==
    ASSUME CInv, TryFn, EqualLengths, AsWritten
    PROVE  /\ DOMAIN args' = DOMAIN args /\ \A j \in DOMAIN args : args'[j] = args[j]
           /\ \/ phase' = "check" /\ chosen' = candidate /\ Fits(candidate)
              \/ /\ phase' = "pick" /\ chosen' = chosen /\ candidate' = candidate + 1
                 /\ candidate <= analyzed => ~Fits(candidate)
<1>1. /\ Trying /\ functions \in Overloads /\ given \in Arguments /\ ArgsOK /\ candidate \in DOMAIN functions
  BY CallFacts, LookedAtPlaces DEF TryFn, Trying
<1>2. ASSUME NEW j \in DOMAIN args
      PROVE  args[j].type \in Type /\ args[j].type # Unknown /\ Tried(j) = args[j]
  <2>1. j \in DOMAIN given /\ given[j].kind \in {"typed", "literal"}
    BY <1>1 DEF ArgsOK, EqualLengths
  <2>2. given[j].type \in Type
    BY <1>1, <2>1, CallsAssumption
  <2>3. args[j].type \in Type /\ args[j].type # Unknown
    BY <2>2, CallsAssumption DEF AsWritten
  <2> QED
    BY <2>3 DEF Tried
<1>3. DOMAIN args' = DOMAIN args /\ \A j \in DOMAIN args : args'[j] = args[j]
  <2>1. args' = [j \in DOMAIN args |-> IF j \in LookedAt THEN Tried(j) ELSE args[j]]
    BY DEF TryFn
  <2> QED
    BY <1>2, <2>1
<1>4. ~Ambiguous
  <2>1. {j \in LookedAt : args[j].type = Unknown /\ Tried(j) # args[j]} = {}
    BY <1>1, <1>2, LookedAtPlaces
  <2>2. Len(functions[candidate]) # 0
    BY <1>1, Shapes DEF EqualLengths
  <2> QED
    BY <2>1, <2>2, FS_EmptySet DEF Ambiguous
<1>5. DOMAIN args = DOMAIN given /\ DOMAIN functions[candidate] = DOMAIN given
      /\ (Fits(candidate) <=> \A j \in DOMAIN given : given[j].type = functions[candidate][j].type)
  BY <1>1, EqualFits DEF ArgsOK
<1>6. Mismatches = {j \in DOMAIN given : ~Equal(given[j].type, ParamType(candidate, j))}
  <2>1. 1..Shorter(args, functions[candidate]) = DOMAIN given
    BY <1>1, <1>5, LookedAtPlaces
  <2> QED
    BY <1>2, <1>5, <2>1 DEF Mismatches, AsWritten
<1>7. CASE Mismatches = {}
  <2>1. phase' = "check" /\ chosen' = candidate
    BY <1>4, <1>7 DEF TryFn
  <2>2. \A j \in DOMAIN given : given[j].type = functions[candidate][j].type
    BY <1>6, <1>7, CallsAssumption DEF Equal, ParamType
  <2> QED
    BY <1>3, <1>5, <2>1, <2>2
<1>8. CASE Mismatches # {}
  <2>1. phase' = "pick" /\ chosen' = chosen /\ candidate' = candidate + 1
    BY <1>1, <1>4, <1>8 DEF TryFn, Trying
  <2>2. PICK j \in DOMAIN given : ~Equal(given[j].type, ParamType(candidate, j))
    BY <1>6, <1>8
  <2>3. given[j].type \in Type
    BY <1>2, <1>5 DEF AsWritten
  <2>4. candidate <= analyzed => given[j].type # functions[candidate][j].type
    BY <2>2, <2>3 DEF Equal, ParamType
  <2> QED
    BY <1>3, <1>5, <2>1, <2>4
<1> QED
  BY <1>7, <1>8

\* The functions the search has gone past, one more of them after a step.
LEMMA PastPlaces ==
    ASSUME NEW c \in Nat \ {0}
    PROVE  /\ 1..(c + 1 - 1) = 1..c
           /\ \A f \in 1..c : f \in 1..(c - 1) \/ f = c
           /\ 1..(1 - 1) = {}
  OBVIOUS

LEMMA NextExact ==
    CInv /\ SearchIsExact /\ [Next]_vars => SearchIsExact'
<1> SUFFICES ASSUME CInv, SearchIsExact, [Next]_vars PROVE SearchIsExact'
  OBVIOUS
<1>1. functions' = functions /\ given' = given
  BY DEF Next, Stopped, vars, AnalyzeFn, BeginCall, TakeOnlyFn, SkipFn, TryFn, NoFn, CheckArity, ReplaceNamed, Emit
<1> DEFINE Past(c) == \A f \in 1..(c - 1) : f <= analyzed => ~Fits(f)
           NoneFits == \A f \in 1..analyzed : ~Fits(f)
<1>0. EqualLengths' => EqualLengths
  BY <1>1 DEF EqualLengths, Arity
<1> SUFFICES ASSUME EqualLengths
             PROVE  /\ phase' = "pick" => AsWritten' /\ (Past(candidate))'
                    /\ chosen' # 0 => Fits(chosen')
                    /\ phase' = "no overload" => NoneFits'
  BY <1>0, <1>1 DEF SearchIsExact, AsWritten, Fits
<1>2. /\ phase = "pick" => AsWritten /\ Past(candidate)
      /\ chosen # 0 => Fits(chosen)
      /\ phase = "no overload" => NoneFits
  BY DEF SearchIsExact, AsWritten
<1>3. functions \in Overloads /\ given \in Arguments /\ Len(functions) \in Nat \ {0}
  BY CallFacts
<1>4. CASE BeginCall
  <2>1. phase' = "pick" /\ candidate' = 1 /\ chosen' = chosen
    BY <1>4 DEF BeginCall
  <2>2. AsWritten'
    BY <1>1, <1>4 DEF BeginCall, AsWritten, EqualLengths
  <2>3. (Past(candidate))'
    BY <2>1, PastPlaces
  <2> QED
    BY <1>1, <1>2, <2>1, <2>2, <2>3
<1>5. CASE TakeOnlyFn
  <2>1. Len(functions) = 1 /\ Len(functions) > 1
    BY <1>5 DEF TakeOnlyFn, EqualLengths
  <2> QED
    BY <1>3, <2>1, OneOrMore, Zenon
<1>6. CASE SkipFn
  <2>1. Arity(candidate) > Len(args) /\ candidate \in DOMAIN functions /\ ArgsOK
    BY <1>6, CallFacts, LookedAtPlaces DEF SkipFn, Trying
  <2>2. Arity(candidate) = Len(given)
    BY <2>1 DEF EqualLengths
  <2>3. Len(args) = Len(given)
    BY <2>1 DEF ArgsOK
  <2>4. Len(given) \in Nat
    BY <1>3, Shapes
  <2>5. ~(Len(given) > Len(given))
    BY <2>4
  <2> QED
    BY <2>1, <2>2, <2>3, <2>5, Zenon
<1>7. CASE TryFn
  <2>1. phase = "pick" /\ analyzed' = analyzed /\ candidate \in Nat \ {0}
    <3>1. phase = "pick" /\ analyzed' = analyzed
      BY <1>7 DEF TryFn, Trying
    <3>2. candidate \in 1..(Len(functions) + 1)
      BY <3>1, CallFacts
    <3> QED
      BY <3>1, <3>2
  <2>2. /\ DOMAIN args' = DOMAIN args /\ \A j \in DOMAIN args : args'[j] = args[j]
        /\ \/ phase' = "check" /\ chosen' = candidate /\ Fits(candidate)
           \/ /\ phase' = "pick" /\ chosen' = chosen /\ candidate' = candidate + 1
              /\ candidate <= analyzed => ~Fits(candidate)
    BY <1>2, <1>7, <2>1, TryIsExact
  <2>3. CASE phase' = "check" /\ chosen' = candidate /\ Fits(candidate)
    BY <2>3
  <2>4. CASE /\ phase' = "pick" /\ chosen' = chosen /\ candidate' = candidate + 1
             /\ candidate <= analyzed => ~Fits(candidate)
    <3>1. ASSUME NEW f \in 1..(candidate' - 1), f <= analyzed PROVE ~Fits(f)
      <4>1. f \in 1..(candidate - 1) \/ f = candidate
        BY <2>1, <2>4, PastPlaces
      <4> QED
        BY <1>2, <2>1, <2>4, <3>1, <4>1
    <3>2. (Past(candidate))'
      BY <1>1, <2>1, <3>1 DEF Fits
    <3>3. AsWritten'
      BY <1>1, <1>2, <2>1, <2>2 DEF AsWritten
    <3>4. phase' # "no overload"
      BY <2>4
    <3> QED
      BY <1>2, <2>4, <3>2, <3>3, <3>4
  <2> QED
    BY <2>2, <2>3, <2>4
<1>8. CASE NoFn
  <2>1. /\ phase = "pick" /\ phase' = "no overload" /\ chosen' = chosen /\ analyzed' = analyzed
        /\ candidate > Len(functions)
    BY <1>8 DEF NoFn
  <2>2. candidate \in 0..(Len(functions) + 1) /\ analyzed \in 0..Len(functions)
    BY DEF CInv, PlaceOK
  <2>3. ASSUME NEW f \in 1..analyzed PROVE f \in 1..(candidate - 1) /\ f <= analyzed
    <3> DEFINE n == Len(functions)
    <3>1. n \in Nat /\ candidate \in 0..(n + 1) /\ analyzed \in 0..n /\ candidate > n
      BY <1>3, <2>1, <2>2
    <3> HIDE DEF n
    <3> QED
      BY <3>1
  <2>4. NoneFits
    BY <1>2, <2>1, <2>3
  <2>5. NoneFits'
    BY <1>1, <2>1, <2>4 DEF Fits
  <2> QED
    BY <1>2, <2>1, <2>5
<1>9. CASE AnalyzeFn \/ CheckArity \/ ReplaceNamed \/ Emit
  <2>1. AnalyzeFn => chosen' = chosen /\ phase' \in {"duplicate", "declared", "bound"}
    BY DEF AnalyzeFn
  <2>2. CheckArity \/ ReplaceNamed => chosen' = chosen /\ phase' \notin {"pick", "no overload"}
    BY DEF CheckArity, ReplaceNamed
  <2>3. Emit => chosen' = chosen /\ phase' \notin {"pick", "no overload"}
    BY DEF Emit
  <2> QED
    BY <1>2, <1>9, <2>1, <2>2, <2>3
<1>10. CASE UNCHANGED vars
  <2>1. /\ functions' = functions /\ given' = given /\ args' = args /\ candidate' = candidate
        /\ chosen' = chosen /\ phase' = phase /\ analyzed' = analyzed
    BY <1>10 DEF vars
  <2> QED
    BY <1>2, <2>1 DEF AsWritten, Fits
<1> QED
  BY <1>4, <1>5, <1>6, <1>7, <1>8, <1>9, <1>10 DEF Next, Stopped

\* Among visited overloads of one length, a call whose arguments have their types from
\* the start reaches a function exactly when one fits, and then that one.
THEOREM EqualLengthsAreExact == Spec => []EqualLengthsResolve
<1>1. Init => SearchIsExact
  BY DEF Init, SearchIsExact
<1>2. CInv /\ SearchIsExact => EqualLengthsResolve
  <2> SUFFICES ASSUME CInv, SearchIsExact, EqualLengths, chosen # 0 \/ phase = "no overload",
                      analyzed = Len(functions)
               PROVE  IF chosen # 0 THEN Fits(chosen) ELSE ~\E f \in DOMAIN functions : Fits(f)
    BY DEF EqualLengthsResolve, EqualLengths
  <2>1. DOMAIN functions = 1..Len(functions)
    BY CallFacts
  <2> QED
    BY <2>1 DEF SearchIsExact
<1> QED
  BY <1>1, <1>2, NextExact, CallInvariance, PTL DEF Spec
=============================================================================
