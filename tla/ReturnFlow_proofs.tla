-------------------------- MODULE ReturnFlow_proofs --------------------------
(***************************************************************************)
(* Proofs about the symbol table, for every set of names, nodes and files, *)
(* every initial size of the table and every bound on the nesting; and     *)
(* about the return analysis, which drives it, for every set of constructs *)
(* and every depth of the visitors' call stack.                            *)
(***************************************************************************)
EXTENDS ReturnFlow, Lemmas

-----------------------------------------------------------------------------
(* The symbol table: specification Spec of ScopeTable *)

\* The inductive invariant: besides the types, that what lies below the current
\* level is clean, which is what makes reusing an entry without clearing it safe,
\* and that the current level is allocated.
IInv == TypeOK /\ BelowIsClean /\ LevelAllocated

\* Emplacing bindings in a scope gives a scope.
LEMMA EmplaceScope ==
    ASSUME NEW s \in Scope, NEW b \in Scope
    PROVE  Emplace(s, b) \in Scope
BY DEF Emplace, Scope

\* A single binding, and no binding, are scopes.
LEMMA BindingScope ==
    /\ EmptyScope \in Scope
    /\ \A n \in Name, x \in Node : Binding(n, x) \in Scope
BY DEF EmptyScope, Binding, Scope

\* Emplacing bindings in an empty scope gives those bindings.
LEMMA EmplaceEmpty ==
    ASSUME NEW b \in Scope
    PROVE  Emplace(EmptyScope, b) = b
BY DEF Emplace, EmptyScope, Scope

LEMMA InitIInv == Init => IInv
<1> SUFFICES ASSUME Init PROVE IInv
  OBVIOUS
<1>1. 0 \in Level /\ size \in Nat /\ level < size
  BY ScopeTableAssumption DEF Init, Level
<1>2. globals \in Seq(GlobalSymbol)
  <2>1. CASE globals = <<>>
    BY <2>1
  <2>2. ASSUME NEW g \in [name : Name, node : Node, file : {Self}, always : {TRUE}],
               globals = <<g>>
        PROVE  globals \in Seq(GlobalSymbol)
    <3>1. g \in GlobalSymbol
      BY ScopeTableAssumption DEF GlobalSymbol
    <3> QED
      BY <2>2, <3>1
  <2> QED
    BY <2>1, <2>2 DEF Init
<1>3. scope \in [Level -> Scope]
  BY BindingScope DEF Init
<1> QED
  BY <1>1, <1>2, <1>3 DEF Init, IInv, TypeOK, BelowIsClean, LevelAllocated

LEMMA AddToScopeIInv ==
    ASSUME IInv, NEW n \in Name, NEW x \in Node, NEW public \in BOOLEAN,
           AddToScope(n, x, public)
    PROVE  IInv'
<1> USE DEF IInv, TypeOK
<1>1. CASE Dropped
  BY <1>1 DEF AddToScope, BelowIsClean, LevelAllocated
<1>2. CASE ~Dropped
  <2>1. scope' = [scope EXCEPT ![level] = Emplace(scope[level], Binding(n, x))]
    BY <1>2 DEF AddToScope
  <2>2. Emplace(scope[level], Binding(n, x)) \in Scope
    BY EmplaceScope, BindingScope
  <2>3. scope' \in [Level -> Scope]
    BY <2>1, <2>2
  <2>4. globals' \in Seq(GlobalSymbol)
    <3> DEFINE g == [name |-> n, node |-> x, file |-> Self, always |-> FALSE]
    <3>1. g \in GlobalSymbol
      BY ScopeTableAssumption DEF GlobalSymbol
    <3>2. globals' = Append(globals, g) \/ globals' = globals
      BY <1>2 DEF AddToScope
    <3> QED
      BY <3>1, <3>2
  <2>5. BelowIsClean'
    BY <2>1 DEF AddToScope, BelowIsClean, Level
  <2> QED
    BY <2>3, <2>4, <2>5 DEF AddToScope, LevelAllocated
<1> QED
  BY <1>1, <1>2

LEMMA GoDownIInv ==
    ASSUME IInv, NEW b \in Scope, GoDownWith(b)
    PROVE  IInv'
<1> USE DEF IInv, TypeOK
<1>1. level + 1 \in Level
  BY ScopeTableAssumption DEF GoDownWith, Level
<1>2. scope' \in [Level -> Scope]
  BY <1>1, EmplaceScope DEF GoDownWith
<1>3. returns' \in [Level -> BOOLEAN]
  BY DEF GoDownWith
<1>4. level' = level + 1 /\ size' \in Nat /\ level' < size'
  <2> DEFINE bound == IF b = EmptyScope THEN size ELSE GrownTo(level + 1)
  <2>1. bound \in Nat /\ bound >= size
    BY DEF GrownTo, Level
  <2>2. size' = IF level + 1 >= bound THEN bound + 1 ELSE bound
    BY DEF GoDownWith, SizeBelow
  <2>3. level \in Nat /\ level < bound
    BY <2>1 DEF LevelAllocated, Level
  <2> HIDE DEF bound
  <2> QED
    BY <2>1, <2>2, <2>3 DEF GoDownWith
<1>5. BelowIsClean'
  <2> SUFFICES ASSUME NEW l \in Level, l > level + 1
               PROVE  scope'[l] = EmptyScope /\ imports'[l] = {}
    BY <1>4 DEF BelowIsClean
  <2> QED
    BY DEF GoDownWith, BelowIsClean, Level
<1> QED
  BY <1>1, <1>2, <1>3, <1>4, <1>5 DEF GoDownWith, LevelAllocated

LEMMA GoUpIInv ==
    ASSUME IInv, NEW above \in BOOLEAN, GoUpWith(above)
    PROVE  IInv'
<1> USE DEF IInv, TypeOK
<1>1. level - 1 \in Level
  BY ScopeTableAssumption DEF GoUpWith, Level
<1>2. scope' \in [Level -> Scope] /\ imports' \in [Level -> SUBSET File]
  BY BindingScope DEF GoUpWith
<1>3. returns' \in [Level -> BOOLEAN]
  BY <1>1 DEF GoUpWith
<1>4. BelowIsClean'
  <2> SUFFICES ASSUME NEW l \in Level, l > level - 1
               PROVE  scope'[l] = EmptyScope /\ imports'[l] = {}
    BY DEF GoUpWith, BelowIsClean
  <2>1. CASE l = level
    BY <2>1 DEF GoUpWith
  <2>2. CASE l # level
    <3>1. l > level
      BY <2>2 DEF Level
    <3> QED
      BY <3>1, <2>2 DEF GoUpWith, BelowIsClean
  <2> QED
    BY <2>1, <2>2
<1>5. LevelAllocated'
  BY DEF GoUpWith, LevelAllocated, Level
<1> QED
  BY <1>1, <1>2, <1>3, <1>4, <1>5 DEF GoUpWith

\* The steps that only touch an import list, a flag, the lock or the globals.
LEMMA OtherIInv ==
    ASSUME IInv,
           \/ Unlock
           \/ \E f \in File : AddImport(f)
           \/ SetReturn
           \/ ClearReturn
           \/ \E n \in Name, x \in Node, f \in File \ {Self} : DeclareElsewhere(n, x, f)
           \/ UNCHANGED vars
    PROVE  IInv'
<1> USE DEF IInv, TypeOK, BelowIsClean, LevelAllocated
<1>1. CASE Unlock
  BY <1>1 DEF Unlock
<1>2. ASSUME NEW f \in File, AddImport(f) PROVE IInv'
  BY <1>2 DEF AddImport, Level
<1>3. CASE SetReturn
  BY <1>3 DEF SetReturn
<1>4. CASE ClearReturn
  BY <1>4 DEF ClearReturn
<1>5. ASSUME NEW n \in Name, NEW x \in Node, NEW f \in File \ {Self},
             DeclareElsewhere(n, x, f)
      PROVE  IInv'
  <2> DEFINE g == [name |-> n, node |-> x, file |-> f, always |-> FALSE]
  <2>1. g \in GlobalSymbol
    BY DEF GlobalSymbol
  <2>2. globals' = Append(globals, g)
    BY <1>5 DEF DeclareElsewhere
  <2>3. globals' \in Seq(GlobalSymbol)
    BY <2>1, <2>2
  <2> QED
    BY <1>5, <2>3 DEF DeclareElsewhere
<1>6. CASE UNCHANGED vars
  BY <1>6 DEF vars
<1> QED
  BY <1>1, <1>2, <1>3, <1>4, <1>5, <1>6

LEMMA NextIInv == IInv /\ [Next]_vars => IInv'
<1> SUFFICES ASSUME IInv, [Next]_vars PROVE IInv'
  OBVIOUS
<1>1. ASSUME NEW n \in Name, NEW x \in Node, NEW public \in BOOLEAN,
             AddToScope(n, x, public) \/ GetOrAddSymbol(n, x, public)
      PROVE  IInv'
  BY <1>1, AddToScopeIInv DEF GetOrAddSymbol
<1>2. ASSUME NEW b \in Scope, GoDownWith(b) PROVE IInv'
  BY <1>2, GoDownIInv
<1>3. CASE GoUp \/ LeaveBlock
  <2>1. (returns[level] /\ level > 1) \in BOOLEAN
    OBVIOUS
  <2> QED
    BY <1>3, <2>1, GoUpIInv DEF GoUp, LeaveBlock
<1> QED
  BY <1>1, <1>2, <1>3, OtherIInv DEF Next, Parse, Analyze

\* The invariant holds throughout.
LEMMA Invariance == Spec => []IInv
BY InitIInv, NextIInv, PTL DEF Spec

\* Every variable keeps its type, for every nesting and every table size.
THEOREM TypeCorrect == Spec => []TypeOK
<1>1. IInv => TypeOK
  BY DEF IInv
<1> QED
  BY <1>1, Invariance, PTL

\* Scopes reopened at a level start empty: go_up leaves nothing behind.
THEOREM ReusedLevelsAreClean == Spec => []BelowIsClean
<1>1. IInv => BelowIsClean
  BY DEF IInv
<1> QED
  BY <1>1, Invariance, PTL

\* The unchecked m_table[m_level] is always within the vector.
THEOREM NoOutOfRangeLevel == Spec => []LevelAllocated
<1>1. IInv => LevelAllocated
  BY DEF IInv
<1> QED
  BY <1>1, Invariance, PTL

-----------------------------------------------------------------------------
(* The table implements a stack of lexical frames. *)

\* The stack as LexicalScopes sees it: a sequence of level + 1 frames.
LEMMA StackShape ==
    ASSUME IInv
    PROVE  /\ level \in Nat
           /\ Len(Stack) = level + 1
           /\ Stack \in Seq(Frames!Frame)
           /\ \A i \in 1..(level + 1) :
                 Stack[i] = [names |-> scope[i - 1], opened |-> imports[i - 1]]
<1> USE DEF IInv, TypeOK
<1>1. level \in Nat
  BY ScopeTableAssumption DEF Level
<1>2. ASSUME NEW i \in 1..(level + 1)
      PROVE  [names |-> scope[i - 1], opened |-> imports[i - 1]] \in Frames!Frame
  <2>1. i - 1 \in Level
    BY <1>1, ScopeTableAssumption DEF Level
  <2>2. scope[i - 1] \in Scope /\ imports[i - 1] \in SUBSET File
    BY <2>1
  <2> QED
    BY <2>2 DEF Frames!Frame, Scope
<1>3. Stack \in [1..(level + 1) -> Frames!Frame]
  BY <1>2 DEF Stack
<1>4. Stack \in Seq(Frames!Frame)
  BY <1>1, <1>3
<1> QED
  BY <1>1, <1>3, <1>4 DEF Stack

\* Initially the only frame is the module's, empty.
LEMMA InitFrames == Init => Frames!Init
<1> SUFFICES ASSUME Init PROVE Stack = <<Frames!Fresh(Frames!NoBinding)>>
  BY DEF Frames!Init, Stack
<1>1. level = 0 /\ 0 \in Level
  BY ScopeTableAssumption DEF Init, Level
<1>2. scope[0] = EmptyScope /\ imports[0] = {}
  BY <1>1 DEF Init
<1>3. Stack = [i \in 1..1 |-> [names |-> scope[i - 1], opened |-> imports[i - 1]]]
  BY <1>1 DEF Stack
<1>4. \A i \in 1..1 : [names |-> scope[i - 1], opened |-> imports[i - 1]]
                         = [names |-> EmptyScope, opened |-> {}]
  BY <1>2
<1> QED
  BY <1>3, <1>4 DEF Frames!Fresh, Frames!NoBinding, EmptyScope

\* Opening a scope pushes a frame with the loop's bindings: the entry reused has
\* nothing left in it.
LEMMA PushFrames ==
    ASSUME IInv, NEW b \in Scope, GoDownWith(b)
    PROVE  Stack' = Append(Stack, Frames!Fresh(b))
<1>1. /\ level \in Nat /\ level + 1 \in Level /\ level' = level + 1
      /\ Level = 0..MaxLevel /\ MaxLevel \in Nat
  BY ScopeTableAssumption DEF IInv, TypeOK, GoDownWith, Level
<1>2. scope[level + 1] = EmptyScope /\ imports[level + 1] = {}
  BY <1>1 DEF IInv, BelowIsClean
<1>3. scope' = [scope EXCEPT ![level + 1] = b] /\ imports' = imports
  BY <1>2, EmplaceEmpty DEF GoDownWith
<1>4. ASSUME NEW i \in 1..(level + 2)
      PROVE  Stack'[i] = Append(Stack, Frames!Fresh(b))[i]
  <2>1. Stack'[i] = [names |-> scope'[i - 1], opened |-> imports'[i - 1]]
    BY <1>1 DEF Stack
  <2>2. CASE i = level + 2
    <3>1. Stack'[i] = Frames!Fresh(b)
      <4>1. i - 1 = level + 1
        BY <1>1, <2>2
      <4>2. scope'[level + 1] = b /\ imports'[level + 1] = {}
        BY <1>1, <1>2, <1>3 DEF IInv, TypeOK
      <4> QED
        BY <2>1, <4>1, <4>2 DEF Frames!Fresh
    <3>2. Append(Stack, Frames!Fresh(b))[i] = Frames!Fresh(b)
      BY StackShape, <2>2
    <3> QED
      BY <3>1, <3>2
  <2>3. CASE i # level + 2
    <3>1. i \in 1..(level + 1)
      BY <1>1, <2>3
    <3>2. Append(Stack, Frames!Fresh(b))[i] = Stack[i]
      BY StackShape, <3>1
    <3>3. scope'[i - 1] = scope[i - 1]
      BY <1>1, <1>3, <3>1 DEF IInv, TypeOK
    <3> QED
      BY <1>3, <2>1, <3>1, <3>2, <3>3, StackShape
  <2> QED
    BY <2>2, <2>3
<1>5. Stack' = [i \in 1..(level + 2) |-> Stack'[i]]
  BY <1>1 DEF Stack
<1>6. Append(Stack, Frames!Fresh(b)) = [i \in 1..(level + 2) |-> Append(Stack, Frames!Fresh(b))[i]]
  <2> DEFINE longer == Append(Stack, Frames!Fresh(b))
  <2>1. Frames!Fresh(b) \in Frames!Frame
    BY DEF Frames!Fresh, Frames!Frame, Scope
  <2>2. longer \in Seq(Frames!Frame) /\ Len(longer) = level + 2
    BY <1>1, <2>1, StackShape
  <2> HIDE DEF longer
  <2>3. longer = [i \in 1..(level + 2) |-> longer[i]]
    BY <2>2
  <2> QED
    BY <2>3 DEF longer
<1> QED
  BY <1>4, <1>5, <1>6

\* Closing a scope forgets its frame and no other.
LEMMA PopFrames ==
    ASSUME IInv, NEW above \in BOOLEAN, GoUpWith(above)
    PROVE  Len(Stack) > 1 /\ Stack' = [i \in 1..(Len(Stack) - 1) |-> Stack[i]]
<1>1. level \in Nat /\ level > 0 /\ level' = level - 1
  BY StackShape DEF GoUpWith
<1>2. Len(Stack) = level + 1
  BY StackShape
<1>3. \A i \in 1..level : scope'[i - 1] = scope[i - 1] /\ imports'[i - 1] = imports[i - 1]
  <2> SUFFICES ASSUME NEW i \in 1..level
               PROVE  scope'[i - 1] = scope[i - 1] /\ imports'[i - 1] = imports[i - 1]
    OBVIOUS
  <2>1. i - 1 \in Level /\ i - 1 # level
    BY <1>1, ScopeTableAssumption DEF IInv, TypeOK, Level
  <2> QED
    BY <2>1 DEF GoUpWith, IInv, TypeOK
<1>4. Stack' = [i \in 1..level |-> [names |-> scope'[i - 1], opened |-> imports'[i - 1]]]
  BY <1>1 DEF Stack
<1>5. \A i \in 1..level : Stack[i] = [names |-> scope[i - 1], opened |-> imports[i - 1]]
  BY <1>1 DEF Stack
<1> QED
  BY <1>1, <1>2, <1>3, <1>4, <1>5

\* A declaration binds the name in the innermost frame, or changes nothing when
\* the name is taken there or the table is locked.
LEMMA BindFrames ==
    ASSUME IInv, NEW n \in Name, NEW x \in Node, NEW public \in BOOLEAN,
           AddToScope(n, x, public)
    PROVE  Frames!Bind(n, x) \/ Stack' = Stack
<1>1. level \in Nat /\ level \in Level /\ level' = level /\ imports' = imports
  BY StackShape DEF AddToScope, IInv, TypeOK
<1>2. CASE Dropped \/ scope[level][n] # None
  <2>1. scope' = scope
    <3>1. CASE Dropped
      BY <3>1 DEF AddToScope
    <3>2. CASE ~Dropped /\ scope[level][n] # None
      <4>1. Emplace(scope[level], Binding(n, x)) = scope[level]
        BY <1>1, <3>2 DEF IInv, TypeOK, Scope, Emplace, Binding, EmptyScope
      <4> QED
        BY <1>1, <3>2, <4>1 DEF AddToScope, IInv, TypeOK
    <3> QED
      BY <1>2, <3>1, <3>2
  <2> QED
    BY <1>1, <2>1 DEF Stack
<1>3. CASE ~Dropped /\ scope[level][n] = None
  <2>1. Emplace(scope[level], Binding(n, x)) = [scope[level] EXCEPT ![n] = x]
    BY <1>1, <1>3 DEF IInv, TypeOK, Scope, Emplace, Binding, EmptyScope
  <2>2. scope' = [scope EXCEPT ![level] = [scope[level] EXCEPT ![n] = x]]
    BY <1>3, <2>1 DEF AddToScope
  <2>3. Len(Stack) = level + 1 /\ Stack[level + 1] = [names |-> scope[level], opened |-> imports[level]]
    BY <1>1, StackShape
  <2>4. Stack[Len(Stack)].names[n] = None
    BY <1>3, <2>3
  <2>5. Stack' = [Stack EXCEPT ![Len(Stack)].names[n] = x]
    <3>1. Stack' = [i \in 1..(level + 1) |-> [names |-> scope'[i - 1], opened |-> imports[i - 1]]]
      BY <1>1 DEF Stack
    <3>2. [Stack EXCEPT ![level + 1] = [names |-> [scope[level] EXCEPT ![n] = x], opened |-> imports[level]]]
            = [Stack EXCEPT ![Len(Stack)].names[n] = x]
      <4>1. [Stack[level + 1] EXCEPT !.names[n] = x]
              = [names |-> [scope[level] EXCEPT ![n] = x], opened |-> imports[level]]
        BY <2>3
      <4> QED
        BY <2>3, <4>1
    <3>3. \A i \in 1..(level + 1) : i # level + 1 => scope'[i - 1] = scope[i - 1]
      BY <1>1, <2>2, ScopeTableAssumption DEF IInv, TypeOK, Level
    <3>4. scope'[level] = [scope[level] EXCEPT ![n] = x]
      BY <1>1, <2>2 DEF IInv, TypeOK
    <3>5. Stack' = [Stack EXCEPT ![level + 1] = [names |-> [scope[level] EXCEPT ![n] = x], opened |-> imports[level]]]
      <4> DEFINE top == [names |-> [scope[level] EXCEPT ![n] = x], opened |-> imports[level]]
      <4>1. [Stack EXCEPT ![level + 1] = top]
              = [i \in 1..(level + 1) |-> IF i = level + 1 THEN top ELSE Stack[i]]
        BY <1>1 DEF Stack
      <4>2. ASSUME NEW i \in 1..(level + 1)
            PROVE  [names |-> scope'[i - 1], opened |-> imports[i - 1]]
                     = IF i = level + 1 THEN top ELSE Stack[i]
        <5>1. CASE i = level + 1
          BY <1>1, <3>4, <5>1
        <5>2. CASE i # level + 1
          BY <3>3, <5>2 DEF Stack
        <5> QED
          BY <5>1, <5>2
      <4> HIDE DEF top
      <4>3. Stack' = [Stack EXCEPT ![level + 1] = top]
        BY <3>1, <4>1, <4>2
      <4> QED
        BY <4>3 DEF top
    <3> QED
      BY <3>2, <3>5
  <2> QED
    BY <2>4, <2>5 DEF Frames!Bind, Stack
<1> QED
  BY <1>2, <1>3

\* An import opens its module to the innermost frame.
LEMMA OpenFrames ==
    ASSUME IInv, NEW f \in File, AddImport(f)
    PROVE  Frames!Open(f)
<1>1. level \in Nat /\ level \in Level /\ level' = level /\ scope' = scope
  BY StackShape DEF AddImport, IInv, TypeOK
<1>2. imports' = [imports EXCEPT ![level] = imports[level] \cup {f}]
  BY DEF AddImport
<1>3. Len(Stack) = level + 1 /\ Stack[level + 1] = [names |-> scope[level], opened |-> imports[level]]
  BY <1>1, StackShape
<1>4. Stack' = [Stack EXCEPT ![Len(Stack)].opened = Stack[Len(Stack)].opened \cup {f}]
  <2>1. Stack' = [i \in 1..(level + 1) |-> [names |-> scope[i - 1], opened |-> imports'[i - 1]]]
    BY <1>1 DEF Stack
  <2>2. [Stack EXCEPT ![level + 1] = [names |-> scope[level], opened |-> imports[level] \cup {f}]]
          = [Stack EXCEPT ![Len(Stack)].opened = Stack[Len(Stack)].opened \cup {f}]
    <3>1. [Stack[level + 1] EXCEPT !.opened = Stack[level + 1].opened \cup {f}]
            = [names |-> scope[level], opened |-> imports[level] \cup {f}]
      <4> DEFINE o == Stack[level + 1].opened \cup {f}
      <4>1. o = imports[level] \cup {f}
        BY <1>3
      <4> HIDE DEF o
      <4>2. [Stack[level + 1] EXCEPT !.opened = o] = [names |-> scope[level], opened |-> o]
        BY <1>3
      <4> QED
        BY <4>1, <4>2 DEF o
    <3> QED
      BY <1>3, <3>1
  <2>3. \A i \in 1..(level + 1) : i # level + 1 => imports'[i - 1] = imports[i - 1]
    BY <1>1, <1>2, ScopeTableAssumption DEF IInv, TypeOK, Level
  <2>4. imports'[level] = imports[level] \cup {f}
    BY <1>1, <1>2 DEF IInv, TypeOK
  <2>5. Stack' = [Stack EXCEPT ![level + 1] = [names |-> scope[level], opened |-> imports[level] \cup {f}]]
    <3> DEFINE top == [names |-> scope[level], opened |-> imports[level] \cup {f}]
    <3>1. [Stack EXCEPT ![level + 1] = top]
            = [i \in 1..(level + 1) |-> IF i = level + 1 THEN top ELSE Stack[i]]
      BY <1>1 DEF Stack
    <3>2. ASSUME NEW i \in 1..(level + 1)
          PROVE  [names |-> scope[i - 1], opened |-> imports'[i - 1]]
                   = IF i = level + 1 THEN top ELSE Stack[i]
      <4>1. CASE i = level + 1
        <5>1. i - 1 = level
          BY <1>1, <4>1
        <5>2. [names |-> scope[i - 1], opened |-> imports'[i - 1]] = top
          BY <2>4, <5>1
        <5> QED
          BY <4>1, <5>2
      <4>2. CASE i # level + 1
        BY <2>3, <4>2 DEF Stack
      <4> QED
        BY <4>1, <4>2
    <3> HIDE DEF top
    <3>3. Stack' = [Stack EXCEPT ![level + 1] = top]
      BY <2>1, <3>1, <3>2
    <3> QED
      BY <3>3 DEF top
  <2> QED
    BY <2>2, <2>5
<1> QED
  BY <1>4 DEF Frames!Open, Stack

\* Every other step leaves the stack of frames as it is.
LEMMA NextFrames == IInv /\ [Next]_vars => [Frames!Next]_Stack
<1> SUFFICES ASSUME IInv, [Next]_vars PROVE Frames!Next \/ Stack' = Stack
  OBVIOUS
<1>1. ASSUME NEW n \in Name, NEW x \in Node, NEW public \in BOOLEAN,
             AddToScope(n, x, public) \/ GetOrAddSymbol(n, x, public)
      PROVE  Frames!Next \/ Stack' = Stack
  BY <1>1, BindFrames DEF GetOrAddSymbol, Frames!Next
<1>2. ASSUME NEW b \in Scope, GoDownWith(b) PROVE Frames!Next
  BY <1>2, PushFrames DEF Frames!Next, Frames!Push, Stack, Scope
<1>3. CASE GoUp \/ LeaveBlock
  <2>1. \E above \in BOOLEAN : GoUpWith(above)
    BY <1>3 DEF GoUp, LeaveBlock, IInv, TypeOK
  <2> QED
    BY <2>1, PopFrames DEF Frames!Next, Frames!Pop, Stack
<1>4. ASSUME NEW f \in File, AddImport(f) PROVE Frames!Next
  BY <1>4, OpenFrames DEF Frames!Next
<1>5. CASE \/ Unlock \/ SetReturn \/ ClearReturn \/ UNCHANGED vars
           \/ \E n \in Name, x \in Node, f \in File \ {Self} : DeclareElsewhere(n, x, f)
  BY <1>5 DEF Unlock, SetReturn, ClearReturn, vars, DeclareElsewhere, Stack
<1> QED
  BY <1>1, <1>2, <1>3, <1>4, <1>5 DEF Next, Parse, Analyze

\* The table is a stack of lexical frames: a closed scope's declarations and
\* imports are gone and the enclosing scopes are as they were.
THEOREM Refinement == Spec => ImplementsLexicalScopes
BY InitFrames, NextFrames, Invariance, PTL
   DEF Spec, ImplementsLexicalScopes, Frames!Spec
-----------------------------------------------------------------------------
(* Resolution: a name keeps its meaning. *)

\* A step keeps every declaration of a scope that stays open and adds none but in
\* the scope that is innermost after it.
LEMMA DeclarationsStay ==
    ASSUME IInv, [Next]_vars, NEW n \in Name, NEW k \in 0..level'
    PROVE  /\ level' \in Nat
           /\ k <= level /\ scope[k][n] # None => scope'[k][n] = scope[k][n]
           /\ scope'[k][n] # None => k = level' \/ (k <= level /\ scope[k][n] # None)
<1> USE DEF IInv, TypeOK
<1>1. level \in Nat /\ level' \in Nat /\ level \in Level /\ k \in Level
  BY NextIInv, ScopeTableAssumption DEF Level
<1> DEFINE Goal == /\ k <= level /\ scope[k][n] # None => scope'[k][n] = scope[k][n]
                   /\ scope'[k][n] # None => k = level' \/ (k <= level /\ scope[k][n] # None)
<1>2. CASE scope' = scope /\ level' = level
  BY <1>1, <1>2
<1>3. ASSUME NEW m \in Name, NEW x \in Node, NEW public \in BOOLEAN, AddToScope(m, x, public)
      PROVE  Goal
  <2>1. CASE Dropped
    BY <1>1, <1>3, <2>1 DEF AddToScope
  <2>2. CASE ~Dropped
    <3>1. scope' = [scope EXCEPT ![level] = Emplace(scope[level], Binding(m, x))] /\ level' = level
      BY <1>3, <2>2 DEF AddToScope
    <3>2. scope[level][n] # None => Emplace(scope[level], Binding(m, x))[n] = scope[level][n]
      BY DEF Emplace
    <3> QED
      BY <1>1, <3>1, <3>2
  <2> QED
    BY <2>1, <2>2
<1>4. ASSUME NEW b \in Scope, GoDownWith(b) PROVE Goal
  <2>1. level' = level + 1 /\ scope' = [scope EXCEPT ![level + 1] = Emplace(scope[level + 1], b)]
    BY <1>4 DEF GoDownWith
  <2>2. k # level + 1 => scope'[k] = scope[k] /\ k <= level
    BY <1>1, <2>1
  <2> QED
    BY <1>1, <2>1, <2>2
<1>5. ASSUME NEW above \in BOOLEAN, GoUpWith(above) PROVE Goal
  <2>1. k # level /\ k <= level
    BY <1>1, <1>5 DEF GoUpWith
  <2>2. scope'[k] = scope[k]
    BY <1>1, <1>5, <2>1 DEF GoUpWith
  <2> QED
    BY <2>1, <2>2
<1>6. ASSUME GoUp \/ LeaveBlock PROVE Goal
  <2>1. \E above \in BOOLEAN : GoUpWith(above)
    BY <1>6 DEF GoUp, LeaveBlock
  <2> QED
    BY <1>5, <2>1
<1>7. CASE \/ Unlock \/ SetReturn \/ ClearReturn \/ UNCHANGED vars
           \/ \E f \in File : AddImport(f)
           \/ \E m \in Name, x \in Node, f \in File \ {Self} : DeclareElsewhere(m, x, f)
  BY <1>2, <1>7 DEF Unlock, SetReturn, ClearReturn, vars, AddImport, DeclareElsewhere
<1>8. Goal
  BY <1>3, <1>4, <1>6, <1>7 DEF Next, Parse, Analyze, GetOrAddSymbol
<1> QED
  BY <1>1, <1>8

\* A name that one open scope declares stands for that declaration while the scope is open
\* and no other one declares it, whatever is opened, closed, declared, bound or imported.
THEOREM NamesKeepTheirMeaning == Spec => ResolutionStable
<1>1. ASSUME IInv, [Next]_vars PROVE SoleDeclarationStays
  <2> SUFFICES ASSUME NEW n \in Name, NEW l \in Declaring(n),
                      Declaring(n) = {l}, l <= level', Declaring(n)' \subseteq {l}
               PROVE  FindLocal(n)' = FindLocal(n)
    BY DEF SoleDeclarationStays
  <2>1. level \in Nat /\ level' \in Nat
    BY <1>1, NextIInv, ScopeTableAssumption DEF IInv, TypeOK, Level
  <2>2. l \in 0..level' /\ l <= level /\ scope[l][n] # None
    BY <2>1 DEF Declaring, OpenLevels
  <2>3. scope'[l][n] = scope[l][n]
    BY <1>1, <2>2, DeclarationsStay
  <2>4. Declaring(n)' = {l}
    BY <2>2, <2>3 DEF Declaring, OpenLevels
  <2>5. l = CHOOSE j \in {l} : \A k \in {l} : j <= k
    BY <2>1, <2>2
  <2>6. FindLocal(n) = scope[l][n]
    BY <2>5 DEF FindLocal
  <2>7. FindLocal(n)' = scope'[l][n]
    BY <2>4, <2>5 DEF FindLocal
  <2> QED
    BY <2>3, <2>6, <2>7
<1>2. IInv /\ [Next]_vars => [SoleDeclarationStays]_vars
  BY <1>1
<1> QED
  BY <1>2, Invariance, PTL DEF Spec, ResolutionStable

\* A scope's return flag is still there for the construct above after the scope
\* has been left.
THEOREM FlagIsReadable == Spec => FlagOutlivesScope
<1> DEFINE Lowered(l) == \/ level' = l /\ level = l - 1
                         \/ level' = l /\ level = l /\ l > 0
           Step == \A l \in Level : (returns[l] /\ ~returns'[l]) => Lowered(l)
<1>1. ASSUME IInv, [Next]_vars PROVE Step
  <2> SUFFICES ASSUME NEW l \in Level, returns[l], ~returns'[l] PROVE Lowered(l)
    OBVIOUS
  <2>1. level \in Nat /\ l \in Nat /\ returns \in [Level -> BOOLEAN]
    BY <1>1, ScopeTableAssumption DEF IInv, TypeOK, Level
  <2>2. ASSUME NEW b \in Scope, GoDownWith(b) PROVE Lowered(l)
    BY <2>1, <2>2 DEF GoDownWith
  <2>3. ASSUME NEW above \in BOOLEAN, GoUpWith(above) PROVE FALSE
    BY <2>1, <2>3 DEF GoUpWith
  <2>4. CASE level > 0 /\ ClearReturn
    BY <2>1, <2>4 DEF ClearReturn
  <2>5. ~SetReturn
    BY <2>1 DEF SetReturn
  <2>6. returns' # returns
    OBVIOUS
  <2> QED
    BY <1>1, <2>1, <2>2, <2>3, <2>4, <2>5, <2>6
       DEF Next, Parse, Analyze, GoUp, LeaveBlock, vars, AddToScope, GetOrAddSymbol,
           AddImport, Unlock, DeclareElsewhere
<1>2. IInv /\ [Next]_vars => [Step]_vars
  BY <1>1
<1> HIDE DEF Step
<1>3. [][Step]_vars => FlagOutlivesScope
  BY PTL DEF Step, FlagOutlivesScope
<1> QED
  BY <1>2, <1>3, Invariance, PTL DEF Spec

-----------------------------------------------------------------------------
(* Loading other modules. *)

\* Steps keep the list of global symbols or append to it.
LEMMA GlobalsGrow ==
    ASSUME IInv, Next
    PROVE  globals' = globals \/ \E g : globals' = Append(globals, g)
<1> DEFINE Goal == globals' = globals \/ \E g : globals' = Append(globals, g)
<1>1. ASSUME NEW n \in Name, NEW x \in Node, NEW public \in BOOLEAN, AddToScope(n, x, public)
      PROVE  Goal
  BY <1>1 DEF AddToScope
<1>2. ASSUME NEW n \in Name, NEW x \in Node, NEW f \in File \ {Self}, DeclareElsewhere(n, x, f)
      PROVE  Goal
  BY <1>2 DEF DeclareElsewhere
<1>3. CASE \/ Unlock \/ GoUp \/ LeaveBlock \/ SetReturn \/ ClearReturn
           \/ \E f \in File : AddImport(f)
           \/ \E b \in Scope : GoDownWith(b)
  BY <1>3 DEF Unlock, GoUp, LeaveBlock, GoUpWith, SetReturn, ClearReturn, AddImport, GoDownWith
<1> QED
  BY <1>1, <1>2, <1>3 DEF Next, Parse, Analyze, GetOrAddSymbol

\* Loading another module appends to the global symbols, so the first one that a
\* name reaches stays the first: what the name stands for does not change.
THEOREM LoadingIsHarmless == Spec => LoadingKeepsMeaning
<1> DEFINE Step == UNCHANGED <<level, scope, imports>> =>
                     \A n \in Name : Find(n) # None => Find(n)' = Find(n)
<1>1. ASSUME IInv, Next, UNCHANGED <<level, scope, imports>>, NEW n \in Name, Find(n) # None
      PROVE  Find(n)' = Find(n)
  <2>1. FindLocal(n)' = FindLocal(n) /\ ModulesFound' = ModulesFound
    BY <1>1 DEF FindLocal, Declaring, OpenLevels, ModulesFound
  <2>2. CASE FindLocal(n) # None
    BY <2>1, <2>2 DEF Find
  <2>3. CASE FindLocal(n) = None
    <3>1. globals \in Seq(GlobalSymbol) /\ globals' \in Seq(GlobalSymbol)
      BY <1>1, NextIInv DEF IInv, TypeOK
    <3>2. /\ DOMAIN globals = 1..Len(globals) /\ Len(globals) \in Nat
          /\ DOMAIN globals \subseteq DOMAIN globals'
          /\ \A i \in DOMAIN globals : globals'[i] = globals[i]
          /\ \A i \in DOMAIN globals' \ DOMAIN globals : i \in Nat /\ i > Len(globals)
      BY <1>1, <3>1, GlobalsGrow
    <3>3. Visible(n) # {} /\ Find(n) = globals[CHOOSE i \in Visible(n) : \A j \in Visible(n) : i <= j].node
      BY <1>1, <2>3 DEF Find
    <3>4. PICK m \in Visible(n) : /\ \A j \in Visible(n) : m <= j
                                  /\ m = CHOOSE i \in Visible(n) : \A j \in Visible(n) : i <= j
      <4>1. Visible(n) \in SUBSET Nat
        BY <3>2 DEF Visible
      <4> QED
        BY <3>3, <4>1, LeastNatural
    <3>5. m \in Visible(n)'
      BY <2>1, <3>2 DEF Visible
    <3>6. \A j \in Visible(n)' : j \in Nat /\ m <= j
      <4> SUFFICES ASSUME NEW j \in Visible(n)' PROVE j \in Nat /\ m <= j
        OBVIOUS
      <4>1. CASE j \in DOMAIN globals
        <5>1. j \in Visible(n)
          BY <2>1, <3>2, <4>1 DEF Visible
        <5> QED
          BY <3>2, <3>4, <4>1, <5>1
      <4>2. CASE j \notin DOMAIN globals
        <5>1. j \in Nat /\ j > Len(globals)
          BY <3>2, <4>2 DEF Visible
        <5>2. m \in 1..Len(globals)
          BY <3>2 DEF Visible
        <5> QED
          BY <3>2, <5>1, <5>2
      <4> QED
        BY <4>1, <4>2
    <3>7. m = CHOOSE i \in Visible(n)' : \A j \in Visible(n)' : i <= j
      <4>1. \A i \in Visible(n)' : (\A j \in Visible(n)' : i <= j) => i = m
        BY <3>5, <3>6
      <4> QED
        BY <3>5, <3>6, <4>1
    <3>8. Find(n)' = globals'[m].node
      BY <2>1, <2>3, <3>5, <3>7 DEF Find
    <3>9. globals'[m] = globals[m]
      BY <3>2 DEF Visible
    <3> QED
      BY <3>3, <3>4, <3>8, <3>9
  <2> QED
    BY <2>2, <2>3
<1>2. IInv /\ [Next]_vars => [Step]_vars
  BY <1>1
<1> HIDE DEF Step
<1>3. [][Step]_vars => LoadingKeepsMeaning
  BY PTL DEF Step, LoadingKeepsMeaning
<1> QED
  BY <1>2, <1>3, Invariance, PTL DEF Spec

-----------------------------------------------------------------------------
(* The return analysis: specification FlowSpec of ReturnFlow *)

\* A visitor that is back from what it has called: the level below its own is the
\* one just closed, so it is allocated.
BelowAllocated ==
    (Depth > 0 /\ Top.kind \notin {"fn", "block"} /\ Top.stage # "body") =>
        level + 1 < size /\ level < MaxLevel

\* The inductive invariant: the symbol table is in order, and its level counts the
\* functions and blocks under way.
FInv == IInv /\ FlowTypeOK /\ level = Cardinality(Scoped) /\ BelowAllocated

-----------------------------------------------------------------------------
(* The visitors' call stack *)

\* A new visitor has its type.
LEMMA VisitType ==
    ASSUME NEW kind \in {"fn", "block", "if"} \cup Loops, NEW reach \in BOOLEAN,
           NEW value \in BOOLEAN
    PROVE  /\ Visit(kind, reach, value) \in VisitRecord
           /\ Visit(kind, reach, value).kind = kind
           /\ Visit(kind, reach, value).reach = reach
           /\ Visit(kind, reach, value).value = value
           /\ Visit(kind, reach, value).stage = "body"
BY DEF Visit, VisitRecord

\* A caller that goes on keeps its type, its kind and what it knew before.
LEMMA ResumedType ==
    ASSUME NEW caller \in VisitRecord, NEW after \in BOOLEAN
    PROVE  /\ Resumed(caller, after) \in VisitRecord
           /\ Resumed(caller, after).kind = caller.kind
           /\ Resumed(caller, after).value = caller.value
           /\ Resumed(caller, after).sibling = caller.sibling
BY DEF Resumed, VisitRecord, Loops

\* Returning drops the visitor at the top and changes the one below it only.
LEMMA ReturnShape ==
    ASSUME FlowTypeOK, Depth > 0, NEW after \in BOOLEAN, Return(after)
    PROVE  /\ visits' \in Seq(VisitRecord)
           /\ Depth' = Depth - 1
           /\ \A i \in 1..(Depth - 1) :
                /\ visits'[i].kind = visits[i].kind
                /\ visits'[i].value = visits[i].value
                /\ i # Depth - 1 => visits'[i] = visits[i]
                /\ i = Depth - 1 => visits'[i] = Resumed(visits[i], after)
<1>0. Depth \in Nat /\ Depth = Len(visits) /\ visits \in Seq(VisitRecord)
  BY DEF FlowTypeOK, Depth
<1>1. CASE Depth = 1
  BY <1>0, <1>1 DEF Return, Depth
<1>2. CASE Depth # 1
  <2> DEFINE s == SubSeq(visits, 1, Depth - 1)
             v == Resumed(visits[Depth - 1], after)
  <2>1. Depth - 1 \in 1..Depth /\ Depth \in Nat
    BY <1>0, <1>2
  <2>2. visits[Depth - 1] \in VisitRecord
    BY <1>0, <2>1
  <2>3. v \in VisitRecord /\ v.kind = visits[Depth - 1].kind /\ v.value = visits[Depth - 1].value
    BY <2>2, ResumedType
  <2>4. s \in Seq(VisitRecord) /\ Len(s) = Depth - 1 /\ \A i \in 1..(Depth - 1) : s[i] = visits[i]
    BY <1>0, <2>1
  <2>5. visits' = [s EXCEPT ![Depth - 1] = v]
    BY <1>2 DEF Return
  <2> HIDE DEF s, v
  <2>6. /\ visits' \in Seq(VisitRecord) /\ Len(visits') = Depth - 1
        /\ \A i \in 1..(Depth - 1) : visits'[i] = IF i = Depth - 1 THEN v ELSE s[i]
    BY <2>1, <2>3, <2>4, <2>5
  <2> QED
    BY <2>1, <2>3, <2>4, <2>6 DEF v, Depth
<1> QED
  BY <1>1, <1>2

\* Pushing one visitor, and pushing two.
LEMMA PushOne ==
    ASSUME FlowTypeOK, NEW a \in VisitRecord, visits' = visits \o <<a>>
    PROVE  /\ visits' \in Seq(VisitRecord)
           /\ Depth' = Depth + 1 /\ Top' = a
           /\ \A i \in 1..Depth : visits'[i] = visits[i]
           /\ visits'[Depth + 1] = a
BY DEF FlowTypeOK, Depth, Top

LEMMA PushTwo ==
    ASSUME FlowTypeOK, NEW a \in VisitRecord, NEW b \in VisitRecord,
           visits' = visits \o <<a, b>>
    PROVE  /\ visits' \in Seq(VisitRecord)
           /\ Depth' = Depth + 2 /\ Top' = b
           /\ \A i \in 1..Depth : visits'[i] = visits[i]
           /\ visits'[Depth + 1] = a /\ visits'[Depth + 2] = b
BY DEF FlowTypeOK, Depth, Top

\* Replacing the visitor at the top.
LEMMA PutTop ==
    ASSUME FlowTypeOK, Depth > 0, NEW v \in VisitRecord,
           visits' = [visits EXCEPT ![Depth] = v]
    PROVE  /\ visits' \in Seq(VisitRecord)
           /\ Depth' = Depth /\ Top' = v
           /\ \A i \in 1..Depth : i # Depth => visits'[i] = visits[i]
           /\ visits'[Depth] = v
BY DEF FlowTypeOK, Depth, Top

\* A statement that stops control.
LEMMA StopsShape ==
    ASSUME FlowTypeOK, Depth > 0, Stops
    PROVE  /\ visits' \in Seq(VisitRecord)
           /\ Depth' = Depth
           /\ \A i \in 1..Depth : i # Depth => visits'[i] = visits[i]
           /\ Top' = [Top EXCEPT !.reach = FALSE]
           /\ Top'.kind = Top.kind /\ Top'.value = Top.value
<1>1. Top \in VisitRecord
  BY DEF FlowTypeOK, Depth, Top
<1>2. [Top EXCEPT !.reach = FALSE] \in VisitRecord
  BY <1>1 DEF VisitRecord
<1>3. visits' = [visits EXCEPT ![Depth] = [Top EXCEPT !.reach = FALSE]]
  BY DEF Stops, Top
<1>4. /\ [Top EXCEPT !.reach = FALSE].kind = Top.kind
      /\ [Top EXCEPT !.reach = FALSE].value = Top.value
  BY <1>1 DEF VisitRecord
<1> QED
  BY <1>2, <1>3, <1>4, PutTop

-----------------------------------------------------------------------------
(* Counting the functions and blocks under way *)

LEMMA ScopedFinite ==
    ASSUME FlowTypeOK
    PROVE  IsFiniteSet(Scoped) /\ Cardinality(Scoped) \in Nat /\ Scoped \subseteq 1..Depth
<1>1. Depth \in Nat
  BY DEF FlowTypeOK, Depth
<1>2. IsFiniteSet(1..Depth)
  BY <1>1, FS_Interval
<1>3. Scoped \subseteq 1..Depth
  BY DEF Scoped
<1> QED
  BY <1>2, <1>3, FS_Subset, FS_CardinalityType

\* A step that changes no kind counts the same.
LEMMA ScopedSame ==
    ASSUME Depth' = Depth, \A i \in 1..Depth : visits'[i].kind = visits[i].kind
    PROVE  Scoped' = Scoped
BY DEF Scoped

\* Pushing a function or a block, with an if or a loop above it or without, counts
\* one more.
LEMMA ScopedGrows ==
    ASSUME FlowTypeOK, Depth' \in Nat, Depth' > Depth,
           \A i \in 1..Depth : visits'[i] = visits[i],
           \A i \in (Depth + 1)..Depth' : visits'[i].kind \in {"fn", "block"} <=> i = Depth'
    PROVE  Cardinality(Scoped') = Cardinality(Scoped) + 1
<1>1. Depth \in Nat
  BY DEF FlowTypeOK, Depth
<1>2. Scoped' = Scoped \cup {Depth'}
  BY <1>1 DEF Scoped
<1>3. Depth' \notin Scoped
  BY <1>1 DEF Scoped
<1> QED
  BY <1>2, <1>3, ScopedFinite, FS_AddElement

\* Popping a function or a block counts one less; popping another visitor the same.
LEMMA ScopedShrinks ==
    ASSUME FlowTypeOK, Depth > 0, Depth' = Depth - 1,
           \A i \in 1..(Depth - 1) : visits'[i].kind = visits[i].kind
    PROVE  Cardinality(Scoped') = IF Top.kind \in {"fn", "block"}
                                  THEN Cardinality(Scoped) - 1 ELSE Cardinality(Scoped)
<1>1. Depth \in Nat
  BY DEF FlowTypeOK, Depth
<1>2. CASE Top.kind \in {"fn", "block"}
  <2>1. Depth \in Scoped
    BY <1>1, <1>2 DEF Scoped, Top
  <2>2. Scoped' = Scoped \ {Depth}
    BY <1>1 DEF Scoped
  <2> QED
    BY <1>2, <2>1, <2>2, ScopedFinite, FS_RemoveElement
<1>3. CASE Top.kind \notin {"fn", "block"}
  <2>1. Scoped' = Scoped
    BY <1>1, <1>3 DEF Scoped, Top
  <2> QED
    BY <1>3, <2>1
<1> QED
  BY <1>2, <1>3

-----------------------------------------------------------------------------
(* Every visitor keeps the invariant. *)

LEMMA InitFInv == FlowInit => FInv
<1> SUFFICES ASSUME FlowInit PROVE FInv
  OBVIOUS
<1>1. IInv
  BY InitIInv DEF FlowInit
<1>2. FlowTypeOK /\ Depth = 0
  BY DEF FlowInit, FlowTypeOK, Depth
<1>3. Scoped = {}
  BY <1>2 DEF Scoped
<1>4. level = Cardinality(Scoped)
  BY <1>3, FS_EmptySet DEF FlowInit, Init
<1> QED
  BY <1>1, <1>2, <1>4 DEF FInv, BelowAllocated

\* A visitor that opens a scope: a function or a block, or an if or a loop whose
\* body it visits.
LEMMA OpenFInv ==
    ASSUME FInv, GoDownWith(EmptyScope), last' = last,
           NEW b \in VisitRecord, b.kind \in {"fn", "block"},
           \/ visits' = visits \o <<b>>
           \/ \E a \in VisitRecord : a.kind \notin {"fn", "block"} /\ visits' = visits \o <<a, b>>
    PROVE  FInv'
<1>1. IInv'
  BY BindingScope, GoDownIInv DEF FInv
<1>2. /\ visits' \in Seq(VisitRecord) /\ Depth' \in Nat /\ Depth' > Depth /\ Top' = b
      /\ \A i \in 1..Depth : visits'[i] = visits[i]
      /\ \A i \in (Depth + 1)..Depth' : visits'[i].kind \in {"fn", "block"} <=> i = Depth'
  <2>1. Depth \in Nat
    BY DEF FInv, FlowTypeOK, Depth
  <2> DEFINE Kinds == \A i \in (Depth + 1)..Depth' : visits'[i].kind \in {"fn", "block"} <=> i = Depth'
             Goal == /\ visits' \in Seq(VisitRecord) /\ Depth' \in Nat /\ Depth' > Depth /\ Top' = b
                     /\ \A i \in 1..Depth : visits'[i] = visits[i]
                     /\ Kinds
  <2>2. CASE visits' = visits \o <<b>>
    <3>1. /\ visits' \in Seq(VisitRecord) /\ Depth' = Depth + 1 /\ Top' = b
          /\ \A i \in 1..Depth : visits'[i] = visits[i]
          /\ visits'[Depth + 1] = b
      BY <2>2, PushOne DEF FInv
    <3>2. \A i \in (Depth + 1)..Depth' : i = Depth + 1 /\ i = Depth'
      BY <2>1, <3>1
    <3>3. Kinds
      BY <3>1, <3>2
    <3> HIDE DEF Kinds
    <3> QED
      BY <2>1, <3>1, <3>3
  <2>3. ASSUME NEW a \in VisitRecord, a.kind \notin {"fn", "block"}, visits' = visits \o <<a, b>>
        PROVE  Goal
    <3>1. /\ visits' \in Seq(VisitRecord) /\ Depth' = Depth + 2 /\ Top' = b
          /\ \A i \in 1..Depth : visits'[i] = visits[i]
          /\ visits'[Depth + 1] = a /\ visits'[Depth + 2] = b
      BY <2>3, PushTwo DEF FInv
    <3>2. \A i \in (Depth + 1)..Depth' : \/ i = Depth + 1 /\ i # Depth'
                                         \/ i = Depth + 2 /\ i = Depth'
      BY <2>1, <3>1
    <3>3. Kinds
      BY <2>3, <3>1, <3>2
    <3> HIDE DEF Kinds
    <3> QED
      BY <2>1, <3>1, <3>3
  <2>4. Goal
    BY <2>2, <2>3
  <2> QED
    BY <2>4
<1>3. level' = Cardinality(Scoped')
  <2>1. level' = level + 1
    BY DEF GoDownWith
  <2> QED
    BY <1>2, <2>1, ScopedGrows DEF FInv
<1>4. FlowTypeOK'
  BY <1>2 DEF FInv, FlowTypeOK
<1>5. BelowAllocated'
  BY <1>2 DEF BelowAllocated
<1> QED
  BY <1>1, <1>3, <1>4, <1>5 DEF FInv

\* A visitor under way has its type.
LEMMA TopType ==
    ASSUME FlowTypeOK, Depth > 0
    PROVE  /\ Depth \in Nat /\ Top \in VisitRecord
           /\ Top.reach \in BOOLEAN /\ Top.body \in BOOLEAN /\ Top.broken \in BOOLEAN
           /\ \A i \in 1..Depth : visits[i] \in VisitRecord /\ visits[i].reach \in BOOLEAN
<1>1. Depth \in Nat /\ \A i \in 1..Depth : visits[i] \in VisitRecord
  BY DEF FlowTypeOK, Depth
<1>2. \A v \in VisitRecord : v.reach \in BOOLEAN /\ v.body \in BOOLEAN /\ v.broken \in BOOLEAN
  BY DEF VisitRecord
<1> QED
  BY <1>1, <1>2 DEF Top

\* A function or a block closes its scope and returns.
LEMMA CloseFInv ==
    ASSUME FInv, Depth > 0, Top.kind \in {"fn", "block"},
           NEW above \in BOOLEAN, GoUpWith(above),
           NEW after \in BOOLEAN, Return(after),
           last' \in [verdict : {"none", "accepted", "rejected"}, reach : BOOLEAN]
    PROVE  FInv'
<1>1. IInv'
  BY GoUpIInv DEF FInv
<1>2. FlowTypeOK'
  BY ReturnShape DEF FInv, FlowTypeOK
<1>3. level' = Cardinality(Scoped')
  <2>1. Cardinality(Scoped') = Cardinality(Scoped) - 1
    BY ReturnShape, ScopedShrinks DEF FInv
  <2> QED
    BY <2>1 DEF GoUpWith, FInv
<1>4. level' + 1 < size' /\ level' < MaxLevel
  <2>1. level \in Level /\ level < size /\ size \in Nat
    BY DEF FInv, IInv, TypeOK, LevelAllocated
  <2> QED
    BY <2>1, ScopeTableAssumption DEF GoUpWith, Level
<1> QED
  BY <1>1, <1>2, <1>3, <1>4 DEF FInv, BelowAllocated

\* An if or a loop returns without closing one.
LEMMA PassFInv ==
    ASSUME FInv, Depth > 0, Top.kind \notin {"fn", "block"}, Top.stage # "body",
           SetReturn \/ UNCHANGED vars,
           NEW after \in BOOLEAN, Return(after), last' = last
    PROVE  FInv'
<1>1. IInv'
  BY OtherIInv DEF FInv
<1>2. level' = level /\ size' = size
  BY DEF SetReturn, vars
<1>3. FlowTypeOK'
  BY ReturnShape DEF FInv, FlowTypeOK
<1>4. level' = Cardinality(Scoped')
  <2>1. Cardinality(Scoped') = Cardinality(Scoped)
    BY ReturnShape, ScopedShrinks DEF FInv
  <2> QED
    BY <1>2, <2>1 DEF FInv
<1>5. level' + 1 < size' /\ level' < MaxLevel
  BY <1>2 DEF FInv, BelowAllocated
<1> QED
  BY <1>1, <1>3, <1>4, <1>5 DEF FInv, BelowAllocated

\* A visitor goes on without calling another one or returning.
LEMMA StayFInv ==
    ASSUME FInv, Depth > 0, SetReturn \/ ClearReturn \/ UNCHANGED vars, last' = last,
           visits' \in Seq(VisitRecord), Depth' = Depth,
           \A i \in 1..Depth : visits'[i].kind = visits[i].kind,
           Top.kind \in {"fn", "block"} \/ Top.stage # "body"
    PROVE  FInv'
<1>1. IInv'
  BY OtherIInv DEF FInv
<1>2. level' = level /\ size' = size
  BY DEF SetReturn, ClearReturn, vars
<1>3. FlowTypeOK'
  BY DEF FInv, FlowTypeOK
<1>4. Scoped' = Scoped
  BY ScopedSame
<1>5. BelowAllocated'
  <2>1. Top'.kind = Top.kind
    BY TopType DEF Top, FInv
  <2> QED
    BY <1>2, <2>1 DEF FInv, BelowAllocated
<1> QED
  BY <1>1, <1>2, <1>3, <1>4, <1>5 DEF FInv

\* The visitors that open scopes.
LEMMA EnterFInv ==
    ASSUME FInv,
           \/ \E value \in BOOLEAN : EnterFn(value)
           \/ EnterBlock \/ EnterIf \/ EnterElse
           \/ \E kind \in Loops : EnterLoop(kind)
    PROVE  FInv'
<1>1. Here \in BOOLEAN
  <2>1. Depth = 0 \/ Depth > 0
    BY DEF FInv, FlowTypeOK, Depth
  <2> QED
    BY <2>1, TopType DEF Here, FInv
<1>2. ASSUME NEW value \in BOOLEAN, EnterFn(value) PROVE FInv'
  <2>1. visits' = visits \o <<Visit("fn", TRUE, value)>> /\ GoDownWith(EmptyScope)
    BY <1>2 DEF EnterFn, Open
  <2>2. Visit("fn", TRUE, value) \in VisitRecord /\ Visit("fn", TRUE, value).kind = "fn"
    BY VisitType
  <2> QED
    BY <1>2, <2>1, <2>2, OpenFInv DEF EnterFn
<1>3. CASE EnterBlock
  <2>1. visits' = visits \o <<Visit("block", Here, FALSE)>>
    BY <1>3 DEF EnterBlock, Open
  <2> QED
    BY <1>1, <1>3, <2>1, VisitType, OpenFInv DEF EnterBlock, Open
<1>4. ASSUME NEW kind \in {"if"} \cup Loops, NEW reach \in BOOLEAN,
             Open(<<Visit(kind, reach, FALSE), Visit("block", reach, FALSE)>>), last' = last
      PROVE  FInv'
  <2> DEFINE a == Visit(kind, reach, FALSE)
             b == Visit("block", reach, FALSE)
  <2>1. a \in VisitRecord /\ a.kind \notin {"fn", "block"}
    BY VisitType DEF Loops
  <2>2. b \in VisitRecord /\ b.kind \in {"fn", "block"}
    BY VisitType
  <2>3. visits' = visits \o <<a, b>> /\ GoDownWith(EmptyScope)
    BY <1>4 DEF Open
  <2> HIDE DEF a, b
  <2> QED
    BY <1>4, <2>1, <2>2, <2>3, OpenFInv
<1>5. CASE EnterIf
  BY <1>1, <1>4, <1>5 DEF EnterIf
<1>6. CASE EnterElse
  <2>1. Depth > 0 /\ Top.reach \in BOOLEAN /\ last' = last
    BY <1>6, TopType DEF EnterElse, FInv
  <2>2. CASE Open(<<Visit("block", Top.reach, FALSE)>>)
    <3>1. visits' = visits \o <<Visit("block", Top.reach, FALSE)>> /\ GoDownWith(EmptyScope)
      BY <2>2 DEF Open
    <3> QED
      BY <2>1, <3>1, VisitType, OpenFInv
  <2>3. CASE Open(<<Visit("if", Top.reach, FALSE), Visit("block", Top.reach, FALSE)>>)
    BY <2>1, <2>3, <1>4
  <2> QED
    BY <1>6, <2>2, <2>3 DEF EnterElse
<1>7. ASSUME NEW kind \in Loops, EnterLoop(kind) PROVE FInv'
  BY <1>1, <1>4, <1>7 DEF EnterLoop
<1> QED
  BY <1>2, <1>3, <1>5, <1>6, <1>7

\* The visitors that return.
LEMMA LeaveFInv ==
    ASSUME FInv, LeaveFn \/ BlockEnds \/ LeaveIf \/ LeaveLoop
    PROVE  FInv'
<1> USE TopType DEF FInv
<1>1. CASE LeaveFn
  <2>1. Depth > 0 /\ Top.kind = "fn" /\ Top.reach \in BOOLEAN
    BY <1>1 DEF LeaveFn
  <2>2. (IF Depth = 1 THEN TRUE ELSE visits[Depth - 1].reach) \in BOOLEAN
    <3>1. Depth # 1 => Depth - 1 \in 1..Depth
      BY <2>1
    <3> QED
      BY <2>1, <3>1
  <2>3. last' \in [verdict : {"none", "accepted", "rejected"}, reach : BOOLEAN]
    BY <1>1, <2>1 DEF LeaveFn
  <2> QED
    BY <1>1, <2>1, <2>2, <2>3, CloseFInv DEF LeaveFn, GoUp
<1>2. CASE BlockEnds
  <2>1. Depth > 0 /\ Top.kind = "block" /\ Top.reach \in BOOLEAN
    BY <1>2 DEF BlockEnds
  <2>2. (returns[level] /\ level > 1) \in BOOLEAN
    OBVIOUS
  <2> QED
    BY <1>2, <2>1, <2>2, CloseFInv DEF BlockEnds, LeaveBlock, FlowTypeOK
<1>3. CASE LeaveIf
  BY <1>3, PassFInv DEF LeaveIf
<1>4. CASE LeaveLoop
  <2>1. (IF Top.kind = "loop" THEN Top.broken ELSE Top.reach) \in BOOLEAN
    BY <1>4 DEF LeaveLoop
  <2> QED
    BY <1>4, <2>1, PassFInv DEF LeaveLoop, Loops
<1> QED
  BY <1>1, <1>2, <1>3, <1>4

\* A break marks the loop it leaves.
LEMMA BreakShape ==
    ASSUME FlowTypeOK, VisitBreak
    PROVE  /\ Depth > 0 /\ Top.kind \in {"fn", "block"}
           /\ visits' \in Seq(VisitRecord) /\ Depth' = Depth
           /\ \A i \in 1..Depth :
                /\ visits'[i].kind = visits[i].kind /\ visits'[i].value = visits[i].value
                /\ visits'[i].stage = visits[i].stage /\ visits'[i].body = visits[i].body
                /\ visits'[i].sibling = visits[i].sibling
                /\ i # Depth => visits'[i].reach = visits[i].reach
<1>1. Depth > 0 /\ Top.kind \in {"fn", "block"}
  BY DEF VisitBreak, InList
<1>2. Depth \in Nat /\ Top \in VisitRecord /\ Top.reach \in BOOLEAN
  BY <1>1, TopType
<1> DEFINE k == Innermost(Loops)
           s == [visits EXCEPT ![Depth].reach = FALSE]
           w == [s[k] EXCEPT !.broken = @ \/ Top.reach]
           Same(x, y) == /\ x.kind = y.kind /\ x.value = y.value /\ x.stage = y.stage
                         /\ x.body = y.body /\ x.sibling = y.sibling
<1>3. /\ s \in Seq(VisitRecord) /\ Len(s) = Depth
      /\ \A i \in 1..Depth : Same(s[i], visits[i]) /\ (i # Depth => s[i] = visits[i])
  <2>1. [Top EXCEPT !.reach = FALSE] \in VisitRecord /\ Same([Top EXCEPT !.reach = FALSE], Top)
    BY <1>2 DEF VisitRecord
  <2> DEFINE v == [Top EXCEPT !.reach = FALSE]
  <2>2. s = [visits EXCEPT ![Depth] = v]
    BY DEF Top
  <2> HIDE DEF v, s
  <2> QED
    BY <1>1, <1>2, <2>1, <2>2 DEF v, FlowTypeOK, Depth, Top
<1>4. visits' = [s EXCEPT ![k] = w]
  BY DEF VisitBreak
<1>5. k \in 1..Depth => w \in VisitRecord /\ Same(w, s[k]) /\ w.reach = s[k].reach
  <2>1. k \in 1..Depth => s[k] \in VisitRecord
    BY <1>3
  <2>2. \A v \in VisitRecord, x \in BOOLEAN :
           /\ [v EXCEPT !.broken = x] \in VisitRecord
           /\ Same([v EXCEPT !.broken = x], v) /\ [v EXCEPT !.broken = x].reach = v.reach
    BY DEF VisitRecord
  <2>3. k \in 1..Depth => (s[k].broken \/ Top.reach) \in BOOLEAN
    OBVIOUS
  <2> HIDE DEF k, s
  <2> QED
    BY <2>1, <2>2, <2>3
<1> HIDE DEF k, s, w
<1>6. /\ visits' \in Seq(VisitRecord) /\ Len(visits') = Depth
      /\ \A i \in 1..Depth : visits'[i] = IF i = k THEN w ELSE s[i]
  <2>1. s = [i \in 1..Depth |-> s[i]] /\ DOMAIN s = 1..Depth
    BY <1>3
  <2>2. visits' = [i \in 1..Depth |-> IF i = k THEN w ELSE s[i]]
    BY <1>4, <2>1
  <2>3. \A i \in 1..Depth : (IF i = k THEN w ELSE s[i]) \in VisitRecord
    BY <1>3, <1>5
  <2> QED
    BY <1>2, <2>2, <2>3
<1>7. Depth' = Depth
  BY <1>6 DEF Depth
<1>8. \A i \in 1..Depth : /\ Same(visits'[i], visits[i])
                          /\ i # Depth => visits'[i].reach = visits[i].reach
  BY <1>3, <1>5, <1>6
<1> QED
  BY <1>1, <1>6, <1>7, <1>8

\* An if decides how to go on after its body.
LEMMA TestShape ==
    ASSUME FInv, TestIf
    PROVE  /\ Depth > 0 /\ Top.kind = "if" /\ Top.stage = "test"
           /\ visits' \in Seq(VisitRecord) /\ Depth' = Depth
           /\ \A i \in 1..Depth : i # Depth => visits'[i] = visits[i]
           /\ \E next \in {"none", "else", "elseif"} :
                Top' = [Top EXCEPT !.stage = next, !.sibling = returns[level + 1]]
           /\ Top'.kind = "if" /\ Top'.reach = Top.reach /\ Top'.body = Top.body
           /\ Top'.value = Top.value /\ Top'.sibling = returns[level + 1]
           /\ Top'.stage \in {"none", "else", "elseif"}
<1>1. Depth > 0 /\ Top.kind = "if" /\ Top.stage = "test"
  BY DEF TestIf
<1>2. Top \in VisitRecord
  BY <1>1, TopType DEF FInv
<1>3. returns[level + 1] \in BOOLEAN
  <2>1. level \in Level /\ level < MaxLevel /\ returns \in [Level -> BOOLEAN]
    BY <1>1 DEF FInv, BelowAllocated, IInv, TypeOK
  <2>2. level + 1 \in Level
    BY <2>1, ScopeTableAssumption DEF Level
  <2> QED
    BY <2>1, <2>2
<1>4. PICK next \in {"none", "else", "elseif"} :
         visits' = [visits EXCEPT ![Depth].stage = next, ![Depth].sibling = returns[level + 1]]
  BY DEF TestIf
<1> DEFINE r == returns[level + 1]
           v == [Top EXCEPT !.stage = next, !.sibling = r]
<1>5. /\ v \in VisitRecord
      /\ v.kind = Top.kind /\ v.reach = Top.reach /\ v.body = Top.body /\ v.value = Top.value
      /\ v.sibling = r /\ v.stage = next
  <2> r \in BOOLEAN
    BY <1>3
  <2> HIDE DEF r
  <2> QED
    BY <1>2 DEF VisitRecord
<1>6. visits' = [visits EXCEPT ![Depth] = v]
  <2> HIDE DEF r
  <2>1. visits' = [visits EXCEPT ![Depth].stage = next, ![Depth].sibling = r]
    BY <1>4 DEF r
  <2> QED
    BY <1>1, <2>1 DEF Top, FInv, FlowTypeOK, Depth
<1>7. v = [Top EXCEPT !.stage = next, !.sibling = returns[level + 1]]
  OBVIOUS
<1> HIDE DEF v
<1>8. /\ visits' \in Seq(VisitRecord)
      /\ Depth' = Depth /\ Top' = v
      /\ \A i \in 1..Depth : i # Depth => visits'[i] = visits[i]
  BY <1>1, <1>5, <1>6, PutTop DEF FInv
<1> QED
  BY <1>1, <1>5, <1>7, <1>8

\* The visitors that stay where they are.
LEMMA StaySteps ==
    ASSUME FInv, VisitReturn \/ VisitBreak \/ VisitContinue \/ TestIf
    PROVE  FInv'
<1>1. CASE VisitReturn \/ VisitContinue
  <2>1. Depth > 0 /\ Top.kind \in {"fn", "block"} /\ Stops /\ last' = last
    BY <1>1 DEF VisitReturn, VisitContinue, InList
  <2>2. SetReturn \/ UNCHANGED vars
    BY <1>1 DEF VisitReturn, VisitContinue
  <2>3. /\ visits' \in Seq(VisitRecord) /\ Depth' = Depth
        /\ \A i \in 1..Depth : visits'[i].kind = visits[i].kind
    BY <2>1, StopsShape DEF FInv, Top
  <2> QED
    BY <2>1, <2>2, <2>3, StayFInv
<1>2. CASE VisitBreak
  BY <1>2, BreakShape, StayFInv DEF VisitBreak, FInv
<1>3. CASE TestIf
  <2>1. \A i \in 1..Depth : visits'[i].kind = visits[i].kind
    BY <1>3, TestShape DEF Top
  <2> QED
    BY <1>3, <2>1, TestShape, StayFInv DEF TestIf
<1> QED
  BY <1>1, <1>2, <1>3

LEMMA NextFInv == FInv /\ [FlowNext]_flowVars => FInv'
<1> SUFFICES ASSUME FInv, [FlowNext]_flowVars PROVE FInv'
  OBVIOUS
<1>1. CASE (StartAnalysis \/ UNCHANGED flowVars)
  <2>1. IInv'
    BY <1>1, OtherIInv DEF StartAnalysis, flowVars, FInv
  <2>2. /\ visits' = visits /\ last' = last /\ level' = level /\ size' = size
    BY <1>1 DEF StartAnalysis, Unlock, flowVars, vars
  <2> QED
    BY <2>1, <2>2 DEF FInv, FlowTypeOK, Depth, Scoped, BelowAllocated, Top
<1> QED
  BY <1>1, EnterFInv, LeaveFInv, StaySteps DEF FlowNext

LEMMA FlowInvariance == FlowSpec => []FInv
BY InitFInv, NextFInv, PTL DEF FlowSpec

\* The visitors' call stack and the verdict have their types.
THEOREM FlowTypeCorrect == FlowSpec => []FlowTypeOK
<1>1. FInv => FlowTypeOK
  BY DEF FInv
<1> QED
  BY <1>1, FlowInvariance, PTL

\* Every construct closes the scopes it has opened, and the flags of the level
\* below are only read when there is one (get_lower_flags indexes without a check).
THEOREM LevelsFollowVisits == FlowSpec => []LevelsMatchVisits
<1>1. FInv => LevelsMatchVisits
  BY DEF FInv, BelowAllocated, LevelsMatchVisits
<1> QED
  BY <1>1, FlowInvariance, PTL

-----------------------------------------------------------------------------
(* Programs without dead statements and without `loop': no false alarms. *)

\* The visitor i of the call stack v belongs to a function with a value and no loop
\* lies between them.
Free(v, i) ==
    \E f \in 1..i : /\ v[f].kind = "fn" /\ v[f].value
                    /\ \A j \in (f + 1)..i : v[j].kind \in {"block", "if"}

\* A list whose end control does not reach has its flag raised.
ListsFlagged ==
    (Depth > 0 /\ Free(visits, Depth) /\ Top.kind \in {"fn", "block"} /\ ~Top.reach) => returns[level]

\* Control arrives at every construct under way.
AllReached ==
    \A i \in 1..Depth : /\ visits[i].kind # "loop"
                        /\ (i # Depth \/ visits[i].kind \notin {"fn", "block"}) => visits[i].reach

\* An if that waits for a branch is at one.
BranchAwaited ==
    \A i \in 1..Depth : (i # Depth /\ visits[i].kind = "if") =>
        visits[i].stage \in {"body", "else", "elseif"}

\* sibling_returns stands for the body of the if ...
SiblingKept ==
    \A i \in 1..Depth :
        (Free(visits, i) /\ visits[i].kind = "if" /\ visits[i].stage \in {"else", "elseif", "join"}
         /\ ~visits[i].body) => visits[i].sibling

\* ... and the flag of the level below for the branch just visited.
BranchFlagged ==
    (Depth > 0 /\ Free(visits, Depth) /\ Top.kind = "if" /\ Top.stage \in {"test", "join"} /\ ~Top.body)
        => returns[level + 1]

\* The inductive invariant of RejectedFunctionsFallThrough: wherever control does
\* not go on, a flag says so.
PInv ==
    /\ FInv /\ RejectedFunctionsFallThrough
    /\ ListsFlagged /\ AllReached /\ BranchAwaited /\ SiblingKept /\ BranchFlagged

\* The programs the error is right about: control gets behind every loop it gets to,
\* and every statement is one control gets to.
NoLoopNoDead == Construct \cap {"loop", "dead"} = {}

\* It only depends on the kinds of the visitors and of the functions.
LEMMA FreeSame ==
    ASSUME NEW v, NEW w, NEW i \in Nat,
           \A j \in 1..i : v[j].kind = w[j].kind /\ v[j].value = w[j].value
    PROVE  Free(v, i) <=> Free(w, i)
BY DEF Free

\* A block or an if belongs to the same function as what it stands in.
LEMMA FreeAbove ==
    ASSUME NEW v, NEW i \in Nat \ {0}, Free(v, i - 1), v[i].kind \in {"block", "if"}
    PROVE  Free(v, i)
<1>1. PICK f \in 1..(i - 1) : /\ v[f].kind = "fn" /\ v[f].value
                              /\ \A j \in (f + 1)..(i - 1) : v[j].kind \in {"block", "if"}
  BY DEF Free
<1>2. f \in 1..i /\ \A j \in (f + 1)..i : j \in (f + 1)..(i - 1) \/ j = i
  BY <1>1
<1> QED
  BY <1>1, <1>2 DEF Free

LEMMA PairHasTwo ==
    ASSUME NEW a, NEW b, a # b
    PROVE  Cardinality({a, b}) = 2
<1>1. IsFiniteSet({a}) /\ Cardinality({a}) = 1
  BY FS_Singleton
<1>2. b \notin {a}
  OBVIOUS
<1>3. Cardinality({a} \cup {b}) = Cardinality({a}) + 1
  BY <1>1, <1>2, FS_AddElement
<1>4. {a, b} = {a} \cup {b}
  OBVIOUS
<1> QED
  BY <1>1, <1>3, <1>4

\* A block of such a function lies at level 2 or below: its flag is handed on.
LEMMA BlockIsDeep ==
    ASSUME FInv, Depth > 0, Top.kind = "block", Free(visits, Depth)
    PROVE  level > 1
<1>1. Depth \in Nat
  BY TopType DEF FInv
<1>2. PICK f \in 1..Depth : visits[f].kind = "fn"
  BY DEF Free
<1>3. f # Depth /\ {f, Depth} \subseteq Scoped
  BY <1>1, <1>2 DEF Scoped, Top
<1>4. Cardinality({f, Depth}) = 2
  BY <1>3, PairHasTwo
<1>5. Cardinality({f, Depth}) <= Cardinality(Scoped)
  BY <1>3, ScopedFinite, FS_Subset DEF FInv
<1> QED
  BY <1>4, <1>5, ScopedFinite DEF FInv

\* A return statement finds the function it belongs to.
LEMMA ReturnsFromFn ==
    ASSUME FInv, Depth > 0, Free(visits, Depth)
    PROVE  visits[Innermost({"fn"})].value
<1>1. Depth \in Nat
  BY TopType DEF FInv
<1>2. PICK f \in 1..Depth : /\ visits[f].kind = "fn" /\ visits[f].value
                            /\ \A j \in (f + 1)..Depth : visits[j].kind \in {"block", "if"}
  BY DEF Free
<1> DEFINE S == {i \in 1..Depth : visits[i].kind \in {"fn"}}
<1>3. f \in S /\ \A j \in S : j <= f
  <2>1. \A j \in S : ~(j \in (f + 1)..Depth)
    BY <1>2
  <2> QED
    BY <1>1, <1>2, <2>1
<1>4. \A i \in S : (\A j \in S : j <= i) => i = f
  BY <1>1, <1>3
<1>5. f = CHOOSE i \in S : \A j \in S : j <= i
  <2> HIDE DEF S
  <2> QED
    BY <1>3, <1>4
<1>6. S # {}
  BY <1>3
<1>7. Innermost({"fn"}) = f
  BY <1>5, <1>6 DEF Innermost
<1> QED
  BY <1>2, <1>7

\* No break or continue stands in such a function.
LEMMA NoJump ==
    ASSUME FInv, InLoop
    PROVE  ~Free(visits, Depth)
<1> SUFFICES ASSUME Free(visits, Depth) PROVE FALSE
  OBVIOUS
<1>1. Depth \in Nat
  BY DEF FInv, FlowTypeOK, Depth
<1>2. PICK f \in 1..Depth : /\ visits[f].kind = "fn"
                            /\ \A j \in (f + 1)..Depth : visits[j].kind \in {"block", "if"}
  BY DEF Free
<1>3. PICK i \in 1..Depth : /\ visits[i].kind \in Loops
                            /\ \A j \in i..Depth : visits[j].kind # "fn"
  BY DEF InLoop
<1>4. f < i
  BY <1>1, <1>2, <1>3
<1>5. i \in (f + 1)..Depth
  BY <1>1, <1>4
<1> QED
  BY <1>2, <1>3, <1>5 DEF Loops

-----------------------------------------------------------------------------
(* Every visitor keeps the flags in step with where control goes. *)

\* A visitor that opens a scope: what was under way is as it was, and the new
\* visitors are where control arrives.
LEMMA OpenPInv ==
    ASSUME PInv, FInv', last' = last,
           Depth' \in Nat, Depth' > Depth, Top'.kind \in {"fn", "block"}, Top'.reach,
           \A i \in 1..Depth : visits'[i] = visits[i],
           \A i \in (Depth + 1)..Depth' :
              visits'[i].kind # "loop" /\ visits'[i].reach /\ visits'[i].stage = "body",
           Depth > 0 => \/ Top.kind \in {"fn", "block"} /\ Top.reach
                        \/ Top.kind = "if" /\ Top.stage \in {"else", "elseif"}
    PROVE  PInv'
<1>1. Depth \in Nat /\ (Depth > 0 => Depth \in 1..Depth)
  BY DEF PInv, FInv, FlowTypeOK, Depth
<1>2. \A i \in 1..Depth' : i \in 1..Depth \/ i \in (Depth + 1)..Depth'
  BY <1>1
<1>3. ListsFlagged' /\ BranchFlagged'
  BY DEF ListsFlagged, BranchFlagged
<1>4. AllReached'
  <2> SUFFICES ASSUME NEW i \in 1..Depth'
               PROVE  visits'[i].kind # "loop"
                      /\ ((i # Depth' \/ visits'[i].kind \notin {"fn", "block"}) => visits'[i].reach)
    BY DEF AllReached
  <2>1. CASE i \in 1..Depth
    BY <1>1, <2>1 DEF PInv, AllReached, Top
  <2> QED
    BY <1>2, <2>1
<1>5. BranchAwaited'
  <2> SUFFICES ASSUME NEW i \in 1..Depth', i # Depth', visits'[i].kind = "if"
               PROVE  visits'[i].stage \in {"body", "else", "elseif"}
    BY DEF BranchAwaited
  <2>1. CASE i \in 1..Depth
    BY <1>1, <2>1 DEF PInv, BranchAwaited, Top
  <2> QED
    BY <1>2, <2>1
<1>6. SiblingKept'
  <2> SUFFICES ASSUME NEW i \in 1..Depth', Free(visits', i), visits'[i].kind = "if",
                      visits'[i].stage \in {"else", "elseif", "join"}, ~visits'[i].body
               PROVE  visits'[i].sibling
    BY DEF SiblingKept
  <2>1. i \in 1..Depth
    BY <1>2
  <2>2. Free(visits, i)
    <3>1. \A j \in 1..i : visits'[j].kind = visits[j].kind /\ visits'[j].value = visits[j].value
      BY <1>1, <2>1
    <3> QED
      BY <2>1, <3>1, FreeSame
  <2> QED
    BY <2>1, <2>2 DEF PInv, SiblingKept
<1> QED
  BY <1>3, <1>4, <1>5, <1>6 DEF PInv, RejectedFunctionsFallThrough

\* A visitor that returns: if control does not go on behind it, the flag its
\* caller looks at is raised.
LEMMA ReturnPInv ==
    ASSUME PInv, FInv', RejectedFunctionsFallThrough', Depth > 0,
           NEW after \in BOOLEAN, Return(after),
           Depth > 1 /\ Free(visits, Depth - 1) /\ ~after =>
              /\ visits[Depth - 1].kind \in {"fn", "block"} => returns'[level']
              /\ visits[Depth - 1].kind = "if" => returns'[level' + 1]
    PROVE  PInv'
<1>1. Depth \in Nat /\ \A i \in 1..Depth : visits[i] \in VisitRecord
  BY TopType DEF PInv, FInv
<1> DEFINE n == Depth - 1
<1>2. n \in Nat /\ Depth = n + 1 /\ n < Depth
  BY <1>1
<1>3. /\ Depth' = n
      /\ \A i \in 1..n : /\ visits'[i].kind = visits[i].kind
                         /\ visits'[i].value = visits[i].value
                         /\ i # n => visits'[i] = visits[i]
                         /\ i = n => visits'[i] = Resumed(visits[i], after)
  BY ReturnShape DEF PInv, FInv
<1>4. \A i \in 1..n : Free(visits', i) <=> Free(visits, i)
  <2> SUFFICES ASSUME NEW i \in 1..n PROVE Free(visits', i) <=> Free(visits, i)
    OBVIOUS
  <2>1. \A j \in 1..i : visits'[j].kind = visits[j].kind /\ visits'[j].value = visits[j].value
    BY <1>2, <1>3
  <2> QED
    BY <1>2, <2>1, FreeSame
<1> DEFINE c == visits[n]
<1>5. n > 0 => /\ n \in 1..n /\ n \in 1..Depth /\ c \in VisitRecord
               /\ visits'[n] = Resumed(c, after) /\ Top' = Resumed(c, after)
  BY <1>1, <1>2, <1>3 DEF Top
<1>6. \A i \in 1..n : i \in 1..Depth /\ i # Depth
  BY <1>2
<1>7. n > 0 => /\ c.kind \notin {"fn", "block"} => Resumed(c, after).reach = c.reach
               /\ c.kind \in {"fn", "block"} => Resumed(c, after).reach = after
               /\ c.kind = "if" =>
                    /\ Resumed(c, after).stage = IF c.stage = "body" THEN "test" ELSE "join"
                    /\ Resumed(c, after).body = IF c.stage = "body" THEN after ELSE c.body \/ after
                    /\ Resumed(c, after).sibling = c.sibling
  BY <1>5 DEF Resumed, VisitRecord, Loops
<1> HIDE DEF n, c
<1>8. ListsFlagged'
  <2> SUFFICES ASSUME n > 0, Free(visits', n), Top'.kind \in {"fn", "block"}, ~Top'.reach
               PROVE  returns'[level']
    BY <1>3 DEF ListsFlagged
  <2>1. Free(visits, n) /\ c.kind \in {"fn", "block"} /\ ~after
    BY <1>3, <1>4, <1>5, <1>7 DEF c
  <2> QED
    BY <1>2, <2>1 DEF n, c
<1>9. BranchFlagged'
  <2> SUFFICES ASSUME n > 0, Free(visits', n), Top'.kind = "if",
                      Top'.stage \in {"test", "join"}, ~Top'.body
               PROVE  returns'[level' + 1]
    BY <1>3 DEF BranchFlagged
  <2>1. Free(visits, n) /\ c.kind = "if" /\ ~after
    BY <1>3, <1>4, <1>5, <1>7 DEF c
  <2> QED
    BY <1>2, <2>1 DEF n, c
<1>10. AllReached'
  <2> SUFFICES ASSUME NEW i \in 1..n
               PROVE  visits'[i].kind # "loop"
                      /\ ((i # n \/ visits'[i].kind \notin {"fn", "block"}) => visits'[i].reach)
    BY <1>3 DEF AllReached
  <2>1. visits[i].kind # "loop" /\ visits[i].reach
    BY <1>6 DEF PInv, AllReached
  <2> QED
    BY <1>3, <1>5, <1>7, <2>1 DEF c
<1>11. BranchAwaited'
  <2> SUFFICES ASSUME NEW i \in 1..n, i # n, visits'[i].kind = "if"
               PROVE  visits'[i].stage \in {"body", "else", "elseif"}
    BY <1>3 DEF BranchAwaited
  <2> QED
    BY <1>3, <1>6 DEF PInv, BranchAwaited
<1>12. SiblingKept'
  <2> SUFFICES ASSUME NEW i \in 1..n, Free(visits', i), visits'[i].kind = "if",
                      visits'[i].stage \in {"else", "elseif", "join"}, ~visits'[i].body
               PROVE  visits'[i].sibling
    BY <1>3 DEF SiblingKept
  <2>1. Free(visits, i) /\ visits[i].kind = "if" /\ visits[i].stage \in {"body", "else", "elseif"}
    BY <1>3, <1>4, <1>6 DEF PInv, BranchAwaited
  <2>2. CASE i # n
    BY <1>3, <1>6, <2>1, <2>2 DEF PInv, SiblingKept
  <2>3. CASE i = n
    <3>0. /\ n > 0 /\ visits'[n] = Resumed(c, after)
          /\ c.kind = "if" /\ c.stage \in {"body", "else", "elseif"}
      BY <1>2, <1>5, <2>1, <2>3 DEF c
    <3>1. c.stage \in {"else", "elseif"} /\ ~c.body
      <4>1. c.stage # "body"
        BY <1>7, <2>3, <3>0
      <4>2. Resumed(c, after).body = (c.body \/ after)
        BY <1>7, <3>0, <4>1
      <4>3. ~Resumed(c, after).body
        BY <2>3, <3>0
      <4> QED
        BY <3>0, <4>1, <4>2, <4>3
    <3>2. c.sibling
      BY <1>6, <2>1, <2>3, <3>1 DEF PInv, SiblingKept, c
    <3> QED
      BY <1>7, <2>3, <3>0, <3>2
  <2> QED
    BY <2>2, <2>3
<1> QED
  BY <1>8, <1>9, <1>10, <1>11, <1>12 DEF PInv

LEMMA EnterPInv ==
    ASSUME NoLoopNoDead, PInv,
           \/ \E value \in BOOLEAN : EnterFn(value)
           \/ EnterBlock \/ EnterIf \/ EnterElse
           \/ \E kind \in Loops : EnterLoop(kind)
    PROVE  PInv'
<1>1. FInv' /\ FlowTypeOK
  BY EnterFInv DEF PInv, FInv
<1>2. Depth \in Nat
  BY <1>1 DEF FlowTypeOK, Depth
<1>3. MayStart => Here = TRUE /\ (Depth > 0 => Top.kind \in {"fn", "block"} /\ Top.reach)
  <2>1. InList => Top.reach /\ Depth > 0 /\ Top.kind \in {"fn", "block"}
    BY DEF InList, NoLoopNoDead
  <2>2. Top.reach /\ Depth > 0 => Top.reach = TRUE
    BY <1>1, TopType
  <2> QED
    BY <1>2, <2>1, <2>2 DEF MayStart, Here
<1> DEFINE Ready == Depth > 0 => \/ Top.kind \in {"fn", "block"} /\ Top.reach
                                 \/ Top.kind = "if" /\ Top.stage \in {"else", "elseif"}
<1>4. ASSUME NEW kind \in {"fn", "block"}, NEW value \in BOOLEAN, NEW reach \in BOOLEAN,
             Ready, reach, last' = last, visits' = visits \o <<Visit(kind, reach, value)>>
      PROVE  PInv'
  <2> DEFINE b == Visit(kind, reach, value)
  <2>1. b \in VisitRecord /\ b.kind \in {"fn", "block"} /\ b.reach /\ b.stage = "body"
    BY <1>4, VisitType
  <2> HIDE DEF b
  <2>2. /\ Depth' = Depth + 1 /\ Top' = b
        /\ \A i \in 1..Depth : visits'[i] = visits[i]
        /\ visits'[Depth + 1] = b
    BY <1>1, <1>4, <2>1, PushOne DEF b
  <2>3. \A i \in (Depth + 1)..Depth' : visits'[i] = b
    <3>1. \A i \in (Depth + 1)..Depth' : i = Depth + 1
      BY <1>2, <2>2
    <3> QED
      BY <2>2, <3>1
  <2>4. Depth' \in Nat /\ Depth' > Depth
    BY <1>2, <2>2
  <2> QED
    BY <1>1, <1>4, <2>1, <2>2, <2>3, <2>4, OpenPInv
<1>5. ASSUME NEW kind \in {"if"} \cup Loops, kind # "loop", NEW reach \in BOOLEAN,
             Ready, reach, last' = last,
             visits' = visits \o <<Visit(kind, reach, FALSE), Visit("block", reach, FALSE)>>
      PROVE  PInv'
  <2> DEFINE a == Visit(kind, reach, FALSE)
             b == Visit("block", reach, FALSE)
  <2>1. /\ b \in VisitRecord /\ b.kind = "block" /\ b.reach /\ b.stage = "body"
        /\ a \in VisitRecord /\ a.kind = kind /\ a.reach /\ a.stage = "body"
    BY <1>5, VisitType
  <2> HIDE DEF a, b
  <2>2. /\ Depth' = Depth + 2 /\ Top' = b
        /\ \A i \in 1..Depth : visits'[i] = visits[i]
        /\ visits'[Depth + 1] = a /\ visits'[Depth + 2] = b
    BY <1>1, <1>5, <2>1, PushTwo DEF a, b
  <2>3. \A i \in (Depth + 1)..Depth' : visits'[i] = a \/ visits'[i] = b
    <3>1. \A i \in (Depth + 1)..Depth' : i = Depth + 1 \/ i = Depth + 2
      BY <1>2, <2>2
    <3> QED
      BY <2>2, <3>1
  <2>4. Depth' \in Nat /\ Depth' > Depth
    BY <1>2, <2>2
  <2>5. \A i \in (Depth + 1)..Depth' :
           visits'[i].kind # "loop" /\ visits'[i].reach /\ visits'[i].stage = "body"
    BY <1>5, <2>1, <2>3
  <2> QED
    BY <1>1, <1>5, <2>1, <2>2, <2>4, <2>5, OpenPInv
<1>6. ASSUME NEW value \in BOOLEAN, EnterFn(value) PROVE PInv'
  <2>1. MayStart /\ last' = last /\ visits' = visits \o <<Visit("fn", TRUE, value)>>
    BY <1>6 DEF EnterFn, Open, MayStart
  <2> QED
    BY <1>3, <1>4, <2>1
<1>7. CASE EnterBlock
  <2>1. MayStart /\ last' = last /\ visits' = visits \o <<Visit("block", Here, FALSE)>>
    BY <1>7 DEF EnterBlock, Open
  <2>2. visits' = visits \o <<Visit("block", TRUE, FALSE)>> /\ Ready
    BY <1>3, <2>1
  <2> QED
    BY <1>4, <2>1, <2>2
<1>8. ASSUME NEW kind \in {"if"} \cup Loops, kind # "loop", MayStart, last' = last,
             Open(<<Visit(kind, Here, FALSE), Visit("block", Here, FALSE)>>)
      PROVE  PInv'
  <2>1. Here = TRUE /\ Ready
    BY <1>3, <1>8
  <2>2. visits' = visits \o <<Visit(kind, TRUE, FALSE), Visit("block", TRUE, FALSE)>>
    BY <1>8, <2>1 DEF Open
  <2> QED
    BY <1>5, <1>8, <2>1, <2>2
<1>9. CASE EnterIf
  BY <1>8, <1>9 DEF EnterIf, MayStart
<1>10. ASSUME NEW kind \in Loops, EnterLoop(kind) PROVE PInv'
  <2>1. kind # "loop"
    BY <1>10 DEF EnterLoop, NoLoopNoDead
  <2> QED
    BY <1>8, <1>10, <2>1 DEF EnterLoop
<1>11. CASE EnterElse
  <2>1. Depth > 0 /\ Top.kind = "if" /\ last' = last
    BY <1>11 DEF EnterElse
  <2>2. Top.reach \in BOOLEAN /\ Top.reach
    BY <1>1, <1>2, <2>1, TopType DEF PInv, AllReached, Top
  <2>3. CASE Top.stage = "else" /\ Open(<<Visit("block", Top.reach, FALSE)>>)
    <3>1. visits' = visits \o <<Visit("block", Top.reach, FALSE)>> /\ Ready
      BY <2>1, <2>3 DEF Open
    <3> QED
      BY <1>4, <2>1, <2>2, <3>1
  <2>4. CASE Top.stage = "elseif"
             /\ Open(<<Visit("if", Top.reach, FALSE), Visit("block", Top.reach, FALSE)>>)
    <3>1. visits' = visits \o <<Visit("if", Top.reach, FALSE), Visit("block", Top.reach, FALSE)>>
          /\ Ready
      BY <2>1, <2>4 DEF Open
    <3> QED
      BY <1>5, <2>1, <2>2, <3>1
  <2> QED
    BY <1>11, <2>3, <2>4 DEF EnterElse
<1> QED
  BY <1>6, <1>7, <1>9, <1>10, <1>11

\* A function, a block, an if or a loop ends.
LEMMA LeavePInv ==
    ASSUME PInv, LeaveFn \/ BlockEnds \/ LeaveIf \/ LeaveLoop
    PROVE  PInv'
<1>1. FInv' /\ FlowTypeOK /\ FInv
  BY LeaveFInv DEF PInv, FInv
<1>2. Depth > 0
  BY DEF LeaveFn, BlockEnds, LeaveIf, LeaveLoop
<1>3. /\ Depth \in Nat \ {0} /\ Top \in VisitRecord
      /\ Top.reach \in BOOLEAN /\ Top.body \in BOOLEAN
      /\ \A i \in 1..Depth : visits[i].reach \in BOOLEAN
      /\ Depth > 1 => Depth - 1 \in 1..Depth /\ Depth - 1 # Depth
  BY <1>1, <1>2, TopType
<1>4. level \in Level /\ level \in Nat /\ returns \in [Level -> BOOLEAN]
  BY <1>1, ScopeTableAssumption DEF FInv, IInv, TypeOK, Level
<1>5. CASE LeaveFn
  <2>1. Return(IF Depth = 1 THEN TRUE ELSE visits[Depth - 1].reach) /\ Top.kind = "fn"
    BY <1>5 DEF LeaveFn
  <2>2. (IF Depth = 1 THEN TRUE ELSE visits[Depth - 1].reach) = TRUE
    <3>1. Depth > 1 => visits[Depth - 1].reach = TRUE
      BY <1>3 DEF PInv, AllReached
    <3> QED
      BY <1>3, <3>1
  <2>3. Return(TRUE)
    BY <2>1, <2>2
  <2>4. RejectedFunctionsFallThrough'
    <3> SUFFICES ASSUME Top.value, ~returns[level] PROVE Top.reach
      BY <1>5 DEF LeaveFn, RejectedFunctionsFallThrough
    <3>1. Free(visits, Depth)
      BY <1>3, <2>1 DEF Free, Top
    <3> QED
      BY <1>2, <2>1, <3>1 DEF PInv, ListsFlagged
  <2> QED
    BY <1>1, <1>2, <2>3, <2>4, ReturnPInv
<1>6. CASE BlockEnds
  <2>1. /\ Return(Top.reach) /\ Top.kind = "block" /\ last' = last
        /\ level' = level - 1
        /\ returns' = [returns EXCEPT ![level - 1] = returns[level - 1] \/ (returns[level] /\ level > 1)]
        /\ level > 0
    BY <1>6 DEF BlockEnds, LeaveBlock, GoUpWith
  <2>2. ASSUME Depth > 1, Free(visits, Depth - 1), ~Top.reach
        PROVE  returns'[level'] /\ returns'[level' + 1]
    <3>1. Free(visits, Depth)
      BY <1>3, <2>1, <2>2, FreeAbove DEF Top
    <3>2. level > 1 /\ returns[level]
      BY <1>1, <1>2, <2>1, <2>2, <3>1, BlockIsDeep DEF PInv, ListsFlagged
    <3>3. level - 1 \in Level /\ level - 1 # level /\ level' + 1 = level
      BY <1>4, <2>1, <3>2, ScopeTableAssumption DEF Level
    <3>4. returns'[level - 1] = (returns[level - 1] \/ (returns[level] /\ level > 1))
      BY <1>4, <2>1, <3>3
    <3>5. returns'[level] = returns[level]
      BY <1>4, <2>1, <3>3
    <3> QED
      BY <2>1, <3>2, <3>3, <3>4, <3>5
  <2>3. RejectedFunctionsFallThrough'
    BY <2>1 DEF PInv, RejectedFunctionsFallThrough
  <2> QED
    BY <1>1, <1>2, <1>3, <2>1, <2>2, <2>3, ReturnPInv
<1>7. CASE LeaveIf
  <2>1. Top.kind = "if" /\ last' = last
    BY <1>7 DEF LeaveIf
  <2>2. Top.reach
    BY <1>3, <2>1 DEF PInv, AllReached, Top
  <2>3. RejectedFunctionsFallThrough'
    BY <2>1 DEF PInv, RejectedFunctionsFallThrough
  <2>4. CASE Top.stage = "none" /\ Return(Top.reach)
    BY <1>1, <1>2, <1>3, <2>2, <2>3, <2>4, ReturnPInv
  <2>5. CASE /\ Top.stage = "join" /\ Return(Top.body)
             /\ IF Top.sibling /\ returns[level + 1] THEN SetReturn ELSE UNCHANGED vars
    <3>1. ASSUME Depth > 1, Free(visits, Depth - 1), ~Top.body
          PROVE  returns'[level'] /\ returns'[level' + 1]
      <4>1. Free(visits, Depth)
        BY <1>3, <2>1, <3>1, FreeAbove DEF Top
      <4>2. returns[level + 1]
        BY <1>2, <2>1, <2>5, <3>1, <4>1 DEF PInv, BranchFlagged
      <4>3. Top.sibling
        BY <1>3, <2>1, <2>5, <3>1, <4>1 DEF PInv, SiblingKept, Top
      <4>4. SetReturn
        BY <2>5, <4>2, <4>3
      <4>5. level' = level /\ returns' = [returns EXCEPT ![level] = TRUE]
        BY <4>4 DEF SetReturn
      <4>6. level + 1 \in Level /\ level + 1 # level
        BY <1>1, <1>4, <1>2, <2>1, <2>5, ScopeTableAssumption DEF FInv, BelowAllocated, Level
      <4>7. returns'[level + 1] = returns[level + 1] /\ returns'[level] = TRUE
        BY <1>4, <4>5, <4>6
      <4> QED
        BY <4>2, <4>5, <4>7
    <3> QED
      BY <1>1, <1>2, <1>3, <2>3, <2>5, <3>1, ReturnPInv
  <2> QED
    BY <1>7, <2>4, <2>5 DEF LeaveIf
<1>8. CASE LeaveLoop
  <2>1. Top.kind \in Loops /\ last' = last
    BY <1>8 DEF LeaveLoop
  <2>2. Top.kind # "loop" /\ Top.reach
    BY <1>3, <2>1 DEF PInv, AllReached, Top, Loops
  <2>3. Return(Top.reach)
    BY <1>8, <2>2 DEF LeaveLoop
  <2>4. RejectedFunctionsFallThrough'
    BY <2>1 DEF PInv, RejectedFunctionsFallThrough
  <2> QED
    BY <1>1, <1>2, <1>3, <2>2, <2>3, <2>4, ReturnPInv
<1> QED
  BY <1>5, <1>6, <1>7, <1>8

\* A visitor goes on: only what it knows of its own statement changes.
LEMMA StayPInv ==
    ASSUME PInv, FInv', RejectedFunctionsFallThrough', Depth > 0, Depth' = Depth,
           \A i \in 1..Depth : visits'[i].kind = visits[i].kind /\ visits'[i].value = visits[i].value,
           \A i \in 1..Depth : i # Depth =>
              /\ visits'[i].stage = visits[i].stage /\ visits'[i].body = visits[i].body
              /\ visits'[i].sibling = visits[i].sibling /\ visits'[i].reach = visits[i].reach,
           \/ /\ Top.kind \in {"fn", "block"}
              /\ Free(visits, Depth) => returns'[level']
           \/ /\ Top.kind = "if" /\ Top'.reach = Top.reach /\ Top'.stage # "test" /\ Top'.stage # "join"
              /\ Free(visits, Depth) /\ ~Top'.body => Top'.sibling
    PROVE  PInv'
<1>1. Depth \in Nat /\ Depth \in 1..Depth
  BY TopType DEF PInv, FInv
<1>2. Top'.kind = Top.kind /\ Top = visits[Depth] /\ Top' = visits'[Depth]
  BY <1>1 DEF Top
<1>3. ASSUME NEW i \in 1..Depth PROVE Free(visits', i) <=> Free(visits, i)
  <2>1. \A j \in 1..i : visits'[j].kind = visits[j].kind /\ visits'[j].value = visits[j].value
    BY <1>1
  <2> QED
    BY <1>1, <2>1, FreeSame
<1>4. ListsFlagged' /\ BranchFlagged'
  <2>1. Free(visits', Depth) <=> Free(visits, Depth)
    BY <1>1, <1>3
  <2> QED
    BY <1>2, <2>1 DEF ListsFlagged, BranchFlagged
<1>5. AllReached' /\ BranchAwaited'
  BY <1>2 DEF PInv, AllReached, BranchAwaited
<1>6. SiblingKept'
  <2> SUFFICES ASSUME NEW i \in 1..Depth, Free(visits', i), visits'[i].kind = "if",
                      visits'[i].stage \in {"else", "elseif", "join"}, ~visits'[i].body
               PROVE  visits'[i].sibling
    BY DEF SiblingKept
  <2>1. Free(visits, i) /\ visits[i].kind = "if"
    BY <1>3
  <2>2. CASE i = Depth
    BY <1>2, <2>1, <2>2
  <2>3. CASE i # Depth
    BY <2>1, <2>3 DEF PInv, SiblingKept
  <2> QED
    BY <2>2, <2>3
<1> QED
  BY <1>4, <1>5, <1>6 DEF PInv

LEMMA StayPInvSteps ==
    ASSUME PInv, VisitReturn \/ VisitBreak \/ VisitContinue \/ TestIf
    PROVE  PInv'
<1>1. FInv' /\ FInv /\ FlowTypeOK /\ Depth \in Nat
  BY StaySteps DEF PInv, FInv, FlowTypeOK, Depth
<1>2. RejectedFunctionsFallThrough'
  <2>1. last' = last
    BY DEF VisitReturn, VisitBreak, VisitContinue, TestIf
  <2> QED
    BY <2>1 DEF PInv, RejectedFunctionsFallThrough
<1>3. CASE VisitReturn
  <2>1. Depth > 0 /\ Top.kind \in {"fn", "block"} /\ Stops
    BY <1>3 DEF VisitReturn, InList
  <2>2. ASSUME Free(visits, Depth) PROVE returns'[level']
    <3>1. SetReturn
      BY <1>1, <1>3, <2>1, <2>2, ReturnsFromFn DEF VisitReturn
    <3>2. level \in Level /\ returns \in [Level -> BOOLEAN]
      BY <1>1 DEF FInv, IInv, TypeOK
    <3> QED
      BY <3>1, <3>2 DEF SetReturn
  <2>3. /\ Depth' = Depth
        /\ \A i \in 1..Depth : i # Depth => visits'[i] = visits[i]
        /\ \A i \in 1..Depth : visits'[i].kind = visits[i].kind /\ visits'[i].value = visits[i].value
    BY <1>1, <2>1, StopsShape DEF Top
  <2> QED
    BY <1>1, <1>2, <2>1, <2>2, <2>3, StayPInv
<1>4. CASE VisitContinue
  <2>1. Depth > 0 /\ Top.kind \in {"fn", "block"} /\ Stops /\ ~Free(visits, Depth)
    BY <1>1, <1>4, NoJump DEF VisitContinue, InList
  <2>2. /\ Depth' = Depth
        /\ \A i \in 1..Depth : i # Depth => visits'[i] = visits[i]
        /\ \A i \in 1..Depth : visits'[i].kind = visits[i].kind /\ visits'[i].value = visits[i].value
    BY <1>1, <2>1, StopsShape DEF Top
  <2> QED
    BY <1>1, <1>2, <2>1, <2>2, StayPInv
<1>5. CASE VisitBreak
  <2>1. Depth > 0 /\ Top.kind \in {"fn", "block"} /\ ~Free(visits, Depth)
    BY <1>1, <1>5, NoJump DEF VisitBreak, InList
  <2> QED
    BY <1>1, <1>2, <1>5, <2>1, BreakShape, StayPInv
<1>6. CASE TestIf
  <2>1. /\ Depth > 0 /\ Top.kind = "if" /\ Top.stage = "test" /\ Depth' = Depth
        /\ \A i \in 1..Depth : i # Depth => visits'[i] = visits[i]
        /\ Top'.kind = "if" /\ Top'.reach = Top.reach /\ Top'.body = Top.body
        /\ Top'.value = Top.value /\ Top'.sibling = returns[level + 1]
        /\ Top'.stage # "test" /\ Top'.stage # "join"
    BY <1>1, <1>6, TestShape
  <2>2. \A i \in 1..Depth : visits'[i].kind = visits[i].kind /\ visits'[i].value = visits[i].value
    BY <2>1 DEF Top
  <2>3. ASSUME Free(visits, Depth), ~Top'.body PROVE Top'.sibling
    BY <2>1, <2>3 DEF PInv, BranchFlagged
  <2> QED
    BY <1>1, <1>2, <2>1, <2>2, <2>3, StayPInv
<1> QED
  BY <1>3, <1>4, <1>5, <1>6

LEMMA InitPInv == FlowInit => PInv
<1> SUFFICES ASSUME FlowInit PROVE PInv
  OBVIOUS
<1>1. Depth = 0 /\ 1..Depth = {}
  BY DEF FlowInit, Depth
<1>2. RejectedFunctionsFallThrough
  BY DEF FlowInit, RejectedFunctionsFallThrough
<1> QED
  BY <1>1, <1>2, InitFInv
     DEF PInv, ListsFlagged, AllReached, BranchAwaited, SiblingKept, BranchFlagged

LEMMA NextPInv ==
    ASSUME NoLoopNoDead, PInv, [FlowNext]_flowVars
    PROVE  PInv'
<1>1. CASE StartAnalysis \/ UNCHANGED flowVars
  <2>1. FInv'
    BY NextFInv DEF PInv
  <2>2. visits' = visits /\ last' = last /\ level' = level /\ returns' = returns
    BY <1>1 DEF StartAnalysis, Unlock, flowVars, vars
  <2> QED
    BY <2>1, <2>2 DEF PInv, RejectedFunctionsFallThrough, ListsFlagged, AllReached,
                      BranchAwaited, SiblingKept, BranchFlagged, Depth, Top
<1> QED
  BY <1>1, EnterPInv, LeavePInv, StayPInvSteps DEF FlowNext

\* "Not all paths return a value" has no false alarms, however deep the nesting, as
\* long as a program has no `loop' and no statement behind a return or a jump.
THEOREM NoFalseAlarms ==
    ASSUME NoLoopNoDead
    PROVE  FlowSpec => []RejectedFunctionsFallThrough
<1>1. PInv /\ [FlowNext]_flowVars => PInv'
  BY NextPInv
<1>2. PInv => RejectedFunctionsFallThrough
  BY DEF PInv
<1> QED
  BY <1>1, <1>2, InitPInv, PTL DEF FlowSpec
=============================================================================
