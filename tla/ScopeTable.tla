----------------------------- MODULE ScopeTable -----------------------------
(***************************************************************************)
(* The symbol table of one module (class ScopeTable, scope_table.hpp and   *)
(* scope_table.cpp) together with the list of global symbols it shares     *)
(* with the tables of the other modules (module_manager.cpp).              *)
(*                                                                         *)
(* The table is a vector of levels. Opening a scope moves `level' one down *)
(* and closing it moves it back up; the entry that is left is emptied then *)
(* and reused by the next scope opened at that level. Only the return flag *)
(* of an entry outlives its scope: the construct above reads it.           *)
(*                                                                         *)
(* The actions are the operations with the arguments their callers pass:   *)
(* the parser (AST) declares at level 0 while the table is locked at 0,    *)
(* then the analyzer opens and closes scopes, declares, binds and imports. *)
(***************************************************************************)
EXTENDS Naturals, Sequences

CONSTANTS
    Name,            \* identifiers
    Node,            \* AST nodes a name can stand for
    File,            \* source file ids, one per module
    Self,            \* the id of the module this table belongs to
    None,            \* no node
    InitialLevels,   \* levels the constructor allocates (6 in the code)
    MaxLevel,        \* bound on the nesting explored (2^16 - 2 in the code)
    MaxGlobals       \* bound on the global symbols explored

ASSUME ScopeTableAssumption ==
    /\ None \notin Node
    /\ Self \in File
    /\ InitialLevels \in Nat \ {0}
    /\ MaxLevel \in Nat
    /\ MaxGlobals \in Nat

VARIABLES
    level,     \* m_level
    size,      \* m_table.size()
    scope,     \* m_table[l].scope, by level
    imports,   \* m_table[l].imports, by level
    returns,   \* whether m_table[l].flags has HasReturn, by level
    locked,    \* m_locked_level
    globals    \* g_global_symbols, in order of declaration

vars == <<level, size, scope, imports, returns, locked, globals>>

Level == 0..MaxLevel

\* UNLOCKED_LEVEL: the largest value of the level type, which no level takes.
Unlocked == MaxLevel + 1

Scope == [Name -> Node \cup {None}]
EmptyScope == [n \in Name |-> None]

\* GlobalSymbol: `always' is the availability Always of the builtin types,
\* whose file id the code leaves unset.
GlobalSymbol == [name : Name, node : Node, file : File, always : BOOLEAN]

\* A fault: insertion that overwrites (operator[] in place of emplace).
EmplaceOver(s, b) == [n \in Name |-> IF b[n] = None THEN s[n] ELSE b[n]]

\* HashMap::emplace, for each binding of b: a name already there keeps its node.
Emplace(s, b) == [n \in Name |-> IF s[n] = None THEN b[n] ELSE s[n]]

Binding(n, x) == [EmptyScope EXCEPT ![n] = x]

-----------------------------------------------------------------------------
(* Lookup *)

\* The levels find_local_symbol scans: from the module's own scope inwards.
OpenLevels == 0..level

\* The open levels that declare n.
Declaring(n) == {l \in OpenLevels : scope[l][n] # None}

\* A fault: the scan ends before the current level.
FindLocalAbove(n) ==
    LET above == {l \in Declaring(n) : l < level}
    IN  IF above = {} THEN None
        ELSE scope[CHOOSE l \in above : \A k \in above : l <= k][n]

\* find_local_symbol stops at the first level it meets: the OUTERMOST.
FindLocal(n) ==
    IF Declaring(n) = {} THEN None
    ELSE scope[CHOOSE l \in Declaring(n) : \A k \in Declaring(n) : l <= k][n]

\* m_modules_found after a scan that met no declaration.
ModulesFound == UNION {imports[l] : l \in OpenLevels}

\* The global symbols named n that this table may use.
Visible(n) ==
    {i \in DOMAIN globals : /\ globals[i].name = n
                            /\ globals[i].always \/ globals[i].file \in ModulesFound}

\* find_symbol: a local declaration, or else the first visible global symbol.
Find(n) ==
    IF FindLocal(n) # None THEN FindLocal(n)
    ELSE IF Visible(n) = {} THEN None
    ELSE globals[CHOOSE i \in Visible(n) : \A j \in Visible(n) : i <= j].node

-----------------------------------------------------------------------------
(* Operations *)

Init ==
    /\ level = 0
    /\ size = InitialLevels
    /\ scope = [l \in Level |-> EmptyScope]
    /\ imports = [l \in Level |-> {}]
    /\ returns = [l \in Level |-> FALSE]
    /\ locked = 0
    /\ globals \in {<<>>} \cup {<<g>> : g \in [name : Name, node : Node,
                                              file : {Self}, always : {TRUE}]}

\* The number of levels once get_scope(l) has been called: a level that is not
\* there makes it append l more.
GrownTo(l) == IF l >= size THEN size + l ELSE size

\* The lock drops what is declared below the locked level.
Dropped == level > locked /\ locked # Unlocked

\* add_to_scope(n, x, public) at the current level. A public symbol becomes
\* global whether or not the name was free.
AddToScope(n, x, public) ==
    /\ \/ Dropped /\ UNCHANGED <<scope, globals>>
       \/ /\ ~Dropped
          /\ scope' = [scope EXCEPT ![level] = Emplace(@, Binding(n, x))]
          /\ \/ /\ public /\ level = 0
                /\ Len(globals) < MaxGlobals
                /\ globals' = Append(globals,
                     [name |-> n, node |-> x, file |-> Self, always |-> FALSE])
             \/ ~(public /\ level = 0) /\ UNCHANGED globals
    /\ UNCHANGED <<level, size, imports, returns, locked>>

\* get_or_add_symbol<T>(n, public): the node already there, whatever it is, or
\* a new node x, declared.
GetOrAddSymbol(n, x, public) ==
    /\ scope[level][n] = None
    /\ AddToScope(n, x, public)

\* AST::parse hands the table over to the analyzer.
Unlock ==
    /\ locked' = Unlocked
    /\ UNCHANGED <<level, size, scope, imports, returns, globals>>

AddImport(f) ==
    /\ imports' = [imports EXCEPT ![level] = @ \cup {f}]
    /\ UNCHANGED <<level, size, scope, returns, locked, globals>>

\* A fault: go_down grows the table one level late.
SizeBelowLate(b) == IF level + 1 > size THEN size + 1 ELSE size

\* The number of levels once a scope with bindings b is open one level down.
SizeBelow(b) ==
    LET bound == IF b = EmptyScope THEN size ELSE GrownTo(level + 1)
    IN  IF level + 1 >= bound THEN bound + 1 ELSE bound

\* A loop first binds its variables one level below, and its body then opens a
\* scope there (add_to_scope with an explicit level, then go_down).
GoDownWith(b) ==
    /\ level < MaxLevel
    /\ level' = level + 1
    /\ size' = SizeBelow(b)
    /\ scope' = [scope EXCEPT ![level + 1] = Emplace(@, b)]
    /\ returns' = [returns EXCEPT ![level + 1] = FALSE]
    /\ UNCHANGED <<imports, locked, globals>>

\* Faults of go_up: no test for the module's scope; clearing the level arrived at;
\* clearing the flag with the rest of the entry.
GoUpUntested(above) ==
    /\ level' = level - 1
    /\ UNCHANGED <<size, scope, imports, returns, locked, globals>>

GoUpClearingUpper(above) ==
    /\ level > 0
    /\ level' = level - 1
    /\ scope' = [scope EXCEPT ![level - 1] = EmptyScope]
    /\ UNCHANGED <<size, imports, returns, locked, globals>>

GoUpClearingFlags(above) ==
    /\ level > 0
    /\ level' = level - 1
    /\ scope' = [scope EXCEPT ![level] = EmptyScope]
    /\ imports' = [imports EXCEPT ![level] = {}]
    /\ returns' = [returns EXCEPT ![level] = FALSE]
    /\ UNCHANGED <<size, locked, globals>>

\* go_up, after a closing construct has raised the flag of the scope above or not.
\* clear_level empties the current level and leaves its flag.
GoUpWith(above) ==
    /\ level > 0
    /\ level' = level - 1
    /\ scope' = [scope EXCEPT ![level] = EmptyScope]
    /\ imports' = [imports EXCEPT ![level] = {}]
    /\ returns' = [returns EXCEPT ![level - 1] = @ \/ above]
    /\ UNCHANGED <<size, locked, globals>>

\* A function or an impl closes its scope.
GoUp == GoUpWith(FALSE)

\* A block hands its flag to the enclosing scope, unless that is the module's.
LeaveBlock == GoUpWith(returns[level] /\ level > 1)

\* A return statement, or an if both of whose branches return.
SetReturn ==
    /\ returns' = [returns EXCEPT ![level] = TRUE]
    /\ UNCHANGED <<level, size, scope, imports, locked, globals>>

\* After the body of an if: the flag is decided again with the else branch.
ClearReturn ==
    /\ returns' = [returns EXCEPT ![level] = FALSE]
    /\ UNCHANGED <<level, size, scope, imports, locked, globals>>

\* A fault: the newest declaration of a name comes first.
DeclareInFront(n, x, f) ==
    /\ Len(globals) < MaxGlobals
    /\ globals' = <<[name |-> n, node |-> x, file |-> f, always |-> FALSE]>> \o globals
    /\ UNCHANGED <<level, size, scope, imports, returns, locked>>

\* Another module declares a global symbol: it is parsed and analysed while
\* this one is in the middle of an import.
DeclareElsewhere(n, x, f) ==
    /\ Len(globals) < MaxGlobals
    /\ globals' = Append(globals, [name |-> n, node |-> x, file |-> f, always |-> FALSE])
    /\ UNCHANGED <<level, size, scope, imports, returns, locked>>

-----------------------------------------------------------------------------

Parse ==
    /\ locked # Unlocked
    /\ \/ \E n \in Name, x \in Node, public \in BOOLEAN :
             AddToScope(n, x, public) \/ GetOrAddSymbol(n, x, public)
       \/ Unlock

Analyze ==
    /\ locked = Unlocked
    /\ \/ \E n \in Name, x \in Node, public \in BOOLEAN : AddToScope(n, x, public)
       \/ \E f \in File : AddImport(f)
       \/ \E b \in Scope : GoDownWith(b)
       \/ GoUp
       \/ LeaveBlock
       \/ level > 0 /\ SetReturn
       \/ level > 0 /\ ClearReturn
       \/ \E n \in Name, x \in Node, f \in File \ {Self} : DeclareElsewhere(n, x, f)

Next == Parse \/ Analyze

Spec == Init /\ [][Next]_vars
-----------------------------------------------------------------------------
(* Correctness *)

\* Every variable of the table has its type; the table never loses a level it
\* has allocated and never refers to a level past the last one bound.
TypeOK ==
    /\ level \in Level
    /\ size \in Nat
    /\ scope \in [Level -> Scope]
    /\ imports \in [Level -> SUBSET File]
    /\ returns \in [Level -> BOOLEAN]
    /\ locked \in {0, Unlocked}
    /\ globals \in Seq(GlobalSymbol)

\* Entries below the current level hold no declaration and no import: a scope
\* opened there starts empty although go_down does not clear it. It is what
\* clear_level, called by go_up for the level that is left, has to ensure.
BelowIsClean ==
    \A l \in Level : l > level => scope[l] = EmptyScope /\ imports[l] = {}

\* m_table[m_level], which every operation indexes without a check, exists,
\* whether the table grew in go_down or in get_scope(level).
LevelAllocated == level < size

\* The stack of lexical frames the open levels stand for, outermost first.
Stack == [i \in 1..(level + 1) |-> [names |-> scope[i - 1], opened |-> imports[i - 1]]]

Frames == INSTANCE LexicalScopes WITH frames <- Stack

\* The table implements that stack: what a closed scope declared
\* or imported is gone, what the enclosing scopes hold is untouched ("its
\* imported symbols will only be accessible within that scope", readme.md:698).
ImplementsLexicalScopes == Frames!Spec

\* A name that only one open scope declares keeps its meaning for as long as that scope
\* is open and no other one declares the name too, whatever scopes are opened and closed in
\* it, and whatever is declared, bound by a loop or imported meanwhile: a second declaration
\* in the same scope included, to which overloads of a function are added (emplace,
\* get_or_add_symbol, find_local_symbol).
SoleDeclarationStays ==
    \A n \in Name : \A l \in Declaring(n) :
        Declaring(n) = {l} /\ l <= level' /\ Declaring(n)' \subseteq {l}
        => FindLocal(n)' = FindLocal(n)

ResolutionStable == [][SoleDeclarationStays]_vars

\* Loading another module never changes what a name that already resolves stands
\* for, though find_symbol takes the first visible of many global symbols.
LoadingKeepsMeaning ==
    [][UNCHANGED <<level, scope, imports>> =>
          \A n \in Name : Find(n) # None => Find(n)' = Find(n)]_vars

\* The return flag of a level is "only wiped when this scope is started again so
\* it can be read by the upper scope" (scope_table.hpp:21): leaving a scope keeps
\* its flag. Otherwise only the if statement of the level itself lowers it.
FlagOutlivesScope ==
    [][\A l \in Level : (returns[l] /\ ~returns'[l]) =>
          \/ level' = l /\ level = l - 1
          \/ level' = l /\ level = l /\ l > 0]_vars
=============================================================================
