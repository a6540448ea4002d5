------------------------------- MODULE Modules -------------------------------
(***************************************************************************)
(* How the modules of a program are found, compiled and bound to each      *)
(* other: get_module and the table of global symbols (module_manager.cpp), *)
(* the visitor of an import and the resolution of a called name            *)
(* (analyzer.cpp), and the names functions are emitted under (type.cpp).   *)
(*                                                                         *)
(* get_module is recursive: it parses a file, analyses it, and each import *)
(* met by the analysis calls get_module again before the next item is      *)
(* looked at. A module is registered before it is parsed, so a cycle of    *)
(* imports ends at a module still under way on `stack'. Once analysed, a   *)
(* module is emitted as a whole.                                           *)
(*                                                                         *)
(* A file is a sequence of items: imports and functions, each function     *)
(* calling at most one other. Scopes inside a module are the subject of    *)
(* ScopeTable; here a module's table is at level 0. Functions are neither  *)
(* extern nor called main, the two whose emitted name is not mangled.      *)
(***************************************************************************)
EXTENDS Naturals, Sequences

CONSTANTS
    Path,      \* paths named by imports
    MainPath,  \* the path given on the command line
    Root,      \* number of include paths
    Name,      \* identifiers
    None,      \* no identifier
    Program,   \* the programs considered: from <<root, path>> to the items of the file
    Debug      \* built without NDEBUG: the LLVM verifier runs on every module

\* FnType: with `via' the alias in front of the name it calls, or None.
Fn(name, private, via, callee) ==
    [kind |-> "fn", name |-> name, private |-> private, via |-> via, of |-> callee, path |-> MainPath]

\* ImportStmt: `import p', `import name = p', `import p : name = of'.
Import(kind, name, of, path) ==
    [kind |-> kind, name |-> name, private |-> TRUE, via |-> None, of |-> of, path |-> path]

\* What the parser makes of an item of a file.
Functions ==
    {Fn(name, private, via, callee) :
        name \in Name, private \in BOOLEAN, via \in Name \cup {None}, callee \in Name \cup {None}}
ImportStmts ==
    {Import("open", None, None, p) : p \in Path}
    \cup {Import("as", name, None, p) : name \in Name, p \in Path}
    \cup {Import("only", name, of, p) : name \in Name, of \in Name, p \in Path}

\* The functions of a file have different names: the overloads of one name are the
\* subject of Calls.
IsFile(items) ==
    /\ items \in Seq(Functions \cup ImportStmts)
    /\ \A k, l \in DOMAIN items :
         items[k].kind = "fn" /\ items[l].kind = "fn" /\ items[k].name = items[l].name => k = l

ASSUME ModulesAssumption ==
    /\ MainPath \in Path
    /\ Root \in Nat \ {0}
    /\ None \notin Name
    /\ Debug \in BOOLEAN

ASSUME ProgramAssumption == \A files \in Program : \A file \in DOMAIN files : IsFile(files[file])

VARIABLES
    program,   \* the files on disk
    modules,   \* g_modules, by file id: file, next item to analyse, table at level 0
    globals,   \* g_global_symbols: by name, in order of declaration
    stack,     \* the calls of get_module under way, outermost first
    uses,      \* what the call of each analysed function resolved to
    calls,     \* the calls emitted, with the name they use for the callee
    outcome    \* "running", "compiled", or the error that ended the compilation

vars == <<program, modules, globals, stack, uses, calls, outcome>>

Items(i) == program[modules[i].file]
Fns(i) == {k \in DOMAIN Items(i) : Items(i)[k].kind = "fn"}

\* What a name is bound to in a table: Null is a binding to the null pointer.
Absent == [kind |-> "absent", file |-> 0, name |-> None]
Null == [kind |-> "null", file |-> 0, name |-> None]
Function(i, n) == [kind |-> "fn", file |-> i, name |-> n]
Alias(i) == [kind |-> "module", file |-> i, name |-> None]

Top == stack[Len(stack)]
Item == Items(Top)[modules[Top].next]
Analyzed(i) == modules[i].next > Len(Items(i))

-----------------------------------------------------------------------------
(* Files *)

\* A fault: a module is entered into the table when it is complete.
CachedWhenDone(file) ==
    {i \in DOMAIN modules : modules[i].file = file /\ \A k \in DOMAIN stack : stack[k] # i}

\* g_modules_table: the module of a file, if it has been registered.
Cached(file) == {i \in DOMAIN modules : modules[i].file = file}

\* The include paths under which p is registered or can be read; the first is taken.
Found(p) == {r \in 1..Root : Cached(<<r, p>>) # {} \/ <<r, p>> \in DOMAIN program}
FileOf(p) == <<CHOOSE r \in Found(p) : \A s \in Found(p) : r <= s, p>>

\* A public function of the name.
Publishes(items, n) ==
    \E k \in DOMAIN items : items[k].kind = "fn" /\ items[k].name = n /\ ~items[k].private

\* A fault: set_file_id is forgotten.
DeclaredUnnumbered(i, items) ==
    [n \in Name |-> IF Publishes(items, n)
                    THEN Append(globals[n], [node |-> Function(i, n), file |-> 1]) ELSE globals[n]]

\* The global symbols once a file has declared its own, while it is parsed.
Declared(i, items) ==
    [n \in Name |-> IF Publishes(items, n)
                    THEN Append(globals[n], [node |-> Function(i, n), file |-> i]) ELSE globals[n]]

\* A fault: the analysis of an imported module waits until its importer's has ended.
LoadDeferred(file) ==
    LET i == Len(modules) + 1
        names == {program[file][k].name : k \in {l \in DOMAIN program[file] : program[file][l].kind = "fn"}}
    IN  /\ modules' = Append(modules,
              [file |-> file, next |-> 1, imports |-> {},
               scope |-> [n \in Name |-> IF n \in names THEN Function(i, n) ELSE Absent]])
        /\ globals' = Declared(i, program[file])
        /\ stack' = IF stack = <<>> THEN <<i>> ELSE SubSeq(stack, 1, Len(stack) - 1) \o <<i, Top>>

\* get_module up to the analysis: read the file, register the module, parse it.
Load(file) ==
    LET i == Len(modules) + 1
        names == {program[file][k].name : k \in {l \in DOMAIN program[file] : program[file][l].kind = "fn"}}
    IN  /\ modules' = Append(modules,
              [file |-> file, next |-> 1, imports |-> {},
               scope |-> [n \in Name |-> IF n \in names THEN Function(i, n) ELSE Absent]])
        /\ globals' = Declared(i, program[file])
        /\ stack' = Append(stack, i)

-----------------------------------------------------------------------------
(* Names *)

\* The global symbols named n of the modules that module i imports.
Visible(i, n) == {k \in DOMAIN globals[n] : globals[n][k].file \in modules[i].imports}

\* ScopeTable::find_symbol at level 0 of module i.
Find(i, n) ==
    IF modules[i].scope[n] # Absent THEN modules[i].scope[n]
    ELSE IF Visible(i, n) = {} THEN Null
    ELSE globals[n][CHOOSE k \in Visible(i, n) : \A l \in Visible(i, n) : k <= l].node

\* The node a call stands for: through an alias, the name is looked up in the
\* table of the imported module, its own imports included.
Resolved(i, item) ==
    LET alias == Find(i, item.via)
    IN  IF item.via = None THEN Find(i, item.of)
        ELSE IF alias.kind = "module" THEN Find(alias.file, item.of)
        ELSE Null

\* A fault: a selective import also opens the module.
BoundOpening(m, item, i) ==
    LET bind == IF item.kind = "as" THEN Alias(i)
                ELSE IF modules[i].scope[item.of] = Absent THEN Null ELSE modules[i].scope[item.of]
    IN  [m EXCEPT !.next = @ + 1,
                  !.imports = IF item.kind = "as" THEN @ ELSE @ \cup {i},
                  !.scope = IF item.kind = "open" \/ m.scope[item.name] # Absent THEN @
                            ELSE [@ EXCEPT ![item.name] = bind]]

\* What the visitor of an import does to its module m once get_module has returned
\* module i. A selective import takes whatever module i binds the name to.
Bound(m, item, i) ==
    LET bind == IF item.kind = "as" THEN Alias(i)
                ELSE IF modules[i].scope[item.of] = Absent THEN Null ELSE modules[i].scope[item.of]
    IN  [m EXCEPT !.next = @ + 1,
                  !.imports = IF item.kind = "open" THEN @ \cup {i} ELSE @,
                  !.scope = IF item.kind = "open" \/ m.scope[item.name] # Absent THEN @
                            ELSE [@ EXCEPT ![item.name] = bind]]

\* FnType::get_fn_name: mangled once the function has been analysed.
NameOf(node) ==
    IF \E k \in Fns(node.file) : Items(node.file)[k].name = node.name /\ k < modules[node.file].next
    THEN "mangled" ELSE "plain"

Private(node) ==
    \E k \in Fns(node.file) : Items(node.file)[k].name = node.name /\ Items(node.file)[k].private

\* LLVM's verifier refuses a module that declares a function of another module with
\* internal linkage, the linkage of a private function.
Verifies(i) == \A u \in uses : u.from = i => u.to.file = i \/ ~Private(u.to)
-----------------------------------------------------------------------------
(* Steps *)

Init ==
    /\ program \in Program
    /\ modules = <<>>
    /\ globals = [n \in Name |-> <<>>]
    /\ stack = <<>>
    /\ uses = {}
    /\ calls = {}
    /\ outcome = "running"

Fail(error) ==
    /\ outcome' = error
    /\ UNCHANGED <<program, modules, globals, stack, uses, calls>>

\* main calls get_module.
Start ==
    /\ modules = <<>>
    /\ IF Found(MainPath) = {} THEN Fail("no file")
       ELSE Load(FileOf(MainPath)) /\ UNCHANGED <<program, uses, calls, outcome>>

Analyzing(kinds) == stack # <<>> /\ ~Analyzed(Top) /\ Item.kind \in kinds

\* An import of a file not seen yet: its compilation begins, and the visit of the
\* import goes on when it ends.
VisitImport ==
    /\ Analyzing({"open", "as", "only"})
    /\ Found(Item.path) # {} /\ Cached(FileOf(Item.path)) = {}
    /\ Load(FileOf(Item.path))
    /\ UNCHANGED <<program, uses, calls, outcome>>

\* A fault: the analysis does not go on behind an import of a module under way.
VisitCachedImportWaiting ==
    /\ Analyzing({"open", "as", "only"})
    /\ Found(Item.path) # {}
    /\ \E i \in Cached(FileOf(Item.path)) :
         modules' = [modules EXCEPT ![Top] = IF \E k \in DOMAIN stack : stack[k] = i
                                             THEN @ ELSE Bound(@, Item, i)]
    /\ UNCHANGED <<program, globals, stack, uses, calls, outcome>>

\* An import of a registered module, complete or not.
VisitCachedImport ==
    /\ Analyzing({"open", "as", "only"})
    /\ Found(Item.path) # {}
    /\ \E i \in Cached(FileOf(Item.path)) :
         modules' = [modules EXCEPT ![Top] = Bound(@, Item, i)]
    /\ UNCHANGED <<program, globals, stack, uses, calls, outcome>>

VisitMissingImport ==
    /\ Analyzing({"open", "as", "only"})
    /\ Found(Item.path) = {}
    /\ Fail("no file")

Calling(item) == item.of # None

\* A fault: a function is emitted as soon as it has been analysed.
VisitFnEmitting ==
    /\ Analyzing({"fn"})
    /\ Calling(Item) => Resolved(Top, Item).kind = "fn"
    /\ uses' = uses \cup (IF Calling(Item)
                          THEN {[from |-> Top, at |-> modules[Top].next, to |-> Resolved(Top, Item)]} ELSE {})
    /\ calls' = calls \cup (IF Calling(Item)
                            THEN {[from |-> Top, to |-> Resolved(Top, Item), name |-> NameOf(Resolved(Top, Item))]}
                            ELSE {})
    /\ modules' = [modules EXCEPT ![Top].next = @ + 1]
    /\ UNCHANGED <<program, globals, stack, outcome>>

\* A function is named, and the call in its body is resolved.
VisitFn ==
    /\ Analyzing({"fn"})
    /\ Calling(Item) => Resolved(Top, Item).kind = "fn"
    /\ uses' = uses \cup (IF Calling(Item)
                          THEN {[from |-> Top, at |-> modules[Top].next, to |-> Resolved(Top, Item)]} ELSE {})
    /\ modules' = [modules EXCEPT ![Top].next = @ + 1]
    /\ UNCHANGED <<program, globals, stack, calls, outcome>>

\* The name is unknown, or does not stand for a function.
VisitUnresolved ==
    /\ Analyzing({"fn"}) /\ Calling(Item)
    /\ Resolved(Top, Item).kind # "fn"
    /\ Fail("unknown symbol")

\* All the items of a module have been analysed: it is emitted, and get_module
\* returns it to the visitor of the import that asked for it, or to main.
Finish ==
    /\ stack # <<>> /\ Analyzed(Top)
    /\ Debug => Verifies(Top)
    /\ calls' = calls \cup {[from |-> Top, to |-> u.to, name |-> NameOf(u.to)] : u \in {v \in uses : v.from = Top}}
    /\ stack' = SubSeq(stack, 1, Len(stack) - 1)
    /\ modules' =
         IF Len(stack) = 1 THEN modules
         ELSE LET caller == stack[Len(stack) - 1]
              IN  [modules EXCEPT ![caller] = Bound(@, Items(caller)[modules[caller].next], Top)]
    /\ outcome' = IF Len(stack) = 1 THEN "compiled" ELSE outcome
    /\ UNCHANGED <<program, globals, uses>>

\* get_module returns the null pointer for a module that does not verify.
FinishUnverified ==
    /\ stack # <<>> /\ Analyzed(Top)
    /\ Debug /\ ~Verifies(Top)
    /\ Fail("no module")

\* The compiler has stopped.
Stopped == outcome # "running" /\ UNCHANGED vars

Next ==
    \/ /\ outcome = "running"
       /\ \/ Start
          \/ VisitImport
          \/ VisitCachedImport
          \/ VisitMissingImport
          \/ VisitFn
          \/ VisitUnresolved
          \/ Finish
          \/ FinishUnverified
    \/ Stopped

Spec == Init /\ [][Next]_vars

\* The compiler is one thread that runs until it stops.
FairSpec == Spec /\ WF_vars(Next)
-----------------------------------------------------------------------------
(* Correctness *)

Ids == DOMAIN modules

\* A file is compiled at most once, however its imports are arranged, cycles
\* included: its functions are not defined twice.
OneModulePerFile == \A i, j \in Ids : modules[i].file = modules[j].file => i = j

\* The calls of get_module under way are a chain of imports from the main module:
\* each module waits at the import of the next one, and the modules that are not
\* under way are complete.
StackIsImportChain ==
    /\ \A k \in 1..(Len(stack) - 1) :
         /\ ~Analyzed(stack[k]) /\ Items(stack[k])[modules[stack[k]].next].kind # "fn"
         /\ Cached(FileOf(Items(stack[k])[modules[stack[k]].next].path)) = {stack[k + 1]}
    /\ \A i \in Ids : Analyzed(i) \/ \E k \in DOMAIN stack : stack[k] = i

\* The modules that module i imports, as the files have it.
Imports(i) ==
    {j \in Ids : \E k \in DOMAIN Items(i) :
        LET item == Items(i)[k]
        IN  item.kind # "fn" /\ Found(item.path) # {} /\ Cached(FileOf(item.path)) = {j}}

\* Module i imports module j, itself or through others.
Reaches(i, j) ==
    \A S \in SUBSET Ids : i \in S /\ (\A k \in S : Imports(k) \subseteq S) => j \in S

\* A call is emitted under the name its callee is defined under. The one exception
\* is a callee whose module imports, itself or through others, the caller's: emitted
\* while the callee's module is under way, the call names a function that no
\* module defines.
PlainNamesOnlyInCycles ==
    \A c \in calls : c.name = "plain" => c.to.file # c.from /\ Reaches(c.to.file, c.from)

\* The imports of module i analysed so far, of one kind.
Seen(i, kind) ==
    {Items(i)[k] : k \in {l \in DOMAIN Items(i) : l < modules[i].next /\ Items(i)[l].kind = kind}}

\* A name without an alias in front stands for a function of its own module, for
\* one named by a selective import, or for a public one of a module imported as
\* a whole: "selective imports allow importing only specific symbols"
\* (readme.md:677), and imports of imported modules do not count.
OnlyImportedSymbols ==
    \A u \in uses :
        LET item == Items(u.from)[u.at]
        IN  item.via = None =>
              \/ u.to.file = u.from
              \/ \E s \in Seen(u.from, "only") : s.name = item.of
              \/ /\ \E s \in Seen(u.from, "open") : Cached(FileOf(s.path)) = {u.to.file}
                 /\ ~Private(u.to)

\* A name is only reported unknown when no declaration of it is in reach: neither
\* in the module nor, public, in one it has imported as a whole, even one still
\* under way; unless a selective import or an alias has taken the name.
UnknownMeansUndeclared ==
    outcome = "unknown symbol" /\ Item.via = None =>
        LET taken == {s.name : s \in Seen(Top, "only") \cup Seen(Top, "as")}
            DeclaredIn(i, private) ==
                \E k \in Fns(i) : Items(i)[k].name = Item.of /\ (Items(i)[k].private => private)
        IN  \/ Item.of \in taken
            \/ /\ ~DeclaredIn(Top, TRUE)
               /\ \A s \in Seen(Top, "open") : \A i \in Cached(FileOf(s.path)) : ~DeclaredIn(i, FALSE)

\* The compilation ends, whatever the imports (get_module, module_manager.cpp:75).
Terminates == <>(outcome # "running")
=============================================================================
