# A TLA+ development for ParsC

ParsC (`src/`) is a compiler for the language pars, written in C++ over LLVM.
It is one thread that runs once: read the command line, load the main module,
load what it imports in the middle of analysing it, emit LLVM code per module,
link. What makes it hard is not concurrency but state that outlives the step
that made it: a symbol table whose levels are reused, flags that one visitor
leaves for another, a module manager that calls itself in the middle of an
analysis, and nodes that are read before the visit that completes them.

## The system

| Part | State | Operations | Interaction | What makes it correct |
|---|---|---|---|---|
| Symbol table (`scope_table`) | level, vector of levels (bindings, imports, return flag), lock | `add_to_scope`, `get_or_add_symbol`, `add_import`, `go_down`, `go_up`, `find_symbol` | parser and analyzer write it; other modules' tables are read through aliases; public symbols go to the module manager | a stack of lexical frames; no index out of range; names keep their meaning |
| Return analysis (`analyzer`) | return flags in the levels | visitors of functions, blocks, returns, ifs, loops | visitors exchange flags through levels that are already closed | accepted functions return, rejected ones do not |
| Module manager (`module_manager`, `module`) | modules by path, global symbols, include paths | `get_module`, `declare_global_symbol`, `find_global_symbol` | called by `main` and, recursively, by the visitor of an import | a file is compiled once, cycles end, names are bound to what was imported |
| Overloads and calls (`fn_collection`, `analyzer`, `expr`) | the functions of a name, types of arguments so far | `get_fn`, `fn_is_duplicate`, visit and emission of a call | resolution visits arguments while it searches | the right function, every parameter its own argument |
| Initializers (`analyzer`, `expr`) | positions of array and struct elements | `assign_named_indices`, `assign_struct_indices` | the visitor places elements, the emitter stores them | every element reaches its own field, with its type |
| Types (`type`) | mutually recursive type nodes | `is_equal`, `can_coerce_into`, `is_assignable_from`, `get_member`, `op_index`, `to_llvm` | used by resolution, checks and emission | what the analyzer accepts has one LLVM type, that of the object |
| Expressions (`analyzer`, `expr`) | type, immutable positions and `Immutable` flag of every node; `named_values` | one visitor per node, then `emit` or `emit_ptr` | the analyzer fills nodes in, the emitter believes them; operators are chosen by types | code reads and writes the object the source names; `let` is kept |
| Lexer and parser (`lexer`, `text_reader`, `ast`) | window of tokens, attributes not yet used, functions under way | `advance`, `match`, `expect`, one function per construct | the parser pulls tokens and declares names | every loop consumes or stops; positions are exact |
| Compile-time evaluation (`comp_eval`) | values of constants | one visitor per expression | called for `const`, array sizes and `$if` | constants are what the program would compute |
| Code generation of statements (`stmt`, `type`) | basic blocks, insertion point, loop stack `loop_bbs` | `emit` per statement; `iter_emit_*` of ranges and arrays | after the analysis of the whole module; emitters share the builder | blocks run as the source does, one terminator per block, loops see each element once |
| Node memory (`node`), source files (`file_manager`, `io`, `arena`) | blocks of 32 MB, one buffer of 512 MB | `get_memory`, `load_file`, `get_source` | used by everything | no overlap, ids lead back to their file |
| Driver (`main`, `cli`, `config`, `warnings`, `compiler`) | configuration, warnings | parse the switches, run, link | outermost | switches do what they say |

## Modules

`LexicalScopes` is the abstract specification of a symbol table: a stack of
frames, each with the names it binds and the modules it opens. Frames are pushed
and popped whole, bindings and imports are added to the top one (a loop binds
its variables in the frame it is about to push), and a name once bound in a frame
is not bound again.

`ScopeTable` is the class of that name. `level`, `size`, `scope`, `imports` and
`returns` are `m_level`, the length of `m_table` and its entries by level;
`locked` is the parser's lock and `globals` the list of the module manager. Each
operation is an action. `GoDownWith(b)` is `go_down` together with the bindings `b`
that a `for` makes one level below before it; `GoUpWith` is the destructor of
`AutoScope`, which runs `go_up` and `clear_level` (the flag stays), together with the
flag a block hands upwards. `FindLocal` scans from the outside, as the code does.
`DeclareElsewhere` is another module being loaded.

`ReturnFlow` extends it with the visitors as a call stack (`visits`). The tree is
chosen while it is visited, so all programs of a nesting depth are covered. Flags are
only set through the actions of ScopeTable. Next to the flags it records the truth
they stand for, whether control reaches the point being visited (`reach`).

`Modules` is `get_module` with its recursion (`stack`), the modules and how far the
analysis of each is (`next`), the global symbols, the calls resolved (`uses`) and the
calls emitted (`calls`). `Load` registers and parses; `VisitImport` begins a load in
the middle of an analysis, `Finish` emits a module and completes the import that
asked for it; `VisitCachedImport` is an import of a module already registered, which
may be under way itself. The files are data, chosen in `Init`. `globals` has for each name the
public functions of that name in the order their modules were parsed, as `g_global_symbols` does. That a call can reach
its way back through imports (`Reaches`) is said without recursion: the second module is in every set of modules that is
closed under imports and holds the first.

`Calls` follows one call from the visitor (`BeginCall`) through overload resolution
(`TakeOnlyFn`, `SkipFn`, `TryFn`, `NoFn`), the check of its length (`CheckArity`), the
replacement of named arguments (`ReplaceNamed`) to `Emit`, interleaved with the visits
of the functions (`AnalyzeFn`), since a parameter has no usable type before its
function has been visited.

`Lexer` goes from characters to the parser and back. `Start`, `Scan` and `TokenAt` say
where the next token begins and ends, as intervals of offsets of `source`; operators from
windows to windows (`Advanced`, `PeekedNext`, `MatchedBoth`...) are the methods of
`Lexer`, `window` holds its three optional tokens and the place of the reader.
The parser is any sequence of calls (`Match`, `MatchNext`, `MatchBoth`, `Expect`, `Take`) within
the loop of `AST::parse` (`NextDeclaration`, `EndDeclaration`), and may refuse what it sees.
An error starts `report_token`, one round of its loop being `FindLine`.

`StatementEmit` emits one function and then runs it. `frames` are the calls of emitters under way, each with its local
variables, `blocks` the emitted blocks, `ip` the insertion point, `loops` the stack `loop_bbs` and `value` what the
call that has just ended returned. An action is what one `emit` of `stmt.cpp` does between two calls it makes: `EmitIf`,
`EmitThen`, `EmitElse`, `EndIf` and `EndIfPoisoned` are `IfStmt::emit`, `NextNode`, `CutBlock` and `EndBlock` the loop
of `BlockStmt::emit`. That a later statement is appended wherever the builder happens to be is part of them.
`EndFunction` closes the body and lets LLVM verify the blocks. Afterwards the source and the blocks run side by side with
the same outcomes of the conditions: `rest` is what the source still has to do and becomes `Lost` once the two differ.
A function is `code`, its statements by number, and `body`, the numbers of those it begins with, so that nothing
here is recursive: a property of a tree of ifs (`AllJump`), or of what is outside of all loops (`JumpsInLoops`), is said with a set of
statements that is closed under its condition.

`Types` is `type.cpp` without state: equality, coercion, assignability, members and the
LLVM layout of every kind of type, as operators. `Expressions` uses it for a function that
is parsed (`Begin`, `Grow`, `ParseStmt`), visited (`VisitNext`) and emitted (`EmitNext`), a few statements long. What an
emitted access does is computed from where the pointer really leads: an address is a
place, the path of fields and elements from a variable, and a load with an LLVM type that
is not that of the place makes garbage. `Denoted` says, without the visitors, what the source means.
The properties are about *plain* programs, the ones the documentation shows: the operators
`PlainMember` ... `PlainStmt` list, next to their reasons, the combinations beyond which
the compiler does something else (below).

`Iteration` has the arithmetic of `comp_eval` next to that of the emitted code over integers
of any width (`Half` is half the number of their values), with or without a sign (`is_signed`): a behaviour parses a constant
expression operator by operator (`Parse`), with what
the compiler makes of it in `folded` and what the program makes of it in `computed`. `misread` remembers that the two have parted
because the compiler divided a `u32` that is negative for it. The expression may be no array size (`SizeFails`), or one loop runs over
the array or range it bounds: `IterInit`, `IterCondition`, the body (`BodyEnds`, `BodyBreaks`, `BodyWrites`) and `IterUpdate` are the blocks `ForStmt::emit`
makes, with the instructions of `iter_emit_init`, `iter_emit_condition` and `iter_emit_update`.

`Memory` has the two memories that only grow. `AllocNode(size)` is `get_memory`, including the new
block it begins when a node does not fit; `LoadFile(size)` is `load_file` with the id cut to its width. Its
specification `Spec` has bounds for TLC; `UnboundedSpec` has none.

`MC*` modules and configurations give the constants values. Operators that a comment
calls a fault are plausible bugs in the definition that follows them, none is used by
a specification: each property is known to fail when one is put in place
of the definition it belongs to.

## Runs

| Run | Shows |
|---|---|
| `scope_table` | The table implements `LexicalScopes` (`ImplementsLexicalScopes`); levels below the current one are clean although `go_down` clears nothing; `m_table[m_level]` exists under both growth rules; a name that one open scope declares keeps its meaning while that scope is open and no other declares it (`ResolutionStable`), and when other modules are loaded (`LoadingKeepsMeaning`); a return flag outlives its scope. |
| `return_flow` | Levels follow the visitors; `get_lower_flags` reads an allocated level; "Not all paths return a value" is only said of functions whose end control reaches (for programs without dead statements and `loop`). |
| `modules` | A file is compiled once; the calls of `get_module` are a chain of imports; compilation ends, cycles included; plain names are only emitted in import cycles, where the callee's name is not mangled yet; names resolve to what was imported, and to all of it. |
| `calls` | Duplicate errors are right; overloads of one length resolve; a call resolved among overloads never fails its type check at emission unless arguments are named; arguments with known names reach their parameters. |
| `lexer` | Looking ahead loses and repeats no token (`WindowIsConsecutive`); only blanks and comments lie between tokens; the loop over declarations reads the whole file, though what is still in the window is dropped (`WindowIsTheRest`); a report shows the line of its token, and ends if that is not the last line. |
| `returns_on_all_paths` (violated) | `scope_table.hpp:23`: `if c {} else { return 1 }` sets `HasReturn`. While and for bodies and `else if` raise the flag the same way. |
| `statement_emit` | Every small function runs as its source says (`PlainIfsRun`) and is accepted by LLVM (`PlainProgramsAreAccepted`), as long as no if or loop stands in a branch, an else block only appears where both sides jump, nothing is emitted behind a jump, and the function is void or ends in a jump. |
| `if_branches` (violated) | `readme.md:393`: without that restriction `if c { a } else { b }` goes on in the wrong block: the merge block is taken to be wherever the builder is. With `b` a jump, `a` runs into it. |
| `expressions` | A plain statement reads and writes the objects its source names, with their LLVM types (`PlainMeansSource`), is neither refused nor crashes the compiler if it is well typed (`PlainCompiles`), and never writes, by name or as a field of it, what is declared by `let` with a type that is no alias (`ImmutableIsKept`). |
| `let` (violated) | `readme.md:134`: a `let` variable whose type is inferred can be assigned. |
| `iteration` | Constants have the values the program would compute (`ConstantsMeanTheirSource`, for `i32` and `u32`, where the compiler's own arithmetic is defined and until it divides a `u32` that is negative for it); loops see each element once and in order though arrays load before the test (`ElementsInOrder`); they end (`LoopsEnd`) unless an inclusive range goes up to the largest value or the body writes the variable. |
| `memory` | Nodes of any sizes lie apart within their blocks (`NodesApart`); ids lead to their file until they wrap (`SourcesFound`). |

Further things the models show about the code. They are not findings, as no property
stated here is about them:

- *Returns.* An `if` behind a `return` clears the flag, so correct functions with dead code are rejected,
  and so are those that end in a `loop` left only by a return.
- *Names.* With a name declared in two open scopes the analyzer finds the outer declaration, and checks the
  inner variable with its type and mutability; `todo:205` says that shadowing works. `ResolutionStable` is
  about names that one open scope declares, and says nothing of this. Names behind an alias, and selective
  imports, reach private functions and what the aliased module itself imports; a debug build then fails
  LLVM's verification.
- *Calls.* A named argument with a misspelled name is not reported and may be overwritten
  (`ArgumentsReachParameters` excludes it); `f(q: 1)` with defaults `p` and `q` indexes the arguments behind
  their end. Two functions `f(a: i32, b: str)` are not found to be duplicates; a call with two arguments
  that only `f(p, q)` fits is bound to an `f(p)` declared before it, and refused; overloaded functions can
  only be called below their declaration; an overload without parameters, or variables for all parameters,
  end the search.
- *Lexer.* A last token that is no declaration (a closing brace too many) is ignored, as are two behind an
  `import` without a path in a file without a line feed at its end. An error in the last line is never
  shown: `report_token` loops there (`todo:2` knows of it).
- *Statements.* A `for` whose body ends in a jump gets a second terminator, and LLVM refuses the function.
  The block around a compile-time if that has jumped gets a second terminator. A function with a value that
  the analyzer accepts although control reaches its end (the only `return` in a `while`) is refused by LLVM,
  as only void functions are closed. `break` and `continue` outside of a loop read the back of an empty
  vector.
- *Expressions.* A cast changes the type of its operand, so the cast of a name reads the variable as an
  object of another type. Elements of slices cannot be assigned; indices of members, members of pointers to
  pointers and of dereferenced pointers, and slices of members are read from the wrong place or crash the
  compiler outside of the cases `PlainAccessor` and `PlainPlace` allow. `let` is only enforced for
  assignments to names and their fields, not to fields of fields, elements, or through pointers; and not for
  variables whose declared type is an alias, as it brings its own mutability (`readme.md:129` makes no
  exception).
- *Ranges.* An inclusive range up to the largest value never ends. `<=` compares as signed integers do, so
  `0..=n` with an unsigned `n` above the largest signed value is never entered.
- *Constants.* A constant `u32` that is negative as an `i32` is divided as such, so `(0 - 4) / 2` is not
  what the program would compute. Negative array sizes are accepted as large ones. `%` in an array size
  crashes the compiler.

### Bounds

`MCScopeTable`: one name (lookup treats names independently), two nodes, this file
and one other, two levels below the module's with one allocated at first, so that both
rules of growth are met, and two global symbols, the least for which order matters.
`MCReturnFlow`: scopes nested four deep and seven visitors; that holds an `if` with
`else if` and `else` in a loop in a function, and a nested function. Dead statements and
`loop` are left out of this run as `RejectedFunctionsFallThrough` says nothing of them.
`MCModules`: a main file and two others, one in the second include path or missing, 32,401
programs with one import and one function in most files (main imports both); cycles of
length one, two and three occur. The order of the two in a file, which decides what a
module under way has already bound, varies. `MCCalls`: two parameters are enough to
swap, leave out and overrun; three functions for the searches that stop early.
`MCLexer`: all files of up to four, five or six characters over three or four characters at
a time, so that each kind of token and each error meets line feeds and the end of the file.
`MCStatementEmit`: every function of at most four statements, three if compile-time ifs are among
them (1,341,394 states); two statements show every way one emitter hands a block to another, four hold a jump
in an if in a loop with something behind it. The condition of each statement takes both outcomes whenever it is
evaluated. `MCExpressions`: a struct with a number, a pointer to its own kind and an array,
a pointer, an array and a wide integer, and a variable declared by the function, mutable or not, without a type, with the
struct, an alias of it, a slice or an array longer than its initializer; functions of at most four operators and
statements (5,929,317 states), which is a declaration and an assignment through two accesses. `MCIteration`:
four bits, with and without sign, so that every kind of overflow, and every range that ends at a largest value, occurs; expressions are of any length, as
only finitely many values can be computed.
`MCMemory`: blocks of eight bytes with nodes of one to seven, so that a node may just fit, leave a gap or
need a new block, four blocks and six nodes; three files for two ids, so that ids wrap.

Deadlock is checked for `ScopeTable`, `Modules`, `Calls` and `Lexer`. In `ReturnFlow` an error ends the
compilation, in `StatementEmit`, `Expressions` and `Iteration` the function is done, and in `Memory` the bounds are reached.

### Fairness

`Modules` has weak fairness of its whole next-state relation: the compiler is one thread,
and nothing it waits for is outside. `Lexer` needs it only of `report_token`, a loop that
nothing interrupts; nothing is assumed of the parser. `Iteration` has it of its steps: a
program that has begun a loop goes on with it.

## Proofs

`ReturnFlow_proofs` begins with the symbol table, as its visitors work on one, and proves, for every set of names, nodes and
files and every bound:
`TypeCorrect`, `ReusedLevelsAreClean`, `NoOutOfRangeLevel`, `Refinement` (the table
implements `LexicalScopes`), `NamesKeepTheirMeaning`, `LoadingIsHarmless` (`LoadingKeepsMeaning`) and
`FlagIsReadable`. The
assumption is `ScopeTableAssumption`: there is at least one initial level and `None` is no
node. The inductive invariant `IInv` joins types, clean levels and allocation:
`BelowIsClean` needs the types of the entries, `LevelAllocated` needs the level to be in
range because `get_scope` and `go_down` grow the vector by different amounts, and the
refinement needs `BelowIsClean`, as a frame that is pushed has to be empty.
`NamesKeepTheirMeaning` (`ResolutionStable`) needs no more than the types: what a level binds is never bound
again, and when a name is declared in one open scope the scan can only find that. `LoadingIsHarmless` needs that global symbols are only ever
appended (`GlobalsGrow`), so the first visible one of a name stays first.

`Modules_proofs` proves, for every set of programs, every property of the run `modules` but the liveness of `Terminates`. The
assumptions are `ModulesAssumption` (there is an include path, the main path is a path) and `ProgramAssumption`: a file is a
sequence of imports and functions, whose names differ, as overloads are the subject of `Calls`.

- `FilesAreCompiledOnce` (`OneModulePerFile`) and `CallsFollowImports` (`StackIsImportChain`) rest on `MInv`. It is about two things:
  the table, whose modules come from files on disk, one from each (`TableOK`), and the calls under way, which are of
  different modules, each but the last waiting at an import of the next one (`StackOK`). That they are of different modules is what a chain
  needs: the module at the top may go on only because no other call is waiting in it. The file of an import does not
  change while it is compiled, as every registered file is also on disk (`FoundOnDisk`).
- `CallsReachImportedNames` (`OnlyImportedSymbols`) and `KnownNamesAreFound` (`UnknownMeansUndeclared`) rest on `NInv`, which says of each
  entry of a module's table where it comes from, a function of its file or an import already analysed (`NamesOK`), that the globals of a
  name are the public functions of that name in registered modules, and those only (`GlobalsOK`), and of each use by
  which of the ways it was found (`UseOK`). A module is registered and its names declared in one step, so
  an import of a module still under way finds all of its names.
- `CallsAreNamedAsDefined` (`PlainNamesOnlyInCycles`) needs both: a callee whose function has no mangled name yet is in a module
  that is under way, thus below the caller's on the stack. Were there a set of modules closed under imports with the callee's module but without
  the caller's, the lowest call above the callee's that is outside of it would be
  imported by one inside (`PlainIsUnderWay`, with the least place on the stack).
- `CompilationMovesOn` is the safety half of `Terminates`: of finitely many files, the number of files to register and items to analyse
  (`Left`) falls with every step that does not end the compilation. A file counts until it is registered, and only
  one module is ever registered from it (`MInv`); an import counts until the module it asked for has returned. That the
  compilation never stops short of an outcome is a matter of ENABLED, and stays with TLC.

`Calls_proofs` proves all properties of the run `calls`, for every number of overloads, parameters and arguments, from
`CallsAssumption`: the overloads and arguments are sequences of what the parser makes, and the two marks for missing types are no types.

- `OnlyDuplicatesAreRejected`: fn_is_duplicate has no false alarms, with the invariant `ErrorIsDuplicate` that keeps what the failing visit saw.
- `CallTypeCorrect` (`TypeOK`) has the inductive invariant `CInv`: where the search is (`PlaceOK`), and what the arguments are once they
  are bound to a function (`BindingOK`).
- `OverloadsFoundAreEmitted` (`OverloadedCallsEmit`): what has been matched among several functions is compared with definite types, and an argument that has
  a definite type keeps it or coerces to it (`StillFits`).
- `ArgumentsArePassed` (`ArgumentsReachParameters`): the named arguments are moved one by one over a list that still holds them. What
  makes that harmless is a pigeonhole argument: each moves to a place that a named one leaves, and no two move to
  the same, so the places they reach are all the places they leave (`InjectionIsOnto` of `Lemmas`, `AllPlaced`, `AllPassed`).
- `EqualLengthsAreExact` (`EqualLengthsResolve`): among overloads of one length every function skipped so far does not fit (`SearchIsExact`).

`Lexer_proofs` proves all safety properties of the run `lexer`, for every file and every sequence of calls. The
assumption is `LexerAssumption`: a file is a finite sequence.

- `NoTokenIsLost` (`WindowIsConsecutive`) is inductive once windows are known to be records of
  their four members; of reading a token it uses only that one is read (`TokenIsRead`) and that the same file has the same tokens.
- `ReadersStayInFile` (`TypeOK`) needs to know what `advance_one` returns (`TokenSpec`). `Start` and `Quote` are
  recursive functions, which have the values they are defined by only because each step of their recursion goes up in
  the file (`StartEquation`, `QuoteEquation`, by `UpwardRecursion` of `Lemmas`); what they return follows downwards from
  the end of the file (`StartSpec`, `QuoteSpec`, by `DownwardInduction`). An escape sequence never reaches behind the
  end because what is read there is no character that can be escaped.
- `NothingElseIsSkipped` (`OnlyCommentsAreSkipped`) and `FileIsRead` (`WindowIsTheRest`) combine these facts with the window.
- `ReportsShowTheToken` (`ReportShowsToken`): a round of `report_token` begins at the start or the end of the file or where
  blanks after a line feed end (`LineStart`), in a line not behind the token's (`Shows`). A round that skips the token's line in one go would skip
  blanks only; and a token ends in a blank only at the end of the file or in its second character (`EndsWell`, an
  unclosed character literal), so it has a character before that which is none (`LineHoldsEnd`).
- `ReportsAdvance`: a round moves the reader forward as long as a line begins behind the token. It is not one of the run's
  properties but the part of `EarlierLinesAreReported` that does not need fairness.

`Iteration_proofs` proves all safety properties of the run `iteration`, for integers of every width and expressions of every length, from
`HalfAssumption` (there are more than two integers) and `LiteralsAssumption` (a literal is not negative and fits).
`LoopTypeCorrect` (`TypeOK`), `ConstantsKeepTheirMeaning` (`ConstantsMeanTheirSource`) and `LoopsSeeTheirElements` (`ElementsInOrder`) rest on
`IInv`: for both signs the value folded is that of the pattern computed, unless `misread` (`NumbersOK`), and the place a loop is at is its lowest element plus the number of
times the body has been entered (`SeenOK`). Both are arithmetic modulo the number of patterns: a number in
range is the only one congruent to it (`ModUnique` of `Lemmas`), and a quotient of two numbers in range is in range but for the one that
traps.

`Lemmas` has the facts about numbers, finite sets and sequences that these proofs share.

About the visitors `ReturnFlow_proofs` proves, for every set of constructs, every depth of the call stack and every nesting:
`FlowTypeCorrect`, `LevelsFollowVisits` (`LevelsMatchVisits`) and, for programs without `loop`
and dead statements, `NoFalseAlarms` (`RejectedFunctionsFallThrough`). The first two rest on `FInv`: the table is in
order (`IInv`), its level is the number of functions and blocks under way, and a visitor that is back from a branch has
just left the level below its own (`BelowAllocated`); opening a scope adds one element to the set of scoped
visitors, closing it removes one. `NoFalseAlarms` needs `PInv`, which says where
the flag is while the construct that will read it is still under way: a list control does not reach the end
of has its flag raised (`ListsFlagged`), after a branch it is at the level below
(`BranchFlagged`), after the first branch in `sibling_returns` (`SiblingKept`), and everything
under way is reached (`AllReached`). Only visitors between a function with a value and its innermost loop matter (`Free`);
a block there is at level two or below, which is why the test for the module's scope
in the visitor of a block never loses a flag.

`Memory_proofs` proves `TypeCorrect`, `NodesAreApart` and `SourcesAreFound` of `UnboundedSpec`,
for every block size, every set of node sizes below it and any number of nodes and files, and
`CheckedIsUnbounded`: what TLC explores is part of it. `NodesApart` is inductive once it is known that
the nodes of the current block end at its offset and that no node lies in a later block.

`StatementEmit_proofs` proves, for every function of any size and nesting, `TypeCorrect` (`TypeOK`), `PlainProgramsCompile`
(`PlainProgramsAreAccepted`) and `PlainProgramsKeepTheirMeaning` (`PlainIfsRun`), with the invariants of `EmitInvariants`, from `ProgramsAssumption`: statements refer to statements of the function, and an else-if to an if.

- `TypeCorrect` has the inductive invariant `TypeInv`: the blocks that the calls under way, `loop_bbs` and the insertion point
  name exist (`Typed`), and what runs has been verified.
- `PlainProgramsCompile` is about a test made once, when the function ends, of all blocks at a time. Its inductive invariant
  `Accepting` has to account for every block before that. `Good` says that a block without terminator is the one of the insertion
  point or is owned by exactly one call under way, which will end it or return it (`Own`, `Accounted`, `Apart`); that no
  terminator is within a block (`Sound`); and what an emitter may rely on when the one it has called returns: an if that returns poison
  has had both branches jump, a branch that does not jump ends in an open block, the body of a `for` in which nothing
  is cut leaves the insertion point in an open block (`TopOK`, `Link`). This agreement of the emitters is nowhere written in the code. A function that is not good
  is doomed, since terminators are never taken away (`Doomed`, `DoomStays`), and only a function that emits something behind a
  jump gets there (`Fine`). The end of the function is good if it is void or ends in a jump, and excused otherwise (`Excused`).
- That the compiler does not read the back of an empty `loop_bbs` needs `LoopsMatch` (its entries are those of the
  loops under way, in their order) and that the calls outside of all loops are for statements that hold no `break` and
  `continue` (`CallsHeld`, `StillInLoops`).

- `PlainProgramsKeepTheirMeaning` is a simulation of the source by the blocks. Its invariant `Followed` has three parts. While the
  function is emitted, every place of every block has a label: what the source still has to do there. An instruction does the first
  of that and leads to places labelled with the rest, a test to one for each outcome (`Obeys`, `Told`). Blocks are
  entered between statements, so labels are equal up to the moves of the source that do nothing: `break` and `continue`, an if of
  the compile time, the way back to the test of a `while` (`Kin`, `KinMoves`). The emitter decides what is behind a block long after it has made the block, so
  the calls under way are labelled too (`Labelled`): `K[k]` is what the source does behind the k-th call, `D[k]` the loops it is in,
  whose entries of `loop_bbs` lead behind the loop and to its next round (`Chain`, `Target`), and `CallRuns` says with what
  each block of a call has to go on. The block of the insertion point goes on with what the call on top goes on with (`Here`). One lemma
  for each action extends the labels (`DoFollows` to `ForFollows`), and needs `Good` to know that the blocks changed are open and owned by
  that call only. When the function ends nothing is left to do, and a function that runs stays `Abreast` of its source.
- That not more branches run in a row than there are blocks would need an induction over branches; ranks
  take its place (`Ranked`). A block gets its rank with its terminator, and a branch leads to a block that acts or tests first, or that is
  still open and gets a higher rank: the emitters end inner blocks before outer ones, but branch back to loops, which test.

Only model-checked: the properties of `Expressions`. Types and expressions are
trees of any depth there, and its operators are recursive over them (`RECURSIVE`), which the prover's arithmetic and set
backend does not accept; what they compute for every tree would need an induction over trees. Liveness under fairness is out
of the prover's reach as well: `Terminates`,
`EarlierLinesAreReported` and `LoopsEnd`. The proofs hold a safety part of each: every step leaves
less to compile (`CompilationMovesOn`), a report moves on (`ReportsAdvance`), and a bounded loop enters its body at most once for each
element (`LoopsSeeTheirElements`).

## Not modelled

Text: values of literals, messages, columns, mangled names, the grammar of types and the precedence of binary operators.
LLVM, the linker and the file system appear only by what the compiler relies on. In `ScopeTable` the kinds of nodes
are not told apart, so the unchecked cast in `get_or_add_symbol` is out of its sight.
`Modules` leaves out imports inside functions (levels are the subject of `ScopeTable`),
packages, platform suffixes, `extern` functions and `main`. `ReturnFlow` leaves out arrow
functions and `$if`. `Calls` leaves out mutability, variadic functions, function pointers
and methods. `Expressions` leaves out calls, methods and properties, aliases that are immutable themselves, global and const variables, binary and
unary operators and literals with a type in front; `Iteration` floats, comparisons and compile-time calls. `Types` has enums, strings and floats, but the run
`expressions` has no variables of these types.
`Memory` does not limit the buffer of files, as the code does not compare with its size; `free_memory_blocks` is never called.
The driver, the switches of the command line, linking and the debug printers are loops over independent cases or pure
output; the libraries in pars, the test runner and the vendored code are not part of the compiler.

## Plan

1. Done: `LexicalScopes`, `ScopeTable`, `ReturnFlow`, `Modules`, `Calls`, `Lexer`, `StatementEmit`, `Types`,
   `Expressions`, `Iteration`, `Memory`; proofs of every safety property of `ScopeTable`, `ReturnFlow`, `Memory`, `Modules`, `Calls`,
   `Lexer`, `Iteration` and `StatementEmit`.
2. Proofs: that
   `GetMember` and `Layout` look through aliases alike, with types as a function over a set of names instead of trees.
3. Models: methods and properties in `Expressions`; arrow functions in `ReturnFlow`; comparisons in `Iteration`.
