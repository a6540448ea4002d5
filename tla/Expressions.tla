----------------------------- MODULE Expressions -----------------------------
(***************************************************************************)
(* Names, members, elements, pointers, slices, casts and braces: how the   *)
(* analyzer types them (analyzer.cpp) and which object the emitted code    *)
(* reads or writes (expr.cpp, stmt.cpp, type.cpp).                         *)
(*                                                                         *)
(* A behaviour parses a short function, a few declarations and an          *)
(* assignment, expression by expression, then visits its statements one by *)
(* one and emits them one by one.                                          *)
(*                                                                         *)
(* LLVM pointers have no type: every load and every address computation    *)
(* is emitted with the LLVM type the compiler believes in. The model knows *)
(* what is really at an address: a place is the type of an object and the  *)
(* path that leads to it from a variable. An access whose LLVM type is not *)
(* that of the object makes garbage.                                       *)
(*                                                                         *)
(* Methods, calls, global and const variables are left out.                *)
(***************************************************************************)
EXTENDS Types

CONSTANTS
    Declared,    \* the variables the function begins with: name -> [type, mut]
    Starts,      \* the expressions without operators: names, literals, braces
    Members,     \* the names behind dots
    CastTypes,   \* the types of casts
    DeclTypes,   \* the types of declarations, NoType when it is inferred
    NewNames,    \* the names of the variables declared, a sequence
    MaxSize      \* a bound on the operators and statements of the function

VARIABLES
    phase,     \* "parsing", "visiting", "emitting", "done", "refused", "crashed"
    stmts,     \* the statements of the function, those visited with their types
    pc,        \* the next statement to visit or to emit
    scope,     \* the type and mutability of the variables: name -> [type, mut]
    named,     \* named_values: name -> place
    parsed,    \* the expressions parsed of the next statement
    size,      \* how many operators and statements have been parsed
    effects    \* what each statement emitted does

exprVars == <<phase, stmts, pc, scope, named, parsed, size, effects>>

-----------------------------------------------------------------------------
(* Expressions and statements *)

\* Every node has its type, its set of immutable positions and the flag Immutable,
\* which the analyzer fills in.
Node(kind) == [kind |-> kind, type |-> NoType, mut |-> {}, imm |-> FALSE]
With(n, more) == [f \in DOMAIN n \cup DOMAIN more |-> IF f \in DOMAIN more THEN more[f] ELSE n[f]]

Sym(name)           == With(Node("sym"), [symbol |-> name])
Lit(type)           == With(Node("lit"), [type |-> type])
GroupE(e)           == With(Node("group"), [sub |-> e])
PtrOp(op, e)        == With(Node("ptrop"), [op |-> op, sub |-> e])
Cast(type, e)       == With(Node("cast"), [want |-> type, sub |-> e])
Index(e, i)         == With(Node("index"), [sub |-> e, index |-> i])
SliceE(e, bounded)  == With(Node("slice"), [sub |-> e, bounded |-> bounded])
Member(e, accessor) == With(Node("member"), [sub |-> e, accessor |-> accessor])
\* Elements are [name, value], the name may be empty.
Braces(elements)    == With(Node("braces"), [elements |-> elements])

Decl(name, let, type, init) ==
    [kind |-> "decl", name |-> name, let |-> let, typed |-> type # NoType, type |-> type,
     init |-> init]
Assign(lhs, rhs) == [kind |-> "assign", lhs |-> lhs, rhs |-> rhs]

\* What parse_primary puts behind an expression: `op' is the node without its operand.
\* Behind a member access it belongs to the accessor.
NoExpr == Node("missing")
RECURSIVE Postfix(_, _)
Postfix(e, op) ==
    IF e.kind = "member" THEN [e EXCEPT !.accessor = Postfix(@, op)] ELSE [op EXCEPT !.sub = e]

\* get_symbol: the name at the root of an expression.
RECURSIVE SymbolOf(_)
SymbolOf(e) ==
    CASE e.kind = "sym" -> e.symbol
      [] e.kind \in {"group", "index", "member"} -> SymbolOf(e.sub)
      [] OTHER -> ""

-----------------------------------------------------------------------------
(* The analyzer *)

Refused == [kind |-> "refused"]
Crashed == [kind |-> "crashed"]
Bad(r) == r.kind \in {"refused", "crashed"}
Bind(r, Op(_)) == IF Bad(r) THEN r ELSE Op(r)

\* The context of a visit: the expected type, the type found for the member on the
\* way to this node, whether it stands behind a dot, and the depth of visit_expr.
Ctx(want, depth) == [want |-> want, preset |-> NoType, member |-> FALSE, depth |-> depth]

Typed(e, type, mut) == [e EXCEPT !.type = type, !.mut = mut]

RECURSIVE Visit(_, _)

\* visit_expr: behind the visit, the bit of this depth becomes the flag Immutable.
Flagged(e, depth) == [e EXCEPT !.imm = @ \/ depth \in e.mut]

VisitExpr(e, c) == Bind(Visit(e, c), LAMBDA n : Flagged(n, c.depth))

\* Operands are visited in a new context that keeps only the flag of a member.
Operand(e, c) ==
    VisitExpr(e, [c EXCEPT !.want = NoType, !.preset = NoType, !.depth = @ + 1])

\* A symbol behind a dot is looked up in the type that was found for it; a symbol
\* where an enum is expected is one of its variants.
VisitSym(e, c) ==
    IF c.member
    THEN LET found == GetMember(c.preset, e.symbol)
         IN  Typed(e, IF found = NoType THEN c.preset ELSE found, {})
    ELSE IF c.want.kind = "enum" THEN
         IF e.symbol = "Variant" THEN Lit(c.want) ELSE Refused
    ELSE IF e.symbol \in DOMAIN scope
         THEN Typed(e, scope[e.symbol].type, scope[e.symbol].mut)
    ELSE Refused

VisitLit(e, c) ==
    IF c.want # NoType /\ CanCoerceInto(e.type, c.want) THEN Typed(e, c.want, {}) ELSE e

\* The target, then the member in the type of the target, then the accessor in the
\* type of the member.
VisitMember(e, c) ==
    IF ~c.member /\ SymbolOf(e.sub) \notin DOMAIN scope THEN Refused
    ELSE Bind(VisitExpr(e.sub, [c EXCEPT !.want = NoType, !.depth = @ + 1]), LAMBDA t :
         LET type == GetMember(t.type, SymbolOf(e.accessor))
         IN  IF type = NoType THEN Refused
             ELSE Bind(VisitExpr(e.accessor, [want |-> NoType, preset |-> type,
                                              member |-> TRUE, depth |-> c.depth + 1]), LAMBDA a :
                  Typed([e EXCEPT !.sub = t, !.accessor = a], a.type, t.mut)))

\* The index is visited last and leaves its mutability to the element.
VisitIndex(e, c) ==
    Bind(VisitExpr(e.sub, [c EXCEPT !.want = NoType, !.depth = @ + 1]), LAMBDA a :
    Bind(VisitExpr(e.index, Ctx(NoType, c.depth + 1)), LAMBDA i :
         IF IsInt(i.type) /\ IsArray(a.type)
         THEN Typed([e EXCEPT !.sub = a, !.index = i], Inner(a.type), i.mut)
         ELSE Refused))

\* `^' looks for the name of a type behind any operand as if it were a symbol.
VisitPtrOp(e, c) ==
    Bind(Operand(e.sub, c), LAMBDA t :
         IF e.op = "&" THEN Typed([e EXCEPT !.sub = t], Ptr(t.type), t.mut)
         ELSE IF t.kind # "sym" THEN Crashed
         ELSE IF ~IsPtr(t.type) THEN Refused
         ELSE Typed([e EXCEPT !.sub = t], Inner(t.type), t.mut))

\* The operand is given the type of the cast; its own is kept for op_cast.
VisitCast(e, c) ==
    Bind(VisitExpr(e.sub, [c EXCEPT !.want = e.want, !.preset = NoType, !.depth = @ + 1]),
         LAMBDA t : With(Typed(e, e.want, t.mut),
                         [original |-> t.type, sub |-> [t EXCEPT !.type = e.want]]))

\* The operand is visited as if it stood alone, even behind a dot. It leaves its mutability
\* to the slice, but bounds are visited after it and leave theirs, that of literals.
VisitSlice(e, c) ==
    Bind(VisitExpr(e.sub, Ctx(NoType, c.depth + 1)), LAMBDA t :
         IF IsArray(t.type) THEN Typed([e EXCEPT !.sub = t], Slice(Inner(t.type)), IF e.bounded THEN {} ELSE t.mut)
         ELSE Refused)

\* assign_named_indices from element i on: every element goes to the field `cursor',
\* which a name sets; a name that no field has sets it behind the fields, and the
\* elements that are more than the fields keep their position unset.
Unset == -1
RECURSIVE Placed(_, _, _, _)
Placed(elements, fields, i, cursor) ==
    IF i > Len(elements) THEN <<>>
    ELSE IF i > Len(fields)
         THEN <<With(elements[i], [pos |-> Unset])>> \o Placed(elements, fields, i + 1, cursor)
    ELSE LET hits == {f \in DOMAIN fields : fields[f].name = elements[i].name}
             pos  == IF elements[i].name = "" THEN cursor
                     ELSE IF hits = {} THEN Len(fields) + 1
                     ELSE CHOOSE f \in hits : \A g \in hits : f <= g
         IN  <<With(elements[i], [pos |-> pos])>> \o Placed(elements, fields, i + 1, pos + 1)

\* AnonInitExpr where no type is expected: its elements are the fields of a new struct.
VisitAnonymous(e, c) ==
    LET values == [i \in DOMAIN e.elements |-> Visit(e.elements[i].value, Ctx(NoType, c.depth))]
    IN  IF \E i \in DOMAIN values : e.elements[i].name = "" \/ Bad(values[i]) THEN Refused
        ELSE Typed([e EXCEPT !.elements = [i \in DOMAIN values |->
                        With(e.elements[i], [value |-> values[i], pos |-> i])]],
                   Anon([i \in DOMAIN values |->
                        [name |-> e.elements[i].name, type |-> values[i].type]]), {})

\* AnonInitExpr where a type is expected. Elements are not visited by visit_expr.
VisitBraces(e, c) ==
    LET real   == RealType(c.want)
        placed == Placed(e.elements, FieldsOf(real), 1, 1)
        visited == [i \in DOMAIN placed |->
            IF placed[i].pos \in DOMAIN FieldsOf(real)
            THEN With(placed[i], [value |-> Visit(placed[i].value,
                                      Ctx(FieldsOf(real)[placed[i].pos].type, c.depth))])
            ELSE placed[i]]
        fits(i) == IsEqual(FieldsOf(real)[visited[i].pos].type, visited[i].value.type)
    IN  IF c.want = NoType /\ e.elements # <<>> THEN VisitAnonymous(e, c)
        ELSE IF KindOf(real) # "struct" THEN Typed(e, real, {})
        ELSE IF \E i \in DOMAIN placed : placed[i].pos = Len(FieldsOf(real)) + 1 THEN Crashed
        ELSE IF \E i \in DOMAIN visited : visited[i].pos # Unset /\ Bad(visited[i].value) THEN Refused
        ELSE IF \E i \in DOMAIN visited : visited[i].pos # Unset /\ ~fits(i) THEN Refused
        ELSE Typed([e EXCEPT !.elements = visited], real, {})

Visit(e, c) ==
    CASE e.kind = "sym" -> VisitSym(e, c)
      [] e.kind = "lit" -> VisitLit(e, c)
      [] e.kind = "group" ->
            Bind(Operand(e.sub, c), LAMBDA t : Typed([e EXCEPT !.sub = t], t.type, t.mut))
      [] e.kind = "member" -> VisitMember(e, c)
      [] e.kind = "index" -> VisitIndex(e, c)
      [] e.kind = "ptrop" -> VisitPtrOp(e, c)
      [] e.kind = "cast" -> VisitCast(e, c)
      [] e.kind = "slice" -> VisitSlice(e, c)
      [] e.kind = "braces" -> VisitBraces(e, c)

\* AssignmentStmt
VisitAssign(s) ==
    Bind(VisitExpr(s.lhs, Ctx(NoType, 0)), LAMBDA l :
    Bind(VisitExpr(s.rhs, Ctx(l.type, 0)), LAMBDA r :
         IF IsEqual(l.type, r.type) \/ CanCoerceInto(l.type, r.type) THEN Assign(l, r)
         ELSE Refused))

\* The immutable positions of a declaration: the bit of `let' is in the TypeMeta that an
\* inferred type replaces; resolve_type replaces it by that of an alias, here empty.
MutOf(s) == IF s.let /\ s.type.kind \notin {"none", "alias"} THEN {0} ELSE {}

\* An array takes its size from its initializer, whatever it was declared with.
Sized(type, init) == IF type.kind = "array" THEN [type EXCEPT !.size = init.size] ELSE type

\* VarDeclStmt in a function.
VisitDecl(s) ==
    Bind(VisitExpr(s.init, Ctx(s.type, 0)), LAMBDA n :
         LET type == IF s.type = NoType THEN n.type ELSE s.type
         IN  IF n.type = NoType THEN Refused
             ELSE IF type.kind = "array" /\ n.type.kind # "array" THEN Crashed
             ELSE IF s.type # NoType /\ ~IsAssignableFrom(n.type, Sized(type, n.type)) THEN Refused
             ELSE With(s, [init |-> n, mut |-> MutOf(s), type |-> Sized(type, n.type)]))

VisitStmt(s) == IF s.kind = "decl" THEN VisitDecl(s) ELSE VisitAssign(s)

-----------------------------------------------------------------------------
(* Emission: the objects that are really touched *)

\* What a node emits: nothing (a null pointer in the compiler), the address of an
\* object, or a value. A value knows its LLVM type, and what it was read from.
Null == [kind |-> "null"]
Place(type, path, const) == [kind |-> "place", type |-> type, path |-> path, const |-> const]
Value(layout, type, path) == [kind |-> "value", layout |-> layout, type |-> type, path |-> path]
Garbage == Place([kind |-> "garbage"], <<"garbage">>, FALSE)

\* A load with the LLVM type of `type' from an address.
Load(type, at) ==
    IF at.kind = "place" /\ Layout(at.type) = Layout(type)
    THEN Value(Layout(type), at.type, at.path) ELSE Value(Layout(type), type, <<"garbage">>)

\* A value that is an LLVM pointer is an address again.
Target(v) == Place(Inner(v.type), Append(v.path, "*"), FALSE)
Address(r) == IF r.kind = "value" /\ r.layout = <<"ptr">> THEN Target(r) ELSE r

\* The address of a part of the object at an address, computed with the LLVM type of
\* `type', where the part is at `steps' and has the type `part'.
PartOf(type, at, part, steps) ==
    IF at.kind = "place" /\ Layout(at.type) = Layout(type)
    THEN Place(part, at.path \o steps, FALSE) ELSE Garbage

IndexSteps(i) == <<"[">> \o i.path \o <<"]">>
ElementOf(type, at, i) == PartOf(type, at, IF at.kind = "place" THEN Inner(at.type) ELSE NoType,
                                 IndexSteps(i))

\* The length of an array is a constant, its `ptr' the array itself.
ArrayAccess(type, at, name) ==
    CASE name = "length" -> Value(Layout(U32), U32, <<"size">>)
      [] name = "ptr" -> at
      [] OTHER -> Load(type.inner, ElementOf(type, at, [path |-> <<name>>]))

\* The length of a slice is loaded, of its pointer the address is taken.
SliceAccess(type, at, name) ==
    CASE name = "length" -> Load(U32, PartOf(type, at, U32, <<"length">>))
      [] name = "ptr" -> PartOf(type, at, Ptr(type.inner), <<"ptr">>)

\* The address of the first field of that name.
StructAccess(type, at, name) == PartOf(type, at, GetMember(type, name), <<name>>)

\* access_member. Pointers pass the address on to the type they point to.
RECURSIVE AccessMember(_, _, _)
AccessMember(type, at, name) ==
    CASE type.kind = "alias" -> AccessMember(type.target, at, name)
      [] type.kind \in {"pointer", "nil"} -> AccessMember(type.inner, at, name)
      [] type.kind \in {"struct", "anon"} -> StructAccess(type, at, name)
      [] type.kind = "array" -> ArrayAccess(type, at, name)
      [] type.kind = "slice" -> SliceAccess(type, at, name)

\* op_cast
OpCast(from, v, to) ==
    IF Bottom(from).kind = "enum" THEN (IF IsInt(to) THEN v ELSE Refused)
    ELSE IF KindOf(Bottom(from)) \notin IntegralKinds THEN Refused
    ELSE IF KindOf(RealType(to)) \notin IntegralKinds THEN Refused
    ELSE Value(Layout(to), RealType(to), v.path)

LiteralLayout(type) ==
    CASE Bottom(type).kind = "float" -> <<"double">>
      [] Bottom(type).kind = "pointer" -> <<"int", 64>>
      [] OTHER -> Layout(type)

Const(r, const) == IF r.kind = "place" THEN [r EXCEPT !.const = @ \/ const] ELSE r
NameOf(e) == SymbolOf(e.accessor)

RECURSIVE Emit(_), EmitPtr(_, _)

\* A fault: an element is always looked for in something that has a name.
EmitElementPtrAlone(n, pred) ==
    Bind(EmitPtr(n.sub, Null), LAMBDA array :
    Bind(Emit(n.index), LAMBDA i :
        IF array = Null THEN Crashed
        ELSE IF Bottom(n.sub.type).kind = "slice" THEN Garbage
        ELSE Const(ElementOf(n.sub.type, array, i), n.sub.imm)))

\* IndexOpExpr::emit_ptr. What the index is applied to is found without the
\* predecessor, which is only used if there is nothing of that name.
EmitElementPtr(n, pred) ==
    Bind(EmitPtr(n.sub, Null), LAMBDA a :
    Bind(Emit(n.index), LAMBDA i :
        LET array == IF a = Null THEN pred ELSE a
        IN  IF array = Null THEN Crashed
            ELSE IF Bottom(n.sub.type).kind = "slice" THEN Garbage
            ELSE Const(ElementOf(n.sub.type, array, i), n.sub.imm)))

\* A fault: a member of a pointer is looked for in the pointer itself.
EmitMemberUnloaded(n, target) ==
    Const(Address(AccessMember(n.sub.type, target, NameOf(n))), n.imm)

\* One pointer is followed on the way to the member.
EmitMember(n, target) ==
    LET object == IF IsPtr(n.sub.type) THEN Target(Load(n.sub.type, target)) ELSE target
        readonly == IsArray(n.sub.type) /\ NameOf(n) \in {"length", "ptr"}
    IN  Const(Address(AccessMember(n.sub.type, object, NameOf(n))), readonly \/ n.imm)

\* MemberAccessExpr::emit_ptr: the accessor gets the member as its predecessor.
EmitMemberPtr(n, pred) ==
    Bind(IF pred = Null THEN EmitPtr(n.sub, Null) ELSE pred, LAMBDA t :
        IF t = Null THEN Emit(n.accessor)
        ELSE LET result == EmitMember(n, t)
             IN  IF n.accessor.kind = "sym" THEN result
                 ELSE Bind(EmitPtr(n.accessor, result), LAMBDA a :
                           IF a = Null THEN result ELSE a))

EmitSlice(n) ==
    Bind(EmitPtr(n.sub, Null), LAMBDA a :
        IF ~n.bounded /\ n.sub.type.kind # "array" THEN Crashed
        ELSE IF Bottom(n.sub.type).kind # "array" THEN Refused
        ELSE IF a = Null THEN Crashed
        ELSE LET from == PartOf(n.sub.type, a, NoType, <<"..">>)
                      IN  Place(n.type, from.path, FALSE))

EmitPtrOp(n) ==
    Bind(EmitPtr(n.sub, Null), LAMBDA a :
        IF a.kind # "place" THEN Refused
        ELSE IF n.op = "&" THEN a
        ELSE IF n.type = Void THEN Refused
        ELSE Const(Target(Load(n.sub.type, a)), n.sub.imm))

EmitPtr(n, pred) ==
    CASE n.kind = "sym" -> IF n.symbol \in DOMAIN named THEN named[n.symbol] ELSE Null
      [] n.kind = "group" -> EmitPtr(n.sub, Null)
      [] n.kind = "index" -> EmitElementPtr(n, pred)
      [] n.kind = "member" -> EmitMemberPtr(n, pred)
      [] n.kind = "ptrop" -> EmitPtrOp(n)
      [] n.kind = "slice" -> EmitSlice(n)
      [] OTHER -> Null

\* The elements of braces are stored one by one; the value is named by its parts.
RECURSIVE EmitElements(_, _)
EmitElements(n, i) ==
    IF i > Len(n.elements) THEN Value(Layout(n.type), n.type, <<"}">>)
    ELSE LET e == n.elements[i]
         IN  IF e.pos \notin DOMAIN FieldsOf(n.type) THEN Crashed
             ELSE LET f == FieldsOf(n.type)[e.pos]
                  IN  Bind(Emit(e.value), LAMBDA v :
                      Bind(EmitElements(n, i + 1), LAMBDA rest :
                        [rest EXCEPT !.path = <<f.name>> \o
                            (IF v.layout = Layout(f.type) THEN v.path ELSE <<"garbage">>) \o @]))

Emit(n) ==
    CASE n.kind = "lit" -> Value(LiteralLayout(n.type), n.type, <<"literal">>)
      [] n.kind = "sym" -> Bind(EmitPtr(n, Null), LAMBDA a : IF a = Null THEN Null ELSE Load(n.type, a))
      [] n.kind = "group" -> Emit(n.sub)
      [] n.kind = "cast" -> Bind(Emit(n.sub), LAMBDA v : OpCast(n.original, v, n.type))
      [] n.kind = "index" ->
            Bind(EmitPtr(n.sub, Null), LAMBDA a :
                IF a = Null THEN Crashed
                ELSE Bind(Emit(n.index), LAMBDA i :
                     Load(Inner(n.sub.type), ElementOf(n.sub.type, a, i))))
      [] n.kind = "slice" -> Bind(EmitSlice(n), LAMBDA a : Load(n.type, a))
      [] n.kind = "member" ->
            Bind(EmitPtr(n, Null), LAMBDA a : IF a.kind = "place" THEN Load(n.type, a) ELSE a)
      [] n.kind = "ptrop" ->
            Bind(EmitPtrOp(n), LAMBDA a :
                IF n.op = "&" THEN Value(<<"ptr">>, Ptr(a.type), Append(a.path, "&"))
                ELSE Load(Inner(n.sub.type), a))
      [] n.kind = "braces" ->
            IF n.elements = <<>> THEN Value(Layout(n.type), n.type, <<"default">>)
            ELSE IF KindOf(n.type) # "struct" THEN Crashed
            ELSE EmitElements(n, 1)

\* A store: of what, and into which object.
Store(v, at) ==
    [kind |-> "store", to |-> at.path,
     from |-> IF v.layout = Layout(at.type) THEN v.path ELSE <<"garbage">>]

\* A fault: the mark of what cannot be assigned to is not looked at.
EmitAssignUnmarked(s) ==
    Bind(EmitPtr(s.lhs, Null), LAMBDA l :
    IF l.kind # "place" THEN Refused
    ELSE Bind(Emit(s.rhs), LAMBDA v : Store(v, l)))

\* AssignmentStmt::emit with `='. Braces and slices have been stored by themselves.
EmitAssign(s) ==
    Bind(EmitPtr(s.lhs, Null), LAMBDA l :
    IF l = Null THEN Crashed
    ELSE IF l.kind # "place" THEN Refused
    ELSE IF l.const THEN Refused
    ELSE
         Bind(Emit(s.rhs), LAMBDA v :
            IF v = Null THEN [kind |-> "nothing"]
            ELSE IF s.rhs.kind \in {"braces", "slice"} \/ ~CanCoerceInto(s.lhs.type, s.rhs.type) THEN Store(v, l)
            ELSE IF Bottom(s.lhs.type).kind = "array" THEN Store(Load(s.lhs.type, Garbage), l)
            ELSE Bind(OpCast(s.lhs.type, v, s.lhs.type), LAMBDA c : Store(c, l))))

\* A fault: the variable is as large as the value it begins with.
VariableOfInit(s) == Place(s.init.type, <<s.name>>, 0 \in s.mut)

\* VarDeclStmt::init of a variable in a function: no conversion.
Variable(s) == Place(s.type, <<s.name>>, 0 \in s.mut)

EmitDecl(s) ==
    Bind(Emit(s.init), LAMBDA v :
        IF v = Null THEN [kind |-> "nothing"] ELSE Store(v, Variable(s)))

-----------------------------------------------------------------------------
(* The function *)

Init ==
    /\ phase = "parsing"
    /\ stmts = <<>> /\ pc = 1 /\ parsed = <<>> /\ size = 0 /\ effects = <<>>
    /\ scope = Declared
    /\ named = [x \in DOMAIN Declared |-> Place(Declared[x].type, <<x>>, 0 \in Declared[x].mut)]

\* How many variables have been declared.
Locals == Cardinality({i \in DOMAIN stmts : stmts[i].kind = "decl"})
Visible == DOMAIN Declared \cup {NewNames[i] : i \in 1..Locals}

\* An assignment is the last statement: it changes nothing later ones depend on.
Begin ==
    /\ phase = "parsing" /\ size < MaxSize
    /\ Len(parsed) < 2
    /\ \A i \in DOMAIN stmts : stmts[i].kind = "decl"
    /\ parsed # <<>> => parsed[1].kind \notin {"lit", "braces"}
    /\ \E e \in Starts : /\ e.kind = "sym" => e.symbol \in Visible
                         /\ parsed' = Append(parsed, e)
    /\ UNCHANGED <<phase, stmts, pc, scope, named, size, effects>>

\* parse_primary and parse_unary: what may stand behind an expression or before it.
Postfixes == {Index(NoExpr, Lit(I32)), SliceE(NoExpr, TRUE), SliceE(NoExpr, FALSE)}
Prefixes  == {GroupE(NoExpr), PtrOp("&", NoExpr), PtrOp("^", NoExpr)}
                \cup {Cast(type, NoExpr) : type \in CastTypes}
Grown(e) ==
    {Postfix(e, op) : op \in IF e.kind \in {"ptrop", "cast"} THEN {} ELSE Postfixes}
    \cup {[op EXCEPT !.sub = e] : op \in Prefixes}
    \cup IF e.kind \in {"ptrop", "cast"} THEN {}
         ELSE {Postfix(e, Member(NoExpr, Sym(m))) : m \in Members}

Grow ==
    /\ phase = "parsing" /\ parsed # <<>> /\ size + 1 < MaxSize
    /\ parsed[Len(parsed)].kind \notin {"lit", "braces"}
    /\ \E e \in Grown(parsed[Len(parsed)]) : parsed' = [parsed EXCEPT ![Len(parsed)] = e]
    /\ size' = size + 1
    /\ UNCHANGED <<phase, stmts, pc, scope, named, effects>>

\* parse_assignment and parse_var_decl.
ParseStmt ==
    /\ phase = "parsing"
    /\ \/ Len(parsed) = 2 /\ stmts' = Append(stmts, Assign(parsed[1], parsed[2]))
       \/ /\ Len(parsed) = 1 /\ Locals < Len(NewNames)
          /\ \E let \in BOOLEAN, type \in DeclTypes :
                stmts' = Append(stmts, Decl(NewNames[Locals + 1], let, type, parsed[1]))
    /\ parsed' = <<>> /\ size' = size + 1
    /\ UNCHANGED <<phase, pc, scope, named, effects>>

EndOfFunction ==
    /\ phase = "parsing" /\ parsed = <<>> /\ stmts # <<>>
    /\ phase' = "visiting"
    /\ UNCHANGED <<stmts, pc, scope, named, parsed, size, effects>>

\* The scope of a variable begins behind its declaration.
VisitNext ==
    /\ phase = "visiting"
    /\ LET r == VisitStmt(stmts[pc])
       IN  IF Bad(r)
           THEN /\ phase' = r.kind
                /\ UNCHANGED <<stmts, pc, scope>>
           ELSE /\ stmts' = [stmts EXCEPT ![pc] = r]
                /\ phase' = IF pc = Len(stmts) THEN "emitting" ELSE phase
                /\ pc' = IF pc = Len(stmts) THEN 1 ELSE pc + 1
                /\ scope' = IF r.kind = "assign" THEN scope
                            ELSE With(scope, [x \in {r.name} |-> [type |-> r.type, mut |-> r.mut]])
    /\ UNCHANGED <<named, parsed, size, effects>>

EmitNext ==
    /\ phase = "emitting"
    /\ LET s == stmts[pc]
           effect == IF s.kind = "decl" THEN EmitDecl(s) ELSE EmitAssign(s)
       IN  IF Bad(effect)
           THEN /\ phase' = effect.kind
                /\ UNCHANGED <<pc, named, effects>>
           ELSE /\ effects' = Append(effects, effect)
                /\ named' = IF s.kind = "assign" THEN named
                            ELSE With(named, [x \in {s.name} |-> Variable(s)])
                /\ phase' = IF pc = Len(stmts) THEN "done" ELSE phase
                /\ pc' = pc + 1
    /\ UNCHANGED <<stmts, scope, parsed, size>>

Next == Begin \/ Grow \/ ParseStmt \/ EndOfFunction \/ VisitNext \/ EmitNext

Spec == Init /\ [][Next]_exprVars

-----------------------------------------------------------------------------
(* What the source means *)

\* The object or value an expression denotes, read from the left to the right with the
\* declared types and nothing else. Behind a dot names are those of members of `base'.
\* The variables are those visible while the statement is visited.
Meaningless == [kind |-> "meaningless"]
Known(r, Op(_)) == IF r = Meaningless THEN r ELSE Op(r)

RECURSIVE Through(_)
Through(r) == IF IsPtr(r.type) THEN Through(Place(Inner(r.type), Append(r.path, "*"), FALSE)) ELSE r

MemberOf(base, name) ==
    LET b == Through(base)
        type == GetMember(b.type, name)
    IN  IF type = NoType THEN Meaningless
        ELSE IF IsArray(b.type) /\ name = "length" THEN
                Value(Layout(U32), U32, IF Bottom(b.type).kind = "array"
                                        THEN <<"size">> ELSE Append(b.path, name))
        ELSE IF IsArray(b.type) /\ name \notin {"length", "ptr"} THEN
                Place(type, b.path \o <<"[", name, "]">>, FALSE)
        ELSE Place(type, Append(b.path, name), FALSE)

RECURSIVE Denoted(_, _, _)
Denoted(e, base, vars) ==
    CASE e.kind = "sym" ->
            (IF base # Null THEN MemberOf(base, e.symbol)
             ELSE IF e.symbol \in DOMAIN vars THEN Place(vars[e.symbol].type, <<e.symbol>>, FALSE)
             ELSE Meaningless)
      [] e.kind = "lit" -> Value(LiteralLayout(e.type), e.type, <<"literal">>)
      [] e.kind = "group" -> Denoted(e.sub, base, vars)
      [] e.kind = "cast" ->
            Known(Denoted(e.sub, base, vars), LAMBDA t :
                IF IsInt(t.type) /\ IsInt(e.want) THEN Value(Layout(e.want), e.want, t.path)
                ELSE Meaningless)
      [] e.kind = "member" ->
            Known(Denoted(e.sub, base, vars), LAMBDA t : Denoted(e.accessor, t, vars))
      [] e.kind = "index" ->
            Known(Denoted(e.sub, base, vars), LAMBDA t :
                IF IsArray(t.type)
                THEN Place(Inner(t.type), t.path \o <<"[", "literal", "]">>, FALSE) ELSE Meaningless)
      [] e.kind = "slice" ->
            Known(Denoted(e.sub, base, vars), LAMBDA t :
                IF IsArray(t.type) THEN Place(Slice(Inner(t.type)), Append(t.path, ".."), FALSE)
                ELSE Meaningless)
      [] e.kind = "ptrop" ->
            Known(Denoted(e.sub, base, vars), LAMBDA t :
                CASE e.op = "&" /\ t.kind = "place" ->
                        Value(<<"ptr">>, Ptr(t.type), Append(t.path, "&"))
                  [] e.op = "^" /\ IsPtr(t.type) -> Place(Inner(t.type), Append(t.path, "*"), FALSE)
                  [] OTHER -> Meaningless)
      [] OTHER -> Meaningless

\* The part of the language that has this meaning. Every condition stands for an
\* expression the compiler accepts and gives another meaning, or crashes over:
\*   - elements of slices are only read, and only as a whole expression;
\*   - of a member only an array that is no element itself is indexed, and only if no
\*     variable has its name; a member is not sliced;
\*   - no member has a type with another member of its name;
\*   - pointers to pointers have no members; `ptr' and named elements of
\*     arrays are not used;
\*   - only names are dereferenced, and what that gives has no members;
\*   - what is cast does not begin with a name, except behind an operator.
PlainMember(base, name) ==
    /\ name # "ptr" \/ Bottom(base.type).kind # "array"
    /\ IsPtr(base.type) => ~IsPtr(Inner(base.type))
    /\ ~(IsArray(Through(base).type) /\ name \notin {"length", "ptr"})
    /\ GetMember(GetMember(base.type, name), name) \in {NoType, GetMember(base.type, name)}

RECURSIVE PlainAccessor(_, _, _), PlainPlace(_, _), PlainValue(_, _)
PlainAccessor(a, base, vars) ==
    /\ PlainMember(base, SymbolOf(a))
    /\ CASE a.kind = "sym" -> TRUE
         [] a.kind = "index" ->
               /\ a.sub.kind = "sym" /\ a.sub.symbol \notin DOMAIN vars
               /\ LET t == MemberOf(base, a.sub.symbol)
                  IN  t # Meaningless /\ t.kind = "place" /\ Bottom(t.type).kind = "array"
         [] a.kind = "member" ->
               LET t == Denoted(a.sub, base, vars)
               IN  /\ a.sub.kind = "sym" /\ t # Meaningless
                   /\ PlainAccessor(a.accessor, t, vars)
         [] OTHER -> FALSE

PlainPlace(e, vars) ==
    CASE e.kind = "sym" -> TRUE
      [] e.kind = "group" -> PlainPlace(e.sub, vars)
      [] e.kind = "ptrop" -> e.op = "^" /\ e.sub.kind = "sym"
      [] e.kind = "index" ->
            /\ PlainPlace(e.sub, vars)
            /\ LET t == Denoted(e.sub, Null, vars)
               IN  t # Meaningless /\ Bottom(t.type).kind = "array"
      [] e.kind = "member" ->
            /\ PlainPlace(e.sub, vars) /\ SymbolOf(e.sub) # ""
            /\ LET t == Denoted(e.sub, Null, vars)
               IN  t # Meaningless /\ PlainAccessor(e.accessor, t, vars)
      [] OTHER -> FALSE

PlainValue(e, vars) ==
    CASE e.kind = "lit" -> TRUE
      [] e.kind \in {"sym", "member"} -> PlainPlace(e, vars)
      [] e.kind = "group" -> PlainPlace(e, vars)
      [] e.kind = "index" -> PlainPlace(e.sub, vars)
      [] e.kind = "ptrop" -> PlainPlace(IF e.op = "&" THEN e.sub ELSE e, vars)
      [] e.kind = "slice" ->
            /\ PlainPlace(e.sub, vars)
            /\ LET t == Denoted(e.sub, Null, vars) IN t # Meaningless /\ t.type.kind = "array"
      [] e.kind = "cast" -> e.sub.kind \in {"group", "index"} /\ PlainValue(e.sub, vars)
      [] OTHER -> FALSE

LhsOf(s) == IF s.kind = "decl" THEN Sym(s.name) ELSE s.lhs
RhsOf(s) == IF s.kind = "decl" THEN s.init ELSE s.rhs
Source(s) == Denoted(RhsOf(s), Null, scope)
Sink(s)   == IF s.kind = "decl"
             THEN Place(IF s.type = NoType THEN Source(s).type ELSE s.type, <<s.name>>, FALSE)
             ELSE Denoted(s.lhs, Null, scope)

PlainStmt(s) ==
    /\ PlainPlace(LhsOf(s), scope) /\ PlainValue(RhsOf(s), scope)
    /\ Source(s) # Meaningless /\ Sink(s).kind = "place"

\* The value is as wide as the object, or an assignment converts it.
Storable(s) ==
    \/ Layout(Sink(s).type) =
          IF Source(s).kind = "value" THEN Source(s).layout ELSE Layout(Source(s).type)
    \/ s.kind = "assign" /\ IsInt(Sink(s).type) /\ CanCoerceInto(Sink(s).type, Source(s).type)

WellTyped(s) ==
    IF s.kind = "decl"
    THEN /\ IsAssignableFrom(Source(s).type, Sink(s).type)
         /\ Sink(s).type.kind = "array" => Source(s).type.kind = "array"
    ELSE IsEqual(Sink(s).type, Source(s).type) \/ CanCoerceInto(Sink(s).type, Source(s).type)

\* The variables that the function declares with let: those whose type is inferred, or those
\* with a type that is no alias.
Lets(inferred) ==
    {stmts[i].name : i \in {j \in DOMAIN stmts :
        /\ stmts[j].kind = "decl" /\ stmts[j].let /\ stmts[j].typed # inferred
        /\ (inferred \/ stmts[j].type.kind # "alias")}}

\* Those whose mark gets as far as the assignment: with a type that is no alias.
Marked == {x \in DOMAIN Declared : 0 \in Declared[x].mut} \cup Lets(FALSE)

-----------------------------------------------------------------------------
(* Properties *)

\* The emitter only knows the variables of the analyzer, with the same types, and has
\* emitted the statements before pc.
TypeOK ==
    /\ phase \in {"parsing", "visiting", "emitting", "done", "refused", "crashed"}
    /\ pc \in 1..Len(stmts) + 1 /\ Len(parsed) <= 2 /\ size \in 0..MaxSize
    /\ DOMAIN named \subseteq DOMAIN scope
    /\ \A x \in DOMAIN named : named[x].type = scope[x].type /\ named[x].path = <<x>>
    /\ Len(effects) = IF phase = "done" THEN Len(stmts)
                      ELSE Cardinality(DOMAIN named \ DOMAIN Declared)
                           + Cardinality({i \in 1..Len(effects) : stmts[i].kind = "assign"})

\* Every plain statement reads and writes the very objects its source names, through
\* every member, element, pointer, slice and cast, with the LLVM types these objects
\* have, and an inferred declaration gets the type of what it names (Analyzer::visit,
\* emit and emit_ptr of expr.cpp, AssignmentStmt::emit, VarDeclStmt::init).
PlainMeansSource ==
    \A i \in DOMAIN effects :
        LET s == stmts[i]
        IN  PlainStmt(s) /\ Storable(s) =>
            /\ effects[i] = [kind |-> "store", to |-> Sink(s).path, from |-> Source(s).path]
            /\ s.kind = "decl" /\ ~s.typed => s.type = Source(s).type

\* No plain and well-typed statement is refused, unless it assigns to what is declared with
\* let and a type that is no alias, and none crashes the compiler (Analyzer::visit, emit and
\* emit_ptr of expr.cpp, AssignmentStmt::emit).
PlainCompiles ==
    phase \in {"refused", "crashed"} =>
        LET s == stmts[pc]
        IN  ~(/\ PlainStmt(s) /\ WellTyped(s)
              /\ s.kind = "assign" => Sink(s).path[1] \notin Marked)

\* A variable declared with let and a type that is no alias is never assigned to, and neither
\* is a field of it, by its name or a member access: the mark goes from the declaration
\* through mut_set and ExprFlags::Immutable or the metadata `Const' to the assignment. What
\* lies deeper is not protected: fields of fields, elements, and what pointers lead to.
ImmutableIsKept ==
    \A i \in DOMAIN effects :
        LET s == stmts[i]
            to == effects[i].to
        IN  /\ s.kind = "assign" /\ s.lhs.kind \in {"sym", "member"}
            /\ effects[i].kind = "store" /\ to[1] \in Marked
            => Len(to) > 2

\* Of the documentation: what is declared by let cannot be reassigned (readme.md:134), here
\* when its type is inferred.
LetIsKept ==
    \A i \in DOMAIN effects :
        stmts[i].kind = "assign" /\ effects[i].kind = "store" /\ Len(effects[i].to) = 1
        => effects[i].to[1] \notin Lets(TRUE)
=============================================================================
