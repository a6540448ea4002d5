---------------------------- MODULE Modules_proofs ----------------------------
(***************************************************************************)
(* Proofs about get_module and its recursion for every set of programs,    *)
(* whatever their files import.                                            *)
(*                                                                         *)
(* MInv is about the table of modules and the calls of get_module under    *)
(* way, NInv about the names: where each entry of a table comes from, what *)
(* is global, how a call was resolved and under which name it is emitted.  *)
(***************************************************************************)
EXTENDS Modules, Lemmas

\* The definitions the invariant is about, with the files, the modules and the calls
\* under way as parameters.
CachedIn(ms, file) == {i \in DOMAIN ms : ms[i].file = file}

\* Registering a module adds no include path under which a file is found: the module
\* has been read from one.
FoundIn(files, p) == {r \in 1..Root : <<r, p>> \in DOMAIN files}
FileIn(files, p) ==
    <<CHOOSE r \in FoundIn(files, p) : \A s \in FoundIn(files, p) : r <= s, p>>

ItemAt(files, ms, i) == files[ms[i].file][ms[i].next]
AnalyzedIn(files, ms, i) == ms[i].next > Len(files[ms[i].file])

\* Module i waits at an import of module j.
WaitsFor(files, ms, i, j) ==
    /\ ~AnalyzedIn(files, ms, i)
    /\ ItemAt(files, ms, i).kind # "fn" /\ FoundIn(files, ItemAt(files, ms, i).path) # {}
    /\ CachedIn(ms, FileIn(files, ItemAt(files, ms, i).path)) = {j}

\* A record of the table, as far as its file goes.
IsModule(m) == "file" \in DOMAIN m

IsSeq(s) == \E S : s \in Seq(S)

\* The table of modules, read from files, at most one from each.
TableOK(files, ms) ==
    /\ IsSeq(ms)
    /\ \A i \in DOMAIN ms : IsModule(ms[i]) /\ ms[i].file \in DOMAIN files
    /\ \A i, j \in DOMAIN ms : ms[i].file = ms[j].file => i = j

\* The calls of get_module under way: of different modules, each but the last waiting
\* for the next one; the modules not under way are complete.
StackOK(files, ms, st) ==
    /\ st \in Seq(DOMAIN ms)
    /\ \A k, l \in DOMAIN st : st[k] = st[l] => k = l
    /\ \A k \in 1..(Len(st) - 1) : WaitsFor(files, ms, st[k], st[k + 1])
    /\ \A i \in DOMAIN ms : AnalyzedIn(files, ms, i) \/ \E k \in DOMAIN st : st[k] = i

\* The inductive invariant.
MInv == TableOK(program, modules) /\ StackOK(program, modules, stack)

-----------------------------------------------------------------------------
(* Finding files *)

\* What the model calls found is what the disk has.
LEMMA FoundOnDisk ==
    ASSUME TableOK(program, modules), NEW p
    PROVE  Found(p) = FoundIn(program, p) /\ FileOf(p) = FileIn(program, p)
<1>1. \A file : Cached(file) = CachedIn(modules, file)
  BY DEF Cached, CachedIn
<1>2. \A file : CachedIn(modules, file) # {} => file \in DOMAIN program
  BY DEF CachedIn, TableOK
<1>3. Found(p) = FoundIn(program, p)
  BY <1>1, <1>2 DEF Found, FoundIn
<1> QED
  BY <1>3 DEF FileOf, FileIn

\* The file found is on disk.
LEMMA FileExists ==
    ASSUME NEW files, NEW p, FoundIn(files, p) # {}
    PROVE  FileIn(files, p) \in DOMAIN files
<1>1. FoundIn(files, p) \in SUBSET Nat
  BY ModulesAssumption DEF FoundIn
<1>2. \E r \in FoundIn(files, p) : \A s \in FoundIn(files, p) : r <= s
  BY <1>1, LeastNatural
<1> DEFINE least == CHOOSE r \in FoundIn(files, p) : \A s \in FoundIn(files, p) : r <= s
<1>3. least \in FoundIn(files, p)
  BY <1>2
<1> HIDE DEF least
<1>4. <<least, p>> \in DOMAIN files
  BY <1>3 DEF FoundIn
<1> QED
  BY <1>4 DEF FileIn, least

-----------------------------------------------------------------------------
(* Changes of the table *)

\* A module goes on: its file stays, and so does all that is known of the others.
LEMMA GoOnTable ==
    ASSUME NEW files, NEW ms, TableOK(files, ms), NEW i \in DOMAIN ms, NEW after,
           IsSeq(after), DOMAIN after = DOMAIN ms,
           IsModule(after[i]), after[i].file = ms[i].file,
           \A j \in DOMAIN ms : j # i => after[j] = ms[j]
    PROVE  /\ TableOK(files, after)
           /\ \A file : CachedIn(after, file) = CachedIn(ms, file)
<1>1. \A j \in DOMAIN ms : IsModule(after[j]) /\ after[j].file = ms[j].file
  BY DEF TableOK
<1>2. \A file : CachedIn(after, file) = CachedIn(ms, file)
  BY <1>1 DEF CachedIn
<1>3. TableOK(files, after)
  BY <1>1 DEF TableOK
<1> QED
  BY <1>2, <1>3

\* What an update and an extension make of a sequence.
LEMMA UpdatedSeq ==
    ASSUME NEW s, IsSeq(s), NEW i \in DOMAIN s, NEW e
    PROVE  LET t == [s EXCEPT ![i] = e]
           IN  /\ IsSeq(t) /\ DOMAIN t = DOMAIN s /\ t[i] = e
               /\ \A j \in DOMAIN s : j # i => t[j] = s[j]
<1>1. PICK S : s \in Seq(S)
  BY DEF IsSeq
<1>2. s \in Seq(S \cup {e}) /\ e \in S \cup {e}
  BY <1>1
<1>3. [s EXCEPT ![i] = e] \in Seq(S \cup {e})
  BY <1>2
<1> QED
  BY <1>1, <1>3 DEF IsSeq

LEMMA ExtendedSeq ==
    ASSUME NEW s, IsSeq(s), NEW e
    PROVE  LET t == Append(s, e)
           IN  /\ IsSeq(t) /\ Len(s) \in Nat /\ DOMAIN s = 1..Len(s)
               /\ DOMAIN t = DOMAIN s \cup {Len(s) + 1} /\ Len(s) + 1 \notin DOMAIN s
               /\ t[Len(s) + 1] = e
               /\ \A j \in DOMAIN s : t[j] = s[j]
<1>1. PICK S : s \in Seq(S)
  BY DEF IsSeq
<1>2. s \in Seq(S \cup {e}) /\ e \in S \cup {e}
  BY <1>1
<1>3. Append(s, e) \in Seq(S \cup {e})
  BY <1>2
<1> QED
  BY <1>1, <1>3 DEF IsSeq

\* A module is registered: it is the first one of its file.
LEMMA RegisterTable ==
    ASSUME NEW files, NEW ms, TableOK(files, ms), NEW after, NEW n,
           IsSeq(after), DOMAIN after = DOMAIN ms \cup {n}, n \notin DOMAIN ms,
           IsModule(after[n]), after[n].file \in DOMAIN files, CachedIn(ms, after[n].file) = {},
           \A j \in DOMAIN ms : after[j] = ms[j]
    PROVE  /\ TableOK(files, after)
           /\ CachedIn(after, after[n].file) = {n}
           /\ \A file : CachedIn(ms, file) # {} => CachedIn(after, file) = CachedIn(ms, file)
<1>1. \A j \in DOMAIN ms : ms[j].file # after[n].file
  BY DEF CachedIn
<1>2. TableOK(files, after)
  <2>1. \A j \in DOMAIN after : IsModule(after[j]) /\ after[j].file \in DOMAIN files
    BY DEF TableOK
  <2>2. \A j, k \in DOMAIN after : after[j].file = after[k].file => j = k
    BY <1>1 DEF TableOK
  <2> QED
    BY <2>1, <2>2 DEF TableOK
<1>3. CachedIn(after, after[n].file) = {n}
  BY <1>1 DEF CachedIn
<1>4. ASSUME NEW file, CachedIn(ms, file) # {}
      PROVE  CachedIn(after, file) = CachedIn(ms, file)
  <2>1. file # after[n].file
    BY <1>4
  <2> QED
    BY <2>1 DEF CachedIn
<1> QED
  BY <1>2, <1>3, <1>4

-----------------------------------------------------------------------------
(* Changes of the stack *)

\* A module that waits goes on waiting as long as it is not changed itself.
LEMMA StillWaits ==
    ASSUME NEW files, NEW ms, NEW after, NEW i, NEW j, WaitsFor(files, ms, i, j),
           after[i] = ms[i],
           \A file : CachedIn(ms, file) # {} => CachedIn(after, file) = CachedIn(ms, file)
    PROVE  WaitsFor(files, after, i, j)
BY DEF WaitsFor, AnalyzedIn, ItemAt

\* The module whose analysis is under way goes on.
LEMMA GoOnStack ==
    ASSUME NEW files, NEW ms, NEW st, StackOK(files, ms, st), Len(st) > 0,
           NEW after, DOMAIN after = DOMAIN ms,
           \A j \in DOMAIN ms : j # st[Len(st)] => after[j] = ms[j],
           \A file : CachedIn(after, file) = CachedIn(ms, file)
    PROVE  StackOK(files, after, st)
<1> DEFINE len == Len(st)
<1>1. /\ st \in Seq(DOMAIN ms) /\ len \in Nat /\ len > 0 /\ len \in DOMAIN st
      /\ DOMAIN st = 1..len /\ \A k \in DOMAIN st : st[k] \in DOMAIN ms
  BY DEF StackOK
<1>2. ASSUME NEW k \in 1..(len - 1)
      PROVE  WaitsFor(files, after, st[k], st[k + 1])
  <2>1. k \in DOMAIN st /\ k # len
    <3>1. len \in Nat /\ DOMAIN st = 1..len
      BY <1>1
    <3> HIDE DEF len
    <3> QED
      BY <3>1
  <2>2. st[k] # st[len]
    BY <1>1, <2>1 DEF StackOK
  <2>3. after[st[k]] = ms[st[k]]
    BY <1>1, <2>1, <2>2
  <2>4. WaitsFor(files, ms, st[k], st[k + 1])
    BY DEF StackOK
  <2> QED
    BY <2>3, <2>4, StillWaits
<1>3. ASSUME NEW i \in DOMAIN after
      PROVE  AnalyzedIn(files, after, i) \/ \E k \in DOMAIN st : st[k] = i
  <2>1. CASE i = st[Len(st)]
    BY <1>1, <2>1
  <2>2. CASE i # st[Len(st)]
    BY <2>2 DEF StackOK, AnalyzedIn
  <2> QED
    BY <2>1, <2>2
<1> QED
  BY <1>1, <1>2, <1>3 DEF StackOK

\* A new call of get_module, for the import at which the caller is, or by main.
LEMMA PushStack ==
    ASSUME NEW files, NEW ms, NEW st, StackOK(files, ms, st),
           NEW after, NEW n, DOMAIN after = DOMAIN ms \cup {n}, n \notin DOMAIN ms,
           \A j \in DOMAIN ms : after[j] = ms[j],
           CachedIn(after, after[n].file) = {n},
           \A file : CachedIn(ms, file) # {} => CachedIn(after, file) = CachedIn(ms, file),
           Len(st) > 0 => /\ ~AnalyzedIn(files, ms, st[Len(st)])
                          /\ ItemAt(files, ms, st[Len(st)]).kind # "fn"
                          /\ FoundIn(files, ItemAt(files, ms, st[Len(st)]).path) # {}
                          /\ after[n].file = FileIn(files, ItemAt(files, ms, st[Len(st)]).path)
    PROVE  StackOK(files, after, Append(st, n))
<1> DEFINE longer == Append(st, n)
           len == Len(st)
<1>1. /\ st \in Seq(DOMAIN ms) /\ len \in Nat
      /\ DOMAIN st = 1..len /\ \A k \in DOMAIN st : st[k] \in DOMAIN ms
  BY DEF StackOK
<1>2. /\ longer \in Seq(DOMAIN after) /\ Len(longer) = len + 1
      /\ DOMAIN longer = 1..(len + 1)
      /\ longer[len + 1] = n /\ \A k \in 1..len : longer[k] = st[k]
  <2>1. st \in Seq(DOMAIN after) /\ n \in DOMAIN after
    BY <1>1
  <2> QED
    BY <1>1, <2>1
<1>3. \A k, l \in DOMAIN longer : longer[k] = longer[l] => k = l
  <2> SUFFICES ASSUME NEW k \in 1..(len + 1), NEW l \in 1..(len + 1), longer[k] = longer[l]
               PROVE  k = l
    BY <1>2
  <2> HIDE DEF longer, len
  <2>1. CASE k = len + 1 \/ l = len + 1
    BY <1>1, <1>2, <2>1
  <2>2. CASE k # len + 1 /\ l # len + 1
    <3>1. k \in DOMAIN st /\ l \in DOMAIN st /\ st[k] = st[l]
      BY <1>1, <1>2, <2>2
    <3> QED
      BY <3>1 DEF StackOK
  <2> QED
    BY <2>1, <2>2
<1> HIDE DEF longer
<1>4. ASSUME NEW k \in 1..len
      PROVE  WaitsFor(files, after, longer[k], longer[k + 1])
  <2>1. longer[k] = st[k] /\ st[k] \in DOMAIN ms /\ after[st[k]] = ms[st[k]]
    BY <1>1, <1>2
  <2>2. CASE k = len
    <3>1. WaitsFor(files, after, st[len], n)
      BY <1>1, <2>1, <2>2 DEF WaitsFor, AnalyzedIn, ItemAt
    <3> QED
      BY <1>2, <2>1, <2>2, <3>1
  <2>3. CASE k # len
    <3>0. len \in Nat
      BY <1>1
    <3>1. k \in 1..(len - 1) /\ k + 1 \in 1..len
      BY <2>3, <3>0
    <3>2. WaitsFor(files, ms, st[k], st[k + 1])
      BY <3>1 DEF StackOK
    <3>3. WaitsFor(files, after, st[k], st[k + 1])
      BY <2>1, <3>2, StillWaits
    <3> QED
      BY <1>2, <2>1, <3>1, <3>3
  <2> QED
    BY <2>2, <2>3
<1>5. ASSUME NEW i \in DOMAIN after
      PROVE  AnalyzedIn(files, after, i) \/ \E k \in DOMAIN longer : longer[k] = i
  <2>1. CASE i = n
    BY <1>1, <1>2, <2>1
  <2>2. CASE i # n
    <3>1. AnalyzedIn(files, ms, i) \/ \E k \in DOMAIN st : st[k] = i
      BY <2>2 DEF StackOK
    <3>2. \A k \in DOMAIN st : k \in DOMAIN longer /\ longer[k] = st[k]
      BY <1>1, <1>2
    <3> QED
      BY <2>2, <3>1, <3>2 DEF AnalyzedIn
  <2> QED
    BY <2>1, <2>2
<1>6. Len(longer) - 1 = len
  BY <1>1, <1>2
<1>7. StackOK(files, after, longer)
  BY <1>2, <1>3, <1>4, <1>5, <1>6 DEF StackOK
<1> QED
  BY <1>7 DEF longer

\* A call of get_module returns: its module is complete.
LEMMA PopStack ==
    ASSUME NEW files, NEW ms, NEW st, StackOK(files, ms, st), Len(st) > 0,
           AnalyzedIn(files, ms, st[Len(st)])
    PROVE  /\ StackOK(files, ms, SubSeq(st, 1, Len(st) - 1))
           /\ Len(SubSeq(st, 1, Len(st) - 1)) = Len(st) - 1
           /\ Len(st) > 1 =>
                /\ SubSeq(st, 1, Len(st) - 1)[Len(st) - 1] = st[Len(st) - 1]
                /\ st[Len(st) - 1] \in DOMAIN ms
<1> DEFINE shorter == SubSeq(st, 1, Len(st) - 1)
           len == Len(st) - 1
<1>1. /\ st \in Seq(DOMAIN ms) /\ Len(st) \in Nat /\ len \in Nat
      /\ DOMAIN st = 1..Len(st) /\ \A k \in DOMAIN st : st[k] \in DOMAIN ms
  BY DEF StackOK
<1>2. /\ shorter \in Seq(DOMAIN ms) /\ Len(shorter) = len
      /\ DOMAIN shorter = 1..len /\ 1..len \subseteq DOMAIN st
      /\ \A k \in 1..len : shorter[k] = st[k]
  BY <1>1
<1> HIDE DEF shorter
<1>3. \A k, l \in DOMAIN shorter : shorter[k] = shorter[l] => k = l
  BY <1>2 DEF StackOK
<1>4. ASSUME NEW k \in 1..(len - 1)
      PROVE  WaitsFor(files, ms, shorter[k], shorter[k + 1])
  <2>1. k \in 1..len /\ k + 1 \in 1..len /\ k \in 1..(Len(st) - 1)
    BY <1>1
  <2>2. WaitsFor(files, ms, st[k], st[k + 1])
    BY <2>1 DEF StackOK
  <2> QED
    BY <1>2, <2>1, <2>2
<1>5. ASSUME NEW i \in DOMAIN ms
      PROVE  AnalyzedIn(files, ms, i) \/ \E k \in DOMAIN shorter : shorter[k] = i
  <2>1. CASE i = st[Len(st)]
    BY <2>1
  <2>2. CASE i # st[Len(st)]
    <3>1. AnalyzedIn(files, ms, i) \/ \E k \in DOMAIN st : st[k] = i
      BY DEF StackOK
    <3>2. \A k \in DOMAIN st : k # Len(st) => k \in 1..len
      BY <1>1
    <3> QED
      BY <1>2, <2>2, <3>1, <3>2
  <2> QED
    BY <2>1, <2>2
<1>6. StackOK(files, ms, shorter)
  BY <1>2, <1>3, <1>4, <1>5 DEF StackOK
<1>7. Len(st) > 1 => len \in 1..len /\ len \in DOMAIN st
  BY <1>1
<1> QED
  BY <1>1, <1>2, <1>6, <1>7 DEF shorter

-----------------------------------------------------------------------------
(* Every step of the compiler keeps the invariant. *)

\* The module at the top of the stack is registered.
LEMMA TopIsModule ==
    ASSUME MInv, stack # <<>>
    PROVE  Len(stack) \in Nat /\ Len(stack) > 0 /\ Top \in DOMAIN modules /\ Top = stack[Len(stack)]
<1>1. stack \in Seq(DOMAIN modules)
  BY DEF MInv, StackOK
<1>2. Len(stack) \in Nat /\ Len(stack) > 0 /\ stack[Len(stack)] \in DOMAIN modules
  BY <1>1
<1> QED
  BY <1>2 DEF Top

\* The visitor of an import leaves a record of the same file.
LEMMA BoundModule ==
    ASSUME NEW m, IsModule(m), NEW item, NEW i
    PROVE  IsModule(Bound(m, item, i)) /\ Bound(m, item, i).file = m.file
<1>1. \E nxt, imp, sc :
         Bound(m, item, i) = [m EXCEPT !.next = nxt, !.imports = imp, !.scope = sc]
  BY DEF Bound
<1> QED
  BY <1>1 DEF IsModule

LEMMA InitMInv == Init => MInv
<1> SUFFICES ASSUME Init PROVE MInv
  OBVIOUS
<1>1. modules = <<>> /\ stack = <<>>
  BY DEF Init
<1>2. TableOK(program, modules)
  <2>1. modules \in Seq({}) /\ DOMAIN modules = {}
    BY <1>1
  <2> QED
    BY <2>1 DEF TableOK, IsSeq
<1>3. StackOK(program, modules, stack)
  <2>1. stack \in Seq(DOMAIN modules) /\ DOMAIN stack = {} /\ Len(stack) = 0 /\ DOMAIN modules = {}
    BY <1>1
  <2>2. 1..(Len(stack) - 1) = {}
    BY <2>1
  <2> QED
    BY <2>1, <2>2 DEF StackOK
<1> QED
  BY <1>2, <1>3 DEF MInv

\* get_module compiles a file that is not registered.
LEMMA LoadMInv ==
    ASSUME MInv, NEW file, file \in DOMAIN program, CachedIn(modules, file) = {}, Load(file),
           program' = program,
           Len(stack) > 0 => /\ ~AnalyzedIn(program, modules, stack[Len(stack)])
                             /\ ItemAt(program, modules, stack[Len(stack)]).kind # "fn"
                             /\ FoundIn(program, ItemAt(program, modules, stack[Len(stack)]).path) # {}
                             /\ file = FileIn(program, ItemAt(program, modules, stack[Len(stack)]).path)
    PROVE  MInv'
<1>1. PICK sc : /\ modules' = Append(modules, [file |-> file, next |-> 1, imports |-> {}, scope |-> sc])
                /\ stack' = Append(stack, Len(modules) + 1)
  BY DEF Load
<1> DEFINE m == [file |-> file, next |-> 1, imports |-> {}, scope |-> sc]
           n == Len(modules) + 1
<1>2. IsModule(m) /\ m.file = file
  BY DEF IsModule
<1> HIDE DEF m
<1>3. modules' = Append(modules, m)
  BY <1>1 DEF m
<1>4. TableOK(program, modules) /\ StackOK(program, modules, stack)
  BY DEF MInv
<1>5. /\ IsSeq(modules') /\ DOMAIN modules' = DOMAIN modules \cup {n} /\ n \notin DOMAIN modules
      /\ modules'[n] = m /\ \A j \in DOMAIN modules : modules'[j] = modules[j]
  <2>1. IsSeq(modules)
    BY <1>4 DEF TableOK
  <2>2. modules' = Append(modules, m)
    BY <1>3
  <2> QED
    BY <2>1, <2>2, ExtendedSeq, SMT
<1> HIDE DEF n
<1>6. /\ TableOK(program, modules')
      /\ CachedIn(modules', modules'[n].file) = {n}
      /\ \A f : CachedIn(modules, f) # {} => CachedIn(modules', f) = CachedIn(modules, f)
  BY <1>2, <1>4, <1>5, RegisterTable
<1>7. StackOK(program, modules', Append(stack, n))
  BY <1>2, <1>4, <1>5, <1>6, PushStack
<1>8. stack' = Append(stack, n)
  BY <1>1 DEF n
<1> QED
  BY <1>6, <1>7, <1>8 DEF MInv

\* The analysis under way goes on with its next item.
LEMMA GoOnMInv ==
    ASSUME MInv, stack # <<>>, IsSeq(modules'), DOMAIN modules' = DOMAIN modules,
           IsModule(modules'[Top]), modules'[Top].file = modules[Top].file,
           \A j \in DOMAIN modules : j # Top => modules'[j] = modules[j],
           stack' = stack, program' = program
    PROVE  MInv'
<1>1. Len(stack) > 0 /\ Top \in DOMAIN modules /\ Top = stack[Len(stack)]
  BY TopIsModule
<1>2. /\ TableOK(program, modules')
      /\ \A file : CachedIn(modules', file) = CachedIn(modules, file)
  BY <1>1, GoOnTable DEF MInv
<1>3. StackOK(program, modules', stack)
  BY <1>1, <1>2, GoOnStack DEF MInv
<1> QED
  BY <1>2, <1>3 DEF MInv

\* The same, for a step that replaces its record.
LEMMA UpdateMInv ==
    ASSUME MInv, stack # <<>>, NEW w, IsModule(w), w.file = modules[Top].file,
           modules' = [modules EXCEPT ![Top] = w], stack' = stack, program' = program
    PROVE  MInv'
<1>1. Top \in DOMAIN modules /\ IsSeq(modules)
  BY TopIsModule DEF MInv, TableOK
<1>2. /\ IsSeq(modules') /\ DOMAIN modules' = DOMAIN modules /\ modules'[Top] = w
      /\ \A j \in DOMAIN modules : j # Top => modules'[j] = modules[j]
  BY <1>1, UpdatedSeq, Zenon
<1>3. IsModule(modules'[Top]) /\ modules'[Top].file = modules[Top].file
  BY <1>2, Zenon
<1> QED
  BY <1>2, <1>3, GoOnMInv, Zenon

LEMMA FinishMInv ==
    ASSUME MInv, Finish
    PROVE  MInv'
<1>1. stack # <<>> /\ Analyzed(Top) /\ program' = program
  BY DEF Finish
<1>2. Len(stack) \in Nat /\ Len(stack) > 0 /\ Top = stack[Len(stack)]
  BY <1>1, TopIsModule
<1>3. AnalyzedIn(program, modules, stack[Len(stack)])
  BY <1>1, <1>2 DEF Analyzed, AnalyzedIn, Items
<1> DEFINE shorter == SubSeq(stack, 1, Len(stack) - 1)
           caller == stack[Len(stack) - 1]
<1>4. /\ StackOK(program, modules, shorter) /\ Len(shorter) = Len(stack) - 1
      /\ Len(stack) > 1 => shorter[Len(shorter)] = caller /\ caller \in DOMAIN modules
  BY <1>2, <1>3, PopStack DEF MInv
<1>5. stack' = shorter
  BY DEF Finish
<1>6. CASE Len(stack) = 1
  <2>1. modules' = modules
    BY <1>6 DEF Finish
  <2> QED
    BY <1>1, <1>4, <1>5, <2>1 DEF MInv
<1>7. CASE Len(stack) # 1
  <2> DEFINE w == Bound(modules[caller], Items(caller)[modules[caller].next], Top)
  <2>1. modules' = [modules EXCEPT ![caller] = w]
    BY <1>7 DEF Finish
  <2>2. Len(stack) > 1 /\ Len(shorter) > 0
    BY <1>2, <1>4, <1>7
  <2>3. caller \in DOMAIN modules /\ shorter[Len(shorter)] = caller
    BY <1>4, <2>2
  <2>4. IsModule(w) /\ w.file = modules[caller].file
    BY <2>3, BoundModule DEF MInv, TableOK
  <2> HIDE DEF w, caller, shorter
  <2>5. IsSeq(modules)
    BY DEF MInv, TableOK
  <2>6. /\ IsSeq(modules') /\ DOMAIN modules' = DOMAIN modules /\ modules'[caller] = w
        /\ \A j \in DOMAIN modules : j # caller => modules'[j] = modules[j]
    BY <2>1, <2>3, <2>5, UpdatedSeq, Zenon
  <2>7. /\ TableOK(program, modules')
        /\ \A file : CachedIn(modules', file) = CachedIn(modules, file)
    BY <2>3, <2>4, <2>6, GoOnTable DEF MInv
  <2>8. StackOK(program, modules', shorter)
    BY <1>4, <2>2, <2>3, <2>6, <2>7, GoOnStack
  <2> QED
    BY <1>1, <1>5, <2>7, <2>8 DEF MInv
<1> QED
  BY <1>6, <1>7

LEMMA NextMInv == MInv /\ [Next]_vars => MInv'
<1> SUFFICES ASSUME MInv, [Next]_vars PROVE MInv'
  OBVIOUS
<1>1. TableOK(program, modules) /\ StackOK(program, modules, stack)
  BY DEF MInv
<1>2. ASSUME program' = program, modules' = modules, stack' = stack PROVE MInv'
  BY <1>2 DEF MInv
<1>3. ASSUME NEW error, Fail(error) PROVE MInv'
  BY <1>2, <1>3 DEF Fail
<1>4. CASE Start
  <2>1. CASE Found(MainPath) = {}
    BY <1>3, <1>4, <2>1 DEF Start
  <2>2. CASE Found(MainPath) # {}
    <3>1. Load(FileOf(MainPath)) /\ program' = program /\ modules = <<>>
      BY <1>4, <2>2 DEF Start
    <3>2. FileOf(MainPath) \in DOMAIN program
      BY <1>1, <2>2, FoundOnDisk, FileExists
    <3>3. DOMAIN modules = {}
      BY <3>1
    <3>4. Len(stack) = 0
      BY <1>1, <3>3 DEF StackOK
    <3>5. CachedIn(modules, FileOf(MainPath)) = {}
      BY <3>3 DEF CachedIn
    <3> QED
      BY <3>1, <3>2, <3>4, <3>5, LoadMInv
  <2> QED
    BY <2>1, <2>2
<1>5. CASE VisitImport
  <2>1. /\ stack # <<>> /\ ~Analyzed(Top) /\ Item.kind # "fn" /\ Found(Item.path) # {}
        /\ Cached(FileOf(Item.path)) = {} /\ Load(FileOf(Item.path)) /\ program' = program
    BY <1>5 DEF VisitImport, Analyzing
  <2>2. Top = stack[Len(stack)]
    BY <2>1, TopIsModule
  <2>3. Item = ItemAt(program, modules, stack[Len(stack)])
    BY <2>2 DEF Item, ItemAt, Items
  <2>4. ~AnalyzedIn(program, modules, stack[Len(stack)])
    BY <2>1, <2>2 DEF Analyzed, AnalyzedIn, Items
  <2> DEFINE file == FileOf(Item.path)
  <2>5. file = FileIn(program, Item.path) /\ file \in DOMAIN program
    BY <1>1, <2>1, FoundOnDisk, FileExists
  <2>6. CachedIn(modules, file) = {}
    BY <2>1 DEF Cached, CachedIn
  <2>7. FoundIn(program, Item.path) # {}
    BY <1>1, <2>1, FoundOnDisk
  <2> QED
    BY <2>1, <2>3, <2>4, <2>5, <2>6, <2>7, LoadMInv
<1>6. CASE VisitCachedImport
  <2>1. PICK i : modules' = [modules EXCEPT ![Top] = Bound(modules[Top], Item, i)]
    BY <1>6 DEF VisitCachedImport
  <2>2. stack # <<>> /\ stack' = stack /\ program' = program
    BY <1>6 DEF VisitCachedImport, Analyzing
  <2>3. IsModule(modules[Top])
    BY <2>2, TopIsModule DEF MInv, TableOK
  <2> DEFINE w == Bound(modules[Top], Item, i)
  <2>4. IsModule(w) /\ w.file = modules[Top].file
    BY <2>3, BoundModule
  <2>5. modules' = [modules EXCEPT ![Top] = w]
    BY <2>1
  <2> HIDE DEF w
  <2> QED
    BY <2>2, <2>4, <2>5, UpdateMInv
<1>7. CASE VisitFn
  <2>1. stack # <<>> /\ stack' = stack /\ program' = program
    BY <1>7 DEF VisitFn, Analyzing
  <2>2. Top \in DOMAIN modules /\ IsModule(modules[Top])
    BY <2>1, TopIsModule DEF MInv, TableOK
  <2> DEFINE m == modules[Top]
             nxt == m.next + 1
             w == [m EXCEPT !.next = nxt]
  <2>3. modules' = [modules EXCEPT ![Top] = w]
    BY <1>7 DEF VisitFn
  <2>4. IsModule(w) /\ w.file = m.file
    <3> HIDE DEF nxt, m
    <3>1. IsModule(m)
      BY <2>2 DEF m
    <3> QED
      BY <3>1 DEF IsModule
  <2> HIDE DEF w
  <2> QED
    BY <2>1, <2>3, <2>4, UpdateMInv
<1>8. CASE Finish
  BY <1>8, FinishMInv
<1>9. CASE VisitMissingImport \/ VisitUnresolved \/ FinishUnverified
  BY <1>3, <1>9 DEF VisitMissingImport, VisitUnresolved, FinishUnverified
<1>10. CASE Stopped \/ UNCHANGED vars
  BY <1>2, <1>10 DEF Stopped, vars
<1> QED
  BY <1>4, <1>5, <1>6, <1>7, <1>8, <1>9, <1>10 DEF Next

LEMMA ModulesInvariance == Spec => []MInv
BY InitMInv, NextMInv, PTL DEF Spec

\* A file is compiled once, whatever the programs import from each other: a module is
\* registered before its own imports are looked at.
THEOREM FilesAreCompiledOnce == Spec => []OneModulePerFile
<1>1. MInv => OneModulePerFile
  BY DEF MInv, TableOK, OneModulePerFile, Ids
<1> QED
  BY <1>1, ModulesInvariance, PTL

\* The calls of get_module under way are a chain of imports, and a module that has
\* returned has been analysed to its end.
THEOREM CallsFollowImports == Spec => []StackIsImportChain
<1>1. ASSUME MInv PROVE StackIsImportChain
  <2>1. TableOK(program, modules) /\ StackOK(program, modules, stack)
    BY <1>1 DEF MInv
  <2>2. ASSUME NEW k \in 1..(Len(stack) - 1)
        PROVE  /\ ~Analyzed(stack[k]) /\ Items(stack[k])[modules[stack[k]].next].kind # "fn"
               /\ Cached(FileOf(Items(stack[k])[modules[stack[k]].next].path)) = {stack[k + 1]}
    <3>1. WaitsFor(program, modules, stack[k], stack[k + 1])
      BY <2>1 DEF StackOK
    <3>2. ItemAt(program, modules, stack[k]) = Items(stack[k])[modules[stack[k]].next]
      BY DEF ItemAt, Items
    <3> DEFINE item == ItemAt(program, modules, stack[k])
    <3>3. FileOf(item.path) = FileIn(program, item.path)
      BY <2>1, FoundOnDisk
    <3>4. Cached(FileOf(item.path)) = {stack[k + 1]}
      BY <3>1, <3>3 DEF WaitsFor, Cached, CachedIn
    <3>5. ~Analyzed(stack[k]) /\ item.kind # "fn"
      BY <3>1 DEF WaitsFor, AnalyzedIn, Analyzed, Items
    <3> QED
      BY <3>2, <3>4, <3>5
  <2>3. \A i \in Ids : Analyzed(i) \/ \E k \in DOMAIN stack : stack[k] = i
    BY <2>1 DEF StackOK, AnalyzedIn, Analyzed, Items, Ids
  <2> QED
    BY <2>2, <2>3 DEF StackIsImportChain
<1> QED
  BY <1>1, ModulesInvariance, PTL

-----------------------------------------------------------------------------
(* What names stand for, with the files, the table and the global symbols as *)
(* parameters.                                                               *)

\* A function of the name in a file.
Declares(items, n) == \E k \in DOMAIN items : items[k].kind = "fn" /\ items[k].name = n

\* The items of one kind in front of an item.
SeenIn(items, next, kind) == {items[k] : k \in {l \in DOMAIN items : l < next /\ items[l].kind = kind}}

\* A function that a registered module declares.
DeclaredFn(files, ms, node) ==
    \E j \in DOMAIN ms, n \in Name : node = Function(j, n) /\ Declares(files[ms[j].file], n)

\* A name is bound to nothing, to a registered module or to a function.
BindingOK(files, ms, node) ==
    \/ node \in {Absent, Null}
    \/ \E j \in DOMAIN ms : node = Alias(j)
    \/ DeclaredFn(files, ms, node)

\* Module i binds a name to its own function, or as an import that takes the name did.
NameOK(files, ms, i, n) ==
    LET items == files[ms[i].file]
        node == ms[i].scope[n]
    IN  /\ BindingOK(files, ms, node)
        /\ Declares(items, n) => node = Function(i, n)
        /\ ~Declares(items, n) =>
             \/ node = Absent
             \/ \E s \in SeenIn(items, ms[i].next, "only") : s.name = n
             \/ node.kind = "module" /\ \E s \in SeenIn(items, ms[i].next, "as") : s.name = n

IsFun(fun, S) == fun = [x \in S |-> fun[x]]

RecordOK(m) ==
    /\ m = [file |-> m.file, next |-> m.next, imports |-> m.imports, scope |-> m.scope]
    /\ m.next \in Nat \ {0}
    /\ IsFun(m.scope, Name)

\* The modules that a module has imported as a whole.
OpenedOK(files, ms, m) ==
    LET seen == SeenIn(files[m.file], m.next, "open")
    IN  /\ \A s \in seen : CachedIn(ms, FileIn(files, s.path)) # {}
        /\ \A j : j \in m.imports <=> \E s \in seen : CachedIn(ms, FileIn(files, s.path)) = {j}

ModuleOK(files, ms, i) ==
    /\ RecordOK(ms[i])
    /\ OpenedOK(files, ms, ms[i])
    /\ \A n \in Name : NameOK(files, ms, i, n)

NamesOK(files, ms) == \A i \in DOMAIN ms : ModuleOK(files, ms, i)

\* The global symbols of a name are the public functions of the registered modules.
GlobalOK(files, ms, n, symbol) ==
    \E j \in DOMAIN ms :
        symbol = [node |-> Function(j, n), file |-> j] /\ Publishes(files[ms[j].file], n)

GlobalsOK(files, ms, gl) ==
    /\ IsFun(gl, Name)
    /\ \A n \in Name :
         /\ IsSeq(gl[n])
         /\ \A k \in DOMAIN gl[n] : GlobalOK(files, ms, n, gl[n][k])
         /\ \A j \in DOMAIN ms :
              Publishes(files[ms[j].file], n) => \E k \in DOMAIN gl[n] : gl[n][k].file = j

\* How module i, next at an item, may have reached a function by a name of its own,
\* of a selective import or of a module imported as a whole.
ReachedBy(files, ms, i, n, node) ==
    LET items == files[ms[i].file]
    IN  \/ node.file = i
        \/ \E s \in SeenIn(items, ms[i].next, "only") : s.name = n
        \/ /\ \E s \in SeenIn(items, ms[i].next, "open") : CachedIn(ms, FileIn(files, s.path)) = {node.file}
           /\ Publishes(files[ms[node.file].file], node.name)

UseOK(files, ms, u) ==
    LET item == files[ms[u.from].file][u.at]
    IN  /\ u.from \in DOMAIN ms
        /\ DeclaredFn(files, ms, u.to)
        /\ item.via = None => ReachedBy(files, ms, u.from, item.of, u.to)

\* The modules a module imports, as the files have it.
ImportsIn(files, ms, i) ==
    {j \in DOMAIN ms : \E k \in DOMAIN files[ms[i].file] :
        LET item == files[ms[i].file][k]
        IN  /\ item.kind # "fn" /\ FoundIn(files, item.path) # {}
            /\ CachedIn(ms, FileIn(files, item.path)) = {j}}

ReachesIn(files, ms, i, j) ==
    \A S \in SUBSET DOMAIN ms : i \in S /\ (\A k \in S : ImportsIn(files, ms, k) \subseteq S) => j \in S

\* A call under a plain name enters another module, from which imports lead back.
CallOK(files, ms, c) ==
    c.name = "plain" =>
        /\ c.to.file \in DOMAIN ms /\ c.from \in DOMAIN ms
        /\ c.to.file # c.from /\ ReachesIn(files, ms, c.to.file, c.from)

\* The module under way is at a call of a name that no declaration in reach has,
\* unless an import has taken the name.
UnknownIn(files, ms, st) ==
    LET i == st[Len(st)]
        items == files[ms[i].file]
        item == ItemAt(files, ms, i)
    IN  item.via = None =>
          \/ \E s \in SeenIn(items, ms[i].next, "only") \cup SeenIn(items, ms[i].next, "as") : s.name = item.of
          \/ /\ ~Declares(items, item.of)
             /\ \A s \in SeenIn(items, ms[i].next, "open") :
                  \A j \in CachedIn(ms, FileIn(files, s.path)) : ~Publishes(files[ms[j].file], item.of)

\* The invariant about names.
NInv ==
    /\ program \in Program
    /\ NamesOK(program, modules)
    /\ GlobalsOK(program, modules, globals)
    /\ \A u \in uses : UseOK(program, modules, u)
    /\ \A c \in calls : CallOK(program, modules, c)
    /\ outcome = "unknown symbol" => UnknownIn(program, modules, stack)

-----------------------------------------------------------------------------
(* Items of files *)

\* The parts of an item that name resolution looks at.
LEMMA ItemShape ==
    ASSUME NEW items, IsFile(items), NEW k \in DOMAIN items
    PROVE  /\ items[k].kind \in {"fn", "open", "as", "only"}
           /\ items[k].kind = "fn" =>
                /\ items[k].name \in Name /\ items[k].private \in BOOLEAN
                /\ items[k].of \in Name \cup {None} /\ items[k].via \in Name \cup {None}
           /\ items[k].kind = "as" => items[k].name \in Name
           /\ items[k].kind = "only" => items[k].name \in Name /\ items[k].of \in Name
<1>1. items[k] \in Functions \cup ImportStmts
  BY DEF IsFile
<1>2. CASE items[k] \in Functions
  <2>1. PICK name \in Name, private \in BOOLEAN, via \in Name \cup {None}, callee \in Name \cup {None} :
          items[k] = Fn(name, private, via, callee)
    BY <1>2 DEF Functions
  <2> QED
    BY <2>1 DEF Fn
<1>3. CASE items[k] \in ImportStmts
  <2>1. CASE items[k] \in {Import("open", None, None, p) : p \in Path}
    BY <2>1 DEF Import
  <2>2. CASE items[k] \in {Import("as", name, None, p) : name \in Name, p \in Path}
    <3>1. PICK name \in Name, p \in Path : items[k] = Import("as", name, None, p)
      BY <2>2
    <3> QED
      BY <3>1 DEF Import
  <2>3. CASE items[k] \in {Import("only", name, of, p) : name \in Name, of \in Name, p \in Path}
    <3>1. PICK name \in Name, of \in Name, p \in Path : items[k] = Import("only", name, of, p)
      BY <2>3
    <3> QED
      BY <3>1 DEF Import
  <2> QED
    BY <1>3, <2>1, <2>2, <2>3 DEF ImportStmts
<1> QED
  BY <1>1, <1>2, <1>3

LEMMA FileSeq ==
    ASSUME NEW items, IsFile(items)
    PROVE  Len(items) \in Nat /\ DOMAIN items = 1..Len(items)
BY DEF IsFile

\* A file has one function of a name, public or private.
LEMMA OneFunction ==
    ASSUME NEW items, IsFile(items), NEW n, Publishes(items, n),
           NEW k \in DOMAIN items, items[k].kind = "fn", items[k].name = n
    PROVE  ~items[k].private
<1>1. PICK l \in DOMAIN items : items[l].kind = "fn" /\ items[l].name = n /\ ~items[l].private
  BY DEF Publishes
<1>2. k = l
  BY <1>1 DEF IsFile
<1> QED
  BY <1>1, <1>2

LEMMA PublishedIsDeclared ==
    ASSUME NEW items, NEW n, Publishes(items, n)
    PROVE  Declares(items, n)
BY DEF Publishes, Declares

\* The files of a program are files.
LEMMA FilesAreFiles ==
    ASSUME program \in Program, NEW file \in DOMAIN program
    PROVE  IsFile(program[file])
BY ProgramAssumption

\* What has been seen before an item has been seen before a later one.
LEMMA SeenGrows ==
    ASSUME NEW items, IsFile(items), NEW n \in Nat, NEW m \in Nat, n <= m, NEW kind
    PROVE  SeenIn(items, n, kind) \subseteq SeenIn(items, m, kind)
<1>1. \A l \in DOMAIN items : l < n => l < m
  BY FileSeq
<1> QED
  BY <1>1 DEF SeenIn

\* Behind an item, it has been seen as well.
LEMMA SeenNext ==
    ASSUME NEW items, IsFile(items), NEW n \in Nat \ {0}, ~(n > Len(items)), NEW kind
    PROVE  /\ n \in DOMAIN items
           /\ items[n].kind = kind => SeenIn(items, n + 1, kind) = SeenIn(items, n, kind) \cup {items[n]}
           /\ items[n].kind # kind => SeenIn(items, n + 1, kind) = SeenIn(items, n, kind)
<1>1. n \in DOMAIN items
  BY FileSeq
<1>2. \A l \in DOMAIN items : l < n + 1 <=> l < n \/ l = n
  BY FileSeq
<1>3. ASSUME items[n].kind = kind
      PROVE  SeenIn(items, n + 1, kind) = SeenIn(items, n, kind) \cup {items[n]}
  <2> DEFINE after == {l \in DOMAIN items : l < n + 1 /\ items[l].kind = kind}
             before == {l \in DOMAIN items : l < n /\ items[l].kind = kind}
  <2>1. after = before \cup {n}
    BY <1>1, <1>2, <1>3
  <2> HIDE DEF after, before
  <2>2. {items[l] : l \in after} = {items[l] : l \in before} \cup {items[n]}
    BY <2>1
  <2> QED
    BY <2>2 DEF SeenIn, after, before
<1>4. ASSUME items[n].kind # kind
      PROVE  SeenIn(items, n + 1, kind) = SeenIn(items, n, kind)
  <2>1. {l \in DOMAIN items : l < n + 1 /\ items[l].kind = kind}
          = {l \in DOMAIN items : l < n /\ items[l].kind = kind}
    BY <1>1, <1>2, <1>4
  <2> QED
    BY <2>1 DEF SeenIn
<1> QED
  BY <1>1, <1>3, <1>4

\* At the beginning of a file, nothing has been seen.
LEMMA NothingSeen ==
    ASSUME NEW items, IsFile(items), NEW kind
    PROVE  SeenIn(items, 1, kind) = {}
<1>1. \A l \in DOMAIN items : ~(l < 1)
  BY FileSeq
<1> QED
  BY <1>1 DEF SeenIn

-----------------------------------------------------------------------------
(* What a growing table keeps *)

\* Modules are added, and analysed further; the module of a file stays its module.
Grows(ms, after) ==
    /\ DOMAIN ms \subseteq DOMAIN after
    /\ \A j \in DOMAIN ms : /\ after[j].file = ms[j].file
                            /\ ms[j].next \in Nat /\ after[j].next \in Nat /\ ms[j].next <= after[j].next
    /\ \A file : CachedIn(ms, file) # {} => CachedIn(after, file) = CachedIn(ms, file)

LEMMA DeclaredGrows ==
    ASSUME NEW files, NEW ms, NEW after, Grows(ms, after), NEW node, DeclaredFn(files, ms, node)
    PROVE  DeclaredFn(files, after, node)
BY DEF DeclaredFn, Grows

LEMMA BindingGrows ==
    ASSUME NEW files, NEW ms, NEW after, Grows(ms, after), NEW node, BindingOK(files, ms, node)
    PROVE  BindingOK(files, after, node)
<1>1. \A j \in DOMAIN ms : j \in DOMAIN after
  BY DEF Grows
<1> QED
  BY <1>1, DeclaredGrows DEF BindingOK

LEMMA ReachedGrows ==
    ASSUME NEW files, NEW ms, NEW after, Grows(ms, after), NEW i \in DOMAIN ms,
           IsFile(files[ms[i].file]), NEW n, NEW node, DeclaredFn(files, ms, node),
           ReachedBy(files, ms, i, n, node)
    PROVE  ReachedBy(files, after, i, n, node)
<1> DEFINE items == files[ms[i].file]
<1>1. after[i].file = ms[i].file
  BY DEF Grows
<1>2. \A kind : SeenIn(items, ms[i].next, kind) \subseteq SeenIn(items, after[i].next, kind)
  <2>1. ms[i].next \in Nat /\ after[i].next \in Nat /\ ms[i].next <= after[i].next
    BY DEF Grows
  <2> QED
    BY <2>1, SeenGrows
<1>3. node.file \in DOMAIN ms
  BY DEF DeclaredFn, Function
<1>4. after[node.file].file = ms[node.file].file
  BY <1>3 DEF Grows
<1> HIDE DEF items
<1>5. CASE node.file = i
  BY <1>5 DEF ReachedBy
<1>6. CASE \E s \in SeenIn(items, ms[i].next, "only") : s.name = n
  BY <1>1, <1>2, <1>6 DEF ReachedBy, items
<1>7. CASE /\ \E s \in SeenIn(items, ms[i].next, "open") : CachedIn(ms, FileIn(files, s.path)) = {node.file}
           /\ Publishes(files[ms[node.file].file], node.name)
  <2>1. PICK s \in SeenIn(items, ms[i].next, "open") : CachedIn(ms, FileIn(files, s.path)) = {node.file}
    BY <1>7
  <2>2. CachedIn(after, FileIn(files, s.path)) = {node.file}
    BY <2>1 DEF Grows
  <2>3. s \in SeenIn(items, after[i].next, "open")
    BY <1>2
  <2>4. Publishes(files[after[node.file].file], node.name)
    BY <1>4, <1>7
  <2> QED
    BY <1>1, <2>2, <2>3, <2>4 DEF ReachedBy, items
<1> QED
  BY <1>5, <1>6, <1>7 DEF ReachedBy, items

LEMMA UseGrows ==
    ASSUME NEW files, NEW ms, NEW after, Grows(ms, after), NEW u, UseOK(files, ms, u),
           IsFile(files[ms[u.from].file])
    PROVE  UseOK(files, after, u)
<1>1. u.from \in DOMAIN ms /\ DeclaredFn(files, ms, u.to)
  BY DEF UseOK
<1>2. after[u.from].file = ms[u.from].file /\ u.from \in DOMAIN after
  BY <1>1 DEF Grows
<1>3. DeclaredFn(files, after, u.to)
  BY <1>1, DeclaredGrows
<1>4. ASSUME files[ms[u.from].file][u.at].via = None
      PROVE  ReachedBy(files, after, u.from, files[ms[u.from].file][u.at].of, u.to)
  <2>1. ReachedBy(files, ms, u.from, files[ms[u.from].file][u.at].of, u.to)
    BY <1>4 DEF UseOK
  <2> QED
    BY <1>1, <2>1, ReachedGrows
<1> QED
  BY <1>2, <1>3, <1>4 DEF UseOK

\* Imports lead wherever they led before.
LEMMA ReachesGrows ==
    ASSUME NEW files, NEW ms, NEW after, Grows(ms, after), NEW i \in DOMAIN ms, NEW j \in DOMAIN ms,
           ReachesIn(files, ms, i, j)
    PROVE  ReachesIn(files, after, i, j)
<1> SUFFICES ASSUME NEW S \in SUBSET DOMAIN after, i \in S,
                    \A k \in S : ImportsIn(files, after, k) \subseteq S
             PROVE  j \in S
  BY DEF ReachesIn
<1> DEFINE T == S \cap DOMAIN ms
<1>1. ASSUME NEW k \in T PROVE ImportsIn(files, ms, k) \subseteq T
  <2> SUFFICES ASSUME NEW l \in ImportsIn(files, ms, k) PROVE l \in T
    OBVIOUS
  <2>1. after[k].file = ms[k].file /\ l \in DOMAIN ms /\ l \in DOMAIN after
    BY DEF ImportsIn, Grows
  <2>2. PICK p \in DOMAIN files[ms[k].file] :
             /\ files[ms[k].file][p].kind # "fn" /\ FoundIn(files, files[ms[k].file][p].path) # {}
             /\ CachedIn(ms, FileIn(files, files[ms[k].file][p].path)) = {l}
    BY DEF ImportsIn
  <2>3. CachedIn(after, FileIn(files, files[ms[k].file][p].path)) = {l}
    BY <2>2 DEF Grows
  <2>4. l \in ImportsIn(files, after, k)
    BY <2>1, <2>2, <2>3 DEF ImportsIn
  <2> QED
    BY <2>1, <2>4
<1>2. T \in SUBSET DOMAIN ms /\ i \in T
  OBVIOUS
<1> HIDE DEF T
<1>3. j \in T
  BY <1>1, <1>2 DEF ReachesIn
<1> QED
  BY <1>3 DEF T

LEMMA CallGrows ==
    ASSUME NEW files, NEW ms, NEW after, Grows(ms, after), NEW c, CallOK(files, ms, c)
    PROVE  CallOK(files, after, c)
<1> SUFFICES ASSUME c.name = "plain"
             PROVE  /\ c.to.file \in DOMAIN after /\ c.from \in DOMAIN after
                    /\ c.to.file # c.from /\ ReachesIn(files, after, c.to.file, c.from)
  BY DEF CallOK
<1>1. /\ c.to.file \in DOMAIN ms /\ c.from \in DOMAIN ms
      /\ c.to.file # c.from /\ ReachesIn(files, ms, c.to.file, c.from)
  BY DEF CallOK
<1>2. c.to.file \in DOMAIN after /\ c.from \in DOMAIN after
  BY <1>1 DEF Grows
<1> QED
  BY <1>1, <1>2, ReachesGrows

\* What a module has opened stays what it has opened.
LEMMA OpenedGrows ==
    ASSUME NEW files, NEW ms, NEW after, Grows(ms, after), NEW m, OpenedOK(files, ms, m)
    PROVE  OpenedOK(files, after, m)
<1> DEFINE seen == SeenIn(files[m.file], m.next, "open")
<1>1. \A s \in seen : CachedIn(after, FileIn(files, s.path)) = CachedIn(ms, FileIn(files, s.path))
  BY DEF OpenedOK, Grows
<1> QED
  BY <1>1 DEF OpenedOK

\* A module that does not move.
LEMMA ModuleStays ==
    ASSUME NEW files, NEW ms, NEW after, Grows(ms, after), NEW i \in DOMAIN ms,
           after[i] = ms[i], ModuleOK(files, ms, i)
    PROVE  ModuleOK(files, after, i)
<1>1. RecordOK(after[i]) /\ OpenedOK(files, after, after[i])
  BY OpenedGrows DEF ModuleOK
<1>2. ASSUME NEW n \in Name PROVE NameOK(files, after, i, n)
  <2>1. NameOK(files, ms, i, n)
    BY DEF ModuleOK
  <2>2. BindingOK(files, after, ms[i].scope[n])
    BY <2>1, BindingGrows DEF NameOK
  <2> QED
    BY <2>1, <2>2 DEF NameOK
<1> QED
  BY <1>1, <1>2 DEF ModuleOK

LEMMA GlobalGrows ==
    ASSUME NEW files, NEW ms, NEW after, Grows(ms, after), NEW n, NEW symbol, GlobalOK(files, ms, n, symbol)
    PROVE  GlobalOK(files, after, n, symbol)
BY DEF GlobalOK, Grows

-----------------------------------------------------------------------------
(* Names are resolved to what they stand for *)

\* The kinds of what a name is bound to.
LEMMA BindingKinds ==
    ASSUME NEW files, NEW ms, NEW node, BindingOK(files, ms, node)
    PROVE  /\ node.kind = "fn" => DeclaredFn(files, ms, node)
           /\ node.kind = "module" => \E j \in DOMAIN ms : node = Alias(j)
BY DEF BindingOK, DeclaredFn, Absent, Null, Alias, Function

\* find_symbol takes the first of the symbols that the imports make visible.
LEMMA FirstVisible ==
    ASSUME GlobalsOK(program, modules, globals), NEW i \in DOMAIN modules, NEW n \in Name,
           Visible(i, n) # {}
    PROVE  LET first == CHOOSE k \in Visible(i, n) : \A l \in Visible(i, n) : k <= l
           IN  \E j \in modules[i].imports \cap DOMAIN modules :
                 globals[n][first].node = Function(j, n) /\ Publishes(program[modules[j].file], n)
<1>1. IsSeq(globals[n]) /\ \A k \in DOMAIN globals[n] : GlobalOK(program, modules, n, globals[n][k])
  BY DEF GlobalsOK
<1>2. Visible(i, n) \in SUBSET Nat
  <2>1. PICK S : globals[n] \in Seq(S)
    BY <1>1 DEF IsSeq
  <2> QED
    BY <2>1 DEF Visible
<1> DEFINE first == CHOOSE k \in Visible(i, n) : \A l \in Visible(i, n) : k <= l
<1>3. \E k \in Visible(i, n) : \A l \in Visible(i, n) : k <= l
  BY <1>2, LeastNatural
<1>4. first \in Visible(i, n)
  BY <1>3
<1> HIDE DEF first
<1>5. first \in DOMAIN globals[n] /\ globals[n][first].file \in modules[i].imports
  BY <1>4 DEF Visible
<1>6. PICK j \in DOMAIN modules :
           /\ globals[n][first] = [node |-> Function(j, n), file |-> j]
           /\ Publishes(program[modules[j].file], n)
  BY <1>1, <1>5 DEF GlobalOK
<1>7. globals[n][first].node = Function(j, n) /\ j \in modules[i].imports
  BY <1>5, <1>6
<1> QED
  BY <1>6, <1>7 DEF first

\* find_symbol returns a function of the module, of a selective import or of a module
\* imported as a whole, or no function.
LEMMA FindReaches ==
    ASSUME NamesOK(program, modules), GlobalsOK(program, modules, globals),
           NEW i \in DOMAIN modules, NEW n \in Name
    PROVE  /\ BindingOK(program, modules, Find(i, n))
           /\ Find(i, n).kind = "fn" => ReachedBy(program, modules, i, n, Find(i, n))
<1> DEFINE node == modules[i].scope[n]
<1>1. NameOK(program, modules, i, n) /\ OpenedOK(program, modules, modules[i])
  BY DEF NamesOK, ModuleOK
<1>2. CASE node # Absent
  <2>1. Find(i, n) = node
    BY <1>2 DEF Find
  <2>2. BindingOK(program, modules, node)
    BY <1>1 DEF NameOK
  <2>3. ASSUME node.kind = "fn" PROVE ReachedBy(program, modules, i, n, node)
    <3>1. CASE Declares(program[modules[i].file], n)
      <4>1. node = Function(i, n)
        BY <1>1, <3>1 DEF NameOK
      <4>2. node.file = i
        BY <4>1 DEF Function
      <4> QED
        BY <4>2 DEF ReachedBy
    <3>2. CASE ~Declares(program[modules[i].file], n)
      <4>1. \E s \in SeenIn(program[modules[i].file], modules[i].next, "only") : s.name = n
        BY <1>1, <1>2, <2>3, <3>2 DEF NameOK
      <4> QED
        BY <4>1 DEF ReachedBy
    <3> QED
      BY <3>1, <3>2
  <2> QED
    BY <2>1, <2>2, <2>3
<1>3. CASE node = Absent /\ Visible(i, n) = {}
  <2>1. Find(i, n) = Null
    BY <1>3 DEF Find
  <2> QED
    BY <2>1 DEF BindingOK, Null
<1>4. CASE node = Absent /\ Visible(i, n) # {}
  <2> DEFINE first == CHOOSE k \in Visible(i, n) : \A l \in Visible(i, n) : k <= l
  <2>1. PICK j \in modules[i].imports \cap DOMAIN modules :
             globals[n][first].node = Function(j, n) /\ Publishes(program[modules[j].file], n)
    BY <1>4, FirstVisible
  <2>2. Find(i, n) = globals[n][first].node
    BY <1>4 DEF Find
  <2> HIDE DEF first
  <2>3. Find(i, n) = Function(j, n)
    BY <2>1, <2>2
  <2>4. DeclaredFn(program, modules, Find(i, n))
    BY <2>1, <2>3, PublishedIsDeclared DEF DeclaredFn
  <2>5. \E s \in SeenIn(program[modules[i].file], modules[i].next, "open") :
          CachedIn(modules, FileIn(program, s.path)) = {j}
    BY <1>1, <2>1 DEF OpenedOK
  <2>6. Find(i, n).file = j /\ Find(i, n).name = n
    BY <2>3 DEF Function
  <2>7. ReachedBy(program, modules, i, n, Find(i, n))
    BY <2>1, <2>5, <2>6 DEF ReachedBy
  <2> QED
    BY <2>4, <2>7 DEF BindingOK
<1> QED
  BY <1>2, <1>3, <1>4

\* The same for a call, which an alias may precede.
LEMMA ResolvedReaches ==
    ASSUME NamesOK(program, modules), GlobalsOK(program, modules, globals),
           NEW i \in DOMAIN modules, NEW item, item.of \in Name, item.via \in Name \cup {None},
           Resolved(i, item).kind = "fn"
    PROVE  /\ DeclaredFn(program, modules, Resolved(i, item))
           /\ item.via = None => ReachedBy(program, modules, i, item.of, Resolved(i, item))
<1>1. CASE item.via = None
  <2>1. Resolved(i, item) = Find(i, item.of)
    BY <1>1 DEF Resolved
  <2> QED
    BY <2>1, FindReaches, BindingKinds
<1>2. CASE item.via # None
  <2> DEFINE alias == Find(i, item.via)
  <2>1. BindingOK(program, modules, alias)
    BY <1>2, FindReaches
  <2>2. CASE alias.kind = "module"
    <3>1. PICK j \in DOMAIN modules : alias = Alias(j)
      BY <2>1, <2>2, BindingKinds
    <3>2. alias.file = j
      BY <3>1 DEF Alias
    <3>3. Resolved(i, item) = Find(j, item.of)
      BY <1>2, <2>2, <3>2 DEF Resolved
    <3> QED
      BY <1>2, <3>3, FindReaches, BindingKinds
  <2>3. CASE alias.kind # "module"
    BY <1>2, <2>3 DEF Resolved, Null
  <2> QED
    BY <2>2, <2>3
<1> QED
  BY <1>1, <1>2

\* When find_symbol returns no function, no declaration is in reach.
LEMMA FindNothing ==
    ASSUME NamesOK(program, modules), GlobalsOK(program, modules, globals),
           TableOK(program, modules), NEW i \in DOMAIN modules, NEW n \in Name,
           Find(i, n).kind # "fn",
           \A kind \in {"only", "as"} :
             \A s \in SeenIn(program[modules[i].file], modules[i].next, kind) : s.name # n
    PROVE  /\ ~Declares(program[modules[i].file], n)
           /\ \A s \in SeenIn(program[modules[i].file], modules[i].next, "open") :
                \A j \in CachedIn(modules, FileIn(program, s.path)) : ~Publishes(program[modules[j].file], n)
<1> DEFINE items == program[modules[i].file]
           node == modules[i].scope[n]
<1>1. NameOK(program, modules, i, n) /\ OpenedOK(program, modules, modules[i])
  BY DEF NamesOK, ModuleOK
<1>2. ASSUME Declares(items, n) PROVE FALSE
  <2>1. node = Function(i, n)
    BY <1>1, <1>2 DEF NameOK
  <2>2. node # Absent /\ node.kind = "fn"
    BY <2>1 DEF Function, Absent
  <2> QED
    BY <2>2 DEF Find
<1>3. node = Absent
  BY <1>1, <1>2 DEF NameOK
<1>4. Visible(i, n) = {}
  <2> SUFFICES ASSUME Visible(i, n) # {} PROVE FALSE
    OBVIOUS
  <2> DEFINE first == CHOOSE k \in Visible(i, n) : \A l \in Visible(i, n) : k <= l
  <2>1. PICK j : globals[n][first].node = Function(j, n)
    BY FirstVisible
  <2>2. Find(i, n) = globals[n][first].node
    BY <1>3 DEF Find
  <2> HIDE DEF first
  <2> QED
    BY <2>1, <2>2 DEF Function
<1>5. ASSUME NEW s \in SeenIn(items, modules[i].next, "open"),
             NEW j \in CachedIn(modules, FileIn(program, s.path)), Publishes(program[modules[j].file], n)
      PROVE  FALSE
  <2>1. j \in DOMAIN modules /\ CachedIn(modules, FileIn(program, s.path)) = {j}
    BY <1>5 DEF CachedIn, TableOK
  <2>2. j \in modules[i].imports
    BY <1>1, <2>1 DEF OpenedOK
  <2>3. PICK k \in DOMAIN globals[n] : globals[n][k].file = j
    BY <1>5, <2>1 DEF GlobalsOK
  <2> QED
    BY <1>4, <2>2, <2>3 DEF Visible
<1> QED
  BY <1>2, <1>5

-----------------------------------------------------------------------------
(* What the visitor of an import does to its module *)

\* What the name of an import becomes, if it is not taken.
Binding(item, j) ==
    IF item.kind = "as" THEN Alias(j)
    ELSE IF modules[j].scope[item.of] = Absent THEN Null ELSE modules[j].scope[item.of]

LEMMA BoundRecord ==
    ASSUME NEW m, RecordOK(m), NEW item, item.kind # "open" => item.name \in Name, NEW j
    PROVE  LET w == Bound(m, item, j)
           IN  /\ RecordOK(w) /\ w.file = m.file /\ w.next = m.next + 1
               /\ w.imports = IF item.kind = "open" THEN m.imports \cup {j} ELSE m.imports
               /\ \A n \in Name :
                    w.scope[n] = IF item.kind # "open" /\ n = item.name /\ m.scope[n] = Absent
                                 THEN Binding(item, j) ELSE m.scope[n]
<1> DEFINE bind == Binding(item, j)
           nxt == m.next + 1
           imp == IF item.kind = "open" THEN m.imports \cup {j} ELSE m.imports
           sc == IF item.kind = "open" \/ m.scope[item.name] # Absent THEN m.scope
                 ELSE [m.scope EXCEPT ![item.name] = bind]
<1>1. Bound(m, item, j) = [m EXCEPT !.next = nxt, !.imports = imp, !.scope = sc]
  BY Zenon DEF Bound, Binding
<1>2. nxt \in Nat \ {0}
  BY DEF RecordOK
<1>3. IsFun(sc, Name) /\ \A n \in Name :
        sc[n] = IF item.kind # "open" /\ n = item.name /\ m.scope[n] = Absent THEN bind ELSE m.scope[n]
  <2> HIDE DEF bind
  <2>1. IsFun(m.scope, Name)
    BY DEF RecordOK
  <2>2. CASE item.kind = "open" \/ m.scope[item.name] # Absent
    BY <2>1, <2>2 DEF IsFun
  <2>3. CASE item.kind # "open" /\ m.scope[item.name] = Absent
    <3>1. sc = [m.scope EXCEPT ![item.name] = bind]
      BY <2>3
    <3>2. sc = [n \in Name |-> IF n = item.name THEN bind ELSE m.scope[n]]
      BY <2>1, <3>1 DEF IsFun
    <3> HIDE DEF sc
    <3>3. IsFun(sc, Name)
      BY <3>2 DEF IsFun
    <3>4. \A n \in Name : sc[n] = IF n = item.name THEN bind ELSE m.scope[n]
      BY <3>2
    <3> QED
      BY <2>3, <3>3, <3>4
  <2> QED
    BY <2>2, <2>3
<1> HIDE DEF nxt, imp, sc
<1>4. Bound(m, item, j) = [file |-> m.file, next |-> nxt, imports |-> imp, scope |-> sc]
  BY <1>1 DEF RecordOK
<1>5. RecordOK(Bound(m, item, j))
  BY <1>2, <1>3, <1>4 DEF RecordOK
<1> QED
  BY <1>3, <1>4, <1>5 DEF nxt, imp

\* A module goes on to its next item.
LEMMA AdvanceGrows ==
    ASSUME NEW ms, NEW after, NEW i \in DOMAIN ms, DOMAIN after = DOMAIN ms,
           after[i].file = ms[i].file, after[i].next = ms[i].next + 1,
           \A j \in DOMAIN ms : j # i => after[j] = ms[j],
           \A j \in DOMAIN ms : RecordOK(ms[j])
    PROVE  Grows(ms, after)
<1>1. \A j \in DOMAIN ms : after[j].file = ms[j].file
  OBVIOUS
<1>2. ASSUME NEW j \in DOMAIN ms
      PROVE  ms[j].next \in Nat /\ after[j].next \in Nat /\ ms[j].next <= after[j].next
  <2>1. ms[j].next \in Nat
    BY DEF RecordOK
  <2>2. after[j].next = ms[j].next \/ after[j].next = ms[j].next + 1
    BY Zenon
  <2> QED
    BY <2>1, <2>2
<1>3. \A file : CachedIn(after, file) = CachedIn(ms, file)
  BY <1>1 DEF CachedIn
<1> QED
  BY <1>1, <1>2, <1>3 DEF Grows

\* The modules that do not move keep their names.
LEMMA OthersStay ==
    ASSUME NEW files, NEW ms, NEW after, Grows(ms, after), NamesOK(files, ms), NEW i,
           DOMAIN after \subseteq DOMAIN ms \cup {i},
           \A j \in DOMAIN ms : j # i => after[j] = ms[j],
           ModuleOK(files, after, i)
    PROVE  NamesOK(files, after)
<1> SUFFICES ASSUME NEW j \in DOMAIN after PROVE ModuleOK(files, after, j)
  BY DEF NamesOK
<1>1. CASE j = i
  BY <1>1
<1>2. CASE j # i
  <2>1. j \in DOMAIN ms /\ after[j] = ms[j] /\ ModuleOK(files, ms, j)
    BY <1>2 DEF NamesOK
  <2> QED
    BY <2>1, ModuleStays
<1> QED
  BY <1>1, <1>2

\* A function is passed: nothing is bound.
Passed(m) == [m EXCEPT !.next = m.next + 1]

LEMMA FnAdvances ==
    ASSUME program \in Program, TableOK(program, modules), NamesOK(program, modules),
           NEW i \in DOMAIN modules, ~AnalyzedIn(program, modules, i),
           ItemAt(program, modules, i).kind = "fn",
           NEW after, DOMAIN after = DOMAIN modules,
           after[i] = Passed(modules[i]),
           \A j \in DOMAIN modules : j # i => after[j] = modules[j]
    PROVE  Grows(modules, after) /\ NamesOK(program, after)
<1> DEFINE m == modules[i]
           nxt == m.next + 1
           items == program[m.file]
<1>1. RecordOK(m) /\ OpenedOK(program, modules, m) /\ IsFile(items)
  BY FilesAreFiles DEF NamesOK, ModuleOK, TableOK
<1>2. nxt \in Nat \ {0} /\ m.next \in Nat \ {0} /\ m.next <= nxt
  BY <1>1 DEF RecordOK
<1>3. after[i] = [file |-> m.file, next |-> nxt, imports |-> m.imports, scope |-> m.scope]
  <2> HIDE DEF nxt
  <2>1. after[i] = [m EXCEPT !.next = nxt]
    BY DEF nxt, Passed
  <2> QED
    BY <1>1, <2>1 DEF RecordOK
<1>4. RecordOK(after[i])
  <2> HIDE DEF nxt
  <2> QED
    BY <1>1, <1>2, <1>3 DEF RecordOK
<1>5. Grows(modules, after)
  <2>1. \A j \in DOMAIN modules : RecordOK(modules[j])
    BY DEF NamesOK, ModuleOK
  <2>2. after[i].file = m.file /\ after[i].next = nxt
    <3> HIDE DEF nxt
    <3> QED
      BY <1>3
  <2>3. after[i].file = modules[i].file /\ after[i].next = modules[i].next + 1
    BY <2>2
  <2> QED
    BY <2>1, <2>3, AdvanceGrows
<1>6. OpenedOK(program, after, after[i])
  <2>1. OpenedOK(program, after, m)
    BY <1>1, <1>5, OpenedGrows
  <2>2. SeenIn(items, nxt, "open") = SeenIn(items, m.next, "open")
    <3>1. ~(m.next > Len(items)) /\ items[m.next].kind = "fn"
      BY DEF AnalyzedIn, ItemAt
    <3> QED
      BY <1>1, <1>2, <3>1, SeenNext
  <2>3. after[i].file = m.file /\ after[i].next = nxt /\ after[i].imports = m.imports
    BY <1>3
  <2> HIDE DEF nxt
  <2> QED
    BY <2>1, <2>2, <2>3 DEF OpenedOK
<1>7. ASSUME NEW n \in Name PROVE NameOK(program, after, i, n)
  <2>1. NameOK(program, modules, i, n)
    BY DEF NamesOK, ModuleOK
  <2>2. BindingOK(program, after, m.scope[n])
    BY <1>5, <2>1, BindingGrows DEF NameOK
  <2>3. \A kind : SeenIn(items, m.next, kind) \subseteq SeenIn(items, nxt, kind)
    BY <1>1, <1>2, SeenGrows
  <2>4. after[i].file = m.file /\ after[i].next = nxt /\ after[i].scope = m.scope
    BY <1>3
  <2> HIDE DEF nxt
  <2> QED
    BY <2>1, <2>2, <2>3, <2>4 DEF NameOK
<1>8. ModuleOK(program, after, i)
  BY <1>4, <1>6, <1>7 DEF ModuleOK
<1> QED
  BY <1>5, <1>8, OthersStay

\* An import is passed: what it binds is what names may stand for.
LEMMA ImportAdvances ==
    ASSUME program \in Program, TableOK(program, modules), NamesOK(program, modules),
           NEW i \in DOMAIN modules, ~AnalyzedIn(program, modules, i),
           NEW item, item = ItemAt(program, modules, i), item.kind # "fn",
           NEW j \in DOMAIN modules, CachedIn(modules, FileIn(program, item.path)) = {j},
           NEW after, DOMAIN after = DOMAIN modules,
           after[i] = Bound(modules[i], item, j),
           \A k \in DOMAIN modules : k # i => after[k] = modules[k]
    PROVE  Grows(modules, after) /\ NamesOK(program, after)
<1> DEFINE m == modules[i]
           w == after[i]
           items == program[m.file]
<1>1. RecordOK(m) /\ OpenedOK(program, modules, m) /\ IsFile(items)
  BY FilesAreFiles DEF NamesOK, ModuleOK, TableOK
<1>2. m.next \in Nat \ {0} /\ m.next + 1 \in Nat /\ m.next <= m.next + 1
  BY <1>1 DEF RecordOK
<1>3. ~(m.next > Len(items)) /\ item = items[m.next]
  BY DEF AnalyzedIn, ItemAt
<1>4. m.next \in DOMAIN items
  BY <1>1, <1>2, <1>3, SeenNext
<1>5. /\ item.kind \in {"open", "as", "only"}
      /\ item.kind # "open" => item.name \in Name
      /\ item.kind = "only" => item.of \in Name
  BY <1>1, <1>3, <1>4, ItemShape
<1>6. /\ RecordOK(w) /\ w.file = m.file /\ w.next = m.next + 1
      /\ w.imports = IF item.kind = "open" THEN m.imports \cup {j} ELSE m.imports
      /\ \A n \in Name :
           w.scope[n] = IF item.kind # "open" /\ n = item.name /\ m.scope[n] = Absent
                        THEN Binding(item, j) ELSE m.scope[n]
  BY <1>1, <1>5, BoundRecord
<1> HIDE DEF w
<1>7. Grows(modules, after)
  <2>1. \A k \in DOMAIN modules : RecordOK(modules[k])
    BY DEF NamesOK, ModuleOK
  <2> QED
    BY <1>6, <2>1, AdvanceGrows DEF w
<1>8. \A kind : SeenIn(items, w.next, kind)
                  = IF item.kind = kind THEN SeenIn(items, m.next, kind) \cup {item} ELSE SeenIn(items, m.next, kind)
  <2> SUFFICES ASSUME NEW kind
               PROVE  SeenIn(items, m.next + 1, kind)
                        = IF item.kind = kind THEN SeenIn(items, m.next, kind) \cup {item}
                          ELSE SeenIn(items, m.next, kind)
    BY <1>6
  <2> DEFINE nxt == m.next + 1
  <2>1. /\ items[m.next].kind = kind => SeenIn(items, nxt, kind) = SeenIn(items, m.next, kind) \cup {items[m.next]}
        /\ items[m.next].kind # kind => SeenIn(items, nxt, kind) = SeenIn(items, m.next, kind)
    BY <1>1, <1>2, <1>3, SeenNext
  <2> HIDE DEF nxt
  <2>2. SeenIn(items, nxt, kind)
          = IF item.kind = kind THEN SeenIn(items, m.next, kind) \cup {item} ELSE SeenIn(items, m.next, kind)
    BY <1>3, <2>1, Zenon
  <2> QED
    BY <2>2 DEF nxt
<1>9. OpenedOK(program, after, w)
  <2>1. OpenedOK(program, after, m)
    BY <1>1, <1>7, OpenedGrows
  <2>2. CachedIn(after, FileIn(program, item.path)) = {j}
    BY <1>7 DEF Grows
  <2>3. CASE item.kind = "open"
    <3>1. /\ w.imports = m.imports \cup {j} /\ w.file = m.file
          /\ SeenIn(items, w.next, "open") = SeenIn(items, m.next, "open") \cup {item}
      BY <1>6, <1>8, <2>3
    <3> QED
      BY <2>1, <2>2, <3>1 DEF OpenedOK
  <2>4. CASE item.kind # "open"
    <3>1. /\ w.imports = m.imports /\ w.file = m.file
          /\ SeenIn(items, w.next, "open") = SeenIn(items, m.next, "open")
      BY <1>6, <1>8, <2>4
    <3> QED
      BY <2>1, <3>1 DEF OpenedOK
  <2> QED
    BY <2>3, <2>4
<1>10. ASSUME NEW n \in Name PROVE NameOK(program, after, i, n)
  <2>1. NameOK(program, modules, i, n)
    BY DEF NamesOK, ModuleOK
  <2>2. \A kind : SeenIn(items, m.next, kind) \subseteq SeenIn(items, w.next, kind)
    BY <1>8
  <2>3. CASE w.scope[n] = m.scope[n]
    <3>1. BindingOK(program, after, w.scope[n])
      BY <1>7, <2>1, <2>3, BindingGrows DEF NameOK
    <3>2. Declares(items, n) => w.scope[n] = Function(i, n)
      BY <2>1, <2>3 DEF NameOK
    <3>3. ASSUME ~Declares(items, n)
          PROVE  \/ w.scope[n] = Absent
                 \/ \E s \in SeenIn(items, w.next, "only") : s.name = n
                 \/ w.scope[n].kind = "module" /\ \E s \in SeenIn(items, w.next, "as") : s.name = n
      BY <2>1, <2>2, <2>3, <3>3 DEF NameOK
    <3> QED
      BY <1>6, <3>1, <3>2, <3>3 DEF NameOK, w
  <2>4. CASE w.scope[n] # m.scope[n]
    <3>1. item.kind # "open" /\ n = item.name /\ m.scope[n] = Absent /\ w.scope[n] = Binding(item, j)
      BY <1>6, <2>4
    <3>2. ~Declares(items, n)
      <4>1. Absent # Function(i, n)
        BY DEF Absent, Function
      <4> QED
        BY <2>1, <3>1, <4>1 DEF NameOK
    <3>3. BindingOK(program, modules, w.scope[n])
      <4>1. CASE item.kind = "as"
        BY <3>1, <4>1 DEF Binding, BindingOK
      <4>2. CASE item.kind = "only"
        <5>1. NameOK(program, modules, j, item.of)
          BY <1>5, <4>2 DEF NamesOK, ModuleOK
        <5>2. w.scope[n] = Null \/ w.scope[n] = modules[j].scope[item.of]
          BY <3>1, <4>2 DEF Binding
        <5> QED
          BY <5>1, <5>2 DEF NameOK, BindingOK
      <4> QED
        BY <1>5, <3>1, <4>1, <4>2
    <3>4. BindingOK(program, after, w.scope[n])
      BY <1>7, <3>3, BindingGrows
    <3>5. \/ \E s \in SeenIn(items, w.next, "only") : s.name = n
          \/ w.scope[n].kind = "module" /\ \E s \in SeenIn(items, w.next, "as") : s.name = n
      <4>1. CASE item.kind = "only"
        BY <1>8, <3>1, <4>1
      <4>2. CASE item.kind = "as"
        <5>1. w.scope[n].kind = "module"
          BY <3>1, <4>2 DEF Binding, Alias
        <5> QED
          BY <1>8, <3>1, <4>2, <5>1
      <4> QED
        BY <1>5, <3>1, <4>1, <4>2
    <3> QED
      BY <1>6, <3>2, <3>4, <3>5 DEF NameOK, w
  <2> QED
    BY <2>3, <2>4
<1>11. ModuleOK(program, after, i)
  BY <1>6, <1>9, <1>10 DEF ModuleOK, w
<1> QED
  BY <1>7, <1>11, OthersStay

-----------------------------------------------------------------------------
(* A registered module, and the names its file publishes *)

\* The record of a module that has just been parsed.
Registered(n, file) ==
    [file |-> file, next |-> 1, imports |-> {},
     scope |-> [x \in Name |-> IF Declares(program[file], x) THEN Function(n, x) ELSE Absent]]

LEMMA RegisterNames ==
    ASSUME program \in Program, TableOK(program, modules), NamesOK(program, modules),
           NEW file \in DOMAIN program, CachedIn(modules, file) = {},
           NEW n, n \notin DOMAIN modules, NEW after, IsSeq(after),
           DOMAIN after = DOMAIN modules \cup {n}, after[n] = Registered(n, file),
           \A j \in DOMAIN modules : after[j] = modules[j]
    PROVE  Grows(modules, after) /\ NamesOK(program, after)
<1> DEFINE items == program[file]
           w == after[n]
<1>1. /\ w.file = file /\ w.next = 1 /\ w.imports = {}
      /\ \A x \in Name : w.scope[x] = IF Declares(items, x) THEN Function(n, x) ELSE Absent
  BY DEF Registered
<1>2. RecordOK(w)
  <2> DEFINE sc == [x \in Name |-> IF Declares(program[file], x) THEN Function(n, x) ELSE Absent]
  <2>1. IsFun(sc, Name)
    BY DEF IsFun
  <2>2. w = [file |-> file, next |-> 1, imports |-> {}, scope |-> sc]
    BY DEF Registered
  <2> HIDE DEF sc, w
  <2> QED
    BY <2>1, <2>2 DEF RecordOK
<1>3. IsFile(items)
  BY FilesAreFiles
<1> HIDE DEF w
<1>4. \A f : CachedIn(modules, f) # {} => CachedIn(after, f) = CachedIn(modules, f)
  <2>1. IsModule(w)
    BY <1>2 DEF RecordOK, IsModule
  <2> QED
    BY <1>1, <2>1, RegisterTable DEF w
<1>5. Grows(modules, after)
  <2>1. ASSUME NEW j \in DOMAIN modules
        PROVE  /\ after[j].file = modules[j].file
               /\ modules[j].next \in Nat /\ after[j].next \in Nat /\ modules[j].next <= after[j].next
    <3>1. modules[j].next \in Nat /\ after[j] = modules[j]
      BY DEF NamesOK, ModuleOK, RecordOK
    <3> QED
      BY <3>1
  <2> QED
    BY <1>4, <2>1 DEF Grows
<1>6. \A kind : SeenIn(items, 1, kind) = {}
  BY <1>3, NothingSeen
<1>7. OpenedOK(program, after, w)
  BY <1>1, <1>6 DEF OpenedOK
<1>8. ASSUME NEW x \in Name PROVE NameOK(program, after, n, x)
  <2>1. BindingOK(program, after, w.scope[x])
    <3>1. CASE Declares(items, x)
      <4>1. DeclaredFn(program, after, Function(n, x))
        BY <1>1, <3>1 DEF DeclaredFn, w
      <4> QED
        BY <1>1, <3>1, <4>1 DEF BindingOK
    <3>2. CASE ~Declares(items, x)
      BY <1>1, <3>2 DEF BindingOK
    <3> QED
      BY <3>1, <3>2
  <2> QED
    BY <1>1, <2>1 DEF NameOK, w
<1>9. ModuleOK(program, after, n)
  BY <1>2, <1>7, <1>8 DEF ModuleOK, w
<1> QED
  BY <1>5, <1>9, OthersStay

LEMMA RegisterGlobals ==
    ASSUME NEW files, NEW ms, NEW after, Grows(ms, after), NEW n, DOMAIN after = DOMAIN ms \cup {n},
           NEW gl, GlobalsOK(files, ms, gl), NEW longer,
           longer = [x \in Name |->
                       IF Publishes(files[after[n].file], x)
                       THEN Append(gl[x], [node |-> Function(n, x), file |-> n]) ELSE gl[x]]
    PROVE  GlobalsOK(files, after, longer)
<1>1. IsFun(longer, Name)
  BY DEF IsFun
<1>2. ASSUME NEW x \in Name
      PROVE  /\ IsSeq(longer[x])
             /\ \A k \in DOMAIN longer[x] : GlobalOK(files, after, x, longer[x][k])
             /\ \A j \in DOMAIN after :
                  Publishes(files[after[j].file], x) => \E k \in DOMAIN longer[x] : longer[x][k].file = j
  <2>1. /\ IsSeq(gl[x])
        /\ \A k \in DOMAIN gl[x] : GlobalOK(files, after, x, gl[x][k])
        /\ \A j \in DOMAIN ms :
             Publishes(files[after[j].file], x) => \E k \in DOMAIN gl[x] : gl[x][k].file = j
    <3>1. \A k \in DOMAIN gl[x] : GlobalOK(files, ms, x, gl[x][k])
      BY DEF GlobalsOK
    <3>2. \A j \in DOMAIN ms : after[j].file = ms[j].file
      BY DEF Grows
    <3> QED
      BY <3>1, <3>2, GlobalGrows DEF GlobalsOK
  <2>2. CASE ~Publishes(files[after[n].file], x)
    <3>1. longer[x] = gl[x]
      BY <2>2
    <3> QED
      BY <2>1, <2>2, <3>1
  <2>3. CASE Publishes(files[after[n].file], x)
    <3> DEFINE symbol == [node |-> Function(n, x), file |-> n]
               last == Len(gl[x]) + 1
    <3>1. longer[x] = Append(gl[x], symbol)
      BY <2>3
    <3>2. symbol.file = n
      OBVIOUS
    <3>3. GlobalOK(files, after, x, symbol)
      BY <2>3 DEF GlobalOK
    <3> HIDE DEF symbol
    <3>4. /\ IsSeq(longer[x]) /\ DOMAIN longer[x] = DOMAIN gl[x] \cup {last} /\ longer[x][last] = symbol
          /\ \A k \in DOMAIN gl[x] : longer[x][k] = gl[x][k]
      BY <2>1, <3>1, ExtendedSeq
    <3> HIDE DEF last
    <3>5. \A k \in DOMAIN longer[x] : GlobalOK(files, after, x, longer[x][k])
      BY <2>1, <3>3, <3>4
    <3>6. ASSUME NEW j \in DOMAIN after, Publishes(files[after[j].file], x)
          PROVE  \E k \in DOMAIN longer[x] : longer[x][k].file = j
      <4>1. CASE j = n
        BY <3>2, <3>4, <4>1
      <4>2. CASE j # n
        BY <2>1, <3>4, <3>6, <4>2
      <4> QED
        BY <4>1, <4>2
    <3> QED
      BY <3>4, <3>5, <3>6
  <2> QED
    BY <2>2, <2>3
<1> QED
  BY <1>1, <1>2 DEF GlobalsOK

\* The global symbols stay true as modules go on.
LEMMA KeepGlobals ==
    ASSUME NEW files, NEW ms, NEW after, Grows(ms, after), DOMAIN after = DOMAIN ms,
           NEW gl, GlobalsOK(files, ms, gl)
    PROVE  GlobalsOK(files, after, gl)
<1>1. \A j \in DOMAIN ms : after[j].file = ms[j].file
  BY DEF Grows
<1>2. \A x \in Name : \A k \in DOMAIN gl[x] : GlobalOK(files, after, x, gl[x][k])
  BY GlobalGrows DEF GlobalsOK
<1> QED
  BY <1>1, <1>2 DEF GlobalsOK

-----------------------------------------------------------------------------
(* Names of emitted functions *)

\* A function that has no mangled name yet belongs to a module under way, and the calls
\* of get_module lead from that module to the one being emitted.
LEMMA PlainIsUnderWay ==
    ASSUME MInv, NInv, stack # <<>>, Analyzed(Top), NEW node, DeclaredFn(program, modules, node),
           NameOf(node) # "mangled"
    PROVE  /\ node.file \in DOMAIN modules /\ node.file # Top
           /\ ReachesIn(program, modules, node.file, Top)
<1>1. PICK j \in DOMAIN modules, n \in Name :
           node = Function(j, n) /\ Declares(program[modules[j].file], n)
  BY DEF DeclaredFn
<1>2. node.file = j /\ node.name = n
  BY <1>1 DEF Function
<1>3. TableOK(program, modules) /\ StackOK(program, modules, stack) /\ NamesOK(program, modules)
  BY DEF MInv, NInv
<1>4. ~AnalyzedIn(program, modules, j)
  <2> DEFINE items == program[modules[j].file]
  <2>1. PICK k \in DOMAIN items : items[k].kind = "fn" /\ items[k].name = n
    BY <1>1 DEF Declares
  <2>2. ~(k < modules[j].next)
    BY <1>2, <2>1 DEF NameOf, Fns, Items
  <2>3. modules[j].next \in Nat
    BY <1>3 DEF NamesOK, ModuleOK, RecordOK
  <2>4. Len(items) \in Nat /\ DOMAIN items = 1..Len(items)
    BY <1>3, FilesAreFiles, FileSeq DEF NInv, TableOK
  <2>5. ~(modules[j].next > Len(items))
    BY <2>1, <2>2, <2>3, <2>4
  <2> QED
    BY <2>5 DEF AnalyzedIn
<1>5. j # Top
  BY <1>4 DEF Analyzed, AnalyzedIn, Items
<1>6. Len(stack) \in Nat /\ DOMAIN stack = 1..Len(stack) /\ Len(stack) > 0 /\ Top = stack[Len(stack)]
  <2>1. Len(stack) \in Nat /\ Len(stack) > 0 /\ Top = stack[Len(stack)]
    BY TopIsModule
  <2> QED
    BY <1>3, <2>1 DEF StackOK
<1>7. PICK p \in DOMAIN stack : stack[p] = j
  BY <1>3, <1>4 DEF StackOK
<1>8. ASSUME NEW S \in SUBSET DOMAIN modules, j \in S,
             \A k \in S : ImportsIn(program, modules, k) \subseteq S, Top \notin S
      PROVE  FALSE
  <2> DEFINE outside == {q \in 1..Len(stack) : p <= q /\ stack[q] \notin S}
  <2>1. Len(stack) \in outside /\ outside \in SUBSET Nat
    BY <1>6, <1>7, <1>8
  <2>2. PICK q \in outside : \A r \in outside : q <= r
    BY <2>1, LeastNatural
  <2>3. q \in Nat /\ p \in Nat /\ p < q /\ q <= Len(stack)
    BY <1>6, <1>7, <1>8, <2>2
  <2> DEFINE before == q - 1
  <2>4. before \in 1..(Len(stack) - 1) /\ before + 1 = q /\ before \in 1..Len(stack) /\ before \notin outside
        /\ p <= before
    BY <1>6, <1>7, <2>2, <2>3
  <2> HIDE DEF before
  <2>5. stack[before] \in S
    BY <2>4
  <2>6. WaitsFor(program, modules, stack[before], stack[q])
    BY <1>3, <2>4 DEF StackOK
  <2>7. stack[q] \in ImportsIn(program, modules, stack[before])
    <3> DEFINE i == stack[before]
               items == program[modules[i].file]
    <3>1. i \in DOMAIN modules /\ stack[q] \in DOMAIN modules
      BY <1>3, <1>6, <2>2, <2>5 DEF StackOK
    <3>2. modules[i].next \in DOMAIN items
      <4>1. modules[i].next \in Nat \ {0} /\ IsFile(items)
        BY <1>3, <3>1, FilesAreFiles DEF NamesOK, ModuleOK, RecordOK, NInv, TableOK
      <4>2. ~(modules[i].next > Len(items))
        BY <2>6 DEF WaitsFor, AnalyzedIn
      <4> QED
        BY <4>1, <4>2, SeenNext
    <3> QED
      BY <2>6, <3>1, <3>2 DEF WaitsFor, ItemAt, ImportsIn
  <2> QED
    BY <1>8, <2>2, <2>5, <2>7
<1>9. ReachesIn(program, modules, j, Top)
  BY <1>8 DEF ReachesIn
<1> QED
  BY <1>2, <1>5, <1>9

-----------------------------------------------------------------------------
(* Every step of the compiler keeps the invariant about names. *)

\* What is left to show of a step that goes on.
LEMMA StepNInv ==
    ASSUME MInv, NInv, program' = program, Grows(modules, modules'), NamesOK(program, modules'),
           GlobalsOK(program, modules', globals'), outcome' # "unknown symbol",
           \A u \in uses' : UseOK(program, modules, u),
           \A c \in calls' : CallOK(program, modules, c)
    PROVE  NInv'
<1>1. ASSUME NEW u \in uses' PROVE UseOK(program, modules', u)
  <2>1. UseOK(program, modules, u)
    OBVIOUS
  <2>2. IsFile(program[modules[u.from].file])
    BY <2>1, FilesAreFiles DEF MInv, NInv, TableOK, UseOK
  <2> QED
    BY <2>1, <2>2, UseGrows
<1>2. \A c \in calls' : CallOK(program, modules', c)
  BY CallGrows
<1>3. program' \in Program
  BY DEF NInv
<1> QED
  BY <1>1, <1>2, <1>3 DEF NInv

\* A compilation that fails leaves everything as it was.
LEMMA FailNInv ==
    ASSUME NInv, NEW error, Fail(error),
           error = "unknown symbol" => UnknownIn(program, modules, stack)
    PROVE  NInv'
<1>1. /\ program' = program /\ modules' = modules /\ globals' = globals /\ stack' = stack
      /\ uses' = uses /\ calls' = calls /\ outcome' = error
  BY DEF Fail
<1> QED
  BY <1>1 DEF NInv

LEMMA InitNInv == Init => NInv
<1> SUFFICES ASSUME Init PROVE NInv
  OBVIOUS
<1>1. /\ program \in Program /\ modules = <<>> /\ DOMAIN modules = {} /\ uses = {} /\ calls = {}
      /\ outcome = "running" /\ globals = [n \in Name |-> <<>>]
  BY DEF Init
<1>2. NamesOK(program, modules)
  BY <1>1 DEF NamesOK
<1>3. GlobalsOK(program, modules, globals)
  <2>1. IsFun(globals, Name)
    BY <1>1 DEF IsFun
  <2>2. \A n \in Name : IsSeq(globals[n]) /\ DOMAIN globals[n] = {}
    <3>1. <<>> \in Seq({}) /\ DOMAIN <<>> = {}
      OBVIOUS
    <3> QED
      BY <1>1, <3>1 DEF IsSeq
  <2> QED
    BY <1>1, <2>1, <2>2 DEF GlobalsOK
<1> QED
  BY <1>1, <1>2, <1>3 DEF NInv

\* get_module registers a file.
LEMMA LoadNInv ==
    ASSUME MInv, NInv, NEW file \in DOMAIN program, CachedIn(modules, file) = {}, Load(file),
           program' = program, uses' = uses, calls' = calls, outcome' = outcome, outcome = "running"
    PROVE  NInv'
<1> DEFINE n == Len(modules) + 1
           items == program[file]
           w == Registered(n, file)
<1>1. modules' = Append(modules, w)
  <2> DEFINE names == {items[k].name : k \in {l \in DOMAIN items : items[l].kind = "fn"}}
  <2>1. modules' = Append(modules,
              [file |-> file, next |-> 1, imports |-> {},
               scope |-> [x \in Name |-> IF x \in names THEN Function(n, x) ELSE Absent]])
    BY DEF Load
  <2>2. \A x : x \in names <=> Declares(items, x)
    BY DEF Declares
  <2> HIDE DEF names
  <2>3. [x \in Name |-> IF x \in names THEN Function(n, x) ELSE Absent]
          = [x \in Name |-> IF Declares(items, x) THEN Function(n, x) ELSE Absent]
    BY <2>2
  <2> QED
    BY <2>1, <2>3 DEF Registered
<1>2. globals' = [x \in Name |->
                    IF Publishes(items, x)
                    THEN Append(globals[x], [node |-> Function(n, x), file |-> n]) ELSE globals[x]]
  BY DEF Load, Declared
<1> HIDE DEF w
<1>3. /\ IsSeq(modules') /\ DOMAIN modules' = DOMAIN modules \cup {n} /\ n \notin DOMAIN modules
      /\ modules'[n] = w /\ \A j \in DOMAIN modules : modules'[j] = modules[j]
  <2>1. IsSeq(modules)
    BY DEF MInv, TableOK
  <2> QED
    BY <1>1, <2>1, ExtendedSeq, SMT
<1> HIDE DEF n
<1>4. w.file = file
  BY DEF w, Registered
<1>5. Grows(modules, modules') /\ NamesOK(program, modules')
  BY <1>3, RegisterNames DEF MInv, NInv, w
<1>6. GlobalsOK(program, modules', globals')
  <2>1. globals' = [x \in Name |->
                      IF Publishes(program[modules'[n].file], x)
                      THEN Append(globals[x], [node |-> Function(n, x), file |-> n]) ELSE globals[x]]
    BY <1>2, <1>3, <1>4
  <2> QED
    BY <1>3, <1>5, <2>1, RegisterGlobals DEF NInv
<1>7. outcome' # "unknown symbol"
  OBVIOUS
<1>8. (\A u \in uses' : UseOK(program, modules, u)) /\ \A c \in calls' : CallOK(program, modules, c)
  BY DEF NInv
<1> QED
  BY <1>5, <1>6, <1>7, <1>8, StepNInv

\* The record of a module is replaced.
LEMMA ReplaceModule ==
    ASSUME IsSeq(modules), NEW i \in DOMAIN modules, NEW w, modules' = [modules EXCEPT ![i] = w]
    PROVE  /\ DOMAIN modules' = DOMAIN modules /\ modules'[i] = w
           /\ \A k \in DOMAIN modules : k # i => modules'[k] = modules[k]
BY UpdatedSeq, Zenon

\* The visitor of an import goes on with a registered module.
LEMMA ImportNInv ==
    ASSUME MInv, NInv, NEW i \in DOMAIN modules, ~AnalyzedIn(program, modules, i),
           ItemAt(program, modules, i).kind # "fn", NEW j \in DOMAIN modules,
           CachedIn(modules, FileIn(program, ItemAt(program, modules, i).path)) = {j},
           DOMAIN modules' = DOMAIN modules,
           modules'[i] = Bound(modules[i], ItemAt(program, modules, i), j),
           \A k \in DOMAIN modules : k # i => modules'[k] = modules[k],
           program' = program, globals' = globals, uses' = uses, outcome' # "unknown symbol",
           \A c \in calls' : CallOK(program, modules, c)
    PROVE  NInv'
<1>1. program \in Program /\ TableOK(program, modules) /\ NamesOK(program, modules)
  BY DEF MInv, NInv
<1>2. Grows(modules, modules') /\ NamesOK(program, modules')
  BY <1>1, ImportAdvances
<1>3. GlobalsOK(program, modules', globals')
  BY <1>2, KeepGlobals DEF NInv
<1>4. \A u \in uses' : UseOK(program, modules, u)
  BY DEF NInv
<1> QED
  BY <1>2, <1>3, <1>4, StepNInv

\* The item at which the module under way is.
LEMMA TopItem ==
    ASSUME MInv, NInv, stack # <<>>, ~Analyzed(Top)
    PROVE  /\ Top \in DOMAIN modules /\ Top = stack[Len(stack)]
           /\ Item = ItemAt(program, modules, Top) /\ ~AnalyzedIn(program, modules, Top)
           /\ Item = Items(Top)[modules[Top].next]
           /\ Item.kind \in {"fn", "open", "as", "only"}
           /\ Item.kind = "fn" => Item.of \in Name \cup {None} /\ Item.via \in Name \cup {None}
<1>1. Top \in DOMAIN modules /\ Top = stack[Len(stack)]
  BY TopIsModule
<1>2. IsFile(Items(Top)) /\ modules[Top].next \in Nat \ {0}
  BY <1>1, FilesAreFiles DEF MInv, NInv, TableOK, NamesOK, ModuleOK, RecordOK, Items
<1>3. modules[Top].next \in DOMAIN Items(Top)
  BY <1>2, SeenNext DEF Analyzed
<1>4. Item = Items(Top)[modules[Top].next]
  BY DEF Item
<1>5. /\ Item.kind \in {"fn", "open", "as", "only"}
      /\ Item.kind = "fn" => Item.of \in Name \cup {None} /\ Item.via \in Name \cup {None}
  BY <1>2, <1>3, <1>4, ItemShape
<1> QED
  BY <1>1, <1>4, <1>5 DEF ItemAt, Items, Analyzed, AnalyzedIn

LEMMA FnNInv ==
    ASSUME MInv, NInv, VisitFn, outcome = "running"
    PROVE  NInv'
<1>1. /\ stack # <<>> /\ ~Analyzed(Top) /\ Item.kind = "fn"
      /\ Calling(Item) => Resolved(Top, Item).kind = "fn"
      /\ uses' = uses \cup (IF Calling(Item)
                            THEN {[from |-> Top, at |-> modules[Top].next, to |-> Resolved(Top, Item)]} ELSE {})
      /\ modules' = [modules EXCEPT ![Top].next = modules[Top].next + 1]
      /\ program' = program /\ globals' = globals /\ stack' = stack /\ calls' = calls /\ outcome' = outcome
  BY DEF VisitFn, Analyzing
<1>2. /\ Top \in DOMAIN modules /\ Item = ItemAt(program, modules, Top) /\ ~AnalyzedIn(program, modules, Top)
      /\ Item = Items(Top)[modules[Top].next] /\ Item.of \in Name \cup {None} /\ Item.via \in Name \cup {None}
  BY <1>1, TopItem
<1>3. NamesOK(program, modules) /\ GlobalsOK(program, modules, globals) /\ TableOK(program, modules)
  BY DEF MInv, NInv
<1> DEFINE w == Passed(modules[Top])
<1>4. /\ DOMAIN modules' = DOMAIN modules /\ modules'[Top] = w
      /\ \A k \in DOMAIN modules : k # Top => modules'[k] = modules[k]
  <2>1. IsSeq(modules) /\ modules' = [modules EXCEPT ![Top] = w]
    BY <1>1, <1>3 DEF TableOK, Passed
  <2> HIDE DEF w
  <2> QED
    BY <1>2, <2>1, ReplaceModule, Zenon
<1>5. Grows(modules, modules') /\ NamesOK(program, modules')
  BY <1>1, <1>2, <1>3, <1>4, FnAdvances DEF NInv
<1>6. GlobalsOK(program, modules', globals')
  BY <1>1, <1>3, <1>4, <1>5, KeepGlobals
<1>7. ASSUME NEW u \in uses' PROVE UseOK(program, modules, u)
  <2>1. CASE u \in uses
    BY <2>1 DEF NInv
  <2>2. CASE u \notin uses
    <3>1. Calling(Item) /\ u = [from |-> Top, at |-> modules[Top].next, to |-> Resolved(Top, Item)]
      BY <1>1, <2>2
    <3>2. u.from = Top /\ u.at = modules[Top].next /\ u.to = Resolved(Top, Item)
      BY <3>1
    <3>3. Item.of \in Name /\ Resolved(Top, Item).kind = "fn"
      BY <1>1, <1>2, <3>1 DEF Calling
    <3>4. /\ DeclaredFn(program, modules, u.to)
          /\ Item.via = None => ReachedBy(program, modules, Top, Item.of, u.to)
      BY <1>2, <1>3, <3>2, <3>3, ResolvedReaches
    <3>5. program[modules[u.from].file][u.at] = Item
      BY <1>2, <3>2 DEF Items
    <3> QED
      BY <1>2, <3>2, <3>4, <3>5 DEF UseOK
  <2> QED
    BY <2>1, <2>2
<1>8. \A c \in calls' : CallOK(program, modules, c)
  BY <1>1 DEF NInv
<1>9. outcome' # "unknown symbol"
  BY <1>1
<1> QED
  BY <1>1, <1>5, <1>6, <1>7, <1>8, <1>9, StepNInv

\* A name is reported unknown.
LEMMA UnresolvedNInv ==
    ASSUME MInv, NInv, VisitUnresolved
    PROVE  NInv'
<1>1. /\ stack # <<>> /\ ~Analyzed(Top) /\ Item.kind = "fn" /\ Calling(Item)
      /\ Resolved(Top, Item).kind # "fn" /\ Fail("unknown symbol")
  BY DEF VisitUnresolved, Analyzing
<1>2. /\ Top \in DOMAIN modules /\ Top = stack[Len(stack)] /\ Item = ItemAt(program, modules, Top)
      /\ Item.of \in Name
  BY <1>1, TopItem DEF Calling
<1>3. NamesOK(program, modules) /\ GlobalsOK(program, modules, globals) /\ TableOK(program, modules)
  BY DEF MInv, NInv
<1>4. UnknownIn(program, modules, stack)
  <2> DEFINE seen(kind) == SeenIn(program[modules[Top].file], modules[Top].next, kind)
  <2> SUFFICES ASSUME Item.via = None,
                      ~ \E s \in seen("only") \cup seen("as") : s.name = Item.of
               PROVE  /\ ~Declares(program[modules[Top].file], Item.of)
                      /\ \A s \in seen("open") :
                           \A j \in CachedIn(modules, FileIn(program, s.path)) :
                             ~Publishes(program[modules[j].file], Item.of)
    BY <1>2 DEF UnknownIn
  <2>1. Find(Top, Item.of).kind # "fn"
    BY <1>1 DEF Resolved
  <2>2. \A kind \in {"only", "as"} : \A s \in seen(kind) : s.name # Item.of
    OBVIOUS
  <2> QED
    BY <1>2, <1>3, <2>1, <2>2, FindNothing
<1> QED
  BY <1>1, <1>4, FailNInv

\* A module is emitted, and the import that asked for it goes on.
LEMMA FinishNInv ==
    ASSUME MInv, NInv, Finish, outcome = "running"
    PROVE  NInv'
<1>1. /\ stack # <<>> /\ Analyzed(Top) /\ program' = program /\ globals' = globals /\ uses' = uses
      /\ calls' = calls \cup {[from |-> Top, to |-> u.to, name |-> NameOf(u.to)] : u \in {v \in uses : v.from = Top}}
  BY DEF Finish
<1>2. Len(stack) \in Nat /\ Len(stack) > 0 /\ Top \in DOMAIN modules /\ Top = stack[Len(stack)]
  BY <1>1, TopIsModule
<1>3. outcome' # "unknown symbol"
  BY DEF Finish
<1>4. ASSUME NEW c \in calls' PROVE CallOK(program, modules, c)
  <2>1. CASE c \in calls
    BY <2>1 DEF NInv
  <2>2. CASE c \notin calls
    <3>1. PICK u \in uses : c = [from |-> Top, to |-> u.to, name |-> NameOf(u.to)]
      BY <1>1, <2>2
    <3>2. c.from = Top /\ c.to = u.to /\ c.name = NameOf(u.to)
      BY <3>1
    <3>3. DeclaredFn(program, modules, u.to)
      BY DEF NInv, UseOK
    <3>4. ASSUME c.name = "plain"
          PROVE  /\ c.to.file \in DOMAIN modules /\ c.to.file # Top
                 /\ ReachesIn(program, modules, c.to.file, Top)
      <4>1. NameOf(u.to) # "mangled"
        BY <3>2, <3>4
      <4> QED
        BY <1>1, <3>2, <3>3, <4>1, PlainIsUnderWay
    <3> QED
      BY <1>2, <3>2, <3>4 DEF CallOK
  <2> QED
    BY <2>1, <2>2
<1>5. CASE Len(stack) = 1
  <2>1. modules' = modules
    BY <1>5 DEF Finish
  <2>2. Grows(modules, modules')
    BY <2>1 DEF Grows, NInv, NamesOK, ModuleOK, RecordOK
  <2>3. NamesOK(program, modules') /\ GlobalsOK(program, modules', globals')
        /\ \A u \in uses' : UseOK(program, modules, u)
    BY <1>1, <2>1 DEF NInv
  <2> QED
    BY <1>1, <1>3, <1>4, <2>2, <2>3, StepNInv
<1>6. CASE Len(stack) # 1
  <2> DEFINE before == Len(stack) - 1
             caller == stack[before]
             item == ItemAt(program, modules, caller)
  <2>1. modules' = [modules EXCEPT ![caller] = Bound(modules[caller], item, Top)]
    BY <1>6 DEF Finish, ItemAt, Items
  <2>2. before \in 1..(Len(stack) - 1) /\ before + 1 = Len(stack) /\ before \in 1..Len(stack)
    BY <1>2, <1>6
  <2> HIDE DEF before
  <2>3. WaitsFor(program, modules, caller, Top) /\ caller \in DOMAIN modules
    <3>1. stack \in Seq(DOMAIN modules)
      BY DEF MInv, StackOK
    <3>2. stack[before + 1] = Top
      BY <1>2, <2>2
    <3>3. WaitsFor(program, modules, stack[before], stack[before + 1])
      BY <2>2 DEF MInv, StackOK
    <3> QED
      BY <2>2, <3>1, <3>2, <3>3
  <2>4. /\ ~AnalyzedIn(program, modules, caller) /\ item.kind # "fn"
        /\ CachedIn(modules, FileIn(program, item.path)) = {Top}
    BY <2>3 DEF WaitsFor
  <2> DEFINE w == Bound(modules[caller], item, Top)
  <2>5. IsSeq(modules) /\ modules' = [modules EXCEPT ![caller] = w]
    BY <2>1 DEF MInv, TableOK
  <2> HIDE DEF w, caller
  <2>6. /\ DOMAIN modules' = DOMAIN modules /\ modules'[caller] = w
        /\ \A k \in DOMAIN modules : k # caller => modules'[k] = modules[k]
    BY <2>3, <2>5, ReplaceModule, Zenon
  <2> QED
    BY <1>1, <1>2, <1>3, <1>4, <2>3, <2>4, <2>6, ImportNInv DEF w
<1> QED
  BY <1>5, <1>6

LEMMA NextNInv == MInv /\ NInv /\ [Next]_vars => NInv'
<1> SUFFICES ASSUME MInv, NInv, [Next]_vars PROVE NInv'
  OBVIOUS
<1>1. TableOK(program, modules)
  BY DEF MInv
<1>2. CASE outcome = "running" /\ Start
  <2>1. CASE Found(MainPath) = {}
    <3>1. Fail("no file")
      BY <1>2, <2>1 DEF Start
    <3> QED
      BY <3>1, FailNInv
  <2>2. CASE Found(MainPath) # {}
    <3>1. /\ Load(FileOf(MainPath)) /\ program' = program /\ modules = <<>>
          /\ uses' = uses /\ calls' = calls /\ outcome' = outcome
      BY <1>2, <2>2 DEF Start
    <3>2. FileOf(MainPath) \in DOMAIN program
      BY <1>1, <2>2, FoundOnDisk, FileExists
    <3>3. DOMAIN modules = {}
      BY <3>1
    <3>4. CachedIn(modules, FileOf(MainPath)) = {}
      BY <3>3 DEF CachedIn
    <3> QED
      BY <1>2, <3>1, <3>2, <3>4, LoadNInv
  <2> QED
    BY <2>1, <2>2
<1>3. CASE outcome = "running" /\ VisitImport
  <2> DEFINE file == FileOf(Item.path)
  <2>1. /\ Found(Item.path) # {} /\ Cached(file) = {} /\ Load(file) /\ program' = program
        /\ uses' = uses /\ calls' = calls /\ outcome' = outcome
    BY <1>3 DEF VisitImport
  <2>2. file \in DOMAIN program
    BY <1>1, <2>1, FoundOnDisk, FileExists
  <2>3. CachedIn(modules, file) = {}
    BY <2>1 DEF Cached, CachedIn
  <2> HIDE DEF file
  <2> QED
    BY <1>3, <2>1, <2>2, <2>3, LoadNInv
<1>4. CASE outcome = "running" /\ VisitCachedImport
  <2>1. /\ stack # <<>> /\ ~Analyzed(Top) /\ Item.kind # "fn" /\ program' = program
        /\ globals' = globals /\ uses' = uses /\ calls' = calls /\ outcome' = outcome
    BY <1>4 DEF VisitCachedImport, Analyzing
  <2>2. PICK j \in Cached(FileOf(Item.path)) : modules' = [modules EXCEPT ![Top] = Bound(modules[Top], Item, j)]
    BY <1>4 DEF VisitCachedImport
  <2>3. Top \in DOMAIN modules /\ Item = ItemAt(program, modules, Top) /\ ~AnalyzedIn(program, modules, Top)
    BY <2>1, TopItem
  <2>4. j \in DOMAIN modules /\ CachedIn(modules, FileIn(program, Item.path)) = {j}
    <3>1. FileOf(Item.path) = FileIn(program, Item.path)
      BY <1>1, FoundOnDisk
    <3> QED
      BY <1>1, <3>1 DEF Cached, CachedIn, TableOK
  <2>5. outcome' # "unknown symbol" /\ \A c \in calls' : CallOK(program, modules, c)
    BY <1>4, <2>1 DEF NInv
  <2> DEFINE w == Bound(modules[Top], Item, j)
  <2>6. IsSeq(modules) /\ modules' = [modules EXCEPT ![Top] = w]
    BY <1>1, <2>2 DEF TableOK
  <2> HIDE DEF w
  <2>7. /\ DOMAIN modules' = DOMAIN modules /\ modules'[Top] = w
        /\ \A k \in DOMAIN modules : k # Top => modules'[k] = modules[k]
    BY <2>3, <2>6, ReplaceModule, Zenon
  <2> QED
    BY <2>1, <2>3, <2>4, <2>5, <2>7, ImportNInv DEF w
<1>5. CASE outcome = "running" /\ VisitFn
  BY <1>5, FnNInv
<1>6. CASE VisitUnresolved
  BY <1>6, UnresolvedNInv
<1>7. CASE outcome = "running" /\ Finish
  BY <1>7, FinishNInv
<1>8. CASE VisitMissingImport
  BY <1>8, FailNInv DEF VisitMissingImport
<1>9. CASE FinishUnverified
  BY <1>9, FailNInv DEF FinishUnverified
<1>10. CASE Stopped \/ UNCHANGED vars
  BY <1>10 DEF Stopped, vars, NInv
<1> QED
  BY <1>2, <1>3, <1>4, <1>5, <1>6, <1>7, <1>8, <1>9, <1>10 DEF Next

LEMMA NamesInvariance == Spec => [](MInv /\ NInv)
<1>1. Init => MInv /\ NInv
  BY InitMInv, InitNInv
<1>2. MInv /\ NInv /\ [Next]_vars => MInv' /\ NInv'
  BY NextMInv, NextNInv
<1> QED
  BY <1>1, <1>2, PTL DEF Spec

\* A call without an alias enters a function of the module itself, of a selective import
\* or a public one of a module imported as a whole, however the modules import each other.
THEOREM CallsReachImportedNames == Spec => []OnlyImportedSymbols
<1>1. ASSUME MInv, NInv PROVE OnlyImportedSymbols
  <2> SUFFICES ASSUME NEW u \in uses, Items(u.from)[u.at].via = None
               PROVE  \/ u.to.file = u.from
                      \/ \E s \in Seen(u.from, "only") : s.name = Items(u.from)[u.at].of
                      \/ /\ \E s \in Seen(u.from, "open") : Cached(FileOf(s.path)) = {u.to.file}
                         /\ ~Private(u.to)
    BY DEF OnlyImportedSymbols
  <2>1. UseOK(program, modules, u) /\ TableOK(program, modules) /\ program \in Program
    BY <1>1 DEF NInv, MInv
  <2>2. /\ u.from \in DOMAIN modules /\ DeclaredFn(program, modules, u.to)
        /\ ReachedBy(program, modules, u.from, Items(u.from)[u.at].of, u.to)
    BY <2>1 DEF UseOK, Items
  <2>3. \A kind : Seen(u.from, kind) = SeenIn(program[modules[u.from].file], modules[u.from].next, kind)
    BY DEF Seen, SeenIn, Items
  <2>4. \A p : Cached(FileOf(p)) = CachedIn(modules, FileIn(program, p))
    BY <2>1, FoundOnDisk DEF Cached, CachedIn
  <2>5. Publishes(program[modules[u.to.file].file], u.to.name) => ~Private(u.to)
    <3>1. u.to.file \in DOMAIN modules
      BY <2>2 DEF DeclaredFn, Function
    <3>2. IsFile(program[modules[u.to.file].file])
      BY <2>1, <3>1, FilesAreFiles DEF TableOK
    <3> QED
      BY <3>2, OneFunction DEF Private, Fns, Items
  <2> QED
    BY <2>2, <2>3, <2>4, <2>5 DEF ReachedBy
<1> QED
  BY <1>1, NamesInvariance, PTL

\* A name is reported unknown only when no declaration of it is in reach, modules still
\* under way included.
THEOREM KnownNamesAreFound == Spec => []UnknownMeansUndeclared
<1>1. ASSUME MInv, NInv PROVE UnknownMeansUndeclared
  <2> DEFINE DeclaredIn(i, private) ==
               \E k \in Fns(i) : Items(i)[k].name = Item.of /\ (Items(i)[k].private => private)
  <2> SUFFICES ASSUME outcome = "unknown symbol", Item.via = None,
                      ~(Item.of \in {s.name : s \in Seen(Top, "only") \cup Seen(Top, "as")})
               PROVE  /\ ~DeclaredIn(Top, TRUE)
                      /\ \A s \in Seen(Top, "open") : \A i \in Cached(FileOf(s.path)) : ~DeclaredIn(i, FALSE)
    BY DEF UnknownMeansUndeclared
  <2>1. UnknownIn(program, modules, stack) /\ TableOK(program, modules)
    BY <1>1 DEF NInv, MInv
  <2>2. /\ Item = ItemAt(program, modules, stack[Len(stack)])
        /\ \A kind : Seen(Top, kind)
             = SeenIn(program[modules[stack[Len(stack)]].file], modules[stack[Len(stack)]].next, kind)
    <3>1. Item = ItemAt(program, modules, stack[Len(stack)])
      BY DEF Item, Top, Items, ItemAt
    <3>2. \A i, kind : Seen(i, kind) = SeenIn(program[modules[i].file], modules[i].next, kind)
      BY DEF Items, Seen, SeenIn
    <3> QED
      BY <3>1, <3>2 DEF Top
  <2>3. \A p : Cached(FileOf(p)) = CachedIn(modules, FileIn(program, p))
    <3> SUFFICES ASSUME NEW p PROVE Cached(FileOf(p)) = CachedIn(modules, FileIn(program, p))
      OBVIOUS
    <3>1. FileOf(p) = FileIn(program, p)
      BY <2>1, FoundOnDisk
    <3> QED
      BY <3>1 DEF Cached, CachedIn
  <2>4. DeclaredIn(Top, TRUE) => Declares(program[modules[stack[Len(stack)]].file], Item.of)
    BY DEF Declares, Fns, Items, Top
  <2>5. \A i : DeclaredIn(i, FALSE) => Publishes(program[modules[i].file], Item.of)
    BY DEF Publishes, Fns, Items
  <2> HIDE DEF DeclaredIn
  <2> QED
    BY <2>1, <2>2, <2>3, <2>4, <2>5 DEF UnknownIn
<1> QED
  BY <1>1, NamesInvariance, PTL

\* A call is emitted under the name of a definition, except into a cycle of imports.
THEOREM CallsAreNamedAsDefined == Spec => []PlainNamesOnlyInCycles
<1>1. ASSUME MInv, NInv PROVE PlainNamesOnlyInCycles
  <2> SUFFICES ASSUME NEW c \in calls, c.name = "plain"
               PROVE  c.to.file # c.from /\ Reaches(c.to.file, c.from)
    BY DEF PlainNamesOnlyInCycles
  <2>1. c.to.file # c.from /\ ReachesIn(program, modules, c.to.file, c.from) /\ TableOK(program, modules)
    BY <1>1 DEF NInv, MInv, CallOK
  <2>2. \A p : Found(p) = FoundIn(program, p) /\ Cached(FileOf(p)) = CachedIn(modules, FileIn(program, p))
    BY <2>1, FoundOnDisk DEF Cached, CachedIn
  <2>3. \A i : Imports(i) = ImportsIn(program, modules, i)
    BY <2>2 DEF Imports, ImportsIn, Items, Ids
  <2> QED
    BY <2>1, <2>3 DEF Reaches, ReachesIn, Ids
<1> QED
  BY <1>1, NamesInvariance, PTL

-----------------------------------------------------------------------------
(* The end of a compilation *)

\* The work left: of a file not registered, its registration <<file, 0>>, and of every
\* file the items that are not analysed.
Todo(files, ms) ==
    {t \in (DOMAIN files) \X Nat :
        /\ t[2] <= Len(files[t[1]])
        /\ \A i \in DOMAIN ms : ms[i].file = t[1] => ms[i].next <= t[2]}

Left == Cardinality(Todo(program, modules))

\* As the files are finitely many, so is the work.
LEMMA FiniteTodo ==
    ASSUME NEW files, IsFiniteSet(DOMAIN files), \A file \in DOMAIN files : IsFile(files[file]), NEW ms
    PROVE  IsFiniteSet(Todo(files, ms))
<1> DEFINE of == [file \in DOMAIN files |-> {file} \X (0..Len(files[file]))]
<1>1. ASSUME NEW file \in DOMAIN files PROVE IsFiniteSet(of[file])
  <2>1. Len(files[file]) \in Nat
    BY FileSeq
  <2>2. IsFiniteSet(0..Len(files[file]))
    BY <2>1, FS_Interval
  <2>3. IsFiniteSet({file})
    BY FS_Singleton
  <2> QED
    BY <2>2, <2>3, FS_Product
<1>2. Todo(files, ms) \subseteq UNION {of[file] : file \in DOMAIN files}
  <2> SUFFICES ASSUME NEW t \in Todo(files, ms) PROVE t \in of[t[1]] /\ t[1] \in DOMAIN files
    OBVIOUS
  <2>1. t \in (DOMAIN files) \X Nat /\ t[2] <= Len(files[t[1]])
    BY DEF Todo
  <2>2. Len(files[t[1]]) \in Nat
    BY <2>1, FileSeq
  <2> QED
    BY <2>1, <2>2
<1>3. DOMAIN of = DOMAIN files
  OBVIOUS
<1> HIDE DEF of
<1>4. IsFiniteSet(UNION {of[file] : file \in DOMAIN files})
  BY <1>1, <1>3, FiniteUnion
<1> QED
  BY <1>2, <1>4, FS_Subset

\* A piece of work is done, and none added.
LEMMA LessLeft ==
    ASSUME NEW files, IsFiniteSet(DOMAIN files), \A file \in DOMAIN files : IsFile(files[file]), NEW ms, NEW after,
           Todo(files, after) \subseteq Todo(files, ms),
           NEW t, t \in Todo(files, ms), t \notin Todo(files, after)
    PROVE  Cardinality(Todo(files, after)) < Cardinality(Todo(files, ms))
<1>1. IsFiniteSet(Todo(files, ms)) /\ IsFiniteSet(Todo(files, after))
  BY FiniteTodo
<1>2. Todo(files, after) # Todo(files, ms)
  OBVIOUS
<1>3. Cardinality(Todo(files, after)) \in Nat /\ Cardinality(Todo(files, ms)) \in Nat
  BY <1>1, FS_CardinalityType
<1>4. /\ Cardinality(Todo(files, after)) <= Cardinality(Todo(files, ms))
      /\ Cardinality(Todo(files, after)) # Cardinality(Todo(files, ms))
  BY <1>1, <1>2, FS_Subset
<1> QED
  BY <1>3, <1>4

\* What is known of the files and the table when a step is taken.
LEMMA FilesAndTable ==
    ASSUME MInv, NInv
    PROVE  /\ TableOK(program, modules) /\ \A file \in DOMAIN program : IsFile(program[file])
           /\ \A i \in DOMAIN modules : modules[i].next \in Nat \ {0}
BY ProgramAssumption DEF MInv, NInv, NamesOK, ModuleOK, RecordOK

\* A file is registered.
LEMMA LoadLeavesLess ==
    ASSUME MInv, NInv, IsFiniteSet(DOMAIN program),
           NEW file \in DOMAIN program, Cached(file) = {}, Load(file), program' = program
    PROVE  Left' < Left
<1>1. /\ TableOK(program, modules) /\ \A f \in DOMAIN program : IsFile(program[f])
      /\ \A i \in DOMAIN modules : modules[i].next \in Nat \ {0}
  BY FilesAndTable
<1>2. PICK sc : modules' = Append(modules, [file |-> file, next |-> 1, imports |-> {}, scope |-> sc])
  BY DEF Load
<1> DEFINE m == [file |-> file, next |-> 1, imports |-> {}, scope |-> sc]
<1>3. m.file = file /\ m.next = 1
  OBVIOUS
<1>4. IsSeq(modules) /\ modules' = Append(modules, m)
  BY <1>1, <1>2 DEF TableOK
<1> HIDE DEF m
<1> DEFINE n == Len(modules) + 1
<1>5. /\ DOMAIN modules' = DOMAIN modules \cup {n} /\ modules'[n] = m
      /\ \A j \in DOMAIN modules : modules'[j] = modules[j]
  BY <1>4, ExtendedSeq, SMT
<1> HIDE DEF n
<1>6. Todo(program, modules') \subseteq Todo(program, modules)
  BY <1>5 DEF Todo
<1>7. <<file, 0>> \in Todo(program, modules)
  <2>1. \A i \in DOMAIN modules : modules[i].file # file
    BY DEF Cached
  <2>2. 0 <= Len(program[file])
    BY <1>1, FileSeq
  <2> QED
    BY <2>1, <2>2 DEF Todo
<1>8. <<file, 0>> \notin Todo(program, modules')
  BY <1>3, <1>5 DEF Todo
<1>9. Cardinality(Todo(program, modules')) < Cardinality(Todo(program, modules))
  BY <1>1, <1>6, <1>7, <1>8, LessLeft
<1> QED
  BY <1>9 DEF Left

\* An item is analysed.
LEMMA ItemLeavesLess ==
    ASSUME MInv, NInv, IsFiniteSet(DOMAIN program), program' = program,
           NEW i \in DOMAIN modules, ~AnalyzedIn(program, modules, i),
           NEW w, w.file = modules[i].file, w.next = modules[i].next + 1,
           modules' = [modules EXCEPT ![i] = w]
    PROVE  Left' < Left
<1>1. /\ TableOK(program, modules) /\ \A f \in DOMAIN program : IsFile(program[f])
      /\ \A j \in DOMAIN modules : modules[j].next \in Nat \ {0}
  BY FilesAndTable
<1> DEFINE file == modules[i].file
           next == modules[i].next
<1>2. /\ DOMAIN modules' = DOMAIN modules /\ modules'[i] = w
      /\ \A j \in DOMAIN modules : j # i => modules'[j] = modules[j]
  BY <1>1, ReplaceModule, Zenon DEF TableOK
<1>3. /\ file \in DOMAIN program /\ next \in Nat /\ Len(program[file]) \in Nat /\ next <= Len(program[file])
  <2>1. file \in DOMAIN program /\ next \in Nat
    BY <1>1 DEF TableOK
  <2>2. Len(program[file]) \in Nat
    BY <1>1, <2>1, FileSeq
  <2> QED
    BY <2>1, <2>2 DEF AnalyzedIn
<1>4. \A j \in DOMAIN modules : modules[j].file = file => j = i
  BY <1>1 DEF TableOK
<1>5. w.file = file /\ w.next = next + 1 /\ modules[i].file = file /\ modules[i].next = next
  OBVIOUS
<1> HIDE DEF file, next
<1>6. ASSUME NEW t \in Todo(program, modules') PROVE t \in Todo(program, modules)
  <2>1. t \in (DOMAIN program) \X Nat /\ t[2] <= Len(program[t[1]])
    BY DEF Todo
  <2>2. ASSUME NEW j \in DOMAIN modules, modules[j].file = t[1] PROVE modules[j].next <= t[2]
    <3>1. CASE j # i
      BY <1>2, <2>2, <3>1 DEF Todo
    <3>2. CASE j = i
      <4>1. next + 1 <= t[2]
        BY <1>2, <1>5, <2>2, <3>2 DEF Todo
      <4> QED
        BY <1>3, <1>5, <2>1, <3>2, <4>1
    <3> QED
      BY <3>1, <3>2
  <2> QED
    BY <2>1, <2>2 DEF Todo
<1>7. <<file, next>> \in Todo(program, modules)
  BY <1>3, <1>4, <1>5 DEF Todo
<1>8. <<file, next>> \notin Todo(program, modules')
  <2>1. ~(next + 1 <= next)
    BY <1>3
  <2> QED
    BY <1>2, <1>5, <2>1 DEF Todo
<1>9. Cardinality(Todo(program, modules')) < Cardinality(Todo(program, modules))
  BY <1>1, <1>6, <1>7, <1>8, LessLeft
<1> QED
  BY <1>9 DEF Left

\* The next item of a record that has been replaced.
LEMMA BoundGoesOn ==
    ASSUME NEW m, RecordOK(m), NEW item, NEW j
    PROVE  Bound(m, item, j).file = m.file /\ Bound(m, item, j).next = m.next + 1
<1> DEFINE nxt == m.next + 1
           imp == IF item.kind = "open" THEN m.imports \cup {j} ELSE m.imports
           sc == IF item.kind = "open" \/ m.scope[item.name] # Absent THEN m.scope
                 ELSE [m.scope EXCEPT ![item.name] = Binding(item, j)]
<1>1. Bound(m, item, j) = [m EXCEPT !.next = nxt, !.imports = imp, !.scope = sc]
  BY Zenon DEF Bound, Binding
<1> HIDE DEF nxt, imp, sc
<1>2. Bound(m, item, j).file = m.file /\ Bound(m, item, j).next = nxt
  BY <1>1 DEF RecordOK
<1> QED
  BY <1>2 DEF nxt

LEMMA PassedGoesOn ==
    ASSUME NEW m, RecordOK(m)
    PROVE  Passed(m).file = m.file /\ Passed(m).next = m.next + 1
<1> DEFINE nxt == m.next + 1
<1>1. Passed(m) = [m EXCEPT !.next = nxt]
  BY DEF Passed
<1> HIDE DEF nxt
<1>2. Passed(m).file = m.file /\ Passed(m).next = nxt
  BY <1>1 DEF RecordOK
<1> QED
  BY <1>2 DEF nxt

LEMMA FinishLeavesLess ==
    ASSUME MInv, NInv, IsFiniteSet(DOMAIN program), Finish, Len(stack) # 1
    PROVE  Left' < Left
<1>1. stack # <<>> /\ program' = program
  BY DEF Finish
<1>2. Len(stack) \in Nat /\ Len(stack) > 0 /\ Top = stack[Len(stack)]
  BY <1>1, TopIsModule
<1> DEFINE before == Len(stack) - 1
           caller == stack[before]
           item == ItemAt(program, modules, caller)
           w == Bound(modules[caller], item, Top)
<1>3. modules' = [modules EXCEPT ![caller] = w]
  BY DEF Finish, ItemAt, Items
<1>4. before \in 1..(Len(stack) - 1) /\ before \in 1..Len(stack)
  BY <1>2
<1> HIDE DEF before
<1>5. caller \in DOMAIN modules /\ ~AnalyzedIn(program, modules, caller)
  <2>1. stack \in Seq(DOMAIN modules) /\ WaitsFor(program, modules, stack[before], stack[before + 1])
    BY <1>4 DEF MInv, StackOK
  <2> QED
    BY <1>4, <2>1 DEF WaitsFor
<1>6. w.file = modules[caller].file /\ w.next = modules[caller].next + 1
  BY <1>5, BoundGoesOn DEF NInv, NamesOK, ModuleOK
<1> HIDE DEF w, caller
<1> QED
  BY <1>1, <1>3, <1>5, <1>6, ItemLeavesLess

\* Every change get_module makes that does not end the compilation lowers the work left,
\* a number, however the imports are arranged: no compilation of finitely many files goes
\* on forever. (That it never stops short of an outcome is left to the run's Terminates.)
THEOREM CompilationMovesOn ==
    Spec => [][outcome' = "running" /\ IsFiniteSet(DOMAIN program) => Left \in Nat /\ Left' < Left]_vars
<1>1. ASSUME MInv, NInv, [Next]_vars
      PROVE  [outcome' = "running" /\ IsFiniteSet(DOMAIN program) => Left \in Nat /\ Left' < Left]_vars
  <2> SUFFICES ASSUME Next, ~UNCHANGED vars, outcome' = "running", IsFiniteSet(DOMAIN program)
               PROVE  Left \in Nat /\ Left' < Left
    BY <1>1
  <2>1. TableOK(program, modules) /\ \A f \in DOMAIN program : IsFile(program[f])
    BY <1>1, FilesAndTable
  <2>2. Left \in Nat
    BY <2>1, FiniteTodo, FS_CardinalityType DEF Left
  <2>3. \A error : Fail(error) => error = "running"
    BY DEF Fail
  <2>4. CASE Start
    <3>1. Found(MainPath) # {} /\ Load(FileOf(MainPath)) /\ program' = program /\ modules = <<>>
      BY <2>3, <2>4 DEF Start
    <3>2. FileOf(MainPath) \in DOMAIN program
      BY <2>1, <3>1, FoundOnDisk, FileExists
    <3>3. Cached(FileOf(MainPath)) = {}
      BY <3>1 DEF Cached
    <3> QED
      BY <1>1, <2>2, <3>1, <3>2, <3>3, LoadLeavesLess
  <2>5. CASE VisitImport
    <3>1. /\ Found(Item.path) # {} /\ Cached(FileOf(Item.path)) = {} /\ Load(FileOf(Item.path)) /\ program' = program
      BY <2>5 DEF VisitImport
    <3>2. FileOf(Item.path) \in DOMAIN program
      BY <2>1, <3>1, FoundOnDisk, FileExists
    <3> QED
      BY <1>1, <2>2, <3>1, <3>2, LoadLeavesLess
  <2>6. CASE VisitCachedImport
    <3>1. stack # <<>> /\ ~Analyzed(Top) /\ program' = program
      BY <2>6 DEF VisitCachedImport, Analyzing
    <3>2. PICK j : modules' = [modules EXCEPT ![Top] = Bound(modules[Top], Item, j)]
      BY <2>6 DEF VisitCachedImport
    <3>3. Top \in DOMAIN modules /\ ~AnalyzedIn(program, modules, Top)
      BY <1>1, <3>1, TopItem
    <3> DEFINE w == Bound(modules[Top], Item, j)
    <3>4. w.file = modules[Top].file /\ w.next = modules[Top].next + 1
      BY <1>1, <3>3, BoundGoesOn DEF NInv, NamesOK, ModuleOK
    <3>5. modules' = [modules EXCEPT ![Top] = w]
      BY <3>2
    <3> HIDE DEF w
    <3> QED
      BY <1>1, <2>2, <3>1, <3>3, <3>4, <3>5, ItemLeavesLess
  <2>7. CASE VisitFn
    <3>1. /\ stack # <<>> /\ ~Analyzed(Top) /\ program' = program
          /\ modules' = [modules EXCEPT ![Top].next = modules[Top].next + 1]
      BY <2>7 DEF VisitFn, Analyzing
    <3>2. Top \in DOMAIN modules /\ ~AnalyzedIn(program, modules, Top)
      BY <1>1, <3>1, TopItem
    <3> DEFINE w == Passed(modules[Top])
    <3>3. w.file = modules[Top].file /\ w.next = modules[Top].next + 1
      BY <1>1, <3>2, PassedGoesOn DEF NInv, NamesOK, ModuleOK
    <3>4. modules' = [modules EXCEPT ![Top] = w]
      BY <3>1 DEF Passed
    <3> HIDE DEF w
    <3> QED
      BY <1>1, <2>2, <3>1, <3>2, <3>3, <3>4, ItemLeavesLess
  <2>8. CASE Finish
    <3>1. Len(stack) # 1
      BY <2>8 DEF Finish
    <3> QED
      BY <1>1, <2>2, <2>8, <3>1, FinishLeavesLess
  <2>9. CASE VisitMissingImport \/ VisitUnresolved \/ FinishUnverified
    BY <2>9 DEF VisitMissingImport, VisitUnresolved, FinishUnverified, Fail
  <2>10. CASE Stopped
    BY <2>10 DEF Stopped
  <2> QED
    BY <2>4, <2>5, <2>6, <2>7, <2>8, <2>9, <2>10 DEF Next
<1> QED
  BY <1>1, NamesInvariance, PTL DEF Spec
=============================================================================
