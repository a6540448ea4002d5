------------------------ MODULE StatementEmit_proofs ------------------------
(***************************************************************************)
(* Proofs about StatementEmit: the types of the emitter's state, that the  *)
(* functions made for plain programs compile, and that they do what their  *)
(* source does. EmitInvariants has the invariants.                         *)
(***************************************************************************)
EXTENDS EmitInvariants, Lemmas, SequenceTheorems

\* ps is bs with one more instruction in block b.
IsPut(S, bs, b, in, ps) ==
    /\ bs[b] \in Seq(S)
    /\ ps \in Seq(Seq(S)) /\ Len(ps) = Len(bs) /\ DOMAIN ps = DOMAIN bs
    /\ ps[b] = Append(bs[b], in)
    /\ \A a \in DOMAIN bs : a # b => ps[a] = bs[a]

\* Put appends to one block and leaves the others.
LEMMA PutBlock ==
    ASSUME NEW S, NEW bs \in Seq(Seq(S)), NEW b \in DOMAIN bs, NEW in \in S
    PROVE  IsPut(S, bs, b, in, Put(bs, b, in))
<1>1. Append(bs[b], in) \in Seq(S)
  OBVIOUS
<1>2. Put(bs, b, in) \in [1..Len(bs) -> Seq(S)]
  BY <1>1 DEF Put
<1> QED
  BY <1>1, <1>2 DEF Put, IsPut

\* Create adds empty blocks behind the others.
LEMMA CreateBlocks ==
    ASSUME NEW S, NEW bs \in Seq(Seq(S)), NEW n \in Nat
    PROVE  /\ Create(bs, n) \in Seq(Seq(S))
           /\ Len(Create(bs, n)) = Len(bs) + n
           /\ DOMAIN Create(bs, n) = 1..(Len(bs) + n)
           /\ \A a \in DOMAIN bs : Create(bs, n)[a] = bs[a]
           /\ \A a \in (Len(bs) + 1)..(Len(bs) + n) : Create(bs, n)[a] = <<>>
<1> DEFINE new == [k \in 1..n |-> <<>>]
<1>1. new \in Seq(Seq(S)) /\ Len(new) = n
  OBVIOUS
<1>2. Create(bs, n) = bs \o new
  BY DEF Create
<1> QED
  BY <1>1, <1>2

-----------------------------------------------------------------------------
(* Types *)

\* What the builder makes are instructions.
LEMMA InstructionTypes ==
    ASSUME NEW s \in Nat, NEW a \in Nat, NEW b \in Nat
    PROVE  /\ Effect(s) \in Instruction /\ Effect(s).op = "do" /\ Effect(s).stmt = s
           /\ Ret(s) \in Instruction /\ Ret(s).op = "return" /\ Ret(s).stmt = s
           /\ Br(a) \in Instruction /\ Br(a).op = "br" /\ Br(a).yes = a /\ Br(a).no = a
           /\ CondBr(s, a, b) \in Instruction /\ CondBr(s, a, b).op = "test"
           /\ CondBr(s, a, b).stmt = s /\ CondBr(s, a, b).yes = a /\ CondBr(s, a, b).no = b
           /\ IterInit(s) \in Instruction /\ IterInit(s).op = "init" /\ IterInit(s).stmt = s
           /\ IterUpdate(s) \in Instruction /\ IterUpdate(s).op = "update" /\ IterUpdate(s).stmt = s
BY DEF Effect, Ret, Br, CondBr, IterInit, IterUpdate, Instr, Instruction

\* A block of bs has another instruction.
Kept(bs, ps) == BlocksOK(ps) /\ Len(ps) = Len(bs)

\* An instruction whose targets are blocks keeps the blocks well-formed.
LEMMA PutOK ==
    ASSUME NEW bs, BlocksOK(bs), NEW b \in 1..Len(bs), NEW in \in Instruction,
           in.op \in {"br", "test"} => in.yes \in 1..Len(bs) /\ in.no \in 1..Len(bs)
    PROVE  Kept(bs, Put(bs, b, in))
<1> DEFINE ps == Put(bs, b, in)
<1>1. bs \in Seq(Seq(Instruction)) /\ DOMAIN bs = 1..Len(bs)
  BY DEF BlocksOK
<1>2. /\ ps \in Seq(Seq(Instruction)) /\ Len(ps) = Len(bs) /\ DOMAIN ps = DOMAIN bs
      /\ ps[b] = Append(bs[b], in) /\ \A a \in DOMAIN bs : a # b => ps[a] = bs[a]
  <2>1. IsPut(Instruction, bs, b, in, ps)
    BY <1>1, PutBlock, Zenon
  <2> QED
    BY <2>1 DEF IsPut
<1> HIDE DEF ps
<1>3. \A a \in DOMAIN ps : \A i \in DOMAIN ps[a] :
          ps[a][i].op \in {"br", "test"} => ps[a][i].yes \in DOMAIN ps /\ ps[a][i].no \in DOMAIN ps
  <2> SUFFICES ASSUME NEW a \in DOMAIN ps, NEW i \in DOMAIN ps[a], ps[a][i].op \in {"br", "test"}
               PROVE  ps[a][i].yes \in DOMAIN ps /\ ps[a][i].no \in DOMAIN ps
    OBVIOUS
  <2>1. CASE a # b
    BY <1>1, <1>2, <2>1 DEF BlocksOK
  <2>2. CASE a = b
    <3>1. bs[b] \in Seq(Instruction)
      BY <1>1
    <3>2. (i \in DOMAIN bs[b] /\ ps[a][i] = bs[b][i]) \/ ps[a][i] = in
      BY <1>2, <2>2, <3>1
    <3> QED
      BY <1>1, <1>2, <3>2 DEF BlocksOK
  <2> QED
    BY <2>1, <2>2
<1> QED
  BY <1>2, <1>3 DEF BlocksOK, Kept, ps

\* So do new blocks.
LEMMA CreateOK ==
    ASSUME NEW bs, BlocksOK(bs), NEW n \in Nat
    PROVE  BlocksOK(Create(bs, n)) /\ Len(Create(bs, n)) = Len(bs) + n /\ Len(bs) \in Nat
<1> DEFINE ps == Create(bs, n)
<1>1. bs \in Seq(Seq(Instruction)) /\ DOMAIN bs = 1..Len(bs) /\ Len(bs) \in Nat
  BY DEF BlocksOK
<1>2. /\ ps \in Seq(Seq(Instruction)) /\ Len(ps) = Len(bs) + n /\ DOMAIN ps = 1..(Len(bs) + n)
      /\ \A a \in DOMAIN bs : ps[a] = bs[a]
      /\ \A a \in (Len(bs) + 1)..(Len(bs) + n) : ps[a] = <<>>
  BY <1>1, CreateBlocks
<1> HIDE DEF ps
<1>3. \A a \in DOMAIN ps : \A i \in DOMAIN ps[a] :
          ps[a][i].op \in {"br", "test"} => ps[a][i].yes \in DOMAIN ps /\ ps[a][i].no \in DOMAIN ps
  <2> SUFFICES ASSUME NEW a \in DOMAIN ps, NEW i \in DOMAIN ps[a], ps[a][i].op \in {"br", "test"}
               PROVE  ps[a][i].yes \in DOMAIN ps /\ ps[a][i].no \in DOMAIN ps
    OBVIOUS
  <2>1. a \in DOMAIN bs
    BY <1>1, <1>2
  <2> QED
    BY <1>1, <1>2, <2>1 DEF BlocksOK
<1> QED
  BY <1>1, <1>2, <1>3 DEF BlocksOK, ps

\* With more blocks the calls and loops still fit.
LEMMA FitsMore ==
    ASSUME NEW c, NEW f, NEW n \in Nat, NEW m \in Nat, n <= m, Fits(c, f, n)
    PROVE  Fits(c, f, m)
BY DEF Fits

\* A call stays typed when blocks are created, ...
LEMMA StackGrows ==
    ASSUME NEW c, NEW fs, NEW n \in Nat, NEW m \in Nat, n <= m, StackOK(c, fs, n)
    PROVE  StackOK(c, fs, m)
BY FitsMore DEF StackOK

\* ... and so does loop_bbs.
LEMMA LoopsGrow ==
    ASSUME NEW ls, NEW n \in Nat, NEW m \in Nat, n <= m, LoopsOK(ls, n)
    PROVE  LoopsOK(ls, m)
<1>1. [merge : 1..n, start : 1..n] \subseteq [merge : 1..m, start : 1..m]
  OBVIOUS
<1> QED
  BY <1>1, SeqMonotonic DEF LoopsOK

\* The stack stays well-formed when the topmost call returns, ...
LEMMA StackPop ==
    ASSUME NEW c, NEW fs, NEW n, StackOK(c, fs, n), fs # <<>>,
           NEW gs, gs = SubSeq(fs, 1, Len(fs) - 1)
    PROVE  StackOK(c, gs, n) /\ (gs # <<>> => Called(gs[Len(gs)]))
<1>1. fs \in Seq(FrameType(c))
  BY DEF StackOK
<1>2. gs \in Seq(FrameType(c)) /\ Len(gs) = Len(fs) - 1 /\ \A k \in 1..(Len(fs) - 1) : gs[k] = fs[k]
      /\ Len(fs) \in Nat \ {0}
  BY <1>1, WithoutTop
<1>3. gs # <<>> => Len(gs) \in 1..(Len(fs) - 1)
  BY <1>2
<1> QED
  BY <1>2, <1>3 DEF StackOK

\* ... when it goes on as f, ...
LEMMA StackOne ==
    ASSUME NEW c, NEW fs, NEW n, StackOK(c, fs, n), fs # <<>>,
           NEW f \in FrameType(c), Fits(c, f, n),
           NEW gs, gs = SubSeq(fs, 1, Len(fs) - 1) \o <<f>>
    PROVE  StackOK(c, gs, n) /\ gs # <<>> /\ gs[Len(gs)] = f
<1>1. fs \in Seq(FrameType(c)) /\ Len(fs) \in Nat \ {0}
  BY WithoutTop DEF StackOK
<1>2. /\ gs \in Seq(FrameType(c)) /\ Len(gs) = Len(fs) /\ gs[Len(fs)] = f
      /\ \A k \in 1..(Len(fs) - 1) : gs[k] = fs[k]
  <2>1. BecameOne(FrameType(c), fs, f, gs)
    BY <1>1, TopBecomesOne, Zenon
  <2> QED
    BY <2>1 DEF BecameOne
<1> QED
  BY <1>1, <1>2 DEF StackOK

\* ... when it makes the call g, ...
LEMMA StackTwo ==
    ASSUME NEW c, NEW fs, NEW n, StackOK(c, fs, n), fs # <<>>,
           NEW f \in FrameType(c), Fits(c, f, n), Called(f), NEW g \in FrameType(c), Fits(c, g, n)
    PROVE  StackOK(c, SubSeq(fs, 1, Len(fs) - 1) \o <<f, g>>, n)
<1> DEFINE gs == SubSeq(fs, 1, Len(fs) - 1) \o <<f, g>>
<1>1. fs \in Seq(FrameType(c)) /\ Len(fs) \in Nat \ {0}
  BY WithoutTop DEF StackOK
<1>2. /\ gs \in Seq(FrameType(c)) /\ Len(gs) = Len(fs) + 1 /\ gs[Len(fs)] = f /\ gs[Len(fs) + 1] = g
      /\ \A k \in 1..(Len(fs) - 1) : gs[k] = fs[k]
  <2>1. BecameTwo(FrameType(c), fs, f, g, gs)
    BY <1>1, TopBecomesTwo, Zenon
  <2> QED
    BY <2>1 DEF BecameTwo
<1> HIDE DEF gs
<1>3. StackOK(c, gs, n)
  BY <1>1, <1>2 DEF StackOK
<1> QED
  BY <1>3 DEF gs

\* ... and when g makes the call h as well.
LEMMA StackThree ==
    ASSUME NEW c, NEW fs, NEW n, StackOK(c, fs, n), fs # <<>>,
           NEW f \in FrameType(c), Fits(c, f, n), Called(f),
           NEW g \in FrameType(c), Fits(c, g, n), Called(g),
           NEW h \in FrameType(c), Fits(c, h, n)
    PROVE  StackOK(c, SubSeq(fs, 1, Len(fs) - 1) \o <<f, g, h>>, n)
<1> DEFINE gs == SubSeq(fs, 1, Len(fs) - 1) \o <<f, g, h>>
<1>1. fs \in Seq(FrameType(c)) /\ Len(fs) \in Nat \ {0}
  BY WithoutTop DEF StackOK
<1>2. /\ gs \in Seq(FrameType(c)) /\ Len(gs) = Len(fs) + 2
      /\ gs[Len(fs)] = f /\ gs[Len(fs) + 1] = g /\ gs[Len(fs) + 2] = h
      /\ \A k \in 1..(Len(fs) - 1) : gs[k] = fs[k]
  <2>1. BecameThree(FrameType(c), fs, f, g, h, gs)
    BY <1>1, TopBecomesThree, Zenon
  <2> QED
    BY <2>1 DEF BecameThree
<1> HIDE DEF gs
<1>3. StackOK(c, gs, n)
  BY <1>1, <1>2 DEF StackOK
<1> QED
  BY <1>3 DEF gs

\* The local variables of new calls.
LEMMA EmitterTypes ==
    ASSUME NEW c, CodeOK(c), NEW n \in Nat, NEW bb \in 1..n
    PROVE  /\ \A nodes \in Seq(1..Len(c)) :
                 /\ BlockEmitter(nodes, bb) \in FrameType(c) /\ Fits(c, BlockEmitter(nodes, bb), n)
           /\ \A s \in 1..Len(c) :
                 /\ IfEmitter(s, bb) \in FrameType(c) /\ Fits(c, IfEmitter(s, bb), n)
           /\ \A s \in 1..Len(c), start \in 1..n, merge \in 1..n, kind \in Loops :
                 /\ Emitter(kind, s, bb, start, merge) \in FrameType(c)
                 /\ Fits(c, Emitter(kind, s, bb, start, merge), n)
                 /\ Called(Emitter(kind, s, bb, start, merge))
<1>1. 1..n \subseteq Nat /\ 0 \in Nat /\ <<>> \in Seq(1..Len(c)) /\ DOMAIN c = 1..Len(c)
        /\ 1..Len(c) \subseteq Nat
  BY DEF CodeOK
<1>2. \A nodes \in Seq(1..Len(c)) :
         /\ BlockEmitter(nodes, bb) \in FrameType(c) /\ Fits(c, BlockEmitter(nodes, bb), n)
  BY <1>1 DEF BlockEmitter, FrameType, Fits, Loops
<1>3. \A s \in 1..Len(c) :
         /\ IfEmitter(s, bb) \in FrameType(c) /\ Fits(c, IfEmitter(s, bb), n)
  BY <1>1 DEF IfEmitter, Emitter, FrameType, Fits, Loops
<1>4. \A s \in 1..Len(c), start \in 1..n, merge \in 1..n, kind \in Loops :
         /\ Emitter(kind, s, bb, start, merge) \in FrameType(c)
         /\ Fits(c, Emitter(kind, s, bb, start, merge), n)
         /\ Called(Emitter(kind, s, bb, start, merge))
  BY <1>1 DEF Emitter, FrameType, Fits, Loops, Called
<1> QED
  BY <1>2, <1>3, <1>4

\* A statement of the code.
LEMMA StatementFacts ==
    ASSUME NEW c, CodeOK(c), NEW s \in 1..Len(c)
    PROVE  /\ s \in Nat /\ s \in DOMAIN c
           /\ c[s].then \in Seq(1..Len(c)) /\ c[s].other \in Seq(1..Len(c))
           /\ c[s].else \in {"none", "block", "if"} /\ c[s].holds \in BOOLEAN
           /\ c[s].kind \in {"do", "if", "compif"} \cup Jumps \cup Loops
           /\ c[s].else = "if" => /\ Len(c[s].other) = 1 /\ c[s].other[1] \in 1..Len(c)
                                  /\ c[c[s].other[1]].kind = "if"
<1>1. c \in Seq(Statement(Len(c))) /\ Len(c) \in Nat
  BY DEF CodeOK
<1>2. c[s] \in Statement(Len(c)) /\ DOMAIN c = 1..Len(c) /\ s \in Nat
  BY <1>1
<1>3. /\ c[s].then \in Seq(1..Len(c)) /\ c[s].other \in Seq(1..Len(c))
      /\ c[s].else \in {"none", "block", "if"} /\ c[s].holds \in BOOLEAN
      /\ c[s].kind \in {"do", "if", "compif"} \cup Jumps \cup Loops
  BY <1>2, Zenon DEF Statement
<1>4. ASSUME c[s].else = "if"
      PROVE  Len(c[s].other) = 1 /\ c[s].other[1] \in 1..Len(c) /\ c[c[s].other[1]].kind = "if"
  <2>1. Len(c[s].other) = 1 /\ c[c[s].other[1]].kind = "if"
    BY <1>2, <1>4 DEF CodeOK
  <2> QED
    BY <1>3, <2>1
<1> QED
  BY <1>2, <1>3, <1>4

\* The call on top.
LEMMA TopFacts ==
    ASSUME NEW c, NEW bs, NEW p, NEW ls, NEW fs, NEW v, CodeOK(c), Typed(c, bs, p, ls, fs, v),
           fs # <<>>
    PROVE  LET f == fs[Len(fs)]
           IN  /\ f \in FrameType(c) /\ Fits(c, f, Len(bs)) /\ Len(bs) \in Nat
               /\ f.emits \in {"block", "if", "while", "for"} /\ f.nodes \in Seq(1..Len(c))
               /\ f.bb \in 1..Len(bs) /\ f.then \in 0..Len(bs) /\ f.other \in 0..Len(bs)
               /\ f.emits # "block" => f.stmt \in 1..Len(c) /\ f.stmt \in Nat
               /\ f.nodes # <<>> => Head(f.nodes) \in 1..Len(c) /\ Tail(f.nodes) \in Seq(1..Len(c))
<1> DEFINE f == fs[Len(fs)]
<1>1. fs \in Seq(FrameType(c)) /\ Len(bs) \in Nat
  BY DEF Typed, StackOK, BlocksOK
<1>2. f \in FrameType(c) /\ Len(fs) \in 1..Len(fs)
  BY <1>1, WithoutTop
<1>3. Fits(c, f, Len(bs))
  BY <1>2 DEF Typed, StackOK
<1> HIDE DEF f
<1>4. f.emits \in {"block", "if", "while", "for"} /\ f.nodes \in Seq(1..Len(c))
  BY <1>2, Zenon DEF FrameType
<1>5. /\ f.bb \in 1..Len(bs) /\ f.then \in 0..Len(bs) /\ f.other \in 0..Len(bs)
      /\ f.emits # "block" => f.stmt \in DOMAIN c
  BY <1>3, Zenon DEF Fits
<1>7. DOMAIN c = 1..Len(c) /\ 1..Len(c) \subseteq Nat
  BY DEF CodeOK
<1>6. f.nodes # <<>> => Head(f.nodes) \in 1..Len(c) /\ Tail(f.nodes) \in Seq(1..Len(c))
  BY <1>4, HeadTailProperties
<1> QED
  BY <1>1, <1>2, <1>3, <1>4, <1>5, <1>6, <1>7 DEF f

\* What the steps of the emitters assume and keep.
Ready == CodeOK(code) /\ Typed(code, blocks, ip, loops, frames, value)

\* The state after a step is typed.
StaysTyped ==
    /\ Typed(code, blocks', ip', loops', frames', value')
    /\ Len(blocks) \in Nat /\ Len(blocks') \in Nat /\ Len(blocks) <= Len(blocks')

\* g is the call f, with the blocks `then' and `other'.
SameCall(c, f, g, then, other) ==
    /\ g \in FrameType(c)
    /\ g.emits = f.emits /\ g.stmt = f.stmt /\ g.nodes = f.nodes /\ g.bb = f.bb
    /\ g.then = then /\ g.other = other

\* IfStmt::emit notes the block it has created for a branch.
LEMMA BranchNamed ==
    ASSUME NEW c, NEW f \in FrameType(c), NEW x \in Nat
    PROVE  /\ SameCall(c, f, [f EXCEPT !.then = x], x, f.other)
           /\ SameCall(c, f, [f EXCEPT !.other = x], f.then, x)
BY DEF FrameType, SameCall

\* The same for the steps that make calls.
LEMMA TwoCalls ==
    ASSUME NEW c, NEW n, StackOK(c, frames, n), frames # <<>>,
           NEW f \in FrameType(c), Fits(c, f, n), Called(f), NEW g \in FrameType(c), Fits(c, g, n),
           TopBecomes(<<f, g>>)
    PROVE  StackOK(c, frames', n)
<1>1. frames' = SubSeq(frames, 1, Len(frames) - 1) \o <<f, g>>
  BY DEF TopBecomes, Under
<1> QED
  BY <1>1, StackTwo, Zenon

\* Three calls in the place of the last.
LEMMA ThreeCalls ==
    ASSUME NEW c, NEW n, StackOK(c, frames, n), frames # <<>>,
           NEW f \in FrameType(c), Fits(c, f, n), Called(f),
           NEW g \in FrameType(c), Fits(c, g, n), Called(g),
           NEW h \in FrameType(c), Fits(c, h, n),
           TopBecomes(<<f, g, h>>)
    PROVE  StackOK(c, frames', n)
<1>1. frames' = SubSeq(frames, 1, Len(frames) - 1) \o <<f, g, h>>
  BY DEF TopBecomes, Under
<1> QED
  BY <1>1, StackThree, Zenon

\* A conditional branch into blocks of the function.
LEMMA PutTestOK ==
    ASSUME NEW bs, BlocksOK(bs), NEW b \in 1..Len(bs), NEW s \in Nat,
           NEW yes \in 1..Len(bs), NEW no \in 1..Len(bs)
    PROVE  Kept(bs, Put(bs, b, CondBr(s, yes, no)))
<1>1. yes \in Nat /\ no \in Nat
  BY DEF BlocksOK
<1> DEFINE in == CondBr(s, yes, no)
<1>2. in \in Instruction /\ in.yes = yes /\ in.no = no
  BY <1>1, InstructionTypes
<1> HIDE DEF in
<1>3. Kept(bs, Put(bs, b, in))
  BY <1>2, PutOK
<1> QED
  BY <1>3 DEF in

\* The other instructions of the builder.
LEMMA PutBrOK ==
    ASSUME NEW bs, BlocksOK(bs), NEW b \in 1..Len(bs), NEW to \in 1..Len(bs)
    PROVE  Kept(bs, Put(bs, b, Br(to)))
<1>1. to \in Nat
  BY DEF BlocksOK
<1> DEFINE in == Br(to)
<1>2. in \in Instruction /\ in.yes = to /\ in.no = to
  BY <1>1, InstructionTypes
<1> HIDE DEF in
<1>3. Kept(bs, Put(bs, b, in))
  BY <1>2, PutOK
<1> QED
  BY <1>3 DEF in

\* create_safe_br keeps the blocks typed, ...
LEMMA SafeBrOK ==
    ASSUME NEW bs, BlocksOK(bs), NEW b \in 1..Len(bs), NEW to \in 1..Len(bs)
    PROVE  Kept(bs, SafeBr(bs, b, to))
BY PutBrOK, Zenon DEF SafeBr, Kept

\* ... and so does an instruction without targets.
LEMMA PutPlainOK ==
    ASSUME NEW bs, BlocksOK(bs), NEW b \in 1..Len(bs), NEW s \in Nat
    PROVE  /\ Kept(bs, Put(bs, b, Effect(s))) /\ Kept(bs, Put(bs, b, Ret(s)))
           /\ Kept(bs, Put(bs, b, IterInit(s))) /\ Kept(bs, Put(bs, b, IterUpdate(s)))
<1>1. ASSUME NEW in \in Instruction, in.op \notin {"br", "test"}
      PROVE  Kept(bs, Put(bs, b, in))
  BY <1>1, PutOK
<1>2. /\ Effect(s) \in Instruction /\ Effect(s).op \notin {"br", "test"}
      /\ Ret(s) \in Instruction /\ Ret(s).op \notin {"br", "test"}
      /\ IterInit(s) \in Instruction /\ IterInit(s).op \notin {"br", "test"}
      /\ IterUpdate(s) \in Instruction /\ IterUpdate(s).op \notin {"br", "test"}
  BY InstructionTypes
<1> QED
  BY <1>1, <1>2

\* A statement without statements inside.
LEMMA LeafTyped ==
    ASSUME Ready, EmitDo \/ EmitReturn \/ EmitJump
    PROVE  StaysTyped
<1>1. frames # <<>> /\ Top.emits = "block" /\ Top.nodes # <<>> /\ value = Calling
  BY DEF EmitDo, EmitReturn, EmitJump, AtNode, GoesOn
<1>2. Node \in 1..Len(code) /\ Len(blocks) \in Nat
  BY <1>1, TopFacts DEF Ready, Top, Node
<1>3. Node \in Nat
  BY <1>2, StatementFacts DEF Ready
<1>4. BlocksOK(blocks) /\ ip \in 1..Len(blocks) /\ LoopsOK(loops, Len(blocks))
  BY DEF Ready, Typed
<1>5. value' = Other /\ UNCHANGED <<ip, loops, frames>>
  BY DEF EmitDo, EmitReturn, EmitJump
<1>6. Kept(blocks, blocks')
  <2>1. CASE EmitDo
    BY <1>3, <1>4, <2>1, PutPlainOK DEF EmitDo
  <2>2. CASE EmitReturn
    BY <1>3, <1>4, <2>2, PutPlainOK DEF EmitReturn
  <2>3. CASE EmitJump
    <3> DEFINE loop == loops[Len(loops)]
               to == IF code[Node].kind = "break" THEN loop.merge ELSE loop.start
    <3>1. loops # <<>> /\ blocks' = Put(blocks, ip, Br(to))
      BY <2>3 DEF EmitJump
    <3>2. loops \in Seq([merge : 1..Len(blocks), start : 1..Len(blocks)])
      BY <1>4 DEF LoopsOK
    <3>3. loop \in [merge : 1..Len(blocks), start : 1..Len(blocks)]
      BY <3>1, <3>2, WithoutTop
    <3>4. to \in 1..Len(blocks)
      BY <3>3
    <3> HIDE DEF to
    <3> QED
      BY <1>4, <3>1, <3>4, PutBrOK
  <2> QED
    BY <2>1, <2>2, <2>3
<1>7. BlocksOK(blocks') /\ Len(blocks') = Len(blocks)
  BY <1>6 DEF Kept
<1>8. Called(frames[Len(frames)])
  BY <1>1 DEF Called, Top
<1> QED
  BY <1>2, <1>4, <1>5, <1>7, <1>8 DEF StaysTyped, Ready, Typed

\* The steps keep the types: the next statement of a block, ...
LEMMA NextNodeTyped ==
    ASSUME Ready, NextNode
    PROVE  StaysTyped
<1> DEFINE next == IF value > 0 THEN value ELSE Top.bb
           f == BlockEmitter(Tail(Top.nodes), next)
<1>1. frames # <<>> /\ Top.emits = "block" /\ value # Calling
  BY DEF NextNode, Resumes
<1>2. Called(Top) /\ Top.nodes # <<>>
  BY <1>1 DEF Ready, Typed, Called, Top
<1>3. Tail(Top.nodes) \in Seq(1..Len(code)) /\ Len(blocks) \in Nat /\ Top.bb \in 1..Len(blocks)
  BY <1>1, <1>2, TopFacts DEF Ready, Top
<1>4. next \in 1..Len(blocks)
  BY <1>3 DEF Ready, Typed, Calling, Poison, Other
<1>5. frames' = SubSeq(frames, 1, Len(frames) - 1) \o <<f>> /\ ip' = next /\ value' = Calling
      /\ UNCHANGED <<blocks, loops>>
  BY DEF NextNode, TopBecomes, Under
<1> HIDE DEF next
<1>6. f \in FrameType(code) /\ Fits(code, f, Len(blocks))
  BY <1>3, <1>4, EmitterTypes DEF Ready
<1>7. StackOK(code, frames, Len(blocks))
  BY DEF Ready, Typed
<1> HIDE DEF f
<1>8. StackOK(code, frames', Len(blocks))
  BY <1>1, <1>5, <1>6, <1>7, StackOne
<1> QED
  BY <1>3, <1>4, <1>5, <1>8 DEF StaysTyped, Ready, Typed, Calling

\* A call returns v; the blocks are bs, the insertion point p.
LEMMA ReturnsTyped ==
    ASSUME Ready, frames # <<>>, NEW v, Returns(v), v \in {Poison} \cup (1..Len(blocks')),
           BlocksOK(blocks'), Len(blocks) <= Len(blocks'), ip' \in 1..Len(blocks'),
           loops' = loops \/ loops' = SubSeq(loops, 1, Len(loops) - 1)
    PROVE  StaysTyped
<1>1. StackOK(code, frames, Len(blocks)) /\ LoopsOK(loops, Len(blocks))
      /\ Len(blocks) \in Nat /\ Len(blocks') \in Nat
  BY DEF Ready, Typed, BlocksOK
<1>2. frames' = SubSeq(frames, 1, Len(frames) - 1) /\ value' = v
  BY DEF Returns, Under
<1>3. StackOK(code, frames', Len(blocks)) /\ (frames' # <<>> => Called(frames'[Len(frames')]))
  BY <1>1, <1>2, StackPop
<1>4. StackOK(code, frames', Len(blocks'))
  BY <1>1, <1>3, StackGrows
<1>5. LoopsOK(loops', Len(blocks))
  <2>1. CASE loops' = loops
    BY <1>1, <2>1
  <2>2. CASE loops' = SubSeq(loops, 1, Len(loops) - 1) /\ loops # <<>>
    BY <1>1, <2>2, WithoutTop DEF LoopsOK
  <2>3. CASE loops' = SubSeq(loops, 1, Len(loops) - 1) /\ loops = <<>>
    <3>1. Len(loops) = 0
      BY <2>3
    <3>2. loops' = <<>>
      BY <2>3, <3>1, SubSeqEmpty
    <3> QED
      BY <3>2 DEF LoopsOK
  <2> QED
    BY <2>1, <2>2, <2>3
<1>6. LoopsOK(loops', Len(blocks'))
  BY <1>1, <1>5, LoopsGrow
<1> QED
  BY <1>1, <1>2, <1>3, <1>4, <1>6 DEF StaysTyped, Typed

\* ... the end of a block, ...
LEMMA BlockReturnsTyped ==
    ASSUME Ready, CutBlock \/ EndBlock
    PROVE  StaysTyped
<1>1. frames # <<>> /\ Returns(Top.bb) /\ UNCHANGED <<blocks, loops>> /\ (ip' = ip \/ ip' = Top.bb)
  BY DEF CutBlock, EndBlock, Resumes, GoesOn
<1>2. Top.bb \in 1..Len(blocks) /\ Len(blocks) \in Nat
  BY <1>1, TopFacts DEF Ready, Top
<1>3. BlocksOK(blocks) /\ ip \in 1..Len(blocks)
  BY DEF Ready, Typed
<1> QED
  BY <1>1, <1>2, <1>3, ReturnsTyped

\* ... an if and its branches, ...
LEMMA EmitIfTyped ==
    ASSUME Ready, EmitIf
    PROVE  StaysTyped
<1>1. frames # <<>> /\ Top.emits = "block" /\ Top.nodes # <<>>
  BY DEF EmitIf, AtNode, GoesOn
<1>2. /\ Node \in 1..Len(code) /\ Len(blocks) \in Nat
      /\ Top \in FrameType(code) /\ Fits(code, Top, Len(blocks))
  BY <1>1, TopFacts DEF Ready, Top, Node
<1>3. Called(Top)
  BY <1>1 DEF Called
<1>4. StackOK(code, frames, Len(blocks)) /\ ip \in 1..Len(blocks)
  BY DEF Ready, Typed
<1>5. IfEmitter(Node, ip) \in FrameType(code) /\ Fits(code, IfEmitter(Node, ip), Len(blocks))
  BY <1>2, <1>4, EmitterTypes DEF Ready
<1>6. TopBecomes(<<Top, IfEmitter(Node, ip)>>) /\ value' = Calling /\ UNCHANGED <<blocks, ip, loops>>
  BY DEF EmitIf, AtNode, GoesOn
<1>7. StackOK(code, frames', Len(blocks))
  BY <1>1, <1>2, <1>3, <1>4, <1>5, <1>6, TwoCalls
<1> QED
  BY <1>2, <1>6, <1>7 DEF StaysTyped, Ready, Typed, Calling

\* The call on top creates a block for f.then or f.other and calls g to emit into it.
LEMMA BranchTyped ==
    ASSUME Ready, frames # <<>>, blocks' = Create(blocks, 1), ip' = Len(blocks) + 1,
           NEW f \in FrameType(code), Fits(code, f, Len(blocks) + 1), Called(f),
           NEW g \in FrameType(code), Fits(code, g, Len(blocks) + 1), TopBecomes(<<f, g>>),
           value' = Calling, loops' = loops
    PROVE  StaysTyped
<1>1. BlocksOK(blocks') /\ Len(blocks') = Len(blocks) + 1 /\ Len(blocks) \in Nat
  BY CreateOK DEF Ready, Typed
<1>2. StackOK(code, frames, Len(blocks)) /\ LoopsOK(loops, Len(blocks))
  BY DEF Ready, Typed
<1>3. StackOK(code, frames, Len(blocks')) /\ LoopsOK(loops, Len(blocks'))
  BY <1>1, <1>2, StackGrows, LoopsGrow
<1>5. Fits(code, f, Len(blocks')) /\ Fits(code, g, Len(blocks'))
  BY <1>1
<1>6. StackOK(code, frames', Len(blocks'))
  BY <1>3, <1>5, TwoCalls
<1> QED
  BY <1>1, <1>3, <1>6 DEF StaysTyped, Typed, Calling

\* ... the call for its body, ...
LEMMA EmitThenTyped ==
    ASSUME Ready, EmitThen
    PROVE  StaysTyped
<1> DEFINE then == Len(blocks) + 1
           f == [Top EXCEPT !.then = then]
           g == BlockEmitter(code[Top.stmt].then, then)
<1>1. frames # <<>> /\ Top.emits = "if" /\ value' = Calling /\ loops' = loops
      /\ blocks' = Create(blocks, 1) /\ ip' = then /\ TopBecomes(<<f, g>>)
  BY DEF EmitThen, GoesOn
<1>2. /\ Top \in FrameType(code) /\ Fits(code, Top, Len(blocks)) /\ Len(blocks) \in Nat
      /\ Top.stmt \in 1..Len(code)
  BY <1>1, TopFacts DEF Ready, Top
<1>3. code[Top.stmt].then \in Seq(1..Len(code))
  BY <1>2, StatementFacts DEF Ready
<1>a. then \in Nat
  BY <1>2
<1> HIDE DEF then
<1>4. f \in FrameType(code) /\ f.emits = "if" /\ f.then = then /\ f.bb = Top.bb /\ f.other = Top.other
      /\ f.stmt = Top.stmt
  <2>1. SameCall(code, Top, f, then, Top.other)
    BY <1>2, <1>a, BranchNamed, Zenon
  <2> QED
    BY <1>1, <2>1, Zenon DEF SameCall
<1> USE DEF then
<1>5. Fits(code, f, then) /\ Called(f)
  BY <1>2, <1>4 DEF Fits, Called, Loops
<1>6. g \in FrameType(code) /\ Fits(code, g, then)
  <2>1. then \in Nat /\ then \in 1..then
    BY <1>2
  <2> QED
    BY <1>3, <2>1, EmitterTypes DEF Ready
<1> HIDE DEF f, g
<1> QED
  BY <1>1, <1>4, <1>5, <1>6, BranchTyped

\* The call for what is behind else.
LEMMA ElseCallTypes ==
    ASSUME NEW c, c = code, CodeOK(c), NEW n \in Nat, NEW bb \in 1..n, NEW s \in 1..Len(c)
    PROVE  ElseCall(s, bb) \in FrameType(c) /\ Fits(c, ElseCall(s, bb), n)
<1>1. /\ c[s].other \in Seq(1..Len(c))
      /\ c[s].else = "if" => c[s].other[1] \in 1..Len(c)
  BY StatementFacts
<1>2. CASE c[s].else = "if"
  BY <1>1, <1>2, EmitterTypes DEF ElseCall
<1>3. CASE c[s].else # "if"
  BY <1>1, <1>3, EmitterTypes DEF ElseCall
<1> QED
  BY <1>2, <1>3

\* ... and for its else branch, ...
LEMMA EmitElseTyped ==
    ASSUME Ready, EmitElse
    PROVE  StaysTyped
<1> DEFINE other == Len(blocks) + 1
           f == [Top EXCEPT !.other = other]
           g == ElseCall(Top.stmt, other)
<1>1. frames # <<>> /\ Top.emits = "if" /\ value # Calling /\ value' = Calling /\ loops' = loops
      /\ blocks' = Create(blocks, 1) /\ ip' = other /\ TopBecomes(<<f, g>>)
  BY DEF EmitElse, Resumes
<1>2. /\ Top \in FrameType(code) /\ Fits(code, Top, Len(blocks)) /\ Len(blocks) \in Nat
      /\ Top.stmt \in 1..Len(code)
  BY <1>1, TopFacts DEF Ready, Top
<1>3. Called(Top)
  BY <1>1 DEF Ready, Typed, Top
<1>a. other \in Nat
  BY <1>2
<1> HIDE DEF other
<1>4. f \in FrameType(code) /\ f.emits = "if" /\ f.then = Top.then /\ f.bb = Top.bb /\ f.other = other
      /\ f.stmt = Top.stmt
  <2>1. SameCall(code, Top, f, Top.then, other)
    BY <1>2, <1>a, BranchNamed, Zenon
  <2> QED
    BY <1>1, <2>1, Zenon DEF SameCall
<1> USE DEF other
<1>5. Fits(code, f, other) /\ Called(f)
  BY <1>1, <1>2, <1>3, <1>4 DEF Fits, Called, Loops
<1>6. g \in FrameType(code) /\ Fits(code, g, other)
  <2>1. other \in Nat /\ other \in 1..other
    BY <1>2
  <2> QED
    BY <1>2, <2>1, ElseCallTypes DEF Ready
<1> HIDE DEF f, g
<1> QED
  BY <1>1, <1>4, <1>5, <1>6, BranchTyped

\* ... the end of an if, ...
LEMMA EndIfPoisonedTyped ==
    ASSUME Ready, EndIfPoisoned
    PROVE  StaysTyped
<1>1. /\ frames # <<>> /\ Top.emits = "if" /\ value # Calling /\ Top.other # 0
      /\ blocks' = Put(blocks, Top.bb, CondBr(Top.stmt, Top.then, Top.other))
      /\ ip' = Top.bb /\ Returns(Poison) /\ loops' = loops
  BY DEF EndIfPoisoned, BranchesEmitted, BothTerminated, HasElse, Resumes
<1>2. /\ Top.bb \in 1..Len(blocks) /\ Top.then \in 0..Len(blocks) /\ Top.other \in 0..Len(blocks)
      /\ Len(blocks) \in Nat /\ Top.stmt \in 1..Len(code)
  BY <1>1, TopFacts DEF Ready, Top
<1>3. Top.then # 0
  BY <1>1 DEF Ready, Typed, Called, Top
<1>4. BlocksOK(blocks) /\ Top.then \in 1..Len(blocks) /\ Top.other \in 1..Len(blocks) /\ Top.stmt \in Nat
  BY <1>1, <1>2, <1>3 DEF Ready, Typed
<1>5. BlocksOK(blocks') /\ Len(blocks') = Len(blocks)
  BY <1>1, <1>2, <1>4, PutTestOK DEF Kept
<1> QED
  BY <1>1, <1>2, <1>5, ReturnsTyped

\* ... and its end.
LEMMA EndIfTyped ==
    ASSUME Ready, EndIf
    PROVE  StaysTyped
<1> DEFINE created == IF ip # Top.then THEN blocks ELSE Create(blocks, 1)
           other == IF HasElse THEN Top.other ELSE MergeBlock
           tested  == Put(created, Top.bb, CondBr(Top.stmt, Top.then, other))
           joined  == SafeBr(tested, Top.then, MergeBlock)
           ended == IF HasElse THEN SafeBr(joined, Top.other, MergeBlock) ELSE joined
<1>1. /\ frames # <<>> /\ Top.emits = "if" /\ value # Calling
      /\ blocks' = ended /\ ip' = MergeBlock /\ Returns(MergeBlock) /\ loops' = loops
  BY DEF EndIf, BranchesEmitted, Resumes
<1>2. /\ Top.bb \in 1..Len(blocks) /\ Top.then \in 0..Len(blocks) /\ Top.other \in 0..Len(blocks)
      /\ Len(blocks) \in Nat /\ Top.stmt \in 1..Len(code)
  BY <1>1, TopFacts DEF Ready, Top
<1>3. Top.then # 0
  BY <1>1 DEF Ready, Typed, Called, Top
<1>4. BlocksOK(created) /\ Len(created) \in Nat /\ Len(blocks) <= Len(created)
      /\ MergeBlock \in 1..Len(created)
  <2>1. CASE ip # Top.then
    BY <1>2, <2>1 DEF MergeBlock, Ready, Typed
  <2>2. CASE ip = Top.then
    <3>1. BlocksOK(Create(blocks, 1)) /\ Len(Create(blocks, 1)) = Len(blocks) + 1
      BY CreateOK DEF Ready, Typed
    <3> QED
      BY <1>2, <2>2, <3>1 DEF MergeBlock
  <2> QED
    BY <2>1, <2>2
<1>5. Top.bb \in 1..Len(created) /\ Top.then \in 1..Len(created) /\ other \in 1..Len(created)
      /\ (HasElse => Top.other \in 1..Len(created))
  BY <1>2, <1>3, <1>4 DEF HasElse
<1>6. Top.stmt \in Nat
  BY <1>2
<1> HIDE DEF created, other
<1>b. BlocksOK(created) /\ Top.bb \in 1..Len(created) /\ Top.then \in 1..Len(created)
  BY <1>4, <1>5
<1>c. MergeBlock \in 1..Len(created) /\ (HasElse => Top.other \in 1..Len(created))
  BY <1>4, <1>5
<1>d. other \in 1..Len(created)
  BY <1>5
<1>7. Kept(created, Put(created, Top.bb, CondBr(Top.stmt, Top.then, other)))
  BY <1>b, <1>d, <1>6, PutTestOK
<1>e. Kept(created, tested)
  BY <1>7, Zenon
<1> HIDE DEF tested
<1>8. Kept(created, joined)
  <2>1. BlocksOK(tested) /\ Top.then \in 1..Len(tested) /\ MergeBlock \in 1..Len(tested)
    BY <1>b, <1>c, <1>e DEF Kept
  <2>2. Kept(tested, joined)
    BY <2>1, SafeBrOK
  <2> QED
    BY <1>e, <2>2 DEF Kept
<1> HIDE DEF joined
<1>9. BlocksOK(ended) /\ Len(ended) = Len(created)
  <2>1. BlocksOK(joined) /\ (HasElse => Top.other \in 1..Len(joined)) /\ MergeBlock \in 1..Len(joined)
    BY <1>b, <1>c, <1>8 DEF Kept
  <2>2. HasElse => Kept(joined, SafeBr(joined, Top.other, MergeBlock))
    BY <2>1, SafeBrOK
  <2> QED
    BY <1>8, <2>2 DEF Kept
<1> HIDE DEF ended
<1> QED
  BY <1>1, <1>4, <1>9, ReturnsTyped

\* ... an if of the compile time, ...
LEMMA EmitCompIfTyped ==
    ASSUME Ready, EmitCompIf
    PROVE  StaysTyped
<1>1. frames # <<>> /\ Top.emits = "block" /\ Top.nodes # <<>> /\ UNCHANGED <<blocks, ip, loops>>
      /\ value = Calling
  BY DEF EmitCompIf, AtNode, GoesOn
<1>2. /\ Node \in 1..Len(code) /\ Len(blocks) \in Nat
      /\ Top \in FrameType(code) /\ Fits(code, Top, Len(blocks))
  BY <1>1, TopFacts DEF Ready, Top, Node
<1>3. Called(Top)
  BY <1>1 DEF Called
<1>4. StackOK(code, frames, Len(blocks)) /\ ip \in 1..Len(blocks)
  BY DEF Ready, Typed
<1>5. code[Node].then \in Seq(1..Len(code))
  BY <1>2, StatementFacts DEF Ready
<1>6. ASSUME NEW g, g = BlockEmitter(code[Node].then, ip) \/ g = ElseCall(Node, ip),
             TopBecomes(<<Top, g>>), value' = value
      PROVE  StaysTyped
  <2>1. g \in FrameType(code) /\ Fits(code, g, Len(blocks))
    <3>1. CASE g = BlockEmitter(code[Node].then, ip)
      BY <1>2, <1>4, <1>5, <3>1, EmitterTypes DEF Ready
    <3>2. CASE g = ElseCall(Node, ip)
      BY <1>2, <1>4, <3>2, ElseCallTypes DEF Ready
    <3> QED
      BY <1>6, <3>1, <3>2
  <2>2. StackOK(code, frames', Len(blocks))
    BY <1>1, <1>2, <1>3, <1>4, <1>6, <2>1, TwoCalls
  <2> QED
    BY <1>1, <1>2, <1>6, <2>2 DEF StaysTyped, Ready, Typed, Calling
<1>7. ASSUME frames' = frames, value' = Other
      PROVE  StaysTyped
  BY <1>1, <1>2, <1>3, <1>7 DEF StaysTyped, Ready, Typed, Top
<1> QED
  BY <1>6, <1>7 DEF EmitCompIf

\* A loop creates n blocks, makes f and calls g.
LEMMA LoopTyped ==
    ASSUME Ready, frames # <<>>, Top.nodes # <<>>, Top.emits = "block", NEW n \in Nat,
           Kept(Create(blocks, n), blocks'),
           NEW cond \in 1..Len(blocks'), NEW then \in 1..Len(blocks'),
           NEW start \in 1..Len(blocks'), NEW merge \in 1..Len(blocks'), NEW kind \in Loops,
           ip' = then, value' = Calling,
           loops' = Append(loops, [merge |-> merge, start |-> start]),
           TopBecomes(<<Top, Emitter(kind, Node, cond, start, merge),
                        BlockEmitter(code[Node].then, then)>>)
    PROVE  StaysTyped
<1>1. BlocksOK(blocks') /\ Len(blocks') = Len(blocks) + n /\ Len(blocks) \in Nat
  BY CreateOK DEF Ready, Typed, Kept
<1>2. StackOK(code, frames, Len(blocks')) /\ LoopsOK(loops, Len(blocks'))
  BY <1>1, StackGrows, LoopsGrow DEF Ready, Typed
<1>3. LoopsOK(loops', Len(blocks'))
  <2>1. [merge |-> merge, start |-> start] \in [merge : 1..Len(blocks'), start : 1..Len(blocks')]
    OBVIOUS
  <2> QED
    BY <1>2, <2>1, AppendProperties DEF LoopsOK
<1>4. /\ Node \in 1..Len(code) /\ Top \in FrameType(code) /\ Fits(code, Top, Len(blocks)) /\ Called(Top)
  BY TopFacts DEF Ready, Top, Node, Called
<1>5. Fits(code, Top, Len(blocks'))
  BY <1>1, <1>4, FitsMore
<1>6. code[Node].then \in Seq(1..Len(code))
  BY <1>4, StatementFacts DEF Ready
<1> DEFINE g == Emitter(kind, Node, cond, start, merge)
           h == BlockEmitter(code[Node].then, then)
           m == Len(blocks')
<1>7. m \in Nat /\ cond \in 1..m /\ then \in 1..m /\ start \in 1..m /\ merge \in 1..m
  BY <1>1
<1> HIDE DEF m
<1>8. g \in FrameType(code) /\ Fits(code, g, m) /\ Called(g)
  BY <1>4, <1>7, EmitterTypes DEF Ready
<1>9. h \in FrameType(code) /\ Fits(code, h, m)
  BY <1>6, <1>7, EmitterTypes DEF Ready
<1>10. TopBecomes(<<Top, g, h>>)
  OBVIOUS
<1> HIDE DEF g, h
<1>11. StackOK(code, frames', m)
  BY <1>2, <1>4, <1>5, <1>8, <1>9, <1>10, ThreeCalls DEF m
<1> QED
  BY <1>1, <1>3, <1>11 DEF StaysTyped, Typed, Calling, m

\* ... and the loops.
LEMMA EmitWhileTyped ==
    ASSUME Ready, EmitWhile
    PROVE  StaysTyped
<1> DEFINE before == Len(blocks) + 1
           then   == before + 1
           merge  == before + 2
           created == Create(blocks, 3)
           entered == Put(created, ip, Br(before))
<1>1. /\ frames # <<>> /\ Top.emits = "block" /\ Top.nodes # <<>>
      /\ blocks' = Put(entered, before, CondBr(Node, then, merge))
      /\ ip' = then /\ value' = Calling
      /\ loops' = Append(loops, [merge |-> merge, start |-> before])
      /\ TopBecomes(<<Top, Emitter("while", Node, before, before, merge),
                      BlockEmitter(code[Node].then, then)>>)
  BY DEF EmitWhile, AtNode, GoesOn
<1>2. BlocksOK(created) /\ Len(created) = Len(blocks) + 3 /\ Len(blocks) \in Nat /\ ip \in 1..Len(blocks)
  BY CreateOK DEF Ready, Typed
<1>3. Node \in 1..Len(code) /\ Node \in Nat
  <2>1. Node \in 1..Len(code)
    BY <1>1, TopFacts DEF Ready, Top, Node
  <2> QED
    BY <2>1, StatementFacts DEF Ready
<1> HIDE DEF created
<1>4. /\ before \in 1..Len(created) /\ then \in 1..Len(created) /\ merge \in 1..Len(created)
      /\ ip \in 1..Len(created)
  BY <1>2
<1> HIDE DEF before, then, merge
<1>5. Kept(created, entered)
  BY <1>2, <1>4, PutBrOK
<1> HIDE DEF entered
<1>6. Kept(entered, blocks')
  <2>1. BlocksOK(entered) /\ Len(entered) = Len(created)
    BY <1>5 DEF Kept
  <2>2. before \in 1..Len(entered) /\ then \in 1..Len(entered) /\ merge \in 1..Len(entered)
    BY <1>4, <2>1
  <2>3. Kept(entered, Put(entered, before, CondBr(Node, then, merge)))
    BY <1>3, <2>1, <2>2, PutTestOK
  <2> QED
    BY <1>1, <2>3
<1>7. Kept(created, blocks')
  BY <1>5, <1>6 DEF Kept
<1>8. /\ before \in 1..Len(blocks') /\ then \in 1..Len(blocks') /\ merge \in 1..Len(blocks')
  BY <1>4, <1>7 DEF Kept
<1>9. Kept(Create(blocks, 3), blocks') /\ 3 \in Nat /\ "while" \in Loops
  BY <1>7 DEF created, Loops
<1> QED
  BY <1>1, <1>8, <1>9, LoopTyped, Zenon

\* A for loop, ...
LEMMA EmitForTyped ==
    ASSUME Ready, EmitFor
    PROVE  StaysTyped
<1> DEFINE pre == Len(blocks) + 1
           then   == pre + 1
           update == pre + 2
           merge  == pre + 3
           created == Create(blocks, 4)
           begun   == Put(created, ip, IterInit(Node))
           entered == Put(begun, ip, Br(pre))
<1>1. /\ frames # <<>> /\ Top.emits = "block" /\ Top.nodes # <<>>
      /\ blocks' = Put(entered, pre, CondBr(Node, then, merge))
      /\ ip' = then /\ value' = Calling
      /\ loops' = Append(loops, [merge |-> merge, start |-> update])
      /\ TopBecomes(<<Top, Emitter("for", Node, pre, update, merge),
                      BlockEmitter(code[Node].then, then)>>)
  BY DEF EmitFor, AtNode, GoesOn
<1>2. BlocksOK(created) /\ Len(created) = Len(blocks) + 4 /\ Len(blocks) \in Nat /\ ip \in 1..Len(blocks)
  BY CreateOK DEF Ready, Typed
<1>3. Node \in 1..Len(code) /\ Node \in Nat
  <2>1. Node \in 1..Len(code)
    BY <1>1, TopFacts DEF Ready, Top, Node
  <2> QED
    BY <2>1, StatementFacts DEF Ready
<1> HIDE DEF created
<1>4. /\ pre \in 1..Len(created) /\ then \in 1..Len(created) /\ merge \in 1..Len(created)
      /\ ip \in 1..Len(created) /\ update \in 1..Len(created)
  BY <1>2
<1> HIDE DEF pre, then, merge, update
<1>a. Kept(created, begun)
  BY <1>2, <1>3, <1>4, PutPlainOK
<1> HIDE DEF begun
<1>5. Kept(created, entered)
  <2>1. BlocksOK(begun) /\ ip \in 1..Len(begun) /\ pre \in 1..Len(begun)
    BY <1>4, <1>a DEF Kept
  <2>2. Kept(begun, entered)
    BY <2>1, PutBrOK
  <2> QED
    BY <1>a, <2>2 DEF Kept
<1> HIDE DEF entered
<1>6. Kept(entered, blocks')
  <2>1. BlocksOK(entered) /\ Len(entered) = Len(created)
    BY <1>5 DEF Kept
  <2>2. pre \in 1..Len(entered) /\ then \in 1..Len(entered) /\ merge \in 1..Len(entered)
    BY <1>4, <2>1
  <2>3. Kept(entered, Put(entered, pre, CondBr(Node, then, merge)))
    BY <1>3, <2>1, <2>2, PutTestOK
  <2> QED
    BY <1>1, <2>3
<1>7. Kept(created, blocks')
  BY <1>5, <1>6 DEF Kept
<1>8. /\ pre \in 1..Len(blocks') /\ then \in 1..Len(blocks') /\ merge \in 1..Len(blocks')
      /\ update \in 1..Len(blocks')
  BY <1>4, <1>7 DEF Kept
<1>9. Kept(Create(blocks, 4), blocks') /\ 4 \in Nat /\ "for" \in Loops
  BY <1>7 DEF created, Loops
<1> QED
  BY <1>1, <1>8, <1>9, LoopTyped, Zenon

\* ... and the end of a loop.
LEMMA EndLoopTyped ==
    ASSUME Ready, EndWhile \/ EndFor
    PROVE  StaysTyped
<1>1. /\ frames # <<>> /\ Top.emits \in Loops /\ Returns(Top.other)
      /\ loops' = SubSeq(loops, 1, Len(loops) - 1)
  BY DEF EndWhile, EndFor, Resumes, Loops
<1>2. /\ Top.bb \in 1..Len(blocks) /\ Len(blocks) \in Nat
      /\ Top.stmt \in Nat /\ Fits(code, Top, Len(blocks))
  BY <1>1, TopFacts DEF Ready, Top, Loops
<1>3. Top.then \in 1..Len(blocks) /\ Top.other \in 1..Len(blocks)
  BY <1>1, <1>2 DEF Fits
<1>4. BlocksOK(blocks) /\ ip \in 1..Len(blocks)
  BY DEF Ready, Typed
<1>5. BlocksOK(blocks') /\ Len(blocks') = Len(blocks) /\ ip' \in 1..Len(blocks)
  <2>1. CASE EndWhile
    BY <1>2, <1>3, <1>4, <2>1, SafeBrOK DEF EndWhile, Kept
  <2>2. CASE EndFor
    <3> DEFINE update  == Top.then
               ended   == Put(blocks, ip, Br(update))
               updated == Put(ended, update, IterUpdate(Top.stmt))
    <3>1. blocks' = Put(updated, update, Br(Top.bb)) /\ ip' = update
      BY <2>2 DEF EndFor
    <3>2. Kept(blocks, ended)
      BY <1>3, <1>4, PutBrOK
    <3> HIDE DEF ended
    <3>3. BlocksOK(ended) /\ Len(ended) = Len(blocks) /\ update \in 1..Len(ended)
      BY <1>3, <3>2 DEF Kept
    <3>4. Kept(ended, updated)
      BY <1>2, <3>3, PutPlainOK
    <3> HIDE DEF updated
    <3>5. BlocksOK(updated) /\ Len(updated) = Len(blocks) /\ update \in 1..Len(updated)
            /\ Top.bb \in 1..Len(updated)
      BY <1>2, <3>3, <3>4 DEF Kept
    <3>6. Kept(updated, Put(updated, update, Br(Top.bb)))
      BY <3>5, PutBrOK
    <3> QED
      BY <1>3, <3>1, <3>5, <3>6 DEF Kept
  <2> QED
    BY <2>1, <2>2
<1> QED
  BY <1>1, <1>2, <1>3, <1>5, ReturnsTyped

\* The steps that emit statements.
EmitStep ==
    \/ EmitDo \/ EmitReturn \/ EmitJump
    \/ NextNode \/ CutBlock \/ EndBlock
    \/ EmitIf \/ EmitThen \/ EmitElse \/ EndIfPoisoned \/ EndIf
    \/ EmitCompIf
    \/ EmitWhile \/ EndWhile \/ EmitFor \/ EndFor

\* Every step of the emitters keeps the types.
LEMMA EmitStepTyped ==
    ASSUME Ready, EmitStep
    PROVE  StaysTyped
BY LeafTyped, NextNodeTyped, BlockReturnsTyped, EmitIfTyped, EmitThenTyped, EmitElseTyped,
   EndIfPoisonedTyped, EndIfTyped, EmitCompIfTyped, EmitWhileTyped, EmitForTyped, EndLoopTyped
   DEF EmitStep

\* What the emitters leave alone.
LEMMA EmitStepFrame ==
    ASSUME EmitStep
    PROVE  phase = "emitting" /\ UNCHANGED <<code, body, void, phase, at, rest, quiet>>
<1>1. phase = "emitting"
  BY DEF EmitStep, EmitDo, EmitReturn, EmitJump, NextNode, CutBlock, EndBlock, EmitIf, EmitThen,
         EmitElse, EndIfPoisoned, EndIf, EmitCompIf, EmitWhile, EndWhile, EmitFor, EndFor,
         AtNode, GoesOn, Resumes, BranchesEmitted
<1>2. UNCHANGED <<code, body, void, phase, at, rest, quiet>>
  BY DEF EmitStep, EmitDo, EmitReturn, EmitJump, NextNode, CutBlock, EndBlock, EmitIf, EmitThen,
         EmitElse, EndIfPoisoned, EndIf, EmitCompIf, EmitWhile, EndWhile, EmitFor, EndFor,
         source, running
<1> QED
  BY <1>1, <1>2

\* What is emitted is unchanged when the function runs.
RunStep == MoveSource \/ RunEffect \/ (\E yes \in BOOLEAN : RunTest(yes)) \/ RunBr \/ RunReturn

\* A running function leaves alone what was emitted.
LEMMA RunStepFrame ==
    ASSUME RunStep
    PROVE  phase = "running" /\ UNCHANGED <<code, body, void, blocks, ip, loops, frames, value>>
BY DEF RunStep, MoveSource, RunEffect, RunTest, RunBr, RunReturn, Runs, source

\* A verified block goes on behind what is no terminator.
LEMMA VerifiedBlocks ==
    ASSUME NEW bs, BlocksOK(bs), Verified(bs), NEW b \in DOMAIN bs
    PROVE  /\ bs[b] \in Seq(Instruction) /\ 1 \in DOMAIN bs[b] /\ DOMAIN bs[b] = 1..Len(bs[b])
           /\ Len(bs[b]) \in Nat /\ IsTerminator(bs[b][Len(bs[b])])
           /\ \A i \in DOMAIN bs[b] : ~IsTerminator(bs[b][i]) => i + 1 \in DOMAIN bs[b]
           /\ \A i \in DOMAIN bs[b] : IsTerminator(bs[b][i]) => i = Len(bs[b])
<1>1. bs[b] \in Seq(Instruction)
  BY DEF BlocksOK
<1>2. bs[b] # <<>> /\ IsTerminator(bs[b][Len(bs[b])])
      /\ \A i \in 1..(Len(bs[b]) - 1) : ~IsTerminator(bs[b][i])
  BY DEF Verified, Terminated
<1>3. DOMAIN bs[b] = 1..Len(bs[b]) /\ Len(bs[b]) \in Nat \ {0}
  BY <1>1, <1>2
<1> QED
  BY <1>1, <1>2, <1>3

\* Every step of the running function keeps the types: it stays in the blocks.
LEMMA TypeRun ==
    ASSUME TypeInv, RunStep
    PROVE  TypeInv'
<1>1. phase = "running" /\ UNCHANGED <<code, body, void, blocks, ip, loops, frames, value>>
  BY RunStepFrame
<1>2. /\ Verified(blocks) /\ at[1] \in DOMAIN blocks /\ at[2] \in DOMAIN blocks[at[1]]
      /\ at \in Nat \X Nat /\ quiet \in 0..(Len(blocks) + 1) /\ BlocksOK(blocks) /\ Len(blocks) \in Nat
      /\ DOMAIN blocks = 1..Len(blocks)
  BY <1>1 DEF TypeInv, Typed, BlocksOK
<1>3. /\ blocks[at[1]] \in Seq(Instruction) /\ Now \in Instruction
      /\ ~IsTerminator(Now) => at[2] + 1 \in DOMAIN blocks[at[1]]
  BY <1>2, VerifiedBlocks DEF Now
<1>4. ASSUME NEW to \in DOMAIN blocks
      PROVE  <<to, 1>> \in Nat \X Nat /\ 1 \in DOMAIN blocks[to]
  BY <1>2, <1>4, VerifiedBlocks
<1>5. /\ at' \in Nat \X Nat /\ quiet' \in 0..(Len(blocks) + 1) /\ phase' \in {"running", "returned"}
      /\ at'[1] \in DOMAIN blocks /\ at'[2] \in DOMAIN blocks[at'[1]]
  <2>1. CASE MoveSource
    BY <1>1, <1>2, <2>1 DEF MoveSource
  <2>2. CASE RunEffect
    <3>1. at' = <<at[1], at[2] + 1>> /\ quiet' = 0 /\ phase' = phase
      BY <2>2 DEF RunEffect
    <3>2. at[2] + 1 \in DOMAIN blocks[at[1]]
      BY <1>3, <2>2 DEF RunEffect, Runs, IsTerminator
    <3>3. at[1] \in Nat /\ at[2] + 1 \in Nat
      BY <1>2
    <3>4. at' \in Nat \X Nat /\ at'[1] = at[1] /\ at'[2] = at[2] + 1
      BY <3>1, <3>3
    <3> QED
      BY <1>1, <1>2, <3>1, <3>2, <3>4
  <2>3. CASE \E yes \in BOOLEAN : RunTest(yes)
    <3>0. PICK yes \in BOOLEAN : RunTest(yes)
      BY <2>3
    <3> DEFINE to == IF yes THEN Now.yes ELSE Now.no
    <3>1. at' = <<to, 1>> /\ quiet' = 0 /\ phase' = phase /\ Now.op = "test"
      BY <3>0 DEF RunTest, Runs
    <3>2. to \in DOMAIN blocks
      BY <1>2, <3>1 DEF BlocksOK, Now
    <3> HIDE DEF to
    <3> QED
      BY <1>1, <1>2, <1>4, <3>1, <3>2
  <2>4. CASE RunBr
    <3>1. at' = <<Now.yes, 1>> /\ quiet' \in {quiet, quiet + 1} /\ phase' = phase /\ Now.op = "br"
          /\ (quiet > Len(blocks) => quiet' = quiet)
      BY <2>4 DEF RunBr, Runs
    <3>2. Now.yes \in DOMAIN blocks
      BY <1>2, <3>1 DEF BlocksOK, Now
    <3>3. at' \in Nat \X Nat /\ at'[1] \in DOMAIN blocks /\ at'[2] \in DOMAIN blocks[at'[1]]
      BY <1>4, <3>1, <3>2
    <3>4. quiet' \in 0..(Len(blocks) + 1)
      BY <1>2, <3>1
    <3> QED
      BY <1>1, <3>1, <3>3, <3>4
  <2>5. CASE RunReturn
    BY <1>1, <1>2, <2>5 DEF RunReturn
  <2> QED
    BY <2>1, <2>2, <2>3, <2>4, <2>5 DEF RunStep
<1> QED
  BY <1>1, <1>2, <1>5 DEF TypeInv

\* Every step of the emitters does.
LEMMA TypeEmit ==
    ASSUME TypeInv, EmitStep
    PROVE  TypeInv'
<1>1. phase = "emitting" /\ UNCHANGED <<code, body, void, phase, at, rest, quiet>>
  BY EmitStepFrame
<1>2. StaysTyped
  BY EmitStepTyped DEF TypeInv, Ready
<1> QED
  BY <1>1, <1>2 DEF TypeInv, StaysTyped

\* The end of the function does: what is run has been verified.
LEMMA TypeEndFunction ==
    ASSUME TypeInv, EndFunction
    PROVE  TypeInv'
<1> DEFINE closed == IF void /\ ~Terminated(blocks, ip) THEN Put(blocks, ip, Ret(0)) ELSE blocks
<1>1. /\ phase = "emitting" /\ blocks' = closed
      /\ phase' = IF Verified(closed) THEN "running" ELSE "rejected"
      /\ UNCHANGED <<code, body, void, ip, loops, frames, value, at, quiet>> /\ frames = <<>>
  BY DEF EndFunction, source
<1>2. BlocksOK(blocks) /\ ip \in 1..Len(blocks) /\ at = <<1, 1>>
  BY <1>1 DEF TypeInv, Typed
<1>3. BlocksOK(closed) /\ Len(closed) = Len(blocks)
  BY <1>2, PutPlainOK DEF Kept
<1> HIDE DEF closed
<1>4. Len(blocks) \in Nat /\ 1 \in DOMAIN closed
  BY <1>2, <1>3 DEF BlocksOK
<1>5. Verified(closed) => 1 \in DOMAIN closed[1]
  BY <1>3, <1>4, VerifiedBlocks
<1>6. Typed(code, closed, ip, loops, frames, value)
  BY <1>3, Zenon DEF TypeInv, Typed
<1>7. phase' = "running" => Verified(closed) /\ at[1] \in DOMAIN closed /\ at[2] \in DOMAIN closed[at[1]]
  BY <1>1, <1>2, <1>4, <1>5
<1> QED
  BY <1>1, <1>3, <1>6, <1>7 DEF TypeInv

\* A step is one of these.
LEMMA NextSteps ==
    ASSUME [Next]_emitVars
    PROVE  EmitStep \/ EmitStrayJump \/ EndFunction \/ RunStep \/ UNCHANGED emitVars
BY DEF Next, EmitStep, RunStep

\* The types hold in every state.
LEMMA TypeInvariant == Spec => []TypeInv
<1>1. Init => TypeInv
  <2> SUFFICES ASSUME Init PROVE TypeInv
    OBVIOUS
  <2>1. PICK p \in Programs : code = p.code /\ body = p.body
    BY DEF Init
  <2>2. CodeOK(code) /\ body \in Seq(1..Len(code))
    BY <2>1, ProgramsAssumption DEF IsProgram, CodeOK
  <2>3. /\ blocks = << <<>> >> /\ ip = 1 /\ loops = <<>> /\ frames = <<BlockEmitter(body, 1)>>
        /\ value = Calling /\ at = <<1, 1>> /\ quiet = 0 /\ phase = "emitting" /\ void \in BOOLEAN
    BY DEF Init
  <2>4. BlocksOK(blocks) /\ Len(blocks) = 1
    BY <2>3 DEF BlocksOK
  <2>5. LoopsOK(loops, 1)
    BY <2>3 DEF LoopsOK
  <2>6. BlockEmitter(body, 1) \in FrameType(code) /\ Fits(code, BlockEmitter(body, 1), 1)
    BY <2>2, EmitterTypes
  <2>7. StackOK(code, frames, 1)
    BY <2>3, <2>6 DEF StackOK
  <2>8. at \in Nat \X Nat
    BY <2>3
  <2>9. quiet \in 0..(Len(blocks) + 1)
    BY <2>3, <2>4
  <2> QED
    BY <2>2, <2>3, <2>4, <2>5, <2>7, <2>8, <2>9 DEF TypeInv, Typed
<1>2. TypeInv /\ [Next]_emitVars => TypeInv'
  <2> SUFFICES ASSUME TypeInv, [Next]_emitVars PROVE TypeInv'
    OBVIOUS
  <2>1. CASE EmitStrayJump
    <3>1. phase' \in {"crashed", "rejected"}
            /\ UNCHANGED <<code, body, void, blocks, ip, loops, frames, value, at, quiet>>
      BY <2>1 DEF EmitStrayJump, source, running
    <3> QED
      BY <3>1 DEF TypeInv
  <2>2. CASE UNCHANGED emitVars
    BY <2>2 DEF emitVars, source, running, TypeInv
  <2> QED
    BY <2>1, <2>2, NextSteps, TypeEmit, TypeEndFunction, TypeRun
<1> QED
  BY <1>1, <1>2, PTL DEF Spec

\* Every branch leads to a block of the function, and what runs is in one of them.
THEOREM TypeCorrect == Spec => []TypeOK
<1>1. TypeInv => TypeOK
  <2> SUFFICES ASSUME TypeInv PROVE TypeOK
    OBVIOUS
  <2>1. BlocksOK(blocks) /\ DOMAIN blocks = 1..Len(blocks) /\ ip \in DOMAIN blocks
    BY DEF TypeInv, Typed, BlocksOK
  <2>2. \A b \in DOMAIN blocks : \A i \in DOMAIN blocks[b] :
          blocks[b][i].op \in {"br", "test"}
            => {blocks[b][i].yes, blocks[b][i].no} \subseteq DOMAIN blocks
    BY <2>1 DEF BlocksOK
  <2> QED
    BY <2>1, <2>2 DEF TypeInv, TypeOK
<1> QED
  BY <1>1, TypeInvariant, PTL

-----------------------------------------------------------------------------
(* Shapes of lists and of ifs *)

\* The shape of a list by its first statement.
LEMMA HeadShape ==
    ASSUME NEW c, CodeOK(c), NEW list \in Seq(1..Len(c)), list # <<>>
    PROVE  /\ Head(list) \in 1..Len(c) /\ Tail(list) \in Seq(1..Len(c))
           /\ Flat(c, list) <=> c[Head(list)].kind \in {"do"} \cup Jumps /\ Flat(c, Tail(list))
           /\ Flat(c, list) => (Jumping(c, list)
                  <=> c[Head(list)].kind \in Jumps \/ Jumping(c, Tail(list)))
           /\ Cut(c, list) <=> Ends(c, Head(list)) \/ Cut(c, Tail(list))
<1> DEFINE flat == {s \in 1..Len(c) : c[s].kind \in {"do"} \cup Jumps}
           jumps == {s \in 1..Len(c) : c[s].kind \in Jumps}
           ends == {s \in 1..Len(c) : Ends(c, s)}
           tail == Tail(list)
<1>1. Len(c) \in Nat
  BY DEF CodeOK
<1>2. Head(list) \in 1..Len(c) /\ tail \in Seq(1..Len(c))
  BY <1>1, ListParts
<1>3. (\A i \in DOMAIN list : list[i] \in 1..Len(c)) /\ (\A i \in DOMAIN tail : tail[i] \in 1..Len(c))
  BY <1>2
<1>4. (\A i \in DOMAIN list : list[i] \in flat)
          <=> Head(list) \in flat /\ \A i \in DOMAIN tail : tail[i] \in flat
  BY <1>1, SplitList
<1>5. (\E i \in DOMAIN list : list[i] \in jumps)
          <=> Head(list) \in jumps \/ \E i \in DOMAIN tail : tail[i] \in jumps
  BY <1>1, SplitList
<1>6. (\E i \in DOMAIN list : list[i] \in ends)
          <=> Head(list) \in ends \/ \E i \in DOMAIN tail : tail[i] \in ends
  BY <1>1, SplitList
<1> HIDE DEF tail
<1>7. /\ Flat(c, list) <=> \A i \in DOMAIN list : list[i] \in flat
      /\ Flat(c, tail) <=> \A i \in DOMAIN tail : tail[i] \in flat
      /\ Head(list) \in flat <=> c[Head(list)].kind \in {"do"} \cup Jumps
  BY <1>2, <1>3 DEF Flat
<1>8. /\ Jumping(c, list) <=> Flat(c, list) /\ \E i \in DOMAIN list : list[i] \in jumps
      /\ Jumping(c, tail) <=> Flat(c, tail) /\ \E i \in DOMAIN tail : tail[i] \in jumps
      /\ Head(list) \in jumps <=> c[Head(list)].kind \in Jumps
  BY <1>2, <1>3 DEF Jumping
<1>9. /\ Cut(c, list) <=> \E i \in DOMAIN list : list[i] \in ends
      /\ Cut(c, tail) <=> \E i \in DOMAIN tail : tail[i] \in ends
      /\ Head(list) \in ends <=> Ends(c, Head(list))
  BY <1>2, <1>3 DEF Cut
<1> HIDE DEF flat, jumps, ends
<1>10. Flat(c, list) <=> c[Head(list)].kind \in {"do"} \cup Jumps /\ Flat(c, tail)
  BY <1>4, <1>7, Zenon
<1>11. Flat(c, list) => (Jumping(c, list) <=> c[Head(list)].kind \in Jumps \/ Jumping(c, tail))
  BY <1>5, <1>8, <1>10, Zenon
<1>12. Cut(c, list) <=> Ends(c, Head(list)) \/ Cut(c, tail)
  BY <1>6, <1>9, Zenon
<1> QED
  BY <1>2, <1>10, <1>11, <1>12 DEF tail

\* Nothing jumps or ends in an empty list.
LEMMA EmptyShape ==
    ASSUME NEW c
    PROVE  Flat(c, <<>>) /\ ~Jumping(c, <<>>) /\ ~Cut(c, <<>>)
BY DEF Flat, Jumping, Cut

\* A flat list ends where it jumps.
LEMMA FlatEnds ==
    ASSUME NEW c, NEW list, Flat(c, list)
    PROVE  Cut(c, list) <=> Jumping(c, list)
BY DEF Flat, Cut, Jumping, Ends, Jumps

\* All branches of an if jump when its body does and all branches of the else branch do.
LEMMA AllJumpUnfolds ==
    ASSUME NEW c, CodeOK(c), NEW s \in 1..Len(c)
    PROVE  AllJump(c, s) <=>
             /\ Jumping(c, c[s].then)
             /\ \/ c[s].else = "block" /\ Jumping(c, c[s].other)
                \/ c[s].else = "if" /\ AllJump(c, c[s].other[1])
<1> DEFINE Closed(chain) ==
             \A t \in chain : /\ Jumping(c, c[t].then)
                              /\ \/ c[t].else = "block" /\ Jumping(c, c[t].other)
                                 \/ c[t].else = "if" /\ c[t].other[1] \in chain
<1>0. /\ s \in DOMAIN c
      /\ (\A t : AllJump(c, t) <=> \E chain \in SUBSET DOMAIN c : t \in chain /\ Closed(chain))
  BY StatementFacts DEF AllJump
<1>1. ASSUME AllJump(c, s)
      PROVE  /\ Jumping(c, c[s].then)
             /\ \/ c[s].else = "block" /\ Jumping(c, c[s].other)
                \/ c[s].else = "if" /\ AllJump(c, c[s].other[1])
  <2>1. PICK chain \in SUBSET DOMAIN c : s \in chain /\ Closed(chain)
    BY <1>0, <1>1
  <2> QED
    BY <1>0, <2>1
<1>2. ASSUME Jumping(c, c[s].then), c[s].else = "block", Jumping(c, c[s].other)
      PROVE  AllJump(c, s)
  <2>1. {s} \in SUBSET DOMAIN c /\ s \in {s} /\ Closed({s})
    BY <1>0, <1>2
  <2> QED
    BY <1>0, <2>1
<1>3. ASSUME Jumping(c, c[s].then), c[s].else = "if", AllJump(c, c[s].other[1])
      PROVE  AllJump(c, s)
  <2>1. PICK chain \in SUBSET DOMAIN c : c[s].other[1] \in chain /\ Closed(chain)
    BY <1>0, <1>3
  <2>2. chain \cup {s} \in SUBSET DOMAIN c /\ s \in chain \cup {s} /\ Closed(chain \cup {s})
    BY <1>0, <1>3, <2>1
  <2> QED
    BY <1>0, <2>2
<1> QED
  BY <1>1, <1>2, <1>3

\* What an if of the shapes for which the emitter is made looks like.
IfShape(c, s) ==
    /\ Flat(c, c[s].then)
    /\ c[s].else = "none" => ~AllJump(c, s)
    /\ c[s].else = "block" => AllJump(c, s) /\ Jumping(c, c[s].other)
    /\ c[s].else = "if" => (AllJump(c, s) <=> AllJump(c, c[s].other[1]))
    /\ c[s].else # "none" => (AllJump(c, s) <=> Jumping(c, c[s].then))

\* What is known of an if of a plain program.
LEMMA PlainIfShape ==
    ASSUME NEW c, CodeOK(c), PlainIfs(c), NEW s \in 1..Len(c), c[s].kind = "if"
    PROVE  IfShape(c, s)
<1>1. PlainIf(c, s) /\ c[s].else \in {"none", "block", "if"}
  BY StatementFacts DEF PlainIfs
<1>2. AllJump(c, s) <=>
             /\ Jumping(c, c[s].then)
             /\ \/ c[s].else = "block" /\ Jumping(c, c[s].other)
                \/ c[s].else = "if" /\ AllJump(c, c[s].other[1])
  BY AllJumpUnfolds
<1>3. \/ AllJump(c, s)
      \/ /\ Flat(c, c[s].then)
         /\ \/ c[s].else = "none"
            \/ c[s].else = "if" /\ ~Jumping(c, c[s].then) /\ ~AllJump(c, c[s].other[1])
  BY <1>1 DEF PlainIf
<1>4. Jumping(c, c[s].then) => Flat(c, c[s].then)
  BY DEF Jumping
<1> QED
  BY <1>1, <1>2, <1>3, <1>4 DEF IfShape

-----------------------------------------------------------------------------
(* The end of a block *)

\* What an instruction at the end of a block does to the ends of the blocks.
LEMMA PutEnds ==
    ASSUME NEW bs, BlocksOK(bs), NEW b \in 1..Len(bs), NEW in \in Instruction,
           in.op \in {"br", "test"} => in.yes \in 1..Len(bs) /\ in.no \in 1..Len(bs)
    PROVE  PutIs(bs, b, in, Put(bs, b, in))
<1> DEFINE ps == Put(bs, b, in)
           n == Len(bs[b])
<1>1. bs \in Seq(Seq(Instruction)) /\ DOMAIN bs = 1..Len(bs)
  BY DEF BlocksOK
<1>2. /\ Len(ps) = Len(bs) /\ DOMAIN ps = DOMAIN bs
      /\ ps[b] = Append(bs[b], in) /\ \A a \in DOMAIN bs : a # b => ps[a] = bs[a]
  <2>1. IsPut(Instruction, bs, b, in, ps)
    BY <1>1, PutBlock, Zenon
  <2> QED
    BY <2>1 DEF IsPut
<1>3. BlocksOK(ps)
  BY PutOK, Zenon DEF Kept
<1> HIDE DEF ps
<1>4. bs[b] \in Seq(Instruction)
  BY <1>1
<1>5. /\ ps[b] # <<>> /\ ps[b][Len(ps[b])] = in /\ Len(ps[b]) = n + 1 /\ n \in Nat
      /\ \A i \in 1..n : ps[b][i] = bs[b][i]
  BY <1>2, <1>4, AppendLast
<1>6. bs[b] = <<>> <=> n = 0
  BY <1>4
<1> HIDE DEF n
<1>7. Terminated(ps, b) <=> IsTerminator(in)
  BY <1>5 DEF Terminated
<1>8. Terminated(bs, b) <=> n # 0 /\ IsTerminator(bs[b][n])
  BY <1>6 DEF Terminated, n
<1>9. ASSUME Sound(bs), Open(bs, b)
      PROVE  Sound(ps)
  <2> SUFFICES ASSUME NEW a \in DOMAIN ps, NEW i \in 1..(Len(ps[a]) - 1)
               PROVE  ~IsTerminator(ps[a][i])
    BY DEF Sound
  <2>1. CASE a # b
    BY <1>1, <1>2, <1>9, <2>1 DEF Sound
  <2>2. CASE a = b
    <3>1. i \in 1..n /\ ps[a][i] = bs[b][i]
      BY <1>5, <2>2
    <3>2. \A j \in 1..(n - 1) : ~IsTerminator(bs[b][j])
      BY <1>1, <1>9 DEF Sound, n
    <3>3. i = n \/ i \in 1..(n - 1)
      BY <1>5, <3>1
    <3> QED
      BY <1>5, <1>8, <1>9, <3>1, <3>2, <3>3 DEF Open
  <2> QED
    BY <2>1, <2>2
<1>10. ASSUME ~Sound(bs)
       PROVE  ~Sound(ps)
  <2>0. PICK a \in DOMAIN bs : \E i \in 1..(Len(bs[a]) - 1) : IsTerminator(bs[a][i])
    BY <1>10 DEF Sound
  <2>1. PICK i \in 1..(Len(bs[a]) - 1) : IsTerminator(bs[a][i])
    BY <2>0
  <2>2. CASE a # b
    BY <1>1, <1>2, <2>1, <2>2 DEF Sound
  <2>3. CASE a = b
    <3>1. i \in 1..(Len(ps[b]) - 1) /\ ps[b][i] = bs[b][i]
      BY <1>5, <2>1, <2>3 DEF n
    <3> QED
      BY <1>1, <1>2, <2>1, <2>3, <3>1 DEF Sound
  <2> QED
    BY <2>2, <2>3
<1>11. ASSUME Terminated(bs, b)
       PROVE  ~Sound(ps)
  <2>1. n \in 1..(Len(ps[b]) - 1) /\ IsTerminator(ps[b][n])
    BY <1>5, <1>8, <1>11
  <2> QED
    BY <1>1, <1>2, <2>1 DEF Sound
<1> QED
  BY <1>1, <1>2, <1>3, <1>7, <1>9, <1>10, <1>11 DEF PutIs, ps

\* The same for each instruction.
LEMMA PutEach ==
    ASSUME NEW bs, BlocksOK(bs), NEW b \in 1..Len(bs), NEW s \in Nat,
           NEW yes \in 1..Len(bs), NEW no \in 1..Len(bs)
    PROVE  /\ PutIs(bs, b, Effect(s), Put(bs, b, Effect(s))) /\ ~IsTerminator(Effect(s))
           /\ PutIs(bs, b, Ret(s), Put(bs, b, Ret(s))) /\ IsTerminator(Ret(s))
           /\ PutIs(bs, b, IterInit(s), Put(bs, b, IterInit(s))) /\ ~IsTerminator(IterInit(s))
           /\ PutIs(bs, b, IterUpdate(s), Put(bs, b, IterUpdate(s))) /\ ~IsTerminator(IterUpdate(s))
           /\ PutIs(bs, b, Br(yes), Put(bs, b, Br(yes))) /\ IsTerminator(Br(yes))
           /\ PutIs(bs, b, CondBr(s, yes, no), Put(bs, b, CondBr(s, yes, no)))
           /\ IsTerminator(CondBr(s, yes, no))
<1>1. yes \in Nat /\ no \in Nat
  BY DEF BlocksOK
<1>2. ASSUME NEW in \in Instruction,
             in.op \in {"br", "test"} => in.yes \in 1..Len(bs) /\ in.no \in 1..Len(bs)
      PROVE  PutIs(bs, b, in, Put(bs, b, in))
  BY <1>2, PutEnds
<1>3. /\ Effect(s) \in Instruction /\ Effect(s).op = "do"
      /\ Ret(s) \in Instruction /\ Ret(s).op = "return"
      /\ IterInit(s) \in Instruction /\ IterInit(s).op = "init"
      /\ IterUpdate(s) \in Instruction /\ IterUpdate(s).op = "update"
  BY InstructionTypes
<1>4. Br(yes) \in Instruction /\ Br(yes).op = "br" /\ Br(yes).yes = yes /\ Br(yes).no = yes
  BY <1>1, InstructionTypes
<1>5. /\ CondBr(s, yes, no) \in Instruction /\ CondBr(s, yes, no).op = "test"
      /\ CondBr(s, yes, no).yes = yes /\ CondBr(s, yes, no).no = no
  BY <1>1, InstructionTypes
<1>6. /\ PutIs(bs, b, Effect(s), Put(bs, b, Effect(s)))
      /\ PutIs(bs, b, Ret(s), Put(bs, b, Ret(s)))
      /\ PutIs(bs, b, IterInit(s), Put(bs, b, IterInit(s)))
      /\ PutIs(bs, b, IterUpdate(s), Put(bs, b, IterUpdate(s)))
  BY <1>2, <1>3
<1>7. PutIs(bs, b, Br(yes), Put(bs, b, Br(yes)))
  BY <1>2, <1>4
<1>8. PutIs(bs, b, CondBr(s, yes, no), Put(bs, b, CondBr(s, yes, no)))
  BY <1>2, <1>5
<1> QED
  BY <1>3, <1>4, <1>5, <1>6, <1>7, <1>8 DEF IsTerminator

\* What create_safe_br does.
LEMMA SafeBrEnds ==
    ASSUME NEW bs, BlocksOK(bs), NEW b \in 1..Len(bs), NEW to \in 1..Len(bs)
    PROVE  SafeBrIs(bs, b, SafeBr(bs, b, to))
<1>1. CASE Terminated(bs, b)
  BY <1>1 DEF SafeBr, SafeBrIs
<1>2. CASE ~Terminated(bs, b)
  <2>1. PutIs(bs, b, Br(to), Put(bs, b, Br(to))) /\ IsTerminator(Br(to))
    <3>1. 0 \in Nat
      OBVIOUS
    <3> QED
      BY <3>1, PutEach, Zenon
  <2>2. SafeBr(bs, b, to) = Put(bs, b, Br(to))
    BY <1>2 DEF SafeBr
  <2> QED
    BY <1>2, <2>1, <2>2, Zenon DEF PutIs, SafeBrIs, Open
<1> QED
  BY <1>1, <1>2

\* What the creation of blocks does.
LEMMA CreateEnds ==
    ASSUME NEW bs, BlocksOK(bs), NEW n \in Nat
    PROVE  CreateIs(bs, n, Create(bs, n))
<1> DEFINE ps == Create(bs, n)
<1>1. bs \in Seq(Seq(Instruction)) /\ DOMAIN bs = 1..Len(bs) /\ Len(bs) \in Nat
  BY DEF BlocksOK
<1>2. /\ Len(ps) = Len(bs) + n /\ DOMAIN ps = 1..(Len(bs) + n)
      /\ \A a \in DOMAIN bs : ps[a] = bs[a]
      /\ \A a \in (Len(bs) + 1)..(Len(bs) + n) : ps[a] = <<>>
  BY <1>1, CreateBlocks
<1>3. BlocksOK(ps)
  BY CreateOK
<1> HIDE DEF ps
<1>4. \A a \in (Len(bs) + 1)..(Len(bs) + n) : Open(ps, a)
  BY <1>2 DEF Open, Terminated
<1>5. Sound(bs) => Sound(ps)
  <2> SUFFICES ASSUME Sound(bs), NEW a \in DOMAIN ps, NEW i \in 1..(Len(ps[a]) - 1)
               PROVE  ~IsTerminator(ps[a][i])
    BY DEF Sound
  <2>1. CASE a \in DOMAIN bs
    BY <1>2, <2>1 DEF Sound
  <2>2. CASE a \notin DOMAIN bs
    <3>1. ps[a] = <<>>
      BY <1>1, <1>2, <2>2
    <3> QED
      BY <3>1
  <2> QED
    BY <2>1, <2>2
<1>6. ~Sound(bs) => ~Sound(ps)
  BY <1>1, <1>2 DEF Sound
<1> QED
  BY <1>1, <1>2, <1>3, <1>4, <1>5, <1>6 DEF CreateIs, ps

\* The end of a block depends on nothing else.
LEMMA SameEnd ==
    ASSUME NEW bs, NEW ps, NEW b, ps[b] = bs[b]
    PROVE  (Terminated(ps, b) <=> Terminated(bs, b)) /\ (Open(ps, b) <=> Open(bs, b))
BY DEF Terminated, Open

-----------------------------------------------------------------------------
(* The calls under way and their blocks *)

\* What a step may change, and what it may hand on: from blocks bs to ps.
Mine(bs, ps, f, p, v) == {Cur(p, v)} \cup Own(f) \cup ((Len(bs) + 1)..Len(ps))

\* A step replaces the topmost call: the calls below and their blocks stay.
Becomes(c, bs, fs, p, v, ps, gs, q, w) ==
    LET n == Len(fs)
        mine == Mine(bs, ps, fs[n], p, v)
    IN  /\ Len(gs) \in Nat /\ n - 1 <= Len(gs) /\ \A k \in 1..(n - 1) : gs[k] = fs[k]
        /\ Len(ps) \in Nat /\ Len(bs) <= Len(ps)
        /\ \A b \in 1..Len(bs) : b \notin mine => ps[b] = bs[b]
        /\ q \in {p} \cup mine
        /\ w \in {v, Calling, Poison, Other} \cup {p} \cup mine
        /\ \A k \in n..Len(gs) : /\ FrameOK(c, ps, gs[k]) /\ Own(gs[k]) \subseteq mine
                                 /\ q \notin Own(gs[k]) /\ w \notin Own(gs[k])
        /\ \A k \in n..(Len(gs) - 1) : Link(c, gs[k], gs[k + 1])
        /\ \A j, k \in n..Len(gs) : j # k => Own(gs[j]) \cap Own(gs[k]) = {}
        /\ 1 < n /\ n <= Len(gs) => Link(c, fs[n - 1], gs[n])
        /\ \A b \in mine : Open(ps, b) => b = Cur(q, w) \/ \E k \in n..Len(gs) : b \in Own(gs[k])

\* A call depends on the blocks it owns only.
LEMMA FrameKept ==
    ASSUME NEW c, NEW bs, NEW ps, NEW f, f.emits \in {"block", "if", "while", "for"},
           FrameOK(c, bs, f), Called(f), \A b \in Own(f) : ps[b] = bs[b]
    PROVE  FrameOK(c, ps, f)
<1>1. CASE f.emits = "if"
  <2>1. f.bb \in Own(f) /\ (f.other # 0 => f.then \in Own(f)) /\ f.then # 0
    BY <1>1 DEF Own, Called
  <2>2. Open(ps, f.bb) /\ (f.other # 0 => (Terminated(ps, f.then) <=> Terminated(bs, f.then)))
    BY <1>1, <2>1, SameEnd DEF FrameOK
  <2> QED
    BY <1>1, <2>1, <2>2 DEF FrameOK
<1>2. CASE f.emits = "while"
  BY <1>2 DEF FrameOK, Own
<1>3. CASE f.emits = "for"
  BY <1>3 DEF FrameOK, Own
<1>4. CASE f.emits = "block"
  BY <1>4 DEF FrameOK
<1> QED
  BY <1>1, <1>2, <1>3, <1>4

\* What a call owns are blocks.
LEMMA OwnInRange ==
    ASSUME NEW c, NEW f \in FrameType(c), NEW n \in Nat, Fits(c, f, n)
    PROVE  Own(f) \subseteq 1..n /\ f.emits \in {"block", "if", "while", "for"}
<1>1. f.emits \in {"block", "if", "while", "for"}
  BY DEF FrameType
<1>2. f.bb \in 1..n /\ (f.then # 0 => f.then \in 1..n)
        /\ (f.emits \in Loops => f.then \in 1..n /\ f.other \in 1..n)
  BY DEF Fits
<1> QED
  BY <1>1, <1>2 DEF Own, Loops

\* The calls stay as they should when the topmost is replaced.
LEMMA StackChanges ==
    ASSUME NEW c, NEW bs, NEW fs, NEW p, NEW v, NEW ps, NEW gs, NEW q, NEW w,
           Len(bs) \in Nat, StackOK(c, fs, Len(bs)), fs # <<>>,
           CallsOK(c, bs, fs, p, v), Becomes(c, bs, fs, p, v, ps, gs, q, w)
    PROVE  CallsOK(c, ps, gs, q, w)
<1> DEFINE n == Len(fs)
           m == Len(gs)
           mine == Mine(bs, ps, fs[n], p, v)
           fresh == (Len(bs) + 1)..Len(ps)
<1>1. fs \in Seq(FrameType(c)) /\ n \in Nat \ {0} /\ \A k \in 1..n : fs[k] \in FrameType(c)
  BY WithoutTop DEF StackOK
<1>2. /\ \A k \in 1..n : Own(fs[k]) \subseteq 1..Len(bs)
        /\ fs[k].emits \in {"block", "if", "while", "for"}
      /\ \A k \in 1..(n - 1) : Called(fs[k])
  BY <1>1, OwnInRange DEF StackOK
<1>3. /\ m \in Nat /\ n - 1 <= m /\ \A k \in 1..(n - 1) : gs[k] = fs[k]
      /\ Len(ps) \in Nat /\ Len(bs) <= Len(ps)
      /\ \A b \in 1..Len(bs) : b \notin mine => ps[b] = bs[b]
      /\ q \in {p} \cup mine
      /\ w \in {v, Calling, Poison, Other} \cup {p} \cup mine
  BY DEF Becomes
<1>4. /\ \A k \in n..m : /\ FrameOK(c, ps, gs[k]) /\ Own(gs[k]) \subseteq mine
                         /\ q \notin Own(gs[k]) /\ w \notin Own(gs[k])
      /\ \A k \in n..(m - 1) : Link(c, gs[k], gs[k + 1])
      /\ \A j, k \in n..m : j # k => Own(gs[j]) \cap Own(gs[k]) = {}
      /\ 1 < n /\ n <= m => Link(c, fs[n - 1], gs[n])
      /\ \A b \in mine : Open(ps, b) => b = Cur(q, w) \/ \E k \in n..m : b \in Own(gs[k])
  BY DEF Becomes
<1>5. mine = {Cur(p, v)} \cup Own(fs[n]) \cup fresh
  BY DEF Mine
<1>6. /\ \A k \in 1..n : FrameOK(c, bs, fs[k])
      /\ \A k \in 1..(n - 1) : Link(c, fs[k], fs[k + 1])
      /\ \A k \in 1..n : p \notin Own(fs[k]) /\ v \notin Own(fs[k])
      /\ \A j, k \in 1..n : j # k => Own(fs[j]) \cap Own(fs[k]) = {}
      /\ \A b \in 1..Len(bs) : Open(bs, b) => b = Cur(p, v) \/ \E k \in 1..n : b \in Own(fs[k])
  BY DEF CallsOK, Apart, Accounted
<1>a. Cur(p, v) \in {p, v}
  BY DEF Cur
<1> HIDE DEF mine, n, m
<1>7. \A k \in 1..(n - 1) : Own(fs[k]) \cap mine = {}
  <2> SUFFICES ASSUME NEW k \in 1..(n - 1), NEW b \in Own(fs[k]), b \in mine PROVE FALSE
    OBVIOUS
  <2>1. k \in 1..n /\ n \in 1..n /\ k # n
    BY <1>1
  <2>2. b \notin Own(fs[n])
    BY <1>6, <2>1
  <2>3. b # p /\ b # v /\ b \in 1..Len(bs)
    BY <1>2, <1>6, <2>1
  <2>4. b \notin fresh
    BY <2>3
  <2> QED
    BY <1>5, <1>a, <2>2, <2>3, <2>4
<1>b. \A k \in 1..m : k \in 1..(n - 1) \/ k \in n..m
  BY <1>1, <1>3
<1>8. \A k \in 1..m : FrameOK(c, ps, gs[k])
  <2>a. \A k \in n..m : FrameOK(c, ps, gs[k])
    BY <1>4
  <2> SUFFICES ASSUME NEW k \in 1..(n - 1) PROVE FrameOK(c, ps, gs[k])
    BY <1>b, <2>a, Zenon
  <2>1. \A b \in Own(fs[k]) : ps[b] = bs[b]
    <3>1. k \in 1..n
      BY <1>1
    <3>2. Own(fs[k]) \subseteq 1..Len(bs) /\ Own(fs[k]) \cap mine = {}
      BY <1>2, <1>7, <3>1
    <3>3. \A b \in 1..Len(bs) : b \notin mine => ps[b] = bs[b]
      BY <1>3
    <3> QED
      BY <3>2, <3>3
  <2>2. FrameOK(c, bs, fs[k]) /\ Called(fs[k]) /\ fs[k].emits \in {"block", "if", "while", "for"}
    BY <1>1, <1>2, <1>6
  <2>3. FrameOK(c, ps, fs[k])
    BY <2>1, <2>2, FrameKept
  <2> QED
    BY <1>3, <2>3
<1>9. \A k \in 1..(m - 1) : Link(c, gs[k], gs[k + 1])
  <2> SUFFICES ASSUME NEW k \in 1..(m - 1) PROVE Link(c, gs[k], gs[k + 1])
    OBVIOUS
  <2>1. CASE k + 1 \in 1..(n - 1)
    BY <1>1, <1>3, <1>6, <2>1
  <2>2. CASE k + 1 = n
    <3>1. k \in 1..(n - 1) /\ k = n - 1 /\ 1 < n /\ n <= m
      BY <1>1, <1>3, <2>2
    <3> QED
      BY <1>3, <1>4, <2>2, <3>1
  <2>3. CASE k \in n..(m - 1)
    BY <1>4, <2>3
  <2>4. k + 1 \in 1..(n - 1) \/ k + 1 = n \/ k \in n..(m - 1)
    BY <1>1, <1>3
  <2> QED
    BY <2>1, <2>2, <2>3, <2>4
<1>10. \A k \in 1..m : q \notin Own(gs[k]) /\ w \notin Own(gs[k])
  <2>a. \A k \in n..m : q \notin Own(gs[k]) /\ w \notin Own(gs[k])
    BY <1>4
  <2> SUFFICES ASSUME NEW k \in 1..(n - 1) PROVE q \notin Own(gs[k]) /\ w \notin Own(gs[k])
    BY <1>b, <2>a, Zenon
  <2>1. gs[k] = fs[k] /\ p \notin Own(fs[k]) /\ v \notin Own(fs[k]) /\ Own(fs[k]) \cap mine = {}
    BY <1>1, <1>3, <1>6, <1>7
  <2>2. Calling \notin Own(fs[k]) /\ Poison \notin Own(fs[k]) /\ Other \notin Own(fs[k])
    <3>1. Own(fs[k]) \subseteq 1..Len(bs)
      BY <1>1, <1>2
    <3> QED
      BY <3>1 DEF Calling, Poison, Other
  <2>3. q = p \/ q \in mine
    BY <1>3
  <2>4. w = v \/ w = Calling \/ w = Poison \/ w = Other \/ w = p \/ w \in mine
    BY <1>3
  <2>5. q \notin Own(fs[k])
    BY <2>1, <2>3
  <2>6. w \notin Own(fs[k])
    BY <2>1, <2>2, <2>4
  <2> QED
    BY <2>1, <2>5, <2>6
<1>11. \A j, k \in 1..m : j # k => Own(gs[j]) \cap Own(gs[k]) = {}
  <2> SUFFICES ASSUME NEW j \in 1..m, NEW k \in 1..m, j # k PROVE Own(gs[j]) \cap Own(gs[k]) = {}
    OBVIOUS
  <2>1. CASE j \in 1..(n - 1) /\ k \in 1..(n - 1)
    <3>1. j \in 1..n /\ k \in 1..n /\ gs[j] = fs[j] /\ gs[k] = fs[k]
      BY <1>1, <1>3, <2>1
    <3> QED
      BY <1>6, <3>1
  <2>2. CASE j \in 1..(n - 1) /\ k \in n..m
    BY <1>3, <1>4, <1>7, <2>2
  <2>3. CASE j \in n..m /\ k \in 1..(n - 1)
    BY <1>3, <1>4, <1>7, <2>3
  <2>4. CASE j \in n..m /\ k \in n..m
    BY <1>4, <2>4
  <2> QED
    BY <1>b, <2>1, <2>2, <2>3, <2>4
<1>12. \A b \in 1..Len(ps) : Open(ps, b) => b = Cur(q, w) \/ \E k \in 1..m : b \in Own(gs[k])
  <2> SUFFICES ASSUME NEW b \in 1..Len(ps), Open(ps, b), b # Cur(q, w)
               PROVE \E k \in 1..m : b \in Own(gs[k])
    OBVIOUS
  <2>1. CASE b \in mine
    <3>1. PICK k \in n..m : b \in Own(gs[k])
      BY <1>4, <2>1
    <3>2. k \in 1..m
      BY <1>1
    <3> QED
      BY <3>1, <3>2
  <2>2. CASE b \notin mine
    <3>1. b \in 1..Len(bs)
      BY <1>3, <1>5, <2>2
    <3>2. Open(bs, b)
      BY <1>3, <2>2, <3>1, SameEnd
    <3>3. PICK k \in 1..n : b \in Own(fs[k])
      BY <1>5, <1>6, <2>2, <3>1, <3>2
    <3>4. k # n
      BY <1>5, <2>2, <3>3
    <3>5. k \in 1..(n - 1) /\ k \in 1..m /\ gs[k] = fs[k]
      BY <1>1, <1>3, <3>4
    <3> QED
      BY <3>3, <3>5
  <2> QED
    BY <2>1, <2>2
<1> QED
  BY <1>8, <1>9, <1>10, <1>11, <1>12 DEF CallsOK, Apart, Accounted, m

-----------------------------------------------------------------------------
(* What the emitters do to the blocks *)

\* Blocks that end with a terminator, and terminators within blocks, stay.
LEMMA GrowsTrans ==
    ASSUME NEW bs, NEW ps, NEW qs, Grows(bs, ps), Grows(ps, qs)
    PROVE  Grows(bs, qs)
<1>1. \A b \in 1..Len(bs) : b \in 1..Len(ps)
  BY DEF Grows
<1>2. Len(bs) <= Len(qs)
  BY DEF Grows
<1> QED
  BY <1>1, <1>2 DEF Grows

\* Appending an instruction leaves the terminators, ...
LEMMA PutGrows ==
    ASSUME NEW bs, BlocksOK(bs), NEW b, NEW in, NEW ps, PutIs(bs, b, in, ps)
    PROVE  Grows(bs, ps)
<1>1. Len(bs) \in Nat
  BY DEF BlocksOK
<1>2. ASSUME NEW a \in 1..Len(bs), Terminated(bs, a)
      PROVE  Terminated(ps, a) \/ ~Sound(ps)
  <2>1. CASE a = b
    BY <1>2, <2>1 DEF PutIs
  <2>2. CASE a # b
    BY <1>2, <2>2, SameEnd DEF PutIs
  <2> QED
    BY <2>1, <2>2
<1> QED
  BY <1>1, <1>2 DEF PutIs, Grows

\* ... so does create_safe_br, ...
LEMMA SafeBrGrows ==
    ASSUME NEW bs, BlocksOK(bs), NEW b, NEW ps, SafeBrIs(bs, b, ps)
    PROVE  Grows(bs, ps)
<1>1. Len(bs) \in Nat
  BY DEF BlocksOK
<1>2. ASSUME NEW a \in 1..Len(bs), Terminated(bs, a)
      PROVE  Terminated(ps, a)
  <2>1. CASE a = b
    BY <1>2, <2>1 DEF SafeBrIs
  <2>2. CASE a # b
    BY <1>2, <2>2, SameEnd DEF SafeBrIs
  <2> QED
    BY <2>1, <2>2
<1> QED
  BY <1>1, <1>2 DEF SafeBrIs, Grows

\* ... and creating blocks.
LEMMA CreateGrows ==
    ASSUME NEW bs, BlocksOK(bs), NEW n \in Nat, NEW ps, CreateIs(bs, n, ps)
    PROVE  Grows(bs, ps)
<1>1. Len(bs) \in Nat /\ Len(ps) \in Nat
  BY DEF CreateIs, BlocksOK
<1>2. \A a \in 1..Len(bs) : Terminated(bs, a) => Terminated(ps, a)
  BY SameEnd DEF CreateIs
<1> QED
  BY <1>1, <1>2 DEF CreateIs, Grows

\* What IfStmt::emit does to the blocks when the branches are emitted.
LEMMA JoinBlocks ==
    ASSUME NEW bs, BlocksOK(bs), NEW bb \in 1..Len(bs), NEW then \in 1..Len(bs),
           NEW other \in 0..Len(bs), NEW s \in Nat, NEW m \in 1..(Len(bs) + 1), m # then,
           NEW created, created = IF m \in 1..Len(bs) THEN bs ELSE Create(bs, 1),
           NEW no, no = IF other # 0 THEN other ELSE m,
           NEW tested, tested = Put(created, bb, CondBr(s, then, no)),
           NEW joined, joined = SafeBr(tested, then, m),
           NEW ps, ps = IF other # 0 THEN SafeBr(joined, other, m) ELSE joined
    PROVE  JoinIs(bs, bb, then, other, m, ps)
<1>1. Len(bs) \in Nat
  BY DEF BlocksOK
<1>2. /\ BlocksOK(created) /\ Grows(bs, created) /\ \A a \in 1..Len(bs) : created[a] = bs[a]
      /\ IF m \in 1..Len(bs) THEN Len(created) = Len(bs)
         ELSE m = Len(bs) + 1 /\ Len(created) = m /\ created[m] = <<>>
      /\ Sound(bs) => Sound(created)
  <2>1. CASE m \in 1..Len(bs)
    BY <1>1, <2>1 DEF Grows
  <2>2. CASE m \notin 1..Len(bs)
    <3>1. CreateIs(bs, 1, created)
      BY <2>2, CreateEnds
    <3>2. m = Len(bs) + 1
      BY <1>1, <2>2
    <3> QED
      BY <2>2, <3>1, <3>2, CreateGrows DEF CreateIs
  <2> QED
    BY <2>1, <2>2
<1>3. bb \in 1..Len(created) /\ then \in 1..Len(created) /\ no \in 1..Len(created)
        /\ m \in 1..Len(created)
      /\ (other # 0 => other \in 1..Len(created))
  BY <1>1, <1>2
<1>4. /\ PutIs(created, bb, CondBr(s, then, no), tested) /\ IsTerminator(CondBr(s, then, no))
      /\ Grows(created, tested)
  BY <1>2, <1>3, PutEach, PutGrows
<1>5. BlocksOK(tested) /\ Len(tested) = Len(created)
  BY <1>4 DEF PutIs
<1>6. SafeBrIs(tested, then, joined) /\ Grows(tested, joined)
  <2>1. then \in 1..Len(tested) /\ m \in 1..Len(tested)
    BY <1>3, <1>5
  <2> QED
    BY <1>5, <2>1, SafeBrEnds, SafeBrGrows
<1>7. BlocksOK(joined) /\ Len(joined) = Len(created)
  BY <1>5, <1>6 DEF SafeBrIs
<1>8. ps = joined \/ (other # 0 /\ SafeBrIs(joined, other, ps))
  <2>1. CASE other = 0
    BY <2>1
  <2>2. CASE other # 0
    <3>1. m \in 1..Len(joined) /\ other \in 1..Len(joined) /\ ps = SafeBr(joined, other, m)
      BY <1>3, <1>7, <2>2
    <3>2. SafeBrIs(joined, other, SafeBr(joined, other, m))
      BY <1>7, <3>1, SafeBrEnds, Zenon
    <3>3. SafeBrIs(joined, other, ps)
      BY <3>1, <3>2, Zenon
    <3> QED
      BY <2>2, <3>3, Zenon
  <2> QED
    BY <2>1, <2>2
<1>9. Grows(joined, ps) /\ Len(ps) = Len(created)
  <2>1. CASE ps = joined
    <3>1. Len(joined) \in Nat
      BY <1>7 DEF BlocksOK
    <3>2. Grows(joined, joined)
      BY <1>7, <3>1 DEF Grows
    <3> QED
      BY <1>7, <2>1, <3>2
  <2>2. CASE SafeBrIs(joined, other, ps)
    BY <1>7, <2>2, SafeBrGrows DEF SafeBrIs
  <2> QED
    BY <1>8, <2>1, <2>2
<1>10. Grows(bs, ps)
  BY <1>2, <1>4, <1>6, <1>9, GrowsTrans
<1>11. \A a \in 1..Len(created) : a \notin {bb, then, other} => ps[a] = created[a]
  BY <1>4, <1>5, <1>6, <1>7, <1>8 DEF PutIs, SafeBrIs
<1>12. Terminated(joined, bb) /\ Terminated(joined, then)
  <2>1. Terminated(tested, bb)
    BY <1>4 DEF PutIs
  <2>2. CASE bb = then
    BY <1>6, <2>2 DEF SafeBrIs
  <2>3. CASE bb # then
    BY <1>3, <1>5, <1>6, <2>1, <2>3, SameEnd DEF SafeBrIs
  <2> QED
    BY <1>6, <2>2, <2>3 DEF SafeBrIs
<1>13. Terminated(ps, bb) /\ Terminated(ps, then)
  <2>1. CASE ps = joined
    BY <1>12, <2>1
  <2>2. CASE other # 0 /\ SafeBrIs(joined, other, ps)
    <3>1. ASSUME NEW a \in {bb, then} PROVE Terminated(ps, a)
      <4>1. CASE a = other
        BY <2>2, <4>1 DEF SafeBrIs
      <4>2. CASE a # other
        BY <1>3, <1>7, <1>12, <2>2, <4>2, SameEnd DEF SafeBrIs
      <4> QED
        BY <4>1, <4>2
    <3> QED
      BY <3>1
  <2> QED
    BY <1>8, <2>1, <2>2
<1>14. other # 0 => Terminated(ps, other)
  <2>1. ASSUME other # 0 PROVE SafeBrIs(joined, other, ps)
    <3>1. m \in 1..Len(joined) /\ other \in 1..Len(joined)
      BY <1>3, <1>7, <2>1
    <3> QED
      BY <1>7, <2>1, <3>1, SafeBrEnds
  <2> QED
    BY <2>1 DEF SafeBrIs
<1>15. Sound(joined) => Sound(ps)
  BY <1>8 DEF SafeBrIs
<1>16. ASSUME Sound(bs), Open(bs, bb)
       PROVE  Sound(ps)
  <2>1. Sound(created) /\ Open(created, bb)
    BY <1>2, <1>16, SameEnd
  <2>2. Sound(tested)
    BY <1>4, <2>1 DEF PutIs
  <2> QED
    BY <1>6, <1>15, <2>2 DEF SafeBrIs
<1>17. ASSUME Terminated(bs, bb)
       PROVE  ~Sound(ps)
  <2>1. Terminated(created, bb)
    BY <1>2, <1>17, SameEnd
  <2>2. ~Sound(tested)
    BY <1>4, <2>1 DEF PutIs
  <2> QED
    BY <1>6, <1>9, <2>2 DEF Grows
<1>18. \A a \in 1..Len(bs) : a \notin {bb, then, other} => ps[a] = bs[a]
  BY <1>1, <1>2, <1>11
<1>19. IF m \in 1..Len(bs) THEN Len(ps) = Len(bs) ELSE m = Len(bs) + 1 /\ Len(ps) = m /\ ps[m] = <<>>
  <2>1. CASE m \in 1..Len(bs)
    BY <1>2, <1>9, <2>1
  <2>2. CASE m \notin 1..Len(bs)
    <3>1. m \in 1..Len(created) /\ m \notin {bb, then, other}
      BY <1>1, <1>3, <2>2
    <3>2. ps[m] = created[m]
      BY <1>11, <3>1
    <3> QED
      BY <1>2, <1>9, <2>2, <3>2
  <2> QED
    BY <2>1, <2>2
<1>20. ASSUME other # 0, Terminated(bs, other), other \notin {bb, then}
       PROVE  ps[other] = bs[other]
  <2>1. other \in 1..Len(bs) /\ other \in 1..Len(created)
    BY <1>1, <1>3, <1>20
  <2>2. created[other] = bs[other] /\ tested[other] = created[other] /\ joined[other] = tested[other]
    BY <1>2, <1>4, <1>5, <1>6, <1>20, <2>1 DEF PutIs, SafeBrIs
  <2>3. Terminated(joined, other)
    BY <1>20, <2>2, SameEnd
  <2>4. ps = joined
    BY <1>8, <2>3 DEF SafeBrIs
  <2> QED
    BY <2>2, <2>4
<1> QED
  BY <1>10, <1>13, <1>14, <1>16, <1>17, <1>18, <1>19, <1>20 DEF JoinIs

\* What a loop does to the blocks, when `begun' is Create(bs, n) with other instructions at
\* the end of block p.
LEMMA LoopBlocks ==
    ASSUME NEW bs, BlocksOK(bs), NEW p \in 1..Len(bs), NEW s \in Nat, NEW n \in Nat, n >= 3,
           NEW merge \in 1..(Len(bs) + n),
           NEW begun, NEW created, CreateIs(bs, n, created),
           NEW in, ~IsTerminator(in), begun = created \/ PutIs(created, p, in, begun),
           NEW entered, entered = Put(begun, p, Br(Len(bs) + 1)),
           NEW ps, ps = Put(entered, Len(bs) + 1, CondBr(s, Len(bs) + 2, merge))
    PROVE  LoopIs(bs, p, n, ps)
<1>1. /\ BlocksOK(created) /\ Len(created) = Len(bs) + n /\ Len(bs) \in Nat
      /\ \A a \in 1..Len(bs) : created[a] = bs[a]
      /\ \A a \in (Len(bs) + 1)..(Len(bs) + n) : created[a] = <<>> /\ Open(created, a)
      /\ Sound(bs) => Sound(created)
      /\ Grows(bs, created)
  BY CreateGrows DEF CreateIs
<1> DEFINE first == Len(bs) + 1
<1>2. first \in 1..Len(created) /\ Len(bs) + 2 \in 1..Len(created) /\ merge \in 1..Len(created)
      /\ p \in 1..Len(created) /\ p # first
  BY <1>1
<1>3. /\ BlocksOK(begun) /\ Len(begun) = Len(created) /\ Grows(created, begun)
      /\ \A a \in 1..Len(created) : a # p => begun[a] = created[a]
      /\ Open(begun, p) <=> Open(created, p)
                            \/ begun # created
      /\ Sound(created) /\ Open(created, p) => Sound(begun)
      /\ Terminated(begun, p) \/ ~Sound(begun) \/ Open(created, p)
  <2>1. CASE begun = created
    BY <1>1, <2>1 DEF Grows, BlocksOK, Open
  <2>2. CASE begun # created
    <3>1. PutIs(created, p, in, begun) /\ Grows(created, begun)
      BY <1>1, <2>2, PutGrows
    <3> QED
      BY <2>2, <3>1 DEF PutIs, Open
  <2> QED
    BY <2>1, <2>2
<1> HIDE DEF first
<1>4. /\ PutIs(begun, p, Br(first), entered) /\ Grows(begun, entered) /\ IsTerminator(Br(first))
  <2>1. p \in 1..Len(begun) /\ first \in 1..Len(begun) /\ entered = Put(begun, p, Br(first))
    BY <1>2, <1>3 DEF first
  <2> QED
    BY <1>3, <2>1, PutEach, PutGrows
<1>5. BlocksOK(entered) /\ Len(entered) = Len(created)
  BY <1>3, <1>4 DEF PutIs
<1>6. /\ PutIs(entered, first, CondBr(s, Len(bs) + 2, merge), ps) /\ Grows(entered, ps)
      /\ IsTerminator(CondBr(s, Len(bs) + 2, merge))
  <2>1. first \in 1..Len(entered) /\ Len(bs) + 2 \in 1..Len(entered) /\ merge \in 1..Len(entered)
        /\ ps = Put(entered, first, CondBr(s, Len(bs) + 2, merge))
    BY <1>2, <1>5 DEF first
  <2> QED
    BY <1>5, <2>1, PutEach, PutGrows
<1>7. Len(ps) = Len(bs) + n
  BY <1>1, <1>5, <1>6 DEF PutIs
<1>8. Grows(bs, ps)
  BY <1>1, <1>3, <1>4, <1>6, GrowsTrans
<1>9. \A a \in 1..Len(created) : a # p /\ a # first => ps[a] = created[a]
  BY <1>3, <1>4, <1>5, <1>6 DEF PutIs
<1>10. Terminated(ps, p) /\ Terminated(ps, first)
  <2>1. Terminated(entered, p) /\ ps[p] = entered[p]
    BY <1>2, <1>4, <1>5, <1>6 DEF PutIs
  <2> QED
    BY <1>6, <2>1, SameEnd DEF PutIs
<1>11. ASSUME Sound(bs), Open(bs, p)
       PROVE  Sound(ps)
  <2>1. Sound(created) /\ Open(created, p)
    BY <1>1, <1>11, SameEnd
  <2>2. Sound(begun) /\ Open(begun, p)
    BY <1>3, <2>1
  <2>3. Sound(entered)
    BY <1>4, <2>2 DEF PutIs
  <2>4. Open(entered, first)
    <3>1. entered[first] = created[first] /\ Open(created, first)
      BY <1>1, <1>2, <1>3, <1>4 DEF PutIs, first
    <3> QED
      BY <3>1, SameEnd
  <2> QED
    BY <1>6, <2>3, <2>4 DEF PutIs
<1>12. ASSUME Terminated(bs, p)
       PROVE  ~Sound(ps)
  <2>1. ~Open(created, p)
    BY <1>1, <1>12, SameEnd DEF Open
  <2>2. Terminated(begun, p) \/ ~Sound(begun)
    BY <1>3, <2>1
  <2>3. ~Sound(entered)
    BY <1>4, <2>2 DEF PutIs
  <2> QED
    BY <1>6, <2>3 DEF PutIs
<1>13. \A a \in (Len(bs) + 2)..Len(ps) : ps[a] = <<>>
  <2> SUFFICES ASSUME NEW a \in (Len(bs) + 2)..Len(ps) PROVE ps[a] = <<>>
    OBVIOUS
  <2>1. a \in (Len(bs) + 1)..(Len(bs) + n) /\ a \in 1..Len(created) /\ a # p /\ a # first
    BY <1>1, <1>7 DEF first
  <2> QED
    BY <1>1, <1>9, <2>1
<1>14. \A a \in 1..Len(bs) : a # p => ps[a] = bs[a]
  <2> SUFFICES ASSUME NEW a \in 1..Len(bs), a # p PROVE ps[a] = bs[a]
    OBVIOUS
  <2>1. a \in 1..Len(created) /\ a # first
    BY <1>1 DEF first
  <2> QED
    BY <1>1, <1>9, <2>1
<1> QED
  BY <1>7, <1>8, <1>10, <1>11, <1>12, <1>13, <1>14 DEF LoopIs, first

-----------------------------------------------------------------------------
(* The calls after a step *)

\* A new call fits the blocks.
Fresh(c, ps, mine, q, w, f) ==
    FrameOK(c, ps, f) /\ Own(f) \subseteq mine /\ q \notin Own(f) /\ w \notin Own(f)

\* Only the blocks `mine' change, and the insertion point and the value stay there.
Around(bs, ps, mine, p, v, q, w) ==
    /\ Len(ps) \in Nat /\ Len(bs) <= Len(ps)
    /\ \A b \in 1..Len(bs) : b \notin mine => ps[b] = bs[b]
    /\ q \in {p} \cup mine
    /\ w \in {v, Calling, Poison, Other} \cup {p} \cup mine

\* The calls stay as they should when the topmost returns, ...
LEMMA AfterPop ==
    ASSUME NEW c, NEW bs, NEW fs, NEW p, NEW v, NEW ps, NEW gs, NEW q, NEW w,
           Len(bs) \in Nat, StackOK(c, fs, Len(bs)), fs # <<>>, CallsOK(c, bs, fs, p, v),
           NEW mine, mine = Mine(bs, ps, fs[Len(fs)], p, v),
           Around(bs, ps, mine, p, v, q, w),
           gs = SubSeq(fs, 1, Len(fs) - 1),
           \A b \in mine : Open(ps, b) => b = Cur(q, w)
    PROVE  CallsOK(c, ps, gs, q, w)
<1> DEFINE n == Len(fs)
<1>1. fs \in Seq(FrameType(c))
  BY DEF StackOK
<1>2. n \in Nat \ {0} /\ Len(gs) = n - 1 /\ \A k \in 1..(n - 1) : gs[k] = fs[k]
  BY <1>1, WithoutTop
<1> HIDE DEF n
<1>3. n..Len(gs) = {} /\ n..(Len(gs) - 1) = {} /\ ~(n <= Len(gs)) /\ n - 1 <= Len(gs) /\ Len(gs) \in Nat
  BY <1>2
<1>4. Len(ps) \in Nat /\ Len(bs) <= Len(ps)
      /\ (\A b \in 1..Len(bs) : b \notin mine => ps[b] = bs[b])
      /\ q \in {p} \cup mine
      /\ w \in {v, Calling, Poison, Other} \cup {p} \cup mine
  BY DEF Around
<1> DEFINE m == Len(gs)
<1> HIDE DEF m
<1>5. /\ n..m = {} /\ n..(m - 1) = {} /\ ~(n <= m) /\ n - 1 <= m /\ m \in Nat
      /\ \A k \in 1..(n - 1) : gs[k] = fs[k]
  BY <1>2, <1>3 DEF m
<1>6. Becomes(c, bs, fs, p, v, ps, gs, q, w)
  BY <1>4, <1>5 DEF Becomes, n, m
<1> QED
  BY <1>6, StackChanges

\* ... when it goes on as f, ...
LEMMA AfterOne ==
    ASSUME NEW c, NEW bs, NEW fs, NEW p, NEW v, NEW ps, NEW gs, NEW q, NEW w,
           Len(bs) \in Nat, StackOK(c, fs, Len(bs)), fs # <<>>, CallsOK(c, bs, fs, p, v),
           NEW mine, mine = Mine(bs, ps, fs[Len(fs)], p, v),
           Around(bs, ps, mine, p, v, q, w),
           NEW f, BecameOne(FrameType(c), fs, f, gs),
           Fresh(c, ps, mine, q, w, f),
           Len(fs) > 1 => Link(c, fs[Len(fs) - 1], f),
           \A b \in mine : Open(ps, b) => b = Cur(q, w) \/ b \in Own(f)
    PROVE  CallsOK(c, ps, gs, q, w)
<1> DEFINE n == Len(fs)
<1>1. n \in Nat \ {0} /\ Len(gs) = n /\ gs[n] = f /\ \A k \in 1..(n - 1) : gs[k] = fs[k]
  BY DEF BecameOne
<1> HIDE DEF n
<1>2. n..n = {n} /\ n..(n - 1) = {} /\ n - 1 <= n /\ n \in Nat
  BY <1>1
<1>3. \A k \in n..n : gs[k] = f
  BY <1>1, <1>2
<1>4. Len(ps) \in Nat /\ Len(bs) <= Len(ps)
      /\ (\A b \in 1..Len(bs) : b \notin mine => ps[b] = bs[b])
      /\ q \in {p} \cup mine
      /\ w \in {v, Calling, Poison, Other} \cup {p} \cup mine
  BY DEF Around
<1>5. \A k \in n..n : /\ FrameOK(c, ps, gs[k]) /\ Own(gs[k]) \subseteq mine
                      /\ q \notin Own(gs[k]) /\ w \notin Own(gs[k])
  BY <1>3 DEF Fresh
<1>6. 1 < n => Link(c, fs[n - 1], gs[n])
  BY <1>1 DEF n
<1>7. \A b \in mine : Open(ps, b) => b = Cur(q, w) \/ \E k \in n..n : b \in Own(gs[k])
  BY <1>2, <1>3
<1>8. Becomes(c, bs, fs, p, v, ps, gs, q, w)
  BY <1>1, <1>2, <1>4, <1>5, <1>6, <1>7 DEF Becomes, n
<1> QED
  BY <1>8, StackChanges, Zenon

\* ... when it makes the call g, ...
LEMMA AfterTwo ==
    ASSUME NEW c, NEW bs, NEW fs, NEW p, NEW v, NEW ps, NEW gs, NEW q, NEW w,
           Len(bs) \in Nat, StackOK(c, fs, Len(bs)), fs # <<>>, CallsOK(c, bs, fs, p, v),
           NEW mine, mine = Mine(bs, ps, fs[Len(fs)], p, v),
           Around(bs, ps, mine, p, v, q, w),
           NEW f, NEW g, BecameTwo(FrameType(c), fs, f, g, gs),
           Fresh(c, ps, mine, q, w, f), Fresh(c, ps, mine, q, w, g), Own(f) \cap Own(g) = {},
           Len(fs) > 1 => Link(c, fs[Len(fs) - 1], f), Link(c, f, g),
           \A b \in mine : Open(ps, b) => b = Cur(q, w) \/ b \in Own(f) \cup Own(g)
    PROVE  CallsOK(c, ps, gs, q, w)
<1> DEFINE n == Len(fs)
           m == Len(gs)
<1>1. n \in Nat \ {0} /\ m = n + 1 /\ gs[n] = f /\ gs[n + 1] = g /\ \A k \in 1..(n - 1) : gs[k] = fs[k]
  BY DEF BecameTwo
<1> HIDE DEF n, m
<1>2. n..m = {n, n + 1} /\ n..(m - 1) = {n} /\ n - 1 <= m /\ m \in Nat /\ n <= m /\ n # n + 1
  BY <1>1
<1>3. \A k \in n..m : (k = n /\ gs[k] = f) \/ (k = n + 1 /\ gs[k] = g)
  BY <1>1, <1>2
<1>4. Len(ps) \in Nat /\ Len(bs) <= Len(ps)
      /\ (\A b \in 1..Len(bs) : b \notin mine => ps[b] = bs[b])
      /\ q \in {p} \cup mine
      /\ w \in {v, Calling, Poison, Other} \cup {p} \cup mine
  BY DEF Around
<1>5. \A k \in n..m : /\ FrameOK(c, ps, gs[k]) /\ Own(gs[k]) \subseteq mine
                      /\ q \notin Own(gs[k]) /\ w \notin Own(gs[k])
  BY <1>3 DEF Fresh
<1>6. 1 < n => Link(c, fs[n - 1], gs[n])
  BY <1>1 DEF n
<1>7. \A b \in mine : Open(ps, b) => b = Cur(q, w) \/ \E k \in n..m : b \in Own(gs[k])
  <2>1. n \in n..m /\ n + 1 \in n..m
    BY <1>2
  <2> QED
    BY <1>1, <2>1
<1>8. \A k \in n..(m - 1) : Link(c, gs[k], gs[k + 1])
  BY <1>1, <1>2
<1>9. \A j, k \in n..m : j # k => Own(gs[j]) \cap Own(gs[k]) = {}
  <2>1. Own(f) \cap Own(g) = {} /\ Own(g) \cap Own(f) = {}
    OBVIOUS
  <2> QED
    BY <1>3, <2>1
<1>10. Becomes(c, bs, fs, p, v, ps, gs, q, w)
  BY <1>1, <1>2, <1>4, <1>5, <1>6, <1>7, <1>8, <1>9 DEF Becomes, n, m
<1> QED
  BY <1>10, StackChanges, Zenon

\* ... and when g makes the call h as well.
LEMMA AfterThree ==
    ASSUME NEW c, NEW bs, NEW fs, NEW p, NEW v, NEW ps, NEW gs, NEW q, NEW w,
           Len(bs) \in Nat, StackOK(c, fs, Len(bs)), fs # <<>>, CallsOK(c, bs, fs, p, v),
           NEW mine, mine = Mine(bs, ps, fs[Len(fs)], p, v),
           Around(bs, ps, mine, p, v, q, w),
           NEW f, NEW g, NEW h, BecameThree(FrameType(c), fs, f, g, h, gs),
           Fresh(c, ps, mine, q, w, f), Fresh(c, ps, mine, q, w, g), Fresh(c, ps, mine, q, w, h),
           Own(f) = {}, Own(h) = {},
           Len(fs) > 1 => Link(c, fs[Len(fs) - 1], f), Link(c, f, g), Link(c, g, h),
           \A b \in mine : Open(ps, b) => b = Cur(q, w) \/ b \in Own(g)
    PROVE  CallsOK(c, ps, gs, q, w)
<1> DEFINE n == Len(fs)
           m == Len(gs)
<1>1. n \in Nat \ {0} /\ m = n + 2 /\ gs[n] = f /\ gs[n + 1] = g /\ gs[n + 2] = h
      /\ \A k \in 1..(n - 1) : gs[k] = fs[k]
  BY DEF BecameThree
<1> HIDE DEF n, m
<1>2. n..m = {n, n + 1, n + 2} /\ n..(m - 1) = {n, n + 1} /\ n - 1 <= m /\ m \in Nat /\ n <= m
      /\ n + 1 + 1 = n + 2
  BY <1>1
<1>3. \A k \in n..m : (k = n /\ gs[k] = f) \/ (k = n + 1 /\ gs[k] = g) \/ (k = n + 2 /\ gs[k] = h)
  BY <1>1, <1>2
<1>4. Len(ps) \in Nat /\ Len(bs) <= Len(ps)
      /\ (\A b \in 1..Len(bs) : b \notin mine => ps[b] = bs[b])
      /\ q \in {p} \cup mine
      /\ w \in {v, Calling, Poison, Other} \cup {p} \cup mine
  BY DEF Around
<1>5. \A k \in n..m : /\ FrameOK(c, ps, gs[k]) /\ Own(gs[k]) \subseteq mine
                      /\ q \notin Own(gs[k]) /\ w \notin Own(gs[k])
  BY <1>3 DEF Fresh
<1>6. 1 < n => Link(c, fs[n - 1], gs[n])
  BY <1>1 DEF n
<1>7. \A b \in mine : Open(ps, b) => b = Cur(q, w) \/ \E k \in n..m : b \in Own(gs[k])
  <2>1. n + 1 \in n..m
    BY <1>2
  <2> QED
    BY <1>1, <2>1
<1>8. \A k \in n..(m - 1) : Link(c, gs[k], gs[k + 1])
  BY <1>1, <1>2
<1>9. \A j, k \in n..m : j # k => Own(gs[j]) \cap Own(gs[k]) = {}
  BY <1>3
<1>10. Becomes(c, bs, fs, p, v, ps, gs, q, w)
  BY <1>1, <1>2, <1>4, <1>5, <1>6, <1>7, <1>8, <1>9 DEF Becomes, n, m
<1> QED
  BY <1>10, StackChanges, Zenon

-----------------------------------------------------------------------------
(* The call that goes on when the one above it returns *)

\* A basic block is none of the other values.
LEMMA ValueSigns ==
    ASSUME NEW v \in Nat \ {0}
    PROVE  v # Calling /\ v # Poison /\ v # Other /\ v > 0
BY DEF Calling, Poison, Other

\* What the caller of a block may assume when the block returns; ...
LEMMA ParentOfBlock ==
    ASSUME NEW c, CodeOK(c), PlainIfs(c), NEW f \in FrameType(c), NEW g \in FrameType(c),
           Called(f), Link(c, f, g), g.emits = "block",
           NEW live, NEW up,
           live <=> NothingBehindJumps(c) \/ f.emits = "if",
           f.emits = "block" /\ up => NothingBehindJumps(c) \/ Flat(c, f.nodes),
           NEW bs, NEW p, p = g.bb, p \in Nat \ {0},
           \/ g.nodes = <<>> /\ (live => Open(bs, p))
           \/ /\ g.nodes # <<>> /\ Terminated(bs, p)
              /\ \/ Ends(c, Head(g.nodes))
                 \/ ~NothingBehindJumps(c) /\ c[Head(g.nodes)].kind = "compif"
    PROVE  TopOK(c, bs, p, f, p, up)
<1>0. /\ p # Calling /\ p # Poison /\ p # Other /\ p > 0
      /\ f.emits \in {"block", "if", "while", "for"}
      /\ f.nodes \in Seq(1..Len(c)) /\ g.nodes \in Seq(1..Len(c))
  BY ValueSigns DEF FrameType
<1>1. CASE f.emits = "block"
  <2>1. f.nodes # <<>> /\ c[Head(f.nodes)].kind = "compif" /\ (NothingBehindJumps(c) => ~Cut(c, g.nodes))
    BY <1>1 DEF Called, Link, Loops
  <2>2. ~Ends(c, Head(f.nodes)) /\ c[Head(f.nodes)].kind # "do"
    BY <2>1 DEF Ends, Jumps
  <2>3. up => NothingBehindJumps(c)
    <3>1. ~Flat(c, f.nodes)
      BY <1>0, <2>1, HeadShape DEF Jumps
    <3> QED
      BY <1>1, <3>1
  <2>4. up => Open(bs, p)
    <3> SUFFICES ASSUME up PROVE Open(bs, p)
      OBVIOUS
    <3>1. NothingBehindJumps(c)
      BY <2>3
    <3>2. g.nodes # <<>> => ~Ends(c, Head(g.nodes))
      BY <1>0, <2>1, <3>1, HeadShape
    <3> QED
      BY <3>1, <3>2
  <2>5. Passed(c, bs, p, f, p, up)
    BY <1>0, <2>2, <2>4 DEF Passed
  <2> QED
    BY <1>0, <1>1, <2>2, <2>5 DEF TopOK, BlockWaits, Loops
<1>2. CASE f.emits = "if" /\ f.other = 0
  <2>1. g.bb = f.then /\ Flat(c, g.nodes) /\ (Jumping(c, g.nodes) <=> Jumping(c, c[f.stmt].then))
    BY <1>2 DEF Link
  <2>2. CASE g.nodes = <<>>
    <3>1. ~Jumping(c, g.nodes) /\ Open(bs, p)
      BY <1>2, <2>2, EmptyShape
    <3>2. ThenEmitted(c, bs, p, f, p)
      BY <2>1, <3>1 DEF ThenEmitted, Open
    <3> QED
      BY <1>0, <1>2, <3>2 DEF TopOK, Loops
  <2>3. CASE g.nodes # <<>>
    <3>1. c[Head(g.nodes)].kind \in {"do"} \cup Jumps
            /\ (Jumping(c, g.nodes) <=> c[Head(g.nodes)].kind \in Jumps \/ Jumping(c, Tail(g.nodes)))
      BY <1>0, <2>1, <2>3, HeadShape
    <3>2. c[Head(g.nodes)].kind \in Jumps /\ Terminated(bs, p)
      BY <2>3, <3>1 DEF Ends, Jumps
    <3>3. ThenEmitted(c, bs, p, f, p)
      BY <2>1, <3>1, <3>2 DEF ThenEmitted
    <3> QED
      BY <1>0, <1>2, <3>3 DEF TopOK, Loops
  <2> QED
    BY <2>2, <2>3
<1>3. CASE f.emits = "if" /\ f.other # 0
  <2>1. g.bb = f.other /\ Jumping(c, g.nodes) /\ AllJump(c, f.stmt)
    BY <1>3 DEF Link
  <2>2. g.nodes # <<>>
    BY <2>1, EmptyShape
  <2>3. ElseEmitted(c, bs, p, f, p)
    BY <2>1, <2>2 DEF ElseEmitted
  <2> QED
    BY <1>0, <1>3, <2>3 DEF TopOK, Loops
<1>4. CASE f.emits \in Loops
  <2>1. f.emits = "for" => (NothingBehindJumps(c) => ~Cut(c, g.nodes))
    BY <1>4 DEF Link, Loops
  <2>2. f.emits = "for" /\ NothingBehindJumps(c) => Open(bs, p)
    <3> SUFFICES ASSUME f.emits = "for", NothingBehindJumps(c) PROVE Open(bs, p)
      OBVIOUS
    <3>1. g.nodes # <<>> => ~Ends(c, Head(g.nodes))
      BY <1>0, <2>1, HeadShape
    <3> QED
      BY <3>1
  <2>3. BodyEmitted(c, bs, p, f, p)
    BY <2>2 DEF BodyEmitted
  <2> QED
    BY <1>0, <1>4, <2>3 DEF TopOK, Loops
<1> QED
  BY <1>0, <1>1, <1>2, <1>3, <1>4 DEF Loops

\* ... when an if returns; ...
LEMMA ParentOfIf ==
    ASSUME NEW c, CodeOK(c), NEW f \in FrameType(c), NEW g \in FrameType(c),
           Called(f), Link(c, f, g), g.emits = "if", NEW up,
           NEW bs, NEW p, NEW v, p \in Nat \ {0}, Terminated(bs, g.bb),
           \/ v = p /\ Open(bs, p) /\ ~AllJump(c, g.stmt)
           \/ v = Poison /\ p = g.bb /\ AllJump(c, g.stmt)
    PROVE  TopOK(c, bs, p, f, v, up)
<1>0. /\ p # Calling /\ p # Poison /\ p # Other /\ p > 0 /\ Poison # Calling /\ Poison # Other
      /\ ~(Poison > 0)
      /\ f.emits \in {"block", "if", "while", "for"}
      /\ f.nodes \in Seq(1..Len(c)) /\ g.nodes \in Seq(1..Len(c))
  BY ValueSigns DEF FrameType, Calling, Poison, Other
<1>1. CASE f.emits = "block"
  <2>0. f.nodes # <<>> /\ c[Head(f.nodes)].kind \in {"if", "compif"}
    BY <1>1 DEF Called, Link, Loops
  <2>1. CASE c[Head(f.nodes)].kind = "if"
    <3>1. g.stmt = Head(f.nodes) /\ g.bb = f.bb
      BY <1>1, <2>1 DEF Link
    <3>2. Ends(c, Head(f.nodes)) <=> AllJump(c, g.stmt)
      BY <2>1, <3>1 DEF Ends, Jumps
    <3>3. BlockWaits(c, bs, p, f, v, up)
      BY <1>0, <2>1, <3>1, <3>2 DEF BlockWaits, Jumped, Passed
    <3> QED
      BY <1>0, <1>1, <3>3 DEF TopOK, Loops
  <2>2. CASE c[Head(f.nodes)].kind = "compif"
    <3>1. g.bb = f.bb /\ (NothingBehindJumps(c) => ~AllJump(c, g.stmt))
      BY <1>1, <2>2 DEF Link
    <3>2. ~Ends(c, Head(f.nodes))
      BY <2>2 DEF Ends, Jumps
    <3>3. BlockWaits(c, bs, p, f, v, up)
      BY <1>0, <2>2, <3>1, <3>2 DEF BlockWaits, Passed
    <3> QED
      BY <1>0, <1>1, <3>3 DEF TopOK, Loops
  <2> QED
    BY <2>0, <2>1, <2>2
<1>2. CASE f.emits = "if"
  <2>1. f.other # 0 /\ g.bb = f.other /\ (AllJump(c, g.stmt) <=> AllJump(c, f.stmt))
    BY <1>2 DEF Link
  <2>2. ElseEmitted(c, bs, p, f, v)
    BY <2>1 DEF ElseEmitted
  <2> QED
    BY <1>0, <1>2, <2>1, <2>2 DEF TopOK, Loops
<1> QED
  BY <1>0, <1>1, <1>2 DEF Link, Loops

\* ... when a loop returns.
LEMMA ParentOfLoop ==
    ASSUME NEW c, CodeOK(c), NEW f \in FrameType(c), NEW g \in FrameType(c),
           Called(f), Link(c, f, g), g.emits \in Loops, NEW up,
           NEW bs, NEW p, NEW v, v \in Nat \ {0}, Open(bs, v), p = v \/ Terminated(bs, p)
    PROVE  TopOK(c, bs, p, f, v, up)
<1>0. /\ v # Calling /\ v # Poison /\ v # Other /\ v > 0
      /\ f.emits \in {"block", "if", "while", "for"}
  BY ValueSigns DEF FrameType
<1>1. f.emits = "block" /\ c[Head(f.nodes)].kind \in Loops
  BY <1>0 DEF Link, Loops
<1>2. ~Ends(c, Head(f.nodes)) /\ c[Head(f.nodes)].kind # "do"
  BY <1>1 DEF Ends, Jumps, Loops
<1>3. BlockWaits(c, bs, p, f, v, up)
  BY <1>0, <1>2 DEF BlockWaits, Passed
<1> QED
  BY <1>0, <1>1, <1>3 DEF TopOK, Loops

-----------------------------------------------------------------------------
(* Steps *)

\* Abbreviations for a step.
GoodNow == Good(code, Excused, blocks, ip, frames, value)
FineNext == Fine(code, Excused, blocks', ip', frames', value')
MineNow == Mine(blocks, blocks', Top, ip, value)

\* A number that is not 0 is 1 or more than that.
LEMMA OneOrMore ==
    ASSUME NEW n \in Nat \ {0}
    PROVE  n > 1 \/ n = 1
OBVIOUS

\* What holds of the call on top and of the one below it.
LEMMA TopNow ==
    ASSUME Ready, GoodNow, frames # <<>>
    PROVE  /\ Sound(blocks) /\ BlocksOK(blocks) /\ Len(blocks) \in Nat /\ ip \in 1..Len(blocks)
           /\ CallsOK(code, blocks, frames, ip, value)
           /\ StackOK(code, frames, Len(blocks)) /\ frames \in Seq(FrameType(code))
           /\ Len(frames) \in Nat \ {0} /\ Top = frames[Len(frames)]
           /\ Len(frames) > 1 \/ Len(frames) = 1
           /\ FrameOK(code, blocks, Top)
           /\ TopOK(code, blocks, ip, Top, value, Live(code, frames))
           /\ ip \notin Own(Top) /\ value \notin Own(Top)
           /\ frames[1].emits = "block"
           /\ (NothingBehindJumps(code) => Excused \/ Cut(code, frames[1].nodes))
<1>1. Sound(blocks) /\ CallsOK(code, blocks, frames, ip, value)
      /\ TopOK(code, blocks, ip, Top, value, Live(code, frames))
      /\ frames[1].emits = "block" /\ (NothingBehindJumps(code) => Excused \/ Cut(code, frames[1].nodes))
  BY DEF GoodNow, Good, First, Top
<1>2. BlocksOK(blocks) /\ Len(blocks) \in Nat /\ ip \in 1..Len(blocks)
      /\ StackOK(code, frames, Len(blocks)) /\ frames \in Seq(FrameType(code))
  BY DEF Ready, Typed, BlocksOK, StackOK
<1>3. Len(frames) \in Nat \ {0} /\ Len(frames) \in 1..Len(frames)
  BY <1>2
<1>5. Len(frames) > 1 \/ Len(frames) = 1
  BY <1>3, OneOrMore
<1>4. FrameOK(code, blocks, Top) /\ ip \notin Own(Top) /\ value \notin Own(Top)
  BY <1>1, <1>3 DEF CallsOK, Apart, Top
<1> QED
  BY <1>1, <1>2, <1>3, <1>4, <1>5 DEF Top

\* What holds of the call below the one on top.
LEMMA BelowNow ==
    ASSUME Ready, GoodNow, frames # <<>>, Len(frames) > 1
    PROVE  LET f == frames[Len(frames) - 1]
           IN  /\ f \in FrameType(code) /\ Called(f) /\ Link(code, f, Top)
               /\ Live(code, frames) <=> NothingBehindJumps(code) \/ f.emits = "if"
<1>1. Len(frames) \in Nat \ {0} /\ CallsOK(code, blocks, frames, ip, value)
      /\ StackOK(code, frames, Len(blocks)) /\ frames \in Seq(FrameType(code))
  BY TopNow
<1>2. Len(frames) - 1 \in 1..(Len(frames) - 1) /\ Len(frames) - 1 + 1 = Len(frames)
      /\ Len(frames) - 1 \in 1..Len(frames)
  BY <1>1
<1>3. Link(code, frames[Len(frames) - 1], frames[Len(frames) - 1 + 1])
  BY <1>1, <1>2 DEF CallsOK
<1>4. Called(frames[Len(frames) - 1]) /\ frames[Len(frames) - 1] \in FrameType(code)
  BY <1>1, <1>2 DEF StackOK
<1> QED
  BY <1>2, <1>3, <1>4 DEF Top, Live

\* Whether the call below the top must find an open block when it goes on.
LEMMA UpNow ==
    ASSUME Ready, GoodNow, frames # <<>>, Len(frames) > 1, frames' = Under
    PROVE  /\ frames' # <<>> /\ frames'[Len(frames')] = frames[Len(frames) - 1]
           /\ frames'[1] = frames[1] /\ frames' \in Seq(FrameType(code))
           /\ frames'[Len(frames')].emits = "block" /\ Live(code, frames')
                  => NothingBehindJumps(code) \/ Flat(code, frames'[Len(frames')].nodes)
<1> DEFINE n == Len(frames)
<1>1. n \in Nat \ {0} /\ CallsOK(code, blocks, frames, ip, value) /\ frames \in Seq(FrameType(code))
  BY TopNow
<1>2. /\ frames' \in Seq(FrameType(code)) /\ Len(frames') = n - 1
      /\ \A k \in 1..(n - 1) : frames'[k] = frames[k]
  BY <1>1, WithoutTop DEF Under
<1> HIDE DEF n
<1>3. n > 1 /\ n - 1 \in 1..(n - 1) /\ 1 \in 1..(n - 1)
  BY <1>1 DEF n
<1>4. frames' # <<>>
  BY <1>1, <1>2, <1>3
<1>5. frames'[Len(frames')] = frames[n - 1] /\ frames'[1] = frames[1]
  BY <1>2, <1>3
<1>6. ASSUME frames[n - 1].emits = "block", Live(code, frames'), ~NothingBehindJumps(code)
      PROVE  Flat(code, frames[n - 1].nodes)
  <2>1. n - 1 > 1 /\ frames'[n - 1 - 1].emits = "if"
    BY <1>2, <1>6 DEF Live
  <2>2. n - 2 \in 1..(n - 1) /\ n - 1 - 1 = n - 2 /\ n - 2 + 1 = n - 1
    BY <1>1, <2>1
  <2>3. Link(code, frames[n - 2], frames[n - 1]) /\ frames[n - 2].emits = "if"
    BY <1>1, <1>2, <2>1, <2>2 DEF CallsOK, n
  <2> QED
    BY <1>6, <2>3 DEF Link, Jumping
<1> QED
  BY <1>2, <1>4, <1>5, <1>6 DEF n

\* A call returns w.
LEMMA Returned ==
    ASSUME Ready, GoodNow, frames # <<>>, NEW w, Returns(w),
           Around(blocks, blocks', MineNow, ip, value, ip', w),
           \A b \in MineNow : Open(blocks', b) => b = Cur(ip', w),
           Sound(blocks'),
           Len(frames) > 1 => TopOK(code, blocks', ip', frames[Len(frames) - 1], w, Live(code, frames')),
           Len(frames) = 1 =>
             w = ip' /\ (NothingBehindJumps(code) => Excused \/ Terminated(blocks', ip'))
    PROVE  FineNext
<1>1. frames' = SubSeq(frames, 1, Len(frames) - 1) /\ value' = w /\ frames' = Under
  BY DEF Returns, Under
<1>2. /\ Len(blocks) \in Nat /\ CallsOK(code, blocks, frames, ip, value)
      /\ StackOK(code, frames, Len(blocks)) /\ Len(frames) \in Nat \ {0}
      /\ frames \in Seq(FrameType(code))
      /\ frames[1].emits = "block" /\ (NothingBehindJumps(code) => Excused \/ Cut(code, frames[1].nodes))
  BY TopNow
<1>3. MineNow = Mine(blocks, blocks', frames[Len(frames)], ip, value)
  BY DEF MineNow, Top
<1>4. CallsOK(code, blocks', frames', ip', w)
  BY <1>1, <1>2, <1>3, AfterPop
<1>5. CASE Len(frames) > 1
  <2>1. frames' # <<>> /\ frames'[Len(frames')] = frames[Len(frames) - 1] /\ frames'[1] = frames[1]
    BY <1>1, <1>5, UpNow
  <2>2. TopOK(code, blocks', ip', frames'[Len(frames')], w, Live(code, frames'))
    BY <1>5, <2>1
  <2>3. First(code, Excused, blocks', ip', frames')
    BY <1>2, <2>1 DEF First
  <2> QED
    BY <1>1, <1>4, <2>1, <2>2, <2>3 DEF FineNext, Fine, Good
<1>6. CASE Len(frames) = 1
  <2>1. frames' = <<>>
    BY <1>1, <1>2, <1>6, WithoutTop
  <2>2. First(code, Excused, blocks', ip', frames') /\ w = ip'
    BY <1>6, <2>1 DEF First
  <2> QED
    BY <1>1, <1>4, <2>1, <2>2 DEF FineNext, Fine, Good
<1>7. Len(frames) > 1 \/ Len(frames) = 1
  BY TopNow, Zenon
<1> QED
  BY <1>5, <1>6, <1>7

\* A block that ends keeps the function fine.
LEMMA BlockReturnsGood ==
    ASSUME Ready, PlainIfs(code), GoodNow, CutBlock \/ EndBlock
    PROVE  FineNext
<1>1. /\ frames # <<>> /\ Top.emits = "block" /\ blocks' = blocks /\ Returns(Top.bb)
  BY DEF CutBlock, EndBlock, Resumes, GoesOn
<1>2. /\ Sound(blocks) /\ Len(blocks) \in Nat /\ ip \in 1..Len(blocks) /\ frames \in Seq(FrameType(code))
      /\ Len(frames) \in Nat \ {0} /\ Top = frames[Len(frames)]
      /\ TopOK(code, blocks, ip, Top, value, Live(code, frames))
      /\ frames[1].emits = "block" /\ (NothingBehindJumps(code) => Excused \/ Cut(code, frames[1].nodes))
  BY <1>1, TopNow
<1>3. /\ Top \in FrameType(code) /\ Top.bb \in 1..Len(blocks) /\ Top.nodes \in Seq(1..Len(code))
      /\ CodeOK(code)
  BY <1>1, TopFacts DEF Ready, Top
<1>4. \/ Top.nodes = <<>> /\ value = Calling /\ (Live(code, frames) => Open(blocks, Top.bb))
      \/ /\ Top.nodes # <<>> /\ value # Calling /\ Terminated(blocks, Top.bb)
         /\ \/ Ends(code, Node)
            \/ ~NothingBehindJumps(code) /\ code[Node].kind = "compif"
  <2>1. CASE EndBlock
    <3>1. Top.nodes = <<>> /\ value = Calling
      BY <2>1 DEF EndBlock, GoesOn
    <3> QED
      BY <1>2, <3>1 DEF TopOK, AtStart
  <2>2. CASE CutBlock
    <3>1. value # Calling /\ (value = Poison \/ code[Node].kind \in Jumps)
      BY <2>2 DEF CutBlock, Resumes
    <3>2. Top.nodes # <<>>
      BY <1>1, <3>1 DEF Ready, Typed, Called, Top
    <3>3. BlockWaits(code, blocks, ip, Top, value, Live(code, frames))
      BY <1>1, <1>2, <3>1 DEF TopOK
    <3>4. CASE Ends(code, Node)
      BY <3>1, <3>2, <3>3, <3>4 DEF BlockWaits, Jumped, Node
    <3>5. CASE ~Ends(code, Node)
      <4>1. Passed(code, blocks, ip, Top, value, Live(code, frames)) /\ value = Poison
        BY <3>1, <3>3, <3>5 DEF BlockWaits, Node, Ends
      <4> QED
        BY <3>1, <3>2, <4>1 DEF Passed, Node
    <3> QED
      BY <3>4, <3>5
  <2> QED
    BY <2>1, <2>2
<1>5. ip = Top.bb /\ ip' = Top.bb
  <2>1. CASE EndBlock
    <3>1. value = Calling /\ ip' = ip
      BY <2>1 DEF EndBlock, GoesOn
    <3> QED
      BY <1>2, <3>1 DEF TopOK, AtStart
  <2>2. CASE CutBlock
    <3>1. value # Calling /\ (value = Poison \/ code[Node].kind \in Jumps)
          /\ ip' = IF value = Poison THEN ip ELSE Top.bb
      BY <2>2 DEF CutBlock, Resumes
    <3>2. BlockWaits(code, blocks, ip, Top, value, Live(code, frames))
      BY <1>1, <1>2, <3>1 DEF TopOK
    <3>3. ip = Top.bb
      BY <3>1, <3>2 DEF BlockWaits, Jumped, Passed, Ends, Node
    <3> QED
      BY <3>1, <3>3
  <2> QED
    BY <2>1, <2>2
<1>6. value \in {Calling, Poison, Other}
  <2>1. CASE EndBlock
    BY <2>1 DEF EndBlock, GoesOn
  <2>2. CASE CutBlock
    <3>1. value # Calling /\ (value = Poison \/ code[Node].kind \in Jumps)
      BY <2>2 DEF CutBlock, Resumes
    <3>2. BlockWaits(code, blocks, ip, Top, value, Live(code, frames))
      BY <1>1, <1>2, <3>1 DEF TopOK
    <3> QED
      BY <3>1, <3>2 DEF BlockWaits, Jumped, Ends, Node
  <2> QED
    BY <2>1, <2>2
<1>7. MineNow = {ip}
  <2>1. Cur(ip, value) = ip
    BY <1>6 DEF Cur, Calling, Poison, Other
  <2>2. Own(Top) = {} /\ (Len(blocks) + 1)..Len(blocks') = {}
    BY <1>1, <1>2 DEF Own
  <2> QED
    BY <2>1, <2>2 DEF MineNow, Mine
<1>8. Around(blocks, blocks', MineNow, ip, value, ip', Top.bb)
  BY <1>1, <1>2, <1>5, <1>7 DEF Around
<1>9. \A b \in MineNow : Open(blocks', b) => b = Cur(ip', Top.bb)
  BY <1>5, <1>7 DEF Cur
<1>10. ASSUME Len(frames) > 1
       PROVE  TopOK(code, blocks', ip', frames[Len(frames) - 1], Top.bb, Live(code, frames'))
  <2> DEFINE f == frames[Len(frames) - 1]
  <2>1. /\ f \in FrameType(code) /\ Called(f) /\ Link(code, f, Top)
        /\ Live(code, frames) <=> NothingBehindJumps(code) \/ f.emits = "if"
    BY <1>1, <1>10, BelowNow
  <2>2. frames' = Under
    BY <1>1 DEF Returns
  <2>3. f.emits = "block" /\ Live(code, frames') => NothingBehindJumps(code) \/ Flat(code, f.nodes)
    BY <1>1, <1>10, <2>2, UpNow
  <2> HIDE DEF f
  <2>4. Top.bb \in Nat \ {0}
    BY <1>2, <1>3
  <2>5. \/ Top.nodes = <<>> /\ (Live(code, frames) => Open(blocks, Top.bb))
        \/ /\ Top.nodes # <<>> /\ Terminated(blocks, Top.bb)
           /\ \/ Ends(code, Head(Top.nodes))
              \/ ~NothingBehindJumps(code) /\ code[Head(Top.nodes)].kind = "compif"
    BY <1>4 DEF Node
  <2>6. TopOK(code, blocks, Top.bb, f, Top.bb, Live(code, frames'))
    BY <1>1, <1>3, <2>1, <2>3, <2>4, <2>5, ParentOfBlock
  <2> QED
    BY <1>1, <1>5, <2>6 DEF f
<1>11. ASSUME Len(frames) = 1
       PROVE  Top.bb = ip' /\ (NothingBehindJumps(code) => Excused \/ Terminated(blocks', ip'))
  <2>1. frames[1] = Top
    BY <1>2, <1>11
  <2>2. Top.nodes = <<>> => ~Cut(code, Top.nodes)
    BY EmptyShape
  <2> QED
    BY <1>1, <1>2, <1>4, <1>5, <2>1, <2>2
<1> QED
  BY <1>1, <1>2, <1>8, <1>9, <1>10, <1>11, Returned

\* What EndIfPoisoned does to the blocks.
LEMMA EndIfPoisonedPuts ==
    ASSUME Ready, EndIfPoisoned
    PROVE  PutIs(blocks, Top.bb, CondBr(Top.stmt, Top.then, Top.other), blocks')
<1>1. /\ frames # <<>> /\ Top.emits = "if" /\ value # Calling /\ Top.other # 0
      /\ blocks' = Put(blocks, Top.bb, CondBr(Top.stmt, Top.then, Top.other))
  BY DEF EndIfPoisoned, BranchesEmitted, BothTerminated, HasElse, Resumes
<1>2. /\ Top.bb \in 1..Len(blocks) /\ Top.stmt \in Nat /\ Len(blocks) \in Nat
      /\ Top.then \in 0..Len(blocks) /\ Top.other \in 0..Len(blocks) /\ BlocksOK(blocks)
  BY <1>1, TopFacts DEF Ready, Top, Typed
<1>3. Top.then # 0
  BY <1>1 DEF Ready, Typed, Called, Top
<1>4. Top.then \in 1..Len(blocks) /\ Top.other \in 1..Len(blocks)
  BY <1>1, <1>2, <1>3
<1> QED
  BY <1>1, <1>2, <1>4, PutEach

\* An if whose branches both jump keeps the function fine.
LEMMA EndIfPoisonedGood ==
    ASSUME Ready, GoodNow, EndIfPoisoned
    PROVE  FineNext
<1>1. /\ frames # <<>> /\ Top.emits = "if" /\ value # Calling /\ Top.other # 0
      /\ Terminated(blocks, Top.other) /\ Terminated(blocks, Top.then)
      /\ blocks' = Put(blocks, Top.bb, CondBr(Top.stmt, Top.then, Top.other))
      /\ ip' = Top.bb /\ Returns(Poison)
  BY DEF EndIfPoisoned, BranchesEmitted, BothTerminated, HasElse, Resumes
<1>2. /\ Sound(blocks) /\ BlocksOK(blocks) /\ Len(blocks) \in Nat
      /\ Len(frames) > 1 \/ Len(frames) = 1
      /\ Len(frames) = 1 => Top = frames[1]
      /\ frames[1].emits = "block"
      /\ FrameOK(code, blocks, Top) /\ TopOK(code, blocks, ip, Top, value, Live(code, frames))
  BY <1>1, TopNow
<1>3. /\ Top \in FrameType(code) /\ Top.bb \in 1..Len(blocks) /\ Top.stmt \in Nat
      /\ Top.then \in 0..Len(blocks) /\ Top.other \in 0..Len(blocks) /\ CodeOK(code)
  BY <1>1, TopFacts DEF Ready, Top
<1>4. Top.then # 0
  BY <1>1 DEF Ready, Typed, Called, Top
<1>5. Top.then \in 1..Len(blocks) /\ Top.other \in 1..Len(blocks)
  BY <1>1, <1>2, <1>3, <1>4
<1>6. Len(frames) > 1
  BY <1>1, <1>2
<1>7. PutIs(blocks, Top.bb, CondBr(Top.stmt, Top.then, Top.other), blocks')
      /\ IsTerminator(CondBr(Top.stmt, Top.then, Top.other))
  BY <1>1, <1>2, <1>3, <1>5, PutEach
<1>8. Open(blocks, Top.bb) /\ Top.bb # Top.then /\ AllJump(code, Top.stmt)
  BY <1>1, <1>2, <1>4 DEF FrameOK
<1>9. Terminated(blocks, ip) /\ Cur(ip, value) = ip
  <2>1. ElseEmitted(code, blocks, ip, Top, value)
    BY <1>1, <1>2 DEF TopOK
  <2>2. Cur(ip, Poison) = ip /\ Cur(ip, ip) = ip
    BY DEF Cur, Poison
  <2> QED
    BY <1>8, <2>1, <2>2 DEF ElseEmitted
<1>10. /\ Sound(blocks') /\ Terminated(blocks', Top.bb) /\ Len(blocks') = Len(blocks)
       /\ \A a \in 1..Len(blocks) : a # Top.bb => blocks'[a] = blocks[a]
  BY <1>2, <1>7, <1>8 DEF PutIs
<1>11. MineNow = {ip, Top.bb, Top.then}
  <2>1. Own(Top) = {Top.bb, Top.then} /\ (Len(blocks) + 1)..Len(blocks') = {}
    BY <1>1, <1>2, <1>4, <1>10 DEF Own
  <2> QED
    BY <1>9, <2>1 DEF MineNow, Mine
<1>12. Around(blocks, blocks', MineNow, ip, value, ip', Poison)
  BY <1>1, <1>2, <1>10, <1>11 DEF Around
<1>13. \A b \in MineNow : Open(blocks', b) => b = Cur(ip', Poison)
  <2>1. ip \in 1..Len(blocks)
    BY <1>1, TopNow
  <2>2. Terminated(blocks', Top.then)
    BY <1>1, <1>5, <1>8, <1>10, SameEnd
  <2>3. Terminated(blocks', ip)
    BY <1>9, <1>10, <2>1, SameEnd
  <2> QED
    BY <1>10, <1>11, <2>2, <2>3 DEF Open
<1>14. TopOK(code, blocks', ip', frames[Len(frames) - 1], Poison, Live(code, frames'))
  <2> DEFINE f == frames[Len(frames) - 1]
  <2>1. f \in FrameType(code) /\ Called(f) /\ Link(code, f, Top)
    BY <1>1, <1>6, BelowNow
  <2> HIDE DEF f
  <2>2. Top.bb \in Nat \ {0}
    BY <1>2, <1>3
  <2>3. TopOK(code, blocks', Top.bb, f, Poison, Live(code, frames'))
    BY <1>1, <1>3, <1>8, <1>10, <2>1, <2>2, ParentOfIf
  <2> QED
    BY <1>1, <2>3 DEF f
<1>15. Len(frames) = 1 =>
         Poison = ip' /\ (NothingBehindJumps(code) => Excused \/ Terminated(blocks', ip'))
  BY <1>1, <1>2
<1> QED
  BY <1>1, <1>10, <1>12, <1>13, <1>14, <1>15, Returned

\* What EndIf does to the blocks.
LEMMA EndIfJoins ==
    ASSUME Ready, EndIf
    PROVE  /\ JoinIs(blocks, Top.bb, Top.then, Top.other, MergeBlock, blocks')
           /\ Top.bb \in 1..Len(blocks) /\ Top.then \in 1..Len(blocks) /\ Top.other \in 0..Len(blocks)
           /\ frames # <<>> /\ Top.emits = "if" /\ value # Calling /\ Returns(MergeBlock)
           /\ ip' = MergeBlock
           /\ code[Top.stmt].else = "none" \/ Top.other # 0
           /\ ~BothTerminated /\ Top.stmt \in 1..Len(code)
           /\ MergeBlock \in 1..(Len(blocks) + 1) /\ MergeBlock # Top.then
<1> DEFINE created == IF ip # Top.then THEN blocks ELSE Create(blocks, 1)
           no == IF HasElse THEN Top.other ELSE MergeBlock
           tested  == Put(created, Top.bb, CondBr(Top.stmt, Top.then, no))
           joined  == SafeBr(tested, Top.then, MergeBlock)
           ended == IF HasElse THEN SafeBr(joined, Top.other, MergeBlock) ELSE joined
<1>1. /\ frames # <<>> /\ Top.emits = "if" /\ value # Calling
      /\ blocks' = ended /\ ip' = MergeBlock /\ Returns(MergeBlock) /\ ~BothTerminated
      /\ code[Top.stmt].else = "none" \/ Top.other # 0
  BY DEF EndIf, BranchesEmitted, Resumes, HasElse
<1>2. /\ Top.bb \in 1..Len(blocks) /\ Top.then \in 0..Len(blocks) /\ Top.other \in 0..Len(blocks)
      /\ Len(blocks) \in Nat /\ Top.stmt \in 1..Len(code) /\ Top.stmt \in Nat
  BY <1>1, TopFacts DEF Ready, Top
<1>3. Top.then # 0
  BY <1>1 DEF Ready, Typed, Called, Top
<1>4. Top.then \in 1..Len(blocks) /\ BlocksOK(blocks) /\ ip \in 1..Len(blocks)
  BY <1>2, <1>3 DEF Ready, Typed
<1>5. /\ MergeBlock \in 1..(Len(blocks) + 1) /\ MergeBlock # Top.then
      /\ MergeBlock \in 1..Len(blocks) <=> ip # Top.then
  BY <1>2, <1>4 DEF MergeBlock
<1>6. created = IF MergeBlock \in 1..Len(blocks) THEN blocks ELSE Create(blocks, 1)
  BY <1>5
<1>7. no = IF Top.other # 0 THEN Top.other ELSE MergeBlock
  BY DEF HasElse
<1>8. ended = IF Top.other # 0 THEN SafeBr(joined, Top.other, MergeBlock) ELSE joined
  BY DEF HasElse
<1> DEFINE m == MergeBlock
<1>9. /\ m \in 1..(Len(blocks) + 1) /\ m # Top.then
      /\ created = IF m \in 1..Len(blocks) THEN blocks ELSE Create(blocks, 1)
      /\ no = IF Top.other # 0 THEN Top.other ELSE m
      /\ tested = Put(created, Top.bb, CondBr(Top.stmt, Top.then, no))
      /\ joined = SafeBr(tested, Top.then, m)
      /\ ended = IF Top.other # 0 THEN SafeBr(joined, Top.other, m) ELSE joined
  BY <1>5, <1>6, <1>7, <1>8
<1> HIDE DEF created, no, tested, joined, ended, m
<1>10. JoinIs(blocks, Top.bb, Top.then, Top.other, m, ended)
  BY <1>2, <1>4, <1>9, JoinBlocks
<1> QED
  BY <1>1, <1>2, <1>4, <1>5, <1>10 DEF m

\* The other ends of an if do.
LEMMA EndIfGood ==
    ASSUME Ready, PlainIfs(code), GoodNow, EndIf
    PROVE  FineNext
<1> DEFINE m == MergeBlock
<1>1. /\ JoinIs(blocks, Top.bb, Top.then, Top.other, m, blocks')
      /\ Top.bb \in 1..Len(blocks) /\ Top.then \in 1..Len(blocks) /\ Top.other \in 0..Len(blocks)
      /\ frames # <<>> /\ Top.emits = "if" /\ value # Calling /\ Returns(m) /\ ip' = m
      /\ code[Top.stmt].else = "none" \/ Top.other # 0
      /\ ~BothTerminated /\ Top.stmt \in 1..Len(code)
      /\ m \in 1..(Len(blocks) + 1) /\ m # Top.then
  BY EndIfJoins
<1>2. /\ Sound(blocks) /\ BlocksOK(blocks) /\ Len(blocks) \in Nat /\ ip \in 1..Len(blocks)
      /\ Len(frames) > 1 \/ Len(frames) = 1
      /\ Len(frames) = 1 => Top = frames[1]
      /\ frames[1].emits = "block"
      /\ FrameOK(code, blocks, Top) /\ TopOK(code, blocks, ip, Top, value, Live(code, frames))
      /\ ip \notin Own(Top)
  BY <1>1, TopNow
<1>3. Top \in FrameType(code) /\ CodeOK(code)
  BY <1>1, TopFacts DEF Ready, Top
<1>4. Len(frames) > 1
  BY <1>1, <1>2
<1>5. /\ Open(blocks, Top.bb) /\ Top.bb # Top.then /\ Top.then # 0 /\ code[Top.stmt].kind = "if"
      /\ Top.other # 0 => (Terminated(blocks, Top.then) <=> AllJump(code, Top.stmt))
  <2>1. Top.then # 0
    BY <1>1
  <2> QED
    BY <1>1, <1>2, <2>1 DEF FrameOK
<1>6. /\ Sound(blocks') /\ Terminated(blocks', Top.bb) /\ Terminated(blocks', Top.then)
      /\ Grows(blocks, blocks')
      /\ IF m \in 1..Len(blocks) THEN Len(blocks') = Len(blocks)
         ELSE m = Len(blocks) + 1 /\ Len(blocks') = m /\ blocks'[m] = <<>>
      /\ \A a \in 1..Len(blocks) : a \notin {Top.bb, Top.then, Top.other} => blocks'[a] = blocks[a]
      /\ Top.other # 0 /\ Terminated(blocks, Top.other) /\ Top.other \notin {Top.bb, Top.then}
             => blocks'[Top.other] = blocks[Top.other]
  BY <1>1, <1>2, <1>5 DEF JoinIs
<1>7. /\ ~AllJump(code, Top.stmt) /\ Open(blocks', m) /\ m \in MineNow /\ Cur(ip, value) = ip
      /\ \A b \in MineNow : Open(blocks', b) => b = m
      /\ \A b \in 1..Len(blocks) : b \notin MineNow => blocks'[b] = blocks[b]
  <2>1. CASE Top.other = 0
    <3>1. ip = Top.then /\ value = ip
      BY <1>1, <1>2, <2>1 DEF TopOK, ThenEmitted
    <3>2. m = Len(blocks) + 1 /\ Len(blocks') = m /\ blocks'[m] = <<>>
      BY <1>2, <1>6, <3>1 DEF MergeBlock
    <3>3. Own(Top) = {Top.bb} /\ (Len(blocks) + 1)..Len(blocks') = {m} /\ Cur(ip, value) = ip
      BY <1>1, <1>2, <1>5, <2>1, <3>1, <3>2 DEF Own, Cur
    <3>4. MineNow = {Top.then, Top.bb, m}
      BY <3>1, <3>3 DEF MineNow, Mine
    <3>5. ~AllJump(code, Top.stmt)
      BY <1>1, <1>3, <1>5, <2>1, PlainIfShape DEF IfShape
    <3>6. Open(blocks', m)
      BY <3>2 DEF Open, Terminated
    <3>7. \A b \in MineNow : Open(blocks', b) => b = m
      BY <1>6, <3>4 DEF Open
    <3>8. \A b \in 1..Len(blocks) : b \notin MineNow => blocks'[b] = blocks[b]
      <4>1. \A b \in 1..Len(blocks) : b # 0
        OBVIOUS
      <4> QED
        BY <1>6, <2>1, <3>4, <4>1
    <3> QED
      BY <3>3, <3>4, <3>5, <3>6, <3>7, <3>8
  <2>2. CASE Top.other # 0
    <3>1. ElseEmitted(code, blocks, ip, Top, value)
      BY <1>1, <1>2, <2>2 DEF TopOK
    <3>2. Terminated(blocks, Top.other)
      BY <3>1 DEF ElseEmitted
    <3>3. ~Terminated(blocks, Top.then) /\ ~AllJump(code, Top.stmt)
      BY <1>1, <1>5, <2>2, <3>2 DEF BothTerminated, HasElse
    <3>4. Open(blocks, ip) /\ value = ip
      BY <3>1, <3>3 DEF ElseEmitted
    <3>5. Own(Top) = {Top.bb, Top.then}
      BY <1>1, <1>5, <2>2 DEF Own
    <3>6. ip # Top.bb /\ ip # Top.then /\ ip # Top.other /\ Top.other \notin {Top.bb, Top.then}
      BY <1>2, <1>5, <3>2, <3>3, <3>4, <3>5 DEF Open
    <3>7. m = ip /\ Len(blocks') = Len(blocks) /\ blocks'[ip] = blocks[ip]
      BY <1>2, <1>6, <3>6 DEF MergeBlock
    <3>8. Cur(ip, value) = ip /\ (Len(blocks) + 1)..Len(blocks') = {}
      BY <1>2, <3>4, <3>7 DEF Cur
    <3>9. MineNow = {ip, Top.bb, Top.then}
      BY <3>5, <3>8 DEF MineNow, Mine
    <3>10. Open(blocks', m)
      BY <3>4, <3>7, SameEnd
    <3>11. \A b \in MineNow : Open(blocks', b) => b = m
      BY <1>6, <3>7, <3>9 DEF Open
    <3>12. \A b \in 1..Len(blocks) : b \notin MineNow => blocks'[b] = blocks[b]
      BY <1>6, <2>2, <3>2, <3>6, <3>9
    <3> QED
      BY <3>3, <3>7, <3>8, <3>9, <3>10, <3>11, <3>12
  <2> QED
    BY <2>1, <2>2
<1>8. m \in Nat \ {0} /\ Cur(ip', m) = m
  BY <1>1, <1>2 DEF Cur
<1> HIDE DEF m
<1>9. Around(blocks, blocks', MineNow, ip, value, ip', m)
  <2>1. Len(blocks') \in Nat /\ Len(blocks) <= Len(blocks')
    BY <1>6 DEF Grows
  <2> QED
    BY <1>1, <1>7, <2>1 DEF Around
<1>10. \A b \in MineNow : Open(blocks', b) => b = Cur(ip', m)
  BY <1>7, <1>8
<1>11. TopOK(code, blocks', ip', frames[Len(frames) - 1], m, Live(code, frames'))
  <2> DEFINE f == frames[Len(frames) - 1]
  <2>1. f \in FrameType(code) /\ Called(f) /\ Link(code, f, Top)
    BY <1>1, <1>4, BelowNow
  <2> HIDE DEF f
  <2>2. TopOK(code, blocks', m, f, m, Live(code, frames'))
    BY <1>1, <1>3, <1>6, <1>7, <1>8, <2>1, ParentOfIf
  <2> QED
    BY <1>1, <2>2 DEF f
<1>12. Len(frames) = 1 => m = ip' /\ (NothingBehindJumps(code) => Excused \/ Terminated(blocks', ip'))
  BY <1>1, <1>2
<1> QED
  BY <1>1, <1>6, <1>9, <1>10, <1>11, <1>12, Returned

\* What EndWhile does to the blocks.
LEMMA EndWhileIs ==
    ASSUME Ready, EndWhile
    PROVE  SafeBrIs(blocks, ip, blocks')
<1>1. frames # <<>> /\ blocks' = SafeBr(blocks, ip, Top.bb)
  BY DEF EndWhile, Resumes
<1>2. Top.bb \in 1..Len(blocks) /\ BlocksOK(blocks) /\ ip \in 1..Len(blocks)
  BY <1>1, TopFacts DEF Ready, Top, Typed
<1> QED
  BY <1>1, <1>2, SafeBrEnds

\* The body of a while loop ends where the loop began.
LEMMA EndWhileGood ==
    ASSUME Ready, GoodNow, EndWhile
    PROVE  FineNext
<1>1. /\ frames # <<>> /\ Top.emits = "while" /\ value # Calling /\ Returns(Top.other)
      /\ blocks' = SafeBr(blocks, ip, Top.bb) /\ ip' = Top.other
  BY DEF EndWhile, Resumes
<1>2. /\ Sound(blocks) /\ BlocksOK(blocks) /\ Len(blocks) \in Nat /\ ip \in 1..Len(blocks)
      /\ Len(frames) > 1 \/ Len(frames) = 1
      /\ Len(frames) = 1 => Top = frames[1]
      /\ frames[1].emits = "block"
      /\ FrameOK(code, blocks, Top) /\ TopOK(code, blocks, ip, Top, value, Live(code, frames))
      /\ ip \notin Own(Top)
  BY <1>1, TopNow
<1>3. /\ Top \in FrameType(code) /\ CodeOK(code) /\ Top.bb \in 1..Len(blocks)
      /\ Top.other \in 1..Len(blocks)
  BY <1>1, TopFacts DEF Ready, Top, Fits, Loops
<1>4. Len(frames) > 1
  BY <1>1, <1>2
<1>5. SafeBrIs(blocks, ip, blocks')
  BY <1>1, <1>2, <1>3, SafeBrEnds
<1>6. Sound(blocks') /\ Terminated(blocks', ip) /\ Len(blocks') = Len(blocks)
      /\ \A a \in 1..Len(blocks) : a # ip => blocks'[a] = blocks[a]
  BY <1>2, <1>5 DEF SafeBrIs
<1>7. value = ip /\ Cur(ip, value) = ip
  <2>1. value = ip
    BY <1>1, <1>2 DEF TopOK, BodyEmitted, Loops
  <2> QED
    BY <2>1 DEF Cur
<1>8. Own(Top) = {Top.other} /\ (Len(blocks) + 1)..Len(blocks') = {}
  BY <1>1, <1>2, <1>6 DEF Own
<1>9. MineNow = {ip, Top.other} /\ ip # Top.other
  BY <1>2, <1>7, <1>8 DEF MineNow, Mine
<1>10. Open(blocks', Top.other)
  <2>1. blocks'[Top.other] = <<>>
    BY <1>1, <1>2, <1>3, <1>6, <1>9 DEF FrameOK
  <2> QED
    BY <2>1 DEF Open, Terminated
<1>11. Top.other \in Nat \ {0} /\ Cur(ip', Top.other) = Top.other
  BY <1>1, <1>2, <1>3 DEF Cur
<1>12. Around(blocks, blocks', MineNow, ip, value, ip', Top.other)
  BY <1>1, <1>2, <1>6, <1>9 DEF Around
<1>13. \A b \in MineNow : Open(blocks', b) => b = Cur(ip', Top.other)
  BY <1>6, <1>9, <1>11 DEF Open
<1>14. TopOK(code, blocks', ip', frames[Len(frames) - 1], Top.other, Live(code, frames'))
  <2> DEFINE f == frames[Len(frames) - 1]
  <2>1. f \in FrameType(code) /\ Called(f) /\ Link(code, f, Top)
    BY <1>1, <1>4, BelowNow
  <2> HIDE DEF f
  <2>2. Top.emits \in Loops
    BY <1>1 DEF Loops
  <2>3. TopOK(code, blocks', ip', f, Top.other, Live(code, frames'))
    BY <1>1, <1>3, <1>10, <1>11, <2>1, <2>2, ParentOfLoop
  <2> QED
    BY <2>3 DEF f
<1>15. Len(frames) = 1 => Top.other = ip'
         /\ (NothingBehindJumps(code) => Excused \/ Terminated(blocks', ip'))
  BY <1>1, <1>2
<1> QED
  BY <1>1, <1>6, <1>12, <1>13, <1>14, <1>15, Returned

\* What the end of a for loop does to blocks.
LEMMA ForBlocks ==
    ASSUME NEW bs, BlocksOK(bs), NEW p \in 1..Len(bs), NEW update \in 1..Len(bs), NEW s \in Nat,
           NEW bb \in 1..Len(bs),
           NEW ended, ended = Put(bs, p, Br(update)),
           NEW updated, updated = Put(ended, update, IterUpdate(s)),
           NEW ps, ps = Put(updated, update, Br(bb))
    PROVE  ForIs(bs, p, update, ps)
<1>1. PutIs(bs, p, Br(update), ended) /\ IsTerminator(Br(update)) /\ Grows(bs, ended)
  BY PutEach, PutGrows
<1>2. BlocksOK(ended) /\ Len(ended) = Len(bs)
  BY <1>1 DEF PutIs
<1>3. PutIs(ended, update, IterUpdate(s), updated) /\ ~IsTerminator(IterUpdate(s))
        /\ Grows(ended, updated)
  BY <1>2, PutEach, PutGrows
<1>4. BlocksOK(updated) /\ Len(updated) = Len(bs)
  BY <1>2, <1>3 DEF PutIs
<1>5. PutIs(updated, update, Br(bb), ps) /\ IsTerminator(Br(bb)) /\ Grows(updated, ps)
  <2>1. PutIs(updated, update, Br(bb), ps) /\ IsTerminator(Br(bb))
    BY <1>4, PutEach
  <2> QED
    BY <1>4, <2>1, PutGrows
<1>6. Grows(bs, ps)
  BY <1>1, <1>3, <1>5, GrowsTrans
<1>7. Len(ps) = Len(bs) /\ \A a \in 1..Len(bs) : a \notin {p, update} => ps[a] = bs[a]
  BY <1>1, <1>2, <1>3, <1>4, <1>5 DEF PutIs
<1>8. Terminated(bs, p) => ~Sound(ps)
  BY <1>1, <1>3, <1>5 DEF PutIs
<1>9. ASSUME p # update
      PROVE  /\ Terminated(ps, p) /\ Terminated(ps, update)
             /\ Sound(bs) /\ Open(bs, p) /\ Open(bs, update) => Sound(ps)
  <2>1. Terminated(ended, p) /\ ended[update] = bs[update]
    BY <1>1, <1>9 DEF PutIs
  <2>2. updated[p] = ended[p] /\ ps[p] = updated[p]
    BY <1>2, <1>3, <1>4, <1>5, <1>9 DEF PutIs
  <2>3. Terminated(ps, p)
    BY <2>1, <2>2, SameEnd
  <2>4. Terminated(ps, update)
    BY <1>5 DEF PutIs
  <2>5. ASSUME Sound(bs), Open(bs, p), Open(bs, update) PROVE Sound(ps)
    <3>1. Sound(ended) /\ Open(ended, update)
      BY <1>1, <2>1, <2>5, SameEnd DEF PutIs
    <3>2. Sound(updated) /\ Open(updated, update)
      BY <1>3, <3>1 DEF PutIs, Open
    <3> QED
      BY <1>5, <3>2 DEF PutIs
  <2> QED
    BY <2>3, <2>4, <2>5
<1> QED
  BY <1>6, <1>7, <1>8, <1>9 DEF ForIs

\* ForStmt::emit does that.
LEMMA EndForIs ==
    ASSUME Ready, EndFor
    PROVE  /\ ForIs(blocks, ip, Top.then, blocks')
           /\ frames # <<>> /\ Top.emits = "for" /\ value # Calling /\ Returns(Top.other)
           /\ ip' = Top.then
           /\ Top.then \in 1..Len(blocks) /\ Top.other \in 1..Len(blocks)
<1> DEFINE ended == Put(blocks, ip, Br(Top.then))
           updated == Put(ended, Top.then, IterUpdate(Top.stmt))
           ps == Put(updated, Top.then, Br(Top.bb))
<1>1. /\ frames # <<>> /\ Top.emits = "for" /\ value # Calling /\ Returns(Top.other)
      /\ ip' = Top.then /\ blocks' = ps
  BY DEF EndFor, Resumes
<1>2. /\ Top.bb \in 1..Len(blocks) /\ Top.then \in 1..Len(blocks) /\ Top.other \in 1..Len(blocks)
      /\ Top.stmt \in Nat
  BY <1>1, TopFacts DEF Ready, Top, Fits, Loops
<1>3. BlocksOK(blocks) /\ ip \in 1..Len(blocks)
  BY DEF Ready, Typed
<1>4. /\ ended = Put(blocks, ip, Br(Top.then))
      /\ updated = Put(ended, Top.then, IterUpdate(Top.stmt))
      /\ ps = Put(updated, Top.then, Br(Top.bb))
  OBVIOUS
<1> HIDE DEF ended, updated, ps
<1>5. ForIs(blocks, ip, Top.then, ps)
  BY <1>2, <1>3, <1>4, ForBlocks
<1> QED
  BY <1>1, <1>2, <1>5

\* The end of a for loop keeps the function fine.
LEMMA EndForGood ==
    ASSUME Ready, GoodNow, EndFor
    PROVE  FineNext
<1>1. /\ ForIs(blocks, ip, Top.then, blocks')
      /\ frames # <<>> /\ Top.emits = "for" /\ value # Calling /\ Returns(Top.other) /\ ip' = Top.then
      /\ Top.then \in 1..Len(blocks) /\ Top.other \in 1..Len(blocks)
  BY EndForIs
<1>2. /\ Sound(blocks) /\ BlocksOK(blocks) /\ Len(blocks) \in Nat /\ ip \in 1..Len(blocks)
      /\ Len(frames) > 1 \/ Len(frames) = 1
      /\ Len(frames) = 1 => Top = frames[1]
      /\ frames[1].emits = "block"
      /\ FrameOK(code, blocks, Top) /\ TopOK(code, blocks, ip, Top, value, Live(code, frames))
      /\ ip \notin Own(Top)
  BY <1>1, TopNow
<1>3. Top \in FrameType(code) /\ CodeOK(code)
  BY <1>1, TopFacts DEF Ready, Top
<1>4. Len(frames) > 1
  BY <1>1, <1>2
<1>5. value = ip /\ Cur(ip, value) = ip /\ (NothingBehindJumps(code) => Open(blocks, ip))
  <2>1. value = ip /\ (NothingBehindJumps(code) => Open(blocks, ip))
    BY <1>1, <1>2 DEF TopOK, BodyEmitted, Loops
  <2> QED
    BY <2>1 DEF Cur
<1>6. CASE Terminated(blocks, ip)
  <2>1. ~Sound(blocks') /\ ~NothingBehindJumps(code)
    BY <1>1, <1>5, <1>6 DEF ForIs, Open
  <2> QED
    BY <2>1 DEF FineNext, Fine, Doomed
<1>7. CASE Open(blocks, ip)
  <2>1. Own(Top) = {Top.then, Top.other}
    BY <1>1 DEF Own
  <2>2. ip # Top.then /\ ip # Top.other
    BY <1>2, <2>1
  <2>3. Top.then # Top.other /\ blocks[Top.then] = <<>> /\ blocks[Top.other] = <<>>
    BY <1>1, <1>2 DEF FrameOK
  <2>4. Open(blocks, Top.then)
    BY <2>3 DEF Open, Terminated
  <2>5. /\ Sound(blocks') /\ Terminated(blocks', ip) /\ Terminated(blocks', Top.then)
        /\ Len(blocks') = Len(blocks)
        /\ \A a \in 1..Len(blocks) : a \notin {ip, Top.then} => blocks'[a] = blocks[a]
    BY <1>1, <1>2, <1>7, <2>2, <2>4 DEF ForIs
  <2>6. Open(blocks', Top.other)
    <3>1. blocks'[Top.other] = <<>>
      BY <1>1, <2>2, <2>3, <2>5
    <3> QED
      BY <3>1 DEF Open, Terminated
  <2>7. MineNow = {ip, Top.then, Top.other}
    <3>1. (Len(blocks) + 1)..Len(blocks') = {}
      BY <1>2, <2>5
    <3> QED
      BY <1>5, <2>1, <3>1 DEF MineNow, Mine
  <2>8. Top.other \in Nat \ {0} /\ Cur(ip', Top.other) = Top.other
    BY <1>1, <1>2 DEF Cur
  <2>9. Around(blocks, blocks', MineNow, ip, value, ip', Top.other)
    BY <1>1, <1>2, <2>5, <2>7 DEF Around
  <2>10. \A b \in MineNow : Open(blocks', b) => b = Cur(ip', Top.other)
    BY <2>5, <2>7, <2>8 DEF Open
  <2>11. TopOK(code, blocks', ip', frames[Len(frames) - 1], Top.other, Live(code, frames'))
    <3> DEFINE f == frames[Len(frames) - 1]
    <3>1. f \in FrameType(code) /\ Called(f) /\ Link(code, f, Top)
      BY <1>1, <1>4, BelowNow
    <3> HIDE DEF f
    <3>2. Top.emits \in Loops
      BY <1>1 DEF Loops
    <3>3. TopOK(code, blocks', ip', f, Top.other, Live(code, frames'))
      BY <1>1, <1>3, <2>5, <2>6, <2>8, <3>1, <3>2, ParentOfLoop
    <3> QED
      BY <3>3 DEF f
  <2>12. Len(frames) = 1 => Top.other = ip'
           /\ (NothingBehindJumps(code) => Excused \/ Terminated(blocks', ip'))
    BY <1>1, <1>2
  <2> QED
    BY <1>1, <2>5, <2>9, <2>10, <2>11, <2>12, Returned
<1> QED
  BY <1>6, <1>7 DEF Open

-----------------------------------------------------------------------------
(* A block goes on *)

\* The call on top becomes f.
LEMMA Replaces ==
    ASSUME Ready, GoodNow, frames # <<>>, NEW f, BecameOne(FrameType(code), frames, f, frames'),
           Around(blocks, blocks', MineNow, ip, value, ip', value'),
           Fresh(code, blocks', MineNow, ip', value', f),
           Len(frames) > 1 => Link(code, frames[Len(frames) - 1], f),
           \A b \in MineNow : Open(blocks', b) => b = Cur(ip', value') \/ b \in Own(f),
           Sound(blocks'), f.emits = "block",
           NothingBehindJumps(code) /\ Cut(code, Top.nodes) => Cut(code, f.nodes),
           TopOK(code, blocks', ip', f, value', Live(code, frames))
    PROVE  FineNext
<1>1. /\ Len(blocks) \in Nat /\ CallsOK(code, blocks, frames, ip, value)
      /\ StackOK(code, frames, Len(blocks)) /\ (Len(frames) > 1 \/ Len(frames) = 1)
      /\ Top = frames[Len(frames)]
      /\ frames[1].emits = "block" /\ (NothingBehindJumps(code) => Excused \/ Cut(code, frames[1].nodes))
  BY TopNow
<1>2. MineNow = Mine(blocks, blocks', frames[Len(frames)], ip, value)
  BY DEF MineNow, Top
<1>3. CallsOK(code, blocks', frames', ip', value')
  BY <1>1, <1>2, AfterOne
<1>4. /\ frames' # <<>> /\ frames'[Len(frames')] = f
      /\ Live(code, frames') = Live(code, frames)
      /\ Len(frames) > 1 => frames'[1] = frames[1]
  <2>1. /\ Len(frames) \in Nat \ {0} /\ Len(frames') = Len(frames) /\ frames'[Len(frames)] = f
        /\ frames' \in Seq(FrameType(code)) /\ \A k \in 1..(Len(frames) - 1) : frames'[k] = frames[k]
    BY DEF BecameOne
  <2>2. Len(frames) > 1 => Len(frames) - 1 \in 1..(Len(frames) - 1) /\ 1 \in 1..(Len(frames) - 1)
    BY <2>1
  <2>3. frames' # <<>>
    BY <2>1
  <2> QED
    BY <2>1, <2>2, <2>3 DEF Live
<1>5. First(code, Excused, blocks', ip', frames')
  <2>1. CASE Len(frames) > 1
    BY <1>1, <1>4, <2>1 DEF First
  <2>2. CASE Len(frames) = 1
    <3>1. frames'[1] = f /\ frames[1] = Top
      BY <1>1, <1>4, <2>2 DEF BecameOne
    <3> QED
      BY <1>1, <1>4, <3>1 DEF First
  <2> QED
    BY <1>1, <2>1, <2>2
<1> QED
  BY <1>3, <1>4, <1>5 DEF FineNext, Fine, Good

\* What holds when a block calls the emitter of its next statement.
LEMMA AtNodeNow ==
    ASSUME Ready, GoodNow, NEW kinds, AtNode(kinds)
    PROVE  /\ frames # <<>> /\ Top.emits = "block" /\ Top.nodes # <<>> /\ value = Calling
           /\ Top \in FrameType(code) /\ Node \in 1..Len(code) /\ code[Node].kind \in kinds
           /\ CodeOK(code)
           /\ Node \in Nat /\ code[Node].then \in Seq(1..Len(code))
           /\ ip = Top.bb /\ (Live(code, frames) => Open(blocks, ip))
           /\ Own(Top) = {} /\ Cur(ip, value) = ip /\ FrameOK(code, blocks', Top)
<1>1. frames # <<>> /\ Top.emits = "block" /\ Top.nodes # <<>> /\ value = Calling
        /\ code[Node].kind \in kinds
  BY DEF AtNode, GoesOn
<1>2. Top \in FrameType(code) /\ Node \in 1..Len(code) /\ CodeOK(code)
  BY <1>1, TopFacts DEF Ready, Top, Node
<1>3. AtStart(code, blocks, ip, Top, Live(code, frames))
  BY <1>1, TopNow DEF TopOK
<1>4. Own(Top) = {} /\ FrameOK(code, blocks', Top)
  BY <1>1 DEF Own, FrameOK
<1>5. Cur(ip, value) = ip
  BY <1>1 DEF Cur, Calling
<1> QED
  BY <1>1, <1>2, <1>3, <1>4, <1>5, StatementFacts DEF AtStart

\* The call on top stays.
LEMMA SameCalls ==
    ASSUME Ready, frames # <<>>, frames' = frames
    PROVE  BecameOne(FrameType(code), frames, Top, frames')
<1>1. frames \in Seq(FrameType(code)) /\ Len(frames) \in Nat \ {0}
  BY WithoutTop DEF Ready, Typed, StackOK
<1> QED
  BY <1>1 DEF BecameOne, Top

\* What a statement without branches does to the blocks.
LEMMA LeafPuts ==
    ASSUME Ready, EmitDo \/ EmitReturn \/ EmitJump
    PROVE  \E in : /\ PutIs(blocks, ip, in, blocks') /\ (IsTerminator(in) <=> code[Node].kind \in Jumps)
                  /\ code[Node].kind \in {"do"} \cup Jumps
<1>0. frames # <<>> /\ Top.emits = "block" /\ Top.nodes # <<>>
  BY DEF EmitDo, EmitReturn, EmitJump, AtNode, GoesOn
<1>a. BlocksOK(blocks) /\ ip \in 1..Len(blocks) /\ Node \in Nat
  <2>1. Node \in 1..Len(code)
    BY <1>0, TopFacts DEF Ready, Top, Node
  <2> QED
    BY <2>1, StatementFacts DEF Ready, Typed
<1>1. CASE EmitDo
  <2>1. code[Node].kind = "do" /\ code[Node].kind \notin Jumps
    BY <1>1 DEF EmitDo, AtNode, Jumps
  <2>2. PutIs(blocks, ip, Effect(Node), blocks') /\ ~IsTerminator(Effect(Node))
    BY <1>a, <1>1, PutEach DEF EmitDo
  <2> QED
    BY <2>1, <2>2
<1>2. CASE EmitReturn
  <2>1. code[Node].kind \in Jumps
    BY <1>2 DEF EmitReturn, AtNode, Jumps
  <2>2. PutIs(blocks, ip, Ret(Node), blocks') /\ IsTerminator(Ret(Node))
    BY <1>a, <1>2, PutEach DEF EmitReturn
  <2> QED
    BY <2>1, <2>2
<1>3. CASE EmitJump
  <2> DEFINE loop == loops[Len(loops)]
             to == IF code[Node].kind = "break" THEN loop.merge ELSE loop.start
  <2>1. code[Node].kind \in Jumps
    BY <1>3 DEF EmitJump, AtNode, Jumps
  <2>2. loops # <<>> /\ blocks' = Put(blocks, ip, Br(to))
    BY <1>3 DEF EmitJump
  <2>3. loops \in Seq([merge : 1..Len(blocks), start : 1..Len(blocks)])
    BY DEF Ready, Typed, LoopsOK
  <2>4. loop \in [merge : 1..Len(blocks), start : 1..Len(blocks)]
    BY <2>2, <2>3, WithoutTop
  <2>5. to \in 1..Len(blocks)
    BY <2>4
  <2> HIDE DEF to
  <2>6. PutIs(blocks, ip, Br(to), blocks') /\ IsTerminator(Br(to))
    BY <1>a, <2>2, <2>5, PutEach
  <2> QED
    BY <2>1, <2>6
<1> QED
  BY <1>1, <1>2, <1>3

\* A statement without branches does.
LEMMA LeafGood ==
    ASSUME Ready, GoodNow, EmitDo \/ EmitReturn \/ EmitJump
    PROVE  FineNext
<1>1. AtNode({"do"} \cup Jumps) /\ value' = Other /\ ip' = ip /\ frames' = frames
      /\ (EmitDo => AtNode({"do"})) /\ (EmitReturn \/ EmitJump => AtNode(Jumps))
  BY DEF EmitDo, EmitReturn, EmitJump, AtNode, Jumps
<1>2. /\ frames # <<>> /\ Top.emits = "block" /\ Top.nodes # <<>> /\ value = Calling
      /\ Top \in FrameType(code) /\ Node \in 1..Len(code) /\ CodeOK(code) /\ Node \in Nat
      /\ ip = Top.bb /\ (Live(code, frames) => Open(blocks, ip))
      /\ Own(Top) = {} /\ Cur(ip, value) = ip /\ FrameOK(code, blocks', Top)
  BY <1>1, AtNodeNow
<1>3. /\ Sound(blocks) /\ BlocksOK(blocks) /\ Len(blocks) \in Nat /\ ip \in 1..Len(blocks)
  BY <1>2, TopNow
<1>4. PICK in : PutIs(blocks, ip, in, blocks') /\ (IsTerminator(in) <=> code[Node].kind \in Jumps)
                /\ code[Node].kind \in {"do"} \cup Jumps
  BY LeafPuts
<1>5. CASE Terminated(blocks, ip)
  <2>1. ~Sound(blocks')
    BY <1>4, <1>5 DEF PutIs
  <2>2. ~NothingBehindJumps(code)
    BY <1>2, <1>5 DEF Live, Open
  <2> QED
    BY <2>1, <2>2 DEF FineNext, Fine, Doomed
<1>6. CASE Open(blocks, ip)
  <2>1. /\ Sound(blocks') /\ Len(blocks') = Len(blocks) /\ (Terminated(blocks', ip) <=> IsTerminator(in))
        /\ \A a \in 1..Len(blocks) : a # ip => blocks'[a] = blocks[a]
    BY <1>3, <1>4, <1>6 DEF PutIs
  <2>2. MineNow = {ip}
    <3>1. (Len(blocks) + 1)..Len(blocks') = {}
      BY <1>3, <2>1
    <3> QED
      BY <1>2, <3>1 DEF MineNow, Mine
  <2>3. Around(blocks, blocks', MineNow, ip, value, ip', value')
    BY <1>1, <1>3, <2>1, <2>2 DEF Around
  <2>4. Fresh(code, blocks', MineNow, ip', value', Top)
    BY <1>2 DEF Fresh
  <2>5. \A b \in MineNow : Open(blocks', b) => b = Cur(ip', value') \/ b \in Own(Top)
    BY <1>1, <2>2 DEF Cur, Other
  <2>6. Len(frames) > 1 => Link(code, frames[Len(frames) - 1], Top)
    BY <1>2, BelowNow
  <2>7. BecameOne(FrameType(code), frames, Top, frames')
    BY <1>1, <1>2, SameCalls
  <2>8. value' # Calling /\ value' # Poison /\ ~(value' > 0) /\ value' = Other
    BY <1>1 DEF Calling, Other, Poison
  <2>9. BlockWaits(code, blocks', ip', Top, value', Live(code, frames))
    <3>1. Ends(code, Node) <=> code[Node].kind \in Jumps
      BY <1>4 DEF Ends, Jumps
    <3>2. code[Node].kind \in Jumps => code[Node].kind # "if"
      BY DEF Jumps
    <3>3. CASE code[Node].kind \in Jumps
      <4>1. Jumped(code, blocks', ip', Top, value')
        BY <1>1, <1>2, <1>4, <2>1, <2>8, <3>2, <3>3 DEF Jumped, Node
      <4> QED
        BY <3>1, <3>3, <4>1 DEF BlockWaits, Node
    <3>4. CASE code[Node].kind \notin Jumps
      <4>1. Open(blocks', ip')
        BY <1>1, <1>4, <2>1, <3>4 DEF Open
      <4>2. Passed(code, blocks', ip', Top, value', Live(code, frames))
        BY <1>1, <1>2, <2>8, <4>1 DEF Passed
      <4> QED
        BY <3>1, <3>4, <4>2 DEF BlockWaits, Node
    <3> QED
      BY <3>3, <3>4
  <2>10. TopOK(code, blocks', ip', Top, value', Live(code, frames))
    BY <1>2, <2>8, <2>9 DEF TopOK, Loops
  <2> QED
    BY <1>2, <2>1, <2>3, <2>4, <2>5, <2>6, <2>7, <2>10, Replaces
<1> QED
  BY <1>5, <1>6 DEF Open

\* What has called a block has called the rest of it.
LEMMA LinkNext ==
    ASSUME NEW c, CodeOK(c), NEW d, d.emits \in {"block", "if", "while", "for"},
           NEW f \in FrameType(c), f.emits = "block", f.nodes # <<>>,
           Link(c, d, f), ~Ends(c, Head(f.nodes)),
           NEW bb, Flat(c, f.nodes) => bb = f.bb,
           NEW g, g = BlockEmitter(Tail(f.nodes), bb)
    PROVE  Link(c, d, g)
<1>0. g.emits = "block" /\ g.nodes = Tail(f.nodes) /\ g.bb = bb
  BY DEF BlockEmitter
<1>1. f.nodes \in Seq(1..Len(c))
  BY DEF FrameType
<1>2. c[Head(f.nodes)].kind \notin Jumps
  BY DEF Ends
<1>a. /\ Flat(c, f.nodes) <=> c[Head(f.nodes)].kind \in {"do"} \cup Jumps /\ Flat(c, Tail(f.nodes))
      /\ Flat(c, f.nodes) => (Jumping(c, f.nodes)
             <=> c[Head(f.nodes)].kind \in Jumps \/ Jumping(c, Tail(f.nodes)))
      /\ Cut(c, f.nodes) <=> Ends(c, Head(f.nodes)) \/ Cut(c, Tail(f.nodes))
  BY <1>1, HeadShape, Zenon
<1>3. /\ ~Cut(c, f.nodes) => ~Cut(c, g.nodes)
      /\ Flat(c, f.nodes) => Flat(c, g.nodes)
      /\ Flat(c, f.nodes) => (Jumping(c, f.nodes) <=> Jumping(c, g.nodes))
  BY <1>0, <1>2, <1>a, Zenon
<1>4. Jumping(c, f.nodes) => Flat(c, f.nodes)
  BY DEF Jumping
<1>5. CASE d.emits = "block"
  <2>1. c[Head(d.nodes)].kind = "compif" /\ (NothingBehindJumps(c) => ~Cut(c, f.nodes))
    BY <1>5 DEF Link, Loops
  <2> QED
    BY <1>0, <1>3, <1>5, <2>1 DEF Link, Loops
<1>6. CASE d.emits = "if" /\ d.other = 0
  <2>1. f.bb = d.then /\ Flat(c, f.nodes) /\ (Jumping(c, f.nodes) <=> Jumping(c, c[d.stmt].then))
    BY <1>6 DEF Link
  <2>2. g.bb = d.then /\ Flat(c, g.nodes) /\ (Jumping(c, g.nodes) <=> Jumping(c, c[d.stmt].then))
    BY <1>0, <1>3, <2>1
  <2> QED
    BY <1>0, <1>6, <2>2 DEF Link, Loops
<1>9. CASE d.emits = "if" /\ d.other # 0
  <2>1. f.bb = d.other /\ Jumping(c, f.nodes) /\ AllJump(c, d.stmt)
    BY <1>9 DEF Link
  <2>2. g.bb = d.other /\ Jumping(c, g.nodes)
    BY <1>0, <1>3, <1>4, <2>1
  <2> QED
    BY <1>0, <1>9, <2>1, <2>2 DEF Link, Loops
<1>7. CASE d.emits \in {"while", "for"}
  <2>1. d.emits = "for" => (NothingBehindJumps(c) => ~Cut(c, f.nodes))
    BY <1>7 DEF Link, Loops
  <2> QED
    BY <1>0, <1>3, <1>7, <2>1 DEF Link, Loops
<1> QED
  BY <1>5, <1>6, <1>7, <1>9

\* The next statement of a block does.
LEMMA NextNodeGood ==
    ASSUME Ready, GoodNow, NextNode
    PROVE  FineNext
<1> DEFINE next == IF value > 0 THEN value ELSE Top.bb
           f == BlockEmitter(Tail(Top.nodes), next)
<1>1. /\ frames # <<>> /\ Top.emits = "block" /\ value # Calling /\ value # Poison
      /\ code[Node].kind \notin Jumps
      /\ frames' = SubSeq(frames, 1, Len(frames) - 1) \o <<f>> /\ ip' = next /\ value' = Calling
      /\ blocks' = blocks
  BY DEF NextNode, Resumes, TopBecomes, Under
<1>2. /\ Sound(blocks) /\ Len(blocks) \in Nat /\ frames \in Seq(FrameType(code))
      /\ TopOK(code, blocks, ip, Top, value, Live(code, frames))
  BY <1>1, TopNow
<1>3. Called(Top) /\ Top.nodes # <<>>
  BY <1>1 DEF Ready, Typed, Called, Top
<1>4. /\ Top \in FrameType(code) /\ Top.bb \in 1..Len(blocks) /\ Tail(Top.nodes) \in Seq(1..Len(code))
      /\ CodeOK(code) /\ Top.nodes \in Seq(1..Len(code))
  BY <1>1, <1>3, TopFacts DEF Ready, Top
<1>5. value \in {Other} \cup (1..Len(blocks))
  BY <1>1 DEF Ready, Typed
<1>6. ~Ends(code, Node) /\ Passed(code, blocks, ip, Top, value, Live(code, frames))
  <2>1. BlockWaits(code, blocks, ip, Top, value, Live(code, frames))
    BY <1>1, <1>2 DEF TopOK
  <2>2. ~Ends(code, Node)
    BY <1>1, <2>1 DEF BlockWaits, Jumped, Ends, Node
  <2> QED
    BY <2>1, <2>2 DEF BlockWaits, Node
<1>7. next = Cur(ip, value) /\ (Live(code, frames) => Open(blocks, next)) /\ next \in 1..Len(blocks)
  <2>1. CASE value = Other
    BY <1>4, <1>6, <2>1 DEF Passed, Cur, Other
  <2>2. CASE value \in 1..Len(blocks)
    BY <1>6, <2>2 DEF Passed, Cur
  <2> QED
    BY <1>5, <2>1, <2>2
<1>8. Flat(code, Top.nodes) => next = Top.bb
  <2> SUFFICES ASSUME Flat(code, Top.nodes) PROVE next = Top.bb
    OBVIOUS
  <2>1. code[Node].kind = "do"
    BY <1>1, <1>3, <1>4, HeadShape DEF Node
  <2>2. value = Other
    BY <1>6, <2>1 DEF Passed, Node
  <2> QED
    BY <2>2 DEF Other
<1> HIDE DEF next
<1>9. f \in FrameType(code)
  BY <1>2, <1>4, <1>7, EmitterTypes
<1>10. f.emits = "block" /\ f.bb = next /\ f.nodes = Tail(Top.nodes)
  BY DEF BlockEmitter
<1>11. ASSUME Len(frames) > 1
       PROVE  Link(code, frames[Len(frames) - 1], f)
  <2> DEFINE d == frames[Len(frames) - 1]
  <2>1. d \in FrameType(code) /\ Link(code, d, Top)
    BY <1>1, <1>11, BelowNow
  <2> HIDE DEF d
  <2>2. d.emits \in {"block", "if", "while", "for"}
    BY <2>1 DEF FrameType
  <2>3. ~Ends(code, Head(Top.nodes))
    BY <1>6 DEF Node
  <2>b. f = BlockEmitter(Tail(Top.nodes), next)
    OBVIOUS
  <2> HIDE DEF f
  <2>a. CodeOK(code) /\ Top \in FrameType(code) /\ Top.emits = "block" /\ Top.nodes # <<>>
    BY <1>1, <1>3, <1>4
  <2>4. Link(code, d, f)
    <3>1. \A top \in FrameType(code) :
             /\ top.emits = "block" /\ top.nodes # <<>> /\ Link(code, d, top)
             /\ ~Ends(code, Head(top.nodes))
             /\ Flat(code, top.nodes) => next = top.bb
             /\ f = BlockEmitter(Tail(top.nodes), next)
             => Link(code, d, f)
      BY <2>a, <2>2, LinkNext
    <3> QED
      BY <1>8, <2>a, <2>b, <2>1, <2>3, <3>1
  <2> QED
    BY <2>4 DEF d
<1> HIDE DEF f
<1>12. BecameOne(FrameType(code), frames, f, frames')
  BY <1>1, <1>2, <1>9, TopBecomesOne
<1>13. Own(f) = {} /\ FrameOK(code, blocks', f)
  BY <1>10 DEF Own, FrameOK
<1>14. MineNow = {next}
  <2>1. Own(Top) = {} /\ (Len(blocks) + 1)..Len(blocks') = {}
    BY <1>1, <1>2 DEF Own
  <2> QED
    BY <1>7, <2>1 DEF MineNow, Mine
<1>15. Around(blocks, blocks', MineNow, ip, value, ip', value')
  BY <1>1, <1>2, <1>14 DEF Around
<1>16. Fresh(code, blocks', MineNow, ip', value', f)
  BY <1>13 DEF Fresh
<1>17. \A b \in MineNow : Open(blocks', b) => b = Cur(ip', value') \/ b \in Own(f)
  BY <1>1, <1>14 DEF Cur, Calling
<1>18. Cut(code, Top.nodes) => Cut(code, f.nodes)
  BY <1>3, <1>4, <1>6, <1>10, HeadShape DEF Node
<1>19. TopOK(code, blocks', ip', f, value', Live(code, frames))
  <2>1. AtStart(code, blocks', ip', f, Live(code, frames))
    BY <1>1, <1>7, <1>10 DEF AtStart
  <2> QED
    BY <1>1, <2>1 DEF TopOK
<1> QED
  BY <1>1, <1>2, <1>10, <1>11, <1>12, <1>15, <1>16, <1>17, <1>18, <1>19, Replaces

-----------------------------------------------------------------------------
(* New calls *)

\* The call f makes the call g.
Enters(c, bs, f, g) ==
    /\ g.emits \in {"block", "if"}
    /\ NothingBehindJumps(c) \/ f.emits = "if" \/ g.emits = "if" => Open(bs, g.bb)
    /\ g.emits = "if" => g.then = 0 /\ g.other = 0 /\ c[g.stmt].kind = "if"

\* ... which owns no block yet, ...
LEMMA EntersFresh ==
    ASSUME NEW c, NEW bs, NEW f, NEW g, Enters(c, bs, f, g), NEW mine, NEW q, NEW w
    PROVE  Own(g) = {} /\ Fresh(c, bs, mine, q, w, g)
<1>1. Own(g) = {}
  BY DEF Enters, Own
<1>2. FrameOK(c, bs, g)
  BY DEF Enters, FrameOK
<1> QED
  BY <1>1, <1>2 DEF Fresh

\* ... and goes on in it.
LEMMA EntersTop ==
    ASSUME NEW c, NEW bs, NEW f, NEW g, Enters(c, bs, f, g), NEW live,
           live => NothingBehindJumps(c) \/ f.emits = "if"
    PROVE  TopOK(c, bs, g.bb, g, Calling, live)
<1>1. AtStart(c, bs, g.bb, g, live)
  BY DEF Enters, AtStart
<1> QED
  BY <1>1 DEF TopOK

\* The call on top becomes f, which makes the call g.
LEMMA CallsTwo ==
    ASSUME Ready, GoodNow, frames # <<>>, NEW f, NEW g,
           BecameTwo(FrameType(code), frames, f, g, frames'),
           value' = Calling, ip' = g.bb, Enters(code, blocks', f, g),
           Around(blocks, blocks', MineNow, ip, value, ip', value'),
           Fresh(code, blocks', MineNow, ip', value', f),
           Len(frames) > 1 => Link(code, frames[Len(frames) - 1], f), Link(code, f, g),
           \A b \in MineNow : Open(blocks', b) => b = ip' \/ b \in Own(f),
           Sound(blocks'), f.emits = Top.emits, f.nodes = Top.nodes
    PROVE  FineNext
<1>1. /\ Len(blocks) \in Nat /\ CallsOK(code, blocks, frames, ip, value)
      /\ StackOK(code, frames, Len(blocks)) /\ (Len(frames) > 1 \/ Len(frames) = 1)
      /\ Top = frames[Len(frames)]
      /\ frames[1].emits = "block" /\ (NothingBehindJumps(code) => Excused \/ Cut(code, frames[1].nodes))
  BY TopNow
<1>2. MineNow = Mine(blocks, blocks', frames[Len(frames)], ip, value)
  BY DEF MineNow, Top
<1>3. Own(g) = {} /\ Fresh(code, blocks', MineNow, ip', value', g)
  BY EntersFresh
<1>4. Cur(ip', value') = ip'
  BY DEF Cur, Calling
<1>5. \A b \in MineNow : Open(blocks', b) => b = Cur(ip', value') \/ b \in Own(f) \cup Own(g)
  BY <1>4
<1>6. Own(f) \cap Own(g) = {}
  BY <1>3
<1>7. CallsOK(code, blocks', frames', ip', value')
  BY <1>1, <1>2, <1>3, <1>5, <1>6, AfterTwo
<1>8. /\ frames' # <<>> /\ frames'[Len(frames')] = g
      /\ Live(code, frames') => NothingBehindJumps(code) \/ f.emits = "if"
      /\ frames'[1].emits = frames[1].emits /\ frames'[1].nodes = frames[1].nodes
  <2>1. /\ Len(frames) \in Nat \ {0} /\ Len(frames') = Len(frames) + 1 /\ frames'[Len(frames)] = f
        /\ frames'[Len(frames) + 1] = g
        /\ frames' \in Seq(FrameType(code)) /\ \A k \in 1..(Len(frames) - 1) : frames'[k] = frames[k]
    BY DEF BecameTwo
  <2>2. Len(frames) > 1 => 1 \in 1..(Len(frames) - 1)
    BY <2>1
  <2>3. frames' # <<>> /\ Len(frames') - 1 = Len(frames)
    BY <2>1
  <2>4. frames'[1].emits = frames[1].emits /\ frames'[1].nodes = frames[1].nodes
    <3>1. CASE Len(frames) > 1
      BY <2>1, <2>2, <3>1
    <3>2. CASE Len(frames) = 1
      BY <1>1, <2>1, <3>2
    <3> QED
      BY <1>1, <3>1, <3>2
  <2> QED
    BY <2>1, <2>3, <2>4 DEF Live
<1>9. First(code, Excused, blocks', ip', frames')
  BY <1>1, <1>8 DEF First
<1>10. TopOK(code, blocks', g.bb, g, Calling, Live(code, frames'))
  BY <1>8, EntersTop
<1> QED
  BY <1>7, <1>8, <1>9, <1>10 DEF FineNext, Fine, Good

\* The block on top makes the call g, which makes the call h.
LEMMA CallsThree ==
    ASSUME Ready, GoodNow, frames # <<>>, NEW g, NEW h,
           BecameThree(FrameType(code), frames, Top, g, h, frames'),
           value' = Calling, ip' = h.bb, Enters(code, blocks', g, h),
           Around(blocks, blocks', MineNow, ip, value, ip', value'),
           Own(Top) = {}, FrameOK(code, blocks', Top),
           Fresh(code, blocks', MineNow, ip', value', g),
           Link(code, Top, g), Link(code, g, h),
           \A b \in MineNow : Open(blocks', b) => b = ip' \/ b \in Own(g),
           Sound(blocks')
    PROVE  FineNext
<1>1. /\ Len(blocks) \in Nat /\ CallsOK(code, blocks, frames, ip, value)
      /\ StackOK(code, frames, Len(blocks)) /\ (Len(frames) > 1 \/ Len(frames) = 1)
      /\ Top = frames[Len(frames)]
      /\ frames[1].emits = "block" /\ (NothingBehindJumps(code) => Excused \/ Cut(code, frames[1].nodes))
  BY TopNow
<1>2. MineNow = Mine(blocks, blocks', frames[Len(frames)], ip, value)
  BY DEF MineNow, Top
<1>3. Own(h) = {} /\ Fresh(code, blocks', MineNow, ip', value', h)
  BY EntersFresh
<1>4. Cur(ip', value') = ip'
  BY DEF Cur, Calling
<1>5. \A b \in MineNow : Open(blocks', b) => b = Cur(ip', value') \/ b \in Own(g)
  BY <1>4
<1>6. Fresh(code, blocks', MineNow, ip', value', Top)
  BY DEF Fresh
<1>a. Len(frames) > 1 => Link(code, frames[Len(frames) - 1], Top)
  BY BelowNow
<1>7. CallsOK(code, blocks', frames', ip', value')
  BY <1>1, <1>2, <1>3, <1>5, <1>6, <1>a, AfterThree
<1>8. /\ frames' # <<>> /\ frames'[Len(frames')] = h
      /\ Live(code, frames') => NothingBehindJumps(code) \/ g.emits = "if"
      /\ frames'[1] = frames[1]
  <2>1. /\ Len(frames) \in Nat \ {0} /\ Len(frames') = Len(frames) + 2 /\ frames'[Len(frames)] = Top
        /\ frames'[Len(frames) + 1] = g /\ frames'[Len(frames) + 2] = h
        /\ frames' \in Seq(FrameType(code)) /\ \A k \in 1..(Len(frames) - 1) : frames'[k] = frames[k]
    BY DEF BecameThree
  <2>2. Len(frames) > 1 => 1 \in 1..(Len(frames) - 1)
    BY <2>1
  <2>3. frames' # <<>> /\ Len(frames') - 1 = Len(frames) + 1
    BY <2>1
  <2>4. frames'[1] = frames[1]
    <3>1. CASE Len(frames) > 1
      BY <2>1, <2>2, <3>1
    <3>2. CASE Len(frames) = 1
      BY <1>1, <2>1, <3>2
    <3> QED
      BY <1>1, <3>1, <3>2
  <2> QED
    BY <2>1, <2>3, <2>4 DEF Live
<1>9. First(code, Excused, blocks', ip', frames')
  BY <1>1, <1>8 DEF First
<1>10. TopOK(code, blocks', h.bb, h, Calling, Live(code, frames'))
  BY <1>8, EntersTop
<1> QED
  BY <1>7, <1>8, <1>9, <1>10 DEF FineNext, Fine, Good

\* Whom a call was made by depends on these of its variables.
LEMMA LinkSame ==
    ASSUME NEW c, NEW d, NEW f, NEW g,
           g.emits = f.emits, g.stmt = f.stmt, g.nodes = f.nodes, g.bb = f.bb, Link(c, d, f)
    PROVE  Link(c, d, g)
BY DEF Link

\* The call for an if keeps the function fine, ...
LEMMA EmitIfGood ==
    ASSUME Ready, GoodNow, EmitIf
    PROVE  FineNext
<1> DEFINE g == IfEmitter(Node, ip)
<1>1. /\ AtNode({"if"}) /\ frames' = SubSeq(frames, 1, Len(frames) - 1) \o <<Top, g>>
      /\ blocks' = blocks /\ ip' = ip /\ value' = value
  BY DEF EmitIf, TopBecomes, Under
<1>2. /\ frames # <<>> /\ Top.emits = "block" /\ Top.nodes # <<>> /\ value = Calling
      /\ Top \in FrameType(code) /\ Node \in 1..Len(code) /\ code[Node].kind = "if" /\ CodeOK(code)
      /\ ip = Top.bb /\ (Live(code, frames) => Open(blocks, ip))
      /\ Own(Top) = {} /\ Cur(ip, value) = ip /\ FrameOK(code, blocks', Top)
  BY <1>1, AtNodeNow
<1>3. /\ Sound(blocks) /\ Len(blocks) \in Nat /\ ip \in 1..Len(blocks) /\ frames \in Seq(FrameType(code))
  BY <1>2, TopNow
<1>4. g \in FrameType(code) /\ g.emits = "if" /\ g.stmt = Node /\ g.bb = ip /\ g.then = 0 /\ g.other = 0
  <2>1. g \in FrameType(code)
    BY <1>2, <1>3, EmitterTypes
  <2> QED
    BY <2>1 DEF IfEmitter, Emitter
<1> HIDE DEF g
<1>5. BecameTwo(FrameType(code), frames, Top, g, frames')
  BY <1>1, <1>2, <1>3, <1>4, TopBecomesTwo
<1>6. CASE Terminated(blocks, ip)
  <2>1. ~NothingBehindJumps(code)
    BY <1>2, <1>6 DEF Live, Open
  <2>2. Len(frames) + 1 \in 1..Len(frames') /\ frames'[Len(frames) + 1] = g
    BY <1>5 DEF BecameTwo
  <2>3. Doomed(blocks', frames')
    BY <1>1, <1>4, <1>6, <2>2 DEF Doomed
  <2> QED
    BY <2>1, <2>3 DEF FineNext, Fine
<1>7. CASE Open(blocks, ip)
  <2>1. MineNow = {ip}
    <3>1. (Len(blocks) + 1)..Len(blocks') = {}
      BY <1>1, <1>3
    <3> QED
      BY <1>2, <3>1 DEF MineNow, Mine
  <2>2. Around(blocks, blocks', MineNow, ip, value, ip', value')
    BY <1>1, <1>3, <2>1 DEF Around
  <2>3. Enters(code, blocks', Top, g)
    BY <1>1, <1>2, <1>4, <1>7 DEF Enters
  <2>4. Link(code, Top, g)
    BY <1>2, <1>4 DEF Link, Node, Loops
  <2>5. Fresh(code, blocks', MineNow, ip', value', Top)
    BY <1>2 DEF Fresh
  <2>6. Len(frames) > 1 => Link(code, frames[Len(frames) - 1], Top)
    BY <1>2, BelowNow
  <2> QED
    BY <1>1, <1>2, <1>3, <1>4, <1>5, <2>1, <2>2, <2>3, <2>4, <2>5, <2>6, CallsTwo
<1> QED
  BY <1>6, <1>7 DEF Open

\* The call on top creates a block for f.then or f.other and calls g to emit into it.
LEMMA BranchGood ==
    ASSUME Ready, GoodNow, frames # <<>>, Top.emits = "if",
           blocks' = Create(blocks, 1), ip' = Len(blocks) + 1, value' = Calling,
           NEW f, NEW g, f \in FrameType(code), g \in FrameType(code),
           f.emits = Top.emits, f.stmt = Top.stmt, f.nodes = Top.nodes, f.bb = Top.bb,
           frames' = SubSeq(frames, 1, Len(frames) - 1) \o <<f, g>>,
           g.emits \in {"block", "if"}, g.bb = Len(blocks) + 1,
           g.emits = "if" => g.then = 0 /\ g.other = 0 /\ code[g.stmt].kind = "if",
           \A b \in Own(f) : b \in {Cur(ip, value)} \cup Own(Top) \cup {Len(blocks) + 1}
           /\ b # Len(blocks) + 1,
           \A b \in {Cur(ip, value)} \cup Own(Top) : Open(blocks, b) => b \in Own(f),
           FrameOK(code, blocks', f), Link(code, f, g)
    PROVE  FineNext
<1>1. /\ Sound(blocks) /\ BlocksOK(blocks) /\ Len(blocks) \in Nat /\ ip \in 1..Len(blocks)
      /\ frames \in Seq(FrameType(code)) /\ StackOK(code, frames, Len(blocks))
      /\ Len(frames) \in Nat \ {0} /\ Top = frames[Len(frames)]
  BY TopNow
<1>2. CreateIs(blocks, 1, blocks')
  <2>1. 1 \in Nat
    OBVIOUS
  <2> QED
    BY <1>1, <2>1, CreateEnds
<1> DEFINE new == Len(blocks) + 1
<1>3. /\ Len(blocks') = new /\ Sound(blocks') /\ Open(blocks', new) /\ new \notin 1..Len(blocks)
      /\ \A a \in 1..Len(blocks) : blocks'[a] = blocks[a]
      /\ (Len(blocks) + 1)..Len(blocks') = {new}
  <2>1. /\ Len(blocks') = Len(blocks) + 1 /\ (Sound(blocks) => Sound(blocks'))
        /\ \A a \in 1..Len(blocks) : blocks'[a] = blocks[a]
        /\ \A a \in (Len(blocks) + 1)..(Len(blocks) + 1) : Open(blocks', a)
    BY <1>2 DEF CreateIs
  <2>2. Len(blocks) + 1 \in (Len(blocks) + 1)..(Len(blocks) + 1) /\ Len(blocks) + 1 \notin 1..Len(blocks)
        /\ (Len(blocks) + 1)..(Len(blocks) + 1) = {Len(blocks) + 1}
    BY <1>1
  <2> QED
    BY <1>1, <2>1, <2>2
<1>4. MineNow = {Cur(ip, value)} \cup Own(Top) \cup {new}
  BY <1>3 DEF MineNow, Mine
<1>5. Cur(ip, value) \in 1..Len(blocks) /\ Own(Top) \subseteq 1..Len(blocks)
  <2>1. value \in {Calling, Poison, Other} \cup (1..Len(blocks))
    BY DEF Ready, Typed
  <2>2. Cur(ip, value) \in 1..Len(blocks)
    BY <1>1, <2>1 DEF Cur, Calling, Poison, Other
  <2>3. Len(frames) \in 1..Len(frames)
    BY <1>1
  <2>4. Fits(code, Top, Len(blocks)) /\ Top \in FrameType(code)
    BY <1>1, <2>3 DEF StackOK
  <2> QED
    BY <1>1, <2>2, <2>4, OwnInRange
<1>6. BecameTwo(FrameType(code), frames, f, g, frames')
  BY <1>1, TopBecomesTwo
<1>7. Around(blocks, blocks', MineNow, ip, value, ip', value')
  BY <1>1, <1>3, <1>4 DEF Around
<1>8. Calling \notin Own(f)
  <2>1. \A b \in Own(f) : b \in 1..Len(blocks)
    BY <1>5
  <2> QED
    BY <2>1 DEF Calling
<1>9. Fresh(code, blocks', MineNow, ip', value', f)
  BY <1>4, <1>8 DEF Fresh
<1>10. Enters(code, blocks', f, g)
  BY <1>3 DEF Enters
<1>11. Len(frames) > 1 => Link(code, frames[Len(frames) - 1], f)
  BY BelowNow, LinkSame
<1>12. \A b \in MineNow : Open(blocks', b) => b = ip' \/ b \in Own(f)
  <2> SUFFICES ASSUME NEW b \in MineNow, Open(blocks', b), b # ip' PROVE b \in Own(f)
    OBVIOUS
  <2>1. b \in {Cur(ip, value)} \cup Own(Top) /\ b \in 1..Len(blocks)
    BY <1>4, <1>5
  <2>2. Open(blocks, b)
    BY <1>3, <2>1, SameEnd
  <2> QED
    BY <2>1, <2>2
<1> QED
  BY <1>3, <1>6, <1>7, <1>9, <1>10, <1>11, <1>12, CallsTwo

\* ... so does the call for its body, ...
LEMMA EmitThenGood ==
    ASSUME Ready, PlainIfs(code), GoodNow, EmitThen
    PROVE  FineNext
<1> DEFINE then == Len(blocks) + 1
           f == [Top EXCEPT !.then = then]
           g == BlockEmitter(code[Top.stmt].then, then)
<1>1. /\ frames # <<>> /\ Top.emits = "if" /\ value = Calling /\ value' = Calling
      /\ blocks' = Create(blocks, 1) /\ ip' = then
      /\ frames' = SubSeq(frames, 1, Len(frames) - 1) \o <<f, g>>
  BY DEF EmitThen, GoesOn, TopBecomes, Under
<1>2. /\ Sound(blocks) /\ BlocksOK(blocks) /\ Len(blocks) \in Nat /\ ip \in 1..Len(blocks)
      /\ FrameOK(code, blocks, Top) /\ TopOK(code, blocks, ip, Top, value, Live(code, frames))
  BY <1>1, TopNow
<1>3. /\ Top \in FrameType(code) /\ Top.bb \in 1..Len(blocks) /\ Top.stmt \in 1..Len(code)
      /\ CodeOK(code)
  BY <1>1, TopFacts DEF Ready, Top
<1>4. code[Top.stmt].then \in Seq(1..Len(code))
  BY <1>3, StatementFacts
<1>5. /\ Top.then = 0 /\ Top.other = 0 /\ ip = Top.bb /\ Open(blocks, Top.bb)
      /\ code[Top.stmt].kind = "if"
  <2>1. AtStart(code, blocks, ip, Top, Live(code, frames))
    BY <1>1, <1>2 DEF TopOK
  <2> QED
    BY <1>1, <1>2, <2>1 DEF AtStart, FrameOK
<1>6. Own(Top) = {} /\ Cur(ip, value) = ip
  BY <1>1, <1>5 DEF Own, Cur, Calling
<1>7. then \in Nat \ {0} /\ then \notin 1..Len(blocks)
  BY <1>2
<1>8. g \in FrameType(code)
  <2>1. then \in Nat /\ then \in 1..then
    BY <1>7
  <2> QED
    BY <1>3, <1>4, <2>1, EmitterTypes
<1>9. g.emits = "block" /\ g.nodes = code[Top.stmt].then /\ g.bb = then
  BY DEF BlockEmitter
<1>a. CreateIs(blocks, 1, blocks')
  <2>1. 1 \in Nat
    OBVIOUS
  <2> QED
    BY <1>1, <1>2, <2>1, CreateEnds
<1> HIDE DEF then
<1>10. /\ f \in FrameType(code) /\ f.emits = Top.emits /\ f.stmt = Top.stmt /\ f.nodes = Top.nodes
       /\ f.bb = Top.bb /\ f.then = then /\ f.other = Top.other
  <2>1. SameCall(code, Top, f, then, Top.other)
    BY <1>3, <1>7, BranchNamed, Zenon
  <2> QED
    BY <2>1, Zenon DEF SameCall
<1> HIDE DEF f, g
<1>11. Own(f) = {Top.bb}
  BY <1>1, <1>5, <1>7, <1>10 DEF Own
<1>12. Open(blocks', f.bb)
  <2>1. blocks'[Top.bb] = blocks[Top.bb]
    BY <1>3, <1>a DEF CreateIs
  <2> QED
    BY <1>5, <1>10, <2>1, SameEnd
<1>13. FrameOK(code, blocks', f)
  <2>1. f.bb # f.then
    BY <1>3, <1>7, <1>10
  <2> QED
    BY <1>1, <1>5, <1>10, <1>12, <2>1 DEF FrameOK
<1>14. Link(code, f, g)
  <2>1. Flat(code, code[Top.stmt].then)
    BY <1>3, <1>5, PlainIfShape DEF IfShape
  <2> QED
    BY <1>1, <1>5, <1>9, <1>10, <2>1 DEF Link, Loops
<1>15. \A b \in Own(f) : b \in {Cur(ip, value)} \cup Own(Top) \cup {Len(blocks) + 1}
         /\ b # Len(blocks) + 1
  BY <1>3, <1>5, <1>6, <1>7, <1>11 DEF then
<1>16. \A b \in {Cur(ip, value)} \cup Own(Top) : Open(blocks, b) => b \in Own(f)
  BY <1>5, <1>6, <1>11
<1> QED
  BY <1>1, <1>8, <1>9, <1>10, <1>13, <1>14, <1>15, <1>16, BranchGood DEF then

\* The branch behind else.
LEMMA ElseCallIs ==
    ASSUME CodeOK(code), NEW n \in Nat, NEW bb \in 1..n, NEW s \in 1..Len(code), code[s].else # "none",
           NEW g, g = ElseCall(s, bb)
    PROVE  /\ g \in FrameType(code) /\ g.bb = bb
           /\ \/ code[s].else = "block" /\ g.emits = "block" /\ g.nodes = code[s].other
              \/ /\ code[s].else = "if" /\ g.emits = "if" /\ g.stmt = code[s].other[1]
                 /\ g.then = 0 /\ g.other = 0 /\ code[g.stmt].kind = "if"
<1>1. /\ code[s].else \in {"none", "block", "if"}
      /\ code[s].else = "if" => code[code[s].other[1]].kind = "if"
  BY StatementFacts
<1>2. g \in FrameType(code)
  BY ElseCallTypes
<1>3. CASE code[s].else = "if"
  <2>1. g = IfEmitter(code[s].other[1], bb)
    BY <1>3 DEF ElseCall
  <2> QED
    BY <1>1, <1>2, <1>3, <2>1 DEF IfEmitter, Emitter
<1>4. CASE code[s].else = "block"
  <2>1. g = BlockEmitter(code[s].other, bb)
    BY <1>4 DEF ElseCall
  <2> QED
    BY <1>2, <1>4, <2>1 DEF BlockEmitter
<1> QED
  BY <1>1, <1>3, <1>4

\* ... the call for its else branch, ...
LEMMA EmitElseGood ==
    ASSUME Ready, PlainIfs(code), GoodNow, EmitElse
    PROVE  FineNext
<1> DEFINE other == Len(blocks) + 1
           f == [Top EXCEPT !.other = other]
           g == ElseCall(Top.stmt, other)
<1>1. /\ frames # <<>> /\ Top.emits = "if" /\ value # Calling /\ value' = Calling
      /\ code[Top.stmt].else # "none" /\ Top.other = 0
      /\ blocks' = Create(blocks, 1) /\ ip' = other
      /\ frames' = SubSeq(frames, 1, Len(frames) - 1) \o <<f, g>>
  BY DEF EmitElse, Resumes, TopBecomes, Under
<1>2. /\ Sound(blocks) /\ BlocksOK(blocks) /\ Len(blocks) \in Nat /\ ip \in 1..Len(blocks)
      /\ FrameOK(code, blocks, Top) /\ TopOK(code, blocks, ip, Top, value, Live(code, frames))
  BY <1>1, TopNow
<1>3. /\ Top \in FrameType(code) /\ Top.bb \in 1..Len(blocks) /\ Top.stmt \in 1..Len(code)
      /\ CodeOK(code)
  BY <1>1, TopFacts DEF Ready, Top
<1>4. Top.then # 0
  BY <1>1 DEF Ready, Typed, Called, Top
<1>5. /\ ip = Top.then /\ value = ip /\ (Terminated(blocks, ip) <=> Jumping(code, code[Top.stmt].then))
      /\ Open(blocks, Top.bb) /\ code[Top.stmt].kind = "if" /\ Top.bb # Top.then
  <2>1. ThenEmitted(code, blocks, ip, Top, value)
    BY <1>1, <1>2 DEF TopOK
  <2> QED
    BY <1>1, <1>2, <1>4, <2>1 DEF ThenEmitted, FrameOK
<1>6. Own(Top) = {Top.bb} /\ Cur(ip, value) = Top.then
  BY <1>1, <1>2, <1>4, <1>5 DEF Own, Cur
<1>7. other \in Nat \ {0} /\ other \notin 1..Len(blocks)
  BY <1>2
<1>8. /\ g \in FrameType(code) /\ g.bb = other
      /\ \/ code[Top.stmt].else = "block" /\ g.emits = "block" /\ g.nodes = code[Top.stmt].other
         \/ /\ code[Top.stmt].else = "if" /\ g.emits = "if" /\ g.stmt = code[Top.stmt].other[1]
            /\ g.then = 0 /\ g.other = 0 /\ code[g.stmt].kind = "if"
  <2>1. other \in Nat /\ other \in 1..other
    BY <1>7
  <2>2. g = ElseCall(Top.stmt, other)
    OBVIOUS
  <2> HIDE DEF other, f, g
  <2>3. CodeOK(code) /\ Top.stmt \in 1..Len(code) /\ code[Top.stmt].else # "none"
    BY <1>1, <1>3
  <2>4. \A s \in 1..Len(code) : code[s].else # "none" =>
           \A call : call = ElseCall(s, other) =>
               /\ call \in FrameType(code) /\ call.bb = other
               /\ \/ code[s].else = "block" /\ call.emits = "block" /\ call.nodes = code[s].other
                  \/ /\ code[s].else = "if" /\ call.emits = "if" /\ call.stmt = code[s].other[1]
                     /\ call.then = 0 /\ call.other = 0 /\ code[call.stmt].kind = "if"
    BY <2>1, <2>3, ElseCallIs
  <2> QED
    BY <2>2, <2>3, <2>4
<1>a. CreateIs(blocks, 1, blocks')
  <2>1. 1 \in Nat
    OBVIOUS
  <2> QED
    BY <1>1, <1>2, <2>1, CreateEnds
<1> HIDE DEF other
<1>10. /\ f \in FrameType(code) /\ f.emits = Top.emits /\ f.stmt = Top.stmt /\ f.nodes = Top.nodes
       /\ f.bb = Top.bb /\ f.then = Top.then /\ f.other = other
  <2>1. SameCall(code, Top, f, Top.then, other)
    BY <1>3, <1>7, BranchNamed, Zenon
  <2> QED
    BY <2>1, Zenon DEF SameCall
<1> HIDE DEF f, g
<1>11. Own(f) = {Top.bb, Top.then}
  BY <1>1, <1>4, <1>7, <1>10 DEF Own
<1>12. Open(blocks', f.bb) /\ (Terminated(blocks', f.then) <=> Jumping(code, code[Top.stmt].then))
  <2>1. blocks'[Top.bb] = blocks[Top.bb] /\ blocks'[Top.then] = blocks[Top.then]
    BY <1>2, <1>3, <1>5, <1>a DEF CreateIs
  <2> QED
    BY <1>5, <1>10, <2>1, SameEnd
<1>b. IfShape(code, Top.stmt)
  BY <1>3, <1>5, PlainIfShape
<1>13. FrameOK(code, blocks', f)
  <2>1. Terminated(blocks', f.then) <=> AllJump(code, f.stmt)
    BY <1>1, <1>10, <1>12, <1>b DEF IfShape
  <2> QED
    BY <1>1, <1>4, <1>5, <1>7, <1>10, <1>12, <2>1 DEF FrameOK
<1>14. Link(code, f, g)
  <2>0. f.emits = "if" /\ f.other # 0
    BY <1>1, <1>7, <1>10
  <2>1. CASE code[Top.stmt].else = "block"
    <3>1. AllJump(code, Top.stmt) /\ Jumping(code, code[Top.stmt].other)
      BY <1>b, <2>1 DEF IfShape
    <3> QED
      BY <1>8, <1>10, <2>0, <2>1, <3>1 DEF Link, Loops
  <2>2. CASE code[Top.stmt].else = "if"
    <3>1. AllJump(code, Top.stmt) <=> AllJump(code, code[Top.stmt].other[1])
      BY <1>b, <2>2 DEF IfShape
    <3> QED
      BY <1>8, <1>10, <2>0, <2>2, <3>1 DEF Link, Loops
  <2> QED
    BY <1>8, <2>1, <2>2
<1>15. \A b \in Own(f) : b \in {Cur(ip, value)} \cup Own(Top) \cup {Len(blocks) + 1}
         /\ b # Len(blocks) + 1
  BY <1>2, <1>3, <1>5, <1>6, <1>7, <1>11 DEF other
<1>16. \A b \in {Cur(ip, value)} \cup Own(Top) : Open(blocks, b) => b \in Own(f)
  BY <1>6, <1>11
<1> QED
  BY <1>1, <1>8, <1>10, <1>13, <1>14, <1>15, <1>16, BranchGood DEF other

\* ... and what an if of the compile time calls.
LEMMA EmitCompIfGood ==
    ASSUME Ready, GoodNow, EmitCompIf
    PROVE  FineNext
<1>1. AtNode({"compif"}) /\ blocks' = blocks /\ ip' = ip
  BY DEF EmitCompIf
<1>2. /\ frames # <<>> /\ Top.emits = "block" /\ Top.nodes # <<>> /\ value = Calling
      /\ Top \in FrameType(code) /\ Node \in 1..Len(code) /\ code[Node].kind = "compif" /\ CodeOK(code)
      /\ code[Node].then \in Seq(1..Len(code))
      /\ ip = Top.bb /\ (Live(code, frames) => Open(blocks, ip))
      /\ Own(Top) = {} /\ Cur(ip, value) = ip /\ FrameOK(code, blocks', Top)
  BY <1>1, AtNodeNow
<1>3. /\ Sound(blocks) /\ Len(blocks) \in Nat /\ ip \in 1..Len(blocks) /\ frames \in Seq(FrameType(code))
  BY <1>2, TopNow
<1>4. Node \in DOMAIN code
        /\ (NothingBehindJumps(code) => ~Cut(code, code[Node].then) /\ ~Cut(code, code[Node].other))
  BY <1>2, StatementFacts DEF NothingBehindJumps
<1>5. MineNow = {ip}
  <2>1. (Len(blocks) + 1)..Len(blocks') = {}
    BY <1>1, <1>3
  <2> QED
    BY <1>2, <2>1 DEF MineNow, Mine
<1>6. value' \in {Calling, Other} => Around(blocks, blocks', MineNow, ip, value, ip', value')
  BY <1>1, <1>3, <1>5 DEF Around
<1>7. Fresh(code, blocks', MineNow, ip', value', Top)
  BY <1>2 DEF Fresh
<1>8. Len(frames) > 1 => Link(code, frames[Len(frames) - 1], Top)
  BY <1>2, BelowNow
<1>9. NothingBehindJumps(code) => Open(blocks, ip)
  BY <1>2 DEF Live
<1>10. ASSUME NEW g, g \in FrameType(code), g.bb = ip,
              frames' = SubSeq(frames, 1, Len(frames) - 1) \o <<Top, g>>, value' = value,
              \/ g.emits = "block" /\ (NothingBehindJumps(code) => ~Cut(code, g.nodes))
              \/ /\ g.emits = "if" /\ (NothingBehindJumps(code) => ~AllJump(code, g.stmt))
                 /\ g.then = 0 /\ g.other = 0 /\ code[g.stmt].kind = "if"
       PROVE  FineNext
  <2>1. BecameTwo(FrameType(code), frames, Top, g, frames')
    BY <1>2, <1>3, <1>10, TopBecomesTwo
  <2>2. CASE g.emits = "if" /\ Terminated(blocks, ip)
    <3>1. ~NothingBehindJumps(code)
      BY <1>9, <2>2 DEF Open
    <3>2. Len(frames) + 1 \in 1..Len(frames') /\ frames'[Len(frames) + 1] = g
      BY <2>1 DEF BecameTwo
    <3>3. Doomed(blocks', frames')
      BY <1>1, <1>10, <2>2, <3>2 DEF Doomed
    <3> QED
      BY <3>1, <3>3 DEF FineNext, Fine
  <2>3. CASE g.emits = "block" \/ Open(blocks, ip)
    <3>1. Enters(code, blocks', Top, g)
      BY <1>1, <1>2, <1>9, <1>10, <2>3 DEF Enters
    <3>2. Link(code, Top, g)
      BY <1>2, <1>10 DEF Link, Node, Loops
    <3>3. \A b \in MineNow : Open(blocks', b) => b = ip' \/ b \in Own(Top)
      BY <1>1, <1>5
    <3>4. Around(blocks, blocks', MineNow, ip, value, ip', value')
      BY <1>2, <1>6, <1>10
    <3> QED
      BY <1>1, <1>2, <1>3, <1>7, <1>8, <1>10, <2>1, <3>1, <3>2, <3>3, <3>4, CallsTwo
  <2> QED
    BY <1>10, <2>2, <2>3 DEF Open
<1>11. ASSUME TopBecomes(<<Top, BlockEmitter(code[Node].then, ip)>>), value' = value
       PROVE  FineNext
  <2> DEFINE g == BlockEmitter(code[Node].then, ip)
  <2>1. g \in FrameType(code)
    BY <1>2, <1>3, EmitterTypes
  <2>2. g.emits = "block" /\ g.nodes = code[Node].then /\ g.bb = ip
    BY DEF BlockEmitter
  <2>3. frames' = SubSeq(frames, 1, Len(frames) - 1) \o <<Top, g>>
    BY <1>11 DEF TopBecomes, Under
  <2> HIDE DEF g
  <2> QED
    BY <1>4, <1>10, <1>11, <2>1, <2>2, <2>3
<1>12. ASSUME code[Node].else # "none", TopBecomes(<<Top, ElseCall(Node, ip)>>), value' = value
       PROVE  FineNext
  <2> DEFINE g == ElseCall(Node, ip)
  <2>1. frames' = SubSeq(frames, 1, Len(frames) - 1) \o <<Top, g>>
    BY <1>12 DEF TopBecomes, Under
  <2>2. /\ g \in FrameType(code) /\ g.bb = ip
        /\ \/ code[Node].else = "block" /\ g.emits = "block" /\ g.nodes = code[Node].other
           \/ /\ code[Node].else = "if" /\ g.emits = "if" /\ g.stmt = code[Node].other[1]
              /\ g.then = 0 /\ g.other = 0 /\ code[g.stmt].kind = "if"
    BY <1>2, <1>3, <1>12, ElseCallIs
  <2> HIDE DEF g
  <2>3. ASSUME g.emits = "if", NothingBehindJumps(code) PROVE ~AllJump(code, g.stmt)
    <3>1. code[Node].else = "if" /\ g.stmt = code[Node].other[1] /\ code[g.stmt].kind = "if"
      BY <2>2, <2>3
    <3>2. Len(code[Node].other) = 1 /\ code[Node].other \in Seq(1..Len(code))
      BY <1>2, <3>1, StatementFacts
    <3>3. 1 \in DOMAIN code[Node].other
      BY <3>2
    <3>4. ~Ends(code, g.stmt)
      BY <1>4, <2>3, <3>1, <3>3 DEF Cut
    <3> QED
      BY <3>1, <3>4 DEF Ends
  <2> QED
    BY <1>4, <1>10, <1>12, <2>1, <2>2, <2>3
<1>13. ASSUME frames' = frames, value' = Other
       PROVE  FineNext
  <2>1. BecameOne(FrameType(code), frames, Top, frames')
    BY <1>2, <1>13, SameCalls
  <2>2. Around(blocks, blocks', MineNow, ip, value, ip', value')
    BY <1>6, <1>13
  <2>3. \A b \in MineNow : Open(blocks', b) => b = Cur(ip', value') \/ b \in Own(Top)
    BY <1>1, <1>5, <1>13 DEF Cur, Other
  <2>4. Passed(code, blocks', ip', Top, value', Live(code, frames))
    BY <1>1, <1>2, <1>13 DEF Passed, Other, Poison
  <2>5. ~Ends(code, Head(Top.nodes))
    BY <1>2 DEF Ends, Jumps, Node
  <2>6. TopOK(code, blocks', ip', Top, value', Live(code, frames))
    BY <1>2, <1>13, <2>4, <2>5 DEF TopOK, BlockWaits, Loops, Other, Calling
  <2> QED
    BY <1>1, <1>2, <1>3, <1>7, <1>8, <2>1, <2>2, <2>3, <2>6, Replaces
<1> QED
  BY <1>11, <1>12, <1>13 DEF EmitCompIf

\* A loop is entered: the call g emits its body in call h.
LEMMA LoopGood ==
    ASSUME Ready, GoodNow, AtNode(Loops), NEW n \in Nat, n >= 3, LoopIs(blocks, ip, n, blocks'),
           ip' = Len(blocks) + 2, value' = value,
           NEW g, g \in FrameType(code), NEW h, h = BlockEmitter(code[Node].then, ip'),
           g.emits = code[Node].kind, Own(g) = (Len(blocks) + 3)..Len(blocks'),
           g.emits = "for" => g.then # g.other,
           frames' = SubSeq(frames, 1, Len(frames) - 1) \o <<Top, g, h>>
    PROVE  FineNext
<1>2. /\ frames # <<>> /\ Top.emits = "block" /\ Top.nodes # <<>> /\ value = Calling
      /\ Top \in FrameType(code) /\ Node \in 1..Len(code) /\ code[Node].kind \in Loops /\ CodeOK(code)
      /\ code[Node].then \in Seq(1..Len(code))
      /\ ip = Top.bb /\ (Live(code, frames) => Open(blocks, ip))
      /\ Own(Top) = {} /\ Cur(ip, value) = ip /\ FrameOK(code, blocks', Top)
  BY AtNodeNow
<1>3. /\ Sound(blocks) /\ BlocksOK(blocks) /\ Len(blocks) \in Nat /\ ip \in 1..Len(blocks)
      /\ frames \in Seq(FrameType(code))
  BY <1>2, TopNow
<1>4. CASE Terminated(blocks, ip)
  <2>1. ~Sound(blocks')
    BY <1>4 DEF LoopIs
  <2>2. ~NothingBehindJumps(code)
    BY <1>2, <1>4 DEF Live, Open
  <2> QED
    BY <2>1, <2>2 DEF FineNext, Fine, Doomed
<1>5. CASE Open(blocks, ip)
  <2> DEFINE N == Len(blocks)
             M == Len(blocks')
  <2>1. /\ Sound(blocks') /\ M = N + n
        /\ \A a \in 1..N : a # ip => blocks'[a] = blocks[a]
        /\ Terminated(blocks', ip) /\ Terminated(blocks', N + 1)
        /\ \A a \in (N + 2)..M : blocks'[a] = <<>>
    BY <1>3, <1>5 DEF LoopIs
  <2>2. h \in FrameType(code) /\ h.emits = "block" /\ h.bb = ip' /\ h.nodes = code[Node].then
    <3>1. ip' \in 1..ip' /\ ip' \in Nat
      BY <1>3
    <3>2. h \in FrameType(code)
      BY <1>2, <3>1, EmitterTypes
    <3> QED
      BY <3>2 DEF BlockEmitter
  <2>3. BecameThree(FrameType(code), frames, Top, g, h, frames')
    BY <1>2, <1>3, <2>2, TopBecomesThree
  <2>4. N \in Nat /\ M \in Nat /\ N <= M /\ N + 2 \in (N + 1)..M /\ N + 2 \in (N + 2)..M
        /\ (N + 3)..M \subseteq (N + 2)..M /\ (N + 3)..M \subseteq (N + 1)..M
        /\ N + 2 \notin (N + 3)..M /\ ip \notin (N + 3)..M /\ Calling \notin (N + 3)..M
        /\ \A a \in (N + 1)..M : a = N + 1 \/ a = N + 2 \/ a \in (N + 3)..M
    BY <1>3, <2>1 DEF Calling
  <2>5. MineNow = {ip} \cup ((N + 1)..M)
    BY <1>2 DEF MineNow, Mine
  <2> HIDE DEF N, M
  <2>6. ip' = N + 2 /\ Own(g) = (N + 3)..M
    BY DEF N, M
  <2>7. Around(blocks, blocks', MineNow, ip, value, ip', value')
    BY <2>1, <2>4, <2>5, <2>6 DEF Around, N, M
  <2>8. \A a \in (N + 2)..M : Open(blocks', a)
    BY <2>1 DEF Open, Terminated
  <2>9. Enters(code, blocks', g, h)
    BY <2>2, <2>4, <2>6, <2>8 DEF Enters
  <2>10. FrameOK(code, blocks', g)
    <3>1. \A a \in Own(g) : blocks'[a] = <<>>
      BY <2>1, <2>4, <2>6
    <3>2. CASE g.emits = "while"
      BY <3>1, <3>2 DEF FrameOK, Own
    <3>3. CASE g.emits = "for"
      BY <3>1, <3>3 DEF FrameOK, Own
    <3> QED
      BY <1>2, <3>2, <3>3 DEF Loops
  <2>11. Fresh(code, blocks', MineNow, ip', value', g)
    <3>1. Own(g) \subseteq MineNow /\ ip' \notin Own(g) /\ value' \notin Own(g)
      BY <1>2, <2>4, <2>5, <2>6
    <3> QED
      BY <2>10, <3>1 DEF Fresh
  <2>12. Link(code, Top, g)
    BY <1>2 DEF Link, Node, Loops
  <2>13. Link(code, g, h)
    <3>1. Node \in DOMAIN code
      BY <1>2, StatementFacts
    <3>2. g.emits = "for" /\ NothingBehindJumps(code) => ~Cut(code, h.nodes)
      BY <1>2, <2>2, <3>1 DEF NothingBehindJumps
    <3> QED
      BY <1>2, <2>2, <3>2 DEF Link, Loops
  <2>14. \A b \in MineNow : Open(blocks', b) => b = ip' \/ b \in Own(g)
    <3> SUFFICES ASSUME NEW b \in MineNow, Open(blocks', b) PROVE b = ip' \/ b \in Own(g)
      OBVIOUS
    <3>1. b # ip /\ b # N + 1
      BY <2>1 DEF Open
    <3> QED
      BY <2>4, <2>5, <2>6, <3>1
  <2> QED
    BY <1>2, <2>1, <2>2, <2>3, <2>7, <2>9, <2>10, <2>11, <2>12, <2>13, <2>14, CallsThree
<1> QED
  BY <1>4, <1>5 DEF Open

\* The next statement of the block on top.
LEMMA NodeNow ==
    ASSUME Ready, NEW kinds, AtNode(kinds)
    PROVE  /\ BlocksOK(blocks) /\ Len(blocks) \in Nat /\ ip \in 1..Len(blocks)
           /\ Node \in 1..Len(code) /\ Node \in Nat
<1>1. frames # <<>> /\ Top.emits = "block" /\ Top.nodes # <<>>
  BY DEF AtNode, GoesOn
<1>2. Node \in 1..Len(code)
  BY <1>1, TopFacts DEF Ready, Top, Node
<1> QED
  BY <1>2, StatementFacts DEF Ready, Typed, BlocksOK

\* What a while loop does to the blocks.
LEMMA EmitWhileIs ==
    ASSUME Ready, EmitWhile
    PROVE  LoopIs(blocks, ip, 3, blocks')
<1> DEFINE before == Len(blocks) + 1
           then   == before + 1
           merge  == before + 2
           created == Create(blocks, 3)
           entered == Put(created, ip, Br(before))
<1>1. blocks' = Put(entered, before, CondBr(Node, then, merge)) /\ AtNode({"while"})
  BY DEF EmitWhile
<1>3. BlocksOK(blocks) /\ Len(blocks) \in Nat /\ ip \in 1..Len(blocks) /\ Node \in Nat
  BY <1>1, NodeNow
<1>4. then = Len(blocks) + 2 /\ merge \in 1..(Len(blocks) + 3) /\ 3 \in Nat /\ 3 >= 3
  BY <1>3
<1>5. CreateIs(blocks, 3, created)
  BY <1>3, <1>4, CreateEnds
<1>6. ~IsTerminator(Effect(Node)) /\ entered = Put(created, ip, Br(Len(blocks) + 1))
      /\ blocks' = Put(entered, Len(blocks) + 1, CondBr(Node, Len(blocks) + 2, merge))
  BY <1>1, <1>4 DEF IsTerminator, Effect, Instr
<1> HIDE DEF created, entered, before, then, merge
<1> QED
  BY <1>3, <1>4, <1>5, <1>6, LoopBlocks

\* What a for loop does to the blocks.
LEMMA EmitForIs ==
    ASSUME Ready, EmitFor
    PROVE  LoopIs(blocks, ip, 4, blocks')
<1> DEFINE pre == Len(blocks) + 1
           then   == pre + 1
           update == pre + 2
           merge  == pre + 3
           created == Create(blocks, 4)
           begun   == Put(created, ip, IterInit(Node))
           entered == Put(begun, ip, Br(pre))
<1>1. blocks' = Put(entered, pre, CondBr(Node, then, merge)) /\ AtNode({"for"})
  BY DEF EmitFor
<1>3. BlocksOK(blocks) /\ Len(blocks) \in Nat /\ ip \in 1..Len(blocks) /\ Node \in Nat
  BY <1>1, NodeNow
<1>4. then = Len(blocks) + 2 /\ merge \in 1..(Len(blocks) + 4) /\ pre \in 1..merge /\ 4 \in Nat /\ 4 >= 3
  BY <1>3
<1>5. CreateIs(blocks, 4, created)
  BY <1>3, <1>4, CreateEnds
<1>6. entered = Put(begun, ip, Br(Len(blocks) + 1)) /\ begun = Put(created, ip, IterInit(Node))
      /\ blocks' = Put(entered, Len(blocks) + 1, CondBr(Node, Len(blocks) + 2, merge))
  BY <1>1, <1>4
<1>7. BlocksOK(created) /\ ip \in 1..Len(created) /\ pre \in 1..Len(created)
  BY <1>3, <1>5 DEF CreateIs
<1> HIDE DEF created, begun, entered, pre, then, merge
<1>8. PutIs(created, ip, IterInit(Node), begun) /\ ~IsTerminator(IterInit(Node))
  BY <1>3, <1>6, <1>7, PutEach
<1> QED
  BY <1>3, <1>4, <1>5, <1>6, <1>8, LoopBlocks

\* A loop that is entered does.
LEMMA EmitWhileGood ==
    ASSUME Ready, GoodNow, EmitWhile
    PROVE  FineNext
<1> DEFINE before == Len(blocks) + 1
           then   == before + 1
           merge  == before + 2
           g == Emitter("while", Node, before, before, merge)
           h == BlockEmitter(code[Node].then, ip')
<1>1. /\ AtNode({"while"}) /\ ip' = then /\ value' = value
      /\ frames' = SubSeq(frames, 1, Len(frames) - 1) \o <<Top, g, h>>
  BY DEF EmitWhile, TopBecomes, Under
<1>2. AtNode(Loops) /\ code[Node].kind = "while"
  BY <1>1 DEF AtNode, Loops
<1>3. /\ BlocksOK(blocks) /\ Len(blocks) \in Nat /\ ip \in 1..Len(blocks)
      /\ Node \in 1..Len(code) /\ Node \in Nat /\ CodeOK(code)
  BY <1>1, AtNodeNow, TopNow
<1>4. then = Len(blocks) + 2 /\ merge = Len(blocks) + 3 /\ 3 \in Nat /\ 3 >= 3
      /\ merge \in 1..(Len(blocks) + 3) /\ before \in 1..merge /\ merge \in Nat
  BY <1>3
<1>7. g \in FrameType(code) /\ g.emits = "while" /\ g.other = merge
  <2>1. g \in FrameType(code)
    <3>1. "while" \in Loops /\ merge \in 1..merge
      BY <1>4 DEF Loops
    <3> HIDE DEF before, merge
    <3> QED
      BY <1>3, <1>4, <3>1, EmitterTypes
  <2> QED
    BY <2>1 DEF Emitter
<1> HIDE DEF g, h, before, then, merge
<1>8. LoopIs(blocks, ip, 3, blocks')
  BY EmitWhileIs
<1>9. Own(g) = (Len(blocks) + 3)..Len(blocks')
  <2>1. Own(g) = {merge}
    BY <1>7 DEF Own
  <2>2. Len(blocks') = Len(blocks) + 3
    BY <1>8 DEF LoopIs
  <2> QED
    BY <1>3, <1>4, <2>1, <2>2
<1>10. ip' = Len(blocks) + 2 /\ h = BlockEmitter(code[Node].then, ip')
  BY <1>1, <1>4 DEF h
<1> QED
  BY <1>1, <1>2, <1>4, <1>7, <1>8, <1>9, <1>10, LoopGood

\* So does a for loop.
LEMMA EmitForGood ==
    ASSUME Ready, GoodNow, EmitFor
    PROVE  FineNext
<1> DEFINE pre == Len(blocks) + 1
           then   == pre + 1
           update == pre + 2
           merge  == pre + 3
           g == Emitter("for", Node, pre, update, merge)
           h == BlockEmitter(code[Node].then, ip')
<1>1. /\ AtNode({"for"}) /\ ip' = then /\ value' = value
      /\ frames' = SubSeq(frames, 1, Len(frames) - 1) \o <<Top, g, h>>
  BY DEF EmitFor, TopBecomes, Under
<1>2. AtNode(Loops) /\ code[Node].kind = "for"
  BY <1>1 DEF AtNode, Loops
<1>3. /\ BlocksOK(blocks) /\ Len(blocks) \in Nat /\ ip \in 1..Len(blocks)
      /\ Node \in 1..Len(code) /\ Node \in Nat /\ CodeOK(code)
  BY <1>1, AtNodeNow, TopNow
<1>4. then = Len(blocks) + 2 /\ update = Len(blocks) + 3 /\ merge = Len(blocks) + 4 /\ 4 \in Nat
        /\ 4 >= 3
      /\ merge \in 1..(Len(blocks) + 4) /\ pre \in 1..merge /\ update \in 1..merge /\ merge \in Nat
  BY <1>3
<1>7. g \in FrameType(code) /\ g.emits = "for" /\ g.other = merge /\ g.then = update
  <2>1. g \in FrameType(code)
    <3>1. "for" \in Loops /\ merge \in 1..merge
      BY <1>4 DEF Loops
    <3> HIDE DEF pre, merge, update
    <3> QED
      BY <1>3, <1>4, <3>1, EmitterTypes
  <2> QED
    BY <2>1 DEF Emitter
<1> HIDE DEF g, h, pre, then, merge, update
<1>8. LoopIs(blocks, ip, 4, blocks')
  BY EmitForIs
<1>9. Own(g) = (Len(blocks) + 3)..Len(blocks')
  <2>1. Own(g) = {update, merge}
    BY <1>7 DEF Own
  <2>2. Len(blocks') = Len(blocks) + 4
    BY <1>8 DEF LoopIs
  <2> QED
    BY <1>3, <1>4, <2>1, <2>2
<1>10. ip' = Len(blocks) + 2 /\ h = BlockEmitter(code[Node].then, ip') /\ update # merge
  BY <1>1, <1>3, <1>4 DEF h
<1> QED
  BY <1>1, <1>2, <1>4, <1>7, <1>8, <1>9, <1>10, LoopGood

\* Each step of the emitters.
LEMMA EmitStepGood ==
    ASSUME Ready, PlainIfs(code), GoodNow, EmitStep
    PROVE  FineNext
BY LeafGood, NextNodeGood, BlockReturnsGood, EmitIfGood, EmitThenGood, EmitElseGood,
   EndIfPoisonedGood, EndIfGood, EmitCompIfGood, EmitWhileGood, EndWhileGood, EmitForGood, EndForGood
   DEF EmitStep

-----------------------------------------------------------------------------
(* What cannot be mended *)

\* What takes the place of the call on top: the calls gs instead of fs.
CallsAre(fs, gs, f, g, h) ==
    LET under == SubSeq(fs, 1, Len(fs) - 1)
    IN  \/ gs = fs
        \/ gs = under
        \/ gs = under \o <<f>>
        \/ gs = under \o <<f, g>>
        \/ gs = under \o <<f, g, h>>

\* The calls below the top stay, whatever takes its place.
LEMMA BelowStays ==
    ASSUME NEW F, NEW fs \in Seq(F), fs # <<>>, NEW f, NEW g, NEW h, NEW gs,
           CallsAre(fs, gs, f, g, h)
    PROVE  /\ Len(fs) \in Nat \ {0} /\ Len(gs) \in Nat
           /\ \A k \in 1..(Len(fs) - 1) : k \in 1..Len(gs) /\ gs[k] = fs[k]
<1> DEFINE G == F \cup {f, g, h}
<1>1. fs \in Seq(G) /\ f \in G /\ g \in G /\ h \in G
  <2>1. F \subseteq G
    OBVIOUS
  <2> QED
    BY <2>1, SeqMonotonic
<1> HIDE DEF G
<1> DEFINE under == SubSeq(fs, 1, Len(fs) - 1)
           n == Len(fs)
<1>2. n \in Nat \ {0} /\ Len(under) = n - 1 /\ under \in Seq(G) /\ \A k \in 1..(n - 1) : under[k] = fs[k]
  BY <1>1, WithoutTop
<1>3. CASE gs = fs \/ gs = under
  BY <1>1, <1>2, <1>3
<1>4. CASE gs = under \o <<f>>
  <2>1. BecameOne(G, fs, f, gs)
    BY <1>1, <1>4, TopBecomesOne
  <2> QED
    BY <1>2, <2>1 DEF BecameOne
<1>5. CASE gs = under \o <<f, g>>
  <2>1. BecameTwo(G, fs, f, g, gs)
    BY <1>1, <1>5, TopBecomesTwo
  <2> QED
    BY <1>2, <2>1 DEF BecameTwo
<1>6. CASE gs = under \o <<f, g, h>>
  <2>1. BecameThree(G, fs, f, g, h, gs)
    BY <1>1, <1>6, TopBecomesThree
  <2> QED
    BY <1>2, <2>1 DEF BecameThree
<1> QED
  BY <1>3, <1>4, <1>5, <1>6 DEF CallsAre

\* A step of the emitters: how the stack of calls changes.
CallsChange(fs, gs) == \E f, g, h : CallsAre(fs, gs, f, g, h)

\* Each step does one of these.
LEMMA EmitStepCalls ==
    ASSUME EmitStep
    PROVE  frames # <<>> /\ CallsChange(frames, frames')
<1>1. frames # <<>>
  BY DEF EmitStep, EmitDo, EmitReturn, EmitJump, NextNode, CutBlock, EndBlock, EmitIf, EmitThen,
         EmitElse, EndIfPoisoned, EndIf, EmitCompIf, EmitWhile, EndWhile, EmitFor, EndFor,
         AtNode, GoesOn, Resumes, BranchesEmitted
<1>2. CASE EmitDo \/ EmitReturn \/ EmitJump
  BY <1>1, <1>2 DEF EmitDo, EmitReturn, EmitJump, CallsChange, CallsAre
<1>3. CASE NextNode
  BY <1>1, <1>3 DEF NextNode, TopBecomes, Under, CallsChange, CallsAre
<1>4. CASE CutBlock \/ EndBlock \/ EndIfPoisoned \/ EndIf \/ EndWhile \/ EndFor
  BY <1>1, <1>4 DEF CutBlock, EndBlock, EndIfPoisoned, EndIf, EndWhile, EndFor, Returns, Under,
     CallsChange, CallsAre
<1>5. CASE EmitIf
  BY <1>1, <1>5 DEF EmitIf, TopBecomes, Under, CallsChange, CallsAre
<1>6. CASE EmitThen
  BY <1>1, <1>6 DEF EmitThen, TopBecomes, Under, CallsChange, CallsAre
<1>7. CASE EmitElse
  BY <1>1, <1>7 DEF EmitElse, TopBecomes, Under, CallsChange, CallsAre
<1>8. CASE EmitCompIf
  BY <1>1, <1>8 DEF EmitCompIf, TopBecomes, Under, CallsChange, CallsAre
<1>9. CASE EmitWhile
  BY <1>1, <1>9 DEF EmitWhile, TopBecomes, Under, CallsChange, CallsAre
<1>10. CASE EmitFor
  BY <1>1, <1>10 DEF EmitFor, TopBecomes, Under, CallsChange, CallsAre
<1> QED
  BY <1>1, <1>2, <1>3, <1>4, <1>5, <1>6, <1>7, <1>8, <1>9, <1>10 DEF EmitStep

\* The calls below the top stay.
LEMMA EmitStepBelow ==
    ASSUME Ready, EmitStep
    PROVE  /\ frames # <<>> /\ Len(frames) \in Nat \ {0} /\ Len(frames') \in Nat
           /\ \A k \in 1..(Len(frames) - 1) : k \in 1..Len(frames') /\ frames'[k] = frames[k]
<1>1. frames # <<>> /\ CallsChange(frames, frames')
  BY EmitStepCalls
<1>2. frames \in Seq(FrameType(code))
  BY DEF Ready, Typed, StackOK
<1>3. PICK f, g, h : CallsAre(frames, frames', f, g, h)
  BY <1>1 DEF CallsChange
<1> QED
  BY <1>1, <1>2, <1>3, BelowStays

\* Terminators stay.
LEMMA EmitStepGrows ==
    ASSUME Ready, EmitStep
    PROVE  Grows(blocks, blocks')
<1>0. BlocksOK(blocks) /\ Len(blocks) \in Nat
  BY DEF Ready, Typed, BlocksOK
<1>1. CASE EmitDo \/ EmitReturn \/ EmitJump
  BY <1>0, <1>1, LeafPuts, PutGrows
<1>2. CASE NextNode \/ CutBlock \/ EndBlock \/ EmitIf \/ EmitCompIf
  <2>1. blocks' = blocks
    BY <1>2 DEF NextNode, CutBlock, EndBlock, EmitIf, EmitCompIf
  <2> QED
    BY <1>0, <2>1 DEF Grows
<1>3. CASE EmitThen \/ EmitElse
  <2>1. blocks' = Create(blocks, 1) /\ 1 \in Nat
    BY <1>3 DEF EmitThen, EmitElse
  <2> QED
    BY <1>0, <2>1, CreateEnds, CreateGrows
<1>4. CASE EndIfPoisoned
  BY <1>0, <1>4, EndIfPoisonedPuts, PutGrows
<1>5. CASE EndIf
  BY <1>5, EndIfJoins DEF JoinIs
<1>6. CASE EmitWhile \/ EmitFor
  BY <1>6, EmitWhileIs, EmitForIs DEF LoopIs
<1>7. CASE EndWhile
  BY <1>0, <1>7, EndWhileIs, SafeBrGrows
<1>8. CASE EndFor
  BY <1>8, EndForIs DEF ForIs
<1> QED
  BY <1>1, <1>2, <1>3, <1>4, <1>5, <1>6, <1>7, <1>8 DEF EmitStep

\* A function that will be refused stays one.
LEMMA DoomStays ==
    ASSUME Ready, EmitStep, Doomed(blocks, frames)
    PROVE  Doomed(blocks', frames')
<1>1. /\ frames # <<>> /\ Len(frames) \in Nat \ {0} /\ Len(frames') \in Nat
      /\ \A k \in 1..(Len(frames) - 1) : k \in 1..Len(frames') /\ frames'[k] = frames[k]
  BY EmitStepBelow
<1>2. Grows(blocks, blocks')
  BY EmitStepGrows
<1>3. /\ StackOK(code, frames, Len(blocks)) /\ frames \in Seq(FrameType(code))
      /\ Top = frames[Len(frames)]
      /\ Top \in FrameType(code)
  <2>1. StackOK(code, frames, Len(blocks)) /\ frames \in Seq(FrameType(code))
    BY DEF Ready, Typed, StackOK
  <2> QED
    BY <1>1, <2>1, WithoutTop DEF Top
<1>4. CASE ~Sound(blocks)
  BY <1>2, <1>4 DEF Grows, Doomed
<1>5. ASSUME NEW k \in 1..Len(frames), frames[k].emits = "if", Terminated(blocks, frames[k].bb),
             Sound(blocks')
      PROVE  Doomed(blocks', frames')
  <2>1. frames[k].bb \in 1..Len(blocks)
    BY <1>3 DEF StackOK, Fits
  <2>2. Terminated(blocks', frames[k].bb)
    BY <1>2, <1>5, <2>1 DEF Grows
  <2>3. CASE k # Len(frames)
    <3>1. k \in 1..(Len(frames) - 1)
      BY <1>1, <2>3
    <3> QED
      BY <1>1, <1>5, <2>2, <3>1 DEF Doomed
  <2>4. CASE k = Len(frames)
    <3>0. Top.emits = "if" /\ Terminated(blocks, Top.bb)
      BY <1>3, <1>5, <2>4
    <3>1. CASE EndIf
      <4>1. ~Sound(blocks')
        BY <3>0, <3>1, EndIfJoins DEF JoinIs
      <4> QED
        BY <4>1 DEF Doomed
    <3>2. CASE EndIfPoisoned
      <4>1. ~Sound(blocks')
        BY <3>0, <3>2, EndIfPoisonedPuts DEF PutIs
      <4> QED
        BY <4>1 DEF Doomed
    <3>3. ASSUME NEW f, NEW g, frames' = SubSeq(frames, 1, Len(frames) - 1) \o <<f, g>>,
                 f.emits = Top.emits, f.bb = Top.bb
          PROVE  Doomed(blocks', frames')
      <4>1. Len(frames) \in 1..Len(frames') /\ frames'[Len(frames)] = f
        <5>1. BecameTwo(FrameType(code) \cup {f, g}, frames, f, g, frames')
          BY <1>1, <1>3, <3>3, TopBecomesTwo, SeqMonotonic
        <5> QED
          BY <1>1, <5>1 DEF BecameTwo
      <4> QED
        BY <1>3, <2>2, <2>4, <3>0, <3>3, <4>1 DEF Doomed
    <3>4. CASE EmitThen
      <4> DEFINE then == Len(blocks) + 1
                 f == [Top EXCEPT !.then = then]
                 g == BlockEmitter(code[Top.stmt].then, then)
      <4>1. frames' = SubSeq(frames, 1, Len(frames) - 1) \o <<f, g>>
        BY <3>4 DEF EmitThen, TopBecomes, Under
      <4>2. f.emits = Top.emits /\ f.bb = Top.bb
        BY <1>3 DEF FrameType
      <4> HIDE DEF f, g
      <4> QED
        BY <3>3, <4>1, <4>2
    <3>5. CASE EmitElse
      <4> DEFINE other == Len(blocks) + 1
                 f == [Top EXCEPT !.other = other]
                 g == ElseCall(Top.stmt, other)
      <4>1. frames' = SubSeq(frames, 1, Len(frames) - 1) \o <<f, g>>
        BY <3>5 DEF EmitElse, TopBecomes, Under
      <4>2. f.emits = Top.emits /\ f.bb = Top.bb
        BY <1>3 DEF FrameType
      <4> HIDE DEF f, g
      <4> QED
        BY <3>3, <4>1, <4>2
    <3>6. ~(EmitDo \/ EmitReturn \/ EmitJump \/ NextNode \/ CutBlock \/ EndBlock \/ EmitIf \/ EmitCompIf
            \/ EmitWhile \/ EndWhile \/ EmitFor \/ EndFor)
      BY <3>0 DEF EmitDo, EmitReturn, EmitJump, NextNode, CutBlock, EndBlock, EmitIf, EmitCompIf,
                  EmitWhile, EndWhile, EmitFor, EndFor, AtNode, GoesOn, Resumes
    <3> QED
      BY <3>1, <3>2, <3>4, <3>5, <3>6 DEF EmitStep
  <2> QED
    BY <2>3, <2>4
<1> QED
  BY <1>4, <1>5 DEF Doomed

\* Each step of the emitters keeps the function fine.
LEMMA FineStep ==
    ASSUME Ready, PlainIfs(code), Fine(code, Excused, blocks, ip, frames, value), EmitStep
    PROVE  FineNext
<1>1. CASE GoodNow
  BY <1>1, EmitStepGood
<1>2. CASE Doomed(blocks, frames) /\ ~NothingBehindJumps(code)
  BY <1>2, DoomStays DEF FineNext, Fine
<1> QED
  BY <1>1, <1>2 DEF Fine, GoodNow

-----------------------------------------------------------------------------
(* The stack of calls and loop_bbs *)

\* What f is called for holds what g is called for: outside of all loops with it.
Within(c, f, g) ==
    \A outside \in SUBSET (1..Len(c)) : Outside(c, outside) /\ Held(outside, f) => Held(outside, g)

\* A step by what it does to the stack of calls and to loop_bbs. A block goes on with its
\* next statement; ...
GoesOnAs(f) ==
    /\ BecameOne(FrameType(code), frames, f, frames') /\ loops' = loops
    /\ f.emits = "block" /\ Top.emits = "block" /\ Top.nodes # <<>> /\ f.nodes = Tail(Top.nodes)

\* ... the call on top, which is f now, makes the call g; ...
CallsBranch(f, g) ==
    /\ BecameTwo(FrameType(code), frames, f, g, frames') /\ loops' = loops
    /\ f.emits = Top.emits /\ f.stmt = Top.stmt /\ f.nodes = Top.nodes
    /\ Top.emits \notin Loops /\ g.emits \notin Loops /\ IfCall(code, g)
    /\ IfCall(code, Top) => Within(code, f, g)

\* ... or a loop is entered.
CallsLoop(g, h) ==
    /\ BecameThree(FrameType(code), frames, Top, g, h, frames')
    /\ Top.emits = "block" /\ g.emits \in Loops /\ h.emits = "block"
    /\ loops' = Append(loops, [merge |-> g.other, start |-> g.then])

\* The call on top returns, and a loop leaves loop_bbs.
CallsReturn ==
    /\ frames' = Under
    /\ loops' = IF Top.emits \in Loops THEN SubSeq(loops, 1, Len(loops) - 1) ELSE loops

\* A step of the emitters does one of these to the calls.
CallStep ==
    \/ frames' = frames /\ loops' = loops
    \/ CallsReturn
    \/ \E f : GoesOnAs(f)
    \/ \E f, g : CallsBranch(f, g)
    \/ \E g, h : CallsLoop(g, h)

\* What an emitter calls for a statement that is outside of all loops.
LEMMA NodesHeld ==
    ASSUME NEW c, NEW f \in FrameType(c), f.emits = "block", f.nodes # <<>>
    PROVE  /\ \A outside : Held(outside, f) => Head(f.nodes) \in outside
           /\ \A outside : Held(outside, f)
                  => \A i \in DOMAIN Tail(f.nodes) : Tail(f.nodes)[i] \in outside
<1>1. f.nodes \in Seq(1..Len(c))
  BY DEF FrameType
<1>2. Head(f.nodes) = f.nodes[1] /\ 1 \in DOMAIN f.nodes
  BY <1>1
<1>3. \A i \in DOMAIN Tail(f.nodes) : i + 1 \in DOMAIN f.nodes /\ Tail(f.nodes)[i] = f.nodes[i + 1]
  BY <1>1
<1> QED
  BY <1>2, <1>3 DEF Held

\* The branches of such a statement are outside of all loops as well.
LEMMA BlockHeld ==
    ASSUME NEW c, NEW s \in 1..Len(c), c[s].kind \in {"if", "compif"}, NEW g, g.emits = "block",
           g.nodes = c[s].then \/ g.nodes = c[s].other,
           NEW outside, Outside(c, outside), s \in outside
    PROVE  Held(outside, g)
BY DEF Held, Outside

\* The branch behind else is a block or an if.
LEMMA ElseKind ==
    ASSUME CodeOK(code), NEW n \in Nat, NEW bb \in 1..n, NEW s \in 1..Len(code), code[s].else # "none"
    PROVE  ElseCall(s, bb).emits \in {"block", "if"} /\ IfCall(code, ElseCall(s, bb))
<1> DEFINE g == ElseCall(s, bb)
<1>1. \/ code[s].else = "block" /\ g.emits = "block" /\ g.nodes = code[s].other
      \/ /\ code[s].else = "if" /\ g.emits = "if" /\ g.stmt = code[s].other[1]
         /\ g.then = 0 /\ g.other = 0 /\ code[g.stmt].kind = "if"
  BY ElseCallIs
<1> HIDE DEF g
<1>2. g.emits \in {"block", "if"} /\ IfCall(code, g)
  BY <1>1 DEF IfCall
<1> QED
  BY <1>2 DEF g

\* It is outside of all loops with its if.
LEMMA ElseHeld ==
    ASSUME CodeOK(code), NEW n \in Nat, NEW bb \in 1..n, NEW s \in 1..Len(code), code[s].else # "none",
           code[s].kind \in {"if", "compif"}
    PROVE  \A outside : Outside(code, outside) /\ s \in outside => Held(outside, ElseCall(s, bb))
<1> DEFINE g == ElseCall(s, bb)
<1>1. \/ code[s].else = "block" /\ g.emits = "block" /\ g.nodes = code[s].other
      \/ /\ code[s].else = "if" /\ g.emits = "if" /\ g.stmt = code[s].other[1]
         /\ g.then = 0 /\ g.other = 0 /\ code[g.stmt].kind = "if"
  BY ElseCallIs
<1>2. g \in FrameType(code)
  BY ElseCallTypes
<1>3. g.emits = "if" => g.nodes = <<>>
  BY DEF ElseCall, IfEmitter, Emitter, BlockEmitter
<1>4. code[s].else = "if" => 1 \in DOMAIN code[s].other
  BY StatementFacts
<1> HIDE DEF g
<1>5. ASSUME NEW outside, Outside(code, outside), s \in outside
      PROVE  Held(outside, g)
  <2>1. CASE g.emits = "block"
    BY <1>1, <1>5, <2>1, BlockHeld
  <2>2. CASE g.emits = "if"
    <3>1. g.stmt \in outside
      BY <1>1, <1>4, <1>5, <2>2 DEF Outside
    <3> QED
      BY <1>3, <2>2, <3>1 DEF Held
  <2> QED
    BY <1>1, <2>1, <2>2
<1> QED
  BY <1>5 DEF g

\* The steps by what they do to the calls: the next statement of a block, ...
LEMMA NextNodeCalls ==
    ASSUME Ready, NextNode
    PROVE  \E f : GoesOnAs(f)
<1> DEFINE f == BlockEmitter(Tail(Top.nodes), IF value > 0 THEN value ELSE Top.bb)
<1>1. /\ frames # <<>> /\ Top.emits = "block" /\ value # Calling /\ loops' = loops
      /\ frames' = SubSeq(frames, 1, Len(frames) - 1) \o <<f>>
  BY DEF NextNode, Resumes, TopBecomes, Under
<1>2. Top.nodes # <<>>
  BY <1>1 DEF Ready, Typed, Called, Top
<1>3. frames \in Seq(FrameType(code)) /\ frames \in Seq(FrameType(code) \cup {f})
  <2>1. frames \in Seq(FrameType(code))
    BY DEF Ready, Typed, StackOK
  <2> HIDE DEF f
  <2> QED
    BY <2>1, SeqMonotonic
<1>4. f.emits = "block" /\ f.nodes = Tail(Top.nodes)
  BY DEF BlockEmitter
<1>5. frames' \in Seq(FrameType(code))
  BY <1>1, NextNodeTyped DEF Ready, StaysTyped, Typed, StackOK
<1> HIDE DEF f
<1>6. BecameOne(FrameType(code) \cup {f}, frames, f, frames')
  BY <1>1, <1>3, TopBecomesOne
<1>7. BecameOne(FrameType(code), frames, f, frames')
  BY <1>5, <1>6 DEF BecameOne
<1>8. GoesOnAs(f)
  BY <1>1, <1>2, <1>4, <1>7 DEF GoesOnAs
<1> QED
  BY <1>8

\* ... an if, ...
LEMMA EmitIfCalls ==
    ASSUME Ready, EmitIf
    PROVE  CallsBranch(Top, IfEmitter(Node, ip))
<1> DEFINE g == IfEmitter(Node, ip)
<1>1. /\ AtNode({"if"}) /\ frames' = SubSeq(frames, 1, Len(frames) - 1) \o <<Top, g>> /\ loops' = loops
      /\ frames # <<>> /\ Top.emits = "block" /\ Top.nodes # <<>> /\ code[Node].kind = "if"
  BY DEF EmitIf, TopBecomes, Under, AtNode, GoesOn
<1>2. /\ Node \in 1..Len(code) /\ Len(blocks) \in Nat /\ ip \in 1..Len(blocks) /\ Top \in FrameType(code)
      /\ CodeOK(code) /\ frames \in Seq(FrameType(code))
  BY <1>1, TopFacts DEF Ready, Typed, StackOK, Top, Node
<1>3. g \in FrameType(code)
  BY <1>2, EmitterTypes
<1>4. g.emits = "if" /\ g.stmt = Node /\ g.nodes = <<>>
  BY DEF IfEmitter, Emitter
<1> HIDE DEF g
<1>5. BecameTwo(FrameType(code), frames, Top, g, frames')
  BY <1>1, <1>2, <1>3, TopBecomesTwo
<1>6. Within(code, Top, g)
  <2>1. \A outside : Held(outside, Top) => Node \in outside
    BY <1>1, <1>2, NodesHeld DEF Node
  <2>2. \A outside : Node \in outside => Held(outside, g)
    BY <1>4 DEF Held
  <2> QED
    BY <2>1, <2>2 DEF Within
<1>7. CallsBranch(Top, g)
  BY <1>1, <1>4, <1>5, <1>6 DEF CallsBranch, Loops, IfCall
<1> QED
  BY <1>7 DEF g

\* An if calls for one of its branches.
LEMMA BranchCalls ==
    ASSUME Ready, frames # <<>>, Top.emits = "if", NEW f \in FrameType(code), NEW g \in FrameType(code),
           f.emits = Top.emits, f.stmt = Top.stmt, f.nodes = Top.nodes,
           frames' = SubSeq(frames, 1, Len(frames) - 1) \o <<f, g>>, loops' = loops,
           g.emits \in {"block", "if"}, IfCall(code, g),
           code[Top.stmt].kind = "if" =>
               \A outside : Outside(code, outside) /\ Top.stmt \in outside => Held(outside, g)
    PROVE  CallsBranch(f, g)
<1>1. BecameTwo(FrameType(code), frames, f, g, frames')
  BY TopBecomesTwo DEF Ready, Typed, StackOK
<1>2. IfCall(code, Top) => Within(code, f, g)
  <2> SUFFICES ASSUME IfCall(code, Top), NEW outside, Outside(code, outside), Held(outside, f)
               PROVE  Held(outside, g)
    BY DEF Within
  <2>1. code[Top.stmt].kind = "if" /\ Top.stmt \in outside
    BY DEF IfCall, Held
  <2> QED
    BY <2>1
<1> QED
  BY <1>1, <1>2 DEF CallsBranch, Loops

\* ... its body, ...
LEMMA EmitThenCalls ==
    ASSUME Ready, EmitThen
    PROVE  \E f, g : CallsBranch(f, g)
<1> DEFINE then == Len(blocks) + 1
           f == [Top EXCEPT !.then = then]
           g == BlockEmitter(code[Top.stmt].then, then)
<1>1. /\ frames # <<>> /\ Top.emits = "if" /\ loops' = loops
      /\ frames' = SubSeq(frames, 1, Len(frames) - 1) \o <<f, g>>
  BY DEF EmitThen, GoesOn, TopBecomes, Under
<1>2. /\ Top \in FrameType(code) /\ Top.stmt \in 1..Len(code) /\ CodeOK(code) /\ then \in Nat
      /\ then \in 1..then
      /\ code[Top.stmt].then \in Seq(1..Len(code))
  BY <1>1, TopFacts, StatementFacts DEF Ready, Top
<1>3. g \in FrameType(code)
  BY <1>2, EmitterTypes
<1>4. g.emits = "block" /\ g.nodes = code[Top.stmt].then
  BY DEF BlockEmitter
<1> HIDE DEF then
<1>5. f \in FrameType(code) /\ f.emits = Top.emits /\ f.stmt = Top.stmt /\ f.nodes = Top.nodes
  <2>1. SameCall(code, Top, f, then, Top.other)
    BY <1>2, BranchNamed, Zenon
  <2> QED
    BY <2>1, Zenon DEF SameCall
<1> HIDE DEF f, g
<1>6. IfCall(code, g) /\ g.emits \in {"block", "if"}
  BY <1>4 DEF IfCall
<1>7. code[Top.stmt].kind = "if" =>
          \A outside : Outside(code, outside) /\ Top.stmt \in outside => Held(outside, g)
  BY <1>2, <1>4, BlockHeld
<1>8. CallsBranch(f, g)
  BY <1>1, <1>3, <1>5, <1>6, <1>7, BranchCalls
<1> QED
  BY <1>8

\* ... its else branch, ...
LEMMA EmitElseCalls ==
    ASSUME Ready, EmitElse
    PROVE  \E f, g : CallsBranch(f, g)
<1> DEFINE other == Len(blocks) + 1
           f == [Top EXCEPT !.other = other]
           g == ElseCall(Top.stmt, other)
<1>1. /\ frames # <<>> /\ Top.emits = "if" /\ loops' = loops /\ code[Top.stmt].else # "none"
      /\ frames' = SubSeq(frames, 1, Len(frames) - 1) \o <<f, g>>
  BY DEF EmitElse, Resumes, TopBecomes, Under
<1>2. /\ Top \in FrameType(code) /\ Top.stmt \in 1..Len(code) /\ CodeOK(code) /\ other \in Nat
      /\ other \in 1..other
  BY <1>1, TopFacts DEF Ready, Top
<1>3. g \in FrameType(code)
  BY <1>2, ElseCallTypes
<1> HIDE DEF other
<1>5. f \in FrameType(code) /\ f.emits = Top.emits /\ f.stmt = Top.stmt /\ f.nodes = Top.nodes
  <2>1. SameCall(code, Top, f, Top.then, other)
    BY <1>2, BranchNamed, Zenon
  <2> QED
    BY <2>1, Zenon DEF SameCall
<1> HIDE DEF f
<1>6. CASE code[Top.stmt].kind \in {"if", "compif"}
  <2>1. /\ IfCall(code, g) /\ g.emits \in {"block", "if"}
        /\ \A outside : Outside(code, outside) /\ Top.stmt \in outside => Held(outside, g)
    BY <1>1, <1>2, <1>6, ElseKind, ElseHeld
  <2> HIDE DEF g
  <2>2. CallsBranch(f, g)
    BY <1>1, <1>3, <1>5, <2>1, BranchCalls
  <2> QED
    BY <2>2
<1>7. CASE code[Top.stmt].kind \notin {"if", "compif"}
  <2>1. g.emits \in {"block", "if"} /\ IfCall(code, g)
    BY <1>1, <1>2, ElseKind
  <2> HIDE DEF g
  <2>2. CallsBranch(f, g)
    BY <1>1, <1>3, <1>5, <1>7, <2>1, BranchCalls
  <2> QED
    BY <2>2
<1> QED
  BY <1>6, <1>7

\* ... an if of the compile time, ...
LEMMA EmitCompIfCalls ==
    ASSUME Ready, EmitCompIf
    PROVE  (frames' = frames /\ loops' = loops) \/ \E f, g : CallsBranch(f, g)
<1>1. /\ frames # <<>> /\ Top.emits = "block" /\ Top.nodes # <<>> /\ code[Node].kind = "compif"
      /\ loops' = loops
  BY DEF EmitCompIf, AtNode, GoesOn
<1>2. /\ Node \in 1..Len(code) /\ Len(blocks) \in Nat /\ ip \in 1..Len(blocks) /\ Top \in FrameType(code)
      /\ CodeOK(code) /\ frames \in Seq(FrameType(code))
  BY <1>1, TopFacts DEF Ready, Typed, StackOK, Top, Node
<1>3. code[Node].then \in Seq(1..Len(code))
  BY <1>2, StatementFacts
<1>4. \A outside : Held(outside, Top) => Node \in outside
  BY <1>1, <1>2, NodesHeld DEF Node
<1>5. ASSUME NEW g \in FrameType(code), frames' = SubSeq(frames, 1, Len(frames) - 1) \o <<Top, g>>,
             g.emits \in {"block", "if"}, IfCall(code, g),
             \A outside : Outside(code, outside) /\ Node \in outside => Held(outside, g)
      PROVE  CallsBranch(Top, g)
  <2>1. BecameTwo(FrameType(code), frames, Top, g, frames')
    BY <1>1, <1>2, <1>5, TopBecomesTwo
  <2>2. Within(code, Top, g)
    BY <1>4, <1>5 DEF Within
  <2> QED
    BY <1>1, <1>5, <2>1, <2>2 DEF CallsBranch, Loops
<1>6. CASE code[Node].holds /\ TopBecomes(<<Top, BlockEmitter(code[Node].then, ip)>>)
  <2> DEFINE g == BlockEmitter(code[Node].then, ip)
  <2>1. g \in FrameType(code)
    BY <1>2, <1>3, EmitterTypes
  <2>2. g.emits = "block" /\ g.nodes = code[Node].then
    BY DEF BlockEmitter
  <2>3. frames' = SubSeq(frames, 1, Len(frames) - 1) \o <<Top, g>>
    BY <1>6 DEF TopBecomes, Under
  <2> HIDE DEF g
  <2>4. IfCall(code, g) /\ \A outside : Outside(code, outside) /\ Node \in outside => Held(outside, g)
    BY <1>1, <1>2, <2>2, BlockHeld DEF IfCall
  <2>5. CallsBranch(Top, g)
    BY <1>5, <2>1, <2>2, <2>3, <2>4
  <2> QED
    BY <2>5
<1>7. CASE code[Node].else # "none" /\ TopBecomes(<<Top, ElseCall(Node, ip)>>)
  <2> DEFINE g == ElseCall(Node, ip)
  <2>1. g \in FrameType(code)
    BY <1>2, ElseCallTypes
  <2>2. /\ IfCall(code, g) /\ g.emits \in {"block", "if"}
        /\ \A outside : Outside(code, outside) /\ Node \in outside => Held(outside, g)
    BY <1>1, <1>2, <1>7, ElseKind, ElseHeld
  <2>3. frames' = SubSeq(frames, 1, Len(frames) - 1) \o <<Top, g>>
    BY <1>7 DEF TopBecomes, Under
  <2> HIDE DEF g
  <2>5. CallsBranch(Top, g)
    BY <1>5, <2>1, <2>2, <2>3
  <2> QED
    BY <2>5
<1> QED
  BY <1>1, <1>6, <1>7 DEF EmitCompIf

\* ... a loop, ...
LEMMA LoopCalls ==
    ASSUME Ready, EmitWhile \/ EmitFor
    PROVE  \E g, h : CallsLoop(g, h)
<1>0. frames # <<>> /\ Top.emits = "block" /\ Top.nodes # <<>>
  BY DEF EmitWhile, EmitFor, AtNode, GoesOn
<1>1. PICK kind \in Loops, cond, start, merge, then \in Nat :
         /\ frames' = SubSeq(frames, 1, Len(frames) - 1)
                      \o <<Top, Emitter(kind, Node, cond, start, merge),
                      BlockEmitter(code[Node].then, then)>>
         /\ loops' = Append(loops, [merge |-> merge, start |-> start])
  <2>0. Len(blocks) \in Nat
    BY DEF Ready, Typed, BlocksOK
  <2>1. CASE EmitWhile
    <3> DEFINE before == Len(blocks) + 1
               then   == before + 1
               merge  == before + 2
    <3>1. /\ loops' = Append(loops, [merge |-> merge, start |-> before])
          /\ frames' = SubSeq(frames, 1, Len(frames) - 1)
                       \o <<Top, Emitter("while", Node, before, before, merge),
                       BlockEmitter(code[Node].then, then)>>
      BY <2>1 DEF EmitWhile, TopBecomes, Under
    <3>2. "while" \in Loops /\ before \in Nat /\ then \in Nat /\ merge \in Nat
      BY <2>0 DEF Loops
    <3> HIDE DEF before, then, merge
    <3> QED
      BY <3>1, <3>2
  <2>2. CASE EmitFor
    <3> DEFINE pre    == Len(blocks) + 1
               then   == pre + 1
               update == pre + 2
               merge  == pre + 3
    <3>1. /\ loops' = Append(loops, [merge |-> merge, start |-> update])
          /\ frames' = SubSeq(frames, 1, Len(frames) - 1)
                       \o <<Top, Emitter("for", Node, pre, update, merge),
                       BlockEmitter(code[Node].then, then)>>
      BY <2>2 DEF EmitFor, TopBecomes, Under
    <3>2. "for" \in Loops /\ pre \in Nat /\ then \in Nat /\ merge \in Nat /\ update \in Nat
      BY <2>0 DEF Loops
    <3> HIDE DEF pre, then, update, merge
    <3> QED
      BY <3>1, <3>2
  <2> QED
    BY <2>1, <2>2
<1> DEFINE g == Emitter(kind, Node, cond, start, merge)
           h == BlockEmitter(code[Node].then, then)
<1>2. frames' \in Seq(FrameType(code))
  BY EmitWhileTyped, EmitForTyped DEF StaysTyped, Typed, StackOK
<1>3. g.emits = kind /\ g.other = merge /\ g.then = start /\ h.emits = "block"
  BY DEF Emitter, BlockEmitter
<1>4. frames \in Seq(FrameType(code)) /\ Top \in FrameType(code)
  BY <1>0, TopFacts DEF Ready, Typed, StackOK, Top
<1>5. frames' = SubSeq(frames, 1, Len(frames) - 1) \o <<Top, g, h>>
  BY <1>1
<1> HIDE DEF g, h
<1>6. BecameThree(FrameType(code) \cup {g, h}, frames, Top, g, h, frames')
  <2>1. frames \in Seq(FrameType(code) \cup {g, h})
    BY <1>4, SeqMonotonic
  <2> QED
    BY <1>0, <1>4, <1>5, <2>1, TopBecomesThree
<1>7. BecameThree(FrameType(code), frames, Top, g, h, frames')
  BY <1>2, <1>6 DEF BecameThree
<1>8. CallsLoop(g, h)
  BY <1>0, <1>1, <1>3, <1>7 DEF CallsLoop
<1> QED
  BY <1>8

\* ... and the ends.
LEMMA ReturnCalls ==
    ASSUME Ready, CutBlock \/ EndBlock \/ EndIfPoisoned \/ EndIf \/ EndWhile \/ EndFor
    PROVE  CallsReturn
<1>1. frames' = Under
  BY DEF CutBlock, EndBlock, EndIfPoisoned, EndIf, EndWhile, EndFor, Returns
<1>2. CASE EndWhile \/ EndFor
  BY <1>1, <1>2 DEF EndWhile, EndFor, Resumes, Loops, CallsReturn
<1>3. CASE CutBlock \/ EndBlock \/ EndIfPoisoned \/ EndIf
  <2>1. Top.emits \in {"block", "if"} /\ loops' = loops
    BY <1>3 DEF CutBlock, EndBlock, EndIfPoisoned, EndIf, BranchesEmitted, Resumes, GoesOn
  <2> QED
    BY <1>1, <2>1 DEF Loops, CallsReturn
<1> QED
  BY <1>2, <1>3

\* Each step of the emitters is one of these.
LEMMA CallSteps ==
    ASSUME Ready, EmitStep
    PROVE  CallStep /\ frames # <<>>
<1>2. frames # <<>>
  BY EmitStepBelow
<1>1. CASE EmitDo \/ EmitReturn \/ EmitJump
  <2>1. frames' = frames /\ loops' = loops
    BY <1>1 DEF EmitDo, EmitReturn, EmitJump
  <2> QED
    BY <1>2, <2>1 DEF CallStep
<1>3. EmitIf => \E f, g : CallsBranch(f, g)
  BY EmitIfCalls
<1> QED
  BY <1>1, <1>2, <1>3, NextNodeCalls, EmitThenCalls, EmitElseCalls, EmitCompIfCalls, LoopCalls,
     ReturnCalls
     DEF EmitStep, CallStep

\* loop_bbs stays right while no loop begins or ends, ...
LEMMA SameLoops ==
    ASSUME NEW ls, NEW fs, NEW gs, LoopsMatch(ls, fs), Len(fs) \in Nat, Len(gs) \in Nat,
           \A k \in 1..Len(fs) : fs[k].emits \in Loops => k \in 1..Len(gs) /\ gs[k] = fs[k],
           \A k \in 1..Len(gs) : gs[k].emits \in Loops => k \in 1..Len(fs) /\ gs[k] = fs[k]
    PROVE  LoopsMatch(ls, gs)
<1>0. PICK w : Matches(w, ls, Len(ls), fs, Len(fs))
  BY DEF LoopsMatch
<1>1. /\ w \in [1..Len(ls) -> 1..Len(fs)]
      /\ \A i, j \in 1..Len(ls) : i < j => w[i] < w[j]
      /\ \A k \in 1..Len(fs) : fs[k].emits \in Loops <=> \E i \in 1..Len(ls) : w[i] = k
      /\ \A i \in 1..Len(ls) : ls[i] = Entry(fs[w[i]])
  BY <1>0 DEF Matches
<1>2. \A i \in 1..Len(ls) : w[i] \in 1..Len(gs) /\ gs[w[i]] = fs[w[i]]
  BY <1>1
<1>3. w \in [1..Len(ls) -> 1..Len(gs)]
  BY <1>1, <1>2
<1>4. \A k \in 1..Len(gs) : gs[k].emits \in Loops <=> \E i \in 1..Len(ls) : w[i] = k
  BY <1>1, <1>2
<1>5. \A i \in 1..Len(ls) : ls[i] = Entry(gs[w[i]])
  BY <1>1, <1>2
<1> QED
  BY <1>1, <1>3, <1>4, <1>5 DEF LoopsMatch, Matches

\* ... when a loop is entered, ...
LEMMA LoopEntered ==
    ASSUME NEW S, NEW ls \in Seq(S), NEW e \in S, NEW fs, NEW gs, LoopsMatch(ls, fs),
           Len(fs) \in Nat \ {0},
           Len(gs) = Len(fs) + 2, \A k \in 1..Len(fs) : gs[k] = fs[k],
           gs[Len(fs) + 1].emits \in Loops, gs[Len(fs) + 2].emits \notin Loops,
           e = Entry(gs[Len(fs) + 1])
    PROVE  LoopsMatch(Append(ls, e), gs)
<1> DEFINE n == Len(fs)
           m == Len(ls)
<1>0. PICK w : Matches(w, ls, m, fs, n)
  BY DEF LoopsMatch
<1>1. /\ w \in [1..m -> 1..n]
      /\ \A i, j \in 1..m : i < j => w[i] < w[j]
      /\ \A k \in 1..n : fs[k].emits \in Loops <=> \E i \in 1..m : w[i] = k
      /\ \A i \in 1..m : ls[i] = Entry(fs[w[i]])
  BY <1>0 DEF Matches
<1>2. /\ Len(Append(ls, e)) = m + 1 /\ m \in Nat /\ n \in Nat
      /\ \A i \in 1..m : Append(ls, e)[i] = ls[i]
      /\ Append(ls, e)[m + 1] = e
  BY AppendProperties
<1> DEFINE p == Append(ls, e)
           v == [i \in 1..(m + 1) |-> IF i <= m THEN w[i] ELSE n + 1]
<1> HIDE DEF n, m, p
<1>a. /\ Len(p) = m + 1 /\ Len(gs) = n + 2
      /\ \A i \in 1..m : p[i] = ls[i]
      /\ \A k \in 1..n : gs[k] = fs[k]
      /\ e = Entry(gs[n + 1])
      /\ gs[n + 1].emits \in Loops /\ gs[n + 2].emits \notin Loops
      /\ p[m + 1] = e
  BY <1>2 DEF n, p
<1>3. v \in [1..(m + 1) -> 1..(n + 2)] /\ (\A i \in 1..m : v[i] = w[i]) /\ v[m + 1] = n + 1
      /\ m + 1 \in 1..(m + 1) /\ \A i \in 1..(m + 1) : i \in 1..m \/ i = m + 1
  BY <1>1, <1>2
<1>b. \A i \in 1..m : w[i] \in 1..n
  BY <1>1
<1> HIDE DEF v
<1>4. \A i, j \in 1..(m + 1) : i < j => v[i] < v[j]
  <2> SUFFICES ASSUME NEW i \in 1..(m + 1), NEW j \in 1..(m + 1), i < j PROVE v[i] < v[j]
    OBVIOUS
  <2>1. i \in 1..m
    BY <1>2
  <2>2. CASE j \in 1..m
    BY <1>1, <1>3, <2>1, <2>2
  <2>3. CASE j = m + 1
    <3>1. w[i] \in 1..n => w[i] < n + 1
      BY <1>2
    <3>2. v[i] = w[i] /\ v[j] = n + 1 /\ w[i] \in 1..n
      BY <1>3, <1>b, <2>1, <2>3
    <3> QED
      BY <3>1, <3>2
  <2> QED
    BY <1>3, <2>2, <2>3
<1>5. \A k \in 1..(n + 2) : gs[k].emits \in Loops <=> \E i \in 1..(m + 1) : v[i] = k
  <2> SUFFICES ASSUME NEW k \in 1..(n + 2)
               PROVE gs[k].emits \in Loops <=> \E i \in 1..(m + 1) : v[i] = k
    OBVIOUS
  <2>0. k \in 1..n \/ k = n + 1 \/ k = n + 2
    BY <1>2
  <2>1. CASE k \in 1..n
    <3>1. k # n + 1 /\ gs[k] = fs[k]
      BY <1>2, <1>a, <2>1
    <3>2. (\E i \in 1..(m + 1) : v[i] = k) <=> \E i \in 1..m : w[i] = k
      <4>1. ASSUME NEW i \in 1..(m + 1), v[i] = k PROVE \E x \in 1..m : w[x] = k
        BY <1>3, <3>1, <4>1
      <4>2. ASSUME NEW i \in 1..m, w[i] = k PROVE \E x \in 1..(m + 1) : v[x] = k
        <5>1. i \in 1..(m + 1)
          BY <1>2
        <5> QED
          BY <1>3, <4>2, <5>1
      <4> QED
        BY <4>1, <4>2
    <3> QED
      BY <1>1, <2>1, <3>1, <3>2
  <2>2. CASE k = n + 1
    BY <1>3, <1>a, <2>2
  <2>3. CASE k = n + 2
    <3>1. n + 1 # n + 2 /\ n + 2 \notin 1..n
      BY <1>2
    <3>2. \A i \in 1..(m + 1) : v[i] # n + 2
      BY <1>3, <1>b, <3>1
    <3> QED
      BY <1>a, <2>3, <3>2
  <2> QED
    BY <2>0, <2>1, <2>2, <2>3
<1>6. \A i \in 1..(m + 1) : p[i] = Entry(gs[v[i]])
  <2> SUFFICES ASSUME NEW i \in 1..(m + 1) PROVE p[i] = Entry(gs[v[i]])
    OBVIOUS
  <2>1. CASE i \in 1..m
    <3>1. p[i] = ls[i] /\ v[i] = w[i] /\ gs[w[i]] = fs[w[i]]
      BY <1>3, <1>a, <1>b, <2>1
    <3> QED
      BY <1>1, <2>1, <3>1
  <2>2. CASE i = m + 1
    <3>1. p[i] = e /\ v[i] = n + 1
      BY <1>3, <1>a, <2>2
    <3> QED
      BY <1>a, <3>1
  <2> QED
    BY <1>3, <2>1, <2>2
<1>7. LoopsMatch(p, gs)
  <2>1. Matches(v, p, m + 1, gs, n + 2)
    BY <1>3, <1>4, <1>5, <1>6 DEF Matches
  <2> QED
    BY <1>a, <2>1 DEF LoopsMatch
<1> QED
  BY <1>7 DEF p

\* ... and when it is left.
LEMMA LoopLeft ==
    ASSUME NEW S, NEW ls \in Seq(S), NEW fs, NEW gs, LoopsMatch(ls, fs), Len(fs) \in Nat \ {0},
           Len(gs) = Len(fs) - 1, \A k \in 1..Len(gs) : gs[k] = fs[k],
           fs[Len(fs)].emits \in Loops
    PROVE  LoopsMatch(SubSeq(ls, 1, Len(ls) - 1), gs)
<1> DEFINE n == Len(fs)
           m == Len(ls)
           p == SubSeq(ls, 1, Len(ls) - 1)
<1>0. PICK w : Matches(w, ls, m, fs, n)
  BY DEF LoopsMatch
<1>1. /\ w \in [1..m -> 1..n]
      /\ \A i, j \in 1..m : i < j => w[i] < w[j]
      /\ \A k \in 1..n : fs[k].emits \in Loops <=> \E i \in 1..m : w[i] = k
      /\ \A i \in 1..m : ls[i] = Entry(fs[w[i]])
  BY <1>0 DEF Matches
<1>2. n \in Nat \ {0} /\ n \in 1..n /\ fs[n].emits \in Loops /\ m \in Nat /\ Len(gs) = n - 1
      /\ \A k \in 1..(n - 1) : gs[k] = fs[k]
  OBVIOUS
<1>3. PICK last \in 1..m : w[last] = n
  BY <1>1, <1>2
<1>4. ls # <<>>
  BY <1>3
<1>5. Len(p) = m - 1 /\ \A i \in 1..(m - 1) : p[i] = ls[i]
  BY <1>4, WithoutTop
<1> HIDE DEF n, m, p
<1>6. last = m
  <2> SUFFICES ASSUME last # m PROVE FALSE
    OBVIOUS
  <2>1. last + 1 \in 1..m /\ last < last + 1
    BY <1>2
  <2>2. w[last] < w[last + 1] /\ w[last + 1] \in 1..n
    BY <1>1, <2>1
  <2> QED
    BY <1>2, <1>3, <2>2
<1>7. \A i \in 1..(m - 1) : i \in 1..m /\ i < m /\ w[i] \in 1..n /\ w[i] < n /\ w[i] \in 1..(n - 1)
  <2> SUFFICES ASSUME NEW i \in 1..(m - 1) PROVE i \in 1..m /\ i < m /\ w[i] \in 1..n /\ w[i] < n
                      /\ w[i] \in 1..(n - 1)
    OBVIOUS
  <2>1. i \in 1..m /\ i < m /\ m \in 1..m
    BY <1>2
  <2>2. w[i] < n /\ w[i] \in 1..n
    BY <1>1, <1>3, <1>6, <2>1
  <2> QED
    BY <1>2, <2>1, <2>2
<1> DEFINE v == [i \in 1..(m - 1) |-> w[i]]
<1>8. v \in [1..(m - 1) -> 1..(n - 1)] /\ \A i \in 1..(m - 1) : v[i] = w[i]
  BY <1>7
<1> HIDE DEF v
<1>9. \A i, j \in 1..(m - 1) : i < j => v[i] < v[j]
  BY <1>1, <1>7, <1>8
<1>10. \A k \in 1..(n - 1) : gs[k].emits \in Loops <=> \E i \in 1..(m - 1) : v[i] = k
  <2> SUFFICES ASSUME NEW k \in 1..(n - 1)
               PROVE  gs[k].emits \in Loops <=> \E i \in 1..(m - 1) : v[i] = k
    OBVIOUS
  <2>1. k \in 1..n /\ k # n /\ gs[k] = fs[k]
    BY <1>2
  <2>2. ASSUME NEW i \in 1..m, w[i] = k PROVE i \in 1..(m - 1)
    BY <1>2, <1>3, <1>6, <2>1, <2>2
  <2> QED
    BY <1>1, <1>7, <1>8, <2>1, <2>2
<1>11. \A i \in 1..(m - 1) : p[i] = Entry(gs[v[i]])
  BY <1>1, <1>2, <1>5, <1>7, <1>8
<1>12. LoopsMatch(p, gs)
  <2>1. Matches(v, p, m - 1, gs, n - 1)
    BY <1>8, <1>9, <1>10, <1>11 DEF Matches
  <2> QED
    BY <1>2, <1>5, <2>1 DEF LoopsMatch
<1> QED
  BY <1>12 DEF p, m

\* Outside of all loops, what the call on top emits is too.
LEMMA TopHeld ==
    ASSUME NEW fs, NEW gs, NEW outside, CallsHeld(fs, outside), Len(fs) \in Nat \ {0},
           \A k \in 1..(Len(fs) - 1) : gs[k] = fs[k],
           gs[Len(fs)].emits = fs[Len(fs)].emits,
           NEW m \in Nat, Len(fs) <= m, \A j \in 1..m : gs[j].emits \notin Loops
    PROVE  Held(outside, fs[Len(fs)])
<1>1. \A j \in 1..Len(fs) : j \in 1..m /\ (j \in 1..(Len(fs) - 1) \/ j = Len(fs))
  OBVIOUS
<1>2. \A j \in 1..Len(fs) : fs[j].emits \notin Loops
  BY <1>1
<1>3. Len(fs) \in 1..Len(fs)
  OBVIOUS
<1> QED
  BY <1>2, <1>3 DEF CallsHeld

\* What a step keeps of the calls.
CallsStay ==
    /\ LoopsMatch(loops', frames') /\ IfCalls(code, frames')
    /\ \A outside \in SUBSET (1..Len(code)) :
          Outside(code, outside) /\ CallsHeld(frames, outside) => CallsHeld(frames', outside)

\* Each of these steps keeps loop_bbs right, and the calls outside of all loops.
LEMMA CallsReturnStays ==
    ASSUME Ready, frames # <<>>, LoopsMatch(loops, frames), IfCalls(code, frames), CallsReturn
    PROVE  CallsStay
<1> DEFINE n == Len(frames)
<1>1. /\ n \in Nat \ {0} /\ Len(frames') = n - 1 /\ \A k \in 1..(n - 1) : frames'[k] = frames[k]
  BY WithoutTop DEF CallsReturn, Under, Ready, Typed, StackOK
<1>2. LoopsMatch(loops', frames')
  <2>1. CASE Top.emits \in Loops
    <3>1. loops \in Seq([merge : 1..Len(blocks), start : 1..Len(blocks)])
      BY DEF Ready, Typed, LoopsOK
    <3>2. loops' = SubSeq(loops, 1, Len(loops) - 1) /\ frames[Len(frames)].emits \in Loops
      BY <2>1 DEF CallsReturn, Top
    <3>3. \A k \in 1..Len(frames') : frames'[k] = frames[k]
      BY <1>1
    <3> QED
      BY <1>1, <3>1, <3>2, <3>3, LoopLeft
  <2>2. CASE Top.emits \notin Loops
    <3>1. loops' = loops /\ frames[n].emits \notin Loops
      BY <2>2 DEF CallsReturn, Top
    <3>2. \A k \in 1..n : k \in 1..(n - 1) \/ k = n
      BY <1>1
    <3>3. \A k \in 1..(n - 1) : k \in 1..n
      BY <1>1
    <3>4. \A k \in 1..n : frames[k].emits \in Loops => k \in 1..Len(frames') /\ frames'[k] = frames[k]
      BY <1>1, <3>1, <3>2
    <3>5. \A k \in 1..Len(frames') : frames'[k].emits \in Loops => k \in 1..n /\ frames'[k] = frames[k]
      BY <1>1, <3>3
    <3>6. n \in Nat /\ Len(frames') \in Nat
      BY <1>1
    <3> QED
      BY <3>1, <3>4, <3>5, <3>6, SameLoops
  <2> QED
    BY <2>1, <2>2
<1>3. ASSUME NEW outside, CallsHeld(frames, outside)
      PROVE  CallsHeld(frames', outside)
  <2>1. \A k \in 1..Len(frames') : k \in 1..n /\ frames'[k] = frames[k]
                                   /\ \A j \in 1..k : frames'[j] = frames[j]
    BY <1>1
  <2> QED
    BY <1>3, <2>1 DEF CallsHeld
<1>4. IfCalls(code, frames')
  <2>1. \A k \in 1..Len(frames') : k \in 1..n /\ frames'[k] = frames[k]
    BY <1>1
  <2> QED
    BY <2>1 DEF IfCalls
<1> QED
  BY <1>2, <1>3, <1>4 DEF CallsStay

\* So does a call that goes on, ...
LEMMA GoesOnStays ==
    ASSUME Ready, frames # <<>>, LoopsMatch(loops, frames), IfCalls(code, frames), NEW f, GoesOnAs(f)
    PROVE  CallsStay
<1> DEFINE n == Len(frames)
<1>1. /\ n \in Nat \ {0} /\ Len(frames') = n /\ frames'[n] = f
      /\ \A k \in 1..(n - 1) : frames'[k] = frames[k]
      /\ loops' = loops /\ f.emits = "block" /\ frames[n].emits = "block" /\ Top = frames[n]
      /\ Top.nodes # <<>> /\ f.nodes = Tail(Top.nodes)
  BY DEF GoesOnAs, BecameOne, Top
<1>2. Top \in FrameType(code)
  BY WithoutTop DEF Ready, Typed, StackOK, Top
<1>3. \A k \in 1..n : k \in 1..(n - 1) \/ k = n
  BY <1>1
<1>4. LoopsMatch(loops', frames')
  <2>1. \A k \in 1..n : frames[k].emits \in Loops => k \in 1..Len(frames') /\ frames'[k] = frames[k]
    BY <1>1, <1>3 DEF Loops
  <2>2. \A k \in 1..Len(frames') : frames'[k].emits \in Loops => k \in 1..n /\ frames'[k] = frames[k]
    BY <1>1, <1>3 DEF Loops
  <2>3. n \in Nat /\ Len(frames') \in Nat
    BY <1>1
  <2> QED
    BY <1>1, <2>1, <2>2, <2>3, SameLoops
<1>5. IfCalls(code, frames')
  BY <1>1, <1>3 DEF IfCalls, IfCall
<1>6. ASSUME NEW outside, CallsHeld(frames, outside), NEW k \in 1..n,
             \A j \in 1..k : frames'[j].emits \notin Loops
      PROVE  Held(outside, frames'[k])
  <2>1. CASE k = n
    <3>1. Held(outside, Top)
      BY <1>1, <1>6, <2>1, TopHeld
    <3> QED
      BY <1>1, <1>2, <2>1, <3>1, NodesHeld DEF Held
  <2>2. CASE k \in 1..(n - 1)
    <3>1. \A j \in 1..k : j \in 1..(n - 1)
      BY <2>2
    <3> QED
      BY <1>1, <1>6, <2>2, <3>1 DEF CallsHeld
  <2> QED
    BY <1>3, <2>1, <2>2
<1>7. ASSUME NEW outside, CallsHeld(frames, outside)
      PROVE  CallsHeld(frames', outside)
  BY <1>1, <1>6, <1>7 DEF CallsHeld
<1> QED
  BY <1>4, <1>5, <1>7 DEF CallsStay

\* ... one that calls the branch of a statement, ...
LEMMA CallsBranchStays ==
    ASSUME Ready, frames # <<>>, LoopsMatch(loops, frames), IfCalls(code, frames),
           NEW f, NEW g, CallsBranch(f, g)
    PROVE  CallsStay
<1> DEFINE n == Len(frames)
<1>1. /\ n \in Nat \ {0} /\ Len(frames') = n + 1 /\ frames'[n] = f /\ frames'[n + 1] = g
      /\ \A k \in 1..(n - 1) : frames'[k] = frames[k]
      /\ Top = frames[n] /\ loops' = loops
      /\ f.emits = Top.emits /\ f.stmt = Top.stmt /\ f.nodes = Top.nodes
      /\ Top.emits \notin Loops /\ g.emits \notin Loops /\ IfCall(code, g)
      /\ IfCall(code, Top) => Within(code, f, g)
  BY DEF CallsBranch, BecameTwo, Top
<1>2. IfCall(code, Top)
  <2>1. n \in 1..n
    BY <1>1
  <2> QED
    BY <1>1, <2>1 DEF IfCalls
<1>3. \A k \in 1..(n + 1) : k \in 1..(n - 1) \/ k = n \/ k = n + 1
  BY <1>1
<1>a. \A k \in 1..n : k \in 1..(n + 1) /\ k # n + 1
  BY <1>1
<1>b. \A k \in 1..(n - 1) : k \in 1..n
  BY <1>1
<1>4. LoopsMatch(loops', frames')
  <2>1. \A k \in 1..n : frames[k].emits \in Loops => k \in 1..Len(frames') /\ frames'[k] = frames[k]
    BY <1>1, <1>3, <1>a
  <2>2. \A k \in 1..Len(frames') : frames'[k].emits \in Loops => k \in 1..n /\ frames'[k] = frames[k]
    BY <1>1, <1>3, <1>b
  <2>3. n \in Nat /\ Len(frames') \in Nat
    BY <1>1
  <2> QED
    BY <1>1, <2>1, <2>2, <2>3, SameLoops
<1>5. IfCalls(code, frames')
  <2>1. IfCall(code, f)
    BY <1>1, <1>2 DEF IfCall
  <2> QED
    BY <1>1, <1>3, <1>b, <2>1 DEF IfCalls
<1>6. ASSUME NEW outside \in SUBSET (1..Len(code)), Outside(code, outside), CallsHeld(frames, outside),
             NEW k \in 1..(n + 1), \A j \in 1..k : frames'[j].emits \notin Loops
      PROVE  Held(outside, frames'[k])
  <2>1. CASE k = n \/ k = n + 1
    <3>1. k \in Nat /\ n <= k
      BY <1>1, <2>1
    <3>2. Held(outside, Top)
      BY <1>1, <1>6, <3>1, TopHeld
    <3>3. Held(outside, f)
      BY <1>1, <3>2 DEF Held
    <3>4. Held(outside, g)
      BY <1>1, <1>2, <1>6, <3>3 DEF Within
    <3> QED
      BY <1>1, <2>1, <3>3, <3>4
  <2>2. CASE k \in 1..(n - 1)
    <3>1. \A j \in 1..k : j \in 1..(n - 1)
      BY <2>2
    <3> QED
      BY <1>1, <1>6, <1>b, <2>2, <3>1 DEF CallsHeld
  <2> QED
    BY <1>3, <2>1, <2>2
<1>7. ASSUME NEW outside \in SUBSET (1..Len(code)), Outside(code, outside), CallsHeld(frames, outside)
      PROVE  CallsHeld(frames', outside)
  BY <1>1, <1>6, <1>7 DEF CallsHeld
<1> QED
  BY <1>4, <1>5, <1>7 DEF CallsStay

\* ... and one that enters a loop.
LEMMA CallsLoopStays ==
    ASSUME Ready, frames # <<>>, LoopsMatch(loops, frames), IfCalls(code, frames),
           NEW g, NEW h, CallsLoop(g, h)
    PROVE  CallsStay
<1> DEFINE n == Len(frames)
<1>1. /\ n \in Nat \ {0} /\ Len(frames') = n + 2 /\ frames'[n] = Top /\ frames'[n + 1] = g
      /\ frames'[n + 2] = h
      /\ \A k \in 1..(n - 1) : frames'[k] = frames[k]
      /\ Top = frames[n] /\ loops' = Append(loops, [merge |-> g.other, start |-> g.then])
      /\ g.emits \in Loops /\ h.emits = "block"
  BY DEF CallsLoop, BecameThree, Top
<1>3. \A k \in 1..(n + 2) : k \in 1..(n - 1) \/ k = n \/ k = n + 1 \/ k = n + 2
  BY <1>1
<1>b. \A k \in 1..n : k \in 1..(n - 1) \/ k = n
  BY <1>1
<1>c. \A k \in 1..n : frames'[k] = frames[k]
  BY <1>1, <1>b
<1>d. h.emits \notin Loops /\ g.emits # "if" /\ h.emits # "if"
  BY <1>1 DEF Loops
<1>4. LoopsMatch(loops', frames')
  <2>1. loops \in Seq([merge : 1..Len(blocks), start : 1..Len(blocks)]) /\ Len(blocks) \in Nat
    BY DEF Ready, Typed, LoopsOK, BlocksOK
  <2> DEFINE S == [merge : 1..Len(blocks), start : 1..Len(blocks)]
             e == Entry(g)
  <2>2. loops \in Seq(S \cup {e}) /\ e \in S \cup {e}
    BY <2>1, SeqMonotonic
  <2>3. loops' = Append(loops, e)
    BY <1>1 DEF Entry
  <2>4. e = Entry(frames'[Len(frames) + 1])
    BY <1>1
  <2>5. /\ Len(frames) \in Nat \ {0} /\ Len(frames') = Len(frames) + 2
        /\ \A k \in 1..Len(frames) : frames'[k] = frames[k]
        /\ frames'[Len(frames) + 1].emits \in Loops /\ frames'[Len(frames) + 2].emits \notin Loops
    BY <1>1, <1>c, <1>d
  <2> HIDE DEF S, e
  <2>6. LoopsMatch(Append(loops, e), frames')
    BY <2>2, <2>4, <2>5, LoopEntered
  <2> QED
    BY <2>3, <2>6
<1>5. IfCalls(code, frames')
  <2>1. IfCall(code, g) /\ IfCall(code, h)
    BY <1>d DEF IfCall
  <2>2. \A k \in 1..(n - 1) : k \in 1..n
    BY <1>1
  <2>3. n \in 1..n
    BY <1>1
  <2> QED
    BY <1>1, <1>3, <2>1, <2>2, <2>3 DEF IfCalls
<1>6. ASSUME NEW outside, CallsHeld(frames, outside),
             NEW k \in 1..(n + 2), \A j \in 1..k : frames'[j].emits \notin Loops
      PROVE  Held(outside, frames'[k])
  <2>1. n + 1 \notin 1..k
    BY <1>1, <1>6
  <2>2. k \in 1..n /\ \A j \in 1..k : j \in 1..n
    BY <1>1, <2>1
  <2> QED
    BY <1>6, <1>c, <2>2 DEF CallsHeld
<1>7. ASSUME NEW outside, CallsHeld(frames, outside)
      PROVE  CallsHeld(frames', outside)
  BY <1>1, <1>6, <1>7 DEF CallsHeld
<1> QED
  BY <1>4, <1>5, <1>7 DEF CallsStay

\* So does every step of the emitters.
LEMMA CallsAllStay ==
    ASSUME Ready, LoopsMatch(loops, frames), IfCalls(code, frames), EmitStep
    PROVE  CallsStay
<1>1. CallStep /\ frames # <<>>
  BY CallSteps
<1>2. CASE frames' = frames /\ loops' = loops
  BY <1>2 DEF CallsStay
<1> QED
  BY <1>1, <1>2, CallsReturnStays, GoesOnStays, CallsBranchStays, CallsLoopStays DEF CallStep

-----------------------------------------------------------------------------
(* Which programs compile *)

\* The invariant holds when the function is entered, ...
LEMMA AcceptingInit ==
    ASSUME Init, TypeInv
    PROVE  Accepting
<1> DEFINE f == BlockEmitter(body, 1)
<1>1. /\ blocks = << <<>> >> /\ ip = 1 /\ loops = <<>> /\ frames = <<f>>
      /\ value = Calling /\ phase = "emitting" /\ (Excused \/ Cut(code, body))
  BY DEF Init, Excused
<1>2. f.emits = "block" /\ f.nodes = body /\ f.bb = 1
  BY DEF BlockEmitter
<1>3. CodeOK(code) /\ body \in Seq(1..Len(code)) /\ DOMAIN code = 1..Len(code)
  BY DEF TypeInv, CodeOK
<1> HIDE DEF f
<1>4. Len(frames) = 1 /\ frames[1] = f /\ frames # <<>> /\ Len(blocks) = 1 /\ blocks[1] = <<>>
        /\ DOMAIN blocks = {1}
      /\ Len(loops) = 0
  BY <1>1
<1>5. \A k \in 1..Len(frames) : k = 1
  BY <1>4
<1>6. f.emits \notin Loops /\ f.emits # "if" /\ Own(f) = {}
  BY <1>2 DEF Loops, Own
<1>7. LoopsMatch(loops, frames)
  <2> DEFINE w == [i \in 1..0 |-> 1]
  <2>0. \A i \in 1..0 : FALSE
    OBVIOUS
  <2>1. w \in [1..0 -> 1..1]
    BY <2>0
  <2>2. \A k \in 1..1 : k = 1
    OBVIOUS
  <2>3. \A k \in 1..1 : frames[k].emits \notin Loops
    BY <1>4, <1>6, <2>2
  <2> HIDE DEF w
  <2>4. Matches(w, loops, 0, frames, 1)
    BY <2>0, <2>1, <2>3 DEF Matches
  <2> QED
    BY <1>4, <2>4 DEF LoopsMatch
<1>8. IfCalls(code, frames)
  BY <1>4, <1>5, <1>6 DEF IfCalls, IfCall
<1>9. StillInLoops
  <2> SUFFICES ASSUME JumpsInLoops(code, body)
               PROVE  \E outside \in SUBSET (1..Len(code)) : Outside(code, outside)
                      /\ CallsHeld(frames, outside)
    BY DEF StillInLoops
  <2>1. PICK outside \in SUBSET DOMAIN code :
           /\ \A i \in DOMAIN body : body[i] \in outside
           /\ Outside(code, outside)
    BY DEF JumpsInLoops, Outside
  <2>2. Held(outside, f)
    BY <1>2, <2>1 DEF Held
  <2>3. CallsHeld(frames, outside)
    BY <1>4, <1>5, <2>2 DEF CallsHeld
  <2> QED
    BY <1>3, <2>1, <2>3
<1>10. Good(code, Excused, blocks, ip, frames, value)
  <2>1. Sound(blocks)
    BY <1>4 DEF Sound
  <2>2. Open(blocks, 1)
    BY <1>4 DEF Open, Terminated
  <2>3. Cur(ip, value) = 1
    BY <1>1 DEF Cur, Calling
  <2>4. CallsOK(code, blocks, frames, ip, value)
    <3>1. \A k \in 1..Len(frames) : FrameOK(code, blocks, frames[k])
      BY <1>2, <1>4, <1>5 DEF FrameOK
    <3>2. \A k \in 1..(Len(frames) - 1) : FALSE
      BY <1>4
    <3>3. Apart(frames, ip, value)
      BY <1>4, <1>5, <1>6 DEF Apart
    <3>4. Accounted(blocks, frames, ip, value)
      BY <1>4, <2>3 DEF Accounted
    <3> QED
      BY <3>1, <3>2, <3>3, <3>4 DEF CallsOK
  <2>5. TopOK(code, blocks, ip, f, value, Live(code, frames))
    <3>1. AtStart(code, blocks, ip, f, Live(code, frames))
      BY <1>1, <1>2, <2>2 DEF AtStart
    <3> QED
      BY <1>1, <3>1 DEF TopOK
  <2>6. First(code, Excused, blocks, ip, frames)
    BY <1>1, <1>2, <1>4 DEF First
  <2> QED
    BY <1>4, <2>1, <2>4, <2>5, <2>6 DEF Good
<1> QED
  BY <1>1, <1>7, <1>8, <1>9, <1>10 DEF Accepting, Emitting, Fine, PlainProgramsAreAccepted

\* ... and every step of the emitters keeps it.
LEMMA AcceptingEmit ==
    ASSUME Accepting, EmitStep
    PROVE  Accepting'
<1>1. phase = "emitting" /\ phase' = "emitting" /\ UNCHANGED <<code, body, void>>
  BY EmitStepFrame
<1>2. TypeInv'
  BY TypeEmit DEF Accepting
<1>3. Ready
  BY DEF Accepting, TypeInv, Ready
<1>4. LoopsMatch(loops, frames) /\ IfCalls(code, frames) /\ StillInLoops
      /\ (PlainIfs(code) => Fine(code, Excused, blocks, ip, frames, value))
  BY <1>1 DEF Accepting, Emitting
<1>5. CallsStay
  BY <1>3, <1>4, CallsAllStay
<1>6. StillInLoops'
  <2>1. JumpsInLoops(code, body) =>
           \E outside \in SUBSET (1..Len(code)) : Outside(code, outside) /\ CallsHeld(frames', outside)
    BY <1>4, <1>5 DEF StillInLoops, CallsStay
  <2> QED
    BY <1>1, <2>1 DEF StillInLoops
<1>7. PlainIfs(code) => FineNext
  BY <1>3, <1>4, FineStep
<1>8. PlainIfs(code') => Fine(code', Excused', blocks', ip', frames', value')
  BY <1>1, <1>7 DEF FineNext, Excused
<1>9. LoopsMatch(loops', frames') /\ IfCalls(code', frames')
  BY <1>1, <1>5 DEF CallsStay
<1>10. Emitting'
  BY <1>6, <1>8, <1>9 DEF Emitting
<1>11. PlainProgramsAreAccepted'
  BY <1>1 DEF PlainProgramsAreAccepted
<1> QED
  BY <1>2, <1>10, <1>11 DEF Accepting

\* A break or continue outside of every loop is never met.
LEMMA NoStrayJump ==
    ASSUME Accepting, EmitStrayJump
    PROVE  ~JumpsInLoops(code, body)
<1> SUFFICES ASSUME JumpsInLoops(code, body) PROVE FALSE
  OBVIOUS
<1>1. /\ phase = "emitting" /\ frames # <<>> /\ Top.emits = "block" /\ Top.nodes # <<>>
      /\ code[Node].kind \in {"break", "continue"} /\ loops = <<>>
  BY DEF EmitStrayJump, AtNode, GoesOn
<1>2. PICK outside \in SUBSET (1..Len(code)) : Outside(code, outside) /\ CallsHeld(frames, outside)
  BY <1>1 DEF Accepting, Emitting, StillInLoops
<1>3. LoopsMatch(loops, frames)
  BY <1>1 DEF Accepting, Emitting
<1>4. \A k \in 1..Len(frames) : frames[k].emits \notin Loops
  <2>1. PICK w : Matches(w, loops, 0, frames, Len(frames))
    BY <1>1, <1>3 DEF LoopsMatch
  <2>2. \A i \in 1..0 : FALSE
    OBVIOUS
  <2> QED
    BY <2>1, <2>2 DEF Matches
<1>5. Len(frames) \in Nat \ {0} /\ Top \in FrameType(code)
  BY <1>1, WithoutTop DEF Accepting, TypeInv, Typed, StackOK, Top
<1>6. Len(frames) \in 1..Len(frames) /\ \A j \in 1..Len(frames) : frames[j].emits \notin Loops
  BY <1>4, <1>5
<1>7. Held(outside, Top)
  BY <1>2, <1>6 DEF CallsHeld, Top
<1>8. Node \in outside
  BY <1>1, <1>5, <1>7, NodesHeld DEF Node
<1> QED
  BY <1>1, <1>2, <1>8 DEF Outside

\* The end of the function: it is refused only if it has been refused before.
LEMMA EndVerified ==
    ASSUME TypeInv, frames = <<>>, Good(code, Excused, blocks, ip, frames, value),
           NothingBehindJumps(code), void \/ Cut(code, body), NEW closed,
           closed = IF void /\ ~Terminated(blocks, ip) THEN Put(blocks, ip, Ret(0)) ELSE blocks
    PROVE  Verified(closed)
<1>1. BlocksOK(blocks) /\ ip \in 1..Len(blocks) /\ Len(blocks) \in Nat
  BY DEF TypeInv, Typed, BlocksOK
<1>2. /\ Sound(blocks) /\ value = ip /\ (void \/ Terminated(blocks, ip))
      /\ Accounted(blocks, frames, ip, value)
  BY DEF Good, First, CallsOK, Excused
<1>3. Cur(ip, value) = ip
  BY <1>1, <1>2 DEF Cur
<1>4. \A b \in 1..Len(blocks) : Open(blocks, b) => b = ip
  BY <1>2, <1>3 DEF Accounted
<1>5. CASE Terminated(blocks, ip)
  <2>1. closed = blocks /\ DOMAIN blocks = 1..Len(blocks)
    BY <1>1, <1>5 DEF BlocksOK
  <2> QED
    BY <1>2, <1>4, <1>5, <2>1 DEF Verified, Sound, Open
<1>6. CASE ~Terminated(blocks, ip)
  <2>1. closed = Put(blocks, ip, Ret(0)) /\ 0 \in Nat
    BY <1>2, <1>6
  <2>2. PutIs(blocks, ip, Ret(0), closed) /\ IsTerminator(Ret(0))
    BY <1>1, <2>1, PutEach
  <2>3. Sound(closed) /\ Terminated(closed, ip) /\ Len(closed) = Len(blocks) /\ BlocksOK(closed)
        /\ \A a \in 1..Len(blocks) : a # ip => closed[a] = blocks[a]
    BY <1>2, <1>6, <2>2 DEF PutIs, Open
  <2>4. \A a \in 1..Len(blocks) : Terminated(closed, a)
    <3> SUFFICES ASSUME NEW a \in 1..Len(blocks), a # ip PROVE Terminated(closed, a)
      BY <2>3
    <3>1. Terminated(blocks, a) /\ closed[a] = blocks[a]
      BY <1>4, <2>3 DEF Open
    <3> QED
      BY <3>1 DEF Terminated
  <2>5. DOMAIN closed = 1..Len(blocks)
    BY <2>3 DEF BlocksOK
  <2> QED
    BY <2>3, <2>4, <2>5 DEF Verified, Sound
<1> QED
  BY <1>5, <1>6

\* The end of the function keeps the invariant, ...
LEMMA AcceptingEnd ==
    ASSUME Accepting, EndFunction
    PROVE  Accepting'
<1> DEFINE closed == IF void /\ ~Terminated(blocks, ip) THEN Put(blocks, ip, Ret(0)) ELSE blocks
<1>1. /\ phase = "emitting" /\ frames = <<>>
      /\ phase' = IF Verified(closed) THEN "running" ELSE "rejected"
      /\ UNCHANGED <<code, body, void>>
  BY DEF EndFunction, source
<1>2. TypeInv'
  BY TypeEndFunction DEF Accepting
<1>3. TypeInv /\ (PlainIfs(code) => Fine(code, Excused, blocks, ip, frames, value))
  BY <1>1 DEF Accepting, Emitting
<1>4. PlainIfs(code) /\ NothingBehindJumps(code) /\ (void \/ Cut(code, body)) => Verified(closed)
  <2> SUFFICES ASSUME PlainIfs(code), NothingBehindJumps(code), void \/ Cut(code, body)
               PROVE  Verified(closed)
    OBVIOUS
  <2>1. Good(code, Excused, blocks, ip, frames, value)
    BY <1>3 DEF Fine
  <2>2. \A bs : bs = closed => Verified(bs)
    BY <1>1, <1>3, <2>1, EndVerified
  <2> QED
    BY <2>2
<1> HIDE DEF closed
<1>5. Emitting'
  BY <1>1 DEF Emitting
<1>6. PlainProgramsAreAccepted'
  BY <1>1, <1>4 DEF PlainProgramsAreAccepted
<1> QED
  BY <1>2, <1>5, <1>6 DEF Accepting

\* ... and so does everything else.
LEMMA AcceptingInvariant == Spec => []Accepting
<1>1. Init /\ TypeInv => Accepting
  BY AcceptingInit
<1>2. TypeInv /\ Accepting /\ [Next]_emitVars /\ TypeInv' => Accepting'
  <2> SUFFICES ASSUME TypeInv, Accepting, [Next]_emitVars, TypeInv' PROVE Accepting'
    OBVIOUS
  <2>1. CASE EmitStrayJump
    <3>1. phase' # "emitting" /\ UNCHANGED <<code, body, void>>
      BY <2>1 DEF EmitStrayJump, source
    <3>2. ~JumpsInLoops(code, body)
      BY <2>1, NoStrayJump
    <3> QED
      BY <3>1, <3>2 DEF Accepting, Emitting, PlainProgramsAreAccepted
  <2>2. CASE RunStep
    <3>1. phase = "running" /\ UNCHANGED <<code, body, void>>
      BY <2>2, RunStepFrame
    <3>2. phase' \in {"running", "returned"}
      BY <2>2, <3>1 DEF RunStep, MoveSource, RunEffect, RunTest, RunBr, RunReturn
    <3> QED
      BY <3>1, <3>2 DEF Accepting, Emitting, PlainProgramsAreAccepted
  <2>3. CASE UNCHANGED emitVars
    BY <2>3 DEF emitVars, source, Accepting, Emitting, StillInLoops, Excused,
              PlainProgramsAreAccepted
  <2> QED
    BY <2>1, <2>2, <2>3, NextSteps, AcceptingEmit, AcceptingEnd
<1> QED
  BY <1>1, <1>2, TypeInvariant, PTL DEF Spec

\* The compiler accepts every program of plain ifs that emits nothing behind a jump, has its
\* breaks and continues in loops and, unless it is void, ends with a jump:
\* BlockStmt::emit, IfStmt::emit, WhileStmt::emit and ForStmt::emit leave each block with
\* one terminator, its last instruction.
THEOREM PlainProgramsCompile == Spec => []PlainProgramsAreAccepted
<1>1. Accepting => PlainProgramsAreAccepted
  BY DEF Accepting
<1> QED
  BY <1>1, AcceptingInvariant, PTL

-----------------------------------------------------------------------------
(* What the source still has to do *)

\* One thing to do and the rest.
LEMMA TodoFirst ==
    ASSUME NEW c, NEW d \in {"statement", "again", "test"}, NEW s \in 1..Len(c), NEW r \in Rests(c)
    PROVE  /\ Todo(d, s) \in Todos(c) /\ Todo(d, s).does = d /\ Todo(d, s).stmt = s
           /\ <<Todo(d, s)>> \in Rests(c)
           /\ <<Todo(d, s)>> \o r \in Rests(c) /\ <<Todo(d, s)>> \o r # <<>>
           /\ Head(<<Todo(d, s)>> \o r) = Todo(d, s) /\ Tail(<<Todo(d, s)>> \o r) = r
<1>1. Todo(d, s) \in Todos(c) /\ Todo(d, s).does = d /\ Todo(d, s).stmt = s
  BY DEF Todo, Todos
<1>2. \A S, t : \A q \in Seq(S) : t \in S =>
         /\ <<t>> \in Seq(S) /\ <<t>> \o q \in Seq(S) /\ <<t>> \o q # <<>>
         /\ Head(<<t>> \o q) = t /\ Tail(<<t>> \o q) = q
  OBVIOUS
<1> QED
  BY <1>1, <1>2 DEF Rests

\* The statements of a list.
LEMMA StatementsRest ==
    ASSUME NEW c, NEW list \in Seq(1..Len(c))
    PROVE  /\ Statements(list) \in Rests(c) /\ Len(Statements(list)) = Len(list)
           /\ \A i \in 1..Len(list) : Statements(list)[i] = Todo("statement", list[i])
<1>1. Len(list) \in Nat /\ DOMAIN list = 1..Len(list) /\ \A i \in 1..Len(list) : list[i] \in 1..Len(c)
  OBVIOUS
<1>2. \A i \in 1..Len(list) : Todo("statement", list[i]) \in Todos(c)
  BY <1>1 DEF Todo, Todos
<1>3. Statements(list) = [i \in 1..Len(list) |-> Todo("statement", list[i])]
  BY <1>1 DEF Statements
<1> QED
  BY <1>1, <1>2, <1>3 DEF Rests

\* What is behind it is more to do.
LEMMA RestsJoin ==
    ASSUME NEW c, NEW l \in Rests(c), NEW r \in Rests(c)
    PROVE  /\ l \o r \in Rests(c) /\ <<>> \in Rests(c) /\ <<>> \o r = r
           /\ \A q \in Rests(c) : (l \o r) \o q = l \o (r \o q)
<1>1. \A S : \A u, v \in Seq(S) : /\ u \o v \in Seq(S) /\ <<>> \in Seq(S) /\ <<>> \o u = u
  OBVIOUS
<1>2. \A S : \A u, v, w \in Seq(S) : (u \o v) \o w = u \o (v \o w)
  BY ConcatAssociative
<1> QED
  BY <1>1, <1>2 DEF Rests

\* The statements of a list that is not empty.
LEMMA StatementsFirst ==
    ASSUME NEW c, NEW list \in Seq(1..Len(c)), list # <<>>
    PROVE  Statements(list) = <<Todo("statement", Head(list))>> \o Statements(Tail(list))
<1>1. Len(list) \in Nat \ {0} /\ Tail(list) \in Seq(1..Len(c)) /\ Len(Tail(list)) = Len(list) - 1
      /\ Head(list) = list[1] /\ Head(list) \in 1..Len(c)
      /\ \A i \in 1..(Len(list) - 1) : Tail(list)[i] = list[i + 1]
  OBVIOUS
<1> DEFINE l == Statements(list)
           t == Todo("statement", Head(list))
           r == Statements(Tail(list))
<1>2. l \in Rests(c) /\ Len(l) = Len(list) /\ \A i \in 1..Len(list) : l[i] = Todo("statement", list[i])
  BY StatementsRest
<1>3. r \in Rests(c) /\ Len(r) = Len(list) - 1
      /\ \A i \in 1..(Len(list) - 1) : r[i] = Todo("statement", list[i + 1])
  <2> DEFINE tail == Tail(list)
  <2>1. tail \in Seq(1..Len(c)) /\ Len(tail) = Len(list) - 1
        /\ \A i \in 1..(Len(list) - 1) : tail[i] = list[i + 1]
    BY <1>1
  <2> HIDE DEF tail
  <2>2. /\ Statements(tail) \in Rests(c) /\ Len(Statements(tail)) = Len(tail)
        /\ \A i \in 1..Len(tail) : Statements(tail)[i] = Todo("statement", tail[i])
    BY <2>1, StatementsRest
  <2> QED
    BY <2>1, <2>2 DEF tail
<1>4. t \in Todos(c) /\ t = Todo("statement", list[1])
  BY <1>1 DEF Todo, Todos
<1> HIDE DEF l, t, r
<1>5. <<t>> \o r \in Seq(Todos(c)) /\ Len(<<t>> \o r) = Len(list)
      /\ (<<t>> \o r)[1] = t /\ \A i \in 2..Len(list) : (<<t>> \o r)[i] = r[i - 1]
  <2>1. <<t>> \in Seq(Todos(c)) /\ Len(<<t>>) = 1 /\ <<t>>[1] = t /\ r \in Seq(Todos(c))
    BY <1>3, <1>4 DEF Rests
  <2>2. /\ <<t>> \o r \in Seq(Todos(c)) /\ Len(<<t>> \o r) = 1 + Len(r)
        /\ \A i \in 1..(1 + Len(r)) : (<<t>> \o r)[i] = IF i <= 1 THEN <<t>>[i] ELSE r[i - 1]
    BY <2>1, ConcatProperties
  <2>3. 1 + Len(r) = Len(list) /\ 1 \in 1..Len(list)
    BY <1>1, <1>3
  <2>4. (<<t>> \o r)[1] = t
    BY <2>1, <2>2, <2>3
  <2>5. \A i \in 2..Len(list) : i \in 1..Len(list) /\ ~(i <= 1)
    BY <1>1
  <2> QED
    BY <2>2, <2>3, <2>4, <2>5
<1>6. \A i \in 1..Len(list) : (<<t>> \o r)[i] = l[i]
  <2> TAKE i \in 1..Len(list)
  <2>1. CASE i = 1
    BY <1>2, <1>4, <1>5, <2>1
  <2>2. CASE i # 1
    <3>1. i \in 2..Len(list) /\ i - 1 \in 1..(Len(list) - 1) /\ (i - 1) + 1 = i
      BY <1>1, <2>2
    <3>2. r[i - 1] = Todo("statement", list[i])
      BY <1>3, <3>1
    <3> QED
      BY <1>2, <1>5, <3>1, <3>2
  <2> QED
    BY <2>1, <2>2
<1>7. l = <<t>> \o r
  BY <1>2, <1>5, <1>6, SeqEqual DEF Rests
<1> QED
  BY <1>7 DEF l, t, r

\* An empty list, and one of a single statement.
LEMMA StatementsFew ==
    /\ Statements(<<>>) = <<>>
    /\ \A c, list : list \in Seq(1..Len(c)) /\ Len(list) = 1
           => Statements(list) = <<Todo("statement", list[1])>>
<1>1. Statements(<<>>) = <<>>
  BY DEF Statements
<1>2. ASSUME NEW c, NEW list, list \in Seq(1..Len(c)), Len(list) = 1
      PROVE  Statements(list) = <<Todo("statement", list[1])>>
  <2>1. Statements(list) = [i \in 1..1 |-> Todo("statement", list[i])]
    BY <1>2 DEF Statements
  <2> QED
    BY <2>1
<1> QED
  BY <1>1, <1>2

\* Places where the iteration of a loop ends, and the first of them.
LoopEndAt(r, m) == m \in 1..Len(r) /\ r[m].does = "again" /\ \A j \in 1..(m - 1) : r[j].does # "again"

\* FromLoopEnd begins at the first.
LEMMA LoopEndFirst ==
    ASSUME NEW c, NEW r \in Rests(c), NEW m, LoopEndAt(r, m)
    PROVE  InLoop(r) /\ FromLoopEnd(r) = SubSeq(r, m, Len(r))
<1>1. Len(r) \in Nat /\ DOMAIN r = 1..Len(r)
  BY DEF Rests
<1> DEFINE P(i) == r[i].does = "again" /\ \A j \in 1..(i - 1) : r[j].does # "again"
<1>2. m \in DOMAIN r /\ P(m)
  BY <1>1 DEF LoopEndAt
<1>3. ASSUME NEW i \in DOMAIN r, P(i) PROVE i = m
  <2>1. ~(i \in 1..(m - 1)) /\ ~(m \in 1..(i - 1))
    BY <1>2, <1>3
  <2> QED
    BY <1>1, <1>2, <2>1
<1>4. (CHOOSE i \in DOMAIN r : P(i)) = m
  BY <1>2, <1>3
<1>5. InLoop(r)
  BY <1>2 DEF InLoop
<1> QED
  BY <1>4, <1>5 DEF FromLoopEnd

\* There is a first one.
LEMMA LoopEndExists ==
    ASSUME NEW c, NEW r \in Rests(c), InLoop(r)
    PROVE  \E m : LoopEndAt(r, m)
<1>1. Len(r) \in Nat /\ DOMAIN r = 1..Len(r)
  BY DEF Rests
<1> DEFINE S == {i \in 1..Len(r) : r[i].does = "again"}
<1>2. S \in SUBSET Nat /\ S # {}
  BY <1>1 DEF InLoop
<1>3. PICK m \in S : \A k \in S : m <= k
  BY <1>2, LeastNatural
<1>4. \A j \in 1..(m - 1) : j \in 1..Len(r) /\ ~(m <= j)
  BY <1>1, <1>3
<1>5. LoopEndAt(r, m)
  BY <1>3, <1>4 DEF LoopEndAt
<1> QED
  BY <1>5

\* What is behind the end of a loop.
LEMMA FromLoopEndRest ==
    ASSUME NEW c, NEW r \in Rests(c), InLoop(r)
    PROVE  /\ FromLoopEnd(r) \in Rests(c) /\ FromLoopEnd(r) # <<>>
           /\ Head(FromLoopEnd(r)) \in Todos(c) /\ Tail(FromLoopEnd(r)) \in Rests(c)
<1>1. PICK m : LoopEndAt(r, m)
  BY LoopEndExists
<1>2. m \in 1..Len(r) /\ Len(r) \in Nat /\ r \in Seq(Todos(c)) /\ m \in Int /\ Len(r) \in Int
  BY <1>1 DEF LoopEndAt, Rests
<1>3. \A i \in m..Len(r) : i \in 1..Len(r)
  BY <1>2
<1>4. \A i \in m..Len(r) : r[i] \in Todos(c)
  BY <1>2, <1>3, ElementOfSeq
<1>5. /\ SubSeq(r, m, Len(r)) \in Seq(Todos(c))
      /\ Len(SubSeq(r, m, Len(r))) = IF m <= Len(r) THEN Len(r) - m + 1 ELSE 0
  BY <1>2, <1>4, SubSeqProperties
<1>6. FromLoopEnd(r) = SubSeq(r, m, Len(r))
  BY <1>1, LoopEndFirst
<1>7. FromLoopEnd(r) \in Seq(Todos(c)) /\ FromLoopEnd(r) # <<>>
  <2>1. m <= Len(r) /\ Len(r) - m + 1 # 0
    BY <1>2
  <2>2. Len(SubSeq(r, m, Len(r))) # 0
    BY <1>5, <2>1
  <2>3. \A t : t = <<>> => Len(t) = 0
    OBVIOUS
  <2> QED
    BY <1>5, <1>6, <2>2, <2>3
<1> QED
  BY <1>7, HeadTailProperties DEF Rests

\* Statements in front of it do not change where the loop ends.
LEMMA LoopEndBehind ==
    ASSUME NEW c, NEW u \in Rests(c), NEW w \in Rests(c),
           \A i \in 1..Len(u) : u[i].does # "again", InLoop(w)
    PROVE  InLoop(u \o w) /\ FromLoopEnd(u \o w) = FromLoopEnd(w)
<1> DEFINE r == u \o w
<1>1. PICK m : LoopEndAt(w, m)
  BY LoopEndExists
<1>2. /\ u \in Seq(Todos(c)) /\ w \in Seq(Todos(c)) /\ Len(u) \in Nat /\ Len(w) \in Nat
      /\ m \in 1..Len(w) /\ w[m].does = "again" /\ \A j \in 1..(m - 1) : w[j].does # "again"
  BY <1>1 DEF LoopEndAt, Rests
<1>3. /\ r \in Seq(Todos(c)) /\ Len(r) = Len(u) + Len(w)
      /\ \A i \in 1..(Len(u) + Len(w)) : r[i] = IF i <= Len(u) THEN u[i] ELSE w[i - Len(u)]
  BY <1>2, ConcatProperties
<1>8. r = u \o w
  OBVIOUS
<1> HIDE DEF r
<1>9. PICK n : n = Len(u) + m
  OBVIOUS
<1>4. LoopEndAt(r, n)
  <2>1. n \in 1..Len(r) /\ ~(n <= Len(u)) /\ n - Len(u) = m
    BY <1>2, <1>3, <1>9
  <2>2. r[n].does = "again"
    BY <1>2, <1>3, <2>1
  <2>3. ASSUME NEW j \in 1..(n - 1) PROVE r[j].does # "again"
    <3>1. j \in 1..(Len(u) + Len(w))
      BY <1>2, <1>9
    <3>2. CASE j <= Len(u)
      <4>1. j \in 1..Len(u)
        BY <1>2, <3>2
      <4> QED
        BY <1>3, <3>1, <3>2, <4>1
    <3>3. CASE ~(j <= Len(u))
      <4>1. j - Len(u) \in 1..(m - 1)
        BY <1>2, <1>9, <3>3
      <4> QED
        BY <1>2, <1>3, <3>1, <3>3, <4>1
    <3> QED
      BY <3>2, <3>3
  <2> QED
    BY <2>1, <2>2, <2>3 DEF LoopEndAt
<1>5. InLoop(r) /\ FromLoopEnd(r) = SubSeq(r, n, Len(r))
  BY <1>3, <1>4, LoopEndFirst DEF Rests
<1>6. FromLoopEnd(w) = SubSeq(w, m, Len(w))
  BY <1>1, LoopEndFirst
<1>7. SubSeq(r, n, Len(r)) = SubSeq(w, m, Len(w))
  <2>1. /\ n \in (Len(u) + 1)..(Len(u) + Len(w)) /\ Len(r) \in (Len(u) + 1)..(Len(u) + Len(w))
        /\ n - Len(u) = m /\ Len(r) - Len(u) = Len(w)
    BY <1>2, <1>3, <1>9
  <2>2. SubSeq(u \o w, n, Len(r)) = SubSeq(w, n - Len(u), Len(r) - Len(u))
    BY <1>2, <2>1, SubSeqOfConcat2
  <2> QED
    BY <1>8, <2>1, <2>2
<1> QED
  BY <1>5, <1>6, <1>7, <1>8

\* The end of an iteration is where the loop ends.
LEMMA LoopEndHere ==
    ASSUME NEW c, NEW s \in 1..Len(c), NEW k \in Rests(c)
    PROVE  LET r == <<Todo("again", s)>> \o k
           IN  InLoop(r) /\ FromLoopEnd(r) = r
<1> DEFINE r == <<Todo("again", s)>> \o k
<1>1. r \in Rests(c) /\ r # <<>> /\ Head(r) = Todo("again", s) /\ Todo("again", s).does = "again"
  BY TodoFirst
<1> HIDE DEF r
<1>2. Len(r) \in Nat \ {0} /\ r[1].does = "again" /\ r \in Seq(Todos(c))
  BY <1>1 DEF Rests
<1>3. \A j \in 1..(1 - 1) : FALSE
  OBVIOUS
<1>4. LoopEndAt(r, 1)
  BY <1>2, <1>3 DEF LoopEndAt
<1>5. InLoop(r) /\ FromLoopEnd(r) = SubSeq(r, 1, Len(r))
  BY <1>1, <1>4, LoopEndFirst
<1> QED
  BY <1>2, <1>5, SubSeqFull DEF r

\* What is known of something to do.
DoingIs(c, r, d, s, k) ==
    /\ r \in Rests(c) /\ r # <<>> /\ Head(r).stmt = s /\ Head(r).does = d /\ Tail(r) = k
    /\ Next1(c, r) = IF d = "statement" THEN c[s].kind ELSE d

\* The first thing to do decides what is next.
LEMMA DoingFirst ==
    ASSUME NEW c, NEW s \in 1..Len(c), NEW k \in Rests(c)
    PROVE  /\ DoingIs(c, Doing("statement", s, k), "statement", s, k)
           /\ DoingIs(c, Doing("again", s, k), "again", s, k)
           /\ DoingIs(c, Doing("test", s, k), "test", s, k)
<1>1. ASSUME NEW d \in {"statement", "again", "test"} PROVE DoingIs(c, Doing(d, s, k), d, s, k)
  <2>1. PICK r : r = <<Todo(d, s)>> \o k
    OBVIOUS
  <2>2. r \in Rests(c) /\ r # <<>> /\ Head(r) = Todo(d, s) /\ Tail(r) = k
    BY <2>1, TodoFirst
  <2>3. Todo(d, s).does = d /\ Todo(d, s).stmt = s
    BY DEF Todo
  <2>4. Head(r).stmt = s /\ Head(r).does = d
    BY <2>2, <2>3
  <2>5. DoingIs(c, r, d, s, k)
    BY <2>2, <2>4 DEF DoingIs, Next1
  <2> QED
    BY <2>1, <2>5 DEF Doing
<1> QED
  BY <1>1

\* What is left to do after a list.
LEMMA ListedRest ==
    ASSUME NEW c, NEW list \in Seq(1..Len(c)), NEW k \in Rests(c)
    PROVE  /\ Listed(list, k) \in Rests(c)
           /\ list = <<>> => Listed(list, k) = k
           /\ list # <<>> => Listed(list, k) = Doing("statement", Head(list), Listed(Tail(list), k))
<1>1. Statements(list) \in Rests(c)
  BY StatementsRest
<1>2. Listed(list, k) \in Rests(c)
  BY <1>1, RestsJoin DEF Listed
<1>3. list = <<>> => Listed(list, k) = k
  BY RestsJoin, StatementsFew DEF Listed
<1>4. ASSUME list # <<>>
      PROVE  Listed(list, k) = Doing("statement", Head(list), Listed(Tail(list), k))
  <2>1. Tail(list) \in Seq(1..Len(c)) /\ Head(list) \in 1..Len(c)
    BY <1>4, HeadTailProperties
  <2>2. PICK t : t = Statements(Tail(list))
    OBVIOUS
  <2>3. t \in Rests(c)
    <3> DEFINE tail == Tail(list)
    <3> HIDE DEF tail
    <3>1. tail \in Seq(1..Len(c)) => Statements(tail) \in Rests(c)
      BY StatementsRest
    <3> QED
      BY <2>1, <2>2, <3>1 DEF tail
  <2>4. PICK h : h = <<Todo("statement", Head(list))>>
    OBVIOUS
  <2>5. h \in Rests(c)
    <3> DEFINE s == Head(list)
    <3> HIDE DEF s
    <3>1. s \in 1..Len(c) => <<Todo("statement", s)>> \in Rests(c)
      <4>1. s \in 1..Len(c) => Todo("statement", s) \in Todos(c)
        BY DEF Todo, Todos
      <4> QED
        BY <4>1 DEF Rests
    <3> QED
      BY <2>1, <2>4, <3>1 DEF s
  <2>6. (h \o t) \o k = h \o (t \o k)
    <3>1. h \in Seq(Todos(c)) /\ t \in Seq(Todos(c)) /\ k \in Seq(Todos(c))
      BY <2>3, <2>5 DEF Rests
    <3> QED
      BY <3>1, ConcatAssociative
  <2>7. Statements(list) = h \o t
    BY <1>4, <2>2, <2>4, StatementsFirst
  <2> QED
    BY <2>2, <2>4, <2>6, <2>7 DEF Listed, Doing
<1> QED
  BY <1>2, <1>3, <1>4

\* What an if does when its condition is false.
LEMMA OtherwiseIs ==
    ASSUME NEW c, CodeOK(c), NEW s \in 1..Len(c), NEW k \in Rests(c)
    PROVE  /\ Otherwise(c, s, k) \in Rests(c)
           /\ c[s].else = "none" => Otherwise(c, s, k) = k
           /\ c[s].else # "none" => Otherwise(c, s, k) = Listed(c[s].other, k)
           /\ c[s].else = "if" => Otherwise(c, s, k) = Doing("statement", c[s].other[1], k)
<1>1. c[s].other \in Seq(1..Len(c)) /\ (c[s].else = "if" => Len(c[s].other) = 1)
  BY StatementFacts
<1>2. Branch(c, s) = IF c[s].else = "none" THEN <<>> ELSE Statements(c[s].other)
  BY DEF Branch
<1>3. c[s].else = "none" => Otherwise(c, s, k) = k
  BY <1>2, RestsJoin DEF Otherwise
<1>4. c[s].else # "none" => Otherwise(c, s, k) = Listed(c[s].other, k)
  BY <1>2 DEF Otherwise, Listed
<1>5. Listed(c[s].other, k) \in Rests(c)
  BY <1>1, ListedRest
<1>6. c[s].else = "if" => Otherwise(c, s, k) = Doing("statement", c[s].other[1], k)
  BY <1>1, <1>2, StatementsFew DEF Otherwise, Doing
<1> QED
  BY <1>3, <1>4, <1>5, <1>6

\* A silent move.
LEMMA KinMoves ==
    ASSUME NEW c, NEW r \in Rests(c), Silent(c, r)
    PROVE  Kin(c, Moved(c, r)) = Kin(c, r)
BY DEF Kin, Unmoved

\* Where the source does something, it is told apart from everywhere else.
LEMMA KinLoud ==
    ASSUME NEW c, NEW l \in Rests(c), NEW r \in Rests(c), ~Silent(c, l), ~Silent(c, r),
           Kin(c, l) = Kin(c, r)
    PROVE  l = r
<1> DEFINE Closed(T) == T \in SUBSET Rests(c) /\ r \in T
                          /\ \A x \in Rests(c) : Silent(c, x) /\ Moved(c, x) \in T => x \in T
           S == {x \in Rests(c) : \A T \in SUBSET Rests(c) : Closed(T) => x \in T}
<1>1. Closed(S)
  OBVIOUS
<1>2. \A T \in SUBSET Rests(c) : Closed(T) => S \subseteq T
  OBVIOUS
<1>3. ASSUME NEW x \in Rests(c), Silent(c, x), x \in S, Moved(c, x) \notin S PROVE FALSE
  <2> DEFINE T == S \ {x}
  <2>1. Closed(T)
    BY <1>1, <1>3
  <2>2. x \notin T /\ T \in SUBSET Rests(c)
    OBVIOUS
  <2> HIDE DEF T, Closed, S
  <2> QED
    BY <1>2, <1>3, <2>1, <2>2
<1>4. Unmoved(c, S)
  BY <1>1, <1>3 DEF Unmoved
<1>5. S \in Kin(c, r)
  BY <1>1, <1>4 DEF Kin
<1>6. l \in S
  BY <1>5 DEF Kin
<1>7. ASSUME l # r PROVE FALSE
  <2> DEFINE T == S \ {l}
  <2>1. Closed(T)
    BY <1>1, <1>7
  <2>2. l \notin T /\ T \in SUBSET Rests(c)
    OBVIOUS
  <2> HIDE DEF T, Closed, S
  <2> QED
    BY <1>2, <1>6, <2>1, <2>2
<1> QED
  BY <1>7

\* One iteration of a loop.
LEMMA IterationIs ==
    ASSUME NEW c, CodeOK(c), NEW s \in 1..Len(c), NEW k \in Rests(c)
    PROVE  /\ Listed(c[s].then, Doing("again", s, k)) \in Rests(c)
           /\ Statements(c[s].then) \o <<Todo("again", s)>> \o k
                = Listed(c[s].then, Doing("again", s, k))
<1>1. c[s].then \in Seq(1..Len(c))
  BY StatementFacts
<1>2. PICK l : l = Statements(c[s].then)
  OBVIOUS
<1>3. l \in Rests(c)
  BY <1>1, <1>2, StatementsRest
<1>4. PICK a : a = <<Todo("again", s)>>
  OBVIOUS
<1>5. a \in Rests(c)
  <2>1. Todo("again", s) \in Todos(c)
    BY DEF Todo, Todos
  <2> QED
    BY <1>4, <2>1 DEF Rests
<1>6. l \in Seq(Todos(c)) /\ a \in Seq(Todos(c)) /\ k \in Seq(Todos(c))
  BY <1>3, <1>5 DEF Rests
<1>7. (l \o a) \o k = l \o (a \o k)
  BY <1>6, ConcatAssociative
<1>8. Doing("again", s, k) \in Rests(c)
  BY DoingFirst DEF DoingIs
<1>9. Listed(c[s].then, Doing("again", s, k)) \in Rests(c)
  BY <1>1, <1>8, ListedRest
<1> QED
  BY <1>2, <1>4, <1>7, <1>9 DEF Listed, Doing

\* What the statements do that are no silent moves.
LEMMA StatementActs ==
    ASSUME NEW c, CodeOK(c), NEW s \in 1..Len(c), NEW k \in Rests(c)
    PROVE  /\ c[s].kind = "do" => Acts(c, Doing("statement", s, k), "do", s, k)
           /\ c[s].kind = "return" => Finishes(c, Doing("statement", s, k), s)
           /\ c[s].kind = "if" =>
                Tests(c, Doing("statement", s, k), s, Listed(c[s].then, k), Otherwise(c, s, k))
           /\ c[s].kind = "while" =>
                Tests(c, Doing("statement", s, k), s, Listed(c[s].then, Doing("again", s, k)), k)
           /\ c[s].kind = "for" => Acts(c, Doing("statement", s, k), "init", s, Doing("test", s, k))
<1> DEFINE r == Doing("statement", s, k)
<1>1. r \in Rests(c) /\ r # <<>> /\ Head(r).stmt = s /\ Tail(r) = k /\ Next1(c, r) = c[s].kind
  BY DoingFirst DEF DoingIs
<1>2. Statements(c[s].then) \o <<Todo("again", s)>> \o k = Listed(c[s].then, Doing("again", s, k))
  BY IterationIs
<1> HIDE DEF r
<1>3. c[s].kind = "do" => Acts(c, r, "do", s, k)
  BY <1>1 DEF Acts, Silent, Does, After
<1>4. c[s].kind = "return" => Finishes(c, r, s)
  BY <1>1 DEF Finishes, Silent, Does
<1>5. c[s].kind = "if" => Tests(c, r, s, Listed(c[s].then, k), Otherwise(c, s, k))
  BY <1>1 DEF Tests, Silent, Does, After, Listed, Otherwise
<1>6. c[s].kind = "while" => Tests(c, r, s, Listed(c[s].then, Doing("again", s, k)), k)
  BY <1>1, <1>2 DEF Tests, Silent, Does, After
<1>7. c[s].kind = "for" => Acts(c, r, "init", s, Doing("test", s, k))
  BY <1>1 DEF Acts, Silent, Does, After, Doing
<1> QED
  BY <1>3, <1>4, <1>5, <1>6, <1>7 DEF r

\* The other parts of a for loop, and the end of the function.
LEMMA ForActs ==
    ASSUME NEW c, CodeOK(c), NEW s \in 1..Len(c), NEW k \in Rests(c), c[s].kind = "for"
    PROVE  /\ Tests(c, Doing("test", s, k), s, Listed(c[s].then, Doing("again", s, k)), k)
           /\ Acts(c, Doing("again", s, k), "update", s, Doing("test", s, k))
<1>1. Statements(c[s].then) \o <<Todo("again", s)>> \o k = Listed(c[s].then, Doing("again", s, k))
  BY IterationIs
<1>2. ASSUME NEW r, DoingIs(c, r, "test", s, k)
      PROVE  Tests(c, r, s, Listed(c[s].then, Doing("again", s, k)), k)
  <2>1. r \in Rests(c) /\ r # <<>> /\ Head(r).stmt = s /\ Tail(r) = k /\ Next1(c, r) = "test"
    BY <1>2 DEF DoingIs
  <2> QED
    BY <1>1, <2>1 DEF Tests, Silent, Does, After
<1>3. ASSUME NEW r, DoingIs(c, r, "again", s, k)
      PROVE  Acts(c, r, "update", s, Doing("test", s, k))
  <2>1. r \in Rests(c) /\ r # <<>> /\ Head(r).stmt = s /\ Tail(r) = k /\ Next1(c, r) = "again"
    BY <1>3 DEF DoingIs
  <2> QED
    BY <2>1 DEF Acts, Silent, Does, After, Doing
<1> QED
  BY <1>2, <1>3, DoingFirst

\* Behind the body nothing is left but to return.
LEMMA NothingLeft == \A c : Finishes(c, <<>>, 0)
BY DEF Finishes, Silent, Does, Rests

\* The moves that have no effect: an if of the compile time, ...
LEMMA CompIfMoves ==
    ASSUME NEW c, NEW s \in 1..Len(c), NEW k \in Rests(c), c[s].kind = "compif"
    PROVE  Kin(c, Doing("statement", s, k)) =
             IF c[s].holds THEN Kin(c, Listed(c[s].then, k)) ELSE Kin(c, Otherwise(c, s, k))
<1> DEFINE r == Doing("statement", s, k)
<1>1. r \in Rests(c) /\ r # <<>> /\ Head(r).stmt = s /\ Tail(r) = k /\ Next1(c, r) = "compif"
  BY DoingFirst DEF DoingIs
<1> HIDE DEF r
<1>2. Silent(c, r)
  BY <1>1 DEF Silent
<1>3. Moved(c, r) = IF c[s].holds THEN Listed(c[s].then, k) ELSE Otherwise(c, s, k)
  BY <1>1 DEF Moved, Listed, Otherwise
<1>4. Kin(c, Moved(c, r)) = Kin(c, r)
  BY <1>1, <1>2, KinMoves
<1> QED
  BY <1>3, <1>4 DEF r

\* ... the end of an iteration of a while loop, ...
LEMMA WhileAgain ==
    ASSUME NEW c, NEW s \in 1..Len(c), NEW k \in Rests(c), c[s].kind = "while"
    PROVE  Kin(c, Doing("again", s, k)) = Kin(c, Doing("statement", s, k))
<1> DEFINE r == Doing("again", s, k)
<1>1. r \in Rests(c) /\ r # <<>> /\ Head(r).stmt = s /\ Tail(r) = k /\ Next1(c, r) = "again"
  BY DoingFirst DEF DoingIs
<1> HIDE DEF r
<1>2. Silent(c, r)
  BY <1>1 DEF Silent
<1>3. Moved(c, r) = Doing("statement", s, k)
  BY <1>1 DEF Moved, Doing
<1>4. Kin(c, Moved(c, r)) = Kin(c, r)
  BY <1>1, <1>2, KinMoves
<1> QED
  BY <1>3, <1>4 DEF r

\* ... and a jump in a loop.
LEMMA JumpMoves ==
    ASSUME NEW c, NEW s \in 1..Len(c), NEW k \in Rests(c), c[s].kind \in {"break", "continue"}, InLoop(k)
    PROVE  Kin(c, Doing("statement", s, k)) =
             IF c[s].kind = "break" THEN Kin(c, Tail(FromLoopEnd(k))) ELSE Kin(c, FromLoopEnd(k))
<1> DEFINE r == Doing("statement", s, k)
<1>1. r \in Rests(c) /\ r # <<>> /\ Head(r).stmt = s /\ Tail(r) = k /\ Next1(c, r) = c[s].kind
  BY DoingFirst DEF DoingIs
<1>2. InLoop(r) /\ FromLoopEnd(r) = FromLoopEnd(k)
  <2> DEFINE u == <<Todo("statement", s)>>
  <2>1. Todo("statement", s) \in Todos(c) /\ Todo("statement", s).does = "statement"
    BY DEF Todo, Todos
  <2>2. u \in Rests(c) /\ Len(u) = 1 /\ u[1].does = "statement"
    BY <2>1 DEF Rests
  <2>3. r = u \o k
    BY DEF Doing
  <2>4. \A i \in 1..1 : i = 1
    OBVIOUS
  <2> HIDE DEF u, r
  <2>5. \A i \in 1..Len(u) : u[i].does # "again"
    BY <2>2, <2>4
  <2> QED
    BY <2>2, <2>3, <2>5, LoopEndBehind
<1> HIDE DEF r
<1>3. Silent(c, r)
  BY <1>1, <1>2 DEF Silent
<1>4. Moved(c, r) = IF c[s].kind = "break" THEN Tail(FromLoopEnd(k)) ELSE FromLoopEnd(k)
  BY <1>1, <1>2 DEF Moved
<1>5. Kin(c, Moved(c, r)) = Kin(c, r)
  BY <1>1, <1>3, KinMoves
<1> QED
  BY <1>4, <1>5 DEF r

\* Where the innermost loop ends.
LEMMA LoopEnds ==
    ASSUME NEW c, NEW s \in 1..Len(c), NEW k \in Rests(c)
    PROVE  /\ InLoop(Doing("again", s, k)) /\ FromLoopEnd(Doing("again", s, k)) = Doing("again", s, k)
           /\ Tail(FromLoopEnd(Doing("again", s, k))) = k
<1>1. InLoop(Doing("again", s, k)) /\ FromLoopEnd(Doing("again", s, k)) = Doing("again", s, k)
  BY LoopEndHere DEF Doing
<1>2. Tail(Doing("again", s, k)) = k
  BY DoingFirst DEF DoingIs
<1> QED
  BY <1>1, <1>2

\* Statements do not move it.
LEMMA LoopEndsBehind ==
    ASSUME NEW c, NEW list \in Seq(1..Len(c)), NEW k \in Rests(c), InLoop(k)
    PROVE  InLoop(Listed(list, k)) /\ FromLoopEnd(Listed(list, k)) = FromLoopEnd(k)
<1> DEFINE u == Statements(list)
<1>1. u \in Rests(c) /\ Len(u) = Len(list) /\ \A i \in 1..Len(list) : u[i] = Todo("statement", list[i])
  BY StatementsRest
<1> HIDE DEF u
<1>2. \A i \in 1..Len(list) : u[i].does # "again"
  <2>1. \A l : Todo("statement", l).does = "statement"
    BY DEF Todo
  <2> QED
    BY <1>1, <2>1
<1>3. Listed(list, k) = u \o k
  BY DEF Listed, u
<1> QED
  BY <1>1, <1>2, <1>3, LoopEndBehind

-----------------------------------------------------------------------------
(* What the blocks do, said of the source *)

\* Step by step.
LEMMA ExtendsTrans ==
    ASSUME NEW bs, NEW L, NEW ps, NEW M, NEW qs, NEW N, NEW S, NEW T,
           Extends(bs, L, ps, M, S), Extends(ps, M, qs, N, T)
    PROVE  Extends(bs, L, qs, N, S \cup T)
<1>1. Len(bs) \in Nat /\ Len(ps) \in Nat /\ Len(qs) \in Nat /\ Len(bs) <= Len(ps) /\ Len(ps) <= Len(qs)
  BY DEF Extends
<1>2. Len(bs) <= Len(qs) /\ \A a \in 1..Len(bs) : a \in 1..Len(ps)
  BY <1>1
<1>3. ASSUME NEW a \in 1..Len(bs)
      PROVE  /\ N[a][1] = L[a][1] /\ (Busy(bs, a) => Busy(qs, a))
             /\ a \notin S \cup T => qs[a] = bs[a] /\ End(qs, N, a) = End(bs, L, a)
  <2>1. a \in 1..Len(ps)
    BY <1>2
  <2> QED
    BY <2>1 DEF Extends
<1> QED
  BY <1>1, <1>2, <1>3 DEF Extends

\* More of the blocks may change, ...
LEMMA ExtendsMore ==
    ASSUME NEW bs, NEW L, NEW ps, NEW M, NEW S, NEW T, Extends(bs, L, ps, M, S), S \subseteq T
    PROVE  Extends(bs, L, ps, M, T)
BY DEF Extends

\* ... or nothing does.
LEMMA ExtendsSame ==
    ASSUME NEW bs, NEW L, NEW T, Len(bs) \in Nat
    PROVE  Extends(bs, L, bs, L, T)
BY DEF Extends

\* There are no more ranks than blocks.
LEMMA TerminalsFew ==
    ASSUME NEW bs, Len(bs) \in Nat
    PROVE  /\ IsFiniteSet(Terminals(bs)) /\ Cardinality(Terminals(bs)) \in Nat
           /\ Cardinality(Terminals(bs)) <= Len(bs)
<1>1. 1 \in Int /\ Len(bs) \in Int
  OBVIOUS
<1>2. IsFiniteSet(1..Len(bs)) /\ Cardinality(1..Len(bs)) = IF 1 > Len(bs) THEN 0 ELSE Len(bs) - 1 + 1
  BY <1>1, FS_Interval
<1>3. Cardinality(1..Len(bs)) = Len(bs)
  BY <1>2
<1>4. Terminals(bs) \in SUBSET (1..Len(bs))
  BY DEF Terminals
<1>5. IsFiniteSet(Terminals(bs)) /\ Cardinality(Terminals(bs)) <= Cardinality(1..Len(bs))
  BY <1>2, <1>4, FS_Subset
<1> QED
  BY <1>3, <1>5, FS_CardinalityType

\* What PutIs says of the ends.
LEMMA PutShape ==
    ASSUME NEW bs, BlocksOK(bs), NEW b \in 1..Len(bs), NEW in \in Instruction, NEW ps,
           PutIs(bs, b, in, ps)
    PROVE  /\ Len(bs) \in Nat /\ Len(ps) = Len(bs) /\ BlocksOK(ps)
           /\ Len(bs[b]) \in Nat /\ Len(ps[b]) = Len(bs[b]) + 1 /\ ps[b][Len(bs[b]) + 1] = in
           /\ \A i \in 1..Len(bs[b]) : ps[b][i] = bs[b][i]
           /\ \A a \in 1..Len(bs) : a # b => ps[a] = bs[a]
           /\ \A a \in 1..Len(bs) : Len(bs[a]) \in Nat /\ (Busy(bs, a) => Busy(ps, a))
           /\ \A a \in 1..Len(bs) : a # b => (Terminated(ps, a) <=> Terminated(bs, a))
           /\ Terminated(ps, b) <=> IsTerminator(in)
<1>1. bs \in Seq(Seq(Instruction)) /\ \A a \in 1..Len(bs) : bs[a] \in Seq(Instruction)
  BY DEF BlocksOK
<1>2. Len(bs) \in Nat /\ \A a \in 1..Len(bs) : Len(bs[a]) \in Nat
  BY <1>1
<1>3. /\ Len(ps) = Len(bs) /\ BlocksOK(ps) /\ (Terminated(ps, b) <=> IsTerminator(in))
      /\ \A a \in 1..Len(bs) : a # b => ps[a] = bs[a]
      /\ ps[b] = Append(bs[b], in)
  BY DEF PutIs
<1>4. /\ ps[b] # <<>> /\ ps[b][Len(ps[b])] = in
      /\ Len(ps[b]) = Len(bs[b]) + 1 /\ Len(bs[b]) \in Nat
      /\ \A i \in 1..Len(bs[b]) : ps[b][i] = bs[b][i]
  <2>1. bs[b] \in Seq(Instruction)
    BY <1>1
  <2> QED
    BY <1>3, <2>1, AppendLast
<1>5. \A a \in 1..Len(bs) : a # b => (Terminated(ps, a) <=> Terminated(bs, a))
  BY <1>3 DEF Terminated
<1>6. ASSUME NEW a \in 1..Len(bs), Busy(bs, a) PROVE Busy(ps, a)
  <2>1. CASE a # b
    BY <1>3, <1>6, <2>1 DEF Busy
  <2>2. CASE a = b
    <3>1. bs[b] # <<>> /\ bs[b][1].op # "br" /\ bs[b] \in Seq(Instruction)
      BY <1>1, <1>6, <2>2 DEF Busy
    <3>2. 1 \in 1..Len(bs[b])
      BY <3>1
    <3> QED
      BY <1>4, <2>2, <3>1, <3>2 DEF Busy
  <2> QED
    BY <2>1, <2>2
<1> QED
  BY <1>2, <1>3, <1>4, <1>5, <1>6

\* Targets are blocks.
LEMMA TargetIn ==
    ASSUME NEW bs, BlocksOK(bs), NEW b \in 1..Len(bs), NEW i \in 1..Len(bs[b]),
           bs[b][i].op \in {"br", "test"}
    PROVE  bs[b][i].yes \in 1..Len(bs) /\ bs[b][i].no \in 1..Len(bs)
<1>1. bs \in Seq(Seq(Instruction)) /\ DOMAIN bs = 1..Len(bs)
  BY DEF BlocksOK
<1>2. bs[b] \in Seq(Instruction)
  BY <1>1
<1>3. DOMAIN bs[b] = 1..Len(bs[b])
  BY <1>2
<1> QED
  BY <1>1, <1>3 DEF BlocksOK

\* An instruction obeys under other labels that agree about its targets.
LEMMA ObeysMore ==
    ASSUME NEW c, NEW L, NEW M, NEW in, NEW here, NEW next, Obeys(c, L, in, here, next),
           in.op \in {"br", "test"} => M[in.yes][1] = L[in.yes][1] /\ M[in.no][1] = L[in.no][1]
    PROVE  Obeys(c, M, in, here, next)
BY DEF Obeys

\* An instruction with an effect.
LEMMA SimPut ==
    ASSUME NEW c, NEW bs, BlocksOK(bs), NEW b \in 1..Len(bs), NEW in \in Instruction, NEW ps,
           PutIs(bs, b, in, ps), NEW L, NEW R, Sim(c, bs, L, R), Open(bs, b),
           NEW r \in Rests(c), NEW q \in Rests(c), in.op \in {"do", "init", "update"},
           Acts(c, r, in.op, in.stmt, q), End(bs, L, b) = Kin(c, r)
    PROVE  PutFollows(c, bs, L, ps, R, b, q)
<1> DEFINE n == Len(bs[b]) + 1
           M == [a \in Nat |-> [i \in Nat |-> IF a = b /\ i = n + 1 THEN Kin(c, q) ELSE L[a][i]]]
<1>1. /\ Len(bs) \in Nat /\ Len(ps) = Len(bs) /\ BlocksOK(ps)
      /\ n \in Nat /\ Len(bs[b]) \in Nat /\ Len(ps[b]) = n /\ ps[b][n] = in
      /\ \A i \in 1..Len(bs[b]) : ps[b][i] = bs[b][i]
      /\ \A a \in 1..Len(bs) : a # b => ps[a] = bs[a]
      /\ \A a \in 1..Len(bs) : Len(bs[a]) \in Nat /\ (Busy(bs, a) => Busy(ps, a))
      /\ \A a \in 1..Len(bs) : a # b => (Terminated(ps, a) <=> Terminated(bs, a))
      /\ Terminated(ps, b) <=> IsTerminator(in)
  BY PutShape
<1>2. ~Terminated(ps, b) /\ ~Terminated(bs, b)
  BY <1>1 DEF IsTerminator, Open
<1>3. Terminals(ps) = Terminals(bs)
  BY <1>1, <1>2 DEF Terminals
<1>4. /\ \A a \in Nat, i \in Nat : a # b \/ i # n + 1 => M[a][i] = L[a][i]
      /\ M[b][n + 1] = Kin(c, q)
  BY <1>1
<1> HIDE DEF M
<1>5. Told(c, ps, M)
  <2> SUFFICES ASSUME NEW a \in 1..Len(ps), NEW i \in 1..Len(ps[a])
               PROVE  Obeys(c, M, ps[a][i], M[a][i], M[a][i + 1])
    BY DEF Told
  <2>1. a \in 1..Len(bs) /\ a \in Nat /\ Len(bs[a]) \in Nat
    BY <1>1
  <2>2. CASE a # b \/ i # n
    <3>1. ps[a][i] = bs[a][i] /\ i \in 1..Len(bs[a]) /\ i \in Nat /\ i + 1 \in Nat
          /\ (a # b \/ i # n + 1) /\ (a # b \/ i + 1 # n + 1)
      <4>1. CASE a # b
        <5>1. ps[a] = bs[a]
          BY <1>1, <2>1, <4>1
        <5> QED
          BY <2>1, <4>1, <5>1
      <4>2. CASE a = b /\ i # n
        <5>1. i \in 1..n /\ i \in 1..Len(bs[b])
          BY <1>1, <4>2
        <5> QED
          BY <1>1, <4>2, <5>1
      <4> QED
        BY <2>2, <4>1, <4>2
    <3>2. Obeys(c, L, bs[a][i], L[a][i], L[a][i + 1])
      BY <2>1, <3>1 DEF Sim, Told
    <3>3. M[a][i] = L[a][i] /\ M[a][i + 1] = L[a][i + 1]
      <4>1. M[a][i] = L[a][i]
        BY <1>4, <2>1, <3>1
      <4>2. PICK j \in Nat : j = i + 1
        BY <3>1
      <4>3. M[a][j] = L[a][j]
        BY <1>4, <2>1, <3>1, <4>2
      <4> QED
        BY <4>1, <4>2, <4>3
    <3>4. \A t \in Nat : M[t][1] = L[t][1]
      <4>1. 1 \in Nat /\ 1 # n + 1
        BY <1>1
      <4> QED
        BY <1>4, <4>1
    <3>5. bs[a][i].op \in {"br", "test"} => bs[a][i].yes \in Nat /\ bs[a][i].no \in Nat
      BY <2>1, <3>1, TargetIn
    <3>6. Obeys(c, M, bs[a][i], L[a][i], L[a][i + 1])
      BY <3>2, <3>4, <3>5, ObeysMore
    <3> QED
      BY <3>1, <3>3, <3>6
  <2>3. CASE a = b /\ i = n
    <3>1. M[b][n] = L[b][n] /\ M[b][n + 1] = Kin(c, q)
      <4>1. n # n + 1 /\ b \in Nat
        BY <1>1
      <4> QED
        BY <1>1, <1>4, <4>1
    <3>2. Obeys(c, M, in, Kin(c, r), Kin(c, q))
      BY DEF Obeys
    <3>3. L[b][n] = Kin(c, r)
      BY DEF End
    <3> QED
      BY <1>1, <2>3, <3>1, <3>2, <3>3
  <2> QED
    BY <2>2, <2>3
<1>6. Ranked(ps, R)
  <2> SUFFICES ASSUME NEW a \in Terminals(ps)
               PROVE  /\ R[a] \in 1..Cardinality(Terminals(ps))
                      /\ ps[a][Len(ps[a])].op = "br" => Leads(ps, R, a, ps[a][Len(ps[a])].yes)
    BY DEF Ranked
  <2>1. a \in Terminals(bs) /\ a \in 1..Len(bs) /\ a # b /\ ps[a] = bs[a]
    BY <1>1, <1>2, <1>3 DEF Terminals
  <2>2. /\ R[a] \in 1..Cardinality(Terminals(bs))
        /\ bs[a][Len(bs[a])].op = "br" => Leads(bs, R, a, bs[a][Len(bs[a])].yes)
    BY <2>1 DEF Sim, Ranked
  <2>3. \A t \in 1..Len(bs) : Leads(bs, R, a, t) => Leads(ps, R, a, t)
    BY <1>1, <1>2 DEF Leads, Open
  <2>4. bs[a][Len(bs[a])].op = "br" => bs[a][Len(bs[a])].yes \in 1..Len(bs)
    <3>1. Len(bs[a]) \in 1..Len(bs[a])
      <4>1. bs[a] # <<>>
        BY <2>1 DEF Terminals, Terminated
      <4>2. bs[a] \in Seq(Instruction)
        BY <2>1 DEF BlocksOK
      <4> QED
        BY <4>1, <4>2
    <3> QED
      BY <2>1, <3>1, TargetIn
  <2> QED
    BY <1>3, <2>1, <2>2, <2>3, <2>4
<1>7. Extends(bs, L, ps, M, {b})
  <2>1. \A a \in 1..Len(bs) : M[a][1] = L[a][1]
    <3>1. 1 \in Nat /\ 1 # n + 1 /\ \A a \in 1..Len(bs) : a \in Nat
      BY <1>1
    <3> QED
      BY <1>4, <3>1
  <2>2. ASSUME NEW a \in 1..Len(bs), a # b PROVE End(ps, M, a) = End(bs, L, a)
    <3>1. ps[a] = bs[a] /\ Len(bs[a]) + 1 \in Nat /\ a \in Nat
      BY <1>1, <2>2
    <3> QED
      BY <1>4, <2>2, <3>1 DEF End
  <2> QED
    BY <1>1, <2>1, <2>2 DEF Extends
<1>8. End(ps, M, b) = Kin(c, q)
  BY <1>1, <1>4 DEF End
<1> QED
  BY <1>5, <1>6, <1>7, <1>8 DEF Sim, PutFollows

\* A terminator.
LEMMA SimTerm ==
    ASSUME NEW c, NEW bs, BlocksOK(bs), NEW b \in 1..Len(bs), NEW in \in Instruction, NEW ps,
           PutIs(bs, b, in, ps), NEW L, NEW R, Sim(c, bs, L, R), Open(bs, b),
           in.op \in {"return", "br", "test"}, \A next : Obeys(c, L, in, End(bs, L, b), next),
           in.op = "br" => /\ in.yes \in 1..Len(bs)
                           /\ Busy(bs, in.yes) \/ (in.yes # b /\ Open(bs, in.yes))
    PROVE  \E Q : Sim(c, ps, L, Q) /\ Extends(bs, L, ps, L, {b})
<1> DEFINE n == Len(bs[b]) + 1
           card == Cardinality(Terminals(bs))
           Q == [a \in Nat |-> IF a = b THEN card + 1 ELSE R[a]]
<1>1. /\ Len(bs) \in Nat /\ Len(ps) = Len(bs) /\ BlocksOK(ps)
      /\ n \in Nat /\ Len(bs[b]) \in Nat /\ Len(ps[b]) = n /\ ps[b][n] = in
      /\ \A i \in 1..Len(bs[b]) : ps[b][i] = bs[b][i]
      /\ \A a \in 1..Len(bs) : a # b => ps[a] = bs[a]
      /\ \A a \in 1..Len(bs) : Len(bs[a]) \in Nat /\ (Busy(bs, a) => Busy(ps, a))
      /\ \A a \in 1..Len(bs) : a # b => (Terminated(ps, a) <=> Terminated(bs, a))
      /\ Terminated(ps, b) <=> IsTerminator(in)
  BY PutShape
<1>2. Terminated(ps, b) /\ ~Terminated(bs, b)
  BY <1>1 DEF IsTerminator, Open
<1>3. Terminals(ps) = Terminals(bs) \cup {b} /\ b \notin Terminals(bs)
  BY <1>1, <1>2 DEF Terminals
<1>4. card \in Nat /\ Cardinality(Terminals(ps)) = card + 1
  <2>1. IsFiniteSet(Terminals(bs)) /\ card \in Nat
    BY <1>1, TerminalsFew
  <2> QED
    BY <1>3, <2>1, FS_AddElement
<1>5. b \in Nat /\ Q[b] = card + 1 /\ \A a \in 1..Len(bs) : a # b => Q[a] = R[a]
  BY <1>1
<1> HIDE DEF Q, card
<1>6. Told(c, ps, L)
  <2> SUFFICES ASSUME NEW a \in 1..Len(ps), NEW i \in 1..Len(ps[a])
               PROVE  Obeys(c, L, ps[a][i], L[a][i], L[a][i + 1])
    BY DEF Told
  <2>1. a \in 1..Len(bs)
    BY <1>1
  <2>2. CASE a # b
    BY <1>1, <2>1, <2>2 DEF Sim, Told
  <2>3. CASE a = b /\ i # n
    <3>1. i \in 1..Len(bs[b])
      BY <1>1, <2>3
    <3> QED
      BY <1>1, <2>3, <3>1 DEF Sim, Told
  <2>4. CASE a = b /\ i = n
    <3>1. End(bs, L, b) = L[a][i]
      BY <2>4 DEF End
    <3> QED
      BY <1>1, <2>4, <3>1
  <2> QED
    BY <2>2, <2>3, <2>4
<1>7. Ranked(ps, Q)
  <2> SUFFICES ASSUME NEW a \in Terminals(ps)
               PROVE  /\ Q[a] \in 1..Cardinality(Terminals(ps))
                      /\ ps[a][Len(ps[a])].op = "br" => Leads(ps, Q, a, ps[a][Len(ps[a])].yes)
    BY DEF Ranked
  <2>1. CASE a = b
    <3>1. Q[a] \in 1..Cardinality(Terminals(ps)) /\ ps[a][Len(ps[a])] = in
      BY <1>1, <1>4, <1>5, <2>1
    <3>2. in.op = "br" => Leads(ps, Q, a, in.yes)
      BY <1>1 DEF Leads, Open
    <3> QED
      BY <3>1, <3>2
  <2>2. CASE a # b
    <3>1. a \in Terminals(bs) /\ a \in 1..Len(bs) /\ ps[a] = bs[a] /\ Q[a] = R[a]
      BY <1>1, <1>3, <1>5, <2>2 DEF Terminals
    <3>2. /\ R[a] \in 1..card
          /\ bs[a][Len(bs[a])].op = "br" => Leads(bs, R, a, bs[a][Len(bs[a])].yes)
      BY <3>1 DEF Sim, Ranked, card
    <3>3. ASSUME NEW t \in 1..Len(bs), Leads(bs, R, a, t) PROVE Leads(ps, Q, a, t)
      <4>1. CASE t = b
        <5>1. R[a] < card + 1
          BY <1>4, <3>2
        <5> QED
          BY <1>5, <3>1, <4>1, <5>1 DEF Leads
      <4>2. CASE t # b
        BY <1>1, <1>5, <3>1, <3>3, <4>2 DEF Leads, Open
      <4> QED
        BY <4>1, <4>2
    <3>4. bs[a][Len(bs[a])].op = "br" => bs[a][Len(bs[a])].yes \in 1..Len(bs)
      <4>1. bs[a] # <<>> /\ bs[a] \in Seq(Instruction)
        BY <3>1 DEF BlocksOK, Terminals, Terminated
      <4>2. Len(bs[a]) \in 1..Len(bs[a])
        BY <4>1
      <4> QED
        BY <3>1, <4>2, TargetIn
    <3>5. R[a] \in 1..(card + 1)
      BY <1>4, <3>2
    <3> QED
      BY <1>4, <3>1, <3>2, <3>3, <3>4, <3>5
  <2> QED
    BY <2>1, <2>2
<1>8. Extends(bs, L, ps, L, {b})
  BY <1>1 DEF Extends, End
<1> QED
  BY <1>6, <1>7, <1>8 DEF Sim

\* New blocks, with labels E.
LEMMA SimCreate ==
    ASSUME NEW c, NEW bs, BlocksOK(bs), NEW n \in Nat, NEW ps, CreateIs(bs, n, ps),
           NEW L, NEW R, Sim(c, bs, L, R), NEW E
    PROVE  CreateFollows(c, bs, L, ps, R, n, E)
<1> DEFINE M == [a \in Nat |-> [i \in Nat |-> IF a \in 1..Len(bs) THEN L[a][i] ELSE E[a]]]
<1>1. /\ Len(ps) = Len(bs) + n /\ Len(bs) \in Nat
      /\ \A a \in 1..Len(bs) : ps[a] = bs[a]
      /\ \A a \in (Len(bs) + 1)..(Len(bs) + n) : ps[a] = <<>> /\ Open(ps, a)
  BY DEF CreateIs
<1>2. /\ \A a \in 1..Len(bs), i \in Nat : M[a][i] = L[a][i]
      /\ \A a \in (Len(bs) + 1)..(Len(bs) + n) : M[a][1] = E[a]
  BY <1>1
<1> HIDE DEF M
<1>3. \A a \in 1..Len(ps) : a \in 1..Len(bs) \/ a \in (Len(bs) + 1)..(Len(bs) + n)
  BY <1>1
<1>4. \A a \in 1..Len(bs) : a \in 1..Len(ps) /\ Len(bs[a]) \in Nat
  <2>1. \A a \in 1..Len(bs) : bs[a] \in Seq(Instruction)
    BY DEF BlocksOK
  <2> QED
    BY <1>1, <2>1
<1>5. Terminals(ps) = Terminals(bs)
  <2>1. \A a \in 1..Len(bs) : Terminated(ps, a) <=> Terminated(bs, a)
    BY <1>1 DEF Terminated
  <2> QED
    BY <1>1, <1>3, <1>4, <2>1 DEF Terminals, Open
<1>6. Told(c, ps, M)
  <2> SUFFICES ASSUME NEW a \in 1..Len(ps), NEW i \in 1..Len(ps[a])
               PROVE  Obeys(c, M, ps[a][i], M[a][i], M[a][i + 1])
    BY DEF Told
  <2>1. a \in 1..Len(bs) /\ ps[a] = bs[a]
    <3>1. Len(<<>>) = 0 /\ 1..0 = {}
      OBVIOUS
    <3> QED
      BY <1>1, <1>3, <3>1
  <2>2. i \in 1..Len(bs[a]) /\ i \in Nat
    BY <2>1
  <2>3. Obeys(c, L, bs[a][i], L[a][i], L[a][i + 1])
    BY <2>1, <2>2 DEF Sim, Told
  <2>4. M[a][i] = L[a][i] /\ M[a][i + 1] = L[a][i + 1]
    <3>1. i + 1 \in Nat
      BY <2>2
    <3> QED
      BY <1>2, <2>1, <2>2, <3>1
  <2>5. bs[a][i].op \in {"br", "test"} => bs[a][i].yes \in 1..Len(bs) /\ bs[a][i].no \in 1..Len(bs)
    BY <2>1, <2>2, TargetIn
  <2>6. \A t \in 1..Len(bs) : M[t][1] = L[t][1]
    BY <1>2
  <2>7. Obeys(c, M, bs[a][i], L[a][i], L[a][i + 1])
    BY <2>3, <2>5, <2>6, ObeysMore
  <2> QED
    BY <2>1, <2>4, <2>7
<1>7. Ranked(ps, R)
  <2> SUFFICES ASSUME NEW a \in Terminals(ps)
               PROVE  /\ R[a] \in 1..Cardinality(Terminals(ps))
                      /\ ps[a][Len(ps[a])].op = "br" => Leads(ps, R, a, ps[a][Len(ps[a])].yes)
    BY DEF Ranked
  <2>1. a \in Terminals(bs) /\ a \in 1..Len(bs) /\ ps[a] = bs[a]
    BY <1>1, <1>5 DEF Terminals
  <2>2. /\ R[a] \in 1..Cardinality(Terminals(bs))
        /\ bs[a][Len(bs[a])].op = "br" => Leads(bs, R, a, bs[a][Len(bs[a])].yes)
    BY <2>1 DEF Sim, Ranked
  <2>3. \A t \in 1..Len(bs) : Leads(bs, R, a, t) => Leads(ps, R, a, t)
    BY <1>1 DEF Leads, Open, Busy, Terminated
  <2>4. bs[a][Len(bs[a])].op = "br" => bs[a][Len(bs[a])].yes \in 1..Len(bs)
    <3>1. bs[a] # <<>> /\ bs[a] \in Seq(Instruction)
      BY <2>1 DEF BlocksOK, Terminals, Terminated
    <3>2. Len(bs[a]) \in 1..Len(bs[a])
      BY <3>1
    <3> QED
      BY <2>1, <3>2, TargetIn
  <2> QED
    BY <1>5, <2>1, <2>2, <2>3, <2>4
<1>8. Extends(bs, L, ps, M, {})
  <2>1. \A a \in 1..Len(bs) : M[a][1] = L[a][1] /\ End(ps, M, a) = End(bs, L, a)
    <3>1. \A a \in 1..Len(bs) : Len(bs[a]) + 1 \in Nat
      BY <1>4
    <3> QED
      BY <1>1, <1>2, <3>1 DEF End
  <2> QED
    BY <1>1, <2>1 DEF Extends, Busy
<1> QED
  BY <1>2, <1>6, <1>7, <1>8 DEF Sim, CreateFollows

\* A branch to a block that does something, or that is open and another.
LEMMA SimBr ==
    ASSUME NEW c, NEW bs, BlocksOK(bs), NEW b \in 1..Len(bs), NEW to \in 1..Len(bs),
           NEW L, NEW R, Sim(c, bs, L, R), Open(bs, b), End(bs, L, b) = L[to][1],
           Busy(bs, to) \/ (to # b /\ Open(bs, to))
    PROVE  \E Q : Sim(c, Put(bs, b, Br(to)), L, Q) /\ Extends(bs, L, Put(bs, b, Br(to)), L, {b})
<1>1. /\ Br(to) \in Instruction /\ Br(to).op = "br" /\ Br(to).yes = to
  <2>1. to \in Nat /\ 0 \in Nat
    BY DEF BlocksOK
  <2> QED
    BY <2>1, InstructionTypes
<1>2. PutIs(bs, b, Br(to), Put(bs, b, Br(to)))
  <2>1. 0 \in Nat
    OBVIOUS
  <2> QED
    BY <2>1, PutEach
<1>3. \A next : Obeys(c, L, Br(to), End(bs, L, b), next)
  BY <1>1 DEF Obeys
<1> QED
  BY <1>1, <1>2, <1>3, SimTerm

\* A branch unless there is a terminator.
LEMMA SimSafeBr ==
    ASSUME NEW c, NEW bs, BlocksOK(bs), NEW b \in 1..Len(bs), NEW to \in 1..Len(bs),
           NEW L, NEW R, Sim(c, bs, L, R), Open(bs, b) => End(bs, L, b) = L[to][1],
           Busy(bs, to) \/ (to # b /\ Open(bs, to))
    PROVE  \E Q : Sim(c, SafeBr(bs, b, to), L, Q) /\ Extends(bs, L, SafeBr(bs, b, to), L, {b})
<1>1. CASE Open(bs, b)
  <2>1. SafeBr(bs, b, to) = Put(bs, b, Br(to))
    BY <1>1 DEF SafeBr, Open
  <2>2. \E Q : Sim(c, Put(bs, b, Br(to)), L, Q) /\ Extends(bs, L, Put(bs, b, Br(to)), L, {b})
    BY <1>1, SimBr
  <2> QED
    BY <2>1, <2>2
<1>2. CASE ~Open(bs, b)
  <2>1. SafeBr(bs, b, to) = bs
    BY <1>2 DEF SafeBr, Open
  <2>2. Len(bs) \in Nat
    BY DEF BlocksOK
  <2> QED
    BY <2>1, <2>2, ExtendsSame
<1> QED
  BY <1>1, <1>2

\* A test.
LEMMA SimTest ==
    ASSUME NEW c, NEW bs, BlocksOK(bs), NEW b \in 1..Len(bs), NEW s \in Nat,
           NEW yes \in 1..Len(bs), NEW no \in 1..Len(bs),
           NEW L, NEW R, Sim(c, bs, L, R), Open(bs, b),
           NEW r \in Rests(c), NEW y \in Rests(c), NEW n \in Rests(c), Tests(c, r, s, y, n),
           End(bs, L, b) = Kin(c, r), L[yes][1] = Kin(c, y), L[no][1] = Kin(c, n)
    PROVE  \E Q : /\ Sim(c, Put(bs, b, CondBr(s, yes, no)), L, Q)
                  /\ Extends(bs, L, Put(bs, b, CondBr(s, yes, no)), L, {b})
<1>1. /\ CondBr(s, yes, no) \in Instruction /\ CondBr(s, yes, no).op = "test"
      /\ CondBr(s, yes, no).yes = yes /\ CondBr(s, yes, no).no = no /\ CondBr(s, yes, no).stmt = s
  <2>1. yes \in Nat /\ no \in Nat
    BY DEF BlocksOK
  <2> QED
    BY <2>1, InstructionTypes
<1>2. PutIs(bs, b, CondBr(s, yes, no), Put(bs, b, CondBr(s, yes, no)))
  BY PutEach
<1>3. \A next : Obeys(c, L, CondBr(s, yes, no), End(bs, L, b), next)
  BY <1>1 DEF Obeys
<1>4. CondBr(s, yes, no).op \in {"return", "br", "test"} /\ CondBr(s, yes, no).op # "br"
  BY <1>1
<1> QED
  BY <1>1, <1>2, <1>3, <1>4, SimTerm

\* A return.
LEMMA SimRet ==
    ASSUME NEW c, NEW bs, BlocksOK(bs), NEW b \in 1..Len(bs), NEW s \in Nat,
           NEW L, NEW R, Sim(c, bs, L, R), Open(bs, b),
           NEW r \in Rests(c), Finishes(c, r, s), End(bs, L, b) = Kin(c, r)
    PROVE  \E Q : Sim(c, Put(bs, b, Ret(s)), L, Q) /\ Extends(bs, L, Put(bs, b, Ret(s)), L, {b})
<1>1. Ret(s) \in Instruction /\ Ret(s).op = "return" /\ Ret(s).stmt = s
  <2>1. 0 \in Nat
    OBVIOUS
  <2> QED
    BY <2>1, InstructionTypes
<1>2. PutIs(bs, b, Ret(s), Put(bs, b, Ret(s)))
  BY PutEach
<1>3. \A next : Obeys(c, L, Ret(s), End(bs, L, b), next)
  BY <1>1 DEF Obeys
<1>4. Ret(s).op \in {"return", "br", "test"} /\ Ret(s).op # "br"
  BY <1>1
<1> QED
  BY <1>1, <1>2, <1>3, <1>4, SimTerm

-----------------------------------------------------------------------------
(* The calls under way, said of the source *)

\* The calls but the last.
LEMMA ChainPrefix ==
    ASSUME NEW c, NEW L, NEW ls, NEW fs, NEW n \in Nat \ {0}, NEW K, NEW D, Chain(c, L, ls, fs, n, K, D)
    PROVE  Chain(c, L, ls, fs, n - 1, K, D)
<1>1. n - 1 + 1 = n /\ \A k \in 1..n : k \in 1..(n + 1)
  OBVIOUS
<1>2. \A k \in 1..(n - 1) : k \in 1..n
  OBVIOUS
<1> QED
  BY <1>1, <1>2 DEF Chain

\* It depends on the calls, their loops and the labels of these only.
LEMMA ChainSame ==
    ASSUME NEW c, NEW L, NEW ls, NEW fs, NEW n \in Nat, NEW K, NEW D, Chain(c, L, ls, fs, n, K, D),
           NEW M, NEW ks, NEW gs, \A k \in 1..n : gs[k] = fs[k],
           \A i \in 1..D[n + 1] : /\ ks[i] = ls[i] /\ M[ls[i].merge][1] = L[ls[i].merge][1]
                                  /\ M[ls[i].start][1] = L[ls[i].start][1]
    PROVE  Chain(c, M, ks, gs, n, K, D)
<1>1. n + 1 \in 1..(n + 1) /\ \A k \in 1..n : k \in 1..(n + 1)
  OBVIOUS
<1>2. ASSUME NEW k \in 1..(n + 1), D[k] # 0 PROVE Target(c, M, gs, k, ks[D[k]], K[k])
  <2>1. Target(c, L, fs, k, ls[D[k]], K[k]) /\ D[k] \in Nat /\ D[k] <= D[n + 1] /\ D[n + 1] \in Nat
    BY <1>1, <1>2 DEF Chain
  <2>2. D[k] \in 1..D[n + 1]
    BY <1>2, <2>1
  <2>3. PICK j \in 1..(k - 1) : fs[j].emits \in Loops /\ ls[D[k]] = Entry(fs[j])
    BY <2>1 DEF Target
  <2>4. j \in 1..n
    OBVIOUS
  <2> QED
    BY <2>1, <2>2, <2>3, <2>4 DEF Target
<1> QED
  BY <1>1, <1>2 DEF Chain

\* Where the source goes on behind a call, if it goes on at all.
LEMMA BehindRest ==
    ASSUME NEW c, NEW f \in FrameType(c), f.emits \in Loops => f.stmt \in 1..Len(c), NEW k \in Rests(c)
    PROVE  /\ Behind(f, k) \in Rests(c)
           /\ f.emits \notin Loops /\ InLoop(k) =>
                InLoop(Behind(f, k)) /\ FromLoopEnd(Behind(f, k)) = FromLoopEnd(k)
<1>1. f.emits \in {"block", "if", "while", "for"} /\ f.nodes \in Seq(1..Len(c))
  BY DEF FrameType
<1>2. CASE f.emits = "block"
  <2>1. CASE f.nodes = <<>>
    BY <1>2, <2>1 DEF Behind
  <2>2. CASE f.nodes # <<>>
    <3>1. PICK t : t = Tail(f.nodes)
      OBVIOUS
    <3>2. t \in Seq(1..Len(c))
      BY <1>1, <2>2, <3>1, HeadTailProperties
    <3>3. Listed(t, k) \in Rests(c)
      BY <3>2, ListedRest
    <3>4. InLoop(k) => InLoop(Listed(t, k)) /\ FromLoopEnd(Listed(t, k)) = FromLoopEnd(k)
      BY <3>2, LoopEndsBehind
    <3>5. Behind(f, k) = Listed(t, k)
      BY <1>2, <2>2, <3>1 DEF Behind
    <3> QED
      BY <3>3, <3>4, <3>5
  <2> QED
    BY <2>1, <2>2
<1>3. CASE f.emits = "if"
  BY <1>3 DEF Behind
<1>4. CASE f.emits \in {"while", "for"}
  <2>1. Behind(f, k) = Doing("again", f.stmt, k) /\ f.emits \in Loops
    BY <1>4 DEF Behind, Loops
  <2>2. Doing("again", f.stmt, k) \in Rests(c)
    <3>1. \A s \in 1..Len(c) : Doing("again", s, k) \in Rests(c)
      BY DoingFirst DEF DoingIs
    <3> QED
      BY <2>1, <3>1
  <2> QED
    BY <2>1, <2>2
<1> QED
  BY <1>1, <1>2, <1>3, <1>4

\* One more call.
LEMMA ChainPush ==
    ASSUME NEW c, NEW L, NEW ls, NEW fs, NEW n \in Nat, NEW K, NEW D, Chain(c, L, ls, fs, n, K, D),
           NEW g, g = fs[n + 1], g \in FrameType(c), g.emits \in Loops => g.stmt \in 1..Len(c),
           EntersLoop(c, L, ls, K, D, n, g)
    PROVE  Pushed(c, L, ls, fs, n, K, D, g)
<1> DEFINE J == [k \in Nat |-> IF k = n + 2 THEN Behind(g, K[n + 1]) ELSE K[k]]
           E == [k \in Nat |->
                   IF k = n + 2 THEN (IF g.emits \in Loops THEN D[n + 1] + 1 ELSE D[n + 1]) ELSE D[k]]
<1>1. /\ n + 1 \in 1..(n + 1) /\ n + 1 + 1 = n + 2 /\ n + 2 \in Nat
      /\ \A k \in 1..(n + 1) : k \in Nat /\ k # n + 2
      /\ \A k \in 1..(n + 1 + 1) : k \in 1..(n + 1) \/ k = n + 2
      /\ \A k \in 1..(n + 1) : k \in 1..n \/ k = n + 1
      /\ \A k \in 1..n : k \in 1..(n + 1) /\ k + 1 \in 1..(n + 1)
  OBVIOUS
<1>2. /\ \A k \in 1..(n + 1) : J[k] = K[k] /\ E[k] = D[k]
      /\ J[n + 2] = Behind(g, K[n + 1])
      /\ E[n + 2] = IF g.emits \in Loops THEN D[n + 1] + 1 ELSE D[n + 1]
  BY <1>1
<1> HIDE DEF J, E
<1>3. /\ K[1] = <<>> /\ D[1] = 0
      /\ \A k \in 1..(n + 1) : /\ K[k] \in Rests(c) /\ D[k] \in Nat
                               /\ D[k] # 0 => Target(c, L, fs, k, ls[D[k]], K[k])
      /\ \A k \in 1..n : /\ K[k + 1] = Behind(fs[k], K[k])
                         /\ D[k + 1] = IF fs[k].emits \in Loops THEN D[k] + 1 ELSE D[k]
      /\ \A j, k \in 1..(n + 1) : j <= k => D[j] <= D[k]
  BY DEF Chain
<1>4. K[n + 1] \in Rests(c) /\ D[n + 1] \in Nat
  BY <1>1, <1>3
<1>5. J[n + 2] \in Rests(c) /\ E[n + 2] \in Nat
  BY <1>2, <1>4, BehindRest
<1>6. ASSUME E[n + 2] # 0 PROVE Target(c, L, fs, n + 2, ls[E[n + 2]], J[n + 2])
  <2>1. CASE g.emits \in Loops
    <3>1. E[n + 2] = D[n + 1] + 1 /\ ls[E[n + 2]] = Entry(g)
      BY <1>2, <2>1 DEF EntersLoop
    <3>2. J[n + 2] = Doing("again", g.stmt, K[n + 1])
      BY <1>2, <2>1 DEF Behind, Loops
    <3>3. \A s \in 1..Len(c) : \A k \in Rests(c) :
             /\ InLoop(Doing("again", s, k)) /\ FromLoopEnd(Doing("again", s, k)) = Doing("again", s, k)
             /\ Tail(FromLoopEnd(Doing("again", s, k))) = k
      BY LoopEnds
    <3>4. /\ InLoop(J[n + 2]) /\ FromLoopEnd(J[n + 2]) = J[n + 2]
          /\ Tail(FromLoopEnd(J[n + 2])) = K[n + 1]
      BY <1>4, <2>1, <3>2, <3>3
    <3>5. Entry(g).merge = g.other /\ Entry(g).start = g.then
      BY DEF Entry
    <3>6. n + 1 \in 1..((n + 2) - 1) /\ fs[n + 1].emits \in Loops /\ Entry(g) = Entry(fs[n + 1])
      BY <1>1, <2>1
    <3> QED
      BY <2>1, <3>1, <3>2, <3>4, <3>5, <3>6 DEF Target, EntersLoop
  <2>2. CASE g.emits \notin Loops
    <3>1. E[n + 2] = D[n + 1] /\ J[n + 2] = Behind(g, K[n + 1])
      BY <1>2, <2>2
    <3>2. Target(c, L, fs, n + 1, ls[D[n + 1]], K[n + 1])
      BY <1>1, <1>3, <1>6, <3>1
    <3>3. InLoop(K[n + 1]) => InLoop(J[n + 2]) /\ FromLoopEnd(J[n + 2]) = FromLoopEnd(K[n + 1])
      BY <1>4, <2>2, <3>1, BehindRest
    <3>4. \A j \in 1..((n + 1) - 1) : j \in 1..((n + 2) - 1)
      OBVIOUS
    <3> QED
      BY <3>1, <3>2, <3>3, <3>4 DEF Target
  <2> QED
    BY <2>1, <2>2
<1>7. ASSUME NEW k \in 1..(n + 1 + 1)
      PROVE  J[k] \in Rests(c) /\ E[k] \in Nat /\ (E[k] # 0 => Target(c, L, fs, k, ls[E[k]], J[k]))
  <2>1. CASE k \in 1..(n + 1)
    BY <1>2, <1>3, <2>1
  <2>2. CASE k = n + 2
    BY <1>5, <1>6, <2>2
  <2> QED
    BY <1>1, <2>1, <2>2
<1>8. ASSUME NEW k \in 1..(n + 1)
      PROVE  J[k + 1] = Behind(fs[k], J[k])
             /\ E[k + 1] = IF fs[k].emits \in Loops THEN E[k] + 1 ELSE E[k]
  <2>1. CASE k \in 1..n
    BY <1>1, <1>2, <1>3, <2>1
  <2>2. CASE k = n + 1
    BY <1>1, <1>2, <2>2
  <2> QED
    BY <1>1, <2>1, <2>2
<1>9. ASSUME NEW j \in 1..(n + 1 + 1), NEW k \in 1..(n + 1 + 1), j <= k PROVE E[j] <= E[k]
  <2>1. CASE k \in 1..(n + 1)
    <3>1. j \in 1..(n + 1)
      BY <1>9, <2>1
    <3> QED
      BY <1>2, <1>3, <1>9, <2>1, <3>1
  <2>2. CASE k = n + 2 /\ j \in 1..(n + 1)
    <3>1. E[j] <= D[n + 1] /\ E[j] \in Nat
      <4>1. j \in 1..(n + 1) /\ n + 1 \in 1..(n + 1) /\ j <= n + 1
        BY <1>1, <2>2
      <4>2. D[j] <= D[n + 1] /\ D[j] \in Nat
        BY <1>3, <4>1
      <4> QED
        BY <1>2, <4>1, <4>2
    <3> QED
      BY <1>2, <1>4, <2>2, <3>1
  <2>3. CASE k = n + 2 /\ j = n + 2
    BY <1>5, <2>3
  <2> QED
    BY <1>1, <2>1, <2>2, <2>3
<1>10. 1 \in 1..(n + 1)
  OBVIOUS
<1>11. J[1] = <<>> /\ E[1] = 0
  BY <1>2, <1>3, <1>10
<1>12. Chain(c, L, ls, fs, n + 1, J, E)
  BY <1>7, <1>8, <1>9, <1>11 DEF Chain
<1> QED
  BY <1>2, <1>12 DEF Pushed

\* Before a step; and after it, with labels that need not be the same.
LabelledNow(L, R, K, D) == Labelled(code, body, blocks, ip, loops, frames, value, L, R, K, D)
FollowsNext == \E L, R, K, D : Labelled(code, body, blocks', ip', loops', frames', value', L, R, K, D)

\* It depends on the ends of the blocks the call owns.
LEMMA CallRunsKept ==
    ASSUME NEW c, NEW bs, NEW L, NEW ps, NEW M, NEW T, Extends(bs, L, ps, M, T),
           NEW f \in FrameType(c), Fits(c, f, Len(bs)), Called(f), Own(f) \cap T = {},
           NEW k, CallRuns(c, bs, L, f, k)
    PROVE  CallRuns(c, ps, M, f, k)
<1>1. /\ \A a \in 1..Len(bs) : M[a][1] = L[a][1] /\ (Busy(bs, a) => Busy(ps, a))
      /\ \A a \in 1..Len(bs) : a \notin T => ps[a] = bs[a] /\ End(ps, M, a) = End(bs, L, a)
  BY DEF Extends
<1>2. /\ f.bb \in 1..Len(bs) /\ (f.then # 0 => f.then \in 1..Len(bs))
      /\ (f.other # 0 => f.other \in 1..Len(bs))
      /\ f.emits \in Loops => f.then # 0 /\ f.other # 0
  BY DEF Fits
<1>3. f.emits \in {"block", "if", "while", "for"}
  BY DEF FrameType
<1>4. CASE f.emits = "if"
  <2>1. f.then # 0 /\ f.bb \in Own(f) /\ (f.other # 0 => f.then \in Own(f))
    BY <1>4 DEF Called, Own
  <2>2. f.bb \notin T /\ (f.other # 0 => f.then \notin T)
    BY <2>1
  <2>3. f.other # 0 => (Open(ps, f.then) <=> Open(bs, f.then))
    BY <1>1, <1>2, <2>1, <2>2 DEF Open, Terminated
  <2> QED
    BY <1>1, <1>2, <1>4, <2>1, <2>2, <2>3 DEF CallRuns
<1>5. CASE f.emits = "while"
  BY <1>1, <1>2, <1>5 DEF CallRuns, Loops
<1>6. CASE f.emits = "for"
  BY <1>1, <1>2, <1>6 DEF CallRuns, Loops
<1>7. CASE f.emits = "block"
  BY <1>7 DEF CallRuns
<1> QED
  BY <1>3, <1>4, <1>5, <1>6, <1>7

\* What holds of the calls below the top after a step.
Base(M, K, D) ==
    /\ M[1][1] = Kin(code, Listed(body, <<>>))
    /\ \A k \in 1..(Len(frames) - 1) : CallRuns(code, blocks', M, frames[k], K[k])
    /\ Chain(code, M, loops, frames, Len(frames) - 1, K, D)
    /\ D[Len(frames)] \in Nat /\ D[Len(frames)] <= Len(loops) /\ K[Len(frames)] \in Rests(code)
    /\ Len(loops) = IF Top.emits \in Loops THEN D[Len(frames)] + 1 ELSE D[Len(frames)]

\* What is below the call on top stays, whatever it does to the blocks it owns.
LEMMA LowerKept ==
    ASSUME Ready, GoodNow, frames # <<>>, NEW L, NEW R, NEW K, NEW D, LabelledNow(L, R, K, D),
           NEW M, NEW T, T \subseteq {Cur(ip, value)} \cup Own(Top), Extends(blocks, L, blocks', M, T)
    PROVE  Base(M, K, D)
<1> DEFINE n == Len(frames)
<1>1. /\ Len(blocks) \in Nat /\ StackOK(code, frames, Len(blocks)) /\ frames \in Seq(FrameType(code))
      /\ n \in Nat \ {0} /\ Top = frames[n] /\ CallsOK(code, blocks, frames, ip, value)
      /\ ip \in 1..Len(blocks)
  BY TopNow
<1>2. /\ Chain(code, L, loops, frames, n, K, D) /\ D[n + 1] = Len(loops)
      /\ \A k \in 1..n : CallRuns(code, blocks, L, frames[k], K[k])
      /\ L[1][1] = Kin(code, Listed(body, <<>>))
  BY DEF LabelledNow, Labelled
<1>3. 1 \in 1..Len(blocks)
  BY <1>1
<1>4. M[1][1] = L[1][1] /\ \A a \in 1..Len(blocks) : M[a][1] = L[a][1]
  BY <1>3 DEF Extends
<1>5. ASSUME NEW k \in 1..(n - 1) PROVE CallRuns(code, blocks', M, frames[k], K[k])
  <2>1. k \in 1..n /\ k # n /\ n \in 1..n
    BY <1>1
  <2>2. Own(frames[k]) \cap Own(Top) = {} /\ ip \notin Own(frames[k]) /\ value \notin Own(frames[k])
    BY <1>1, <2>1 DEF CallsOK, Apart
  <2>3. Cur(ip, value) \notin Own(frames[k])
    BY <2>2 DEF Cur
  <2>4. Own(frames[k]) \cap T = {}
    BY <2>2, <2>3
  <2>5. Fits(code, frames[k], Len(blocks)) /\ Called(frames[k]) /\ frames[k] \in FrameType(code)
    BY <1>1, <2>1 DEF StackOK
  <2>6. CallRuns(code, blocks, L, frames[k], K[k])
    BY <1>2, <2>1
  <2> QED
    BY <2>4, <2>5, <2>6, CallRunsKept
<1> HIDE DEF n
<1>6. Chain(code, L, loops, frames, n - 1, K, D)
  BY <1>1, <1>2, ChainPrefix
<1>7. /\ n \in 1..(n + 1) /\ n + 1 \in 1..(n + 1) /\ n <= n + 1 /\ n \in 1..n /\ n - 1 + 1 = n
      /\ n - 1 \in Nat
  BY <1>1
<1>8. /\ D[n] \in Nat /\ D[n + 1] \in Nat /\ D[n] <= D[n + 1] /\ K[n] \in Rests(code)
      /\ D[n + 1] = IF Top.emits \in Loops THEN D[n] + 1 ELSE D[n]
  BY <1>1, <1>2, <1>7 DEF Chain
<1>9. \A i \in 1..D[n] : /\ M[loops[i].merge][1] = L[loops[i].merge][1]
                        /\ M[loops[i].start][1] = L[loops[i].start][1]
  <2>1. loops \in Seq([merge : 1..Len(blocks), start : 1..Len(blocks)])
    BY DEF Ready, Typed, LoopsOK
  <2>2. \A i \in 1..Len(loops) : loops[i] \in [merge : 1..Len(blocks), start : 1..Len(blocks)]
    BY <2>1, ElementOfSeq
  <2>3. \A i \in 1..D[n] : i \in 1..Len(loops)
    BY <1>2, <1>8
  <2> QED
    BY <1>4, <2>2, <2>3
<1>10. Chain(code, M, loops, frames, n - 1, K, D)
  <2>1. PICK m \in Nat : m = n - 1 /\ m + 1 = n
    BY <1>7
  <2>2. Chain(code, L, loops, frames, m, K, D) /\ (\A i \in 1..D[m + 1] : loops[i] = loops[i])
        /\ \A k \in 1..m : frames[k] = frames[k]
    BY <1>6, <2>1
  <2>3. Chain(code, M, loops, frames, m, K, D)
    BY <1>9, <2>1, <2>2, ChainSame
  <2> QED
    BY <2>1, <2>3
<1> QED
  BY <1>2, <1>4, <1>5, <1>8, <1>10 DEF Base, n

\* The calls below the top are followed in another stack.
LEMMA BaseMoves ==
    ASSUME Ready, frames # <<>>, NEW M, NEW K, NEW D, Base(M, K, D), NEW n, n = Len(frames) - 1,
           \A k \in 1..n : frames'[k] = frames[k],
           \A i \in 1..D[Len(frames)] : loops'[i] = loops[i]
    PROVE  /\ n \in Nat /\ n + 1 = Len(frames) /\ Chain(code, M, loops', frames', n, K, D)
           /\ \A k \in 1..n : CallRuns(code, blocks', M, frames'[k], K[k])
           /\ K[n + 1] \in Rests(code) /\ D[n + 1] \in Nat
<1>1. Len(frames) \in Nat \ {0}
  BY WithoutTop DEF Ready, Typed, StackOK
<1>2. n \in Nat /\ n + 1 = Len(frames)
  BY <1>1
<1>3. /\ Chain(code, M, loops, frames, n, K, D)
      /\ \A k \in 1..n : CallRuns(code, blocks', M, frames[k], K[k])
      /\ K[n + 1] \in Rests(code) /\ D[n + 1] \in Nat
  BY <1>2 DEF Base
<1>4. \A i \in 1..D[n + 1] : loops'[i] = loops[i]
  BY <1>2
<1>5. Chain(code, M, loops', frames', n, K, D)
  BY <1>2, <1>3, <1>4, ChainSame
<1>6. ASSUME NEW k \in 1..n PROVE CallRuns(code, blocks', M, frames'[k], K[k])
  <2>1. CallRuns(code, blocks', M, frames[k], K[k])
    BY <1>3
  <2>2. frames'[k] = frames[k]
    OBVIOUS
  <2> QED
    BY <2>1, <2>2
<1> QED
  BY <1>2, <1>3, <1>5, <1>6

\* The call on top returns.
LEMMA FollowsReturn ==
    ASSUME Ready, frames # <<>>, NEW M, NEW Q, NEW K, NEW D, Base(M, K, D), Sim(code, blocks', M, Q),
           NEW w, w # Calling, Returns(w),
           loops' = IF Top.emits \in Loops THEN SubSeq(loops, 1, Len(loops) - 1) ELSE loops,
           Open(blocks', Cur(ip', w)) => End(blocks', M, Cur(ip', w)) = Kin(code, K[Len(frames)]),
           Len(frames) > 1 /\ frames[Len(frames) - 1].emits = "if" /\ frames[Len(frames) - 1].other # 0
               /\ ~AllJump(code, frames[Len(frames) - 1].stmt) => blocks'[ip'] = <<>>
    PROVE  FollowsNext
<1>1. frames \in Seq(FrameType(code)) /\ loops \in Seq([merge : 1..Len(blocks), start : 1..Len(blocks)])
  BY DEF Ready, Typed, StackOK, LoopsOK
<1>2. /\ Len(frames) \in Nat \ {0} /\ frames' \in Seq(FrameType(code)) /\ Len(frames') = Len(frames) - 1
      /\ \A k \in 1..(Len(frames) - 1) : frames'[k] = frames[k]
      /\ value' = w
  BY <1>1, WithoutTop DEF Returns, Under
<1>3. /\ D[Len(frames)] \in Nat
      /\ Len(loops) = IF Top.emits \in Loops THEN D[Len(frames)] + 1 ELSE D[Len(frames)]
  BY DEF Base
<1>4. Len(loops') = D[Len(frames)] /\ \A i \in 1..D[Len(frames)] : loops'[i] = loops[i]
  <2>1. CASE Top.emits \in Loops
    <3>1. loops # <<>>
      BY <1>1, <1>3, <2>1
    <3>2. Len(loops') = Len(loops) - 1 /\ \A i \in 1..(Len(loops) - 1) : loops'[i] = loops[i]
      BY <1>1, <2>1, <3>1, WithoutTop
    <3>3. Len(loops) - 1 = D[Len(frames)]
      BY <1>3, <2>1
    <3> QED
      BY <3>2, <3>3
  <2>2. CASE Top.emits \notin Loops
    BY <1>3, <2>2
  <2> QED
    BY <2>1, <2>2
<1>5. PICK n : n = Len(frames) - 1
  OBVIOUS
<1>6. /\ n \in Nat /\ n + 1 = Len(frames) /\ Chain(code, M, loops', frames', n, K, D)
      /\ \A k \in 1..n : CallRuns(code, blocks', M, frames'[k], K[k])
  BY <1>2, <1>4, <1>5, BaseMoves
<1>7. Here(code, blocks', M, ip', frames', value', K)
  BY <1>2, <1>5, <1>6 DEF Here
<1>8. Joins(code, blocks', ip', frames', value')
  <2> SUFFICES ASSUME frames' # <<>>, frames'[Len(frames')].emits = "if",
                      frames'[Len(frames')].other # 0,
                      ~AllJump(code, frames'[Len(frames')].stmt)
               PROVE  blocks'[ip'] = <<>>
    BY DEF Joins
  <2>1. Len(frames') \in Nat \ {0}
    BY <1>2
  <2>2. Len(frames) > 1 /\ Len(frames) - 1 \in 1..(Len(frames) - 1)
    BY <1>2, <2>1
  <2>3. frames'[Len(frames')] = frames[Len(frames) - 1]
    BY <1>2, <2>2
  <2> QED
    BY <2>2, <2>3
<1>9. Labelled(code, body, blocks', ip', loops', frames', value', M, Q, K, D)
  <2>1. M[1][1] = Kin(code, Listed(body, <<>>))
    BY DEF Base
  <2>2. Len(frames') = n /\ D[n + 1] = Len(loops')
    BY <1>2, <1>4, <1>5, <1>6
  <2> QED
    BY <1>6, <1>7, <1>8, <2>1, <2>2 DEF Labelled
<1> QED
  BY <1>9 DEF FollowsNext

\* The call on top becomes the block f.
LEMMA FollowsOne ==
    ASSUME Ready, frames # <<>>, NEW M, NEW Q, NEW K, NEW D, Base(M, K, D), Sim(code, blocks', M, Q),
           NEW f \in FrameType(code), f.emits = "block", Top.emits = "block",
           BecameOne(FrameType(code), frames, f, frames'), loops' = loops,
           value' = Calling /\ Open(blocks', ip')
             => End(blocks', M, ip') = Kin(code, Whole(f, K[Len(frames)])),
           value' # Calling /\ Open(blocks', Cur(ip', value')) =>
               End(blocks', M, Cur(ip', value')) = Kin(code, Behind(f, K[Len(frames)]))
    PROVE  FollowsNext
<1>1. /\ Len(frames) \in Nat \ {0} /\ Len(frames') = Len(frames) /\ frames'[Len(frames)] = f
      /\ \A k \in 1..(Len(frames) - 1) : frames'[k] = frames[k]
  BY DEF BecameOne
<1>2. f.emits \notin Loops /\ Top.emits \notin Loops
  BY DEF Loops
<1>3. D[Len(frames)] = Len(loops)
  BY <1>2 DEF Base
<1>5. PICK n : n = Len(frames) - 1
  OBVIOUS
<1>6. /\ n \in Nat /\ n + 1 = Len(frames) /\ Chain(code, M, loops', frames', n, K, D)
      /\ \A k \in 1..n : CallRuns(code, blocks', M, frames'[k], K[k])
  BY <1>1, <1>5, BaseMoves
<1>7. PICK J, E : /\ Chain(code, M, loops', frames', n + 1, J, E)
                  /\ \A k \in 1..(n + 1) : J[k] = K[k] /\ E[k] = D[k]
                  /\ J[n + 2] = Behind(f, K[n + 1])
                  /\ E[n + 2] = IF f.emits \in Loops THEN D[n + 1] + 1 ELSE D[n + 1]
  <2>1. f = frames'[n + 1]
    BY <1>1, <1>6
  <2>2. EntersLoop(code, M, loops', K, D, n, f)
    BY <1>2, <1>6, <2>1 DEF EntersLoop
  <2>3. Pushed(code, M, loops', frames', n, K, D, f)
    BY <1>2, <1>6, <2>1, <2>2, ChainPush
  <2> QED
    BY <2>3 DEF Pushed
<1>8. /\ Len(frames) + 1 = n + 2 /\ n + 1 \in 1..(n + 1)
      /\ \A k \in 1..(n + 1) : k \in 1..n \/ k = n + 1
      /\ \A k \in 1..n : k \in 1..(n + 1)
  BY <1>6
<1>9. Here(code, blocks', M, ip', frames', value', J)
  BY <1>1, <1>6, <1>7, <1>8 DEF Here
<1>10. Joins(code, blocks', ip', frames', value')
  BY <1>1 DEF Joins
<1>11. \A k \in 1..(n + 1) : CallRuns(code, blocks', M, frames'[k], J[k])
  <2>1. CallRuns(code, blocks', M, f, J[n + 1])
    BY DEF CallRuns
  <2>2. \A k \in 1..n : CallRuns(code, blocks', M, frames'[k], J[k])
    BY <1>6, <1>7, <1>8
  <2>3. frames'[n + 1] = f
    BY <1>1, <1>6
  <2> QED
    BY <1>8, <2>1, <2>2, <2>3
<1>12. M[1][1] = Kin(code, Listed(body, <<>>))
  BY DEF Base
<1>13. E[Len(frames') + 1] = Len(loops') /\ Len(frames') = n + 1
  BY <1>1, <1>2, <1>3, <1>6, <1>7, <1>8
<1>14. Labelled(code, body, blocks', ip', loops', frames', value', M, Q, J, E)
  BY <1>7, <1>9, <1>10, <1>11, <1>12, <1>13 DEF Labelled
<1> QED
  BY <1>14 DEF FollowsNext

\* The call on top goes on as f and makes the call g.
LEMMA FollowsTwo ==
    ASSUME Ready, frames # <<>>, NEW M, NEW Q, NEW K, NEW D, Base(M, K, D), Sim(code, blocks', M, Q),
           NEW f \in FrameType(code), NEW g \in FrameType(code), NEW k1, k1 = K[Len(frames)],
           NEW k2, k2 = Behind(f, k1),
           f.emits \notin Loops, g.emits \notin Loops, Top.emits \notin Loops,
           BecameTwo(FrameType(code), frames, f, g, frames'), loops' = loops, value' = Calling,
           CallRuns(code, blocks', M, f, k1), CallRuns(code, blocks', M, g, k2),
           Open(blocks', ip') => End(blocks', M, ip') = Kin(code, Whole(g, k2))
    PROVE  FollowsNext
<1>1. /\ Len(frames) \in Nat \ {0} /\ Len(frames') = Len(frames) + 1 /\ frames'[Len(frames)] = f
      /\ frames'[Len(frames) + 1] = g
      /\ \A k \in 1..(Len(frames) - 1) : frames'[k] = frames[k]
  BY DEF BecameTwo
<1>3. D[Len(frames)] = Len(loops)
  BY DEF Base
<1>5. PICK n : n = Len(frames) - 1
  OBVIOUS
<1>6. /\ n \in Nat /\ n + 1 = Len(frames) /\ Chain(code, M, loops', frames', n, K, D)
      /\ \A k \in 1..n : CallRuns(code, blocks', M, frames'[k], K[k])
  BY <1>1, <1>5, BaseMoves
<1>7. PICK J, E : /\ Chain(code, M, loops', frames', n + 1, J, E)
                  /\ \A k \in 1..(n + 1) : J[k] = K[k] /\ E[k] = D[k]
                  /\ J[n + 2] = Behind(f, K[n + 1])
                  /\ E[n + 2] = IF f.emits \in Loops THEN D[n + 1] + 1 ELSE D[n + 1]
  <2>1. f = frames'[n + 1]
    BY <1>1, <1>6
  <2>2. EntersLoop(code, M, loops', K, D, n, f)
    BY <1>6, <2>1 DEF EntersLoop
  <2>3. Pushed(code, M, loops', frames', n, K, D, f)
    BY <1>6, <2>1, <2>2, ChainPush
  <2> QED
    BY <2>3 DEF Pushed
<1>8. PICK m : m = n + 1
  OBVIOUS
<1>9. /\ m \in Nat /\ m + 1 = n + 2 /\ m = Len(frames) /\ m + 1 = Len(frames')
      /\ m \in 1..(n + 1) /\ m \in 1..(m + 1) /\ m + 1 \in 1..(m + 1)
      /\ \A k \in 1..(m + 1) : k \in 1..n \/ k = m \/ k = m + 1
      /\ \A k \in 1..n : k \in 1..(n + 1) /\ k \in 1..(m + 1)
      /\ \A k \in 1..(m + 1) : k \in 1..(m + 1)
  BY <1>1, <1>6, <1>8
<1>10. Chain(code, M, loops', frames', m, J, E) /\ J[m + 1] = k2 /\ J[m] = k1 /\ E[m + 1] = Len(loops')
  BY <1>3, <1>6, <1>7, <1>8, <1>9
<1>11. PICK J2, E2 : /\ Chain(code, M, loops', frames', m + 1, J2, E2)
                     /\ \A k \in 1..(m + 1) : J2[k] = J[k] /\ E2[k] = E[k]
                     /\ J2[m + 2] = Behind(g, J[m + 1])
                     /\ E2[m + 2] = IF g.emits \in Loops THEN E[m + 1] + 1 ELSE E[m + 1]
  <2>1. g = frames'[m + 1]
    BY <1>1, <1>9
  <2>2. EntersLoop(code, M, loops', J, E, m, g)
    BY <1>9, <1>10, <2>1 DEF EntersLoop
  <2>3. Pushed(code, M, loops', frames', m, J, E, g)
    BY <1>9, <1>10, <2>1, <2>2, ChainPush
  <2> QED
    BY <2>3 DEF Pushed
<1>12. J2[m + 1] = k2 /\ J2[m] = k1 /\ \A k \in 1..n : J2[k] = K[k]
  BY <1>7, <1>9, <1>10, <1>11
<1>13. Here(code, blocks', M, ip', frames', value', J2)
  BY <1>1, <1>9, <1>12 DEF Here
<1>14. Joins(code, blocks', ip', frames', value')
  BY DEF Joins
<1>15. \A k \in 1..(m + 1) : CallRuns(code, blocks', M, frames'[k], J2[k])
  <2>1. frames'[m] = f /\ frames'[m + 1] = g
    BY <1>1, <1>9
  <2> QED
    BY <1>6, <1>9, <1>12, <2>1
<1>16. M[1][1] = Kin(code, Listed(body, <<>>))
  BY DEF Base
<1>17. E2[m + 2] = Len(loops') /\ m + 2 = Len(frames') + 1
  BY <1>9, <1>10, <1>11
<1>18. Labelled(code, body, blocks', ip', loops', frames', value', M, Q, J2, E2)
  BY <1>9, <1>11, <1>13, <1>14, <1>15, <1>16, <1>17 DEF Labelled
<1> QED
  BY <1>18 DEF FollowsNext

\* A block enters the loop g with the body h.
LEMMA FollowsThree ==
    ASSUME Ready, frames # <<>>, NEW M, NEW Q, NEW K, NEW D, Base(M, K, D), Sim(code, blocks', M, Q),
           NEW f \in FrameType(code), NEW g \in FrameType(code), NEW h \in FrameType(code),
           NEW k1, k1 = K[Len(frames)], NEW k2, k2 = Behind(f, k1), NEW k3, k3 = Behind(g, k2),
           f.emits = "block", g.emits \in Loops, g.stmt \in 1..Len(code), h.emits = "block",
           Top.emits = "block",
           BecameThree(FrameType(code), frames, f, g, h, frames'),
           loops' = Append(loops, Entry(g)), value' = Calling,
           CallRuns(code, blocks', M, g, k2),
           M[g.then][1] = Kin(code, Doing("again", g.stmt, k2)), M[g.other][1] = Kin(code, k2),
           Open(blocks', ip') => End(blocks', M, ip') = Kin(code, Whole(h, k3))
    PROVE  FollowsNext
<1>1. /\ Len(frames) \in Nat \ {0} /\ Len(frames') = Len(frames) + 2 /\ frames'[Len(frames)] = f
      /\ frames'[Len(frames) + 1] = g /\ frames'[Len(frames) + 2] = h
      /\ \A k \in 1..(Len(frames) - 1) : frames'[k] = frames[k]
  BY DEF BecameThree
<1>2. f.emits \notin Loops /\ Top.emits \notin Loops /\ h.emits \notin Loops
  BY DEF Loops
<1>3. D[Len(frames)] = Len(loops) /\ Len(loops) \in Nat
  BY <1>2 DEF Base
<1>4. /\ \A i \in 1..Len(loops) : loops'[i] = loops[i]
      /\ loops'[Len(loops) + 1] = Entry(g) /\ Len(loops') = Len(loops) + 1
  <2>1. \A S : \A s \in Seq(S) : \A e : /\ \A i \in 1..Len(s) : Append(s, e)[i] = s[i]
                                      /\ Append(s, e)[Len(s) + 1] = e /\ Len(Append(s, e)) = Len(s) + 1
    OBVIOUS
  <2>2. loops \in Seq([merge : 1..Len(blocks), start : 1..Len(blocks)])
    BY DEF Ready, Typed, LoopsOK
  <2> QED
    BY <2>1, <2>2
<1>5. PICK n : n = Len(frames) - 1
  OBVIOUS
<1>6. /\ n \in Nat /\ n + 1 = Len(frames) /\ Chain(code, M, loops', frames', n, K, D)
      /\ \A k \in 1..n : CallRuns(code, blocks', M, frames'[k], K[k])
  BY <1>1, <1>3, <1>4, <1>5, BaseMoves
<1>7. PICK J, E : /\ Chain(code, M, loops', frames', n + 1, J, E)
                  /\ \A k \in 1..(n + 1) : J[k] = K[k] /\ E[k] = D[k]
                  /\ J[n + 2] = Behind(f, K[n + 1])
                  /\ E[n + 2] = IF f.emits \in Loops THEN D[n + 1] + 1 ELSE D[n + 1]
  <2>1. f = frames'[n + 1]
    BY <1>1, <1>6
  <2>2. EntersLoop(code, M, loops', K, D, n, f)
    BY <1>2, <1>6, <2>1 DEF EntersLoop
  <2>3. Pushed(code, M, loops', frames', n, K, D, f)
    BY <1>2, <1>6, <2>1, <2>2, ChainPush
  <2> QED
    BY <2>3 DEF Pushed
<1>8. PICK m : m = n + 1
  OBVIOUS
<1>9. /\ m \in Nat /\ m + 1 = n + 2 /\ m = Len(frames)
      /\ m \in 1..(n + 1) /\ m \in 1..(m + 1) /\ m + 1 \in 1..(m + 1)
      /\ \A k \in 1..n : k \in 1..(n + 1) /\ k \in 1..(m + 1)
  BY <1>1, <1>6, <1>8
<1>10. Chain(code, M, loops', frames', m, J, E) /\ J[m + 1] = k2 /\ J[m] = k1 /\ E[m + 1] = Len(loops)
  BY <1>2, <1>3, <1>6, <1>7, <1>8, <1>9
<1>11. PICK J2, E2 : /\ Chain(code, M, loops', frames', m + 1, J2, E2)
                     /\ \A k \in 1..(m + 1) : J2[k] = J[k] /\ E2[k] = E[k]
                     /\ J2[m + 2] = Behind(g, J[m + 1])
                     /\ E2[m + 2] = IF g.emits \in Loops THEN E[m + 1] + 1 ELSE E[m + 1]
  <2>1. g = frames'[m + 1]
    BY <1>1, <1>9
  <2>2. EntersLoop(code, M, loops', J, E, m, g)
    BY <1>4, <1>9, <1>10, <2>1 DEF EntersLoop
  <2>3. Pushed(code, M, loops', frames', m, J, E, g)
    BY <1>4, <1>9, <1>10, <2>1, <2>2, ChainPush
  <2> QED
    BY <2>3 DEF Pushed
<1>12. PICK q : q = m + 1
  OBVIOUS
<1>13. /\ q \in Nat /\ q + 1 = m + 2 /\ q + 1 = Len(frames')
       /\ q \in 1..(m + 1) /\ q \in 1..(q + 1) /\ q + 1 \in 1..(q + 1) /\ m \in 1..(q + 1)
       /\ \A k \in 1..(q + 1) : k \in 1..n \/ k = m \/ k = q \/ k = q + 1
       /\ \A k \in 1..n : k \in 1..(q + 1)
  BY <1>1, <1>6, <1>8, <1>9, <1>12
<1>14. Chain(code, M, loops', frames', q, J2, E2) /\ J2[q + 1] = k3 /\ J2[q] = k2 /\ J2[m] = k1
       /\ E2[q + 1] = Len(loops')
  BY <1>4, <1>9, <1>10, <1>11, <1>12, <1>13
<1>15. PICK J3, E3 : /\ Chain(code, M, loops', frames', q + 1, J3, E3)
                     /\ \A k \in 1..(q + 1) : J3[k] = J2[k] /\ E3[k] = E2[k]
                     /\ J3[q + 2] = Behind(h, J2[q + 1])
                     /\ E3[q + 2] = IF h.emits \in Loops THEN E2[q + 1] + 1 ELSE E2[q + 1]
  <2>1. h = frames'[q + 1]
    BY <1>1, <1>9, <1>13
  <2>2. EntersLoop(code, M, loops', J2, E2, q, h)
    BY <1>2, <1>13, <1>14, <2>1 DEF EntersLoop
  <2>3. Pushed(code, M, loops', frames', q, J2, E2, h)
    BY <1>2, <1>13, <1>14, <2>1, <2>2, ChainPush
  <2> QED
    BY <2>3 DEF Pushed
<1>16. J3[q + 1] = k3 /\ J3[q] = k2 /\ \A k \in 1..n : J3[k] = K[k]
  BY <1>7, <1>9, <1>11, <1>13, <1>14, <1>15
<1>17. Here(code, blocks', M, ip', frames', value', J3)
  BY <1>1, <1>9, <1>13, <1>16 DEF Here
<1>18. Joins(code, blocks', ip', frames', value')
  BY DEF Joins
<1>19. \A k \in 1..(q + 1) : CallRuns(code, blocks', M, frames'[k], J3[k])
  <2>1. frames'[m] = f /\ frames'[q] = g /\ frames'[q + 1] = h
    BY <1>1, <1>9, <1>12, <1>13
  <2>2. \A k : CallRuns(code, blocks', M, f, k) /\ CallRuns(code, blocks', M, h, k)
    BY DEF CallRuns
  <2> QED
    BY <1>6, <1>13, <1>16, <2>1, <2>2
<1>20. M[1][1] = Kin(code, Listed(body, <<>>))
  BY DEF Base
<1>21. E3[q + 2] = Len(loops') /\ q + 2 = Len(frames') + 1
  BY <1>2, <1>13, <1>14, <1>15
<1>22. Labelled(code, body, blocks', ip', loops', frames', value', M, Q, J3, E3)
  BY <1>13, <1>15, <1>17, <1>18, <1>19, <1>20, <1>21 DEF Labelled
<1> QED
  BY <1>22 DEF FollowsNext

-----------------------------------------------------------------------------
(* Every step of the emitters keeps the blocks in line with the source *)

\* What the labels say of the call on top.
LEMMA TopLabels ==
    ASSUME Ready, GoodNow, frames # <<>>, NEW L, NEW R, NEW K, NEW D, LabelledNow(L, R, K, D)
    PROVE  /\ Sim(code, blocks, L, R) /\ CallRuns(code, blocks, L, Top, K[Len(frames)])
           /\ K[Len(frames)] \in Rests(code) /\ K[Len(frames) + 1] \in Rests(code)
           /\ K[Len(frames) + 1] = Behind(Top, K[Len(frames)])
           /\ D[Len(frames) + 1] = Len(loops) /\ Len(loops) \in Nat
           /\ D[Len(frames) + 1] # 0 =>
                Target(code, L, frames, Len(frames) + 1, loops[D[Len(frames) + 1]], K[Len(frames) + 1])
           /\ value = Calling /\ Open(blocks, ip)
                  => End(blocks, L, ip) = Kin(code, Whole(Top, K[Len(frames)]))
           /\ value # Calling /\ Open(blocks, Cur(ip, value)) =>
                End(blocks, L, Cur(ip, value)) = Kin(code, K[Len(frames) + 1])
<1>1. Len(frames) \in Nat \ {0} /\ Top = frames[Len(frames)]
  BY TopNow
<1>2. /\ Len(frames) \in 1..(Len(frames) + 1) /\ Len(frames) + 1 \in 1..(Len(frames) + 1)
      /\ Len(frames) \in 1..Len(frames)
  BY <1>1
<1>3. Chain(code, L, loops, frames, Len(frames), K, D) /\ Here(code, blocks, L, ip, frames, value, K)
      /\ D[Len(frames) + 1] = Len(loops) /\ Sim(code, blocks, L, R)
  BY DEF LabelledNow, Labelled
<1>4. CallRuns(code, blocks, L, Top, K[Len(frames)])
  BY <1>1, <1>2 DEF LabelledNow, Labelled
<1>5. /\ K[Len(frames)] \in Rests(code) /\ K[Len(frames) + 1] \in Rests(code)
      /\ K[Len(frames) + 1] = Behind(Top, K[Len(frames)])
      /\ D[Len(frames) + 1] \in Nat
      /\ D[Len(frames) + 1] # 0 =>
                Target(code, L, frames, Len(frames) + 1, loops[D[Len(frames) + 1]], K[Len(frames) + 1])
  BY <1>1, <1>2, <1>3 DEF Chain
<1> QED
  BY <1>1, <1>3, <1>4, <1>5 DEF Here

\* What a block has to do at its next statement.
LEMMA NodeLabels ==
    ASSUME Ready, GoodNow, NEW kinds, AtNode(kinds), NEW L, NEW R, NEW K, NEW D, LabelledNow(L, R, K, D),
           Open(blocks, ip)
    PROVE  /\ End(blocks, L, ip) = Kin(code, Doing("statement", Node, K[Len(frames) + 1]))
           /\ Whole(Top, K[Len(frames)]) = Doing("statement", Node, K[Len(frames) + 1])
<1>1. /\ frames # <<>> /\ Top.emits = "block" /\ Top.nodes # <<>> /\ value = Calling
      /\ Top \in FrameType(code)
  BY AtNodeNow
<1>2. /\ K[Len(frames)] \in Rests(code) /\ K[Len(frames) + 1] = Behind(Top, K[Len(frames)])
      /\ End(blocks, L, ip) = Kin(code, Whole(Top, K[Len(frames)]))
  BY <1>1, TopLabels
<1>3. PICK k, list : k = K[Len(frames)] /\ list = Top.nodes
  OBVIOUS
<1>4. list \in Seq(1..Len(code)) /\ list # <<>> /\ k \in Rests(code) /\ Node = Head(list)
  BY <1>1, <1>2, <1>3 DEF FrameType, Node
<1>5. Listed(list, k) = Doing("statement", Head(list), Listed(Tail(list), k))
  BY <1>4, ListedRest
<1>6. Behind(Top, k) = Listed(Tail(list), k) /\ Whole(Top, k) = Listed(list, k)
  BY <1>1, <1>3 DEF Behind, Whole
<1> QED
  BY <1>2, <1>3, <1>4, <1>5, <1>6

\* A block goes on after a statement that is a single instruction.
LEMMA LeafFollows ==
    ASSUME Ready, GoodNow, NEW kinds, AtNode(kinds), NEW L, NEW R, NEW K, NEW D, LabelledNow(L, R, K, D),
           ip' = ip, loops' = loops, frames' = frames, value' = Other,
           NEW M, NEW Q, Sim(code, blocks', M, Q), Extends(blocks, L, blocks', M, {ip}),
           Open(blocks', ip) => End(blocks', M, ip) = Kin(code, K[Len(frames) + 1])
    PROVE  FollowsNext
<1>1. /\ frames # <<>> /\ Top.emits = "block" /\ value = Calling /\ Top \in FrameType(code)
      /\ Cur(ip, value) = ip
  BY AtNodeNow
<1>2. K[Len(frames) + 1] = Behind(Top, K[Len(frames)])
  BY <1>1, TopLabels
<1>3. PICK T : T = {ip}
  OBVIOUS
<1>4. T \subseteq {Cur(ip, value)} \cup Own(Top) /\ Extends(blocks, L, blocks', M, T)
  BY <1>1, <1>3
<1>5. Base(M, K, D)
  BY <1>1, <1>4, LowerKept
<1>6. BecameOne(FrameType(code), frames, Top, frames')
  BY <1>1, SameCalls
<1>7. value' # Calling /\ Cur(ip', value') = ip
  BY DEF Calling, Other, Cur
<1> QED
  BY <1>1, <1>2, <1>5, <1>6, <1>7, FollowsOne

\* A statement with an effect, ...
LEMMA DoFollows ==
    ASSUME Ready, GoodNow, Sound(blocks'), EmitDo, NEW L, NEW R, NEW K, NEW D, LabelledNow(L, R, K, D)
    PROVE  FollowsNext
<1>1. /\ AtNode({"do"}) /\ blocks' = Put(blocks, ip, Effect(Node)) /\ value' = Other
      /\ ip' = ip /\ loops' = loops /\ frames' = frames
  BY DEF EmitDo
<1>2. /\ frames # <<>> /\ code[Node].kind = "do" /\ Node \in 1..Len(code) /\ Node \in Nat /\ CodeOK(code)
  BY <1>1, AtNodeNow
<1>3. BlocksOK(blocks) /\ ip \in 1..Len(blocks) /\ Len(blocks) \in Nat
  BY <1>2, TopNow
<1>4. PutIs(blocks, ip, Effect(Node), blocks')
  BY <1>1, <1>2, <1>3, PutEach
<1>5. Open(blocks, ip)
  BY <1>4 DEF PutIs, Open
<1>6. /\ Effect(Node) \in Instruction /\ Effect(Node).op = "do" /\ Effect(Node).stmt = Node
  BY <1>2, InstructionTypes
<1>7. PICK q : q = K[Len(frames) + 1]
  OBVIOUS
<1>8. q \in Rests(code) /\ Sim(code, blocks, L, R)
  BY <1>2, <1>7, TopLabels
<1>9. PICK r : r = Doing("statement", Node, q)
  OBVIOUS
<1>10. r \in Rests(code) /\ Acts(code, r, "do", Node, q)
  BY <1>2, <1>8, <1>9, StatementActs DEF Acts
<1>11. End(blocks, L, ip) = Kin(code, r)
  BY <1>1, <1>5, <1>7, <1>9, NodeLabels
<1>12. PICK in, ps : in = Effect(Node) /\ ps = blocks'
  OBVIOUS
<1>13. /\ in \in Instruction /\ in.op \in {"do", "init", "update"} /\ PutIs(blocks, ip, in, ps)
       /\ Acts(code, r, in.op, in.stmt, q)
  BY <1>4, <1>6, <1>10, <1>12
<1>14. PutFollows(code, blocks, L, ps, R, ip, q)
  BY <1>3, <1>5, <1>8, <1>10, <1>11, <1>13, SimPut
<1>15. PICK M : /\ Sim(code, blocks', M, R) /\ Extends(blocks, L, blocks', M, {ip})
                /\ End(blocks', M, ip) = Kin(code, q)
  BY <1>12, <1>14 DEF PutFollows
<1> QED
  BY <1>1, <1>7, <1>15, LeafFollows

\* ... a return, ...
LEMMA ReturnFollows ==
    ASSUME Ready, GoodNow, Sound(blocks'), EmitReturn, NEW L, NEW R, NEW K, NEW D,
           LabelledNow(L, R, K, D)
    PROVE  FollowsNext
<1>1. /\ AtNode({"return"}) /\ blocks' = Put(blocks, ip, Ret(Node)) /\ value' = Other
      /\ ip' = ip /\ loops' = loops /\ frames' = frames
  BY DEF EmitReturn
<1>2. /\ frames # <<>> /\ code[Node].kind = "return" /\ Node \in 1..Len(code) /\ Node \in Nat
      /\ CodeOK(code)
  BY <1>1, AtNodeNow
<1>3. BlocksOK(blocks) /\ ip \in 1..Len(blocks) /\ Len(blocks) \in Nat
  BY <1>2, TopNow
<1>4. PutIs(blocks, ip, Ret(Node), blocks') /\ IsTerminator(Ret(Node))
  BY <1>1, <1>2, <1>3, PutEach
<1>5. Open(blocks, ip) /\ ~Open(blocks', ip)
  BY <1>4 DEF PutIs, Open
<1>7. PICK q : q = K[Len(frames) + 1]
  OBVIOUS
<1>8. q \in Rests(code) /\ Sim(code, blocks, L, R)
  BY <1>2, <1>7, TopLabels
<1>9. PICK r : r = Doing("statement", Node, q)
  OBVIOUS
<1>10. r \in Rests(code) /\ Finishes(code, r, Node)
  BY <1>2, <1>8, <1>9, StatementActs DEF Finishes
<1>11. End(blocks, L, ip) = Kin(code, r)
  BY <1>1, <1>5, <1>7, <1>9, NodeLabels
<1>12. \E Q : /\ Sim(code, Put(blocks, ip, Ret(Node)), L, Q)
              /\ Extends(blocks, L, Put(blocks, ip, Ret(Node)), L, {ip})
  BY <1>2, <1>3, <1>5, <1>8, <1>10, <1>11, SimRet
<1>13. PICK Q : Sim(code, blocks', L, Q) /\ Extends(blocks, L, blocks', L, {ip})
  BY <1>1, <1>12
<1> QED
  BY <1>1, <1>5, <1>13, LeafFollows

\* ... a break or continue.
LEMMA JumpFollows ==
    ASSUME Ready, GoodNow, Sound(blocks'), EmitJump, NEW L, NEW R, NEW K, NEW D, LabelledNow(L, R, K, D)
    PROVE  FollowsNext
<1>0. PICK to, loop : /\ loop = loops[Len(loops)]
                      /\ to = IF code[Node].kind = "break" THEN loop.merge ELSE loop.start
  OBVIOUS
<1>1. /\ AtNode({"break", "continue"}) /\ blocks' = Put(blocks, ip, Br(to)) /\ value' = Other
      /\ ip' = ip /\ loops' = loops /\ frames' = frames /\ loops # <<>>
  BY <1>0 DEF EmitJump
<1>2. /\ frames # <<>> /\ code[Node].kind \in {"break", "continue"} /\ Node \in 1..Len(code)
      /\ Node \in Nat
      /\ CodeOK(code)
  BY <1>1, AtNodeNow
<1>3. /\ BlocksOK(blocks) /\ ip \in 1..Len(blocks) /\ Len(blocks) \in Nat
      /\ CallsOK(code, blocks, frames, ip, value) /\ frames \in Seq(FrameType(code))
      /\ StackOK(code, frames, Len(blocks)) /\ Len(frames) \in Nat \ {0}
  BY <1>2, TopNow
<1>4. PICK q : q = K[Len(frames) + 1]
  OBVIOUS
<1>5. /\ q \in Rests(code) /\ Sim(code, blocks, L, R) /\ D[Len(frames) + 1] = Len(loops)
      /\ D[Len(frames) + 1] # 0 =>
           Target(code, L, frames, Len(frames) + 1, loops[D[Len(frames) + 1]], q)
  BY <1>2, <1>4, TopLabels
<1>6. Len(loops) # 0
  <2>1. loops \in Seq([merge : 1..Len(blocks), start : 1..Len(blocks)])
    BY DEF Ready, Typed, LoopsOK
  <2> QED
    BY <1>1, <2>1
<1>7. Target(code, L, frames, Len(frames) + 1, loop, q)
  BY <1>0, <1>5, <1>6
<1>8. PICK j \in 1..Len(frames) : frames[j].emits \in Loops /\ loop = Entry(frames[j])
  <2>1. (Len(frames) + 1) - 1 = Len(frames)
    BY <1>3
  <2> QED
    BY <1>7, <2>1 DEF Target
<1>9. PICK f : f = frames[j]
  OBVIOUS
<1>10. /\ loop.merge = f.other /\ loop.start = f.then /\ f.emits \in {"while", "for"}
       /\ f \in FrameType(code) /\ Fits(code, f, Len(blocks)) /\ FrameOK(code, blocks, f)
       /\ ip \notin Own(f)
       /\ CallRuns(code, blocks, L, f, K[j])
  BY <1>3, <1>8, <1>9 DEF Entry, StackOK, CallsOK, Apart, LabelledNow, Labelled, Loops
<1>11. to \in 1..Len(blocks) /\ (Busy(blocks, to) \/ (to # ip /\ Open(blocks, to)))
  <2>1. /\ f.other \in 1..Len(blocks) /\ f.then \in 1..Len(blocks)
    BY <1>10 DEF Fits, Loops
  <2>2. f.other # ip /\ blocks[f.other] = <<>>
    BY <1>10 DEF FrameOK, Own
  <2>3. Open(blocks, f.other)
    BY <2>2 DEF Open, Terminated
  <2>4. CASE f.emits = "while"
    <3>1. Busy(blocks, f.then)
      BY <1>10, <2>4 DEF CallRuns
    <3> QED
      BY <1>0, <1>10, <2>1, <2>2, <2>3, <3>1
  <2>5. CASE f.emits = "for"
    <3>1. f.then # ip /\ blocks[f.then] = <<>>
      BY <1>10, <2>5 DEF FrameOK, Own
    <3>2. Open(blocks, f.then)
      BY <3>1 DEF Open, Terminated
    <3> QED
      BY <1>0, <1>10, <2>1, <2>2, <2>3, <3>1, <3>2
  <2> QED
    BY <1>10, <2>4, <2>5
<1>12. PutIs(blocks, ip, Br(to), blocks') /\ IsTerminator(Br(to))
  BY <1>1, <1>2, <1>3, <1>11, PutEach
<1>13. Open(blocks, ip) /\ ~Open(blocks', ip)
  BY <1>12 DEF PutIs, Open
<1>14. End(blocks, L, ip) = Kin(code, Doing("statement", Node, q))
  BY <1>1, <1>4, <1>13, NodeLabels
<1>15. InLoop(q) /\ L[loop.merge][1] = Kin(code, Tail(FromLoopEnd(q)))
       /\ L[loop.start][1] = Kin(code, FromLoopEnd(q))
  BY <1>7 DEF Target
<1>16. Kin(code, Doing("statement", Node, q)) =
             IF code[Node].kind = "break" THEN Kin(code, Tail(FromLoopEnd(q)))
             ELSE Kin(code, FromLoopEnd(q))
  BY <1>2, <1>5, <1>15, JumpMoves
<1>17. End(blocks, L, ip) = L[to][1]
  BY <1>0, <1>14, <1>15, <1>16
<1>18. \E Q : Sim(code, Put(blocks, ip, Br(to)), L, Q)
         /\ Extends(blocks, L, Put(blocks, ip, Br(to)), L, {ip})
  BY <1>3, <1>5, <1>11, <1>13, <1>17, SimBr
<1>19. PICK Q : Sim(code, blocks', L, Q) /\ Extends(blocks, L, blocks', L, {ip})
  BY <1>1, <1>18
<1> QED
  BY <1>1, <1>13, <1>19, LeafFollows

\* Behind an else branch of which not all jump there is another if.
LEMMA OnlyIfsJoin ==
    ASSUME Ready, GoodNow, frames # <<>>, Len(frames) > 1, frames[Len(frames) - 1].emits = "if",
           frames[Len(frames) - 1].other # 0, ~AllJump(code, frames[Len(frames) - 1].stmt)
    PROVE  Top.emits = "if" /\ ~AllJump(code, Top.stmt)
BY BelowNow DEF Link

\* The next statement of a block.
LEMMA NextFollows ==
    ASSUME Ready, GoodNow, NextNode, NEW L, NEW R, NEW K, NEW D, LabelledNow(L, R, K, D)
    PROVE  FollowsNext
<1>0. PICK next : next = IF value > 0 THEN value ELSE Top.bb
  OBVIOUS
<1>1. /\ frames # <<>> /\ Top.emits = "block" /\ value # Calling /\ value # Poison
      /\ code[Node].kind \notin Jumps
      /\ frames' = Under \o <<BlockEmitter(Tail(Top.nodes), next)>>
      /\ ip' = next /\ value' = Calling /\ blocks' = blocks /\ loops' = loops
  BY <1>0 DEF NextNode, Resumes, TopBecomes
<1>2. /\ BlocksOK(blocks) /\ ip \in 1..Len(blocks) /\ Len(blocks) \in Nat
      /\ frames \in Seq(FrameType(code)) /\ CodeOK(code)
      /\ TopOK(code, blocks, ip, Top, value, Live(code, frames))
      /\ Top.nodes # <<>> /\ Top.nodes \in Seq(1..Len(code)) /\ Top.bb \in 1..Len(blocks)
      /\ value \in {Calling, Poison, Other} \cup 1..Len(blocks)
  <2>1. frames # <<>> /\ value # Calling => Called(Top)
    BY DEF Ready, Typed, Top
  <2> QED
    BY <1>1, <2>1, TopNow, TopFacts DEF Ready, Typed, Called, Top
<1>3. next = Cur(ip, value)
  <2>1. CASE value > 0
    BY <1>0, <2>1 DEF Cur
  <2>2. CASE ~(value > 0)
    <3>1. value = Other
      BY <1>1, <1>2, <2>2
    <3>2. BlockWaits(code, blocks, ip, Top, value, Live(code, frames))
      BY <1>1, <1>2 DEF TopOK
    <3>3. ~Ends(code, Node)
      <4>1. SUFFICES ASSUME Ends(code, Node) PROVE FALSE
        OBVIOUS
      <4>2. Jumped(code, blocks, ip, Top, value) /\ code[Node].kind = "if"
        BY <1>1, <3>2, <4>1 DEF BlockWaits, Node, Ends
      <4> QED
        BY <1>1, <4>2 DEF Jumped, Node
    <3>4. ip = Top.bb
      BY <3>1, <3>2, <3>3 DEF BlockWaits, Passed, Node
    <3> QED
      BY <1>0, <2>2, <3>4 DEF Cur
  <2> QED
    BY <2>1, <2>2
<1>4. next \in 1..Len(blocks)
  BY <1>0, <1>2, <1>3 DEF Cur, Calling, Poison, Other
<1>5. PICK list : list = Tail(Top.nodes)
  OBVIOUS
<1>6. list \in Seq(1..Len(code))
  BY <1>2, <1>5, HeadTailProperties
<1>7. PICK f : f = BlockEmitter(list, next)
  OBVIOUS
<1>8. f \in FrameType(code) /\ f.emits = "block" /\ f.nodes = list
  BY <1>2, <1>4, <1>6, <1>7, EmitterTypes DEF BlockEmitter
<1>9. BecameOne(FrameType(code), frames, f, frames')
  BY <1>1, <1>2, <1>5, <1>7, <1>8, TopBecomesOne DEF Under
<1>10. Base(L, K, D)
  <2>1. PICK T : T = {}
    OBVIOUS
  <2>2. T \subseteq {Cur(ip, value)} \cup Own(Top) /\ Extends(blocks, L, blocks', L, T)
    BY <1>1, <1>2, <2>1, ExtendsSame
  <2> QED
    BY <1>1, <2>2, LowerKept
<1>11. Whole(f, K[Len(frames)]) = Behind(Top, K[Len(frames)])
  BY <1>1, <1>2, <1>5, <1>8 DEF Whole, Behind
<1>12. /\ Sim(code, blocks', L, R)
       /\ Open(blocks', ip') => End(blocks', L, ip') = Kin(code, Whole(f, K[Len(frames)]))
  BY <1>1, <1>3, <1>11, TopLabels
<1> QED
  BY <1>1, <1>8, <1>9, <1>10, <1>12, FollowsOne

\* A block returns its block.
LEMMA BlockReturns ==
    ASSUME Ready, GoodNow, frames # <<>>, Top.emits = "block", Returns(Top.bb), ip' = Top.bb,
           blocks' = blocks, loops' = loops, NEW L, NEW R, NEW K, NEW D, LabelledNow(L, R, K, D),
           Open(blocks, Top.bb) => End(blocks, L, Top.bb) = Kin(code, K[Len(frames)])
    PROVE  FollowsNext
<1>1. /\ Len(blocks) \in Nat /\ Top.bb \in 1..Len(blocks) /\ CodeOK(code)
  BY TopNow, TopFacts DEF Ready, Top
<1>2. PICK w : w = Top.bb
  OBVIOUS
<1>3. w # Calling /\ Cur(ip', w) = w /\ Returns(w)
  BY <1>1, <1>2 DEF Calling, Cur
<1>4. Base(L, K, D)
  <2>1. PICK T : T = {}
    OBVIOUS
  <2>2. T \subseteq {Cur(ip, value)} \cup Own(Top) /\ Extends(blocks, L, blocks', L, T)
    BY <1>1, <2>1, ExtendsSame
  <2> QED
    BY <2>2, LowerKept
<1>5. Top.emits \notin Loops
  BY DEF Loops
<1>6. Sim(code, blocks', L, R)
  BY TopLabels
<1>7. ~(Len(frames) > 1 /\ frames[Len(frames) - 1].emits = "if" /\ frames[Len(frames) - 1].other # 0
               /\ ~AllJump(code, frames[Len(frames) - 1].stmt))
  BY OnlyIfsJoin
<1>8. Open(blocks', Cur(ip', w)) => End(blocks', L, Cur(ip', w)) = Kin(code, K[Len(frames)])
  BY <1>2, <1>3
<1> QED
  BY <1>3, <1>4, <1>5, <1>6, <1>7, <1>8, FollowsReturn

\* The end of a block returns to the caller, ...
LEMMA EndBlockFollows ==
    ASSUME Ready, GoodNow, EndBlock, NEW L, NEW R, NEW K, NEW D, LabelledNow(L, R, K, D)
    PROVE  FollowsNext
<1>1. /\ frames # <<>> /\ Top.emits = "block" /\ value = Calling /\ Top.nodes = <<>>
      /\ ip' = ip /\ Returns(Top.bb) /\ blocks' = blocks /\ loops' = loops
  BY DEF EndBlock, GoesOn
<1>2. ip = Top.bb
  BY <1>1, TopNow DEF TopOK, AtStart
<1>3. PICK k : k = K[Len(frames)]
  OBVIOUS
<1>4. /\ k \in Rests(code)
      /\ Open(blocks, ip) => End(blocks, L, ip) = Kin(code, Whole(Top, k))
  BY <1>1, <1>3, TopLabels
<1>5. Whole(Top, k) = k
  <2>1. PICK list : list = Top.nodes
    OBVIOUS
  <2>2. list \in Seq(1..Len(code)) /\ list = <<>>
    BY <1>1, <2>1
  <2>3. Listed(list, k) = k
    BY <1>4, <2>2, ListedRest
  <2> QED
    BY <1>1, <2>1, <2>3 DEF Whole
<1> QED
  BY <1>1, <1>2, <1>3, <1>4, <1>5, BlockReturns

\* ... also when the rest of it is left out.
LEMMA CutBlockFollows ==
    ASSUME Ready, GoodNow, CutBlock, NEW L, NEW R, NEW K, NEW D, LabelledNow(L, R, K, D)
    PROVE  FollowsNext
<1>1. /\ frames # <<>> /\ Top.emits = "block" /\ value # Calling
      /\ value = Poison \/ code[Node].kind \in Jumps
      /\ ip' = (IF value = Poison THEN ip ELSE Top.bb) /\ Returns(Top.bb)
      /\ blocks' = blocks /\ loops' = loops
  BY DEF CutBlock, Resumes
<1>2. BlockWaits(code, blocks, ip, Top, value, Live(code, frames))
  BY <1>1, TopNow DEF TopOK
<1>3. ip = Top.bb /\ Terminated(blocks, ip)
  BY <1>1, <1>2 DEF BlockWaits, Jumped, Passed, Ends, Node
<1> QED
  BY <1>1, <1>3, BlockReturns DEF Open

\* The end of a while loop leads back to its test.
LEMMA EndWhileFollows ==
    ASSUME Ready, GoodNow, EndWhile, NEW L, NEW R, NEW K, NEW D, LabelledNow(L, R, K, D)
    PROVE  FollowsNext
<1>1. /\ frames # <<>> /\ Top.emits = "while" /\ value # Calling
      /\ blocks' = SafeBr(blocks, ip, Top.bb) /\ ip' = Top.other /\ Returns(Top.other)
      /\ loops' = SubSeq(loops, 1, Len(loops) - 1)
  BY DEF EndWhile, Resumes
<1>2. /\ BlocksOK(blocks) /\ ip \in 1..Len(blocks) /\ Len(blocks) \in Nat
      /\ FrameOK(code, blocks, Top) /\ ip \notin Own(Top)
      /\ TopOK(code, blocks, ip, Top, value, Live(code, frames))
  BY <1>1, TopNow
<1>3. /\ Top \in FrameType(code) /\ Fits(code, Top, Len(blocks)) /\ CodeOK(code)
      /\ Top.bb \in 1..Len(blocks) /\ Top.stmt \in 1..Len(code)
  BY <1>1, TopFacts DEF Ready, Top
<1>4. Top.other \in 1..Len(blocks) /\ Top.other # ip /\ blocks[Top.other] = <<>>
  BY <1>1, <1>2, <1>3 DEF Fits, Loops, FrameOK, Own
<1>5. Cur(ip, value) = ip
  BY <1>1, <1>2 DEF TopOK, BodyEmitted, Loops, Cur
<1>6. PICK k : k = K[Len(frames)]
  OBVIOUS
<1>7. /\ k \in Rests(code) /\ Sim(code, blocks, L, R) /\ CallRuns(code, blocks, L, Top, k)
      /\ Open(blocks, ip) => End(blocks, L, ip) = Kin(code, Behind(Top, k))
  BY <1>1, <1>5, <1>6, TopLabels
<1>8. /\ code[Top.stmt].kind = "while" /\ Busy(blocks, Top.bb)
      /\ L[Top.bb][1] = Kin(code, Doing("statement", Top.stmt, k)) /\ L[Top.other][1] = Kin(code, k)
  BY <1>1, <1>7 DEF CallRuns
<1>9. Kin(code, Behind(Top, k)) = L[Top.bb][1]
  <2>1. Behind(Top, k) = Doing("again", Top.stmt, k)
    BY <1>1 DEF Behind
  <2>2. Kin(code, Doing("again", Top.stmt, k)) = Kin(code, Doing("statement", Top.stmt, k))
    BY <1>3, <1>7, <1>8, WhileAgain
  <2> QED
    BY <1>8, <2>1, <2>2
<1>10. PICK to : to = Top.bb
  OBVIOUS
<1>11. \E Q : /\ Sim(code, SafeBr(blocks, ip, to), L, Q)
              /\ Extends(blocks, L, SafeBr(blocks, ip, to), L, {ip})
  BY <1>2, <1>3, <1>7, <1>8, <1>9, <1>10, SimSafeBr
<1>12. PICK Q : Sim(code, blocks', L, Q) /\ Extends(blocks, L, blocks', L, {ip})
  BY <1>1, <1>10, <1>11
<1>13. Base(L, K, D)
  <2>1. PICK T : T = {ip}
    OBVIOUS
  <2>2. T \subseteq {Cur(ip, value)} \cup Own(Top) /\ Extends(blocks, L, blocks', L, T)
    BY <1>5, <1>12, <2>1
  <2> QED
    BY <1>1, <2>2, LowerKept
<1>14. PICK w : w = Top.other
  OBVIOUS
<1>15. w # Calling /\ Cur(ip', w) = w /\ Returns(w)
  BY <1>1, <1>2, <1>4, <1>14 DEF Calling, Cur
<1>16. End(blocks', L, w) = Kin(code, k)
  <2>1. End(blocks', L, w) = End(blocks, L, w)
    BY <1>4, <1>12, <1>14 DEF Extends
  <2>2. End(blocks, L, w) = L[w][1]
    BY <1>4, <1>14 DEF End
  <2> QED
    BY <1>8, <1>14, <2>1, <2>2
<1>17. ~(Len(frames) > 1 /\ frames[Len(frames) - 1].emits = "if" /\ frames[Len(frames) - 1].other # 0
               /\ ~AllJump(code, frames[Len(frames) - 1].stmt))
  BY <1>1, OnlyIfsJoin
<1>18. loops' = IF Top.emits \in Loops THEN SubSeq(loops, 1, Len(loops) - 1) ELSE loops
  BY <1>1 DEF Loops
<1>19. Open(blocks', Cur(ip', w)) => End(blocks', L, Cur(ip', w)) = Kin(code, K[Len(frames)])
  BY <1>6, <1>15, <1>16
<1> QED
  BY <1>1, <1>12, <1>13, <1>15, <1>17, <1>18, <1>19, FollowsReturn

\* Blocks that are new need not be named.
LEMMA ExtendsOld ==
    ASSUME NEW bs, NEW L, NEW ps, NEW M, NEW S, NEW T, Extends(bs, L, ps, M, S),
           \A a \in S : a \in T \/ a \notin 1..Len(bs)
    PROVE  Extends(bs, L, ps, M, T)
BY DEF Extends

\* What is known of an if whose branches have been emitted.
LEMMA IfEmitted ==
    ASSUME Ready, GoodNow, BranchesEmitted, NEW L, NEW R, NEW K, NEW D, LabelledNow(L, R, K, D),
           NEW k, k = K[Len(frames)]
    PROVE  /\ frames # <<>> /\ Top.emits = "if" /\ value # Calling /\ Top.emits \notin Loops
           /\ BlocksOK(blocks) /\ Len(blocks) \in Nat /\ ip \in 1..Len(blocks) /\ CodeOK(code)
           /\ Top.bb \in 1..Len(blocks) /\ Top.then \in 1..Len(blocks) /\ Top.bb # Top.then
           /\ Top.stmt \in 1..Len(code) /\ Top.stmt \in Nat /\ code[Top.stmt].kind = "if"
           /\ Open(blocks, Top.bb)
           /\ k \in Rests(code) /\ Sim(code, blocks, L, R)
           /\ Tests(code, Doing("statement", Top.stmt, k), Top.stmt,
                    Listed(code[Top.stmt].then, k), Otherwise(code, Top.stmt, k))
           /\ Doing("statement", Top.stmt, k) \in Rests(code)
           /\ Listed(code[Top.stmt].then, k) \in Rests(code)
           /\ Otherwise(code, Top.stmt, k) \in Rests(code)
           /\ End(blocks, L, Top.bb) = Kin(code, Doing("statement", Top.stmt, k))
           /\ L[Top.then][1] = Kin(code, Listed(code[Top.stmt].then, k))
           /\ Top.other # 0 =>
                /\ Top.other \in 1..Len(blocks)
                /\ L[Top.other][1] = Kin(code, Otherwise(code, Top.stmt, k))
                /\ Open(blocks, Top.then) => End(blocks, L, Top.then) = Kin(code, k)
                /\ Own(Top) = {Top.bb, Top.then} /\ ip \notin {Top.bb, Top.then}
                /\ Terminated(blocks, Top.then) <=> AllJump(code, Top.stmt)
                /\ ElseEmitted(code, blocks, ip, Top, value)
           /\ Top.other = 0 =>
                /\ Otherwise(code, Top.stmt, k) = k /\ Own(Top) = {Top.bb}
                /\ ip = Top.then /\ value = ip
           /\ Open(blocks, Cur(ip, value)) => End(blocks, L, Cur(ip, value)) = Kin(code, k)
<1>1. /\ frames # <<>> /\ Top.emits = "if" /\ value # Calling
      /\ code[Top.stmt].else = "none" \/ Top.other # 0
  BY DEF BranchesEmitted, Resumes, HasElse
<1>2. /\ BlocksOK(blocks) /\ ip \in 1..Len(blocks) /\ Len(blocks) \in Nat
      /\ FrameOK(code, blocks, Top) /\ ip \notin Own(Top)
      /\ TopOK(code, blocks, ip, Top, value, Live(code, frames))
  BY <1>1, TopNow
<1>3. /\ Top \in FrameType(code) /\ Fits(code, Top, Len(blocks)) /\ CodeOK(code)
      /\ Top.bb \in 1..Len(blocks) /\ Top.stmt \in 1..Len(code) /\ Top.stmt \in Nat
      /\ Top.then \in 0..Len(blocks) /\ Top.other \in 0..Len(blocks)
  BY <1>1, TopFacts DEF Ready, Top
<1>4. Top.then # 0
  BY <1>1 DEF Ready, Typed, Called, Top
<1>5. /\ code[Top.stmt].kind = "if" /\ Open(blocks, Top.bb) /\ Top.bb # Top.then
      /\ Top.other # 0 => (Terminated(blocks, Top.then) <=> AllJump(code, Top.stmt))
  BY <1>1, <1>2, <1>4 DEF FrameOK
<1>6. /\ k \in Rests(code) /\ Sim(code, blocks, L, R) /\ CallRuns(code, blocks, L, Top, k)
      /\ K[Len(frames) + 1] = Behind(Top, k)
      /\ Open(blocks, Cur(ip, value)) => End(blocks, L, Cur(ip, value)) = Kin(code, K[Len(frames) + 1])
  BY <1>1, TopLabels
<1>7. K[Len(frames) + 1] = k
  BY <1>1, <1>6 DEF Behind
<1>8. /\ Tests(code, Doing("statement", Top.stmt, k), Top.stmt,
               Listed(code[Top.stmt].then, k), Otherwise(code, Top.stmt, k))
  BY <1>3, <1>5, <1>6, StatementActs
<1>9. Otherwise(code, Top.stmt, k) \in Rests(code)
      /\ (code[Top.stmt].else = "none" => Otherwise(code, Top.stmt, k) = k)
  BY <1>3, <1>6, OtherwiseIs
<1>10. Listed(code[Top.stmt].then, k) \in Rests(code)
  BY <1>3, <1>6, StatementFacts, ListedRest
<1>11. Doing("statement", Top.stmt, k) \in Rests(code)
  BY <1>8 DEF Tests
<1>12. /\ End(blocks, L, Top.bb) = Kin(code, Doing("statement", Top.stmt, k))
       /\ L[Top.then][1] = Kin(code, Listed(code[Top.stmt].then, k))
       /\ Top.other # 0 => /\ L[Top.other][1] = Kin(code, Otherwise(code, Top.stmt, k))
                           /\ Open(blocks, Top.then) => End(blocks, L, Top.then) = Kin(code, k)
  BY <1>1, <1>4, <1>6 DEF CallRuns
<1>13. ASSUME Top.other # 0
       PROVE  /\ Own(Top) = {Top.bb, Top.then} /\ ElseEmitted(code, blocks, ip, Top, value)
  BY <1>1, <1>2, <1>4, <1>13 DEF Own, TopOK
<1>14. ASSUME Top.other = 0
       PROVE  Own(Top) = {Top.bb} /\ ip = Top.then /\ value = ip
  BY <1>1, <1>2, <1>4, <1>14 DEF Own, TopOK, ThenEmitted
<1> QED
  BY <1>1, <1>2, <1>3, <1>4, <1>5, <1>6, <1>7, <1>8, <1>9, <1>10, <1>11, <1>12, <1>13, <1>14 DEF Loops

\* An if both branches of which jump has nothing behind it.
LEMMA EndIfPoisonedFollows ==
    ASSUME Ready, GoodNow, EndIfPoisoned, NEW L, NEW R, NEW K, NEW D, LabelledNow(L, R, K, D)
    PROVE  FollowsNext
<1>0. PICK k, bb, then, other, s : /\ k = K[Len(frames)] /\ bb = Top.bb /\ then = Top.then
                                   /\ other = Top.other /\ s = Top.stmt
  OBVIOUS
<1>1. /\ BranchesEmitted /\ other # 0 /\ Terminated(blocks, then)
      /\ blocks' = Put(blocks, bb, CondBr(s, then, other)) /\ ip' = bb /\ Returns(Poison)
      /\ loops' = loops
  BY <1>0 DEF EndIfPoisoned, BothTerminated, HasElse
<1>2. /\ frames # <<>> /\ Top.emits = "if" /\ value # Calling /\ Top.emits \notin Loops
      /\ BlocksOK(blocks) /\ Len(blocks) \in Nat
      /\ bb \in 1..Len(blocks) /\ then \in 1..Len(blocks) /\ s \in Nat /\ Open(blocks, bb)
      /\ Sim(code, blocks, L, R)
      /\ Tests(code, Doing("statement", s, k), s, Listed(code[s].then, k), Otherwise(code, s, k))
      /\ Doing("statement", s, k) \in Rests(code)
      /\ Listed(code[s].then, k) \in Rests(code) /\ Otherwise(code, s, k) \in Rests(code)
      /\ End(blocks, L, bb) = Kin(code, Doing("statement", s, k))
      /\ L[then][1] = Kin(code, Listed(code[s].then, k))
      /\ other \in 1..Len(blocks) /\ L[other][1] = Kin(code, Otherwise(code, s, k))
      /\ Own(Top) = {bb, then} /\ AllJump(code, s)
  BY <1>0, <1>1, IfEmitted
<1>3. PICK r, y, n : /\ r = Doing("statement", s, k) /\ y = Listed(code[s].then, k)
                     /\ n = Otherwise(code, s, k)
  OBVIOUS
<1>4. /\ r \in Rests(code) /\ y \in Rests(code) /\ n \in Rests(code) /\ Tests(code, r, s, y, n)
      /\ End(blocks, L, bb) = Kin(code, r) /\ L[then][1] = Kin(code, y) /\ L[other][1] = Kin(code, n)
  BY <1>2, <1>3
<1>5. \E Q : /\ Sim(code, Put(blocks, bb, CondBr(s, then, other)), L, Q)
             /\ Extends(blocks, L, Put(blocks, bb, CondBr(s, then, other)), L, {bb})
  BY <1>2, <1>4, SimTest
<1>6. PICK Q : Sim(code, blocks', L, Q) /\ Extends(blocks, L, blocks', L, {bb})
  BY <1>1, <1>5
<1>7. Base(L, K, D)
  <2>1. PICK T : T = {bb}
    OBVIOUS
  <2>2. T \subseteq {Cur(ip, value)} \cup Own(Top) /\ Extends(blocks, L, blocks', L, T)
    BY <1>2, <1>6, <2>1
  <2> QED
    BY <1>2, <2>2, LowerKept
<1>8. PutIs(blocks, bb, CondBr(s, then, other), blocks') /\ IsTerminator(CondBr(s, then, other))
  BY <1>1, <1>2, PutEach
<1>9. PICK w : w = Poison
  OBVIOUS
<1>10. w # Calling /\ Cur(ip', w) = bb /\ ~Open(blocks', bb) /\ Returns(w)
  BY <1>1, <1>8, <1>9 DEF Poison, Calling, Cur, PutIs, Open
<1>11. ~(Len(frames) > 1 /\ frames[Len(frames) - 1].emits = "if" /\ frames[Len(frames) - 1].other # 0
               /\ ~AllJump(code, frames[Len(frames) - 1].stmt))
  BY <1>0, <1>2, OnlyIfsJoin
<1> QED
  BY <1>1, <1>2, <1>6, <1>7, <1>10, <1>11, FollowsReturn

\* Without an else branch, they meet in a new block.
LEMMA BranchMeets ==
    ASSUME NEW c, NEW bs, BlocksOK(bs), NEW bb \in 1..Len(bs), NEW then \in 1..Len(bs), NEW s \in Nat,
           NEW L, NEW R, Sim(c, bs, L, R), NEW k, Branches(c, bs, L, bb, then, s, k),
           Otherwise(c, s, k) = k,
           NEW m, m = Len(bs) + 1, NEW created, created = Create(bs, 1),
           NEW tested, tested = Put(created, bb, CondBr(s, then, m)),
           NEW ps, ps = SafeBr(tested, then, m)
    PROVE  Meets(c, bs, L, ps, {bb, then}, m, k)
<1>1. CreateIs(bs, 1, created) /\ Len(bs) \in Nat
  BY CreateEnds DEF CreateIs
<1>2. /\ BlocksOK(created) /\ Len(created) = m /\ m \in 1..Len(created)
      /\ bb \in 1..Len(created) /\ then \in 1..Len(created) /\ bb # m /\ then # m
      /\ created[bb] = bs[bb] /\ created[then] = bs[then] /\ created[m] = <<>>
  BY <1>1 DEF CreateIs
<1>3. PICK E : E = [a \in {m} |-> Kin(c, k)]
  OBVIOUS
<1>4. CreateFollows(c, bs, L, created, R, 1, E)
  <2>1. PICK one \in Nat : one = 1
    OBVIOUS
  <2>2. CreateFollows(c, bs, L, created, R, one, E)
    BY <1>1, <2>1, SimCreate
  <2> QED
    BY <2>1, <2>2
<1>5. PICK M : /\ Sim(c, created, M, R) /\ Extends(bs, L, created, M, {})
               /\ \A a \in (Len(bs) + 1)..(Len(bs) + 1) : M[a][1] = E[a]
  BY <1>4 DEF CreateFollows
<1>6. M[m][1] = Kin(c, k)
  BY <1>1, <1>3, <1>5
<1>7. PICK r, y, n : /\ r = Doing("statement", s, k) /\ y = Listed(c[s].then, k)
                     /\ n = Otherwise(c, s, k)
  OBVIOUS
<1>8. /\ r \in Rests(c) /\ y \in Rests(c) /\ n \in Rests(c) /\ Tests(c, r, s, y, n) /\ n = k
      /\ End(bs, L, bb) = Kin(c, r) /\ L[then][1] = Kin(c, y) /\ Open(bs, bb)
      /\ Open(bs, then) => End(bs, L, then) = Kin(c, k)
      /\ bb # then
  BY <1>7 DEF Branches
<1>9. /\ End(created, M, bb) = Kin(c, r) /\ M[then][1] = Kin(c, y) /\ M[m][1] = Kin(c, n)
      /\ End(created, M, then) = End(bs, L, then) /\ Open(created, bb)
  BY <1>2, <1>5, <1>6, <1>8 DEF Extends, Open, Terminated
<1>10. \E Q : /\ Sim(c, Put(created, bb, CondBr(s, then, m)), M, Q)
              /\ Extends(created, M, Put(created, bb, CondBr(s, then, m)), M, {bb})
  BY <1>2, <1>5, <1>8, <1>9, SimTest
<1>11. PICK Q : Sim(c, tested, M, Q) /\ Extends(created, M, tested, M, {bb})
  BY <1>10
<1>12. PutIs(created, bb, CondBr(s, then, m), tested)
  BY <1>2, PutEach
<1>13. /\ BlocksOK(tested) /\ Len(tested) = m /\ tested[then] = bs[then] /\ tested[m] = <<>>
       /\ End(tested, M, then) = End(bs, L, then)
  BY <1>2, <1>8, <1>9, <1>11, <1>12 DEF PutIs, Extends
<1>14. /\ Open(tested, then) => End(tested, M, then) = M[m][1]
       /\ m # then /\ Open(tested, m) /\ then \in 1..Len(tested) /\ m \in 1..Len(tested)
  BY <1>2, <1>6, <1>8, <1>13 DEF Open, Terminated
<1>15. \E P : /\ Sim(c, SafeBr(tested, then, m), M, P)
              /\ Extends(tested, M, SafeBr(tested, then, m), M, {then})
  BY <1>11, <1>13, <1>14, SimSafeBr
<1>16. PICK P : Sim(c, ps, M, P) /\ Extends(tested, M, ps, M, {then})
  BY <1>15
<1>17. ps[m] = <<>>
  BY <1>2, <1>13, <1>14, <1>16 DEF Extends
<1>18. Extends(bs, L, tested, M, {} \cup {bb})
  BY <1>5, <1>11, ExtendsTrans
<1>19. Extends(bs, L, ps, M, ({} \cup {bb}) \cup {then})
  BY <1>16, <1>18, ExtendsTrans
<1>20. ({} \cup {bb}) \cup {then} = {bb, then}
  OBVIOUS
<1> QED
  BY <1>6, <1>16, <1>17, <1>19, <1>20 DEF Meets

\* With one, where the else branch has ended.
LEMMA BranchesMeet ==
    ASSUME NEW c, NEW bs, BlocksOK(bs), NEW bb \in 1..Len(bs), NEW then \in 1..Len(bs),
           NEW other \in 1..Len(bs), NEW m \in 1..Len(bs), NEW s \in Nat,
           NEW L, NEW R, Sim(c, bs, L, R), NEW k, Branches(c, bs, L, bb, then, s, k),
           L[other][1] = Kin(c, Otherwise(c, s, k)), Terminated(bs, other), Open(bs, then),
           m # bb, m # then, bs[m] = <<>>, L[m][1] = Kin(c, k),
           NEW tested, tested = Put(bs, bb, CondBr(s, then, other)),
           NEW joined, joined = SafeBr(tested, then, m),
           NEW ps, ps = SafeBr(joined, other, m)
    PROVE  Meets(c, bs, L, ps, {bb, then}, m, k)
<1>1. Len(bs) \in Nat
  BY DEF BlocksOK
<1>7. PICK r, y, n : /\ r = Doing("statement", s, k) /\ y = Listed(c[s].then, k)
                     /\ n = Otherwise(c, s, k)
  OBVIOUS
<1>8. /\ r \in Rests(c) /\ y \in Rests(c) /\ n \in Rests(c) /\ Tests(c, r, s, y, n)
      /\ End(bs, L, bb) = Kin(c, r) /\ L[then][1] = Kin(c, y) /\ Open(bs, bb) /\ L[other][1] = Kin(c, n)
      /\ End(bs, L, then) = Kin(c, k)
      /\ bb # then
  BY <1>7 DEF Branches
<1>10. \E Q : /\ Sim(c, Put(bs, bb, CondBr(s, then, other)), L, Q)
              /\ Extends(bs, L, Put(bs, bb, CondBr(s, then, other)), L, {bb})
  BY <1>8, SimTest
<1>11. PICK Q : Sim(c, tested, L, Q) /\ Extends(bs, L, tested, L, {bb})
  BY <1>10
<1>12. PutIs(bs, bb, CondBr(s, then, other), tested)
  BY PutEach
<1>13. /\ BlocksOK(tested) /\ Len(tested) = Len(bs) /\ tested[then] = bs[then] /\ tested[m] = <<>>
       /\ other # bb /\ other # then /\ tested[other] = bs[other]
       /\ End(tested, L, then) = End(bs, L, then)
  BY <1>8, <1>11, <1>12 DEF PutIs, Extends, Open
<1>14. /\ Open(tested, then) => End(tested, L, then) = L[m][1]
       /\ m # then /\ Open(tested, m) /\ then \in 1..Len(tested) /\ m \in 1..Len(tested)
  BY <1>8, <1>13 DEF Open, Terminated
<1>15. \E P : /\ Sim(c, SafeBr(tested, then, m), L, P)
              /\ Extends(tested, L, SafeBr(tested, then, m), L, {then})
  BY <1>11, <1>13, <1>14, SimSafeBr
<1>16. PICK P : Sim(c, joined, L, P) /\ Extends(tested, L, joined, L, {then})
  BY <1>15
<1>17. joined[m] = <<>> /\ joined[other] = bs[other]
  BY <1>13, <1>14, <1>16 DEF Extends
<1>18. ps = joined
  BY <1>17 DEF SafeBr, Terminated
<1>19. Extends(bs, L, joined, L, {bb} \cup {then})
  BY <1>11, <1>16, ExtendsTrans
<1>20. {bb} \cup {then} = {bb, then}
  OBVIOUS
<1> QED
  BY <1>16, <1>17, <1>18, <1>19, <1>20 DEF Meets

\* The branches of an if meet in front of what is behind it.
LEMMA EndIfFollows ==
    ASSUME Ready, GoodNow, EndIf, NEW L, NEW R, NEW K, NEW D, LabelledNow(L, R, K, D)
    PROVE  FollowsNext
<1>0. PICK k, bb, then, other, s, m :
         /\ k = K[Len(frames)] /\ bb = Top.bb /\ then = Top.then
         /\ other = Top.other /\ s = Top.stmt /\ m = MergeBlock
  OBVIOUS
<1>1. /\ BranchesEmitted /\ ip' = m /\ Returns(m) /\ loops' = loops
      /\ ~(other # 0 /\ Terminated(blocks, other) /\ Terminated(blocks, then))
      /\ m = IF ip # then THEN ip ELSE Len(blocks) + 1
  BY <1>0 DEF EndIf, BothTerminated, HasElse, MergeBlock
<1>2. /\ frames # <<>> /\ Top.emits = "if" /\ value # Calling /\ Top.emits \notin Loops
      /\ BlocksOK(blocks) /\ Len(blocks) \in Nat /\ ip \in 1..Len(blocks)
      /\ bb \in 1..Len(blocks) /\ then \in 1..Len(blocks) /\ s \in Nat
      /\ Sim(code, blocks, L, R)
      /\ other # 0 =>
           /\ other \in 1..Len(blocks) /\ L[other][1] = Kin(code, Otherwise(code, s, k))
           /\ Own(Top) = {bb, then} /\ ip \notin {bb, then}
           /\ Terminated(blocks, then) <=> AllJump(code, s)
           /\ ElseEmitted(code, blocks, ip, Top, value)
      /\ other = 0 => /\ Otherwise(code, s, k) = k /\ Own(Top) = {bb} /\ ip = then /\ value = ip
      /\ Open(blocks, Cur(ip, value)) => End(blocks, L, Cur(ip, value)) = Kin(code, k)
  BY <1>0, <1>1, IfEmitted
<1>3. /\ bb # then /\ Open(blocks, bb) /\ k \in Rests(code)
      /\ Tests(code, Doing("statement", s, k), s, Listed(code[s].then, k), Otherwise(code, s, k))
      /\ Doing("statement", s, k) \in Rests(code)
      /\ Listed(code[s].then, k) \in Rests(code) /\ Otherwise(code, s, k) \in Rests(code)
      /\ End(blocks, L, bb) = Kin(code, Doing("statement", s, k))
      /\ L[then][1] = Kin(code, Listed(code[s].then, k))
      /\ other # 0 => (Open(blocks, then) => End(blocks, L, then) = Kin(code, k))
  BY <1>0, <1>1, IfEmitted
<1>4. ASSUME Meets(code, blocks, L, blocks', {bb, then}, m, k),
              {bb, then} \subseteq {Cur(ip, value)} \cup Own(Top)
       PROVE  FollowsNext
  <2>1. PICK M, Q : /\ Sim(code, blocks', M, Q) /\ Extends(blocks, L, blocks', M, {bb, then})
                    /\ blocks'[m] = <<>> /\ M[m][1] = Kin(code, k)
    BY <1>4 DEF Meets
  <2>2. PICK T : T = {bb, then}
    OBVIOUS
  <2>3. T \subseteq {Cur(ip, value)} \cup Own(Top) /\ Extends(blocks, L, blocks', M, T)
    BY <1>4, <2>1, <2>2
  <2>4. Base(M, K, D)
    BY <1>2, <2>3, LowerKept
  <2>5. m \in Nat /\ m > 0
    BY <1>1, <1>2
  <2>6. m # Calling /\ Cur(ip', m) = m
    BY <2>5 DEF Calling, Cur
  <2>7. End(blocks', M, m) = M[m][1]
    BY <2>1 DEF End
  <2>8. Open(blocks', Cur(ip', m)) => End(blocks', M, Cur(ip', m)) = Kin(code, K[Len(frames)])
    BY <1>0, <2>1, <2>6, <2>7
  <2> QED
    BY <1>1, <1>2, <2>1, <2>4, <2>6, <2>8, FollowsReturn
<1>5. CASE other = 0
  <2>1. m = Len(blocks) + 1 /\ Cur(ip, value) = then
    BY <1>1, <1>2, <1>5 DEF Cur
  <2>2. Branches(code, blocks, L, bb, then, s, k)
    BY <1>2, <1>3, <2>1 DEF Branches
  <2>3. PICK created, tested, ps : /\ created = Create(blocks, 1)
                                   /\ tested = Put(created, bb, CondBr(s, then, m))
                                   /\ ps = SafeBr(tested, then, m)
    OBVIOUS
  <2>4. blocks' = ps
    BY <1>0, <1>2, <1>5, <2>3 DEF EndIf, HasElse
  <2>5. Meets(code, blocks, L, ps, {bb, then}, m, k)
    BY <1>2, <1>5, <2>1, <2>2, <2>3, BranchMeets
  <2>6. {bb, then} \subseteq {Cur(ip, value)} \cup Own(Top)
    BY <1>2, <1>5, <2>1
  <2> QED
    BY <2>4, <2>5, <2>6, <1>4
<1>6. CASE other # 0
  <2>1. /\ Terminated(blocks, other) /\ Open(blocks, then) /\ ~AllJump(code, s)
        /\ Open(blocks, ip) /\ value = ip /\ m = ip
    BY <1>0, <1>1, <1>2, <1>6 DEF ElseEmitted, Open
  <2>2. Branches(code, blocks, L, bb, then, s, k)
    BY <1>3, <1>6 DEF Branches
  <2>3. blocks[m] = <<>> /\ L[m][1] = Kin(code, k)
    <3>1. blocks[ip] = <<>>
      BY <1>0, <1>2, <1>6, <2>1, TopNow DEF LabelledNow, Labelled, Joins
    <3>2. Cur(ip, value) = ip
      BY <2>1 DEF Cur
    <3>3. End(blocks, L, ip) = L[ip][1]
      BY <3>1 DEF End
    <3> QED
      BY <1>2, <2>1, <3>1, <3>2, <3>3
  <2>4. PICK tested, joined, ps : /\ tested = Put(blocks, bb, CondBr(s, then, other))
                                  /\ joined = SafeBr(tested, then, m)
                                  /\ ps = SafeBr(joined, other, m)
    OBVIOUS
  <2>5. blocks' = ps
    <3>1. ip # Top.then
      BY <1>0, <1>2, <1>6
    <3> QED
      BY <1>0, <1>6, <2>4, <3>1 DEF EndIf, HasElse
  <2>6. m \in 1..Len(blocks) /\ m # bb /\ m # then
    BY <1>2, <1>6, <2>1
  <2>7. Meets(code, blocks, L, ps, {bb, then}, m, k)
    BY <1>2, <1>6, <2>1, <2>2, <2>3, <2>4, <2>6, BranchesMeet
  <2>8. {bb, then} \subseteq {Cur(ip, value)} \cup Own(Top)
    BY <1>2, <1>6
  <2> QED
    BY <2>5, <2>7, <2>8, <1>4
<1> QED
  BY <1>5, <1>6

\* The blocks of a for loop when its body has ended in block p.
LEMMA UpdateFollows ==
    ASSUME NEW c, NEW bs, BlocksOK(bs), NEW p \in 1..Len(bs), NEW update \in 1..Len(bs),
           NEW bb \in 1..Len(bs),
           NEW s \in Nat, NEW L, NEW R, Sim(c, bs, L, R), Open(bs, p), p # update, bs[update] = <<>>,
           Busy(bs, bb), NEW r \in Rests(c), NEW q \in Rests(c), Acts(c, r, "update", s, q),
           End(bs, L, p) = Kin(c, r), L[update][1] = Kin(c, r), L[bb][1] = Kin(c, q),
           NEW ended, ended = Put(bs, p, Br(update)),
           NEW updated, updated = Put(ended, update, IterUpdate(s)),
           NEW ps, ps = Put(updated, update, Br(bb))
    PROVE  \E M, Q : Sim(c, ps, M, Q) /\ Extends(bs, L, ps, M, {p, update})
<1>1. Open(bs, update) /\ Len(bs) \in Nat
  BY DEF Open, Terminated, BlocksOK
<1>2. \E Q : Sim(c, Put(bs, p, Br(update)), L, Q) /\ Extends(bs, L, Put(bs, p, Br(update)), L, {p})
  BY <1>1, SimBr
<1>3. PICK Q : Sim(c, ended, L, Q) /\ Extends(bs, L, ended, L, {p})
  BY <1>2
<1>4. PutIs(bs, p, Br(update), ended)
  BY PutEach
<1>5. /\ BlocksOK(ended) /\ Len(ended) = Len(bs) /\ ended[update] = <<>> /\ Busy(ended, bb)
      /\ End(ended, L, update) = Kin(c, r)
  BY <1>3, <1>4 DEF PutIs, Extends, End
<1>6. Open(ended, update) /\ update \in 1..Len(ended)
  BY <1>5 DEF Open, Terminated
<1>7. PICK in : in = IterUpdate(s)
  OBVIOUS
<1>8. PutIs(ended, update, in, updated) /\ ~IsTerminator(in)
  BY <1>5, <1>6, <1>7, PutEach
<1>9. in \in Instruction /\ in.op = "update" /\ in.stmt = s
  BY <1>7, InstructionTypes
<1>10. in.op \in {"do", "init", "update"} /\ Acts(c, r, in.op, in.stmt, q)
  BY <1>9
<1>11. PutFollows(c, ended, L, updated, Q, update, q)
  BY <1>3, <1>5, <1>6, <1>8, <1>9, <1>10, SimPut
<1>12. PICK M : /\ Sim(c, updated, M, Q) /\ Extends(ended, L, updated, M, {update})
                /\ End(updated, M, update) = Kin(c, q)
  BY <1>11 DEF PutFollows
<1>13. /\ BlocksOK(updated) /\ Len(updated) = Len(bs) /\ Open(updated, update) /\ Busy(updated, bb)
       /\ End(updated, M, update) = M[bb][1]
  BY <1>5, <1>8, <1>12 DEF PutIs, Extends, Open
<1>14. update \in 1..Len(updated) /\ bb \in 1..Len(updated)
  BY <1>13
<1>15. \E P : /\ Sim(c, Put(updated, update, Br(bb)), M, P)
              /\ Extends(updated, M, Put(updated, update, Br(bb)), M, {update})
  BY <1>12, <1>13, <1>14, SimBr
<1>16. PICK P : Sim(c, ps, M, P) /\ Extends(updated, M, ps, M, {update})
  BY <1>15
<1>17. Extends(bs, L, updated, M, {p} \cup {update})
  BY <1>3, <1>12, ExtendsTrans
<1>18. Extends(bs, L, ps, M, ({p} \cup {update}) \cup {update})
  BY <1>16, <1>17, ExtendsTrans
<1>19. ({p} \cup {update}) \cup {update} = {p, update}
  OBVIOUS
<1> QED
  BY <1>16, <1>18, <1>19

\* The end of a for loop leads to its update and back to the test.
LEMMA EndForFollows ==
    ASSUME Ready, GoodNow, Sound(blocks'), EndFor, NEW L, NEW R, NEW K, NEW D, LabelledNow(L, R, K, D)
    PROVE  FollowsNext
<1>0. PICK k, bb, update, other, s :
         /\ k = K[Len(frames)] /\ bb = Top.bb /\ update = Top.then /\ other = Top.other /\ s = Top.stmt
  OBVIOUS
<1>1. /\ frames # <<>> /\ Top.emits = "for" /\ value # Calling /\ ip' = update /\ Returns(other)
      /\ loops' = SubSeq(loops, 1, Len(loops) - 1)
      /\ blocks' = Put(Put(Put(blocks, ip, Br(update)), update, IterUpdate(s)), update, Br(bb))
  BY <1>0 DEF EndFor, Resumes
<1>2. /\ BlocksOK(blocks) /\ ip \in 1..Len(blocks) /\ Len(blocks) \in Nat
      /\ FrameOK(code, blocks, Top) /\ ip \notin Own(Top)
      /\ TopOK(code, blocks, ip, Top, value, Live(code, frames))
  BY <1>1, TopNow
<1>3. /\ Top \in FrameType(code) /\ Fits(code, Top, Len(blocks)) /\ CodeOK(code)
      /\ bb \in 1..Len(blocks) /\ s \in 1..Len(code) /\ s \in Nat
  BY <1>0, <1>1, TopFacts DEF Ready, Top
<1>4. /\ other \in 1..Len(blocks) /\ update \in 1..Len(blocks) /\ other # ip /\ update # ip
      /\ blocks[other] = <<>> /\ blocks[update] = <<>> /\ other # update /\ Own(Top) = {update, other}
  BY <1>0, <1>1, <1>2, <1>3 DEF Fits, Loops, FrameOK, Own
<1>5. Open(blocks, ip)
  BY <1>0, EndForIs DEF ForIs, Open
<1>6. Cur(ip, value) = ip
  BY <1>1, <1>2 DEF TopOK, BodyEmitted, Loops, Cur
<1>7. /\ k \in Rests(code) /\ Sim(code, blocks, L, R) /\ CallRuns(code, blocks, L, Top, k)
      /\ End(blocks, L, ip) = Kin(code, Behind(Top, k))
  BY <1>0, <1>1, <1>5, <1>6, TopLabels
<1>8. /\ code[s].kind = "for" /\ Busy(blocks, bb)
      /\ L[bb][1] = Kin(code, Doing("test", s, k)) /\ L[other][1] = Kin(code, k)
      /\ L[update][1] = Kin(code, Doing("again", s, k))
  BY <1>0, <1>1, <1>7 DEF CallRuns
<1>9. PICK r, q : r = Doing("again", s, k) /\ q = Doing("test", s, k)
  OBVIOUS
<1>10. Acts(code, r, "update", s, q)
  BY <1>3, <1>7, <1>8, <1>9, ForActs
<1>11. r \in Rests(code) /\ q \in Rests(code)
  BY <1>3, <1>7, <1>9, DoingFirst DEF DoingIs
<1>12. End(blocks, L, ip) = Kin(code, r)
  BY <1>0, <1>1, <1>7, <1>9 DEF Behind
<1>13. PICK ended, updated, ps : /\ ended = Put(blocks, ip, Br(update))
                                 /\ updated = Put(ended, update, IterUpdate(s))
                                 /\ ps = Put(updated, update, Br(bb))
  OBVIOUS
<1>14. \E M, Q : Sim(code, ps, M, Q) /\ Extends(blocks, L, ps, M, {ip, update})
  <2>1. L[update][1] = Kin(code, r) /\ L[bb][1] = Kin(code, q)
    BY <1>8, <1>9
  <2> QED
    BY <1>2, <1>3, <1>4, <1>5, <1>7, <1>8, <1>10, <1>11, <1>12, <1>13, <2>1, UpdateFollows
<1>15. PICK M, Q : Sim(code, blocks', M, Q) /\ Extends(blocks, L, blocks', M, {ip, update})
  BY <1>1, <1>13, <1>14
<1>16. Base(M, K, D)
  <2>1. PICK T : T = {ip, update}
    OBVIOUS
  <2>2. T \subseteq {Cur(ip, value)} \cup Own(Top) /\ Extends(blocks, L, blocks', M, T)
    BY <1>4, <1>6, <1>15, <2>1
  <2> QED
    BY <1>1, <2>2, LowerKept
<1>17. other # Calling /\ Cur(ip', other) = other
  BY <1>2, <1>4 DEF Calling, Cur
<1>18. End(blocks', M, other) = Kin(code, k)
  <2>1. End(blocks', M, other) = End(blocks, L, other)
    BY <1>4, <1>15 DEF Extends
  <2>2. End(blocks, L, other) = L[other][1]
    BY <1>4 DEF End
  <2> QED
    BY <1>8, <2>1, <2>2
<1>19. ~(Len(frames) > 1 /\ frames[Len(frames) - 1].emits = "if" /\ frames[Len(frames) - 1].other # 0
               /\ ~AllJump(code, frames[Len(frames) - 1].stmt))
  BY <1>1, OnlyIfsJoin
<1>20. loops' = IF Top.emits \in Loops THEN SubSeq(loops, 1, Len(loops) - 1) ELSE loops
  BY <1>1 DEF Loops
<1>21. Open(blocks', Cur(ip', other)) => End(blocks', M, Cur(ip', other)) = Kin(code, K[Len(frames)])
  BY <1>0, <1>17, <1>18
<1> QED
  BY <1>1, <1>15, <1>16, <1>17, <1>19, <1>20, <1>21, FollowsReturn

\* The function is as it should be after the step as well.
GoodNext == Good(code, Excused, blocks', ip', frames', value')

\* A call made at block ip, which goes on with what the statement of the block does.
LEMMA CallFollows ==
    ASSUME Ready, GoodNow, GoodNext, NEW kinds, AtNode(kinds),
           NEW L, NEW R, NEW K, NEW D, LabelledNow(L, R, K, D),
           NEW g \in FrameType(code), g.emits \in {"block", "if"},
           frames' = Under \o <<Top, g>>, blocks' = blocks, loops' = loops, ip' = ip, value' = Calling,
           g.emits = "if" => g.bb = ip /\ g.then = 0 /\ g.other = 0,
           Kin(code, Doing("statement", Node, K[Len(frames) + 1]))
             = Kin(code, Whole(g, K[Len(frames) + 1]))
    PROVE  FollowsNext
<1>1. /\ frames # <<>> /\ Top.emits = "block" /\ Top \in FrameType(code)
  BY AtNodeNow
<1>2. /\ frames \in Seq(FrameType(code)) /\ Len(frames) \in Nat \ {0} /\ Len(blocks) \in Nat
  BY <1>1, TopNow
<1>3. BecameTwo(FrameType(code), frames, Top, g, frames')
  BY <1>1, <1>2, TopBecomesTwo DEF Under
<1>4. PICK k1, k2 : k1 = K[Len(frames)] /\ k2 = Behind(Top, k1)
  OBVIOUS
<1>5. K[Len(frames) + 1] = k2 /\ Sim(code, blocks, L, R)
  BY <1>1, <1>4, TopLabels
<1>6. Open(blocks, ip) => End(blocks, L, ip) = Kin(code, Whole(g, k2))
  BY <1>5, NodeLabels
<1>7. CallRuns(code, blocks', L, Top, k1)
  BY <1>1 DEF CallRuns
<1>8. CallRuns(code, blocks', L, g, k2)
  <2>1. CASE g.emits = "block"
    BY <2>1 DEF CallRuns
  <2>2. CASE g.emits = "if"
    <3>1. frames'[Len(frames) + 1] = g /\ Len(frames') = Len(frames) + 1
      BY <1>3 DEF BecameTwo
    <3>2. FrameOK(code, blocks', frames'[Len(frames')])
      <4>1. Len(frames') \in 1..Len(frames')
        BY <1>2, <3>1
      <4> QED
        BY <4>1 DEF GoodNext, Good, CallsOK
    <3>3. Open(blocks, ip)
      BY <2>2, <3>1, <3>2 DEF FrameOK
    <3>4. Whole(g, k2) = Doing("statement", g.stmt, k2)
      BY <2>2 DEF Whole
    <3> QED
      BY <1>6, <2>2, <3>3, <3>4 DEF CallRuns
  <2> QED
    BY <2>1, <2>2
<1>9. Base(L, K, D)
  <2>1. PICK T : T = {}
    OBVIOUS
  <2>2. T \subseteq {Cur(ip, value)} \cup Own(Top) /\ Extends(blocks, L, blocks', L, T)
    BY <1>2, <2>1, ExtendsSame
  <2> QED
    BY <1>1, <2>2, LowerKept
<1>10. Top.emits \notin Loops /\ g.emits \notin Loops
  BY <1>1 DEF Loops
<1> QED
  BY <1>1, <1>3, <1>4, <1>5, <1>6, <1>7, <1>8, <1>9, <1>10, FollowsTwo

\* An if, ...
LEMMA IfFollows ==
    ASSUME Ready, GoodNow, GoodNext, EmitIf, NEW L, NEW R, NEW K, NEW D, LabelledNow(L, R, K, D)
    PROVE  FollowsNext
<1>1. PICK g : g = IfEmitter(Node, ip)
  OBVIOUS
<1>2. /\ AtNode({"if"}) /\ frames' = Under \o <<Top, g>> /\ blocks' = blocks /\ loops' = loops
      /\ ip' = ip /\ value' = value
  BY <1>1 DEF EmitIf, TopBecomes
<1>3. /\ value = Calling /\ frames # <<>> /\ Node \in 1..Len(code) /\ CodeOK(code)
  BY <1>2, AtNodeNow
<1>4. Len(blocks) \in Nat /\ ip \in 1..Len(blocks)
  BY <1>3, TopNow
<1>5. g \in FrameType(code)
  BY <1>1, <1>3, <1>4, EmitterTypes
<1>6. g.emits = "if" /\ g.bb = ip /\ g.then = 0 /\ g.other = 0 /\ g.stmt = Node
  BY <1>1 DEF IfEmitter, Emitter
<1>7. Whole(g, K[Len(frames) + 1]) = Doing("statement", Node, K[Len(frames) + 1])
  BY <1>6 DEF Whole
<1> QED
  BY <1>2, <1>3, <1>5, <1>6, <1>7, CallFollows

\* The emitter of the branch behind `else' does what the source does there.
LEMMA ElseDoes ==
    ASSUME CodeOK(code), NEW n \in Nat, NEW bb \in 1..n, NEW s \in 1..Len(code), code[s].else # "none",
           NEW g, g = ElseCall(s, bb), NEW k \in Rests(code)
    PROVE  /\ g \in FrameType(code) /\ g.emits \in {"block", "if"} /\ Whole(g, k) = Otherwise(code, s, k)
           /\ g.emits = "if" => g.bb = bb /\ g.then = 0 /\ g.other = 0
<1>1. /\ g \in FrameType(code) /\ g.bb = bb
      /\ \/ code[s].else = "block" /\ g.emits = "block" /\ g.nodes = code[s].other
         \/ /\ code[s].else = "if" /\ g.emits = "if" /\ g.stmt = code[s].other[1]
            /\ g.then = 0 /\ g.other = 0
  BY ElseCallIs
<1>2. /\ code[s].else # "none" => Otherwise(code, s, k) = Listed(code[s].other, k)
      /\ code[s].else = "if" => Otherwise(code, s, k) = Doing("statement", code[s].other[1], k)
  BY OtherwiseIs
<1> QED
  BY <1>1, <1>2 DEF Whole

\* ... and one that is decided at compile time: its branch in its place.
LEMMA CompIfFollows ==
    ASSUME Ready, GoodNow, GoodNext, EmitCompIf, NEW L, NEW R, NEW K, NEW D, LabelledNow(L, R, K, D)
    PROVE  FollowsNext
<1>1. /\ AtNode({"compif"}) /\ blocks' = blocks /\ loops' = loops /\ ip' = ip
  BY DEF EmitCompIf
<1>2. /\ frames # <<>> /\ Top.emits = "block" /\ value = Calling /\ Node \in 1..Len(code) /\ CodeOK(code)
      /\ code[Node].kind = "compif"
  BY <1>1, AtNodeNow
<1>3. Len(blocks) \in Nat /\ ip \in 1..Len(blocks)
  BY <1>2, TopNow
<1>4. PICK q, s : q = K[Len(frames) + 1] /\ s = Node
  OBVIOUS
<1>5. q \in Rests(code) /\ Sim(code, blocks, L, R)
  BY <1>2, <1>4, TopLabels
<1>6. Kin(code, Doing("statement", s, q)) =
             IF code[s].holds THEN Kin(code, Listed(code[s].then, q))
             ELSE Kin(code, Otherwise(code, s, q))
  BY <1>2, <1>4, <1>5, CompIfMoves
<1>7. CASE code[s].holds /\ frames' = Under \o <<Top, BlockEmitter(code[s].then, ip)>> /\ value' = value
  <2>1. PICK g : g = BlockEmitter(code[s].then, ip)
    OBVIOUS
  <2>2. code[s].then \in Seq(1..Len(code))
    BY <1>2, <1>4, StatementFacts
  <2>3. g \in FrameType(code)
    BY <1>2, <1>3, <2>1, <2>2, EmitterTypes
  <2>4. g.emits = "block" /\ g.nodes = code[s].then
    BY <2>1 DEF BlockEmitter
  <2>5. Kin(code, Doing("statement", Node, q)) = Kin(code, Whole(g, q))
    BY <1>4, <1>6, <1>7, <2>4 DEF Whole
  <2> QED
    BY <1>1, <1>2, <1>4, <1>7, <2>1, <2>3, <2>4, <2>5, CallFollows
<1>8. CASE /\ ~code[s].holds /\ code[s].else # "none" /\ frames' = Under \o <<Top, ElseCall(s, ip)>>
           /\ value' = value
  <2>1. PICK g : g = ElseCall(s, ip)
    OBVIOUS
  <2>2. /\ g \in FrameType(code) /\ g.emits \in {"block", "if"} /\ Whole(g, q) = Otherwise(code, s, q)
        /\ g.emits = "if" => g.bb = ip /\ g.then = 0 /\ g.other = 0
    <3>1. PICK n, bb : n = Len(blocks) /\ bb = ip
      OBVIOUS
    <3>2. /\ n \in Nat /\ bb \in 1..n /\ s \in 1..Len(code) /\ code[s].else # "none"
          /\ g = ElseCall(s, bb)
          /\ CodeOK(code) /\ q \in Rests(code)
      BY <1>2, <1>3, <1>4, <1>5, <1>8, <2>1, <3>1
    <3>3. /\ g \in FrameType(code) /\ g.emits \in {"block", "if"} /\ Whole(g, q) = Otherwise(code, s, q)
          /\ g.emits = "if" => g.bb = bb /\ g.then = 0 /\ g.other = 0
      BY <3>2, ElseDoes
    <3> QED
      BY <3>1, <3>3
  <2>3. Kin(code, Doing("statement", Node, q)) = Kin(code, Whole(g, q))
    BY <1>4, <1>6, <1>8, <2>2
  <2> QED
    BY <1>1, <1>2, <1>4, <1>8, <2>1, <2>2, <2>3, CallFollows
<1>9. CASE ~code[s].holds /\ code[s].else = "none" /\ frames' = frames /\ value' = Other
  <2>1. Otherwise(code, s, q) = q
    BY <1>2, <1>4, <1>5, <1>9, OtherwiseIs
  <2>2. Open(blocks, ip) => End(blocks, L, ip) = Kin(code, Doing("statement", s, q))
    BY <1>1, <1>4, NodeLabels
  <2>3. Open(blocks', ip) => End(blocks', L, ip) = Kin(code, q)
    BY <1>1, <1>6, <1>9, <2>1, <2>2
  <2>4. Sim(code, blocks', L, R) /\ Extends(blocks, L, blocks', L, {ip})
    BY <1>1, <1>3, <1>5, ExtendsSame
  <2> QED
    BY <1>1, <1>4, <1>9, <2>3, <2>4, LeafFollows
<1> QED
  BY <1>4, <1>7, <1>8, <1>9 DEF EmitCompIf, TopBecomes

\* The call f runs on if its new block does what the call g does.
RunsOn(L, f, g, new, k) ==
    \A M : Extends(blocks, L, blocks', M, {}) /\ M[new][1] = Kin(code, Whole(g, k)) =>
              CallRuns(code, blocks', M, f, k)

\* A branch begins in a new block.
LEMMA BranchFollows ==
    ASSUME Ready, GoodNow, frames # <<>>, Top.emits = "if", NEW L, NEW R, NEW K, NEW D,
           LabelledNow(L, R, K, D), NEW k, k = K[Len(frames)], NEW new, new = Len(blocks) + 1,
           blocks' = Create(blocks, 1), ip' = new, value' = Calling, loops' = loops,
           NEW f \in FrameType(code), NEW g \in FrameType(code), f.emits = "if",
           g.emits \in {"block", "if"},
           frames' = Under \o <<f, g>>,
           g.emits = "if" => g.bb = new /\ g.then = 0 /\ g.other = 0,
           RunsOn(L, f, g, new, k)
    PROVE  FollowsNext
<1>1. /\ frames \in Seq(FrameType(code)) /\ Len(frames) \in Nat \ {0} /\ Len(blocks) \in Nat
      /\ BlocksOK(blocks)
  BY TopNow
<1>2. BecameTwo(FrameType(code), frames, f, g, frames')
  BY <1>1, TopBecomesTwo DEF Under
<1>3. PICK ps : ps = blocks'
  OBVIOUS
<1>4. CreateIs(blocks, 1, ps)
  BY <1>1, <1>3, CreateEnds
<1>5. PICK E : E = [a \in {new} |-> Kin(code, Whole(g, k))]
  OBVIOUS
<1>6. Sim(code, blocks, L, R)
  BY TopLabels
<1>7. CreateFollows(code, blocks, L, ps, R, 1, E)
  <2>1. PICK one \in Nat : one = 1
    OBVIOUS
  <2>2. CreateFollows(code, blocks, L, ps, R, one, E)
    BY <1>1, <1>4, <1>6, <2>1, SimCreate
  <2> QED
    BY <2>1, <2>2
<1>8. PICK M : /\ Sim(code, blocks', M, R) /\ Extends(blocks, L, blocks', M, {})
               /\ \A a \in (Len(blocks) + 1)..(Len(blocks) + 1) : M[a][1] = E[a]
  BY <1>3, <1>7 DEF CreateFollows
<1>9. M[new][1] = Kin(code, Whole(g, k)) /\ blocks'[new] = <<>>
  BY <1>1, <1>3, <1>4, <1>5, <1>8 DEF CreateIs
<1>10. End(blocks', M, new) = Kin(code, Whole(g, k))
  BY <1>9 DEF End
<1>11. CallRuns(code, blocks', M, f, k)
  BY <1>8, <1>9 DEF RunsOn
<1>12. Behind(f, k) = k
  BY DEF Behind
<1>13. CallRuns(code, blocks', M, g, k)
  BY <1>10 DEF CallRuns, Whole
<1>14. Base(M, K, D)
  <2>1. PICK T : T = {}
    OBVIOUS
  <2>2. T \subseteq {Cur(ip, value)} \cup Own(Top) /\ Extends(blocks, L, blocks', M, T)
    BY <1>8, <2>1
  <2> QED
    BY <2>2, LowerKept
<1>15. Top.emits \notin Loops /\ g.emits \notin Loops /\ f.emits \notin Loops
  BY DEF Loops
<1>16. PICK k2 : k2 = Behind(f, k)
  OBVIOUS
<1>17. CallRuns(code, blocks', M, g, k2) /\ End(blocks', M, ip') = Kin(code, Whole(g, k2))
  BY <1>10, <1>12, <1>13, <1>16
<1> QED
  BY <1>2, <1>8, <1>11, <1>14, <1>15, <1>16, <1>17, FollowsTwo

\* The body of an if runs when the condition holds, ...
LEMMA ThenFollows ==
    ASSUME Ready, GoodNow, EmitThen, NEW L, NEW R, NEW K, NEW D, LabelledNow(L, R, K, D)
    PROVE  FollowsNext
<1>0. PICK k, new, s : k = K[Len(frames)] /\ new = Len(blocks) + 1 /\ s = Top.stmt
  OBVIOUS
<1>1. PICK f, g : f = [Top EXCEPT !.then = new] /\ g = BlockEmitter(code[s].then, new)
  OBVIOUS
<1>2. /\ frames # <<>> /\ Top.emits = "if" /\ value = Calling
      /\ frames' = Under \o <<f, g>> /\ blocks' = Create(blocks, 1) /\ ip' = new /\ loops' = loops
      /\ value' = value
  BY <1>0, <1>1 DEF EmitThen, GoesOn, TopBecomes
<1>3. /\ Len(blocks) \in Nat /\ ip \in 1..Len(blocks) /\ FrameOK(code, blocks, Top)
      /\ TopOK(code, blocks, ip, Top, value, Live(code, frames))
  BY <1>2, TopNow
<1>4. /\ Top \in FrameType(code) /\ CodeOK(code) /\ s \in 1..Len(code) /\ Top.bb \in 1..Len(blocks)
  BY <1>0, <1>2, TopFacts DEF Ready, Top
<1>5. /\ Top.then = 0 /\ Top.other = 0 /\ ip = Top.bb /\ Open(blocks, ip)
  BY <1>2, <1>3 DEF TopOK, AtStart, FrameOK
<1>6. SameCall(code, Top, f, new, Top.other)
  <2>1. new \in Nat
    BY <1>0, <1>3
  <2>2. SameCall(code, Top, [Top EXCEPT !.then = new], new, Top.other)
    BY <1>4, <2>1, BranchNamed
  <2> QED
    BY <1>1, <2>2
<1>7. /\ f \in FrameType(code) /\ f.emits = "if" /\ f.stmt = s /\ f.bb = ip /\ f.then = new
      /\ f.other = 0
  BY <1>0, <1>2, <1>5, <1>6 DEF SameCall
<1>8. code[s].then \in Seq(1..Len(code))
  BY <1>4, StatementFacts
<1>9. g \in FrameType(code) /\ g.emits = "block" /\ g.nodes = code[s].then
  <2>1. PICK n : n = Len(blocks) + 1
    OBVIOUS
  <2>2. n \in Nat /\ new \in 1..n
    BY <1>0, <1>3, <2>1
  <2>3. g \in FrameType(code)
    BY <1>1, <1>4, <1>8, <2>2, EmitterTypes
  <2> QED
    BY <1>1, <2>3 DEF BlockEmitter
<1>10. End(blocks, L, ip) = Kin(code, Doing("statement", s, k))
  <2>1. End(blocks, L, ip) = Kin(code, Whole(Top, k))
    BY <1>0, <1>2, <1>5, TopLabels
  <2> QED
    BY <1>0, <1>2, <2>1 DEF Whole
<1>11. ASSUME NEW M, Extends(blocks, L, blocks', M, {}), M[new][1] = Kin(code, Whole(g, k))
       PROVE  CallRuns(code, blocks', M, f, k)
  <2>1. End(blocks', M, ip) = End(blocks, L, ip)
    BY <1>3, <1>11 DEF Extends
  <2>2. Whole(g, k) = Listed(code[s].then, k)
    BY <1>9 DEF Whole
  <2> QED
    BY <1>7, <1>10, <1>11, <2>1, <2>2 DEF CallRuns
<1>12. RunsOn(L, f, g, new, k)
  BY <1>11 DEF RunsOn
<1> QED
  BY <1>0, <1>2, <1>7, <1>9, <1>12, BranchFollows

\* ... and the else branch when it does not.
LEMMA ElseFollows ==
    ASSUME Ready, GoodNow, EmitElse, NEW L, NEW R, NEW K, NEW D, LabelledNow(L, R, K, D)
    PROVE  FollowsNext
<1>0. PICK k, new, s : k = K[Len(frames)] /\ new = Len(blocks) + 1 /\ s = Top.stmt
  OBVIOUS
<1>1. PICK f, g : f = [Top EXCEPT !.other = new] /\ g = ElseCall(s, new)
  OBVIOUS
<1>2. /\ frames # <<>> /\ Top.emits = "if" /\ value # Calling /\ code[s].else # "none" /\ Top.other = 0
      /\ frames' = Under \o <<f, g>> /\ blocks' = Create(blocks, 1) /\ ip' = new /\ loops' = loops
      /\ value' = Calling
  BY <1>0, <1>1 DEF EmitElse, Resumes, TopBecomes
<1>3. /\ Len(blocks) \in Nat /\ ip \in 1..Len(blocks) /\ FrameOK(code, blocks, Top)
      /\ TopOK(code, blocks, ip, Top, value, Live(code, frames))
  BY <1>2, TopNow
<1>4. /\ Top \in FrameType(code) /\ CodeOK(code) /\ s \in 1..Len(code) /\ Top.bb \in 1..Len(blocks)
      /\ Top.then \in 0..Len(blocks)
  BY <1>0, <1>2, TopFacts DEF Ready, Top
<1>5. /\ ip = Top.then /\ value = ip /\ Cur(ip, value) = ip
  BY <1>2, <1>3 DEF TopOK, ThenEmitted, Cur
<1>6. SameCall(code, Top, f, Top.then, new)
  <2>1. new \in Nat
    BY <1>0, <1>3
  <2>2. SameCall(code, Top, [Top EXCEPT !.other = new], Top.then, new)
    BY <1>4, <2>1, BranchNamed
  <2> QED
    BY <1>1, <2>2
<1>7. /\ f \in FrameType(code) /\ f.emits = "if" /\ f.stmt = s /\ f.bb = Top.bb /\ f.then = ip
      /\ f.other = new
  BY <1>0, <1>2, <1>5, <1>6 DEF SameCall
<1>8. /\ k \in Rests(code) /\ CallRuns(code, blocks, L, Top, k)
      /\ Open(blocks, ip) => End(blocks, L, ip) = Kin(code, Behind(Top, k))
  BY <1>0, <1>2, <1>5, TopLabels
<1>9. /\ g \in FrameType(code) /\ g.emits \in {"block", "if"} /\ Whole(g, k) = Otherwise(code, s, k)
      /\ g.emits = "if" => g.bb = new /\ g.then = 0 /\ g.other = 0
  <2>1. PICK n : n = Len(blocks) + 1
    OBVIOUS
  <2>2. n \in Nat /\ new \in 1..n
    BY <1>0, <1>3, <2>1
  <2> QED
    BY <1>1, <1>2, <1>4, <1>8, <2>2, ElseDoes
<1>10. /\ Open(blocks, ip) => End(blocks, L, ip) = Kin(code, k)
       /\ End(blocks, L, Top.bb) = Kin(code, Doing("statement", s, k))
       /\ L[ip][1] = Kin(code, Listed(code[s].then, k))
  <2>1. Behind(Top, k) = k
    BY <1>2 DEF Behind
  <2>2. Top.then # 0
    BY <1>3, <1>5
  <2> QED
    BY <1>0, <1>2, <1>5, <1>8, <2>1, <2>2 DEF CallRuns
<1>11. ASSUME NEW M, Extends(blocks, L, blocks', M, {}), M[new][1] = Kin(code, Whole(g, k))
       PROVE  CallRuns(code, blocks', M, f, k)
  <2>1. /\ End(blocks', M, ip) = End(blocks, L, ip) /\ blocks'[ip] = blocks[ip] /\ M[ip][1] = L[ip][1]
        /\ End(blocks', M, Top.bb) = End(blocks, L, Top.bb)
    BY <1>3, <1>4, <1>11 DEF Extends
  <2>2. Open(blocks', ip) => Open(blocks, ip)
    BY <2>1 DEF Open, Terminated
  <2> QED
    BY <1>7, <1>9, <1>10, <1>11, <2>1, <2>2 DEF CallRuns
<1>12. RunsOn(L, f, g, new, k)
  BY <1>11 DEF RunsOn
<1> QED
  BY <1>0, <1>2, <1>7, <1>9, <1>12, BranchFollows

\* A loop is entered at block p, and tests in block before.
LEMMA LoopTested ==
    ASSUME NEW c, NEW bs, BlocksOK(bs), NEW p \in 1..Len(bs), NEW before \in 1..Len(bs),
           NEW then \in 1..Len(bs), NEW merge \in 1..Len(bs), p # before, bs[before] = <<>>,
           NEW s \in Nat, NEW L, NEW R, Sim(c, bs, L, R), Open(bs, p), End(bs, L, p) = L[before][1],
           NEW r \in Rests(c), NEW y \in Rests(c), NEW n \in Rests(c), Tests(c, r, s, y, n),
           L[before][1] = Kin(c, r), L[then][1] = Kin(c, y), L[merge][1] = Kin(c, n),
           NEW entered, entered = Put(bs, p, Br(before)),
           NEW ps, ps = Put(entered, before, CondBr(s, then, merge))
    PROVE  LoopRuns(c, bs, L, ps, p, before)
<1>1. Len(bs) \in Nat /\ Open(bs, before)
  BY DEF BlocksOK, Open, Terminated
<1>2. \E Q : Sim(c, Put(bs, p, Br(before)), L, Q) /\ Extends(bs, L, Put(bs, p, Br(before)), L, {p})
  BY <1>1, SimBr
<1>3. PICK Q : Sim(c, entered, L, Q) /\ Extends(bs, L, entered, L, {p})
  BY <1>2
<1>4. PutIs(bs, p, Br(before), entered)
  BY PutEach
<1>5. /\ BlocksOK(entered) /\ Len(entered) = Len(bs) /\ entered[before] = <<>>
      /\ Open(entered, before) /\ End(entered, L, before) = Kin(c, r)
  BY <1>4 DEF PutIs, Open, Terminated, End
<1>6. before \in 1..Len(entered) /\ then \in 1..Len(entered) /\ merge \in 1..Len(entered)
  BY <1>5
<1>7. \E P : /\ Sim(c, Put(entered, before, CondBr(s, then, merge)), L, P)
             /\ Extends(entered, L, Put(entered, before, CondBr(s, then, merge)), L, {before})
  BY <1>3, <1>5, <1>6, SimTest
<1>8. PICK P : Sim(c, ps, L, P) /\ Extends(entered, L, ps, L, {before})
  BY <1>7
<1>9. Extends(bs, L, ps, L, {p} \cup {before})
  BY <1>3, <1>8, ExtendsTrans
<1>10. {p} \cup {before} = {p, before}
  OBVIOUS
<1>11. Busy(ps, before)
  <2>1. PutIs(entered, before, CondBr(s, then, merge), ps)
    BY <1>5, <1>6, PutEach
  <2>2. ps[before] = Append(<<>>, CondBr(s, then, merge))
    BY <1>5, <2>1 DEF PutIs
  <2>3. ps[before] # <<>> /\ ps[before][1] = CondBr(s, then, merge)
    BY <2>2
  <2>4. CondBr(s, then, merge).op = "test"
    BY DEF CondBr, Instr
  <2> QED
    BY <2>3, <2>4 DEF Busy
<1> QED
  BY <1>8, <1>9, <1>10, <1>11 DEF LoopRuns

\* A while loop: a block with its test, its body and what is behind it.
LEMMA WhileFollows ==
    ASSUME Ready, GoodNow, Sound(blocks'), EmitWhile, NEW L, NEW R, NEW K, NEW D, LabelledNow(L, R, K, D)
    PROVE  FollowsNext
<1>0. PICK s, before, then, merge :
         /\ s = Node /\ before = Len(blocks) + 1 /\ then = before + 1 /\ merge = before + 2
  OBVIOUS
<1>1. PICK g, h, created, entered :
         /\ g = Emitter("while", s, before, before, merge) /\ h = BlockEmitter(code[s].then, then)
         /\ created = Create(blocks, 3) /\ entered = Put(created, ip, Br(before))
  OBVIOUS
<1>2. /\ AtNode({"while"}) /\ blocks' = Put(entered, before, CondBr(s, then, merge)) /\ ip' = then
      /\ loops' = Append(loops, [merge |-> merge, start |-> before])
      /\ frames' = Under \o <<Top, g, h>> /\ value' = value
  BY <1>0, <1>1 DEF EmitWhile, TopBecomes
<1>3. /\ frames # <<>> /\ Top.emits = "block" /\ value = Calling /\ s \in 1..Len(code) /\ s \in Nat
      /\ CodeOK(code) /\ code[s].kind = "while" /\ code[s].then \in Seq(1..Len(code))
      /\ Top \in FrameType(code) /\ Cur(ip, value) = ip
  BY <1>0, <1>2, AtNodeNow
<1>4. /\ BlocksOK(blocks) /\ Len(blocks) \in Nat /\ ip \in 1..Len(blocks)
      /\ frames \in Seq(FrameType(code))
  BY <1>3, TopNow
<1>5. PICK m : m = Len(blocks) + 3
  OBVIOUS
<1>6. m \in Nat /\ before \in 1..m /\ then \in 1..m /\ merge \in 1..m /\ ip \in 1..m /\ ip # before
  BY <1>0, <1>4, <1>5
<1>7. LoopIs(blocks, ip, 3, blocks')
  BY EmitWhileIs
<1>8. Open(blocks, ip) /\ blocks'[then] = <<>>
  BY <1>0, <1>4, <1>7 DEF LoopIs, Open
<1>9. PICK q, a, y : /\ q = K[Len(frames) + 1] /\ a = Doing("again", s, q)
                     /\ y = Listed(code[s].then, a)
  OBVIOUS
<1>10. PICK r : r = Doing("statement", s, q)
  OBVIOUS
<1>11. /\ q \in Rests(code) /\ Sim(code, blocks, L, R) /\ q = Behind(Top, K[Len(frames)])
       /\ End(blocks, L, ip) = Kin(code, r)
  BY <1>0, <1>2, <1>3, <1>8, <1>9, <1>10, TopLabels, NodeLabels
<1>12. a \in Rests(code) /\ r \in Rests(code)
  BY <1>3, <1>9, <1>10, <1>11, DoingFirst DEF DoingIs
<1>13. y \in Rests(code)
  BY <1>3, <1>9, <1>12, ListedRest
<1>14. Tests(code, r, s, y, q) /\ Kin(code, a) = Kin(code, r)
  BY <1>3, <1>9, <1>10, <1>11, StatementActs, WhileAgain
<1>15. CreateIs(blocks, 3, created)
  BY <1>1, <1>4, CreateEnds
<1>16. /\ BlocksOK(created) /\ Len(created) = m /\ created[ip] = blocks[ip] /\ created[before] = <<>>
  BY <1>0, <1>4, <1>5, <1>15 DEF CreateIs
<1>17. PICK E : E = [b \in {before, then, merge} |->
                       IF b = before THEN Kin(code, r)
                       ELSE IF b = then THEN Kin(code, y) ELSE Kin(code, q)]
  OBVIOUS
<1>18. E[before] = Kin(code, r) /\ E[then] = Kin(code, y) /\ E[merge] = Kin(code, q)
  BY <1>0, <1>4, <1>17
<1>19. CreateFollows(code, blocks, L, created, R, 3, E)
  <2>1. PICK three \in Nat : three = 3
    OBVIOUS
  <2>2. CreateFollows(code, blocks, L, created, R, three, E)
    BY <1>4, <1>11, <1>15, <2>1, SimCreate
  <2> QED
    BY <2>1, <2>2
<1>20. PICK M : /\ Sim(code, created, M, R) /\ Extends(blocks, L, created, M, {})
                /\ \A b \in (Len(blocks) + 1)..(Len(blocks) + 3) : M[b][1] = E[b]
  BY <1>19 DEF CreateFollows
<1>21. M[before][1] = Kin(code, r) /\ M[then][1] = Kin(code, y) /\ M[merge][1] = Kin(code, q)
  BY <1>0, <1>4, <1>18, <1>20
<1>22. Open(created, ip) /\ End(created, M, ip) = M[before][1]
  BY <1>4, <1>8, <1>11, <1>16, <1>20, <1>21 DEF Extends, Open, Terminated
<1>23. PICK ps : ps = Put(entered, before, CondBr(s, then, merge))
  OBVIOUS
<1>24. LoopRuns(code, created, M, ps, ip, before)
  <2>1. /\ ip \in 1..Len(created) /\ before \in 1..Len(created) /\ then \in 1..Len(created)
        /\ merge \in 1..Len(created) /\ ip # before /\ s \in Nat
        /\ BlocksOK(created) /\ created[before] = <<>> /\ Sim(code, created, M, R)
        /\ entered = Put(created, ip, Br(before))
    BY <1>1, <1>3, <1>6, <1>16, <1>20
  <2>2. r \in Rests(code) /\ y \in Rests(code) /\ q \in Rests(code) /\ Tests(code, r, s, y, q)
    BY <1>11, <1>12, <1>13, <1>14
  <2> QED
    BY <1>21, <1>22, <1>23, <2>1, <2>2, LoopTested
<1>25. PICK Q : /\ Sim(code, blocks', M, Q) /\ Extends(created, M, blocks', M, {ip, before})
  BY <1>2, <1>23, <1>24 DEF LoopRuns
<1>26. Extends(blocks, L, blocks', M, {} \cup {ip, before})
  BY <1>20, <1>25, ExtendsTrans
<1>27. Extends(blocks, L, blocks', M, {ip})
  <2>1. \A b \in {} \cup {ip, before} : b \in {ip} \/ b \notin 1..Len(blocks)
    BY <1>0, <1>4
  <2> QED
    BY <1>26, <2>1, ExtendsOld
<1>28. Base(M, K, D)
  <2>1. PICK T : T = {ip}
    OBVIOUS
  <2>2. T \subseteq {Cur(ip, value)} \cup Own(Top) /\ Extends(blocks, L, blocks', M, T)
    BY <1>3, <1>27, <2>1
  <2> QED
    BY <1>3, <2>2, LowerKept
<1>29. /\ g \in FrameType(code) /\ g.emits = "while" /\ g.stmt = s /\ g.bb = before
       /\ g.then = before /\ g.other = merge
  <2>1. "while" \in Loops
    BY DEF Loops
  <2>2. g \in FrameType(code)
    BY <1>1, <1>3, <1>6, <2>1, EmitterTypes
  <2> QED
    BY <1>1, <2>2 DEF Emitter
<1>30. h \in FrameType(code) /\ h.emits = "block" /\ h.nodes = code[s].then
  <2>1. h \in FrameType(code)
    BY <1>1, <1>3, <1>6, EmitterTypes
  <2> QED
    BY <1>1, <2>1 DEF BlockEmitter
<1>31. CallRuns(code, blocks', M, g, q)
  BY <1>2, <1>3, <1>10, <1>21, <1>23, <1>24, <1>29 DEF CallRuns, LoopRuns
<1>32. Behind(g, q) = a
  BY <1>9, <1>29 DEF Behind
<1>33. End(blocks', M, ip') = Kin(code, Whole(h, a))
  <2>1. End(blocks', M, ip') = M[then][1]
    BY <1>2, <1>8 DEF End
  <2> QED
    BY <1>9, <1>21, <1>30, <2>1 DEF Whole
<1>34. BecameThree(FrameType(code), frames, Top, g, h, frames')
  BY <1>2, <1>3, <1>4, <1>29, <1>30, TopBecomesThree DEF Under
<1>35. loops' = Append(loops, Entry(g))
  BY <1>2, <1>29 DEF Entry
<1>36. M[g.then][1] = Kin(code, Doing("again", g.stmt, q)) /\ M[g.other][1] = Kin(code, q)
  BY <1>9, <1>14, <1>21, <1>29
<1>37. g.emits \in Loops
  BY <1>29 DEF Loops
<1>38. PICK k1 : k1 = K[Len(frames)]
  OBVIOUS
<1>39. q = Behind(Top, k1) /\ a = Behind(g, q)
  BY <1>11, <1>32, <1>38
<1> QED
  BY <1>2, <1>3, <1>25, <1>28, <1>29, <1>30, <1>31, <1>33, <1>34, <1>35, <1>36, <1>37, <1>38, <1>39,
     FollowsThree

\* A for loop: its update as well, and the initialisation in front of the test.
LEMMA ForFollows ==
    ASSUME Ready, GoodNow, Sound(blocks'), EmitFor, NEW L, NEW R, NEW K, NEW D, LabelledNow(L, R, K, D)
    PROVE  FollowsNext
<1>0. PICK s, before, then, update, merge :
         /\ s = Node /\ before = Len(blocks) + 1 /\ then = before + 1 /\ update = before + 2
         /\ merge = before + 3
  OBVIOUS
<1>1. PICK g, h, created, in, begun, entered :
         /\ g = Emitter("for", s, before, update, merge) /\ h = BlockEmitter(code[s].then, then)
         /\ created = Create(blocks, 4) /\ in = IterInit(s) /\ begun = Put(created, ip, in)
         /\ entered = Put(begun, ip, Br(before))
  OBVIOUS
<1>2. /\ AtNode({"for"}) /\ blocks' = Put(entered, before, CondBr(s, then, merge)) /\ ip' = then
      /\ loops' = Append(loops, [merge |-> merge, start |-> update])
      /\ frames' = Under \o <<Top, g, h>> /\ value' = value
  BY <1>0, <1>1 DEF EmitFor, TopBecomes
<1>3. /\ frames # <<>> /\ Top.emits = "block" /\ value = Calling /\ s \in 1..Len(code) /\ s \in Nat
      /\ CodeOK(code) /\ code[s].kind = "for" /\ code[s].then \in Seq(1..Len(code))
      /\ Top \in FrameType(code) /\ Cur(ip, value) = ip
  BY <1>0, <1>2, AtNodeNow
<1>4. /\ BlocksOK(blocks) /\ Len(blocks) \in Nat /\ ip \in 1..Len(blocks)
      /\ frames \in Seq(FrameType(code))
  BY <1>3, TopNow
<1>5. PICK m : m = Len(blocks) + 4
  OBVIOUS
<1>6. m \in Nat /\ before \in 1..m /\ then \in 1..m /\ update \in 1..m /\ merge \in 1..m
        /\ ip \in 1..m /\ ip # before
  BY <1>0, <1>4, <1>5
<1>7. LoopIs(blocks, ip, 4, blocks')
  BY EmitForIs
<1>8. Open(blocks, ip) /\ blocks'[then] = <<>>
  BY <1>0, <1>4, <1>7 DEF LoopIs, Open
<1>9. PICK q, a, y : /\ q = K[Len(frames) + 1] /\ a = Doing("again", s, q)
                     /\ y = Listed(code[s].then, a)
  OBVIOUS
<1>10. PICK r, e : r = Doing("test", s, q) /\ e = Doing("statement", s, q)
  OBVIOUS
<1>11. /\ q \in Rests(code) /\ Sim(code, blocks, L, R) /\ q = Behind(Top, K[Len(frames)])
       /\ End(blocks, L, ip) = Kin(code, e)
  BY <1>0, <1>2, <1>3, <1>8, <1>9, <1>10, TopLabels, NodeLabels
<1>12. a \in Rests(code) /\ r \in Rests(code) /\ e \in Rests(code)
  BY <1>3, <1>9, <1>10, <1>11, DoingFirst DEF DoingIs
<1>13. y \in Rests(code)
  BY <1>3, <1>9, <1>12, ListedRest
<1>14. Tests(code, r, s, y, q) /\ Acts(code, e, "init", s, r)
  BY <1>3, <1>9, <1>10, <1>11, StatementActs, ForActs
<1>15. CreateIs(blocks, 4, created)
  BY <1>1, <1>4, CreateEnds
<1>16. /\ BlocksOK(created) /\ Len(created) = m /\ created[ip] = blocks[ip] /\ created[before] = <<>>
  BY <1>0, <1>4, <1>5, <1>15 DEF CreateIs
<1>17. PICK E : E = [b \in {before, then, update, merge} |->
                       IF b = before THEN Kin(code, r) ELSE IF b = then THEN Kin(code, y)
                       ELSE IF b = update THEN Kin(code, a) ELSE Kin(code, q)]
  OBVIOUS
<1>18. /\ E[before] = Kin(code, r) /\ E[then] = Kin(code, y) /\ E[update] = Kin(code, a)
       /\ E[merge] = Kin(code, q)
  BY <1>0, <1>4, <1>17
<1>19. CreateFollows(code, blocks, L, created, R, 4, E)
  <2>1. PICK four \in Nat : four = 4
    OBVIOUS
  <2>2. CreateFollows(code, blocks, L, created, R, four, E)
    BY <1>4, <1>11, <1>15, <2>1, SimCreate
  <2> QED
    BY <2>1, <2>2
<1>20. PICK N : /\ Sim(code, created, N, R) /\ Extends(blocks, L, created, N, {})
                /\ \A b \in (Len(blocks) + 1)..(Len(blocks) + 4) : N[b][1] = E[b]
  BY <1>19 DEF CreateFollows
<1>21. /\ N[before][1] = Kin(code, r) /\ N[then][1] = Kin(code, y) /\ N[update][1] = Kin(code, a)
       /\ N[merge][1] = Kin(code, q)
  BY <1>0, <1>4, <1>18, <1>20
<1>22. Open(created, ip) /\ End(created, N, ip) = Kin(code, e) /\ ip \in 1..Len(created)
  BY <1>4, <1>6, <1>8, <1>11, <1>16, <1>20 DEF Extends, Open, Terminated
<1>23. /\ PutIs(created, ip, in, begun) /\ ~IsTerminator(in)
       /\ in \in Instruction /\ in.op = "init" /\ in.stmt = s
  BY <1>1, <1>3, <1>16, <1>22, PutEach, InstructionTypes
<1>24. PutFollows(code, created, N, begun, R, ip, r)
  <2>1. in.op \in {"do", "init", "update"} /\ Acts(code, e, in.op, in.stmt, r)
    BY <1>14, <1>23
  <2> QED
    BY <1>12, <1>16, <1>20, <1>22, <1>23, <2>1, SimPut
<1>25. PICK M : /\ Sim(code, begun, M, R) /\ Extends(created, N, begun, M, {ip})
                /\ End(begun, M, ip) = Kin(code, r)
  BY <1>24 DEF PutFollows
<1>26. /\ BlocksOK(begun) /\ Len(begun) = m /\ begun[before] = <<>> /\ Open(begun, ip)
  BY <1>6, <1>16, <1>23 DEF PutIs, Open
<1>27. /\ M[before][1] = Kin(code, r) /\ M[then][1] = Kin(code, y) /\ M[update][1] = Kin(code, a)
       /\ M[merge][1] = Kin(code, q)
  BY <1>6, <1>16, <1>21, <1>25 DEF Extends
<1>28. Extends(blocks, L, begun, M, {} \cup {ip})
  BY <1>20, <1>25, ExtendsTrans
<1>29. PICK ps : ps = Put(entered, before, CondBr(s, then, merge))
  OBVIOUS
<1>30. LoopRuns(code, begun, M, ps, ip, before)
  <2>1. /\ ip \in 1..Len(begun) /\ before \in 1..Len(begun) /\ then \in 1..Len(begun)
        /\ merge \in 1..Len(begun) /\ ip # before /\ s \in Nat
        /\ BlocksOK(begun) /\ begun[before] = <<>> /\ Sim(code, begun, M, R)
        /\ entered = Put(begun, ip, Br(before))
    BY <1>1, <1>3, <1>6, <1>25, <1>26
  <2>2. r \in Rests(code) /\ y \in Rests(code) /\ q \in Rests(code) /\ Tests(code, r, s, y, q)
    BY <1>11, <1>12, <1>13, <1>14
  <2> QED
    BY <1>25, <1>26, <1>27, <1>29, <2>1, <2>2, LoopTested
<1>31. PICK Q : /\ Sim(code, blocks', M, Q) /\ Extends(begun, M, blocks', M, {ip, before})
  BY <1>2, <1>29, <1>30 DEF LoopRuns
<1>32. Extends(blocks, L, blocks', M, ({} \cup {ip}) \cup {ip, before})
  BY <1>31, <1>28, ExtendsTrans
<1>33. Extends(blocks, L, blocks', M, {ip})
  <2>1. \A b \in ({} \cup {ip}) \cup {ip, before} : b \in {ip} \/ b \notin 1..Len(blocks)
    BY <1>0, <1>4
  <2> QED
    BY <1>32, <2>1, ExtendsOld
<1>34. Base(M, K, D)
  <2>1. PICK T : T = {ip}
    OBVIOUS
  <2>2. T \subseteq {Cur(ip, value)} \cup Own(Top) /\ Extends(blocks, L, blocks', M, T)
    BY <1>3, <1>33, <2>1
  <2> QED
    BY <1>3, <2>2, LowerKept
<1>35. /\ g \in FrameType(code) /\ g.emits = "for" /\ g.stmt = s /\ g.bb = before
       /\ g.then = update /\ g.other = merge
  <2>1. "for" \in Loops
    BY DEF Loops
  <2>2. g \in FrameType(code)
    BY <1>1, <1>3, <1>6, <2>1, EmitterTypes
  <2> QED
    BY <1>1, <2>2 DEF Emitter
<1>36. h \in FrameType(code) /\ h.emits = "block" /\ h.nodes = code[s].then
  <2>1. h \in FrameType(code)
    BY <1>1, <1>3, <1>6, EmitterTypes
  <2> QED
    BY <1>1, <2>1 DEF BlockEmitter
<1>37. CallRuns(code, blocks', M, g, q)
  BY <1>2, <1>3, <1>10, <1>9, <1>27, <1>29, <1>30, <1>35 DEF CallRuns, LoopRuns
<1>38. Behind(g, q) = a
  BY <1>9, <1>35 DEF Behind
<1>39. End(blocks', M, ip') = Kin(code, Whole(h, a))
  <2>1. End(blocks', M, ip') = M[then][1]
    BY <1>2, <1>8 DEF End
  <2> QED
    BY <1>9, <1>27, <1>36, <2>1 DEF Whole
<1>40. BecameThree(FrameType(code), frames, Top, g, h, frames')
  BY <1>2, <1>3, <1>4, <1>35, <1>36, TopBecomesThree DEF Under
<1>41. loops' = Append(loops, Entry(g))
  BY <1>2, <1>35 DEF Entry
<1>42. M[g.then][1] = Kin(code, Doing("again", g.stmt, q)) /\ M[g.other][1] = Kin(code, q)
  BY <1>9, <1>27, <1>35
<1>43. g.emits \in Loops
  BY <1>35 DEF Loops
<1>44. PICK k1 : k1 = K[Len(frames)]
  OBVIOUS
<1>45. q = Behind(Top, k1) /\ a = Behind(g, q)
  BY <1>11, <1>38, <1>44
<1> QED
  BY <1>2, <1>3, <1>31, <1>34, <1>35, <1>36, <1>37, <1>39, <1>40, <1>41, <1>42, <1>43, <1>44, <1>45,
     FollowsThree

\* Every step of the emitters.
LEMMA StepFollows ==
    ASSUME Ready, GoodNow, GoodNext, EmitStep, NEW L, NEW R, NEW K, NEW D, LabelledNow(L, R, K, D)
    PROVE  FollowsNext
<1>1. Sound(blocks')
  BY DEF GoodNext, Good
<1> QED
  BY <1>1, DoFollows, ReturnFollows, JumpFollows, NextFollows, CutBlockFollows, EndBlockFollows,
     IfFollows,
     ThenFollows, ElseFollows, EndIfPoisonedFollows, EndIfFollows, CompIfFollows, WhileFollows,
     EndWhileFollows, ForFollows, EndForFollows DEF EmitStep

-----------------------------------------------------------------------------
(* The blocks run like their source *)

\* The inductive invariant.
Followed ==
    /\ phase = "emitting" =>
         /\ quiet = 0
         /\ PlainIfs(code) /\ GoodNow => \E L, R, K, D : LabelledNow(L, R, K, D)
    /\ phase = "running" /\ PlainIfs(code) => \E L, R : Abreast(L, R)
    /\ phase = "returned" /\ PlainIfs(code) => rest = <<>> /\ quiet <= Len(blocks)

\* It says what the property asks.
LEMMA FollowedRuns ==
    ASSUME TypeInv, Followed
    PROVE  PlainIfsRun
<1> SUFFICES ASSUME PlainIfs(code), phase \in {"running", "returned"}
             PROVE  rest # Lost /\ quiet <= Len(blocks)
  BY DEF PlainIfsRun, RunsLikeSource
<1>1. Lost # <<>> /\ Lost \notin Rests(code)
  <2>1. Lost # <<>> /\ Len(Lost) = 1 /\ Lost[1] = Todo("lost", 0)
    BY DEF Lost
  <2>2. \A r \in Rests(code) : \A i \in 1..Len(r) : r[i] \in Todos(code)
    BY ElementOfSeq DEF Rests
  <2>3. Todo("lost", 0) \notin Todos(code)
    BY DEF Todo, Todos
  <2>4. 1 \in 1..1
    OBVIOUS
  <2> QED
    BY <2>1, <2>2, <2>3, <2>4
<1>2. CASE phase = "returned"
  BY <1>1, <1>2 DEF Followed
<1>3. CASE phase = "running"
  <2>1. PICK L, R : Abreast(L, R)
    BY <1>3 DEF Followed
  <2>2. Len(blocks) \in Nat /\ quiet \in Nat /\ BlocksOK(blocks) /\ Verified(blocks)
        /\ at[1] \in 1..Len(blocks)
    BY <1>3 DEF TypeInv, Typed, BlocksOK
  <2>3. /\ Cardinality(Terminals(blocks)) \in Nat
        /\ Cardinality(Terminals(blocks)) <= Len(blocks)
    BY <2>2, TerminalsFew
  <2>4. R[at[1]] \in 1..Cardinality(Terminals(blocks))
    BY <2>1, <2>2 DEF Abreast, Sim, Ranked, Terminals, Verified
  <2>5. quiet <= Len(blocks)
    BY <2>1, <2>2, <2>3, <2>4 DEF Abreast
  <2> QED
    BY <1>1, <2>1, <2>5 DEF Abreast
<1> QED
  BY <1>2, <1>3

\* It holds when the function is entered, ...
LEMMA FollowedInit ==
    ASSUME Init, TypeInv
    PROVE  Followed
<1>1. PICK f : f = BlockEmitter(body, 1)
  OBVIOUS
<1>2. /\ blocks = << <<>> >> /\ ip = 1 /\ loops = <<>> /\ frames = <<f>>
      /\ value = Calling /\ phase = "emitting" /\ quiet = 0
  BY <1>1 DEF Init
<1>3. CodeOK(code) /\ body \in Seq(1..Len(code))
  BY DEF TypeInv
<1>4. /\ Len(frames) = 1 /\ frames[1] = f /\ Len(blocks) = 1 /\ blocks[1] = <<>> /\ Len(loops) = 0
      /\ Len(blocks[1]) = 0
  BY <1>2
<1>5. f \in FrameType(code) /\ f.emits = "block" /\ f.nodes = body
  <2>1. PICK n : n = 1
    OBVIOUS
  <2>2. n \in Nat /\ 1 \in 1..n
    BY <2>1
  <2>3. f \in FrameType(code)
    BY <1>1, <1>3, <2>2, EmitterTypes
  <2> QED
    BY <1>1, <2>3 DEF BlockEmitter
<1>6. PICK L, R, G, H : /\ L = [a \in {1} |-> [i \in {1} |-> Kin(code, Listed(body, <<>>))]] /\ R = <<>>
                        /\ G = [k \in {1} |-> <<>>] /\ H = [k \in {1} |-> 0]
  OBVIOUS
<1>7. L[1][1] = Kin(code, Listed(body, <<>>)) /\ G[1] = <<>> /\ H[1] = 0
  BY <1>6
<1>8. Sim(code, blocks, L, R)
  <2>1. Told(code, blocks, L)
    BY <1>4 DEF Told
  <2>2. Terminals(blocks) = {}
    BY <1>4 DEF Terminals, Terminated
  <2> QED
    BY <2>1, <2>2 DEF Sim, Ranked
<1>9. PICK zero \in Nat : zero = 0
  OBVIOUS
<1>10. Chain(code, L, loops, frames, zero, G, H)
  <2>1. <<>> \in Rests(code)
    BY DEF Rests
  <2>2. (\A k \in 1..(zero + 1) : k = 1) /\ (\A k \in 1..zero : FALSE) /\ 0 \in Nat /\ 0 <= 0
    BY <1>9
  <2> QED
    BY <1>7, <2>1, <2>2 DEF Chain
<1>11. Pushed(code, L, loops, frames, zero, G, H, f)
  <2>1. f = frames[zero + 1] /\ f.emits \notin Loops
    BY <1>4, <1>5, <1>9 DEF Loops
  <2>2. EntersLoop(code, L, loops, G, H, zero, f)
    BY <2>1 DEF EntersLoop
  <2> QED
    BY <1>5, <1>10, <2>1, <2>2, ChainPush
<1>12. PICK K, D : /\ Chain(code, L, loops, frames, 1, K, D)
                   /\ K[1] = <<>> /\ D[2] = 0
  <2>1. PICK J, E : /\ Chain(code, L, loops, frames, zero + 1, J, E)
                    /\ \A k \in 1..(zero + 1) : J[k] = G[k] /\ E[k] = H[k]
                    /\ J[zero + 2] = Behind(f, G[zero + 1])
                    /\ E[zero + 2] = IF f.emits \in Loops THEN H[zero + 1] + 1 ELSE H[zero + 1]
    BY <1>11 DEF Pushed
  <2>2. f.emits \notin Loops
    BY <1>5 DEF Loops
  <2>3. zero + 1 = 1 /\ zero + 2 = 2 /\ 1 \in 1..(zero + 1)
    BY <1>9
  <2>4. Chain(code, L, loops, frames, 1, J, E) /\ J[1] = <<>> /\ E[2] = 0
    BY <1>7, <2>1, <2>2, <2>3
  <2> QED
    BY <2>4
<1>13. \A k \in 1..Len(frames) : CallRuns(code, blocks, L, frames[k], K[k])
  <2>1. \A k \in 1..1 : k = 1
    OBVIOUS
  <2> QED
    BY <1>4, <1>5, <2>1 DEF CallRuns
<1>14. Here(code, blocks, L, ip, frames, value, K)
  <2>1. End(blocks, L, ip) = Kin(code, Whole(f, K[1]))
    BY <1>2, <1>4, <1>5, <1>7, <1>12 DEF End, Whole
  <2> QED
    BY <1>2, <1>4, <2>1 DEF Here
<1>15. Joins(code, blocks, ip, frames, value)
  BY <1>2 DEF Joins
<1>16. LabelledNow(L, R, K, D)
  <2>1. D[Len(frames) + 1] = Len(loops)
    BY <1>4, <1>12
  <2> QED
    BY <1>4, <1>7, <1>8, <1>12, <1>13, <1>14, <1>15, <2>1 DEF LabelledNow, Labelled
<1> QED
  BY <1>2, <1>16 DEF Followed

\* ... while it is emitted, ...
LEMMA FollowedEmit ==
    ASSUME TypeInv, Accepting, Followed, EmitStep
    PROVE  Followed'
<1>1. phase = "emitting" /\ UNCHANGED <<code, body, void, phase, at, rest, quiet>>
  BY EmitStepFrame
<1>2. Ready
  BY DEF TypeInv, Ready
<1>3. quiet' = 0
  BY <1>1 DEF Followed
<1>4. ASSUME PlainIfs(code), GoodNext
      PROVE  FollowsNext
  <2>1. GoodNow \/ Doomed(blocks, frames)
    BY <1>1, <1>4 DEF Accepting, Emitting, Fine, GoodNow
  <2>2. ~Doomed(blocks', frames')
    BY <1>4 DEF GoodNext, Good, CallsOK, FrameOK, Open, Doomed
  <2>3. GoodNow
    BY <1>2, <2>1, <2>2, DoomStays
  <2>4. \E L, R, K, D : LabelledNow(L, R, K, D)
    BY <1>1, <1>4, <2>3 DEF Followed
  <2> QED
    BY <1>2, <1>4, <2>3, <2>4, StepFollows
<1>5. PlainIfs(code) /\ GoodNext => \E L, R, K, D : LabelledNow(L, R, K, D)'
  BY <1>1, <1>4 DEF FollowsNext, LabelledNow
<1> QED
  BY <1>1, <1>3, <1>5 DEF Followed, GoodNow, GoodNext, Excused

\* ... and verified, ...
LEMMA FollowedEnd ==
    ASSUME TypeInv, Accepting, Followed, EndFunction
    PROVE  Followed'
<1>1. PICK closed : closed = IF void /\ ~Terminated(blocks, ip) THEN Put(blocks, ip, Ret(0)) ELSE blocks
  OBVIOUS
<1>2. /\ phase = "emitting" /\ frames = <<>> /\ blocks' = closed
      /\ phase' = (IF Verified(closed) THEN "running" ELSE "rejected")
      /\ rest' = Statements(body) /\ UNCHANGED <<code, at, quiet>>
  BY <1>1 DEF EndFunction, source
<1>3. /\ BlocksOK(blocks) /\ ip \in 1..Len(blocks) /\ Len(blocks) \in Nat /\ at = <<1, 1>>
      /\ CodeOK(code) /\ body \in Seq(1..Len(code))
  BY <1>2 DEF TypeInv, Typed, BlocksOK
<1>4. quiet' = 0
  BY <1>2 DEF Followed
<1>5. ASSUME PlainIfs(code), Verified(closed)
      PROVE  \E L, R : Abreast(L, R)'
  <2>1. 0 \in Nat
    OBVIOUS
  <2>2. PutIs(blocks, ip, Ret(0), Put(blocks, ip, Ret(0)))
    BY <1>3, <2>1, PutEach
  <2>3. Sound(closed)
    BY <1>5 DEF Verified, Sound
  <2>4. Sound(blocks)
    BY <1>1, <2>2, <2>3 DEF PutIs
  <2>5. GoodNow
    <3>1. \A k \in 1..Len(frames) : FALSE
      BY <1>2
    <3> QED
      BY <1>2, <1>5, <2>4, <3>1 DEF Accepting, Emitting, Fine, GoodNow, Doomed
  <2>6. PICK L, R, K, D : LabelledNow(L, R, K, D)
    BY <1>2, <1>5, <2>5 DEF Followed
  <2>7. value = ip /\ Len(frames) = 0
    BY <1>2, <2>5 DEF GoodNow, Good
  <2>8. /\ Sim(code, blocks, L, R) /\ L[1][1] = Kin(code, Listed(body, <<>>))
        /\ K[1] = <<>> /\ Here(code, blocks, L, ip, frames, value, K)
    BY <2>6 DEF LabelledNow, Labelled, Chain
  <2>9. value # Calling /\ Cur(ip, value) = ip /\ Len(frames) + 1 = 1
    BY <1>3, <2>7 DEF Calling, Cur
  <2>10. Open(blocks, ip) => End(blocks, L, ip) = Kin(code, <<>>)
    BY <2>8, <2>9 DEF Here
  <2>11. \E Q : Sim(code, closed, L, Q)
    <3>1. CASE void /\ ~Terminated(blocks, ip)
      <4>1. PICK nothing : nothing = <<>>
        OBVIOUS
      <4>2. nothing \in Rests(code) /\ Finishes(code, nothing, 0)
        BY <4>1, NothingLeft DEF Rests
      <4>3. Open(blocks, ip) /\ End(blocks, L, ip) = Kin(code, nothing)
        BY <2>10, <3>1, <4>1 DEF Open
      <4>4. \E Q : Sim(code, Put(blocks, ip, Ret(0)), L, Q)
              /\ Extends(blocks, L, Put(blocks, ip, Ret(0)), L, {ip})
        BY <1>3, <2>1, <2>8, <4>2, <4>3, SimRet
      <4> QED
        BY <1>1, <3>1, <4>4
    <3>2. CASE ~(void /\ ~Terminated(blocks, ip))
      BY <1>1, <2>8, <3>2
    <3> QED
      BY <3>1, <3>2
  <2>12. Statements(body) \in Rests(code) /\ Listed(body, <<>>) = Statements(body)
    <3>1. Statements(body) \in Rests(code)
      BY <1>3, StatementsRest
    <3>2. \A r \in Rests(code) : r \o <<>> = r
      BY ConcatEmptySeq DEF Rests
    <3> QED
      BY <3>1, <3>2 DEF Listed
  <2>13. PICK Q : Sim(code, blocks', L, Q)
    BY <1>2, <2>11
  <2>14. at'[1] = 1 /\ at'[2] = 1
    BY <1>2, <1>3
  <2>15. Abreast(L, Q)'
    BY <1>2, <1>4, <2>8, <2>12, <2>13, <2>14 DEF Abreast
  <2> QED
    BY <2>15
<1> QED
  BY <1>2, <1>5 DEF Followed

\* A silent move leads to something to do, or to nothing.
LEMMA MovedRest ==
    ASSUME NEW c, CodeOK(c), NEW r \in Rests(c), Silent(c, r)
    PROVE  Moved(c, r) \in Rests(c)
<1>1. r # <<>> /\ r \in Seq(Todos(c))
  BY DEF Silent, Rests
<1>2. Head(r) \in Todos(c) /\ Tail(r) \in Rests(c)
  BY <1>1, HeadTailProperties DEF Rests
<1>3. PICK s, k : s = Head(r).stmt /\ k = Tail(r)
  OBVIOUS
<1>4. s \in 1..Len(c) /\ k \in Rests(c) /\ c[s].then \in Seq(1..Len(c))
  BY <1>2, <1>3, StatementFacts DEF Todos
<1>5. CASE Next1(c, r) \in {"break", "continue"} /\ InLoop(r)
  BY <1>5, FromLoopEndRest DEF Moved
<1>6. CASE Next1(c, r) = "compif"
  <2>1. Listed(c[s].then, k) \in Rests(c) /\ Otherwise(c, s, k) \in Rests(c)
    BY <1>4, ListedRest, OtherwiseIs
  <2>2. /\ c[s].holds => Moved(c, r) = Statements(c[s].then) \o k
        /\ ~c[s].holds => Moved(c, r) = Branch(c, s) \o k
    BY <1>3, <1>6 DEF Moved
  <2> QED
    BY <2>1, <2>2 DEF Listed, Otherwise
<1>7. CASE Next1(c, r) = "again" /\ c[Head(r).stmt].kind = "while"
  <2>1. Moved(c, r) = Doing("statement", s, k)
    BY <1>3, <1>7 DEF Moved, Doing
  <2>2. Doing("statement", s, k) \in Rests(c)
    BY <1>4, DoingFirst DEF DoingIs
  <2> QED
    BY <2>1, <2>2
<1> QED
  BY <1>5, <1>6, <1>7 DEF Silent

\* The instruction that runs does what the source does next, ...
LEMMA NowObeys ==
    ASSUME TypeInv, phase = "running", NEW L, NEW R, Abreast(L, R), NEW b, b = at[1], NEW i, i = at[2]
    PROVE  /\ b \in 1..Len(blocks) /\ i \in 1..Len(blocks[b]) /\ i \in Nat /\ Now = blocks[b][i]
           /\ blocks[b] \in Seq(Instruction) /\ Now \in Instruction
           /\ BlocksOK(blocks) /\ Verified(blocks) /\ Len(blocks) \in Nat /\ CodeOK(code)
           /\ quiet \in Nat
           /\ at = <<b, i>>
           /\ Obeys(code, L, Now, Kin(code, rest), L[b][i + 1])
           /\ rest \in Rests(code) /\ Sim(code, blocks, L, R)
<1>1. /\ CodeOK(code) /\ BlocksOK(blocks) /\ Verified(blocks) /\ at \in Nat \X Nat
      /\ b \in DOMAIN blocks /\ i \in DOMAIN blocks[b] /\ quiet \in Nat
  BY DEF TypeInv, Typed, BlocksOK
<1>2. /\ blocks[b] \in Seq(Instruction) /\ DOMAIN blocks[b] = 1..Len(blocks[b])
  BY <1>1, VerifiedBlocks
<1>3. Len(blocks) \in Nat /\ DOMAIN blocks = 1..Len(blocks)
  BY <1>1 DEF BlocksOK
<1>4. i \in 1..Len(blocks[b]) /\ i \in Nat /\ blocks[b][i] \in Instruction
  BY <1>1, <1>2, ElementOfSeq
<1>5. Now = blocks[b][i] /\ at = <<b, i>>
  BY <1>1 DEF Now
<1>6. Obeys(code, L, blocks[b][i], L[b][i], L[b][i + 1])
  BY <1>1, <1>3, <1>4 DEF Abreast, Sim, Told
<1>7. L[b][i] = Kin(code, rest)
  BY DEF Abreast
<1> QED
  BY <1>1, <1>2, <1>3, <1>4, <1>5, <1>6, <1>7 DEF Abreast

\* ... when it has an effect, ...
LEMMA EffectFollowed ==
    ASSUME TypeInv, RunEffect, NEW L, NEW R, Abreast(L, R)
    PROVE  Abreast(L, R)'
<1>1. PICK b, i : b = at[1] /\ i = at[2]
  OBVIOUS
<1>2. /\ phase = "running" /\ ~Silent(code, rest) /\ Now.op \in {"do", "init", "update"}
      /\ at' = <<b, i + 1>> /\ rest' = Follow(FALSE) /\ quiet' = 0 /\ UNCHANGED <<code, blocks>>
  BY <1>1 DEF RunEffect, Runs, source
<1>3. /\ Obeys(code, L, Now, Kin(code, rest), L[b][i + 1])
      /\ rest \in Rests(code) /\ Sim(code, blocks, L, R)
  BY <1>1, <1>2, NowObeys
<1>4. PICK r, q \in Rests(code) : /\ Acts(code, r, Now.op, Now.stmt, q) /\ Kin(code, rest) = Kin(code, r)
                                  /\ L[b][i + 1] = Kin(code, q)
  BY <1>2, <1>3 DEF Obeys
<1>5. ~Silent(code, r) /\ Does(code, r) = <<Now.op, Now.stmt>> /\ After(code, r, FALSE) = q
  BY <1>4 DEF Acts
<1>6. rest = r
  BY <1>2, <1>3, <1>4, <1>5, KinLoud
<1>7. rest' = q
  BY <1>2, <1>5, <1>6 DEF Follow
<1>8. at'[1] = b /\ at'[2] = i + 1
  BY <1>2
<1> QED
  BY <1>2, <1>3, <1>4, <1>7, <1>8 DEF Abreast

\* ... when it tests, ...
LEMMA TestFollowed ==
    ASSUME TypeInv, NEW yes \in BOOLEAN, RunTest(yes), NEW L, NEW R, Abreast(L, R)
    PROVE  Abreast(L, R)'
<1>1. PICK b, i : b = at[1] /\ i = at[2]
  OBVIOUS
<1>2. /\ phase = "running" /\ ~Silent(code, rest) /\ Now.op = "test"
      /\ at' = <<IF yes THEN Now.yes ELSE Now.no, 1>> /\ rest' = Follow(yes) /\ quiet' = 0
      /\ UNCHANGED <<code, blocks>>
  BY DEF RunTest, Runs, source
<1>3. /\ Obeys(code, L, Now, Kin(code, rest), L[b][i + 1])
      /\ rest \in Rests(code) /\ Sim(code, blocks, L, R)
  BY <1>1, <1>2, NowObeys
<1>4. PICK r, y, n \in Rests(code) :
         /\ Tests(code, r, Now.stmt, y, n) /\ Kin(code, rest) = Kin(code, r)
         /\ L[Now.yes][1] = Kin(code, y) /\ L[Now.no][1] = Kin(code, n)
  BY <1>2, <1>3 DEF Obeys
<1>5. /\ ~Silent(code, r) /\ Does(code, r) = <<"test", Now.stmt>>
      /\ After(code, r, TRUE) = y /\ After(code, r, FALSE) = n
  BY <1>4 DEF Tests
<1>6. rest = r
  BY <1>2, <1>3, <1>4, <1>5, KinLoud
<1>7. CASE yes = TRUE
  <2>1. rest' = y
    BY <1>2, <1>5, <1>6, <1>7 DEF Follow
  <2>2. at'[1] = Now.yes /\ at'[2] = 1
    BY <1>2, <1>7
  <2> QED
    BY <1>2, <1>3, <1>4, <2>1, <2>2 DEF Abreast
<1>8. CASE yes = FALSE
  <2>1. rest' = n
    BY <1>2, <1>5, <1>6, <1>8 DEF Follow
  <2>2. at'[1] = Now.no /\ at'[2] = 1
    BY <1>2, <1>8
  <2> QED
    BY <1>2, <1>3, <1>4, <2>1, <2>2 DEF Abreast
<1> QED
  BY <1>7, <1>8

\* ... and when it branches: to a block that acts or tests, or to a higher rank.
LEMMA BrFollowed ==
    ASSUME TypeInv, RunBr, NEW L, NEW R, Abreast(L, R)
    PROVE  Abreast(L, R)'
<1>1. PICK b, i : b = at[1] /\ i = at[2]
  OBVIOUS
<1>2. PICK t, m : t = Now.yes /\ m = Cardinality(Terminals(blocks))
  OBVIOUS
<1>3. /\ phase = "running" /\ Now.op = "br" /\ at' = <<t, 1>>
      /\ quiet' = (IF quiet > Len(blocks) THEN quiet ELSE quiet + 1)
      /\ UNCHANGED <<code, blocks, rest>>
  BY <1>2 DEF RunBr, Runs, source
<1>4. /\ b \in 1..Len(blocks) /\ i \in 1..Len(blocks[b]) /\ Now = blocks[b][i]
      /\ BlocksOK(blocks) /\ Verified(blocks) /\ Len(blocks) \in Nat /\ quiet \in Nat
      /\ Obeys(code, L, Now, Kin(code, rest), L[b][i + 1])
      /\ rest \in Rests(code) /\ Sim(code, blocks, L, R)
  BY <1>1, <1>3, NowObeys
<1>5. L[t][1] = Kin(code, rest)
  BY <1>2, <1>3, <1>4 DEF Obeys
<1>6. t \in 1..Len(blocks)
  BY <1>2, <1>3, <1>4, TargetIn
<1>7. m \in Nat /\ m <= Len(blocks)
  BY <1>2, <1>4, TerminalsFew
<1>8. \A a \in 1..Len(blocks) : Terminated(blocks, a) /\ a \in Terminals(blocks) /\ R[a] \in 1..m
  <2>1. DOMAIN blocks = 1..Len(blocks) /\ Ranked(blocks, R)
    BY <1>4 DEF BlocksOK, Sim
  <2>2. ASSUME NEW a \in 1..Len(blocks)
        PROVE  Terminated(blocks, a) /\ a \in Terminals(blocks)
    BY <1>4, <2>1, <2>2 DEF Verified, Terminals
  <2>3. ASSUME NEW a \in 1..Len(blocks)
        PROVE  R[a] \in 1..m
    BY <1>2, <2>1, <2>2, <2>3 DEF Ranked
  <2> QED
    BY <2>2, <2>3
<1>9. i = Len(blocks[b])
  <2>1. IsTerminator(blocks[b][i])
    BY <1>3, <1>4 DEF IsTerminator
  <2>2. b \in DOMAIN blocks
    BY <1>4 DEF BlocksOK
  <2>3. DOMAIN blocks[b] = 1..Len(blocks[b])
    BY <1>4, <2>2, VerifiedBlocks
  <2> QED
    BY <1>4, <2>1, <2>2, <2>3, VerifiedBlocks
<1>10. Busy(blocks, t) \/ R[b] < R[t]
  <2>1. Leads(blocks, R, b, t)
    BY <1>2, <1>3, <1>4, <1>8, <1>9 DEF Sim, Ranked
  <2> QED
    BY <1>6, <1>8, <2>1 DEF Leads, Open
<1>11. quiet + 1 <= R[b]
  <2>1. CASE quiet = 0
    BY <1>4, <1>8, <2>1
  <2>2. CASE quiet < R[b]
    BY <1>4, <1>8, <2>2
  <2>3. ~(i = 1 /\ Busy(blocks, b))
    BY <1>3, <1>4 DEF Busy
  <2> QED
    BY <1>1, <2>1, <2>2, <2>3 DEF Abreast
<1>12. R[b] \in 1..m /\ R[t] \in 1..m
  BY <1>4, <1>6, <1>8
<1>13. quiet' = quiet + 1
  BY <1>3, <1>4, <1>7, <1>11, <1>12
<1>14. (Busy(blocks, t) /\ quiet' <= m) \/ quiet' < R[t]
  BY <1>4, <1>7, <1>10, <1>11, <1>12, <1>13
<1>15. at'[1] = t /\ at'[2] = 1
  BY <1>3
<1> QED
  BY <1>2, <1>3, <1>4, <1>5, <1>14, <1>15 DEF Abreast

\* ... while they run.
LEMMA FollowedRun ==
    ASSUME TypeInv, Followed, RunStep
    PROVE  Followed'
<1>1. phase = "running" /\ UNCHANGED <<code, body, void, blocks, ip, loops, frames, value>>
  BY RunStepFrame
<1>2. CodeOK(code)
  BY DEF TypeInv
<1>3. ASSUME PlainIfs(code), ~RunReturn PROVE phase' = "running" /\ \E L, R : Abreast(L, R)'
  <2>1. PICK L, R : Abreast(L, R)
    BY <1>1, <1>3 DEF Followed
  <2>2. phase' = "running"
    BY <1>3 DEF RunStep, MoveSource, RunEffect, RunTest, RunBr, Runs
  <2>3. CASE MoveSource
    <3>1. Silent(code, rest) /\ rest' = Moved(code, rest) /\ UNCHANGED <<code, blocks, at, quiet>>
      BY <2>3 DEF MoveSource, source
    <3>2. rest \in Rests(code) /\ L[at[1]][at[2]] = Kin(code, rest)
      BY <2>1 DEF Abreast
    <3>3. Moved(code, rest) \in Rests(code) /\ Kin(code, Moved(code, rest)) = Kin(code, rest)
      BY <1>2, <3>1, <3>2, MovedRest, KinMoves
    <3>4. Abreast(L, R)'
      BY <2>1, <3>1, <3>2, <3>3 DEF Abreast
    <3> QED
      BY <2>2, <3>4
  <2>4. Abreast(L, R)' \/ MoveSource
    BY <1>3, <2>1, EffectFollowed, TestFollowed, BrFollowed DEF RunStep
  <2> QED
    BY <2>2, <2>3, <2>4
<1>4. ASSUME PlainIfs(code), RunReturn
      PROVE phase' = "returned" /\ rest' = <<>> /\ quiet' <= Len(blocks')
  <2>1. PICK L, R : Abreast(L, R)
    BY <1>1, <1>4 DEF Followed
  <2>2. /\ ~Silent(code, rest) /\ Now.op = "return" /\ phase' = "returned"
        /\ rest' = (IF Does(code, rest) = <<Now.op, Now.stmt>> THEN <<>> ELSE Lost)
        /\ UNCHANGED <<blocks, quiet>>
    BY <1>4 DEF RunReturn, Runs
  <2>3. PICK b, i : b = at[1] /\ i = at[2]
    OBVIOUS
  <2>4. Obeys(code, L, Now, Kin(code, rest), L[b][i + 1]) /\ rest \in Rests(code)
    BY <1>1, <2>1, <2>3, NowObeys
  <2>5. PICK r \in Rests(code) : Finishes(code, r, Now.stmt) /\ Kin(code, rest) = Kin(code, r)
    BY <2>2, <2>4 DEF Obeys
  <2>6. ~Silent(code, r) /\ Does(code, r) = <<"return", Now.stmt>>
    BY <2>5 DEF Finishes
  <2>7. rest = r
    BY <2>2, <2>4, <2>5, <2>6, KinLoud
  <2>8. rest' = <<>>
    BY <2>2, <2>6, <2>7
  <2>9. quiet <= Len(blocks)
    <3>1. PlainIfsRun
      BY FollowedRuns
    <3> QED
      BY <1>1, <1>4, <3>1 DEF PlainIfsRun, RunsLikeSource
  <2> QED
    BY <2>2, <2>8, <2>9
<1>5. phase' \in {"running", "returned"} /\ (phase' = "returned" => RunReturn)
  BY DEF RunStep, MoveSource, RunEffect, RunTest, RunBr, RunReturn, Runs
<1>6. PlainIfs(code)' <=> PlainIfs(code)
  BY <1>1
<1> QED
  BY <1>3, <1>4, <1>5, <1>6 DEF Followed

\* The blocks of a function that is accepted have the effects of its source in the order of
\* the source, and do not branch in circles between them, when its ifs have the shapes the
\* emitter is made for: BlockStmt::emit, IfStmt::emit, CompIfStmt::emit, WhileStmt::emit,
\* ForStmt::emit and the jumps agree on the block in which each statement goes on.
THEOREM PlainProgramsKeepTheirMeaning == Spec => []PlainIfsRun
<1>1. Init /\ TypeInv => Followed
  BY FollowedInit
<1>2. TypeInv /\ Accepting /\ Followed /\ [Next]_emitVars => Followed'
  <2> SUFFICES ASSUME TypeInv, Accepting, Followed, [Next]_emitVars PROVE Followed'
    OBVIOUS
  <2>1. CASE EmitStrayJump
    <3>1. phase' \in {"crashed", "rejected"}
      BY <2>1 DEF EmitStrayJump
    <3> QED
      BY <3>1 DEF Followed
  <2>2. CASE UNCHANGED emitVars
    BY <2>2 DEF emitVars, source, running, Followed, GoodNow, Excused, LabelledNow, Abreast
  <2> QED
    BY <2>1, <2>2, NextSteps, FollowedEmit, FollowedEnd, FollowedRun
<1>3. TypeInv /\ Followed => PlainIfsRun
  BY FollowedRuns
<1> QED
  BY <1>1, <1>2, <1>3, TypeInvariant, AcceptingInvariant, PTL DEF Spec
=============================================================================
