--------------------------- MODULE EmitInvariants ---------------------------
(***************************************************************************)
(* What holds of StatementEmit between two steps, for the proofs about it. *)
(*                                                                         *)
(* TypeInv says of each call under way which of its blocks exist. Verified *)
(* is only looked at when the function ends, so PlainProgramsAreAccepted   *)
(* needs an account of every block before that: Good says that each block  *)
(* without a terminator is the one of the insertion point or is owned by   *)
(* exactly one call, which will put a terminator there or return it        *)
(* (Accounted, Apart), that no terminator is within a block (Sound), and   *)
(* what each emitter may rely on when the one it called returns (TopOK,    *)
(* Link). A block that is lost stays lost (Doomed), and only a program     *)
(* that emits something behind a jump loses one (Fine). loop_bbs holds the *)
(* loops under way (LoopsMatch), so that a break in a loop finds its own.  *)
(*                                                                         *)
(* PlainIfsRun speaks of what the blocks do when they run. Labelled says   *)
(* it while they are made: each place of each block, and each call under   *)
(* way, has a label, what the source still has to do there, and the        *)
(* instruction at the place does the first of that (Obeys). Labels are     *)
(* equal up to the silent moves of the source (Kin). A function that runs  *)
(* is abreast of its source (Abreast); the ranks say that branches do not  *)
(* go round without doing or testing anything (Ranked).                    *)
(***************************************************************************)
EXTENDS StatementEmit, FiniteSets

-----------------------------------------------------------------------------
(* Types *)

\* The instructions of the builder.
Instruction == [op : {"do", "return", "br", "test", "init", "update"}, stmt : Nat, yes : Nat, no : Nat]

\* A call of an emitter with its local variables.
FrameType(c) == [emits : {"block", "if", "while", "for"}, stmt : Nat, nodes : Seq(1..Len(c)),
                 bb : Nat, then : Nat, other : Nat]

\* The statements refer to statements of the code, an else-if to an if.
CodeOK(c) ==
    /\ c \in Seq(Statement(Len(c)))
    /\ \A s \in DOMAIN c :
          c[s].else = "if" => Len(c[s].other) = 1 /\ c[c[s].other[1]].kind = "if"

\* Branches lead to blocks.
BlocksOK(bs) ==
    /\ bs \in Seq(Seq(Instruction))
    /\ \A b \in DOMAIN bs : \A i \in DOMAIN bs[b] :
          bs[b][i].op \in {"br", "test"} => bs[b][i].yes \in DOMAIN bs /\ bs[b][i].no \in DOMAIN bs

\* The local variables of a call, for n blocks.
Fits(c, f, n) ==
    /\ f.bb \in 1..n /\ f.then \in 0..n /\ f.other \in 0..n
    /\ f.emits # "block" => f.stmt \in DOMAIN c
    /\ f.emits \in Loops => f.then # 0 /\ f.other # 0

\* The call has made a call.
Called(f) ==
    /\ f.emits = "block" => f.nodes # <<>>
    /\ f.emits = "if" => f.then # 0

\* Every call but the topmost has made a call.
StackOK(c, fs, n) ==
    /\ fs \in Seq(FrameType(c))
    /\ \A k \in 1..Len(fs) : Fits(c, fs[k], n)
    /\ \A k \in 1..(Len(fs) - 1) : Called(fs[k])

\* The entries of loop_bbs are blocks.
LoopsOK(ls, n) == ls \in Seq([merge : 1..n, start : 1..n])

\* The emitter of a function of code c, between two steps.
Typed(c, bs, p, ls, fs, v) ==
    /\ BlocksOK(bs) /\ p \in 1..Len(bs)
    /\ LoopsOK(ls, Len(bs))
    /\ StackOK(c, fs, Len(bs))
    /\ v \in {Calling, Poison, Other} \cup (1..Len(bs))
    /\ fs # <<>> /\ v # Calling => Called(fs[Len(fs)])

\* The inductive invariant of the types: a function that runs has been verified.
TypeInv ==
    /\ CodeOK(code) /\ body \in Seq(1..Len(code)) /\ void \in BOOLEAN
    /\ phase \in {"emitting", "rejected", "crashed", "running", "returned"}
    /\ Typed(code, blocks, ip, loops, frames, value)
    /\ at \in Nat \X Nat /\ (phase = "emitting" => at = <<1, 1>>)
    /\ phase = "running" => Verified(blocks) /\ at[1] \in DOMAIN blocks /\ at[2] \in DOMAIN blocks[at[1]]
    /\ quiet \in 0..(Len(blocks) + 1)

-----------------------------------------------------------------------------
(* The blocks and the calls that own them *)

\* A block without a terminator.
Open(bs, b) == ~Terminated(bs, b)

\* No terminator but at the end of a block.
Sound(bs) == \A b \in DOMAIN bs : \A i \in 1..(Len(bs[b]) - 1) : ~IsTerminator(bs[b][i])

\* The blocks a call will put more instructions in, or return, besides the one of the
\* insertion point.
Own(f) ==
    IF f.emits = "if"
    THEN IF f.then = 0 THEN {} ELSE IF f.other = 0 THEN {f.bb} ELSE {f.bb, f.then}
    ELSE IF f.emits = "while" THEN {f.other}
    ELSE IF f.emits = "for" THEN {f.then, f.other}
    ELSE {}

\* They are as the call has left them.
FrameOK(c, bs, f) ==
    /\ f.emits = "if" =>
         /\ c[f.stmt].kind = "if"
         /\ Open(bs, f.bb)
         /\ f.then = 0 => f.other = 0
         /\ f.then # 0 => f.bb # f.then
         /\ f.other # 0 => /\ c[f.stmt].else # "none"
                           /\ Terminated(bs, f.then) <=> AllJump(c, f.stmt)
    /\ f.emits = "while" => bs[f.other] = <<>>
    /\ f.emits = "for" => bs[f.then] = <<>> /\ bs[f.other] = <<>> /\ f.then # f.other

\* The call f has called g.
Link(c, f, g) ==
    /\ f.emits = "block" =>
         /\ c[Head(f.nodes)].kind \in {"if", "compif"} \cup Loops
         /\ c[Head(f.nodes)].kind = "if" => g.emits = "if" /\ g.stmt = Head(f.nodes) /\ g.bb = f.bb
         /\ c[Head(f.nodes)].kind = "compif" =>
              \/ g.emits = "block" /\ (NothingBehindJumps(c) => ~Cut(c, g.nodes))
              \/ g.emits = "if" /\ g.bb = f.bb /\ (NothingBehindJumps(c) => ~AllJump(c, g.stmt))
         /\ c[Head(f.nodes)].kind \in Loops => g.emits = c[Head(f.nodes)].kind
    /\ f.emits = "if" /\ f.other = 0 =>
         /\ g.emits = "block" /\ g.bb = f.then /\ Flat(c, g.nodes)
         /\ Jumping(c, g.nodes) <=> Jumping(c, c[f.stmt].then)
    /\ f.emits = "if" /\ f.other # 0 =>
         \/ g.emits = "block" /\ g.bb = f.other /\ Jumping(c, g.nodes) /\ AllJump(c, f.stmt)
         \/ g.emits = "if" /\ g.bb = f.other /\ (AllJump(c, g.stmt) <=> AllJump(c, f.stmt))
    /\ f.emits \in Loops => g.emits = "block"
    /\ f.emits = "for" => (NothingBehindJumps(c) => ~Cut(c, g.nodes))

\* The block to go on in.
Cur(p, v) == IF v > 0 THEN v ELSE p

\* No two calls own the same block, and none the one of the insertion point.
Apart(fs, p, v) ==
    /\ \A k \in 1..Len(fs) : p \notin Own(fs[k]) /\ v \notin Own(fs[k])
    /\ \A j, k \in 1..Len(fs) : j # k => Own(fs[j]) \cap Own(fs[k]) = {}

\* Every block without a terminator will get one.
Accounted(bs, fs, p, v) ==
    \A b \in 1..Len(bs) : Open(bs, b) => b = Cur(p, v) \/ \E k \in 1..Len(fs) : b \in Own(fs[k])

\* The calls under way fit each other and the blocks.
CallsOK(c, bs, fs, p, v) ==
    /\ \A k \in 1..Len(fs) : FrameOK(c, bs, fs[k])
    /\ \A k \in 1..(Len(fs) - 1) : Link(c, fs[k], fs[k + 1])
    /\ Apart(fs, p, v)
    /\ Accounted(bs, fs, p, v)

-----------------------------------------------------------------------------
(* What a step does to the blocks *)

\* A terminator stays at the end of its block, or the function is refused.
Grows(bs, ps) ==
    /\ BlocksOK(ps) /\ Len(bs) \in Nat /\ Len(ps) \in Nat /\ Len(bs) <= Len(ps)
    /\ ~Sound(bs) => ~Sound(ps)
    /\ \A b \in 1..Len(bs) : Terminated(bs, b) => Terminated(ps, b) \/ ~Sound(ps)

\* ps is bs with instruction `in' at the end of block b.
PutIs(bs, b, in, ps) ==
    /\ BlocksOK(ps) /\ Len(ps) = Len(bs)
    /\ \A a \in 1..Len(bs) : a # b => ps[a] = bs[a]
    /\ ps[b] = Append(bs[b], in)
    /\ Terminated(ps, b) <=> IsTerminator(in)
    /\ Sound(bs) /\ Open(bs, b) => Sound(ps)
    /\ ~Sound(bs) => ~Sound(ps)
    /\ Terminated(bs, b) => ~Sound(ps)

\* ps is bs with a branch at the end of block b unless b has a terminator.
SafeBrIs(bs, b, ps) ==
    /\ BlocksOK(ps) /\ Len(ps) = Len(bs)
    /\ \A a \in 1..Len(bs) : a # b => ps[a] = bs[a]
    /\ Terminated(ps, b)
    /\ Terminated(bs, b) => ps = bs
    /\ Sound(bs) => Sound(ps)
    /\ ~Sound(bs) => ~Sound(ps)

\* ps is bs with n more blocks.
CreateIs(bs, n, ps) ==
    /\ BlocksOK(ps) /\ Len(ps) = Len(bs) + n /\ Len(bs) \in Nat
    /\ \A a \in 1..Len(bs) : ps[a] = bs[a]
    /\ \A a \in (Len(bs) + 1)..(Len(bs) + n) : ps[a] = <<>> /\ Open(ps, a)
    /\ Sound(bs) => Sound(ps)
    /\ ~Sound(bs) => ~Sound(ps)

\* ps is bs when the branches of an if have been emitted and joined in block m.
JoinIs(bs, bb, then, other, m, ps) ==
    /\ Grows(bs, ps)
    /\ IF m \in 1..Len(bs) THEN Len(ps) = Len(bs) ELSE m = Len(bs) + 1 /\ Len(ps) = m /\ ps[m] = <<>>
    /\ \A a \in 1..Len(bs) : a \notin {bb, then, other} => ps[a] = bs[a]
    /\ Terminated(ps, bb) /\ Terminated(ps, then) /\ (other # 0 => Terminated(ps, other))
    /\ Sound(bs) /\ Open(bs, bb) => Sound(ps)
    /\ Terminated(bs, bb) => ~Sound(ps)
    /\ other # 0 /\ Terminated(bs, other) /\ other \notin {bb, then} => ps[other] = bs[other]

\* ps is bs with a loop of n blocks, which block p leads to and the first of which tests.
LoopIs(bs, p, n, ps) ==
    /\ Grows(bs, ps) /\ Len(ps) = Len(bs) + n
    /\ \A a \in 1..Len(bs) : a # p => ps[a] = bs[a]
    /\ Terminated(ps, p) /\ Terminated(ps, Len(bs) + 1)
    /\ \A a \in (Len(bs) + 2)..Len(ps) : ps[a] = <<>>
    /\ Sound(bs) /\ Open(bs, p) => Sound(ps)
    /\ Terminated(bs, p) => ~Sound(ps)

\* ps is bs when the body of a for loop has ended in block p.
ForIs(bs, p, update, ps) ==
    /\ Grows(bs, ps) /\ Len(ps) = Len(bs)
    /\ \A a \in 1..Len(bs) : a \notin {p, update} => ps[a] = bs[a]
    /\ Terminated(bs, p) => ~Sound(ps)
    /\ p # update =>
         /\ Terminated(ps, p) /\ Terminated(ps, update)
         /\ Sound(bs) /\ Open(bs, p) /\ Open(bs, update) => Sound(ps)

-----------------------------------------------------------------------------
(* The insertion point and the value between two steps *)

\* Whether the block of the insertion point must be open: always, but in a program that
\* emits something behind a jump.
Live(c, fs) == NothingBehindJumps(c) \/ (Len(fs) > 1 /\ fs[Len(fs) - 1].emits = "if")

\* The call on top has just been made, or goes on with its next statement.
AtStart(c, bs, p, f, live) ==
    /\ f.emits \in {"block", "if"} /\ p = f.bb /\ (live => Open(bs, p))
    /\ f.emits = "if" => f.then = 0

\* The first statement of a block has been emitted.
Jumped(c, bs, p, f, v) ==
    /\ p = f.bb /\ Terminated(bs, p)
    /\ v = IF c[Head(f.nodes)].kind = "if" THEN Poison ELSE Other

\* It does not end the block.
Passed(c, bs, p, f, v, live) ==
    /\ c[Head(f.nodes)].kind = "do" => v = Other
    /\ v = Other => p = f.bb /\ (live => Open(bs, p))
    /\ v > 0 => (live => Open(bs, v)) /\ (p = v \/ Terminated(bs, p))
    /\ v = Poison => /\ ~NothingBehindJumps(c) /\ c[Head(f.nodes)].kind = "compif"
                     /\ p = f.bb /\ Terminated(bs, p)
BlockWaits(c, bs, p, f, v, live) ==
    IF Ends(c, Head(f.nodes)) THEN Jumped(c, bs, p, f, v) ELSE Passed(c, bs, p, f, v, live)

\* The body of an if has been emitted, or its else branch.
ThenEmitted(c, bs, p, f, v) ==
    p = f.then /\ v = p /\ (Terminated(bs, p) <=> Jumping(c, c[f.stmt].then))
ElseEmitted(c, bs, p, f, v) ==
    /\ Terminated(bs, f.other) /\ v \in {p, Poison}
    /\ IF AllJump(c, f.stmt) THEN Terminated(bs, p) ELSE Open(bs, p) /\ v = p

\* The body of a loop has been emitted.
BodyEmitted(c, bs, p, f, v) ==
    v = p /\ (f.emits = "for" /\ NothingBehindJumps(c) => Open(bs, p))

\* What the call on top may assume when it goes on: the agreement of the emitters.
TopOK(c, bs, p, f, v, live) ==
    /\ v = Calling => AtStart(c, bs, p, f, live)
    /\ v # Calling /\ f.emits = "block" => BlockWaits(c, bs, p, f, v, live)
    /\ v # Calling /\ f.emits = "if" /\ f.other = 0 => ThenEmitted(c, bs, p, f, v)
    /\ v # Calling /\ f.emits = "if" /\ f.other # 0 => ElseEmitted(c, bs, p, f, v)
    /\ v # Calling /\ f.emits \in Loops => BodyEmitted(c, bs, p, f, v)

\* The body of the function need not end with a jump: FnType::emit puts a return behind
\* it, or may refuse it.
Excused == void \/ ~Cut(code, body)

\* The body of the function returns, whatever jumps there are.
First(c, vd, bs, p, fs) ==
    IF fs = <<>> THEN NothingBehindJumps(c) => vd \/ Terminated(bs, p)
    ELSE fs[1].emits = "block" /\ (NothingBehindJumps(c) => vd \/ Cut(c, fs[1].nodes))

\* The function as it should be between two steps.
Good(c, vd, bs, p, fs, v) ==
    /\ Sound(bs)
    /\ CallsOK(c, bs, fs, p, v)
    /\ IF fs = <<>> THEN v = p ELSE TopOK(c, bs, p, fs[Len(fs)], v, Live(c, fs))
    /\ First(c, vd, bs, p, fs)

\* The verifier will refuse the function: a terminator is not the last instruction
\* of its block, or will not be.
Doomed(bs, fs) ==
    \/ ~Sound(bs)
    \/ \E k \in 1..Len(fs) : fs[k].emits = "if" /\ Terminated(bs, fs[k].bb)

\* Good, or lost already, which takes something emitted behind a jump.
Fine(c, vd, bs, p, fs, v) ==
    Good(c, vd, bs, p, fs, v) \/ (Doomed(bs, fs) /\ ~NothingBehindJumps(c))

-----------------------------------------------------------------------------
(* The loops under way and loop_bbs *)

\* What the call f emits, or goes on with, are statements of `outside'.
Held(outside, f) ==
    /\ f.emits = "if" => f.stmt \in outside
    /\ \A i \in DOMAIN f.nodes : f.nodes[i] \in outside

\* The call for an if has one.
IfCall(c, f) == f.emits = "if" => c[f.stmt].kind = "if"

\* Statements outside of all loops are in no other.
Outside(c, outside) ==
    \A s \in outside :
        /\ c[s].kind \notin {"break", "continue"}
        /\ c[s].kind \in {"if", "compif"} =>
              /\ \A i \in DOMAIN c[s].then : c[s].then[i] \in outside
              /\ \A i \in DOMAIN c[s].other : c[s].other[i] \in outside

\* loop_bbs has the loops under way, in their order.
Entry(f) == [merge |-> f.other, start |-> f.then]
Matches(w, ls, m, fs, n) ==
    /\ w \in [1..m -> 1..n]
    /\ \A i, j \in 1..m : i < j => w[i] < w[j]
    /\ \A k \in 1..n : fs[k].emits \in Loops <=> \E i \in 1..m : w[i] = k
    /\ \A i \in 1..m : ls[i] = Entry(fs[w[i]])
LoopsMatch(ls, fs) == \E w : Matches(w, ls, Len(ls), fs, Len(fs))

\* The calls of emitters outside of all loops are for statements that are.
CallsHeld(fs, outside) ==
    \A k \in 1..Len(fs) : (\A j \in 1..k : fs[j].emits \notin Loops) => Held(outside, fs[k])
IfCalls(c, fs) == \A k \in 1..Len(fs) : IfCall(c, fs[k])

\* Every break and continue of the body is in a loop, and so are those to come.
StillInLoops ==
    JumpsInLoops(code, body) =>
        \E outside \in SUBSET (1..Len(code)) : Outside(code, outside) /\ CallsHeld(frames, outside)

\* The inductive invariant. In a program of plain ifs the function is fine between two
\* steps: good, or refused whatever comes, and that only when it emits behind a jump.
Emitting ==
    phase = "emitting" =>
        /\ LoopsMatch(loops, frames) /\ IfCalls(code, frames)
        /\ StillInLoops
        /\ PlainIfs(code) => Fine(code, Excused, blocks, ip, frames, value)
Accepting == TypeInv /\ Emitting /\ PlainProgramsAreAccepted

-----------------------------------------------------------------------------
(* What the source still has to do *)

\* What there may be to do, and a list of it: what is left of the source.
Todos(c) == [does : {"statement", "again", "test"}, stmt : 1..Len(c)]
Rests(c) == Seq(Todos(c))

\* Something to do and what is behind it; a list of statements and what is behind it.
Doing(d, s, k) == <<Todo(d, s)>> \o k
Listed(list, k) == Statements(list) \o k

\* What an if does when its condition is false.
Otherwise(c, s, k) == Branch(c, s) \o k

\* Sets of rests that no silent move of the source enters or leaves. Two rests are the
\* same up to silent moves if no such set tells them apart.
Unmoved(c, S) == \A x \in Rests(c) : Silent(c, x) => (x \in S <=> Moved(c, x) \in S)

\* The rests that are the same as r, by the sets they are in.
Kin(c, r) == {S \in SUBSET Rests(c) : Unmoved(c, S) /\ r \in S}

\* What comes next at `r', which has an effect, tests a condition or returns.
Acts(c, r, op, s, next) ==
    r \in Rests(c) /\ ~Silent(c, r) /\ Does(c, r) = <<op, s>> /\ After(c, r, FALSE) = next
Tests(c, r, s, yes, no) ==
    /\ r \in Rests(c) /\ ~Silent(c, r) /\ Does(c, r) = <<"test", s>>
    /\ After(c, r, TRUE) = yes /\ After(c, r, FALSE) = no
Finishes(c, r, s) == r \in Rests(c) /\ ~Silent(c, r) /\ Does(c, r) = <<"return", s>>

-----------------------------------------------------------------------------
(* What the blocks do, said of the source *)

\* A label of a block or of a place in it says what the source has to do there, up to
\* silent moves: labels are a function from blocks and places to kins.
End(bs, L, b) == L[b][Len(bs[b]) + 1]

\* An instruction does what its label says, and leads to the label behind it.
Obeys(c, L, in, here, next) ==
    /\ in.op \in {"do", "init", "update"} =>
         \E r, q \in Rests(c) : Acts(c, r, in.op, in.stmt, q) /\ here = Kin(c, r) /\ next = Kin(c, q)
    /\ in.op = "test" =>
         \E r, y, n \in Rests(c) : /\ Tests(c, r, in.stmt, y, n) /\ here = Kin(c, r)
                                   /\ L[in.yes][1] = Kin(c, y) /\ L[in.no][1] = Kin(c, n)
    /\ in.op = "return" => \E r \in Rests(c) : Finishes(c, r, in.stmt) /\ here = Kin(c, r)
    /\ in.op = "br" => here = L[in.yes][1]

\* Each instruction of the blocks obeys.
Told(c, bs, L) ==
    \A b \in 1..Len(bs) : \A i \in 1..Len(bs[b]) : Obeys(c, L, bs[b][i], L[b][i], L[b][i + 1])

\* Blocks with a terminator have a rank, the order in which they got it. A branch leads
\* to a block that does something or tests, or has no terminator yet, or got it later.
Busy(bs, b) == bs[b] # <<>> /\ bs[b][1].op # "br"
Terminals(bs) == {b \in 1..Len(bs) : Terminated(bs, b)}
Leads(bs, R, b, t) == Busy(bs, t) \/ Open(bs, t) \/ R[b] < R[t]
Ranked(bs, R) ==
    \A b \in Terminals(bs) :
        /\ R[b] \in 1..Cardinality(Terminals(bs))
        /\ bs[b][Len(bs[b])].op = "br" => Leads(bs, R, b, bs[b][Len(bs[b])].yes)

\* The labels and the ranks are right.
Sim(c, bs, L, R) == Told(c, bs, L) /\ Ranked(bs, R)

-----------------------------------------------------------------------------
(* What the calls under way will emit, said of the source *)

\* What the source has to do behind a call that f has made or makes next, when it has to
\* do k behind f; and what it has to do when f begins.
Behind(f, k) ==
    IF f.emits = "block" THEN (IF f.nodes = <<>> THEN k ELSE Listed(Tail(f.nodes), k))
    ELSE IF f.emits = "if" THEN k ELSE Doing("again", f.stmt, k)

\* The source of a call that has not begun.
Whole(f, k) == IF f.emits = "block" THEN Listed(f.nodes, k) ELSE Doing("statement", f.stmt, k)

\* The blocks of a loop are those that its breaks and continues lead to; it is the loop of
\* one of the calls before the k-th.
Target(c, L, fs, k, loop, r) ==
    /\ InLoop(r) /\ L[loop.merge][1] = Kin(c, Tail(FromLoopEnd(r)))
    /\ L[loop.start][1] = Kin(c, FromLoopEnd(r))
    /\ \E j \in 1..(k - 1) : fs[j].emits \in Loops /\ loop = Entry(fs[j])

\* Behind the k-th of n calls the source has to do K[k + 1], in D[k + 1] loops.
Chain(c, L, ls, fs, n, K, D) ==
    /\ K[1] = <<>> /\ D[1] = 0
    /\ \A k \in 1..(n + 1) : /\ K[k] \in Rests(c) /\ D[k] \in Nat
                             /\ D[k] # 0 => Target(c, L, fs, k, ls[D[k]], K[k])
    /\ \A k \in 1..n : /\ K[k + 1] = Behind(fs[k], K[k])
                       /\ D[k + 1] = IF fs[k].emits \in Loops THEN D[k] + 1 ELSE D[k]
    /\ \A j, k \in 1..(n + 1) : j <= k => D[j] <= D[k]

\* The blocks of a call, with k behind it.
CallRuns(c, bs, L, f, k) ==
    /\ f.emits = "if" =>
         /\ End(bs, L, f.bb) = Kin(c, Doing("statement", f.stmt, k))
         /\ f.then # 0 => L[f.then][1] = Kin(c, Listed(c[f.stmt].then, k))
         /\ f.other # 0 => /\ L[f.other][1] = Kin(c, Otherwise(c, f.stmt, k))
                           /\ Open(bs, f.then) => End(bs, L, f.then) = Kin(c, k)
    /\ f.emits = "while" =>
         /\ c[f.stmt].kind = "while" /\ Busy(bs, f.bb) /\ f.then = f.bb
         /\ L[f.bb][1] = Kin(c, Doing("statement", f.stmt, k)) /\ L[f.other][1] = Kin(c, k)
    /\ f.emits = "for" =>
         /\ c[f.stmt].kind = "for" /\ Busy(bs, f.bb)
         /\ L[f.bb][1] = Kin(c, Doing("test", f.stmt, k)) /\ L[f.other][1] = Kin(c, k)
         /\ L[f.then][1] = Kin(c, Doing("again", f.stmt, k))

\* The block of the insertion point goes on with what the call on top goes on with; behind
\* an else-if it is empty.
Here(c, bs, L, p, fs, v, K) ==
    /\ v = Calling /\ Open(bs, p) => End(bs, L, p) = Kin(c, Whole(fs[Len(fs)], K[Len(fs)]))
    /\ v # Calling /\ Open(bs, Cur(p, v)) => End(bs, L, Cur(p, v)) = Kin(c, K[Len(fs) + 1])
Joins(c, bs, p, fs, v) ==
    v # Calling /\ fs # <<>> /\ fs[Len(fs)].emits = "if" /\ fs[Len(fs)].other # 0
        /\ ~AllJump(c, fs[Len(fs)].stmt) => bs[p] = <<>>

\* The blocks emitted so far do what the source of the function does.
Labelled(c, list, bs, p, ls, fs, v, L, R, K, D) ==
    /\ Sim(c, bs, L, R)
    /\ L[1][1] = Kin(c, Listed(list, <<>>))
    /\ Chain(c, L, ls, fs, Len(fs), K, D) /\ D[Len(fs) + 1] = Len(ls)
    /\ \A k \in 1..Len(fs) : CallRuns(c, bs, L, fs[k], K[k])
    /\ Here(c, bs, L, p, fs, v, K)
    /\ Joins(c, bs, p, fs, v)

-----------------------------------------------------------------------------
(* What a step does to the labels *)

\* The blocks and labels become more, and change at the ends of the blocks T only.
Extends(bs, L, ps, M, T) ==
    /\ Len(bs) \in Nat /\ Len(ps) \in Nat /\ Len(bs) <= Len(ps)
    /\ \A a \in 1..Len(bs) : /\ M[a][1] = L[a][1] /\ (Busy(bs, a) => Busy(ps, a))
                             /\ a \notin T => ps[a] = bs[a] /\ End(ps, M, a) = End(bs, L, a)

\* The labels go on behind an instruction with an effect.
PutFollows(c, bs, L, ps, R, b, q) ==
    \E M : Sim(c, ps, M, R) /\ Extends(bs, L, ps, M, {b}) /\ End(ps, M, b) = Kin(c, q)

\* The labels of new blocks are E.
CreateFollows(c, bs, L, ps, R, n, E) ==
    \E M : /\ Sim(c, ps, M, R) /\ Extends(bs, L, ps, M, {})
           /\ \A a \in (Len(bs) + 1)..(Len(bs) + n) : M[a][1] = E[a]

\* What an if has to do, and where its branches meet.
Branches(c, bs, L, bb, then, s, k) ==
    /\ bb # then /\ Open(bs, bb) /\ k \in Rests(c)
    /\ Tests(c, Doing("statement", s, k), s, Listed(c[s].then, k), Otherwise(c, s, k))
    /\ Doing("statement", s, k) \in Rests(c)
    /\ Listed(c[s].then, k) \in Rests(c) /\ Otherwise(c, s, k) \in Rests(c)
    /\ End(bs, L, bb) = Kin(c, Doing("statement", s, k))
    /\ L[then][1] = Kin(c, Listed(c[s].then, k))
    /\ Open(bs, then) => End(bs, L, then) = Kin(c, k)
Meets(c, bs, L, ps, T, m, k) ==
    \E M, Q : /\ Sim(c, ps, M, Q) /\ Extends(bs, L, ps, M, T)
              /\ ps[m] = <<>> /\ M[m][1] = Kin(c, k)

\* The blocks ps with a loop that block p leads to.
LoopRuns(c, bs, L, ps, p, before) ==
    /\ \E Q : Sim(c, ps, L, Q) /\ Extends(bs, L, ps, L, {p, before})
    /\ Busy(ps, before)

\* The call g finds its blocks in loop_bbs and their labels, if it is a loop.
EntersLoop(c, L, ls, K, D, n, g) ==
    g.emits \in Loops =>
        /\ ls[D[n + 1] + 1] = Entry(g)
        /\ L[g.other][1] = Kin(c, K[n + 1])
        /\ L[g.then][1] = Kin(c, Doing("again", g.stmt, K[n + 1]))

\* The chain with one more call on it, the call g.
Pushed(c, L, ls, fs, n, K, D, g) ==
    \E J, E : /\ Chain(c, L, ls, fs, n + 1, J, E)
              /\ \A k \in 1..(n + 1) : J[k] = K[k] /\ E[k] = D[k]
              /\ J[n + 2] = Behind(g, K[n + 1])
              /\ E[n + 2] = IF g.emits \in Loops THEN D[n + 1] + 1 ELSE D[n + 1]

-----------------------------------------------------------------------------
(* A function that runs *)

\* The blocks and the source have come to the same place; no more branches have run in a
\* row than lead there.
Abreast(L, R) ==
    /\ Sim(code, blocks, L, R)
    /\ rest \in Rests(code) /\ L[at[1]][at[2]] = Kin(code, rest)
    /\ \/ quiet = 0
       \/ at[2] = 1 /\ Busy(blocks, at[1]) /\ quiet <= Cardinality(Terminals(blocks))
       \/ quiet < R[at[1]]
=============================================================================
