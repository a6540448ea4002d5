---------------------------- MODULE StatementEmit ----------------------------
(***************************************************************************)
(* How the statements of a function become basic blocks (stmt.cpp and      *)
(* FnType::emit), and what the blocks do when they run.                    *)
(*                                                                         *)
(* The emitters call each other: a block the emitters of its statements,   *)
(* these the emitters of their branches. The calls under way are on        *)
(* `frames', each with its local variables; a step is what an emitter does *)
(* between two calls. They talk to each other through the insertion point  *)
(* of the builder, through the value each returns (the basic block to go   *)
(* on in, or the block poison) and through the stack loop_bbs. An          *)
(* instruction is appended wherever the insertion point happens to be,     *)
(* behind a terminator too; only the verifier at the end of the function   *)
(* looks at the result.                                                    *)
(*                                                                         *)
(* Expressions are opaque: a statement `do' stands for one with an effect, *)
(* a condition may be true or false each time it is evaluated. A behaviour *)
(* emits one function and then runs the blocks next to the source, step by *)
(* step, with the same outcomes of the conditions.                         *)
(***************************************************************************)
EXTENDS Integers, Sequences

Jumps == {"return", "break", "continue"}
Loops == {"while", "for"}

\* The statements of a function are numbered. `then' are the statements of the body,
\* `other' those of the else branch: a block, or one more if.
Statement(n) ==
    [kind : {"do", "if", "compif"} \cup Jumps \cup Loops,
     then : Seq(1..n), other : Seq(1..n), else : {"none", "block", "if"}, holds : BOOLEAN]

\* A condition of a compile time if `holds' or not.
IsProgram(p) ==
    /\ p.code \in Seq(Statement(Len(p.code)))
    /\ p.body \in Seq(1..Len(p.code))
    /\ \A s \in DOMAIN p.code :
          p.code[s].else = "if" => Len(p.code[s].other) = 1 /\ p.code[p.code[s].other[1]].kind = "if"

CONSTANTS Programs    \* the functions to emit: their statements, and which are the body

ASSUME ProgramsAssumption == \A p \in Programs : IsProgram(p)

VARIABLES
    code,      \* the statements of the function
    body,      \* those of its body
    void,      \* whether its return type is void
    phase,     \* "emitting", "rejected", "crashed" (the compiler), "running", "returned"
    blocks,    \* the emitted function: for each basic block its instructions
    ip,        \* the block of the insertion point
    loops,     \* loop_bbs: where break and continue go, outermost loop first
    frames,    \* the calls of emitters under way, outermost first
    value,     \* what the call that has just ended returned, or Calling
    at,        \* the instruction to run next: <<block, index>>
    rest,      \* what the source still has to do, next first
    quiet      \* how many branches ran since the last effect or test

source == <<code, body, void>>
running == <<at, rest, quiet>>
emitVars == <<source, phase, blocks, ip, loops, frames, value, running>>

-----------------------------------------------------------------------------
(* Programs by their shape; `c' is the code of one *)

Flat(c, list) == \A i \in DOMAIN list : c[list[i]].kind \in {"do"} \cup Jumps
Jumping(c, list) == Flat(c, list) /\ \E i \in DOMAIN list : c[list[i]].kind \in Jumps

\* A chain of ifs whose branches all jump away, the last else as well.
AllJump(c, s) ==
    \E chain \in SUBSET DOMAIN c :
        /\ s \in chain
        /\ \A t \in chain : /\ Jumping(c, c[t].then)
                            /\ \/ c[t].else = "block" /\ Jumping(c, c[t].other)
                               \/ c[t].else = "if" /\ c[t].other[1] \in chain

\* An if whose branches hold no other branches or loops: without an else branch, or
\* both of them jump away; a chain of such ifs of which none or all jump.
PlainIf(c, s) ==
    \/ AllJump(c, s)
    \/ /\ Flat(c, c[s].then)
       /\ \/ c[s].else = "none"
          \/ c[s].else = "if" /\ ~Jumping(c, c[s].then) /\ ~AllJump(c, c[s].other[1])

PlainIfs(c) == \A s \in DOMAIN c : c[s].kind = "if" => PlainIf(c, s)

\* A statement behind which nothing more of its list is emitted.
Ends(c, s) == c[s].kind \in Jumps \/ (c[s].kind = "if" /\ AllJump(c, s))
Cut(c, list) == \E i \in DOMAIN list : Ends(c, list[i])

\* No list is cut that something is emitted behind: the body of a for loop, a
\* branch of a compile time if.
NothingBehindJumps(c) ==
    \A s \in DOMAIN c :
        c[s].kind \in {"for", "compif"} => ~Cut(c, c[s].then) /\ ~Cut(c, c[s].other)

\* Every break and continue of the body is in a loop: the statements outside of all
\* loops hold none.
JumpsInLoops(c, list) ==
    \E outside \in SUBSET DOMAIN c :
        /\ \A i \in DOMAIN list : list[i] \in outside
        /\ \A s \in outside :
              /\ c[s].kind \notin {"break", "continue"}
              /\ c[s].kind \in {"if", "compif"} =>
                    /\ \A i \in DOMAIN c[s].then : c[s].then[i] \in outside
                    /\ \A i \in DOMAIN c[s].other : c[s].other[i] \in outside

-----------------------------------------------------------------------------
(* The builder *)

\* Instructions. A conditional branch includes the evaluation of its condition.
Instr(op, s, yes, no) == [op |-> op, stmt |-> s, yes |-> yes, no |-> no]
Effect(s)         == Instr("do", s, 0, 0)
Ret(s)            == Instr("return", s, 0, 0)
Br(to)            == Instr("br", 0, to, to)
CondBr(s, yes, no) == Instr("test", s, yes, no)
IterInit(s)       == Instr("init", s, 0, 0)
IterUpdate(s)     == Instr("update", s, 0, 0)

IsTerminator(i) == i.op \in {"return", "br", "test"}

\* What an emitter returns: a basic block, something else, or the block poison. There
\* is no value while the call on top of `frames' goes on.
Calling == -2
Poison == -1
Other == 0

\* getTerminator: the last instruction, when it is a terminator.
Terminated(bs, b) == bs[b] # <<>> /\ IsTerminator(bs[b][Len(bs[b])])

Put(bs, b, instr) == [bs EXCEPT ![b] = Append(@, instr)]
Create(bs, n) == bs \o [k \in 1..n |-> <<>>]

\* A fault: a branch is appended whatever the block already ends with.
UnsafeBr(bs, b, to) == Put(bs, b, Br(to))

\* create_safe_br, and do_maybe_br of an if.
SafeBr(bs, b, to) == IF Terminated(bs, b) THEN bs ELSE Put(bs, b, Br(to))

-----------------------------------------------------------------------------
(* Calls of emitters *)

\* The local variables of a call: of BlockStmt::emit the statements left and `bb'; of
\* IfStmt::emit start_bb, then_bb and else_bb (0 when not created yet); of
\* WhileStmt::emit and ForStmt::emit the block of the condition, the one that
\* continue leads to, and merge_bb.
Emitter(emits, s, bb, then, other) ==
    [emits |-> emits, stmt |-> s, nodes |-> <<>>, bb |-> bb, then |-> then, other |-> other]
BlockEmitter(nodes, bb) ==
    [emits |-> "block", stmt |-> 0, nodes |-> nodes, bb |-> bb, then |-> 0, other |-> 0]
IfEmitter(s, bb) == Emitter("if", s, bb, 0, 0)

Top == frames[Len(frames)]
Under == SubSeq(frames, 1, Len(frames) - 1)
TopBecomes(calls) == frames' = Under \o calls

\* The call on top goes on in its emitter `emits'; the call it made has returned.
GoesOn(emits) == phase = "emitting" /\ frames # <<>> /\ Top.emits = emits /\ value = Calling
Resumes(emits) == phase = "emitting" /\ frames # <<>> /\ Top.emits = emits /\ value # Calling

\* BlockStmt::emit calls the emitter of its next statement.
Node == Head(Top.nodes)
AtNode(kinds) == GoesOn("block") /\ Top.nodes # <<>> /\ code[Node].kind \in kinds

Returns(v) == frames' = Under /\ value' = v

\* ExprStmt, VarDeclStmt, AssignmentStmt: nothing that BlockStmt::emit looks at.
EmitDo ==
    /\ AtNode({"do"})
    /\ blocks' = Put(blocks, ip, Effect(Node))
    /\ value' = Other
    /\ UNCHANGED <<source, phase, ip, loops, frames, running>>

\* ReturnStmt::emit
EmitReturn ==
    /\ AtNode({"return"})
    /\ blocks' = Put(blocks, ip, Ret(Node))
    /\ value' = Other
    /\ UNCHANGED <<source, phase, ip, loops, frames, running>>

\* A fault: break and continue take the outermost loop.
EmitJumpOutermost ==
    /\ AtNode({"break", "continue"}) /\ loops # <<>>
    /\ blocks' = Put(blocks, ip, Br(IF code[Node].kind = "break" THEN loops[1].merge ELSE loops[1].start))
    /\ value' = Other
    /\ UNCHANGED <<source, phase, ip, loops, frames, running>>

\* BreakStmt::emit and ContinueStmt::emit
EmitJump ==
    /\ AtNode({"break", "continue"}) /\ loops # <<>>
    /\ LET loop == loops[Len(loops)]
       IN  blocks' = Put(blocks, ip, Br(IF code[Node].kind = "break" THEN loop.merge ELSE loop.start))
    /\ value' = Other
    /\ UNCHANGED <<source, phase, ip, loops, frames, running>>

\* The last entry of loop_bbs is read before do_break_continue finds that there is none:
\* the read may crash, or the error is reported.
EmitStrayJump ==
    /\ AtNode({"break", "continue"}) /\ loops = <<>>
    /\ phase' \in {"crashed", "rejected"}
    /\ UNCHANGED <<source, blocks, ip, loops, frames, value, running>>

\* The emitter of a statement has returned: a basic block becomes the block to go on in.
NextNode ==
    /\ Resumes("block") /\ value # Poison /\ code[Node].kind \notin Jumps
    /\ LET next == IF value > 0 THEN value ELSE Top.bb
       IN  /\ TopBecomes(<<BlockEmitter(Tail(Top.nodes), next)>>)
           /\ ip' = next
    /\ value' = Calling
    /\ UNCHANGED <<source, phase, blocks, loops, running>>

\* Poison or a terminating statement ends the block.
CutBlock ==
    /\ Resumes("block") /\ (value = Poison \/ code[Node].kind \in Jumps)
    /\ ip' = IF value = Poison THEN ip ELSE Top.bb
    /\ Returns(Top.bb)
    /\ UNCHANGED <<source, phase, blocks, loops, running>>

EndBlock ==
    /\ GoesOn("block") /\ Top.nodes = <<>>
    /\ Returns(Top.bb)
    /\ UNCHANGED <<source, phase, blocks, ip, loops, running>>

\* IfStmt::emit, in four steps: the call, the body, the else branch, the branches.
EmitIf ==
    /\ AtNode({"if"})
    /\ TopBecomes(<<Top, IfEmitter(Node, ip)>>)
    /\ UNCHANGED <<source, phase, blocks, ip, loops, value, running>>

EmitThen ==
    /\ GoesOn("if")
    /\ LET then == Len(blocks) + 1
       IN  /\ ip' = then
           /\ TopBecomes(<<[Top EXCEPT !.then = then], BlockEmitter(code[Top.stmt].then, then)>>)
    /\ blocks' = Create(blocks, 1)
    /\ UNCHANGED <<source, phase, loops, value, running>>

\* The branch behind `else': a block, or the if of an else-if.
ElseCall(s, bb) ==
    IF code[s].else = "if" THEN IfEmitter(code[s].other[1], bb)
    ELSE BlockEmitter(code[s].other, bb)

EmitElse ==
    /\ Resumes("if") /\ code[Top.stmt].else # "none" /\ Top.other = 0
    /\ LET other == Len(blocks) + 1
       IN  /\ ip' = other
           /\ TopBecomes(<<[Top EXCEPT !.other = other], ElseCall(Top.stmt, other)>>)
    /\ blocks' = Create(blocks, 1)
    /\ value' = Calling
    /\ UNCHANGED <<source, phase, loops, running>>

HasElse == Top.other # 0
BranchesEmitted == Resumes("if") /\ (code[Top.stmt].else = "none" \/ HasElse)
BothTerminated == HasElse /\ Terminated(blocks, Top.other) /\ Terminated(blocks, Top.then)

\* Both branches jump away.
EndIfPoisoned ==
    /\ BranchesEmitted /\ BothTerminated
    /\ blocks' = Put(blocks, Top.bb, CondBr(Top.stmt, Top.then, Top.other))
    /\ ip' = Top.bb
    /\ Returns(Poison)
    /\ UNCHANGED <<source, phase, loops, running>>

\* The block where the branches meet: whatever block the insertion point has moved to;
\* a new one only if it has not moved. (if_merge_bbs is filled and emptied behind the
\* branches: no emitter sees it filled.)
MergeBlock == IF ip # Top.then THEN ip ELSE Len(blocks) + 1

EndIf ==
    /\ BranchesEmitted /\ ~BothTerminated
    /\ LET created == IF ip # Top.then THEN blocks ELSE Create(blocks, 1)
           tested  == Put(created, Top.bb,
                          CondBr(Top.stmt, Top.then, IF HasElse THEN Top.other ELSE MergeBlock))
           joined  == SafeBr(tested, Top.then, MergeBlock)
       IN  blocks' = IF HasElse THEN SafeBr(joined, Top.other, MergeBlock) ELSE joined
    /\ ip' = MergeBlock
    /\ Returns(MergeBlock)
    /\ UNCHANGED <<source, phase, loops, running>>

\* CompIfStmt::emit: what it calls is emitted in place, and returns in its stead.
EmitCompIf ==
    /\ AtNode({"compif"})
    /\ \/ /\ code[Node].holds
          /\ TopBecomes(<<Top, BlockEmitter(code[Node].then, ip)>>)
          /\ value' = value
       \/ /\ ~code[Node].holds /\ code[Node].else # "none"
          /\ TopBecomes(<<Top, ElseCall(Node, ip)>>)
          /\ value' = value
       \/ /\ ~code[Node].holds /\ code[Node].else = "none"
          /\ frames' = frames
          /\ value' = Other
    /\ UNCHANGED <<source, phase, blocks, ip, loops, running>>

\* WhileStmt::emit, for `loop' too, whose condition is always true.
EmitWhile ==
    /\ AtNode({"while"})
    /\ LET before == Len(blocks) + 1
           then   == before + 1
           merge  == before + 2
           entered == Put(Create(blocks, 3), ip, Br(before))
       IN  /\ blocks' = Put(entered, before, CondBr(Node, then, merge))
           /\ ip' = then
           /\ loops' = Append(loops, [merge |-> merge, start |-> before])
           /\ TopBecomes(<<Top, Emitter("while", Node, before, before, merge),
                           BlockEmitter(code[Node].then, then)>>)
    /\ UNCHANGED <<source, phase, value, running>>

EndWhile ==
    /\ Resumes("while")
    /\ blocks' = SafeBr(blocks, ip, Top.bb)
    /\ ip' = Top.other
    /\ Returns(Top.other)
    /\ loops' = SubSeq(loops, 1, Len(loops) - 1)
    /\ UNCHANGED <<source, phase, running>>

\* ForStmt::emit. The branch to the update block is appended unconditionally, and
\* the insertion point stays in the update block: the block around moves it.
EmitFor ==
    /\ AtNode({"for"})
    /\ LET pre    == Len(blocks) + 1
           then   == pre + 1
           update == pre + 2
           merge  == pre + 3
           entered == Put(Put(Create(blocks, 4), ip, IterInit(Node)), ip, Br(pre))
       IN  /\ blocks' = Put(entered, pre, CondBr(Node, then, merge))
           /\ ip' = then
           /\ loops' = Append(loops, [merge |-> merge, start |-> update])
           /\ TopBecomes(<<Top, Emitter("for", Node, pre, update, merge),
                           BlockEmitter(code[Node].then, then)>>)
    /\ UNCHANGED <<source, phase, value, running>>

EndFor ==
    /\ Resumes("for")
    /\ LET update == Top.then
           ended  == Put(blocks, ip, Br(update))
       IN  /\ blocks' = Put(Put(ended, update, IterUpdate(Top.stmt)), update, Br(Top.bb))
           /\ ip' = update
    /\ Returns(Top.other)
    /\ loops' = SubSeq(loops, 1, Len(loops) - 1)
    /\ UNCHANGED <<source, phase, running>>

\* A fault: the end of a block is not looked at.
VerifiedMiddle(bs) ==
    \A b \in DOMAIN bs : \A i \in 1..(Len(bs[b]) - 1) : ~IsTerminator(bs[b][i])

\* verifyFunction: every block ends with its only terminator.
Verified(bs) ==
    \A b \in DOMAIN bs :
        /\ Terminated(bs, b)
        /\ \A i \in 1..(Len(bs[b]) - 1) : ~IsTerminator(bs[b][i])

\* What the source has to do: statements, the end of an iteration of a loop, the test of
\* a for loop.
Todo(does, s) == [does |-> does, stmt |-> s]
Statements(list) == [i \in DOMAIN list |-> Todo("statement", list[i])]

\* FnType::emit: a return behind the body when nothing is returned and the last block is
\* still open; then the function is verified.
EndFunction ==
    /\ phase = "emitting" /\ frames = <<>>
    /\ LET closed == IF void /\ ~Terminated(blocks, ip) THEN Put(blocks, ip, Ret(0)) ELSE blocks
       IN  /\ blocks' = closed
           /\ phase' = IF Verified(closed) THEN "running" ELSE "rejected"
    /\ rest' = Statements(body)
    /\ UNCHANGED <<source, ip, loops, frames, value, at, quiet>>

-----------------------------------------------------------------------------
(* The source of code `c', statement by statement *)

\* The source has done something else than the blocks.
Lost == <<Todo("lost", 0)>>

\* What is next: the kind of a statement, or "again", "test", "lost".
Next1(c, r) == IF Head(r).does = "statement" THEN c[Head(r).stmt].kind ELSE Head(r).does

\* The rest from the end of the iteration of the innermost loop on.
InLoop(r) == \E i \in DOMAIN r : r[i].does = "again"
FromLoopEnd(r) ==
    LET end == CHOOSE i \in DOMAIN r :
                  r[i].does = "again" /\ \A j \in 1..(i - 1) : r[j].does # "again"
    IN  SubSeq(r, end, Len(r))

Branch(c, s) == IF c[s].else = "none" THEN <<>> ELSE Statements(c[s].other)

\* Something that neither has an effect nor tests a condition is next. A jump outside
\* of every loop leads nowhere.
Silent(c, r) ==
    /\ r # <<>>
    /\ \/ Next1(c, r) \in {"break", "continue"} /\ InLoop(r)
       \/ Next1(c, r) = "compif"
       \/ Next1(c, r) = "again" /\ c[Head(r).stmt].kind = "while"

\* The source behind it.
Moved(c, r) ==
    LET s == Head(r).stmt
    IN  IF Next1(c, r) = "break" THEN Tail(FromLoopEnd(r))
        ELSE IF Next1(c, r) = "continue" THEN FromLoopEnd(r)
        ELSE IF Next1(c, r) = "compif"
             THEN (IF c[s].holds THEN Statements(c[s].then) ELSE Branch(c, s)) \o Tail(r)
        ELSE <<Todo("statement", s)>> \o Tail(r)

\* The effect or test the source does next, as an instruction and its statement.
Does(c, r) ==
    IF r = <<>> THEN <<"return", 0>>
    ELSE IF Next1(c, r) \in {"if", "while", "test"} THEN <<"test", Head(r).stmt>>
    ELSE IF Next1(c, r) = "for" THEN <<"init", Head(r).stmt>>
    ELSE IF Next1(c, r) = "again" THEN <<"update", Head(r).stmt>>
    ELSE <<Next1(c, r), Head(r).stmt>>

\* The source behind its next effect, or its next test with outcome `yes'.
After(c, r, yes) ==
    LET s == Head(r).stmt
        iteration == Statements(c[s].then) \o <<Todo("again", s)>> \o Tail(r)
    IN  IF Next1(c, r) = "if" THEN (IF yes THEN Statements(c[s].then) ELSE Branch(c, s)) \o Tail(r)
        ELSE IF Next1(c, r) \in {"while", "test"} THEN (IF yes THEN iteration ELSE Tail(r))
        ELSE IF Next1(c, r) \in {"for", "again"} THEN <<Todo("test", s)>> \o Tail(r)
        ELSE Tail(r)

-----------------------------------------------------------------------------
(* A function is emitted, verified and run *)

Init ==
    /\ \E p \in Programs : code = p.code /\ body = p.body
    /\ void \in BOOLEAN
    /\ phase = "emitting"
    /\ blocks = << <<>> >> /\ ip = 1
    /\ loops = <<>>
    /\ frames = <<BlockEmitter(body, 1)>>
    /\ value = Calling
    /\ at = <<1, 1>> /\ rest = <<>> /\ quiet = 0

Now == blocks[at[1]][at[2]]

\* The blocks run when the source has come to an effect or a test.
Runs(ops) == phase = "running" /\ ~Silent(code, rest) /\ Now.op \in ops

MoveSource ==
    /\ phase = "running" /\ Silent(code, rest)
    /\ rest' = Moved(code, rest)
    /\ UNCHANGED <<source, phase, blocks, ip, loops, frames, value, at, quiet>>

\* The source follows an effect or test of the blocks, or is lost.
Follow(yes) == IF Does(code, rest) = <<Now.op, Now.stmt>> THEN After(code, rest, yes) ELSE Lost

RunEffect ==
    /\ Runs({"do", "init", "update"})
    /\ at' = <<at[1], at[2] + 1>>
    /\ rest' = Follow(FALSE)
    /\ quiet' = 0
    /\ UNCHANGED <<source, phase, blocks, ip, loops, frames, value>>

RunTest(yes) ==
    /\ Runs({"test"})
    /\ at' = <<IF yes THEN Now.yes ELSE Now.no, 1>>
    /\ rest' = Follow(yes)
    /\ quiet' = 0
    /\ UNCHANGED <<source, phase, blocks, ip, loops, frames, value>>

\* A branch: the source does not move. More branches in a row than there are blocks
\* are not counted.
RunBr ==
    /\ Runs({"br"})
    /\ at' = <<Now.yes, 1>>
    /\ quiet' = IF quiet > Len(blocks) THEN quiet ELSE quiet + 1
    /\ UNCHANGED <<source, phase, blocks, ip, loops, frames, value, rest>>

RunReturn ==
    /\ Runs({"return"})
    /\ phase' = "returned"
    /\ rest' = IF Does(code, rest) = <<Now.op, Now.stmt>> THEN <<>> ELSE Lost
    /\ UNCHANGED <<source, blocks, ip, loops, frames, value, at, quiet>>

Next ==
    \/ EmitDo \/ EmitReturn \/ EmitJump \/ EmitStrayJump
    \/ NextNode \/ CutBlock \/ EndBlock
    \/ EmitIf \/ EmitThen \/ EmitElse \/ EndIfPoisoned \/ EndIf
    \/ EmitCompIf
    \/ EmitWhile \/ EndWhile \/ EmitFor \/ EndFor
    \/ EndFunction
    \/ MoveSource \/ RunEffect \/ (\E yes \in BOOLEAN : RunTest(yes)) \/ RunBr \/ RunReturn

Spec == Init /\ [][Next]_emitVars

-----------------------------------------------------------------------------
(* Properties *)

\* Every branch leads to a block of the function, and what runs is in one of them.
TypeOK ==
    /\ phase \in {"emitting", "rejected", "crashed", "running", "returned"}
    /\ quiet \in 0..(Len(blocks) + 1)
    /\ ip \in DOMAIN blocks
    /\ \A b \in DOMAIN blocks : \A i \in DOMAIN blocks[b] :
          blocks[b][i].op \in {"br", "test"} => {blocks[b][i].yes, blocks[b][i].no} \subseteq DOMAIN blocks
    /\ phase = "running" => at[1] \in DOMAIN blocks /\ at[2] \in DOMAIN blocks[at[1]]

\* What an if statement promises (readme.md, "if"), and every other statement: the
\* blocks of a function that is accepted have the effects of its source in the
\* order of the source, and do not branch in circles between them. BlockStmt::emit,
\* IfStmt::emit, WhileStmt::emit and ForStmt::emit have to agree on the block each
\* statement goes on in.
RunsLikeSource ==
    phase \in {"running", "returned"} => rest # Lost /\ quiet <= Len(blocks)

\* It holds for the shapes of if the emitter is made for: no branches or loops inside
\* of a branch, and an else block only when both sides jump away. Loops, jumps and
\* compile time ifs may be nested at will, in and around each other; a jump outside
\* of every loop is never run.
PlainIfsRun == RunsLikeSource \/ ~PlainIfs(code)

\* ... and a program of those shapes compiles, unless something is emitted behind a
\* jump: ForStmt::emit branches to the update block, and the block around a CompIfStmt
\* goes on, whatever came before. FnType::emit closes the body of a void function only:
\* any other must end with a jump on every path, which the analyzer does not make sure
\* of (a return in the body of a while is enough for it).
PlainProgramsAreAccepted ==
    phase \in {"rejected", "crashed"} =>
        \/ ~PlainIfs(code) \/ ~NothingBehindJumps(code) \/ ~JumpsInLoops(code, body)
        \/ ~void /\ ~Cut(code, body)
=============================================================================
