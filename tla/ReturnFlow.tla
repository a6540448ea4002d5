----------------------------- MODULE ReturnFlow -----------------------------
(***************************************************************************)
(* How the analyzer decides whether a function returns on every path       *)
(* (Analyzer::visit for FnType, BlockStmt, ReturnStmt, IfStmt, WhileStmt   *)
(* and ForStmt). The visitors recurse over a syntax tree, open and close   *)
(* scopes of the ScopeTable and talk to each other only through the return *)
(* flags of its levels: a block raises the flag of the scope around it, an *)
(* if lowers the flag of its own scope after its body and raises it again  *)
(* when its else branch agrees, a function reads the flag of its scope.    *)
(*                                                                         *)
(* The tree is chosen as it is visited: every program made of the          *)
(* constructs in Construct, nested up to MaxLevel scopes, is a behaviour.  *)
(* `visits' is the call stack of the visitors. Next to what the visitors   *)
(* know it records `reach', the truth the flag is meant to stand for:      *)
(* whether control can arrive at the point of the program being visited.   *)
(***************************************************************************)
EXTENDS ScopeTable, FiniteSets

CONSTANTS
    Construct,   \* the constructs programs may use besides return and if
    MaxPending   \* bound on the depth of the visitors' call stack

ASSUME ReturnFlowAssumption ==
    /\ Construct \subseteq {"block", "fn", "else", "elseif", "while", "loop", "for",
                             "break", "continue", "dead"}
    /\ MaxPending \in Nat

VARIABLES
    visits,    \* the visitors under way, outermost first
    last       \* the verdict on the function visited last, and the truth about it

flowVars == <<vars, visits, last>>

\* A visitor under way. `kind' is the node visited; `reach' whether control arrives
\* where the visit is (at an if or a loop: where it starts); `stage', `sibling' and
\* `body' belong to an if: how far it is, sibling_returns, and whether control
\* leaves its body at the end; `broken' tells a loop that a reachable break leaves;
\* `value' a function whose return type is not void.
Visit(kind, reach, value) ==
    [kind |-> kind, reach |-> reach, stage |-> "body", sibling |-> FALSE,
     body |-> FALSE, broken |-> FALSE, value |-> value]

Loops == {"while", "loop", "for"}

Depth == Len(visits)
Top == visits[Depth]

\* The visitor under way goes through a list of statements and has another one to
\* visit; "dead" programs also have statements that control never reaches.
InList ==
    /\ Depth > 0 /\ Top.kind \in {"fn", "block"}
    /\ Top.reach \/ "dead" \in Construct

\* A statement may come next: in a list, or at module level.
MayStart == Depth = 0 \/ InList

\* The innermost visitor of one of these kinds (0: none).
Innermost(kinds) ==
    LET S == {i \in 1..Depth : visits[i].kind \in kinds}
    IN  IF S = {} THEN 0 ELSE CHOOSE i \in S : \A j \in S : j <= i

\* A loop of the innermost function is under way.
InLoop ==
    \E i \in 1..Depth : /\ visits[i].kind \in Loops
                        /\ \A j \in i..Depth : visits[j].kind # "fn"

\* Control does not go on behind the current statement.
Stops == visits' = [visits EXCEPT ![Depth].reach = FALSE]

\* How a caller goes on when the visitor it has called returns, `after' telling
\* whether control reaches the end of what that visited.
Resumed(caller, after) ==
    IF caller.kind \in {"fn", "block"} THEN [caller EXCEPT !.reach = after]
    ELSE IF caller.kind # "if" THEN [caller EXCEPT !.stage = "end"]
    ELSE IF caller.stage = "body" THEN [caller EXCEPT !.stage = "test", !.body = after]
    ELSE [caller EXCEPT !.stage = "join", !.body = @ \/ after]

\* The visitor at the top returns to its caller.
Return(after) ==
    visits' = IF Depth = 1 THEN <<>>
              ELSE [SubSeq(visits, 1, Depth - 1) EXCEPT
                      ![Depth - 1] = Resumed(visits[Depth - 1], after)]

-----------------------------------------------------------------------------
(* Visitors *)

FlowInit ==
    /\ Init /\ globals = <<>>
    /\ visits = <<>>
    /\ last = [verdict |-> "none", reach |-> FALSE]

\* The visitor of a node that opens a scope: go_down resets the flag there.
Open(new) ==
    /\ Depth + Len(new) <= MaxPending
    /\ GoDownWith(EmptyScope)
    /\ visits' = visits \o new

Here == IF Depth = 0 THEN TRUE ELSE Top.reach

\* A function, at module level or nested in another one.
EnterFn(value) ==
    /\ Depth = 0 \/ (InList /\ "fn" \in Construct)
    /\ Open(<<Visit("fn", TRUE, value)>>)
    /\ UNCHANGED last

\* "Not all paths return a value": the error ends the compilation. The flag of a
\* function whose return type is void is not read. A function nested in another
\* one is a declaration: control passes it.
LeaveFn ==
    /\ Depth > 0 /\ Top.kind = "fn"
    /\ last' = [verdict |-> IF ~Top.value THEN "none"
                            ELSE IF returns[level] THEN "accepted" ELSE "rejected",
                reach |-> Top.reach]
    /\ GoUp
    /\ Return(IF Depth = 1 THEN TRUE ELSE visits[Depth - 1].reach)

EnterBlock ==
    /\ MayStart /\ "block" \in Construct
    /\ Open(<<Visit("block", Here, FALSE)>>)
    /\ UNCHANGED last

\* A fault: a block without a return leaves its scope open.
BlockEndsEarly ==
    /\ Depth > 0 /\ Top.kind = "block"
    /\ IF returns[level] THEN LeaveBlock ELSE UNCHANGED vars
    /\ Return(Top.reach)
    /\ UNCHANGED last

\* A fault: a block keeps its flag to itself.
BlockEndsSilently ==
    /\ Depth > 0 /\ Top.kind = "block"
    /\ GoUp
    /\ Return(Top.reach)
    /\ UNCHANGED last

\* A block at the end of its statements: of a bare block, of a branch or of a loop.
BlockEnds ==
    /\ Depth > 0 /\ Top.kind = "block"
    /\ LeaveBlock
    /\ Return(Top.reach)
    /\ UNCHANGED last

\* The parser gives a return an expression unless the function's return type is
\* void; without one the visitor does nothing.
VisitReturn ==
    /\ InList
    /\ Innermost({"fn"}) > 0
    /\ IF visits[Innermost({"fn"})].value THEN SetReturn ELSE UNCHANGED vars
    /\ Stops
    /\ UNCHANGED last

\* The analyzer does nothing at a break or a continue.
VisitBreak ==
    /\ InList /\ InLoop /\ "break" \in Construct
    /\ visits' = [visits EXCEPT ![Depth].reach = FALSE,
                                ![Innermost(Loops)].broken = @ \/ Top.reach]
    /\ UNCHANGED <<vars, last>>

VisitContinue ==
    /\ InList /\ InLoop /\ "continue" \in Construct
    /\ Stops
    /\ UNCHANGED <<vars, last>>

\* The condition of an if or a loop changes no flag; the body is a block. An if or a
\* while at module level is an error, a for is not.
EnterIf ==
    /\ InList /\ level > 0
    /\ Open(<<Visit("if", Here, FALSE), Visit("block", Here, FALSE)>>)
    /\ UNCHANGED last

\* Once the body has been visited: keep its flag as sibling_returns, lower the flag
\* of this scope, and go on with the else branch, if there is one.
TestIf ==
    /\ Depth > 0 /\ Top.kind = "if" /\ Top.stage = "test"
    /\ ClearReturn
    /\ \E next \in {"none"} \cup (Construct \cap {"else", "elseif"}) :
         visits' = [visits EXCEPT ![Depth].stage = next,
                                  ![Depth].sibling = returns[level + 1]]
    /\ UNCHANGED last

EnterElse ==
    /\ Depth > 0 /\ Top.kind = "if"
    /\ \/ Top.stage = "else" /\ Open(<<Visit("block", Top.reach, FALSE)>>)
       \/ Top.stage = "elseif" /\ Open(<<Visit("if", Top.reach, FALSE), Visit("block", Top.reach, FALSE)>>)
    /\ UNCHANGED last

\* The flag of the else branch is read from the level below, wherever it comes from.
LeaveIf ==
    /\ Depth > 0 /\ Top.kind = "if"
    /\ \/ /\ Top.stage = "join"
          /\ IF Top.sibling /\ returns[level + 1] THEN SetReturn ELSE UNCHANGED vars
          /\ Return(Top.body)
       \/ /\ Top.stage = "none"
          /\ UNCHANGED vars
          /\ Return(Top.reach)
    /\ UNCHANGED last

EnterLoop(kind) ==
    /\ MayStart /\ kind \in Construct
    /\ level > 0 \/ kind = "for"
    /\ Open(<<Visit(kind, Here, FALSE), Visit("block", Here, FALSE)>>)
    /\ UNCHANGED last

\* After its body a loop only returns. Control gets behind a while or a for when it
\* gets to it, and behind a loop only through a break.
LeaveLoop ==
    /\ Depth > 0 /\ Top.kind \in Loops /\ Top.stage = "end"
    /\ Return(IF Top.kind = "loop" THEN Top.broken ELSE Top.reach)
    /\ UNCHANGED <<vars, last>>

\* The module has been parsed.
StartAnalysis ==
    /\ locked # Unlocked
    /\ Unlock
    /\ UNCHANGED <<visits, last>>

FlowNext ==
    \/ StartAnalysis
    \/ /\ locked = Unlocked
       /\ last.verdict # "rejected"
       /\ \/ \E value \in BOOLEAN : EnterFn(value)
          \/ LeaveFn
          \/ EnterBlock
          \/ BlockEnds
          \/ VisitReturn
          \/ VisitBreak
          \/ VisitContinue
          \/ EnterIf
          \/ TestIf
          \/ EnterElse
          \/ LeaveIf
          \/ \E kind \in Loops : EnterLoop(kind)
          \/ LeaveLoop

FlowSpec == FlowInit /\ [][FlowNext]_flowVars

-----------------------------------------------------------------------------
(* Correctness *)

VisitRecord ==
    [kind : {"fn", "block", "if"} \cup Loops, reach : BOOLEAN,
     stage : {"body", "test", "none", "else", "elseif", "join", "end"},
     sibling : BOOLEAN, body : BOOLEAN, broken : BOOLEAN, value : BOOLEAN]

\* The visitors' call stack and the verdict have their types.
FlowTypeOK ==
    /\ visits \in Seq(VisitRecord)
    /\ last \in [verdict : {"none", "accepted", "rejected"}, reach : BOOLEAN]

\* The functions and blocks under way.
Scoped == {i \in 1..Depth : visits[i].kind \in {"fn", "block"}}

\* Scopes are opened and closed in step with the visitors, also when a branch or a
\* loop body ends: the level is the number of functions and blocks under way
\* (AutoScope, scope_table.cpp). So get_lower_flags, which reads the flags one past
\* the current level without a check, is only called when that level is allocated.
LevelsMatchVisits ==
    /\ level = Cardinality(Scoped)
    /\ (Depth > 0 /\ Top.kind = "if" /\ Top.stage \in {"test", "join"}) => level + 1 < size

\* "Not all paths return a value" (analyzer.cpp:208) is only said of a function
\* that has such a path: control reaches its end. Holds for programs without dead
\* statements and without `loop', whose end only a break reaches.
RejectedFunctionsFallThrough == last.verdict = "rejected" => last.reach

\* HasReturn "will be set if this scope will 100% return" (scope_table.hpp:23): a
\* function with a value that passes the check returns on every path.
AcceptedFunctionsReturn == last.verdict = "accepted" => ~last.reach
=============================================================================
