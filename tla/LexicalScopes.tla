--------------------------- MODULE LexicalScopes ---------------------------
(***************************************************************************)
(* What a scope table promises: lexical scoping as a stack of frames.      *)
(* Opening a scope pushes a frame that holds nothing but the bindings of   *)
(* the construct that opens it; closing one forgets exactly that frame; a  *)
(* declaration or an import acts on the innermost frame only, and the      *)
(* first declaration of a name in a frame is the one that counts.          *)
(* ScopeTable.tla keeps the same information in a table indexed by a level *)
(* that is reused, never reallocated, when scopes close and open again.    *)
(***************************************************************************)
EXTENDS Naturals, Sequences

CONSTANTS
    Name,     \* identifiers
    Node,     \* AST nodes a name can stand for
    File,     \* source file ids, one per module
    None      \* "not declared here"

VARIABLE frames   \* the open scopes, outermost first

Frame == [names : [Name -> Node \cup {None}], opened : SUBSET File]

\* A frame whose only content is the set of bindings b.
Fresh(b) == [names |-> b, opened |-> {}]

NoBinding == [n \in Name |-> None]

Init == frames = <<Fresh(NoBinding)>>

Push(b) == frames' = Append(frames, Fresh(b))

Pop ==
    /\ Len(frames) > 1
    /\ frames' = [i \in 1..(Len(frames) - 1) |-> frames[i]]

Bind(n, x) ==
    /\ frames[Len(frames)].names[n] = None
    /\ frames' = [frames EXCEPT ![Len(frames)].names[n] = x]

Open(f) == frames' = [frames EXCEPT ![Len(frames)].opened = @ \cup {f}]

Next ==
    \/ \E b \in [Name -> Node \cup {None}] : Push(b)
    \/ Pop
    \/ \E n \in Name, x \in Node : Bind(n, x)
    \/ \E f \in File : Open(f)

Spec == Init /\ [][Next]_frames
=============================================================================
