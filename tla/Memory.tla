------------------------------- MODULE Memory -------------------------------
(***************************************************************************)
(* The memory of a compilation that is only ever added to: the blocks      *)
(* nodes are allocated in (node.cpp), and the buffer the source files are  *)
(* read into with the index that finds the file of a token again           *)
(* (file_manager.cpp, util/io.cpp).                                        *)
(*                                                                         *)
(* Nothing is freed before the process ends: free_memory_blocks has no     *)
(* caller. The buffer for files is taken to be large enough; the code does *)
(* not compare either.                                                     *)
(***************************************************************************)
EXTENDS Integers, Sequences, FiniteSets

CONSTANTS
    BlockSize,    \* BLOCK_SIZE
    NodeSizes,    \* the sizes of the classes of nodes
    FileSizes,    \* the sizes of source files
    Ids,          \* how many ids there are: 2^16 in the code
    MaxBlocks, MaxNodes, MaxFiles    \* bounds for model checking

ASSUME SizesAssumption ==
    BlockSize \in Nat /\ NodeSizes \subseteq {n \in Nat : 0 < n /\ n < BlockSize}
ASSUME FilesAssumption == FileSizes \subseteq Nat /\ Ids \in Nat \ {0}

VARIABLES
    block,      \* the current block, 0 before the first
    offset,     \* the offset of the current block
    nodes,      \* the memory of all nodes: [block, at, size]
    occupied,   \* how much of the file buffer is in use
    files       \* g_file_index: a sequence of [id, start, size]

memVars == <<block, offset, nodes, occupied, files>>

-----------------------------------------------------------------------------

Init ==
    /\ block = 0 /\ offset = 0 /\ nodes = {}
    /\ occupied = 0 /\ files = <<>>

\* A fault: a node may begin in a block that has no room for it.
NeedsBlockLate(size) == block = 0 \/ offset >= BlockSize

\* The first call takes the root block, later ones a new block when a node would not
\* leave a byte of the current one free.
NeedsBlock(size) == block = 0 \/ offset + size >= BlockSize

\* A fault: the size of the node is added when the block is new only.
AllocNodeStuck(size) ==
    LET at == IF NeedsBlock(size) THEN 0 ELSE offset
    IN  /\ block' = IF NeedsBlock(size) THEN block + 1 ELSE block
        /\ offset' = IF NeedsBlock(size) THEN size ELSE offset
        /\ nodes' = nodes \cup {[block |-> block', at |-> at, size |-> size]}
        /\ UNCHANGED <<occupied, files>>

\* new_node: alloc_node, get_memory.
AllocNode(size) ==
    LET at == IF NeedsBlock(size) THEN 0 ELSE offset
    IN  /\ block' = IF NeedsBlock(size) THEN block + 1 ELSE block
        /\ offset' = at + size
        /\ nodes' = nodes \cup {[block |-> block', at |-> at, size |-> size]}
        /\ UNCHANGED <<occupied, files>>

\* A fault: a file gets the id of the file before it.
IdOfLast(n) == IF n = 0 THEN 0 ELSE (n - 1) % Ids

\* The position in the index, cut to 16 bits.
IdOf(n) == n % Ids

\* load_file of a file that can be opened: read_file puts it behind the others.
LoadFile(size) ==
    /\ files' = Append(files, [id |-> IdOf(Len(files)), start |-> occupied, size |-> size])
    /\ occupied' = occupied + size
    /\ UNCHANGED <<block, offset, nodes>>

Next ==
    \/ block < MaxBlocks /\ Cardinality(nodes) < MaxNodes /\ \E size \in NodeSizes : AllocNode(size)
    \/ Len(files) < MaxFiles /\ \E size \in FileSizes : LoadFile(size)

Spec == Init /\ [][Next]_memVars

\* Nothing bounds the nodes and the files of the program.
Unbounded == (\E size \in NodeSizes : AllocNode(size)) \/ (\E size \in FileSizes : LoadFile(size))
UnboundedSpec == Init /\ [][Unbounded]_memVars

-----------------------------------------------------------------------------
(* Properties *)

NodeRecords == [block : Nat, at : Nat, size : Nat]
FileRecords == [id : Nat, start : Nat, size : Nat]

\* The types; a block is entered with a node in it, and the file buffer is filled without
\* gaps.
TypeOK ==
    /\ block \in Nat /\ offset \in Nat /\ occupied \in Nat
    /\ nodes \subseteq NodeRecords /\ files \in Seq(FileRecords)
    /\ block = 0 => nodes = {} /\ offset = 0
    /\ block > 0 => offset < BlockSize

\* Two nodes are in different blocks, or one ends before the other begins.
Disjoint(n, m) ==
    n.block # m.block \/ n.at + n.size <= m.at \/ m.at + m.size <= n.at

\* Every node lies within its block and shares no byte with another one, whatever sizes
\* have been asked for in whatever order (get_memory).
NodesApart ==
    /\ \A n \in nodes : n.at + n.size <= BlockSize
    /\ \A n, m \in nodes : n = m \/ Disjoint(n, m)

\* get_source
GetSource(id) == files[id + 1]

\* As long as there are not more files than ids, the id that a file gave its tokens leads
\* back to that file, and no two files share a byte of the buffer (load_file, get_source).
SourcesFound ==
    \A i, j \in DOMAIN files :
        /\ i <= Ids => GetSource(files[i].id) = files[i]
        /\ i < j => files[i].start + files[i].size <= files[j].start
        /\ files[i].start + files[i].size <= occupied
=============================================================================
