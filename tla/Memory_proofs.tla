---------------------------- MODULE Memory_proofs ----------------------------
(***************************************************************************)
(* The memory of a compilation (node.cpp, file_manager.cpp) for blocks of  *)
(* every size, nodes and files of every size, and any number of them: no   *)
(* two nodes overlap, no node leaves its block, and a token finds its file *)
(* again as long as there are ids.                                         *)
(*                                                                         *)
(* That two nodes are apart is not inductive: a node that is allocated     *)
(* begins where the block is free, so every node of the current block has  *)
(* to end there or before, and no node may be in a block to come.          *)
(***************************************************************************)
EXTENDS Memory, TLAPS

\* Where the nodes are, seen from the next one to be allocated.
BelowOffset ==
    \A n \in nodes :
        /\ n.block <= block
        /\ n.block = block => n.at + n.size <= offset

\* The ids that are not cut.
IdsCount == \A i \in DOMAIN files : i <= Ids => files[i].id = i - 1

NodesInv == TypeOK /\ BelowOffset /\ NodesApart
FilesInv == TypeOK /\ IdsCount /\ SourcesFound

-----------------------------------------------------------------------------

\* A small number is not changed by being cut, and what is cut is a number.
LEMMA IdIsCut ==
    ASSUME NEW n \in Nat
    PROVE  IdOf(n) \in Nat /\ (n < Ids => IdOf(n) = n)
  BY FilesAssumption DEF IdOf

\* The node begins where the block is free, and there is room behind it.
LEMMA NodeFits ==
    ASSUME TypeOK, NEW size \in NodeSizes, AllocNode(size)
    PROVE  \E at \in Nat :
              /\ nodes' = nodes \cup {[block |-> block', at |-> at, size |-> size]}
              /\ offset' = at + size /\ offset' < BlockSize /\ size > 0
              /\ block' \in Nat /\ block' > 0
              /\ \/ block' = block /\ at = offset
                 \/ block' = block + 1
<1>1. size \in Nat /\ 0 < size /\ size < BlockSize /\ BlockSize \in Nat
  BY SizesAssumption
<1>2. CASE NeedsBlock(size)
  <2>1. /\ nodes' = nodes \cup {[block |-> block', at |-> 0, size |-> size]}
        /\ offset' = 0 + size /\ block' = block + 1
    BY <1>2 DEF AllocNode
  <2> QED
    BY <1>1, <2>1 DEF TypeOK
<1>3. CASE ~NeedsBlock(size)
  <2>1. /\ nodes' = nodes \cup {[block |-> block', at |-> offset, size |-> size]}
        /\ offset' = offset + size /\ block' = block
    BY <1>3 DEF AllocNode
  <2>2. block # 0 /\ offset + size < BlockSize
    BY <1>1, <1>3 DEF NeedsBlock, TypeOK
  <2> QED
    BY <1>1, <2>1, <2>2 DEF TypeOK
<1> QED
  BY <1>2, <1>3

LEMMA AllocKeepsTypes ==
    ASSUME TypeOK, NEW size \in NodeSizes, AllocNode(size)
    PROVE  TypeOK'
<1>1. PICK at \in Nat :
         /\ nodes' = nodes \cup {[block |-> block', at |-> at, size |-> size]}
         /\ offset' = at + size /\ offset' < BlockSize /\ size > 0
         /\ block' \in Nat /\ block' > 0
  BY NodeFits
<1>2. size \in Nat
  BY SizesAssumption
<1>3. [block |-> block', at |-> at, size |-> size] \in NodeRecords
  BY <1>1, <1>2 DEF NodeRecords
<1>4. nodes' \subseteq NodeRecords
  BY <1>1, <1>3 DEF TypeOK
<1>5. occupied' = occupied /\ files' = files
  BY DEF AllocNode
<1> QED
  BY <1>1, <1>2, <1>4, <1>5 DEF TypeOK

LEMMA LoadKeepsTypes ==
    ASSUME TypeOK, NEW size \in FileSizes, LoadFile(size)
    PROVE  TypeOK'
<1>1. size \in Nat /\ Len(files) \in Nat
  BY FilesAssumption DEF TypeOK
<1>2. [id |-> IdOf(Len(files)), start |-> occupied, size |-> size] \in FileRecords
  BY <1>1, IdIsCut DEF FileRecords, TypeOK
<1>3. files' \in Seq(FileRecords)
  BY <1>2 DEF LoadFile, TypeOK
<1> QED
  BY <1>1, <1>3 DEF LoadFile, TypeOK

LEMMA TypesStep == TypeOK /\ [Unbounded]_memVars => TypeOK'
<1> SUFFICES ASSUME TypeOK, [Unbounded]_memVars PROVE TypeOK'
  OBVIOUS
<1>1. CASE UNCHANGED memVars
  BY <1>1 DEF memVars, TypeOK
<1>2. CASE Unbounded
  BY <1>2, AllocKeepsTypes, LoadKeepsTypes DEF Unbounded
<1> QED
  BY <1>1, <1>2

\* In every compilation the current block is open: its offset is below its size
\* (get_memory).
THEOREM TypeCorrect == UnboundedSpec => []TypeOK
<1>1. Init => TypeOK
  BY DEF Init, TypeOK
<1> QED
  BY <1>1, TypesStep, PTL DEF UnboundedSpec

-----------------------------------------------------------------------------

LEMMA AllocKeepsNodesApart ==
    ASSUME NodesInv, NEW size \in NodeSizes, AllocNode(size)
    PROVE  (BelowOffset /\ NodesApart)'
<1>1. PICK at \in Nat :
         /\ nodes' = nodes \cup {[block |-> block', at |-> at, size |-> size]}
         /\ offset' = at + size /\ offset' < BlockSize /\ size > 0
         /\ block' \in Nat /\ block' > 0
         /\ \/ block' = block /\ at = offset
            \/ block' = block + 1
  BY NodeFits DEF NodesInv
<1> DEFINE new == [block |-> block', at |-> at, size |-> size]
<1>2. size \in Nat /\ BlockSize \in Nat /\ block \in Nat /\ offset \in Nat
  BY SizesAssumption DEF NodesInv, TypeOK
<1>3. new.block = block' /\ new.at = at /\ new.size = size
  OBVIOUS
<1>4. ASSUME NEW n \in nodes
      PROVE  n.block \in Nat /\ n.at \in Nat /\ n.size \in Nat
  BY DEF NodesInv, TypeOK, NodeRecords
<1>5. nodes' = nodes \cup {new}
  BY <1>1
<1>6. ASSUME NEW n \in nodes
      PROVE  /\ n.block <= block'
             /\ n.block = block' => n.at + n.size <= at
  BY <1>1, <1>2, <1>4 DEF NodesInv, BelowOffset
<1> HIDE DEF new
<1>7. BelowOffset'
  <2> SUFFICES ASSUME NEW n \in nodes'
               PROVE  /\ n.block <= block'
                      /\ n.block = block' => n.at + n.size <= offset'
    BY DEF BelowOffset
  <2>1. CASE n \in nodes
    BY <1>1, <1>2, <1>4, <1>6, <2>1
  <2>2. CASE n = new
    BY <1>1, <1>2, <1>3, <2>2
  <2> QED
    BY <1>5, <2>1, <2>2
<1>8. \A n \in nodes' : n.at + n.size <= BlockSize
  <2> TAKE n \in nodes'
  <2>1. CASE n \in nodes
    BY <2>1 DEF NodesInv, NodesApart
  <2>2. CASE n = new
    BY <1>1, <1>2, <1>3, <2>2
  <2> QED
    BY <1>5, <2>1, <2>2
<1>9. ASSUME NEW n \in nodes
      PROVE  Disjoint(n, new) /\ Disjoint(new, n)
  BY <1>3, <1>6, <1>9 DEF Disjoint
<1>10. \A n, m \in nodes' : n = m \/ Disjoint(n, m)
  <2> TAKE n, m \in nodes'
  <2>1. CASE n \in nodes /\ m \in nodes
    BY <2>1 DEF NodesInv, NodesApart
  <2>2. CASE n = new \/ m = new
    BY <1>5, <1>9, <2>2
  <2> QED
    BY <1>5, <2>1, <2>2
<1> QED
  BY <1>7, <1>8, <1>10 DEF NodesApart, Disjoint

LEMMA NodesStep == NodesInv /\ [Unbounded]_memVars => NodesInv'
<1> SUFFICES ASSUME NodesInv, [Unbounded]_memVars PROVE NodesInv'
  OBVIOUS
<1>1. TypeOK'
  BY TypesStep DEF NodesInv
<1>2. CASE UNCHANGED <<block, offset, nodes>>
  BY <1>1, <1>2 DEF NodesInv, BelowOffset, NodesApart, Disjoint
<1>3. CASE \E size \in NodeSizes : AllocNode(size)
  BY <1>1, <1>3, AllocKeepsNodesApart DEF NodesInv
<1>4. CASE \E size \in FileSizes : LoadFile(size)
  BY <1>2, <1>4 DEF LoadFile
<1>5. CASE UNCHANGED memVars
  BY <1>2, <1>5 DEF memVars
<1> QED
  BY <1>3, <1>4, <1>5 DEF Unbounded

\* No node leaves its block and no two nodes share a byte, whatever the sizes and the
\* order they are asked for in (get_memory).
THEOREM NodesAreApart == UnboundedSpec => []NodesApart
<1>1. Init => NodesInv
  BY DEF Init, NodesInv, TypeOK, BelowOffset, NodesApart
<1>2. NodesInv => NodesApart
  BY DEF NodesInv
<1> QED
  BY <1>1, <1>2, NodesStep, PTL DEF UnboundedSpec

-----------------------------------------------------------------------------

LEMMA LoadKeepsSources ==
    ASSUME FilesInv, NEW size \in FileSizes, LoadFile(size)
    PROVE  (IdsCount /\ SourcesFound)'
<1> DEFINE new == [id |-> IdOf(Len(files)), start |-> occupied, size |-> size]
           len == Len(files)
<1>1. size \in Nat /\ Ids \in Nat /\ len \in Nat /\ occupied \in Nat
  BY FilesAssumption DEF FilesInv, TypeOK
<1>2. files \in Seq(FileRecords)
  BY DEF FilesInv, TypeOK
<1>3. files' = Append(files, new) /\ occupied' = occupied + size
  BY DEF LoadFile
<1>4. new.start = occupied /\ new.size = size /\ new.id = IdOf(len)
  OBVIOUS
<1> HIDE DEF new
<1>5. /\ DOMAIN files' = 1..(len + 1) /\ DOMAIN files = 1..len
      /\ files'[len + 1] = new
      /\ \A i \in 1..len : files'[i] = files[i]
  BY <1>2, <1>3
<1> HIDE DEF len
<1>6. ASSUME NEW i \in 1..len
      PROVE  /\ files[i].start \in Nat /\ files[i].size \in Nat
             /\ files[i].start + files[i].size <= occupied
  <2>1. files[i] \in FileRecords
    BY <1>2, <1>5 DEF len
  <2>2. files[i].start \in Nat /\ files[i].size \in Nat
    BY <2>1 DEF FileRecords
  <2>3. i \in DOMAIN files
    BY <1>5
  <2>4. files[i].start + files[i].size <= occupied
    BY <2>3 DEF FilesInv, SourcesFound
  <2> QED
    BY <2>2, <2>4
<1>7. IdsCount'
  <2> SUFFICES ASSUME NEW i \in 1..(len + 1), i <= Ids
               PROVE  files'[i].id = i - 1
    BY <1>5 DEF IdsCount
  <2>1. CASE i \in 1..len
    BY <1>5, <2>1 DEF FilesInv, IdsCount
  <2>2. CASE i = len + 1
    <3>1. IdOf(len) = len
      BY <1>1, <2>2, IdIsCut
    <3> QED
      BY <1>1, <1>4, <1>5, <2>2, <3>1
  <2> QED
    BY <1>1, <2>1, <2>2
<1>8. ASSUME NEW i \in 1..(len + 1), i <= Ids
      PROVE  GetSource(files[i].id)' = files'[i]
  <2>1. files'[i].id = i - 1
    BY <1>5, <1>7, <1>8 DEF IdsCount
  <2> QED
    BY <1>1, <2>1 DEF GetSource
<1>9. ASSUME NEW i \in 1..(len + 1)
      PROVE  files'[i].start + files'[i].size <= occupied'
  <2>1. CASE i \in 1..len
    BY <1>1, <1>3, <1>5, <1>6, <2>1
  <2>2. CASE i = len + 1
    BY <1>1, <1>3, <1>4, <1>5, <2>2
  <2> QED
    BY <1>1, <2>1, <2>2
<1>10. ASSUME NEW i \in 1..(len + 1), NEW j \in 1..(len + 1), i < j
       PROVE  files'[i].start + files'[i].size <= files'[j].start
  <2>1. i \in 1..len
    BY <1>1, <1>10
  <2>2. CASE j \in 1..len
    BY <1>5, <1>10, <2>1, <2>2 DEF FilesInv, SourcesFound
  <2>3. CASE j = len + 1
    BY <1>4, <1>5, <1>6, <2>1, <2>3
  <2> QED
    BY <1>1, <2>2, <2>3
<1>11. SourcesFound'
  BY <1>5, <1>8, <1>9, <1>10 DEF SourcesFound
<1> QED
  BY <1>7, <1>11

LEMMA FilesStep == FilesInv /\ [Unbounded]_memVars => FilesInv'
<1> SUFFICES ASSUME FilesInv, [Unbounded]_memVars PROVE FilesInv'
  OBVIOUS
<1>1. TypeOK'
  BY TypesStep DEF FilesInv
<1>2. CASE UNCHANGED <<occupied, files>>
  BY <1>1, <1>2 DEF FilesInv, IdsCount, SourcesFound, GetSource
<1>3. CASE \E size \in NodeSizes : AllocNode(size)
  BY <1>2, <1>3 DEF AllocNode
<1>4. CASE \E size \in FileSizes : LoadFile(size)
  BY <1>1, <1>4, LoadKeepsSources DEF FilesInv
<1>5. CASE UNCHANGED memVars
  BY <1>2, <1>5 DEF memVars
<1> QED
  BY <1>3, <1>4, <1>5 DEF Unbounded

\* The first files, as many as there are ids, are found by their tokens, and no file is
\* written over another (load_file, read_file, get_source).
THEOREM SourcesAreFound == UnboundedSpec => []SourcesFound
<1>1. Init => FilesInv
  BY DEF Init, FilesInv, TypeOK, IdsCount, SourcesFound
<1>2. FilesInv => SourcesFound
  BY DEF FilesInv
<1> QED
  BY <1>1, <1>2, FilesStep, PTL DEF UnboundedSpec

\* What is model-checked, with its bounds, are executions of this kind.
THEOREM CheckedIsUnbounded == Spec => UnboundedSpec
<1>1. [Next]_memVars => [Unbounded]_memVars
  BY DEF Next, Unbounded
<1> QED
  BY <1>1, PTL DEF Spec, UnboundedSpec
=============================================================================
