--------------------------- MODULE Persistence_proofs ---------------------------
(***************************************************************************)
(* Wherever a save was cut short, what the search app accepts is complete   *)
(* for a search: for every number of vectors and every set of labels. The   *)
(* files on disk are always a first part of save's order, and the last file *)
(* that load insists on stands behind all that a search reads.              *)
(*                                                                         *)
(* And what it accepts is right (MemoryInv): nothing the files are made of  *)
(* changes once the attributes are numbered, so that the loaded trie, labels *)
(* and attributes are expressions in the builder's memory. Attributes and   *)
(* trie nodes are numbered by how many come before them in a strict order,  *)
(* which gives each a number of its own without a gap (RanksDiffer).        *)
(***************************************************************************)
EXTENDS Persistence, LabelNavGraph_proofs, FiniteSetTheorems, TLAPS

NumFiles == 18

\* the files that are there after n of them were written
FirstFiles(n) == {SaveOrder[i] : i \in 1 .. n}

DiskInv ==
  /\ \E n \in 0 .. NumFiles : written = FirstFiles(n) /\ (mode = "save" => n < NumFiles)
  /\ mode \in {"build", "label graph"} => written = {}
  /\ mode = "ready" => Required \subseteq loaded.files
                       /\ \E n \in 0 .. NumFiles : loaded.files = FirstFiles(n)
-----------------------------------------------------------------------------
\* No file is written twice.
LEMMA FilesDiffer ==
  /\ Len(SaveOrder) = NumFiles
  /\ \A i, j \in 1 .. NumFiles : SaveOrder[i] = SaveOrder[j] => i = j
BY DEF SaveOrder, NumFiles

\* The number of the files written tells which they are.
LEMMA Written ==
  ASSUME NEW n \in 0 .. NumFiles
  PROVE  Cardinality(FirstFiles(n)) = n
<1>1. n \in Nat /\ n <= NumFiles
  BY DEF NumFiles
<1>2. \A i \in 1 .. n : i \in 1 .. NumFiles
  BY <1>1 DEF NumFiles
<1> DEFINE f == [i \in 1 .. n |-> SaveOrder[i]]
<1>3. f \in Bijection(1 .. n, FirstFiles(n))
  BY <1>2, FilesDiffer DEF FirstFiles, Bijection, Injection, Surjection, IsInjective
<1>4. ExistsBijection(1 .. n, FirstFiles(n))
  BY <1>3 DEF ExistsBijection
<1> QED BY <1>1, <1>4, FS_CountingElements

\* The file load insists on that is written last has all a search reads, and the
\* labels, before it.
LEMMA Complete ==
  ASSUME NEW n \in 0 .. NumFiles, Required \subseteq FirstFiles(n)
  PROVE  SearchReads \union {"labels"} \subseteq FirstFiles(n)
<1>1. PICK i \in 1 .. n : SaveOrder[i] = "attributes"
  BY DEF Required, FirstFiles
<1>2. i = 16
  <2>1. SaveOrder[16] = "attributes" /\ 16 \in 1 .. NumFiles /\ i \in 1 .. NumFiles
    BY DEF SaveOrder, NumFiles
  <2> QED BY <1>1, <2>1, FilesDiffer
<1>3. \A k \in 1 .. 16 : SaveOrder[k] \in FirstFiles(n)
  BY <1>2 DEF FirstFiles
<1>4. SearchReads \union {"labels"}
        = {SaveOrder[2], SaveOrder[3], SaveOrder[5], SaveOrder[6], SaveOrder[7], SaveOrder[8], SaveOrder[9]}
  BY DEF SearchReads, SaveOrder
<1> QED BY <1>3, <1>4
-----------------------------------------------------------------------------
LEMMA InitDisk == DiskInit => DiskInv
<1>1. FirstFiles(0) = {}
  BY DEF FirstFiles
<1> QED BY <1>1 DEF DiskInit, DiskInv, NumFiles

LEMMA SaveFileDisk == ASSUME DiskInv, SaveFile PROVE DiskInv'
<1>1. mode = "save" /\ written' = written \union {NextFile} /\ UNCHANGED loaded
      /\ mode' = IF Cardinality(written') = Len(SaveOrder) THEN "saved" ELSE "save"
  BY DEF SaveFile
<1>2. PICK n \in 0 .. NumFiles : written = FirstFiles(n) /\ n < NumFiles
  BY <1>1 DEF DiskInv
<1> DEFINE m == n + 1
<1>3. m \in 0 .. NumFiles /\ 1 .. m = (1 .. n) \union {m}
  BY <1>2 DEF NumFiles
<1>4. written' = FirstFiles(m)
  <2>1. NextFile = SaveOrder[m] BY <1>2, Written DEF NextFile
  <2> HIDE DEF m
  <2> QED BY <1>1, <1>2, <1>3, <2>1 DEF FirstFiles
<1> HIDE DEF m
<1>5. mode' = "save" => m < NumFiles
  <2>1. Cardinality(written') = m BY <1>3, <1>4, Written
  <2> QED BY <1>1, <1>3, <2>1, FilesDiffer DEF NumFiles
<1> QED BY <1>1, <1>3, <1>4, <1>5 DEF DiskInv

LEMMA LoadDisk == ASSUME DiskInv, Load PROVE DiskInv'
<1>1. /\ mode' \in {"ready", "refused"} /\ UNCHANGED written
      /\ mode' = "ready" => Required \subseteq written /\ loaded'.files = written
  BY DEF Load
<1>2. PICK n \in 0 .. NumFiles : written = FirstFiles(n)
  BY DEF DiskInv
<1>3. written' = FirstFiles(n) /\ mode' # "save" /\ mode' \notin {"build", "label graph"}
  BY <1>1, <1>2
<1>4. mode' = "ready" => Required \subseteq loaded'.files /\ loaded'.files = FirstFiles(n)
  BY <1>1, <1>2
<1> QED BY <1>3, <1>4 DEF DiskInv

\* Building, the two ways of a save to end early, and the search app when it is
\* done leave the disk alone.
LEMMA OthersDisk ==
  ASSUME DiskInv,
         \/ Label \/ BuildVectorAttrGraph \/ BuildLabelGraph \/ SaveAborts \/ Crash
         \/ UNCHANGED <<vars, diskVars>>
  PROVE  DiskInv'
<1>1. /\ UNCHANGED <<written, loaded>>
      /\ \/ mode \in {"build", "label graph"} /\ mode' \in {"build", "label graph", "save"}
         \/ mode = "save" /\ mode' \in {"aborted", "crashed"}
         \/ mode' = mode
  BY DEF Label, BuildVectorAttrGraph, BuildLabelGraph, SaveAborts, Crash, diskVars
<1>2. PICK n \in 0 .. NumFiles : written = FirstFiles(n) /\ (mode = "save" => n < NumFiles)
  BY DEF DiskInv
<1>3. CASE mode \in {"build", "label graph"} /\ mode' \in {"build", "label graph", "save"}
  <2>1. FirstFiles(0) = {} BY DEF FirstFiles
  <2>2. 0 \in 0 .. NumFiles /\ 0 < NumFiles BY DEF NumFiles
  <2>3. written' = {} BY <1>1, <1>3 DEF DiskInv
  <2> QED BY <1>3, <2>1, <2>2, <2>3 DEF DiskInv
<1>4. CASE mode = "save" /\ mode' \in {"aborted", "crashed"}
  BY <1>1, <1>2, <1>4 DEF DiskInv
<1>5. CASE mode' = mode
  BY <1>1, <1>5 DEF DiskInv
<1> QED BY <1>1, <1>3, <1>4, <1>5

LEMMA DiskStep == DiskInv /\ [DiskNext]_<<vars, diskVars>> => DiskInv'
BY SaveFileDisk, LoadDisk, OthersDisk DEF DiskNext

\* Whatever was indexed, in either scenario, and wherever the build app died
\* while it saved: the search app refuses the directory or has loaded all that
\* UniNavGraph::search reads.
THEOREM NeverTorn == DiskSpec => []NoTornIndex
<1>1. DiskInv => NoTornIndex
  BY Complete DEF DiskInv, NoTornIndex
<1> QED BY <1>1, InitDisk, DiskStep, PTL DEF DiskSpec
-----------------------------------------------------------------------------
\* What is saved is an expression in the builder's memory, and stays the same
\* while that does.
LEMMA SameFirst ==
  ASSUME UNCHANGED labelSets
  PROVE  Attributes' = Attributes /\ \A l : FirstSeen(l)' = FirstSeen(l)
<1>1. Attributes' = Attributes BY DEF Attributes
<1>2. ASSUME NEW l PROVE FirstSeen(l)' = FirstSeen(l) BY DEF FirstSeen
<1> QED BY <1>1, <1>2

LEMMA SameIds == ASSUME UNCHANGED labelSets PROVE AttrIds' = AttrIds
BY SameFirst DEF AttrIds, SeenBefore

LEMMA SameLabels == ASSUME UNCHANGED labelSets PROVE LoadLabels' = LoadLabels
<1>1. LinesOf' = LinesOf BY DEF LinesOf
<1>2. LabelLines' = LabelLines BY <1>1 DEF LabelLines
<1>3. \A i : HasLine(i)' = HasLine(i) BY <1>2 DEF HasLine
<1> QED BY <1>2, <1>3 DEF LoadLabels

LEMMA SameGraph ==
  ASSUME UNCHANGED labelSets, NEW ids
  PROVE  VectorAttrGraph(ids)' = VectorAttrGraph(ids)
<1>1. \A l : VectorsOf(l)' = VectorsOf(l) BY DEF VectorsOf
<1> QED BY <1>1, SameFirst DEF VectorAttrGraph

LEMMA SameTrie ==
  ASSUME UNCHANGED <<nodes, groupId, groupSize>>
  PROVE  LoadTrie(TrieFile)' = LoadTrie(TrieFile)
<1>1. \A n : TrieId(n)' = TrieId(n) BY DEF TrieId
<1>2. \A n : ParentId(n)' = ParentId(n) BY <1>1 DEF ParentId
<1>3. TrieFile' = TrieFile BY <1>1, <1>2 DEF TrieFile
<1> QED BY <1>3 DEF LoadTrie

\* The label side has come as far as the reorder when the attributes are
\* numbered, and what the search app has loaded is what the builder still has.
MemoryInv ==
  /\ BaseInv
  /\ mode # "build" => /\ phase \in Built
                       /\ attrToId = AttrIds
                       /\ attrGraph = VectorAttrGraph(AttrIds)
  /\ mode = "ready" => /\ loaded.labels = LoadLabels
                       /\ loaded.trie = LoadTrie(TrieFile)
                       /\ loaded.attrToId = attrToId
                       /\ loaded.attrGraph = attrGraph

LEMMA SameMemory ==
  ASSUME UNCHANGED <<labelSets, nodes, groupId, groupSize>>
  PROVE  /\ AttrIds' = AttrIds
         /\ VectorAttrGraph(AttrIds)' = VectorAttrGraph(AttrIds)
         /\ LoadLabels' = LoadLabels
         /\ LoadTrie(TrieFile)' = LoadTrie(TrieFile)
<1>1. AttrIds' = AttrIds BY SameIds
<1>2. VectorAttrGraph(AttrIds)' = VectorAttrGraph(AttrIds)
  <2>1. PICK ids : ids = AttrIds OBVIOUS
  <2>2. VectorAttrGraph(AttrIds)' = VectorAttrGraph(ids)' BY <1>1, <2>1
  <2>3. VectorAttrGraph(ids)' = VectorAttrGraph(ids) BY SameGraph
  <2> QED BY <2>1, <2>2, <2>3
<1> QED BY <1>1, <1>2, SameLabels, SameTrie

LEMMA MemoryInit == DiskInit => MemoryInv
BY BaseInit DEF DiskInit, MemoryInv

LEMMA BuildMemory ==
  ASSUME MemoryInv, Label \/ BuildVectorAttrGraph \/ BuildLabelGraph
  PROVE  MemoryInv'
<1>1. CASE Label
  <2>1. mode = "build" /\ mode' = "build" /\ Next BY <1>1 DEF Label, diskVars, Next
  <2>2. BaseInv' BY <2>1, BaseStep DEF MemoryInv
  <2> QED BY <2>1, <2>2 DEF MemoryInv
<1>2. CASE BuildVectorAttrGraph
  <2>1. /\ UNCHANGED vars /\ phase = "navigate"
        /\ attrToId' = AttrIds /\ attrGraph' = VectorAttrGraph(attrToId')
        /\ mode' \in {"save", "label graph"}
    BY <1>2 DEF BuildVectorAttrGraph
  <2>2. BaseInv' BY <2>1, BaseStep DEF MemoryInv
  <2>3. UNCHANGED <<labelSets, nodes, groupId, groupSize, phase>>
    BY <2>1 DEF vars, divideVars, trieVars
  <2>4. attrGraph' = VectorAttrGraph(AttrIds) BY <2>1
  <2> QED BY <2>1, <2>2, <2>3, <2>4, SameMemory DEF MemoryInv, Built
<1>3. CASE BuildLabelGraph
  <2>1. /\ mode = "label graph" /\ mode' \in {"save", "label graph"} /\ Next
        /\ UNCHANGED <<attrToId, attrGraph>> /\ Later /\ ~PrepareGroup /\ ~Reorder
    <3>1. phase' # "prepare" /\ phase # "prepare"
      BY <1>3 DEF BuildLabelGraph, Navigate, DescendPop, Descended, CoverLeaves, InitBitsets, DescendFrom, CoverParents
    <3> QED BY <1>3, <3>1 DEF BuildLabelGraph, Next, Later, PrepareGroup, Reorder
  <2>2. BaseInv' BY <2>1, BaseStep DEF MemoryInv
  <2>3. UNCHANGED <<labelSets, nodes, groupId, groupSize>>
    BY <2>1, LaterFrame, LaterGroups DEF trieVars
  <2>4. phase' \in Built
    BY <2>1, LaterFrame DEF MemoryInv, Built
  <2> QED BY <2>1, <2>2, <2>3, <2>4, SameMemory DEF MemoryInv
<1> QED BY <1>1, <1>2, <1>3

\* Saving and loading leave the builder's memory alone.
LEMMA StillMemory ==
  ASSUME MemoryInv, UNCHANGED <<vars, attrToId, attrGraph>>
  PROVE  /\ BaseInv' /\ phase' = phase
         /\ AttrIds' = AttrIds
         /\ VectorAttrGraph(AttrIds)' = VectorAttrGraph(AttrIds)
         /\ LoadLabels' = LoadLabels
         /\ LoadTrie(TrieFile)' = LoadTrie(TrieFile)
<1>1. BaseInv' BY BaseStep DEF MemoryInv
<1>2. UNCHANGED <<labelSets, nodes, groupId, groupSize, phase>>
  BY DEF vars, divideVars, trieVars
<1> QED BY <1>1, <1>2, SameMemory

LEMMA DiskMemory ==
  ASSUME MemoryInv, DiskInv, [DiskNext]_<<vars, diskVars>>
  PROVE  MemoryInv'
<1>1. CASE SaveFile \/ SaveAborts \/ Crash \/ UNCHANGED <<vars, diskVars>>
  <2>1. /\ UNCHANGED <<vars, attrToId, attrGraph, loaded>>
        /\ (mode = "save" /\ mode' # "ready") \/ mode' = mode
    BY <1>1 DEF SaveFile, SaveAborts, Crash, diskVars
  <2>2. mode' # "build" => mode # "build" BY <2>1
  <2> QED BY <2>1, <2>2, StillMemory DEF MemoryInv
<1>2. CASE Load
  <2>1. /\ UNCHANGED <<vars, attrToId, attrGraph>>
        /\ mode # "build" /\ mode' \in {"ready", "refused"}
    BY <1>2 DEF Load
  <2>2. mode' = "ready" => "labels" \in written /\ "trie" \in written
    <3>1. PICK n \in 0 .. NumFiles : written = FirstFiles(n) BY DEF DiskInv
    <3>2. mode' = "ready" => Required \subseteq FirstFiles(n) BY <1>2, <3>1 DEF Load
    <3> QED BY <3>1, <3>2, Complete DEF SearchReads
  <2>3. mode' = "ready" =>
          loaded' = [files |-> written, labels |-> LoadLabels, trie |-> LoadTrie(TrieFile),
                     attrToId |-> attrToId, attrGraph |-> attrGraph]
    BY <1>2, <2>2 DEF Load
  <2> QED BY <2>1, <2>3, StillMemory DEF MemoryInv
<1> QED BY <1>1, <1>2, BuildMemory DEF DiskNext

-----------------------------------------------------------------------------
\* Numbering the elements of a set by how many come before them.

\* R holds the pairs of a strict total order on A
Orders(A, R) ==
  /\ \A x \in A : <<x, x>> \notin R
  /\ \A x, y \in A : x = y \/ <<x, y>> \in R \/ <<y, x>> \in R
  /\ \A x, y, z \in A : <<x, y>> \in R /\ <<y, z>> \in R => <<x, z>> \in R

Ahead(A, R, x) == {y \in A : <<y, x>> \in R}

\* No two elements get a number, and all numbers are below the size of the set.
LEMMA RanksDiffer ==
  ASSUME NEW A, IsFiniteSet(A), NEW R, Orders(A, R)
  PROVE  /\ \A x \in A : Cardinality(Ahead(A, R, x)) \in Nat
                         /\ Cardinality(Ahead(A, R, x)) < Cardinality(A)
         /\ \A x, y \in A : <<x, y>> \in R => Cardinality(Ahead(A, R, x)) < Cardinality(Ahead(A, R, y))
         /\ \A x, y \in A : Cardinality(Ahead(A, R, x)) = Cardinality(Ahead(A, R, y)) => x = y
<1>1. \A x \in A : Ahead(A, R, x) \in SUBSET A /\ x \notin Ahead(A, R, x)
  BY DEF Ahead, Orders
<1>2. \A x \in A : IsFiniteSet(Ahead(A, R, x)) /\ Cardinality(Ahead(A, R, x)) \in Nat
  BY <1>1, FS_Subset, FS_CardinalityType
<1>3. \A x \in A : Cardinality(Ahead(A, R, x)) < Cardinality(A)
  BY <1>1, FewerMembers
<1>4. ASSUME NEW x \in A, NEW y \in A, <<x, y>> \in R
      PROVE  Cardinality(Ahead(A, R, x)) < Cardinality(Ahead(A, R, y))
  <2>1. Ahead(A, R, x) \subseteq Ahead(A, R, y) BY <1>4 DEF Ahead, Orders
  <2>2. x \in Ahead(A, R, y) /\ x \notin Ahead(A, R, x) BY <1>1, <1>4 DEF Ahead
  <2> QED BY <1>2, <2>1, <2>2, FewerMembers
<1>5. ASSUME NEW x \in A, NEW y \in A, Cardinality(Ahead(A, R, x)) = Cardinality(Ahead(A, R, y))
      PROVE  x = y
  <2>1. Cardinality(Ahead(A, R, x)) \in Nat /\ Cardinality(Ahead(A, R, y)) \in Nat BY <1>2
  <2>2. <<x, y>> \notin R /\ <<y, x>> \notin R BY <1>4, <1>5, <2>1
  <2> QED BY <2>2 DEF Orders
<1> QED BY <1>2, <1>3, <1>4, <1>5

-----------------------------------------------------------------------------
\* The vectors' attributes and their bitmaps.
LEMMA StorageTypes ==
  ASSUME BaseInv, phase \in Built
  PROVE  /\ DOMAIN labelSets = 1 .. NumVectors
         /\ \A i \in 1 .. NumVectors : labelSets[i] \in SUBSET Labels
         /\ labelSets \in Seq(SUBSET Labels) /\ Len(labelSets) = NumVectors
<1>1. labelSets \in Seq(SUBSET Labels) /\ Len(labelSets) = NumVectors
  BY DEF BaseInv, VecsInv, Built
<1> QED BY <1>1, LenProperties, ElementOfSeq

LEMMA AttributesAreLabels ==
  ASSUME BaseInv, phase \in Built
  PROVE  Attributes \in SUBSET Labels /\ IsFiniteSet(Attributes) /\ Cardinality(Attributes) \in Nat
<1>1. Attributes \in SUBSET Labels BY StorageTypes DEF Attributes
<1> QED BY <1>1, LabelSetFinite

LEMMA SeenFirst ==
  ASSUME BaseInv, phase \in Built, NEW l \in Attributes
  PROVE  FirstSeen(l) \in Nat
<1> DEFINE T == {i \in DOMAIN labelSets : l \in labelSets[i]}
<1>1. T # {} /\ T \subseteq Nat BY StorageTypes DEF Attributes
<1> HIDE DEF T
<1>2. PICK i \in T : \A j \in T : i <= j BY <1>1, LeastMember
<1>3. i \in 1 .. NumVectors /\ l \in labelSets[i] BY <1>2, StorageTypes DEF T
<1>4. \A j \in 1 .. i - 1 : l \notin labelSets[j]
  <2> SUFFICES ASSUME NEW j \in 1 .. i - 1, l \in labelSets[j] PROVE FALSE OBVIOUS
  <2>1. j \in 1 .. NumVectors /\ j < i BY <1>3, NumVectorsAssumption
  <2>2. j \in T BY <2>1, StorageTypes DEF T
  <2> QED BY <1>2, <1>3, <2>1, <2>2, NumVectorsAssumption
<1>5. \E k \in DOMAIN labelSets : l \in labelSets[k] /\ \A j \in 1 .. k - 1 : l \notin labelSets[j]
  BY <1>3, <1>4, StorageTypes
<1>6. FirstSeen(l) \in DOMAIN labelSets BY <1>5 DEF FirstSeen
<1> QED BY <1>6, StorageTypes

\* Every attribute has a node of its own behind the vectors.
LEMMA AttributeNodes ==
  ASSUME BaseInv, phase \in Built
  PROVE  /\ \A l \in Attributes : AttrIds[l] \in Nat /\ AttrIds[l] < Cardinality(Attributes)
         /\ \A k, l \in Attributes : AttrIds[k] = AttrIds[l] => k = l
<1> DEFINE A == Attributes
           R == {p \in A \X A : SeenBefore(p[1], p[2])}
<1>1. A \in SUBSET Labels /\ A \subseteq Nat /\ IsFiniteSet(A)
  BY AttributesAreLabels, LabelSetFinite
<1>2. \A l \in A : FirstSeen(l) \in Nat BY SeenFirst
<1>3. \A k, l \in A : <<k, l>> \in R <=> SeenBefore(k, l) OBVIOUS
<1>4. Orders(A, R)
  <2> HIDE DEF A, R
  <2>1. \A x \in A : ~SeenBefore(x, x) BY <1>1, <1>2 DEF SeenBefore
  <2>2. ASSUME NEW x \in A, NEW y \in A, x # y PROVE SeenBefore(x, y) \/ SeenBefore(y, x)
    <3>1. x \in Nat /\ y \in Nat /\ FirstSeen(x) \in Nat /\ FirstSeen(y) \in Nat BY <1>1, <1>2
    <3> QED BY <2>2, <3>1 DEF SeenBefore
  <2>3. ASSUME NEW x \in A, NEW y \in A, NEW z \in A, SeenBefore(x, y), SeenBefore(y, z)
        PROVE  SeenBefore(x, z)
    <3>1. x \in Nat /\ y \in Nat /\ z \in Nat BY <1>1
    <3>2. FirstSeen(x) \in Nat /\ FirstSeen(y) \in Nat /\ FirstSeen(z) \in Nat BY <1>2
    <3> QED BY <2>3, <3>1, <3>2 DEF SeenBefore
  <2> QED BY <1>3, <2>1, <2>2, <2>3 DEF Orders
<1>5. \A l \in A : AttrIds[l] = Cardinality(Ahead(A, R, l))
  <2> TAKE l \in A
  <2>1. Ahead(A, R, l) = {k \in A : SeenBefore(k, l)} BY DEF Ahead
  <2>2. AttrIds[l] = Cardinality({k \in A : SeenBefore(k, l)}) BY DEF AttrIds
  <2> QED BY <2>1, <2>2
<1> HIDE DEF A, R
<1>6. /\ \A l \in A : AttrIds[l] \in Nat /\ AttrIds[l] < Cardinality(A)
      /\ \A k, l \in A : AttrIds[k] = AttrIds[l] => k = l
  BY <1>1, <1>4, <1>5, RanksDiffer
<1> QED BY <1>6 DEF A

\* An attribute's node leads to the vectors that have it.
LEMMA NodeLeadsToVectors ==
  ASSUME BaseInv, phase \in Built, NEW l \in Attributes
  PROVE  VectorAttrGraph(AttrIds)[NumVectors + AttrIds[l]] = VectorsOf(l)
<1> DEFINE node == NumVectors + AttrIds[l]
<1>1. \A k \in Attributes : AttrIds[k] \in Nat /\ AttrIds[k] < Cardinality(Attributes)
  BY AttributeNodes
<1>2. node \in 0 .. NumVectors + Cardinality(Attributes) - 1 /\ node \notin Points
  BY <1>1, NumVectorsAssumption, AttributesAreLabels DEF Points
<1>3. {k \in Attributes : NumVectors + AttrIds[k] = node} = {l}
  <2>1. \A k \in Attributes : NumVectors + AttrIds[k] = node <=> AttrIds[k] = AttrIds[l]
    BY <1>1, NumVectorsAssumption
  <2>2. \A k \in Attributes : AttrIds[k] = AttrIds[l] <=> k = l BY AttributeNodes
  <2> QED BY <2>1, <2>2
<1>4. VectorAttrGraph(AttrIds)[node]
        = UNION {VectorsOf(k) : k \in {j \in Attributes : NumVectors + AttrIds[j] = node}}
  <2> HIDE DEF node
  <2> QED BY <1>2 DEF VectorAttrGraph
<1> QED BY <1>3, <1>4

LEMMA BitmapMatches ==
  ASSUME BaseInv, phase \in Built, NEW Q \in SUBSET Labels
  PROVE  Bitmap(AttrIds, VectorAttrGraph(AttrIds), Q) = {v \in Points : Q \subseteq labelSets[v + 1]}
<1> DEFINE G == VectorAttrGraph(AttrIds)
<1>1. DOMAIN AttrIds = Attributes BY DEF AttrIds
<1>2. \A l \in Attributes : G[NumVectors + AttrIds[l]] = VectorsOf(l) BY NodeLeadsToVectors
<1> HIDE DEF G
<1>3. CASE Q \subseteq Attributes
  <2>1. \A v \in Points : \A l \in Q : v \in G[NumVectors + AttrIds[l]] <=> l \in labelSets[v + 1]
    BY <1>2, <1>3 DEF VectorsOf
  <2> QED BY <1>1, <1>3, <2>1 DEF Bitmap, G
<1>4. CASE ~(Q \subseteq Attributes)
  <2>1. \A v \in Points : ~(Q \subseteq labelSets[v + 1])
    <3> TAKE v \in Points
    <3>1. v + 1 \in DOMAIN labelSets BY StorageTypes, NumVectorsAssumption DEF Points
    <3>2. labelSets[v + 1] \subseteq Attributes BY <3>1 DEF Attributes
    <3> QED BY <1>4, <3>2
  <2> QED BY <1>1, <1>4, <2>1 DEF Bitmap, G
<1> QED BY <1>3, <1>4

LEMMA MemoryHolds == DiskSpec => [](DiskInv /\ MemoryInv)
<1>1. DiskInit => DiskInv /\ MemoryInv BY InitDisk, MemoryInit
<1>2. DiskInv /\ MemoryInv /\ [DiskNext]_<<vars, diskVars>> => DiskInv' /\ MemoryInv'
  BY DiskStep, DiskMemory
<1> QED BY <1>1, <1>2, PTL DEF DiskSpec

\* For any vectors with any labels and any query: the bitmap compute_attribute_bitmap
\* takes from the loaded vector-attribute graph marks exactly the vectors, in the
\* ids of the reordered storage, that have all labels of the query.
THEOREM BitmapAlwaysExact == DiskSpec => []BitmapExact
<1>1. MemoryInv => BitmapExact
  <2> SUFFICES ASSUME MemoryInv, mode = "ready", NEW Q \in SUBSET Labels
               PROVE  Bitmap(loaded.attrToId, loaded.attrGraph, Q)
                        = {v \in Points : Q \subseteq groupLabels[newToGroup[v + 1]]}
    BY DEF BitmapExact
  <2>1. /\ BaseInv /\ phase \in Built
        /\ loaded.attrToId = AttrIds /\ loaded.attrGraph = VectorAttrGraph(AttrIds)
    BY DEF MemoryInv
  <2>2. \A v \in Points : labelSets[v + 1] = groupLabels[newToGroup[v + 1]]
    <3> TAKE v \in Points
    <3>1. v + 1 \in 1 .. NumVectors BY NumVectorsAssumption DEF Points
    <3> QED BY <2>1, <3>1 DEF BaseInv, ReorderedInv
  <2> QED BY <2>1, <2>2, BitmapMatches
<1> QED BY <1>1, MemoryHolds, PTL

-----------------------------------------------------------------------------
\* The lines are written vector by vector.
LEMMA LinesUnfold ==
  ASSUME labelSets \in Seq(SUBSET Labels)
  PROVE  \A i \in 0 .. Len(labelSets) :
           LinesOf[i] = IF i = 0 THEN <<>>
                        ELSE IF labelSets[i] = {} THEN LinesOf[i - 1]
                             ELSE Append(LinesOf[i - 1], labelSets[i])
<1> DEFINE X == 0 .. Len(labelSets)
           V == Seq(SUBSET Labels)
           size == [i \in X |-> i]
           base == [i \in X |-> <<>>]
           prev == [i \in X |-> i - 1]
           step == [p \in X \X V |-> IF labelSets[p[1]] = {} THEN p[2] ELSE Append(p[2], labelSets[p[1]])]
<1>1. Len(labelSets) \in Nat /\ \A i \in 1 .. Len(labelSets) : labelSets[i] \in SUBSET Labels
  BY LenProperties, ElementOfSeq
<1>2. Descends(X, V, size, base, prev, step)
  <2> SUFFICES ASSUME NEW i \in X
               PROVE  /\ i \in Nat
                      /\ i = 0 => <<>> \in V
                      /\ i # 0 => /\ i - 1 \in X /\ size[i - 1] < i
                                  /\ \A v \in V : step[<<i, v>>] \in V
    BY DEF Descends
  <2>1. i \in Nat BY <1>1
  <2>2. <<>> \in V OBVIOUS
  <2>3. CASE i # 0
    <3>1. i - 1 \in X /\ i - 1 < i /\ labelSets[i] \in SUBSET Labels BY <1>1, <2>3
    <3>2. ASSUME NEW v \in V PROVE step[<<i, v>>] \in V
      <4>1. step[<<i, v>>] = IF labelSets[i] = {} THEN v ELSE Append(v, labelSets[i]) OBVIOUS
      <4>2. Append(v, labelSets[i]) \in V BY <3>1, AppendProperties
      <4> HIDE DEF step
      <4> QED BY <4>1, <4>2
    <3>3. size[i - 1] < i BY <3>1
    <3> QED BY <3>1, <3>2, <3>3
  <2> QED BY <2>1, <2>2, <2>3
<1>3. \A i \in X : size[i] <= Len(labelSets) BY <1>1
<1> DEFINE IsLines(f) == f = [i \in 0 .. Len(labelSets) |->
             IF i = 0 THEN <<>>
             ELSE IF labelSets[i] = {} THEN f[i - 1] ELSE Append(f[i - 1], labelSets[i])]
<1>4. \E f : IsLines(f)
  <2>1. PICK f \in [X -> V] : IsRecursive(f, X, size, base, prev, step)
    <3> HIDE DEF X, V, size, base, prev, step
    <3> QED BY <1>1, <1>2, <1>3, RecursionExists
  <2>2. f = [i \in X |-> IF size[i] = 0 THEN base[i] ELSE step[<<i, f[prev[i]]>>]]
    <3> HIDE DEF X, V, size, base, prev, step
    <3> QED BY <2>1 DEF IsRecursive
  <2>3. ASSUME NEW i \in X
        PROVE  (IF size[i] = 0 THEN base[i] ELSE step[<<i, f[prev[i]]>>])
                 = IF i = 0 THEN <<>> ELSE IF labelSets[i] = {} THEN f[i - 1] ELSE Append(f[i - 1], labelSets[i])
    <3>1. i # 0 => i - 1 \in X BY <1>1
    <3>2. i # 0 => f[i - 1] \in V
      <4> HIDE DEF X, V
      <4> QED BY <2>1, <3>1
    <3> QED BY <3>2
  <2>4. IsLines(f)
    <3> HIDE DEF size, base, prev, step
    <3> QED BY <2>2, <2>3
  <2> QED BY <2>4
<1>5. IsLines(LinesOf) BY <1>4 DEF LinesOf
<1> QED BY <1>5

\* Where no vector is without labels there is a line for each.
LEMMA AllLinesWritten ==
  ASSUME labelSets \in Seq(SUBSET Labels), \A i \in 1 .. Len(labelSets) : labelSets[i] # {}
  PROVE  LabelLines = labelSets
<1> DEFINE n == Len(labelSets)
           Holds(k) == /\ LinesOf[k] \in Seq(SUBSET Labels) /\ Len(LinesOf[k]) = k
                       /\ \A i \in 1 .. k : LinesOf[k][i] = labelSets[i]
           T == {k \in 0 .. n : ~Holds(k)}
<1>1. n \in Nat /\ \A i \in 1 .. n : labelSets[i] \in SUBSET Labels
  BY LenProperties, ElementOfSeq
<1>2. ASSUME NEW k \in T, \A j \in T : k <= j PROVE FALSE
  <2>1. k \in 0 .. n /\ ~Holds(k) BY <1>2
  <2>2. k # 0
    <3>1. LinesOf[0] = <<>> BY <1>1, LinesUnfold
    <3>2. Holds(0) BY <3>1
    <3> QED BY <2>1, <3>2
  <2>3. k - 1 \in 0 .. n /\ ~(k <= k - 1) /\ k \in 1 .. n /\ k \in Nat BY <1>1, <2>1, <2>2
  <2>4. Holds(k - 1)
    <3> HIDE DEF Holds
    <3> QED BY <1>2, <2>3
  <2>5. LinesOf[k] = Append(LinesOf[k - 1], labelSets[k]) BY <2>1, <2>2, <2>3, LinesUnfold
  <2> DEFINE s == LinesOf[k - 1]
             e == labelSets[k]
  <2>6. s \in Seq(SUBSET Labels) /\ Len(s) = k - 1 /\ e \in SUBSET Labels BY <1>1, <2>3, <2>4
  <2>7. \A i \in 1 .. k - 1 : s[i] = labelSets[i] BY <2>4
  <2> HIDE DEF s, Holds
  <2>8. /\ Append(s, e) \in Seq(SUBSET Labels) /\ Len(Append(s, e)) = k
        /\ \A i \in 1 .. k - 1 : Append(s, e)[i] = s[i]
        /\ Append(s, e)[k] = e
    <3> HIDE DEF e
    <3> QED BY <2>3, <2>6, AppendProperties
  <2>9. \A i \in 1 .. k : i \in 1 .. k - 1 \/ i = k BY <2>3
  <2>10. LinesOf[k] = Append(s, e) BY <2>5 DEF s
  <2>11. Holds(k) BY <2>7, <2>8, <2>9, <2>10 DEF Holds
  <2> QED BY <2>1, <2>11
<1>3. Holds(n)
  <2>1. T \subseteq Nat BY <1>1
  <2> HIDE DEF T, Holds
  <2>2. T = {} BY <1>2, <2>1, LeastMember
  <2>3. n \in 0 .. n BY <1>1
  <2> QED BY <2>2, <2>3 DEF T
<1> DEFINE s == LinesOf[n]
<1>4. s \in Seq(SUBSET Labels) /\ Len(s) = Len(labelSets) /\ \A i \in 1 .. Len(s) : s[i] = labelSets[i]
  BY <1>3
<1>5. s = labelSets
  <2> HIDE DEF s, n
  <2> QED BY <1>4, SeqEqual
<1> QED BY <1>5 DEF LabelLines

\* For any vectors of which each has a label: after write_to_file and
\* load_from_file every vector has its own labels.
THEOREM LabelsAlwaysSurvive == DiskSpec => []LabelsSurvive
<1>1. MemoryInv => LabelsSurvive
  <2> SUFFICES ASSUME MemoryInv, mode = "ready", {} \notin {labelSets[i] : i \in DOMAIN labelSets}
               PROVE  loaded.labels = labelSets
    BY DEF LabelsSurvive
  <2>1. BaseInv /\ phase \in Built /\ loaded.labels = LoadLabels BY DEF MemoryInv
  <2>2. /\ labelSets \in Seq(SUBSET Labels) /\ Len(labelSets) = NumVectors
        /\ DOMAIN labelSets = 1 .. NumVectors
    BY <2>1, StorageTypes
  <2>3. LabelLines = labelSets BY <2>2, AllLinesWritten
  <2>4. \A i \in DOMAIN labelSets : HasLine(i)
    BY <2>2, <2>3 DEF HasLine
  <2>5. LoadLabels = [i \in DOMAIN labelSets |-> labelSets[i]] BY <2>3, <2>4 DEF LoadLabels
  <2>6. [i \in DOMAIN labelSets |-> labelSets[i]] = labelSets BY <2>2
  <2> QED BY <2>1, <2>5, <2>6
<1> QED BY <1>1, MemoryHolds, PTL

-----------------------------------------------------------------------------
\* The numbers of the trie's nodes.

\* A node precedes another that has the last label in which they differ.
LEMMA PrecedesAt ==
  ASSUME NEW m \in SUBSET Labels, NEW n \in SUBSET Labels
  PROVE  Precedes(m, n) <=> \E l \in n \ m : \A k \in Labels : l < k => (k \in m <=> k \in n)
<1> DEFINE D == (m \ n) \union (n \ m)
<1>1. D \in SUBSET Labels /\ D \subseteq Nat BY LabelSetFinite
<1>2. ASSUME Precedes(m, n)
      PROVE  \E l \in n \ m : \A k \in Labels : l < k => (k \in m <=> k \in n)
  <2> DEFINE l == LastLabel(D)
  <2>1. m # n /\ l \in n BY <1>2 DEF Precedes
  <2>2. D # {} BY <2>1
  <2>3. l \in D /\ \A k \in D : k <= l
    <3> HIDE DEF D
    <3> QED BY <1>1, <2>2, LastLabelLargest
  <2>4. l \in n \ m BY <2>1, <2>3
  <2>5. ASSUME NEW k \in Labels, l < k PROVE k \in m <=> k \in n
    <3>1. l \in Nat /\ k \in Nat BY <1>1, <2>3, LabelsAssumption
    <3>2. k \notin D
      <4> HIDE DEF l, D
      <4> QED BY <2>3, <2>5, <3>1
    <3> QED BY <3>2
  <2> QED BY <2>4, <2>5
<1>3. ASSUME NEW l \in n \ m, \A k \in Labels : l < k => (k \in m <=> k \in n)
      PROVE  Precedes(m, n)
  <2>1. l \in D /\ m # n /\ D # {} BY <1>3
  <2>2. LastLabel(D) \in D /\ l <= LastLabel(D)
    <3> HIDE DEF D
    <3> QED BY <1>1, <2>1, LastLabelLargest
  <2>3. ~(l < LastLabel(D)) BY <1>1, <1>3, <2>2
  <2>4. LastLabel(D) = l
    <3> DEFINE last == LastLabel(D)
    <3>1. l \in Nat /\ last \in Nat
      <4> HIDE DEF D
      <4> QED BY <1>1, <2>1, <2>2
    <3>2. l <= last /\ ~(l < last) BY <2>2, <2>3
    <3> HIDE DEF last
    <3>3. last = l BY <3>1, <3>2
    <3> QED BY <3>3 DEF last
  <2> QED BY <1>3, <2>1, <2>4 DEF Precedes
<1> QED BY <1>2, <1>3

\* That is a strict total order.
LEMMA PrecedesOrders ==
  ASSUME NEW N, N \subseteq SUBSET Labels
  PROVE  Orders(N, {p \in N \X N : Precedes(p[1], p[2])})
<1> DEFINE R == {p \in N \X N : Precedes(p[1], p[2])}
<1>1. \A m, n \in N : <<m, n>> \in R <=> Precedes(m, n) OBVIOUS
<1>2. \A m \in N : ~Precedes(m, m) BY DEF Precedes
<1>3. ASSUME NEW m \in N, NEW n \in N, m # n PROVE Precedes(m, n) \/ Precedes(n, m)
  <2> DEFINE D == (m \ n) \union (n \ m)
  <2>1. D \in SUBSET Labels /\ D # {} BY <1>3
  <2>2. LastLabel(D) \in D
    <3> HIDE DEF D
    <3> QED BY <2>1, LastLabelLargest
  <2>3. (n \ m) \union (m \ n) = D OBVIOUS
  <2> QED BY <1>3, <2>2, <2>3 DEF Precedes
<1>4. ASSUME NEW m \in N, NEW n \in N, NEW o \in N, Precedes(m, n), Precedes(n, o)
      PROVE  Precedes(m, o)
  <2>1. PICK a \in n \ m : \A k \in Labels : a < k => (k \in m <=> k \in n)
    BY <1>4, PrecedesAt
  <2>2. PICK b \in o \ n : \A k \in Labels : b < k => (k \in n <=> k \in o)
    BY <1>4, PrecedesAt
  <2>3. a \in Nat /\ b \in Nat /\ a \in Labels /\ b \in Labels /\ a # b /\ \A k \in Labels : k \in Nat
    BY LabelsAssumption
  <2>4. CASE a < b
    <3>1. b \in o \ m BY <2>1, <2>2, <2>3, <2>4
    <3>2. \A k \in Labels : b < k => (k \in m <=> k \in o) BY <2>1, <2>2, <2>3, <2>4
    <3> QED BY <3>1, <3>2, PrecedesAt
  <2>5. CASE b < a
    <3>1. a \in o \ m BY <2>1, <2>2, <2>3, <2>5
    <3>2. \A k \in Labels : a < k => (k \in m <=> k \in o) BY <2>1, <2>2, <2>3, <2>5
    <3> QED BY <3>1, <3>2, PrecedesAt
  <2> QED BY <2>3, <2>4, <2>5
<1> HIDE DEF R
<1>5. \A x \in N : <<x, x>> \notin R BY <1>1, <1>2
<1>6. \A x, y \in N : x = y \/ <<x, y>> \in R \/ <<y, x>> \in R BY <1>1, <1>3
<1>7. \A x, y, z \in N : <<x, y>> \in R /\ <<y, z>> \in R => <<x, z>> \in R BY <1>1, <1>4
<1>8. Orders(N, R) BY <1>5, <1>6, <1>7 DEF Orders
<1> QED BY <1>8 DEF R

\* what holds of the trie when it is saved
LEMMA TrieNodes ==
  ASSUME SafetyInv
  PROVE  /\ nodes \in SUBSET SUBSET Labels /\ IsFiniteSet(nodes) /\ {} \in nodes
         /\ \A n \in nodes : n # {} => n \ {LastLabel(n)} \in nodes /\ LastLabel(n) \in n
<1>1. nodes \in SUBSET SUBSET Labels BY DEF SafetyInv, TrieTypeOK
<1>2. IsFiniteSet(nodes)
  <2>1. IsFiniteSet(SUBSET Labels) BY LabelsAssumption, FS_SUBSET
  <2> QED BY <1>1, <2>1, FS_Subset
<1>3. nodes = {{}} \union (UNION {Path(S) : S \in Terminals}) BY DEF SafetyInv, IdsDense
<1>4. {} \in nodes BY <1>3
<1>5. ASSUME NEW n \in nodes, n # {} PROVE n \ {LastLabel(n)} \in nodes /\ LastLabel(n) \in n
  <2>1. PICK S \in Terminals : n \in Path(S) BY <1>3, <1>5
  <2>2. S \in SUBSET Labels /\ S \subseteq Nat BY <1>1, LabelSetFinite DEF Terminals
  <2>3. n \subseteq S /\ \A l \in S \ n, k \in n : k < l BY <2>1 DEF Path, IsPrefix
  <2>4. LastLabel(n) \in n /\ \A k \in n : k <= LastLabel(n) BY <1>1, <1>5, LastLabelLargest
  <2> DEFINE last == LastLabel(n)
             m == n \ {last}
  <2>5. \A l \in S \ m, k \in m : k < l
    <3> TAKE l \in S \ m, k \in m
    <3>1. k \in n /\ k # last /\ k \in Nat /\ l \in Nat /\ k <= last /\ last \in Nat BY <2>2, <2>3, <2>4
    <3>2. l = last \/ l \in S \ n OBVIOUS
    <3> HIDE DEF m, last
    <3> QED BY <2>3, <3>1, <3>2
  <2>6. m \in Path(S) BY <2>3, <2>5 DEF Path, IsPrefix
  <2> HIDE DEF m
  <2>7. m \in nodes BY <1>3, <2>6
  <2> QED BY <2>4, <2>7 DEF m
<1> QED BY <1>1, <1>2, <1>4, <1>5

\* The nodes are numbered from 0, the root's number, without a gap.
LEMMA TrieIds ==
  ASSUME SafetyInv
  PROVE  /\ TrieId({}) = 0
         /\ \A m, n \in nodes : TrieId(m) = TrieId(n) => m = n
         /\ {TrieId(n) : n \in nodes} = 0 .. Cardinality(nodes) - 1
         /\ Cardinality(nodes) \in Nat
<1> DEFINE R == {p \in nodes \X nodes : Precedes(p[1], p[2])}
<1>1. nodes \in SUBSET SUBSET Labels /\ IsFiniteSet(nodes) /\ {} \in nodes BY TrieNodes
<1>2. Orders(nodes, R) BY <1>1, PrecedesOrders
<1>3. \A n \in nodes : TrieId(n) = Cardinality(Ahead(nodes, R, n))
  <2> TAKE n \in nodes
  <2>1. Ahead(nodes, R, n) = {m \in nodes : Precedes(m, n)} BY DEF Ahead
  <2> QED BY <2>1 DEF TrieId
<1> HIDE DEF R
<1>4. /\ \A n \in nodes : TrieId(n) \in Nat /\ TrieId(n) < Cardinality(nodes)
      /\ \A m, n \in nodes : TrieId(m) = TrieId(n) => m = n
  BY <1>1, <1>2, <1>3, RanksDiffer
<1>5. TrieId({}) = 0
  <2>1. {m \in nodes : Precedes(m, {})} = {} BY DEF Precedes
  <2> QED BY <2>1, FS_EmptySet DEF TrieId
<1>6. {TrieId(n) : n \in nodes} = 0 .. Cardinality(nodes) - 1
  <2> DEFINE I == {TrieId(n) : n \in nodes}
             N == Cardinality(nodes)
             f == [n \in nodes |-> TrieId(n)]
  <2>1. f \in Bijection(nodes, I) BY <1>4 DEF Bijection, Injection, Surjection, IsInjective
  <2>2. ExistsBijection(nodes, I) BY <2>1 DEF ExistsBijection
  <2>3. N \in Nat BY <1>1, FS_CardinalityType
  <2>4. I \subseteq 0 .. N - 1
    <3> HIDE DEF N
    <3> QED BY <1>4, <2>3 DEF N
  <2> HIDE DEF I
  <2>5. Cardinality(I) = N BY <1>1, <2>2, FS_Bijection
  <2>6. IsFiniteSet(0 .. N - 1) /\ Cardinality(0 .. N - 1) = N
    <3> HIDE DEF N
    <3>1. 0 \in Int /\ N - 1 \in Int BY <2>3
    <3>2. Cardinality(0 .. N - 1) = IF 0 > N - 1 THEN 0 ELSE (N - 1) - 0 + 1 BY <3>1, FS_Interval
    <3> QED BY <2>3, <3>1, <3>2, FS_Interval
  <2> HIDE DEF N
  <2>7. I = 0 .. N - 1
    <3> DEFINE J == 0 .. N - 1
    <3>1. I \in SUBSET J /\ IsFiniteSet(J) /\ Cardinality(J) = N BY <2>4, <2>6
    <3> HIDE DEF J
    <3>2. I # J => Cardinality(I) < Cardinality(J) BY <3>1, FewerMembers
    <3> QED BY <2>3, <2>5, <3>1, <3>2 DEF J
  <2> QED BY <2>7 DEF I, N
<1>7. Cardinality(nodes) \in Nat BY <1>1, FS_CardinalityType
<1> QED BY <1>4, <1>5, <1>6, <1>7

Children(n) == {<<LastLabel(c), TrieId(c)>> : c \in {k \in nodes \ {{}} : k \ {LastLabel(k)} = n}}

NodeRecord(n) ==
  [id |-> TrieId(n),
   label |-> IF n = {} THEN 0 ELSE LastLabel(n),
   group |-> groupId[n],
   labels |-> IF groupId[n] = 0 THEN 0 ELSE Cardinality(n),
   size |-> groupSize[n],
   parent |-> ParentId(n),
   children |-> Children(n)]

\* load finds every node's record at its number, and nothing else.
LEMMA LoadedNodes ==
  ASSUME SafetyInv
  PROVE  /\ DOMAIN LoadTrie(TrieFile) = {TrieId(n) : n \in nodes}
         /\ \A n \in nodes : LoadTrie(TrieFile)[TrieId(n)] = NodeRecord(n)
<1>1. TrieFile = {NodeRecord(n) : n \in nodes}
  BY DEF TrieFile, NodeRecord, Children
<1>2. \A n \in nodes : NodeRecord(n).id = TrieId(n) BY DEF NodeRecord
<1>3. /\ \A m, n \in nodes : TrieId(m) = TrieId(n) => m = n
      /\ {TrieId(n) : n \in nodes} = 0 .. Cardinality(nodes) - 1
  BY TrieIds
<1>4. Cardinality(TrieFile) = Cardinality(nodes)
  <2> DEFINE f == [n \in nodes |-> NodeRecord(n)]
  <2>1. \A m, n \in nodes : NodeRecord(m) = NodeRecord(n) => m = n BY <1>2, <1>3
  <2>2. f \in Bijection(nodes, TrieFile)
    BY <1>1, <2>1 DEF Bijection, Injection, Surjection, IsInjective
  <2>3. ExistsBijection(nodes, TrieFile) BY <2>2 DEF ExistsBijection
  <2> QED BY <2>3, FS_Bijection, TrieNodes
<1>5. DOMAIN LoadTrie(TrieFile) = {TrieId(n) : n \in nodes} BY <1>3, <1>4 DEF LoadTrie
<1>6. ASSUME NEW n \in nodes PROVE LoadTrie(TrieFile)[TrieId(n)] = NodeRecord(n)
  <2>1. TrieId(n) \in 0 .. Cardinality(TrieFile) - 1 BY <1>3, <1>4
  <2>2. LoadTrie(TrieFile)[TrieId(n)] = CHOOSE r \in TrieFile : r.id = TrieId(n)
    BY <2>1 DEF LoadTrie
  <2>3. NodeRecord(n) \in TrieFile /\ NodeRecord(n).id = TrieId(n) BY <1>1, <1>2
  <2>4. \A r \in TrieFile : r.id = TrieId(n) => r = NodeRecord(n)
    BY <1>1, <1>2, <1>3
  <2> QED BY <2>2, <2>3, <2>4
<1> QED BY <1>5, <1>6

\* A step down: below the node of all labels but the last, the node of all.
ChildOf(I, l) ==
  {e[2] : e \in {x \in UNION {loaded.trie[i].children : i \in I} : x[1] = l}}

Reached(S) == IF S \in nodes THEN {TrieId(S)} ELSE {}

LEMMA StepDown ==
  ASSUME SafetyInv, loaded.trie = LoadTrie(TrieFile), NEW S \in SUBSET Labels, S # {}
  PROVE  ChildOf(Reached(S \ {LastLabel(S)}), LastLabel(S)) = Reached(S)
<1> DEFINE last == LastLabel(S)
           P == S \ {last}
<1>1. last \in S BY LastLabelLargest
<1>2. \A c \in nodes : c # {} => c \ {LastLabel(c)} \in nodes /\ LastLabel(c) \in c BY TrieNodes
<1>3. CASE P \in nodes
  <2>1. UNION {loaded.trie[i].children : i \in Reached(P)} = Children(P)
    <3>1. loaded.trie[TrieId(P)] = NodeRecord(P) BY <1>3, LoadedNodes
    <3>2. Reached(P) = {TrieId(P)} BY <1>3 DEF Reached
    <3> QED BY <3>1, <3>2 DEF NodeRecord
  <2>2. ChildOf(Reached(P), last) = {e[2] : e \in {x \in Children(P) : x[1] = last}}
    BY <2>1 DEF ChildOf
  <2>3. ASSUME NEW c \in nodes, c # {}, c \ {LastLabel(c)} = P, LastLabel(c) = last PROVE c = S
    <3>1. LastLabel(c) \in c BY <1>2, <2>3
    <3>2. S = P \union {last} /\ c = (c \ {LastLabel(c)}) \union {LastLabel(c)} BY <1>1, <3>1
    <3> QED BY <2>3, <3>2
  <2>4. {x \in Children(P) : x[1] = last} = IF S \in nodes THEN {<<last, TrieId(S)>>} ELSE {}
    BY <1>1, <2>3 DEF Children
  <2> HIDE DEF P, last
  <2>5. CASE S \in nodes
    <3> DEFINE child == <<last, TrieId(S)>>
    <3>1. ChildOf(Reached(P), last) = {e[2] : e \in {child}} BY <2>2, <2>4, <2>5
    <3>2. child[2] = TrieId(S) OBVIOUS
    <3> HIDE DEF child
    <3>3. ChildOf(Reached(P), last) = {TrieId(S)} BY <3>1, <3>2
    <3> QED BY <2>5, <3>3 DEF Reached, P, last
  <2>6. CASE S \notin nodes
    <3>1. ChildOf(Reached(P), last) = {} BY <2>2, <2>4, <2>6
    <3> QED BY <2>6, <3>1 DEF Reached, P, last
  <2> QED BY <2>5, <2>6
<1>4. CASE P \notin nodes
  <2>1. S \notin nodes BY <1>1, <1>2, <1>4
  <2>2. Reached(P) = {} BY <1>4 DEF Reached
  <2> HIDE DEF P, last
  <2>3. ChildOf(Reached(P), last) = {} BY <2>2 DEF ChildOf
  <2>4. ChildOf(Reached(P), last) = Reached(S) BY <2>1, <2>3 DEF Reached
  <2> QED BY <2>4 DEF P, last
<1> QED BY <1>3, <1>4

\* The walk down the loaded trie ends at the label set's node, if there is one ...
LEMMA DownReaches ==
  ASSUME SafetyInv, loaded.trie = LoadTrie(TrieFile)
  PROVE  \A S \in SUBSET Labels : Down[S] = Reached(S)
<1> DEFINE IsDown(f) == f = [S \in SUBSET Labels |->
             IF S = {} THEN {0}
             ELSE {e[2] : e \in {x \in UNION {loaded.trie[i].children : i \in f[S \ {LastLabel(S)}]} :
                                   x[1] = LastLabel(S)}}]
<1>1. Reached({}) = {0} BY TrieNodes, TrieIds DEF Reached
<1>2. \E f : IsDown(f)
  <2> DEFINE f == [S \in SUBSET Labels |-> Reached(S)]
  <2>1. ASSUME NEW S \in SUBSET Labels
        PROVE  Reached(S) = IF S = {} THEN {0} ELSE ChildOf(f[S \ {LastLabel(S)}], LastLabel(S))
    <3>1. f[S \ {LastLabel(S)}] = Reached(S \ {LastLabel(S)}) OBVIOUS
    <3> QED BY <1>1, <3>1, StepDown
  <2>2. f = [S \in SUBSET Labels |->
               IF S = {} THEN {0} ELSE ChildOf(f[S \ {LastLabel(S)}], LastLabel(S))]
    <3>1. f = [S \in SUBSET Labels |-> Reached(S)] OBVIOUS
    <3> HIDE DEF f
    <3> QED BY <2>1, <3>1
  <2>3. IsDown(f)
    <3> HIDE DEF f
    <3> QED BY <2>2 DEF ChildOf
  <2> QED BY <2>3
<1>3. IsDown(Down) BY <1>2 DEF Down
<1>4. \A S \in SUBSET Labels :
        Down[S] = IF S = {} THEN {0} ELSE ChildOf(Down[S \ {LastLabel(S)}], LastLabel(S))
  BY <1>3 DEF ChildOf
<1> HIDE DEF IsDown
<1> DEFINE Wrong == {S \in SUBSET Labels : Down[S] # Reached(S)}
           size == [S \in Wrong |-> Cardinality(S)]
<1>5. ASSUME NEW S \in Wrong, \A P \in Wrong : size[S] <= size[P] PROVE FALSE
  <2>1. S \in SUBSET Labels /\ Down[S] # Reached(S) BY <1>5
  <2>2. S # {} BY <1>1, <1>4, <2>1
  <2> DEFINE P == S \ {LastLabel(S)}
  <2>3. P \in SUBSET Labels /\ P \in SUBSET S /\ P # S BY <2>1, <2>2, LastLabelLargest
  <2>4. P \notin Wrong
    <3>1. Cardinality(P) < Cardinality(S) /\ Cardinality(P) \in Nat /\ Cardinality(S) \in Nat
      <4> HIDE DEF P
      <4> QED BY <2>1, <2>3, SmallerSet, LabelSetFinite
    <3>2. P \in Wrong => Cardinality(S) <= Cardinality(P) BY <1>5
    <3> HIDE DEF P, Wrong
    <3> QED BY <3>1, <3>2
  <2>5. Down[P] = Reached(P) BY <2>3, <2>4
  <2>6. Down[S] = ChildOf(Down[P], LastLabel(S)) BY <1>4, <2>1, <2>2
  <2>7. ChildOf(Reached(P), LastLabel(S)) = Reached(S) BY <2>1, <2>2, StepDown
  <2> QED BY <2>1, <2>5, <2>6, <2>7
<1>6. Wrong = {}
  <2>1. \A S \in Wrong : size[S] \in Nat BY LabelSetFinite
  <2> HIDE DEF Wrong, size
  <2> QED BY <1>5, <2>1, LeastValue
<1> QED BY <1>6

\* A step up: from a node to its parent, with the node's label.
LEMMA StepUp ==
  ASSUME SafetyInv, loaded.trie = LoadTrie(TrieFile), NEW n \in nodes
  PROVE  /\ TrieId(n) = 0 <=> n = {}
         /\ n # {} => /\ n \ {LastLabel(n)} \in nodes
                      /\ loaded.trie[TrieId(n)].parent = TrieId(n \ {LastLabel(n)})
                      /\ n = (n \ {LastLabel(n)}) \union {loaded.trie[TrieId(n)].label}
<1>1. TrieId(n) = 0 <=> n = {}
  <2>1. {} \in nodes BY TrieNodes
  <2> QED BY <2>1, TrieIds
<1>2. ASSUME n # {}
      PROVE  /\ n \ {LastLabel(n)} \in nodes
             /\ loaded.trie[TrieId(n)].parent = TrieId(n \ {LastLabel(n)})
             /\ n = (n \ {LastLabel(n)}) \union {loaded.trie[TrieId(n)].label}
  <2>1. n \ {LastLabel(n)} \in nodes /\ LastLabel(n) \in n BY <1>2, TrieNodes
  <2>2. loaded.trie[TrieId(n)] = NodeRecord(n) BY LoadedNodes
  <2>3. loaded.trie[TrieId(n)].parent = TrieId(n \ {LastLabel(n)}) BY <1>2, <2>2 DEF NodeRecord, ParentId
  <2>4. loaded.trie[TrieId(n)].label = LastLabel(n) BY <1>2, <2>2 DEF NodeRecord
  <2> QED BY <2>1, <2>3, <2>4
<1> QED BY <1>1, <1>2

\* ... and the climb from there has the labels of the set.
LEMMA UpClimbs ==
  ASSUME SafetyInv, loaded.trie = LoadTrie(TrieFile)
  PROVE  \A n \in nodes : Up[TrieId(n)] = n
<1> DEFINE Ids == DOMAIN loaded.trie
           IsUp(f) == f = [i \in DOMAIN loaded.trie |->
             IF i = 0 THEN {} ELSE f[loaded.trie[i].parent] \union {loaded.trie[i].label}]
<1>1. Ids = {TrieId(n) : n \in nodes} BY LoadedNodes
<1>2. \E f : IsUp(f)
  <2> DEFINE f == [i \in Ids |-> CHOOSE n \in nodes : TrieId(n) = i]
  <2>1. \A n \in nodes : f[TrieId(n)] = n
    <3> TAKE n \in nodes
    <3>1. TrieId(n) \in Ids BY <1>1
    <3> HIDE DEF Ids
    <3>2. f[TrieId(n)] = CHOOSE m \in nodes : TrieId(m) = TrieId(n) BY <3>1
    <3>3. \A m \in nodes : TrieId(m) = TrieId(n) => m = n BY TrieIds
    <3> HIDE DEF f
    <3> QED BY <3>2, <3>3
  <2>2. ASSUME NEW i \in Ids
        PROVE  f[i] = IF i = 0 THEN {} ELSE f[loaded.trie[i].parent] \union {loaded.trie[i].label}
    <3>1. PICK n \in nodes : i = TrieId(n) BY <1>1
    <3>2. f[i] = n BY <2>1, <3>1
    <3> HIDE DEF f, Ids
    <3>3. CASE n = {} BY <3>1, <3>2, <3>3, StepUp
    <3>4. CASE n # {}
      <4> DEFINE P == n \ {LastLabel(n)}
      <4>1. i # 0 /\ P \in nodes /\ loaded.trie[i].parent = TrieId(P)
            /\ n = P \union {loaded.trie[i].label}
        BY <3>1, <3>4, StepUp
      <4> HIDE DEF P
      <4>2. f[loaded.trie[i].parent] = P BY <2>1, <4>1
      <4> QED BY <3>2, <4>1, <4>2
    <3> QED BY <3>3, <3>4
  <2>3. f = [i \in Ids |-> f[i]] OBVIOUS
  <2>4. IsUp(f)
    <3> HIDE DEF f
    <3> QED BY <2>2, <2>3
  <2> QED BY <2>4
<1>3. IsUp(Up) BY <1>2 DEF Up
<1>4. \A i \in Ids : Up[i] = IF i = 0 THEN {} ELSE Up[loaded.trie[i].parent] \union {loaded.trie[i].label}
  BY <1>3
<1> HIDE DEF IsUp, Ids
<1>5. \A n \in nodes : Up[TrieId(n)] = IF n = {} THEN {}
                                      ELSE Up[TrieId(n \ {LastLabel(n)})] \union {loaded.trie[TrieId(n)].label}
  <2> TAKE n \in nodes
  <2>1. TrieId(n) \in Ids BY <1>1
  <2> QED BY <1>4, <2>1, StepUp
<1> DEFINE Wrong == {n \in nodes : Up[TrieId(n)] # n}
           size == [n \in Wrong |-> Cardinality(n)]
<1>6. nodes \subseteq SUBSET Labels BY DEF SafetyInv, TrieTypeOK
<1>7. ASSUME NEW n \in Wrong, \A m \in Wrong : size[n] <= size[m] PROVE FALSE
  <2>1. n \in nodes /\ n \in SUBSET Labels /\ Up[TrieId(n)] # n BY <1>6, <1>7
  <2>2. n # {} BY <1>5, <2>1
  <2> DEFINE P == n \ {LastLabel(n)}
  <2>3. P \in nodes /\ P \in SUBSET n /\ P # n BY <2>1, <2>2, LastLabelLargest, StepUp
  <2>4. P \notin Wrong
    <3>1. Cardinality(P) < Cardinality(n) /\ Cardinality(P) \in Nat /\ Cardinality(n) \in Nat
      <4> HIDE DEF P
      <4> QED BY <2>1, <2>3, SmallerSet, LabelSetFinite
    <3>2. P \in Wrong => Cardinality(n) <= Cardinality(P) BY <1>7
    <3> HIDE DEF P, Wrong
    <3> QED BY <3>1, <3>2
  <2>5. Up[TrieId(P)] = P BY <2>3, <2>4
  <2>6. n = P \union {loaded.trie[TrieId(n)].label} BY <2>1, <2>2, StepUp
  <2>7. Up[TrieId(n)] = Up[TrieId(P)] \union {loaded.trie[TrieId(n)].label} BY <1>5, <2>1, <2>2
  <2> QED BY <2>1, <2>5, <2>6, <2>7
<1>8. Wrong = {}
  <2>1. \A n \in Wrong : size[n] \in Nat BY <1>6, LabelSetFinite
  <2> HIDE DEF Wrong, size
  <2> QED BY <1>7, <2>1, LeastValue
<1> QED BY <1>8

\* For any set of label sets: TrieIndex::load restores what TrieIndex::save wrote.
\* Down the loaded trie every label set comes to its group, or to none if it had
\* none, and the climb back meets the same labels.
THEOREM TrieAlwaysSurvives == DiskSpec => []TrieSurvives
<1>1. MemoryInv => TrieSurvives
  <2> SUFFICES ASSUME MemoryInv, mode = "ready", NEW S \in SUBSET Labels
               PROVE  /\ {loaded.trie[i].group : i \in Down[S]} \ {0} = {groupId[S]} \ {0}
                      /\ \A i \in Down[S] : /\ Up[i] = S
                                            /\ loaded.trie[i].size = groupSize[S]
                                            /\ loaded.trie[i].labels \in {0, Cardinality(S)}
    BY DEF TrieSurvives
  <2>1. SafetyInv /\ loaded.trie = LoadTrie(TrieFile) BY DEF MemoryInv, BaseInv, GroupsInv
  <2>2. Down[S] = Reached(S) BY <2>1, DownReaches
  <2>3. CASE S \notin nodes
    <3>1. groupId[S] = 0 BY <2>1, <2>3 DEF SafetyInv
    <3>2. Down[S] = {} BY <2>2, <2>3 DEF Reached
    <3> QED BY <3>1, <3>2
  <2>4. CASE S \in nodes
    <3>1. Down[S] = {TrieId(S)} BY <2>2, <2>4 DEF Reached
    <3>2. Up[TrieId(S)] = S BY <2>1, <2>4, UpClimbs
    <3>3. loaded.trie[TrieId(S)] = NodeRecord(S) BY <2>1, <2>4, LoadedNodes
    <3>4. /\ loaded.trie[TrieId(S)].group = groupId[S]
          /\ loaded.trie[TrieId(S)].size = groupSize[S]
          /\ loaded.trie[TrieId(S)].labels \in {0, Cardinality(S)}
      BY <3>3 DEF NodeRecord
    <3> QED BY <3>1, <3>2, <3>4
  <2> QED BY <2>3, <2>4
<1> QED BY <1>1, MemoryHolds, PTL
=============================================================================
