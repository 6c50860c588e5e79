------------------------------ MODULE Persistence ------------------------------
(***************************************************************************)
(* An index is built and saved by one program (apps/build_UNG_index.cpp)    *)
(* and loaded by another (apps/search_UNG_index.cpp). UniNavGraph::save     *)
(* writes file after file, and the process may die between any two; load    *)
(* reads most files without looking whether they are there.                 *)
(*                                                                         *)
(* While it saves, the builder's memory (the variables of LabelNavGraph) no *)
(* longer changes, so that a file's content is an expression in it. Vectors *)
(* and the edges of the graph are written and read back as they are, and    *)
(* only their files' presence matters here.                                 *)
(***************************************************************************)
EXTENDS LabelNavGraph

CONSTANT Scenarios  \* the scenarios the build app is called with

ASSUME ScenariosAssumption == Scenarios \subseteq {"general", "equality"}

VARIABLES
  scenario,   \* _scenario of the builder
  mode,       \* what the two programs have come to
  attrToId,   \* _attr_to_id
  attrGraph,  \* _vector_attr_graph
  written,    \* files on disk
  loaded      \* what the search app has in memory

diskVars == <<scenario, mode, attrToId, attrGraph, written, loaded>>

Points == 0 .. NumVectors - 1

\* (mutant: the attributes are saved first)
AttributesFirst ==
  <<"meta", "attributes", "vecs", "labels", "group labels", "ranges", "entry points",
    "new to old", "trie", "graph", "global graph", "global entry point", "coverage", "covered",
    "descendants num", "descendants", "descendants bits", "covered bits">>

\* save's files, in its order
SaveOrder ==
  <<"meta", "vecs", "labels", "group labels", "ranges", "entry points",
    "new to old", "trie", "graph", "global graph", "global entry point", "coverage", "covered",
    "descendants num", "descendants", "attributes", "descendants bits", "covered bits">>

\* the files save finds through _label_nav_graph, which only a general build
\* allocates: the build app's index has none otherwise
NeedsLabelGraph(file) == file \in {"coverage", "covered", "descendants num", "descendants"}

NothingLoaded == [files |-> {}]
-----------------------------------------------------------------------------
\* TrieIndex::save numbers the root 0 and the other nodes by their labels. The
\* order among nodes of one label is that of their creation; any one will do.
Precedes(m, n) == m # n /\ LastLabel((m \ n) \union (n \ m)) \in n

TrieId(n) == Cardinality({m \in nodes : Precedes(m, n)})

\* (mutant: every parent is numbered like the root's)
ParentIdZero(n) == 0

ParentId(n) == IF n = {} THEN 0 ELSE TrieId(n \ {LastLabel(n)})

TrieFile ==
  {[id |-> TrieId(n),
    label |-> IF n = {} THEN 0 ELSE LastLabel(n),
    group |-> groupId[n],
    labels |-> IF groupId[n] = 0 THEN 0 ELSE Cardinality(n),
    size |-> groupSize[n],
    parent |-> ParentId(n),
    children |-> {<<LastLabel(c), TrieId(c)>> : c \in {k \in nodes \ {{}} : k \ {LastLabel(k)} = n}}] :
   n \in nodes}

\* TrieIndex::load: nodes by number (its buckets by label follow from them)
LoadTrie(file) == [i \in 0 .. Cardinality(file) - 1 |-> CHOOSE r \in file : r.id = i]

\* Storage::write_to_file writes no line for a vector without labels, and
\* load_from_file takes the lines in turn.
LinesOf[i \in 0 .. Len(labelSets)] ==
  IF i = 0 THEN <<>>
  ELSE IF labelSets[i] = {} THEN LinesOf[i - 1]
       ELSE Append(LinesOf[i - 1], labelSets[i])

LabelLines == LinesOf[Len(labelSets)]

\* (mutant: the last line is lost)
LastLineLost(i) == i < Len(LabelLines)

HasLine(i) == i <= Len(LabelLines)

LoadLabels == [i \in DOMAIN labelSets |-> IF HasLine(i) THEN LabelLines[i] ELSE {}]
-----------------------------------------------------------------------------
Attributes == UNION {labelSets[i] : i \in DOMAIN labelSets}

FirstSeen(l) == CHOOSE i \in DOMAIN labelSets :
                  l \in labelSets[i] /\ \A j \in 1 .. i - 1 : l \notin labelSets[j]

SeenBefore(k, l) ==
  \/ FirstSeen(k) < FirstSeen(l)
  \/ FirstSeen(k) = FirstSeen(l) /\ k < l

\* build_vector_and_attr_graph's first pass: ids in the order of first sight
AttrIds == [l \in Attributes |-> Cardinality({k \in Attributes : SeenBefore(k, l)})]

\* (mutant: the vectors keep the ids they had before the reorder)
VectorsOfOld(l) == {newToOld[v + 1] : v \in {w \in Points : l \in labelSets[w + 1]}}

VectorsOf(l) == {v \in Points : l \in labelSets[v + 1]}

\* and its second: vectors are nodes from 0, attributes nodes behind them
VectorAttrGraph(ids) ==
  [node \in 0 .. NumVectors + Cardinality(Attributes) - 1 |->
     IF node \in Points THEN {NumVectors + ids[l] : l \in labelSets[node + 1]}
     ELSE UNION {VectorsOf(l) : l \in {k \in Attributes : NumVectors + ids[k] = node}}]

\* compute_attribute_bitmap, up to the last vector's bit
Bitmap(ids, graph, Q) ==
  IF Q \subseteq DOMAIN ids
  THEN {v \in Points : \A l \in Q : v \in graph[NumVectors + ids[l]]}
  ELSE {}
-----------------------------------------------------------------------------
DiskInit ==
  /\ Init
  /\ scenario \in Scenarios
  /\ mode = "build"
  /\ attrToId = <<>> /\ attrGraph = <<>>
  /\ written = {}
  /\ loaded = NothingLoaded

\* build, as far as the reorder
Label ==
  /\ mode = "build"
  /\ Divide \/ Divided \/ PrepareGroup \/ Reorder
  /\ UNCHANGED diskVars

BuildVectorAttrGraph ==
  /\ mode = "build"
  /\ phase = "navigate"
  /\ attrToId' = AttrIds
  /\ attrGraph' = VectorAttrGraph(attrToId')
  /\ mode' = IF scenario = "equality" THEN "save" ELSE "label graph"
  /\ UNCHANGED <<vars, scenario, written, loaded>>

BuildLabelGraph ==
  /\ mode = "label graph"
  /\ \/ Navigate \/ DescendPop \/ Descended \/ CoverLeaves \/ InitBitsets
     \/ \E g \in Groups : DescendFrom(g) \/ CoverParents(g)
  /\ mode' = IF phase' = "done" THEN "save" ELSE "label graph"
  /\ UNCHANGED <<scenario, attrToId, attrGraph, written, loaded>>

NextFile == SaveOrder[Cardinality(written) + 1]

SaveFile ==
  /\ mode = "save"
  /\ scenario = "equality" => ~NeedsLabelGraph(NextFile)
  /\ written' = written \union {NextFile}
  /\ mode' = IF Cardinality(written') = Len(SaveOrder) THEN "saved" ELSE "save"
  /\ UNCHANGED <<vars, scenario, attrToId, attrGraph, loaded>>

\* save follows the null pointer an equality build has for a label graph, though
\* the build app offers both scenarios
SaveAborts ==
  /\ mode = "save"
  /\ scenario = "equality" /\ NeedsLabelGraph(NextFile)
  /\ mode' = "aborted"
  /\ UNCHANGED <<vars, scenario, attrToId, attrGraph, written, loaded>>

Crash ==
  /\ mode = "save"
  /\ mode' = "crashed"
  /\ UNCHANGED <<vars, scenario, attrToId, attrGraph, written, loaded>>

\* the files without which load or load_bipartite_graph throws
Required == {"meta", "vecs", "attributes"}

\* load and load_bipartite_graph: no other file that is missing ends the app,
\* and without the labels' file every vector has label 1. (Without a trie's file
\* load reads indeterminate values; whatever comes of it, the attributes' file is
\* missing too and the app answers nothing.)
Load ==
  /\ mode \in {"saved", "crashed", "aborted"}
  /\ IF Required \subseteq written
     THEN /\ mode' = "ready"
          /\ loaded' = [files |-> written,
                        labels |-> IF "labels" \in written THEN LoadLabels
                                   ELSE [i \in DOMAIN labelSets |-> {1}],
                        trie |-> IF "trie" \in written THEN LoadTrie(TrieFile) ELSE <<>>,
                        attrToId |-> attrToId,
                        attrGraph |-> attrGraph]
     ELSE /\ mode' = "refused"
          /\ UNCHANGED loaded
  /\ UNCHANGED <<vars, scenario, attrToId, attrGraph, written>>

DiskNext ==
  \/ Label \/ BuildVectorAttrGraph \/ BuildLabelGraph
  \/ SaveFile \/ SaveAborts \/ Crash \/ Load
  \/ mode \in {"ready", "refused"} /\ UNCHANGED <<vars, diskVars>>

DiskSpec == DiskInit /\ [][DiskNext]_<<vars, diskVars>>
-----------------------------------------------------------------------------
SearchReads == {"vecs", "ranges", "entry points", "new to old", "trie", "graph"}

\* When the builder died while saving, or an equality build's save aborted, the
\* search app either refuses the index or has everything UniNavGraph::search
\* reads: the file that is missed loudest is written behind all of them.
NoTornIndex == mode = "ready" => SearchReads \subseteq loaded.files

\* Down the children of the loaded trie, along the labels of S.
Down[S \in SUBSET Labels] ==
  IF S = {} THEN {0}
  ELSE {e[2] : e \in {x \in UNION {loaded.trie[i].children : i \in Down[S \ {LastLabel(S)}]} :
                        x[1] = LastLabel(S)}}

Up[i \in DOMAIN loaded.trie] ==
  IF i = 0 THEN {} ELSE Up[loaded.trie[i].parent] \union {loaded.trie[i].label}

\* The loaded trie leads every label set down to the group it had, with its
\* sizes, and nothing else to a group; the climb from there meets the same labels.
TrieSurvives ==
  mode = "ready" =>
    \A S \in SUBSET Labels :
      /\ {loaded.trie[i].group : i \in Down[S]} \ {0} = {groupId[S]} \ {0}
      /\ \A i \in Down[S] : /\ Up[i] = S
                           /\ loaded.trie[i].size = groupSize[S]
                           /\ loaded.trie[i].labels \in {0, Cardinality(S)}

\* Unless a vector has no labels, every vector is loaded with its own.
LabelsSurvive ==
  mode = "ready" /\ {} \notin {labelSets[i] : i \in DOMAIN labelSets} =>
    loaded.labels = labelSets

\* A query's bitmap, from attributes numbered and linked before the save, marks
\* in the loaded index's ids exactly the vectors that have all of its labels.
BitmapExact ==
  mode = "ready" =>
    \A Q \in SUBSET Labels :
      Bitmap(loaded.attrToId, loaded.attrGraph, Q)
        = {v \in Points : Q \subseteq groupLabels[newToGroup[v + 1]]}
=============================================================================
