------------------------------- MODULE LabelTrie -------------------------------
(***************************************************************************)
(* The trie over label sets (UNG/codes/src/trie.cpp) and the search for the *)
(* minimal super sets built on it (UniNavGraph::get_min_super_sets).        *)
(*                                                                         *)
(* Label sets are sorted, so the path from the root to a trie node is the   *)
(* set of its labels, and the node is named by that set: the root is {},    *)
(* a node's label is its largest element. A group is the set of vectors     *)
(* with one label set; its id is in the terminal node of that set.          *)
(***************************************************************************)
EXTENDS Integers, FiniteSets

CONSTANT Labels  \* label ids; 0 is the root's and is never given to a vector

ASSUME LabelsAssumption == Labels \subseteq Nat \ {0} /\ IsFiniteSet(Labels)

VARIABLES
  nodes,       \* the trie's nodes
  groupId,     \* TrieNode::group_id, 0 where no label set ends
  groupSize,   \* TrieNode::group_size
  newGroupId   \* new_label_set_id

trieVars == <<nodes, groupId, groupSize, newGroupId>>
-----------------------------------------------------------------------------
\* m is on the way from the root to n, or is n
IsPrefix(m, n) == m \subseteq n /\ \A l \in n \ m, k \in m : k < l

Path(S) == {m \in SUBSET S : IsPrefix(m, S)}

LastLabel(S) == CHOOSE l \in S : \A k \in S : k <= l

\* _label_to_nodes[l]; the array ends at _max_label_id
LabelToNodes(l) == {n \in nodes \ {{}} : LastLabel(n) = l}

Known(Q) == \A l \in Q : \E n \in nodes : \E k \in n : l <= k

Terminals == {n \in nodes : groupId[n] # 0}

\* find_exact_match, as the set of nodes found
FindExactMatch(S) == {S} \cap Terminals

\* (mutant: the climb is content with one label more)
ExamineAny(Q, n) == Q = {LastLabel(n)} \/ Q \cap n # {LastLabel(n)}

\* the climb from n, whose label is the last of Q, meets every label of Q
ExamineContainment(Q, n) == Q \subseteq n

\* the climb from n meets no label of Q above n's own
ExamineSmallest(Q, n) == Q \cap n = {LastLabel(n)}

\* the nodes the walk of get_super_set_entrances starts from
Starts(Q, needContainment) ==
  IF Q = {} THEN {n \in nodes : Cardinality(n) = 1}
  ELSE IF needContainment
       THEN {n \in LabelToNodes(LastLabel(Q)) : ExamineContainment(Q, n)}
       ELSE {n \in UNION {LabelToNodes(l) : l \in Q} : ExamineSmallest(Q, n)}

\* the terminal nodes the walk stops at: it passes through the avoided one
StopsAtTerminals(Q, avoidSelf) ==
  Terminals \ (IF avoidSelf THEN FindExactMatch(Q) ELSE {})

SuperSetEntrances(Q, avoidSelf, needContainment) ==
  LET stops == StopsAtTerminals(Q, avoidSelf)
  IN {n \in stops : \E s \in Starts(Q, needContainment) :
        /\ IsPrefix(s, n)
        /\ \A m \in stops : IsPrefix(s, m) /\ IsPrefix(m, n) => m = n}

\* (mutant: no candidate is compared with those kept)
KeepsAll(C, kept, c) == c \in C

\* c is of the smallest size, or contains nothing smaller that is kept
NotRedundant(C, kept, c) ==
  \/ \A d \in C : Cardinality(c) <= Cardinality(d)
  \/ ~\E m \in kept : Cardinality(m) < Cardinality(c) /\ m \subseteq c

\* get_min_super_sets: the candidates by size, each kept unless it contains
\* one kept before it. Two of one size never contain each other, so that the
\* order std::sort leaves them in does not matter.
MinSuperSets(Q, avoidSelf, needContainment) ==
  LET C == SuperSetEntrances(Q, avoidSelf, needContainment)
  IN CHOOSE kept \in SUBSET C : kept = {c \in C : NotRedundant(C, kept, c)}
-----------------------------------------------------------------------------
\* (mutant: ids start at the value of a node without a group)
TrieInitAtZero ==
  /\ nodes = {{}}
  /\ groupId = [S \in SUBSET Labels |-> 0]
  /\ groupSize = [S \in SUBSET Labels |-> 0]
  /\ newGroupId = 0

TrieInit ==
  /\ nodes = {{}}
  /\ groupId = [S \in SUBSET Labels |-> 0]
  /\ groupSize = [S \in SUBSET Labels |-> 0]
  /\ newGroupId = 1

\* (mutant: a label set that ends on an existing inner node joins no group)
FreshNode(S) == S \notin nodes

NewGroup(S) == groupId[S] = 0

\* insert: the path of S is completed, its end joins a group or starts one
Insert(S) ==
  /\ nodes' = nodes \union Path(S)
  /\ IF NewGroup(S)
     THEN /\ groupId' = [groupId EXCEPT ![S] = newGroupId]
          /\ newGroupId' = newGroupId + 1
          /\ groupSize' = [groupSize EXCEPT ![S] = 1]
     ELSE /\ groupSize' = [groupSize EXCEPT ![S] = @ + 1]
          /\ UNCHANGED <<groupId, newGroupId>>

TrieNext == \E S \in SUBSET Labels : Insert(S)

TrieSpec == TrieInit /\ [][TrieNext]_trieVars
-----------------------------------------------------------------------------
TrieTypeOK ==
  /\ nodes \subseteq SUBSET Labels
  /\ groupId \in [SUBSET Labels -> Nat]
  /\ groupSize \in [SUBSET Labels -> Nat]
  /\ newGroupId \in Nat \ {0}

\* The arrays indexed by group id rely on it: the ids in use are 1 to the
\* number of groups, no two label sets share one, and every path of the trie
\* leads to a group.
IdsDense ==
  /\ {groupId[S] : S \in Terminals} = 1 .. newGroupId - 1
  /\ \A S, T \in Terminals : groupId[S] = groupId[T] => S = T
  /\ nodes = {{}} \union UNION {Path(S) : S \in Terminals}
  /\ \A S \in SUBSET Labels : groupId[S] = 0 <=> groupSize[S] = 0

SuperSets(Q) == {G \in Terminals : Q \subseteq G}

Minimal(F) == {G \in F : \A H \in F : H \subseteq G => H = G}

\* For any query labels the trie knows, the groups get_min_super_sets returns
\* are exactly the minimal super sets, without the query's own when it is to
\* be avoided. An empty query is answered below the root only.
MinSuperSetsExact ==
  \A Q \in SUBSET Labels, avoidSelf \in BOOLEAN :
    Known(Q) /\ (Q # {} \/ avoidSelf) =>
      MinSuperSets(Q, avoidSelf, TRUE)
        = Minimal(SuperSets(Q) \ (IF avoidSelf THEN {Q} ELSE {}))

\* For an overlap query they are exactly the minimal ones among the groups that
\* share a label with it, although the walk starts below every label of it.
OverlapExact ==
  \A Q \in (SUBSET Labels) \ {{}} :
    Known(Q) =>
      MinSuperSets(Q, FALSE, FALSE) = Minimal({G \in Terminals : G \cap Q # {}})
=============================================================================
