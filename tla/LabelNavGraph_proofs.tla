-------------------------- MODULE LabelNavGraph_proofs --------------------------
(***************************************************************************)
(* The label side, for every set of labels. For every sequence of insertions *)
(* into the trie: group ids are dense, and get_min_super_sets returns exactly *)
(* the minimal super sets, or for an overlap query the minimal sets that     *)
(* share a label with it. The trie is described by IdsDense: every node is   *)
(* on the path of a group. A minimal super set is found because its prefix   *)
(* up to the query's last label is a node the walk starts from, and nothing  *)
(* minimal is lost to the walk's first terminal nodes or to the filter by    *)
(* size.                                                                    *)
(*                                                                         *)
(* For every number of vectors with whatever labels, every order of the     *)
(* walk's stack and of the queue, and in every phase of the label side of   *)
(* build: ranges are sound, the label navigating graph is the Hasse diagram,*)
(* the walk finds the groups above a group and counts each once, and every  *)
(* group covers the vectors of the groups above it. One invariant for each  *)
(* phase, on those of the phases before it: BaseInv, HasseInv, DescendInv,  *)
(* CoverInv. Last, the filtered scan, whose groups are those of BaseInv.    *)
(***************************************************************************)
EXTENDS FilteredScan, LeastValues, SequenceTheorems, TLAPS

SafetyInv ==
  /\ TrieTypeOK
  /\ IdsDense
  /\ \A S \in SUBSET Labels : groupId[S] < newGroupId
  /\ \A S \in SUBSET Labels : groupId[S] # 0 => S \in nodes

LEMMA SelfInPath == \A S \in SUBSET Labels : S \in Path(S) /\ {} \in Path(S)
BY LabelsAssumption DEF Path, IsPrefix

LEMMA InitSafety == TrieInit => SafetyInv
<1> SUFFICES ASSUME TrieInit PROVE SafetyInv
  OBVIOUS
<1>1. TrieTypeOK /\ \A S \in SUBSET Labels : /\ groupId[S] < newGroupId
                                         /\ groupId[S] = 0
  BY DEF TrieInit, TrieTypeOK
<1>2. Terminals = {} BY DEF TrieInit, Terminals
<1>3. IdsDense BY <1>2 DEF IdsDense, TrieInit
<1> QED BY <1>1, <1>3 DEF SafetyInv

LEMMA InsertSafety ==
  ASSUME SafetyInv, NEW S \in SUBSET Labels, Insert(S)
  PROVE  SafetyInv'
<1> USE DEF SafetyInv
<1>0. /\ nodes' = nodes \union Path(S)
      /\ newGroupId \in Nat \ {0} /\ groupId \in [SUBSET Labels -> Nat]
      /\ groupSize \in [SUBSET Labels -> Nat]
  BY DEF Insert, TrieTypeOK
<1>1. Path(S) \subseteq SUBSET Labels BY DEF Path
<1>2. CASE NewGroup(S)
  <2>0. /\ groupId' = [groupId EXCEPT ![S] = newGroupId]
        /\ newGroupId' = newGroupId + 1
        /\ groupSize' = [groupSize EXCEPT ![S] = 1]
        /\ groupId[S] = 0
    BY <1>2 DEF Insert, NewGroup
  <2>1. TrieTypeOK' BY <1>0, <1>1, <2>0 DEF TrieTypeOK
  <2>2. \A T \in SUBSET Labels : groupId'[T] < newGroupId' BY <1>0, <2>0
  <2>3. S \notin Terminals BY <2>0 DEF Terminals
  <2>4. \A T \in SUBSET Labels : T # S => groupId'[T] = groupId[T]
    BY <1>0, <2>0
  <2>5. groupId'[S] = newGroupId BY <1>0, <2>0
  <2>6. \A T \in SUBSET Labels : groupId'[T] # 0 => T \in nodes'
    BY <1>0, <2>4, SelfInPath
  <2>7. nodes \subseteq SUBSET Labels /\ nodes' \subseteq SUBSET Labels
    BY <1>0, <1>1 DEF TrieTypeOK
  <2>8. Terminals' = Terminals \union {S}
    BY <1>0, <2>4, <2>5, <2>6, <2>7, SelfInPath DEF Terminals
  <2>9. \A T \in Terminals : groupId'[T] = groupId[T] /\ T \in SUBSET Labels
    BY <2>3, <2>4, <2>7 DEF Terminals
  <2>10. {groupId'[T] : T \in Terminals'} = 1 .. newGroupId' - 1
    <3>1. {groupId[T] : T \in Terminals} = 1 .. newGroupId - 1 BY DEF IdsDense
    <3>2. {groupId'[T] : T \in Terminals'} = (1 .. newGroupId - 1) \union {newGroupId}
      BY <2>5, <2>8, <2>9, <3>1
    <3> DEFINE n == newGroupId
    <3>3. n \in Nat \ {0} /\ newGroupId' = n + 1 BY <1>0, <2>0
    <3>4. (1 .. n - 1) \union {n} = 1 .. (n + 1) - 1
      <4> HIDE DEF n
      <4> QED BY <3>3
    <3> QED BY <3>2, <3>3, <3>4
  <2>11. \A T, U \in Terminals' : groupId'[T] = groupId'[U] => T = U
    <3>1. \A T \in Terminals : groupId'[T] # newGroupId
      BY <1>0, <2>9
    <3> QED BY <2>5, <2>8, <2>9, <3>1 DEF IdsDense
  <2>12. nodes' = {{}} \union UNION {Path(T) : T \in Terminals'}
    <3>1. nodes = {{}} \union UNION {Path(T) : T \in Terminals} BY DEF IdsDense
    <3> QED BY <1>0, <2>8, <3>1
  <2>13. \A T \in SUBSET Labels : groupId'[T] = 0 <=> groupSize'[T] = 0
    <3>1. \A T \in SUBSET Labels : groupId[T] = 0 <=> groupSize[T] = 0 BY DEF IdsDense
    <3>2. groupSize'[S] = 1 /\ groupId'[S] # 0 BY <1>0, <2>0
    <3>3. \A T \in SUBSET Labels : T # S => groupSize'[T] = groupSize[T] BY <1>0, <2>0
    <3> QED BY <2>4, <3>1, <3>2, <3>3
  <2>14. IdsDense' BY <2>10, <2>11, <2>12, <2>13 DEF IdsDense
  <2> QED BY <2>1, <2>2, <2>6, <2>14
<1>3. CASE ~NewGroup(S)
  <2>0. /\ groupSize' = [groupSize EXCEPT ![S] = @ + 1]
        /\ UNCHANGED <<groupId, newGroupId>>
        /\ groupId[S] # 0 /\ S \in nodes
    BY <1>3 DEF Insert, NewGroup
  <2>1. TrieTypeOK' BY <1>0, <1>1, <2>0 DEF TrieTypeOK
  <2>2. S \in Terminals BY <2>0 DEF Terminals
  <2>3. nodes' = nodes
    <3>1. Path(S) \subseteq nodes BY <2>2 DEF IdsDense
    <3> QED BY <1>0, <3>1
  <2>4. Terminals' = Terminals BY <2>0, <2>3 DEF Terminals
  <2>5. \A T \in SUBSET Labels : groupId[T] = 0 <=> groupSize'[T] = 0
    <3>1. \A T \in SUBSET Labels : groupId[T] = 0 <=> groupSize[T] = 0 BY DEF IdsDense
    <3>2. \A T \in SUBSET Labels : T # S => groupSize'[T] = groupSize[T] BY <1>0, <2>0
    <3>3. groupSize'[S] = groupSize[S] + 1 /\ groupSize[S] \in Nat BY <1>0, <2>0
    <3>4. groupSize'[S] # 0 BY <3>3
    <3> QED BY <2>0, <3>1, <3>2, <3>4
  <2>6. IdsDense' BY <2>0, <2>3, <2>4, <2>5 DEF IdsDense
  <2> QED BY <2>0, <2>1, <2>3, <2>6
<1> QED BY <1>2, <1>3

LEMMA NextSafety == SafetyInv /\ [TrieNext]_trieVars => SafetyInv'
<1>1. SafetyInv /\ UNCHANGED trieVars => SafetyInv'
  BY DEF trieVars, SafetyInv, TrieTypeOK, IdsDense, Terminals
<1> QED BY <1>1, InsertSafety DEF TrieNext

THEOREM SafetyInvariant == TrieSpec => []SafetyInv
BY InitSafety, NextSafety, PTL DEF TrieSpec
-----------------------------------------------------------------------------
LEMMA LabelSetFinite ==
  ASSUME NEW S \in SUBSET Labels
  PROVE  IsFiniteSet(S) /\ Cardinality(S) \in Nat /\ S \subseteq Nat
BY LabelsAssumption, FS_Subset, FS_CardinalityType

\* The label of a nonempty set's node is its largest.
LEMMA LastLabelLargest ==
  ASSUME NEW S \in SUBSET Labels, S # {}
  PROVE  LastLabel(S) \in S /\ \A k \in S : k <= LastLabel(S)
BY LabelSetFinite, LargestMember DEF LastLabel

\* The smaller of two label sets, one inside the other, has fewer labels.
LEMMA SmallerSet ==
  ASSUME NEW T \in SUBSET Labels, NEW S \in SUBSET T, S # T
  PROVE  Cardinality(S) < Cardinality(T)
BY LabelSetFinite, FewerMembers

\* Below every label set of a family lies a minimal one.
LEMMA MinimalBelow ==
  ASSUME NEW F, F \subseteq SUBSET Labels, NEW G \in F
  PROVE  \E H \in Minimal(F) : H \subseteq G
<1> DEFINE below == {H \in F : H \subseteq G}
           size == [H \in below |-> Cardinality(H)]
<1>1. \A H \in below : size[H] \in Nat BY LabelSetFinite
<1>2. PICK H \in below : \A S \in below : size[H] <= size[S]
  <2>1. below # {} OBVIOUS
  <2> HIDE DEF below, size
  <2> QED BY <1>1, <2>1, LeastValue
<1>3. ASSUME NEW S \in F, S \subseteq H, S # H PROVE FALSE
  <2>1. S \in below /\ H \in SUBSET Labels BY <1>3
  <2>2. Cardinality(S) < Cardinality(H) BY <1>3, <2>1, SmallerSet
  <2>3. Cardinality(H) <= Cardinality(S) BY <1>2, <2>1
  <2>4. Cardinality(H) \in Nat /\ Cardinality(S) \in Nat BY <2>1, LabelSetFinite
  <2> QED BY <2>2, <2>3, <2>4
<1> QED BY <1>3 DEF Minimal

\* The filter by size keeps exactly the minimal candidates.
LEMMA FilterExact ==
  ASSUME NEW C, C \subseteq SUBSET Labels, NEW kept \in SUBSET C
  PROVE  kept = {c \in C : NotRedundant(C, kept, c)} <=> kept = Minimal(C)
<1> DEFINE differ == (kept \ Minimal(C)) \union (Minimal(C) \ kept)
           size == [c \in differ |-> Cardinality(c)]
<1>0. Minimal(C) \subseteq C /\ differ \subseteq SUBSET Labels BY DEF Minimal
<1>1. ASSUME NEW c \in Minimal(C), NEW m \in C,
             Cardinality(m) < Cardinality(c), m \subseteq c
      PROVE  FALSE
  <2>1. m = c BY <1>1 DEF Minimal
  <2>2. Cardinality(c) \in Nat BY <1>0, LabelSetFinite
  <2> QED BY <1>1, <2>1, <2>2
<1>2. ASSUME NEW c \in C \ Minimal(C)
      PROVE  \E H \in Minimal(C) : H \subseteq c /\ Cardinality(H) < Cardinality(c)
  <2>1. PICK H \in Minimal(C) : H \subseteq c BY MinimalBelow
  <2> QED BY <2>1, SmallerSet
<1>3. ASSUME kept = {c \in C : NotRedundant(C, kept, c)}, kept # Minimal(C)
      PROVE  FALSE
  <2>1. PICK c \in differ : \A b \in differ : size[c] <= size[b]
    <3>1. differ # {} BY <1>3
    <3>2. \A b \in differ : size[b] \in Nat BY <1>0, LabelSetFinite
    <3> HIDE DEF differ, size
    <3> QED BY <3>1, <3>2, LeastValue
  <2>2. \A b \in differ : Cardinality(c) <= Cardinality(b) BY <2>1
  <2>3. \A b \in SUBSET Labels : Cardinality(b) \in Nat BY LabelSetFinite
  <2>4. CASE c \in kept \ Minimal(C)
    <3>1. PICK H \in Minimal(C) : H \subseteq c /\ Cardinality(H) < Cardinality(c)
      BY <1>2, <2>4
    <3>2. H \in kept BY <1>0, <2>2, <2>3, <3>1
    <3>3. ~(Cardinality(c) <= Cardinality(H)) BY <1>0, <2>3, <3>1
    <3>4. NotRedundant(C, kept, c) BY <1>3, <2>4
    <3> QED BY <1>0, <3>1, <3>2, <3>3, <3>4 DEF NotRedundant
  <2>5. CASE c \in Minimal(C) \ kept
    <3>1. ~NotRedundant(C, kept, c) BY <1>0, <1>3, <2>5
    <3>2. PICK m \in kept : Cardinality(m) < Cardinality(c) /\ m \subseteq c
      BY <3>1 DEF NotRedundant
    <3> QED BY <1>1, <2>5, <3>2
  <2> QED BY <2>4, <2>5
<1>4. ASSUME kept = Minimal(C)
      PROVE  kept = {c \in C : NotRedundant(C, kept, c)}
  <2>1. ASSUME NEW c \in Minimal(C) PROVE NotRedundant(C, kept, c)
    BY <1>0, <1>1, <1>4 DEF NotRedundant
  <2>2. ASSUME NEW c \in C \ Minimal(C) PROVE ~NotRedundant(C, kept, c)
    <3>1. PICK H \in Minimal(C) : H \subseteq c /\ Cardinality(H) < Cardinality(c)
      BY <1>2
    <3>2. Cardinality(H) \in Nat /\ Cardinality(c) \in Nat BY <1>0, LabelSetFinite
    <3> QED BY <1>0, <1>4, <3>1, <3>2 DEF NotRedundant
  <2> QED BY <1>0, <1>4, <2>1, <2>2
<1> QED BY <1>3, <1>4

\* Candidates that are of a family, and miss none of its minimal sets, leave
\* exactly the minimal sets of the family.
LEMMA MinimalThroughFilter ==
  ASSUME NEW X, X \subseteq SUBSET Labels,
         NEW C, C \subseteq X, Minimal(X) \subseteq C
  PROVE  (CHOOSE kept \in SUBSET C : kept = {c \in C : NotRedundant(C, kept, c)})
           = Minimal(X)
<1>1. Minimal(C) \in SUBSET C BY DEF Minimal
<1>2. (CHOOSE kept \in SUBSET C : kept = {c \in C : NotRedundant(C, kept, c)}) = Minimal(C)
  <2>1. \A kept \in SUBSET C :
          kept = {c \in C : NotRedundant(C, kept, c)} <=> kept = Minimal(C)
    BY FilterExact
  <2> QED BY <1>1, <2>1
<1>3. Minimal(X) \subseteq Minimal(C) BY DEF Minimal
<1>4. ASSUME NEW c \in Minimal(C) PROVE c \in Minimal(X)
  <2>1. c \in X BY DEF Minimal
  <2>2. PICK H \in Minimal(X) : H \subseteq c BY <2>1, MinimalBelow
  <2>3. H = c BY <2>2 DEF Minimal
  <2> QED BY <2>2, <2>3
<1> QED BY <1>2, <1>3, <1>4
-----------------------------------------------------------------------------
\* The part of a group's label set up to one of its labels is a node.
LEMMA PrefixIsNode ==
  ASSUME SafetyInv, NEW G \in Terminals, NEW l \in G
  PROVE  LET s == {k \in G : k <= l}
         IN s \in nodes /\ s \in SUBSET Labels /\ IsPrefix(s, G) /\ LastLabel(s) = l
<1> DEFINE s == {k \in G : k <= l}
<1>1. G \in SUBSET Labels /\ G \subseteq Nat
  BY LabelsAssumption DEF SafetyInv, TrieTypeOK, Terminals
<1>2. IsPrefix(s, G) BY <1>1 DEF IsPrefix
<1>3. s \in nodes
  <2>1. s \in Path(G) BY <1>2 DEF Path
  <2> HIDE DEF s
  <2> QED BY <2>1 DEF SafetyInv, IdsDense
<1>4. s \in SUBSET Labels /\ l \in s
  <2>1. l \in Nat /\ l <= l BY <1>1
  <2> QED BY <1>1, <2>1
<1>5. LastLabel(s) = l
  <2>1. LastLabel(s) \in s /\ l <= LastLabel(s)
    <3> HIDE DEF s
    <3> QED BY <1>4, LastLabelLargest
  <2>2. LastLabel(s) <= l /\ LastLabel(s) \in Nat /\ l \in Nat BY <1>1, <2>1
  <2> HIDE DEF s
  <2> QED BY <2>1, <2>2
<1> QED BY <1>2, <1>3, <1>4, <1>5

\* A walk that may start from a prefix of a minimal set of the family enters
\* it: whatever terminal node it would stop at before is in the family too.
LEMMA EntersMinimal ==
  ASSUME NEW Q, NEW avoidSelf \in BOOLEAN, NEW needContainment \in BOOLEAN,
         NEW X, NEW G \in Minimal(X), X \subseteq StopsAtTerminals(Q, avoidSelf),
         NEW s \in Starts(Q, needContainment), IsPrefix(s, G),
         \A m \in StopsAtTerminals(Q, avoidSelf) : s \subseteq m => m \in X
  PROVE  G \in SuperSetEntrances(Q, avoidSelf, needContainment)
<1>1. G \in StopsAtTerminals(Q, avoidSelf) BY DEF Minimal
<1>2. ASSUME NEW m \in StopsAtTerminals(Q, avoidSelf), IsPrefix(s, m), IsPrefix(m, G)
      PROVE  m = G
  <2>1. m \in X /\ m \subseteq G BY <1>2 DEF IsPrefix
  <2> QED BY <2>1 DEF Minimal
<1> QED BY <1>1, <1>2 DEF SuperSetEntrances

LEMMA ContainmentExact ==
  ASSUME SafetyInv, NEW Q \in SUBSET Labels, NEW avoidSelf \in BOOLEAN,
         Q # {} \/ avoidSelf
  PROVE  MinSuperSets(Q, avoidSelf, TRUE)
           = Minimal(SuperSets(Q) \ (IF avoidSelf THEN {Q} ELSE {}))
<1> DEFINE X == SuperSets(Q) \ (IF avoidSelf THEN {Q} ELSE {})
           C == SuperSetEntrances(Q, avoidSelf, TRUE)
           stops == StopsAtTerminals(Q, avoidSelf)
<1>1. nodes \subseteq SUBSET Labels /\ Terminals \subseteq SUBSET Labels
  BY DEF SafetyInv, TrieTypeOK, Terminals
<1>2. /\ X = {G \in stops : Q \subseteq G}
      /\ stops \subseteq Terminals
      /\ avoidSelf => Q \notin stops
  BY DEF SuperSets, StopsAtTerminals, FindExactMatch
<1>3. C \subseteq X
  <2> SUFFICES ASSUME NEW n \in C PROVE Q \subseteq n
    BY <1>2 DEF SuperSetEntrances
  <2>1. PICK s \in Starts(Q, TRUE) : IsPrefix(s, n) BY DEF SuperSetEntrances
  <2>2. CASE Q = {} BY <2>2
  <2>3. CASE Q # {}
    BY <2>1, <2>3 DEF Starts, ExamineContainment, IsPrefix
  <2> QED BY <2>2, <2>3
<1>4. ASSUME NEW G \in Minimal(X) PROVE G \in C
  <2>1. G \in X /\ G \in Terminals /\ Q \subseteq G BY <1>2 DEF Minimal
  <2>2. G \in SUBSET Labels /\ G \subseteq Nat BY <1>1, <2>1, LabelsAssumption
  <2>3. CASE Q # {}
    <3>1. LastLabel(Q) \in Q /\ \A k \in Q : k <= LastLabel(Q)
      BY <2>3, LastLabelLargest
    <3> DEFINE s == {k \in G : k <= LastLabel(Q)}
    <3>2. s \in nodes /\ IsPrefix(s, G) /\ LastLabel(s) = LastLabel(Q)
      BY <2>1, <3>1, PrefixIsNode
    <3>3. Q \subseteq s /\ s # {} BY <2>1, <3>1
    <3>4. s \in Starts(Q, TRUE)
      <4> HIDE DEF s
      <4> QED BY <2>3, <3>2, <3>3 DEF Starts, LabelToNodes, ExamineContainment
    <3>5. \A m \in stops : s \subseteq m => m \in X BY <1>2, <3>3
    <3> HIDE DEF s, X
    <3>6. X \subseteq stops /\ IsPrefix(s, G) BY <1>2, <3>2
    <3> QED BY <1>4, <3>4, <3>5, <3>6, EntersMinimal
  <2>4. CASE Q = {}
    <3>1. G # {} BY <1>2, <2>1, <2>4
    <3>2. PICK l \in G : \A k \in G : l <= k BY <2>2, <3>1, LeastMember
    <3> DEFINE s == {k \in G : k <= l}
    <3>3. s \in nodes /\ IsPrefix(s, G) BY <2>1, PrefixIsNode
    <3>4. s = {l}
      <4>1. \A k \in G : k <= l <=> k = l BY <2>2, <3>2
      <4> QED BY <4>1
    <3>5. s \in Starts(Q, TRUE)
      <4>1. Cardinality({l}) = 1 BY FS_Singleton
      <4> HIDE DEF s
      <4> QED BY <2>4, <3>3, <3>4, <4>1 DEF Starts
    <3>6. \A m \in stops : s \subseteq m => m \in X BY <1>2, <2>4
    <3> HIDE DEF s, X
    <3>7. X \subseteq stops /\ IsPrefix(s, G) BY <1>2, <3>3
    <3> QED BY <1>4, <3>5, <3>6, <3>7, EntersMinimal
  <2> QED BY <2>3, <2>4
<1>5. X \subseteq SUBSET Labels BY <1>1, <1>2
<1>6. MinSuperSets(Q, avoidSelf, TRUE)
        = CHOOSE kept \in SUBSET C : kept = {c \in C : NotRedundant(C, kept, c)}
  BY DEF MinSuperSets
<1>7. Minimal(X) \subseteq C BY <1>4
<1> HIDE DEF X, C
<1>8. MinSuperSets(Q, avoidSelf, TRUE) = Minimal(X)
  BY <1>3, <1>5, <1>6, <1>7, MinimalThroughFilter
<1> QED BY <1>8 DEF X

LEMMA OverlapMinimal ==
  ASSUME SafetyInv, NEW Q \in SUBSET Labels, Q # {}
  PROVE  MinSuperSets(Q, FALSE, FALSE) = Minimal({G \in Terminals : G \cap Q # {}})
<1> DEFINE X == {G \in Terminals : G \cap Q # {}}
           C == SuperSetEntrances(Q, FALSE, FALSE)
<1>1. nodes \subseteq SUBSET Labels /\ X \subseteq SUBSET Labels
  BY DEF SafetyInv, TrieTypeOK, Terminals
<1>2. StopsAtTerminals(Q, FALSE) = Terminals BY DEF StopsAtTerminals
<1>3. C \subseteq X
  <2> SUFFICES ASSUME NEW n \in C PROVE n \cap Q # {}
    BY <1>2 DEF SuperSetEntrances
  <2>1. PICK s \in Starts(Q, FALSE) : IsPrefix(s, n) BY DEF SuperSetEntrances
  <2>2. Q \cap s = {LastLabel(s)} BY <2>1 DEF Starts, ExamineSmallest
  <2> QED BY <2>1, <2>2 DEF IsPrefix
<1>4. ASSUME NEW G \in Minimal(X) PROVE G \in C
  <2>1. G \in Terminals /\ G \cap Q # {} BY DEF Minimal
  <2>2. G \subseteq Nat BY <1>1, LabelsAssumption DEF Minimal
  <2>3. PICK l \in G \cap Q : \A k \in G \cap Q : l <= k BY <2>1, <2>2, LeastMember
  <2> DEFINE s == {k \in G : k <= l}
  <2>4. s \in nodes /\ IsPrefix(s, G) /\ LastLabel(s) = l BY <2>1, PrefixIsNode
  <2>5. Q \cap s = {l}
    <3>1. \A k \in G \cap Q : k <= l <=> k = l BY <2>2, <2>3
    <3> QED BY <3>1
  <2>6. s \in Starts(Q, FALSE)
    <3> HIDE DEF s
    <3>1. s \in LabelToNodes(l) BY <2>4, <2>5 DEF LabelToNodes
    <3> QED BY <2>3, <2>4, <2>5, <3>1 DEF Starts, ExamineSmallest
  <2>7. \A m \in Terminals : s \subseteq m => m \in X BY <2>5
  <2> HIDE DEF s, X
  <2>8. X \subseteq StopsAtTerminals(Q, FALSE) BY <1>2 DEF X
  <2> QED BY <1>2, <2>4, <2>6, <2>7, <2>8, EntersMinimal
<1>5. MinSuperSets(Q, FALSE, FALSE)
        = CHOOSE kept \in SUBSET C : kept = {c \in C : NotRedundant(C, kept, c)}
  BY DEF MinSuperSets
<1>6. Minimal(X) \subseteq C BY <1>4
<1> HIDE DEF X, C
<1>7. MinSuperSets(Q, FALSE, FALSE) = Minimal(X)
  BY <1>1, <1>3, <1>5, <1>6, MinimalThroughFilter
<1> QED BY <1>7 DEF X
-----------------------------------------------------------------------------
\* The trie's fields keep their types, and no group has the id 0 that marks a
\* node without one.
THEOREM TrieTypeCorrect == TrieSpec => []TrieTypeOK
BY SafetyInvariant, PTL DEF SafetyInv

\* For every sequence of insertions the arrays indexed by group id have no gap
\* and no shared entry, and the trie has exactly the nodes of the groups' paths.
THEOREM GroupIdsDense == TrieSpec => []IdsDense
BY SafetyInvariant, PTL DEF SafetyInv

\* For every set of label sets and every query, a containment query enters
\* exactly the minimal super sets of its labels.
THEOREM EntersMinimalSuperSets == TrieSpec => []MinSuperSetsExact
<1>1. SafetyInv => MinSuperSetsExact BY ContainmentExact DEF MinSuperSetsExact
<1> QED BY <1>1, SafetyInvariant, PTL

\* ... and an overlap query exactly the minimal label sets it shares one with.
THEOREM EntersMinimalOverlaps == TrieSpec => []OverlapExact
<1>1. SafetyInv => OverlapExact BY OverlapMinimal DEF OverlapExact
<1> QED BY <1>1, SafetyInvariant, PTL

-----------------------------------------------------------------------------
\* every group of the trie has its entry in _group_id_to_label_set, at its id
GroupsInv ==
  /\ SafetyInv
  /\ groupLabels \in Seq(SUBSET Labels)
  /\ Len(groupLabels) = newGroupId - 1
  /\ groupVecs \in Seq(Seq(Nat))
  /\ Len(groupVecs) = Len(groupLabels)
  /\ \A g \in Groups : groupId[groupLabels[g]] = g

\* the groups next above g
Covers(g) == {h \in Above(g) : ~\E k \in Above(g) : h \in Above(k)}

HasseInv ==
  phase \in {"descend", "cover", "done"} =>
    /\ outNbrs = [g \in Groups |-> Covers(g)]
    /\ inNbrs = [h \in Groups |-> {g \in Groups : h \in outNbrs[g]}]

\* the actions behind the division into groups
Later ==
  \/ Divided \/ PrepareGroup \/ Reorder
  \/ \E g \in Groups : DescendFrom(g) \/ CoverParents(g)
  \/ Navigate \/ DescendPop \/ Descended \/ CoverLeaves \/ InitBitsets
  \/ UNCHANGED vars

LEMMA LaterGroups == Later => UNCHANGED <<trieVars, groupVecs, groupLabels>>
BY DEF Later, Divided, PrepareGroup, Reorder, DescendFrom, CoverParents, Navigate,
   DescendPop, Descended, CoverLeaves, InitBitsets, vars, divideVars

LEMMA NextSplit == [Next]_vars => Divide \/ Later
BY DEF Next, Later

\* The groups' labels are the trie's terminal nodes, and differ.
LEMMA GroupsAreTerminals ==
  ASSUME GroupsInv
  PROVE  /\ Groups = 1 .. newGroupId - 1
         /\ \A g \in Groups : groupLabels[g] \in Terminals /\ groupLabels[g] \in SUBSET Labels
         /\ \A S \in Terminals : groupId[S] \in Groups /\ groupLabels[groupId[S]] = S
         /\ \A g, h \in Groups : groupLabels[g] = groupLabels[h] => g = h
<1>1. /\ groupLabels \in Seq(SUBSET Labels) /\ Len(groupLabels) = newGroupId - 1
      /\ \A g \in Groups : groupId[groupLabels[g]] = g
      /\ SafetyInv
  BY DEF GroupsInv
<1>2. Groups = 1 .. newGroupId - 1
  BY <1>1, LenProperties DEF Groups
<1>3. \A g \in Groups : groupLabels[g] \in SUBSET Labels
  BY <1>1, LenProperties DEF Groups
<1>4. \A g \in Groups : groupLabels[g] \in Terminals
  <2>1. \A g \in Groups : groupId[groupLabels[g]] # 0
    <3>1. \A g \in Groups : g \in 1 .. newGroupId - 1 BY <1>2
    <3>2. newGroupId \in Nat BY <1>1 DEF SafetyInv, TrieTypeOK
    <3> QED BY <3>1, <3>2, <1>1
  <2>2. \A S \in SUBSET Labels : groupId[S] # 0 => S \in nodes BY <1>1 DEF SafetyInv
  <2> QED BY <1>3, <2>1, <2>2 DEF Terminals
<1>5. \A S \in Terminals : groupId[S] \in Groups
  BY <1>1, <1>2 DEF SafetyInv, IdsDense
<1>6. \A S, T \in Terminals : groupId[S] = groupId[T] => S = T
  BY <1>1 DEF SafetyInv, IdsDense
<1>7. \A S \in Terminals : groupLabels[groupId[S]] = S
  <2> TAKE S \in Terminals
  <2>1. groupLabels[groupId[S]] \in Terminals /\ groupId[groupLabels[groupId[S]]] = groupId[S]
    BY <1>1, <1>4, <1>5
  <2> QED BY <2>1, <1>6
<1>8. \A g, h \in Groups : groupLabels[g] = groupLabels[h] => g = h
  BY <1>1
<1> QED BY <1>2, <1>3, <1>4, <1>5, <1>7, <1>8

\* Divide, for a vector that starts a group and for one that joins it.
StartsGroup(S) ==
  /\ \A g \in Groups : groupLabels[g] # S
  /\ groupId' = [groupId EXCEPT ![S] = newGroupId]
  /\ newGroupId' = newGroupId + 1
  /\ groupLabels' = Append(groupLabels, S)
  /\ groupVecs' = Append(groupVecs, <<Len(labelSets)>>)

JoinsGroup(S) ==
  /\ UNCHANGED <<groupId, newGroupId, groupLabels>>
  /\ \E g \in Groups :
       /\ groupLabels[g] = S
       /\ groupVecs' = [groupVecs EXCEPT ![g] = Append(@, Len(labelSets))]

LEMMA DivideCases ==
  ASSUME GroupsInv, Divide
  PROVE  \E S \in SUBSET Labels :
           /\ SafetyInv'
           /\ labelSets' = Append(labelSets, S)
           /\ StartsGroup(S) \/ JoinsGroup(S)
<1>1. PICK S \in SUBSET Labels :
        /\ Insert(S)
        /\ labelSets' = Append(labelSets, S)
        /\ IF groupId'[S] > Len(groupVecs)
           THEN /\ groupVecs' = Append(groupVecs, <<Len(labelSets)>>)
                /\ groupLabels' = Append(groupLabels, S)
           ELSE /\ groupVecs' = [groupVecs EXCEPT ![groupId'[S]] = Append(@, Len(labelSets))]
                /\ UNCHANGED groupLabels
  BY DEF Divide
<1>2. SafetyInv' BY <1>1, InsertSafety DEF GroupsInv
<1>3. /\ groupId \in [SUBSET Labels -> Nat] /\ newGroupId \in Nat \ {0}
      /\ Len(groupVecs) = newGroupId - 1
  BY DEF GroupsInv, SafetyInv, TrieTypeOK
<1>4. CASE NewGroup(S)
  <2>1. /\ groupId' = [groupId EXCEPT ![S] = newGroupId]
        /\ newGroupId' = newGroupId + 1
        /\ groupId[S] = 0
    BY <1>1, <1>4 DEF Insert, NewGroup
  <2>2. groupId'[S] > Len(groupVecs)
    BY <1>3, <2>1
  <2>3. \A g \in Groups : groupLabels[g] # S
    BY <2>1, GroupsAreTerminals DEF Terminals
  <2>4. StartsGroup(S) BY <1>1, <2>1, <2>2, <2>3 DEF StartsGroup
  <2> QED BY <1>1, <1>2, <2>4
<1>5. CASE ~NewGroup(S)
  <2>1. UNCHANGED <<groupId, newGroupId>> /\ groupId[S] # 0
    BY <1>1, <1>5 DEF Insert, NewGroup
  <2>2. S \in Terminals
    BY <2>1 DEF GroupsInv, SafetyInv, Terminals
  <2>3. groupId[S] \in Groups /\ groupLabels[groupId[S]] = S /\ Groups = 1 .. newGroupId - 1
    BY <2>2, GroupsAreTerminals
  <2>4. ~(groupId'[S] > Len(groupVecs))
    BY <1>3, <2>1, <2>3
  <2>5. JoinsGroup(S) BY <1>1, <2>1, <2>3, <2>4 DEF JoinsGroup
  <2> QED BY <1>1, <1>2, <2>5
<1> QED BY <1>4, <1>5

\* what a vector's label set is, and that each is in its group once
VecsInv ==
  /\ labelSets \in Seq(SUBSET Labels)
  /\ Len(labelSets) <= NumVectors
  /\ phase # "divide" => Len(labelSets) = NumVectors
  /\ phase \in {"divide", "prepare"} =>
       /\ \A g \in Groups : \A i \in DOMAIN groupVecs[g] :
            /\ groupVecs[g][i] \in 0 .. Len(labelSets) - 1
            /\ labelSets[groupVecs[g][i] + 1] = groupLabels[g]
       /\ \A g \in Groups : \A i, j \in DOMAIN groupVecs[g] :
            groupVecs[g][i] = groupVecs[g][j] => i = j
       /\ \A v \in 0 .. Len(labelSets) - 1 : \E g \in Groups :
            \E i \in DOMAIN groupVecs[g] : groupVecs[g][i] = v

LEMMA DivideGroups == ASSUME GroupsInv, VecsInv, Divide PROVE GroupsInv' /\ VecsInv'
<1> DEFINE v == Len(labelSets)
<1>1. PICK S \in SUBSET Labels :
           /\ SafetyInv'
           /\ labelSets' = Append(labelSets, S)
           /\ StartsGroup(S) \/ JoinsGroup(S)
  BY DivideCases
<1>2. phase = "divide" /\ phase' = "divide" /\ v < NumVectors
  BY DEF Divide
<1>3. labelSets \in Seq(SUBSET Labels) /\ v \in Nat
  BY LenProperties DEF VecsInv
<1>4. /\ labelSets' \in Seq(SUBSET Labels) /\ Len(labelSets') = v + 1
      /\ 0 .. Len(labelSets') - 1 = 0 .. v
      /\ \A i \in 1 .. v : labelSets'[i] = labelSets[i]
      /\ labelSets'[v + 1] = S
  <2> HIDE DEF v
  <2>1. v = Len(labelSets) BY DEF v
  <2>2. Len(labelSets') = v + 1 BY <1>1, <1>3, <2>1, AppendProperties
  <2>3. 0 .. Len(labelSets') - 1 = 0 .. v BY <1>3, <2>2
  <2> QED BY <1>1, <1>3, <2>1, <2>2, <2>3, AppendProperties
<1>5. /\ \A g \in Groups : \A i \in DOMAIN groupVecs[g] :
            /\ groupVecs[g][i] \in 0 .. v - 1
            /\ labelSets[groupVecs[g][i] + 1] = groupLabels[g]
      /\ \A g \in Groups : \A i, j \in DOMAIN groupVecs[g] :
            groupVecs[g][i] = groupVecs[g][j] => i = j
      /\ \A w \in 0 .. v - 1 : \E g \in Groups :
            \E i \in DOMAIN groupVecs[g] : groupVecs[g][i] = w
  BY <1>2 DEF VecsInv
<1>6. /\ groupLabels \in Seq(SUBSET Labels) /\ Len(groupLabels) = newGroupId - 1
      /\ groupVecs \in Seq(Seq(Nat)) /\ Len(groupVecs) = Len(groupLabels)
      /\ \A g \in Groups : groupId[groupLabels[g]] = g
      /\ groupId \in [SUBSET Labels -> Nat] /\ newGroupId \in Nat \ {0}
      /\ Groups = 1 .. Len(groupLabels) /\ Len(groupLabels) \in Nat
      /\ \A g \in Groups : groupVecs[g] \in Seq(Nat) /\ groupLabels[g] \in SUBSET Labels
  <2>1. groupLabels \in Seq(SUBSET Labels) /\ groupVecs \in Seq(Seq(Nat))
    BY DEF GroupsInv
  <2>2. Groups = 1 .. Len(groupLabels) /\ Len(groupLabels) \in Nat
    BY <2>1, LenProperties DEF Groups
  <2>3. \A g \in Groups : groupVecs[g] \in Seq(Nat) /\ groupLabels[g] \in SUBSET Labels
    <3>1. Len(groupVecs) = Len(groupLabels) BY DEF GroupsInv
    <3>2. DOMAIN groupVecs = Groups /\ DOMAIN groupLabels = Groups
      BY <2>1, <2>2, <3>1, LenProperties
    <3> QED BY <2>1, <3>2, ElementOfSeq
  <2> QED BY <2>1, <2>2, <2>3 DEF GroupsInv, SafetyInv, TrieTypeOK
<1> DEFINE n == Len(groupLabels)
<1> HIDE DEF v
<1>7. CASE StartsGroup(S)
  <2>1. /\ groupLabels' \in Seq(SUBSET Labels) /\ Len(groupLabels') = n + 1
        /\ \A g \in 1 .. n : groupLabels'[g] = groupLabels[g]
        /\ groupLabels'[n + 1] = S
        /\ Groups' = 1 .. n + 1
    BY <1>6, <1>7, AppendProperties, LenProperties DEF StartsGroup, Groups
  <2>2. <<v>> \in Seq(Nat) /\ DOMAIN <<v>> = {1} /\ <<v>>[1] = v
    BY <1>3
  <2>3. /\ groupVecs' \in Seq(Seq(Nat)) /\ Len(groupVecs') = n + 1
        /\ \A g \in 1 .. n : groupVecs'[g] = groupVecs[g]
        /\ groupVecs'[n + 1] = <<v>>
    BY <1>6, <1>7, <2>2, AppendProperties DEF StartsGroup, v
  <2>4. /\ newGroupId' = n + 2 /\ groupId'[S] = n + 1
        /\ \A g \in 1 .. n : groupLabels[g] # S /\ groupId'[groupLabels[g]] = groupId[groupLabels[g]]
    BY <1>6, <1>7 DEF StartsGroup
  <2> HIDE DEF n
  <2>n. n \in Nat BY <1>6 DEF n
  <2>5. \A g \in 1 .. n + 1 : g \in 1 .. n \/ g = n + 1 BY <2>n
  <2>6. \A g \in Groups' : groupId'[groupLabels'[g]] = g
    <3>1. \A g \in 1 .. n : groupId'[groupLabels'[g]] = g BY <1>6, <2>1, <2>4 DEF n
    <3> QED BY <3>1, <2>1, <2>4, <2>5
  <2>7. GroupsInv' BY <1>1, <2>1, <2>3, <2>4, <2>6, <2>n DEF GroupsInv
  <2>8. \A g \in Groups' : \A i \in DOMAIN groupVecs'[g] :
          /\ groupVecs'[g][i] \in 0 .. Len(labelSets') - 1
          /\ labelSets'[groupVecs'[g][i] + 1] = groupLabels'[g]
    <3> TAKE g \in Groups'
    <3> TAKE i \in DOMAIN groupVecs'[g]
    <3>1. CASE g \in 1 .. n
      <4>1. /\ groupVecs[g][i] \in 0 .. v - 1
            /\ labelSets[groupVecs[g][i] + 1] = groupLabels[g]
        BY <1>5, <1>6, <2>3, <3>1 DEF n
      <4>2. groupVecs[g][i] + 1 \in 1 .. v BY <4>1, <1>3
      <4>3. groupVecs'[g] = groupVecs[g] /\ groupLabels'[g] = groupLabels[g]
        BY <2>1, <2>3, <3>1
      <4>4. groupVecs[g][i] \in 0 .. v BY <1>3, <4>1
      <4> QED BY <1>4, <4>1, <4>2, <4>3, <4>4
    <3>2. CASE g = n + 1
      BY <1>3, <1>4, <2>1, <2>2, <2>3, <3>2
    <3> QED BY <2>1, <2>5, <3>1, <3>2
  <2>9. \A g \in Groups' : \A i, j \in DOMAIN groupVecs'[g] :
          groupVecs'[g][i] = groupVecs'[g][j] => i = j
    <3> TAKE g \in Groups'
    <3>1. CASE g \in 1 .. n
      <4>1. g \in Groups BY <1>6, <3>1 DEF n
      <4>2. groupVecs'[g] = groupVecs[g] BY <2>3, <3>1
      <4>3. \A i, j \in DOMAIN groupVecs[g] : groupVecs[g][i] = groupVecs[g][j] => i = j
        BY <1>5, <4>1
      <4> QED BY <4>2, <4>3
    <3>2. CASE g = n + 1 BY <2>2, <2>3, <3>2
    <3> QED BY <2>1, <2>5, <3>1, <3>2
  <2>10. \A w \in 0 .. Len(labelSets') - 1 : \E g \in Groups' :
          \E i \in DOMAIN groupVecs'[g] : groupVecs'[g][i] = w
    <3> TAKE w \in 0 .. Len(labelSets') - 1
    <3>1. CASE w = v
      <4>1. n + 1 \in Groups' BY <2>1, <2>n
      <4> QED BY <2>2, <2>3, <3>1, <4>1
    <3>2. CASE w # v
      <4>1. w \in 0 .. v - 1 BY <1>3, <1>4, <3>2
      <4>2. PICK g \in Groups : \E i \in DOMAIN groupVecs[g] : groupVecs[g][i] = w BY <1>5, <4>1
      <4>3. g \in 1 .. n /\ g \in Groups' BY <1>6, <2>1, <2>n DEF n
      <4> QED BY <2>3, <4>2, <4>3
    <3> QED BY <3>1, <3>2
  <2>11. VecsInv'
    <3>1. Len(labelSets') <= NumVectors BY <1>2, <1>3, <1>4, NumVectorsAssumption
    <3> QED BY <1>2, <1>4, <2>8, <2>9, <2>10, <3>1 DEF VecsInv
  <2> QED BY <2>7, <2>11
<1>8. CASE JoinsGroup(S)
  <2>1. PICK h \in Groups :
          /\ groupLabels[h] = S
          /\ groupVecs' = [groupVecs EXCEPT ![h] = Append(@, v)]
    BY <1>8 DEF JoinsGroup, v
  <2>2. groupLabels' = groupLabels /\ groupId' = groupId /\ newGroupId' = newGroupId /\ Groups' = Groups
    BY <1>8 DEF JoinsGroup, Groups
  <2> DEFINE m == Len(groupVecs[h])
             new == Append(groupVecs[h], v)
  <2>3. /\ groupVecs[h] \in Seq(Nat) /\ m \in Nat /\ DOMAIN groupVecs[h] = 1 .. m
        /\ new \in Seq(Nat) /\ DOMAIN new = 1 .. m + 1
        /\ \A i \in 1 .. m : new[i] = groupVecs[h][i]
        /\ new[m + 1] = v
    BY <1>3, <1>6, AppendProperties, LenProperties
  <2>4. /\ groupVecs' \in Seq(Seq(Nat)) /\ Len(groupVecs') = n
        /\ groupVecs'[h] = new
        /\ \A g \in Groups : g # h => groupVecs'[g] = groupVecs[g]
    <3>1. h \in 1 .. Len(groupVecs) BY <1>6
    <3> HIDE DEF new
    <3>2. groupVecs' = [groupVecs EXCEPT ![h] = new] BY <2>1 DEF new
    <3> QED BY <1>6, <2>3, <3>1, <3>2, ExceptSeq
  <2>5. GroupsInv' BY <1>1, <1>6, <2>2, <2>4 DEF GroupsInv
  <2> HIDE DEF new, m
  <2>8. \A g \in Groups : \A i \in DOMAIN groupVecs'[g] :
          /\ groupVecs'[g][i] \in 0 .. Len(labelSets') - 1
          /\ labelSets'[groupVecs'[g][i] + 1] = groupLabels[g]
    <3> TAKE g \in Groups
    <3> TAKE i \in DOMAIN groupVecs'[g]
    <3>1. CASE i \in DOMAIN groupVecs[g] /\ groupVecs'[g][i] = groupVecs[g][i]
      <4>1. /\ groupVecs[g][i] \in 0 .. v - 1
            /\ labelSets[groupVecs[g][i] + 1] = groupLabels[g]
        BY <1>5, <3>1
      <4>2. groupVecs[g][i] + 1 \in 1 .. v BY <4>1, <1>3
      <4>3. groupVecs[g][i] \in 0 .. v BY <1>3, <4>1
      <4> QED BY <1>4, <3>1, <4>1, <4>2, <4>3
    <3>2. CASE g = h /\ i = m + 1
      BY <1>3, <1>4, <2>1, <2>3, <2>4, <3>2
    <3>3. CASE g = h /\ i # m + 1
      <4>1. i \in 1 .. m + 1 /\ m \in Nat BY <2>3, <2>4, <3>3
      <4>2. i \in 1 .. m BY <3>3, <4>1
      <4>3. i \in DOMAIN groupVecs[g] /\ groupVecs'[g][i] = groupVecs[g][i]
        BY <2>3, <2>4, <3>3, <4>2
      <4> QED BY <3>1, <4>3
    <3>4. CASE g # h
      <4>1. groupVecs'[g] = groupVecs[g] BY <2>4, <3>4
      <4> QED BY <3>1, <4>1
    <3> QED BY <3>2, <3>3, <3>4
  <2>9. \A g \in Groups : \A i, j \in DOMAIN groupVecs'[g] :
          groupVecs'[g][i] = groupVecs'[g][j] => i = j
    <3> TAKE g \in Groups
    <3>1. CASE g # h
      <4>1. groupVecs'[g] = groupVecs[g] BY <2>4, <3>1
      <4>2. \A i, j \in DOMAIN groupVecs[g] : groupVecs[g][i] = groupVecs[g][j] => i = j
        BY <1>5
      <4> QED BY <4>1, <4>2
    <3>2. CASE g = h
      <4>1. \A i \in 1 .. m : new[i] \in 0 .. v - 1 BY <1>5, <2>3
      <4>2. \A i \in 1 .. m : new[i] # v BY <4>1, <1>3
      <4>3. \A i \in 1 .. m + 1 : i \in 1 .. m \/ i = m + 1 BY <2>3
      <4>4. \A i, j \in 1 .. m : new[i] = new[j] => i = j
        <5>1. \A i, j \in DOMAIN groupVecs[h] : groupVecs[h][i] = groupVecs[h][j] => i = j
          BY <1>5
        <5>2. DOMAIN groupVecs[h] = 1 .. m /\ \A i \in 1 .. m : new[i] = groupVecs[h][i]
          BY <2>3
        <5> QED BY <5>1, <5>2
      <4>5. \A i, j \in 1 .. m + 1 : new[i] = new[j] => i = j
        BY <2>3, <4>2, <4>3, <4>4
      <4> QED BY <2>3, <2>4, <3>2, <4>5
    <3> QED BY <3>1, <3>2
  <2>10. \A w \in 0 .. Len(labelSets') - 1 : \E g \in Groups :
          \E i \in DOMAIN groupVecs'[g] : groupVecs'[g][i] = w
    <3> TAKE w \in 0 .. Len(labelSets') - 1
    <3>1. CASE w = v
      <4>1. m + 1 \in DOMAIN groupVecs'[h] BY <2>3, <2>4
      <4> QED BY <2>3, <2>4, <3>1, <4>1
    <3>2. CASE w # v
      <4>1. w \in 0 .. v - 1 BY <1>3, <1>4, <3>2
      <4>2. PICK g \in Groups : \E i \in DOMAIN groupVecs[g] : groupVecs[g][i] = w BY <1>5, <4>1
      <4>3. PICK i \in DOMAIN groupVecs[g] : groupVecs[g][i] = w BY <4>2
      <4>4. i \in DOMAIN groupVecs'[g] /\ groupVecs'[g][i] = w
        <5>1. CASE g = h
          <6>1. i \in 1 .. m /\ i \in 1 .. m + 1 BY <2>3, <4>3, <5>1
          <6> QED BY <2>3, <2>4, <4>3, <5>1, <6>1
        <5>2. CASE g # h BY <2>4, <4>3, <5>2
        <5> QED BY <5>1, <5>2
      <4> QED BY <4>4
    <3> QED BY <3>1, <3>2
  <2>11. VecsInv'
    <3>1. Len(labelSets') <= NumVectors BY <1>2, <1>3, <1>4, NumVectorsAssumption
    <3> QED BY <1>2, <1>4, <2>2, <2>8, <2>9, <2>10, <3>1 DEF VecsInv
  <2> QED BY <2>5, <2>11
<1> QED BY <1>1, <1>7, <1>8

\* where prepare_group_storages_graphs puts the vectors of the groups it has taken
PrepareInv ==
  /\ newToOld \in Seq(Nat) /\ newToGroup \in Seq(Nat) /\ range \in Seq(Nat \X Nat)
  /\ Len(newToGroup) = Len(newToOld)
  /\ Len(range) <= Len(groupLabels)
  /\ phase = "divide" => range = <<>>
  /\ \A i \in 1 .. Len(newToOld) :
       /\ newToGroup[i] \in 1 .. Len(range)
       /\ range[newToGroup[i]][1] < i /\ i <= range[newToGroup[i]][2]
       /\ newToOld[i] = groupVecs[newToGroup[i]][i - range[newToGroup[i]][1]]
  /\ \A g \in 1 .. Len(range) :
       /\ range[g][2] = range[g][1] + Len(groupVecs[g])
       /\ range[g][2] <= Len(newToOld)
       /\ \A i \in range[g][1] + 1 .. range[g][2] : newToGroup[i] = g

LEMMA GroupTypes ==
  ASSUME GroupsInv
  PROVE  /\ Len(groupLabels) \in Nat /\ Groups = 1 .. Len(groupLabels)
         /\ \A g \in Groups : /\ groupVecs[g] \in Seq(Nat) /\ Len(groupVecs[g]) \in Nat
                              /\ DOMAIN groupVecs[g] = 1 .. Len(groupVecs[g])
                              /\ \A i \in DOMAIN groupVecs[g] : groupVecs[g][i] \in Nat
<1>1. groupLabels \in Seq(SUBSET Labels) /\ groupVecs \in Seq(Seq(Nat)) /\ Len(groupVecs) = Len(groupLabels)
  BY DEF GroupsInv
<1>2. Len(groupLabels) \in Nat /\ Groups = 1 .. Len(groupLabels)
  BY <1>1, LenProperties DEF Groups
<1>3. \A g \in Groups : groupVecs[g] \in Seq(Nat)
  BY <1>1, <1>2, ElementOfSeq
<1> QED BY <1>2, <1>3, LenProperties

LEMMA GroupsUnchanged ==
  ASSUME GroupsInv, UNCHANGED <<trieVars, groupVecs, groupLabels>>
  PROVE  GroupsInv'
<1>1. SafetyInv' BY NextSafety DEF GroupsInv
<1>2. newGroupId' = newGroupId /\ groupId' = groupId BY DEF trieVars
<1> QED BY <1>1, <1>2 DEF GroupsInv, Groups

LEMMA SeqLength ==
  ASSUME NEW S, NEW f \in Seq(S), NEW n \in Nat, DOMAIN f = 1 .. n
  PROVE  Len(f) = n
<1> DEFINE k == Len(f)
<1>1. k \in Nat /\ 1 .. k = 1 .. n BY LenProperties
<1> HIDE DEF k
<1>2. ~(k < n)
  <2>1. k < n => n \in 1 .. n /\ n \notin 1 .. k BY <1>1
  <2> QED BY <1>1, <2>1
<1>3. ~(n < k)
  <2>1. n < k => k \in 1 .. k /\ k \notin 1 .. n BY <1>1
  <2> QED BY <1>1, <2>1
<1> QED BY <1>1, <1>2, <1>3 DEF k

\* a sequence of one value
LEMMA ConstantSeq ==
  ASSUME NEW n \in Nat, NEW e \in Nat
  PROVE  /\ [i \in 1 .. n |-> e] \in Seq(Nat)
         /\ Len([i \in 1 .. n |-> e]) = n
<1> DEFINE f == [i \in 1 .. n |-> e]
<1>1. f \in [1 .. n -> Nat] OBVIOUS
<1>2. f \in Seq(Nat) BY <1>1, SeqDef
<1>3. DOMAIN f = 1 .. n OBVIOUS
<1> QED BY <1>2, <1>3, SeqLength

LEMMA PrepareStep ==
  ASSUME GroupsInv, PrepareInv, PrepareGroup
  PROVE  PrepareInv'
<1> DEFINE g == Len(range) + 1
           first == Len(newToOld)
           s == groupVecs[g]
           n == Len(s)
           c == [i \in DOMAIN s |-> g]
<1>1. /\ newToOld \in Seq(Nat) /\ newToGroup \in Seq(Nat) /\ range \in Seq(Nat \X Nat)
      /\ Len(newToGroup) = first /\ first \in Nat /\ Len(range) \in Nat
      /\ Len(range) < Len(groupLabels) /\ Len(groupLabels) \in Nat
      /\ phase = "prepare"
  BY GroupTypes, LenProperties DEF PrepareInv, PrepareGroup
<1>2. g \in Groups /\ g \in Nat BY <1>1, GroupTypes
<1>3. s \in Seq(Nat) /\ n \in Nat /\ DOMAIN s = 1 .. n BY <1>2, GroupTypes
<1>4. /\ range' = Append(range, <<first, first + n>>)
      /\ newToOld' = newToOld \o s
      /\ newToGroup' = newToGroup \o c
      /\ groupVecs' = groupVecs /\ groupLabels' = groupLabels /\ phase' = "prepare"
  BY <1>1 DEF PrepareGroup, divideVars
<1>5. \A i \in 1 .. first :
       /\ newToGroup[i] \in 1 .. Len(range)
       /\ range[newToGroup[i]][1] < i /\ i <= range[newToGroup[i]][2]
       /\ newToOld[i] = groupVecs[newToGroup[i]][i - range[newToGroup[i]][1]]
  BY DEF PrepareInv
<1>6. \A h \in 1 .. Len(range) :
       /\ range[h][2] = range[h][1] + Len(groupVecs[h])
       /\ range[h][2] <= first
       /\ \A i \in range[h][1] + 1 .. range[h][2] : newToGroup[i] = h
       /\ range[h][1] \in Nat /\ range[h][2] \in Nat
  <2>1. \A h \in 1 .. Len(range) : range[h] \in Nat \X Nat BY <1>1, ElementOfSeq
  <2> QED BY <2>1 DEF PrepareInv
<1>7. c \in Seq(Nat) /\ Len(c) = n /\ \A i \in 1 .. n : c[i] = g
  <2>1. c = [i \in 1 .. n |-> g] BY <1>3
  <2> HIDE DEF g, c, n
  <2> QED BY <1>2, <1>3, <2>1, ConstantSeq
<1> HIDE DEF c, s, n, first
<1>8. /\ newToOld' \in Seq(Nat) /\ Len(newToOld') = first + n
      /\ \A i \in 1 .. first : newToOld'[i] = newToOld[i]
      /\ \A i \in first + 1 .. first + n : newToOld'[i] = s[i - first]
  <2>1. \A i \in 1 .. first + n : newToOld'[i] = IF i <= first THEN newToOld[i] ELSE s[i - first]
    BY <1>1, <1>3, <1>4, ConcatProperties DEF first, n
  <2>2. newToOld' \in Seq(Nat) /\ Len(newToOld') = first + n
    BY <1>1, <1>3, <1>4, ConcatProperties DEF first, n
  <2>3. \A i \in first + 1 .. first + n : ~(i <= first) /\ i \in 1 .. first + n
    BY <1>1, <1>3
  <2>4. \A i \in 1 .. first : i \in 1 .. first + n /\ i <= first BY <1>1, <1>3
  <2> QED BY <2>1, <2>2, <2>3, <2>4
<1>9. /\ newToGroup' \in Seq(Nat) /\ Len(newToGroup') = first + n
      /\ \A i \in 1 .. first : newToGroup'[i] = newToGroup[i]
      /\ \A i \in first + 1 .. first + n : newToGroup'[i] = g
  <2>1. \A i \in 1 .. first + n : newToGroup'[i] = IF i <= first THEN newToGroup[i] ELSE c[i - first]
    BY <1>1, <1>4, <1>7, ConcatProperties
  <2>2. newToGroup' \in Seq(Nat) /\ Len(newToGroup') = first + n
    BY <1>1, <1>4, <1>7, ConcatProperties
  <2>3. \A i \in first + 1 .. first + n : i - first \in 1 .. n /\ ~(i <= first) /\ i \in 1 .. first + n
    BY <1>1, <1>3
  <2>4. \A i \in 1 .. first : i \in 1 .. first + n /\ i <= first BY <1>1, <1>3
  <2> QED BY <1>7, <2>1, <2>2, <2>3, <2>4
<1>10. /\ range' \in Seq(Nat \X Nat) /\ Len(range') = g
       /\ \A h \in 1 .. Len(range) : range'[h] = range[h]
       /\ range'[g] = <<first, first + n>>
  <2>1. <<first, first + n>> \in Nat \X Nat BY <1>1, <1>3
  <2> QED BY <1>1, <1>4, <2>1, AppendProperties
<1> DEFINE m == Len(range)
<1>11. m \in Nat /\ g = m + 1 BY <1>1
<1> HIDE DEF g, m
<1>12. \A h \in 1 .. g : h \in 1 .. m \/ h = g BY <1>11
<1>13. \A i \in 1 .. Len(newToOld') :
         /\ newToGroup'[i] \in 1 .. Len(range')
         /\ range'[newToGroup'[i]][1] < i /\ i <= range'[newToGroup'[i]][2]
         /\ newToOld'[i] = groupVecs'[newToGroup'[i]][i - range'[newToGroup'[i]][1]]
  <2> TAKE i \in 1 .. Len(newToOld')
  <2>1. CASE i \in 1 .. first
    <3>1. newToGroup[i] \in 1 .. m BY <1>5, <2>1 DEF m
    <3>2. newToGroup[i] \in 1 .. g BY <3>1, <1>11
    <3>3. range'[newToGroup[i]] = range[newToGroup[i]] BY <1>10, <3>1 DEF m
    <3>4. newToGroup'[i] = newToGroup[i] /\ newToOld'[i] = newToOld[i] BY <1>8, <1>9, <2>1
    <3>5. /\ range[newToGroup[i]][1] < i /\ i <= range[newToGroup[i]][2]
          /\ newToOld[i] = groupVecs[newToGroup[i]][i - range[newToGroup[i]][1]]
      BY <1>5, <2>1
    <3>6. Len(range') = g BY <1>10
    <3> QED BY <1>4, <3>2, <3>3, <3>4, <3>5, <3>6
  <2>2. CASE i \in first + 1 .. first + n
    <3>1. newToGroup'[i] = g /\ newToOld'[i] = s[i - first] BY <1>8, <1>9, <2>2
    <3>2. first < i /\ i <= first + n BY <1>1, <1>3, <2>2
    <3>3. g \in 1 .. g BY <1>11
    <3>4. range'[g][1] = first /\ range'[g][2] = first + n /\ Len(range') = g BY <1>10
    <3>5. groupVecs'[g] = s BY <1>4 DEF s
    <3> QED BY <3>1, <3>2, <3>3, <3>4, <3>5
  <2>3. i \in 1 .. first \/ i \in first + 1 .. first + n BY <1>1, <1>3, <1>8
  <2> QED BY <2>1, <2>2, <2>3
<1>14. \A h \in 1 .. Len(range') :
         /\ range'[h][2] = range'[h][1] + Len(groupVecs'[h])
         /\ range'[h][2] <= Len(newToOld')
         /\ \A i \in range'[h][1] + 1 .. range'[h][2] : newToGroup'[i] = h
  <2> TAKE h \in 1 .. Len(range')
  <2>1. CASE h \in 1 .. m
    <3>1. range'[h] = range[h] BY <1>10, <2>1 DEF m
    <3>2. /\ range[h][2] = range[h][1] + Len(groupVecs[h])
          /\ range[h][2] <= first
          /\ \A i \in range[h][1] + 1 .. range[h][2] : newToGroup[i] = h
          /\ range[h][1] \in Nat /\ range[h][2] \in Nat
      BY <1>6, <2>1 DEF m
    <3>3. \A i \in range[h][1] + 1 .. range[h][2] : i \in 1 .. first
      <4> DEFINE a == range[h][1]
                 b == range[h][2]
      <4>1. a \in Nat /\ b \in Nat /\ b <= first BY <3>2
      <4> HIDE DEF a, b
      <4>2. \A i \in a + 1 .. b : i \in 1 .. first BY <1>1, <4>1
      <4> QED BY <4>2 DEF a, b
    <3>4. range[h][2] <= first + n BY <1>1, <1>3, <3>2
    <3> QED BY <1>4, <1>8, <1>9, <3>1, <3>2, <3>3, <3>4
  <2>2. CASE h = g
    <3>1. range'[h][1] = first /\ range'[h][2] = first + n BY <1>10, <2>2
    <3>2. Len(groupVecs'[h]) = n BY <1>4, <2>2 DEF n, s
    <3>3. first + n <= first + n BY <1>1, <1>3
    <3> QED BY <1>8, <1>9, <2>2, <3>1, <3>2, <3>3
  <2> QED BY <1>10, <1>12, <2>1, <2>2
<1>15. Len(range') <= Len(groupLabels') BY <1>1, <1>4, <1>10, <1>11 DEF m
<1> QED BY <1>4, <1>8, <1>9, <1>10, <1>13, <1>14, <1>15 DEF PrepareInv

Built == {"navigate", "descend", "cover", "done"}

\* what Storage::reorder_data has left
ReorderedInv ==
  phase \in Built =>
    /\ {newToOld[i] : i \in DOMAIN newToOld} = 0 .. NumVectors - 1
    /\ Len(newToOld) = NumVectors
    /\ Len(range) = Len(groupLabels)
    /\ \A i \in 1 .. NumVectors : labelSets[i] = groupLabels[newToGroup[i]]

BaseInv == GroupsInv /\ VecsInv /\ PrepareInv /\ ReorderedInv

LEMMA PrepareTypes ==
  ASSUME GroupsInv, PrepareInv
  PROVE  /\ Len(newToOld) \in Nat /\ DOMAIN newToOld = 1 .. Len(newToOld)
         /\ DOMAIN newToGroup = 1 .. Len(newToOld)
         /\ \A i \in 1 .. Len(newToOld) : newToOld[i] \in Nat
         /\ Len(range) \in Nat /\ 1 .. Len(range) \subseteq Groups
         /\ \A g \in 1 .. Len(range) : range[g][1] \in Nat /\ range[g][2] \in Nat
<1>1. newToOld \in Seq(Nat) /\ newToGroup \in Seq(Nat) /\ range \in Seq(Nat \X Nat)
      /\ Len(newToGroup) = Len(newToOld) /\ Len(range) <= Len(groupLabels)
  BY DEF PrepareInv
<1>2. \A g \in 1 .. Len(range) : range[g] \in Nat \X Nat BY <1>1, ElementOfSeq
<1>3. \A i \in 1 .. Len(newToOld) : newToOld[i] \in Nat BY <1>1, ElementOfSeq
<1>4. Len(range) \in Nat BY <1>1, LenProperties
<1>5. 1 .. Len(range) \subseteq Groups BY <1>1, <1>4, GroupTypes
<1> QED BY <1>1, <1>2, <1>3, <1>4, <1>5, LenProperties

\* A permutation of 0 .. N - 1 as a sequence has length N.
LEMMA PermutationLength ==
  ASSUME NEW s \in Seq(Nat), NEW N \in Nat,
         {s[i] : i \in DOMAIN s} = 0 .. N - 1,
         \A i, j \in DOMAIN s : s[i] = s[j] => i = j
  PROVE  Len(s) = N
<1>1. Len(s) \in Nat /\ DOMAIN s = 1 .. Len(s) /\ s \in [1 .. Len(s) -> Nat]
  BY LenProperties
<1>2. s \in [1 .. Len(s) -> 0 .. N - 1]
  BY <1>1
<1>3. s \in Bijection(1 .. Len(s), 0 .. N - 1)
  <2>1. s \in Injection(1 .. Len(s), 0 .. N - 1)
    BY <1>1, <1>2 DEF Injection, IsInjective
  <2>2. s \in Surjection(1 .. Len(s), 0 .. N - 1)
    BY <1>1, <1>2 DEF Surjection
  <2> QED BY <2>1, <2>2 DEF Bijection
<1>4. Cardinality(0 .. N - 1) = Len(s)
  BY <1>1, <1>3, FS_CountingElements DEF ExistsBijection
<1>5. Cardinality(0 .. N - 1) = N
  <2>1. N - 1 \in Int /\ 0 \in Int OBVIOUS
  <2>2. Cardinality(0 .. N - 1) = IF 0 > N - 1 THEN 0 ELSE (N - 1) - 0 + 1
    BY <2>1, FS_Interval
  <2> QED BY <2>2
<1> QED BY <1>4, <1>5

\* When all groups are prepared, no vector is lost or doubled.
LEMMA IsPermutation ==
  ASSUME BaseInv, phase = "prepare", Len(range) = Len(groupLabels)
  PROVE  /\ {newToOld[i] : i \in DOMAIN newToOld} = 0 .. NumVectors - 1
         /\ Len(newToOld) = NumVectors
         /\ \A i \in 1 .. NumVectors :
              /\ newToOld[i] + 1 \in 1 .. NumVectors
              /\ newToGroup[i] \in Groups
              /\ labelSets[newToOld[i] + 1] = groupLabels[newToGroup[i]]
<1> DEFINE n == Len(newToOld)
<1>1. /\ GroupsInv /\ PrepareInv
      /\ n \in Nat /\ DOMAIN newToOld = 1 .. n /\ newToOld \in Seq(Nat)
      /\ Groups = 1 .. Len(range)
      /\ \A g \in Groups : range[g][1] \in Nat /\ range[g][2] \in Nat
  BY PrepareTypes, GroupTypes DEF BaseInv, PrepareInv
<1>2. /\ \A g \in Groups : \A i \in DOMAIN groupVecs[g] :
            /\ groupVecs[g][i] \in 0 .. NumVectors - 1
            /\ labelSets[groupVecs[g][i] + 1] = groupLabels[g]
      /\ \A g \in Groups : \A i, j \in DOMAIN groupVecs[g] :
            groupVecs[g][i] = groupVecs[g][j] => i = j
      /\ \A v \in 0 .. NumVectors - 1 : \E g \in Groups :
            \E i \in DOMAIN groupVecs[g] : groupVecs[g][i] = v
  BY DEF BaseInv, VecsInv
<1>3. \A i \in 1 .. n :
       /\ newToGroup[i] \in Groups
       /\ range[newToGroup[i]][1] < i /\ i <= range[newToGroup[i]][2]
       /\ newToOld[i] = groupVecs[newToGroup[i]][i - range[newToGroup[i]][1]]
  BY <1>1 DEF PrepareInv
<1>4. \A g \in Groups :
       /\ range[g][2] = range[g][1] + Len(groupVecs[g])
       /\ range[g][2] <= n
       /\ \A i \in range[g][1] + 1 .. range[g][2] : newToGroup[i] = g
  BY <1>1 DEF PrepareInv
<1>5. \A g \in Groups : Len(groupVecs[g]) \in Nat /\ DOMAIN groupVecs[g] = 1 .. Len(groupVecs[g])
  BY <1>1, GroupTypes
<1> HIDE DEF n
<1>6. \A i \in 1 .. n : i - range[newToGroup[i]][1] \in DOMAIN groupVecs[newToGroup[i]]
  <2> TAKE i \in 1 .. n
  <2> DEFINE g == newToGroup[i]
             a == range[g][1]
             b == range[g][2]
             k == Len(groupVecs[g])
  <2>1. g \in Groups /\ a \in Nat /\ b \in Nat /\ k \in Nat /\ b = a + k /\ a < i /\ i <= b
        /\ DOMAIN groupVecs[g] = 1 .. k
    BY <1>1, <1>3, <1>4, <1>5
  <2> HIDE DEF a, b, k
  <2>2. i - a \in 1 .. k BY <1>1, <2>1
  <2> QED BY <2>1, <2>2 DEF a
<1>7. \A i \in 1 .. n : /\ newToOld[i] \in 0 .. NumVectors - 1
                        /\ labelSets[newToOld[i] + 1] = groupLabels[newToGroup[i]]
  BY <1>2, <1>3, <1>6
<1>8. \A i, j \in 1 .. n : newToOld[i] = newToOld[j] => i = j
  <2> TAKE i, j \in 1 .. n
  <2> HAVE newToOld[i] = newToOld[j]
  <2>1. newToGroup[i] = newToGroup[j]
    <3>1. groupLabels[newToGroup[i]] = groupLabels[newToGroup[j]] BY <1>7
    <3> QED BY <1>1, <1>3, <3>1, GroupsAreTerminals
  <2> DEFINE a == range[newToGroup[i]][1]
  <2>2. i - a = j - a
    <3>1. i - a \in DOMAIN groupVecs[newToGroup[i]] /\ j - a \in DOMAIN groupVecs[newToGroup[i]]
      BY <1>6, <2>1
    <3>2. groupVecs[newToGroup[i]][i - a] = groupVecs[newToGroup[i]][j - a]
      BY <1>3, <2>1
    <3> QED BY <1>2, <1>3, <3>1, <3>2
  <2>3. a \in Nat BY <1>1, <1>3
  <2> HIDE DEF a
  <2> QED BY <1>1, <2>2, <2>3
<1>9. \A v \in 0 .. NumVectors - 1 : \E i \in 1 .. n : newToOld[i] = v
  <2> TAKE v \in 0 .. NumVectors - 1
  <2>1. PICK g \in Groups : \E k \in DOMAIN groupVecs[g] : groupVecs[g][k] = v BY <1>2
  <2>2. PICK k \in DOMAIN groupVecs[g] : groupVecs[g][k] = v BY <2>1
  <2> DEFINE a == range[g][1]
             b == range[g][2]
             i == a + k
  <2>3. /\ a \in Nat /\ b \in Nat /\ Len(groupVecs[g]) \in Nat /\ k \in 1 .. Len(groupVecs[g])
        /\ b = a + Len(groupVecs[g]) /\ b <= n
        /\ \A j \in a + 1 .. b : newToGroup[j] = g
    BY <1>1, <1>4, <1>5, <2>2
  <2> HIDE DEF a, b
  <2> DEFINE l == Len(groupVecs[g])
  <2>4. i \in a + 1 .. b /\ i \in 1 .. n /\ i - a = k
    <3>1. a \in Nat /\ b \in Nat /\ l \in Nat /\ k \in 1 .. l /\ b = a + l /\ b <= n /\ n \in Nat
      BY <1>1, <2>3
    <3> HIDE DEF l
    <3> QED BY <3>1
  <2> HIDE DEF i
  <2>5. newToGroup[i] = g BY <2>3, <2>4
  <2>6. newToOld[i] = groupVecs[g][i - a] BY <1>3, <2>4, <2>5 DEF a
  <2> QED BY <2>2, <2>4, <2>6
<1>10. {newToOld[i] : i \in DOMAIN newToOld} = 0 .. NumVectors - 1
  BY <1>1, <1>7, <1>9
<1>11. n = NumVectors
  BY <1>1, <1>8, <1>10, NumVectorsAssumption, PermutationLength DEF n
<1>12. \A i \in 1 .. n : newToOld[i] + 1 \in 1 .. NumVectors
  BY <1>7, NumVectorsAssumption
<1> QED BY <1>3, <1>7, <1>10, <1>11, <1>12 DEF n

LEMMA ReorderStep ==
  ASSUME BaseInv, Reorder
  PROVE  BaseInv'
<1>1. /\ phase = "prepare" /\ phase' = "navigate" /\ Len(range) = Len(groupLabels)
      /\ labelSets' = Reordered
      /\ UNCHANGED <<trieVars, groupVecs, groupLabels, reorderVars>>
  BY DEF Reorder
<1>2. GroupsInv'
  BY <1>1, GroupsUnchanged DEF BaseInv
<1>3. PrepareInv'
  BY <1>1 DEF BaseInv, PrepareInv, reorderVars
<1>4. /\ labelSets \in Seq(SUBSET Labels) /\ Len(labelSets) = NumVectors
      /\ DOMAIN labelSets = 1 .. NumVectors
      /\ \A i \in 1 .. NumVectors : labelSets[i] \in SUBSET Labels
  BY <1>1, LenProperties, ElementOfSeq DEF BaseInv, VecsInv
<1>5. /\ {newToOld[i] : i \in DOMAIN newToOld} = 0 .. NumVectors - 1
      /\ Len(newToOld) = NumVectors
      /\ \A i \in 1 .. NumVectors :
           /\ newToOld[i] + 1 \in 1 .. NumVectors
           /\ labelSets[newToOld[i] + 1] = groupLabels[newToGroup[i]]
  BY <1>1, IsPermutation
<1>6. labelSets' = [i \in 1 .. NumVectors |-> labelSets[newToOld[i] + 1]]
  BY <1>1, <1>4 DEF Reordered
<1>7. \A i \in 1 .. NumVectors : labelSets'[i] = groupLabels[newToGroup[i]]
  BY <1>5, <1>6
<1>8. labelSets' \in Seq(SUBSET Labels) /\ Len(labelSets') = NumVectors
  <2>1. labelSets' \in [1 .. NumVectors -> SUBSET Labels] BY <1>4, <1>5, <1>6
  <2>2. labelSets' \in Seq(SUBSET Labels) BY <2>1, SeqDef, NumVectorsAssumption
  <2>3. DOMAIN labelSets' = 1 .. NumVectors BY <1>6
  <2> QED BY <2>2, <2>3, SeqLength, NumVectorsAssumption
<1>9. VecsInv' BY <1>1, <1>8, NumVectorsAssumption DEF VecsInv
<1>10. ReorderedInv' BY <1>1, <1>5, <1>7 DEF ReorderedInv, reorderVars
<1> QED BY <1>2, <1>3, <1>9, <1>10 DEF BaseInv

\* what the actions but PrepareGroup and Reorder leave alone
LEMMA LaterFrame ==
  ASSUME Later, ~PrepareGroup, ~Reorder
  PROVE  /\ UNCHANGED <<labelSets, reorderVars>>
         /\ \/ phase' = phase
            \/ phase = "divide" /\ phase' = "prepare" /\ Len(labelSets) = NumVectors
            \/ phase \in Built /\ phase' \in Built
BY DEF Later, Divided, DescendFrom, CoverParents, Navigate, DescendPop, Descended,
   CoverLeaves, InitBitsets, vars, divideVars, Built

LEMMA OtherSteps ==
  ASSUME BaseInv, Later, ~PrepareGroup, ~Reorder
  PROVE  BaseInv'
<1>1. /\ UNCHANGED <<labelSets, newToOld, newToGroup, range>>
      /\ \/ phase' = phase
         \/ phase = "divide" /\ phase' = "prepare" /\ Len(labelSets) = NumVectors
         \/ phase \in Built /\ phase' \in Built
  BY LaterFrame DEF reorderVars
<1>2. UNCHANGED <<trieVars, groupVecs, groupLabels>> BY LaterGroups
<1>3. GroupsInv' BY <1>2, GroupsUnchanged DEF BaseInv
<1>4. UNCHANGED Groups BY <1>2 DEF Groups
<1>5. VecsInv' BY <1>1, <1>2, <1>4 DEF BaseInv, VecsInv, Built
<1>6. PrepareInv' BY <1>1, <1>2 DEF BaseInv, PrepareInv, Built
<1>7. ReorderedInv' BY <1>1, <1>2 DEF BaseInv, ReorderedInv, Built
<1> QED BY <1>3, <1>5, <1>6, <1>7 DEF BaseInv

LEMMA BaseInit == Init => BaseInv
<1> SUFFICES ASSUME Init PROVE BaseInv OBVIOUS
<1>1. SafetyInv BY InitSafety DEF Init
<1>2. /\ phase = "divide" /\ labelSets = <<>> /\ groupVecs = <<>> /\ groupLabels = <<>>
      /\ newToOld = <<>> /\ newToGroup = <<>> /\ range = <<>> /\ newGroupId = 1
  BY DEF Init, TrieInit
<1>3. Groups = {} BY <1>2 DEF Groups
<1>4. GroupsInv BY <1>1, <1>2, <1>3 DEF GroupsInv
<1>5. VecsInv
  <2>1. Len(labelSets) = 0 /\ labelSets \in Seq(SUBSET Labels) BY <1>2
  <2>2. 0 .. Len(labelSets) - 1 = {} BY <2>1
  <2> QED BY <1>2, <1>3, <2>1, <2>2, NumVectorsAssumption DEF VecsInv
<1>6. PrepareInv BY <1>2 DEF PrepareInv
<1>7. ReorderedInv BY <1>2 DEF ReorderedInv, Built
<1> QED BY <1>4, <1>5, <1>6, <1>7 DEF BaseInv

LEMMA BaseStep == BaseInv /\ [Next]_vars => BaseInv'
<1> SUFFICES ASSUME BaseInv, [Next]_vars PROVE BaseInv' OBVIOUS
<1>1. CASE Divide
  <2>1. GroupsInv' /\ VecsInv' BY <1>1, DivideGroups DEF BaseInv
  <2>2. phase = "divide" /\ phase' = "divide" /\ UNCHANGED <<newToOld, newToGroup, range>>
    BY <1>1 DEF Divide, reorderVars
  <2>3. range = <<>> /\ newToOld = <<>> /\ newToGroup = <<>>
    <3>1. range = <<>> BY <2>2 DEF BaseInv, PrepareInv
    <3>2. 1 .. Len(range) = {} BY <3>1
    <3>3. Len(newToOld) \in Nat /\ 1 .. Len(newToOld) = {} BY <3>2, LenProperties DEF BaseInv, PrepareInv
    <3>4. Len(newToOld) = 0 BY <3>3
    <3> QED BY <3>1, <3>4, EmptySeq DEF BaseInv, PrepareInv
  <2>4. PrepareInv'
    <3>1. Len(groupLabels') \in Nat BY <2>1, LenProperties DEF GroupsInv
    <3> QED BY <2>2, <2>3, <3>1 DEF PrepareInv
  <2>5. ReorderedInv' BY <2>2 DEF ReorderedInv, Built
  <2> QED BY <2>1, <2>4, <2>5 DEF BaseInv
<1>2. CASE PrepareGroup
  <2>1. PrepareInv' BY <1>2, PrepareStep DEF BaseInv
  <2>2. UNCHANGED <<trieVars, labelSets, groupVecs, groupLabels, phase>> /\ phase = "prepare"
    BY <1>2 DEF PrepareGroup, divideVars
  <2>3. GroupsInv' BY <2>2, GroupsUnchanged DEF BaseInv
  <2>4. VecsInv' BY <2>2 DEF BaseInv, VecsInv, Groups
  <2>5. ReorderedInv' BY <2>2 DEF ReorderedInv, Built
  <2> QED BY <2>1, <2>3, <2>4, <2>5 DEF BaseInv
<1> QED BY <1>1, <1>2, NextSplit, ReorderStep, OtherSteps

LEMMA BaseInvHolds == Spec => []BaseInv
BY BaseInit, BaseStep, PTL DEF Spec

\* For every sequence of label sets: after the reorder a group's vectors are a
\* range of ids of their own, and no vector is lost or doubled.
THEOREM RangesAlwaysSound == Spec => []RangesSound
<1>1. BaseInv => RangesSound
  <2> SUFFICES ASSUME BaseInv, phase \in Built
               PROVE  /\ {newToOld[i] : i \in DOMAIN newToOld} = 0 .. NumVectors - 1
                      /\ Len(newToOld) = NumVectors
                      /\ \A g \in Groups : \A v \in 0 .. NumVectors - 1 :
                           range[g][1] <= v /\ v < range[g][2] <=> labelSets[v + 1] = groupLabels[g]
                      /\ \A i \in DOMAIN newToGroup : labelSets[i] = groupLabels[newToGroup[i]]
    BY DEF RangesSound, Built
  <2>1. /\ {newToOld[i] : i \in DOMAIN newToOld} = 0 .. NumVectors - 1
        /\ Len(newToOld) = NumVectors
        /\ \A i \in 1 .. NumVectors : labelSets[i] = groupLabels[newToGroup[i]]
        /\ DOMAIN newToGroup = 1 .. NumVectors
        /\ Groups = 1 .. Len(range)
    BY PrepareTypes, GroupTypes DEF BaseInv, ReorderedInv
  <2>2. \A g \in Groups : \A v \in 0 .. NumVectors - 1 :
          range[g][1] <= v /\ v < range[g][2] <=> labelSets[v + 1] = groupLabels[g]
    <3> TAKE g \in Groups
    <3> TAKE v \in 0 .. NumVectors - 1
    <3>1. v + 1 \in 1 .. NumVectors BY NumVectorsAssumption
    <3>2. range[g][1] \in Nat /\ range[g][2] \in Nat BY <2>1, PrepareTypes DEF BaseInv
    <3>3. /\ \A i \in range[g][1] + 1 .. range[g][2] : newToGroup[i] = g
          /\ newToGroup[v + 1] \in Groups
          /\ range[newToGroup[v + 1]][1] < v + 1 /\ v + 1 <= range[newToGroup[v + 1]][2]
      BY <2>1, <3>1 DEF BaseInv, PrepareInv
    <3>4. ASSUME range[g][1] <= v, v < range[g][2] PROVE labelSets[v + 1] = groupLabels[g]
      <4>1. v + 1 \in range[g][1] + 1 .. range[g][2] BY <3>2, <3>4
      <4>2. newToGroup[v + 1] = g BY <3>3, <4>1
      <4> QED BY <2>1, <3>1, <4>2
    <3>5. ASSUME labelSets[v + 1] = groupLabels[g] PROVE range[g][1] <= v /\ v < range[g][2]
      <4>1. newToGroup[v + 1] = g BY <2>1, <3>1, <3>3, <3>5, GroupsAreTerminals DEF BaseInv
      <4>2. range[g][1] < v + 1 /\ v + 1 <= range[g][2] BY <3>3, <4>1
      <4> QED BY <3>2, <4>2
    <3> QED BY <3>4, <3>5
  <2> QED BY <2>1, <2>2
<1> QED BY <1>1, BaseInvHolds, PTL

-----------------------------------------------------------------------------
\* What get_min_super_sets finds for a group's labels are the groups next above.
LEMMA NeighboursAreCovers ==
  ASSUME GroupsInv, NEW g \in Groups
  PROVE  {groupId[S] : S \in MinSuperSets(groupLabels[g], TRUE, TRUE)} = Covers(g)
<1> DEFINE Q == groupLabels[g]
           X == SuperSets(Q) \ {Q}
<1>1. /\ \A h \in Groups : groupLabels[h] \in Terminals
      /\ Q \in SUBSET Labels
      /\ \A S \in Terminals : groupId[S] \in Groups /\ groupLabels[groupId[S]] = S
      /\ \A h \in Groups : groupId[groupLabels[h]] = h
      /\ SafetyInv
  BY GroupsAreTerminals DEF GroupsInv
<1>2. MinSuperSets(Q, TRUE, TRUE) = Minimal(X)
  <2> HIDE DEF Q
  <2> QED BY <1>1, ContainmentExact
<1>3. \A h \in Above(g) : groupLabels[h] \in X
  BY <1>1 DEF Above, SuperSets
<1>4. \A S \in X : groupId[S] \in Above(g) /\ groupLabels[groupId[S]] = S
  BY <1>1 DEF Above, SuperSets
<1> HIDE DEF X, Q
<1>5. ASSUME NEW S \in Minimal(X) PROVE groupId[S] \in Covers(g)
  <2>1. S \in X /\ \A H \in X : H \subseteq S => H = S BY <1>5 DEF Minimal
  <2>2. ASSUME NEW k \in Above(g), groupId[S] \in Above(k) PROVE FALSE
    <3>1. groupLabels[k] \in X /\ groupLabels[k] \subseteq S /\ groupId[S] # k
      BY <1>3, <1>4, <2>1, <2>2 DEF Above
    <3>2. groupLabels[k] = S BY <2>1, <3>1
    <3> QED BY <1>1, <3>1, <3>2 DEF Above
  <2> QED BY <1>4, <2>1, <2>2 DEF Covers
<1>6. ASSUME NEW h \in Covers(g) PROVE groupLabels[h] \in Minimal(X) /\ groupId[groupLabels[h]] = h
  <2>1. h \in Above(g) /\ h \in Groups /\ ~\E k \in Above(g) : h \in Above(k) BY DEF Covers, Above
  <2>2. ASSUME NEW H \in X, H \subseteq groupLabels[h], H # groupLabels[h] PROVE FALSE
    <3>1. groupId[H] \in Above(g) /\ groupLabels[groupId[H]] = H BY <1>4
    <3>2. h \in Above(groupId[H]) BY <2>1, <2>2, <3>1 DEF Above
    <3> QED BY <2>1, <3>1, <3>2
  <2> QED BY <1>1, <1>3, <2>1, <2>2 DEF Minimal
<1> QED BY <1>2, <1>5, <1>6 DEF Q

\* what the rest of the phases leave of the label navigating graph
LEMMA GraphFrame ==
  ASSUME Later, ~Navigate
  PROVE  /\ UNCHANGED <<outNbrs, inNbrs>>
         /\ phase' \in {"descend", "cover", "done"} => phase \in {"descend", "cover", "done"}
BY DEF Later, Divided, PrepareGroup, Reorder, DescendFrom, CoverParents, DescendPop,
   Descended, CoverLeaves, InitBitsets, vars, lngVars

LEMMA HasseStep ==
  ASSUME BaseInv, HasseInv, [Next]_vars
  PROVE  HasseInv'
<1>1. CASE Divide
  BY <1>1 DEF Divide, HasseInv
<1>2. CASE Later
  <2>1. UNCHANGED groupLabels /\ UNCHANGED Groups BY <1>2, LaterGroups DEF Groups
  <2>2. \A g : Covers(g)' = Covers(g) BY <2>1 DEF Covers, Above
  <2>3. CASE Navigate
    <3>1. /\ outNbrs' = [g \in Groups |-> {groupId[S] : S \in MinSuperSets(groupLabels[g], TRUE, TRUE)}]
          /\ inNbrs' = [h \in Groups |-> {g \in Groups : h \in outNbrs'[g]}]
      BY <2>3 DEF Navigate
    <3>2. outNbrs' = [g \in Groups |-> Covers(g)] BY <3>1, NeighboursAreCovers DEF BaseInv
    <3> QED BY <2>1, <2>2, <3>1, <3>2 DEF HasseInv
  <2>4. CASE ~Navigate
    BY <1>2, <2>1, <2>2, <2>4, GraphFrame DEF HasseInv
  <2> QED BY <2>3, <2>4
<1> QED BY <1>1, <1>2, NextSplit

\* For every sequence of label sets the label navigating graph has exactly the
\* edges from a group to the groups next above it.
THEOREM GraphIsHasseDiagram == Spec => []IsHasseDiagram
<1>1. Init => BaseInv /\ HasseInv BY BaseInit DEF Init, HasseInv
<1>2. BaseInv /\ HasseInv /\ [Next]_vars => BaseInv' /\ HasseInv'
  BY BaseStep, HasseStep
<1>3. HasseInv => IsHasseDiagram BY DEF HasseInv, IsHasseDiagram, Covers
<1> QED BY <1>1, <1>2, <1>3, PTL DEF Spec

-----------------------------------------------------------------------------
LEMMA AboveIsOrder ==
  ASSUME GroupsInv
  PROVE  /\ \A g \in Groups : g \notin Above(g) /\ Above(g) \subseteq Groups
         /\ \A g \in Groups : \A h \in Above(g) : \A k \in Above(h) : k \in Above(g)
         /\ \A g \in Groups : \A h \in Above(g) : g \notin Above(h)
<1>1. \A g, h \in Groups : groupLabels[g] = groupLabels[h] => g = h
  BY GroupsAreTerminals
<1> QED BY <1>1 DEF Above

LEMMA GroupsFinite ==
  ASSUME GroupsInv
  PROVE  /\ Groups \subseteq Nat /\ NoGroup \notin Groups
         /\ IsFiniteSet(Groups)
         /\ \A S \in SUBSET Groups : IsFiniteSet(S) /\ Cardinality(S) \in Nat
<1>1. Groups = 1 .. Len(groupLabels) /\ Len(groupLabels) \in Nat BY GroupTypes
<1>2. IsFiniteSet(Groups)
  <2> DEFINE n == Len(groupLabels)
  <2>1. 1 \in Int /\ n \in Int BY <1>1
  <2>2. IsFiniteSet(1 .. n)
    <3> HIDE DEF n
    <3> QED BY <2>1, FS_Interval
  <2> QED BY <1>1, <2>2
<1>3. \A S \in SUBSET Groups : IsFiniteSet(S) /\ Cardinality(S) \in Nat
  BY <1>2, FS_Subset, FS_CardinalityType
<1>4. Groups \subseteq Nat /\ 0 \notin Groups
  <2> DEFINE n == Len(groupLabels)
  <2>1. Groups = 1 .. n /\ n \in Nat BY <1>1
  <2> HIDE DEF n
  <2> QED BY <2>1
<1> QED BY <1>2, <1>3, <1>4 DEF NoGroup

\* a group above another has more labels
LEMMA MoreLabels ==
  ASSUME GroupsInv, NEW g \in Groups
  PROVE  /\ Cardinality(groupLabels[g]) \in Nat
         /\ \A h \in Above(g) : /\ h \in Groups /\ Cardinality(groupLabels[h]) \in Nat
                                /\ Cardinality(groupLabels[g]) < Cardinality(groupLabels[h])
<1>1. \A h \in Groups : groupLabels[h] \in SUBSET Labels /\ Cardinality(groupLabels[h]) \in Nat
  BY GroupsAreTerminals, LabelSetFinite
<1>2. ASSUME NEW h \in Above(g) PROVE Cardinality(groupLabels[g]) < Cardinality(groupLabels[h])
  <2>1. h \in Groups /\ groupLabels[g] \in SUBSET groupLabels[h] /\ groupLabels[g] # groupLabels[h]
    BY GroupsAreTerminals DEF Above
  <2> QED BY <1>1, <2>1, SmallerSet
<1> QED BY <1>1, <1>2 DEF Above

\* Between a group and one above it lies a group next above the first.
LEMMA CoverBelow ==
  ASSUME GroupsInv, NEW g \in Groups, NEW h \in Above(g)
  PROVE  \E m \in Covers(g) : m = h \/ h \in Above(m)
<1> DEFINE A == {m \in Above(g) : groupLabels[m] \subseteq groupLabels[h]}
           size == [m \in A |-> Cardinality(groupLabels[m])]
<1>1. A # {} BY DEF Above
<1>2. \A m \in A : size[m] \in Nat BY MoreLabels
<1>3. PICK m \in A : \A n \in A : size[m] <= size[n]
  <2> HIDE DEF A, size
  <2> QED BY <1>1, <1>2, LeastValue
<1>4. ASSUME NEW n \in Above(g), m \in Above(n) PROVE FALSE
  <2>1. n \in Groups /\ n \in A BY <1>4 DEF Above
  <2>2. size[m] <= size[n] BY <1>3, <2>1
  <2>3. Cardinality(groupLabels[n]) < Cardinality(groupLabels[m])
        /\ Cardinality(groupLabels[n]) \in Nat /\ Cardinality(groupLabels[m]) \in Nat
    BY <1>4, <2>1, MoreLabels
  <2>4. Cardinality(groupLabels[m]) <= Cardinality(groupLabels[n]) BY <2>1, <2>2
  <2> QED BY <2>3, <2>4
<1>5. m \in Covers(g) BY <1>4 DEF Covers
<1>6. m = h \/ h \in Above(m) BY DEF Above
<1> QED BY <1>5, <1>6

\* What holds a group and the groups next above all it holds, holds all above.
LEMMA ClosedIsAll ==
  ASSUME GroupsInv, NEW g \in Groups, NEW V \in SUBSET Groups, g \in V,
         \A c \in V : Covers(c) \subseteq V
  PROVE  Above(g) \subseteq V
<1> SUFFICES ASSUME NEW h \in Above(g), h \notin V PROVE FALSE
  OBVIOUS
<1> DEFINE B == {k \in V : h \in Above(k)}
           short == [k \in B |-> Cardinality(groupLabels[h]) - Cardinality(groupLabels[k])]
<1>1. B # {} OBVIOUS
<1>2. \A k \in B : short[k] \in Nat
  <2> TAKE k \in B
  <2>1. /\ Cardinality(groupLabels[k]) \in Nat /\ Cardinality(groupLabels[h]) \in Nat
        /\ Cardinality(groupLabels[k]) < Cardinality(groupLabels[h])
    BY MoreLabels
  <2> QED BY <2>1
<1>3. PICK k \in B : \A n \in B : short[k] <= short[n]
  <2> HIDE DEF B, short
  <2> QED BY <1>1, <1>2, LeastValue
<1>4. PICK m \in Covers(k) : m = h \/ h \in Above(m) BY CoverBelow
<1>5. m \in V /\ m \in B /\ m \in Above(k) BY <1>4 DEF Covers
<1>6. /\ Cardinality(groupLabels[k]) \in Nat /\ Cardinality(groupLabels[h]) \in Nat
      /\ Cardinality(groupLabels[m]) \in Nat
      /\ Cardinality(groupLabels[k]) < Cardinality(groupLabels[m])
  BY <1>5, MoreLabels
<1>7. Cardinality(groupLabels[h]) - Cardinality(groupLabels[k])
        <= Cardinality(groupLabels[h]) - Cardinality(groupLabels[m])
  BY <1>3, <1>5
<1> QED BY <1>6, <1>7

\* The walk from a group: what is found is what is seen or on the stack, what is
\* seen has all its neighbours found, and no group lies under one below it.
WalkInv ==
  LET g == dfs.group
      onStack == {dfs.stack[i] : i \in DOMAIN dfs.stack}
  IN /\ g \in Groups
     /\ onStack \subseteq {g} \union Above(g)
     /\ dfs.visited \subseteq {g} \union Above(g)
     /\ dfs.found \subseteq Above(g)
     /\ g \in dfs.visited \union onStack
     /\ dfs.found \union {g} = dfs.visited \union onStack
     /\ \A c \in dfs.visited : Covers(c) \subseteq dfs.found
     /\ dfs.count = Cardinality(dfs.found)
     /\ \A i, j \in DOMAIN dfs.stack :
          i < j => dfs.stack[i] # dfs.stack[j] /\ dfs.stack[j] \notin Above(dfs.stack[i])

DfsType ==
  dfs \in [group : Nat, stack : Seq(Nat), visited : SUBSET Nat, found : SUBSET Nat, count : Nat]

DescendInv ==
  /\ DfsType
  /\ phase # "descend" => dfs.group = NoGroup
  /\ dfs.group # NoGroup => WalkInv
  /\ phase = "descend" => left \subseteq Groups
  /\ phase \in {"cover", "done"} => left = {}
  /\ phase \in {"descend", "cover", "done"} =>
       /\ descendants \in [Groups -> SUBSET Groups]
       /\ descCount \in [Groups -> Nat]
       /\ \A g \in Groups :
            g \notin left /\ g # dfs.group =>
              descendants[g] = Above(g) /\ descCount[g] = Cardinality(Above(g))

\* Head and tail of the walk's stack.
LEMMA StackParts ==
  ASSUME NEW s \in Seq(Nat), s # <<>>
  PROVE  /\ Head(s) = s[1] /\ Len(s) \in Nat \ {0} /\ DOMAIN s = 1 .. Len(s)
         /\ Tail(s) \in Seq(Nat) /\ Len(Tail(s)) = Len(s) - 1
         /\ DOMAIN Tail(s) = 1 .. Len(s) - 1
         /\ \A i \in 1 .. Len(s) - 1 : Tail(s)[i] = s[i + 1] /\ i + 1 \in DOMAIN s
         /\ {s[i] : i \in DOMAIN s} = {s[1]} \union {Tail(s)[i] : i \in DOMAIN Tail(s)}
<1>1. Len(s) \in Nat \ {0} /\ DOMAIN s = 1 .. Len(s)
  BY EmptySeq, LenProperties
<1>2. Tail(s) \in Seq(Nat) /\ Len(Tail(s)) = Len(s) - 1 /\ \A i \in 1 .. Len(Tail(s)) : Tail(s)[i] = s[i + 1]
  BY HeadTailProperties
<1>3. DOMAIN Tail(s) = 1 .. Len(s) - 1 BY <1>2, LenProperties
<1>4. Head(s) = s[1] BY <1>1
<1> DEFINE n == Len(s)
           t == Tail(s)
<1>5. \A i \in 1 .. n - 1 : t[i] = s[i + 1] /\ i + 1 \in 1 .. n
  BY <1>1, <1>2
<1>6. \A i \in 1 .. n : i = 1 \/ (i - 1 \in 1 .. n - 1 /\ t[i - 1] = s[i])
  BY <1>1, <1>2
<1>7. {s[i] : i \in 1 .. n} = {s[1]} \union {t[i] : i \in 1 .. n - 1}
  <2>1. 1 \in 1 .. n BY <1>1
  <2> HIDE DEF n, t
  <2>2. ASSUME NEW x \in {s[i] : i \in 1 .. n} PROVE x \in {s[1]} \union {t[i] : i \in 1 .. n - 1}
    <3>1. PICK i \in 1 .. n : x = s[i] OBVIOUS
    <3> QED BY <3>1, <1>6
  <2>3. ASSUME NEW x \in {t[i] : i \in 1 .. n - 1} PROVE x \in {s[i] : i \in 1 .. n}
    BY <1>5
  <2> QED BY <2>1, <2>2, <2>3
<1> QED BY <1>1, <1>2, <1>3, <1>4, <1>5, <1>7

LEMMA WalkStart ==
  ASSUME GroupsInv, NEW g \in Groups, DescendFrom(g)
  PROVE  WalkInv' /\ DfsType' /\ dfs'.group = g
<1>1. /\ dfs' = [IdleDfs EXCEPT !.group = g, !.stack = <<g>>]
      /\ UNCHANGED <<groupLabels>>
  BY DEF DescendFrom, divideVars
<1>2. /\ dfs'.group = g /\ dfs'.stack = <<g>> /\ dfs'.visited = {} /\ dfs'.found = {} /\ dfs'.count = 0
      /\ DfsType'
  <2>1. g \in Nat /\ <<g>> \in Seq(Nat) BY GroupsFinite
  <2> QED BY <1>1, <2>1 DEF IdleDfs, NoGroup, DfsType
<1>3. DOMAIN <<g>> = {1} /\ {<<g>>[i] : i \in DOMAIN <<g>>} = {g} OBVIOUS
<1>4. Groups' = Groups BY <1>1 DEF Groups
<1> QED BY <1>2, <1>3, <1>4, FS_EmptySet DEF WalkInv

LEMMA WalkSkip ==
  ASSUME GroupsInv, DfsType, WalkInv, dfs.stack # <<>>, Top \in dfs.visited,
         dfs' = [dfs EXCEPT !.stack = Tail(@)], groupLabels' = groupLabels
  PROVE  WalkInv' /\ DfsType' /\ dfs'.group = dfs.group
<1> DEFINE s == dfs.stack
           t == Tail(s)
<1>1. s \in Seq(Nat) /\ s # <<>> BY DEF DfsType
<1>2. /\ Top = s[1] /\ Len(s) \in Nat \ {0} /\ DOMAIN s = 1 .. Len(s)
      /\ t \in Seq(Nat) /\ DOMAIN t = 1 .. Len(s) - 1
      /\ \A i \in 1 .. Len(s) - 1 : t[i] = s[i + 1] /\ i + 1 \in DOMAIN s
      /\ {s[i] : i \in DOMAIN s} = {s[1]} \union {t[i] : i \in DOMAIN t}
  BY <1>1, StackParts DEF Top
<1>3. /\ dfs'.group = dfs.group /\ dfs'.stack = t /\ dfs'.visited = dfs.visited
      /\ dfs'.found = dfs.found /\ dfs'.count = dfs.count /\ DfsType'
  BY <1>2 DEF DfsType
<1>4. Groups' = Groups /\ (\A g : Above(g)' = Above(g) /\ Covers(g)' = Covers(g))
  BY DEF Groups, Above, Covers
<1> HIDE DEF t
<1>5. \A i, j \in DOMAIN t : i < j => t[i] # t[j] /\ t[j] \notin Above(t[i])
  <2> TAKE i, j \in DOMAIN t
  <2> HAVE i < j
  <2>1. i + 1 \in DOMAIN s /\ j + 1 \in DOMAIN s /\ i + 1 < j + 1 /\ t[i] = s[i + 1] /\ t[j] = s[j + 1]
    <3>1. i \in 1 .. Len(s) - 1 /\ j \in 1 .. Len(s) - 1 BY <1>2
    <3>2. i + 1 < j + 1 BY <1>2, <3>1
    <3> QED BY <1>2, <3>1, <3>2
  <2> QED BY <2>1 DEF WalkInv
<1>6. {s[i] : i \in DOMAIN s} = {Top} \union {t[i] : i \in DOMAIN t} BY <1>2
<1> DEFINE g == dfs.group
           onS == {s[i] : i \in DOMAIN s}
           onT == {t[i] : i \in DOMAIN t}
<1>7. /\ g \in Groups /\ onS \subseteq {g} \union Above(g)
      /\ dfs.visited \subseteq {g} \union Above(g) /\ dfs.found \subseteq Above(g)
      /\ g \in dfs.visited \union onS
      /\ dfs.found \union {g} = dfs.visited \union onS
      /\ \A c \in dfs.visited : Covers(c) \subseteq dfs.found
      /\ dfs.count = Cardinality(dfs.found)
  BY DEF WalkInv
<1>8. onS = {Top} \union onT BY <1>6
<1> HIDE DEF onS
<1>9. /\ onT \subseteq {g} \union Above(g)
      /\ g \in dfs.visited \union onT
      /\ dfs.found \union {g} = dfs.visited \union onT
  <2> HIDE DEF onT
  <2> QED BY <1>7, <1>8
<1>10. Above(dfs.group)' = Above(g)
  BY <1>3 DEF Above, Groups
<1>12. \A i, j \in DOMAIN dfs'.stack : i < j =>
         dfs'.stack[i] # dfs'.stack[j] /\ dfs'.stack[j] \notin Above(dfs.stack[i])'
  <2> TAKE i, j \in DOMAIN dfs'.stack
  <2> HAVE i < j
  <2>1. dfs'.stack[i] = t[i] /\ dfs'.stack[j] = t[j] /\ i \in DOMAIN t /\ j \in DOMAIN t
    BY <1>3, <1>5
  <2>2. t[i] # t[j] /\ t[j] \notin Above(t[i]) BY <1>3, <1>5, <2>1
  <2>3. t[j] \notin Above(dfs.stack[i])' BY <2>1, <2>2 DEF Above, Groups
  <2> QED BY <2>1, <2>2, <2>3
<1>13. {dfs'.stack[i] : i \in DOMAIN dfs'.stack} = onT BY <1>3
<1> HIDE DEF onT
<1>14. WalkInv'
  <2>1. g \in Groups' /\ dfs'.group = g BY <1>3, <1>4, <1>7
  <2>2. \A c \in dfs'.visited : Covers(c)' \subseteq dfs'.found
    BY <1>3, <1>4, <1>7
  <2>3. dfs'.count = Cardinality(dfs'.found) BY <1>3, <1>7
  <2>4. /\ onT \subseteq {g} \union Above(dfs.group)'
        /\ dfs'.visited \subseteq {g} \union Above(dfs.group)'
        /\ dfs'.found \subseteq Above(dfs.group)'
        /\ g \in dfs'.visited \union onT
        /\ dfs'.found \union {g} = dfs'.visited \union onT
    BY <1>3, <1>7, <1>9, <1>10
  <2> QED BY <1>12, <1>13, <2>1, <2>2, <2>3, <2>4 DEF WalkInv
<1> QED BY <1>3, <1>14

LEMMA WalkPush ==
  ASSUME GroupsInv, DfsType, WalkInv, outNbrs = [h \in Groups |-> Covers(h)],
         dfs.stack # <<>>, Top \notin dfs.visited, NEW order \in Orderings(Fresh),
         dfs' = [dfs EXCEPT !.stack = order \o Tail(@),
                            !.visited = @ \union {Top},
                            !.found = @ \union Fresh,
                            !.count = @ + Cardinality(Fresh)],
         groupLabels' = groupLabels
  PROVE  WalkInv' /\ DfsType' /\ dfs'.group = dfs.group
<1> DEFINE s == dfs.stack
           t == Tail(s)
           m == Len(s) - 1
           k == Cardinality(Fresh)
           new == order \o t
           g == dfs.group
           onS == {s[i] : i \in DOMAIN s}
           onT == {t[i] : i \in DOMAIN t}
           onN == {new[i] : i \in DOMAIN new}
<1>1. s \in Seq(Nat) /\ s # <<>> BY DEF DfsType
<1>2. /\ Top = s[1] /\ DOMAIN s = 1 .. Len(s) /\ m \in Nat /\ 1 \in DOMAIN s
      /\ t \in Seq(Nat) /\ DOMAIN t = 1 .. m /\ Len(t) = m
      /\ \A i \in 1 .. m : t[i] = s[i + 1] /\ i + 1 \in DOMAIN s
      /\ onS = {Top} \union onT
  <2>1. /\ Head(s) = s[1] /\ Len(s) \in Nat \ {0} /\ DOMAIN s = 1 .. Len(s)
        /\ t \in Seq(Nat) /\ Len(t) = Len(s) - 1
        /\ DOMAIN t = 1 .. Len(s) - 1
        /\ \A i \in 1 .. Len(s) - 1 : t[i] = s[i + 1] /\ i + 1 \in DOMAIN s
        /\ onS = {s[1]} \union onT
    BY <1>1, StackParts
  <2>2. m \in Nat /\ 1 \in DOMAIN s BY <2>1
  <2>3. Top = s[1] BY <2>1 DEF Top
  <2> QED BY <2>1, <2>2, <2>3
<1>3. /\ g \in Groups /\ onS \subseteq {g} \union Above(g)
      /\ dfs.visited \subseteq {g} \union Above(g) /\ dfs.found \subseteq Above(g)
      /\ g \in dfs.visited \union onS
      /\ dfs.found \union {g} = dfs.visited \union onS
      /\ \A c \in dfs.visited : Covers(c) \subseteq dfs.found
      /\ dfs.count = Cardinality(dfs.found)
      /\ \A i, j \in DOMAIN s : i < j => s[i] # s[j] /\ s[j] \notin Above(s[i])
  BY DEF WalkInv
<1> HIDE DEF s, t, m, k, onS, onT
<1>4. Top \in {g} \union Above(g) /\ Top \in Groups /\ Above(g) \subseteq Groups
  BY <1>2, <1>3, AboveIsOrder
<1>5. Fresh = {c \in Covers(Top) : c \notin dfs.visited} /\ Fresh \subseteq Covers(Top)
      /\ Fresh \subseteq Above(Top)
  <2>1. outNbrs[Top] = Covers(Top) BY <1>4
  <2>2. Covers(Top) \subseteq Above(Top) /\ Top \notin Above(Top) BY <1>4, AboveIsOrder DEF Covers
  <2> QED BY <2>1, <2>2 DEF Fresh
<1>6. Fresh \subseteq Above(g) /\ Fresh \subseteq Groups
  BY <1>3, <1>4, <1>5, AboveIsOrder
<1>7. /\ IsFiniteSet(Fresh) /\ k \in Nat
      /\ IsFiniteSet(dfs.found) /\ Cardinality(dfs.found) \in Nat
  BY <1>3, <1>4, <1>6, GroupsFinite DEF k
<1>8. /\ order \in [1 .. k -> Fresh]
      /\ \A i, j \in 1 .. k : order[i] = order[j] => i = j
      /\ \A c \in Fresh : \E i \in 1 .. k : order[i] = c
  BY DEF Orderings, Bijection, Injection, IsInjective, Surjection, k
<1>9. order \in Seq(Nat) /\ Len(order) = k
  <2>1. order \in [1 .. k -> Nat] BY <1>6, <1>8, GroupsFinite
  <2>2. order \in Seq(Nat) BY <1>7, <2>1, SeqDef
  <2>3. DOMAIN order = 1 .. k BY <1>8
  <2> QED BY <1>7, <2>2, <2>3, SeqLength
<1>10. /\ new \in Seq(Nat) /\ DOMAIN new = 1 .. k + m
       /\ \A i \in 1 .. k : new[i] = order[i]
       /\ \A i \in k + 1 .. k + m : new[i] = t[i - k] /\ i - k \in 1 .. m
  <2>1. /\ new \in Seq(Nat) /\ Len(new) = k + m
        /\ \A i \in 1 .. k + m : new[i] = IF i <= k THEN order[i] ELSE t[i - k]
    <3>1. /\ new \in Seq(Nat) /\ Len(new) = Len(order) + Len(t)
          /\ \A i \in 1 .. Len(order) + Len(t) :
               new[i] = IF i <= Len(order) THEN order[i] ELSE t[i - Len(order)]
      <4> HIDE DEF new
      <4>1. new = order \o t BY DEF new
      <4>2. order \in Seq(Nat) /\ t \in Seq(Nat) BY <1>2, <1>9
      <4>3. /\ order \o t \in Seq(Nat) /\ Len(order \o t) = Len(order) + Len(t)
            /\ \A i \in 1 .. Len(order) + Len(t) :
                 (order \o t)[i] = IF i <= Len(order) THEN order[i] ELSE t[i - Len(order)]
        BY <4>2, ConcatProperties
      <4> QED BY <4>1, <4>3
    <3>2. Len(order) = k /\ Len(t) = m BY <1>2, <1>9
    <3> HIDE DEF new
    <3> QED BY <3>1, <3>2
  <2>2. \A i \in 1 .. k : i \in 1 .. k + m /\ i <= k BY <1>2, <1>7
  <2>3. \A i \in k + 1 .. k + m : i \in 1 .. k + m /\ ~(i <= k) /\ i - k \in 1 .. m BY <1>2, <1>7
  <2>4. DOMAIN new = 1 .. k + m BY <2>1, LenProperties
  <2> QED BY <2>1, <2>2, <2>3, <2>4
<1> HIDE DEF new
<1>11. \A i \in DOMAIN new : i \in 1 .. k \/ i \in k + 1 .. k + m
  BY <1>2, <1>7, <1>10
<1>12. onN = Fresh \union onT
  <2>1. ASSUME NEW c \in Fresh PROVE c \in onN
    <3>1. PICK i \in 1 .. k : order[i] = c BY <1>8
    <3>2. i \in DOMAIN new BY <1>2, <1>7, <1>10
    <3> QED BY <1>10, <3>1, <3>2
  <2>2. ASSUME NEW c \in onT PROVE c \in onN
    <3>1. PICK i \in 1 .. m : t[i] = c BY <1>2 DEF onT
    <3>2. i + k \in k + 1 .. k + m /\ i + k \in DOMAIN new /\ (i + k) - k = i
      <4>1. k \in Nat /\ m \in Nat BY <1>2, <1>7
      <4>2. DOMAIN new = 1 .. k + m BY <1>10
      <4> QED BY <4>1, <4>2
    <3>3. new[i + k] = c BY <1>10, <3>1, <3>2
    <3> QED BY <3>2, <3>3
  <2>3. ASSUME NEW i \in DOMAIN new PROVE new[i] \in Fresh \union onT
    <3>1. CASE i \in 1 .. k BY <1>8, <1>10, <3>1
    <3>2. CASE i \in k + 1 .. k + m BY <1>2, <1>10, <3>2 DEF onT
    <3> QED BY <1>11, <3>1, <3>2
  <2> QED BY <2>1, <2>2, <2>3
<1>13. \A i \in 1 .. m : t[i] # Top /\ t[i] \notin Above(Top)
  <2> TAKE i \in 1 .. m
  <2>1. i + 1 \in DOMAIN s /\ 1 < i + 1 /\ t[i] = s[i + 1] BY <1>2
  <2> QED BY <1>2, <1>3, <2>1
<1>14. Fresh \cap dfs.found = {}
  <2> SUFFICES ASSUME NEW c \in Fresh, c \in dfs.found PROVE FALSE OBVIOUS
  <2>1. c \in onS BY <1>3, <1>5
  <2>2. c # Top BY <1>4, <1>5, AboveIsOrder
  <2>3. PICK i \in 1 .. m : c = t[i] BY <1>2, <2>1, <2>2 DEF onT
  <2> QED BY <1>5, <1>13, <2>3
<1>15. \A i, j \in DOMAIN new : i < j => new[i] # new[j] /\ new[j] \notin Above(new[i])
  <2> TAKE i, j \in DOMAIN new
  <2> HAVE i < j
  <2>1. CASE i \in 1 .. k /\ j \in 1 .. k
    <3>1. new[i] = order[i] /\ new[j] = order[j] /\ i # j BY <1>2, <1>7, <1>10, <2>1
    <3>2. order[i] \in Covers(Top) /\ order[j] \in Covers(Top) BY <1>5, <1>8, <2>1
    <3>3. order[j] \notin Above(order[i]) BY <3>2 DEF Covers
    <3> QED BY <1>8, <2>1, <3>1, <3>3
  <2>2. CASE i \in 1 .. k /\ j \in k + 1 .. k + m
    <3>1. new[i] \in Above(Top) BY <1>5, <1>8, <1>10, <2>2
    <3>2. new[j] = t[j - k] /\ j - k \in 1 .. m BY <1>10, <2>2
    <3>3. new[j] \notin Above(Top) BY <1>13, <3>2
    <3>4. new[j] \notin Above(new[i]) BY <1>4, <3>1, <3>3, AboveIsOrder
    <3> QED BY <3>1, <3>3, <3>4
  <2>3. CASE i \in k + 1 .. k + m /\ j \in k + 1 .. k + m
    <3>1. new[i] = t[i - k] /\ i - k \in 1 .. m /\ new[j] = t[j - k] /\ j - k \in 1 .. m
      BY <1>10, <2>3
    <3>2. /\ (i - k) + 1 \in DOMAIN s /\ (j - k) + 1 \in DOMAIN s
          /\ new[i] = s[(i - k) + 1] /\ new[j] = s[(j - k) + 1]
      BY <1>2, <3>1
    <3>3. (i - k) + 1 < (j - k) + 1 BY <1>2, <1>7, <2>3
    <3> QED BY <1>3, <3>2, <3>3
  <2>4. ~(i \in k + 1 .. k + m /\ j \in 1 .. k) BY <1>2, <1>7
  <2> QED BY <1>11, <2>1, <2>2, <2>3, <2>4
<1>16. dfs.count + k = Cardinality(dfs.found \union Fresh)
  <2>1. Cardinality(dfs.found \union Fresh)
          = Cardinality(dfs.found) + Cardinality(Fresh) - Cardinality(dfs.found \cap Fresh)
    BY <1>7, FS_Union
  <2>2. Cardinality(dfs.found \cap Fresh) = 0
    <3>1. dfs.found \cap Fresh = {} BY <1>14
    <3> QED BY <3>1, FS_EmptySet
  <2> QED BY <1>3, <1>7, <2>1, <2>2 DEF k
<1>17. /\ dfs'.group = g /\ dfs'.stack = new /\ dfs'.visited = dfs.visited \union {Top}
       /\ dfs'.found = dfs.found \union Fresh /\ dfs'.count = dfs.count + k
       /\ DfsType'
  <2>1. dfs' = [dfs EXCEPT !.stack = new, !.visited = dfs.visited \union {Top},
                           !.found = dfs.found \union Fresh, !.count = dfs.count + k]
    BY DEF new, t, s, k, DfsType
  <2>2. Top \in Nat /\ Fresh \subseteq Nat BY <1>4, <1>6, GroupsFinite
  <2>3. dfs.count \in Nat /\ dfs.count + k \in Nat BY <1>7 DEF DfsType
  <2>4. dfs.group \in Nat /\ dfs.visited \subseteq Nat /\ dfs.found \subseteq Nat BY DEF DfsType
  <2>5. /\ dfs'.group = g /\ dfs'.stack = new /\ dfs'.visited = dfs.visited \union {Top}
        /\ dfs'.found = dfs.found \union Fresh /\ dfs'.count = dfs.count + k
    BY <2>1 DEF DfsType
  <2>6. dfs' = [group |-> g, stack |-> new, visited |-> dfs.visited \union {Top},
                found |-> dfs.found \union Fresh, count |-> dfs.count + k]
    BY <2>1 DEF DfsType
  <2>7. DfsType' BY <1>10, <2>2, <2>3, <2>4, <2>6 DEF DfsType
  <2> QED BY <2>5, <2>7
<1>18. Groups' = Groups /\ (\A h : Above(h)' = Above(h) /\ Covers(h)' = Covers(h))
  BY DEF Groups, Above, Covers
<1>19. /\ onN \subseteq {g} \union Above(g)
       /\ dfs.visited \union {Top} \subseteq {g} \union Above(g)
       /\ dfs.found \union Fresh \subseteq Above(g)
       /\ g \in (dfs.visited \union {Top}) \union onN
       /\ (dfs.found \union Fresh) \union {g} = (dfs.visited \union {Top}) \union onN
  <2> HIDE DEF onN
  <2> QED BY <1>2, <1>3, <1>4, <1>6, <1>12
<1>20. \A c \in dfs.visited \union {Top} : Covers(c) \subseteq dfs.found \union Fresh
  <2>1. Covers(Top) \subseteq dfs.found \union Fresh
    <3> SUFFICES ASSUME NEW c \in Covers(Top), c \notin Fresh PROVE c \in dfs.found OBVIOUS
    <3>1. c \in dfs.visited BY <1>5
    <3>2. c # g
      <4>1. c \in Above(Top) BY DEF Covers
      <4> QED BY <1>3, <1>4, <4>1, AboveIsOrder
    <3> QED BY <1>3, <3>1, <3>2
  <2> QED BY <1>3, <2>1
<1> HIDE DEF g
<1>21. dfs'.group = dfs.group /\ g = dfs.group BY <1>17 DEF g
<1>22. Above(dfs.group)' = Above(g)
  BY <1>21 DEF Above, Groups
<1>24. \A i, j \in DOMAIN dfs'.stack : i < j =>
         dfs'.stack[i] # dfs'.stack[j] /\ dfs'.stack[j] \notin Above(dfs.stack[i])'
  <2> TAKE i, j \in DOMAIN dfs'.stack
  <2> HAVE i < j
  <2>1. dfs'.stack[i] = new[i] /\ dfs'.stack[j] = new[j] /\ i \in DOMAIN new /\ j \in DOMAIN new
    BY <1>15, <1>17
  <2>2. new[i] # new[j] /\ new[j] \notin Above(new[i]) BY <1>15, <1>17, <2>1
  <2>3. new[j] \notin Above(dfs.stack[i])' BY <2>1, <2>2 DEF Above, Groups
  <2> QED BY <2>1, <2>2, <2>3
<1>25. {dfs'.stack[i] : i \in DOMAIN dfs'.stack} = onN BY <1>17
<1> HIDE DEF onN
<1>26. WalkInv'
  <2>1. g \in Groups' BY <1>3, <1>18
  <2>2. \A c \in dfs'.visited : Covers(c)' \subseteq dfs'.found
    BY <1>17, <1>18, <1>20
  <2>3. dfs'.count = Cardinality(dfs'.found) BY <1>16, <1>17
  <2>4. /\ onN \subseteq {g} \union Above(dfs.group)'
        /\ dfs'.visited \subseteq {g} \union Above(dfs.group)'
        /\ dfs'.found \subseteq Above(dfs.group)'
        /\ g \in dfs'.visited \union onN
        /\ dfs'.found \union {g} = dfs'.visited \union onN
    BY <1>17, <1>19, <1>22
  <2>5. dfs'.group = g BY <1>21
  <2> QED BY <1>24, <1>25, <2>1, <2>2, <2>3, <2>4, <2>5 DEF WalkInv
<1> QED BY <1>17, <1>21, <1>26

\* the actions that leave the descendants, the walk and its groups alone
LEMMA DescendFrame ==
  ASSUME Later, ~Navigate, ~DescendPop, ~Descended, \A g \in Groups : ~DescendFrom(g)
  PROVE  /\ UNCHANGED <<dfs, descendants, descCount, left, groupLabels>>
         /\ \/ phase' = phase
            \/ phase \notin {"descend", "cover", "done"} /\ phase' \notin {"descend", "cover", "done"}
            \/ phase = "descend" /\ phase' = "cover" /\ left = {} /\ dfs.group = NoGroup
            \/ phase = "cover" /\ phase' = "done"
BY DEF Later, Divided, PrepareGroup, Reorder, CoverParents, CoverLeaves, InitBitsets,
   vars, divideVars, descVars

LEMMA DescendStep ==
  ASSUME BaseInv, HasseInv, DescendInv, [Next]_vars
  PROVE  DescendInv'
<1>1. CASE Divide
  <2>1. phase = "divide" /\ phase' = "divide" /\ dfs' = dfs BY <1>1 DEF Divide, descVars
  <2>2. dfs.group = NoGroup BY <2>1 DEF DescendInv
  <2> QED BY <2>1, <2>2 DEF DescendInv, DfsType
<1>2. CASE Later
  <2>0. /\ GroupsInv /\ groupLabels' = groupLabels /\ Groups' = Groups
        /\ \A g : Above(g)' = Above(g)
        /\ dfs.group # NoGroup => phase = "descend"
    BY <1>2, LaterGroups DEF BaseInv, Groups, Above, DescendInv
  <2>1. CASE Navigate
    <3>1. /\ phase = "navigate" /\ phase' = "descend" /\ left' = Groups /\ dfs' = dfs
          /\ descendants' = [g \in Groups |-> {}] /\ descCount' = [g \in Groups |-> 0]
      BY <2>1 DEF Navigate
    <3>2. dfs.group = NoGroup BY <3>1 DEF DescendInv
    <3> QED BY <2>0, <3>1, <3>2 DEF DescendInv, DfsType
  <2>2. ASSUME NEW g \in Groups, DescendFrom(g) PROVE DescendInv'
    <3>1. WalkInv' /\ DfsType' /\ dfs'.group = g BY <2>0, <2>2, WalkStart
    <3>2. /\ phase = "descend" /\ phase' = phase /\ left' = left \ {g} /\ dfs.group = NoGroup
          /\ UNCHANGED <<descendants, descCount>>
      BY <2>2 DEF DescendFrom
    <3>3. NoGroup \notin Groups BY <2>0, GroupsFinite
    <3> QED BY <2>0, <3>1, <3>2, <3>3 DEF DescendInv
  <2>3. CASE DescendPop
    <3>1. /\ phase = "descend" /\ phase' = phase /\ UNCHANGED <<descendants, descCount, left>>
          /\ dfs.group # NoGroup /\ dfs.stack # <<>>
          /\ outNbrs = [h \in Groups |-> Covers(h)]
      BY <2>3 DEF DescendPop, HasseInv
    <3>2. DfsType /\ WalkInv BY <3>1 DEF DescendInv
    <3>3. WalkInv' /\ DfsType' /\ dfs'.group = dfs.group
      <4>1. CASE Top \in dfs.visited
        BY <2>0, <2>3, <3>1, <3>2, <4>1, WalkSkip DEF DescendPop
      <4>2. CASE Top \notin dfs.visited
        <5>1. PICK order \in Orderings(Fresh) :
                dfs' = [dfs EXCEPT !.stack = order \o Tail(@),
                                   !.visited = @ \union {Top},
                                   !.found = @ \union Fresh,
                                   !.count = @ + Cardinality(Fresh)]
          BY <2>3, <4>2 DEF DescendPop
        <5> QED BY <2>0, <3>1, <3>2, <4>2, <5>1, WalkPush
      <4> QED BY <4>1, <4>2
    <3> QED BY <2>0, <3>1, <3>3 DEF DescendInv
  <2>4. CASE Descended
    <3>1. /\ phase = "descend" /\ phase' = phase /\ UNCHANGED left /\ dfs' = IdleDfs
          /\ dfs.group # NoGroup /\ dfs.stack = <<>>
          /\ descendants' = [descendants EXCEPT ![dfs.group] = dfs.found]
          /\ descCount' = [descCount EXCEPT ![dfs.group] = dfs.count]
      BY <2>4 DEF Descended
    <3> DEFINE g == dfs.group
    <3>2. /\ g \in Groups /\ dfs.found \subseteq Above(g)
          /\ dfs.visited \subseteq {g} \union Above(g)
          /\ g \in dfs.visited /\ dfs.found \union {g} = dfs.visited
          /\ \A c \in dfs.visited : Covers(c) \subseteq dfs.found
          /\ dfs.count = Cardinality(dfs.found)
      <4>1. {dfs.stack[i] : i \in DOMAIN dfs.stack} = {} BY <3>1
      <4> QED BY <3>1, <4>1 DEF DescendInv, WalkInv
    <3> HIDE DEF g
    <3>3. Above(g) \subseteq Groups /\ g \notin Above(g) BY <2>0, <3>2, AboveIsOrder
    <3>4. Above(g) \subseteq dfs.visited
      <4>1. dfs.visited \in SUBSET Groups BY <3>2, <3>3
      <4>2. \A c \in dfs.visited : Covers(c) \subseteq dfs.visited BY <3>2
      <4> QED BY <2>0, <3>2, <4>1, <4>2, ClosedIsAll
    <3>5. dfs.found = Above(g) BY <3>2, <3>3, <3>4
    <3>6. Cardinality(Above(g)) \in Nat BY <2>0, <3>3, GroupsFinite
    <3>7. /\ descendants' \in [Groups -> SUBSET Groups] /\ descCount' \in [Groups -> Nat]
          /\ descendants'[g] = Above(g) /\ descCount'[g] = Cardinality(Above(g))
          /\ \A h \in Groups : h # g => descendants'[h] = descendants[h] /\ descCount'[h] = descCount[h]
      BY <3>1, <3>2, <3>3, <3>5, <3>6 DEF DescendInv, g
    <3>8. dfs'.group = NoGroup /\ DfsType' BY <3>1 DEF IdleDfs, NoGroup, DfsType
    <3>9. \A h \in Groups : h \notin left =>
            descendants'[h] = Above(h) /\ descCount'[h] = Cardinality(Above(h))
      BY <3>1, <3>7 DEF DescendInv, g
    <3> QED BY <2>0, <3>1, <3>7, <3>8, <3>9 DEF DescendInv
  <2>5. CASE ~Navigate /\ ~DescendPop /\ ~Descended /\ \A g \in Groups : ~DescendFrom(g)
    <3>1. /\ UNCHANGED <<dfs, descendants, descCount, left>>
          /\ \/ phase' = phase
             \/ phase \notin {"descend", "cover", "done"} /\ phase' \notin {"descend", "cover", "done"}
             \/ phase = "descend" /\ phase' = "cover" /\ left = {} /\ dfs.group = NoGroup
             \/ phase = "cover" /\ phase' = "done"
      BY <1>2, <2>5, DescendFrame
    <3>2. DfsType' BY <3>1 DEF DescendInv, DfsType
    <3>3. dfs'.group # NoGroup => WalkInv'
      <4>1. WalkInv => WalkInv' BY <2>0, <3>1 DEF WalkInv, Above, Covers
      <4> QED BY <3>1, <4>1 DEF DescendInv
    <3> QED BY <2>0, <3>1, <3>2, <3>3 DEF DescendInv
  <2> QED BY <2>1, <2>2, <2>3, <2>4, <2>5
<1> QED BY <1>1, <1>2, NextSplit

LEMMA DescendInit == Init => DescendInv
BY DEF Init, DescendInv, DfsType, IdleDfs, NoGroup

GraphInv == BaseInv /\ HasseInv /\ DescendInv

LEMMA GraphInvHolds == Spec => []GraphInv
<1>1. Init => GraphInv BY BaseInit, DescendInit DEF Init, HasseInv, GraphInv
<1>2. GraphInv /\ [Next]_vars => GraphInv'
  BY BaseStep, HasseStep, DescendStep DEF GraphInv
<1> QED BY <1>1, <1>2, PTL DEF Spec

\* For every sequence of label sets and every order the unseen children are
\* pushed in: the walk finds all super sets of a group and counts each once.
THEOREM DescendantsAreSuperSets == Spec => []DescendantsExact
<1>1. GraphInv => DescendantsExact
  <2> SUFFICES ASSUME GraphInv, phase \in {"cover", "done"}, NEW g \in Groups
               PROVE  descendants[g] = Above(g) /\ descCount[g] = Cardinality(Above(g))
    BY DEF DescendantsExact
  <2>1. left = {} /\ dfs.group = NoGroup /\ NoGroup \notin Groups
    BY GroupsFinite DEF GraphInv, BaseInv, DescendInv
  <2> QED BY <2>1 DEF GraphInv, DescendInv
<1> QED BY <1>1, GraphInvHolds, PTL

-----------------------------------------------------------------------------
\* the vectors of a group and of the groups above it
Full(g) == UNION {Range(groupVecs[h]) : h \in {g} \union Above(g)}

\* the groups that have left the queue
Passed == {g \in Groups : outDegree[g] = 0 /\ g \notin ready}

CoverInv ==
  /\ phase = "cover" =>
       /\ ready \subseteq Groups
       /\ \A g \in ready : outDegree[g] = 0
       /\ \A g \in Groups : outDegree[g] = Cardinality(Covers(g) \ Passed)
       /\ \A g \in Groups :
            covered[g] = Range(groupVecs[g]) \union UNION {Full(h) : h \in Covers(g) \cap Passed}
  /\ phase = "done" => \A g \in Groups : covBits[g] = Full(g)

LEMMA CoversFinite ==
  ASSUME GroupsInv, NEW g \in Groups
  PROVE  /\ Covers(g) \subseteq Above(g) /\ Covers(g) \subseteq Groups /\ g \notin Covers(g)
         /\ \A S : IsFiniteSet(Covers(g) \ S) /\ Cardinality(Covers(g) \ S) \in Nat
                   /\ (Cardinality(Covers(g) \ S) = 0 <=> Covers(g) \subseteq S)
<1>1. Covers(g) \subseteq Above(g) /\ Covers(g) \subseteq Groups /\ g \notin Covers(g)
  BY AboveIsOrder DEF Covers
<1>2. ASSUME NEW S
      PROVE  IsFiniteSet(Covers(g) \ S) /\ Cardinality(Covers(g) \ S) \in Nat
             /\ (Cardinality(Covers(g) \ S) = 0 <=> Covers(g) \subseteq S)
  <2>1. Covers(g) \ S \in SUBSET Groups BY <1>1
  <2>2. IsFiniteSet(Covers(g) \ S) /\ Cardinality(Covers(g) \ S) \in Nat BY <2>1, GroupsFinite
  <2>3. Cardinality(Covers(g) \ S) = 0 <=> Covers(g) \ S = {} BY <2>2, FS_EmptySet
  <2> QED BY <2>2, <2>3
<1> QED BY <1>1, <1>2

\* All above a group are the groups next above it and all above those.
LEMMA FullByCovers ==
  ASSUME GroupsInv, NEW g \in Groups
  PROVE  Full(g) = Range(groupVecs[g]) \union UNION {Full(h) : h \in Covers(g)}
<1>1. ASSUME NEW x \in Full(g)
      PROVE  x \in Range(groupVecs[g]) \union UNION {Full(h) : h \in Covers(g)}
  <2>1. PICK h \in {g} \union Above(g) : x \in Range(groupVecs[h]) BY DEF Full
  <2>2. CASE h \in Above(g)
    <3>1. PICK m \in Covers(g) : m = h \/ h \in Above(m) BY <2>2, CoverBelow
    <3>2. x \in Full(m) BY <2>1, <3>1 DEF Full
    <3> QED BY <3>1, <3>2
  <2> QED BY <2>1, <2>2
<1>2. ASSUME NEW h \in Covers(g), NEW x \in Full(h) PROVE x \in Full(g)
  <2>1. h \in Above(g) /\ \A k \in Above(h) : k \in Above(g)
    BY CoversFinite, AboveIsOrder
  <2> QED BY <2>1 DEF Full
<1>3. Range(groupVecs[g]) \subseteq Full(g) BY DEF Full
<1> QED BY <1>1, <1>2, <1>3

LEMMA CoverFrame ==
  ASSUME Later, ~CoverLeaves, ~InitBitsets, \A g \in Groups : ~CoverParents(g)
  PROVE  /\ phase' \notin {"cover"} \/ phase' = phase
         /\ phase' = "done" => phase = "done"
         /\ UNCHANGED <<ready, outDegree, covered, covBits, groupLabels, groupVecs>>
BY DEF Later, Divided, PrepareGroup, Reorder, Navigate, DescendFrom, DescendPop, Descended,
   vars, divideVars, covVars, bitVars

LEMMA CoverStart ==
  ASSUME GroupsInv, HasseInv, CoverLeaves, groupLabels' = groupLabels, groupVecs' = groupVecs
  PROVE  CoverInv'
<1>1. /\ phase = "descend" /\ phase' = "cover"
      /\ covered' = [g \in Groups |-> Range(groupVecs[g])]
      /\ outDegree' = [g \in Groups |-> Cardinality(outNbrs[g])]
      /\ ready' = {g \in Groups : outNbrs[g] = {}}
  BY DEF CoverLeaves
<1>2. outNbrs = [g \in Groups |-> Covers(g)] BY <1>1 DEF HasseInv
<1>3. /\ Groups' = Groups /\ \A g : Covers(g)' = Covers(g) /\ Full(g)' = Full(g)
  BY DEF Groups, Covers, Above, Full
<1>4. \A g \in Groups : outDegree'[g] = Cardinality(Covers(g)) /\ (outDegree'[g] = 0 <=> Covers(g) = {})
  <2> TAKE g \in Groups
  <2>1. Covers(g) \ {} = Covers(g) OBVIOUS
  <2>2. Cardinality(Covers(g)) = 0 <=> Covers(g) \subseteq {} BY <2>1, CoversFinite
  <2> QED BY <1>1, <1>2, <2>2
<1>5. \A g \in Groups : g \in ready' <=> Covers(g) = {} BY <1>1, <1>2
<1>6. Passed' = {} BY <1>3, <1>4, <1>5 DEF Passed
<1>7. \A g \in Groups : outDegree'[g] = Cardinality(Covers(g) \ {})
  <2>1. \A g : Covers(g) \ {} = Covers(g) OBVIOUS
  <2> QED BY <1>4, <2>1
<1>8. \A g \in Groups :
        covered'[g] = Range(groupVecs[g]) \union UNION {Full(h) : h \in Covers(g) \cap {}}
  BY <1>1
<1>9. ready' \subseteq Groups /\ \A g \in ready' : outDegree'[g] = 0 BY <1>1, <1>4, <1>5
<1> QED BY <1>1, <1>3, <1>6, <1>7, <1>8, <1>9 DEF CoverInv

LEMMA CoverPass ==
  ASSUME GroupsInv, HasseInv, CoverInv, NEW g \in Groups, CoverParents(g),
         groupLabels' = groupLabels, groupVecs' = groupVecs
  PROVE  CoverInv'
<1>1. /\ phase = "cover" /\ phase' = "cover" /\ g \in ready
      /\ covered' = [h \in Groups |-> covered[h] \union (IF h \in inNbrs[g] THEN covered[g] ELSE {})]
      /\ outDegree' = [h \in Groups |-> IF h \in inNbrs[g] THEN outDegree[h] - 1 ELSE outDegree[h]]
      /\ ready' = (ready \ {g}) \union Completed(g)
  BY DEF CoverParents
<1>2. /\ ready \subseteq Groups
      /\ \A h \in ready : outDegree[h] = 0
      /\ \A h \in Groups : outDegree[h] = Cardinality(Covers(h) \ Passed)
      /\ \A h \in Groups :
           covered[h] = Range(groupVecs[h]) \union UNION {Full(k) : k \in Covers(h) \cap Passed}
  BY <1>1 DEF CoverInv
<1>3. \A h \in Groups : h \in inNbrs[g] <=> g \in Covers(h)
  BY <1>1 DEF HasseInv
<1>4. /\ Groups' = Groups /\ \A h : Covers(h)' = Covers(h) /\ Full(h)' = Full(h)
  BY DEF Groups, Covers, Above, Full
<1>5. g \notin Passed /\ outDegree[g] = 0 BY <1>1, <1>2 DEF Passed
<1>6. covered[g] = Full(g)
  <2>1. Covers(g) \subseteq Passed BY <1>2, <1>5, CoversFinite
  <2>2. Covers(g) \cap Passed = Covers(g) BY <2>1
  <2> QED BY <1>2, <2>2, FullByCovers
<1>7. \A h \in Groups : g \in Covers(h) =>
        /\ outDegree[h] \in Nat \ {0}
        /\ outDegree[h] - 1 = Cardinality(Covers(h) \ (Passed \union {g}))
  <2> TAKE h \in Groups
  <2> HAVE g \in Covers(h)
  <2> DEFINE S == Covers(h) \ Passed
  <2>1. IsFiniteSet(S) /\ g \in S /\ Cardinality(S) \in Nat /\ Cardinality(S) # 0
    BY <1>5, CoversFinite
  <2>2. Cardinality(S \ {g}) = Cardinality(S) - 1 BY <2>1, FS_RemoveElement
  <2>3. S \ {g} = Covers(h) \ (Passed \union {g}) OBVIOUS
  <2> QED BY <1>2, <2>1, <2>2, <2>3
<1>8. Completed(g) = {h \in Groups : g \in Covers(h) /\ outDegree[h] = 1}
  <2>1. inNbrs[g] \subseteq Groups BY <1>1 DEF HasseInv
  <2> QED BY <1>3, <2>1 DEF Completed
<1>9. Passed' = Passed \union {g}
  <2>1. ASSUME NEW h \in Groups PROVE h \in Passed' <=> h \in Passed \/ h = g
    <3>1. CASE h = g
      <4>1. g \notin Covers(g) BY CoversFinite
      <4> QED BY <1>1, <1>3, <1>4, <1>5, <1>8, <3>1, <4>1 DEF Passed
    <3>2. CASE h # g /\ g \in Covers(h)
      <4>1. outDegree'[h] = outDegree[h] - 1 /\ outDegree[h] \in Nat \ {0} BY <1>1, <1>3, <1>7, <3>2
      <4>2. outDegree'[h] = 0 => h \in ready' BY <1>1, <1>8, <3>2, <4>1
      <4> QED BY <3>2, <4>1, <4>2 DEF Passed
    <3>3. CASE h # g /\ g \notin Covers(h)
      <4>1. outDegree'[h] = outDegree[h] /\ (h \in ready' <=> h \in ready) BY <1>1, <1>3, <1>8, <3>3
      <4> QED BY <1>4, <3>3, <4>1 DEF Passed
    <3> QED BY <3>1, <3>2, <3>3
  <2>2. Passed' \subseteq Groups /\ Passed \subseteq Groups BY <1>4 DEF Passed
  <2> QED BY <2>1, <2>2
<1>10. \A h \in Groups : outDegree'[h] = Cardinality(Covers(h) \ (Passed \union {g}))
  <2> TAKE h \in Groups
  <2>1. CASE g \in Covers(h) BY <1>1, <1>3, <1>7, <2>1
  <2>2. CASE g \notin Covers(h)
    <3>1. Covers(h) \ (Passed \union {g}) = Covers(h) \ Passed BY <2>2
    <3> QED BY <1>1, <1>2, <1>3, <2>2, <3>1
  <2> QED BY <2>1, <2>2
<1>11. \A h \in Groups :
         covered'[h] = Range(groupVecs[h]) \union UNION {Full(k) : k \in Covers(h) \cap (Passed \union {g})}
  <2> TAKE h \in Groups
  <2>1. CASE g \in Covers(h)
    <3>1. covered'[h] = covered[h] \union Full(g) BY <1>1, <1>3, <1>6, <2>1
    <3>2. Covers(h) \cap (Passed \union {g}) = (Covers(h) \cap Passed) \union {g} BY <2>1
    <3>3. UNION {Full(k) : k \in (Covers(h) \cap Passed) \union {g}}
            = (UNION {Full(k) : k \in Covers(h) \cap Passed}) \union Full(g)
      OBVIOUS
    <3> QED BY <1>2, <3>1, <3>2, <3>3
  <2>2. CASE g \notin Covers(h)
    <3>1. Covers(h) \cap (Passed \union {g}) = Covers(h) \cap Passed BY <2>2
    <3>2. covered'[h] = covered[h] BY <1>1, <1>3, <2>2
    <3> QED BY <1>2, <3>1, <3>2
  <2> QED BY <2>1, <2>2
<1>12. ready' \subseteq Groups /\ \A h \in ready' : outDegree'[h] = 0
  <2>1. ready' \subseteq Groups BY <1>1, <1>2, <1>8
  <2>2. ASSUME NEW h \in Completed(g) PROVE outDegree'[h] = 0 BY <1>1, <1>3, <1>8
  <2>3. ASSUME NEW h \in ready PROVE outDegree'[h] = 0
    <3>1. g \notin Covers(h) BY <1>2, <1>7
    <3> QED BY <1>1, <1>2, <1>3, <3>1
  <2> QED BY <1>1, <2>1, <2>2, <2>3
<1>13. \A h \in Groups' : outDegree'[h] = Cardinality(Covers(h)' \ Passed')
  BY <1>4, <1>9, <1>10
<1>14. \A h \in Groups' :
         covered'[h] = Range(groupVecs'[h]) \union UNION {Full(k)' : k \in Covers(h)' \cap Passed'}
  <2> TAKE h \in Groups'
  <2>1. Covers(h)' = Covers(h) /\ Range(groupVecs'[h]) = Range(groupVecs[h]) BY <1>4
  <2>2. {Full(k)' : k \in Covers(h) \cap (Passed \union {g})}
          = {Full(k) : k \in Covers(h) \cap (Passed \union {g})}
    BY <1>4
  <2> QED BY <1>4, <1>9, <1>11, <2>1, <2>2
<1> QED BY <1>1, <1>4, <1>12, <1>13, <1>14 DEF CoverInv

\* When the queue is empty every group has left it: of those that have not, the
\* one with most labels would wait for a group with more.
LEMMA QueueEmptied ==
  ASSUME GroupsInv, CoverInv, phase = "cover", ready = {}
  PROVE  \A g \in Groups : covered[g] = Full(g)
<1>1. /\ \A g \in Groups : outDegree[g] = Cardinality(Covers(g) \ Passed)
      /\ \A g \in Groups :
           covered[g] = Range(groupVecs[g]) \union UNION {Full(k) : k \in Covers(g) \cap Passed}
  BY DEF CoverInv
<1>2. Passed = Groups
  <2> DEFINE waiting == Groups \ Passed
             missing == [g \in waiting |-> Cardinality(Labels) - Cardinality(groupLabels[g])]
  <2> SUFFICES ASSUME waiting # {} PROVE FALSE BY DEF Passed
  <2>1. \A g \in Groups : /\ Cardinality(groupLabels[g]) \in Nat /\ Cardinality(Labels) \in Nat
                          /\ Cardinality(groupLabels[g]) <= Cardinality(Labels)
    <3> TAKE g \in Groups
    <3>1. groupLabels[g] \in SUBSET Labels BY GroupsAreTerminals
    <3> QED BY <3>1, LabelsAssumption, FS_Subset, FS_CardinalityType
  <2>2. \A g \in waiting : missing[g] \in Nat
    <3> TAKE g \in waiting
    <3>1. missing[g] = Cardinality(Labels) - Cardinality(groupLabels[g]) OBVIOUS
    <3> QED BY <2>1, <3>1
  <2>3. PICK g \in waiting : \A h \in waiting : missing[g] <= missing[h]
    <3> HIDE DEF waiting, missing
    <3> QED BY <2>2, LeastValue
  <2>4. outDegree[g] # 0 BY DEF Passed
  <2>5. PICK h \in Covers(g) : h \notin Passed BY <1>1, <2>4, CoversFinite
  <2>6. h \in waiting /\ h \in Above(g) BY <2>5, CoversFinite
  <2>7. Cardinality(Labels) - Cardinality(groupLabels[g]) <= Cardinality(Labels) - Cardinality(groupLabels[h])
    BY <2>3, <2>6
  <2>8. Cardinality(groupLabels[g]) < Cardinality(groupLabels[h]) BY <2>6, MoreLabels
  <2> QED BY <2>1, <2>6, <2>7, <2>8
<1>3. \A g \in Groups : Covers(g) \cap Passed = Covers(g) BY <1>2, CoversFinite
<1> QED BY <1>1, <1>3, FullByCovers

LEMMA CoverStep ==
  ASSUME BaseInv, HasseInv, CoverInv, [Next]_vars
  PROVE  CoverInv'
<1>1. CASE Divide BY <1>1 DEF Divide, CoverInv
<1>2. CASE Later
  <2>1. GroupsInv /\ groupLabels' = groupLabels /\ groupVecs' = groupVecs BY <1>2, LaterGroups DEF BaseInv
  <2>2. CASE CoverLeaves BY <2>1, <2>2, CoverStart
  <2>3. CASE \E g \in Groups : CoverParents(g) BY <2>1, <2>3, CoverPass
  <2>4. CASE InitBitsets
    <3>1. /\ phase = "cover" /\ ready = {} /\ covBits' = covered /\ phase' = "done"
      BY <2>4 DEF InitBitsets
    <3>2. \A g \in Groups : covered[g] = Full(g) BY <2>1, <3>1, QueueEmptied
    <3>3. Groups' = Groups /\ \A g : Full(g)' = Full(g) BY <2>1 DEF Groups, Above, Full
    <3> QED BY <3>1, <3>2, <3>3 DEF CoverInv
  <2>5. CASE ~CoverLeaves /\ ~InitBitsets /\ \A g \in Groups : ~CoverParents(g)
    <3>1. /\ phase' \notin {"cover"} \/ phase' = phase
          /\ phase' = "done" => phase = "done"
          /\ UNCHANGED <<ready, outDegree, covered, covBits>>
      BY <1>2, <2>5, CoverFrame
    <3>2. /\ Groups' = Groups /\ \A g : Covers(g)' = Covers(g) /\ Full(g)' = Full(g)
      BY <2>1 DEF Groups, Covers, Above, Full
    <3>3. Passed' = Passed BY <3>1, <3>2 DEF Passed
    <3> QED BY <2>1, <3>1, <3>2, <3>3 DEF CoverInv
  <2> QED BY <2>2, <2>3, <2>4, <2>5
<1> QED BY <1>1, <1>2, NextSplit

\* The new ids of the vectors with all of a group's labels name, before the
\* reorder, the vectors of the groups above it.
LEMMA FullByLabels ==
  ASSUME BaseInv, phase \in Built, NEW g \in Groups
  PROVE  Full(g) = {newToOld[v + 1] : v \in {w \in 0 .. NumVectors - 1 : groupLabels[g] \subseteq labelSets[w + 1]}}
<1>1. /\ GroupsInv /\ PrepareInv /\ Len(newToOld) = NumVectors
      /\ Groups = 1 .. Len(range)
      /\ \A i \in 1 .. NumVectors : labelSets[i] = groupLabels[newToGroup[i]]
  BY GroupTypes DEF BaseInv, ReorderedInv
<1>2. \A i \in 1 .. NumVectors :
       /\ newToGroup[i] \in Groups
       /\ range[newToGroup[i]][1] < i /\ i <= range[newToGroup[i]][2]
       /\ newToOld[i] = groupVecs[newToGroup[i]][i - range[newToGroup[i]][1]]
  BY <1>1 DEF PrepareInv
<1>3. \A h \in Groups :
       /\ range[h][2] = range[h][1] + Len(groupVecs[h]) /\ range[h][2] <= NumVectors
       /\ \A i \in range[h][1] + 1 .. range[h][2] : newToGroup[i] = h
       /\ range[h][1] \in Nat /\ range[h][2] \in Nat
       /\ Len(groupVecs[h]) \in Nat /\ DOMAIN groupVecs[h] = 1 .. Len(groupVecs[h])
  BY <1>1, GroupTypes, PrepareTypes DEF PrepareInv
<1>4. ASSUME NEW x \in Full(g)
      PROVE  \E v \in 0 .. NumVectors - 1 : groupLabels[g] \subseteq labelSets[v + 1] /\ x = newToOld[v + 1]
  <2>1. PICK h \in {g} \union Above(g) : x \in Range(groupVecs[h]) BY DEF Full
  <2>2. h \in Groups /\ groupLabels[g] \subseteq groupLabels[h] BY DEF Above
  <2>3. PICK k \in DOMAIN groupVecs[h] : x = groupVecs[h][k] BY <2>1 DEF Range
  <2> DEFINE a == range[h][1]
             b == range[h][2]
             l == Len(groupVecs[h])
             v == a + k - 1
  <2>4. a \in Nat /\ b \in Nat /\ l \in Nat /\ b = a + l /\ b <= NumVectors /\ k \in 1 .. l
    BY <1>3, <2>2, <2>3
  <2>5. \A i \in a + 1 .. b : newToGroup[i] = h BY <1>3, <2>2
  <2>6. v \in 0 .. NumVectors - 1 /\ v + 1 \in 1 .. NumVectors /\ v + 1 \in a + 1 .. b /\ (v + 1) - a = k
    <3> HIDE DEF a, b, l
    <3> QED BY <2>4, NumVectorsAssumption
  <2> HIDE DEF v
  <2>7. newToGroup[v + 1] = h BY <2>5, <2>6
  <2>8. newToOld[v + 1] = groupVecs[h][(v + 1) - a] BY <1>2, <2>6, <2>7
  <2>9. labelSets[v + 1] = groupLabels[h] BY <1>1, <2>6, <2>7
  <2> QED BY <2>2, <2>3, <2>6, <2>8, <2>9
<1>5. ASSUME NEW v \in 0 .. NumVectors - 1, groupLabels[g] \subseteq labelSets[v + 1]
      PROVE  newToOld[v + 1] \in Full(g)
  <2>1. v + 1 \in 1 .. NumVectors BY NumVectorsAssumption
  <2> DEFINE h == newToGroup[v + 1]
             a == range[h][1]
             b == range[h][2]
             l == Len(groupVecs[h])
  <2>2. h \in Groups /\ labelSets[v + 1] = groupLabels[h] /\ a < v + 1 /\ v + 1 <= b
        /\ newToOld[v + 1] = groupVecs[h][(v + 1) - a]
    BY <1>1, <1>2, <2>1
  <2>3. b = a + l /\ a \in Nat /\ b \in Nat /\ l \in Nat /\ DOMAIN groupVecs[h] = 1 .. l
    BY <1>3, <2>2
  <2>4. (v + 1) - a \in 1 .. l
    <3> HIDE DEF a, b, l
    <3> QED BY <2>1, <2>2, <2>3, NumVectorsAssumption
  <2>5. newToOld[v + 1] \in Range(groupVecs[h]) BY <2>2, <2>3, <2>4 DEF Range
  <2>6. h \in {g} \union Above(g) BY <1>5, <2>2 DEF Above
  <2> QED BY <2>5, <2>6 DEF Full
<1> QED BY <1>4, <1>5

\* For every sequence of label sets and every order of the queue: no group is
\* queued before all below it have passed on what they cover, none is left out,
\* and every group covers the vectors of its super sets.
THEOREM CoverageAlwaysExact == Spec => []CoverageExact
<1>1. Init => CoverInv BY DEF Init, CoverInv
<1>2. BaseInv /\ HasseInv /\ CoverInv /\ [Next]_vars => CoverInv' BY CoverStep
<1>3. BaseInv /\ CoverInv => CoverageExact
  BY FullByLabels DEF CoverInv, CoverageExact, Built
<1>4. Spec => [](BaseInv /\ HasseInv) BY GraphInvHolds, PTL DEF GraphInv
<1> QED BY <1>1, <1>2, <1>3, <1>4, PTL DEF Spec
-----------------------------------------------------------------------------
\* Below a start, every terminal node lies at or below an entrance.
LEMMA EntranceBelow ==
  ASSUME SafetyInv, NEW Q, NEW needContainment \in BOOLEAN,
         NEW G \in Terminals, NEW s \in Starts(Q, needContainment), IsPrefix(s, G)
  PROVE  \E e \in SuperSetEntrances(Q, FALSE, needContainment) : IsPrefix(e, G)
<1> DEFINE X == {m \in Terminals : IsPrefix(s, m) /\ IsPrefix(m, G)}
<1>1. StopsAtTerminals(Q, FALSE) = Terminals BY DEF StopsAtTerminals
<1>2. X \subseteq SUBSET Labels BY DEF SafetyInv, TrieTypeOK, Terminals
<1>3. G \in X BY DEF IsPrefix
<1> HIDE DEF X
<1>4. PICK e \in Minimal(X) : e \subseteq G BY <1>2, <1>3, MinimalBelow
<1>5. e \in Terminals /\ IsPrefix(s, e) /\ IsPrefix(e, G) BY DEF Minimal, X
<1>6. ASSUME NEW m \in Terminals, IsPrefix(s, m), IsPrefix(m, e) PROVE m = e
  <2>1. IsPrefix(m, G) BY <1>5, <1>6 DEF IsPrefix
  <2>2. m \in X /\ m \subseteq e BY <1>6, <2>1 DEF X, IsPrefix
  <2> QED BY <2>2 DEF Minimal
<1>7. e \in SuperSetEntrances(Q, FALSE, needContainment) BY <1>1, <1>5, <1>6 DEF SuperSetEntrances
<1> QED BY <1>5, <1>7

\* what a scenario asks of a vector's label set
Matches(kind, Q, S) ==
  CASE kind = "containment" -> Q \subseteq S
    [] kind = "overlap" -> Q \cap S # {}
    [] kind = "equality" -> Q = S

\* The groups that are scanned are those whose labels match.
LEMMA TargetsMatch ==
  ASSUME SafetyInv, NEW Q \in SUBSET Labels, NEW kind \in {"containment", "overlap", "equality"},
         Q # {} \/ kind = "equality"
  PROVE  TargetNodes(kind, Q) = {G \in Terminals : Matches(kind, Q, G)}
<1>1. CASE kind = "equality"
  BY <1>1 DEF TargetNodes, FindExactMatch, Matches
<1>2. CASE kind = "containment"
  <2>1. TargetNodes(kind, Q) = Below(SuperSetEntrances(Q, FALSE, TRUE)) /\ Q # {}
    BY <1>2 DEF TargetNodes
  <2>2. ASSUME NEW e \in SuperSetEntrances(Q, FALSE, TRUE), NEW G \in Terminals, IsPrefix(e, G)
        PROVE  Q \subseteq G
    <3>1. PICK s \in Starts(Q, TRUE) : IsPrefix(s, e) BY DEF SuperSetEntrances
    <3>2. Q \subseteq s BY <2>1, <3>1 DEF Starts, ExamineContainment
    <3> QED BY <2>2, <3>1, <3>2 DEF IsPrefix
  <2>3. ASSUME NEW G \in Terminals, Q \subseteq G
        PROVE  \E e \in SuperSetEntrances(Q, FALSE, TRUE) : IsPrefix(e, G)
    <3>1. LastLabel(Q) \in Q /\ \A k \in Q : k <= LastLabel(Q) BY <2>1, LastLabelLargest
    <3> DEFINE s == {k \in G : k <= LastLabel(Q)}
    <3>2. s \in nodes /\ IsPrefix(s, G) /\ LastLabel(s) = LastLabel(Q)
      BY <2>3, <3>1, PrefixIsNode
    <3>3. Q \subseteq s /\ s # {} BY <2>3, <3>1
    <3> HIDE DEF s
    <3>4. s \in Starts(Q, TRUE)
      BY <2>1, <3>2, <3>3 DEF Starts, LabelToNodes, ExamineContainment
    <3> QED BY <3>2, <3>4, EntranceBelow
  <2> QED BY <1>2, <2>1, <2>2, <2>3 DEF Below, Matches
<1>3. CASE kind = "overlap"
  <2>1. TargetNodes(kind, Q) = Below(SuperSetEntrances(Q, FALSE, FALSE)) /\ Q # {}
    BY <1>3 DEF TargetNodes
  <2>2. ASSUME NEW e \in SuperSetEntrances(Q, FALSE, FALSE), NEW G \in Terminals, IsPrefix(e, G)
        PROVE  Q \cap G # {}
    <3>1. PICK s \in Starts(Q, FALSE) : IsPrefix(s, e) BY DEF SuperSetEntrances
    <3>2. Q \cap s = {LastLabel(s)} BY <2>1, <3>1 DEF Starts, ExamineSmallest
    <3> QED BY <2>2, <3>1, <3>2 DEF IsPrefix
  <2>3. ASSUME NEW G \in Terminals, Q \cap G # {}
        PROVE  \E e \in SuperSetEntrances(Q, FALSE, FALSE) : IsPrefix(e, G)
    <3>1. G \subseteq Nat BY LabelSetFinite DEF SafetyInv, TrieTypeOK, Terminals
    <3>2. PICK l \in G \cap Q : \A k \in G \cap Q : l <= k BY <2>3, <3>1, LeastMember
    <3> DEFINE s == {k \in G : k <= l}
    <3>3. s \in nodes /\ IsPrefix(s, G) /\ LastLabel(s) = l BY <2>3, PrefixIsNode
    <3>4. Q \cap s = {l}
      <4>1. \A k \in G \cap Q : k <= l <=> k = l BY <3>1, <3>2
      <4> QED BY <4>1
    <3> HIDE DEF s
    <3>5. s \in LabelToNodes(l) BY <3>3, <3>4 DEF LabelToNodes
    <3>6. s \in Starts(Q, FALSE) BY <2>1, <3>2, <3>3, <3>4, <3>5 DEF Starts, ExamineSmallest
    <3> QED BY <3>3, <3>6, EntranceBelow
  <2> QED BY <1>3, <2>1, <2>2, <2>3 DEF Below, Matches
<1> QED BY <1>1, <1>2, <1>3

\* The vectors of some groups are those that have one of the groups' label sets.
LEMMA VectorsOfGroups ==
  ASSUME GroupsInv, VecsInv, phase = "prepare", NEW T, T \subseteq Terminals
  PROVE  UNION {Range(groupVecs[groupId[n]]) : n \in T}
           = {v \in 0 .. NumVectors - 1 : labelSets[v + 1] \in T}
<1>1. /\ Len(labelSets) = NumVectors
      /\ \A g \in Groups : \A i \in DOMAIN groupVecs[g] :
           groupVecs[g][i] \in 0 .. NumVectors - 1 /\ labelSets[groupVecs[g][i] + 1] = groupLabels[g]
      /\ \A v \in 0 .. NumVectors - 1 : \E g \in Groups : \E i \in DOMAIN groupVecs[g] : groupVecs[g][i] = v
  BY DEF VecsInv
<1>2. \A S \in Terminals : groupId[S] \in Groups /\ groupLabels[groupId[S]] = S
  BY GroupsAreTerminals
<1>3. \A g \in Groups : groupId[groupLabels[g]] = g BY DEF GroupsInv
<1>4. ASSUME NEW n \in T, NEW v \in Range(groupVecs[groupId[n]])
      PROVE  v \in 0 .. NumVectors - 1 /\ labelSets[v + 1] = n
  <2>1. PICK i \in DOMAIN groupVecs[groupId[n]] : v = groupVecs[groupId[n]][i] BY DEF Range
  <2> QED BY <1>1, <1>2, <2>1
<1>5. ASSUME NEW v \in 0 .. NumVectors - 1, labelSets[v + 1] \in T
      PROVE  \E n \in T : v \in Range(groupVecs[groupId[n]])
  <2>1. PICK g \in Groups : \E i \in DOMAIN groupVecs[g] : groupVecs[g][i] = v BY <1>1
  <2>2. labelSets[v + 1] = groupLabels[g] BY <1>1, <2>1
  <2>3. groupId[labelSets[v + 1]] = g BY <1>3, <2>2
  <2>4. v \in Range(groupVecs[g]) BY <2>1 DEF Range
  <2> QED BY <1>5, <2>3, <2>4
<1> QED BY <1>4, <1>5

\* until the scan, the behaviour is one of the label side
ScanInv ==
  /\ phase # "scanned" => BaseInv
  /\ GroundTruth

LEMMA AnswerExact ==
  ASSUME BaseInv, NEW kind \in {"containment", "overlap", "equality"},
         NEW Q \in SUBSET Labels, NEW d \in QueryDist, Answer(kind, Q, d)
  PROVE  phase' = "scanned" /\ GroundTruth'
<1>1. /\ phase = "prepare" /\ phase' = "scanned" /\ UNCHANGED labelSets
      /\ query' = [scenario |-> kind, labels |-> Q, d |-> d]
      /\ results' = Closest(d, UNION {Range(groupVecs[groupId[n]]) : n \in TargetNodes(kind, Q)})
  BY DEF Answer, divideVars
<1> SUFFICES ASSUME Q # {} \/ kind = "equality"
             PROVE  UNION {Range(groupVecs[groupId[n]]) : n \in TargetNodes(kind, Q)} = Matching(kind, Q)'
  BY <1>1 DEF GroundTruth, Closest
<1>2. TargetNodes(kind, Q) = {G \in Terminals : Matches(kind, Q, G)}
  BY TargetsMatch DEF BaseInv, GroupsInv
<1> DEFINE T == TargetNodes(kind, Q)
<1>3. T \subseteq Terminals BY <1>2
<1>4. UNION {Range(groupVecs[groupId[n]]) : n \in T} = {v \in 0 .. NumVectors - 1 : labelSets[v + 1] \in T}
  <2> HIDE DEF T
  <2> QED BY <1>1, <1>3, VectorsOfGroups DEF BaseInv
<1>5. \A v \in 0 .. NumVectors - 1 : labelSets[v + 1] \in Terminals
  <2> TAKE v \in 0 .. NumVectors - 1
  <2>1. PICK g \in Groups : labelSets[v + 1] = groupLabels[g]
    <3>1. PICK g \in Groups : \E i \in DOMAIN groupVecs[g] : groupVecs[g][i] = v
      BY <1>1 DEF BaseInv, VecsInv
    <3> QED BY <1>1, <3>1 DEF BaseInv, VecsInv
  <2> QED BY <2>1, GroupsAreTerminals DEF BaseInv
<1>6. Matching(kind, Q)' = {v \in 0 .. NumVectors - 1 : Matches(kind, Q, labelSets[v + 1])}
  BY <1>1 DEF Matching, Matches
<1> QED BY <1>2, <1>4, <1>5, <1>6

\* The recall of every search is measured against it: for every base and every
\* query that asks for a label, in each of the three scenarios, FilteredScan
\* returns the closest of exactly the vectors a look at every vector's labels
\* selects.
THEOREM ScanIsGroundTruth == ScanSpec => []GroundTruth
<1>1. ScanInit => ScanInv
  BY BaseInit DEF ScanInit, Init, ScanInv, GroundTruth
<1>2. ScanInv /\ [ScanNext]_<<vars, scanVars>> => ScanInv'
  <2> SUFFICES ASSUME ScanInv, [ScanNext]_<<vars, scanVars>> PROVE ScanInv'
    OBVIOUS
  <2>1. CASE Next /\ UNCHANGED scanVars
    <3>1. phase # "scanned" /\ phase' # "scanned"
      BY <2>1 DEF Next, Divide, Divided, PrepareGroup, Reorder, DescendFrom, CoverParents,
         Navigate, DescendPop, Descended, CoverLeaves, InitBitsets, vars
    <3>2. BaseInv' BY <2>1, <3>1, BaseStep DEF ScanInv
    <3> QED BY <3>1, <3>2 DEF ScanInv, GroundTruth
  <2>2. ASSUME NEW kind \in {"containment", "overlap", "equality"},
               NEW Q \in SUBSET Labels, NEW d \in QueryDist, Answer(kind, Q, d)
        PROVE  ScanInv'
    <3>1. phase # "scanned" BY <2>2 DEF Answer
    <3> QED BY <2>2, <3>1, AnswerExact DEF ScanInv
  <2>3. CASE UNCHANGED <<vars, scanVars>>
    <3>1. BaseInv => BaseInv' BY <2>3, BaseStep
    <3>2. UNCHANGED <<phase, labelSets, query, results>> BY <2>3 DEF vars, divideVars, scanVars
    <3> QED BY <3>1, <3>2 DEF ScanInv, GroundTruth, Matching
  <2> QED BY <2>1, <2>2, <2>3 DEF ScanNext
<1>3. ScanInv => GroundTruth BY DEF ScanInv
<1> QED BY <1>1, <1>2, <1>3, PTL DEF ScanSpec
=============================================================================
