---------------------------- MODULE Acorn_proofs ----------------------------
(***************************************************************************)
(* The ACORN index, for any number of vectors, threads and calls of add,    *)
(* any distances and levels, and every query.                               *)
(*                                                                         *)
(* The entry point (Inv) is one of the points of the highest level after    *)
(* every batch, although the threads replace it and the top level without a *)
(* lock. That needs only who is where in add_with_locks.                    *)
(*                                                                         *)
(* The lists (LinksInv) hold what they should, although they are read       *)
(* without a lock: what is in a list of a level is a vector linked on that  *)
(* level (AllSound), and the list of a vector nobody has linked there is    *)
(* empty, so that no search of a batch meets a vector of the same batch     *)
(* before its time (AllSane), no thread works on another's vector (Apart),  *)
(* and each starts at an entry point nobody works on (EntryReady).          *)
(*                                                                         *)
(* A query (SearchInv) reads a finished index. Its heap counts right but    *)
(* for the slots that were lost (Counted), and with room for all it has     *)
(* every vector it has seen in the heap, and every list of those handed out *)
(* in what it has seen (Complete, Looked): when none is left to hand out,   *)
(* it has seen what can be reached.                                         *)
(***************************************************************************)
EXTENDS AcornSearch, LeastValues, SequenceTheorems, TLAPS

Active(t) == th[t].pc # "idle"

\* the batch's vectors are above all of the calls before
NewTop == call > 1 /\ \A c \in 1 .. call - 1 : ptLevel > TopOf(CallPoints(c))

\* no thread is at work on v
Settled(v) == \A t \in Threads : Active(t) => th[t].pt # v

Fields == {"pc", "pt", "nearest", "level", "cands", "found", "seen", "iters", "back"}
-----------------------------------------------------------------------------
Types ==
  /\ call \in 0 .. Len(CallEnds) /\ ptLevel \in Nat /\ maxLevel \in Int
  /\ entryPoint \in Points \union {NoPoint}
  /\ DOMAIN th = Threads
  /\ \A t \in Threads : th[t] = [f \in Fields |-> th[t][f]]
  /\ fault \in {"none", "torn", "spilled"}

\* who may be at work, and on what
AtWork ==
  /\ call = 0 => todo = {} /\ ptLevel = 0 /\ entryPoint = NoPoint
  /\ call > 0 => todo \subseteq Batch(call, ptLevel) /\ ptLevel <= TopOf(CallPoints(call))
  /\ \A t \in Threads : Active(t) => call > 0 /\ th[t].pt \in Batch(call, ptLevel) \ todo
  /\ \A t, u \in Threads : Active(t) /\ Active(u) /\ t # u => Parallel

\* the top level covers every vector nobody is at work on, and is the entry
\* point's, but for the moment between the two writes of a thread
TopLevel ==
  /\ entryPoint = NoPoint => Added = {} /\ \A t \in Threads : ~Active(t)
  /\ entryPoint # NoPoint =>
       /\ entryPoint \in Added
       /\ \/ Levels[entryPoint] - 1 = maxLevel
          \/ maxLevel = ptLevel /\ \E t \in Threads : th[t].pc = "point"
  /\ \A v \in Added : Settled(v) => maxLevel >= Levels[v] - 1

\* a thread that raises it has a vector above all others, and one that enters
\* finds another entry point than the top level's only beside such a thread
Raising ==
  \A t \in Threads :
    /\ th[t].pc = "raise" => maxLevel <= ptLevel /\ NewTop
    /\ th[t].pc = "point" => maxLevel = ptLevel /\ NewTop
    /\ th[t].pc = "entered" =>
         th[t].nearest \in Points /\ (Levels[th[t].nearest] - 1 = maxLevel \/ (Parallel /\ NewTop))

Inv ==
  /\ Types
  /\ fault = "none" => AtWork /\ TopLevel /\ Raising
  /\ fault = "torn" => Parallel /\ NewTop
-----------------------------------------------------------------------------
\* What the proofs use of the assumption.
LEMMA Calls ==
  /\ CallEnds \in Seq(Nat \ {0}) /\ CallEnds # <<>>
  /\ \A c, e \in 1 .. Len(CallEnds) : c < e => CallEnds[c] < CallEnds[e]
  /\ Levels \in [Points -> Nat \ {0}]
BY AcornAssumption

\* The ends of the calls are in order.
LEMMA Ends ==
  /\ Len(CallEnds) \in Nat \ {0}
  /\ \A c \in 1 .. Len(CallEnds) : CallEnds[c] \in Nat \ {0} /\ CallEnds[c] <= NumPoints
  /\ \A c, e \in 1 .. Len(CallEnds) : c <= e => CallEnds[c] <= CallEnds[e]
<1>1. /\ Len(CallEnds) \in Nat \ {0}
      /\ \A c \in 1 .. Len(CallEnds) : CallEnds[c] \in Nat \ {0}
  BY Calls
<1>2. \A c, e \in 1 .. Len(CallEnds) : c <= e => CallEnds[c] <= CallEnds[e]
  BY <1>1, Calls
<1> QED BY <1>1, <1>2 DEF NumPoints

\* The vectors of a call are points, and no call is empty.
LEMMA CallPointsAre ==
  ASSUME NEW c \in 1 .. Len(CallEnds)
  PROVE  /\ CallPoints(c) \subseteq Points /\ CallPoints(c) # {}
         /\ IsFiniteSet(CallPoints(c))
         /\ \A v \in CallPoints(c) : v < CallEnds[c]
         /\ \A e \in 1 .. Len(CallEnds) : e < c => \A v \in CallPoints(e) : v \notin CallPoints(c)
<1> DEFINE first == IF c = 1 THEN 0 ELSE CallEnds[c - 1]
<1>1. first \in Nat /\ CallEnds[c] \in Nat /\ first < CallEnds[c] /\ CallEnds[c] <= NumPoints
      /\ NumPoints \in Nat
  <2>1. CASE c = 1 BY <2>1, Ends DEF NumPoints
  <2>2. CASE c # 1
    <3>1. c - 1 \in 1 .. Len(CallEnds) /\ c - 1 < c BY <2>2, Ends
    <3>2. CallEnds[c - 1] < CallEnds[c] BY <3>1, Calls
    <3> QED BY <2>2, <3>1, <3>2, Ends DEF NumPoints
  <2> QED BY <2>1, <2>2
<1>2. CallPoints(c) = first .. CallEnds[c] - 1
  BY DEF CallPoints
<1>3. IsFiniteSet(first .. CallEnds[c] - 1)
  <2>1. first \in Int /\ CallEnds[c] - 1 \in Int BY <1>1
  <2> HIDE DEF first
  <2> QED BY <2>1, FS_Interval
<1>4. ASSUME NEW e \in 1 .. Len(CallEnds), e < c, NEW v \in CallPoints(e)
      PROVE  v \notin CallPoints(c)
  <2>1. c # 1 /\ c - 1 \in 1 .. Len(CallEnds) /\ e <= c - 1 BY <1>4, Ends
  <2>2. CallEnds[e] <= first BY <2>1, Ends
  <2>3. v < CallEnds[e] BY Ends DEF CallPoints
  <2>4. v \in Int /\ CallEnds[e] \in Int BY Ends DEF CallPoints
  <2> HIDE DEF first
  <2> QED BY <1>1, <1>2, <2>2, <2>3, <2>4
<1>5. /\ CallPoints(c) \subseteq Points /\ CallPoints(c) # {}
      /\ \A v \in CallPoints(c) : v < CallEnds[c]
  <2> HIDE DEF first
  <2>1. first \in CallPoints(c) BY <1>1, <1>2
  <2> QED BY <1>1, <1>2, <2>1 DEF Points
<1> QED BY <1>2, <1>3, <1>4, <1>5

\* The top level of a set of vectors is the highest of theirs.
LEMMA TopIs ==
  ASSUME NEW S, S \subseteq Points, S # {}, IsFiniteSet(S)
  PROVE  /\ TopOf(S) \in Nat
         /\ \A v \in S : Levels[v] - 1 <= TopOf(S)
         /\ \E v \in S : TopOf(S) = Levels[v] - 1
<1> DEFINE L == {Levels[v] : v \in S}
<1>1. \A v \in S : Levels[v] \in Nat \ {0}
  BY Calls
<1>2. L \subseteq Nat /\ L # {} /\ IsFiniteSet(L)
  <2>1. [v \in S |-> Levels[v]] \in Surjection(S, L) BY DEF Surjection
  <2>2. IsFiniteSet(L)
    <3> HIDE DEF L
    <3> QED BY <2>1, FS_Surjection
  <2> QED BY <1>1, <2>2
<1>3. PICK a \in L : \A b \in L : b <= a
  <2> HIDE DEF L
  <2> QED BY <1>2, LargestMember
<1>4. Max(L) \in L /\ \A b \in L : Max(L) >= b
  <2>1. \A b \in L : a >= b
    <3> HIDE DEF L
    <3> QED BY <1>2, <1>3
  <2> HIDE DEF L
  <2> QED BY <2>1 DEF Max
<1>5. PICK w \in S : Max(L) = Levels[w]
  BY <1>4
<1>6. TopOf(S) = Levels[w] - 1
  BY <1>5 DEF TopOf
<1>7. \A v \in S : Levels[v] <= Levels[w]
  <2> SUFFICES ASSUME NEW v \in S PROVE Levels[v] <= Levels[w] OBVIOUS
  <2>1. Levels[v] \in L OBVIOUS
  <2>2. Max(L) >= Levels[v]
    <3> HIDE DEF L
    <3> QED BY <1>4, <2>1
  <2> HIDE DEF L
  <2> QED BY <1>1, <1>5, <2>2
<1> HIDE DEF L
<1> QED BY <1>1, <1>6, <1>7

\* The levels of a batch, and of the calls.
LEMMA BatchIs ==
  ASSUME NEW c \in 1 .. Len(CallEnds), NEW l \in Nat, NEW v \in Batch(c, l)
  PROVE  /\ v \in CallPoints(c) /\ v \in Points /\ v < CallEnds[c]
         /\ Levels[v] \in Nat \ {0} /\ Levels[v] - 1 = l
<1>1. v \in CallPoints(c) /\ Levels[v] = l + 1
  BY DEF Batch
<1>2. v \in Points /\ v < CallEnds[c]
  BY <1>1, CallPointsAre
<1> QED BY <1>1, <1>2, Calls

LEMMA TopOfCall ==
  ASSUME NEW c \in 1 .. Len(CallEnds)
  PROVE  /\ TopOf(CallPoints(c)) \in Nat
         /\ \A v \in CallPoints(c) : Levels[v] - 1 <= TopOf(CallPoints(c))
         /\ \E v \in CallPoints(c) : TopOf(CallPoints(c)) = Levels[v] - 1
BY CallPointsAre, TopIs

LEMMA IdleShape == Idle = [f \in Fields |-> Idle[f]] /\ Idle.pc = "idle"
BY DEF Idle, Fields

LEMMA InitInv == Init => Inv
<1> SUFFICES ASSUME Init PROVE Inv
  OBVIOUS
<1>1. Types
  BY Ends, IdleShape DEF Init, Types
<1>2. \A t \in Threads : th[t].pc = "idle"
  BY IdleShape DEF Init
<1>3. AtWork
  BY <1>2 DEF Init, AtWork, Active
<1>4. TopLevel
  BY <1>2 DEF Init, TopLevel, Active, Added
<1>5. Raising
  BY <1>2 DEF Raising
<1> QED BY <1>1, <1>3, <1>4, <1>5 DEF Inv, Init
-----------------------------------------------------------------------------
\* A thread goes on with its vector: all steps but the first, those of a thread
\* above all others, and the last.
LEMMA GoesOn ==
  ASSUME Inv, fault = "none", NEW t \in Threads,
         th[t].pc \in {"entered", "greedy", "search", "back"},
         UNCHANGED <<call, ptLevel, todo, entryPoint, maxLevel>>,
         DOMAIN th' = Threads, \A u \in Threads : u # t => th'[u] = th[u],
         th'[t] = [f \in Fields |-> th'[t][f]], th'[t].pt = th[t].pt,
         th'[t].pc \in {"greedy", "search", "back"},
         fault' \in {"none", "torn", "spilled"}, fault' = "torn" => Parallel /\ NewTop
  PROVE  Inv'
<1> USE DEF Inv
<1>1. Types'
  BY DEF Types
<1>2. \A u \in Threads : (Active(u))' <=> Active(u)
  BY DEF Active
<1>3. \A u \in Threads : th'[u].pt = th[u].pt
  OBVIOUS
<1>4. Parallel' = Parallel /\ NewTop' = NewTop /\ Added' = Added
  BY DEF Parallel, NewTop, Added, Batch
<1>5. AtWork'
  BY <1>2, <1>3, <1>4 DEF AtWork, Batch
<1>6. TopLevel'
  <2>1. \A v : Settled(v)' <=> Settled(v) BY <1>2, <1>3 DEF Settled
  <2>2. \A u \in Threads : th[u].pc = "point" => th'[u].pc = "point" OBVIOUS
  <2> QED BY <1>2, <1>4, <2>1, <2>2 DEF TopLevel
<1>7. Raising'
  BY <1>4 DEF Raising
<1> QED BY <1>1, <1>4, <1>5, <1>6, <1>7

LEMMA StartInv == ASSUME Inv, NEW t \in Threads, Start(t) PROVE Inv'
<1> DEFINE r == [th[t] EXCEPT !.level = maxLevel]
           next == IF maxLevel > ptLevel THEN [r EXCEPT !.pc = "greedy"] ELSE Searching(r)
<1>1. /\ fault = "none" /\ th[t].pc = "entered" /\ th' = [th EXCEPT ![t] = next]
      /\ UNCHANGED <<call, ptLevel, todo, entryPoint, maxLevel>>
      /\ fault' = IF Levels[th[t].nearest] <= maxLevel THEN "torn" ELSE "none"
  BY DEF Start
<1>2. DOMAIN th = Threads /\ th[t] = [f \in Fields |-> th[t][f]]
  BY DEF Inv, Types
<1>3. /\ next = [f \in Fields |-> next[f]] /\ next.pt = th[t].pt /\ next.pc \in {"greedy", "search"}
  BY <1>2 DEF Searching, Fields
<1>4. fault' = "torn" => Parallel /\ NewTop
  <2>1. maxLevel \in Int BY DEF Inv, Types
  <2>2. th[t].nearest \in Points /\ (Levels[th[t].nearest] - 1 = maxLevel \/ (Parallel /\ NewTop))
    BY <1>1 DEF Inv, Raising
  <2>3. Levels[th[t].nearest] \in Nat BY <2>2, Calls
  <2> QED BY <1>1, <2>1, <2>2, <2>3
<1> HIDE DEF next
<1> QED BY <1>1, <1>2, <1>3, <1>4, GoesOn

LEMMA GreedyInv == ASSUME Inv, NEW t \in Threads, Greedy(t) PROVE Inv'
<1>1. PICK best :
        /\ fault = "none" /\ th[t].pc = "greedy" /\ UNCHANGED fault
        /\ UNCHANGED <<call, ptLevel, todo, entryPoint, maxLevel>>
        /\ th' = [th EXCEPT ![t] =
                    IF best # th[t].nearest THEN [th[t] EXCEPT !.nearest = best]
                    ELSE IF th[t].level - 1 > ptLevel THEN [th[t] EXCEPT !.level = th[t].level - 1]
                    ELSE Searching([th[t] EXCEPT !.level = th[t].level - 1])]
  BY DEF Greedy
<1>2. DOMAIN th = Threads /\ th[t] = [f \in Fields |-> th[t][f]]
  BY DEF Inv, Types
<1>3. /\ th'[t] = [f \in Fields |-> th'[t][f]] /\ th'[t].pt = th[t].pt
      /\ th'[t].pc \in {"greedy", "search"}
  BY <1>1, <1>2 DEF Searching, Fields
<1> QED BY <1>1, <1>2, <1>3, GoesOn

LEMMA ExpandInv == ASSUME Inv, NEW t \in Threads, Expand(t) PROVE Inv'
<1>1. /\ fault = "none" /\ th[t].pc = "search" /\ UNCHANGED fault
      /\ UNCHANGED <<call, ptLevel, todo, entryPoint, maxLevel>>
  BY DEF Expand
<1>2. PICK r : th' = [th EXCEPT ![t].cands = r.cands, ![t].found = r.found, ![t].seen = r.seen]
  BY DEF Expand
<1>3. DOMAIN th = Threads /\ th[t] = [f \in Fields |-> th[t][f]]
  BY DEF Inv, Types
<1>4. /\ th'[t] = [f \in Fields |-> th'[t][f]] /\ th'[t].pt = th[t].pt
      /\ th'[t].pc = "search"
  BY <1>1, <1>2, <1>3 DEF Fields
<1> QED BY <1>1, <1>2, <1>3, <1>4, GoesOn

LEMMA LinkOwnInv == ASSUME Inv, NEW t \in Threads, LinkOwn(t) PROVE Inv'
<1>1. PICK list :
        /\ fault = "none" /\ th[t].pc = "search" /\ fault' \in {"none", "spilled"}
        /\ UNCHANGED <<call, ptLevel, todo, entryPoint, maxLevel>>
        /\ th' = [th EXCEPT ![t] = [th[t] EXCEPT !.pc = "back", !.back = list,
                                                 !.cands = {}, !.found = {}, !.seen = {}]]
  BY DEF LinkOwn
<1>2. DOMAIN th = Threads /\ th[t] = [f \in Fields |-> th[t][f]]
  BY DEF Inv, Types
<1>3. /\ th'[t] = [f \in Fields |-> th'[t][f]] /\ th'[t].pt = th[t].pt
      /\ th'[t].pc = "back"
  BY <1>1, <1>2 DEF Fields
<1> QED BY <1>1, <1>2, <1>3, GoesOn

LEMMA LinkBackInv == ASSUME Inv, NEW t \in Threads, LinkBack(t) PROVE Inv'
<1>1. PICK list :
        /\ fault = "none" /\ th[t].pc = "back" /\ fault' \in {"none", "spilled"}
        /\ UNCHANGED <<call, ptLevel, todo, entryPoint, maxLevel>>
        /\ th' = [th EXCEPT ![t].back = list]
  BY DEF LinkBack
<1>2. DOMAIN th = Threads /\ th[t] = [f \in Fields |-> th[t][f]]
  BY DEF Inv, Types
<1>3. /\ th'[t] = [f \in Fields |-> th'[t][f]] /\ th'[t].pt = th[t].pt
      /\ th'[t].pc = "back"
  BY <1>1, <1>2 DEF Fields
<1> QED BY <1>1, <1>2, <1>3, GoesOn
-----------------------------------------------------------------------------
\* What holds of the vector a thread is at work on.
LEMMA WorkIs ==
  ASSUME Inv, fault = "none", NEW t \in Threads, Active(t)
  PROVE  /\ call \in 1 .. Len(CallEnds) /\ ptLevel \in Nat /\ maxLevel \in Int
         /\ th[t].pt \in CallPoints(call) /\ th[t].pt \in Added
         /\ Levels[th[t].pt] \in Nat \ {0} /\ Levels[th[t].pt] - 1 = ptLevel
         /\ entryPoint \in Points /\ entryPoint \in Added /\ Levels[entryPoint] \in Nat \ {0}
<1>1. call > 0 /\ th[t].pt \in Batch(call, ptLevel) /\ th[t].pt \notin todo
      /\ call \in 0 .. Len(CallEnds) /\ ptLevel \in Nat /\ maxLevel \in Int
  BY DEF Inv, AtWork, Types
<1>2. call \in 1 .. Len(CallEnds)
  BY <1>1, Ends
<1>3. /\ th[t].pt \in CallPoints(call) /\ th[t].pt \in Points /\ th[t].pt < CallEnds[call]
      /\ Levels[th[t].pt] \in Nat \ {0} /\ Levels[th[t].pt] - 1 = ptLevel
  BY <1>1, <1>2, BatchIs
<1>4. th[t].pt \in Added
  BY <1>1, <1>3 DEF Added
<1>5. entryPoint \in Added /\ entryPoint \in Points
  BY DEF Inv, TopLevel, Added
<1> QED BY <1>1, <1>2, <1>3, <1>4, <1>5, Calls

\* A vector of an earlier call is settled, and so covered by the top level.
LEMMA EarlierCalls ==
  ASSUME Inv, fault = "none", call \in 1 .. Len(CallEnds), NEW c \in 1 .. call - 1
  PROVE  TopOf(CallPoints(c)) <= maxLevel
<1>1. c \in 1 .. Len(CallEnds) /\ c < call
  BY Ends
<1>2. PICK v \in CallPoints(c) : TopOf(CallPoints(c)) = Levels[v] - 1
  BY <1>1, TopOfCall
<1>3. v \in Points /\ v < CallEnds[c] /\ v \notin CallPoints(call)
  BY <1>1, CallPointsAre
<1>4. CallEnds[c] < CallEnds[call] /\ CallEnds[c] \in Nat /\ CallEnds[call] \in Nat /\ v \in Int
  BY <1>1, <1>3, Calls, Ends DEF Points
<1>5. todo \subseteq CallPoints(call) /\ \A t \in Threads : Active(t) => th[t].pt \in CallPoints(call)
  BY DEF Inv, AtWork, Batch
<1>6. v \in Added
  BY <1>3, <1>4, <1>5 DEF Added
<1>7. Settled(v)
  BY <1>3, <1>5 DEF Settled
<1> QED BY <1>2, <1>6, <1>7 DEF Inv, TopLevel, Types

\* What a thread finds that is above all others at the end of its vector.
LEMMA AboveAllIs ==
  ASSUME Inv, fault = "none", NEW t \in Threads, Active(t), AboveAll
  PROVE  NewTop
<1>1. /\ call \in 1 .. Len(CallEnds) /\ ptLevel \in Nat /\ maxLevel \in Int
      /\ entryPoint \in Points /\ entryPoint \in Added /\ Levels[entryPoint] \in Nat \ {0}
  BY WorkIs
<1>2. ptLevel > maxLevel
  BY DEF AboveAll
<1>3. Levels[entryPoint] - 1 = maxLevel
  BY <1>1, <1>2 DEF Inv, TopLevel
<1>4. entryPoint \notin CallPoints(call)
  BY <1>1, <1>2, <1>3 DEF Added
<1>5. call # 1
  <2> SUFFICES ASSUME call = 1 PROVE FALSE OBVIOUS
  <2>1. entryPoint \in 0 .. CallEnds[1] - 1
    BY <1>1, Ends DEF Added, Points
  <2> QED BY <1>4, <2>1 DEF CallPoints
<1>6. \A c \in 1 .. call - 1 : ptLevel > TopOf(CallPoints(c))
  <2> SUFFICES ASSUME NEW c \in 1 .. call - 1 PROVE ptLevel > TopOf(CallPoints(c)) OBVIOUS
  <2>1. TopOf(CallPoints(c)) <= maxLevel BY <1>1, EarlierCalls
  <2>2. c \in 1 .. Len(CallEnds) BY <1>1, Ends
  <2>3. TopOf(CallPoints(c)) \in Nat BY <2>2, TopOfCall
  <2> QED BY <1>1, <1>2, <2>1, <2>3
<1> QED BY <1>1, <1>5, <1>6 DEF NewTop

LEMMA DownInv == ASSUME Inv, NEW t \in Threads, Down(t) PROVE Inv'
<1> DEFINE r == th[t]
           next == IF r.level > 0 THEN Searching([r EXCEPT !.level = r.level - 1])
                   ELSE IF AboveAll THEN [r EXCEPT !.pc = "raise"] ELSE Idle
<1>1. /\ fault = "none" /\ r.pc = "back" /\ th' = [th EXCEPT ![t] = next]
      /\ UNCHANGED <<call, ptLevel, todo, entryPoint, maxLevel, fault>>
  BY DEF Down
<1>2. DOMAIN th = Threads /\ r = [f \in Fields |-> r[f]]
  BY DEF Inv, Types
<1>3. Active(t)
  BY <1>1 DEF Active
<1>4. /\ DOMAIN th' = Threads /\ th'[t] = next /\ \A u \in Threads : u # t => th'[u] = th[u]
  BY <1>1, <1>2
<1>5. CASE r.level > 0
  <2>1. next = [f \in Fields |-> next[f]] /\ next.pt = r.pt /\ next.pc = "search"
    BY <1>2, <1>5 DEF Searching, Fields
  <2> HIDE DEF next
  <2> QED BY <1>1, <1>4, <2>1, GoesOn DEF Inv
<1>6. CASE ~(r.level > 0)
  <2>1. /\ next = [f \in Fields |-> next[f]] /\ next.pc \in {"raise", "idle"}
        /\ next.pc = "raise" => AboveAll /\ next.pt = r.pt
        /\ next.pc = "idle" => ~AboveAll
    BY <1>2, <1>6, IdleShape DEF Fields
  <2> HIDE DEF next
  <2>2. Types'
    BY <1>1, <1>4, <2>1 DEF Inv, Types
  <2>3. Parallel' = Parallel /\ NewTop' = NewTop /\ Added' = Added
    BY <1>1 DEF Parallel, NewTop, Added, Batch
  <2>4. \A u \in Threads : (Active(u))' => Active(u) /\ th'[u].pt = th[u].pt
    BY <1>3, <1>4, <2>1 DEF Active
  <2>5. AtWork'
    BY <1>1, <2>3, <2>4 DEF Inv, AtWork, Batch
  <2>6. \A v \in Added : (Settled(v))' => Settled(v) \/ (v = r.pt /\ ~AboveAll)
    BY <1>4, <2>1, <2>4 DEF Settled, Active
  <2>7. \A u \in Threads : th[u].pc = "point" => th'[u].pc = "point"
    BY <1>1, <1>4
  <2>8. ~AboveAll => maxLevel >= Levels[r.pt] - 1
    BY <1>1, <1>3, WorkIs DEF AboveAll
  <2>9. TopLevel'
    BY <1>1, <2>3, <2>4, <2>6, <2>7, <2>8 DEF Inv, TopLevel
  <2>10. AboveAll => NewTop /\ maxLevel <= ptLevel
    BY <1>1, <1>3, AboveAllIs, WorkIs DEF AboveAll
  <2>11. Raising'
    BY <1>1, <1>4, <2>1, <2>3, <2>10 DEF Inv, Raising
  <2> QED BY <1>1, <2>2, <2>5, <2>9, <2>11 DEF Inv
<1> QED BY <1>5, <1>6

LEMMA RaiseLevelInv == ASSUME Inv, NEW t \in Threads, RaiseLevel(t) PROVE Inv'
<1>1. /\ fault = "none" /\ th[t].pc = "raise" /\ maxLevel' = ptLevel
      /\ th' = [th EXCEPT ![t].pc = "point"]
      /\ UNCHANGED <<call, ptLevel, todo, entryPoint, fault>>
  BY DEF RaiseLevel
<1>2. DOMAIN th = Threads /\ th[t] = [f \in Fields |-> th[t][f]]
  BY DEF Inv, Types
<1>3. /\ DOMAIN th' = Threads /\ \A u \in Threads : u # t => th'[u] = th[u]
      /\ th'[t] = [f \in Fields |-> th'[t][f]] /\ th'[t].pc = "point" /\ th'[t].pt = th[t].pt
  BY <1>1, <1>2 DEF Fields
<1>4. Active(t) /\ \A u \in Threads : ((Active(u))' <=> Active(u)) /\ th'[u].pt = th[u].pt
  BY <1>1, <1>3 DEF Active
<1>5. Parallel' = Parallel /\ NewTop' = NewTop /\ Added' = Added
  BY <1>1 DEF Parallel, NewTop, Added, Batch
<1>6. maxLevel <= ptLevel /\ NewTop /\ maxLevel \in Int /\ ptLevel \in Nat
  BY <1>1 DEF Inv, Raising, Types
<1>7. Types'
  BY <1>1, <1>3, <1>6 DEF Inv, Types
<1>8. AtWork'
  BY <1>1, <1>4, <1>5 DEF Inv, AtWork, Batch
<1>9. TopLevel'
  <2>1. \A v : (Settled(v))' <=> Settled(v) BY <1>4 DEF Settled
  <2>2. \A v \in Added : Levels[v] \in Nat BY Calls DEF Added
  <2>3. \A v \in Added : Settled(v) => ptLevel >= Levels[v] - 1
    BY <1>1, <1>6, <2>2 DEF Inv, TopLevel
  <2> QED BY <1>1, <1>3, <1>4, <1>5, <2>1, <2>3 DEF Inv, TopLevel
<1>10. Raising'
  <2> SUFFICES ASSUME NEW u \in Threads
               PROVE  /\ th'[u].pc = "raise" => maxLevel' <= ptLevel' /\ NewTop'
                      /\ th'[u].pc = "point" => maxLevel' = ptLevel' /\ NewTop'
                      /\ th'[u].pc = "entered" =>
                           /\ th'[u].nearest \in Points
                           /\ Levels[th'[u].nearest] - 1 = maxLevel' \/ (Parallel' /\ NewTop')
    BY DEF Raising
  <2>1. CASE u = t BY <1>1, <1>3, <1>5, <1>6, <2>1
  <2>2. CASE u # t
    <3>1. th'[u] = th[u] BY <1>3, <2>2
    <3>2. th[u].pc = "entered" => Parallel /\ th[u].nearest \in Points
      BY <1>1, <1>4, <2>2 DEF Inv, AtWork, Active, Raising
    <3> QED BY <1>1, <1>5, <1>6, <3>1, <3>2
  <2> QED BY <2>1, <2>2
<1> QED BY <1>1, <1>7, <1>8, <1>9, <1>10 DEF Inv

LEMMA RaisePointInv == ASSUME Inv, NEW t \in Threads, RaisePoint(t) PROVE Inv'
<1>1. /\ fault = "none" /\ th[t].pc = "point" /\ entryPoint' = th[t].pt
      /\ th' = [th EXCEPT ![t] = Idle]
      /\ UNCHANGED <<call, ptLevel, todo, maxLevel, fault>>
  BY DEF RaisePoint
<1>2. DOMAIN th = Threads
  BY DEF Inv, Types
<1>3. DOMAIN th' = Threads /\ th'[t] = Idle /\ \A u \in Threads : u # t => th'[u] = th[u]
  BY <1>1, <1>2
<1>4. Active(t) /\ \A u \in Threads : (Active(u))' => Active(u) /\ th'[u].pt = th[u].pt
  BY <1>1, <1>3, IdleShape DEF Active
<1>5. Parallel' = Parallel /\ NewTop' = NewTop /\ Added' = Added
  BY <1>1 DEF Parallel, NewTop, Added, Batch
<1>6. /\ maxLevel = ptLevel /\ call \in 1 .. Len(CallEnds) /\ th[t].pt \in Added
      /\ Levels[th[t].pt] - 1 = ptLevel /\ ptLevel \in Nat
  BY <1>1, <1>4, WorkIs DEF Inv, Raising
<1>7. th[t].pt \in Points /\ th[t].pt # NoPoint
  BY <1>6 DEF Added, Points, NoPoint
<1>8. Types'
  BY <1>1, <1>3, <1>7, IdleShape DEF Inv, Types
<1>9. AtWork'
  BY <1>1, <1>4, <1>5, <1>6 DEF Inv, AtWork, Batch
<1>10. TopLevel'
  <2>1. \A v \in Added : (Settled(v))' => Settled(v) \/ v = th[t].pt
    BY <1>3, <1>4 DEF Settled, Active
  <2> QED BY <1>1, <1>5, <1>6, <1>7, <2>1 DEF Inv, TopLevel
<1>11. Raising'
  BY <1>1, <1>3, <1>5, IdleShape DEF Inv, Raising
<1> QED BY <1>1, <1>8, <1>9, <1>10, <1>11 DEF Inv

LEMMA TakeInv == ASSUME Inv, NEW t \in Threads, NEW v \in todo, Take(t, v) PROVE Inv'
<1>1. /\ fault = "none" /\ th[t].pc = "idle" /\ todo' = todo \ {v}
      /\ Parallel \/ \A u \in Threads : th[u].pc = "idle"
      /\ UNCHANGED <<call, ptLevel, fault>>
  BY DEF Take
<1>2. /\ call > 0 /\ call \in 1 .. Len(CallEnds) /\ v \in Batch(call, ptLevel)
      /\ ptLevel \in Nat /\ maxLevel \in Int
  BY <1>1, Ends DEF Inv, AtWork, Types
<1>3. /\ v \in CallPoints(call) /\ v \in Points /\ v < CallEnds[call] /\ v # NoPoint
      /\ Levels[v] \in Nat \ {0} /\ Levels[v] - 1 = ptLevel
  BY <1>2, BatchIs DEF Points, NoPoint
<1>4. Added' = Added \union {v}
  BY <1>1, <1>2, <1>3 DEF Added
<1>5. Parallel' = Parallel /\ NewTop' = NewTop
  BY <1>1 DEF Parallel, NewTop, Batch
<1>6. DOMAIN th = Threads
  BY DEF Inv, Types
<1>7. CASE entryPoint = NoPoint
  <2>1. maxLevel' = ptLevel /\ entryPoint' = v /\ UNCHANGED th
    BY <1>7 DEF Take
  <2>2. Added = {} /\ \A u \in Threads : th[u].pc = "idle"
    BY <1>1, <1>7 DEF Inv, TopLevel, Active
  <2>3. Types'
    BY <1>1, <1>2, <1>3, <2>1 DEF Inv, Types
  <2>4. AtWork'
    BY <1>1, <1>2, <2>1, <2>2 DEF Inv, AtWork, Active, Batch
  <2>5. TopLevel'
    BY <1>2, <1>3, <1>4, <2>1, <2>2 DEF TopLevel
  <2>6. Raising'
    BY <2>1, <2>2 DEF Raising
  <2> QED BY <1>1, <2>3, <2>4, <2>5, <2>6 DEF Inv
<1>8. CASE entryPoint # NoPoint
  <2> DEFINE next == [Idle EXCEPT !.pc = "entered", !.pt = v, !.nearest = entryPoint]
  <2>1. th' = [th EXCEPT ![t] = next] /\ UNCHANGED <<maxLevel, entryPoint>>
    BY <1>8 DEF Take
  <2>2. /\ next = [f \in Fields |-> next[f]] /\ next.pc = "entered" /\ next.pt = v
        /\ next.nearest = entryPoint
    BY IdleShape DEF Fields
  <2> HIDE DEF next
  <2>3. DOMAIN th' = Threads /\ th'[t] = next /\ \A u \in Threads : u # t => th'[u] = th[u]
    BY <1>6, <2>1
  <2>4. Types'
    BY <1>1, <2>1, <2>2, <2>3 DEF Inv, Types
  <2>5. \A u \in Threads : u # t => ((Active(u))' <=> Active(u))
    BY <2>3 DEF Active
  <2>6. AtWork'
    <3>1. \A u \in Threads : u # t /\ Active(u) => Parallel
      BY <1>1 DEF Active
    <3>2. \A u \in Threads : (Active(u))' => th'[u].pt \in Batch(call, ptLevel) \ (todo \ {v})
      BY <1>1, <1>2, <2>2, <2>3, <2>5 DEF Inv, AtWork
    <3>3. \A u, w \in Threads : (Active(u))' /\ (Active(w))' /\ u # w => Parallel
      BY <1>1, <2>5, <3>1
    <3> QED BY <1>1, <1>2, <1>5, <3>2, <3>3 DEF Inv, AtWork, Batch
  <2>7. TopLevel'
    <3>1. \A w \in Added : (Settled(w))' => Settled(w)
      BY <1>1, <2>3, <2>5 DEF Settled, Active
    <3>2. ~(Settled(v))'
      BY <2>2, <2>3 DEF Settled, Active
    <3>3. \A u \in Threads : th[u].pc = "point" => th'[u].pc = "point"
      BY <1>1, <2>3
    <3> QED BY <1>1, <1>4, <1>8, <2>1, <3>1, <3>2, <3>3 DEF Inv, TopLevel
  <2>8. Raising'
    <3>1. entryPoint \in Points
      BY <1>8 DEF Inv, Types
    <3>2. Levels[entryPoint] - 1 = maxLevel \/ (Parallel /\ NewTop)
      BY <1>1, <1>8 DEF Inv, TopLevel, Raising
    <3> QED BY <1>1, <1>5, <2>1, <2>2, <2>3, <3>1, <3>2 DEF Inv, Raising
  <2> QED BY <1>1, <2>4, <2>6, <2>7, <2>8 DEF Inv
<1> QED BY <1>7, <1>8

\* A batch begins when no thread is at work, and adds nothing by that.
LEMMA BatchInv ==
  ASSUME Inv, fault = "none", AtBarrier, Added' = Added,
         UNCHANGED <<entryPoint, maxLevel, th, fault>>,
         call' \in 1 .. Len(CallEnds), ptLevel' \in Nat, todo' = Batch(call', ptLevel'),
         ptLevel' <= TopOf(CallPoints(call'))
  PROVE  Inv'
<1>1. \A t \in Threads : th[t].pc = "idle"
  BY DEF AtBarrier
<1>2. Types'
  BY Ends DEF Inv, Types
<1>3. AtWork'
  <2>1. call' > 0 BY Ends
  <2>2. \A t \in Threads : ~(Active(t))' BY <1>1 DEF Active
  <2>3. todo' \subseteq (Batch(call, ptLevel))' BY DEF Batch
  <2> QED BY <2>1, <2>2, <2>3 DEF AtWork
<1>4. TopLevel'
  <2>1. \A t \in Threads : ~Active(t) /\ ~(Active(t))' BY <1>1 DEF Active
  <2>2. \A v : Settled(v) BY <2>1 DEF Settled
  <2> QED BY <1>1, <2>1, <2>2 DEF Inv, TopLevel
<1>5. Raising'
  BY <1>1 DEF Raising
<1> QED BY <1>2, <1>3, <1>4, <1>5 DEF Inv

\* A batch of a lower level adds to what was added, and takes nothing away.
LEMMA LevelAdds ==
  ASSUME Inv, NextLevel
  PROVE  /\ call \in 1 .. Len(CallEnds) /\ ptLevel \in Nat \ {0}
         /\ ptLevel <= TopOf(CallPoints(call)) /\ Added' = Added
<1>1. /\ fault = "none" /\ AtBarrier /\ ptLevel > 0 /\ ptLevel' = ptLevel - 1
      /\ todo' = Batch(call', ptLevel') /\ todo = {} /\ UNCHANGED call
  BY DEF NextLevel, AtBarrier, Batch
<1>2. call \in 1 .. Len(CallEnds) /\ ptLevel \in Nat \ {0} /\ ptLevel <= TopOf(CallPoints(call))
  BY <1>1, Ends DEF Inv, AtWork, Types
<1> DEFINE l == ptLevel - 1
<1>3. l \in Nat /\ l + 1 = ptLevel /\ ptLevel' = l
  BY <1>1, <1>2
<1>4. \A v \in Points : v \in todo' <=> v \in CallPoints(call) /\ Levels[v] = l + 1
  BY <1>1, <1>3 DEF Batch
<1>5. \A v \in Points : Levels[v] \in Nat
  BY Calls
<1> HIDE DEF l
<1>6. \A v \in Points : (v \notin todo' /\ (v \in CallPoints(call) => Levels[v] > l))
                        <=> (v \in CallPoints(call) => Levels[v] > ptLevel)
  BY <1>2, <1>3, <1>4, <1>5
<1>7. Added' = Added
  BY <1>1, <1>3, <1>6 DEF Added
<1> QED BY <1>2, <1>7

LEMMA NextLevelInv == ASSUME Inv, NextLevel PROVE Inv'
<1>1. /\ fault = "none" /\ AtBarrier /\ ptLevel' = ptLevel - 1
      /\ todo' = Batch(call', ptLevel')
      /\ UNCHANGED <<call, entryPoint, maxLevel, th, fault>>
  BY DEF NextLevel
<1>2. /\ call \in 1 .. Len(CallEnds) /\ ptLevel \in Nat \ {0} /\ Added' = Added
      /\ ptLevel <= TopOf(CallPoints(call))
  BY LevelAdds
<1>3. TopOf(CallPoints(call)) \in Nat /\ CallPoints(call)' = CallPoints(call)
  BY <1>1, <1>2, TopOfCall
<1>4. call' \in 1 .. Len(CallEnds) /\ ptLevel' \in Nat /\ ptLevel' <= TopOf(CallPoints(call'))
  BY <1>1, <1>2, <1>3
<1> QED BY <1>1, <1>2, <1>4, BatchInv

\* So does the first batch of a later call.
LEMMA CallAdds ==
  ASSUME Inv, NextCall
  PROVE  /\ call' \in 1 .. Len(CallEnds) /\ call' = call + 1 /\ Added' = Added
         /\ ptLevel' \in Nat /\ ptLevel' = TopOf(CallPoints(call'))
<1>1. /\ fault = "none" /\ AtBarrier /\ ptLevel = 0 /\ call < Len(CallEnds) /\ call' = call + 1
      /\ ptLevel' = TopOf(CallPoints(call')) /\ todo' = Batch(call', ptLevel') /\ todo = {}
  BY DEF NextCall, AtBarrier, Batch
<1>2. call \in 0 .. Len(CallEnds)
  BY DEF Inv, Types
<1> DEFINE c == call + 1
<1>3. c \in 1 .. Len(CallEnds) /\ c = call + 1 /\ call' = c
  BY <1>1, <1>2, Ends
<1> HIDE DEF c
<1> DEFINE top == TopOf(CallPoints(c))
<1>4. ptLevel' = top /\ top \in Nat /\ \A v \in CallPoints(c) : Levels[v] - 1 <= top
  BY <1>1, <1>3, TopOfCall
<1>5. Added' = Added
  <2>1. \A v \in Points : Levels[v] \in Nat \ {0} BY Calls
  <2>2. \A v \in Points : v \in todo' <=> v \in CallPoints(c) /\ Levels[v] = top + 1
    BY <1>1, <1>3, <1>4 DEF Batch
  <2>3. CallPoints(c) \subseteq Points
    BY <1>3, CallPointsAre
  <2> HIDE DEF top
  <2>4. \A v \in CallPoints(c) : v \in todo' \/ ~(Levels[v] > top)
    BY <1>4, <2>1, <2>2, <2>3
  <2>5. Added' = {v \in Points : v < CallEnds[c] /\ v \notin CallPoints(c)}
    <3>1. call' > 0 BY <1>3, Ends
    <3>2. Added' = {v \in Points : /\ v < CallEnds[c] /\ v \notin todo'
                                   /\ v \in CallPoints(c) => Levels[v] > top}
      BY <1>3, <1>4, <3>1 DEF Added
    <3> QED BY <2>2, <2>4, <3>2
  <2>6. Added = {v \in Points : call > 0 /\ v < CallEnds[call]}
    BY <1>1, <2>1 DEF Added
  <2>7. CASE call = 0
    <3>1. c = 1 BY <1>3, <2>7
    <3>2. \A v \in Points : v < CallEnds[c] => v \in CallPoints(c)
      BY <3>1, Ends DEF CallPoints, Points
    <3> QED BY <2>5, <2>6, <2>7, <3>2
  <2>8. CASE call # 0
    <3>1. /\ call \in 1 .. Len(CallEnds) /\ c # 1 /\ c - 1 = call /\ call < c
          /\ CallEnds[call] < CallEnds[c] /\ CallEnds[call] \in Nat /\ CallEnds[c] \in Nat
      BY <1>2, <1>3, <2>8, Ends, Calls
    <3>2. CallPoints(c) = CallEnds[call] .. CallEnds[c] - 1
      BY <3>1 DEF CallPoints
    <3>3. \A v \in Points : v \in Int BY DEF Points
    <3>4. \A v \in Points : v < CallEnds[c] /\ v \notin CallPoints(c) <=> v < CallEnds[call]
      BY <3>1, <3>2, <3>3
    <3> QED BY <2>5, <2>6, <2>8, <1>2, <3>4
  <2> QED BY <2>7, <2>8
<1> HIDE DEF top
<1> QED BY <1>1, <1>3, <1>4, <1>5

LEMMA NextCallInv == ASSUME Inv, NextCall PROVE Inv'
<1>1. /\ fault = "none" /\ AtBarrier /\ todo' = Batch(call', ptLevel')
      /\ UNCHANGED <<entryPoint, maxLevel, th, fault>>
  BY DEF NextCall
<1>2. /\ call' \in 1 .. Len(CallEnds) /\ Added' = Added
      /\ ptLevel' \in Nat /\ ptLevel' = TopOf(CallPoints(call'))
  BY CallAdds
<1>3. ptLevel' <= TopOf(CallPoints(call'))
  BY <1>2
<1> QED BY <1>1, <1>2, <1>3, BatchInv

LEMMA StepInv == Inv /\ [AddStep]_vars => Inv'
<1> SUFFICES ASSUME Inv, [AddStep]_vars PROVE Inv'
  OBVIOUS
<1>1. CASE NextCall BY <1>1, NextCallInv
<1>2. CASE NextLevel BY <1>2, NextLevelInv
<1>3. ASSUME NEW t \in Threads, Link(t) PROVE Inv'
  BY <1>3, StartInv, GreedyInv, ExpandInv, LinkOwnInv, LinkBackInv, DownInv, RaiseLevelInv,
     RaisePointInv DEF Link
<1>4. ASSUME NEW t \in Threads, NEW v \in todo, Take(t, v) PROVE Inv'
  BY <1>4, TakeInv
<1>5. CASE UNCHANGED vars
  BY <1>5 DEF vars, Inv, Types, AtWork, TopLevel, Raising, NewTop, Active, Settled, Added,
     Parallel, Batch
<1> QED BY <1>1, <1>2, <1>3, <1>4, <1>5 DEF AddStep
-----------------------------------------------------------------------------
\* At a barrier the top level and the entry point are those of what was added:
\* nobody is at work, so every vector added is covered, and the entry point,
\* which is one of them, has the top level.
LEMMA AtTop == Inv => EntryAtTop
<1> SUFFICES ASSUME Inv PROVE EntryAtTop
  OBVIOUS
<1>1. ASSUME AtBarrier, call > 0, fault = "none"
      PROVE  maxLevel = TopOf(Added) /\ Levels[entryPoint] = maxLevel + 1
  <2>1. call \in 1 .. Len(CallEnds) /\ todo = {} /\ \A t \in Threads : th[t].pc = "idle"
    BY <1>1, Ends DEF Inv, Types, AtBarrier
  <2>2. \A v : Settled(v)
    BY <2>1 DEF Settled, Active
  <2>3. Added # {}
    <3>1. PICK v \in CallPoints(call) : TopOf(CallPoints(call)) = Levels[v] - 1
      BY <2>1, TopOfCall
    <3>2. /\ v \in Points /\ v < CallEnds[call] /\ Levels[v] \in Nat
          /\ ptLevel \in Nat /\ ptLevel <= TopOf(CallPoints(call))
      BY <1>1, <2>1, CallPointsAre, Calls DEF Inv, Types, AtWork
    <3>3. Levels[v] > ptLevel BY <3>1, <3>2
    <3> QED BY <1>1, <2>1, <3>2, <3>3 DEF Added
  <2>4. entryPoint \in Added /\ Levels[entryPoint] - 1 = maxLevel
    BY <1>1, <2>1, <2>3 DEF Inv, TopLevel, Active
  <2>5. Added \subseteq Points /\ IsFiniteSet(Added) /\ \A v \in Points : Levels[v] \in Nat
    <3>1. NumPoints \in Nat BY Ends DEF NumPoints
    <3>2. 0 \in Int /\ NumPoints - 1 \in Int BY <3>1
    <3>3. IsFiniteSet(Points) BY <3>2, FS_Interval DEF Points
    <3> QED BY <3>3, FS_Subset, Calls DEF Added
  <2>6. /\ TopOf(Added) \in Nat /\ \A v \in Added : Levels[v] - 1 <= TopOf(Added)
        /\ \E v \in Added : TopOf(Added) = Levels[v] - 1
    BY <2>3, <2>5, TopIs
  <2>7. \A v \in Added : maxLevel >= Levels[v] - 1
    BY <1>1, <2>2 DEF Inv, TopLevel
  <2>8. maxLevel \in Int BY DEF Inv, Types
  <2> QED BY <2>4, <2>5, <2>6, <2>7, <2>8
<1>2. fault = "torn" => call > 1 /\ Parallel /\ \A c \in 1 .. call - 1 : ptLevel > TopOf(CallPoints(c))
  BY DEF Inv, NewTop
<1> QED BY <1>1, <1>2 DEF EntryAtTop

\* Whatever the vectors, their distances and their levels, and however many
\* threads link them and in whatever order: when a batch of an add is through,
\* max_level is the highest level of a vector added and entry_point a vector of
\* that level, although the threads that raise the two take no lock; and only in
\* a later call, beside another thread and with a batch above all calls before,
\* may a thread meet an entry point below the top level it reads.
THEOREM EntryPointAtTop == AddSpec => []EntryAtTop
<1>1. AddSpec => []Inv
  BY InitInv, StepInv, PTL DEF AddSpec
<1> QED BY <1>1, AtTop, PTL
-----------------------------------------------------------------------------
\* What the proofs about the lists use of the assumption.
LEMMA Parameters ==
  /\ M \in Nat /\ M >= 2 /\ MBeta \in Nat
  /\ \A g \in Gammas : g \in Nat /\ g >= 1
BY AcornAssumption

\* The sizes of the lists, level by level.
LEMMA CumSteps ==
  ASSUME NEW g \in Gammas
  PROVE  /\ Cum(g, 0) = 0 /\ Cum(g, 1) \in Nat /\ Cum(g, 1) >= 3
         /\ M * g \in Nat /\ M * g >= 2
         /\ \A l \in Nat \ {0} : Cum(g, l) \in Nat /\ Cum(g, l + 1) = Cum(g, l) + M * g
<1>1. M \in Nat /\ M >= 2 /\ MBeta \in Nat /\ g \in Nat /\ g >= 1
  BY Parameters
<1>2. M * g \in Nat /\ M * g >= 2
  BY <1>1
<1>3. (3 * M) \div 2 \in Nat /\ (3 * M) \div 2 >= 3
  BY <1>1
<1> DEFINE base == MBeta + (3 * M) \div 2
<1>4. base \in Nat /\ base >= 3
  BY <1>1, <1>3
<1>5. Cum(g, 0) = 0
  BY DEF Cum
<1>6. ASSUME NEW l \in Nat \ {0} PROVE Cum(g, l) = base + (l - 1) * M * g
  BY DEF Cum
<1>7. ASSUME NEW k \in Nat PROVE k * M * g = k * (M * g) /\ k * (M * g) \in Nat
  <2>1. k * M * g = k * (M * g) BY <1>1
  <2>2. k * (M * g) \in Nat BY <1>2
  <2> QED BY <2>1, <2>2
<1> HIDE DEF base
<1>8. ASSUME NEW l \in Nat \ {0} PROVE Cum(g, l) \in Nat /\ Cum(g, l + 1) = Cum(g, l) + M * g
  <2>1. PICK k \in Nat : l = k + 1
    <3>1. l - 1 \in Nat /\ l = (l - 1) + 1 OBVIOUS
    <3> QED BY <3>1
  <2>2. Cum(g, l) = base + k * (M * g)
    <3>1. l - 1 = k BY <2>1
    <3> QED BY <1>6, <1>7, <3>1
  <2>3. Cum(g, l + 1) = base + l * (M * g)
    <3>1. (l + 1) - 1 = l /\ l + 1 \in Nat \ {0} OBVIOUS
    <3> QED BY <1>6, <1>7, <3>1
  <2>4. l * (M * g) = k * (M * g) + M * g
    <3>1. PICK m : m = M * g OBVIOUS
    <3>2. m \in Nat BY <1>2, <3>1
    <3>3. (k + 1) * m = k * m + m BY <3>2
    <3> QED BY <2>1, <3>1, <3>3
  <2>5. PICK a : a = k * (M * g) /\ a \in Nat BY <1>7
  <2>6. PICK m : m = M * g /\ m \in Nat BY <1>2
  <2> QED BY <1>4, <2>2, <2>3, <2>4, <2>5, <2>6
<1>9. Cum(g, 1) = base
  <2>1. (1 - 1) * M * g = 0 BY <1>1
  <2>2. Cum(g, 1) = base + (1 - 1) * M * g
    <3>1. 1 \in Nat \ {0} OBVIOUS
    <3> QED BY <1>6, <3>1
  <2>3. PICK z : z = (1 - 1) * M * g OBVIOUS
  <2>4. z = 0 /\ Cum(g, 1) = base + z BY <2>1, <2>2, <2>3
  <2> QED BY <1>4, <2>4
<1> QED BY <1>2, <1>4, <1>5, <1>8, <1>9

\* A level has at least two slots, and its slots come before those of the next.
LEMMA CumIs ==
  ASSUME NEW g \in Gammas, NEW l \in Nat
  PROVE  /\ Cum(g, l) \in Nat /\ Cum(g, l + 1) \in Nat /\ Cum(g, l) + 2 <= Cum(g, l + 1)
         /\ \A k \in Nat : l <= k => Cum(g, l) <= Cum(g, k)
<1>1. ASSUME NEW k \in Nat
      PROVE  Cum(g, k) \in Nat /\ Cum(g, k + 1) \in Nat /\ Cum(g, k) + 2 <= Cum(g, k + 1)
  <2>1. CASE k = 0 BY <2>1, CumSteps
  <2>2. CASE k # 0
    <3>1. PICK m : m = M * g OBVIOUS
    <3>2. m \in Nat /\ m >= 2 /\ Cum(g, k) \in Nat /\ Cum(g, k + 1) = Cum(g, k) + m
      BY <2>2, <3>1, CumSteps
    <3> QED BY <3>2
  <2> QED BY <2>1, <2>2
<1>2. ASSUME NEW k \in Nat, l <= k PROVE Cum(g, l) <= Cum(g, k)
  <2> DEFINE T == {i \in Nat : l <= i /\ ~(Cum(g, l) <= Cum(g, i))}
  <2>1. SUFFICES T = {}
    BY <1>2
  <2>2. SUFFICES ASSUME NEW j \in T, \A i \in T : j <= i PROVE FALSE
    <3>1. T \subseteq Nat OBVIOUS
    <3> HIDE DEF T
    <3> QED BY <3>1, LeastMember
  <2>3. j # l /\ j - 1 \in Nat /\ l <= j - 1
    <3>1. j \in Nat /\ l <= j /\ ~(Cum(g, l) <= Cum(g, j)) OBVIOUS
    <3>2. Cum(g, l) \in Nat BY <1>1
    <3>3. j # l BY <3>1, <3>2
    <3> QED BY <3>1, <3>3
  <2>4. j - 1 \notin T
    <3>1. ~(j <= j - 1) OBVIOUS
    <3> HIDE DEF T
    <3> QED BY <2>2, <3>1
  <2>5. Cum(g, l) <= Cum(g, j - 1) BY <2>3, <2>4
  <2>6. Cum(g, j - 1) + 2 <= Cum(g, j) /\ Cum(g, j - 1) \in Nat /\ Cum(g, j) \in Nat /\ Cum(g, l) \in Nat
    <3>1. (j - 1) + 1 = j OBVIOUS
    <3> QED BY <1>1, <2>3, <3>1
  <2> QED BY <2>5, <2>6
<1> QED BY <1>1, <1>2

\* The offsets of the vectors are the sums of the slots of those before.
LEMMA OffsetsAre ==
  ASSUME NEW g \in Gammas
  PROVE  /\ \A v \in 0 .. NumPoints : Offsets[g][v] \in Nat
         /\ \A v \in Points : Offsets[g][v + 1] = Offsets[g][v] + Cum(g, Levels[v])
<1>1. NumPoints \in Nat /\ \A v \in Points : Levels[v] \in Nat
  BY Ends, Calls DEF NumPoints
<1> DEFINE X == 0 .. NumPoints
           size == [v \in X |-> v]
           base == [v \in X |-> 0]
           prev == [v \in X |-> v - 1]
           step == [p \in X \X Nat |-> p[2] + (IF p[1] = 0 THEN 0 ELSE Cum(g, Levels[p[1] - 1]))]
           IsFrom(f) == f = [v \in X |-> IF v = 0 THEN 0 ELSE f[v - 1] + Cum(g, Levels[v - 1])]
<1>2. \A v \in X : v # 0 => v - 1 \in Points /\ v - 1 \in X /\ Cum(g, Levels[v - 1]) \in Nat
  <2>1. \A v \in X : v # 0 => v - 1 \in Points /\ v - 1 \in X BY <1>1 DEF Points
  <2> QED BY <1>1, <2>1, CumIs
<1>3. \E f \in [X -> Nat] : IsFrom(f)
  <2>1. Descends(X, Nat, size, base, prev, step)
    <3> SUFFICES ASSUME NEW v \in X
                 PROVE  /\ size[v] \in Nat /\ base[v] \in Nat
                        /\ size[v] # 0 => /\ prev[v] \in X /\ size[prev[v]] < size[v]
                                          /\ \A n \in Nat : step[<<v, n>>] \in Nat
      BY DEF Descends
    <3>1. size[v] = v /\ base[v] = 0 /\ prev[v] = v - 1 /\ v \in Nat BY <1>1
    <3>2. ASSUME v # 0 PROVE v - 1 \in X /\ size[v - 1] = v - 1 BY <1>2, <3>2
    <3>3. ASSUME v # 0, NEW n \in Nat PROVE step[<<v, n>>] \in Nat
      <4>1. step[<<v, n>>] = n + Cum(g, Levels[v - 1]) BY <3>3
      <4> QED BY <1>2, <3>3, <4>1
    <3> HIDE DEF X, size, base, prev, step
    <3> QED BY <3>1, <3>2, <3>3
  <2>2. \A v \in X : size[v] <= NumPoints BY <1>1
  <2>3. PICK f \in [X -> Nat] : IsRecursive(f, X, size, base, prev, step)
    <3> HIDE DEF X, size, base, prev, step
    <3> QED BY <1>1, <2>1, <2>2, RecursionExists
  <2>4. \A v \in X : f[v] = IF v = 0 THEN 0 ELSE f[v - 1] + Cum(g, Levels[v - 1])
    <3> SUFFICES ASSUME NEW v \in X
                 PROVE  f[v] = IF v = 0 THEN 0 ELSE f[v - 1] + Cum(g, Levels[v - 1])
      OBVIOUS
    <3>1. f[v] = IF size[v] = 0 THEN base[v] ELSE step[<<v, f[prev[v]]>>]
      <4> HIDE DEF X, size, base, prev, step
      <4> QED BY <2>3 DEF IsRecursive
    <3>2. CASE v = 0 BY <3>1, <3>2
    <3>3. CASE v # 0
      <4>1. v - 1 \in X /\ f[v - 1] \in Nat BY <1>2, <2>3, <3>3
      <4>2. step[<<v, f[v - 1]>>] = f[v - 1] + Cum(g, Levels[v - 1]) BY <3>3, <4>1
      <4> QED BY <3>1, <3>3, <4>2
    <3> QED BY <3>2, <3>3
  <2>5. IsFrom(f) BY <2>3, <2>4
  <2> QED BY <2>3, <2>5
<1> DEFINE from == CHOOSE f : IsFrom(f)
<1>4. IsFrom(from)
  <2>1. \E f : IsFrom(f) BY <1>3
  <2> HIDE DEF IsFrom
  <2> QED BY <2>1
<1>5. Offsets[g] = [v \in 0 .. NumPoints |-> from[v]]
  BY DEF Offsets
<1>6. \A v \in X : from[v] = IF v = 0 THEN 0 ELSE from[v - 1] + Cum(g, Levels[v - 1])
  <2> HIDE DEF from
  <2> QED BY <1>4
<1>7. \A v \in X : Offsets[g][v] = IF v = 0 THEN 0 ELSE Offsets[g][v - 1] + Cum(g, Levels[v - 1])
  <2> HIDE DEF from
  <2> QED BY <1>2, <1>5, <1>6
<1> HIDE DEF from
<1>8. \A v \in 0 .. NumPoints : Offsets[g][v] \in Nat
  <2> DEFINE T == {v \in Nat : v <= NumPoints /\ Offsets[g][v] \notin Nat}
  <2>1. SUFFICES T = {}
    BY <1>1
  <2>2. SUFFICES ASSUME NEW v \in T, \A u \in T : v <= u PROVE FALSE
    <3>1. T \subseteq Nat OBVIOUS
    <3> HIDE DEF T
    <3> QED BY <3>1, LeastMember
  <2>3. v \in X BY <1>1
  <2>4. v # 0 BY <1>7, <2>3
  <2>5. v - 1 \notin T
    <3>1. ~(v <= v - 1) OBVIOUS
    <3> HIDE DEF T
    <3> QED BY <2>2, <3>1
  <2>6. v - 1 \in Nat /\ v - 1 <= NumPoints BY <1>1, <2>3, <2>4
  <2>7. Offsets[g][v - 1] \in Nat BY <2>5, <2>6
  <2>8. Offsets[g][v] = Offsets[g][v - 1] + Cum(g, Levels[v - 1]) BY <1>7, <2>3, <2>4
  <2>9. Cum(g, Levels[v - 1]) \in Nat BY <1>2, <2>3, <2>4
  <2> QED BY <2>7, <2>8, <2>9
<1>9. ASSUME NEW v \in Points PROVE Offsets[g][v + 1] = Offsets[g][v] + Cum(g, Levels[v])
  <2>1. v + 1 \in X /\ v + 1 # 0 /\ (v + 1) - 1 = v BY <1>1 DEF Points
  <2> QED BY <1>7, <2>1
<1> QED BY <1>8, <1>9

\* The lists of a vector come before those of the next.
LEMMA OffsetsInOrder ==
  ASSUME NEW g \in Gammas, NEW v \in Points, NEW n \in 0 .. NumPoints, v < n
  PROVE  Offsets[g][v] + Cum(g, Levels[v]) <= Offsets[g][n]
<1>1. NumPoints \in Nat /\ v \in Nat /\ \A u \in Points : Levels[u] \in Nat
  <2>1. NumPoints \in Nat BY Ends DEF NumPoints
  <2>2. v \in Nat BY <2>1 DEF Points
  <2>3. \A u \in Points : Levels[u] \in Nat BY Calls
  <2> QED BY <2>1, <2>2, <2>3
<1> DEFINE T == {i \in Nat : v < i /\ i <= NumPoints /\ ~(Offsets[g][v + 1] <= Offsets[g][i])}
<1>2. T = {}
  <2>1. SUFFICES ASSUME NEW i \in T, \A j \in T : i <= j PROVE FALSE
    <3>1. T \subseteq Nat OBVIOUS
    <3> HIDE DEF T
    <3> QED BY <3>1, LeastMember
  <2>2. i # v + 1
    <3>1. v + 1 \in 0 .. NumPoints BY <1>1 DEF Points
    <3>2. Offsets[g][v + 1] \in Nat BY <3>1, OffsetsAre
    <3>3. i = v + 1 => ~(Offsets[g][v + 1] <= Offsets[g][v + 1]) OBVIOUS
    <3> QED BY <3>2, <3>3
  <2>3. i - 1 \in Nat /\ v < i - 1 /\ i - 1 <= NumPoints /\ i - 1 \in Points
    <3>1. i \in Nat /\ v < i /\ i <= NumPoints OBVIOUS
    <3> QED BY <1>1, <2>2, <3>1 DEF Points
  <2>4. i - 1 \notin T
    <3>1. ~(i <= i - 1) OBVIOUS
    <3> HIDE DEF T
    <3> QED BY <2>1, <3>1
  <2>5. Offsets[g][v + 1] <= Offsets[g][i - 1] BY <2>3, <2>4
  <2>6. Offsets[g][i] = Offsets[g][i - 1] + Cum(g, Levels[i - 1])
    <3>1. (i - 1) + 1 = i OBVIOUS
    <3> QED BY <2>3, <3>1, OffsetsAre
  <2>7. Cum(g, Levels[i - 1]) \in Nat BY <1>1, <2>3, CumIs
  <2>8. Offsets[g][v + 1] \in Nat /\ Offsets[g][i - 1] \in Nat /\ Offsets[g][i] \in Nat
    <3>1. v + 1 \in 0 .. NumPoints /\ i - 1 \in 0 .. NumPoints /\ i \in 0 .. NumPoints
      BY <1>1, <2>3 DEF Points
    <3> QED BY <3>1, OffsetsAre
  <2>9. ~(Offsets[g][v + 1] <= Offsets[g][i]) OBVIOUS
  <2> HIDE DEF T
  <2> QED BY <2>5, <2>6, <2>7, <2>8, <2>9
<1>3. Offsets[g][v + 1] <= Offsets[g][n]
  BY <1>1, <1>2
<1> QED BY <1>3, OffsetsAre

\* the slots of a list
Place(v, l) == Begin(v, l) .. End(v, l) - 1

\* Where the slots of a list are in the array.
LEMMA SlotsAre ==
  ASSUME gamma \in Gammas, NEW v \in Points, NEW l \in 0 .. Levels[v] - 1
  PROVE  /\ Begin(v, l) \in Nat /\ End(v, l) \in Nat
         /\ NbNeighbors(l) \in Nat /\ NbNeighbors(l) >= 2
         /\ End(v, l) = Begin(v, l) + NbNeighbors(l)
         /\ \A n \in 0 .. NumPoints : v < n => End(v, l) <= Offsets[gamma][n]
<1>1. NumPoints \in Nat /\ v \in 0 .. NumPoints /\ Levels[v] \in Nat /\ l \in Nat /\ l + 1 <= Levels[v]
  BY Ends, Calls DEF NumPoints, Points
<1>2. PICK b : b = Offsets[gamma][v] /\ b \in Nat
  BY <1>1, OffsetsAre
<1>3. PICK c : c = Cum(gamma, l) /\ c \in Nat
  BY <1>1, CumIs
<1>4. PICK d : d = Cum(gamma, l + 1) /\ d \in Nat /\ c + 2 <= d
  BY <1>1, <1>3, CumIs
<1>5. Begin(v, l) = b + c /\ End(v, l) = b + d /\ NbNeighbors(l) = d - c
  BY <1>2, <1>3, <1>4 DEF Begin, End, NbNeighbors
<1>6. ASSUME NEW n \in 0 .. NumPoints, v < n PROVE b + d <= Offsets[gamma][n]
  <2>1. b + Cum(gamma, Levels[v]) <= Offsets[gamma][n] BY <1>2, <1>6, OffsetsInOrder
  <2>2. d <= Cum(gamma, Levels[v]) /\ Cum(gamma, Levels[v]) \in Nat
    <3>1. PICK k \in Nat : k = l + 1 BY <1>1
    <3> QED BY <1>1, <1>4, <3>1, CumIs
  <2>3. Offsets[gamma][n] \in Nat BY OffsetsAre
  <2> QED BY <1>2, <1>4, <2>1, <2>2, <2>3
<1> QED BY <1>2, <1>3, <1>4, <1>5, <1>6

\* No slot is in two lists.
LEMMA SlotsApart ==
  ASSUME gamma \in Gammas, NEW v \in Points, NEW l \in 0 .. Levels[v] - 1,
         NEW w \in Points, NEW k \in 0 .. Levels[w] - 1, v # w \/ l # k,
         NEW i \in Place(v, l)
  PROVE  i \notin Place(w, k)
<1>1. ASSUME NEW x \in Points, NEW p \in 0 .. Levels[x] - 1,
             NEW y \in Points, NEW q \in 0 .. Levels[y] - 1, x < y \/ (x = y /\ p < q)
      PROVE  End(x, p) <= Begin(y, q) /\ Begin(x, p) \in Nat /\ End(x, p) \in Nat
             /\ Begin(y, q) \in Nat /\ End(y, q) \in Nat
  <2>1. Begin(x, p) \in Nat /\ End(x, p) \in Nat /\ Begin(y, q) \in Nat /\ End(y, q) \in Nat
    BY SlotsAre
  <2>2. CASE x < y
    <3>1. y \in 0 .. NumPoints BY Ends DEF NumPoints, Points
    <3>2. End(x, p) <= Offsets[gamma][y] BY <2>2, <3>1, SlotsAre
    <3>3. Offsets[gamma][y] \in Nat /\ Cum(gamma, q) \in Nat
      BY <3>1, OffsetsAre, CumIs, Calls
    <3>4. Begin(y, q) = Offsets[gamma][y] + Cum(gamma, q) BY DEF Begin
    <3> QED BY <2>1, <3>2, <3>3, <3>4
  <2>3. CASE x = y /\ p < q
    <3>1. p + 1 \in Nat /\ q \in Nat /\ p + 1 <= q BY <2>3, Calls
    <3>2. Cum(gamma, p + 1) <= Cum(gamma, q) /\ Cum(gamma, p + 1) \in Nat /\ Cum(gamma, q) \in Nat
      BY <3>1, CumIs
    <3>3. Offsets[gamma][x] \in Nat
      <4>1. x \in 0 .. NumPoints BY Ends DEF NumPoints, Points
      <4> QED BY <4>1, OffsetsAre
    <3>4. End(x, p) = Offsets[gamma][x] + Cum(gamma, p + 1) BY DEF Begin, End
    <3>5. Begin(y, q) = Offsets[gamma][x] + Cum(gamma, q) BY <2>3 DEF Begin
    <3> QED BY <2>1, <3>2, <3>3, <3>4, <3>5
  <2> QED BY <1>1, <2>1, <2>2, <2>3
<1>2. v < w \/ (v = w /\ l < k) \/ w < v \/ (w = v /\ k < l)
  <2>1. v \in Int /\ w \in Int /\ l \in Int /\ k \in Int BY DEF Points
  <2> QED BY <2>1
<1>3. CASE v < w \/ (v = w /\ l < k)
  <2>1. End(v, l) <= Begin(w, k) /\ Begin(v, l) \in Nat /\ End(v, l) \in Nat /\ Begin(w, k) \in Nat
    BY <1>1, <1>3
  <2> QED BY <2>1 DEF Place
<1>4. CASE w < v \/ (w = v /\ k < l)
  <2>1. /\ End(w, k) <= Begin(v, l) /\ Begin(v, l) \in Nat /\ End(v, l) \in Nat
        /\ Begin(w, k) \in Nat /\ End(w, k) \in Nat
    BY <1>1, <1>4
  <2> QED BY <2>1 DEF Place
<1> QED BY <1>2, <1>3, <1>4
-----------------------------------------------------------------------------
\* What holds of 0, and of i if it holds of i - 1, holds along 0 .. n.
LEMMA Along ==
  ASSUME NEW n \in Nat, NEW P, 0 \in P, \A i \in 1 .. n : i - 1 \in P => i \in P
  PROVE  \A i \in 0 .. n : i \in P
<1> DEFINE T == {i \in Nat : i <= n /\ i \notin P}
<1>1. SUFFICES T = {} OBVIOUS
<1>2. SUFFICES ASSUME NEW i \in T, \A j \in T : i <= j PROVE FALSE
  <2>1. T \subseteq Nat OBVIOUS
  <2> HIDE DEF T
  <2> QED BY <2>1, LeastMember
<1>3. i # 0 /\ i \in 1 .. n OBVIOUS
<1>4. i - 1 \notin T
  <2>1. ~(i <= i - 1) OBVIOUS
  <2> HIDE DEF T
  <2> QED BY <1>2, <2>1
<1>5. i - 1 \in P BY <1>3, <1>4
<1> QED BY <1>3, <1>5

LEMMA TheIs == \A x : The({x}) = x
BY DEF The

\* The steps of a fold.
LEMMA SortSteps ==
  ASSUME NEW v, NEW s, Len(s) \in Nat
  PROVE  \E f : /\ f[0] = <<>>
                /\ \A i \in 1 .. Len(s) : f[i] = Inserted(v, f[i - 1], s[i])
                /\ NearestFirst(v, s) = f[Len(s)]
<1> DEFINE IsRun(f, n) ==
             f = [i \in 0 .. n |-> IF i = 0 THEN <<>>
                                   ELSE The({Inserted(v, acc, s[i]) : acc \in {f[i - 1]}})]
           Folded(l) == (CHOOSE f : f = [i \in 0 .. Len(l) |-> IF i = 0 THEN <<>>
                                   ELSE The({Inserted(v, acc, l[i]) : acc \in {f[i - 1]}})])[Len(l)]
           P == {n \in Nat : \E f : IsRun(f, n)}
<1>1. \A f, i : The({Inserted(v, acc, s[i]) : acc \in {f[i - 1]}}) = Inserted(v, f[i - 1], s[i])
  <2>1. \A f, i : {Inserted(v, acc, s[i]) : acc \in {f[i - 1]}} = {Inserted(v, f[i - 1], s[i])} OBVIOUS
  <2> QED BY <2>1, TheIs
<1>2. \A i \in 0 .. Len(s) : i \in P
  <2>1. 0 \in P
    <3>1. IsRun([i \in 0 .. 0 |-> <<>>], 0) OBVIOUS
    <3> HIDE DEF IsRun
    <3> QED BY <3>1
  <2>2. ASSUME NEW i \in 1 .. Len(s), i - 1 \in P PROVE i \in P
    <3>1. PICK f : IsRun(f, i - 1) BY <2>2
    <3> DEFINE h == [j \in 0 .. i |-> IF j = i THEN Inserted(v, f[i - 1], s[i]) ELSE f[j]]
    <3>2. h = [j \in 0 .. i |-> IF j = 0 THEN <<>> ELSE Inserted(v, h[j - 1], s[j])]
      <4> SUFFICES ASSUME NEW j \in 0 .. i
                   PROVE  h[j] = IF j = 0 THEN <<>> ELSE Inserted(v, h[j - 1], s[j])
        OBVIOUS
      <4>1. CASE j = i /\ i > 0 BY <4>1
      <4>2. CASE j < i
        <5>1. j \in 0 .. i - 1 /\ h[j] = f[j] BY <4>2
        <5>2. f[j] = IF j = 0 THEN <<>> ELSE Inserted(v, f[j - 1], s[j]) BY <1>1, <3>1, <5>1
        <5>3. j # 0 => h[j - 1] = f[j - 1] BY <5>1
        <5> QED BY <5>1, <5>2, <5>3
      <4> QED BY <4>1, <4>2
    <3>3. IsRun(h, i)
      <4> HIDE DEF h
      <4> QED BY <1>1, <3>2
    <3> HIDE DEF IsRun
    <3> QED BY <3>3
  <2> HIDE DEF P
  <2> QED BY <2>1, <2>2, Along
<1>3. PICK f : f = (CHOOSE g : IsRun(g, Len(s)))
  OBVIOUS
<1>4. IsRun(f, Len(s))
  <2>1. \E g : IsRun(g, Len(s))
    <3>1. Len(s) \in 0 .. Len(s) OBVIOUS
    <3>2. Len(s) \in P
      <4> HIDE DEF P
      <4> QED BY <1>2, <3>1
    <3> QED BY <3>2
  <2> HIDE DEF IsRun
  <2> QED BY <1>3, <2>1
<1>5. NearestFirst(v, s) = f[Len(s)]
  <2>1. NearestFirst(v, s) = The({Folded(l) : l \in {s}}) BY DEF NearestFirst, Fold
  <2>2. {Folded(l) : l \in {s}} = {Folded(s)}
    <3> HIDE DEF Folded
    <3> QED OBVIOUS
  <2>3. Folded(s) = f[Len(s)] BY <1>3
  <2> HIDE DEF Folded
  <2> QED BY <2>1, <2>2, <2>3, TheIs
<1>6. \A i \in 0 .. Len(s) : f[i] = IF i = 0 THEN <<>> ELSE Inserted(v, f[i - 1], s[i])
  BY <1>1, <1>4
<1>7. f[0] = <<>> /\ \A i \in 1 .. Len(s) : f[i] = Inserted(v, f[i - 1], s[i])
  BY <1>6
<1> QED BY <1>5, <1>7
-----------------------------------------------------------------------------
NoneKept == [kept |-> <<>>, near |-> {}, num |-> 0, full |-> FALSE]
NoneLinked == [nbrs |-> neighbors, spilled |-> FALSE]

KeepRun(f, nbrs, maxSize, s, n) ==
  f[0] = NoneKept /\ \A i \in 1 .. n : f[i] = Keep(nbrs, maxSize, f[i - 1], s[i])
LinkRun(f, r, s, n) == f[0] = NoneLinked /\ \A i \in 1 .. n : f[i] = LinkTo(f[i - 1], r, s[i])
WeighRun(f, r, s, n) == f[0] = r /\ \A i \in 1 .. n : f[i] = Weigh(f[i - 1], s[i])

\* Each fold goes through a list one member after the other.
LEMMA KeepSteps ==
  ASSUME NEW nbrs, NEW maxSize, NEW s, Len(s) \in Nat
  PROVE  \E f : KeepRun(f, nbrs, maxSize, s, Len(s)) /\ Shrink(nbrs, s, maxSize) = f[Len(s)].kept
<1> DEFINE first == [kept |-> <<>>, near |-> {}, num |-> 0, full |-> FALSE]
           IsRun(f, n) ==
             f = [i \in 0 .. n |->
                    IF i = 0 THEN first
                    ELSE The({Keep(nbrs, maxSize, acc, s[i]) : acc \in {f[i - 1]}})]
           Folded(l) ==
             (CHOOSE f : f = [i \in 0 .. Len(l) |->
                                IF i = 0 THEN first
                                ELSE The({Keep(nbrs, maxSize, acc, l[i]) : acc \in {f[i - 1]}})])[Len(l)]
           P == {n \in Nat : \E f : IsRun(f, n)}
<1>1. \A f, i : The({Keep(nbrs, maxSize, acc, s[i]) : acc \in {f[i - 1]}}) = Keep(nbrs, maxSize, f[i - 1], s[i])
  <2>1. \A f, i : {Keep(nbrs, maxSize, acc, s[i]) : acc \in {f[i - 1]}} = {Keep(nbrs, maxSize, f[i - 1], s[i])}
    OBVIOUS
  <2> QED BY <2>1, TheIs
<1>2. \A i \in 0 .. Len(s) : i \in P
  <2>1. 0 \in P
    <3>1. IsRun([i \in 0 .. 0 |-> first], 0) OBVIOUS
    <3> HIDE DEF IsRun
    <3> QED BY <3>1
  <2>2. ASSUME NEW i \in 1 .. Len(s), i - 1 \in P PROVE i \in P
    <3>1. PICK f : IsRun(f, i - 1) BY <2>2
    <3> DEFINE h == [j \in 0 .. i |-> IF j = i THEN Keep(nbrs, maxSize, f[i - 1], s[i]) ELSE f[j]]
    <3>2. h = [j \in 0 .. i |-> IF j = 0 THEN first ELSE Keep(nbrs, maxSize, h[j - 1], s[j])]
      <4> SUFFICES ASSUME NEW j \in 0 .. i
                   PROVE  h[j] = IF j = 0 THEN first ELSE Keep(nbrs, maxSize, h[j - 1], s[j])
        OBVIOUS
      <4>1. CASE j = i /\ i > 0 BY <4>1
      <4>2. CASE j < i
        <5>1. j \in 0 .. i - 1 /\ h[j] = f[j] BY <4>2
        <5>2. f[j] = IF j = 0 THEN first ELSE Keep(nbrs, maxSize, f[j - 1], s[j])
          BY <1>1, <3>1, <5>1
        <5>3. j # 0 => h[j - 1] = f[j - 1] BY <5>1
        <5> QED BY <5>1, <5>2, <5>3
      <4> QED BY <4>1, <4>2
    <3>3. IsRun(h, i)
      <4> HIDE DEF h
      <4> QED BY <1>1, <3>2
    <3> HIDE DEF IsRun
    <3> QED BY <3>3
  <2> HIDE DEF P
  <2> QED BY <2>1, <2>2, Along
<1>3. PICK f : f = (CHOOSE g : IsRun(g, Len(s)))
  OBVIOUS
<1>4. IsRun(f, Len(s))
  <2>1. \E g : IsRun(g, Len(s))
    <3>1. Len(s) \in 0 .. Len(s) OBVIOUS
    <3>2. Len(s) \in P
      <4> HIDE DEF P
      <4> QED BY <1>2, <3>1
    <3> QED BY <3>2
  <2> HIDE DEF IsRun
  <2> QED BY <1>3, <2>1
<1>5. Shrink(nbrs, s, maxSize) = f[Len(s)].kept
  <2>1. Shrink(nbrs, s, maxSize) = The({Folded(l) : l \in {s}}).kept BY DEF Shrink, Fold
  <2>2. {Folded(l) : l \in {s}} = {Folded(s)}
    <3> HIDE DEF Folded
    <3> QED OBVIOUS
  <2>3. Folded(s) = f[Len(s)] BY <1>3
  <2> HIDE DEF Folded
  <2> QED BY <2>1, <2>2, <2>3, TheIs
<1>6. \A i \in 0 .. Len(s) : f[i] = IF i = 0 THEN first ELSE Keep(nbrs, maxSize, f[i - 1], s[i])
  BY <1>1, <1>4
<1> HIDE DEF first
<1>7. f[0] = first /\ \A i \in 1 .. Len(s) : f[i] = Keep(nbrs, maxSize, f[i - 1], s[i])
  BY <1>6
<1> QED BY <1>5, <1>7 DEF first, NoneKept, KeepRun

LEMMA LinkSteps ==
  ASSUME NEW r, NEW s, Len(s) \in Nat
  PROVE  \E f : LinkRun(f, r, s, Len(s)) /\ LinkToAll(r, s) = f[Len(s)]
<1> DEFINE first == [nbrs |-> neighbors, spilled |-> FALSE]
           IsRun(f, n) ==
             f = [i \in 0 .. n |->
                    IF i = 0 THEN first
                    ELSE The({LinkTo(acc, r, s[i]) : acc \in {f[i - 1]}})]
           Folded(l) ==
             (CHOOSE f : f = [i \in 0 .. Len(l) |->
                                IF i = 0 THEN first
                                ELSE The({LinkTo(acc, r, l[i]) : acc \in {f[i - 1]}})])[Len(l)]
           P == {n \in Nat : \E f : IsRun(f, n)}
<1>1. \A f, i : The({LinkTo(acc, r, s[i]) : acc \in {f[i - 1]}}) = LinkTo(f[i - 1], r, s[i])
  <2>1. \A f, i : {LinkTo(acc, r, s[i]) : acc \in {f[i - 1]}} = {LinkTo(f[i - 1], r, s[i])}
    OBVIOUS
  <2> QED BY <2>1, TheIs
<1>2. \A i \in 0 .. Len(s) : i \in P
  <2>1. 0 \in P
    <3>1. IsRun([i \in 0 .. 0 |-> first], 0) OBVIOUS
    <3> HIDE DEF IsRun
    <3> QED BY <3>1
  <2>2. ASSUME NEW i \in 1 .. Len(s), i - 1 \in P PROVE i \in P
    <3>1. PICK f : IsRun(f, i - 1) BY <2>2
    <3> DEFINE h == [j \in 0 .. i |-> IF j = i THEN LinkTo(f[i - 1], r, s[i]) ELSE f[j]]
    <3>2. h = [j \in 0 .. i |-> IF j = 0 THEN first ELSE LinkTo(h[j - 1], r, s[j])]
      <4> SUFFICES ASSUME NEW j \in 0 .. i
                   PROVE  h[j] = IF j = 0 THEN first ELSE LinkTo(h[j - 1], r, s[j])
        OBVIOUS
      <4>1. CASE j = i /\ i > 0 BY <4>1
      <4>2. CASE j < i
        <5>1. j \in 0 .. i - 1 /\ h[j] = f[j] BY <4>2
        <5>2. f[j] = IF j = 0 THEN first ELSE LinkTo(f[j - 1], r, s[j])
          BY <1>1, <3>1, <5>1
        <5>3. j # 0 => h[j - 1] = f[j - 1] BY <5>1
        <5> QED BY <5>1, <5>2, <5>3
      <4> QED BY <4>1, <4>2
    <3>3. IsRun(h, i)
      <4> HIDE DEF h
      <4> QED BY <1>1, <3>2
    <3> HIDE DEF IsRun
    <3> QED BY <3>3
  <2> HIDE DEF P
  <2> QED BY <2>1, <2>2, Along
<1>3. PICK f : f = (CHOOSE g : IsRun(g, Len(s)))
  OBVIOUS
<1>4. IsRun(f, Len(s))
  <2>1. \E g : IsRun(g, Len(s))
    <3>1. Len(s) \in 0 .. Len(s) OBVIOUS
    <3>2. Len(s) \in P
      <4> HIDE DEF P
      <4> QED BY <1>2, <3>1
    <3> QED BY <3>2
  <2> HIDE DEF IsRun
  <2> QED BY <1>3, <2>1
<1>5. LinkToAll(r, s) = f[Len(s)]
  <2>1. LinkToAll(r, s) = The({Folded(l) : l \in {s}}) BY DEF LinkToAll, Fold
  <2>2. {Folded(l) : l \in {s}} = {Folded(s)}
    <3> HIDE DEF Folded
    <3> QED OBVIOUS
  <2>3. Folded(s) = f[Len(s)] BY <1>3
  <2> HIDE DEF Folded
  <2> QED BY <2>1, <2>2, <2>3, TheIs
<1>6. \A i \in 0 .. Len(s) : f[i] = IF i = 0 THEN first ELSE LinkTo(f[i - 1], r, s[i])
  BY <1>1, <1>4
<1> HIDE DEF first
<1>7. f[0] = first /\ \A i \in 1 .. Len(s) : f[i] = LinkTo(f[i - 1], r, s[i])
  BY <1>6
<1> QED BY <1>5, <1>7 DEF first, NoneLinked, LinkRun

LEMMA WeighSteps ==
  ASSUME NEW r, NEW s, Len(s) \in Nat
  PROVE  \E f : WeighRun(f, r, s, Len(s)) /\ Fold(Weigh, r, s) = f[Len(s)]
<1> DEFINE IsRun(f, n) ==
             f = [i \in 0 .. n |->
                    IF i = 0 THEN r
                    ELSE The({Weigh(acc, s[i]) : acc \in {f[i - 1]}})]
           Folded(l) ==
             (CHOOSE f : f = [i \in 0 .. Len(l) |->
                                IF i = 0 THEN r
                                ELSE The({Weigh(acc, l[i]) : acc \in {f[i - 1]}})])[Len(l)]
           P == {n \in Nat : \E f : IsRun(f, n)}
<1>1. \A f, i : The({Weigh(acc, s[i]) : acc \in {f[i - 1]}}) = Weigh(f[i - 1], s[i])
  <2>1. \A f, i : {Weigh(acc, s[i]) : acc \in {f[i - 1]}} = {Weigh(f[i - 1], s[i])}
    OBVIOUS
  <2> QED BY <2>1, TheIs
<1>2. \A i \in 0 .. Len(s) : i \in P
  <2>1. 0 \in P
    <3>1. IsRun([i \in 0 .. 0 |-> r], 0) OBVIOUS
    <3> HIDE DEF IsRun
    <3> QED BY <3>1
  <2>2. ASSUME NEW i \in 1 .. Len(s), i - 1 \in P PROVE i \in P
    <3>1. PICK f : IsRun(f, i - 1) BY <2>2
    <3> DEFINE h == [j \in 0 .. i |-> IF j = i THEN Weigh(f[i - 1], s[i]) ELSE f[j]]
    <3>2. h = [j \in 0 .. i |-> IF j = 0 THEN r ELSE Weigh(h[j - 1], s[j])]
      <4> SUFFICES ASSUME NEW j \in 0 .. i
                   PROVE  h[j] = IF j = 0 THEN r ELSE Weigh(h[j - 1], s[j])
        OBVIOUS
      <4>1. CASE j = i /\ i > 0 BY <4>1
      <4>2. CASE j < i
        <5>1. j \in 0 .. i - 1 /\ h[j] = f[j] BY <4>2
        <5>2. f[j] = IF j = 0 THEN r ELSE Weigh(f[j - 1], s[j])
          BY <1>1, <3>1, <5>1
        <5>3. j # 0 => h[j - 1] = f[j - 1] BY <5>1
        <5> QED BY <5>1, <5>2, <5>3
      <4> QED BY <4>1, <4>2
    <3>3. IsRun(h, i)
      <4> HIDE DEF h
      <4> QED BY <1>1, <3>2
    <3> HIDE DEF IsRun
    <3> QED BY <3>3
  <2> HIDE DEF P
  <2> QED BY <2>1, <2>2, Along
<1>3. PICK f : f = (CHOOSE g : IsRun(g, Len(s)))
  OBVIOUS
<1>4. IsRun(f, Len(s))
  <2>1. \E g : IsRun(g, Len(s))
    <3>1. Len(s) \in 0 .. Len(s) OBVIOUS
    <3>2. Len(s) \in P
      <4> HIDE DEF P
      <4> QED BY <1>2, <3>1
    <3> QED BY <3>2
  <2> HIDE DEF IsRun
  <2> QED BY <1>3, <2>1
<1>5. Fold(Weigh, r, s) = f[Len(s)]
  <2>1. Fold(Weigh, r, s) = The({Folded(l) : l \in {s}}) BY DEF Fold
  <2>2. {Folded(l) : l \in {s}} = {Folded(s)}
    <3> HIDE DEF Folded
    <3> QED OBVIOUS
  <2>3. Folded(s) = f[Len(s)] BY <1>3
  <2> HIDE DEF Folded
  <2> QED BY <2>1, <2>2, <2>3, TheIs
<1>6. \A i \in 0 .. Len(s) : f[i] = IF i = 0 THEN r ELSE Weigh(f[i - 1], s[i])
  BY <1>1, <1>4
<1>7. f[0] = r /\ \A i \in 1 .. Len(s) : f[i] = Weigh(f[i - 1], s[i])
  BY <1>6
<1> QED BY <1>5, <1>7 DEF WeighRun
-----------------------------------------------------------------------------
\* A list with one more member.
LEMMA InsertAtIs ==
  \A s, i, e : InsertAt(s, i, e) = SubSeq(s, 1, i - 1) \o <<e>> \o SubSeq(s, i, Len(s))
BY DEF InsertAt

\* s is a list of n members of S, and they are A.
Lists(s, S, n, A) == s \in Seq(S) /\ Len(s) = n /\ n \in Nat /\ ToSet(s) = A

LEMMA NoneListed == \A S : Lists(<<>>, S, 0, {}) /\ IsInjective(<<>>)
<1>1. DOMAIN <<>> = {} /\ Len(<<>>) = 0 /\ \A S : <<>> \in Seq(S)
  OBVIOUS
<1> QED BY <1>1 DEF ToSet, IsInjective, Lists

\* What a list with one more member holds.
LEMMA InsertedIs ==
  \A v, S, s, n, A, x :
    Lists(s, S, n, A) /\ x \in S =>
      /\ Lists(Inserted(v, s, x), S, n + 1, A \union {x})
      /\ IsInjective(s) /\ x \notin A => IsInjective(Inserted(v, s, x))
<1> SUFFICES ASSUME NEW v, NEW S, NEW s, NEW N, NEW B, NEW x, Lists(s, S, N, B), x \in S
             PROVE  /\ Lists(Inserted(v, s, x), S, N + 1, B \union {x})
                    /\ IsInjective(s) /\ x \notin B => IsInjective(Inserted(v, s, x))
  OBVIOUS
<1>a. s \in Seq(S) /\ Len(s) = N /\ N \in Nat /\ ToSet(s) = B
  BY DEF Lists
<1> DEFINE A == {i \in DOMAIN s : Dist[<<v, s[i]>>] <= Dist[<<v, x>>]}
<1>0. PICK L : L = Len(s) /\ L \in Nat /\ DOMAIN s = 1 .. L /\ \A i \in 1 .. L : s[i] \in S
  BY <1>a, LenProperties, ElementOfSeq
<1>1. PICK n : n = Cardinality(A) /\ n \in 0 .. L
  <2>1. A \subseteq 1 .. L BY <1>0
  <2>2. IsFiniteSet(1 .. L) /\ Cardinality(1 .. L) = L
    <3>1. 1 \in Int /\ L \in Int BY <1>0
    <3>2. IsFiniteSet(1 .. L) /\ Cardinality(1 .. L) = IF 1 > L THEN 0 ELSE L - 1 + 1
      BY <3>1, FS_Interval
    <3> QED BY <1>0, <3>2
  <2>3. Cardinality(A) <= L /\ Cardinality(A) \in Nat
    <3> HIDE DEF A
    <3> QED BY <2>1, <2>2, FS_Subset, FS_CardinalityType
  <2> HIDE DEF A
  <2> QED BY <1>0, <2>1, <2>3
<1> DEFINE r == SubSeq(s, 1, n) \o <<x>> \o SubSeq(s, n + 1, L)
<1>2. Inserted(v, s, x) = r
  <2>1. Inserted(v, s, x) = SubSeq(s, 1, n + 1 - 1) \o <<x>> \o SubSeq(s, n + 1, L)
    <3>1. Inserted(v, s, x) = InsertAt(s, Cardinality(A) + 1, x) BY DEF Inserted
    <3> HIDE DEF A, r
    <3>2. PICK m : m = n + 1 OBVIOUS
    <3>3. InsertAt(s, m, x) = SubSeq(s, 1, m - 1) \o <<x>> \o SubSeq(s, m, Len(s))
      BY InsertAtIs
    <3>4. Inserted(v, s, x) = InsertAt(s, m, x) BY <1>1, <3>1, <3>2
    <3>5. m - 1 = n + 1 - 1 BY <1>0, <1>1, <3>2
    <3> QED BY <1>0, <3>2, <3>3, <3>4, <3>5, Zenon
  <2>2. n + 1 - 1 = n BY <1>1
  <2> QED BY <2>1, <2>2
<1> HIDE DEF A
<1>4. /\ SubSeq(s, 1, n) \in Seq(S) /\ Len(SubSeq(s, 1, n)) = n
      /\ \A i \in 1 .. n : SubSeq(s, 1, n)[i] = s[i]
  <2>1. 1 \in Int /\ n \in Int /\ \A i \in 1 .. n : s[i] \in S BY <1>0, <1>1
  <2>2. /\ SubSeq(s, 1, n) \in Seq(S) /\ Len(SubSeq(s, 1, n)) = IF 1 <= n THEN n - 1 + 1 ELSE 0
        /\ \A i \in 1 .. n - 1 + 1 : SubSeq(s, 1, n)[i] = s[1 + i - 1]
    BY <2>1, SubSeqProperties
  <2>3. n - 1 + 1 = n /\ \A i \in 1 .. n : 1 + i - 1 = i BY <1>1
  <2> QED BY <1>1, <2>2, <2>3
<1>5. /\ SubSeq(s, n + 1, L) \in Seq(S) /\ Len(SubSeq(s, n + 1, L)) = L - n
      /\ \A i \in 1 .. L - n : SubSeq(s, n + 1, L)[i] = s[n + i]
  <2>1. n + 1 \in Int /\ L \in Int /\ \A i \in n + 1 .. L : s[i] \in S BY <1>0, <1>1
  <2>2. /\ SubSeq(s, n + 1, L) \in Seq(S)
        /\ Len(SubSeq(s, n + 1, L)) = IF n + 1 <= L THEN L - (n + 1) + 1 ELSE 0
        /\ \A i \in 1 .. L - (n + 1) + 1 : SubSeq(s, n + 1, L)[i] = s[n + 1 + i - 1]
    BY <2>1, SubSeqProperties
  <2>3. L - (n + 1) + 1 = L - n /\ \A i \in 1 .. L - n : n + 1 + i - 1 = n + i BY <1>0, <1>1
  <2>4. Len(SubSeq(s, n + 1, L)) = L - n
    <3>1. PICK length : length = Len(SubSeq(s, n + 1, L)) OBVIOUS
    <3>2. length = IF n + 1 <= L THEN L - (n + 1) + 1 ELSE 0 BY <2>2, <3>1
    <3> QED BY <1>0, <1>1, <3>1, <3>2
  <2>5. \A i \in 1 .. L - n : SubSeq(s, n + 1, L)[i] = s[n + i]
    <3>1. PICK tail : tail = SubSeq(s, n + 1, L) OBVIOUS
    <3>2. \A i \in 1 .. L - n : tail[i] = s[n + 1 + i - 1] BY <2>2, <2>3, <3>1
    <3> QED BY <2>3, <3>1, <3>2
  <2> QED BY <2>2, <2>4, <2>5
<1>6. PICK a, b : a = SubSeq(s, 1, n) /\ b = SubSeq(s, n + 1, L)
  OBVIOUS
<1>7. /\ r \in Seq(S) /\ Len(r) = L + 1
      /\ \A i \in 1 .. L + 1 : r[i] = IF i <= n THEN s[i] ELSE IF i = n + 1 THEN x ELSE s[i - 1]
  <2>1. /\ a \in Seq(S) /\ b \in Seq(S) /\ Len(a) = n /\ Len(b) = L - n
        /\ \A i \in 1 .. n : a[i] = s[i]
        /\ \A i \in 1 .. L - n : b[i] = s[n + i]
    BY <1>4, <1>5, <1>6
  <2>2. PICK one : one = <<x>> /\ one \in Seq(S) /\ Len(one) = 1 /\ one[1] = x
    <3>1. <<x>> \in Seq(S) /\ Len(<<x>>) = 1 /\ <<x>>[1] = x OBVIOUS
    <3> QED BY <3>1
  <2>3. PICK c : c = a \o one OBVIOUS
  <2>4. /\ c \in Seq(S) /\ Len(c) = n + 1
        /\ \A i \in 1 .. n + 1 : c[i] = IF i <= n THEN a[i] ELSE one[i - n]
    <3>1. /\ a \o one \in Seq(S) /\ Len(a \o one) = Len(a) + Len(one)
          /\ \A i \in 1 .. Len(a) + Len(one) : (a \o one)[i] =
               IF i <= Len(a) THEN a[i] ELSE one[i - Len(a)]
      BY <2>1, <2>2, ConcatProperties
    <3> QED BY <2>1, <2>2, <2>3, <3>1
  <2>5. /\ c \o b \in Seq(S) /\ Len(c \o b) = n + 1 + (L - n)
        /\ \A i \in 1 .. n + 1 + (L - n) : (c \o b)[i] = IF i <= n + 1 THEN c[i] ELSE b[i - (n + 1)]
    <3>1. /\ c \o b \in Seq(S) /\ Len(c \o b) = Len(c) + Len(b)
          /\ \A i \in 1 .. Len(c) + Len(b) : (c \o b)[i] =
               IF i <= Len(c) THEN c[i] ELSE b[i - Len(c)]
      <4>1. c \in Seq(S) /\ b \in Seq(S) BY <2>1, <2>4
      <4> HIDE DEF r
      <4> QED BY <4>1, ConcatProperties
    <3> QED BY <2>1, <2>4, <3>1
  <2>6. n + 1 + (L - n) = L + 1 BY <1>0, <1>1
  <2>7. r = c \o b BY <1>6, <2>2, <2>3
  <2> HIDE DEF r
  <2>8. \A i \in 1 .. L + 1 : r[i] = IF i <= n THEN s[i] ELSE IF i = n + 1 THEN x ELSE s[i - 1]
    <3> SUFFICES ASSUME NEW i \in 1 .. L + 1
                 PROVE  r[i] = IF i <= n THEN s[i] ELSE IF i = n + 1 THEN x ELSE s[i - 1]
      OBVIOUS
    <3>1. r[i] = IF i <= n + 1 THEN c[i] ELSE b[i - (n + 1)] BY <2>5, <2>6, <2>7
    <3>2. CASE i <= n
      <4>1. i \in 1 .. n /\ i \in 1 .. n + 1 /\ i <= n + 1 BY <1>1, <3>2
      <4>2. c[i] = a[i] BY <2>4, <3>2, <4>1
      <4> QED BY <2>1, <3>1, <3>2, <4>1, <4>2
    <3>3. CASE i = n + 1
      <4>1. i \in 1 .. n + 1 /\ ~(i <= n) /\ i - n = 1 BY <1>1, <3>3
      <4>2. c[i] = one[i - n] BY <2>4, <4>1
      <4> QED BY <1>1, <2>2, <3>1, <3>3, <4>1, <4>2
    <3>4. CASE ~(i <= n) /\ i # n + 1
      <4>1. i - (n + 1) \in 1 .. L - n /\ n + (i - (n + 1)) = i - 1 /\ ~(i <= n + 1)
        BY <1>0, <1>1, <3>4
      <4>2. b[i - (n + 1)] = s[n + (i - (n + 1))] BY <2>1, <4>1
      <4>3. b[i - (n + 1)] = s[i - 1] BY <4>1, <4>2
      <4> QED BY <3>1, <3>4, <4>1, <4>3
    <3> QED BY <3>2, <3>3, <3>4
  <2> QED BY <2>5, <2>6, <2>7, <2>8
<1> HIDE DEF r
<1>8. ToSet(r) = ToSet(s) \union {x}
  <2>1. DOMAIN r = 1 .. L + 1 /\ DOMAIN s = 1 .. L BY <1>0, <1>7, LenProperties
  <2>2. \A i \in DOMAIN r : r[i] \in ToSet(s) \union {x}
    <3> SUFFICES ASSUME NEW i \in DOMAIN r PROVE r[i] \in ToSet(s) \union {x} OBVIOUS
    <3>1. CASE i <= n
      <4>1. i \in DOMAIN s /\ r[i] = s[i] BY <1>0, <1>1, <1>7, <2>1, <3>1
      <4> QED BY <4>1 DEF ToSet
    <3>2. CASE i = n + 1 BY <1>1, <1>7, <2>1, <3>2
    <3>3. CASE ~(i <= n) /\ i # n + 1
      <4>1. i - 1 \in 1 .. L BY <1>1, <1>0, <2>1, <3>3
      <4> QED BY <1>7, <2>1, <3>3, <4>1 DEF ToSet
    <3> QED BY <3>1, <3>2, <3>3
  <2>3. x \in ToSet(r)
    <3>1. n + 1 \in 1 .. L + 1 /\ ~(n + 1 <= n) BY <1>1, <1>0
    <3>2. r[n + 1] = x BY <1>7, <3>1
    <3> QED BY <2>1, <3>1, <3>2 DEF ToSet
  <2>4. \A i \in DOMAIN s : s[i] \in ToSet(r)
    <3> SUFFICES ASSUME NEW i \in DOMAIN s PROVE s[i] \in ToSet(r) OBVIOUS
    <3>1. CASE i <= n
      <4>1. i \in DOMAIN r /\ r[i] = s[i] BY <1>1, <1>0, <1>7, <2>1, <3>1
      <4> QED BY <4>1 DEF ToSet
    <3>2. CASE ~(i <= n)
      <4>1. i + 1 \in DOMAIN r /\ ~(i + 1 <= n) /\ i + 1 # n + 1 /\ (i + 1) - 1 = i
        BY <1>1, <1>0, <2>1, <3>2
      <4>2. r[i + 1] = s[i] BY <1>7, <2>1, <4>1
      <4> QED BY <4>1, <4>2 DEF ToSet
    <3> QED BY <3>1, <3>2
  <2> QED BY <2>2, <2>3, <2>4 DEF ToSet
<1>9. ASSUME IsInjective(s), x \notin ToSet(s) PROVE IsInjective(r)
  <2>1. DOMAIN r = 1 .. L + 1 /\ DOMAIN s = 1 .. L BY <1>0, <1>7, LenProperties
  <2>2. \A i, j \in 1 .. L : s[i] = s[j] => i = j BY <1>9, <2>1 DEF IsInjective
  <2>3. \A i \in 1 .. L : s[i] # x BY <1>9, <2>1 DEF ToSet
  <2> DEFINE from(i) == IF i <= n THEN i ELSE i - 1
  <2>4. \A i \in 1 .. L + 1 : i # n + 1 => from(i) \in 1 .. L /\ r[i] = s[from(i)]
    <3> SUFFICES ASSUME NEW i \in 1 .. L + 1, i # n + 1
                 PROVE  from(i) \in 1 .. L /\ r[i] = s[from(i)]
      OBVIOUS
    <3>1. CASE i <= n BY <1>1, <1>0, <1>7, <3>1
    <3>2. CASE ~(i <= n)
      <4>1. i - 1 \in 1 .. L BY <1>1, <1>0, <3>2
      <4>2. r[i] = s[i - 1] BY <1>7, <3>2
      <4> QED BY <3>2, <4>1, <4>2
    <3> QED BY <3>1, <3>2
  <2>5. \A i, j \in 1 .. L + 1 : i # n + 1 /\ j # n + 1 /\ from(i) = from(j) => i = j
    BY <1>1, <1>0
  <2>6. r[n + 1] = x
    <3>1. n + 1 \in 1 .. L + 1 /\ ~(n + 1 <= n) BY <1>1, <1>0
    <3> QED BY <1>7, <3>1
  <2> HIDE DEF from
  <2>7. \A i, j \in 1 .. L + 1 : r[i] = r[j] => i = j
    BY <2>2, <2>3, <2>4, <2>5, <2>6
  <2> QED BY <2>1, <2>7 DEF IsInjective
<1>10. Lists(r, S, N + 1, B \union {x})
  BY <1>0, <1>a, <1>7, <1>8 DEF Lists
<1> QED BY <1>a, <1>2, <1>9, <1>10

\* What a sorted list holds: what it was made of.
LEMMA NearestFirstIs ==
  \A v, S, s, n, A :
    Lists(s, S, n, A) =>
      /\ Lists(NearestFirst(v, s), S, n, A)
      /\ IsInjective(s) => IsInjective(NearestFirst(v, s))
<1> SUFFICES ASSUME NEW v, NEW S, NEW s, NEW n, NEW A, Lists(s, S, n, A)
             PROVE  /\ Lists(NearestFirst(v, s), S, n, A)
                    /\ IsInjective(s) => IsInjective(NearestFirst(v, s))
  OBVIOUS
<1>1. s \in Seq(S) /\ Len(s) = n /\ n \in Nat /\ DOMAIN s = 1 .. n /\ \A i \in 1 .. n : s[i] \in S
  BY LenProperties, ElementOfSeq DEF Lists
<1>2. PICK f : /\ f[0] = <<>>
               /\ \A i \in 1 .. n : f[i] = Inserted(v, f[i - 1], s[i])
               /\ NearestFirst(v, s) = f[n]
  BY <1>1, SortSteps
<1> DEFINE first(i) == {s[j] : j \in 1 .. i}
           P == {i \in 0 .. n : Lists(f[i], S, i, first(i)) /\ (IsInjective(s) => IsInjective(f[i]))}
<1>3. 0 \in P
  <2>1. first(0) = {} /\ 0 \in 0 .. n BY <1>1
  <2>2. Lists(f[0], S, 0, {}) /\ IsInjective(f[0]) BY <1>2, NoneListed
  <2> HIDE DEF first
  <2> QED BY <2>1, <2>2
<1>4. ASSUME NEW i \in 1 .. n, i - 1 \in P PROVE i \in P
  <2>1. Lists(f[i - 1], S, i - 1, first(i - 1)) /\ (IsInjective(s) => IsInjective(f[i - 1]))
    BY <1>4
  <2>2. s[i] \in S /\ f[i] = Inserted(v, f[i - 1], s[i]) BY <1>1, <1>2
  <2>3. first(i) = first(i - 1) \union {s[i]}
    <3>1. \A j \in 1 .. i : j \in 1 .. i - 1 \/ j = i BY <1>1
    <3>2. 1 .. i - 1 \subseteq 1 .. i /\ i \in 1 .. i BY <1>1
    <3> QED BY <3>1, <3>2
  <2>4. IsInjective(s) => s[i] \notin first(i - 1)
    <3> SUFFICES ASSUME IsInjective(s), NEW j \in 1 .. i - 1, s[j] = s[i] PROVE FALSE
      OBVIOUS
    <3>1. j \in DOMAIN s /\ i \in DOMAIN s /\ j # i BY <1>1
    <3> QED BY <3>1 DEF IsInjective
  <2> HIDE DEF first, P
  <2>5. PICK k : k = i - 1 /\ k + 1 = i /\ i \in 0 .. n BY <1>1
  <2>6. PICK g, x, A0 : g = f[i - 1] /\ x = s[i] /\ A0 = first(i - 1) OBVIOUS
  <2>7. /\ Lists(Inserted(v, g, x), S, k + 1, A0 \union {x})
        /\ IsInjective(g) /\ x \notin A0 => IsInjective(Inserted(v, g, x))
    <3>1. Lists(g, S, k, A0) /\ x \in S BY <2>1, <2>2, <2>5, <2>6, Zenon
    <3> QED BY <3>1, InsertedIs, Zenon
  <2>8. Lists(f[i], S, i, first(i)) /\ (IsInjective(s) => IsInjective(f[i]))
    BY <2>1, <2>2, <2>3, <2>4, <2>5, <2>6, <2>7, Zenon
  <2> QED BY <2>5, <2>8 DEF P
<1>5. n \in P
  <2>1. n \in 0 .. n BY <1>1
  <2> HIDE DEF P
  <2> QED BY <1>1, <1>3, <1>4, <2>1, Along
<1>6. first(n) = A
  BY <1>1 DEF ToSet, Lists
<1> HIDE DEF first
<1>7. Lists(f[n], S, n, A) /\ (IsInjective(s) => IsInjective(f[n]))
  BY <1>5, <1>6
<1> QED BY <1>2, <1>7

IsKept(acc) ==
  acc = [kept |-> acc.kept, near |-> acc.near, num |-> acc.num, full |-> acc.full]
  /\ acc.full \in BOOLEAN

\* One vector more is kept, or is not.
LEMMA KeepIs ==
  ASSUME NEW nbrs, NEW maxSize, NEW acc, NEW v, IsKept(acc)
  PROVE  /\ IsKept(Keep(nbrs, maxSize, acc, v))
         /\ \/ /\ Keep(nbrs, maxSize, acc, v).kept = acc.kept
               /\ Keep(nbrs, maxSize, acc, v).full = acc.full
            \/ /\ ~acc.full
               /\ Keep(nbrs, maxSize, acc, v).kept = Append(acc.kept, v)
               /\ Keep(nbrs, maxSize, acc, v).full \/ ~(Len(Append(acc.kept, v)) >= maxSize)
<1> DEFINE num == acc.num + 1
           near == acc.near \union {v} \union
                     (IF num > MBeta THEN ToSet(Links(nbrs, v, 0)) ELSE {})
           kept == Append(acc.kept, v)
           full == Len(kept) >= maxSize \/ Cardinality(near) >= maxSize
<1>1. Keep(nbrs, maxSize, acc, v) =
        IF acc.full \/ (num > MBeta /\ v \in acc.near) THEN [acc EXCEPT !.num = num]
        ELSE [kept |-> kept, near |-> near, num |-> num, full |-> full]
  BY DEF Keep
<1>2. PICK u, w, c, b : u = num /\ w = near /\ c = kept /\ b = full
  OBVIOUS
<1>3. Keep(nbrs, maxSize, acc, v) =
        IF acc.full \/ (u > MBeta /\ v \in acc.near) THEN [acc EXCEPT !.num = u]
        ELSE [kept |-> c, near |-> w, num |-> u, full |-> b]
  BY <1>1, <1>2
<1>4. b \in BOOLEAN /\ (b \/ ~(Len(c) >= maxSize))
  BY <1>2
<1> HIDE DEF num, near, kept, full
<1>5. [acc EXCEPT !.num = u] = [kept |-> acc.kept, near |-> acc.near, num |-> u, full |-> acc.full]
  BY DEF IsKept
<1> HIDE DEF IsKept
<1>6. CASE acc.full \/ (u > MBeta /\ v \in acc.near)
  <2>1. PICK k : k = Keep(nbrs, maxSize, acc, v) OBVIOUS
  <2>2. k = [kept |-> acc.kept, near |-> acc.near, num |-> u, full |-> acc.full]
    BY <1>3, <1>5, <1>6, <2>1
  <2> QED BY <2>1, <2>2 DEF IsKept
<1>7. CASE ~(acc.full \/ (u > MBeta /\ v \in acc.near))
  <2>1. PICK k : k = Keep(nbrs, maxSize, acc, v) OBVIOUS
  <2>2. k = [kept |-> c, near |-> w, num |-> u, full |-> b]
    BY <1>3, <1>7, <2>1
  <2>3. c = Append(acc.kept, v) BY <1>2 DEF kept
  <2>4. IsKept(k) /\ k.kept = c /\ k.full = b BY <1>4, <2>2 DEF IsKept
  <2> QED BY <1>4, <1>7, <2>1, <2>3, <2>4
<1> QED BY <1>6, <1>7

\* What shrink_neighbor_list keeps: of the list, nothing twice, and never more than
\* there is room for.
LEMMA ShrinkIs ==
  \A nbrs, maxSize, S, s, n, A :
    Lists(s, S, n, A) /\ maxSize \in Nat \ {0} =>
      \E m, B :
        /\ Lists(Shrink(nbrs, s, maxSize), S, m, B) /\ m <= maxSize /\ B \subseteq A
        /\ IsInjective(s) => IsInjective(Shrink(nbrs, s, maxSize))
<1> SUFFICES ASSUME NEW nbrs, NEW S, NEW s, NEW N, NEW A, NEW maxSize,
                    Lists(s, S, N, A), maxSize \in Nat \ {0}
             PROVE  \E m, B :
                      /\ Lists(Shrink(nbrs, s, maxSize), S, m, B) /\ m <= maxSize /\ B \subseteq A
                      /\ IsInjective(s) => IsInjective(Shrink(nbrs, s, maxSize))
  OBVIOUS
<1>a. s \in Seq(S) /\ ToSet(s) = A
  BY DEF Lists
<1>1. PICK L : L = Len(s) /\ L \in Nat /\ DOMAIN s = 1 .. L /\ \A i \in 1 .. L : s[i] \in S
  BY <1>a, LenProperties, ElementOfSeq
<1>3. PICK f : /\ f[0] = NoneKept
               /\ \A i \in 1 .. L : f[i] = Keep(nbrs, maxSize, f[i - 1], s[i])
               /\ Shrink(nbrs, s, maxSize) = f[L].kept
  <2>1. Len(s) \in Nat BY <1>1
  <2>2. PICK f : KeepRun(f, nbrs, maxSize, s, Len(s)) /\ Shrink(nbrs, s, maxSize) = f[Len(s)].kept
    BY <2>1, KeepSteps
  <2> QED BY <1>1, <2>2 DEF KeepRun
<1>4. Shrink(nbrs, s, maxSize) = f[L].kept
  BY <1>3
<1> DEFINE before(i) == {s[j] : j \in 1 .. i}
           P == {i \in 0 .. L :
                   /\ IsKept(f[i])
                   /\ f[i].kept \in Seq(S) /\ Len(f[i].kept) <= maxSize
                   /\ f[i].full \/ Len(f[i].kept) < maxSize
                   /\ ToSet(f[i].kept) \subseteq before(i)
                   /\ IsInjective(s) => IsInjective(f[i].kept)}
<1>5. 0 \in P
  <2>1. PICK none : none = <<>> OBVIOUS
  <2>2. none \in Seq(S) /\ Len(none) = 0 /\ ToSet(none) = {} /\ IsInjective(none)
    BY <2>1, NoneListed DEF Lists
  <2>3. f[0] = [kept |-> none, near |-> {}, num |-> 0, full |-> FALSE] BY <1>3, <2>1 DEF NoneKept
  <2>4. f[0].kept = none /\ IsKept(f[0]) BY <2>3 DEF IsKept
  <2>5. {} \subseteq before(0) /\ 0 \in 0 .. L /\ 0 < maxSize /\ 0 <= maxSize BY <1>1
  <2> HIDE DEF before
  <2> QED BY <2>2, <2>4, <2>5
<1>6. ASSUME NEW i \in 1 .. L, i - 1 \in P PROVE i \in P
  <2>1. PICK k : k = f[i - 1].kept OBVIOUS
  <2>2. /\ k \in Seq(S) /\ Len(k) <= maxSize /\ (f[i - 1].full \/ Len(k) < maxSize)
        /\ ToSet(k) \subseteq before(i - 1) /\ (IsInjective(s) => IsInjective(k))
    BY <1>6, <2>1
  <2>3. PICK x : x = s[i] /\ x \in S BY <1>1
  <2>9. /\ IsKept(f[i])
        /\ \/ f[i].kept = k /\ f[i].full = f[i - 1].full
           \/ /\ ~f[i - 1].full /\ f[i].kept = Append(k, x)
              /\ f[i].full \/ ~(Len(Append(k, x)) >= maxSize)
    <3>1. f[i] = Keep(nbrs, maxSize, f[i - 1], x) BY <1>3, <2>3
    <3>2. IsKept(f[i - 1]) BY <1>6
    <3> QED BY <2>1, <3>1, <3>2, KeepIs
  <2>4. before(i) = before(i - 1) \union {s[i]}
    <3>1. \A j \in 1 .. i : j \in 1 .. i - 1 \/ j = i BY <1>1
    <3>2. 1 .. i - 1 \subseteq 1 .. i /\ i \in 1 .. i BY <1>1
    <3> QED BY <3>1, <3>2
  <2>5. IsInjective(s) => s[i] \notin before(i - 1)
    <3> SUFFICES ASSUME IsInjective(s), NEW j \in 1 .. i - 1, s[j] = s[i] PROVE FALSE
      OBVIOUS
    <3>1. j \in DOMAIN s /\ i \in DOMAIN s /\ j # i BY <1>1
    <3> QED BY <3>1 DEF IsInjective
  <2> HIDE DEF before
  <2>6. i \in 0 .. L BY <1>1
  <2>7. CASE f[i].kept = k /\ f[i].full = f[i - 1].full
    BY <2>2, <2>4, <2>6, <2>7, <2>9
  <2>8. CASE /\ ~f[i - 1].full /\ f[i].kept = Append(k, x)
             /\ f[i].full \/ ~(Len(Append(k, x)) >= maxSize)
    <3>1. PICK a : a = Append(k, x) OBVIOUS
    <3>2. /\ a \in Seq(S) /\ Len(a) = Len(k) + 1 /\ a[Len(k) + 1] = x
          /\ \A j \in 1 .. Len(k) : a[j] = k[j]
      BY <2>2, <2>3, <3>1, AppendProperties
    <3>3. Len(k) \in Nat /\ DOMAIN k = 1 .. Len(k) /\ DOMAIN a = 1 .. Len(k) + 1
      BY <2>2, <3>2, LenProperties
    <3>4. Len(k) < maxSize BY <2>2, <2>8
    <3>5. ToSet(a) \subseteq ToSet(k) \union {x}
      <4> SUFFICES ASSUME NEW j \in DOMAIN a PROVE a[j] \in ToSet(k) \union {x}
        BY DEF ToSet
      <4>1. j \in DOMAIN k \/ j = Len(k) + 1 BY <3>3
      <4> QED BY <3>2, <3>3, <4>1 DEF ToSet
    <3>6. IsInjective(k) /\ x \notin ToSet(k) => IsInjective(a)
      <4> SUFFICES ASSUME IsInjective(k), x \notin ToSet(k), NEW j \in DOMAIN a, NEW m \in DOMAIN a,
                          a[j] = a[m]
                   PROVE  j = m
        BY DEF IsInjective
      <4>1. (j \in DOMAIN k \/ j = Len(k) + 1) /\ (m \in DOMAIN k \/ m = Len(k) + 1) BY <3>3
      <4>2. \A q \in DOMAIN k : a[q] = k[q] /\ a[q] \in ToSet(k) BY <3>2, <3>3 DEF ToSet
      <4> QED BY <3>2, <4>1, <4>2 DEF IsInjective
    <3>7. f[i].kept = a /\ Len(a) <= maxSize /\ (f[i].full \/ Len(a) < maxSize)
      BY <2>8, <3>1, <3>2, <3>3, <3>4
    <3>8. ToSet(a) \subseteq before(i) BY <2>2, <2>3, <2>4, <3>5
    <3>9. IsInjective(s) => IsInjective(a) BY <2>2, <2>3, <2>5, <3>6
    <3> QED BY <2>6, <2>9, <3>2, <3>7, <3>8, <3>9
  <2> QED BY <2>7, <2>8, <2>9
<1>7. L \in P
  <2>1. L \in 0 .. L BY <1>1
  <2> HIDE DEF P
  <2> QED BY <1>1, <1>5, <1>6, <2>1, Along
<1>8. before(L) = ToSet(s)
  BY <1>1 DEF ToSet
<1> HIDE DEF before
<1>9. PICK k : k = Shrink(nbrs, s, maxSize) /\ k = f[L].kept
  BY <1>4
<1>10. k \in Seq(S) /\ Len(k) <= maxSize /\ ToSet(k) \subseteq A /\ (IsInjective(s) => IsInjective(k))
  BY <1>a, <1>7, <1>8, <1>9
<1>11. Len(k) \in Nat
  BY <1>10, LenProperties
<1> HIDE DEF P
<1>12. Lists(k, S, Len(k), ToSet(k))
  BY <1>10, <1>11 DEF Lists
<1> QED BY <1>9, <1>10, <1>12
-----------------------------------------------------------------------------
\* A list turned round holds the same.
LEMMA ReverseIs ==
  \A S, s, n, A :
    Lists(s, S, n, A) => Lists(Reverse(s), S, n, A) /\ (IsInjective(s) => IsInjective(Reverse(s)))
<1> SUFFICES ASSUME NEW S, NEW s, NEW n, NEW A, Lists(s, S, n, A)
             PROVE  Lists(Reverse(s), S, n, A) /\ (IsInjective(s) => IsInjective(Reverse(s)))
  OBVIOUS
<1>1. s \in Seq(S) /\ Len(s) = n /\ n \in Nat /\ ToSet(s) = A /\ DOMAIN s = 1 .. n
      /\ \A i \in 1 .. n : s[i] \in S
  BY LenProperties, ElementOfSeq DEF Lists
<1>2. PICK r : r = Reverse(s)
  OBVIOUS
<1>3. r = [i \in 1 .. n |-> s[(n - i) + 1]]
  BY <1>1, <1>2 DEF Reverse
<1>4. \A i \in 1 .. n : (n - i) + 1 \in 1 .. n /\ (n - ((n - i) + 1)) + 1 = i
  BY <1>1
<1>5. r \in Seq(S) /\ Len(r) = n /\ DOMAIN r = 1 .. n
  BY <1>1, <1>3, <1>4
<1>6. ToSet(r) = A
  <2>1. \A i \in DOMAIN r : r[i] \in ToSet(s) BY <1>1, <1>3, <1>4 DEF ToSet
  <2>2. \A i \in DOMAIN s : s[i] \in ToSet(r)
    <3> SUFFICES ASSUME NEW i \in 1 .. n PROVE s[i] \in ToSet(r) BY <1>1
    <3>1. r[(n - i) + 1] = s[i] /\ (n - i) + 1 \in DOMAIN r BY <1>3, <1>4, <1>5
    <3> QED BY <3>1 DEF ToSet
  <2> QED BY <1>1, <2>1, <2>2 DEF ToSet
<1>7. IsInjective(s) => IsInjective(r)
  <2> SUFFICES ASSUME IsInjective(s), NEW i \in 1 .. n, NEW j \in 1 .. n, r[i] = r[j] PROVE i = j
    BY <1>5 DEF IsInjective
  <2>1. (n - i) + 1 \in DOMAIN s /\ (n - j) + 1 \in DOMAIN s /\ s[(n - i) + 1] = s[(n - j) + 1]
    BY <1>1, <1>3, <1>4
  <2>2. (n - i) + 1 = (n - j) + 1 BY <2>1 DEF IsInjective
  <2> QED BY <1>1, <2>2
<1>8. Lists(r, S, n, A)
  BY <1>1, <1>5, <1>6 DEF Lists
<1> QED BY <1>2, <1>7, <1>8

\* A finite set as a list: nothing else, and nothing twice.
LEMMA SetToSeqIs ==
  \A S, A : IsFiniteSet(A) /\ A \subseteq S =>
    \E n, B : Lists(SetToSeq(A), S, n, B) /\ B \subseteq A /\ IsInjective(SetToSeq(A))
<1> SUFFICES ASSUME NEW S, NEW A, IsFiniteSet(A), A \subseteq S
             PROVE  \E n, B : Lists(SetToSeq(A), S, n, B) /\ B \subseteq A /\ IsInjective(SetToSeq(A))
  OBVIOUS
<1>1. PICK n : n = Cardinality(A) /\ n \in Nat /\ ExistsBijection(1 .. n, A)
  BY FS_CardinalityType
<1>2. \E f \in [1 .. n -> A] : IsInjective(f)
  BY <1>1 DEF ExistsBijection, Bijection, Injection, IsInjective
<1>3. PICK s : s = SetToSeq(A)
  OBVIOUS
<1>4. s \in [1 .. n -> A] /\ IsInjective(s)
  BY <1>1, <1>2, <1>3 DEF SetToSeq
<1>5. s \in Seq(S) /\ Len(s) = n /\ ToSet(s) \subseteq A
  BY <1>1, <1>4 DEF ToSet
<1>6. Lists(s, S, n, ToSet(s))
  BY <1>1, <1>5 DEF Lists
<1> QED BY <1>3, <1>4, <1>5, <1>6
-----------------------------------------------------------------------------
\* The slots of a list hold s, without a gap and nothing twice, and nothing else.
IsList(nbrs, v, l, s) ==
  /\ s \in Seq(Points) /\ Len(s) <= NbNeighbors(l) /\ IsInjective(s)
  /\ \A i \in Place(v, l) :
       nbrs[i] = IF i - Begin(v, l) < Len(s) THEN s[i - Begin(v, l) + 1] ELSE NoPoint

\* What the loops read of such a list is s.
LEMMA LinksAre ==
  ASSUME gamma \in Gammas, NEW v \in Points, NEW l \in 0 .. Levels[v] - 1, NEW nbrs, NEW s,
         IsList(nbrs, v, l, s)
  PROVE  Links(nbrs, v, l) = s
<1>1. PICK b, e, nb : b = Begin(v, l) /\ e = End(v, l) /\ nb = NbNeighbors(l)
  OBVIOUS
<1>2. b \in Nat /\ e \in Nat /\ nb \in Nat /\ e = b + nb
  BY <1>1, SlotsAre
<1>3. PICK n : n = Len(s) /\ n \in Nat /\ n <= nb /\ \A i \in 1 .. n : s[i] \in Points
  BY <1>1, LenProperties, ElementOfSeq DEF IsList
<1>4. \A i \in b .. e - 1 : nbrs[i] = IF i - b < n THEN s[i - b + 1] ELSE NoPoint
  BY <1>1, <1>3 DEF IsList, Place
<1>5. NoPoint \notin Points
  BY DEF NoPoint, Points
<1>6. PICK gaps : gaps = {i \in b .. e - 1 : nbrs[i] = NoPoint}
  OBVIOUS
<1>7. \A i \in b .. e - 1 : i \in gaps <=> ~(i - b < n)
  <2> SUFFICES ASSUME NEW i \in b .. e - 1 PROVE nbrs[i] = NoPoint <=> ~(i - b < n)
    BY <1>6
  <2>1. i - b < n => i - b + 1 \in 1 .. n BY <1>2, <1>3
  <2> QED BY <1>3, <1>4, <1>5, <2>1
<1>8. (IF gaps = {} THEN e ELSE Min(gaps)) = b + n
  <2>1. CASE n = nb
    <3>1. \A i \in b .. e - 1 : i - b < n BY <1>2, <2>1
    <3>2. gaps = {} BY <1>6, <1>7, <3>1
    <3> QED BY <1>2, <2>1, <3>2
  <2>2. CASE n # nb
    <3>1. b + n \in b .. e - 1 /\ ~((b + n) - b < n) BY <1>2, <1>3, <2>2
    <3>2. b + n \in gaps BY <1>7, <3>1
    <3>3. \A i \in gaps : i \in Int /\ b + n <= i BY <1>2, <1>3, <1>6, <1>7
    <3>4. Min(gaps) \in gaps /\ \A i \in gaps : Min(gaps) <= i BY <3>2, <3>3 DEF Min
    <3>5. Min(gaps) = b + n BY <1>2, <1>3, <3>2, <3>3, <3>4
    <3> QED BY <3>2, <3>5
  <2> QED BY <2>1, <2>2
<1>9. PICK all : all = ListOf(nbrs, v, l)
  OBVIOUS
<1>10. all = [i \in 1 .. nb |-> nbrs[b + i - 1]]
  BY <1>1, <1>9 DEF ListOf
<1>11. Links(nbrs, v, l) = SubSeq(all, 1, n)
  <2>1. Links(nbrs, v, l) = SubSeq(all, 1, (IF gaps = {} THEN e ELSE Min(gaps)) - b)
    BY <1>1, <1>6, <1>9 DEF Links
  <2>2. (b + n) - b = n BY <1>2, <1>3
  <2> QED BY <1>8, <2>1, <2>2
<1>12. \A i \in 1 .. n : all[i] = s[i]
  <2> SUFFICES ASSUME NEW i \in 1 .. n PROVE all[i] = s[i] OBVIOUS
  <2>1. i \in 1 .. nb /\ b + i - 1 \in b .. e - 1 /\ (b + i - 1) - b < n /\ (b + i - 1) - b + 1 = i
    BY <1>2, <1>3
  <2>2. all[i] = nbrs[b + i - 1] BY <1>10, <2>1
  <2>3. nbrs[b + i - 1] = s[(b + i - 1) - b + 1] BY <1>4, <2>1
  <2> QED BY <2>1, <2>2, <2>3
<1>13. PICK r : r = SubSeq(all, 1, n)
  OBVIOUS
<1>14. r \in Seq(Points) /\ Len(r) = n /\ \A i \in 1 .. n : r[i] = s[i]
  <2>1. 1 \in Int /\ n \in Int /\ \A i \in 1 .. n : all[i] \in Points BY <1>3, <1>12
  <2>2. /\ SubSeq(all, 1, n) \in Seq(Points)
        /\ Len(SubSeq(all, 1, n)) = IF 1 <= n THEN n - 1 + 1 ELSE 0
        /\ \A i \in 1 .. n - 1 + 1 : SubSeq(all, 1, n)[i] = all[1 + i - 1]
    BY <2>1, SubSeqProperties
  <2>3. n - 1 + 1 = n /\ \A i \in 1 .. n : 1 + i - 1 = i BY <1>3
  <2> QED BY <1>3, <1>12, <1>13, <2>2, <2>3
<1>15. s \in Seq(Points)
  BY DEF IsList
<1>16. r = s
  BY <1>3, <1>14, <1>15, SeqEqual
<1> QED BY <1>11, <1>13, <1>16
-----------------------------------------------------------------------------
\* A link more in a list that has room.
LEMMA RoomIs ==
  ASSUME gamma \in Gammas, NEW v \in Points, NEW l \in 0 .. Levels[v] - 1, NEW nbrs, NEW s,
         IsList(nbrs, v, l, s), Place(v, l) \subseteq DOMAIN nbrs,
         NEW dest \in Points, dest \notin ToSet(s), HasRoom(nbrs, v, l)
  PROVE  /\ DOMAIN AddLink(nbrs, v, dest, l) = DOMAIN nbrs
         /\ \A i \in DOMAIN nbrs : i \notin Place(v, l) => AddLink(nbrs, v, dest, l)[i] = nbrs[i]
         /\ IsList(AddLink(nbrs, v, dest, l), v, l, Append(s, dest))
<1>1. PICK b, e, nb : b = Begin(v, l) /\ e = End(v, l) /\ nb = NbNeighbors(l)
  OBVIOUS
<1>2. b \in Nat /\ e \in Nat /\ nb \in Nat /\ e = b + nb /\ nb >= 2
  BY <1>1, SlotsAre
<1>3. PICK n : n = Len(s) /\ n \in Nat /\ n <= nb /\ DOMAIN s = 1 .. n /\ \A i \in 1 .. n : s[i] \in Points
  BY <1>1, LenProperties, ElementOfSeq DEF IsList
<1>4. \A i \in b .. e - 1 : nbrs[i] = IF i - b < n THEN s[i - b + 1] ELSE NoPoint
  BY <1>1, <1>3 DEF IsList, Place
<1>5. NoPoint \notin Points
  BY DEF NoPoint, Points
<1>6. PICK used : used = {i \in b .. e - 1 : nbrs[i] # NoPoint}
  OBVIOUS
<1>7. \A i \in b .. e - 1 : i \in used <=> i - b < n
  <2> SUFFICES ASSUME NEW i \in b .. e - 1 PROVE nbrs[i] # NoPoint <=> i - b < n
    BY <1>6
  <2>1. i - b < n => i - b + 1 \in 1 .. n BY <1>2, <1>3
  <2> QED BY <1>3, <1>4, <1>5, <2>1
<1>8. n < nb
  <2>1. e - 1 \in b .. e - 1 /\ e - 1 - b = nb - 1 BY <1>2
  <2>2. e - 1 \notin used BY <1>1, <1>6, <2>1 DEF HasRoom
  <2> QED BY <1>2, <1>3, <1>7, <2>1, <2>2
<1>9. (IF used = {} THEN b ELSE Max(used) + 1) = b + n
  <2>1. CASE n = 0
    <3>1. \A i \in b .. e - 1 : ~(i - b < n) BY <1>2, <2>1
    <3>2. used = {} BY <1>6, <1>7, <3>1
    <3> QED BY <1>2, <2>1, <3>2
  <2>2. CASE n # 0
    <3>1. b + n - 1 \in b .. e - 1 /\ (b + n - 1) - b < n BY <1>2, <1>3, <1>8, <2>2
    <3>2. b + n - 1 \in used BY <1>7, <3>1
    <3>3. \A i \in used : i \in Int /\ b + n - 1 >= i BY <1>2, <1>3, <1>6, <1>7
    <3>4. Max(used) \in used /\ \A i \in used : Max(used) >= i BY <3>2, <3>3 DEF Max
    <3>5. Max(used) = b + n - 1 BY <1>2, <1>3, <3>2, <3>3, <3>4
    <3>6. b + n - 1 + 1 = b + n BY <1>2, <1>3
    <3> QED BY <3>2, <3>5, <3>6
  <2> QED BY <2>1, <2>2
<1>10. AddLink(nbrs, v, dest, l) = [nbrs EXCEPT ![IF used = {} THEN b ELSE Max(used) + 1] = dest]
  BY <1>1, <1>6 DEF AddLink
<1>11. PICK new : new = AddLink(nbrs, v, dest, l)
  OBVIOUS
<1>12. new = [nbrs EXCEPT ![b + n] = dest]
  BY <1>9, <1>10, <1>11
<1>13. b + n \in b .. e - 1 /\ b + n \in Place(v, l) /\ b + n \in DOMAIN nbrs
  BY <1>1, <1>2, <1>3, <1>8 DEF Place
<1>14. /\ DOMAIN new = DOMAIN nbrs /\ new[b + n] = dest
       /\ \A i \in DOMAIN nbrs : i # b + n => new[i] = nbrs[i]
  BY <1>12, <1>13
<1>15. PICK q : q = Append(s, dest)
  OBVIOUS
<1>16. /\ q \in Seq(Points) /\ Len(q) = n + 1 /\ q[n + 1] = dest /\ DOMAIN q = 1 .. n + 1
       /\ \A i \in 1 .. n : q[i] = s[i]
  BY <1>3, <1>15, AppendProperties, LenProperties DEF IsList
<1>17. IsInjective(q)
  <2> SUFFICES ASSUME NEW i \in 1 .. n + 1, NEW j \in 1 .. n + 1, q[i] = q[j] PROVE i = j
    BY <1>16 DEF IsInjective
  <2>1. \A k \in 1 .. n : q[k] = s[k] /\ q[k] # dest BY <1>3, <1>16 DEF ToSet
  <2>2. \A k \in 1 .. n + 1 : k \in 1 .. n \/ k = n + 1 BY <1>3
  <2>3. \A k, m \in 1 .. n : s[k] = s[m] => k = m BY <1>3 DEF IsList, IsInjective
  <2> QED BY <1>16, <2>1, <2>2, <2>3
<1>18. ASSUME NEW i \in b .. e - 1
       PROVE  new[i] = IF i - b < n + 1 THEN q[i - b + 1] ELSE NoPoint
  <2>1. i \in DOMAIN nbrs BY <1>1 DEF Place
  <2>2. CASE i = b + n
    <3>1. i - b < n + 1 /\ i - b + 1 = n + 1 BY <1>2, <1>3, <2>2
    <3> QED BY <1>14, <1>16, <2>2, <3>1
  <2>3. CASE i # b + n
    <3>1. new[i] = nbrs[i] BY <1>14, <2>1, <2>3
    <3>2. i - b < n + 1 <=> i - b < n BY <1>2, <1>3, <2>3
    <3>3. i - b < n => i - b + 1 \in 1 .. n BY <1>2, <1>3
    <3> QED BY <1>4, <1>16, <3>1, <3>2, <3>3
  <2> QED BY <2>2, <2>3
<1>19. IsList(new, v, l, q)
  <2>1. Len(q) <= nb BY <1>2, <1>3, <1>8, <1>16
  <2> QED BY <1>1, <1>16, <1>17, <1>18, <2>1 DEF IsList, Place
<1>20. \A i \in DOMAIN nbrs : i \notin Place(v, l) => new[i] = nbrs[i]
  BY <1>13, <1>14
<1> QED BY <1>11, <1>14, <1>15, <1>19, <1>20

\* A link more in a full list of the base level: some of all these links.
LEMMA FullIs ==
  ASSUME gamma \in Gammas, NEW v \in Points, NEW nbrs, NEW s,
         IsList(nbrs, v, 0, s), Place(v, 0) \subseteq DOMAIN nbrs, DOMAIN nbrs \subseteq Int,
         NEW dest \in Points, dest \notin ToSet(s), ~HasRoom(nbrs, v, 0)
  PROVE  /\ DOMAIN AddLink(nbrs, v, dest, 0) = DOMAIN nbrs
         /\ \A i \in DOMAIN nbrs : i \notin Place(v, 0) => AddLink(nbrs, v, dest, 0)[i] = nbrs[i]
         /\ \E q : /\ IsList(AddLink(nbrs, v, dest, 0), v, 0, q)
                   /\ \A x \in ToSet(q) : x \in ToSet(s) \/ x = dest
<1>1. PICK b, e, nb : b = Begin(v, 0) /\ e = End(v, 0) /\ nb = NbNeighbors(0)
  OBVIOUS
<1>2. b \in Nat /\ e \in Nat /\ nb \in Nat /\ e = b + nb /\ nb >= 2
  <2>1. 0 \in 0 .. Levels[v] - 1
    <3>1. Levels[v] \in Nat \ {0} BY Calls
    <3> QED BY <3>1
  <2> QED BY <1>1, <2>1, SlotsAre
<1>3. PICK n : n = Len(s) /\ n \in Nat /\ n <= nb /\ DOMAIN s = 1 .. n /\ \A i \in 1 .. n : s[i] \in Points
  BY <1>1, LenProperties, ElementOfSeq DEF IsList
<1>4. \A i \in b .. e - 1 : nbrs[i] = IF i - b < n THEN s[i - b + 1] ELSE NoPoint
  BY <1>1, <1>3 DEF IsList, Place
<1>5. n = nb
  <2>1. e - 1 \in b .. e - 1 /\ e - 1 - b = nb - 1 BY <1>2
  <2>2. nbrs[e - 1] # NoPoint BY <1>1 DEF HasRoom
  <2>3. e - 1 - b < n BY <1>4, <2>1, <2>2
  <2> QED BY <1>2, <1>3, <2>1, <2>3
<1>6. PICK old : old = ListOf(nbrs, v, 0)
  OBVIOUS
<1>7. old = [i \in 1 .. n |-> nbrs[b + i - 1]]
  BY <1>1, <1>5, <1>6 DEF ListOf
<1>8. \A i \in 1 .. n : old[i] = s[i]
  <2> SUFFICES ASSUME NEW i \in 1 .. n PROVE old[i] = s[i] OBVIOUS
  <2>1. b + i - 1 \in b .. e - 1 /\ (b + i - 1) - b < n /\ (b + i - 1) - b + 1 = i
    BY <1>2, <1>3, <1>5
  <2>2. nbrs[b + i - 1] = s[(b + i - 1) - b + 1] BY <1>4, <2>1
  <2> QED BY <1>7, <2>1, <2>2
<1>9. old \in Seq(Points) /\ Len(old) = n
  BY <1>3, <1>7, <1>8
<1>10. PICK one : one = <<dest>> /\ one \in Seq(Points) /\ Len(one) = 1 /\ one[1] = dest
  <2>1. <<dest>> \in Seq(Points) /\ Len(<<dest>>) = 1 /\ <<dest>>[1] = dest OBVIOUS
  <2> QED BY <2>1
<1>11. PICK c : c = one \o old
  OBVIOUS
<1>12. /\ c \in Seq(Points) /\ Len(c) = n + 1
       /\ \A i \in 1 .. n + 1 : c[i] = IF i = 1 THEN dest ELSE s[i - 1]
  <2>1. /\ one \o old \in Seq(Points) /\ Len(one \o old) = Len(one) + Len(old)
        /\ \A i \in 1 .. Len(one) + Len(old) :
             (one \o old)[i] = IF i <= Len(one) THEN one[i] ELSE old[i - Len(one)]
    BY <1>9, <1>10, ConcatProperties
  <2>2. \A i \in 1 .. n + 1 : i <= 1 <=> i = 1 BY <1>3
  <2>3. \A i \in 1 .. n + 1 : i # 1 => i - 1 \in 1 .. n BY <1>3
  <2>4. 1 + n = n + 1 BY <1>3
  <2>5. c \in Seq(Points) /\ Len(c) = n + 1 BY <1>9, <1>10, <1>11, <2>1, <2>4
  <2>6. \A i \in 1 .. n + 1 : c[i] = IF i <= 1 THEN one[i] ELSE old[i - 1]
    BY <1>9, <1>10, <1>11, <2>1, <2>4
  <2> QED BY <1>8, <1>10, <2>2, <2>3, <2>5, <2>6
<1>13. DOMAIN c = 1 .. n + 1
  BY <1>12, LenProperties
<1>14. IsInjective(c)
  <2> SUFFICES ASSUME NEW i \in 1 .. n + 1, NEW j \in 1 .. n + 1, c[i] = c[j] PROVE i = j
    BY <1>13 DEF IsInjective
  <2>1. \A k \in 1 .. n : s[k] # dest BY <1>3 DEF ToSet
  <2>2. \A k \in 1 .. n + 1 : k # 1 => k - 1 \in 1 .. n BY <1>3
  <2>3. \A k, m \in 1 .. n : s[k] = s[m] => k = m BY <1>3 DEF IsList, IsInjective
  <2>4. CASE i = 1 \/ j = 1 BY <1>12, <2>1, <2>2, <2>4
  <2>5. CASE i # 1 /\ j # 1
    <3>1. s[i - 1] = s[j - 1] /\ i - 1 \in 1 .. n /\ j - 1 \in 1 .. n BY <1>12, <2>2, <2>5
    <3>2. i - 1 = j - 1 BY <2>3, <3>1
    <3> QED BY <1>3, <3>2
  <2> QED BY <2>4, <2>5
<1>15. PICK A : A = ToSet(c)
  OBVIOUS
<1>16. \A x \in A : x \in ToSet(s) \/ x = dest
  <2>1. \A i \in 1 .. n + 1 : i # 1 => i - 1 \in DOMAIN s BY <1>3
  <2> QED BY <1>12, <1>13, <1>15, <2>1 DEF ToSet
<1>17. Lists(c, Points, n + 1, A)
  BY <1>3, <1>12, <1>15 DEF Lists
<1>18. PICK a : a = NearestFirst(v, c)
  OBVIOUS
<1>19. Lists(a, Points, n + 1, A) /\ IsInjective(a)
  BY <1>14, <1>17, <1>18, NearestFirstIs, Zenon
<1>20. PICK k : k = Shrink(nbrs, a, nb)
  OBVIOUS
<1>21. PICK m, B : Lists(k, Points, m, B) /\ m <= nb /\ B \subseteq A /\ IsInjective(k)
  <2>1. nb \in Nat \ {0} BY <1>2
  <2>2. \E m, B : /\ Lists(Shrink(nbrs, a, nb), Points, m, B) /\ m <= nb /\ B \subseteq A
                  /\ IsInjective(a) => IsInjective(Shrink(nbrs, a, nb))
    BY <1>19, <2>1, ShrinkIs
  <2> QED BY <1>19, <1>20, <2>2
<1>22. PICK q : q = Reverse(k)
  OBVIOUS
<1>23. Lists(q, Points, m, B) /\ IsInjective(q)
  BY <1>21, <1>22, ReverseIs, Zenon
<1>24. q \in Seq(Points) /\ Len(q) = m /\ m \in Nat /\ ToSet(q) = B /\ DOMAIN q = 1 .. m
  BY <1>23, LenProperties DEF Lists
<1>25. PICK new : new = AddLink(nbrs, v, dest, 0)
  OBVIOUS
<1>26. new = [i \in DOMAIN nbrs |->
                IF i - b + 1 \in DOMAIN q THEN q[i - b + 1]
                ELSE IF i \in b .. e - 1 THEN NoPoint ELSE nbrs[i]]
  <2> DEFINE written(list) == [i \in DOMAIN nbrs |->
                IF i - b + 1 \in DOMAIN list THEN list[i - b + 1]
                ELSE IF i \in b .. e - 1 THEN NoPoint ELSE nbrs[i]]
  <2>1. new = The({written(list) : list \in {Reverse(Shrink(nbrs, NearestFirst(v, <<dest>> \o ListOf(nbrs, v, 0)), NbNeighbors(0)))}})
    BY <1>1, <1>25 DEF AddLink
  <2>2. Reverse(Shrink(nbrs, NearestFirst(v, <<dest>> \o ListOf(nbrs, v, 0)), NbNeighbors(0))) = q
    BY <1>1, <1>6, <1>10, <1>11, <1>18, <1>20, <1>22
  <2>3. {written(list) : list \in {q}} = {written(q)}
    <3> HIDE DEF written
    <3> QED OBVIOUS
  <2>4. new = written(q)
    <3> HIDE DEF written
    <3> QED BY <2>1, <2>2, <2>3, TheIs
  <2> QED BY <2>4
<1>27. DOMAIN new = DOMAIN nbrs
  BY <1>26
<1>28. ASSUME NEW i \in DOMAIN nbrs, i \notin b .. e - 1, i \in Int
       PROVE  new[i] = nbrs[i]
  <2>1. i - b + 1 \notin DOMAIN q BY <1>2, <1>21, <1>24, <1>28
  <2> QED BY <1>26, <1>28, <2>1
<1>29. ASSUME NEW i \in b .. e - 1
       PROVE  new[i] = IF i - b < m THEN q[i - b + 1] ELSE NoPoint
  <2>1. i \in DOMAIN nbrs BY <1>1 DEF Place
  <2>2. i - b + 1 \in 1 .. m <=> i - b < m BY <1>2, <1>24
  <2> QED BY <1>24, <1>26, <2>1, <2>2
<1>30. IsList(new, v, 0, q)
  BY <1>1, <1>21, <1>23, <1>24, <1>29 DEF IsList, Place
<1>31. \A x \in ToSet(q) : x \in ToSet(s) \/ x = dest
  BY <1>16, <1>21, <1>24
<1>32. \A i \in DOMAIN nbrs : i \notin Place(v, 0) => new[i] = nbrs[i]
  BY <1>1, <1>28 DEF Place
<1>33. \E r : IsList(new, v, 0, r) /\ \A x \in ToSet(r) : x \in ToSet(s) \/ x = dest
  BY <1>30, <1>31
<1> QED BY <1>25, <1>27, <1>32, <1>33

\* What a link more makes of a list: at most one member more, and of the others
\* nothing.
Relinked(new, old, v, l, s, dest) ==
  /\ DOMAIN new = DOMAIN old
  /\ \A i \in DOMAIN old : i \notin Place(v, l) => new[i] = old[i]
  /\ \E q : IsList(new, v, l, q) /\ \A x \in ToSet(q) : x \in ToSet(s) \/ x = dest

\* add_link leaves a list that holds nothing but what was in it, and the new link.
LEMMA AddLinkIs ==
  ASSUME gamma \in Gammas, NEW v \in Points, NEW l \in 0 .. Levels[v] - 1, NEW nbrs, NEW s,
         IsList(nbrs, v, l, s), Place(v, l) \subseteq DOMAIN nbrs, DOMAIN nbrs \subseteq Int,
         NEW dest \in Points, dest \notin ToSet(s), ~Spills(nbrs, v, l)
  PROVE  Relinked(AddLink(nbrs, v, dest, l), nbrs, v, l, s, dest)
<1>1. CASE HasRoom(nbrs, v, l)
  <2>1. PICK n : n = Len(s) /\ n \in Nat /\ DOMAIN s = 1 .. n
    BY LenProperties DEF IsList
  <2>2. PICK q : q = Append(s, dest)
    OBVIOUS
  <2>3. /\ Len(q) = n + 1 /\ q[n + 1] = dest /\ DOMAIN q = 1 .. n + 1
        /\ \A i \in 1 .. n : q[i] = s[i]
    BY <2>1, <2>2, AppendProperties, LenProperties DEF IsList
  <2>4. \A x \in ToSet(q) : x \in ToSet(s) \/ x = dest
    <3> SUFFICES ASSUME NEW i \in 1 .. n + 1 PROVE q[i] \in ToSet(s) \/ q[i] = dest
      BY <2>3 DEF ToSet
    <3>1. i \in 1 .. n \/ i = n + 1 BY <2>1
    <3> QED BY <2>1, <2>3, <3>1 DEF ToSet
  <2>5. PICK new : new = AddLink(nbrs, v, dest, l)
    OBVIOUS
  <2>6. /\ DOMAIN new = DOMAIN nbrs
        /\ \A i \in DOMAIN nbrs : i \notin Place(v, l) => new[i] = nbrs[i]
        /\ IsList(new, v, l, q)
    BY <1>1, <2>2, <2>5, RoomIs
  <2> QED BY <2>4, <2>5, <2>6 DEF Relinked
<1>2. CASE ~HasRoom(nbrs, v, l)
  <2>1. l = 0
    <3>1. ~(l > 0) BY <1>2 DEF Spills
    <3>2. Levels[v] \in Nat BY Calls
    <3> QED BY <3>1, <3>2
  <2>2. PICK new : new = AddLink(nbrs, v, dest, 0)
    OBVIOUS
  <2>3. /\ DOMAIN new = DOMAIN nbrs
        /\ \A i \in DOMAIN nbrs : i \notin Place(v, 0) => new[i] = nbrs[i]
        /\ \E q : IsList(new, v, 0, q) /\ \A x \in ToSet(q) : x \in ToSet(s) \/ x = dest
    BY <1>2, <2>1, <2>2, FullIs
  <2> QED BY <2>1, <2>2, <2>3 DEF Relinked
<1> QED BY <1>1, <1>2
-----------------------------------------------------------------------------
\* What a thread links its vector to: some of what it found, nothing twice.
LEMMA TargetsAre ==
  ASSUME gamma \in Gammas, NEW r, IsFiniteSet(r.found), r.found \subseteq Points
  PROVE  \E n, B : Lists(Targets(r), Points, n, B) /\ B \subseteq r.found /\ IsInjective(Targets(r))
<1>1. PICK s : s = SetToSeq(r.found)
  OBVIOUS
<1>2. PICK n, A : Lists(s, Points, n, A) /\ A \subseteq r.found /\ IsInjective(s)
  <2>1. PICK X : X = r.found OBVIOUS
  <2>2. IsFiniteSet(X) /\ X \subseteq Points BY <2>1
  <2>3. \E n, A : Lists(SetToSeq(X), Points, n, A) /\ A \subseteq X /\ IsInjective(SetToSeq(X))
    BY <2>2, SetToSeqIs
  <2> QED BY <1>1, <2>1, <2>3
<1>3. PICK a : a = NearestFirst(r.pt, s)
  OBVIOUS
<1>4. Lists(a, Points, n, A) /\ IsInjective(a)
  BY <1>2, <1>3, NearestFirstIs, Zenon
<1>5. PICK nb : nb = NbNeighbors(0) /\ nb \in Nat \ {0}
  <2>1. Cum(gamma, 0) \in Nat /\ Cum(gamma, 0 + 1) \in Nat /\ Cum(gamma, 0) + 2 <= Cum(gamma, 0 + 1)
    BY CumIs
  <2>2. NbNeighbors(0) = Cum(gamma, 0 + 1) - Cum(gamma, 0) BY DEF NbNeighbors
  <2> QED BY <2>1, <2>2
<1>6. PICK k : k = IF r.level = 0 THEN Shrink(neighbors, a, nb) ELSE a
  OBVIOUS
<1>7. PICK m, B : Lists(k, Points, m, B) /\ B \subseteq A /\ IsInjective(k)
  <2>1. CASE r.level = 0
    <3>1. \E m, B : /\ Lists(Shrink(neighbors, a, nb), Points, m, B) /\ m <= nb /\ B \subseteq A
                    /\ IsInjective(a) => IsInjective(Shrink(neighbors, a, nb))
      BY <1>4, <1>5, ShrinkIs
    <3> QED BY <1>4, <1>6, <2>1, <3>1
  <2>2. CASE r.level # 0
    <3>1. k = a BY <1>6, <2>2
    <3>2. A \subseteq A OBVIOUS
    <3> QED BY <1>4, <3>1, <3>2
  <2> QED BY <2>1, <2>2
<1>8. PICK q : q = Reverse(k)
  OBVIOUS
<1>9. Lists(q, Points, m, B) /\ IsInjective(q)
  BY <1>7, <1>8, ReverseIs, Zenon
<1>10. Targets(r) = q
  BY <1>1, <1>3, <1>5, <1>6, <1>8 DEF Targets
<1>11. B \subseteq r.found
  BY <1>2, <1>7
<1> QED BY <1>9, <1>10, <1>11
-----------------------------------------------------------------------------
\* The array with one list more.
Grown(new, v, l, A) ==
  /\ DOMAIN new = DOMAIN neighbors
  /\ \A i \in DOMAIN neighbors : i \notin Place(v, l) => new[i] = neighbors[i]
  /\ \E q : IsList(new, v, l, q) /\ \A x \in ToSet(q) : x \in A

\* And so do as many links as a list of targets has, for a vector whose list was empty.
LEMMA LinkToAllIs ==
  ASSUME gamma \in Gammas, NEW r, NEW q, NEW n, NEW A, Lists(q, Points, n, A), IsInjective(q),
         r.pt \in Points, r.level \in 0 .. Levels[r.pt] - 1, IsList(neighbors, r.pt, r.level, <<>>),
         Place(r.pt, r.level) \subseteq DOMAIN neighbors, DOMAIN neighbors \subseteq Int
  PROVE  /\ LinkToAll(r, q).spilled \in BOOLEAN
         /\ ~LinkToAll(r, q).spilled => Grown(LinkToAll(r, q).nbrs, r.pt, r.level, A)
<1>1. PICK v, l : v = r.pt /\ l = r.level
  OBVIOUS
<1>2. v \in Points /\ l \in 0 .. Levels[v] - 1 /\ IsList(neighbors, v, l, <<>>)
      /\ Place(v, l) \subseteq DOMAIN neighbors
  BY <1>1
<1>3. Len(q) = n /\ n \in Nat /\ DOMAIN q = 1 .. n /\ \A i \in 1 .. n : q[i] \in Points
  BY LenProperties, ElementOfSeq DEF Lists
<1>4. PICK f : LinkRun(f, r, q, n) /\ LinkToAll(r, q) = f[n]
  <2>1. Len(q) \in Nat BY <1>3
  <2>2. PICK f : LinkRun(f, r, q, Len(q)) /\ LinkToAll(r, q) = f[Len(q)] BY <2>1, LinkSteps
  <2> QED BY <1>3, <2>2
<1>5. f[0] = NoneLinked /\ \A i \in 1 .. n : f[i] = LinkTo(f[i - 1], r, q[i])
  BY <1>4 DEF LinkRun
<1>6. \A i \in 1 .. n : /\ f[i].nbrs = AddLink(f[i - 1].nbrs, v, q[i], l)
                        /\ f[i].spilled = (f[i - 1].spilled \/ Spills(f[i - 1].nbrs, v, l))
  <2> SUFFICES ASSUME NEW i \in 1 .. n
               PROVE  /\ f[i].nbrs = AddLink(f[i - 1].nbrs, v, q[i], l)
                      /\ f[i].spilled = (f[i - 1].spilled \/ Spills(f[i - 1].nbrs, v, l))
    OBVIOUS
  <2>1. PICK g, h, x : g = f[i - 1] /\ h = f[i] /\ x = q[i] OBVIOUS
  <2>2. PICK new, b : new = AddLink(g.nbrs, v, x, l) /\ b = (g.spilled \/ Spills(g.nbrs, v, l))
    OBVIOUS
  <2>3. h = LinkTo(g, r, x) BY <1>5, <2>1
  <2>4. h = [nbrs |-> new, spilled |-> b] BY <1>1, <2>2, <2>3 DEF LinkTo
  <2>5. h.nbrs = new /\ h.spilled = b BY <2>4
  <2> QED BY <2>1, <2>2, <2>5
<1> DEFINE before(i) == {q[j] : j \in 1 .. i}
           P == {i \in 0 .. n : /\ f[i].spilled \in BOOLEAN
                                /\ ~f[i].spilled => Grown(f[i].nbrs, v, l, before(i))}
<1>7. 0 \in P
  <2>1. f[0].nbrs = neighbors /\ f[0].spilled = FALSE BY <1>5 DEF NoneLinked
  <2>2. PICK none : none = <<>> OBVIOUS
  <2>3. IsList(neighbors, v, l, none) /\ ToSet(none) = {}
    BY <1>2, <2>2, NoneListed DEF Lists
  <2>4. Grown(neighbors, v, l, before(0))
    <3> HIDE DEF before
    <3> QED BY <2>3 DEF Grown
  <2>5. 0 \in 0 .. n BY <1>3
  <2> HIDE DEF before
  <2> QED BY <2>1, <2>4, <2>5
<1>8. ASSUME NEW i \in 1 .. n, i - 1 \in P PROVE i \in P
  <2>1. PICK k : k = i - 1 OBVIOUS
  <2>2. PICK old, new, x : old = f[k].nbrs /\ new = f[i].nbrs /\ x = q[i]
    OBVIOUS
  <2>3. f[k].spilled \in BOOLEAN /\ (~f[k].spilled => Grown(old, v, l, before(k)))
    BY <1>8, <2>1, <2>2
  <2>4. new = AddLink(old, v, x, l) /\ f[i].spilled = (f[k].spilled \/ Spills(old, v, l))
    BY <1>6, <2>1, <2>2
  <2>5. Spills(old, v, l) \in BOOLEAN BY DEF Spills
  <2>6. before(i) = before(k) \union {x}
    <3>1. \A j \in 1 .. i : j \in 1 .. k \/ j = i BY <1>3, <2>1
    <3>2. 1 .. k \subseteq 1 .. i /\ i \in 1 .. i BY <1>3, <2>1
    <3> QED BY <2>2, <3>1, <3>2
  <2>7. x \notin before(k)
    <3> SUFFICES ASSUME NEW j \in 1 .. k, q[j] = x PROVE FALSE
      OBVIOUS
    <3>1. j \in DOMAIN q /\ i \in DOMAIN q /\ j # i BY <1>3, <2>1
    <3> QED BY <2>2, <3>1 DEF IsInjective
  <2>8. ASSUME ~f[i].spilled PROVE Grown(new, v, l, before(i))
    <3> HIDE DEF before
    <3>1. ~f[k].spilled /\ ~Spills(old, v, l) BY <2>3, <2>4, <2>5, <2>8
    <3>2. Grown(old, v, l, before(k)) BY <2>3, <3>1
    <3>3. PICK s : IsList(old, v, l, s) /\ \A y \in ToSet(s) : y \in before(k)
      BY <3>2 DEF Grown
    <3>4. DOMAIN old = DOMAIN neighbors /\ x \in Points /\ x \notin ToSet(s)
      BY <1>3, <2>2, <2>7, <3>2, <3>3 DEF Grown
    <3>5. Place(v, l) \subseteq DOMAIN old /\ DOMAIN old \subseteq Int
      BY <1>2, <3>4
    <3>6. Relinked(new, old, v, l, s, x)
      BY <1>2, <2>4, <3>1, <3>3, <3>4, <3>5, AddLinkIs
    <3>7. PICK p : IsList(new, v, l, p) /\ \A y \in ToSet(p) : y \in ToSet(s) \/ y = x
      BY <3>6 DEF Relinked
    <3>8. \A y \in ToSet(p) : y \in before(i) BY <2>6, <3>3, <3>7
    <3>9. DOMAIN new = DOMAIN neighbors
          /\ \A j \in DOMAIN neighbors : j \notin Place(v, l) => new[j] = neighbors[j]
      BY <3>2, <3>4, <3>6 DEF Grown, Relinked
    <3> QED BY <3>7, <3>8, <3>9 DEF Grown
  <2>9. i \in 0 .. n /\ f[i].spilled \in BOOLEAN BY <1>3, <2>3, <2>4, <2>5
  <2> HIDE DEF before
  <2> QED BY <2>2, <2>8, <2>9
<1>9. n \in P
  <2>1. n \in 0 .. n BY <1>3
  <2> HIDE DEF P
  <2> QED BY <1>3, <1>7, <1>8, <2>1, Along
<1>10. before(n) = A
  BY <1>3 DEF Lists, ToSet
<1> HIDE DEF before
<1> QED BY <1>1, <1>4, <1>9, <1>10
-----------------------------------------------------------------------------
\* What a thread's search has in hand is of X.
Within(r, X) ==
  /\ r = [f \in Fields |-> r[f]] /\ r.cands \subseteq X /\ r.found \subseteq X /\ IsFiniteSet(r.found)

LEMMA WeighIs == \A r, x, X : Within(r, X) /\ x \in X => Within(Weigh(r, x), X)
<1> SUFFICES ASSUME NEW r, NEW x, NEW X, Within(r, X), x \in X PROVE Within(Weigh(r, x), X)
  OBVIOUS
<1>1. r = [f \in Fields |-> r[f]] /\ r.cands \subseteq X /\ r.found \subseteq X /\ IsFiniteSet(r.found)
  BY DEF Within
<1>2. PICK found : found = r.found \union {x} /\ found \subseteq X /\ IsFiniteSet(found)
  <2>1. IsFiniteSet(r.found \union {x}) BY <1>1, FS_AddElement
  <2> QED BY <1>1, <2>1
<1>3. \A y : IsFiniteSet(found \ {y}) /\ found \ {y} \subseteq X
  BY <1>2, FS_RemoveElement
<1>4. CASE Weigh(r, x) = r BY <1>4
<1>5. CASE \E S, n : Weigh(r, x) = [r EXCEPT !.seen = S, !.iters = n]
  <2>1. PICK S, n : Weigh(r, x) = [r EXCEPT !.seen = S, !.iters = n] BY <1>5
  <2>2. PICK w : w = Weigh(r, x) OBVIOUS
  <2>3. w = [f \in Fields |-> w[f]] /\ w.cands = r.cands /\ w.found = r.found
    BY <1>1, <2>1, <2>2 DEF Fields
  <2> QED BY <1>1, <2>2, <2>3 DEF Within
<1>6. CASE \E S, n, C, F : /\ Weigh(r, x) = [r EXCEPT !.seen = S, !.iters = n, !.cands = C, !.found = F]
                           /\ C \subseteq X /\ F \subseteq X /\ IsFiniteSet(F)
  <2>1. PICK S, n, C, F : /\ Weigh(r, x) = [r EXCEPT !.seen = S, !.iters = n, !.cands = C, !.found = F]
                          /\ C \subseteq X /\ F \subseteq X /\ IsFiniteSet(F)
    BY <1>6
  <2>2. PICK w : w = Weigh(r, x) OBVIOUS
  <2>3. w = [f \in Fields |-> w[f]] /\ w.cands = C /\ w.found = F
    BY <1>1, <2>1, <2>2 DEF Fields
  <2> QED BY <2>1, <2>2, <2>3 DEF Within
<1> DEFINE iters == r.iters + 1
           better == \/ Cardinality(r.found) < M * gamma
                     \/ Dist[<<r.pt, x>>] < Dist[<<r.pt, Farthest(r.pt, r.found)>>]
           C == IF better THEN r.cands \union {x} ELSE r.cands
           F == IF ~better THEN r.found
                ELSE IF Cardinality(found) <= M * gamma THEN found
                ELSE found \ {Farthest(r.pt, found)}
           S == r.seen \union {x}
<1>7. Weigh(r, x) =
        IF r.iters > M \/ x \in r.seen THEN r
        ELSE IF iters > M THEN [r EXCEPT !.seen = S, !.iters = iters]
        ELSE [r EXCEPT !.seen = S, !.iters = iters + 1, !.cands = C, !.found = F]
  BY <1>1, <1>2 DEF Weigh, Fields
<1>8. C \subseteq X /\ F \subseteq X /\ IsFiniteSet(F)
  BY <1>1, <1>2, <1>3
<1> HIDE DEF C, F, S, iters, better
<1> QED BY <1>4, <1>5, <1>6, <1>7, <1>8

Weighed(r, s) == Fold(Weigh, r, s)

\* What a search has found and what it may look at next are vectors it has met.
LEMMA WeighedIs ==
  \A r, s, X : Within(r, X) /\ s \in Seq(Points) /\ ToSet(s) \subseteq X => Within(Weighed(r, s), X)
<1> SUFFICES ASSUME NEW r, NEW s \in Seq(Points), NEW X, Within(r, X), ToSet(s) \subseteq X
             PROVE  Within(Weighed(r, s), X)
  OBVIOUS
<1>1. PICK n : n = Len(s) /\ n \in Nat /\ DOMAIN s = 1 .. n
  BY LenProperties
<1>2. \A i \in 1 .. n : s[i] \in X
  BY <1>1 DEF ToSet
<1>3. PICK f : WeighRun(f, r, s, n) /\ Weighed(r, s) = f[n]
  <2>1. \E f : WeighRun(f, r, s, Len(s)) /\ Weighed(r, s) = f[Len(s)]
    <3>1. Len(s) \in Nat BY <1>1
    <3> QED BY <3>1, WeighSteps DEF Weighed
  <2> QED BY <1>1, <2>1
<1>4. f[0] = r /\ \A i \in 1 .. n : f[i] = Weigh(f[i - 1], s[i])
  BY <1>3 DEF WeighRun
<1> DEFINE P == {i \in 0 .. n : Within(f[i], X)}
<1>5. 0 \in P BY <1>1, <1>4
<1>6. ASSUME NEW i \in 1 .. n, i - 1 \in P PROVE i \in P
  <2>1. Within(f[i - 1], X) /\ s[i] \in X /\ i \in 0 .. n BY <1>1, <1>2, <1>6
  <2>2. Within(Weigh(f[i - 1], s[i]), X) BY <2>1, WeighIs, Zenon
  <2> QED BY <1>4, <2>1, <2>2
<1>7. n \in P
  <2>1. n \in 0 .. n BY <1>1
  <2> HIDE DEF P
  <2> QED BY <1>1, <1>5, <1>6, <2>1, Along
<1> QED BY <1>3, <1>7
-----------------------------------------------------------------------------
\* the vector's list of the level is not linked yet
Early(r, l) ==
  \/ r.pc \in {"entered", "greedy"}
  \/ r.pc = "search" /\ l <= r.level
  \/ r.pc = "back" /\ l < r.level

\* the lists, each by vector and level, that no thread has linked yet
Unlinked ==
  {p \in Points \X Nat :
     \/ p[1] \notin Added
     \/ \E t \in Threads : th[t].pt = p[1] /\ Early(th[t], p[2])}

\* the vectors a list may hold
Linkable ==
  [p \in Points \X Nat |-> {x \in Added : x # p[1] /\ Levels[x] > p[2] /\ <<x, p[2]>> \notin Unlinked}]

\* what is in the slots of a list
Held == [p \in Points \X Nat |-> {neighbors[i] : i \in Place(p[1], p[2])}]

\* the vectors threads are at work on
Busy == {v \in Points : \E t \in Threads : Active(t) /\ th[t].pt = v}

Sound(v, l) ==
  \E s : /\ IsList(neighbors, v, l, s)
         /\ \A x \in ToSet(s) : x \in Linkable[<<v, l>>]
         /\ <<v, l>> \in Unlinked => s = <<>>

AllSound ==
  call > 0 => \A v \in Points : v < CallEnds[call] => \A l \in 0 .. Levels[v] - 1 : Sound(v, l)

Spans == call > 0 => DOMAIN neighbors = 0 .. Offsets[gamma][CallEnds[call]]

\* no two threads have the same vector
Apart == \A t, u \in Threads : Active(t) /\ Active(u) /\ t # u => th[t].pt # th[u].pt

EntryReady == entryPoint \notin Busy

\* where a thread is, and what it has in hand
Sane(t) ==
  /\ th[t].pc \in {"idle", "entered", "greedy", "search", "back", "raise", "point"}
  /\ th[t].pc \in {"entered", "greedy", "search", "back"} =>
       th[t].nearest \in Added /\ th[t].nearest \notin Busy
  /\ th[t].pc = "greedy" => th[t].level \in Int /\ th[t].level > ptLevel
  /\ th[t].pc \in {"search", "back"} => th[t].level \in 0 .. ptLevel
  /\ th[t].pc \in {"greedy", "search", "back"} => Levels[th[t].nearest] > th[t].level
  /\ th[t].pc = "search" =>
       /\ IsFiniteSet(th[t].found)
       /\ \A x \in th[t].cands : x \in Linkable[<<th[t].pt, th[t].level>>]
       /\ \A x \in th[t].found : x \in Linkable[<<th[t].pt, th[t].level>>]
  /\ th[t].pc = "back" =>
       /\ th[t].back \in Seq(Points) /\ IsInjective(th[t].back)
       /\ \A x \in ToSet(th[t].back) : /\ x \in Linkable[<<th[t].pt, th[t].level>>]
                                       /\ th[t].pt \notin Held[<<x, th[t].level>>]

AllSane == \A t \in Threads : Sane(t)

LinksInv == Spans /\ AllSound /\ Apart /\ EntryReady /\ AllSane
-----------------------------------------------------------------------------
\* A list may hold ever more.
LEMMA MoreLinkable ==
  ASSUME \A x \in Added : x \in Added', \A p \in Unlinked' : p \in Unlinked
  PROVE  \A p \in Points \X Nat : \A x \in Linkable[p] : x \in Linkable'[p]
<1> SUFFICES ASSUME NEW p \in Points \X Nat, NEW x \in Linkable[p] PROVE x \in Linkable'[p]
  OBVIOUS
<1>1. x \in Added /\ x # p[1] /\ Levels[x] > p[2] /\ <<x, p[2]>> \notin Unlinked
  BY DEF Linkable
<1>2. x \in Added' /\ <<x, p[2]>> \notin Unlinked'
  BY <1>1
<1>3. Linkable' = [q \in Points \X Nat |-> {y \in Added' : y # q[1] /\ Levels[y] > q[2] /\ <<y, q[2]>> \notin Unlinked'}]
  BY DEF Linkable
<1> QED BY <1>1, <1>2, <1>3

\* The slots of a list are those of the index, which no step moves.
LEMMA SameSlots ==
  ASSUME gamma' = gamma
  PROVE  /\ \A v, l, s : (IsList(neighbors, v, l, s))' <=> IsList(neighbors', v, l, s)
         /\ Held' = [p \in Points \X Nat |-> {neighbors'[i] : i \in Place(p[1], p[2])}]
<1>1. \A v, l : (Begin(v, l))' = Begin(v, l) /\ (End(v, l))' = End(v, l)
                /\ (NbNeighbors(l))' = NbNeighbors(l)
  BY DEF Begin, End, NbNeighbors
<1>2. \A v, l : (Place(v, l))' = Place(v, l)
  BY <1>1 DEF Place
<1>3. ASSUME NEW v, NEW l, NEW s PROVE (IsList(neighbors, v, l, s))' <=> IsList(neighbors', v, l, s)
  BY <1>1, <1>2 DEF IsList
<1>4. Held' = [p \in Points \X Nat |-> {neighbors'[i] : i \in Place(p[1], p[2])}]
  BY <1>1 DEF Held, Place, End, Begin
<1> QED BY <1>3, <1>4

\* Lists that nobody writes stay sound, as long as what they may hold grows.
LEMMA SoundKept ==
  ASSUME AllSound, \A x \in Added : x \in Added', \A p \in Unlinked' : p \in Unlinked,
         UNCHANGED <<gamma, call, neighbors>>
  PROVE  AllSound' /\ Held' = Held
<1>1. Held' = Held
  BY SameSlots DEF Held
<1>2. ASSUME call > 0, NEW v \in Points, v < CallEnds[call], NEW l \in 0 .. Levels[v] - 1
      PROVE  (Sound(v, l))'
  <2>1. PICK s : /\ IsList(neighbors, v, l, s)
                 /\ \A x \in ToSet(s) : x \in Linkable[<<v, l>>]
                 /\ <<v, l>> \in Unlinked => s = <<>>
    BY <1>2 DEF AllSound, Sound
  <2>2. (IsList(neighbors, v, l, s))' BY <2>1, SameSlots
  <2>3. <<v, l>> \in Points \X Nat
    <3>1. Levels[v] \in Nat BY Calls
    <3> QED BY <3>1
  <2>4. \A x \in ToSet(s) : x \in Linkable'[<<v, l>>] BY <2>1, <2>3, MoreLinkable
  <2>5. <<v, l>> \in Unlinked' => s = <<>> BY <2>1
  <2> QED BY <2>2, <2>4, <2>5 DEF Sound
<1> QED BY <1>1, <1>2 DEF AllSound

\* One thread's move leaves lists unlinked only if they were.
LEMMA UnlinkedLess ==
  ASSUME DOMAIN th = Threads, NEW t \in Threads, NEW r, th' = [th EXCEPT ![t] = r],
         \A x \in Added : x \in Added',
         \A l \in Nat : r.pt \in Points /\ Early(r, l) => <<r.pt, l>> \in Unlinked
  PROVE  \A p \in Unlinked' : p \in Unlinked
<1> SUFFICES ASSUME NEW p \in Unlinked' PROVE p \in Unlinked
  OBVIOUS
<1>1. PICK v \in Points, l \in Nat : p = <<v, l>>
  BY DEF Unlinked
<1>2. v \notin Added' \/ \E u \in Threads : th'[u].pt = v /\ Early(th'[u], l)
  BY <1>1 DEF Unlinked, Early
<1>3. CASE v \notin Added'
  BY <1>1, <1>3 DEF Unlinked
<1>4. CASE \E u \in Threads : th'[u].pt = v /\ Early(th'[u], l)
  <2>1. PICK u \in Threads : th'[u].pt = v /\ Early(th'[u], l) BY <1>4
  <2>2. CASE u = t BY <1>1, <2>1, <2>2
  <2>3. CASE u # t
    <3>1. th'[u] = th[u] BY <2>3
    <3>2. th[u].pt = v /\ Early(th[u], l) BY <2>1, <3>1
    <3> QED BY <1>1, <3>2 DEF Unlinked
  <2> QED BY <2>2, <2>3
<1> QED BY <1>2, <1>3, <1>4

\* What another thread has in hand stays what it was.
LEMMA SaneKept ==
  ASSUME Inv, fault = "none", NEW u \in Threads, Sane(u), th'[u] = th[u], ptLevel' = ptLevel,
         \A x \in Added : x \in Added', \A p \in Unlinked' : p \in Unlinked,
         \A x \in Added : x \in Busy' => x \in Busy,
         th[u].pc = "back" =>
           \A x \in ToSet(th[u].back) : th[u].pt \notin Held'[<<x, th[u].level>>]
  PROVE  (Sane(u))'
<1>1. PICK r : r = th[u] /\ r = th'[u]
  OBVIOUS
<1>2. r.pc \in {"search", "back"} => <<r.pt, r.level>> \in Points \X Nat
  <2> SUFFICES ASSUME r.pc \in {"search", "back"} PROVE <<r.pt, r.level>> \in Points \X Nat
    OBVIOUS
  <2>1. Active(u) BY <1>1 DEF Active
  <2>2. call > 0 /\ r.pt \in Batch(call, ptLevel) BY <1>1, <2>1 DEF Inv, AtWork
  <2>3. call \in 1 .. Len(CallEnds) /\ ptLevel \in Nat BY <2>2, Ends DEF Inv, Types
  <2>4. r.pt \in Points BY <2>2, <2>3, BatchIs
  <2>5. r.level \in 0 .. ptLevel BY <1>1 DEF Sane
  <2> QED BY <2>3, <2>4, <2>5
<1>3. \A p \in Points \X Nat : \A x \in Linkable[p] : x \in Linkable'[p]
  BY MoreLinkable
<1>4. /\ r.pc \in {"idle", "entered", "greedy", "search", "back", "raise", "point"}
      /\ r.pc \in {"entered", "greedy", "search", "back"} => r.nearest \in Added /\ r.nearest \notin Busy
      /\ r.pc = "greedy" => r.level \in Int /\ r.level > ptLevel
      /\ r.pc \in {"search", "back"} => r.level \in 0 .. ptLevel
      /\ r.pc \in {"greedy", "search", "back"} => Levels[r.nearest] > r.level
      /\ r.pc = "search" => /\ IsFiniteSet(r.found)
                            /\ \A x \in r.cands : x \in Linkable[<<r.pt, r.level>>]
                            /\ \A x \in r.found : x \in Linkable[<<r.pt, r.level>>]
      /\ r.pc = "back" =>
           /\ r.back \in Seq(Points) /\ IsInjective(r.back)
           /\ \A x \in ToSet(r.back) : x \in Linkable[<<r.pt, r.level>>]
  BY <1>1 DEF Sane
<1>5. r.pc = "back" => \A x \in ToSet(r.back) : r.pt \notin Held'[<<x, r.level>>]
  BY <1>1
<1>6. r.pc \in {"entered", "greedy", "search", "back"} => r.nearest \in Added' /\ r.nearest \notin Busy'
  BY <1>4
<1>7. r.pc = "search" => /\ \A x \in r.cands : x \in Linkable'[<<r.pt, r.level>>]
                         /\ \A x \in r.found : x \in Linkable'[<<r.pt, r.level>>]
  BY <1>2, <1>3, <1>4
<1>8. r.pc = "back" => \A x \in ToSet(r.back) : x \in Linkable'[<<r.pt, r.level>>]
  BY <1>2, <1>3, <1>4
<1>9. /\ r.pc = "greedy" => r.level \in Int /\ r.level > ptLevel'
      /\ r.pc \in {"search", "back"} => r.level \in 0 .. ptLevel'
  BY <1>4
<1> QED BY <1>1, <1>4, <1>5, <1>6, <1>7, <1>8, <1>9 DEF Sane
-----------------------------------------------------------------------------
\* A thread stays at its vector, or is through with it, and un-links no list.
Advances(t, r) ==
  /\ Active(t)
  /\ r.pc = "idle" \/ r.pt = th[t].pt
  /\ \A l \in Nat : Early(r, l) => Early(th[t], l)

\* A thread that moves on adds to what lists may hold.
LEMMA ThreadMoves ==
  ASSUME Inv, fault = "none", LinksInv, NEW t \in Threads, NEW r, Advances(t, r),
         th' = [th EXCEPT ![t] = r], UNCHANGED <<gamma, call, ptLevel, todo>>
  PROVE  /\ Added' = Added
         /\ \A p \in Unlinked' : p \in Unlinked
         /\ \A x \in Busy' : x \in Busy
         /\ Apart'
<1>1. DOMAIN th = Threads /\ th'[t] = r /\ \A u \in Threads : u # t => th'[u] = th[u]
  BY DEF Inv, Types
<1>2. Added' = Added
  BY DEF Added
<1>3. ASSUME NEW l \in Nat, r.pt \in Points, Early(r, l) PROVE <<r.pt, l>> \in Unlinked
  <2>1. r.pc # "idle" BY <1>3 DEF Early
  <2>2. r.pt = th[t].pt /\ Early(th[t], l) BY <1>3, <2>1 DEF Advances
  <2> QED BY <1>3, <2>2 DEF Unlinked
<1>4. \A p \in Unlinked' : p \in Unlinked
  BY <1>1, <1>2, <1>3, UnlinkedLess
<1>5. \A u \in Threads : (Active(u))' => Active(u) /\ th'[u].pt = th[u].pt
  BY <1>1 DEF Active, Advances
<1>6. \A x \in Busy' : x \in Busy
  BY <1>5 DEF Busy
<1>7. Apart'
  BY <1>5 DEF LinksInv, Apart
<1> QED BY <1>2, <1>4, <1>6, <1>7

\* The other threads are where they were.
LEMMA OthersSane ==
  ASSUME Inv, fault = "none", LinksInv, NEW t \in Threads, NEW r, Advances(t, r),
         th' = [th EXCEPT ![t] = r], UNCHANGED <<gamma, call, ptLevel, todo>>,
         \A u \in Threads : u # t /\ th[u].pc = "back" =>
           \A x \in ToSet(th[u].back) : th[u].pt \notin Held'[<<x, th[u].level>>],
         (Sane(t))'
  PROVE  AllSane'
<1>1. DOMAIN th = Threads /\ th'[t] = r /\ \A u \in Threads : u # t => th'[u] = th[u]
  BY DEF Inv, Types
<1>2. /\ \A x \in Added : x \in Added'
      /\ \A p \in Unlinked' : p \in Unlinked
      /\ \A x \in Added : x \in Busy' => x \in Busy
  BY ThreadMoves
<1>3. ASSUME NEW u \in Threads, u # t PROVE (Sane(u))'
  <2>1. Sane(u) BY DEF LinksInv, AllSane
  <2>2. th'[u] = th[u] BY <1>1, <1>3
  <2>3. th[u].pc = "back" => \A x \in ToSet(th[u].back) : th[u].pt \notin Held'[<<x, th[u].level>>]
    BY <1>3
  <2> QED BY <1>2, <2>1, <2>2, <2>3, SaneKept
<1> QED BY <1>3 DEF AllSane

\* A thread moves, and writes no link.
LEMMA ListsStay ==
  ASSUME Inv, fault = "none", LinksInv, NEW t \in Threads, NEW r, Advances(t, r),
         th' = [th EXCEPT ![t] = r], UNCHANGED <<gamma, call, ptLevel, todo, neighbors>>,
         EntryReady', (Sane(t))'
  PROVE  LinksInv'
<1>1. /\ \A x \in Added : x \in Added'
      /\ \A p \in Unlinked' : p \in Unlinked
      /\ Apart'
  BY ThreadMoves
<1>2. AllSound' /\ Held' = Held
  BY <1>1, SoundKept DEF LinksInv
<1>3. ASSUME NEW u \in Threads, th[u].pc = "back", NEW x \in ToSet(th[u].back)
      PROVE  th[u].pt \notin Held'[<<x, th[u].level>>]
  BY <1>2, <1>3 DEF LinksInv, AllSane, Sane
<1>4. AllSane'
  BY <1>3, OthersSane
<1>5. Spans'
  BY DEF LinksInv, Spans
<1> QED BY <1>1, <1>2, <1>4, <1>5 DEF LinksInv

\* The entry point stays, and nobody takes up work.
LEMMA EntryStays ==
  ASSUME LinksInv, UNCHANGED entryPoint, \A x \in Busy' : x \in Busy
  PROVE  EntryReady'
BY DEF LinksInv, EntryReady
-----------------------------------------------------------------------------
\* The vector a thread is at work on, and what is at work beside it.
LEMMA BusyLevel ==
  ASSUME Inv, fault = "none", NEW v \in Busy
  PROVE  Levels[v] - 1 = ptLevel /\ Levels[v] \in Nat /\ ptLevel \in Nat
<1>1. PICK t \in Threads : Active(t) /\ th[t].pt = v
  BY DEF Busy
<1> QED BY <1>1, WorkIs

\* A thread's vector is busy, and its lists that are still to be linked are so.
LEMMA OwnIs ==
  ASSUME Inv, fault = "none", NEW t \in Threads, Active(t)
  PROVE  /\ th[t].pt \in Busy /\ th[t].pt \in Points
         /\ \A l \in Nat : Early(th[t], l) => <<th[t].pt, l>> \in Unlinked
<1>1. th[t].pt \in Points
  BY WorkIs DEF Added
<1> QED BY <1>1 DEF Busy, Unlinked

\* A vector that was added and nobody is at work on may be in every list of its
\* levels, but its own.
LEMMA SettledLinkable ==
  ASSUME NEW x \in Added, x \notin Busy, NEW v \in Points, x # v, NEW l \in Nat, Levels[x] > l
  PROVE  x \in Linkable[<<v, l>>]
<1>1. x \in Points BY DEF Added
<1>2. <<x, l>> \notin Unlinked
  <2> SUFFICES ASSUME <<x, l>> \in Unlinked PROVE FALSE
    OBVIOUS
  <2>1. \E t \in Threads : th[t].pt = x /\ Early(th[t], l) BY DEF Unlinked
  <2> QED BY <1>1, <2>1 DEF Busy, Active, Early
<1>3. <<v, l>> \in Points \X Nat
  OBVIOUS
<1> QED BY <1>2, <1>3 DEF Linkable
-----------------------------------------------------------------------------
\* A thread begins the search of a level of its vector, with a vector it may link.
LEMMA SearchBegins ==
  ASSUME Inv, fault = "none", LinksInv, NEW t \in Threads, NEW r, Advances(t, r),
         th' = [th EXCEPT ![t] = r], UNCHANGED <<gamma, call, ptLevel, todo>>,
         r.pc = "search", r.level \in 0 .. ptLevel, r.cands = {r.nearest}, r.found = {r.nearest},
         r.nearest \in Added, r.nearest \notin Busy, Levels[r.nearest] > r.level
  PROVE  (Sane(t))'
<1>1. DOMAIN th = Threads /\ th'[t] = r
  BY DEF Inv, Types
<1>2. /\ \A x \in Added : x \in Added'
      /\ \A p \in Unlinked' : p \in Unlinked
      /\ \A x \in Busy' : x \in Busy
  BY ThreadMoves
<1>3. Active(t) /\ r.pt = th[t].pt
  BY DEF Advances
<1>4. r.pt \in Busy /\ r.pt \in Points
  BY <1>3, OwnIs
<1>5. ptLevel \in Nat /\ r.level \in Nat
  BY <1>4, BusyLevel
<1>6. <<r.pt, r.level>> \in Points \X Nat
  BY <1>4, <1>5
<1>7. r.nearest # r.pt
  BY <1>4
<1>8. r.nearest \in Linkable[<<r.pt, r.level>>]
  BY <1>4, <1>5, <1>7, SettledLinkable
<1>9. r.nearest \in Linkable'[<<r.pt, r.level>>]
  BY <1>2, <1>6, <1>8, MoreLinkable
<1>10. IsFiniteSet(r.found)
  BY FS_Singleton
<1> QED BY <1>1, <1>2, <1>9, <1>10 DEF Sane

\* The top level is one, once there is an entry point.
LEMMA TopIsLevel ==
  ASSUME Inv, fault = "none", NEW t \in Threads, Active(t)
  PROVE  maxLevel \in Nat /\ ptLevel \in Nat
<1>1. entryPoint \in Points /\ Levels[entryPoint] \in Nat \ {0} /\ ptLevel \in Nat /\ maxLevel \in Int
  BY WorkIs
<1>2. entryPoint # NoPoint
  BY <1>1 DEF Points, NoPoint
<1>3. Levels[entryPoint] - 1 = maxLevel \/ maxLevel = ptLevel
  BY <1>2 DEF Inv, TopLevel
<1> QED BY <1>1, <1>3

\* Each step of a thread keeps the lists sound.
LEMMA StartLinks ==
  ASSUME Inv, LinksInv, NEW t \in Threads, Start(t), fault' = "none" PROVE LinksInv'
<1> DEFINE next == IF maxLevel > ptLevel THEN [[th[t] EXCEPT !.level = maxLevel] EXCEPT !.pc = "greedy"]
                   ELSE Searching([th[t] EXCEPT !.level = maxLevel])
<1>1. PICK r : r = next
  OBVIOUS
<1>2. /\ fault = "none" /\ th[t].pc = "entered" /\ th' = [th EXCEPT ![t] = r]
      /\ UNCHANGED <<gamma, call, ptLevel, todo, neighbors, entryPoint, maxLevel>>
      /\ ~(Levels[th[t].nearest] <= maxLevel)
  BY <1>1 DEF Start
<1>3. DOMAIN th = Threads /\ th[t] = [f \in Fields |-> th[t][f]] /\ Active(t)
  BY <1>2 DEF Inv, Types, Active
<1>4. /\ r.pt = th[t].pt /\ r.nearest = th[t].nearest /\ r.level = maxLevel
      /\ maxLevel > ptLevel => r.pc = "greedy"
      /\ ~(maxLevel > ptLevel) => r.pc = "search" /\ r.cands = {r.nearest} /\ r.found = {r.nearest}
  BY <1>1, <1>3 DEF Searching, Fields
<1>5. Advances(t, r)
  BY <1>2, <1>3, <1>4 DEF Advances, Early
<1>6. maxLevel \in Nat /\ ptLevel \in Nat
  BY <1>2, <1>3, TopIsLevel
<1>7. r.nearest \in Added /\ r.nearest \notin Busy /\ Levels[r.nearest] \in Nat /\ Levels[r.nearest] > maxLevel
  <2>1. r.nearest \in Added /\ r.nearest \notin Busy BY <1>2, <1>4 DEF LinksInv, AllSane, Sane
  <2>2. Levels[r.nearest] \in Nat BY <2>1, Calls DEF Added
  <2> QED BY <1>2, <1>4, <1>6, <2>1, <2>2
<1>8. /\ \A x \in Added : x \in Added'
      /\ \A x \in Busy' : x \in Busy
  BY <1>2, <1>5, ThreadMoves
<1>9. (Sane(t))'
  <2>1. CASE maxLevel > ptLevel
    <3>1. th'[t] = r BY <1>2, <1>3
    <3> QED BY <1>2, <1>4, <1>6, <1>7, <1>8, <2>1, <3>1 DEF Sane
  <2>2. CASE ~(maxLevel > ptLevel)
    <3>1. r.level \in 0 .. ptLevel BY <1>4, <1>6, <2>2
    <3> QED BY <1>2, <1>4, <1>5, <1>7, <2>2, <3>1, SearchBegins
  <2> QED BY <2>1, <2>2
<1>10. EntryReady'
  BY <1>2, <1>8, EntryStays
<1> QED BY <1>2, <1>5, <1>9, <1>10, ListsStay
-----------------------------------------------------------------------------
\* A vector of the index and one of its levels.
LEMMA ListIs ==
  ASSUME Inv, fault = "none", LinksInv, gamma \in Gammas, call > 0,
         NEW v \in Added, NEW l \in Nat, Levels[v] > l
  PROVE  /\ v \in Points /\ v < CallEnds[call] /\ l \in 0 .. Levels[v] - 1
         /\ <<v, l>> \in Points \X Nat
         /\ \E s : /\ IsList(neighbors, v, l, s) /\ Links(neighbors, v, l) = s
                   /\ s \in Seq(Points)
                   /\ \A x \in ToSet(s) : x \in Linkable[<<v, l>>]
                   /\ <<v, l>> \in Unlinked => s = <<>>
<1>1. v \in Points /\ v < CallEnds[call] /\ Levels[v] \in Nat
  BY Calls DEF Added
<1>2. l \in 0 .. Levels[v] - 1
  BY <1>1
<1>3. PICK s : /\ IsList(neighbors, v, l, s)
               /\ \A x \in ToSet(s) : x \in Linkable[<<v, l>>]
               /\ <<v, l>> \in Unlinked => s = <<>>
  <2>1. Sound(v, l) BY <1>1, <1>2 DEF LinksInv, AllSound
  <2> QED BY <2>1 DEF Sound
<1>4. Links(neighbors, v, l) = s /\ s \in Seq(Points)
  BY <1>1, <1>2, <1>3, LinksAre DEF IsList
<1> QED BY <1>1, <1>2, <1>3, <1>4

\* What is in a list was added, has the level, and is linked there.
LEMMA LinkableIs ==
  ASSUME NEW v \in Points, NEW l \in Nat, NEW x \in Linkable[<<v, l>>]
  PROVE  x \in Added /\ x \in Points /\ x # v /\ Levels[x] > l /\ <<x, l>> \notin Unlinked
<1>1. Linkable[<<v, l>>] = {y \in Added : y # v /\ Levels[y] > l /\ <<y, l>> \notin Unlinked}
  BY DEF Linkable
<1> QED BY <1>1 DEF Added

\* The nearest of some finitely many vectors is one of them.
LEMMA NearestIs ==
  ASSUME NEW v \in Points, NEW S, S # {}, S \subseteq Points
  PROVE  Nearest(v, S) \in S
<1> DEFINE D == {Dist[<<v, x>>] : x \in S}
<1>1. \A x \in S : Dist[<<v, x>>] \in Nat
  BY AcornAssumption
<1>2. D \subseteq Nat /\ D # {}
  BY <1>1
<1>3. PICK a \in D : \A b \in D : a <= b
  <2> HIDE DEF D
  <2> QED BY <1>2, LeastMember
<1>4. PICK x \in S : a = Dist[<<v, x>>]
  BY <1>3
<1>5. \A y \in S : Dist[<<v, x>>] <= Dist[<<v, y>>]
  BY <1>3, <1>4
<1> HIDE DEF D
<1> QED BY <1>5 DEF Nearest
-----------------------------------------------------------------------------
\* The first links of a list are links of it.
LEMMA FirstAre ==
  ASSUME NEW s \in Seq(Points)
  PROVE  \A x \in ToSet(SubSeq(s, 1, Min({M, Len(s)}))) : x \in ToSet(s) /\ x \in Points
<1>1. PICK n : n = Len(s) /\ n \in Nat /\ DOMAIN s = 1 .. n
  BY LenProperties
<1>2. M \in Nat BY Parameters
<1>3. PICK m : m = Min({M, n})
  OBVIOUS
<1>4. m \in 0 .. n
  <2>1. \E a \in {M, n} : \A b \in {M, n} : a <= b BY <1>1, <1>2
  <2>2. m \in {M, n} /\ \A b \in {M, n} : m <= b BY <1>3, <2>1 DEF Min
  <2> QED BY <1>1, <1>2, <2>2
<1>5. PICK q : q = SubSeq(s, 1, m)
  OBVIOUS
<1>6. DOMAIN q = 1 .. m /\ \A i \in 1 .. m : q[i] = s[i]
  <2>1. 1 \in 1 .. Len(s) + 1 /\ m \in 1 - 1 .. Len(s) BY <1>1, <1>4
  <2>2. /\ SubSeq(s, 1, m) \in Seq(Points)
        /\ Len(SubSeq(s, 1, m)) = IF 1 <= m THEN m - 1 + 1 ELSE 0
        /\ \A i \in 1 .. (m - 1 + 1) : SubSeq(s, 1, m)[i] = s[1 + i - 1]
    BY <2>1, SubSeqProperties
  <2>3. DOMAIN q = 1 .. Len(q) BY <1>5, <2>2, LenProperties
  <2> QED BY <1>4, <1>5, <2>2, <2>3
<1>7. \A x \in ToSet(q) : \E i \in 1 .. n : x = s[i]
  <2>1. \A x \in ToSet(q) : \E i \in 1 .. m : x = q[i] BY <1>6 DEF ToSet
  <2>2. \A i \in 1 .. m : i \in 1 .. n BY <1>1, <1>4
  <2> QED BY <1>6, <2>1, <2>2
<1>8. \A i \in 1 .. n : s[i] \in Points BY <1>1, ElementOfSeq
<1>9. \A i \in 1 .. n : s[i] \in ToSet(s)
  BY <1>1 DEF ToSet
<1>10. \A x \in ToSet(q) : x \in ToSet(s) /\ x \in Points
  BY <1>7, <1>8, <1>9
<1>11. SubSeq(s, 1, Min({M, Len(s)})) = q
  BY <1>1, <1>3, <1>5
<1> QED BY <1>10, <1>11

LEMMA GreedyLinks ==
  ASSUME Inv, LinksInv, gamma \in Gammas, NEW t \in Threads, Greedy(t) PROVE LinksInv'
<1>1. PICK r : r = th[t]
  OBVIOUS
<1>2. /\ fault = "none" /\ r.pc = "greedy" /\ Active(t)
      /\ UNCHANGED <<gamma, call, ptLevel, todo, neighbors, entryPoint, maxLevel, fault>>
  BY <1>1 DEF Greedy, Active
<1>3. DOMAIN th = Threads /\ r = [f \in Fields |-> r[f]]
  BY <1>1 DEF Inv, Types
<1>4. /\ r.nearest \in Added /\ r.nearest \notin Busy /\ r.level \in Int /\ r.level > ptLevel
      /\ Levels[r.nearest] > r.level /\ Levels[r.nearest] \in Nat /\ r.nearest \in Points
  <2>1. Sane(t) BY DEF LinksInv, AllSane
  <2>2. r.nearest \in Added BY <1>1, <1>2, <2>1 DEF Sane
  <2> QED BY <1>1, <1>2, <2>1, <2>2, Calls DEF Sane, Added
<1>5. ptLevel \in Nat /\ r.level \in Nat /\ r.pt \in Points /\ call > 0
  <2>1. ptLevel \in Nat /\ r.pt \in Points /\ call \in 1 .. Len(CallEnds)
    BY <1>1, <1>2, WorkIs DEF Added
  <2> QED BY <1>4, <2>1, Ends
<1>6. PICK s : /\ Links(neighbors, r.nearest, r.level) = s /\ s \in Seq(Points)
               /\ \A x \in ToSet(s) : x \in Linkable[<<r.nearest, r.level>>]
  BY <1>2, <1>4, <1>5, ListIs
<1>7. PICK first : first = SubSeq(s, 1, Min({M, Len(s)}))
  OBVIOUS
<1>8. PICK best : best = NearestOf(r, first)
  OBVIOUS
<1>9. PICK next : next = IF best # r.nearest THEN [r EXCEPT !.nearest = best]
                         ELSE IF r.level - 1 > ptLevel THEN [r EXCEPT !.level = r.level - 1]
                         ELSE Searching([r EXCEPT !.level = r.level - 1])
  OBVIOUS
<1>10. th' = [th EXCEPT ![t] = next]
  <2>1. th' = [th EXCEPT ![t] =
                 IF NearestOf(r, SubSeq(s, 1, Min({M, Len(s)}))) # r.nearest
                 THEN [r EXCEPT !.nearest = NearestOf(r, SubSeq(s, 1, Min({M, Len(s)})))]
                 ELSE IF r.level - 1 > ptLevel THEN [r EXCEPT !.level = r.level - 1]
                 ELSE Searching([r EXCEPT !.level = r.level - 1])]
    BY <1>1, <1>6 DEF Greedy
  <2> QED BY <1>7, <1>8, <1>9, <2>1
<1>11. th'[t] = next
  BY <1>3, <1>10
<1>12. best = r.nearest \/ best \in ToSet(s)
  <2>1. \A x \in ToSet(first) : x \in ToSet(s) /\ x \in Points BY <1>6, <1>7, FirstAre
  <2>2. PICK S : S = {r.nearest} \union ToSet(first) OBVIOUS
  <2>3. S # {} /\ S \subseteq Points BY <1>4, <2>1, <2>2
  <2>4. Nearest(r.pt, S) \in S BY <1>5, <2>3, NearestIs
  <2>5. best = Nearest(r.pt, S) BY <1>8, <2>2 DEF NearestOf
  <2> QED BY <2>1, <2>2, <2>4, <2>5
<1>13. CASE best # r.nearest
  <2>1. next.pc = "greedy" /\ next.pt = r.pt /\ next.nearest = best /\ next.level = r.level
    BY <1>2, <1>3, <1>9, <1>13 DEF Fields
  <2>2. best \in Added /\ Levels[best] > r.level /\ best \in Points
    BY <1>4, <1>5, <1>6, <1>12, <1>13, LinkableIs
  <2>3. best \notin Busy
    <3> SUFFICES ASSUME best \in Busy PROVE FALSE OBVIOUS
    <3>1. Levels[best] - 1 = ptLevel /\ Levels[best] \in Nat BY <1>2, BusyLevel
    <3> QED BY <1>4, <1>5, <2>2, <3>1
  <2>4. Advances(t, next) BY <1>1, <1>2, <2>1 DEF Advances, Early
  <2>5. /\ \A x \in Added : x \in Added'
        /\ \A x \in Busy' : x \in Busy
    BY <1>2, <1>10, <2>4, ThreadMoves
  <2>6. (Sane(t))' BY <1>2, <1>4, <1>11, <2>1, <2>2, <2>3, <2>5 DEF Sane
  <2>7. EntryReady' BY <1>2, <2>5, EntryStays
  <2> QED BY <1>2, <1>10, <2>4, <2>6, <2>7, ListsStay
<1>14. CASE best = r.nearest /\ r.level - 1 > ptLevel
  <2>1. next.pc = "greedy" /\ next.pt = r.pt /\ next.nearest = r.nearest /\ next.level = r.level - 1
    BY <1>2, <1>3, <1>9, <1>14 DEF Fields
  <2>2. Advances(t, next) BY <1>1, <1>2, <2>1 DEF Advances, Early
  <2>3. /\ \A x \in Added : x \in Added'
        /\ \A x \in Busy' : x \in Busy
    BY <1>2, <1>10, <2>2, ThreadMoves
  <2>4. next.level \in Int /\ next.level > ptLevel /\ Levels[next.nearest] > next.level
    BY <1>4, <1>14, <2>1
  <2>5. (Sane(t))' BY <1>2, <1>4, <1>11, <2>1, <2>3, <2>4 DEF Sane
  <2>6. EntryReady' BY <1>2, <2>3, EntryStays
  <2> QED BY <1>2, <1>10, <2>2, <2>5, <2>6, ListsStay
<1>15. CASE best = r.nearest /\ ~(r.level - 1 > ptLevel)
  <2>1. /\ next.pc = "search" /\ next.pt = r.pt /\ next.nearest = r.nearest /\ next.level = r.level - 1
        /\ next.cands = {next.nearest} /\ next.found = {next.nearest}
    BY <1>2, <1>3, <1>9, <1>15 DEF Searching, Fields
  <2>2. Advances(t, next) BY <1>1, <1>2, <2>1 DEF Advances, Early
  <2>3. \A x \in Busy' : x \in Busy
    BY <1>2, <1>10, <2>2, ThreadMoves
  <2>4. next.level \in 0 .. ptLevel /\ Levels[next.nearest] > next.level
    BY <1>4, <1>5, <1>15, <2>1
  <2>5. (Sane(t))' BY <1>2, <1>4, <1>10, <2>1, <2>2, <2>4, SearchBegins
  <2>6. EntryReady' BY <1>2, <2>3, EntryStays
  <2> QED BY <1>2, <1>10, <2>2, <2>5, <2>6, ListsStay
<1> QED BY <1>13, <1>14, <1>15
-----------------------------------------------------------------------------
LEMMA ExpandLinks ==
  ASSUME Inv, LinksInv, gamma \in Gammas, NEW t \in Threads, Expand(t) PROVE LinksInv'
<1>1. PICK r : r = th[t]
  OBVIOUS
<1>2. /\ fault = "none" /\ r.pc = "search" /\ Active(t)
      /\ UNCHANGED <<gamma, call, ptLevel, todo, neighbors, entryPoint, maxLevel, fault>>
  BY <1>1 DEF Expand, Active
<1>3. DOMAIN th = Threads /\ r = [f \in Fields |-> r[f]]
  BY <1>1 DEF Inv, Types
<1>4. PICK v \in NextCandidate(r) :
        \E w \in {Weighed([r EXCEPT !.cands = @ \ {v}], Links(neighbors, v, r.level))} :
          th' = [th EXCEPT ![t].cands = w.cands, ![t].found = w.found, ![t].seen = w.seen]
  BY <1>1, Zenon DEF Expand, Weighed
<1>5. /\ ptLevel \in Nat /\ r.level \in 0 .. ptLevel /\ r.level \in Nat /\ r.pt \in Points /\ call > 0
      /\ r.nearest \in Added /\ r.nearest \notin Busy /\ Levels[r.nearest] > r.level
      /\ IsFiniteSet(r.found) /\ <<r.pt, r.level>> \in Unlinked
      /\ \A x \in r.cands : x \in Linkable[<<r.pt, r.level>>]
      /\ \A x \in r.found : x \in Linkable[<<r.pt, r.level>>]
  <2>1. Sane(t) BY DEF LinksInv, AllSane
  <2>2. ptLevel \in Nat /\ r.pt \in Points /\ call \in 1 .. Len(CallEnds)
    BY <1>1, <1>2, WorkIs DEF Added
  <2>3. /\ r.level \in 0 .. ptLevel
        /\ r.nearest \in Added /\ r.nearest \notin Busy /\ Levels[r.nearest] > r.level
        /\ IsFiniteSet(r.found)
        /\ \A x \in r.cands : x \in Linkable[<<r.pt, r.level>>]
        /\ \A x \in r.found : x \in Linkable[<<r.pt, r.level>>]
    BY <1>1, <1>2, <2>1 DEF Sane
  <2>4. r.level \in Nat /\ call > 0 BY <2>2, <2>3, Ends
  <2>5. Early(r, r.level) BY <1>2, <2>4 DEF Early
  <2>6. <<r.pt, r.level>> \in Unlinked BY <1>1, <1>2, <2>4, <2>5, OwnIs
  <2> QED BY <2>2, <2>3, <2>4, <2>6
<1>6. PICK X : X = Linkable[<<r.pt, r.level>>]
  OBVIOUS
<1>7. v \in Added /\ Levels[v] > r.level /\ v \in Points
  <2>1. v \in r.cands BY DEF NextCandidate
  <2> QED BY <1>5, <2>1, LinkableIs
<1>8. PICK s : /\ Links(neighbors, v, r.level) = s /\ s \in Seq(Points)
               /\ \A x \in ToSet(s) : x \in Linkable[<<v, r.level>>]
  BY <1>2, <1>5, <1>7, ListIs
<1>9. \A x \in ToSet(s) : x \in X
  <2> SUFFICES ASSUME NEW x \in ToSet(s) PROVE x \in X
    OBVIOUS
  <2>1. x \in Added /\ Levels[x] > r.level /\ <<x, r.level>> \notin Unlinked
    BY <1>5, <1>7, <1>8, LinkableIs
  <2>2. x # r.pt BY <1>5, <2>1
  <2>3. <<r.pt, r.level>> \in Points \X Nat BY <1>5
  <2> QED BY <1>6, <2>1, <2>2, <2>3 DEF Linkable
<1>10. PICK q : q = [r EXCEPT !.cands = r.cands \ {v}]
  OBVIOUS
<1>11. Within(q, X)
  <2>1. q = [f \in Fields |-> q[f]] /\ q.cands = r.cands \ {v} /\ q.found = r.found
    BY <1>3, <1>10 DEF Fields
  <2>2. r.cands \subseteq X /\ r.found \subseteq X BY <1>5, <1>6
  <2> QED BY <1>5, <2>1, <2>2 DEF Within
<1>12. PICK w : w = Weighed(q, s)
  OBVIOUS
<1>13. Within(w, X)
  <2>1. ToSet(s) \subseteq X BY <1>9
  <2> QED BY <1>8, <1>11, <1>12, <2>1, WeighedIs, Zenon
<1>14. th' = [th EXCEPT ![t].cands = w.cands, ![t].found = w.found, ![t].seen = w.seen]
  <2>1. PICK x : /\ x = Weighed([r EXCEPT !.cands = @ \ {v}], Links(neighbors, v, r.level))
                 /\ th' = [th EXCEPT ![t].cands = x.cands, ![t].found = x.found, ![t].seen = x.seen]
    BY <1>4
  <2>2. x = Weighed([r EXCEPT !.cands = r.cands \ {v}], s) BY <1>8, <2>1
  <2>3. x = w BY <1>10, <1>12, <2>2
  <2> QED BY <2>1, <2>3
<1>15. PICK next : next = [r EXCEPT !.cands = w.cands, !.found = w.found, !.seen = w.seen]
  OBVIOUS
<1>16. th' = [th EXCEPT ![t] = next]
  BY <1>1, <1>3, <1>14, <1>15
<1>17. /\ next.pc = "search" /\ next.pt = r.pt /\ next.nearest = r.nearest /\ next.level = r.level
       /\ next.cands = w.cands /\ next.found = w.found
  BY <1>2, <1>3, <1>15 DEF Fields
<1>18. Advances(t, next)
  BY <1>1, <1>2, <1>17 DEF Advances, Early
<1>19. /\ \A x \in Added : x \in Added'
       /\ \A p \in Unlinked' : p \in Unlinked
       /\ \A x \in Busy' : x \in Busy
  BY <1>2, <1>16, <1>18, ThreadMoves
<1>20. \A x \in X : x \in Linkable'[<<r.pt, r.level>>]
  <2>1. <<r.pt, r.level>> \in Points \X Nat BY <1>5
  <2> QED BY <1>6, <1>19, <2>1, MoreLinkable
<1>21. (Sane(t))'
  <2>1. th'[t] = next BY <1>3, <1>16
  <2>2. IsFiniteSet(w.found) /\ w.cands \subseteq X /\ w.found \subseteq X BY <1>13 DEF Within
  <2> QED BY <1>2, <1>5, <1>17, <1>19, <1>20, <2>1, <2>2 DEF Sane
<1>22. EntryReady'
  BY <1>2, <1>19, EntryStays
<1> QED BY <1>2, <1>16, <1>18, <1>21, <1>22, ListsStay

LEMMA DownLinks ==
  ASSUME Inv, LinksInv, NEW t \in Threads, Down(t) PROVE LinksInv'
<1>1. PICK r : r = th[t]
  OBVIOUS
<1>2. PICK next : next = IF r.level > 0 THEN Searching([r EXCEPT !.level = r.level - 1])
                         ELSE IF AboveAll THEN [r EXCEPT !.pc = "raise"] ELSE Idle
  OBVIOUS
<1>3. /\ fault = "none" /\ r.pc = "back" /\ Active(t) /\ th' = [th EXCEPT ![t] = next]
      /\ UNCHANGED <<gamma, call, ptLevel, todo, neighbors, entryPoint, maxLevel, fault>>
  BY <1>1, <1>2 DEF Down, Active
<1>4. DOMAIN th = Threads /\ r = [f \in Fields |-> r[f]]
  BY <1>1 DEF Inv, Types
<1>5. /\ r.level \in 0 .. ptLevel /\ ptLevel \in Nat
      /\ r.nearest \in Added /\ r.nearest \notin Busy /\ Levels[r.nearest] > r.level
      /\ Levels[r.nearest] \in Nat
  <2>1. Sane(t) BY DEF LinksInv, AllSane
  <2>2. r.nearest \in Added BY <1>1, <1>3, <2>1 DEF Sane
  <2> QED BY <1>1, <1>3, <2>1, <2>2, Calls DEF Sane, Added, Inv, Types
<1>6. CASE r.level > 0
  <2>1. /\ next.pc = "search" /\ next.pt = r.pt /\ next.nearest = r.nearest /\ next.level = r.level - 1
        /\ next.cands = {next.nearest} /\ next.found = {next.nearest}
    BY <1>2, <1>4, <1>6 DEF Searching, Fields
  <2>2. Advances(t, next)
    <3>1. \A l \in Nat : Early(next, l) => Early(r, l) BY <1>3, <1>5, <2>1 DEF Early
    <3> QED BY <1>1, <1>3, <2>1, <3>1 DEF Advances
  <2>3. \A x \in Busy' : x \in Busy
    BY <1>3, <2>2, ThreadMoves
  <2>4. next.level \in 0 .. ptLevel /\ Levels[next.nearest] > next.level
    BY <1>5, <1>6, <2>1
  <2>5. (Sane(t))' BY <1>3, <1>5, <2>1, <2>2, <2>4, SearchBegins
  <2>6. EntryReady' BY <1>3, <2>3, EntryStays
  <2> QED BY <1>3, <2>2, <2>5, <2>6, ListsStay
<1>7. CASE ~(r.level > 0)
  <2>1. next.pc \in {"raise", "idle"} /\ (next.pc = "raise" => next.pt = r.pt)
    BY <1>2, <1>4, <1>7, IdleShape DEF Fields
  <2>2. Advances(t, next) BY <1>1, <1>3, <2>1 DEF Advances, Early
  <2>3. \A x \in Busy' : x \in Busy
    BY <1>3, <2>2, ThreadMoves
  <2>4. (Sane(t))'
    <3>1. th'[t] = next BY <1>3, <1>4
    <3> QED BY <2>1, <3>1 DEF Sane
  <2>5. EntryReady' BY <1>3, <2>3, EntryStays
  <2> QED BY <1>3, <2>2, <2>4, <2>5, ListsStay
<1> QED BY <1>6, <1>7

LEMMA RaiseLevelLinks ==
  ASSUME Inv, LinksInv, NEW t \in Threads, RaiseLevel(t) PROVE LinksInv'
<1>1. PICK next : next = [th[t] EXCEPT !.pc = "point"]
  OBVIOUS
<1>2. /\ fault = "none" /\ th[t].pc = "raise" /\ Active(t)
      /\ UNCHANGED <<gamma, call, ptLevel, todo, neighbors, entryPoint, fault>>
  BY DEF RaiseLevel, Active
<1>3. DOMAIN th = Threads /\ th[t] = [f \in Fields |-> th[t][f]]
  BY DEF Inv, Types
<1>4. th' = [th EXCEPT ![t] = next] /\ next.pc = "point" /\ next.pt = th[t].pt
  BY <1>1, <1>3 DEF RaiseLevel, Fields
<1>5. Advances(t, next) BY <1>2, <1>4 DEF Advances, Early
<1>6. \A x \in Busy' : x \in Busy BY <1>2, <1>4, <1>5, ThreadMoves
<1>7. (Sane(t))'
  <2>1. th'[t] = next BY <1>3, <1>4
  <2> QED BY <1>4, <2>1 DEF Sane
<1>8. EntryReady' BY <1>2, <1>6, EntryStays
<1> QED BY <1>2, <1>4, <1>5, <1>7, <1>8, ListsStay

\* The vector of a thread that is through becomes the entry point.
LEMMA RaisePointLinks ==
  ASSUME Inv, LinksInv, NEW t \in Threads, RaisePoint(t) PROVE LinksInv'
<1>1. /\ fault = "none" /\ th[t].pc = "point" /\ Active(t) /\ th' = [th EXCEPT ![t] = Idle]
      /\ entryPoint' = th[t].pt
      /\ UNCHANGED <<gamma, call, ptLevel, todo, neighbors, maxLevel, fault>>
  BY DEF RaisePoint, Active
<1>2. DOMAIN th = Threads
  BY DEF Inv, Types
<1>3. th'[t] = Idle /\ \A u \in Threads : u # t => th'[u] = th[u]
  BY <1>1, <1>2
<1>4. Advances(t, Idle) BY <1>1, IdleShape DEF Advances, Early
<1>5. (Sane(t))' BY <1>3, IdleShape DEF Sane
<1>6. EntryReady'
  <2>1. \A u \in Threads : (Active(u))' => u # t /\ Active(u) /\ th'[u].pt = th[u].pt
    BY <1>3, IdleShape DEF Active
  <2>2. \A u \in Threads : (Active(u))' => th'[u].pt # th[t].pt
    BY <1>1, <2>1 DEF LinksInv, Apart
  <2> QED BY <1>1, <2>2 DEF EntryReady, Busy
<1> QED BY <1>1, <1>4, <1>5, <1>6, ListsStay
-----------------------------------------------------------------------------
\* The slots of the vectors added so far are in the array.
LEMMA InArray ==
  ASSUME Spans, gamma \in Gammas, call \in 1 .. Len(CallEnds),
         NEW v \in Points, v < CallEnds[call], NEW l \in 0 .. Levels[v] - 1
  PROVE  Place(v, l) \subseteq DOMAIN neighbors /\ DOMAIN neighbors \subseteq Int
<1>1. PICK n : n = CallEnds[call] /\ n \in 0 .. NumPoints /\ v < n
  BY Ends DEF NumPoints
<1>2. PICK last : last = Offsets[gamma][n] /\ last \in Nat
  BY <1>1, OffsetsAre
<1>3. Begin(v, l) \in Nat /\ End(v, l) \in Nat /\ End(v, l) <= last
  BY <1>1, <1>2, SlotsAre
<1>4. DOMAIN neighbors = 0 .. last
  BY <1>1, <1>2, Ends DEF Spans
<1> QED BY <1>2, <1>3, <1>4 DEF Place

\* What is in the slots of a list.
LEMMA HeldIs ==
  ASSUME gamma \in Gammas, NEW v \in Points, NEW l \in 0 .. Levels[v] - 1, NEW nbrs, NEW s,
         IsList(nbrs, v, l, s)
  PROVE  /\ \A x \in ToSet(s) : x \in {nbrs[i] : i \in Place(v, l)}
         /\ \A x \in {nbrs[i] : i \in Place(v, l)} : x \in ToSet(s) \/ x = NoPoint
<1>1. PICK b, e, n : /\ b = Begin(v, l) /\ e = End(v, l) /\ n = NbNeighbors(l)
                     /\ b \in Nat /\ n \in Nat /\ e = b + n
  BY SlotsAre
<1>2. PICK m : m = Len(s) /\ m \in Nat /\ m <= n /\ DOMAIN s = 1 .. m
  BY <1>1, LenProperties DEF IsList
<1>3. Place(v, l) = b .. e - 1
  BY <1>1 DEF Place
<1>4. \A i \in Place(v, l) : nbrs[i] = IF i - b < m THEN s[i - b + 1] ELSE NoPoint
  BY <1>1, <1>2 DEF IsList
<1>5. ASSUME NEW x \in ToSet(s) PROVE x \in {nbrs[i] : i \in Place(v, l)}
  <2>1. PICK j \in 1 .. m : x = s[j] BY <1>2 DEF ToSet
  <2>2. PICK i : i = b + j - 1 OBVIOUS
  <2>3. i - b + 1 = j /\ i \in b .. e - 1 /\ i - b < m
    <3>1. /\ b \in Nat /\ n \in Nat /\ m \in Nat /\ j \in Nat
          /\ 1 <= j /\ j <= m /\ m <= n /\ e = b + n
      BY <1>1, <1>2
    <3> QED BY <2>2, <3>1
  <2>4. nbrs[i] = s[i - b + 1] BY <1>3, <1>4, <2>3
  <2> QED BY <1>3, <2>1, <2>3, <2>4
<1>6. ASSUME NEW x \in {nbrs[i] : i \in Place(v, l)} PROVE x \in ToSet(s) \/ x = NoPoint
  <2>1. PICK i \in Place(v, l) : x = nbrs[i] OBVIOUS
  <2>2. CASE i - b < m
    <3>1. PICK j : j = i - b + 1 /\ j \in 1 .. m
      <4>1. b \in Nat /\ m \in Nat /\ e \in Int BY <1>1, <1>2
      <4>2. i \in b .. e - 1 BY <1>3, <2>1
      <4>3. i - b + 1 \in 1 .. m BY <2>2, <4>1, <4>2
      <4> QED BY <4>3
    <3>2. x = s[j] BY <1>4, <2>1, <2>2, <3>1
    <3> QED BY <1>2, <3>1, <3>2 DEF ToSet
  <2>3. CASE ~(i - b < m) BY <1>4, <2>1, <2>3
  <2> QED BY <2>2, <2>3
<1> QED BY <1>5, <1>6

\* One list is written, of a vector that is linked on that level now.
LEMMA ListWritten ==
  ASSUME Spans, AllSound, gamma \in Gammas, call \in 1 .. Len(CallEnds), UNCHANGED <<gamma, call>>,
         \A x \in Added : x \in Added', \A p \in Unlinked' : p \in Unlinked,
         NEW v \in Points, v < CallEnds[call], NEW l \in 0 .. Levels[v] - 1,
         DOMAIN neighbors' = DOMAIN neighbors,
         \A i \in DOMAIN neighbors : i \notin Place(v, l) => neighbors'[i] = neighbors[i],
         NEW q, IsList(neighbors', v, l, q), \A x \in ToSet(q) : x \in Linkable'[<<v, l>>],
         <<v, l>> \notin Unlinked'
  PROVE  /\ Spans' /\ AllSound'
         /\ \A w \in Points : \A k \in 0 .. Levels[w] - 1 :
              w < CallEnds[call] /\ (w # v \/ k # l) =>
                \A x \in Held'[<<w, k>>] : x \in Held[<<w, k>>]
         /\ \A x \in Held'[<<v, l>>] : x \in ToSet(q) \/ x = NoPoint
<1>1. Spans'
  BY DEF Spans
<1>2. ASSUME NEW w \in Points, NEW k \in 0 .. Levels[w] - 1, w < CallEnds[call], w # v \/ k # l
      PROVE  \A i \in Place(w, k) : neighbors'[i] = neighbors[i]
  <2> SUFFICES ASSUME NEW i \in Place(w, k) PROVE neighbors'[i] = neighbors[i]
    OBVIOUS
  <2>1. i \in DOMAIN neighbors BY <1>2, InArray
  <2>2. i \notin Place(v, l) BY <1>2, SlotsApart
  <2> QED BY <2>1, <2>2
<1>3. Held' = [p \in Points \X Nat |-> {neighbors'[i] : i \in Place(p[1], p[2])}]
  BY SameSlots
<1>4. ASSUME NEW w \in Points, NEW k \in 0 .. Levels[w] - 1
      PROVE  <<w, k>> \in Points \X Nat /\ k \in Nat
  <2>1. Levels[w] \in Nat BY Calls
  <2> QED BY <2>1
<1>5. ASSUME NEW w \in Points, NEW k \in 0 .. Levels[w] - 1, w < CallEnds[call], w # v \/ k # l,
             NEW x \in Held'[<<w, k>>]
      PROVE  x \in Held[<<w, k>>]
  <2>1. PICK i \in Place(w, k) : x = neighbors'[i]
    <3>1. Held'[<<w, k>>] = {neighbors'[i] : i \in Place(w, k)} BY <1>3, <1>4
    <3> QED BY <1>5, <3>1
  <2>2. x = neighbors[i] BY <1>2, <1>5, <2>1
  <2>3. Held[<<w, k>>] = {neighbors[j] : j \in Place(w, k)} BY <1>4 DEF Held
  <2> QED BY <2>1, <2>2, <2>3
<1>6. \A x \in Held'[<<v, l>>] : x \in ToSet(q) \/ x = NoPoint
  <2>1. Held'[<<v, l>>] = {neighbors'[i] : i \in Place(v, l)} BY <1>3, <1>4
  <2>2. PICK nbrs : nbrs = neighbors' OBVIOUS
  <2>3. \A x \in {nbrs[i] : i \in Place(v, l)} : x \in ToSet(q) \/ x = NoPoint
    BY <2>2, HeldIs
  <2> QED BY <2>1, <2>2, <2>3
<1>7. ASSUME NEW w \in Points, NEW k \in 0 .. Levels[w] - 1, w < CallEnds[call]
      PROVE  (Sound(w, k))'
  <2>1. CASE w = v /\ k = l
    <3>1. (IsList(neighbors, v, l, q))' BY SameSlots
    <3> QED BY <2>1, <3>1 DEF Sound
  <2>2. CASE w # v \/ k # l
    <3>1. PICK s : /\ IsList(neighbors, w, k, s)
                   /\ \A x \in ToSet(s) : x \in Linkable[<<w, k>>]
                   /\ <<w, k>> \in Unlinked => s = <<>>
      <4>1. call > 0 BY Ends
      <4>2. Sound(w, k) BY <1>7, <4>1 DEF AllSound
      <4> QED BY <4>2 DEF Sound
    <3>2. \A i \in Place(w, k) : neighbors'[i] = neighbors[i] BY <1>2, <1>7, <2>2
    <3>3. IsList(neighbors', w, k, s) BY <3>1, <3>2 DEF IsList
    <3>4. (IsList(neighbors, w, k, s))' BY <3>3, SameSlots
    <3>5. \A x \in ToSet(s) : x \in Linkable'[<<w, k>>] BY <1>4, <3>1, MoreLinkable
    <3>6. <<w, k>> \in Unlinked' => s = <<>> BY <3>1
    <3> QED BY <3>4, <3>5, <3>6 DEF Sound
  <2> QED BY <2>1, <2>2
<1>8. AllSound'
  BY <1>7 DEF AllSound
<1> QED BY <1>1, <1>5, <1>6, <1>8
-----------------------------------------------------------------------------
\* A vector that may be in a list has a list of that level, and it is linked.
LEMMA OtherIs ==
  ASSUME Inv, fault = "none", LinksInv, gamma \in Gammas, call > 0,
         NEW v \in Points, NEW l \in Nat, NEW x \in Linkable[<<v, l>>]
  PROVE  /\ x \in Points /\ x # v /\ x < CallEnds[call] /\ l \in 0 .. Levels[x] - 1
         /\ x \in Added /\ <<x, l>> \notin Unlinked
         /\ \A y \in Held[<<x, l>>] : y = NoPoint \/ y \in Linkable[<<x, l>>]
<1>1. x \in Added /\ x \in Points /\ x # v /\ Levels[x] > l /\ <<x, l>> \notin Unlinked
  BY LinkableIs
<1>2. /\ x < CallEnds[call] /\ l \in 0 .. Levels[x] - 1 /\ <<x, l>> \in Points \X Nat
      /\ \E s : /\ IsList(neighbors, x, l, s)
                /\ \A y \in ToSet(s) : y \in Linkable[<<x, l>>]
  BY <1>1, ListIs
<1>3. PICK s : IsList(neighbors, x, l, s) /\ \A y \in ToSet(s) : y \in Linkable[<<x, l>>]
  BY <1>2
<1>4. \A y \in {neighbors[i] : i \in Place(x, l)} : y \in ToSet(s) \/ y = NoPoint
  BY <1>1, <1>2, <1>3, HeldIs
<1>5. Held[<<x, l>>] = {neighbors[i] : i \in Place(x, l)}
  BY <1>2 DEF Held
<1> QED BY <1>1, <1>2, <1>3, <1>4, <1>5

\* A thread that has linked its list of the level has linked it for everybody.
LEMMA OwnLinked ==
  ASSUME Inv, fault = "none", LinksInv, NEW t \in Threads, NEW r, Advances(t, r),
         th' = [th EXCEPT ![t] = r], UNCHANGED <<gamma, call, ptLevel, todo>>,
         r.pc = "back", r.pt = th[t].pt, r.level \in Nat
  PROVE  <<r.pt, r.level>> \notin Unlinked'
<1>1. DOMAIN th = Threads /\ th'[t] = r /\ \A u \in Threads : u # t => th'[u] = th[u]
  BY DEF Inv, Types
<1>2. r.pt \in Added' /\ Active(t)
  BY ThreadMoves, WorkIs DEF Advances
<1>3. \A u \in Threads : ~(th'[u].pt = r.pt /\ Early(th'[u], r.level))
  <2> SUFFICES ASSUME NEW u \in Threads, th'[u].pt = r.pt, Early(th'[u], r.level) PROVE FALSE
    OBVIOUS
  <2>1. CASE u = t
    <3>1. Early(r, r.level) BY <1>1, <2>1
    <3> QED BY <3>1 DEF Early
  <2>2. CASE u # t
    <3>1. th[u].pt = th[t].pt /\ Early(th[u], r.level) BY <1>1, <2>2
    <3>2. Active(u) BY <3>1 DEF Active, Early
    <3> QED BY <1>2, <2>2, <3>1, <3>2 DEF LinksInv, Apart
  <2> QED BY <2>1, <2>2
<1>4. Unlinked' = {p \in Points \X Nat :
                     \/ p[1] \notin Added'
                     \/ \E u \in Threads : th'[u].pt = p[1] /\ Early(th'[u], p[2])}
  BY DEF Unlinked, Early
<1> QED BY <1>2, <1>3, <1>4

LEMMA LinkOwnLinks ==
  ASSUME Inv, LinksInv, gamma \in Gammas, NEW t \in Threads, LinkOwn(t), fault' = "none"
  PROVE  LinksInv'
<1>1. PICK r : r = th[t]
  OBVIOUS
<1>2. PICK list : list = Targets(r)
  OBVIOUS
<1>3. PICK linked : linked = LinkToAll(r, list)
  OBVIOUS
<1>4. PICK next : next = [r EXCEPT !.pc = "back", !.back = list, !.cands = {}, !.found = {}, !.seen = {}]
  OBVIOUS
<1>5. /\ fault = "none" /\ r.pc = "search" /\ Active(t)
      /\ neighbors' = linked.nbrs /\ fault' = IF linked.spilled THEN "spilled" ELSE "none"
      /\ th' = [th EXCEPT ![t] = next]
      /\ UNCHANGED <<gamma, call, ptLevel, todo, entryPoint, maxLevel>>
  BY <1>1, <1>2, <1>3, <1>4 DEF LinkOwn, Active
<1>6. DOMAIN th = Threads /\ r = [f \in Fields |-> r[f]]
  BY <1>1 DEF Inv, Types
<1>7. /\ next.pc = "back" /\ next.pt = r.pt /\ next.nearest = r.nearest /\ next.level = r.level
      /\ next.back = list
  BY <1>4, <1>6 DEF Fields
<1>8. /\ ptLevel \in Nat /\ r.level \in 0 .. ptLevel /\ r.level \in Nat
      /\ r.pt \in Points /\ r.pt \in Added /\ r.pt < CallEnds[call] /\ r.level \in 0 .. Levels[r.pt] - 1
      /\ call > 0 /\ call \in 1 .. Len(CallEnds)
      /\ r.nearest \in Added /\ r.nearest \notin Busy /\ Levels[r.nearest] > r.level
      /\ IsFiniteSet(r.found) /\ <<r.pt, r.level>> \in Unlinked
      /\ \A x \in r.found : x \in Linkable[<<r.pt, r.level>>]
  <2>1. Sane(t) BY DEF LinksInv, AllSane
  <2>2. /\ ptLevel \in Nat /\ r.pt \in Added /\ r.pt \in Points /\ call \in 1 .. Len(CallEnds)
        /\ r.pt < CallEnds[call] /\ Levels[r.pt] \in Nat /\ Levels[r.pt] - 1 = ptLevel
    BY <1>1, <1>5, WorkIs DEF Added
  <2>3. /\ r.level \in 0 .. ptLevel
        /\ r.nearest \in Added /\ r.nearest \notin Busy /\ Levels[r.nearest] > r.level
        /\ IsFiniteSet(r.found)
        /\ \A x \in r.found : x \in Linkable[<<r.pt, r.level>>]
    BY <1>1, <1>5, <2>1 DEF Sane
  <2>4. r.level \in Nat /\ call > 0 /\ r.level \in 0 .. Levels[r.pt] - 1 BY <2>2, <2>3, Ends
  <2>5. Early(r, r.level) BY <1>5, <2>4 DEF Early
  <2>6. <<r.pt, r.level>> \in Unlinked BY <1>1, <1>5, <2>4, <2>5, OwnIs
  <2> QED BY <2>2, <2>3, <2>4, <2>6
<1>9. PICK n, B : Lists(list, Points, n, B) /\ B \subseteq r.found /\ IsInjective(list)
  <2>1. r.found \subseteq Points BY <1>8, LinkableIs
  <2> QED BY <1>2, <1>8, <2>1, TargetsAre
<1>10. IsList(neighbors, r.pt, r.level, <<>>)
  <2>1. Sound(r.pt, r.level) BY <1>8 DEF LinksInv, AllSound
  <2> QED BY <1>8, <2>1 DEF Sound
<1>11. Grown(neighbors', r.pt, r.level, B)
  <2>1. Place(r.pt, r.level) \subseteq DOMAIN neighbors /\ DOMAIN neighbors \subseteq Int
    BY <1>8, InArray DEF LinksInv
  <2>2. /\ LinkToAll(r, list).spilled \in BOOLEAN
        /\ ~LinkToAll(r, list).spilled => Grown(LinkToAll(r, list).nbrs, r.pt, r.level, B)
    BY <1>8, <1>9, <1>10, <2>1, LinkToAllIs
  <2>3. linked.spilled \in BOOLEAN /\ (~linked.spilled => Grown(linked.nbrs, r.pt, r.level, B))
    BY <1>3, <2>2
  <2>4. ~linked.spilled BY <1>5, <2>3
  <2> QED BY <1>5, <2>3, <2>4
<1>12. PICK q : IsList(neighbors', r.pt, r.level, q) /\ \A x \in ToSet(q) : x \in B
  BY <1>11 DEF Grown
<1>13. Advances(t, next)
  <2>1. \A l \in Nat : Early(next, l) => Early(r, l) BY <1>5, <1>7, <1>8 DEF Early
  <2> QED BY <1>1, <1>5, <1>7, <2>1 DEF Advances
<1>14. /\ Added' = Added
       /\ \A p \in Unlinked' : p \in Unlinked
       /\ \A x \in Busy' : x \in Busy
       /\ Apart'
  BY <1>5, <1>13, ThreadMoves
<1>15. <<r.pt, r.level>> \notin Unlinked'
  <2>1. next.pt = th[t].pt /\ next.level \in Nat BY <1>1, <1>7, <1>8
  <2> QED BY <1>5, <1>7, <1>13, <2>1, OwnLinked
<1>16. <<r.pt, r.level>> \in Points \X Nat
  BY <1>8
<1>17. \A x \in Linkable[<<r.pt, r.level>>] : x \in Linkable'[<<r.pt, r.level>>]
  BY <1>14, <1>16, MoreLinkable
<1>18. \A x \in ToSet(q) : x \in Linkable'[<<r.pt, r.level>>]
  BY <1>8, <1>9, <1>12, <1>17
<1>19. DOMAIN neighbors' = DOMAIN neighbors
       /\ \A i \in DOMAIN neighbors : i \notin Place(r.pt, r.level) => neighbors'[i] = neighbors[i]
  BY <1>11 DEF Grown
<1>20. /\ Spans' /\ AllSound'
       /\ \A w \in Points : \A k \in 0 .. Levels[w] - 1 :
            w < CallEnds[call] /\ (w # r.pt \/ k # r.level) =>
              \A x \in Held'[<<w, k>>] : x \in Held[<<w, k>>]
  <2>1. Spans /\ AllSound BY DEF LinksInv
  <2>2. \A x \in Added : x \in Added' BY <1>14
  <2>3. UNCHANGED <<gamma, call>> BY <1>5
  <2> QED BY <1>8, <1>12, <1>14, <1>15, <1>18, <1>19, <2>1, <2>2, <2>3, ListWritten
<1>21. \A x \in r.found : r.pt \notin Held'[<<x, r.level>>]
  <2> SUFFICES ASSUME NEW x \in r.found PROVE r.pt \notin Held'[<<x, r.level>>]
    OBVIOUS
  <2>1. /\ x \in Points /\ x # r.pt /\ x < CallEnds[call] /\ r.level \in 0 .. Levels[x] - 1
        /\ \A y \in Held[<<x, r.level>>] : y = NoPoint \/ y \in Linkable[<<x, r.level>>]
    BY <1>5, <1>8, OtherIs
  <2>2. \A y \in Held'[<<x, r.level>>] : y \in Held[<<x, r.level>>] BY <1>20, <2>1
  <2>3. r.pt # NoPoint BY <1>8 DEF Points, NoPoint
  <2>4. r.pt \notin Linkable[<<x, r.level>>] BY <1>8, <2>1, LinkableIs
  <2> QED BY <2>1, <2>2, <2>3, <2>4
<1>22. (Sane(t))'
  <2>1. th'[t] = next BY <1>5, <1>6
  <2>2. list \in Seq(Points) /\ \A x \in ToSet(list) : x \in r.found BY <1>9 DEF Lists
  <2>3. \A x \in ToSet(list) : /\ x \in Linkable'[<<r.pt, r.level>>]
                               /\ r.pt \notin Held'[<<x, r.level>>]
    BY <1>8, <1>17, <1>21, <2>2
  <2>4. /\ next.nearest \in Added' /\ next.nearest \notin Busy' /\ Levels[next.nearest] > next.level
        /\ next.level \in 0 .. ptLevel'
    BY <1>5, <1>7, <1>8, <1>14
  <2>5. /\ next.back \in Seq(Points) /\ IsInjective(next.back)
        /\ \A x \in ToSet(next.back) : /\ x \in Linkable'[<<next.pt, next.level>>]
                                      /\ next.pt \notin Held'[<<x, next.level>>]
    BY <1>7, <1>9, <2>2, <2>3
  <2> QED BY <1>7, <2>1, <2>4, <2>5 DEF Sane
<1>23. ASSUME NEW u \in Threads, u # t, th[u].pc = "back", NEW x \in ToSet(th[u].back)
       PROVE  th[u].pt \notin Held'[<<x, th[u].level>>]
  <2>1. PICK o : o = th[u] /\ o.pt \in Points /\ o.level \in Nat
                 /\ x \in Linkable[<<o.pt, o.level>>] /\ o.pt \notin Held[<<x, o.level>>]
    <3>1. Active(u) BY <1>23 DEF Active
    <3>2. Sane(u) BY DEF LinksInv, AllSane
    <3>3. th[u].level \in 0 .. ptLevel BY <1>23, <3>2 DEF Sane
    <3>4. th[u].pt \in Points BY <1>5, <3>1, WorkIs DEF Added
    <3>5. th[u].level \in Nat BY <1>8, <3>3
    <3>6. x \in Linkable[<<th[u].pt, th[u].level>>] /\ th[u].pt \notin Held[<<x, th[u].level>>]
      BY <1>23, <3>2 DEF Sane
    <3> QED BY <3>4, <3>5, <3>6
  <2>2. /\ x \in Points /\ x < CallEnds[call] /\ o.level \in 0 .. Levels[x] - 1
        /\ <<x, o.level>> \notin Unlinked
    BY <1>5, <1>8, <2>1, OtherIs
  <2>3. x # r.pt \/ o.level # r.level BY <1>8, <2>2
  <2>4. \A y \in Held'[<<x, o.level>>] : y \in Held[<<x, o.level>>] BY <1>20, <2>2, <2>3
  <2> QED BY <2>1, <2>4
<1>24. AllSane'
  BY <1>5, <1>13, <1>22, <1>23, OthersSane
<1>25. EntryReady'
  BY <1>5, <1>14, EntryStays
<1> QED BY <1>14, <1>20, <1>24, <1>25 DEF LinksInv
-----------------------------------------------------------------------------
\* What a list without repetition holds, but for its first.
LEMMA RestIs ==
  ASSUME NEW s \in Seq(Points), s # <<>>, IsInjective(s)
  PROVE  /\ Head(s) \in ToSet(s) /\ Tail(s) \in Seq(Points) /\ IsInjective(Tail(s))
         /\ \A x \in ToSet(Tail(s)) : x \in ToSet(s) /\ x # Head(s)
<1>1. PICK n : n = Len(s) /\ n \in Nat \ {0} /\ DOMAIN s = 1 .. n
  BY EmptySeq, LenProperties
<1>2. PICK q : q = Tail(s)
  OBVIOUS
<1>3. q \in Seq(Points) /\ DOMAIN q = 1 .. n - 1 /\ \A i \in 1 .. n - 1 : q[i] = s[i + 1]
  <2>1. /\ Tail(s) \in Seq(Points) /\ Len(Tail(s)) = Len(s) - 1
        /\ \A i \in 1 .. Len(Tail(s)) : Tail(s)[i] = s[i + 1]
    BY HeadTailProperties
  <2>2. DOMAIN q = 1 .. Len(q) BY <1>2, <2>1, LenProperties
  <2> QED BY <1>1, <1>2, <2>1, <2>2
<1>4. Head(s) = s[1] /\ 1 \in DOMAIN s
  BY <1>1
<1>5. IsInjective(q)
  <2> SUFFICES ASSUME NEW i \in DOMAIN q, NEW j \in DOMAIN q, q[i] = q[j] PROVE i = j
    BY DEF IsInjective
  <2>1. i + 1 \in DOMAIN s /\ j + 1 \in DOMAIN s /\ s[i + 1] = s[j + 1] BY <1>1, <1>3
  <2>2. i + 1 = j + 1 BY <2>1 DEF IsInjective
  <2> QED BY <1>1, <1>3, <2>2
<1>6. ASSUME NEW x \in ToSet(q) PROVE x \in ToSet(s) /\ x # s[1]
  <2>1. PICK i \in 1 .. n - 1 : x = q[i] BY <1>3 DEF ToSet
  <2>2. PICK j : j = i + 1 /\ j \in 1 .. n /\ j # 1 BY <1>1, <2>1
  <2>3. x = s[j] BY <1>3, <2>1, <2>2
  <2>4. x \in ToSet(s) BY <1>1, <2>2, <2>3 DEF ToSet
  <2>5. x # s[1] BY <1>1, <1>4, <2>2, <2>3 DEF IsInjective
  <2> QED BY <2>4, <2>5
<1>7. Head(s) \in ToSet(s)
  BY <1>4 DEF ToSet
<1> QED BY <1>2, <1>3, <1>4, <1>5, <1>6, <1>7

LEMMA LinkBackLinks ==
  ASSUME Inv, LinksInv, gamma \in Gammas, NEW t \in Threads, LinkBack(t), fault' = "none"
  PROVE  LinksInv'
<1>1. PICK r : r = th[t]
  OBVIOUS
<1>2. PICK other : other = Head(r.back)
  OBVIOUS
<1>3. PICK next : next = [r EXCEPT !.back = Tail(r.back)]
  OBVIOUS
<1>4. /\ fault = "none" /\ r.pc = "back" /\ r.back # <<>> /\ Active(t)
      /\ neighbors' = AddLink(neighbors, other, r.pt, r.level)
      /\ fault' = IF Spills(neighbors, other, r.level) THEN "spilled" ELSE "none"
      /\ th' = [th EXCEPT ![t].back = Tail(r.back)]
      /\ UNCHANGED <<gamma, call, ptLevel, todo, entryPoint, maxLevel>>
  BY <1>1, <1>2 DEF LinkBack, Active
<1>5. DOMAIN th = Threads /\ r = [f \in Fields |-> r[f]]
  BY <1>1 DEF Inv, Types
<1>6. th' = [th EXCEPT ![t] = next]
  BY <1>1, <1>3, <1>4, <1>5
<1>7. /\ next.pc = "back" /\ next.pt = r.pt /\ next.nearest = r.nearest /\ next.level = r.level
      /\ next.back = Tail(r.back)
  BY <1>3, <1>4, <1>5 DEF Fields
<1>8. /\ ptLevel \in Nat /\ r.level \in 0 .. ptLevel /\ r.level \in Nat
      /\ r.pt \in Points /\ r.pt \in Added /\ Levels[r.pt] > r.level
      /\ call > 0 /\ call \in 1 .. Len(CallEnds)
      /\ r.nearest \in Added /\ r.nearest \notin Busy /\ Levels[r.nearest] > r.level
      /\ r.back \in Seq(Points) /\ IsInjective(r.back)
      /\ \A x \in ToSet(r.back) : /\ x \in Linkable[<<r.pt, r.level>>]
                                  /\ r.pt \notin Held[<<x, r.level>>]
  <2>1. Sane(t) BY DEF LinksInv, AllSane
  <2>2. /\ ptLevel \in Nat /\ r.pt \in Added /\ r.pt \in Points /\ call \in 1 .. Len(CallEnds)
        /\ Levels[r.pt] \in Nat /\ Levels[r.pt] - 1 = ptLevel
    BY <1>1, <1>4, WorkIs DEF Added
  <2>3. /\ r.level \in 0 .. ptLevel
        /\ r.nearest \in Added /\ r.nearest \notin Busy /\ Levels[r.nearest] > r.level
        /\ r.back \in Seq(Points) /\ IsInjective(r.back)
        /\ \A x \in ToSet(r.back) : /\ x \in Linkable[<<r.pt, r.level>>]
                                    /\ r.pt \notin Held[<<x, r.level>>]
    BY <1>1, <1>4, <2>1 DEF Sane
  <2>4. r.level \in Nat /\ call > 0 /\ Levels[r.pt] > r.level BY <2>2, <2>3, Ends
  <2> QED BY <2>2, <2>3, <2>4
<1>9. PICK rest : rest = Tail(r.back)
  OBVIOUS
<1>10. /\ other \in ToSet(r.back) /\ rest \in Seq(Points) /\ IsInjective(rest)
       /\ \A x \in ToSet(rest) : x \in ToSet(r.back) /\ x # other
  BY <1>2, <1>4, <1>8, <1>9, RestIs
<1>11. /\ other \in Points /\ other # r.pt /\ other < CallEnds[call] /\ r.level \in 0 .. Levels[other] - 1
       /\ <<other, r.level>> \notin Unlinked /\ r.pt \notin Held[<<other, r.level>>]
       /\ <<other, r.level>> \in Points \X Nat
  BY <1>4, <1>8, <1>10, OtherIs
<1>12. PICK s : IsList(neighbors, other, r.level, s) /\ \A x \in ToSet(s) : x \in Linkable[<<other, r.level>>]
  <2>1. Sound(other, r.level) BY <1>8, <1>11 DEF LinksInv, AllSound
  <2> QED BY <2>1 DEF Sound
<1>13. \A x \in ToSet(s) : x \in Held[<<other, r.level>>]
  <2>1. \A x \in ToSet(s) : x \in {neighbors[i] : i \in Place(other, r.level)}
    BY <1>11, <1>12, HeldIs
  <2> QED BY <1>11, <2>1 DEF Held
<1>14. PICK new : new = neighbors'
  OBVIOUS
<1>15. Relinked(new, neighbors, other, r.level, s, r.pt)
  <2>1. Place(other, r.level) \subseteq DOMAIN neighbors /\ DOMAIN neighbors \subseteq Int
    BY <1>8, <1>11, InArray DEF LinksInv
  <2>2. r.pt \notin ToSet(s) BY <1>11, <1>13
  <2>3. ~Spills(neighbors, other, r.level) BY <1>4
  <2>4. Relinked(AddLink(neighbors, other, r.pt, r.level), neighbors, other, r.level, s, r.pt)
    BY <1>8, <1>11, <1>12, <2>1, <2>2, <2>3, AddLinkIs
  <2> QED BY <1>4, <1>14, <2>4
<1>16. PICK q : IsList(new, other, r.level, q) /\ \A x \in ToSet(q) : x \in ToSet(s) \/ x = r.pt
  BY <1>15 DEF Relinked
<1>17. Advances(t, next)
  <2>1. \A l \in Nat : Early(next, l) => Early(r, l) BY <1>4, <1>7 DEF Early
  <2> QED BY <1>1, <1>4, <1>7, <2>1 DEF Advances
<1>18. /\ Added' = Added
       /\ \A p \in Unlinked' : p \in Unlinked
       /\ \A x \in Busy' : x \in Busy
       /\ Apart'
  BY <1>4, <1>6, <1>17, ThreadMoves
<1>19. <<r.pt, r.level>> \notin Unlinked'
  <2>1. next.pt = th[t].pt /\ next.level \in Nat BY <1>1, <1>7, <1>8
  <2> QED BY <1>4, <1>6, <1>7, <1>17, <2>1, OwnLinked
<1>20. \A p \in Points \X Nat : \A x \in Linkable[p] : x \in Linkable'[p]
  BY <1>18, MoreLinkable
<1>21. \A x \in ToSet(q) : x \in Linkable'[<<other, r.level>>]
  <2>1. \A x \in ToSet(s) : x \in Linkable'[<<other, r.level>>] BY <1>11, <1>12, <1>20
  <2>2. r.pt \in Linkable'[<<other, r.level>>]
    <3>1. Linkable' = [p \in Points \X Nat |->
                         {x \in Added' : x # p[1] /\ Levels[x] > p[2] /\ <<x, p[2]>> \notin Unlinked'}]
      BY DEF Linkable
    <3> QED BY <1>8, <1>11, <1>18, <1>19, <3>1
  <2> QED BY <1>16, <2>1, <2>2
<1>22. /\ Spans' /\ AllSound'
       /\ \A w \in Points : \A k \in 0 .. Levels[w] - 1 :
            w < CallEnds[call] /\ (w # other \/ k # r.level) =>
              \A x \in Held'[<<w, k>>] : x \in Held[<<w, k>>]
       /\ \A x \in Held'[<<other, r.level>>] : x \in ToSet(q) \/ x = NoPoint
  <2>1. Spans /\ AllSound BY DEF LinksInv
  <2>2. \A x \in Added : x \in Added' BY <1>18
  <2>3. UNCHANGED <<gamma, call>> BY <1>4
  <2>4. <<other, r.level>> \notin Unlinked' BY <1>11, <1>18
  <2>5. IsList(neighbors', other, r.level, q) BY <1>14, <1>16
  <2>6. DOMAIN neighbors' = DOMAIN neighbors
        /\ \A i \in DOMAIN neighbors : i \notin Place(other, r.level) => neighbors'[i] = neighbors[i]
    BY <1>14, <1>15 DEF Relinked
  <2> QED BY <1>8, <1>11, <1>18, <1>21, <2>1, <2>2, <2>3, <2>4, <2>5, <2>6, ListWritten
<1>23. (Sane(t))'
  <2>1. th'[t] = next BY <1>5, <1>6
  <2>2. /\ next.nearest \in Added' /\ next.nearest \notin Busy' /\ Levels[next.nearest] > next.level
        /\ next.level \in 0 .. ptLevel'
    BY <1>4, <1>7, <1>8, <1>18
  <2>3. ASSUME NEW x \in ToSet(rest)
        PROVE  x \in Linkable'[<<r.pt, r.level>>] /\ r.pt \notin Held'[<<x, r.level>>]
    <3>1. x \in Linkable[<<r.pt, r.level>>] /\ r.pt \notin Held[<<x, r.level>>] /\ x # other
      BY <1>8, <1>10, <2>3
    <3>2. x \in Points /\ x < CallEnds[call] /\ r.level \in 0 .. Levels[x] - 1
      BY <1>4, <1>8, <3>1, OtherIs
    <3>3. \A y \in Held'[<<x, r.level>>] : y \in Held[<<x, r.level>>] BY <1>22, <3>1, <3>2
    <3>4. <<r.pt, r.level>> \in Points \X Nat BY <1>8
    <3> QED BY <1>20, <3>1, <3>3, <3>4
  <2>4. /\ next.back \in Seq(Points) /\ IsInjective(next.back)
        /\ \A x \in ToSet(next.back) : /\ x \in Linkable'[<<next.pt, next.level>>]
                                      /\ next.pt \notin Held'[<<x, next.level>>]
    BY <1>7, <1>9, <1>10, <2>3
  <2> QED BY <1>7, <2>1, <2>2, <2>4 DEF Sane
<1>24. ASSUME NEW u \in Threads, u # t, th[u].pc = "back", NEW x \in ToSet(th[u].back)
       PROVE  th[u].pt \notin Held'[<<x, th[u].level>>]
  <2>1. PICK o : o = th[u] /\ o.pt \in Points /\ o.level \in Nat /\ o.pt # r.pt
                 /\ x \in Linkable[<<o.pt, o.level>>] /\ o.pt \notin Held[<<x, o.level>>]
    <3>1. Active(u) BY <1>24 DEF Active
    <3>2. Sane(u) BY DEF LinksInv, AllSane
    <3>3. th[u].level \in 0 .. ptLevel BY <1>24, <3>2 DEF Sane
    <3>4. th[u].pt \in Points BY <1>4, <3>1, WorkIs DEF Added
    <3>5. th[u].level \in Nat BY <1>8, <3>3
    <3>6. x \in Linkable[<<th[u].pt, th[u].level>>] /\ th[u].pt \notin Held[<<x, th[u].level>>]
      BY <1>24, <3>2 DEF Sane
    <3>7. th[u].pt # r.pt BY <1>1, <1>4, <1>24, <3>1 DEF LinksInv, Apart
    <3> QED BY <3>4, <3>5, <3>6, <3>7
  <2>2. x \in Points /\ x < CallEnds[call] /\ o.level \in 0 .. Levels[x] - 1
    BY <1>4, <1>8, <2>1, OtherIs
  <2>3. CASE x # other \/ o.level # r.level
    <3>1. \A y \in Held'[<<x, o.level>>] : y \in Held[<<x, o.level>>] BY <1>22, <2>2, <2>3
    <3> QED BY <2>1, <3>1
  <2>4. CASE x = other /\ o.level = r.level
    <3>1. o.pt \notin ToSet(s) BY <1>13, <2>1, <2>4
    <3>2. o.pt \notin ToSet(q) BY <1>16, <2>1, <3>1
    <3>3. o.pt # NoPoint BY <2>1 DEF Points, NoPoint
    <3> QED BY <1>22, <2>1, <2>4, <3>2, <3>3
  <2> QED BY <2>3, <2>4
<1>25. AllSane'
  BY <1>4, <1>6, <1>17, <1>23, <1>24, OthersSane
<1>26. EntryReady'
  BY <1>4, <1>18, EntryStays
<1> QED BY <1>18, <1>22, <1>25, <1>26 DEF LinksInv
-----------------------------------------------------------------------------
\* A thread takes a vector no other has, and no list of it holds a link.
LEMMA TakeLinks ==
  ASSUME Inv, LinksInv, NEW t \in Threads, NEW v \in todo, Take(t, v) PROVE LinksInv'
<1>1. /\ fault = "none" /\ th[t].pc = "idle" /\ todo' = todo \ {v}
      /\ UNCHANGED <<gamma, call, ptLevel, neighbors, fault>>
  BY DEF Take
<1>2. v \notin Added /\ v \in Points /\ v \in Added' /\ (\A x \in Added : x \in Added')
  <2>1. call \in 1 .. Len(CallEnds) /\ v \in Batch(call, ptLevel) /\ ptLevel \in Nat
    BY <1>1, Ends DEF Inv, AtWork, Types
  <2>2. v \in CallPoints(call) /\ v \in Points /\ v < CallEnds[call] /\ Levels[v] \in Nat /\ Levels[v] - 1 = ptLevel
    BY <2>1, BatchIs
  <2> QED BY <1>1, <2>1, <2>2, Ends DEF Added
<1>3. DOMAIN th = Threads
  BY DEF Inv, Types
<1>4. Spans'
  BY <1>1 DEF LinksInv, Spans
<1>5. CASE entryPoint = NoPoint
  <2>1. entryPoint' = v /\ UNCHANGED th BY <1>5 DEF Take
  <2>2. \A u \in Threads : th[u].pc = "idle" BY <1>1, <1>5 DEF Inv, TopLevel, Active
  <2>3. \A p \in Unlinked' : p \in Unlinked BY <1>2, <2>1 DEF Unlinked
  <2>4. AllSound' BY <1>1, <1>2, <2>3, SoundKept DEF LinksInv
  <2>5. \A u \in Threads : ~(Active(u))' BY <2>1, <2>2 DEF Active
  <2>6. Apart' /\ EntryReady' BY <2>5 DEF Apart, EntryReady, Busy
  <2>7. AllSane' BY <2>1, <2>2 DEF AllSane, Sane
  <2> QED BY <1>4, <2>4, <2>6, <2>7 DEF LinksInv
<1>6. CASE entryPoint # NoPoint
  <2>1. PICK next : next = [Idle EXCEPT !.pc = "entered", !.pt = v, !.nearest = entryPoint]
    OBVIOUS
  <2>2. th' = [th EXCEPT ![t] = next] /\ UNCHANGED <<maxLevel, entryPoint>>
    BY <1>6, <2>1 DEF Take
  <2>3. next.pc = "entered" /\ next.pt = v /\ next.nearest = entryPoint
    BY <2>1, IdleShape DEF Fields
  <2>4. th'[t] = next /\ \A u \in Threads : u # t => th'[u] = th[u]
    BY <1>3, <2>2
  <2>5. \A p \in Unlinked' : p \in Unlinked
    <3>1. \A l \in Nat : <<v, l>> \in Unlinked BY <1>2 DEF Unlinked
    <3> QED BY <1>2, <1>3, <2>2, <2>3, <3>1, UnlinkedLess
  <2>6. AllSound' /\ Held' = Held
    BY <1>1, <1>2, <2>5, SoundKept DEF LinksInv
  <2>7. \A u \in Threads : u # t => ((Active(u))' <=> Active(u)) /\ th'[u].pt = th[u].pt
    BY <2>4 DEF Active
  <2>8. \A u \in Threads : Active(u) => th[u].pt # v
    BY <1>1, <1>2, WorkIs
  <2>9. Apart' BY <2>3, <2>4, <2>7, <2>8 DEF LinksInv, Apart
  <2>10. \A x \in Added : x \in Busy' => x \in Busy
    BY <1>2, <2>3, <2>4, <2>7 DEF Busy
  <2>11. entryPoint \in Added /\ entryPoint \notin Busy
    BY <1>1, <1>6 DEF Inv, TopLevel, LinksInv, EntryReady
  <2>12. EntryReady' BY <2>2, <2>10, <2>11 DEF EntryReady
  <2>13. (Sane(t))'
    <3>1. next.nearest \in Added' /\ next.nearest \notin Busy' BY <1>2, <2>3, <2>10, <2>11
    <3> QED BY <2>3, <2>4, <3>1 DEF Sane
  <2>14. ASSUME NEW u \in Threads, u # t PROVE (Sane(u))'
    <3>1. Sane(u) BY DEF LinksInv, AllSane
    <3>2. th'[u] = th[u] BY <2>4, <2>14
    <3>3. th[u].pc = "back" => \A x \in ToSet(th[u].back) : th[u].pt \notin Held'[<<x, th[u].level>>]
      BY <2>6, <3>1 DEF Sane
    <3> QED BY <1>1, <1>2, <2>5, <2>10, <3>1, <3>2, <3>3, SaneKept
  <2>15. AllSane' BY <2>13, <2>14 DEF AllSane
  <2> QED BY <1>4, <2>6, <2>9, <2>12, <2>15 DEF LinksInv
<1> QED BY <1>5, <1>6

\* When nobody is at work.
LEMMA BarrierLinks ==
  ASSUME Inv, LinksInv, AtBarrier, th' = th, Added' = Added
  PROVE  /\ Apart' /\ EntryReady' /\ AllSane'
         /\ \A p \in Unlinked' : p \in Unlinked
<1>1. \A u \in Threads : th'[u].pc = "idle"
  BY DEF AtBarrier
<1>2. Apart' /\ EntryReady' /\ AllSane'
  BY <1>1 DEF Apart, EntryReady, Busy, Active, AllSane, Sane
<1>3. \A p \in Unlinked' : p \in Unlinked
  BY DEF Unlinked, Early
<1> QED BY <1>2, <1>3

LEMMA NextLevelLinks == ASSUME Inv, LinksInv, NextLevel PROVE LinksInv'
<1>1. AtBarrier /\ UNCHANGED <<gamma, call, neighbors, th>> /\ Added' = Added
  BY LevelAdds DEF NextLevel
<1>2. /\ Apart' /\ EntryReady' /\ AllSane'
      /\ \A p \in Unlinked' : p \in Unlinked
  BY <1>1, BarrierLinks
<1>3. AllSound'
  BY <1>1, <1>2, SoundKept DEF LinksInv
<1>4. Spans'
  BY <1>1 DEF LinksInv, Spans
<1> QED BY <1>2, <1>3, <1>4 DEF LinksInv

\* The array grows: the lists in it stay, and those of the new vectors are empty.
LEMMA NextCallLinks ==
  ASSUME Inv, LinksInv, gamma \in Gammas, NextCall PROVE LinksInv'
<1>1. /\ AtBarrier /\ UNCHANGED <<gamma, th>> /\ Added' = Added
      /\ call' \in 1 .. Len(CallEnds) /\ call' = call + 1 /\ call \in 0 .. Len(CallEnds)
      /\ neighbors' =
           [i \in 0 .. Offsets[gamma][CallEnds[call']] |->
              IF call > 0 /\ i < Offsets[gamma][CallEnds[call]] THEN neighbors[i] ELSE NoPoint]
  BY CallAdds DEF NextCall, Inv, Types
<1>2. /\ Apart' /\ EntryReady' /\ AllSane'
      /\ \A p \in Unlinked' : p \in Unlinked
  BY <1>1, BarrierLinks
<1>3. Spans'
  BY <1>1 DEF Spans
<1>4. PICK m : m = CallEnds[call'] /\ m \in Nat /\ m <= NumPoints
  BY <1>1, Ends
<1>5. PICK last : last = Offsets[gamma][m] /\ last \in Nat
  <2>1. m \in 0 .. NumPoints BY <1>4, Ends DEF NumPoints
  <2> QED BY <2>1, OffsetsAre
<1>6. ASSUME NEW v \in Points, v < m, NEW l \in 0 .. Levels[v] - 1 PROVE (Sound(v, l))'
  <2>1. PICK b, e : b = Begin(v, l) /\ e = End(v, l) /\ b \in Nat /\ e \in Nat /\ e <= last
    <3>1. m \in 0 .. NumPoints BY <1>4, Ends DEF NumPoints
    <3> QED BY <1>5, <1>6, <3>1, SlotsAre
  <2>2. Place(v, l) = b .. e - 1 BY <2>1 DEF Place
  <2>3. <<v, l>> \in Points \X Nat
    <3>1. Levels[v] \in Nat BY Calls
    <3> QED BY <3>1
  <2>4. v \in Nat BY Ends DEF Points, NumPoints
  <2>5. CASE call > 0 /\ v < CallEnds[call]
    <3>1. PICK s : /\ IsList(neighbors, v, l, s)
                   /\ \A x \in ToSet(s) : x \in Linkable[<<v, l>>]
                   /\ <<v, l>> \in Unlinked => s = <<>>
      BY <2>5 DEF LinksInv, AllSound, Sound
    <3>2. PICK first : first = Offsets[gamma][CallEnds[call]] /\ e <= first /\ first \in Nat
      <4>1. call \in 1 .. Len(CallEnds) BY <1>1, <2>5, Ends
      <4>2. CallEnds[call] \in 0 .. NumPoints BY <4>1, Ends DEF NumPoints
      <4> QED BY <2>1, <2>5, <4>2, SlotsAre, OffsetsAre
    <3>3. \A i \in Place(v, l) : i \in 0 .. last /\ i < first BY <1>5, <2>1, <2>2, <3>2
    <3>4. \A i \in Place(v, l) : neighbors'[i] = neighbors[i]
      BY <1>1, <1>4, <1>5, <2>5, <3>2, <3>3
    <3>5. IsList(neighbors', v, l, s) BY <3>1, <3>4 DEF IsList
    <3>6. (IsList(neighbors, v, l, s))' BY <1>1, <3>5, SameSlots
    <3>7. \A x \in ToSet(s) : x \in Linkable'[<<v, l>>] BY <1>1, <1>2, <2>3, <3>1, MoreLinkable
    <3>8. <<v, l>> \in Unlinked' => s = <<>> BY <1>2, <3>1
    <3> QED BY <3>6, <3>7, <3>8 DEF Sound
  <2>6. CASE ~(call > 0 /\ v < CallEnds[call])
    <3>1. \A i \in Place(v, l) : i \in 0 .. last /\ i >= b BY <1>5, <2>1, <2>2
    <3>2. call > 0 => Offsets[gamma][CallEnds[call]] \in Nat /\ Offsets[gamma][CallEnds[call]] <= b
      <4> SUFFICES ASSUME call > 0
                   PROVE  Offsets[gamma][CallEnds[call]] \in Nat /\ Offsets[gamma][CallEnds[call]] <= b
        OBVIOUS
      <4>1. call \in 1 .. Len(CallEnds) BY <1>1, Ends
      <4>2. PICK w : w = CallEnds[call] /\ w \in Nat /\ w \in 0 .. NumPoints /\ w <= v
        BY <2>4, <2>6, <4>1, Ends DEF NumPoints
      <4>3. NumPoints \in Nat /\ v < NumPoints BY Ends DEF NumPoints, Points
      <4>4. w \in Points /\ v \in 0 .. NumPoints BY <2>4, <4>2, <4>3 DEF Points
      <4>5. Levels[w] \in Nat /\ Levels[v] \in Nat BY <4>4, Calls
      <4>6. PICK a, c, d, k : /\ a = Offsets[gamma][w] /\ c = Offsets[gamma][v] /\ d = Cum(gamma, l)
                              /\ k = Cum(gamma, Levels[w])
                              /\ a \in Nat /\ c \in Nat /\ d \in Nat /\ k \in Nat
        <5>1. l \in Nat OBVIOUS
        <5> QED BY <4>2, <4>4, <4>5, <5>1, OffsetsAre, CumIs
      <4>7. b = c + d BY <2>1, <4>6 DEF Begin
      <4>8. a <= c
        <5>1. CASE w = v BY <4>6, <5>1
        <5>2. CASE w # v
          <6>1. w < v BY <2>4, <4>2, <5>2
          <6>2. a + k <= c BY <4>4, <4>6, <6>1, OffsetsInOrder
          <6> QED BY <4>6, <6>2
        <5> QED BY <5>1, <5>2
      <4> QED BY <4>2, <4>6, <4>7, <4>8
    <3>3. \A i \in Place(v, l) : neighbors'[i] = NoPoint
      BY <1>1, <1>4, <1>5, <2>1, <3>1, <3>2
    <3>4. PICK none : none = <<>> /\ none \in Seq(Points) /\ Len(none) = 0 /\ IsInjective(none)
                      /\ ToSet(none) = {}
      BY NoneListed DEF Lists
    <3>5. NbNeighbors(l) \in Nat BY SlotsAre
    <3>6. IsList(neighbors', v, l, none)
      <4>1. \A i \in Place(v, l) : ~(i - Begin(v, l) < 0) BY <2>1, <2>2
      <4> QED BY <3>3, <3>4, <3>5, <4>1 DEF IsList
    <3>7. (IsList(neighbors, v, l, none))' BY <1>1, <3>6, SameSlots
    <3> QED BY <3>4, <3>7 DEF Sound
  <2> QED BY <2>5, <2>6
<1>7. AllSound'
  BY <1>4, <1>6 DEF AllSound
<1> QED BY <1>2, <1>3, <1>7 DEF LinksInv
-----------------------------------------------------------------------------
LInv == Inv /\ gamma \in Gammas /\ (fault = "none" => LinksInv)

\* The lists are sound as long as no memory was damaged.
LEMMA InitLinks == Init => LInv
<1> SUFFICES ASSUME Init PROVE LInv
  OBVIOUS
<1>1. Inv /\ gamma \in Gammas
  BY InitInv DEF Init
<1>2. \A t \in Threads : th[t].pc = "idle"
  BY IdleShape DEF Init
<1>3. Apart /\ EntryReady /\ AllSane
  BY <1>2 DEF Apart, EntryReady, Busy, Active, AllSane, Sane
<1>4. Spans /\ AllSound
  BY DEF Init, Spans, AllSound
<1> QED BY <1>1, <1>3, <1>4 DEF LInv, LinksInv

\* Nothing is said of what comes after a fault, and the program ends there.
LEMMA StepLinks == LInv /\ [AddStep]_vars => LInv'
<1> SUFFICES ASSUME LInv, [AddStep]_vars PROVE LInv'
  OBVIOUS
<1> USE DEF LInv
<1>1. Inv'
  BY StepInv
<1>2. CASE UNCHANGED vars
  <2>1. Added' = Added /\ Busy' = Busy /\ Unlinked' = Unlinked
    BY <1>2 DEF vars, Added, Busy, Active, Unlinked, Early
  <2>2. Linkable' = Linkable /\ Held' = Held
    BY <1>2, <2>1 DEF vars, Linkable, Held, Place, Begin, End
  <2>3. ASSUME fault = "none" PROVE LinksInv'
    <3>1. LinksInv BY <2>3
    <3>2. AllSound' BY <1>2, <2>1, <3>1, SoundKept DEF vars, LinksInv
    <3>3. Spans' /\ Apart' /\ EntryReady'
      BY <1>2, <2>1, <3>1 DEF vars, LinksInv, Spans, Apart, EntryReady, Active
    <3>4. AllSane' BY <1>2, <2>1, <2>2, <3>1 DEF vars, LinksInv, AllSane, Sane
    <3> QED BY <3>2, <3>3, <3>4 DEF LinksInv
  <2> QED BY <1>1, <1>2, <2>3 DEF vars
<1>3. CASE AddStep
  <2>1. fault = "none" /\ gamma' = gamma
    BY <1>3 DEF AddStep, NextCall, NextLevel, Link, Start, Greedy, Expand, LinkOwn, LinkBack, Down,
                RaiseLevel, RaisePoint, Take
  <2>2. LinksInv
    BY <2>1
  <2>3. ASSUME fault' = "none" PROVE LinksInv'
    <3>1. CASE NextCall BY <2>2, <3>1, NextCallLinks
    <3>2. CASE NextLevel BY <2>2, <3>2, NextLevelLinks
    <3>3. ASSUME NEW t \in Threads, Link(t) PROVE LinksInv'
      BY <2>2, <2>3, <3>3, StartLinks, GreedyLinks, ExpandLinks, LinkOwnLinks, LinkBackLinks, DownLinks,
         RaiseLevelLinks, RaisePointLinks DEF Link
    <3>4. ASSUME NEW t \in Threads, NEW v \in todo, Take(t, v) PROVE LinksInv'
      BY <2>2, <3>4, TakeLinks
    <3> QED BY <1>3, <3>1, <3>2, <3>3, <3>4 DEF AddStep
  <2> QED BY <1>1, <2>1, <2>3
<1> QED BY <1>2, <1>3
-----------------------------------------------------------------------------
\* A list without repetition holds as many as it is long.
LEMMA AllDifferent ==
  ASSUME NEW s \in Seq(Points), IsInjective(s)
  PROVE  Cardinality(ToSet(s)) = Len(s)
<1>1. PICK n : n = Len(s) /\ n \in Nat /\ DOMAIN s = 1 .. n /\ s \in [1 .. n -> Points]
  BY LenProperties
<1>2. PICK A : A = ToSet(s)
  OBVIOUS
<1>3. s \in [1 .. n -> A]
  BY <1>1, <1>2 DEF ToSet
<1>4. \A i, j \in 1 .. n : s[i] = s[j] => i = j
  BY <1>1 DEF IsInjective
<1>5. \A x \in A : \E i \in 1 .. n : s[i] = x
  BY <1>1, <1>2 DEF ToSet
<1>6. s \in Bijection(1 .. n, A)
  BY <1>3, <1>4, <1>5 DEF Bijection, Injection, Surjection, IsInjective
<1>7. ExistsBijection(1 .. n, A)
  BY <1>6 DEF ExistsBijection
<1>8. Cardinality(A) = n
  BY <1>1, <1>7, FS_CountingElements
<1> QED BY <1>1, <1>2, <1>8

\* What is sound for the proofs is what the runs check.
LEMMA SoundLists == LInv => ListsSound
<1> SUFFICES ASSUME LInv, fault = "none", call > 0,
                    NEW v \in 0 .. CallEnds[call] - 1, NEW l \in 0 .. Levels[v] - 1
             PROVE  /\ ToSet(Links(neighbors, v, l)) \subseteq {x \in Added : x # v /\ Levels[x] > l}
                    /\ Cardinality(ToSet(Links(neighbors, v, l))) = Len(Links(neighbors, v, l))
                    /\ \A i \in Begin(v, l) + Len(Links(neighbors, v, l)) .. End(v, l) - 1 :
                         neighbors[i] = NoPoint
  BY DEF ListsSound
<1>1. LinksInv /\ gamma \in Gammas /\ call \in 1 .. Len(CallEnds)
  BY Ends DEF LInv, Inv, Types
<1>2. v \in Points /\ v < CallEnds[call] /\ l \in Nat
  <2>1. CallEnds[call] \in Nat /\ CallEnds[call] <= NumPoints /\ NumPoints \in Nat
    BY <1>1, Ends DEF NumPoints
  <2>2. v \in Points /\ v < CallEnds[call] BY <2>1 DEF Points
  <2>3. Levels[v] \in Nat BY <2>2, Calls
  <2> QED BY <2>2, <2>3
<1>3. PICK s : IsList(neighbors, v, l, s) /\ \A x \in ToSet(s) : x \in Linkable[<<v, l>>]
  BY <1>1, <1>2 DEF LinksInv, AllSound, Sound
<1>4. Links(neighbors, v, l) = s /\ s \in Seq(Points) /\ IsInjective(s)
  BY <1>1, <1>2, <1>3, LinksAre DEF IsList
<1>5. ToSet(s) \subseteq {x \in Added : x # v /\ Levels[x] > l}
  BY <1>2, <1>3, LinkableIs
<1>6. Cardinality(ToSet(s)) = Len(s)
  BY <1>4, AllDifferent
<1>7. ASSUME NEW i \in Begin(v, l) + Len(s) .. End(v, l) - 1 PROVE neighbors[i] = NoPoint
  <2>1. PICK b, e, m : b = Begin(v, l) /\ e = End(v, l) /\ m = Len(s) /\ b \in Nat /\ e \in Nat /\ m \in Nat
    BY <1>1, <1>2, <1>4, SlotsAre, LenProperties
  <2>2. i \in b .. e - 1 /\ ~(i - b < m) BY <1>7, <2>1
  <2>3. i \in Place(v, l) BY <2>1, <2>2 DEF Place
  <2> QED BY <1>3, <2>1, <2>2, <2>3 DEF IsList
<1> QED BY <1>4, <1>5, <1>6, <1>7

\* Whatever the vectors, their levels and distances, for every gamma, and however
\* many threads link a batch in whatever order: unless memory was damaged, every
\* list holds, without a gap, vectors that were added and have the list's level,
\* none twice and never the vector itself, although lists are read without locks.
THEOREM ListsAlwaysSound == AddSpec => []ListsSound
<1>1. AddSpec => []LInv
  BY InitLinks, StepLinks, PTL DEF AddSpec
<1> QED BY <1>1, SoundLists, PTL
-----------------------------------------------------------------------------
LookRun(f, r, s, n) == f[0] = r /\ \A i \in 1 .. n : f[i] = Look(f[i - 1], s[i])
LookBeyondRun(f, r, s, n) == f[0] = r /\ \A i \in 1 .. n : f[i] = LookBeyond(f[i - 1], s[i])
HopRun(f, r, s, n) == f[0] = r /\ \A i \in 1 .. n : f[i] = Hop(f[i - 1], s[i])
HopBeyondRun(f, r, s, n) == f[0] = r /\ \A i \in 1 .. n : f[i] = HopBeyond(f[i - 1], s[i])

\* The folds of a query go through a list one member after the other, too.
LEMMA LookSteps ==
  ASSUME NEW r, NEW s, Len(s) \in Nat
  PROVE  \E f : LookRun(f, r, s, Len(s)) /\ Fold(Look, r, s) = f[Len(s)]
<1> DEFINE IsRun(f, n) ==
             f = [i \in 0 .. n |->
                    IF i = 0 THEN r
                    ELSE The({Look(acc, s[i]) : acc \in {f[i - 1]}})]
           Folded(l) ==
             (CHOOSE f : f = [i \in 0 .. Len(l) |->
                                IF i = 0 THEN r
                                ELSE The({Look(acc, l[i]) : acc \in {f[i - 1]}})])[Len(l)]
           P == {n \in Nat : \E f : IsRun(f, n)}
<1>1. \A f, i : The({Look(acc, s[i]) : acc \in {f[i - 1]}}) = Look(f[i - 1], s[i])
  <2>1. \A f, i : {Look(acc, s[i]) : acc \in {f[i - 1]}} = {Look(f[i - 1], s[i])}
    OBVIOUS
  <2> QED BY <2>1, TheIs
<1>2. \A i \in 0 .. Len(s) : i \in P
  <2>1. 0 \in P
    <3>1. IsRun([i \in 0 .. 0 |-> r], 0) OBVIOUS
    <3> HIDE DEF IsRun
    <3> QED BY <3>1
  <2>2. ASSUME NEW i \in 1 .. Len(s), i - 1 \in P PROVE i \in P
    <3>1. PICK f : IsRun(f, i - 1) BY <2>2
    <3> DEFINE h == [j \in 0 .. i |-> IF j = i THEN Look(f[i - 1], s[i]) ELSE f[j]]
    <3>2. h = [j \in 0 .. i |-> IF j = 0 THEN r ELSE Look(h[j - 1], s[j])]
      <4> SUFFICES ASSUME NEW j \in 0 .. i
                   PROVE  h[j] = IF j = 0 THEN r ELSE Look(h[j - 1], s[j])
        OBVIOUS
      <4>1. CASE j = i /\ i > 0 BY <4>1
      <4>2. CASE j < i
        <5>1. j \in 0 .. i - 1 /\ h[j] = f[j] BY <4>2
        <5>2. f[j] = IF j = 0 THEN r ELSE Look(f[j - 1], s[j])
          BY <1>1, <3>1, <5>1
        <5>3. j # 0 => h[j - 1] = f[j - 1] BY <5>1
        <5> QED BY <5>1, <5>2, <5>3
      <4> QED BY <4>1, <4>2
    <3>3. IsRun(h, i)
      <4> HIDE DEF h
      <4> QED BY <1>1, <3>2
    <3> HIDE DEF IsRun
    <3> QED BY <3>3
  <2> HIDE DEF P
  <2> QED BY <2>1, <2>2, Along
<1>3. PICK f : f = (CHOOSE g : IsRun(g, Len(s)))
  OBVIOUS
<1>4. IsRun(f, Len(s))
  <2>1. \E g : IsRun(g, Len(s))
    <3>1. Len(s) \in 0 .. Len(s) OBVIOUS
    <3>2. Len(s) \in P
      <4> HIDE DEF P
      <4> QED BY <1>2, <3>1
    <3> QED BY <3>2
  <2> HIDE DEF IsRun
  <2> QED BY <1>3, <2>1
<1>5. Fold(Look, r, s) = f[Len(s)]
  <2>1. Fold(Look, r, s) = The({Folded(l) : l \in {s}}) BY DEF Fold
  <2>2. {Folded(l) : l \in {s}} = {Folded(s)}
    <3> HIDE DEF Folded
    <3> QED OBVIOUS
  <2>3. Folded(s) = f[Len(s)] BY <1>3
  <2> HIDE DEF Folded
  <2> QED BY <2>1, <2>2, <2>3, TheIs
<1>6. \A i \in 0 .. Len(s) : f[i] = IF i = 0 THEN r ELSE Look(f[i - 1], s[i])
  BY <1>1, <1>4
<1>7. f[0] = r /\ \A i \in 1 .. Len(s) : f[i] = Look(f[i - 1], s[i])
  BY <1>6
<1> QED BY <1>5, <1>7 DEF LookRun

LEMMA LookBeyondSteps ==
  ASSUME NEW r, NEW s, Len(s) \in Nat
  PROVE  \E f : LookBeyondRun(f, r, s, Len(s)) /\ Fold(LookBeyond, r, s) = f[Len(s)]
<1> DEFINE IsRun(f, n) ==
             f = [i \in 0 .. n |->
                    IF i = 0 THEN r
                    ELSE The({LookBeyond(acc, s[i]) : acc \in {f[i - 1]}})]
           Folded(l) ==
             (CHOOSE f : f = [i \in 0 .. Len(l) |->
                                IF i = 0 THEN r
                                ELSE The({LookBeyond(acc, l[i]) : acc \in {f[i - 1]}})])[Len(l)]
           P == {n \in Nat : \E f : IsRun(f, n)}
<1>1. \A f, i : The({LookBeyond(acc, s[i]) : acc \in {f[i - 1]}}) = LookBeyond(f[i - 1], s[i])
  <2>1. \A f, i : {LookBeyond(acc, s[i]) : acc \in {f[i - 1]}} = {LookBeyond(f[i - 1], s[i])}
    OBVIOUS
  <2> QED BY <2>1, TheIs
<1>2. \A i \in 0 .. Len(s) : i \in P
  <2>1. 0 \in P
    <3>1. IsRun([i \in 0 .. 0 |-> r], 0) OBVIOUS
    <3> HIDE DEF IsRun
    <3> QED BY <3>1
  <2>2. ASSUME NEW i \in 1 .. Len(s), i - 1 \in P PROVE i \in P
    <3>1. PICK f : IsRun(f, i - 1) BY <2>2
    <3> DEFINE h == [j \in 0 .. i |-> IF j = i THEN LookBeyond(f[i - 1], s[i]) ELSE f[j]]
    <3>2. h = [j \in 0 .. i |-> IF j = 0 THEN r ELSE LookBeyond(h[j - 1], s[j])]
      <4> SUFFICES ASSUME NEW j \in 0 .. i
                   PROVE  h[j] = IF j = 0 THEN r ELSE LookBeyond(h[j - 1], s[j])
        OBVIOUS
      <4>1. CASE j = i /\ i > 0 BY <4>1
      <4>2. CASE j < i
        <5>1. j \in 0 .. i - 1 /\ h[j] = f[j] BY <4>2
        <5>2. f[j] = IF j = 0 THEN r ELSE LookBeyond(f[j - 1], s[j])
          BY <1>1, <3>1, <5>1
        <5>3. j # 0 => h[j - 1] = f[j - 1] BY <5>1
        <5> QED BY <5>1, <5>2, <5>3
      <4> QED BY <4>1, <4>2
    <3>3. IsRun(h, i)
      <4> HIDE DEF h
      <4> QED BY <1>1, <3>2
    <3> HIDE DEF IsRun
    <3> QED BY <3>3
  <2> HIDE DEF P
  <2> QED BY <2>1, <2>2, Along
<1>3. PICK f : f = (CHOOSE g : IsRun(g, Len(s)))
  OBVIOUS
<1>4. IsRun(f, Len(s))
  <2>1. \E g : IsRun(g, Len(s))
    <3>1. Len(s) \in 0 .. Len(s) OBVIOUS
    <3>2. Len(s) \in P
      <4> HIDE DEF P
      <4> QED BY <1>2, <3>1
    <3> QED BY <3>2
  <2> HIDE DEF IsRun
  <2> QED BY <1>3, <2>1
<1>5. Fold(LookBeyond, r, s) = f[Len(s)]
  <2>1. Fold(LookBeyond, r, s) = The({Folded(l) : l \in {s}}) BY DEF Fold
  <2>2. {Folded(l) : l \in {s}} = {Folded(s)}
    <3> HIDE DEF Folded
    <3> QED OBVIOUS
  <2>3. Folded(s) = f[Len(s)] BY <1>3
  <2> HIDE DEF Folded
  <2> QED BY <2>1, <2>2, <2>3, TheIs
<1>6. \A i \in 0 .. Len(s) : f[i] = IF i = 0 THEN r ELSE LookBeyond(f[i - 1], s[i])
  BY <1>1, <1>4
<1>7. f[0] = r /\ \A i \in 1 .. Len(s) : f[i] = LookBeyond(f[i - 1], s[i])
  BY <1>6
<1> QED BY <1>5, <1>7 DEF LookBeyondRun

LEMMA HopSteps ==
  ASSUME NEW r, NEW s, Len(s) \in Nat
  PROVE  \E f : HopRun(f, r, s, Len(s)) /\ Fold(Hop, r, s) = f[Len(s)]
<1> DEFINE IsRun(f, n) ==
             f = [i \in 0 .. n |->
                    IF i = 0 THEN r
                    ELSE The({Hop(acc, s[i]) : acc \in {f[i - 1]}})]
           Folded(l) ==
             (CHOOSE f : f = [i \in 0 .. Len(l) |->
                                IF i = 0 THEN r
                                ELSE The({Hop(acc, l[i]) : acc \in {f[i - 1]}})])[Len(l)]
           P == {n \in Nat : \E f : IsRun(f, n)}
<1>1. \A f, i : The({Hop(acc, s[i]) : acc \in {f[i - 1]}}) = Hop(f[i - 1], s[i])
  <2>1. \A f, i : {Hop(acc, s[i]) : acc \in {f[i - 1]}} = {Hop(f[i - 1], s[i])}
    OBVIOUS
  <2> QED BY <2>1, TheIs
<1>2. \A i \in 0 .. Len(s) : i \in P
  <2>1. 0 \in P
    <3>1. IsRun([i \in 0 .. 0 |-> r], 0) OBVIOUS
    <3> HIDE DEF IsRun
    <3> QED BY <3>1
  <2>2. ASSUME NEW i \in 1 .. Len(s), i - 1 \in P PROVE i \in P
    <3>1. PICK f : IsRun(f, i - 1) BY <2>2
    <3> DEFINE h == [j \in 0 .. i |-> IF j = i THEN Hop(f[i - 1], s[i]) ELSE f[j]]
    <3>2. h = [j \in 0 .. i |-> IF j = 0 THEN r ELSE Hop(h[j - 1], s[j])]
      <4> SUFFICES ASSUME NEW j \in 0 .. i
                   PROVE  h[j] = IF j = 0 THEN r ELSE Hop(h[j - 1], s[j])
        OBVIOUS
      <4>1. CASE j = i /\ i > 0 BY <4>1
      <4>2. CASE j < i
        <5>1. j \in 0 .. i - 1 /\ h[j] = f[j] BY <4>2
        <5>2. f[j] = IF j = 0 THEN r ELSE Hop(f[j - 1], s[j])
          BY <1>1, <3>1, <5>1
        <5>3. j # 0 => h[j - 1] = f[j - 1] BY <5>1
        <5> QED BY <5>1, <5>2, <5>3
      <4> QED BY <4>1, <4>2
    <3>3. IsRun(h, i)
      <4> HIDE DEF h
      <4> QED BY <1>1, <3>2
    <3> HIDE DEF IsRun
    <3> QED BY <3>3
  <2> HIDE DEF P
  <2> QED BY <2>1, <2>2, Along
<1>3. PICK f : f = (CHOOSE g : IsRun(g, Len(s)))
  OBVIOUS
<1>4. IsRun(f, Len(s))
  <2>1. \E g : IsRun(g, Len(s))
    <3>1. Len(s) \in 0 .. Len(s) OBVIOUS
    <3>2. Len(s) \in P
      <4> HIDE DEF P
      <4> QED BY <1>2, <3>1
    <3> QED BY <3>2
  <2> HIDE DEF IsRun
  <2> QED BY <1>3, <2>1
<1>5. Fold(Hop, r, s) = f[Len(s)]
  <2>1. Fold(Hop, r, s) = The({Folded(l) : l \in {s}}) BY DEF Fold
  <2>2. {Folded(l) : l \in {s}} = {Folded(s)}
    <3> HIDE DEF Folded
    <3> QED OBVIOUS
  <2>3. Folded(s) = f[Len(s)] BY <1>3
  <2> HIDE DEF Folded
  <2> QED BY <2>1, <2>2, <2>3, TheIs
<1>6. \A i \in 0 .. Len(s) : f[i] = IF i = 0 THEN r ELSE Hop(f[i - 1], s[i])
  BY <1>1, <1>4
<1>7. f[0] = r /\ \A i \in 1 .. Len(s) : f[i] = Hop(f[i - 1], s[i])
  BY <1>6
<1> QED BY <1>5, <1>7 DEF HopRun

LEMMA HopBeyondSteps ==
  ASSUME NEW r, NEW s, Len(s) \in Nat
  PROVE  \E f : HopBeyondRun(f, r, s, Len(s)) /\ Fold(HopBeyond, r, s) = f[Len(s)]
<1> DEFINE IsRun(f, n) ==
             f = [i \in 0 .. n |->
                    IF i = 0 THEN r
                    ELSE The({HopBeyond(acc, s[i]) : acc \in {f[i - 1]}})]
           Folded(l) ==
             (CHOOSE f : f = [i \in 0 .. Len(l) |->
                                IF i = 0 THEN r
                                ELSE The({HopBeyond(acc, l[i]) : acc \in {f[i - 1]}})])[Len(l)]
           P == {n \in Nat : \E f : IsRun(f, n)}
<1>1. \A f, i : The({HopBeyond(acc, s[i]) : acc \in {f[i - 1]}}) = HopBeyond(f[i - 1], s[i])
  <2>1. \A f, i : {HopBeyond(acc, s[i]) : acc \in {f[i - 1]}} = {HopBeyond(f[i - 1], s[i])}
    OBVIOUS
  <2> QED BY <2>1, TheIs
<1>2. \A i \in 0 .. Len(s) : i \in P
  <2>1. 0 \in P
    <3>1. IsRun([i \in 0 .. 0 |-> r], 0) OBVIOUS
    <3> HIDE DEF IsRun
    <3> QED BY <3>1
  <2>2. ASSUME NEW i \in 1 .. Len(s), i - 1 \in P PROVE i \in P
    <3>1. PICK f : IsRun(f, i - 1) BY <2>2
    <3> DEFINE h == [j \in 0 .. i |-> IF j = i THEN HopBeyond(f[i - 1], s[i]) ELSE f[j]]
    <3>2. h = [j \in 0 .. i |-> IF j = 0 THEN r ELSE HopBeyond(h[j - 1], s[j])]
      <4> SUFFICES ASSUME NEW j \in 0 .. i
                   PROVE  h[j] = IF j = 0 THEN r ELSE HopBeyond(h[j - 1], s[j])
        OBVIOUS
      <4>1. CASE j = i /\ i > 0 BY <4>1
      <4>2. CASE j < i
        <5>1. j \in 0 .. i - 1 /\ h[j] = f[j] BY <4>2
        <5>2. f[j] = IF j = 0 THEN r ELSE HopBeyond(f[j - 1], s[j])
          BY <1>1, <3>1, <5>1
        <5>3. j # 0 => h[j - 1] = f[j - 1] BY <5>1
        <5> QED BY <5>1, <5>2, <5>3
      <4> QED BY <4>1, <4>2
    <3>3. IsRun(h, i)
      <4> HIDE DEF h
      <4> QED BY <1>1, <3>2
    <3> HIDE DEF IsRun
    <3> QED BY <3>3
  <2> HIDE DEF P
  <2> QED BY <2>1, <2>2, Along
<1>3. PICK f : f = (CHOOSE g : IsRun(g, Len(s)))
  OBVIOUS
<1>4. IsRun(f, Len(s))
  <2>1. \E g : IsRun(g, Len(s))
    <3>1. Len(s) \in 0 .. Len(s) OBVIOUS
    <3>2. Len(s) \in P
      <4> HIDE DEF P
      <4> QED BY <1>2, <3>1
    <3> QED BY <3>2
  <2> HIDE DEF IsRun
  <2> QED BY <1>3, <2>1
<1>5. Fold(HopBeyond, r, s) = f[Len(s)]
  <2>1. Fold(HopBeyond, r, s) = The({Folded(l) : l \in {s}}) BY DEF Fold
  <2>2. {Folded(l) : l \in {s}} = {Folded(s)}
    <3> HIDE DEF Folded
    <3> QED OBVIOUS
  <2>3. Folded(s) = f[Len(s)] BY <1>3
  <2> HIDE DEF Folded
  <2> QED BY <2>1, <2>2, <2>3, TheIs
<1>6. \A i \in 0 .. Len(s) : f[i] = IF i = 0 THEN r ELSE HopBeyond(f[i - 1], s[i])
  BY <1>1, <1>4
<1>7. f[0] = r /\ \A i \in 1 .. Len(s) : f[i] = HopBeyond(f[i - 1], s[i])
  BY <1>6
<1> QED BY <1>5, <1>7 DEF HopBeyondRun
-----------------------------------------------------------------------------
\* The vectors are finitely many.
LEMMA PointsAre == NumPoints \in Nat /\ IsFiniteSet(Points) /\ Cardinality(Points) = NumPoints
<1>1. NumPoints \in Nat
  BY Ends DEF NumPoints
<1>2. PICK n : n = NumPoints - 1
  OBVIOUS
<1>3. /\ IsFiniteSet(0 .. n)
      /\ Cardinality(0 .. n) = IF 0 > n THEN 0 ELSE n - 0 + 1
  BY <1>1, <1>2, FS_Interval
<1> QED BY <1>1, <1>2, <1>3 DEF Points

\* The lists of a built index.
LEMMA BuiltLists ==
  ASSUME LInv, Built, fault = "none", NEW v \in Points, NEW l \in Nat, Levels[v] > l
  PROVE  /\ Links(neighbors, v, l) \in Seq(Points)
         /\ \A x \in ToSet(Links(neighbors, v, l)) : x \in Points /\ Levels[x] > l
<1>1. call = Len(CallEnds) /\ LinksInv /\ gamma \in Gammas
  BY DEF Built, LInv
<1>2. v < CallEnds[call] /\ call > 0 /\ Levels[v] \in Nat
  BY <1>1, Ends, Calls DEF Points, NumPoints
<1>3. l \in 0 .. Levels[v] - 1
  BY <1>2
<1>4. PICK s : IsList(neighbors, v, l, s) /\ \A x \in ToSet(s) : x \in Linkable[<<v, l>>]
  BY <1>1, <1>2, <1>3 DEF LinksInv, AllSound, Sound
<1>5. Links(neighbors, v, l) = s /\ s \in Seq(Points)
  BY <1>1, <1>3, <1>4, LinksAre DEF IsList
<1>6. \A x \in ToSet(s) : x \in Points /\ Levels[x] > l
  BY <1>4, LinkableIs
<1> QED BY <1>5, <1>6

\* what the query's entry to the base level leads to
Reached == Reach({query.nearest})

\* The lists of what is reached hold what is reached, and nothing else is.
LEMMA ReachedIs ==
  ASSUME LInv, Built, fault = "none", query.nearest \in Points
  PROVE  /\ Reached \subseteq Points /\ query.nearest \in Reached
         /\ \A v \in Reached : \A x \in ToSet(Links(neighbors, v, 0)) : x \in Reached
         /\ \A R : R \subseteq Points /\ query.nearest \in R
                   /\ (\A v \in R : \A x \in ToSet(Links(neighbors, v, 0)) : x \in R)
                   => Reached \subseteq R
<1> DEFINE links == [v \in Points |-> ToSet(Links(neighbors, v, 0))]
           closed == {R \in SUBSET Points : {query.nearest} \subseteq R /\ \A v \in R : links[v] \subseteq R}
<1>1. Reached = {v \in Points : \A R \in closed : v \in R}
  BY DEF Reached, Reach
<1>2. \A v \in Points : links[v] = ToSet(Links(neighbors, v, 0))
  OBVIOUS
<1>3. \A v \in Points : \A x \in ToSet(Links(neighbors, v, 0)) : x \in Points
  <2> SUFFICES ASSUME NEW v \in Points PROVE \A x \in ToSet(Links(neighbors, v, 0)) : x \in Points
    OBVIOUS
  <2>1. Levels[v] > 0 BY Calls
  <2> QED BY <2>1, BuiltLists
<1> HIDE DEF links
<1>4. query.nearest \in Reached
  BY <1>1
<1>5. ASSUME NEW v \in Reached, NEW x \in ToSet(Links(neighbors, v, 0)) PROVE x \in Reached
  <2>1. v \in Points /\ x \in Points BY <1>1, <1>3, <1>5
  <2>2. ASSUME NEW R \in closed PROVE x \in R BY <1>1, <1>2, <1>5, <2>1, <2>2
  <2> HIDE DEF closed
  <2> QED BY <1>1, <2>1, <2>2
<1>6. ASSUME NEW R, R \subseteq Points, query.nearest \in R,
             \A v \in R : \A x \in ToSet(Links(neighbors, v, 0)) : x \in R
      PROVE  Reached \subseteq R
  <2>1. R \in closed BY <1>2, <1>6
  <2> HIDE DEF closed
  <2> QED BY <1>1, <2>1
<1> QED BY <1>1, <1>4, <1>5, <1>6
-----------------------------------------------------------------------------
Below(d, A, x) == {y \in A : d[y] < d[x]}

LEMMA ClosestIs == \A d, A, n, x : x \in Closest(d, A, n) <=> x \in A /\ Cardinality(Below(d, A, x)) < n
BY DEF Closest, Below

\* Of finitely many, finitely many are nearer.
LEMMA BelowIs ==
  \A d, A, x : A \subseteq Points =>
    /\ Below(d, A, x) \subseteq A /\ IsFiniteSet(Below(d, A, x)) /\ Cardinality(Below(d, A, x)) \in Nat
<1> SUFFICES ASSUME NEW d, NEW A, NEW x, A \subseteq Points
             PROVE  /\ Below(d, A, x) \subseteq A /\ IsFiniteSet(Below(d, A, x))
                    /\ Cardinality(Below(d, A, x)) \in Nat
  OBVIOUS
<1>1. Below(d, A, x) \subseteq A /\ Below(d, A, x) \subseteq Points
  BY DEF Below
<1> QED BY <1>1, PointsAre, FS_Subset, FS_CardinalityType

LEMMA FewerBelow ==
  \A B, C : B \subseteq C /\ C \subseteq Points => Cardinality(B) <= Cardinality(C)
BY PointsAre, FS_Subset

\* The closest of the closest so far and one more are the closest of all.
LEMMA ClosestAdds ==
  ASSUME NEW d, \A x \in Points : d[x] \in Nat, NEW S \in SUBSET Points, NEW v \in Points, NEW n \in Nat
  PROVE  Closest(d, Closest(d, S, n) \union {v}, n) = Closest(d, S \union {v}, n)
<1>1. PICK C, P, U : C = Closest(d, S, n) /\ P = C \union {v} /\ U = S \union {v}
  OBVIOUS
<1>2. \A x : x \in C <=> x \in S /\ Cardinality(Below(d, S, x)) < n
  BY <1>1, ClosestIs
<1>3. C \subseteq S /\ P \subseteq U /\ U \subseteq Points /\ P \subseteq Points
  BY <1>1, <1>2
<1>4. ASSUME NEW x \in Closest(d, U, n) PROVE x \in Closest(d, P, n)
  <2>1. x \in U /\ Cardinality(Below(d, U, x)) < n BY ClosestIs
  <2>2. Below(d, S, x) \subseteq Below(d, U, x) /\ Below(d, P, x) \subseteq Below(d, U, x)
    BY <1>1, <1>3 DEF Below
  <2>3. Below(d, U, x) \subseteq Points BY <1>3, BelowIs
  <2>4. Cardinality(Below(d, S, x)) <= Cardinality(Below(d, U, x))
        /\ Cardinality(Below(d, P, x)) <= Cardinality(Below(d, U, x))
    BY <2>2, <2>3, FewerBelow
  <2>5. /\ Cardinality(Below(d, S, x)) \in Nat /\ Cardinality(Below(d, U, x)) \in Nat
        /\ Cardinality(Below(d, P, x)) \in Nat
    BY <1>3, BelowIs
  <2>6. Cardinality(Below(d, S, x)) < n /\ Cardinality(Below(d, P, x)) < n BY <2>1, <2>4, <2>5
  <2>7. x \in P BY <1>1, <1>2, <2>1, <2>6
  <2> QED BY <2>6, <2>7, ClosestIs
<1>5. ASSUME NEW x \in Closest(d, P, n), x \notin Closest(d, U, n) PROVE FALSE
  <2>1. x \in P /\ Cardinality(Below(d, P, x)) < n BY <1>5, ClosestIs
  <2>2. x \in U /\ ~(Cardinality(Below(d, U, x)) < n) BY <1>3, <1>5, <2>1, ClosestIs
  <2> DEFINE Lost == {y \in Below(d, U, x) : y \notin P}
             D == {d[y] : y \in Lost}
  <2>3. Lost # {}
    <3> SUFFICES ASSUME Lost = {} PROVE FALSE OBVIOUS
    <3>1. Below(d, U, x) \subseteq Below(d, P, x) BY DEF Below
    <3>2. Below(d, P, x) \subseteq Points BY <1>3, BelowIs
    <3>3. Cardinality(Below(d, U, x)) <= Cardinality(Below(d, P, x)) BY <3>1, <3>2, FewerBelow
    <3>4. Cardinality(Below(d, U, x)) \in Nat /\ Cardinality(Below(d, P, x)) \in Nat BY <1>3, BelowIs
    <3> QED BY <2>1, <2>2, <3>3, <3>4
  <2>4. \A y \in Lost : y \in S /\ y \notin P /\ y \in Points /\ d[y] < d[x] /\ d[y] \in Nat
    BY <1>1, <1>3 DEF Below
  <2>5. D \subseteq Nat /\ D # {} BY <2>3, <2>4
  <2>6. PICK a \in D : \A b \in D : a <= b
    <3> HIDE DEF D
    <3> QED BY <2>5, LeastMember
  <2>7. PICK y \in Lost : a = d[y] BY <2>6
  <2>8. \A z \in Lost : d[y] <= d[z] BY <2>6, <2>7
  <2>9. ~(Cardinality(Below(d, S, y)) < n) BY <1>1, <1>2, <2>4, <2>7
  <2>10. Below(d, S, y) \subseteq Below(d, P, x)
    <3> SUFFICES ASSUME NEW z \in Below(d, S, y) PROVE z \in P /\ d[z] < d[x]
      BY DEF Below
    <3>1. z \in S /\ d[z] < d[y] /\ z \in U /\ d[z] \in Nat /\ d[y] \in Nat /\ d[y] < d[x] /\ d[x] \in Nat
      BY <1>1, <1>3, <2>2, <2>4, <2>7 DEF Below
    <3>2. d[z] < d[x] BY <3>1
    <3>3. z \notin Lost BY <2>8, <3>1
    <3>4. z \in Below(d, U, x) BY <3>1, <3>2 DEF Below
    <3> QED BY <3>2, <3>3, <3>4
  <2> HIDE DEF Lost, D
  <2>11. Below(d, P, x) \subseteq Points BY <1>3, BelowIs
  <2>12. Cardinality(Below(d, S, y)) <= Cardinality(Below(d, P, x)) BY <2>10, <2>11, FewerBelow
  <2>13. Cardinality(Below(d, S, y)) \in Nat /\ Cardinality(Below(d, P, x)) \in Nat
    BY <1>3, BelowIs
  <2> QED BY <2>1, <2>9, <2>12, <2>13
<1>6. Closest(d, P, n) = Closest(d, U, n)
  BY <1>4, <1>5
<1> QED BY <1>1, <1>6
-----------------------------------------------------------------------------
QueryFields == {"mode", "d", "filter", "ef", "k", "bfs", "nearest", "level",
                "heap", "taken", "nvalid", "lost", "seen", "found"}

\* What a query was asked with.
Asked ==
  /\ query = [f \in QueryFields |-> query[f]]
  /\ query.d \in QueryDist /\ query.filter \in Filters /\ query.bfs \in BOOLEAN
  /\ query.ef \in Nat \ {0} /\ query.k \in Nat \ {0}
  /\ query.nearest \in Points

Alike(q) ==
  /\ q = [f \in QueryFields |-> q[f]]
  /\ q.d = query.d /\ q.filter = query.filter /\ q.ef = query.ef /\ q.k = query.k /\ q.bfs = query.bfs
  /\ q.nearest = query.nearest /\ q.mode = query.mode /\ q.level = query.level

\* size() is wrong by the slots of handed out vectors that pushes freed.
Counted(q) ==
  /\ q.taken \subseteq q.heap /\ q.heap \subseteq q.seen /\ q.seen \subseteq Points
  /\ q.nvalid \in Nat /\ q.lost \in Nat
  /\ q.nvalid + q.lost = Cardinality(q.heap \ q.taken)

\* What a push of a new vector changes.
Pushed(p, q, v) ==
  /\ Alike(p) /\ Counted(p) /\ p.seen = q.seen /\ p.found = q.found
  /\ Cardinality(q.heap) < Slots(query) =>
       /\ \A x : x \in p.heap <=> x \in q.heap \/ x = v
       /\ p.taken = q.taken /\ p.lost = q.lost

LEMMA DistIs == Asked => \A x \in Points : query.d[x] \in Nat
BY SearchAssumption DEF Asked

LEMMA FarthestIs ==
  ASSUME Asked, NEW S, S \subseteq Points, S # {}
  PROVE  \E x \in S : \A y \in S : query.d[y] <= query.d[x]
<1> DEFINE D == {query.d[x] : x \in S}
<1>1. \A x \in S : query.d[x] \in Nat
  BY DistIs
<1>2. D \subseteq Nat /\ D # {}
  BY <1>1
<1>3. IsFiniteSet(D)
  <2>1. IsFiniteSet(S) BY PointsAre, FS_Subset
  <2>2. [x \in S |-> query.d[x]] \in Surjection(S, D) BY DEF Surjection
  <2> HIDE DEF D
  <2> QED BY <2>1, <2>2, FS_Surjection
<1>4. PICK a \in D : \A b \in D : b <= a
  <2> HIDE DEF D
  <2> QED BY <1>2, <1>3, LargestMember
<1> QED BY <1>4

\* One vector more, or less, of finitely many.
LEMMA OneMoreIs ==
  \A S, x : S \subseteq Points /\ x \in Points =>
    /\ Cardinality(S) \in Nat
    /\ x \notin S => Cardinality(S \union {x}) = Cardinality(S) + 1
    /\ x \in S => Cardinality(S \ {x}) = Cardinality(S) - 1
<1> SUFFICES ASSUME NEW S, NEW x, S \subseteq Points, x \in Points
             PROVE  /\ Cardinality(S) \in Nat
                    /\ x \notin S => Cardinality(S \union {x}) = Cardinality(S) + 1
                    /\ x \in S => Cardinality(S \ {x}) = Cardinality(S) - 1
  OBVIOUS
<1>1. IsFiniteSet(S) BY PointsAre, FS_Subset
<1> QED BY <1>1, FS_CardinalityType, FS_AddElement, FS_RemoveElement

\* A push of a vector that is new keeps the count: with a place for it nothing else
\* changes; without one, a slot of a vector handed out counts as lost.
LEMMA PushIs ==
  ASSUME Asked, NEW q, Alike(q), Counted(q), NEW v \in q.seen, v \notin q.heap
  PROVE  Pushed(Push(q, v), q, v)
<1>1. PICK p : p = Push(q, v)
  OBVIOUS
<1>2. PICK heap, taken, seen, nvalid, lost :
        /\ heap = q.heap /\ taken = q.taken /\ seen = q.seen /\ nvalid = q.nvalid /\ lost = q.lost
  OBVIOUS
<1>3. /\ taken \subseteq heap /\ heap \subseteq seen /\ seen \subseteq Points /\ v \in seen /\ v \notin heap
      /\ nvalid \in Nat /\ lost \in Nat /\ nvalid + lost = Cardinality(heap \ taken)
      /\ heap \subseteq Points /\ v \in Points
  BY <1>2 DEF Counted
<1>4. q = [f \in QueryFields |-> q[f]] /\ q.d = query.d /\ Slots(q) = Slots(query) /\ Slots(query) \in Nat \ {0}
  BY DEF Alike, Slots, Asked
<1>5. CASE Cardinality(heap) < Slots(query)
  <2>1. p = [q EXCEPT !.heap = heap \union {v}, !.nvalid = nvalid + 1]
    BY <1>1, <1>2, <1>4, <1>5 DEF Push, QueryFields
  <2>2. /\ p = [f \in QueryFields |-> p[f]]
        /\ p.d = q.d /\ p.filter = q.filter /\ p.ef = q.ef /\ p.k = q.k /\ p.bfs = q.bfs
        /\ p.nearest = q.nearest /\ p.mode = q.mode /\ p.level = q.level
        /\ p.heap = heap \union {v} /\ p.nvalid = nvalid + 1
        /\ p.taken = taken /\ p.lost = lost /\ p.seen = seen /\ p.found = q.found
    BY <1>2, <1>4, <2>1 DEF QueryFields
  <2>3. Cardinality((heap \ taken) \union {v}) = Cardinality(heap \ taken) + 1
    <3>1. heap \ taken \subseteq Points /\ v \notin heap \ taken BY <1>3
    <3> QED BY <1>3, <3>1, OneMoreIs
  <2>4. (heap \union {v}) \ taken = (heap \ taken) \union {v}
    BY <1>3
  <2>5. (nvalid + 1) + lost = Cardinality((heap \union {v}) \ taken)
    BY <1>3, <2>3, <2>4
  <2>6. Counted(p)
    <3>0. PICK grown : grown = heap \union {v} OBVIOUS
    <3>1. /\ taken \subseteq grown /\ grown \subseteq seen /\ nvalid + 1 \in Nat
          /\ (nvalid + 1) + lost = Cardinality(grown \ taken)
      BY <1>3, <2>5, <3>0
    <3>2. p.heap = grown /\ p.nvalid + p.lost = Cardinality(p.heap \ p.taken) BY <2>2, <3>0, <3>1
    <3> QED BY <1>3, <2>2, <3>1, <3>2 DEF Counted
  <2>7. Alike(p) BY <2>2 DEF Alike
  <2> QED BY <1>1, <1>2, <2>2, <2>6, <2>7 DEF Pushed
<1>6. CASE ~(Cardinality(heap) < Slots(query))
  <2>1. PICK far : far = (CHOOSE x \in q.heap : \A y \in q.heap : q.d[y] <= q.d[x])
    OBVIOUS
  <2>2. far \in heap
    <3>1. heap # {}
      <4>1. Cardinality({}) = 0 BY FS_EmptySet
      <4> QED BY <1>4, <1>6, <4>1
    <3>2. \E x \in heap : \A y \in heap : query.d[y] <= query.d[x] BY <1>3, <3>1, FarthestIs
    <3> QED BY <1>2, <1>4, <2>1, <3>2
  <2>3. PICK more : more = IF far \in taken THEN lost + 1 ELSE lost
    OBVIOUS
  <2>4. p = q \/ p = [q EXCEPT !.heap = (heap \ {far}) \union {v}, !.taken = taken \ {far},
                               !.nvalid = nvalid, !.lost = more]
    <3>1. ~(Cardinality(q.heap) < Slots(q)) BY <1>2, <1>4, <1>6
    <3>2. p = q \/ p = [q EXCEPT !.heap = (q.heap \ {far}) \union {v}, !.taken = q.taken \ {far},
                                 !.nvalid = q.nvalid, !.lost = IF far \in q.taken THEN q.lost + 1 ELSE q.lost]
      BY <1>1, <1>4, <2>1, <3>1 DEF Push, SlotForSlot, QueryFields
    <3>3. (IF far \in q.taken THEN q.lost + 1 ELSE q.lost) = more BY <1>2, <2>3
    <3> QED BY <1>2, <3>2, <3>3
  <2>5. CASE p = q BY <1>1, <1>2, <1>6, <2>5 DEF Pushed
  <2>6. CASE p = [q EXCEPT !.heap = (heap \ {far}) \union {v}, !.taken = taken \ {far},
                           !.nvalid = nvalid, !.lost = more]
    <3>1. /\ p = [f \in QueryFields |-> p[f]]
          /\ p.d = q.d /\ p.filter = q.filter /\ p.ef = q.ef /\ p.k = q.k /\ p.bfs = q.bfs
          /\ p.nearest = q.nearest /\ p.mode = q.mode /\ p.level = q.level
          /\ p.heap = (heap \ {far}) \union {v} /\ p.nvalid = nvalid
          /\ p.taken = taken \ {far} /\ p.lost = more /\ p.seen = seen /\ p.found = q.found
      BY <1>2, <1>4, <2>6 DEF QueryFields
    <3>2. PICK open : open = heap \ taken /\ open \subseteq Points /\ v \notin open BY <1>3
    <3>3. PICK new : new = ((heap \ {far}) \union {v}) \ (taken \ {far}) OBVIOUS
    <3>4. nvalid + more = Cardinality(new)
      <4>1. CASE far \in taken
        <5>1. new = open \union {v} BY <1>3, <2>2, <3>2, <3>3, <4>1
        <5>2. Cardinality(open \union {v}) = Cardinality(open) + 1 BY <1>3, <3>2, OneMoreIs
        <5> QED BY <1>3, <2>3, <3>2, <4>1, <5>1, <5>2
      <4>2. CASE far \notin taken
        <5>1. PICK less : less = open \ {far} /\ less \subseteq Points /\ v \notin less BY <3>2
        <5>2. new = less \union {v} BY <1>3, <2>2, <3>2, <3>3, <4>2, <5>1
        <5>3. far \in open /\ far \in Points BY <1>3, <2>2, <3>2, <4>2
        <5>4. Cardinality(less) = Cardinality(open) - 1 /\ Cardinality(open) \in Nat
          BY <3>2, <5>1, <5>3, OneMoreIs
        <5>5. Cardinality(less \union {v}) = Cardinality(less) + 1 BY <1>3, <5>1, OneMoreIs
        <5> QED BY <1>3, <2>3, <3>2, <4>2, <5>2, <5>4, <5>5
      <4> QED BY <4>1, <4>2
    <3>5. more \in Nat BY <1>3, <2>3
    <3>6. taken \ {far} \subseteq (heap \ {far}) \union {v} /\ (heap \ {far}) \union {v} \subseteq seen
      BY <1>3
    <3>7. Counted(p) BY <1>3, <3>1, <3>3, <3>4, <3>5, <3>6 DEF Counted
    <3>8. Alike(p) BY <3>1 DEF Alike
    <3> QED BY <1>1, <1>2, <1>6, <3>1, <3>7, <3>8 DEF Pushed
  <2> QED BY <2>4, <2>5, <2>6
<1> QED BY <1>5, <1>6
-----------------------------------------------------------------------------
\* The heap has room for all vectors, and no list ends before its last.
Exhaustive == ~query.bfs /\ query.ef >= NumPoints /\ Cardinality(query.filter) < 2 * M

\* Such a search has lost nothing of what it has seen.
Complete(q) ==
  /\ q.lost = 0
  /\ \A x : x \in q.heap <=> x \in q.seen
  /\ \A x \in q.seen : x \in Reached
  /\ q.found = Closest(query.d, {query.nearest} \union (q.seen \intersect query.filter), query.k)

Answers(q) == \A x \in q.found : x \in query.filter \/ x = entryPoint

HopFields == {"q", "num", "stop", "keep", "at"}

\* A search on its way over a list.
Hopping(acc) ==
  /\ acc = [f \in HopFields |-> acc[f]]
  /\ acc.num \in Nat /\ acc.stop \in BOOLEAN
  /\ Alike(acc.q) /\ Counted(acc.q) /\ Answers(acc.q)
  /\ Exhaustive => /\ Complete(acc.q) /\ ~acc.stop
                   /\ acc.num <= Cardinality(acc.q.seen \intersect query.filter)

\* Nothing is forgotten, and a walk that has seen nothing new pushed nothing.
Further(new, old) ==
  /\ \A x \in old.q.seen : x \in new.q.seen
  /\ (\A x \in new.q.seen : x \in old.q.seen) => new.q.nvalid = old.q.nvalid
  /\ Exhaustive => new.q.taken = old.q.taken

\* A vector that is new, with a place in the heap and, if it passes, in the results.
LEMMA VisitIs ==
  ASSUME Asked, NEW q, Alike(q), Counted(q), Answers(q), Exhaustive => Complete(q),
         NEW v \in Points, v \notin q.seen, Exhaustive => v \in Reached
  PROVE  LET p == Push([q EXCEPT !.seen = q.seen \union {v}, !.found = Collected(q, v)], v)
         IN /\ Alike(p) /\ Counted(p) /\ Answers(p)
            /\ p.seen = q.seen \union {v}
            /\ Exhaustive => Complete(p) /\ p.taken = q.taken
<1>1. PICK o : o = [q EXCEPT !.seen = q.seen \union {v}, !.found = Collected(q, v)]
  OBVIOUS
<1>2. PICK p : p = Push(o, v)
  OBVIOUS
<1>3. PICK seen, found : seen = q.seen \union {v} /\ found = Collected(q, v)
  OBVIOUS
<1>4. /\ o = [f \in QueryFields |-> o[f]] /\ o.d = q.d /\ o.filter = q.filter /\ o.ef = q.ef
      /\ o.k = q.k /\ o.bfs = q.bfs /\ o.nearest = q.nearest /\ o.mode = q.mode /\ o.level = q.level
      /\ o.seen = seen /\ o.found = found /\ o.heap = q.heap /\ o.taken = q.taken
      /\ o.nvalid = q.nvalid /\ o.lost = q.lost
  BY <1>1, <1>3 DEF Alike, QueryFields
<1>5. Alike(o) BY <1>4 DEF Alike
<1>6. Counted(o)
  <2>1. q.heap \subseteq seen /\ seen \subseteq Points BY <1>3 DEF Counted
  <2> QED BY <1>4, <2>1 DEF Counted
<1>7. v \in o.seen /\ v \notin o.heap BY <1>3, <1>4 DEF Counted
<1>8. Pushed(p, o, v) BY <1>2, <1>5, <1>6, <1>7, PushIs
<1>9. Alike(p) /\ Counted(p) /\ p.seen = seen /\ p.found = found BY <1>4, <1>8 DEF Pushed
<1>10. PICK all : all = {query.nearest} \union (q.seen \intersect query.filter)
  OBVIOUS
<1>11. /\ q.d = query.d /\ q.k = query.k /\ q.seen \subseteq Points /\ q.heap \subseteq q.seen
       /\ all \in SUBSET Points /\ query.k \in Nat
  BY <1>10 DEF Alike, Counted, Asked
<1>12. ASSUME Passes(v)
       PROVE  Answers(p) /\ (Exhaustive =>
         found = Closest(query.d, {query.nearest} \union (seen \intersect query.filter), query.k))
  <2>1. v \in query.filter BY <1>12 DEF Passes
  <2>2. found = Closest(query.d, q.found \union {v}, query.k) BY <1>3, <1>11, <1>12 DEF Collected
  <2>3. \A x \in found : x \in q.found \/ x = v BY <2>2, ClosestIs
  <2>4. Answers(p) BY <1>9, <2>1, <2>3 DEF Answers
  <2>5. Exhaustive => found = Closest(query.d, {query.nearest} \union (seen \intersect query.filter), query.k)
    <3> SUFFICES ASSUME Exhaustive
                 PROVE  found = Closest(query.d, {query.nearest} \union (seen \intersect query.filter), query.k)
      OBVIOUS
    <3>1. q.found = Closest(query.d, all, query.k) BY <1>10 DEF Complete
    <3>2. Closest(query.d, Closest(query.d, all, query.k) \union {v}, query.k)
            = Closest(query.d, all \union {v}, query.k)
      BY <1>11, DistIs, ClosestAdds
    <3>3. all \union {v} = {query.nearest} \union (seen \intersect query.filter)
      BY <1>3, <1>10, <2>1
    <3> QED BY <2>2, <3>1, <3>2, <3>3
  <2> QED BY <2>4, <2>5
<1>13. ASSUME ~Passes(v)
       PROVE  Answers(p) /\ (Exhaustive =>
         found = Closest(query.d, {query.nearest} \union (seen \intersect query.filter), query.k))
  <2>1. v \notin query.filter BY <1>13 DEF Passes
  <2>2. found = q.found BY <1>3, <1>13 DEF Collected
  <2>3. Answers(p) BY <1>9, <2>2 DEF Answers
  <2>4. Exhaustive => found = Closest(query.d, {query.nearest} \union (seen \intersect query.filter), query.k)
    <3>1. all = {query.nearest} \union (seen \intersect query.filter)
      BY <1>3, <1>10, <2>1
    <3> QED BY <1>10, <2>2, <3>1 DEF Complete
  <2> QED BY <2>3, <2>4
<1>14. Answers(p) /\ (Exhaustive =>
         found = Closest(query.d, {query.nearest} \union (seen \intersect query.filter), query.k))
  BY <1>12, <1>13
<1>15. ASSUME Exhaustive PROVE Complete(p) /\ p.taken = q.taken
  <2>1. Cardinality(o.heap) < Slots(query)
    <3>1. o.heap \subseteq Points /\ o.heap \union {v} \subseteq Points /\ v \notin o.heap
      BY <1>4, <1>7, <1>11
    <3>2. Cardinality(o.heap \union {v}) = Cardinality(o.heap) + 1 /\ Cardinality(o.heap) \in Nat
      BY <3>1, OneMoreIs
    <3>3. Cardinality(o.heap \union {v}) <= Cardinality(Points) BY <3>1, FewerBelow
    <3>4. Slots(query) \in Nat /\ Slots(query) >= query.ef BY DEF Slots, Asked
    <3>5. query.ef >= NumPoints /\ query.ef \in Nat BY <1>15 DEF Exhaustive, Asked
    <3> QED BY <3>2, <3>3, <3>4, <3>5, PointsAre
  <2>2. /\ \A x : x \in p.heap <=> x \in q.heap \/ x = v
        /\ p.taken = q.taken /\ p.lost = q.lost
    BY <1>4, <1>8, <2>1 DEF Pushed
  <2>3. q.lost = 0 /\ (\A x : x \in q.heap <=> x \in q.seen) /\ (\A x \in q.seen : x \in Reached)
    BY <1>15 DEF Complete
  <2>4. \A x : x \in p.heap <=> x \in p.seen BY <1>3, <1>9, <2>2, <2>3
  <2>5. \A x \in p.seen : x \in Reached BY <1>3, <1>9, <1>15, <2>3
  <2>6. p.found = Closest(query.d, {query.nearest} \union (p.seen \intersect query.filter), query.k)
    BY <1>9, <1>14, <1>15
  <2>7. p.lost = 0 BY <2>2, <2>3
  <2> QED BY <2>2, <2>4, <2>5, <2>6, <2>7 DEF Complete
<1> QED BY <1>1, <1>2, <1>3, <1>9, <1>14, <1>15

\* So few pass that no list ends before its last.
LEMMA FewPass ==
  ASSUME Asked, Exhaustive, NEW S, S \subseteq Points
  PROVE  Cardinality(S \intersect query.filter) < 2 * M /\ Cardinality(S \intersect query.filter) \in Nat
<1>1. IsFiniteSet(query.filter) BY SearchAssumption DEF Asked
<1>2. S \intersect query.filter \subseteq query.filter OBVIOUS
<1>3. Cardinality(S \intersect query.filter) <= Cardinality(query.filter)
  BY <1>1, <1>2, FS_Subset
<1>4. Cardinality(query.filter) \in Nat BY <1>1, FS_CardinalityType
<1>5. IsFiniteSet(S \intersect query.filter) BY <1>1, <1>2, FS_Subset
<1>6. Cardinality(S \intersect query.filter) \in Nat BY <1>5, FS_CardinalityType
<1> QED BY <1>3, <1>4, <1>6, Parameters DEF Exhaustive

\* One vector of a list: the walk goes on as it should, and if the search is
\* exhaustive the vector has been seen.
LEMMA HopIs ==
  ASSUME Asked, NEW acc, Hopping(acc), NEW v \in Points, Exhaustive => v \in Reached
  PROVE  /\ Hopping(Hop(acc, v)) /\ Further(Hop(acc, v), acc)
         /\ Exhaustive => v \in Hop(acc, v).q.seen
<1>1. PICK q, num, new : /\ q = acc.q /\ new = Hop(acc, v)
                         /\ num = IF Passes(v) /\ (q.bfs \/ v \notin q.seen) THEN acc.num + 1 ELSE acc.num
  OBVIOUS
<1>2. /\ acc = [f \in HopFields |-> acc[f]] /\ acc.num \in Nat /\ acc.stop \in BOOLEAN
      /\ Alike(q) /\ Counted(q) /\ Answers(q)
      /\ Exhaustive => /\ Complete(q) /\ ~acc.stop
                       /\ acc.num <= Cardinality(q.seen \intersect query.filter)
  BY <1>1 DEF Hopping
<1>3. num \in Nat /\ q.bfs = query.bfs /\ q.seen \subseteq Points
  BY <1>1, <1>2 DEF Alike, Counted
<1>4. CASE acc.stop
  <2>1. new = acc BY <1>1, <1>4 DEF Hop
  <2>2. ~Exhaustive BY <1>2, <1>4
  <2> QED BY <1>1, <2>1, <2>2 DEF Further
<1>5. CASE ~acc.stop /\ (v \in q.seen \/ (q.bfs /\ ~Passes(v)))
  <2>1. new = [acc EXCEPT !.num = num] BY <1>1, <1>5 DEF Hop
  <2>2. new = [f \in HopFields |-> new[f]] /\ new.q = q /\ new.num = num /\ new.stop = acc.stop
    BY <1>1, <1>2, <2>1 DEF HopFields
  <2>3. Exhaustive => v \in q.seen /\ num = acc.num
    BY <1>1, <1>3, <1>5 DEF Exhaustive
  <2>4. Hopping(new) BY <1>2, <1>3, <2>2, <2>3 DEF Hopping
  <2>5. Further(new, acc) BY <1>1, <2>2 DEF Further
  <2> QED BY <1>1, <2>2, <2>3, <2>4, <2>5
<1>6. CASE ~acc.stop /\ ~(v \in q.seen \/ (q.bfs /\ ~Passes(v)))
  <2>1. PICK p : p = Push([q EXCEPT !.seen = q.seen \union {v}, !.found = Collected(q, v)], v)
    OBVIOUS
  <2>2. /\ Alike(p) /\ Counted(p) /\ Answers(p) /\ p.seen = q.seen \union {v}
        /\ Exhaustive => Complete(p) /\ p.taken = q.taken
    BY <1>2, <1>6, <2>1, VisitIs
  <2>3. PICK end : end = (num >= 2 * M)
    OBVIOUS
  <2>4. new = [acc EXCEPT !.q = p, !.num = num, !.stop = end]
    <3>1. [q EXCEPT !.seen = @ \union {v}, !.found = Collected(q, v)]
            = [q EXCEPT !.seen = q.seen \union {v}, !.found = Collected(q, v)]
      OBVIOUS
    <3> QED BY <1>1, <1>6, <2>1, <2>3, <3>1 DEF Hop
  <2>5. /\ new = [f \in HopFields |-> new[f]] /\ new.q = p /\ new.num = num /\ new.stop = end
        /\ end \in BOOLEAN
    <3>1. new = [f \in HopFields |-> new[f]] /\ new.q = p /\ new.num = num /\ new.stop = end
      BY <1>2, <2>4 DEF HopFields
    <3>2. end \in BOOLEAN BY <2>3
    <3> QED BY <3>1, <3>2
  <2>6. ASSUME Exhaustive PROVE ~end /\ num <= Cardinality(p.seen \intersect query.filter)
    <3>1. PICK P, Q : P = p.seen \intersect query.filter /\ Q = q.seen \intersect query.filter
      OBVIOUS
    <3>2. Cardinality(P) < 2 * M /\ Cardinality(P) \in Nat
      BY <2>2, <2>6, <3>1, FewPass DEF Counted
    <3>3. acc.num <= Cardinality(Q) /\ Q \subseteq Points /\ v \notin Q BY <1>2, <1>3, <1>6, <2>6, <3>1
    <3>4. num <= Cardinality(P)
      <4>1. CASE Passes(v)
        <5>1. P = Q \union {v} BY <2>2, <3>1, <4>1 DEF Passes
        <5>2. Cardinality(Q \union {v}) = Cardinality(Q) + 1 /\ Cardinality(Q) \in Nat
          BY <3>3, OneMoreIs
        <5>3. num <= acc.num + 1 BY <1>1, <1>2
        <5> QED BY <1>2, <1>3, <3>3, <5>1, <5>2, <5>3
      <4>2. CASE ~Passes(v)
        <5>1. P = Q BY <2>2, <3>1, <4>2 DEF Passes
        <5>2. num = acc.num BY <1>1, <4>2
        <5> QED BY <3>3, <5>1, <5>2
      <4> QED BY <4>1, <4>2
    <3>5. ~(num >= 2 * M) BY <1>3, <3>2, <3>4, Parameters
    <3> QED BY <2>3, <3>1, <3>4, <3>5
  <2>7. Hopping(new) BY <1>3, <2>2, <2>5, <2>6 DEF Hopping
  <2>8. Further(new, acc)
    <3>1. \A x \in q.seen : x \in p.seen BY <2>2
    <3>2. v \in p.seen /\ v \notin q.seen BY <1>6, <2>2
    <3> QED BY <1>1, <2>2, <2>5, <3>1, <3>2 DEF Further
  <2> QED BY <1>1, <2>2, <2>5, <2>7, <2>8
<1> QED BY <1>2, <1>4, <1>5, <1>6
-----------------------------------------------------------------------------
\* Nothing is forgotten from one vector to the next.
LEMMA FurtherOn ==
  \A a, b, c : Further(c, b) /\ Further(b, a) => Further(c, a)
BY DEF Further

LEMMA FurtherSelf == \A a : Further(a, a)
BY DEF Further

\* HopIs for whatever walk and vector.
LEMMA HopOn ==
  \A acc, v : /\ Asked /\ Hopping(acc) /\ v \in Points /\ (Exhaustive => v \in Reached)
              => /\ Hopping(Hop(acc, v)) /\ Further(Hop(acc, v), acc)
                 /\ Exhaustive => v \in Hop(acc, v).q.seen
BY HopIs

\* A whole list of vectors.
LEMMA HopAllIs ==
  ASSUME Asked, NEW acc, Hopping(acc), NEW s \in Seq(Points),
         \A x \in ToSet(s) : Exhaustive => x \in Reached
  PROVE  Hopping(Fold(Hop, acc, s)) /\ Further(Fold(Hop, acc, s), acc)
<1>1. PICK n : n = Len(s) /\ n \in Nat /\ DOMAIN s = 1 .. n
  BY LenProperties
<1>2. \A i \in 1 .. n : s[i] \in Points /\ (Exhaustive => s[i] \in Reached)
  BY <1>1 DEF ToSet
<1>3. PICK f : HopRun(f, acc, s, n) /\ Fold(Hop, acc, s) = f[n]
  <2>1. \E f : HopRun(f, acc, s, Len(s)) /\ Fold(Hop, acc, s) = f[Len(s)]
    <3>1. Len(s) \in Nat BY <1>1
    <3> QED BY <3>1, HopSteps
  <2> QED BY <1>1, <2>1
<1>4. f[0] = acc /\ \A i \in 1 .. n : f[i] = Hop(f[i - 1], s[i])
  BY <1>3 DEF HopRun
<1> DEFINE P == {i \in 0 .. n : Hopping(f[i]) /\ Further(f[i], acc)}
<1>5. 0 \in P BY <1>1, <1>4, FurtherSelf
<1>6. ASSUME NEW i \in 1 .. n, i - 1 \in P PROVE i \in P
  <2>1. PICK was, v : was = f[i - 1] /\ v = s[i] OBVIOUS
  <2>2. Hopping(was) /\ Further(was, acc) /\ v \in Points /\ (Exhaustive => v \in Reached)
    BY <1>2, <1>6, <2>1
  <2>3. Hopping(Hop(was, v)) /\ Further(Hop(was, v), was) BY <2>2, HopOn, Zenon
  <2>4. Further(Hop(was, v), acc) BY <2>2, <2>3, FurtherOn, Zenon
  <2>5. f[i] = Hop(was, v) /\ i \in 0 .. n BY <1>1, <1>4, <2>1
  <2> QED BY <2>3, <2>4, <2>5
<1>7. n \in P
  <2>1. n \in 0 .. n BY <1>1
  <2> HIDE DEF P
  <2> QED BY <1>1, <1>5, <1>6, <2>1, Along
<1> QED BY <1>3, <1>7

\* One vector of a list, and what its own list leads to.
LEMMA HopBeyondIs ==
  ASSUME LInv, Built, fault = "none", Asked, NEW acc, Hopping(acc),
         NEW v \in Points, Exhaustive => v \in Reached
  PROVE  /\ Hopping(HopBeyond(acc, v)) /\ Further(HopBeyond(acc, v), acc)
         /\ Exhaustive => v \in HopBeyond(acc, v).q.seen
<1>1. PICK new, hop, beyond, list :
        /\ new = HopBeyond(acc, v) /\ hop = Hop(acc, v)
        /\ list = Links(neighbors, v, 0) /\ beyond = Fold(Hop, hop, list)
  OBVIOUS
<1>2. /\ Hopping(hop) /\ Further(hop, acc)
      /\ Exhaustive => v \in hop.q.seen
  BY <1>1, HopIs
<1>3. Hopping(beyond) /\ Further(beyond, hop)
  <2>1. Levels[v] > 0 BY Calls
  <2>2. list \in Seq(Points) BY <1>1, <2>1, BuiltLists
  <2>3. \A x \in ToSet(list) : Exhaustive => x \in Reached
    <3>1. query.nearest \in Points BY DEF Asked
    <3> QED BY <1>1, <3>1, ReachedIs
  <2> QED BY <1>1, <1>2, <2>2, <2>3, HopAllIs
<1>4. Further(beyond, acc) BY <1>2, <1>3, FurtherOn, Zenon
<1>5. Exhaustive => v \in beyond.q.seen BY <1>2, <1>3 DEF Further
<1>6. \/ new = acc /\ acc.stop
      \/ new = [beyond EXCEPT !.at = @ + 1, !.keep = @ /\ ~beyond.stop, !.stop = FALSE]
      \/ new = [hop EXCEPT !.at = @ + 1]
  BY <1>1 DEF HopBeyond
<1>7. CASE new = acc /\ acc.stop
  <2>1. ~Exhaustive BY <1>7 DEF Hopping
  <2> QED BY <1>1, <1>7, <2>1, FurtherSelf
<1>8. CASE new = [beyond EXCEPT !.at = @ + 1, !.keep = @ /\ ~beyond.stop, !.stop = FALSE]
  <2>1. beyond = [f \in HopFields |-> beyond[f]] BY <1>3 DEF Hopping
  <2>2. PICK at, keep : at = beyond.at + 1 /\ keep = (beyond.keep /\ ~beyond.stop) OBVIOUS
  <2>3. new = [beyond EXCEPT !.at = at, !.keep = keep, !.stop = FALSE] BY <1>8, <2>2
  <2>4. /\ new = [f \in HopFields |-> new[f]]
        /\ new.q = beyond.q /\ new.num = beyond.num /\ new.stop = FALSE
    BY <2>1, <2>3 DEF HopFields
  <2>5. Hopping(new) BY <1>3, <2>4 DEF Hopping
  <2>6. Further(new, acc) BY <1>4, <2>4 DEF Further
  <2> QED BY <1>1, <1>5, <2>4, <2>5, <2>6
<1>9. CASE new = [hop EXCEPT !.at = @ + 1]
  <2>1. hop = [f \in HopFields |-> hop[f]] BY <1>2 DEF Hopping
  <2>2. PICK at : at = hop.at + 1 OBVIOUS
  <2>3. new = [hop EXCEPT !.at = at] BY <1>9, <2>2
  <2>4. /\ new = [f \in HopFields |-> new[f]]
        /\ new.q = hop.q /\ new.num = hop.num /\ new.stop = hop.stop
    BY <2>1, <2>3 DEF HopFields
  <2>5. Hopping(new) BY <1>2, <2>4 DEF Hopping
  <2>6. Further(new, acc) BY <1>2, <2>4 DEF Further
  <2> QED BY <1>1, <1>2, <2>4, <2>5, <2>6
<1> QED BY <1>6, <1>7, <1>8, <1>9

\* The same for whatever walk and vector.
LEMMA HopBeyondOn ==
  \A acc, v :
    /\ LInv /\ Built /\ fault = "none" /\ Asked /\ Hopping(acc)
    /\ v \in Points /\ (Exhaustive => v \in Reached)
    => /\ Hopping(HopBeyond(acc, v)) /\ Further(HopBeyond(acc, v), acc)
       /\ Exhaustive => v \in HopBeyond(acc, v).q.seen
BY HopBeyondIs

\* what the walk has seen of the first vectors of a list
SeenOf(acc, s, i) == Exhaustive => \A j \in 1 .. i : s[j] \in acc.q.seen

\* A list that is walked: nothing is forgotten, and if the search is exhaustive
\* everything on the list has been seen.
LEMMA HopBeyondAllIs ==
  ASSUME LInv, Built, fault = "none", Asked, NEW acc, Hopping(acc), NEW s \in Seq(Points),
         \A x \in ToSet(s) : Exhaustive => x \in Reached
  PROVE  /\ Hopping(Fold(HopBeyond, acc, s)) /\ Further(Fold(HopBeyond, acc, s), acc)
         /\ Exhaustive => \A x \in ToSet(s) : x \in Fold(HopBeyond, acc, s).q.seen
<1>1. PICK n : n = Len(s) /\ n \in Nat /\ DOMAIN s = 1 .. n
  BY LenProperties
<1>2. \A i \in 1 .. n : s[i] \in Points /\ (Exhaustive => s[i] \in Reached)
  BY <1>1 DEF ToSet
<1>3. PICK f : HopBeyondRun(f, acc, s, n) /\ Fold(HopBeyond, acc, s) = f[n]
  <2>1. \E f : HopBeyondRun(f, acc, s, Len(s)) /\ Fold(HopBeyond, acc, s) = f[Len(s)]
    <3>1. Len(s) \in Nat BY <1>1
    <3> QED BY <3>1, HopBeyondSteps
  <2> QED BY <1>1, <2>1
<1>4. f[0] = acc /\ \A i \in 1 .. n : f[i] = HopBeyond(f[i - 1], s[i])
  BY <1>3 DEF HopBeyondRun
<1> DEFINE P == {i \in 0 .. n : Hopping(f[i]) /\ Further(f[i], acc) /\ SeenOf(f[i], s, i)}
<1>5. 0 \in P
  <2>1. SeenOf(f[0], s, 0) BY DEF SeenOf
  <2> QED BY <1>1, <1>4, <2>1, FurtherSelf
<1>6. ASSUME NEW i \in 1 .. n, i - 1 \in P PROVE i \in P
  <2>1. PICK was, v : was = f[i - 1] /\ v = s[i] OBVIOUS
  <2>2. /\ Hopping(was) /\ Further(was, acc) /\ v \in Points /\ (Exhaustive => v \in Reached)
        /\ SeenOf(was, s, i - 1)
    BY <1>2, <1>6, <2>1
  <2>3. PICK now : now = HopBeyond(was, v) OBVIOUS
  <2>4. Hopping(now) /\ Further(now, was) /\ (Exhaustive => v \in now.q.seen)
    BY <2>2, <2>3, HopBeyondOn, Zenon
  <2>5. Further(now, acc) BY <2>2, <2>4, FurtherOn, Zenon
  <2>6. SeenOf(now, s, i)
    <3> SUFFICES ASSUME Exhaustive, NEW j \in 1 .. i PROVE s[j] \in now.q.seen BY DEF SeenOf
    <3>1. j = i \/ j \in 1 .. i - 1 BY <1>1
    <3>2. ASSUME j \in 1 .. i - 1 PROVE s[j] \in now.q.seen
      BY <2>2, <2>4, <3>2 DEF SeenOf, Further
    <3> QED BY <2>1, <2>4, <3>1, <3>2
  <2>7. f[i] = now /\ i \in 0 .. n BY <1>1, <1>4, <2>1, <2>3
  <2> QED BY <2>4, <2>5, <2>6, <2>7
<1>7. n \in P
  <2>1. n \in 0 .. n BY <1>1
  <2> HIDE DEF P
  <2> QED BY <1>1, <1>5, <1>6, <2>1, Along
<1>8. ASSUME Exhaustive, NEW x \in ToSet(s) PROVE x \in f[n].q.seen
  <2>1. PICK j \in 1 .. n : s[j] = x BY <1>1 DEF ToSet
  <2> QED BY <1>7, <1>8, <2>1 DEF SeenOf
<1> QED BY <1>3, <1>7, <1>8
-----------------------------------------------------------------------------
\* A vector a query may stand at: it has the level, and passes or is the entry point.
Stand(x) == x \in Points /\ Levels[x] > query.level /\ (x \in query.filter \/ x = entryPoint)

OnLevel(x) == x \in Points /\ Levels[x] > query.level

LookFields == {"nearest", "num", "stop"}

\* better than where the query stands
Improves(x) == Passes(x) /\ (Passes(query.nearest) => query.d[x] < query.d[query.nearest])

Looking(acc) ==
  /\ acc = [f \in LookFields |-> acc[f]] /\ Stand(acc.nearest)
  /\ acc.nearest = query.nearest \/ Improves(acc.nearest)

\* The upper levels are left only for vectors that pass, and are nearer than what
\* passed before.
LEMMA LookIs == \A acc, v : Asked /\ Looking(acc) /\ OnLevel(v) => Looking(Look(acc, v))
<1> SUFFICES ASSUME NEW acc, NEW v, Asked, Looking(acc), OnLevel(v) PROVE Looking(Look(acc, v))
  OBVIOUS
<1>1. CASE acc.stop \/ ~Passes(v)
  BY <1>1 DEF Look
<1>2. CASE ~(acc.stop \/ ~Passes(v))
  <2>1. PICK near, num, stop :
          /\ near = IF query.d[v] < query.d[acc.nearest] \/ ~Passes(acc.nearest) THEN v ELSE acc.nearest
          /\ num = acc.num + 1 /\ stop = (acc.num + 1 >= M)
    OBVIOUS
  <2>2. PICK new : new = Look(acc, v) OBVIOUS
  <2>3. new = [nearest |-> near, num |-> num, stop |-> stop] BY <1>2, <2>1, <2>2 DEF Look
  <2>4. new = [f \in LookFields |-> new[f]] /\ new.nearest = near BY <2>3 DEF LookFields
  <2>5. Stand(near) BY <1>2, <2>1 DEF Looking, OnLevel, Stand, Passes
  <2>6. near = query.nearest \/ Improves(near)
    <3>1. /\ query.d[v] \in Nat /\ query.d[acc.nearest] \in Nat /\ query.d[query.nearest] \in Nat
          /\ acc.nearest = query.nearest \/ Improves(acc.nearest)
      BY DistIs DEF Asked, Looking, OnLevel, Stand
    <3>2. CASE near = acc.nearest BY <3>1, <3>2
    <3>3. CASE near = v /\ (query.d[v] < query.d[acc.nearest] \/ ~Passes(acc.nearest))
      BY <1>2, <3>1, <3>3 DEF Improves
    <3> QED BY <2>1, <3>2, <3>3
  <2> QED BY <2>2, <2>4, <2>5, <2>6 DEF Looking
<1> QED BY <1>1, <1>2

LEMMA LookAllIs ==
  ASSUME Asked, NEW acc, Looking(acc), NEW s \in Seq(Points), \A x \in ToSet(s) : OnLevel(x)
  PROVE  Looking(Fold(Look, acc, s))
<1>1. PICK n : n = Len(s) /\ n \in Nat /\ DOMAIN s = 1 .. n
  BY LenProperties
<1>2. \A i \in 1 .. n : OnLevel(s[i])
  BY <1>1 DEF ToSet
<1>3. PICK f : LookRun(f, acc, s, n) /\ Fold(Look, acc, s) = f[n]
  <2>1. \E f : LookRun(f, acc, s, Len(s)) /\ Fold(Look, acc, s) = f[Len(s)]
    <3>1. Len(s) \in Nat BY <1>1
    <3> QED BY <3>1, LookSteps
  <2> QED BY <1>1, <2>1
<1>4. f[0] = acc /\ \A i \in 1 .. n : f[i] = Look(f[i - 1], s[i])
  BY <1>3 DEF LookRun
<1> DEFINE P == {i \in 0 .. n : Looking(f[i])}
<1>5. 0 \in P BY <1>1, <1>4
<1>6. ASSUME NEW i \in 1 .. n, i - 1 \in P PROVE i \in P
  <2>1. PICK was, v : was = f[i - 1] /\ v = s[i] OBVIOUS
  <2>2. Looking(was) /\ OnLevel(v) BY <1>2, <1>6, <2>1
  <2>3. Looking(Look(was, v)) BY <2>2, LookIs, Zenon
  <2>4. f[i] = Look(was, v) /\ i \in 0 .. n BY <1>1, <1>4, <2>1
  <2> QED BY <2>3, <2>4
<1>7. n \in P
  <2>1. n \in 0 .. n BY <1>1
  <2> HIDE DEF P
  <2> QED BY <1>1, <1>5, <1>6, <2>1, Along
<1> QED BY <1>3, <1>7

LEMMA LookBeyondIs ==
  ASSUME LInv, Built, fault = "none", Asked, query.level \in Nat,
         NEW acc, Looking(acc), NEW v, OnLevel(v)
  PROVE  Looking(LookBeyond(acc, v))
<1>1. PICK new, looked, list, beyond :
        /\ new = LookBeyond(acc, v) /\ looked = Look(acc, v)
        /\ list = Links(neighbors, v, query.level) /\ beyond = Fold(Look, looked, list)
  OBVIOUS
<1>2. Looking(looked) BY <1>1, LookIs, Zenon
<1>3. Looking(beyond)
  <2>1. v \in Points /\ Levels[v] > query.level BY DEF OnLevel
  <2>2. list \in Seq(Points) /\ \A x \in ToSet(list) : x \in Points /\ Levels[x] > query.level
    BY <1>1, <2>1, BuiltLists
  <2>3. \A x \in ToSet(list) : OnLevel(x) BY <2>2 DEF OnLevel
  <2> QED BY <1>1, <1>2, <2>2, <2>3, LookAllIs
<1>4. new = looked \/ new = [beyond EXCEPT !.stop = FALSE]
  BY <1>1 DEF LookBeyond
<1>5. ASSUME new = [beyond EXCEPT !.stop = FALSE] PROVE Looking(new)
  <2>1. beyond = [f \in LookFields |-> beyond[f]] BY <1>3 DEF Looking
  <2>2. new = [f \in LookFields |-> new[f]] /\ new.nearest = beyond.nearest
    BY <1>5, <2>1 DEF LookFields
  <2> QED BY <1>3, <2>2 DEF Looking
<1> QED BY <1>1, <1>2, <1>4, <1>5

LEMMA LookBeyondOn ==
  \A acc, v : /\ LInv /\ Built /\ fault = "none" /\ Asked /\ query.level \in Nat
              /\ Looking(acc) /\ OnLevel(v)
              => Looking(LookBeyond(acc, v))
BY LookBeyondIs

LEMMA LookBeyondAllIs ==
  ASSUME LInv, Built, fault = "none", Asked, query.level \in Nat,
         NEW acc, Looking(acc), NEW s \in Seq(Points), \A x \in ToSet(s) : OnLevel(x)
  PROVE  Looking(Fold(LookBeyond, acc, s))
<1>1. PICK n : n = Len(s) /\ n \in Nat /\ DOMAIN s = 1 .. n
  BY LenProperties
<1>2. \A i \in 1 .. n : OnLevel(s[i])
  BY <1>1 DEF ToSet
<1>3. PICK f : LookBeyondRun(f, acc, s, n) /\ Fold(LookBeyond, acc, s) = f[n]
  <2>1. \E f : LookBeyondRun(f, acc, s, Len(s)) /\ Fold(LookBeyond, acc, s) = f[Len(s)]
    <3>1. Len(s) \in Nat BY <1>1
    <3> QED BY <3>1, LookBeyondSteps
  <2> QED BY <1>1, <2>1
<1>4. f[0] = acc /\ \A i \in 1 .. n : f[i] = LookBeyond(f[i - 1], s[i])
  BY <1>3 DEF LookBeyondRun
<1> DEFINE P == {i \in 0 .. n : Looking(f[i])}
<1>5. 0 \in P BY <1>1, <1>4
<1>6. ASSUME NEW i \in 1 .. n, i - 1 \in P PROVE i \in P
  <2>1. PICK was, v : was = f[i - 1] /\ v = s[i] OBVIOUS
  <2>2. Looking(was) /\ OnLevel(v) BY <1>2, <1>6, <2>1
  <2>3. Looking(LookBeyond(was, v)) BY <2>2, LookBeyondOn, Zenon
  <2>4. f[i] = LookBeyond(was, v) /\ i \in 0 .. n BY <1>1, <1>4, <2>1
  <2> QED BY <2>3, <2>4
<1>7. n \in P
  <2>1. n \in 0 .. n BY <1>1
  <2> HIDE DEF P
  <2> QED BY <1>1, <1>5, <1>6, <2>1, Along
<1> QED BY <1>3, <1>7
-----------------------------------------------------------------------------
\* The lists of the vectors a search has taken hold what it has seen.
Looked(q) == \A v \in q.taken : \A x \in ToSet(Links(neighbors, v, 0)) : x \in q.seen

\* what an exhaustive search answers
AllThatPass ==
  query.found = Closest(query.d, {query.nearest} \union (Reached \intersect query.filter), query.k)

Searched ==
  /\ query.mode = "greedy" => query.taken = {} /\ query.lost = 0 /\ query.nvalid = 0
  /\ query.mode = "search" =>
       /\ Counted(query) /\ Answers(query) /\ query.nearest \in query.seen
       /\ Exhaustive => Complete(query) /\ Looked(query)
  /\ query.mode = "done" => Answers(query) /\ (Exhaustive => AllThatPass)

\* Once a query is asked, the index is built, and no memory was damaged.
Underway ==
  /\ Built /\ fault = "none" /\ Asked
  /\ query.mode \in {"greedy", "search", "done"}
  /\ query.level \in Nat /\ Stand(query.nearest)

SearchInv == query = NoQuery \/ (Underway /\ Searched)

LEMMA NoAnswerYet == NoQuery.mode = "none"
BY DEF NoQuery

\* Nothing is added to a built index: a query reads it as it is.
LEMMA BuiltStays == Built /\ fault = "none" /\ LInv => ~AddStep
<1> SUFFICES ASSUME Built, fault = "none", LInv, AddStep PROVE FALSE
  OBVIOUS
<1>1. call = Len(CallEnds) /\ ptLevel = 0 /\ todo = {} /\ \A t \in Threads : th[t].pc = "idle"
  BY DEF Built, AtBarrier
<1>2. ~NextCall BY <1>1, Ends DEF NextCall
<1>3. ~NextLevel BY <1>1 DEF NextLevel
<1>4. \A t \in Threads : ~Link(t)
  BY <1>1 DEF Link, Start, Greedy, Expand, LinkOwn, LinkBack, Down, RaiseLevel, RaisePoint
<1> QED BY <1>1, <1>2, <1>3, <1>4 DEF AddStep

\* What a step of a query leaves as it is.
LEMMA IndexStays ==
  ASSUME UNCHANGED vars
  PROVE  /\ Built' = Built /\ fault' = fault /\ entryPoint' = entryPoint
         /\ \A v : (Links(neighbors, v, 0))' = Links(neighbors, v, 0)
         /\ query'.nearest = query.nearest => Reached' = Reached
<1>1. Built' = Built BY DEF Built, AtBarrier, vars
<1>2. \A v : (Links(neighbors, v, 0))' = Links(neighbors, v, 0)
  BY DEF Links, ListOf, NbNeighbors, Begin, End, vars
<1>3. query'.nearest = query.nearest => Reached' = Reached
  BY DEF Reached, Reach, Links, ListOf, NbNeighbors, Begin, End, vars
<1> QED BY <1>1, <1>2, <1>3 DEF vars

\* The query of the next state, when nothing but the mode and what was found
\* along the way differs.
LEMMA QueryIs ==
  ASSUME UNCHANGED vars, NEW q, Alike(q), query' = q
  PROVE  /\ Asked => Asked'
         /\ Exhaustive' = Exhaustive
         /\ Reached' = Reached
         /\ query'.mode = query.mode /\ query'.level = query.level /\ query'.nearest = query.nearest
         /\ query'.filter = query.filter /\ query'.k = query.k /\ query'.d = query.d
<1>1. /\ query'.mode = query.mode /\ query'.level = query.level /\ query'.nearest = query.nearest
      /\ query'.filter = query.filter /\ query'.k = query.k /\ query'.d = query.d
      /\ query'.bfs = query.bfs /\ query'.ef = query.ef /\ query' = [f \in QueryFields |-> query'[f]]
  BY DEF Alike
<1>2. Asked => Asked' BY <1>1 DEF Asked
<1>3. Exhaustive' = Exhaustive BY <1>1 DEF Exhaustive
<1> QED BY <1>1, <1>2, <1>3, IndexStays
-----------------------------------------------------------------------------
LEMMA InitSearch == SearchInit => SearchInv
BY DEF SearchInit, SearchInv

\* A query starts at the entry point, which is of the top level at a barrier.
LEMMA AskSearch == ASSUME LInv, Ask PROVE SearchInv'
<1>1. PICK d \in QueryDist, filter \in Filters, size \in Sizes, bfs \in BOOLEAN :
        query' = [mode |-> "greedy", d |-> d, filter |-> filter, ef |-> size[1], k |-> size[2],
                  bfs |-> bfs, nearest |-> entryPoint, level |-> maxLevel,
                  heap |-> {}, taken |-> {}, nvalid |-> 0, lost |-> 0, seen |-> {}, found |-> {}]
  BY DEF Ask
<1>2. PICK ef, k : ef = size[1] /\ k = size[2] OBVIOUS
<1>3. ef \in Nat \ {0} /\ k \in Nat \ {0} BY <1>2, SearchAssumption
<1>4. Built /\ fault = "none" /\ UNCHANGED vars BY DEF Ask
<1>5. call > 0 /\ AtBarrier BY <1>4, Ends DEF Built
<1>6. maxLevel = TopOf(Added) /\ Levels[entryPoint] = maxLevel + 1
  BY <1>4, <1>5, AtTop DEF LInv, EntryAtTop
<1>7. entryPoint \in Points /\ maxLevel \in Nat
  <2>1. \A t \in Threads : ~Active(t) BY <1>5 DEF AtBarrier, Active
  <2>2. entryPoint # NoPoint
    <3> SUFFICES ASSUME entryPoint = NoPoint PROVE FALSE OBVIOUS
    <3>1. Added = {} BY <1>4 DEF LInv, Inv, TopLevel
    <3>2. 0 \in Added
      <4>1. call \in 1 .. Len(CallEnds) /\ call = Len(CallEnds) /\ todo = {} /\ ptLevel = 0
        BY <1>4, <1>5, Ends DEF Built, AtBarrier
      <4>2. NumPoints = CallEnds[call] /\ NumPoints \in Nat \ {0} BY <4>1, Ends DEF NumPoints
      <4>3. 0 \in Points /\ 0 < CallEnds[call] BY <4>2 DEF Points
      <4>4. Levels[0] > 0 BY <4>3, Calls
      <4> QED BY <4>1, <4>3, <4>4, <1>5 DEF Added
    <3> QED BY <3>1, <3>2
  <2>3. entryPoint \in Points BY <2>2 DEF LInv, Inv, Types
  <2>4. Levels[entryPoint] \in Nat \ {0} /\ maxLevel \in Int BY <2>3, Calls DEF LInv, Inv, Types
  <2> QED BY <1>6, <2>3, <2>4
<1>8. PICK q : q = query' OBVIOUS
<1>9. /\ q = [f \in QueryFields |-> q[f]] /\ q.mode = "greedy" /\ q.d = d /\ q.filter = filter
      /\ q.ef = ef /\ q.k = k /\ q.bfs = bfs /\ q.nearest = entryPoint /\ q.level = maxLevel
      /\ q.taken = {} /\ q.lost = 0 /\ q.nvalid = 0
  BY <1>1, <1>2, <1>8 DEF QueryFields
<1>10. Asked' BY <1>3, <1>7, <1>8, <1>9 DEF Asked
<1>11. (Stand(query.nearest))'
  <2>1. Levels[entryPoint] > maxLevel BY <1>6, <1>7
  <2> QED BY <1>4, <1>7, <1>8, <1>9, <2>1 DEF Stand, vars
<1>12. Underway' BY <1>4, <1>7, <1>8, <1>9, <1>10, <1>11, IndexStays DEF Underway
<1>13. Searched' BY <1>8, <1>9 DEF Searched
<1> QED BY <1>12, <1>13 DEF SearchInv
-----------------------------------------------------------------------------
LEMMA GreedySearch ==
  ASSUME LInv, Underway, Searched, GreedyFiltered PROVE Underway' /\ Searched' /\ Onward
<1>1. /\ query.mode = "greedy" /\ query.level >= 1 /\ UNCHANGED vars
      /\ Built /\ fault = "none" /\ Asked /\ query.level \in Nat /\ Stand(query.nearest)
  BY DEF GreedyFiltered, Underway
<1>2. PICK list, first : /\ list = Links(neighbors, query.nearest, query.level)
                         /\ first = [nearest |-> query.nearest, num |-> 0, stop |-> FALSE]
  OBVIOUS
<1>3. PICK best : best = Fold(LookBeyond, first, list).nearest
  OBVIOUS
<1>4. query' = IF best # query.nearest THEN [query EXCEPT !.nearest = best]
               ELSE [query EXCEPT !.level = query.level - 1]
  BY <1>2, <1>3 DEF GreedyFiltered
<1>5. Stand(best) /\ (best = query.nearest \/ Improves(best))
  <2>1. Looking(first)
    <3>1. first = [f \in LookFields |-> first[f]] /\ first.nearest = query.nearest
      BY <1>2 DEF LookFields
    <3> QED BY <1>1, <3>1 DEF Looking
  <2>2. list \in Seq(Points) /\ \A x \in ToSet(list) : x \in Points /\ Levels[x] > query.level
    BY <1>1, <1>2, BuiltLists DEF Stand
  <2>3. \A x \in ToSet(list) : OnLevel(x) BY <2>2 DEF OnLevel
  <2>4. Looking(Fold(LookBeyond, first, list)) BY <1>1, <2>1, <2>2, <2>3, LookBeyondAllIs
  <2> QED BY <1>3, <2>4 DEF Looking
<1>6. PICK q, nearest, level : q = query' /\ nearest = q.nearest /\ level = q.level
  OBVIOUS
<1>7. /\ q = [f \in QueryFields |-> q[f]] /\ q.mode = "greedy"
      /\ q.d = query.d /\ q.filter = query.filter /\ q.ef = query.ef /\ q.k = query.k /\ q.bfs = query.bfs
      /\ q.taken = query.taken /\ q.lost = query.lost /\ q.nvalid = query.nvalid
      /\ \/ nearest = best /\ level = query.level
         \/ nearest = query.nearest /\ level = query.level - 1
  <2>1. query = [f \in QueryFields |-> query[f]] BY <1>1 DEF Asked
  <2>2. CASE best # query.nearest
    <3>1. q = [query EXCEPT !.nearest = best] BY <1>4, <1>6, <2>2
    <3> QED BY <1>1, <1>6, <2>1, <3>1 DEF QueryFields
  <2>3. CASE best = query.nearest
    <3>1. PICK lower : lower = query.level - 1 OBVIOUS
    <3>2. q = [query EXCEPT !.level = lower] BY <1>4, <1>6, <2>3, <3>1
    <3> QED BY <1>1, <1>6, <2>1, <3>1, <3>2 DEF QueryFields
  <2> QED BY <2>2, <2>3
<1>8. /\ nearest \in Points /\ level \in Nat /\ Levels[nearest] > level
      /\ nearest \in query.filter \/ nearest = entryPoint
  <2>1. \A x \in Points : Levels[x] \in Nat BY Calls
  <2> QED BY <1>1, <1>5, <1>7, <2>1 DEF Stand
<1>9. Asked' BY <1>1, <1>6, <1>7, <1>8 DEF Asked
<1>10. (Stand(query.nearest))' BY <1>1, <1>6, <1>7, <1>8 DEF Stand, vars
<1>11. Underway' BY <1>1, <1>6, <1>7, <1>8, <1>9, <1>10, IndexStays DEF Underway
<1>12. Searched' BY <1>1, <1>6, <1>7 DEF Searched
<1>13. Onward
  <2>1. CASE nearest = best /\ level = query.level /\ best # query.nearest
    <3>1. Improves(best) BY <1>5, <2>1
    <3> QED BY <1>1, <1>6, <1>7, <2>1, <3>1 DEF Onward, Improves, Passes
  <2>2. CASE nearest = query.nearest /\ level = query.level - 1
    <3>1. level \in 0 .. query.level - 1 BY <1>8, <2>2
    <3> QED BY <1>1, <1>6, <1>7, <2>2, <3>1 DEF Onward
  <2>3. ~(best = query.nearest /\ level = query.level)
    <3> SUFFICES ASSUME best = query.nearest, level = query.level PROVE FALSE
      OBVIOUS
    <3>1. PICK lower : lower = query.level - 1 OBVIOUS
    <3>2. q = [query EXCEPT !.level = lower] BY <1>4, <1>6, <3>1
    <3>3. query = [f \in QueryFields |-> query[f]] BY <1>1 DEF Asked
    <3>4. q.level = lower BY <3>2, <3>3 DEF QueryFields
    <3>5. query.level # query.level - 1
      <4>1. query.level \in Nat BY <1>1
      <4> QED BY <4>1
    <3>6. level = lower BY <1>6, <3>4
    <3> QED BY <3>1, <3>5, <3>6
  <2> QED BY <1>7, <2>1, <2>2, <2>3
<1> QED BY <1>11, <1>12, <1>13

\* One vector is the closest of one.
LEMMA ClosestOne ==
  ASSUME NEW d, NEW x \in Points, d[x] \in Nat, NEW n \in Nat \ {0}
  PROVE  Closest(d, {x}, n) = {x}
<1>1. {y \in {x} : d[y] < d[x]} = {}
  OBVIOUS
<1>2. Cardinality({y \in {x} : d[y] < d[x]}) = 0
  BY <1>1, FS_EmptySet
<1> QED BY <1>2 DEF Closest

\* The first candidate of the base level is all it has seen.
LEMMA BottomSearch ==
  ASSUME LInv, Underway, Searched, Bottom PROVE Underway' /\ Searched' /\ Onward
<1>1. /\ query.mode = "greedy" /\ query.level = 0 /\ UNCHANGED vars
      /\ Built /\ fault = "none" /\ Asked /\ Stand(query.nearest)
      /\ query.taken = {} /\ query.lost = 0
  BY DEF Bottom, Underway, Searched
<1>2. PICK n : n = query.nearest
  OBVIOUS
<1>3. PICK q : q = query'
  OBVIOUS
<1>4. /\ q = [f \in QueryFields |-> q[f]] /\ q.mode = "search"
      /\ q.d = query.d /\ q.filter = query.filter /\ q.ef = query.ef /\ q.k = query.k /\ q.bfs = query.bfs
      /\ q.nearest = n /\ q.level = 0 /\ q.heap = {n} /\ q.nvalid = 1 /\ q.seen = {n} /\ q.found = {n}
      /\ q.taken = {} /\ q.lost = 0
  <2>1. query = [f \in QueryFields |-> query[f]] BY <1>1 DEF Asked
  <2>2. q = [query EXCEPT !.mode = "search", !.heap = {n}, !.nvalid = 1, !.seen = {n}, !.found = {n}]
    BY <1>2, <1>3 DEF Bottom
  <2> QED BY <1>1, <1>2, <2>1, <2>2 DEF QueryFields
<1>5. n \in Points /\ (n \in query.filter \/ n = entryPoint) /\ Levels[n] > 0
  BY <1>1, <1>2 DEF Stand
<1>6. Asked' BY <1>1, <1>3, <1>4, <1>5 DEF Asked
<1>7. (Stand(query.nearest))' BY <1>1, <1>3, <1>4, <1>5 DEF Stand, vars
<1>8. Underway' BY <1>1, <1>3, <1>4, <1>6, <1>7, IndexStays DEF Underway
<1>9. Counted(q)
  <2>1. Cardinality({n}) = 1 BY FS_Singleton
  <2>2. q.heap \ q.taken = {n} BY <1>4
  <2>3. q.nvalid + q.lost = Cardinality(q.heap \ q.taken) BY <1>4, <2>1, <2>2
  <2>4. q.taken \subseteq q.heap /\ q.heap \subseteq q.seen /\ q.seen \subseteq Points BY <1>4, <1>5
  <2> QED BY <1>4, <2>3, <2>4 DEF Counted
<1>10. (Counted(query))' BY <1>3, <1>9 DEF Counted
<1>11. (Answers(query))' BY <1>1, <1>3, <1>4, <1>5 DEF Answers, vars
<1>12. (Complete(query))'
  <2>1. n \in Reached /\ Reached' = Reached BY <1>1, <1>2, <1>3, <1>4, <1>5, ReachedIs, IndexStays
  <2>2. {n} \union ({n} \intersect query.filter) = {n} OBVIOUS
  <2>3. Closest(query.d, {n}, query.k) = {n}
    <3>1. query.d[n] \in Nat /\ query.k \in Nat \ {0} BY <1>1, <1>5, DistIs DEF Asked
    <3> QED BY <1>5, <3>1, ClosestOne
  <2>4. q.found = Closest(q.d, {q.nearest} \union (q.seen \intersect q.filter), q.k)
    BY <1>4, <2>2, <2>3
  <2>5. query'.found = Closest(query'.d, {query'.nearest} \union (query'.seen \intersect query'.filter), query'.k)
    BY <1>3, <2>4
  <2>6. query'.lost = 0 /\ (\A x : x \in query'.heap <=> x \in query'.seen) /\ (\A x \in query'.seen : x \in Reached')
    BY <1>3, <1>4, <2>1
  <2> QED BY <2>5, <2>6 DEF Complete, Closest
<1>13. (Looked(query))' BY <1>3, <1>4 DEF Looked
<1>14. Searched' BY <1>3, <1>4, <1>10, <1>11, <1>12, <1>13 DEF Searched
<1>15. Onward BY <1>1, <1>3, <1>4 DEF Onward
<1> QED BY <1>8, <1>14, <1>15
-----------------------------------------------------------------------------
\* A vector handed out by pop_min: one candidate less.
LEMMA PopIs ==
  ASSUME Asked, Counted(query), query.nvalid > 0, NEW v \in query.heap \ query.taken,
         NEW q, q = [query EXCEPT !.taken = query.taken \union {v}, !.nvalid = query.nvalid - 1]
  PROVE  /\ Alike(q) /\ Counted(q)
         /\ q.taken = query.taken \union {v} /\ q.lost = query.lost
         /\ q.heap = query.heap /\ q.seen = query.seen /\ q.found = query.found
<1>1. PICK heap, taken, seen, nvalid, lost :
        /\ heap = query.heap /\ taken = query.taken /\ seen = query.seen
        /\ nvalid = query.nvalid /\ lost = query.lost
  OBVIOUS
<1>2. PICK more, less : more = taken \union {v} /\ less = nvalid - 1
  OBVIOUS
<1>3. /\ q = [f \in QueryFields |-> q[f]]
      /\ q.d = query.d /\ q.filter = query.filter /\ q.ef = query.ef /\ q.k = query.k /\ q.bfs = query.bfs
      /\ q.nearest = query.nearest /\ q.mode = query.mode /\ q.level = query.level
      /\ q.taken = more /\ q.nvalid = less
      /\ q.lost = lost /\ q.heap = heap /\ q.seen = seen /\ q.found = query.found
  <2>1. query = [f \in QueryFields |-> query[f]] BY DEF Asked
  <2>2. q = [query EXCEPT !.taken = more, !.nvalid = less] BY <1>1, <1>2
  <2> QED BY <1>1, <2>1, <2>2 DEF QueryFields
<1>4. /\ taken \subseteq heap /\ heap \subseteq seen /\ seen \subseteq Points
      /\ nvalid \in Nat /\ nvalid > 0 /\ lost \in Nat /\ nvalid + lost = Cardinality(heap \ taken)
      /\ v \in heap \ taken
  BY <1>1 DEF Counted
<1>5. PICK open : open = heap \ taken
  OBVIOUS
<1>6. open \subseteq Points /\ v \in open /\ v \in Points /\ heap \ more = open \ {v}
  BY <1>2, <1>4, <1>5
<1>7. Cardinality(open \ {v}) = Cardinality(open) - 1 /\ Cardinality(open) \in Nat
  BY <1>6, OneMoreIs
<1>8. less \in Nat /\ less + lost = Cardinality(heap \ more)
  <2>1. Cardinality(heap \ more) = Cardinality(open) - 1 BY <1>6, <1>7
  <2>2. nvalid + lost = Cardinality(open) BY <1>4, <1>5
  <2> QED BY <1>2, <1>4, <1>7, <2>1, <2>2
<1>9. more \subseteq heap BY <1>2, <1>4
<1>10. Counted(q) BY <1>3, <1>4, <1>8, <1>9 DEF Counted
<1>11. Alike(q) BY <1>3 DEF Alike
<1> QED BY <1>1, <1>2, <1>3, <1>10, <1>11

\* A search with room for all vectors never has enough that are nearer.
LEMMA NeverEnough ==
  ASSUME Asked, Counted(query), Exhaustive, NEW v \in query.heap
  PROVE  ~(CountBelow(v) >= query.ef)
<1>1. PICK S, H : S = {x \in query.heap : query.d[x] < query.d[v]} /\ H = query.heap
  OBVIOUS
<1>2. H \subseteq Points /\ v \in Points /\ v \in H BY <1>1 DEF Counted
<1>3. S \subseteq H \ {v}
  <2>1. query.d[v] \in Nat BY <1>2, DistIs
  <2> QED BY <1>1, <2>1
<1>4. Cardinality(S) <= Cardinality(H \ {v}) BY <1>2, <1>3, FewerBelow
<1>5. Cardinality(H \ {v}) = Cardinality(H) - 1 /\ Cardinality(H) \in Nat /\ Cardinality(S) \in Nat
  BY <1>2, <1>3, OneMoreIs
<1>6. Cardinality(H) <= Cardinality(Points) BY <1>2, FewerBelow
<1>7. query.ef >= NumPoints /\ query.ef \in Nat BY DEF Exhaustive, Asked
<1> QED BY <1>1, <1>4, <1>5, <1>6, <1>7, PointsAre DEF CountBelow

\* A query that has walked on from where it was.
LEMMA WalkedOn ==
  ASSUME LInv, Underway, Searched, UNCHANGED vars, query.mode = "search",
         NEW r, query' = r, Alike(r), Counted(r), Answers(r), \A x \in query.seen : x \in r.seen,
         Exhaustive => Complete(r) /\ Looked(r)
  PROVE  Underway' /\ Searched'
<1>1. Built /\ fault = "none" /\ Asked /\ query.level \in Nat /\ Stand(query.nearest)
  BY DEF Underway
<1>2. /\ Asked' /\ Exhaustive' = Exhaustive /\ Reached' = Reached
      /\ query'.mode = "search" /\ query'.level = query.level /\ query'.nearest = query.nearest
      /\ query'.filter = query.filter /\ query'.k = query.k /\ query'.d = query.d
  BY <1>1, QueryIs
<1>3. (Stand(query.nearest))' BY <1>1, <1>2 DEF Stand, vars
<1>4. Underway' BY <1>1, <1>2, <1>3, IndexStays DEF Underway
<1>5. (Counted(query))' BY DEF Counted
<1>6. (Answers(query))' BY <1>2 DEF Answers, vars
<1>7. query'.nearest \in query'.seen BY <1>2 DEF Searched
<1>8. ASSUME Exhaustive PROVE (Complete(query) /\ Looked(query))'
  <2>1. Complete(r) /\ Looked(r) BY <1>8
  <2>2. (Complete(query))' BY <1>2, <2>1 DEF Complete, Closest
  <2>3. (Looked(query))' BY <2>1, IndexStays DEF Looked
  <2> QED BY <2>2, <2>3
<1>9. Searched' BY <1>2, <1>5, <1>6, <1>7, <1>8 DEF Searched
<1> QED BY <1>4, <1>9

\* A query that ends with what it has found.
LEMMA EndsWith ==
  ASSUME LInv, Underway, Searched, UNCHANGED vars, query.mode = "search",
         NEW q, Alike(q), q.found = query.found, query' = [q EXCEPT !.mode = "done"],
         Exhaustive => AllThatPass
  PROVE  Underway' /\ Searched' /\ Onward
<1>1. Built /\ fault = "none" /\ Asked /\ query.level \in Nat /\ Stand(query.nearest) /\ Answers(query)
  BY DEF Underway, Searched
<1>2. PICK r : r = query' OBVIOUS
<1>3. /\ r = [f \in QueryFields |-> r[f]] /\ r.mode = "done"
      /\ r.d = query.d /\ r.filter = query.filter /\ r.ef = query.ef /\ r.k = query.k /\ r.bfs = query.bfs
      /\ r.nearest = query.nearest /\ r.level = query.level /\ r.found = query.found
  BY <1>2 DEF Alike, QueryFields
<1>4. Asked' BY <1>1, <1>2, <1>3 DEF Asked
<1>5. (Stand(query.nearest))' BY <1>1, <1>2, <1>3 DEF Stand, vars
<1>6. Underway' BY <1>1, <1>2, <1>3, <1>4, <1>5, IndexStays DEF Underway
<1>7. (Answers(query))' BY <1>1, <1>2, <1>3 DEF Answers, vars
<1>8. Exhaustive' = Exhaustive BY <1>2, <1>3 DEF Exhaustive
<1>9. Reached' = Reached BY <1>2, <1>3, IndexStays
<1>10. Exhaustive => AllThatPass' BY <1>2, <1>3, <1>9 DEF AllThatPass, Closest
<1>11. Searched' BY <1>2, <1>3, <1>7, <1>8, <1>10 DEF Searched
<1>12. Onward BY <1>2, <1>3 DEF Onward
<1> QED BY <1>6, <1>11, <1>12
-----------------------------------------------------------------------------
\* One round: the nearest candidate is handed out and its list walked.
LEMMA HybridSearch ==
  ASSUME LInv, Underway, Searched, Hybrid PROVE Underway' /\ Searched' /\ Onward
<1>0. PICK v \in PopMin :
        LET q == [query EXCEPT !.taken = query.taken \union {v}, !.nvalid = query.nvalid - 1]
        IN query' = IF CountBelow(v) >= query.ef THEN [q EXCEPT !.mode = "done"]
                    ELSE Fold(HopBeyond, [q |-> q, num |-> 0, stop |-> FALSE, keep |-> TRUE, at |-> 0],
                              Links(neighbors, v, 0)).q
  BY DEF Hybrid
<1>1. PICK q, r :
        /\ q = [query EXCEPT !.taken = query.taken \union {v}, !.nvalid = query.nvalid - 1]
        /\ r = Fold(HopBeyond, [q |-> q, num |-> 0, stop |-> FALSE, keep |-> TRUE, at |-> 0],
                    Links(neighbors, v, 0))
        /\ query' = IF CountBelow(v) >= query.ef THEN [q EXCEPT !.mode = "done"] ELSE r.q
  BY <1>0
<1>2. /\ query.mode = "search" /\ UNCHANGED vars
      /\ Built /\ fault = "none" /\ Asked
      /\ Counted(query) /\ Answers(query)
      /\ Exhaustive => Complete(query) /\ Looked(query)
  BY DEF Hybrid, Underway, Searched
<1>3. v \in query.heap \ query.taken /\ query.nvalid > 0
  BY DEF PopMin
<1>4. /\ Alike(q) /\ Counted(q)
      /\ q.taken = query.taken \union {v} /\ q.lost = query.lost
      /\ q.heap = query.heap /\ q.seen = query.seen /\ q.found = query.found
  BY <1>1, <1>2, <1>3, PopIs
<1>5. CASE CountBelow(v) >= query.ef
  <2>1. ~Exhaustive BY <1>2, <1>3, <1>5, NeverEnough
  <2> QED BY <1>1, <1>2, <1>4, <1>5, <2>1, EndsWith
<1>6. CASE ~(CountBelow(v) >= query.ef)
  <2>1. PICK first : first = [q |-> q, num |-> 0, stop |-> FALSE, keep |-> TRUE, at |-> 0]
    OBVIOUS
  <2>2. PICK list : list = Links(neighbors, v, 0)
    OBVIOUS
  <2>3. first = [f \in HopFields |-> first[f]] /\ first.q = q /\ first.num = 0 /\ first.stop = FALSE
    BY <2>1 DEF HopFields
  <2>4. Answers(q) BY <1>2, <1>4 DEF Answers
  <2>5. Exhaustive => Complete(q) BY <1>2, <1>4 DEF Complete
  <2>6. Exhaustive => 0 <= Cardinality(q.seen \intersect query.filter)
    <3>1. q.seen \subseteq Points BY <1>4 DEF Counted
    <3> QED BY <1>2, <3>1, FewPass
  <2>7. Hopping(first)
    <3>1. Alike(first.q) /\ Counted(first.q) /\ Answers(first.q) BY <1>4, <2>3, <2>4
    <3>2. Exhaustive => Complete(first.q) /\ ~first.stop BY <2>3, <2>5
    <3>3. Exhaustive => first.num <= Cardinality(first.q.seen \intersect query.filter) BY <2>3, <2>6
    <3>4. first.num \in Nat BY <2>3
    <3>5. first.stop \in BOOLEAN BY <2>3, Zenon
    <3> QED BY <2>3, <3>1, <3>2, <3>3, <3>4, <3>5 DEF Hopping
  <2>8. v \in Points /\ v \in query.seen BY <1>2, <1>3 DEF Counted
  <2>9. list \in Seq(Points)
    <3>1. Levels[v] > 0 BY <2>8, Calls
    <3> QED BY <1>2, <2>2, <2>8, <3>1, BuiltLists
  <2>10. \A x \in ToSet(list) : Exhaustive => x \in Reached
    <3> SUFFICES ASSUME NEW x \in ToSet(list), Exhaustive PROVE x \in Reached
      OBVIOUS
    <3>1. v \in Reached BY <1>2, <2>8 DEF Complete
    <3>2. query.nearest \in Points BY <1>2 DEF Asked
    <3> QED BY <1>2, <2>2, <3>1, <3>2, ReachedIs
  <2>11. /\ Hopping(r) /\ Further(r, first)
         /\ Exhaustive => \A x \in ToSet(list) : x \in r.q.seen
    <3>1. r = Fold(HopBeyond, first, list) BY <1>1, <2>1, <2>2
    <3>2. /\ Hopping(Fold(HopBeyond, first, list)) /\ Further(Fold(HopBeyond, first, list), first)
          /\ Exhaustive => \A x \in ToSet(list) : x \in Fold(HopBeyond, first, list).q.seen
      BY <1>2, <2>7, <2>9, <2>10, HopBeyondAllIs
    <3> QED BY <3>1, <3>2
  <2>12. /\ query' = r.q /\ Alike(r.q) /\ Counted(r.q) /\ Answers(r.q)
         /\ \A x \in query.seen : x \in r.q.seen
    BY <1>1, <1>4, <1>6, <2>3, <2>11 DEF Hopping, Further
  <2>13. ASSUME Exhaustive PROVE Complete(r.q) /\ Looked(r.q)
    <3>1. Complete(r.q) /\ r.q.taken = q.taken BY <2>3, <2>11, <2>13 DEF Hopping, Further
    <3>2. ASSUME NEW x \in r.q.taken, NEW y \in ToSet(Links(neighbors, x, 0)) PROVE y \in r.q.seen
      <4>1. CASE x = v BY <2>2, <2>11, <2>13, <3>2, <4>1
      <4>2. CASE x \in query.taken
        <5>1. y \in query.seen BY <1>2, <2>13, <3>2, <4>2 DEF Looked
        <5> QED BY <2>12, <5>1
      <4> QED BY <1>4, <3>1, <3>2, <4>1, <4>2
    <3> QED BY <3>1, <3>2 DEF Looked
  <2>14. Onward
    <3>1. q.nvalid = query.nvalid - 1
      <4>1. query = [f \in QueryFields |-> query[f]] BY <1>2 DEF Asked
      <4> QED BY <1>1, <4>1 DEF QueryFields
    <3>2. ASSUME r.q.seen = query.seen PROVE r.q.nvalid = q.nvalid
      BY <1>4, <2>3, <2>11, <3>2 DEF Further
    <3>3. query.seen \subseteq query'.seen BY <2>12
    <3>4. query'.seen = query.seen => query'.nvalid = query.nvalid - 1 BY <2>12, <3>1, <3>2
    <3>5. query'.mode = "search" BY <1>2, <2>12 DEF Alike
    <3> QED BY <1>2, <3>3, <3>4, <3>5 DEF Onward
  <2> QED BY <1>2, <2>12, <2>13, <2>14, WalkedOn
<1> QED BY <1>5, <1>6

\* The end for want of candidates: an exhaustive search has handed out all it has
\* seen, so the lists of what it has seen lead nowhere else.
LEMMA ExhaustedSearch ==
  ASSUME LInv, Underway, Searched, Exhausted PROVE Underway' /\ Searched' /\ Onward
<1>1. /\ query.mode = "search" /\ query.nvalid = 0 /\ UNCHANGED vars
      /\ query' = [query EXCEPT !.mode = "done"]
      /\ Built /\ fault = "none" /\ Asked
      /\ Counted(query) /\ query.nearest \in query.seen
      /\ Exhaustive => Complete(query) /\ Looked(query)
  BY DEF Exhausted, Underway, Searched
<1>2. Alike(query) BY <1>1 DEF Alike, Asked
<1>3. ASSUME Exhaustive PROVE AllThatPass
  <2>1. PICK open : open = query.heap \ query.taken OBVIOUS
  <2>2. Cardinality(open) = 0
    <3>1. query.nvalid + query.lost = Cardinality(open) /\ query.lost = 0
      BY <1>1, <1>3, <2>1 DEF Counted, Complete
    <3> QED BY <1>1, <3>1
  <2>3. open = {}
    <3>1. open \subseteq Points BY <1>1, <2>1 DEF Counted
    <3>2. IsFiniteSet(open) BY <3>1, PointsAre, FS_Subset
    <3> QED BY <2>2, <3>2, FS_EmptySet
  <2>4. \A x \in query.seen : x \in query.taken
    BY <1>1, <1>3, <2>1, <2>3 DEF Complete
  <2>5. \A x \in query.seen : \A y \in ToSet(Links(neighbors, x, 0)) : y \in query.seen
    BY <1>1, <1>3, <2>4 DEF Looked
  <2>6. query.seen \subseteq Points /\ query.nearest \in Points BY <1>1 DEF Counted, Asked
  <2>7. Reached \subseteq query.seen BY <1>1, <2>5, <2>6, ReachedIs
  <2>8. \A x \in query.seen : x \in Reached BY <1>1, <1>3 DEF Complete
  <2>9. Reached = query.seen BY <2>7, <2>8
  <2> QED BY <1>1, <1>3, <2>9 DEF Complete, AllThatPass
<1> QED BY <1>1, <1>2, <1>3, EndsWith
-----------------------------------------------------------------------------
QInv == LInv /\ SearchInv

LEMMA InitQuery == SearchInit => QInv
BY InitLinks, InitSearch DEF SearchInit, QInv

LEMMA StepQuery == QInv /\ [SearchNext]_<<vars, query>> => QInv'
<1> SUFFICES ASSUME LInv, SearchInv, [SearchNext]_<<vars, query>> PROVE LInv' /\ SearchInv'
  BY DEF QInv
<1>1. CASE AddOn
  <2>1. LInv' BY <1>1, StepLinks DEF AddOn
  <2>2. query = NoQuery BY <1>1, BuiltStays DEF AddOn, SearchInv, Underway
  <2>3. query' = NoQuery BY <1>1, <2>2 DEF AddOn
  <2> QED BY <2>1, <2>3 DEF SearchInv, NoQuery
<1>2. CASE SearchStep
  <2>1. UNCHANGED vars BY <1>2 DEF SearchStep, Ask, GreedyFiltered, Bottom, Hybrid, Exhausted
  <2>2. LInv' BY <2>1, StepLinks
  <2>3. CASE Ask BY <2>2, <2>3, AskSearch
  <2>4. CASE GreedyFiltered \/ Bottom \/ Hybrid \/ Exhausted
    <3>1. query # NoQuery
      BY <2>4, NoAnswerYet DEF GreedyFiltered, Bottom, Hybrid, Exhausted
    <3>2. Underway /\ Searched BY <3>1 DEF SearchInv
    <3>3. Underway' /\ Searched'
      BY <2>4, <3>2, GreedySearch, BottomSearch, HybridSearch, ExhaustedSearch
    <3> QED BY <2>2, <3>3 DEF SearchInv
  <2> QED BY <1>2, <2>3, <2>4 DEF SearchStep
<1>3. CASE UNCHANGED <<vars, query>>
  <2>1. LInv' BY <1>3, StepLinks
  <2>2. CASE query = NoQuery BY <1>3, <2>1, <2>2 DEF SearchInv, NoQuery
  <2>3. CASE Underway /\ Searched
    <3>1. PICK q : q = query OBVIOUS
    <3>2. Alike(q) /\ query' = q /\ UNCHANGED vars BY <1>3, <2>3, <3>1 DEF Alike, Underway, Asked
    <3>3. /\ Asked' /\ Exhaustive' = Exhaustive /\ Reached' = Reached
      BY <2>3, <3>2, QueryIs DEF Underway
    <3>4. Underway' BY <1>3, <2>3, <3>2, <3>3, IndexStays DEF Underway, Stand
    <3>5. (Looked(query) <=> Looked(query)') BY <1>3, IndexStays DEF Looked
    <3>6. Searched' BY <1>3, <2>3, <3>3, <3>5 DEF Searched, Counted, Answers, Complete, AllThatPass, Closest, vars
    <3> QED BY <2>1, <3>4, <3>6 DEF SearchInv
  <2> QED BY <2>2, <2>3 DEF SearchInv
<1> QED BY <1>1, <1>2, <1>3 DEF SearchNext

\* Whatever changes a query that goes on is a round of it.
LEMMA StepOnward ==
  QInv /\ [SearchNext]_<<vars, query>> => [query.mode \in {"greedy", "search"} => Onward]_query
<1> SUFFICES ASSUME LInv, SearchInv, SearchNext, query.mode \in {"greedy", "search"}, query' # query
             PROVE  Onward
  BY DEF QInv
<1>1. query # NoQuery BY NoAnswerYet
<1>2. Underway /\ Searched BY <1>1 DEF SearchInv
<1>3. CASE AddOn BY <1>3 DEF AddOn
<1>4. CASE SearchStep
  <2>1. ~Ask BY <1>1 DEF Ask
  <2> QED BY <1>2, <1>4, <2>1, GreedySearch, BottomSearch, HybridSearch, ExhaustedSearch DEF SearchStep
<1>5. CASE UNCHANGED <<vars, query>> BY <1>5
<1> QED BY <1>3, <1>4, <1>5 DEF SearchNext

LEMMA QueryCounts == QInv => HeapCounts
<1> SUFFICES ASSUME QInv, query.mode = "search"
             PROVE  query.nvalid >= 0 /\ query.nvalid + query.lost = Cardinality(query.heap \ query.taken)
  BY DEF HeapCounts
<1>1. Counted(query) BY NoAnswerYet DEF QInv, SearchInv, Searched
<1> QED BY <1>1 DEF Counted

LEMMA QueryExact == QInv => FilteredExact
<1> SUFFICES ASSUME QInv, query.mode = "done" PROVE FilteredExact
  BY DEF FilteredExact
<1>1. Answers(query) /\ (Exhaustive => AllThatPass)
  BY NoAnswerYet DEF QInv, SearchInv, Searched
<1> QED BY <1>1 DEF FilteredExact, Answers, Exhaustive, AllThatPass, Reached

\* For every index the threads can build, every query, filter, efSearch and k: what
\* size() of the MinimaxHeap says is the number of candidates not handed out, less
\* the slots of handed out vectors that pushes freed, and never negative.
THEOREM HeapAlwaysCounts == SearchSpec => []HeapCounts
<1>1. SearchSpec => []QInv
  BY InitQuery, StepQuery, PTL DEF SearchSpec
<1> QED BY <1>1, QueryCounts, PTL

\* For every index the threads can build and every query: each round takes the
\* search down a level, to a vector that passes from one that fails or is farther,
\* to a vector not seen before, to one candidate less, or to its end.
THEOREM RoundsAlwaysAdvance == SearchSpec => RoundsAdvance
<1>1. SearchSpec => []QInv
  BY InitQuery, StepQuery, PTL DEF SearchSpec
<1>2. QInv /\ [SearchNext]_<<vars, query>> => [query.mode \in {"greedy", "search"} => Onward]_query
  BY StepOnward
<1> QED BY <1>1, <1>2, PTL DEF SearchSpec, RoundsAdvance

\* For every index the threads can build and every query: an answer that fails the
\* filter is the entry point; and a search that visits vectors that fail, with room
\* in the heap for all and too few that pass to end the loop over a list, answers
\* with the k closest that pass of all the links lead to.
THEOREM FilteredAlwaysExact == SearchSpec => []FilteredExact
<1>1. SearchSpec => []QInv
  BY InitQuery, StepQuery, PTL DEF SearchSpec
<1> QED BY <1>1, QueryExact, PTL
=============================================================================
