------------------------------- MODULE VisitedSet -------------------------------
(***************************************************************************)
(* The visited set of a search (UNG/codes/include/visited_set.h) as a value *)
(* and what its operations make of it: one MarkType counter per vector and  *)
(* a current value. An element is visited when its mark equals the current  *)
(* value, so clearing is one increment; when the 16-bit counter wraps to    *)
(* zero the marks are really zeroed.                                        *)
(***************************************************************************)
EXTENDS Integers

CONSTANTS
  Elements,   \* vector ids below num_elements
  Modulus     \* number of MarkType values, 2^16 in config.h

ASSUME ModulusAssumption == Modulus \in Nat /\ Modulus >= 2

MarkType == 0 .. Modulus - 1

VisitedSets == [curValue : MarkType, marks : [Elements -> MarkType]]

\* init(): the marks are new[] memory, whatever it holds
Initialised(memory) == [curValue |-> Modulus - 1, marks |-> memory]

\* _curValue++ in MarkType's width
Increment(value) == IF value = Modulus - 1 THEN 0 ELSE value + 1

\* (mutant: a wrap keeps the old marks)
ClearedKeepsMarks(vs) == [vs EXCEPT !.curValue = Increment(@)]

Cleared(vs) ==
  LET next == Increment(vs.curValue)
  IN IF next = 0
     THEN [curValue |-> Increment(next), marks |-> [i \in Elements |-> 0]]
     ELSE [vs EXCEPT !.curValue = next]

Marked(vs, i) == [vs EXCEPT !.marks[i] = vs.curValue]

Check(vs, i) == vs.marks[i] = vs.curValue
=============================================================================
