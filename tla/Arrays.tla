-------------------------------- MODULE Arrays --------------------------------
(***************************************************************************)
(* The dynamic arrays of the program: the removal of helpers/array.c, and  *)
(* what the code relies on of the generated arrays of cstd, which is not   *)
(* part of the repository: an insert appends, and makes room first when    *)
(* the array is full.  Indices count from 1.                               *)
(***************************************************************************)
EXTENDS Integers, Sequences, FiniteSets

\* Mutant: the last slot is marked unused but the length is not decremented.
SwapRemoveKeepsLength(s, i) ==
  IF i \in DOMAIN s THEN [s EXCEPT ![i] = s[Len(s)], ![Len(s)] = -1] ELSE s

\* array_remove_*_item: the last item takes the place of the removed one.  An
\* index outside the array (the code passes -1 for "not found") removes nothing.
SwapRemove(s, i) ==
  IF i \in DOMAIN s
  THEN SubSeq([s EXCEPT ![i] = s[Len(s)]], 1, Len(s) - 1)
  ELSE s

\* Mutant: an insert makes no room.
CapStays(cap, len) == cap

\* The capacity of an array of length len after an insert.
CapAfterInsert(cap, len) == IF len = cap THEN 2 * cap ELSE cap

\* The first index at which Test holds, 0 if there is none: the shape of every
\* search loop of the program.
FirstIndex(s, Test(_)) ==
  IF \E i \in DOMAIN s : Test(s[i])
  THEN CHOOSE i \in DOMAIN s : Test(s[i]) /\ \A j \in 1..(i - 1) : ~Test(s[j])
  ELSE 0

IndexOf(s, x) == FirstIndex(s, LAMBDA y : y = x)

\* How often x occurs in s.
Occurrences(s, x) == Cardinality({i \in DOMAIN s : s[i] = x})
===============================================================================
