------------------------------ MODULE MCHashMap -------------------------------
(***************************************************************************)
(* Keys for the hash map.  Widths of 24 and 20 bits stand for 64 and 32:   *)
(* the hash of a one-letter key fits the int, that of a longer one does    *)
(* not (with the real widths the limit is at three to four letters).       *)
(***************************************************************************)
EXTENDS HashMap

A == <<97>>
CA == <<99, 97>>

\* A character above 127 is negative as a char.
ATilde == <<-29>>

\* No key is the beginning of another.
PlainKeys == {A, ATilde, CA}

\* With three rows all of these keys meet in one row, where hash_map_remove looks
\* for the one-letter keys but not for the longer one.
ASSUME \A key \in Keys :
         /\ RowOf(key) = RowOf(A)
         /\ RowOfInt(key) = RowOf(A) <=> key \in {A, ATilde}
===============================================================================
