------------------------------ MODULE TopicTable ------------------------------
(***************************************************************************)
(* What the server may rely on of its hash map when no topic is the        *)
(* beginning of another: a table from topics to bags of client sockets.    *)
(* Removing a topic may fail although the table knows it, and then changes *)
(* nothing; removing a value from a topic the table does not know may      *)
(* report either success or failure.                                       *)
(***************************************************************************)
EXTENDS Integers

CONSTANTS Keys, Values, MaxValues

VARIABLES
  known,  \* the topics that have an entry
  count,  \* how often each value is stored under each topic
  ok      \* what the last operation returned

tableVars == <<known, count, ok>>

TableInit ==
  /\ known = {}
  /\ count = [k \in Keys |-> [v \in Values |-> 0]]
  /\ ok = TRUE

Store(k, v) ==
  /\ count[k][v] < MaxValues
  /\ known' = known \cup {k}
  /\ count' = [count EXCEPT ![k][v] = @ + 1]
  /\ ok' = TRUE

Forget(k) ==
  /\ k \in known
  /\ known' = known \ {k}
  /\ count' = [count EXCEPT ![k] = [v \in Values |-> 0]]
  /\ ok' = TRUE

ForgetNothing(k) ==
  /\ ok' = FALSE
  /\ UNCHANGED <<known, count>>

Discard(k, v) ==
  /\ count[k][v] > 0
  /\ count' = [count EXCEPT ![k][v] = @ - 1]
  /\ ok' = TRUE
  /\ UNCHANGED known

DiscardNothing(k, v) ==
  /\ count[k][v] = 0
  /\ ok' \in (IF k \in known THEN {FALSE} ELSE BOOLEAN)
  /\ UNCHANGED <<known, count>>

TableNext ==
  \E k \in Keys :
    \/ Forget(k) \/ ForgetNothing(k)
    \/ \E v \in Values : Store(k, v) \/ Discard(k, v) \/ DiscardNothing(k, v)

TableSpec == TableInit /\ [][TableNext]_tableVars
===============================================================================
