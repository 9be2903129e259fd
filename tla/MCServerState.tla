----------------------------- MODULE MCServerState ----------------------------
(***************************************************************************)
(* Topics for the state of the server: a begins ad and ab.  With three     *)
(* rows a, d and ad meet in one row, and ab is alone in another.           *)
(***************************************************************************)
EXTENDS ServerState, FiniteSets, TLC

A == <<97>>
D == <<100>>
AD == <<97, 100>>
AB == <<97, 98>>

SomeTopics == {A, D, AD, AB}

\* The clients' sockets are interchangeable.
ClientSymmetry == Permutations(Clients)

ASSUME RowOf(A) = RowOf(D) /\ RowOf(A) = RowOf(AD) /\ RowOf(A) # RowOf(AB)
===============================================================================
