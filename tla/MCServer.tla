------------------------------- MODULE MCServer -------------------------------
(***************************************************************************)
(* Server with interchangeable clients, and a bound on the states explored *)
(* by the number of messages in all.                                       *)
(***************************************************************************)
EXTENDS Server, TLC

CONSTANT MaxAll  \* bound on the number of messages of all clients

ClientSymmetry == Permutations(Clients)

\* Once a message was cut, a client has sent only one.
FewMessages ==
  /\ Cardinality(UNION {{<<c, k>> : k \in DOMAIN sent[c]} : c \in Clients}) <= MaxAll
  /\ broken # {} => \A c \in Clients : Len(sent[c]) <= 1
===============================================================================
