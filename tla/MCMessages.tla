------------------------------ MODULE MCMessages ------------------------------
(***************************************************************************)
(* Messages for a byte of four values and length fields of two bytes: a    *)
(* connection message of five bytes, a subscription of six, and a          *)
(* publication of eight, which is the size of the buffer.                  *)
(***************************************************************************)
EXTENDS Messages

Connection == [type |-> 1, topic |-> <<>>, body |-> <<>>]
Subscribe == [type |-> 2, topic |-> <<3>>, body |-> <<>>]
Publish == [type |-> 3, topic |-> <<1>>, body |-> <<2, 3>>]

SomeMessages == {Connection, Subscribe, Publish}
===============================================================================
