------------------------------ MODULE JobMailbox ------------------------------
(***************************************************************************)
(* What the server may rely on when it hands a message event to its pool:  *)
(* a mailbox with one place.  An event that is offered is either taken, if *)
(* the place is empty, or refused; a taken event stays in the place until  *)
(* it is served, and events are served at most once and in the order in    *)
(* which they were offered.  Nothing promises that a taken event is ever   *)
(* served: thread_pool.c does not keep that promise.                       *)
(***************************************************************************)
EXTENDS Integers, Sequences

CONSTANT MaxEvents          \* bound on the number of events offered

VARIABLES
  offered,  \* number of events offered so far; event n is the n-th one
  offering, \* the event being offered, 0 when there is none
  place,    \* the event taken and not yet served, 0 when there is none
  served,   \* the events served, oldest first
  open      \* FALSE once the mailbox was closed

boxVars == <<offered, offering, place, served, open>>

BoxInit ==
  /\ offered = 0
  /\ offering = 0
  /\ place = 0
  /\ served = <<>>
  /\ open = TRUE

Offer ==
  /\ open
  /\ offering = 0
  /\ offered < MaxEvents
  /\ offered' = offered + 1
  /\ offering' = offered + 1
  /\ UNCHANGED <<place, served, open>>

Take ==
  /\ offering # 0
  /\ place = 0
  /\ place' = offering
  /\ offering' = 0
  /\ UNCHANGED <<offered, served, open>>

Refuse ==
  /\ offering # 0
  /\ offering' = 0
  /\ UNCHANGED <<offered, place, served, open>>

Serve ==
  /\ place # 0
  /\ served' = Append(served, place)
  /\ place' = 0
  /\ UNCHANGED <<offered, offering, open>>

\* What is in the place when the mailbox is closed is lost.
Close ==
  /\ open
  /\ offering = 0
  /\ open' = FALSE
  /\ place' = 0
  /\ UNCHANGED <<offered, offering, served>>

BoxNext == Offer \/ Take \/ Refuse \/ Serve \/ Close

BoxSpec == BoxInit /\ [][BoxNext]_boxVars
===============================================================================
