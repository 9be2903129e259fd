------------------------------ MODULE ClientList ------------------------------
(***************************************************************************)
(* The client list of handlers/client_list.c: two arrays that have to stay *)
(* in step, the pollfds and the metadata of the clients, with the removal  *)
(* and the shrinking of helpers/array.c.  Every operation holds the list's *)
(* mutex from beginning to end, so each is one action.                     *)
(*                                                                         *)
(* An access outside an array makes status "undefined", the use of an      *)
(* array that was freed makes it "freed", and nothing more is said of the  *)
(* program then.  A call of exit makes it "exited".                        *)
(***************************************************************************)
EXTENDS Arrays

CONSTANTS
  Sockets,      \* the sockets accept may return
  Topics,       \* the topics a client may have
  InitialCap,   \* first capacity of both arrays: 100
  MaxGap,       \* the unused room from which an array is shrunk: 100
  AllocMayFail  \* may an allocation fail

ASSUME CapAssumption == InitialCap \in Nat \ {0} /\ MaxGap \in Nat
ASSUME GapAssumption == InitialCap <= MaxGap
ASSUME AllocAssumption == AllocMayFail \in BOOLEAN

VARIABLES
  fds,          \* the sockets of the pollfds
  metadata,     \* the metadata of the clients
  fdsCap, metadataCap,
  status,       \* "running", "exited", "undefined" or "freed"
  result        \* what the last call returned

listVars == <<fds, metadata, fdsCap, metadataCap, status, result>>

\* struct client_metadata.  owner is the socket it was made for (history).
Metadata == [owner : Sockets, topics : Seq(Topics)]

ListInit ==
  /\ fds = <<>>
  /\ metadata = <<>>
  /\ fdsCap = InitialCap
  /\ metadataCap = InitialCap
  /\ status = "running"
  /\ result = TRUE

-------------------------------------------------------------------------------
Listed == {fds[i] : i \in DOMAIN fds}

\* client_list_get_idx, and the search of client_list_remove; 0 is "not found".
GetIdx(s) == IndexOf(fds, s)

NewMetadata(s) == [owner |-> s, topics |-> <<>>]

\* Mutant: the new metadata goes to the front of its array.
AddFirst(s) ==
  /\ status = "running" /\ s \notin Listed
  /\ fds' = Append(fds, s)
  /\ fdsCap' = CapAfterInsert(fdsCap, Len(fds))
  /\ metadata' = <<NewMetadata(s)>> \o metadata
  /\ metadataCap' = CapAfterInsert(metadataCap, Len(metadata))
  /\ result' = TRUE /\ UNCHANGED status

\* client_list_add
ListAppend(s) ==
  /\ status = "running"
  /\ fds' = Append(fds, s)
  /\ fdsCap' = CapAfterInsert(fdsCap, Len(fds))
  /\ metadata' = Append(metadata, NewMetadata(s))
  /\ metadataCap' = CapAfterInsert(metadataCap, Len(metadata))
  /\ result' = TRUE
  /\ UNCHANGED status

\* The kernel never gives a socket that is still open.
ListAdd(s) == s \notin Listed /\ ListAppend(s)

\* client_list_add without the memory to make room for the pollfd.
AddFailsEarly(s) ==
  /\ AllocMayFail /\ status = "running"
  /\ s \notin Listed
  /\ Len(fds) = fdsCap
  /\ result' = FALSE
  /\ UNCHANGED <<fds, metadata, fdsCap, metadataCap, status>>

\* client_list_add without the memory for the metadata: the pollfd stays.
AddFailsLate(s) ==
  /\ AllocMayFail /\ status = "running"
  /\ s \notin Listed
  /\ fds' = Append(fds, s)
  /\ fdsCap' = CapAfterInsert(fdsCap, Len(fds))
  /\ result' = FALSE
  /\ UNCHANGED <<metadata, metadataCap, status>>

\* array_resize: realloc takes a number of bytes where a number of items is
\* given, and the block it returns, or has moved away from, is freed a second
\* time or used afterwards.
AfterResize == "freed"

\* Mutant: the array is shrunk one item too early.
ShrinksEarly(cap, len) == cap - len >= MaxGap

\* The unused room from which client_list_remove shrinks an array.
Shrinks(cap, len) == cap - len > MaxGap

\* Mutant: the metadata are closed up, the pollfds swapped.
RemoveShifts(s) ==
  /\ status = "running"
  /\ GetIdx(s) # 0 /\ GetIdx(s) \in DOMAIN metadata
  /\ LET i == GetIdx(s) IN
       /\ fds' = SwapRemove(fds, i)
       /\ metadata' = SubSeq(metadata, 1, i - 1) \o SubSeq(metadata, i + 1, Len(metadata))
  /\ status' = IF Shrinks(fdsCap, Len(fds')) THEN "freed" ELSE "running"
  /\ result' = TRUE /\ UNCHANGED <<fdsCap, metadataCap>>

\* client_list_remove: metadata that is not there ends the program.
ListRemove(s) ==
  /\ status = "running"
  /\ LET i == GetIdx(s) IN
       \/ /\ i = 0
          /\ UNCHANGED <<fds, metadata, status>>
       \/ /\ i # 0
          /\ fds' = SwapRemove(fds, i)
          /\ metadata' = SwapRemove(metadata, i)
          /\ \/ /\ i \in DOMAIN metadata
                /\ status' = IF \/ Shrinks(fdsCap, Len(fds'))
                                \/ Shrinks(metadataCap, Len(metadata'))
                             THEN AfterResize
                             ELSE "running"
             \/ /\ i \notin DOMAIN metadata
                /\ status' \in {"exited", "undefined"}
  /\ result' = TRUE
  /\ UNCHANGED <<fdsCap, metadataCap>>

ListNext ==
  \E s \in Sockets : ListAdd(s) \/ AddFailsEarly(s) \/ AddFailsLate(s) \/ ListRemove(s)

ListSpec == ListInit /\ [][ListNext]_listVars

-------------------------------------------------------------------------------
(* Properties *)

\* Type invariant of struct client_list.
ListTypeOK ==
  /\ fds \in Seq(Sockets)
  /\ metadata \in Seq(Metadata)
  /\ fdsCap \in Nat \ {0} /\ metadataCap \in Nat \ {0}
  /\ status \in {"running", "exited", "undefined", "freed"}
  /\ result \in BOOLEAN

\* The two arrays stay in step through any sequence of adds and swap-removes:
\* the metadata at an index are those of the socket at that index.  An allocation
\* that failed leaves them of different lengths for good.
InStep ==
  /\ Len(fds) = Len(metadata) \/ AllocMayFail
  /\ status = "running" /\ Len(fds) = Len(metadata)
       => \A i \in DOMAIN fds : metadata[i].owner = fds[i]

\* Whatever fails: the arrays are never fuller than their capacity, there are
\* never more metadata than pollfds, and a server whose list never outgrew its
\* first capacity never reaches the shrinking code.
CapacityHolds ==
  /\ Len(fds) <= fdsCap /\ Len(metadata) <= metadataCap
  /\ Len(metadata) <= Len(fds)
  /\ status = "freed" => fdsCap > InitialCap

-------------------------------------------------------------------------------
(* What the comments say and the code does not do *)

\* client_list.c: "cut gap size in half to reclaim memory".  The list survives.
SurvivesShrink == status # "freed"
===============================================================================
