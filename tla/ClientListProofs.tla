--------------------------- MODULE ClientListProofs ---------------------------
(***************************************************************************)
(* The client list's invariants for every set of sockets and topics, every *)
(* first capacity that is no larger than the gap from which it shrinks,    *)
(* with and without failing allocations.                                   *)
(***************************************************************************)
EXTENDS ClientList, ArraysProofs

-------------------------------------------------------------------------------
(* The helpers *)

\* client_list_get_idx returns an index of the socket, or that it is not listed.
LEMMA GetIdxFinds ==
  ASSUME NEW S, fds \in Seq(S), NEW s
  PROVE  /\ GetIdx(s) \in Nat
         /\ GetIdx(s) # 0 => GetIdx(s) \in 1..Len(fds) /\ fds[GetIdx(s)] = s
         /\ GetIdx(s) = 0 => s \notin Listed
BY IndexOfFinds DEF GetIdx, Listed

-------------------------------------------------------------------------------
(* The strengthening of InStep and CapacityHolds *)

\* Whatever the status: the arrays fit, a list that once held more metadata than its
\* first capacity held more pollfds too, and the list is only freed after that.
RoomInv ==
  /\ Len(metadata) <= Len(fds)
  /\ Len(fds) <= fdsCap /\ Len(metadata) <= metadataCap
  /\ InitialCap <= fdsCap /\ InitialCap <= metadataCap
  /\ metadataCap > InitialCap => fdsCap > InitialCap
  /\ status = "freed" => fdsCap > InitialCap

ListInv == ListTypeOK /\ InStep /\ RoomInv

\* The room of both arrays once a pollfd and, or not, its metadata are added.
LEMMA RoomAfterInsert ==
  ASSUME ListInv,
         NEW newCap, newCap = CapAfterInsert(fdsCap, Len(fds)),
         NEW newMetadataCap, newMetadataCap = CapAfterInsert(metadataCap, Len(metadata))
  PROVE  /\ newCap \in Nat \ {0} /\ newMetadataCap \in Nat \ {0}
         /\ Len(fds) + 1 <= newCap /\ Len(metadata) + 1 <= newMetadataCap
         /\ InitialCap <= newCap /\ fdsCap <= newCap
         /\ InitialCap <= newMetadataCap
         /\ newMetadataCap > InitialCap => newCap > InitialCap
<1>. USE CapAssumption DEF ListInv, ListTypeOK, RoomInv
<1>1. /\ newCap \in Nat \ {0} /\ Len(fds) + 1 <= newCap /\ fdsCap <= newCap
      /\ Len(fds) = fdsCap => fdsCap < newCap
  BY CapAfterInsertRoom
<1>2. /\ newMetadataCap \in Nat \ {0} /\ Len(metadata) + 1 <= newMetadataCap
      /\ Len(metadata) # metadataCap => newMetadataCap = metadataCap
      /\ metadataCap <= newMetadataCap
  BY CapAfterInsertRoom
<1>3. ASSUME newMetadataCap > InitialCap, fdsCap = InitialCap
      PROVE  newCap > InitialCap
  <2>1. metadataCap = InitialCap
    BY <1>3
  <2>2. Len(metadata) = metadataCap
    BY <1>2, <1>3, <2>1
  <2>3. Len(fds) = fdsCap
    BY <1>3, <2>1, <2>2
  <2>. QED  BY <1>1, <1>3, <2>3
<1>. QED  BY <1>1, <1>2, <1>3


-------------------------------------------------------------------------------
(* The steps.  Modules that extend ClientList cite these two for its calls. *)

LEMMA AppendKeeps ==
  ASSUME ListInv, NEW s \in Sockets, ListAppend(s)
  PROVE  ListInv'
<1>. USE DEF ListInv
<1>1. NewMetadata(s) \in Metadata /\ NewMetadata(s).owner = s
  BY DEF NewMetadata, Metadata
<1>2. /\ fds' \in Seq(Sockets) /\ Len(fds') = Len(fds) + 1
      /\ \A i \in 1..Len(fds) : fds'[i] = fds[i]
      /\ fds'[Len(fds) + 1] = s
  BY AppendProperties DEF ListAppend, ListTypeOK
<1>3. /\ metadata' \in Seq(Metadata) /\ Len(metadata') = Len(metadata) + 1
      /\ \A i \in 1..Len(metadata) : metadata'[i] = metadata[i]
      /\ metadata'[Len(metadata) + 1] = NewMetadata(s)
  BY <1>1, AppendProperties DEF ListAppend, ListTypeOK
<1>4. /\ fdsCap' \in Nat \ {0} /\ metadataCap' \in Nat \ {0}
      /\ Len(fds) + 1 <= fdsCap' /\ Len(metadata) + 1 <= metadataCap'
      /\ InitialCap <= fdsCap' /\ InitialCap <= metadataCap'
      /\ metadataCap' > InitialCap => fdsCap' > InitialCap
  BY RoomAfterInsert DEF ListAppend
<1>5. status = "running" /\ status' = "running" /\ result' = TRUE
  BY DEF ListAppend
<1>6. ListTypeOK'
  BY <1>2, <1>3, <1>4, <1>5 DEF ListTypeOK
<1>7. InStep'
  <2>1. Len(fds) \in Nat /\ Len(metadata) \in Nat
    BY DEF ListTypeOK
  <2>2. ASSUME Len(fds') = Len(metadata'), NEW i \in 1..Len(fds')
        PROVE  metadata'[i].owner = fds'[i]
    <3>1. Len(fds) = Len(metadata)
      BY <1>2, <1>3, <2>1, <2>2
    <3>2. CASE i \in 1..Len(fds)
      <4>1. metadata[i].owner = fds[i]
        BY <1>5, <3>1, <3>2 DEF InStep, ListTypeOK
      <4>. QED  BY <1>2, <1>3, <3>1, <3>2, <4>1
    <3>3. CASE i = Len(fds) + 1
      BY <1>1, <1>2, <1>3, <3>1, <3>3
    <3>. QED  BY <1>2, <2>1, <2>2, <3>2, <3>3
  <2>3. DOMAIN fds' = 1..Len(fds')
    BY <1>6 DEF ListTypeOK
  <2>4. Len(fds') = Len(metadata') \/ AllocMayFail
    BY <1>2, <1>3, <2>1 DEF InStep
  <2>. QED  BY <2>2, <2>3, <2>4 DEF InStep
<1>8. RoomInv'
  BY <1>2, <1>3, <1>4, <1>5 DEF RoomInv, ListTypeOK
<1>. QED  BY <1>6, <1>7, <1>8

LEMMA RemoveKeeps ==
  ASSUME ListInv, NEW s, ListRemove(s)
  PROVE  ListInv'
<1>. USE DEF ListInv
<1>. DEFINE i == GetIdx(s)
<1>1. i \in Nat /\ (i # 0 => i \in 1..Len(fds))
  BY GetIdxFinds DEF ListTypeOK
<1>2. CASE i = 0
  <2>1. UNCHANGED <<fds, metadata, fdsCap, metadataCap, status>> /\ result' = TRUE
    BY <1>2, <1>1 DEF ListRemove
  <2>. QED  BY <2>1 DEF ListTypeOK, InStep, RoomInv
<1>3. CASE i # 0
  <2>. HIDE DEF i
  <2>1. /\ fds' = SwapRemove(fds, i) /\ metadata' = SwapRemove(metadata, i)
        /\ UNCHANGED <<fdsCap, metadataCap>> /\ result' = TRUE
        /\ status = "running"
        /\ \/ /\ i \in DOMAIN metadata
              /\ \/ status' = "freed" /\ (Shrinks(fdsCap, Len(fds')) \/ Shrinks(metadataCap, Len(metadata')))
                 \/ status' = "running"
           \/ i \notin DOMAIN metadata /\ status' \in {"exited", "undefined"}
    BY <1>3 DEF ListRemove, AfterResize, i
  <2>2. /\ fds' \in Seq(Sockets) /\ Len(fds') = Len(fds) - 1
        /\ \A j \in 1..(Len(fds) - 1) : fds'[j] = IF j = i THEN fds[Len(fds)] ELSE fds[j]
    BY <1>1, <1>3, <2>1, SwapRemoveProperties DEF ListTypeOK
  <2>3. /\ metadata' \in Seq(Metadata)
        /\ i \in 1..Len(metadata) =>
             /\ Len(metadata') = Len(metadata) - 1
             /\ \A j \in 1..(Len(metadata) - 1) :
                  metadata'[j] = IF j = i THEN metadata[Len(metadata)] ELSE metadata[j]
        /\ i \notin 1..Len(metadata) => metadata' = metadata
    BY <1>1, <1>3, <2>1, SwapRemoveProperties DEF ListTypeOK
  <2>4. DOMAIN metadata = 1..Len(metadata) /\ Len(metadata) \in Nat /\ Len(fds) \in Nat
    BY DEF ListTypeOK
  <2>5. ListTypeOK'
    BY <2>1, <2>2, <2>3 DEF ListTypeOK
  <2>6. InStep'
    <3>1. Len(fds') = Len(metadata') \/ AllocMayFail
      BY <1>1, <1>3, <2>2, <2>3, <2>4 DEF InStep
    <3>2. ASSUME status' = "running", Len(fds') = Len(metadata'), NEW j \in DOMAIN fds'
          PROVE  metadata'[j].owner = fds'[j]
      <4>1. i \in 1..Len(metadata)
        BY <2>1, <2>4, <3>2
      <4>2. Len(fds) = Len(metadata) /\ j \in 1..(Len(fds) - 1)
        BY <2>2, <2>3, <2>4, <3>2, <4>1
      <4>3. \A k \in 1..Len(fds) : metadata[k].owner = fds[k]
        BY <2>1, <4>2 DEF InStep, ListTypeOK
      <4>. QED  BY <2>2, <2>3, <2>4, <4>1, <4>2, <4>3
    <3>. QED  BY <3>1, <3>2 DEF InStep
  <2>7. RoomInv'
    <3>1. \/ Len(metadata') = Len(metadata) - 1
          \/ Len(metadata') = Len(metadata) /\ Len(metadata) < Len(fds)
      <4>1. CASE i \in 1..Len(metadata)
        BY <2>3, <4>1
      <4>2. CASE i \notin 1..Len(metadata)
        <5>1. metadata' = metadata
          BY <2>3, <4>2
        <5>2. Len(metadata) < Len(fds)
          BY <1>1, <1>3, <2>4, <4>2
        <5>. QED  BY <5>1, <5>2
      <4>. QED  BY <4>1, <4>2
    <3>2. Len(fds') = Len(fds) - 1 /\ Len(metadata) <= Len(fds)
      BY <2>2 DEF RoomInv
    <3>3. Len(metadata') <= Len(fds')
      <4>1. ASSUME NEW m \in Nat, NEW n \in Nat, NEW mNew, NEW nNew,
                   nNew = n - 1, m <= n, mNew = m - 1 \/ (mNew = m /\ m < n)
            PROVE  mNew <= nNew
        BY <4>1
      <4>. QED  BY <2>4, <3>1, <3>2, <4>1, Zenon
    <3>4. Len(fds') <= fdsCap' /\ Len(metadata') <= metadataCap'
      <4>1. ASSUME NEW n \in Nat, NEW c \in Nat, n <= c, NEW nNew, nNew = n - 1 \/ nNew = n
            PROVE  nNew <= c
        BY <4>1
      <4>2. Len(fds) <= fdsCap' /\ fdsCap' \in Nat /\ Len(metadata) <= metadataCap' /\ metadataCap' \in Nat
        BY <2>1 DEF RoomInv, ListTypeOK
      <4>3. Len(fds') <= fdsCap'
        BY <2>4, <3>2, <4>1, <4>2, Zenon
      <4>4. Len(metadata') <= metadataCap'
        BY <2>4, <3>1, <4>1, <4>2, Zenon
      <4>. QED  BY <4>3, <4>4
    <3>5. ASSUME status' = "freed"
          PROVE  fdsCap' > InitialCap
      <4>1. fdsCap > MaxGap \/ metadataCap > MaxGap
        BY <2>1, <2>2, <2>3, <2>5, <3>5, CapAssumption DEF Shrinks, ListTypeOK
      <4>. QED  BY <2>1, <4>1, CapAssumption, GapAssumption DEF RoomInv, ListTypeOK
    <3>. QED  BY <2>1, <3>3, <3>4, <3>5 DEF RoomInv
  <2>. QED  BY <2>5, <2>6, <2>7
<1>. QED  BY <1>2, <1>3


-------------------------------------------------------------------------------
(* The theorems *)

LEMMA InitList == ListInit => ListInv
<1>. SUFFICES ASSUME ListInit PROVE ListInv
  OBVIOUS
<1>1. ListTypeOK
  BY CapAssumption DEF ListInit, ListTypeOK
<1>2. InStep /\ RoomInv
  BY CapAssumption DEF ListInit, InStep, RoomInv
<1>. QED  BY <1>1, <1>2 DEF ListInv

\* An add that fails takes room for the pollfd, and perhaps the pollfd, only.
LEMMA FailureKeeps ==
  ASSUME ListInv, NEW s \in Sockets, AddFailsEarly(s) \/ AddFailsLate(s)
  PROVE  ListInv'
<1>1. CASE AddFailsEarly(s)
  BY <1>1 DEF AddFailsEarly, ListInv, ListTypeOK, InStep, RoomInv
<1>2. CASE AddFailsLate(s)
  <2>1. /\ fds' \in Seq(Sockets) /\ Len(fds') = Len(fds) + 1
        /\ UNCHANGED <<metadata, metadataCap, status>> /\ result' = FALSE /\ AllocMayFail
    BY <1>2, AppendProperties DEF AddFailsLate, ListInv, ListTypeOK
  <2>2. /\ fdsCap' \in Nat \ {0} /\ Len(fds) + 1 <= fdsCap' /\ fdsCap <= fdsCap'
    BY <1>2, CapAfterInsertRoom DEF AddFailsLate, ListInv, ListTypeOK, RoomInv
  <2>3. Len(metadata) < Len(fds')
    BY <2>1 DEF ListInv, ListTypeOK, RoomInv
  <2>4. ListTypeOK'
    BY <2>1, <2>2 DEF ListInv, ListTypeOK
  <2>5. InStep'
    BY <2>1, <2>3, <2>4 DEF InStep, ListTypeOK
  <2>6. RoomInv'
    BY <2>1, <2>2, <2>3, CapAssumption DEF ListInv, ListTypeOK, RoomInv
  <2>. QED  BY <2>4, <2>5, <2>6 DEF ListInv
<1>. QED  BY <1>1, <1>2

LEMMA ListInvariant == ListSpec => []ListInv
<1>1. ListInv /\ [ListNext]_listVars => ListInv'
  <2>. SUFFICES ASSUME ListInv, [ListNext]_listVars PROVE ListInv'
    OBVIOUS
  <2>1. CASE UNCHANGED listVars
    BY <2>1 DEF listVars, ListInv, ListTypeOK, InStep, RoomInv
  <2>2. ASSUME NEW s \in Sockets, ListAdd(s) PROVE ListInv'
    BY <2>2, AppendKeeps DEF ListAdd
  <2>3. ASSUME NEW s \in Sockets, AddFailsEarly(s) \/ AddFailsLate(s) PROVE ListInv'
    BY <2>3, FailureKeeps
  <2>4. ASSUME NEW s \in Sockets, ListRemove(s) PROVE ListInv'
    BY <2>4, RemoveKeeps
  <2>. QED  BY <2>1, <2>2, <2>3, <2>4 DEF ListNext
<1>. QED  BY InitList, <1>1, PTL DEF ListSpec

\* The types of the client list, for every number of sockets and topics.
THEOREM ListTypeCorrect == ListSpec => []ListTypeOK
<1>1. ListInv => ListTypeOK
  BY DEF ListInv
<1>. QED  BY ListInvariant, <1>1, PTL

\* pollfds and metadata stay in step through any sequence of calls, and only an
\* allocation that failed ever parts them.
THEOREM ArraysInStep == ListSpec => []InStep
<1>1. ListInv => InStep
  BY DEF ListInv
<1>. QED  BY ListInvariant, <1>1, PTL

\* The arrays are within their capacities, and a list that never outgrew its first
\* capacity is never shrunk, as long as that capacity is no larger than the gap
\* from which client_list.c shrinks.
THEOREM ListWithinCapacity == ListSpec => []CapacityHolds
<1>1. ListInv => CapacityHolds
  BY DEF ListInv, RoomInv, CapacityHolds
<1>. QED  BY ListInvariant, <1>1, PTL
===============================================================================
