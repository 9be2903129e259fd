----------------------------- MODULE ServerProofs -----------------------------
(***************************************************************************)
(* Theorems about the running server, for every number of clients,         *)
(* descriptors, topics and messages.                                       *)
(***************************************************************************)
EXTENDS Server, ClientListProofs

-------------------------------------------------------------------------------
(* The inductive invariant *)

Revents == {"none", "in", "hup", "nval"}

\* The kernel and the clients.
KernelInv ==
  /\ conn \in [Clients -> {"new", "connecting", "connected", "failed", "closed"}]
  /\ pending \in Seq(Clients)
  /\ peer \in [Descriptors -> Clients \cup {NoClient}]
  /\ sent \in [Clients -> Seq(Message)]
  /\ outbox \in [Clients -> Seq(Message)]
  /\ broken \subseteq Clients

\* The list has the listener in front and nowhere else, and poll's results beside.
ListenerInv ==
  /\ ListInv
  /\ fds # <<>> /\ fds[1] = Listener
  /\ \A i \in 2..Len(fds) : fds[i] # Listener
  /\ revents \in Seq(Revents) /\ Len(revents) = Len(fds)

\* What the dispatcher remembers between its steps is never the listener's.
MainInv ==
  /\ slot \in Nat
  /\ mpc \in {"test", "read", "mark", "hand"} => slot > 1
  /\ mpc \in {"greet", "test", "mark", "hand"} => hand[1] \in Descriptors
  /\ mpc = "hand" => hand[2] \in Message
  /\ marked \in Seq(Descriptors \cup {NoSocket})

Event == [from : Descriptors, msg : Message]

WorkerInv ==
  /\ place \in Seq(Event) /\ Len(place) <= 1
  /\ wpc # "idle" => place # <<>>

Removal ==
  [stage : {"none", "search", "topics", "close", "list"}, sock : Sockets \cup {NoSocket},
   idx : Nat, next : Nat]

\* Neither thread ever removes the listener, and -1 is never found.
RemovalInv ==
  /\ removal \in [Threads -> Removal]
  /\ \A th \in Threads : removal[th].stage # "none" => removal[th].sock # Listener /\ removal[th].next > 0
  /\ \A th \in Threads : removal[th].stage \notin {"none", "search"} => removal[th].sock \in Descriptors
  /\ removal["main"].stage # "none" => marked # <<>>

Entry == [known : BOOLEAN, len : Nat, cells : Seq(Descriptors)]

TableInv ==
  /\ table \in [Topics -> Entry]
  /\ \A topic \in Topics : table[topic].len <= Len(table[topic].cells)

ServerInv == KernelInv /\ ListenerInv /\ MainInv /\ WorkerInv /\ RemovalInv /\ TableInv

-------------------------------------------------------------------------------
(* What leaves a part of the state alone *)

LEMMA SameKernel ==
  ASSUME KernelInv, UNCHANGED <<conn, pending, peer, sent, outbox, broken>>
  PROVE  KernelInv'
BY DEF KernelInv

LEMMA SameList ==
  ASSUME ListenerInv, UNCHANGED <<fds, metadata, fdsCap, metadataCap, result, revents>>,
         status' \in {status, "exited", "undefined"}
  PROVE  ListenerInv'
<1>1. ListInv'
  BY DEF ListenerInv, ListInv, ListTypeOK, InStep, RoomInv
<1>. QED  BY <1>1 DEF ListenerInv

LEMMA SameMain ==
  ASSUME MainInv, UNCHANGED <<mpc, slot, hand, marked>>
  PROVE  MainInv'
BY DEF MainInv

LEMMA SameWorker ==
  ASSUME WorkerInv, UNCHANGED place, wpc' # "idle" => wpc # "idle"
  PROVE  WorkerInv'
BY DEF WorkerInv

LEMMA SameRemoval ==
  ASSUME RemovalInv, UNCHANGED removal, marked # <<>> => marked' # <<>>
  PROVE  RemovalInv'
BY DEF RemovalInv

LEMMA SameTable ==
  ASSUME TableInv, UNCHANGED table
  PROVE  TableInv'
BY DEF TableInv

\* A slot other than the first holds a client's descriptor.
LEMMA SlotOfClient ==
  ASSUME ListenerInv, NEW i \in 2..Len(fds)
  PROVE  fds[i] \in Descriptors
<1>1. fds \in Seq(Sockets)
  BY DEF ListenerInv, ListInv, ListTypeOK
<1>. QED  BY <1>1 DEF ListenerInv, Descriptors

-------------------------------------------------------------------------------
(* The initial state *)

LEMMA InitServer == Init => ServerInv
<1>. SUFFICES ASSUME Init PROVE ServerInv
  OBVIOUS
<1>. USE SocketsAssumption, CapAssumption DEF Init
<1>1. KernelInv
  BY DEF KernelInv
<1>2. ListenerInv
  <2>1. fds \in Seq(Sockets) /\ metadata \in Seq(Metadata)
    BY DEF NewMetadata, Metadata
  <2>2. ListTypeOK
    BY <2>1 DEF ListTypeOK
  <2>3. InStep /\ RoomInv
    BY DEF InStep, RoomInv, NewMetadata
  <2>4. revents \in Seq(Revents) /\ Len(revents) = Len(fds)
    BY DEF Revents
  <2>. QED  BY <2>2, <2>3, <2>4 DEF ListenerInv, ListInv
<1>3. MainInv /\ WorkerInv
  BY DEF MainInv, WorkerInv
<1>4. RemovalInv
  BY DEF RemovalInv, Removal, NotRemoving, Threads
<1>5. TableInv
  BY DEF TableInv, Entry, NoEntry
<1>. QED  BY <1>1, <1>2, <1>3, <1>4, <1>5 DEF ServerInv

-------------------------------------------------------------------------------
(* The clients *)

LEMMA ClientKeeps ==
  ASSUME ServerInv, NEW c \in Clients, ClientNext(c)
  PROVE  ServerInv'
<1>. USE DEF ServerInv
<1>1. UNCHANGED clientFrame
  BY DEF ClientNext, Connect, Connected, Close, Send
<1>2. /\ ListenerInv' /\ MainInv' /\ WorkerInv' /\ RemovalInv' /\ TableInv'
  BY <1>1, SameList, SameMain, SameWorker, SameRemoval, SameTable
     DEF clientFrame, listVars, sharedVars, mainVars, workerVars
<1>3. UNCHANGED <<peer, broken>>
  BY <1>1 DEF clientFrame
<1>4. KernelInv'
  <2>1. CASE Connect(c)
    BY <2>1, <1>3 DEF KernelInv, Connect
  <2>2. CASE Connected(c) \/ Close(c)
    BY <2>2, <1>3 DEF KernelInv, Connected, Close
  <2>3. ASSUME NEW type \in {"subscribe", "publish", "error"}, NEW topic \in Topics,
               Send(c, type, topic)
        PROVE  KernelInv'
    <3>. DEFINE m == [type |-> type, topic |-> topic, by |-> c, n |-> Len(sent[c]) + 1]
    <3>1. sent[c] \in Seq(Message) /\ outbox[c] \in Seq(Message)
      BY DEF KernelInv
    <3>2. m \in Message
      BY <2>3, <3>1, MaxSentAssumption DEF Send, Message
    <3>3. Append(sent[c], m) \in Seq(Message) /\ Append(outbox[c], m) \in Seq(Message)
      BY <3>1, <3>2, AppendProperties
    <3>4. /\ sent' = [sent EXCEPT ![c] = Append(sent[c], m)]
          /\ outbox' = [outbox EXCEPT ![c] = Append(outbox[c], m)]
          /\ UNCHANGED <<conn, pending>>
      BY <2>3 DEF Send
    <3>. HIDE DEF m
    <3>. QED  BY <1>3, <3>3, <3>4 DEF KernelInv
  <2>. QED  BY <2>1, <2>2, <2>3 DEF ClientNext
<1>. QED  BY <1>2, <1>4

-------------------------------------------------------------------------------
(* Removal, in either thread *)

LEMMA StartKeeps ==
  ASSUME ServerInv, NEW th \in Threads, NEW s \in Descriptors \cup {NoSocket}, RemoveStart(th, s),
         th = "main" => marked # <<>>, UNCHANGED marked
  PROVE  RemovalInv'
<1>. DEFINE r == [stage |-> "search", sock |-> s, idx |-> 1, next |-> 1]
<1>1. Listener # NoSocket
  BY SocketsAssumption DEF NoSocket
<1>2. r \in Removal /\ r.sock # Listener /\ r.next > 0 /\ r.stage = "search"
  BY <1>1 DEF Removal, Descriptors
<1>3. removal' = [removal EXCEPT ![th] = r]
  BY DEF RemoveStart
<1>. HIDE DEF r
<1>. QED  BY <1>2, <1>3 DEF ServerInv, RemovalInv, Threads

LEMMA CutOffKeeps ==
  ASSUME NEW entry \in Entry, entry.len <= Len(entry.cells), NEW i \in 1..entry.len
  PROVE  CutOff(entry, i) \in Entry /\ CutOff(entry, i).len <= Len(CutOff(entry, i).cells)
<1>. DEFINE n == entry.len
            swapped == [entry.cells EXCEPT ![i] = entry.cells[n], ![n] = entry.cells[i]]
<1>1. /\ n \in Nat /\ n - 1 \in Nat /\ n \in 1..Len(entry.cells) /\ i \in 1..Len(entry.cells)
      /\ entry.cells \in Seq(Descriptors)
      /\ entry.cells[n] \in Descriptors /\ entry.cells[i] \in Descriptors
  BY DEF Entry
<1>2. swapped \in Seq(Descriptors) /\ Len(swapped) = Len(entry.cells)
  BY <1>1
<1>3. CutOff(entry, i) = [known |-> TRUE, len |-> n - 1, cells |-> swapped]
  BY DEF CutOff
<1>. HIDE DEF swapped
<1>. QED  BY <1>1, <1>2, <1>3 DEF Entry

LEMMA IndexInFinds ==
  ASSUME NEW entry \in Entry, entry.len <= Len(entry.cells), NEW s
  PROVE  IndexIn(entry, s) \in Nat /\ (IndexIn(entry, s) # 0 => IndexIn(entry, s) \in 1..entry.len)
<1>1. CellsOf(entry) \in Seq(Descriptors) /\ Len(CellsOf(entry)) = entry.len
  BY DEF CellsOf, Entry
<1>. QED  BY <1>1, IndexOfFinds DEF IndexIn

LEMMA FailsKeeps ==
  ASSUME RemovalInv, WorkerInv, NEW th \in Threads, RemoveFails(th), UNCHANGED marked
  PROVE  /\ RemovalInv' /\ WorkerInv' /\ status' \in {status, "exited"}
<1>1. removal' = [removal EXCEPT ![th] = NotRemoving]
  BY DEF RemoveFails
<1>2. NotRemoving \in Removal /\ NotRemoving.stage = "none"
  BY SocketsAssumption DEF NotRemoving, Removal
<1>3. RemovalInv'
  BY <1>1, <1>2 DEF RemovalInv, Threads
<1>4. CASE th = "main"
  BY <1>3, <1>4 DEF RemoveFails, WorkerInv
<1>5. CASE th = "worker"
  <2>1. place' = <<>> /\ wpc' = "idle" /\ status' = status
    BY <1>5 DEF RemoveFails
  <2>. QED  BY <1>3, <2>1 DEF WorkerInv
<1>. QED  BY <1>4, <1>5 DEF Threads

\* The search fails, finds the client, or looks at the next place.
LEMMA SearchSteps ==
  ASSUME RemovalInv, NEW th \in Threads, Search(th)
  PROVE  /\ removal[th].stage = "search" /\ removal[th] \in Removal
         /\ \/ RemoveFails(th)
            \/ /\ removal[th].idx \in DOMAIN fds /\ fds[removal[th].idx] = removal[th].sock
               /\ removal' = [removal EXCEPT ![th].stage = "topics"]
               /\ UNCHANGED <<place, wpc, status>>
            \/ /\ removal' = [removal EXCEPT ![th].idx = removal[th].idx + 1]
               /\ UNCHANGED <<place, wpc, status>>
<1>. DEFINE r == removal[th]
<1>1. r.stage = "search" /\ r \in Removal
  BY DEF Search, RemovalInv
<1>2. ASSUME ~RemoveFails(th)
      PROVE  /\ r.idx \in DOMAIN fds
             /\ removal' = [removal EXCEPT ![th] = IF fds[r.idx] = r.sock
                                                     THEN [r EXCEPT !.stage = "topics"]
                                                     ELSE [r EXCEPT !.idx = r.idx + 1]]
             /\ UNCHANGED <<place, wpc, status>>
  BY <1>2 DEF Search
<1>3. ASSUME removal' = [removal EXCEPT ![th] = IF fds[r.idx] = r.sock
                                                 THEN [r EXCEPT !.stage = "topics"]
                                                 ELSE [r EXCEPT !.idx = r.idx + 1]]
      PROVE  \/ fds[r.idx] = r.sock /\ removal' = [removal EXCEPT ![th].stage = "topics"]
             \/ removal' = [removal EXCEPT ![th].idx = r.idx + 1]
  <2>1. CASE fds[r.idx] = r.sock
    BY <1>3, <2>1
  <2>2. CASE fds[r.idx] # r.sock
    BY <1>3, <2>2
  <2>. QED  BY <2>1, <2>2
<1>. QED  BY <1>1, <1>2, <1>3, Zenon

LEMMA SearchKeeps ==
  ASSUME ServerInv, NEW th \in Threads, Search(th)
  PROVE  ServerInv'
<1>. USE DEF ServerInv
<1>. DEFINE r == removal[th]
<1>1. /\ r.stage = "search" /\ r \in Removal /\ r.sock # Listener /\ r.next > 0
      /\ UNCHANGED <<fds, metadata, fdsCap, metadataCap, result, clientVars, peer, inbox,
                     revents, table, mainVars, widx, wlen, disturbed, stale>>
  BY DEF Search, RemovalInv
<1>2. KernelInv' /\ MainInv' /\ TableInv' /\ UNCHANGED marked
  BY <1>1, SameKernel, SameMain, SameTable DEF clientVars, mainVars
<1>3. CASE RemoveFails(th)
  BY <1>1, <1>2, <1>3, FailsKeeps, SameList
<1>4. CASE /\ r.idx \in DOMAIN fds /\ fds[r.idx] = r.sock
           /\ removal' = [removal EXCEPT ![th].stage = "topics"]
           /\ UNCHANGED <<place, wpc, status>>
  <2>1. r.sock \in Descriptors
    BY <1>1, <1>4 DEF ListenerInv, ListInv, ListTypeOK, Descriptors
  <2>2. RemovalInv'
    BY <1>1, <1>2, <1>4, <2>1 DEF RemovalInv, Removal, Threads
  <2>. QED  BY <1>1, <1>2, <1>4, <2>2, SameList, SameWorker
<1>5. CASE /\ removal' = [removal EXCEPT ![th].idx = removal[th].idx + 1]
           /\ UNCHANGED <<place, wpc, status>>
  <2>1. RemovalInv'
    BY <1>1, <1>2, <1>5 DEF RemovalInv, Removal, Threads
  <2>. QED  BY <1>1, <1>2, <1>5, <2>1, SameList, SameWorker
<1>. QED  BY <1>3, <1>4, <1>5, SearchSteps

LEMMA RemoveTopicKeeps ==
  ASSUME ServerInv, NEW th \in Threads, RemoveTopic(th)
  PROVE  ServerInv'
<1>. USE DEF ServerInv
<1>. DEFINE r == removal[th]
            names == metadata[r.idx].topics
            i == IndexIn(table[names[r.next]], r.sock)
<1>1. /\ r.stage = "topics" /\ r \in Removal /\ r.next > 0 /\ r.sock \in Descriptors
      /\ UNCHANGED <<fds, metadata, fdsCap, metadataCap, result, clientVars, peer, inbox, revents,
                     mainVars, widx, wlen>>
  BY DEF RemoveTopic, RemovalInv
<1>2. KernelInv' /\ MainInv'
  BY <1>1, SameKernel, SameMain DEF clientVars, mainVars
<1>3. UNCHANGED marked
  BY <1>1 DEF mainVars
<1>4. \/ status' = "undefined" /\ UNCHANGED <<removal, table, place, wpc>>
      \/ /\ removal' = [removal EXCEPT ![th].stage = "close"]
         /\ UNCHANGED <<table, place, wpc, status>>
      \/ /\ r.idx \in DOMAIN metadata /\ r.next <= Len(names) /\ i # 0
         /\ table' = [table EXCEPT ![names[r.next]] = CutOff(table[names[r.next]], i)]
         /\ removal' = [removal EXCEPT ![th].next = removal[th].next + 1]
         /\ UNCHANGED <<place, wpc, status>>
      \/ /\ UNCHANGED table
         /\ \/ RemoveFails(th)
            \/ /\ removal' = [removal EXCEPT ![th].next = removal[th].next + 1]
               /\ UNCHANGED <<place, wpc, status>>
  BY DEF RemoveTopic
<1>. HIDE DEF i
<1>5. CASE status' = "undefined" /\ UNCHANGED <<removal, table, place, wpc>>
  BY <1>1, <1>2, <1>3, <1>5, SameList, SameWorker, SameRemoval, SameTable
<1>6. CASE /\ removal' = [removal EXCEPT ![th].stage = "close"]
           /\ UNCHANGED <<table, place, wpc, status>>
  <2>1. RemovalInv'
    BY <1>1, <1>3, <1>6 DEF RemovalInv, Removal, Threads
  <2>. QED  BY <1>1, <1>2, <1>6, <2>1, SameList, SameWorker, SameTable
<1>7. RemovalInv' \/ removal' # [removal EXCEPT ![th].next = removal[th].next + 1]
  BY <1>1, <1>3 DEF RemovalInv, Removal, Threads
<1>8. CASE /\ r.idx \in DOMAIN metadata /\ r.next <= Len(names) /\ i # 0
           /\ table' = [table EXCEPT ![names[r.next]] = CutOff(table[names[r.next]], i)]
           /\ removal' = [removal EXCEPT ![th].next = removal[th].next + 1]
           /\ UNCHANGED <<place, wpc, status>>
  <2>1. names[r.next] \in Topics
    <3>1. metadata \in Seq(Metadata)
      BY DEF ListenerInv, ListInv, ListTypeOK
    <3>2. names \in Seq(Topics)
      <4>1. metadata[r.idx] \in Metadata
        BY <1>8, <3>1
      <4>. QED  BY <4>1 DEF Metadata
    <3>3. r.next \in 1..Len(names)
      BY <1>1, <1>8, <3>2 DEF Removal
    <3>. QED  BY <3>2, <3>3
  <2>2. /\ table[names[r.next]] \in Entry
        /\ table[names[r.next]].len <= Len(table[names[r.next]].cells)
    BY <2>1 DEF TableInv
  <2>3. i \in 1..table[names[r.next]].len
    BY <1>8, <2>2, IndexInFinds DEF i
  <2>4. TableInv'
    BY <1>8, <2>1, <2>2, <2>3, CutOffKeeps DEF TableInv
  <2>. QED  BY <1>1, <1>2, <1>7, <1>8, <2>4, SameList, SameWorker
<1>9. CASE UNCHANGED table /\ RemoveFails(th)
  BY <1>1, <1>2, <1>3, <1>9, FailsKeeps, SameList, SameTable
<1>10. CASE /\ removal' = [removal EXCEPT ![th].next = removal[th].next + 1]
            /\ UNCHANGED <<table, place, wpc, status>>
  BY <1>1, <1>2, <1>7, <1>10, SameList, SameWorker, SameTable
<1>. QED  BY <1>4, <1>5, <1>6, <1>8, <1>9, <1>10

LEMMA RemoveCloseKeeps ==
  ASSUME ServerInv, NEW th \in Threads, RemoveClose(th)
  PROVE  ServerInv'
<1>. USE DEF ServerInv
<1>1. /\ peer' = [peer EXCEPT ![removal[th].sock] = NoClient]
      /\ removal' = [removal EXCEPT ![th].stage = "list"]
      /\ UNCHANGED <<listVars, clientVars, inbox, sharedVars, mainVars, workerVars>>
      /\ removal[th].stage \notin {"none", "search"}
  BY DEF RemoveClose
<1>2. KernelInv'
  BY <1>1 DEF KernelInv, clientVars
<1>3. RemovalInv'
  BY <1>1 DEF RemovalInv, Removal, Threads, mainVars
<1>. QED  BY <1>1, <1>2, <1>3, SameList, SameMain, SameWorker, SameTable
          DEF listVars, sharedVars, mainVars, workerVars

\* The listener is in front and no descriptor of a client: the last pollfd never
\* takes its place.
LEMMA ListenerStays ==
  ASSUME ListenerInv, NEW s \in Descriptors, ListRemove(s),
         revents' = SwapRemove(revents, GetIdx(s))
  PROVE  ListenerInv'
<1>. DEFINE i == GetIdx(s)
<1>1. ListInv'
  BY RemoveKeeps DEF ListenerInv
<1>2. fds \in Seq(Sockets) /\ i \in Nat /\ (i # 0 => i \in 1..Len(fds) /\ fds[i] = s)
  BY GetIdxFinds DEF ListenerInv, ListInv, ListTypeOK
<1>3. i # 1
  BY <1>2 DEF ListenerInv, Descriptors
<1>4. CASE i = 0
  <2>1. fds' = fds
    BY <1>4, <1>2 DEF ListRemove
  <2>2. revents' = revents
    BY <1>2, <1>4, SwapRemoveProperties DEF ListenerInv
  <2>. QED  BY <1>1, <2>1, <2>2 DEF ListenerInv
<1>5. CASE i \in 2..Len(fds)
  <2>1. fds' = SwapRemove(fds, i) /\ revents' = SwapRemove(revents, i)
    BY <1>5 DEF ListRemove
  <2>. HIDE DEF i
  <2>6. i \in 1..Len(fds) /\ revents \in Seq(Revents) /\ Len(revents) = Len(fds)
    BY <1>2, <1>5 DEF ListenerInv
  <2>2. /\ fds' \in Seq(Sockets) /\ Len(fds') = Len(fds) - 1
        /\ \A j \in 1..(Len(fds) - 1) : fds'[j] = IF j = i THEN fds[Len(fds)] ELSE fds[j]
    BY <1>2, <2>1, <2>6, SwapRemoveProperties
  <2>3. revents' \in Seq(Revents) /\ Len(revents') = Len(revents) - 1
    BY <1>2, <2>1, <2>6, SwapRemoveTakes, Zenon
  <2>4. fds' # <<>> /\ fds'[1] = Listener
    BY <1>2, <1>5, <2>2 DEF ListenerInv
  <2>5. \A j \in 2..Len(fds') : fds'[j] # Listener
    BY <1>2, <1>5, <2>2 DEF ListenerInv
  <2>. QED  BY <1>1, <2>2, <2>3, <2>4, <2>5, <2>6 DEF ListenerInv
<1>. QED  BY <1>2, <1>3, <1>4, <1>5

LEMMA RemoveFromListKeeps ==
  ASSUME ServerInv, NEW th \in Threads, RemoveFromList(th)
  PROVE  ServerInv'
<1>. USE DEF ServerInv
<1>1. /\ ListRemove(removal[th].sock)
      /\ revents' = SwapRemove(revents, GetIdx(removal[th].sock))
      /\ removal' = [removal EXCEPT ![th] = NotRemoving]
      /\ UNCHANGED <<clientVars, peer, inbox, table, mpc, polled, slot, hand, widx, wlen, disturbed>>
      /\ removal[th].stage \notin {"none", "search"}
  BY DEF RemoveFromList
<1>2. removal[th].sock \in Descriptors
  BY <1>1 DEF RemovalInv
<1>3. ListenerInv'
  BY <1>1, <1>2, ListenerStays
<1>4. KernelInv' /\ TableInv'
  BY <1>1, SameKernel, SameTable DEF clientVars
<1>5. NotRemoving \in Removal /\ NotRemoving.stage = "none"
  BY SocketsAssumption DEF NotRemoving, Removal
<1>6. CASE th = "main"
  <2>1. marked' = Tail(marked) /\ UNCHANGED <<place, wpc>>
    BY <1>6 DEF RemoveFromList
  <2>2. marked # <<>>
    BY <1>1, <1>6 DEF RemovalInv
  <2>3. marked' \in Seq(Descriptors \cup {NoSocket})
    BY <2>1, <2>2, HeadTailProperties DEF MainInv
  <2>4. MainInv'
    BY <1>1, <2>3 DEF MainInv
  <2>5. RemovalInv'
    BY <1>1, <1>5, <1>6 DEF RemovalInv, Threads
  <2>. QED  BY <1>3, <1>4, <2>1, <2>4, <2>5, SameWorker
<1>7. CASE th = "worker"
  <2>1. place' = <<>> /\ wpc' = "idle" /\ UNCHANGED marked
    BY <1>7 DEF RemoveFromList
  <2>2. MainInv' /\ WorkerInv'
    BY <1>1, <2>1, SameMain DEF WorkerInv
  <2>3. RemovalInv'
    BY <1>1, <1>5, <2>1 DEF RemovalInv, Threads
  <2>. QED  BY <1>3, <1>4, <2>2, <2>3
<1>. QED  BY <1>6, <1>7 DEF Threads

-------------------------------------------------------------------------------
(* The dispatcher *)

LEMMA PollKeeps ==
  ASSUME ServerInv, PollCall \/ PollReturn \/ ScanEnd
  PROVE  ServerInv'
<1>. USE DEF ServerInv
<1>1. /\ UNCHANGED <<listVars, clientVars, peer, table, place, hand, marked, workerVars, removal>>
      /\ slot' \in {slot, 0, 1}
      /\ mpc' \in {"polling", "scan", "remove"}
  BY DEF PollCall, PollReturn, ScanEnd, sharedVars
<1>2. KernelInv' /\ WorkerInv' /\ RemovalInv' /\ TableInv'
  BY <1>1, SameKernel, SameWorker, SameRemoval, SameTable DEF clientVars, workerVars
<1>3. MainInv'
  BY <1>1 DEF MainInv
<1>4. revents' \in Seq(Revents) /\ Len(revents') = Len(revents)
  <2>1. CASE PollCall
    BY <2>1 DEF PollCall, sharedVars, ListenerInv
  <2>2. CASE PollReturn
    <3>1. PICK found \in [DOMAIN polled -> Revents] :
            revents' = [j \in DOMAIN revents |-> IF j \in DOMAIN polled THEN found[j] ELSE revents[j]]
      BY <2>2 DEF PollReturn, Revents
    <3>2. revents \in Seq(Revents)
      BY DEF ListenerInv
    <3>. QED  BY <3>1, <3>2
  <2>3. CASE ScanEnd
    BY <2>3 DEF ScanEnd, ListenerInv, Revents
  <2>. QED  BY <2>1, <2>2, <2>3
<1>5. ListenerInv'
  <2>1. ListInv' /\ UNCHANGED fds
    BY <1>1 DEF ListenerInv, ListInv, ListTypeOK, InStep, RoomInv, listVars
  <2>. QED  BY <1>4, <2>1 DEF ListenerInv
<1>. QED  BY <1>2, <1>3, <1>5

LEMMA ExamineKeeps ==
  ASSUME ServerInv, Examine
  PROVE  ServerInv'
<1>. USE DEF ServerInv
<1>1. UNCHANGED <<listVars, clientVars, peer, inbox, sharedVars, polled, marked, workerVars, removal, stale>>
  BY DEF Examine
<1>2. KernelInv' /\ ListenerInv' /\ WorkerInv' /\ TableInv' /\ RemovalInv'
  BY <1>1, SameKernel, SameList, SameWorker, SameTable, SameRemoval
     DEF clientVars, workerVars, sharedVars, listVars
<1>3. /\ slot \in DOMAIN fds /\ mpc = "scan" /\ slot \in Nat
      /\ fds \in Seq(Sockets)
  BY DEF Examine, ListenerInv, ListInv, ListTypeOK, MainInv
<1>4. fds[slot] # Listener => slot > 1 /\ fds[slot] \in Descriptors
  BY <1>3 DEF ListenerInv, Descriptors
<1>5. CASE mpc' \in {"scan", "accept"} /\ slot' \in {slot, slot + 1}
  BY <1>1, <1>2, <1>3, <1>5 DEF MainInv
<1>6. CASE fds[slot] # Listener /\ hand' = <<fds[slot]>> /\ mpc' \in {"mark", "test"} /\ UNCHANGED slot
  BY <1>1, <1>2, <1>3, <1>4, <1>6 DEF MainInv
<1>. QED  BY <1>3, <1>5, <1>6 DEF Examine

\* At the slot of a client is its descriptor, or the array has become shorter.
LEMMA FdAgainIs ==
  ASSUME ListenerInv, MainInv, mpc \in {"test", "mark", "hand"}
  PROVE  /\ slot \in DOMAIN fds => fds[slot] \in Descriptors
         /\ FdAgain \in Descriptors \cup {NoSocket}
<1>1. hand[1] \in Descriptors /\ slot > 1 /\ slot \in Nat
  BY DEF MainInv
<1>2. fds \in Seq(Sockets)
  BY DEF ListenerInv, ListInv, ListTypeOK
<1>3. slot \in DOMAIN fds => slot \in 2..Len(fds)
  BY <1>1, <1>2
<1>4. slot \in DOMAIN fds => fds[slot] \in Descriptors
  BY <1>3, SlotOfClient
<1>. QED  BY <1>1, <1>4 DEF FdAgain

LEMMA TestKeeps ==
  ASSUME ServerInv, Test
  PROVE  ServerInv'
<1>. USE DEF ServerInv
<1>1. /\ UNCHANGED <<listVars, clientVars, peer, inbox, sharedVars, polled, marked, workerVars, removal, stale>>
      /\ mpc = "test"
  BY DEF Test
<1>2. KernelInv' /\ ListenerInv' /\ WorkerInv' /\ TableInv' /\ RemovalInv'
  BY <1>1, SameKernel, SameList, SameWorker, SameTable, SameRemoval
     DEF clientVars, workerVars, sharedVars, listVars
<1>3. slot \in Nat /\ slot > 1 /\ hand[1] \in Descriptors
  BY <1>1 DEF MainInv
<1>4. slot \in DOMAIN fds => fds[slot] \in Descriptors
  BY <1>1, FdAgainIs
<1>5. CASE mpc' = "scan" /\ slot' = slot + 1
  BY <1>1, <1>2, <1>3, <1>5 DEF MainInv
<1>6. CASE mpc' = "read" /\ UNCHANGED slot
  BY <1>1, <1>2, <1>3, <1>6 DEF MainInv
<1>7. CASE /\ mpc' = "mark" /\ UNCHANGED slot
           /\ hand' = IF slot \in DOMAIN fds THEN <<fds[slot]>> ELSE hand
  BY <1>1, <1>2, <1>3, <1>4, <1>7 DEF MainInv
<1>. QED  BY <1>5, <1>6, <1>7 DEF Test

LEMMA MarkKeeps ==
  ASSUME ServerInv, Mark
  PROVE  ServerInv'
<1>. USE DEF ServerInv
<1>1. /\ UNCHANGED <<listVars, clientVars, peer, inbox, sharedVars, polled, workerVars, removal, stale>>
      /\ mpc = "mark" /\ mpc' = "scan" /\ slot' = slot + 1
      /\ marked' = Append(marked, FdAgain)
  BY DEF Mark
<1>2. KernelInv' /\ ListenerInv' /\ WorkerInv' /\ TableInv'
  BY <1>1, SameKernel, SameList, SameWorker, SameTable DEF clientVars, workerVars, sharedVars, listVars
<1>3. PICK s \in Descriptors \cup {NoSocket} : s = FdAgain
  BY <1>1, FdAgainIs
<1>4. marked' \in Seq(Descriptors \cup {NoSocket}) /\ marked' # <<>>
  BY <1>1, <1>3, AppendProperties DEF MainInv
<1>5. MainInv'
  BY <1>1, <1>4 DEF MainInv
<1>. QED  BY <1>1, <1>2, <1>4, <1>5, SameRemoval

LEMMA AcceptKeeps ==
  ASSUME ServerInv, Accept
  PROVE  ServerInv'
<1>. USE DEF ServerInv
<1>1. UNCHANGED <<listVars, conn, outbox, sent, inbox, broken, sharedVars, polled, marked, workerVars, removal>>
  BY DEF Accept
<1>2. ListenerInv' /\ WorkerInv' /\ RemovalInv' /\ TableInv'
  BY <1>1, SameList, SameWorker, SameRemoval, SameTable DEF workerVars, sharedVars, listVars
<1>3. CASE mpc' = "scan" /\ slot' = slot + 1 /\ UNCHANGED <<pending, peer, hand, stale>>
  BY <1>1, <1>2, <1>3, SameKernel DEF MainInv
<1>4. CASE \E f \in Free :
             /\ pending # <<>>
             /\ peer' = [peer EXCEPT ![f] = Head(pending)] /\ hand' = <<f>>
             /\ pending' = Tail(pending) /\ mpc' = "greet" /\ UNCHANGED slot
  <2>1. PICK f \in Free :
             /\ pending # <<>>
             /\ peer' = [peer EXCEPT ![f] = Head(pending)] /\ hand' = <<f>>
             /\ pending' = Tail(pending) /\ mpc' = "greet" /\ UNCHANGED slot
    BY <1>4
  <2>2. f \in Descriptors
    BY DEF Free
  <2>3. Head(pending) \in Clients /\ Tail(pending) \in Seq(Clients)
    BY <2>1, HeadTailProperties DEF KernelInv
  <2>4. KernelInv'
    BY <1>1, <2>1, <2>3 DEF KernelInv
  <2>5. MainInv'
    BY <1>1, <2>1, <2>2 DEF MainInv
  <2>. QED  BY <1>2, <2>4, <2>5
<1>. QED  BY <1>3, <1>4 DEF Accept

LEMMA GreetKeeps ==
  ASSUME ServerInv, Greet
  PROVE  ServerInv'
<1>. USE DEF ServerInv
<1>1. /\ UNCHANGED <<clientVars, peer, table, place, polled, marked, workerVars, removal, stale>>
      /\ mpc = "greet" /\ mpc' = "scan" /\ slot' = slot + 1
  BY DEF Greet
<1>2. KernelInv' /\ WorkerInv' /\ RemovalInv' /\ TableInv'
  BY <1>1, SameKernel, SameWorker, SameRemoval, SameTable DEF clientVars, workerVars
<1>3. MainInv'
  BY <1>1 DEF MainInv
<1>4. ListenerInv'
  <2>1. CASE ListAppend(hand[1]) /\ revents' = Append(revents, "none")
    <3>1. hand[1] \in Descriptors /\ hand[1] \in Sockets /\ hand[1] # Listener
      BY <1>1 DEF MainInv, Descriptors
    <3>2. ListInv'
      BY <2>1, <3>1, AppendKeeps DEF ListenerInv
    <3>3. fds \in Seq(Sockets) /\ fds' = Append(fds, hand[1])
      BY <2>1 DEF ListenerInv, ListInv, ListTypeOK, ListAppend
    <3>4. /\ Len(fds') = Len(fds) + 1 /\ fds' # <<>>
          /\ \A i \in 1..Len(fds) : fds'[i] = fds[i]
          /\ fds'[Len(fds) + 1] = hand[1]
      BY <3>1, <3>3, AppendProperties
    <3>5. fds'[1] = Listener /\ \A i \in 2..Len(fds') : fds'[i] # Listener
      BY <3>1, <3>3, <3>4 DEF ListenerInv
    <3>6. revents' \in Seq(Revents) /\ Len(revents') = Len(revents) + 1
      BY <2>1, AppendProperties DEF ListenerInv, Revents
    <3>. QED  BY <3>2, <3>4, <3>5, <3>6 DEF ListenerInv
  <2>2. CASE UNCHANGED <<listVars, revents>>
    BY <2>2, SameList DEF listVars
  <2>3. CASE status' = "exited" /\ UNCHANGED <<fds, metadata, fdsCap, metadataCap, result, revents>>
    BY <2>3, SameList
  <2>. QED  BY <2>1, <2>2, <2>3 DEF Greet, Killed
<1>. QED  BY <1>2, <1>3, <1>4

\* The clients whose messages are in q.
Senders(q) == {q[i].by : i \in DOMAIN q}

\* A part of a message is of the same client, whatever it is taken for,
LEMMA PartsAre ==
  ASSUME NEW m \in Message
  PROVE  /\ RestOf(m) \in Message /\ RestOf(m).by = m.by
         /\ \A l \in Misread(m) : l \in Message /\ l.by = m.by
BY DEF RestOf, Misread, Message

\* and so is what is left of it.
LEMMA LeavesAre ==
  ASSUME NEW q \in Seq(Message), q # <<>>, NEW l \in Leaves(q)
  PROVE  l \in Seq(Message) /\ Senders(l) \subseteq Senders(q)
<1>1. ASSUME NEW k \in 2..(Len(q) + 1), l = SubSeq(q, k, Len(q))
      PROVE  l \in Seq(Message) /\ Senders(l) \subseteq Senders(q)
  <2>1. l \in Seq(Message) /\ Len(l) = Len(q) - k + 1 /\ \A i \in 1..Len(l) : l[i] = q[i + k - 1]
    BY <1>1
  <2>2. \A i \in 1..Len(l) : i + k - 1 \in 1..Len(q)
    BY <2>1
  <2>. QED  BY <2>1, <2>2 DEF Senders
<1>2. ASSUME NEW k \in 2..(Len(q) + 1), l = <<RestOf(q[k - 1])>> \o SubSeq(q, k, Len(q))
      PROVE  l \in Seq(Message) /\ Senders(l) \subseteq Senders(q)
  <2>1. q[k - 1] \in Message /\ k - 1 \in 1..Len(q)
    OBVIOUS
  <2>2. PICK r \in Message : r = RestOf(q[k - 1]) /\ r.by = q[k - 1].by
    BY <2>1, PartsAre
  <2>3. PICK t \in Seq(Message) : t = SubSeq(q, k, Len(q)) /\ Len(t) = Len(q) - k + 1
                                   /\ \A i \in 1..Len(t) : t[i] = q[i + k - 1]
    <3>. DEFINE t == SubSeq(q, k, Len(q))
    <3>1. t \in Seq(Message) /\ Len(t) = Len(q) - k + 1 /\ \A i \in 1..Len(t) : t[i] = q[i + k - 1]
      OBVIOUS
    <3>. HIDE DEF t
    <3>2. t = SubSeq(q, k, Len(q))
      BY DEF t
    <3>. QED  BY <3>1, <3>2
  <2>4. l = <<r>> \o t
    BY <1>2, <2>2, <2>3
  <2>5. l \in Seq(Message) /\ Len(l) = Len(t) + 1 /\ l[1] = r /\ \A i \in 2..Len(l) : l[i] = t[i - 1]
    BY <2>4
  <2>6. \A i \in 2..Len(l) : i + k - 2 \in 1..Len(q) /\ l[i] = q[i + k - 2]
    BY <2>3, <2>5
  <2>7. ASSUME NEW i \in 1..Len(l) PROVE \E j \in 1..Len(q) : l[i].by = q[j].by
    <3>1. CASE i = 1
      BY <2>1, <2>2, <2>5, <3>1
    <3>2. CASE i # 1
      <4>1. i \in 2..Len(l)
        BY <2>5, <3>2
      <4>2. i + k - 2 \in 1..Len(q) /\ l[i] = q[i + k - 2]
        BY <2>6, <4>1
      <4>. QED  BY <4>2
    <3>. QED  BY <3>1, <3>2
  <2>. QED  BY <2>5, <2>7 DEF Senders
<1>3. CASE Head(q).type # "rest"
  <2>1. l = <<RestOf(q[1])>> \o Tail(q)
    BY <1>3 DEF Leaves
  <2>2. 2 \in 2..(Len(q) + 1) /\ Tail(q) = SubSeq(q, 2, Len(q))
    BY EmptySeq
  <2>3. l = <<RestOf(q[2 - 1])>> \o SubSeq(q, 2, Len(q))
    BY <2>1, <2>2
  <2>. QED  BY <1>2, <2>2, <2>3
<1>4. CASE Head(q).type = "rest"
  <2>1. l \in UNION {{SubSeq(q, k, Len(q)), <<RestOf(q[k - 1])>> \o SubSeq(q, k, Len(q))} :
                       k \in 2..(Len(q) + 1)}
    BY <1>4 DEF Leaves
  <2>. QED  BY <1>1, <1>2, <2>1
<1>. QED  BY <1>3, <1>4

\* A read from client c that leaves q of its messages.
Reads(c, q) ==
  /\ slot \in DOMAIN fds /\ peer[fds[slot]] = c
  /\ outbox' = [outbox EXCEPT ![c] = q] /\ Senders(q) \subseteq Senders(outbox[c])
  /\ broken' \in {broken, broken \cup {c}}
  /\ c \in broken' \/ q = outbox[c] \/ (outbox[c] # <<>> /\ q = Tail(outbox[c]))
  /\ \/ status' = "undefined" /\ c \in broken' /\ UNCHANGED <<hand, mpc>>
     \/ UNCHANGED status /\ NoMessages /\ (Closed(c) \/ c \in broken')
     \/ UNCHANGED status /\ outbox[c] # <<>>
          /\ \E m \in Message : /\ HandOver(m) /\ m.by \in Senders(outbox[c])
                                /\ c \in broken' \/ (m = Head(outbox[c]) /\ q = Tail(outbox[c]))

LEMMA ReadTakes ==
  ASSUME KernelInv, Read
  PROVE  \/ RecvFails
         \/ \E c \in Clients, q \in Seq(Message) : Reads(c, q)
<1>1. CASE RecvFails
  BY <1>1
<1>2. ASSUME NEW c \in Clients, slot \in DOMAIN fds, peer[fds[slot]] = c,
             ReadOne(c) \/ ReadPart(c) \/ ReadAstray(c) \/ ReadNothing(c)
      PROVE  \E q \in Seq(Message) : Reads(c, q)
  <2>1. PICK p \in Seq(Message) : p = outbox[c]
    BY DEF KernelInv
  <2>2. p # <<>> => /\ Head(p) \in Message /\ Head(p).by \in Senders(p)
                    /\ Tail(p) \in Seq(Message) /\ Senders(Tail(p)) \subseteq Senders(p)
    <3>. SUFFICES ASSUME p # <<>>
                  PROVE  /\ Head(p) \in Message /\ Head(p).by \in Senders(p)
                         /\ Tail(p) \in Seq(Message) /\ Senders(Tail(p)) \subseteq Senders(p)
      OBVIOUS
    <3>1. 1 \in 1..Len(p) /\ Head(p) = p[1] /\ Head(p) \in Message
      BY HeadTailProperties, EmptySeq
    <3>2. /\ Tail(p) \in Seq(Message) /\ Len(Tail(p)) = Len(p) - 1
          /\ \A i \in 1..Len(Tail(p)) : Tail(p)[i] = p[i + 1] /\ i + 1 \in 1..Len(p)
      OBVIOUS
    <3>. QED  BY <3>1, <3>2 DEF Senders
  <2>3. CASE ReadOne(c)
    <3>1. Reads(c, Tail(p))
      BY <1>2, <2>1, <2>2, <2>3 DEF ReadOne, Reads
    <3>. QED  BY <2>2, <2>3, <3>1, <2>1 DEF ReadOne
  <2>4. CASE ReadPart(c)
    <3>1. PICK l \in Leaves(p) : outbox' = [outbox EXCEPT ![c] = l]
      BY <2>1, <2>4 DEF ReadPart
    <3>2. p # <<>> /\ broken' = broken \cup {c} /\ c \in broken' /\ UNCHANGED status
      BY <2>1, <2>4 DEF ReadPart
    <3>3. l \in Seq(Message) /\ Senders(l) \subseteq Senders(p)
      BY <3>2, LeavesAre
    <3>4. NoMessages \/ \E m \in Misread(Head(p)) : HandOver(m)
      BY <2>1, <2>4 DEF ReadPart
    <3>5. NoMessages \/ \E m \in Message : HandOver(m) /\ m.by \in Senders(p)
      BY <2>2, <3>2, <3>4, PartsAre
    <3>6. Reads(c, l)
      BY <1>2, <2>1, <3>1, <3>2, <3>3, <3>5 DEF Reads
    <3>. QED  BY <3>3, <3>6
  <2>5. CASE ReadAstray(c) \/ ReadNothing(c)
    <3>1. outbox' = [outbox EXCEPT ![c] = p]
      BY <2>1, <2>5 DEF ReadAstray, ReadNothing, KernelInv
    <3>2. Reads(c, p)
      BY <1>2, <2>1, <2>5, <3>1 DEF ReadAstray, ReadNothing, Reads
    <3>. QED  BY <3>2
  <2>. QED  BY <1>2, <2>3, <2>4, <2>5
<1>. QED  BY <1>1, <1>2 DEF Read

LEMMA ReadKeeps ==
  ASSUME ServerInv, Read
  PROVE  ServerInv'
<1>. USE DEF ServerInv
<1>1. /\ UNCHANGED <<fds, metadata, fdsCap, metadataCap, result, conn, pending, sent, peer, inbox,
                     sharedVars, polled, slot, marked, workerVars, removal, stale>>
      /\ mpc = "read" /\ slot \in Nat /\ slot > 1
  BY DEF Read, MainInv
<1>2. WorkerInv' /\ TableInv' /\ RemovalInv'
  BY <1>1, SameWorker, SameTable, SameRemoval DEF workerVars, sharedVars
<1>3. UNCHANGED revents
  BY <1>1 DEF sharedVars
<1>4. CASE RecvFails
  <2>1. status' = "undefined" /\ UNCHANGED <<outbox, broken, hand, mpc>>
    BY <1>4 DEF RecvFails
  <2>. QED  BY <1>1, <1>2, <1>3, <2>1, SameKernel, SameList, SameMain
<1>5. ASSUME NEW c \in Clients, NEW q \in Seq(Message), Reads(c, q)
      PROVE  ServerInv'
  <2>1. fds[slot] \in Descriptors
    <3>1. fds \in Seq(Sockets)
      BY DEF ListenerInv, ListInv, ListTypeOK
    <3>2. slot \in 2..Len(fds)
      BY <1>1, <1>5, <3>1 DEF Reads
    <3>. QED  BY <3>2, SlotOfClient
  <2>2. KernelInv'
    BY <1>1, <1>5 DEF KernelInv, Reads
  <2>3. \/ UNCHANGED <<hand, mpc>>
        \/ mpc' = "mark" /\ hand' = <<fds[slot]>>
        \/ mpc' = "hand" /\ \E m \in Message : hand' = <<fds[slot], m>>
    BY <1>5, Zenon DEF Reads, NoMessages, HandOver
  <2>4. MainInv'
    BY <1>1, <2>1, <2>3 DEF MainInv
  <2>5. status' \in {status, "undefined"}
    BY <1>5 DEF Reads
  <2>. QED  BY <1>1, <1>2, <1>3, <2>2, <2>4, <2>5, SameList
<1>. QED  BY <1>4, <1>5, ReadTakes

LEMMA HandKeeps ==
  ASSUME ServerInv, Take \/ Refuse
  PROVE  ServerInv'
<1>. USE DEF ServerInv
<1>1. /\ UNCHANGED <<listVars, clientVars, peer, inbox, revents, table, polled, marked,
                     workerVars, removal, stale>>
      /\ mpc = "hand" /\ mpc' = "scan" /\ slot' = slot + 1
  BY DEF Take, Refuse, sharedVars
<1>2. KernelInv' /\ ListenerInv' /\ RemovalInv' /\ TableInv'
  BY <1>1, SameKernel, SameList, SameRemoval, SameTable DEF clientVars, listVars
<1>3. MainInv'
  BY <1>1 DEF MainInv
<1>4. WorkerInv'
  <2>1. CASE Take
    <3>1. PICK s \in Descriptors \cup {NoSocket} : s = FdAgain
      BY <1>1, FdAgainIs
    <3>2. hand[2] \in Message
      BY <1>1 DEF MainInv
    <3>3. s \in Descriptors /\ place' = <<[from |-> s, msg |-> hand[2]]>>
      BY <2>1, <3>1 DEF Take
    <3>4. [from |-> s, msg |-> hand[2]] \in Event
      BY <3>2, <3>3 DEF Event
    <3>5. place' \in Seq(Event) /\ Len(place') = 1 /\ place' # <<>>
      BY <3>3, <3>4
    <3>. QED  BY <3>5 DEF WorkerInv
  <2>2. CASE Refuse
    BY <2>2, SameWorker DEF Refuse, sharedVars, workerVars
  <2>. QED  BY <2>1, <2>2
<1>. QED  BY <1>2, <1>3, <1>4

LEMMA MarkedKeeps ==
  ASSUME ServerInv, RemoveMarked \/ AllRemoved
  PROVE  ServerInv'
<1>. USE DEF ServerInv
<1>1. CASE RemoveMarked
  <2>1. /\ UNCHANGED <<listVars, clientVars, peer, inbox, sharedVars, mainVars, workerVars, stale>>
        /\ marked # <<>> /\ RemoveStart("main", Head(marked))
    BY <1>1 DEF RemoveMarked
  <2>2. KernelInv' /\ ListenerInv' /\ MainInv' /\ WorkerInv' /\ TableInv'
    BY <2>1, SameKernel, SameList, SameMain, SameWorker, SameTable
       DEF clientVars, sharedVars, mainVars, workerVars, listVars
  <2>3. Head(marked) \in Descriptors \cup {NoSocket}
    BY <2>1, HeadTailProperties DEF MainInv
  <2>4. UNCHANGED marked /\ "main" \in Threads
    BY <2>1 DEF mainVars, Threads
  <2>5. RemovalInv'
    BY <2>1, <2>3, <2>4, StartKeeps
  <2>. QED  BY <2>2, <2>5
<1>2. CASE AllRemoved
  <2>1. /\ UNCHANGED <<listVars, clientVars, peer, inbox, sharedVars, polled, slot, hand, marked,
                       workerVars, removal, stale>>
        /\ mpc' = "poll"
    BY <1>2 DEF AllRemoved
  <2>2. MainInv'
    BY <2>1 DEF MainInv
  <2>. QED  BY <2>1, <2>2, SameKernel, SameList, SameWorker, SameRemoval, SameTable
            DEF listVars, clientVars, sharedVars, workerVars
<1>. QED  BY <1>1, <1>2

-------------------------------------------------------------------------------
(* The worker *)

\* What most of the worker's steps leave alone.
LEMMA WorkerFrame ==
  ASSUME ServerInv,
         UNCHANGED <<fds, metadata, fdsCap, metadataCap, result, clientVars, peer, revents, mainVars>>,
         status' \in {status, "exited", "undefined"}
  PROVE  KernelInv' /\ ListenerInv' /\ MainInv'
BY SameKernel, SameList, SameMain DEF ServerInv, clientVars, mainVars

LEMMA DoneKeeps ==
  ASSUME Done
  PROVE  WorkerInv'
<1>1. place' = <<>> /\ wpc' = "idle"
  BY DEF Done
<1>. QED  BY <1>1 DEF WorkerInv

\* The event a busy worker handles.
LEMMA EventOfWorker ==
  ASSUME WorkerInv, Busy
  PROVE  event.from \in Descriptors /\ msg.topic \in Topics /\ place \in Seq(Event) /\ Len(place) = 1
<1>1. place \in Seq(Event) /\ Len(place) = 1
  <2>1. place \in Seq(Event) /\ Len(place) <= 1 /\ place # <<>>
    BY DEF WorkerInv, Busy
  <2>2. Len(place) \in Nat \ {0}
    BY <2>1, EmptySeq, Zenon
  <2>3. ASSUME NEW n \in Nat \ {0}, n <= 1 PROVE n = 1
    BY <2>3
  <2>4. Len(place) = 1
    BY <2>1, <2>2, <2>3, Zenon
  <2>. QED  BY <2>1, <2>4
<1>2. place[1].from \in Descriptors /\ place[1].msg \in Message
  <2>1. place[1] \in Event
    BY <1>1, ElementOfSeq
  <2>. QED  BY <2>1 DEF Event
<1>. QED  BY <1>1, <1>2 DEF event, msg, Message

LEMMA FindKeeps ==
  ASSUME ServerInv, FindIndex
  PROVE  ServerInv'
<1>. USE DEF ServerInv
<1>1. /\ UNCHANGED <<fds, metadata, fdsCap, metadataCap, result, clientVars, peer, inbox,
                     sharedVars, mainVars, wlen, disturbed, removal, stale>>
      /\ status' \in {status, "undefined"} /\ place # <<>>
  BY DEF FindIndex, Handles, Busy
<1>2. UNCHANGED <<revents, table, place, marked>>
  BY <1>1 DEF sharedVars, mainVars
<1>3. WorkerInv'
  BY <1>1, <1>2 DEF WorkerInv
<1>. QED  BY <1>1, <1>2, <1>3, WorkerFrame, SameRemoval, SameTable

LEMMA InsertKeepsList ==
  ASSUME ListenerInv, NEW i \in DOMAIN metadata, NEW topic \in Topics,
         metadata' = [metadata EXCEPT ![i].topics = Append(@, topic)],
         UNCHANGED <<fds, fdsCap, metadataCap, status, result, revents>>
  PROVE  ListenerInv'
<1>1. metadata \in Seq(Metadata) /\ i \in 1..Len(metadata)
  BY DEF ListenerInv, ListInv, ListTypeOK
<1>2. metadata[i] \in Metadata
  BY <1>1
<1>. DEFINE m == [metadata[i] EXCEPT !.topics = Append(@, topic)]
<1>3. m \in Metadata /\ m.owner = metadata[i].owner
  <2>1. metadata[i].topics \in Seq(Topics) /\ metadata[i].owner \in Sockets
    BY <1>2 DEF Metadata
  <2>2. Append(metadata[i].topics, topic) \in Seq(Topics)
    BY <2>1, AppendProperties
  <2>3. m = [owner |-> metadata[i].owner, topics |-> Append(metadata[i].topics, topic)]
    <3>1. ASSUME NEW r \in [owner : Sockets, topics : Seq(Topics)], NEW t \in Seq(Topics)
          PROVE  [r EXCEPT !.topics = t] = [owner |-> r.owner, topics |-> t]
      OBVIOUS
    <3>. QED  BY <1>2, <2>2, <3>1, Zenon DEF Metadata
  <2>. QED  BY <2>1, <2>2, <2>3 DEF Metadata
<1>4. metadata' = [metadata EXCEPT ![i] = m]
  OBVIOUS
<1>. HIDE DEF m
<1>5. /\ metadata' \in Seq(Metadata) /\ Len(metadata') = Len(metadata)
      /\ \A j \in 1..Len(metadata) : metadata'[j].owner = metadata[j].owner
  <2>1. ASSUME NEW e \in Metadata
        PROVE  /\ [metadata EXCEPT ![i] = e] \in Seq(Metadata)
               /\ Len([metadata EXCEPT ![i] = e]) = Len(metadata)
               /\ \A j \in 1..Len(metadata) :
                    [metadata EXCEPT ![i] = e][j] = IF j = i THEN e ELSE metadata[j]
    BY <1>1
  <2>. DEFINE new == [metadata EXCEPT ![i] = m]
  <2>2. /\ new \in Seq(Metadata) /\ Len(new) = Len(metadata)
        /\ \A j \in 1..Len(metadata) : new[j] = IF j = i THEN m ELSE metadata[j]
    BY <1>3, <2>1, Zenon
  <2>3. metadata' = new
    BY <1>4
  <2>. HIDE DEF new
  <2>. QED  BY <1>3, <2>2, <2>3, Zenon
<1>6. ListTypeOK'
  BY <1>5 DEF ListenerInv, ListInv, ListTypeOK
<1>7. InStep'
  <2>1. fds \in Seq(Sockets)
    BY DEF ListenerInv, ListInv, ListTypeOK
  <2>. QED  BY <1>5, <2>1 DEF ListenerInv, ListInv, InStep
<1>8. RoomInv'
  BY <1>5 DEF ListenerInv, ListInv, RoomInv
<1>. QED  BY <1>6, <1>7, <1>8 DEF ListenerInv, ListInv

LEMMA InsertKeeps ==
  ASSUME ServerInv, InsertTopic
  PROVE  ServerInv'
<1>. USE DEF ServerInv
<1>1. /\ UNCHANGED <<fds, fdsCap, metadataCap, result, clientVars, peer, inbox, revents, table,
                     mainVars, removal>>
      /\ wpc = "insert" /\ place # <<>>
  BY DEF InsertTopic, WorkerInv
<1>2. KernelInv' /\ MainInv' /\ TableInv' /\ RemovalInv'
  BY <1>1, SameKernel, SameMain, SameTable, SameRemoval DEF clientVars, mainVars
<1>3. \/ status' = "undefined" /\ UNCHANGED <<metadata, place, workerVars>>
      \/ Done /\ UNCHANGED <<metadata, status>>
      \/ /\ widx \in DOMAIN metadata
         /\ metadata' = [metadata EXCEPT ![widx].topics = Append(@, msg.topic)]
         /\ UNCHANGED <<place, status>>
  BY DEF InsertTopic
<1>4. CASE status' = "undefined" /\ UNCHANGED <<metadata, place, workerVars>>
  BY <1>1, <1>2, <1>4, SameList, SameWorker DEF workerVars
<1>5. CASE Done /\ UNCHANGED <<metadata, status>>
  BY <1>1, <1>2, <1>5, SameList, DoneKeeps
<1>6. CASE /\ widx \in DOMAIN metadata
           /\ metadata' = [metadata EXCEPT ![widx].topics = Append(@, msg.topic)]
           /\ UNCHANGED <<place, status>>
  <2>1. msg.topic \in Topics
    BY <1>1, EventOfWorker DEF Busy
  <2>2. ListenerInv'
    BY <1>1, <1>6, <2>1, InsertKeepsList
  <2>3. WorkerInv'
    BY <1>1, <1>6 DEF WorkerInv
  <2>. QED  BY <1>2, <2>2, <2>3
<1>. QED  BY <1>3, <1>4, <1>5, <1>6

LEMMA SetKeeps ==
  ASSUME ServerInv, SetTopic
  PROVE  ServerInv'
<1>. USE DEF ServerInv
<1>. DEFINE entry == table[msg.topic]
            cells == CellsOf(entry) \o <<event.from>>
                       \o SubSeq(entry.cells, entry.len + 2, Len(entry.cells))
            new == [known |-> TRUE, len |-> entry.len + 1, cells |-> cells]
<1>1. /\ UNCHANGED <<listVars, clientVars, peer, inbox, revents, mainVars, removal>>
      /\ Done /\ place # <<>>
      /\ table' = [table EXCEPT ![msg.topic] = new]
  BY DEF SetTopic, WorkerInv
<1>2. KernelInv' /\ ListenerInv' /\ MainInv' /\ RemovalInv'
  BY <1>1, WorkerFrame, SameRemoval DEF listVars, mainVars
<1>3. event.from \in Descriptors /\ msg.topic \in Topics
  BY <1>1, EventOfWorker DEF Busy
<1>4. entry \in Entry /\ entry.len <= Len(entry.cells)
  BY <1>3 DEF TableInv
<1>5. entry.cells \in Seq(Descriptors) /\ entry.len \in Nat
  BY <1>4 DEF Entry
<1>6. CellsOf(entry) \in Seq(Descriptors) /\ Len(CellsOf(entry)) = entry.len
  BY <1>4, <1>5 DEF CellsOf
<1>7. SubSeq(entry.cells, entry.len + 2, Len(entry.cells)) \in Seq(Descriptors)
  BY <1>5
<1>. HIDE DEF entry
<1>8. cells \in Seq(Descriptors) /\ entry.len + 1 <= Len(cells)
  <2>1. ASSUME NEW q \in Seq(Descriptors), NEW t \in Seq(Descriptors), NEW s \in Descriptors
        PROVE  q \o <<s>> \o t \in Seq(Descriptors) /\ Len(q) + 1 <= Len(q \o <<s>> \o t)
    OBVIOUS
  <2>. QED  BY <1>3, <1>6, <1>7, <2>1
<1>. HIDE DEF cells
<1>9. new \in Entry /\ new.len <= Len(new.cells)
  BY <1>5, <1>8 DEF Entry
<1>. HIDE DEF new
<1>10. TableInv'
  BY <1>1, <1>3, <1>9 DEF TableInv
<1>. QED  BY <1>1, <1>2, <1>10, DoneKeeps

LEMMA PublishKeeps ==
  ASSUME ServerInv, GetReceivers \/ SendNext \/ Published
  PROVE  ServerInv'
<1>. USE DEF ServerInv
<1>1. /\ UNCHANGED <<fds, metadata, fdsCap, metadataCap, result, clientVars, peer, revents, table,
                     mainVars, removal>>
      /\ status' \in {status, "exited"}
      /\ Done \/ (UNCHANGED place /\ place # <<>>)
  <2>1. CASE GetReceivers
    BY <2>1 DEF GetReceivers, Killed, Handles, Busy
  <2>2. CASE SendNext
    BY <2>2 DEF SendNext, WorkerInv, sharedVars
  <2>3. CASE Published
    BY <2>3 DEF Published, listVars
  <2>. QED  BY <2>1, <2>2, <2>3
<1>2. WorkerInv'
  BY <1>1, DoneKeeps DEF WorkerInv
<1>3. UNCHANGED marked
  BY <1>1 DEF mainVars
<1>. QED  BY <1>1, <1>2, <1>3, WorkerFrame, SameRemoval, SameTable

LEMMA SenderKeeps ==
  ASSUME ServerInv, RemoveSender \/ Ignore
  PROVE  ServerInv'
<1>. USE DEF ServerInv
<1>1. /\ UNCHANGED <<listVars, clientVars, peer, inbox, revents, table, mainVars, stale>>
      /\ place # <<>> /\ "worker" \in Threads
      /\ \/ /\ RemoveStart("worker", event.from) /\ UNCHANGED place
         \/ Done /\ UNCHANGED removal
  BY DEF RemoveSender, Ignore, Handles, Busy, Threads, sharedVars
<1>2. KernelInv' /\ ListenerInv' /\ MainInv' /\ TableInv' /\ UNCHANGED marked
  BY <1>1, WorkerFrame, SameTable DEF listVars, mainVars
<1>3. WorkerInv'
  BY <1>1, DoneKeeps DEF WorkerInv
<1>4. event.from \in Descriptors
  BY <1>1, EventOfWorker DEF Busy
<1>5. RemovalInv'
  BY <1>1, <1>2, <1>4, StartKeeps, SameRemoval
<1>. QED  BY <1>2, <1>3, <1>5

-------------------------------------------------------------------------------
(* The server *)

\* The invariant is inductive: no step of a client, of the dispatcher, of the worker
\* or of a removal by either of them leaves it.
LEMMA ServerKeeps ==
  ASSUME ServerInv, [Next]_vars
  PROVE  ServerInv'
<1>1. CASE UNCHANGED vars
  BY <1>1, SameKernel, SameList, SameMain, SameWorker, SameRemoval, SameTable
     DEF ServerInv, vars, listVars, clientVars, mainVars, workerVars, sharedVars
<1>2. CASE MainNext
  BY <1>2, PollKeeps, ExamineKeeps, TestKeeps, MarkKeeps, AcceptKeeps, GreetKeeps, ReadKeeps, HandKeeps, MarkedKeeps
     DEF MainNext
<1>3. CASE WorkerNext
  BY <1>3, FindKeeps, InsertKeeps, SetKeeps, PublishKeeps, SenderKeeps DEF WorkerNext
<1>4. CASE \E c \in Clients : ClientNext(c)
  BY <1>4, ClientKeeps
<1>5. CASE \E th \in Threads : RemoveNext(th)
  BY <1>5, SearchKeeps, RemoveTopicKeeps, RemoveCloseKeeps, RemoveFromListKeeps DEF RemoveNext
<1>. QED  BY <1>1, <1>2, <1>3, <1>4, <1>5 DEF Next

LEMMA ServerInvariant == Spec => []ServerInv
<1>1. ServerInv /\ [Next]_vars => ServerInv'
  <2>. SUFFICES ASSUME ServerInv, [Next]_vars PROVE ServerInv'
    OBVIOUS
  <2>. QED  BY ServerKeeps
<1>. QED  BY <1>1, InitServer, PTL DEF Spec

\* Type correctness of the server and its clients, whatever the interleaving: what
\* the threads share and what they remember has its type, revents is as long as
\* pollfds, and a busy worker has an event.
THEOREM ServerTypeCorrect == Spec => []ServerTypeOK
<1>1. ServerInv => ServerTypeOK
  BY DEF ServerInv, KernelInv, ListenerInv, ListInv, WorkerInv, TableInv, ServerTypeOK, Busy
<1>. QED  BY <1>1, ServerInvariant, PTL

\* The client list stays sound under the dispatcher and the worker: pollfds and
\* metadata in step and within their capacity, the listening socket in front.
THEOREM ListAlwaysSound == Spec => []ListSound
<1>1. ServerInv => ListSound
  BY DEF ServerInv, ListenerInv, ListInv, RoomInv, CapacityHolds, ListSound
<1>. QED  BY <1>1, ServerInvariant, PTL

-------------------------------------------------------------------------------
(* Connections and messages *)

\* The clients that wait for accept.
Waiting == {pending[i] : i \in DOMAIN pending}

\* Every client waits for accept, is at the end of one descriptor, or neither; one that
\* is new, and has sent nothing, is neither.
LinkInv ==
  /\ \A f, g \in Descriptors : peer[f] # NoClient /\ peer[f] = peer[g] => f = g
  /\ \A f \in Descriptors : peer[f] # NoClient => conn[peer[f]] # "new" /\ peer[f] \notin Waiting
  /\ \A i, j \in DOMAIN pending : pending[i] = pending[j] => i = j
  /\ \A i \in DOMAIN pending : conn[pending[i]] # "new"
  /\ \A c \in Clients : sent[c] # <<>> => conn[c] # "new" /\ c \notin Waiting

\* The steps that touch these, and how.
LEMMA LinkSteps ==
  ASSUME Next
  PROVE  \/ UNCHANGED <<conn, pending, peer, sent>>
         \/ \E c \in Clients : Connect(c) /\ UNCHANGED <<peer, sent>>
         \/ \E c \in Clients : /\ Connected(c) \/ Close(c)
                               /\ UNCHANGED <<pending, peer, sent>>
         \/ \E c \in Clients : \E type \in {"subscribe", "publish", "error"}, topic \in Topics :
              Send(c, type, topic) /\ UNCHANGED <<conn, pending, peer>>
         \/ Accept /\ UNCHANGED <<conn, sent>>
         \/ \E th \in Threads : RemoveClose(th) /\ UNCHANGED <<conn, pending, sent>>
<1>1. ASSUME NEW c \in Clients, ClientNext(c)
      PROVE  \/ Connect(c) /\ UNCHANGED <<peer, sent>>
             \/ /\ Connected(c) \/ Close(c)
                /\ UNCHANGED <<pending, peer, sent>>
             \/ \E type \in {"subscribe", "publish", "error"}, topic \in Topics :
                  Send(c, type, topic) /\ UNCHANGED <<conn, pending, peer>>
  BY <1>1 DEF ClientNext, Connect, Connected, Close, Send, clientFrame
<1>2. CASE MainNext
  <2>1. CASE PollCall \/ PollReturn \/ Examine \/ Test \/ Mark \/ ScanEnd \/ Take \/ Refuse \/ AllRemoved
    BY <2>1 DEF PollCall, PollReturn, Examine, Test, Mark, ScanEnd, Take, Refuse, AllRemoved, clientVars
  <2>2. CASE Greet \/ Read \/ RemoveMarked
    BY <2>2 DEF Greet, Read, RemoveMarked, clientVars
  <2>3. CASE Accept
    BY <2>3 DEF Accept
  <2>. QED  BY <1>2, <2>1, <2>2, <2>3 DEF MainNext
<1>3. CASE WorkerNext
  BY <1>3 DEF WorkerNext, FindIndex, InsertTopic, SetTopic, GetReceivers, SendNext, Published,
              RemoveSender, Ignore, clientVars
<1>4. ASSUME NEW th \in Threads, RemoveNext(th)
      PROVE  \/ UNCHANGED <<conn, pending, peer, sent>>
             \/ RemoveClose(th) /\ UNCHANGED <<conn, pending, sent>>
  BY <1>4 DEF RemoveNext, Search, RemoveTopic, RemoveClose, RemoveFromList, clientVars
<1>. QED  BY <1>1, <1>2, <1>3, <1>4 DEF Next

\* A connection that is accepted gets a descriptor that was free.
LEMMA AcceptCases ==
  ASSUME KernelInv, Accept
  PROVE  \/ /\ mpc' = "scan" /\ slot' = slot + 1
            /\ UNCHANGED <<pending, peer, hand, stale>>
         \/ \E f \in Descriptors :
              /\ peer[f] = NoClient /\ pending # <<>>
              /\ pending[1] \in Clients /\ 1 \in DOMAIN pending
              /\ peer' = [peer EXCEPT ![f] = pending[1]]
              /\ \A i \in DOMAIN pending' : i + 1 \in DOMAIN pending /\ pending'[i] = pending[i + 1]
              /\ \A i \in DOMAIN pending : i = 1 \/ (i - 1 \in DOMAIN pending' /\ pending'[i - 1] = pending[i])
              /\ 0 \notin DOMAIN pending'
              /\ hand' = <<f>> /\ mpc' = "greet" /\ slot' = slot
              /\ stale' = (stale \/ f \in Listed)
<1>1. CASE pending = <<>> \/ Free = {}
  BY <1>1 DEF Accept
<1>2. CASE pending # <<>> /\ Free # {}
  <2>1. PICK f \in Free : /\ peer' = [peer EXCEPT ![f] = Head(pending)] /\ hand' = <<f>>
                          /\ stale' = (stale \/ f \in Listed)
    BY <1>2 DEF Accept
  <2>2. pending' = Tail(pending) /\ mpc' = "greet" /\ slot' = slot
    BY <1>2 DEF Accept
  <2>3. pending \in Seq(Clients)
    BY DEF KernelInv
  <2>4. /\ Head(pending) = pending[1] /\ pending[1] \in Clients /\ 1 \in DOMAIN pending
        /\ DOMAIN pending = 1..Len(pending) /\ Len(pending) \in Nat
        /\ DOMAIN pending' = 1..(Len(pending) - 1)
        /\ \A i \in 1..(Len(pending) - 1) : pending'[i] = pending[i + 1]
    BY <1>2, <2>2, <2>3, HeadTailProperties
  <2>5. f \in Descriptors /\ peer[f] = NoClient
    BY DEF Free
  <2>. HIDE DEF Free
  <2>6. \A i \in DOMAIN pending' : i + 1 \in DOMAIN pending /\ pending'[i] = pending[i + 1]
    BY <2>4
  <2>7. \A i \in DOMAIN pending : i = 1 \/ (i - 1 \in DOMAIN pending' /\ pending'[i - 1] = pending[i])
    BY <2>4
  <2>8. 0 \notin DOMAIN pending'
    BY <2>4
  <2>. QED  BY <1>2, <2>1, <2>2, <2>4, <2>5, <2>6, <2>7, <2>8
<1>. QED  BY <1>1, <1>2

LEMMA LinkKeeps ==
  ASSUME ServerInv, LinkInv, [Next]_vars
  PROVE  LinkInv'
<1>1. /\ conn \in [Clients -> {"new", "connecting", "connected", "failed", "closed"}]
      /\ pending \in Seq(Clients) /\ sent \in [Clients -> Seq(Message)]
      /\ peer \in [Descriptors -> Clients \cup {NoClient}]
      /\ NoClient \notin Clients
      /\ \A i \in DOMAIN pending : pending[i] \in Clients
  BY ClientsAssumption DEF ServerInv, KernelInv
<1>2. CASE UNCHANGED <<conn, pending, peer, sent>>
  BY <1>2 DEF LinkInv, Waiting
<1>3. ASSUME NEW c \in Clients, Connect(c), UNCHANGED <<peer, sent>> PROVE LinkInv'
  <2>1. conn[c] = "new" /\ conn' = [conn EXCEPT ![c] = "connecting"] /\ pending' = Append(pending, c)
    BY <1>3 DEF Connect
  <2>2. /\ DOMAIN pending = 1..Len(pending) /\ Len(pending) \in Nat
        /\ DOMAIN pending' = 1..(Len(pending) + 1) /\ pending'[Len(pending) + 1] = c
        /\ \A i \in 1..Len(pending) : pending'[i] = pending[i]
    BY <1>1, <2>1, AppendProperties
  <2>3. Waiting' = Waiting \cup {c}
    BY <2>2 DEF Waiting
  <2>4. c \notin Waiting
    BY <1>1, <2>1, <2>2 DEF LinkInv, Waiting
  <2>. QED  BY <1>1, <1>3, <2>1, <2>2, <2>3, <2>4 DEF LinkInv
<1>4. ASSUME NEW c \in Clients, Connected(c) \/ Close(c), UNCHANGED <<pending, peer, sent>> PROVE LinkInv'
  <2>1. /\ \A x \in Clients : conn'[x] = "new" <=> conn[x] = "new"
        /\ Waiting' = Waiting
    BY <1>1, <1>4 DEF Connected, Close, Waiting
  <2>. QED  BY <1>1, <1>4, <2>1 DEF LinkInv
<1>5. ASSUME NEW c \in Clients, NEW type \in {"subscribe", "publish", "error"}, NEW topic \in Topics,
             Send(c, type, topic), UNCHANGED <<conn, pending, peer>>
      PROVE  LinkInv'
  <2>1. \A x \in Clients : x # c => sent'[x] = sent[x]
    BY <1>1, <1>5 DEF Send
  <2>2. PICK f \in Descriptors : peer[f] = c
    BY <1>5 DEF Send, Linked
  <2>3. conn[c] # "new" /\ c \notin Waiting
    BY <1>1, <2>2 DEF LinkInv
  <2>4. Waiting' = Waiting
    BY <1>5 DEF Waiting
  <2>. QED  BY <1>1, <1>5, <2>1, <2>3, <2>4 DEF LinkInv
<1>6. CASE Accept /\ UNCHANGED <<conn, sent>>
  <2>1. CASE UNCHANGED <<pending, peer>>
    BY <1>6, <2>1 DEF LinkInv, Waiting
  <2>2. ASSUME NEW f \in Descriptors,
               peer[f] = NoClient, pending[1] \in Clients, 1 \in DOMAIN pending,
               peer' = [peer EXCEPT ![f] = pending[1]],
               \A i \in DOMAIN pending' : i + 1 \in DOMAIN pending /\ pending'[i] = pending[i + 1],
               0 \notin DOMAIN pending'
        PROVE  LinkInv'
    <3>1. DOMAIN pending' \subseteq Int
      <4>1. pending' \in Seq(Clients)
        BY <1>6, AcceptKeeps DEF ServerInv, KernelInv
      <4>. QED  BY <4>1
    <3>2. Waiting' \subseteq Waiting \ {pending[1]}
      BY <2>2, <3>1 DEF Waiting, LinkInv
    <3>3. pending[1] \in Waiting /\ conn[pending[1]] # "new"
      BY <2>2 DEF Waiting, LinkInv
    <3>4. \A g \in Descriptors : peer'[g] = IF g = f THEN pending[1] ELSE peer[g]
      BY <1>1, <2>2
    <3>5. \A g \in Descriptors : peer[g] # pending[1]
      BY <1>1, <2>2, <3>3 DEF LinkInv
    <3>6. \A i, j \in DOMAIN pending' : pending'[i] = pending'[j] => i = j
      <4>1. ASSUME NEW i \in DOMAIN pending', NEW j \in DOMAIN pending', pending'[i] = pending'[j]
            PROVE  i = j
        <5>1. pending[i + 1] = pending[j + 1] /\ i + 1 \in DOMAIN pending /\ j + 1 \in DOMAIN pending
          BY <2>2, <4>1
        <5>2. i + 1 = j + 1
          BY <5>1 DEF LinkInv
        <5>. QED  BY <3>1, <5>2
      <4>. QED  BY <4>1
    <3>7. \A i \in DOMAIN pending' : conn[pending'[i]] # "new"
      BY <2>2 DEF LinkInv
    <3>8. \A g, h \in Descriptors : peer'[g] # NoClient /\ peer'[g] = peer'[h] => g = h
      BY <3>4, <3>5 DEF LinkInv
    <3>9. \A g \in Descriptors : peer'[g] # NoClient => conn[peer'[g]] # "new" /\ peer'[g] \notin Waiting'
      BY <3>2, <3>3, <3>4 DEF LinkInv
    <3>10. \A c \in Clients : sent[c] # <<>> => conn[c] # "new" /\ c \notin Waiting'
      BY <3>2 DEF LinkInv
    <3>. QED  BY <1>6, <3>6, <3>7, <3>8, <3>9, <3>10 DEF LinkInv, Waiting
  <2>3. KernelInv
    BY DEF ServerInv
  <2>. QED  BY <1>6, <2>1, <2>2, <2>3, AcceptCases
<1>7. ASSUME NEW th \in Threads, RemoveClose(th), UNCHANGED <<conn, pending, sent>> PROVE LinkInv'
  <2>1. peer' = [peer EXCEPT ![removal[th].sock] = NoClient]
    BY <1>7 DEF RemoveClose
  <2>2. \A g \in Descriptors : peer'[g] = peer[g] \/ peer'[g] = NoClient
    BY <1>1, <2>1
  <2>3. Waiting' = Waiting
    BY <1>7 DEF Waiting
  <2>. QED  BY <1>7, <2>2, <2>3 DEF LinkInv
<1>8. CASE UNCHANGED vars
  BY <1>2, <1>8 DEF vars, clientVars
<1>. QED  BY <1>2, <1>3, <1>4, <1>5, <1>6, <1>7, <1>8, LinkSteps

\* The message m is one that its sender sent, where all is what each client sent, or
\* made of what a sender sent of those in cut.
WasSent(all, cut, m) ==
  m.by \in Clients /\ all[m.by] # <<>> /\ (m.by \in cut \/ \E k \in DOMAIN all[m.by] : all[m.by][k] = m)

\* A message that is under way, in the dispatcher's hand, or in the pool was sent.
MailInv ==
  /\ \A c \in Clients : \A i \in DOMAIN outbox[c] : outbox[c][i].by = c /\ WasSent(sent, broken, outbox[c][i])
  /\ mpc = "hand" => WasSent(sent, broken, hand[2])
  /\ place # <<>> => WasSent(sent, broken, msg)

LEMMA MailSteps ==
  ASSUME Next
  PROVE  \/ /\ UNCHANGED <<sent, outbox, broken>>
            /\ mpc' = "hand" => mpc = "hand" /\ hand' = hand
            /\ place' # <<>> => place' = place
         \/ /\ UNCHANGED <<mpc, hand, place, broken>>
            /\ \E c \in Clients : \E type \in {"subscribe", "publish", "error"}, topic \in Topics :
                 Send(c, type, topic)
         \/ Read /\ UNCHANGED <<sent, place>>
         \/ Take /\ UNCHANGED <<sent, outbox, broken>>
<1>1. ASSUME NEW c \in Clients, ClientNext(c)
      PROVE  /\ UNCHANGED <<mpc, hand, place, broken>>
             /\ \/ UNCHANGED <<sent, outbox>>
                \/ \E type \in {"subscribe", "publish", "error"}, topic \in Topics :
                     Send(c, type, topic)
  BY <1>1 DEF ClientNext, Connect, Connected, Close, Send, clientFrame, mainVars, sharedVars
<1>2. CASE MainNext
  <2>1. CASE PollCall \/ PollReturn \/ Examine \/ Test \/ Mark \/ ScanEnd \/ AllRemoved
    BY <2>1 DEF PollCall, PollReturn, Examine, Test, Mark, ScanEnd, AllRemoved, clientVars, sharedVars
  <2>2. CASE Greet \/ RemoveMarked \/ Refuse
    BY <2>2 DEF Greet, RemoveMarked, Refuse, clientVars, sharedVars, mainVars
  <2>3. CASE Accept
    BY <2>3 DEF Accept, sharedVars
  <2>4. CASE Read
    BY <2>4 DEF Read, sharedVars
  <2>5. CASE Take
    BY <2>5 DEF Take, clientVars
  <2>. QED  BY <1>2, <2>1, <2>2, <2>3, <2>4, <2>5 DEF MainNext
<1>3. CASE WorkerNext
  BY <1>3 DEF WorkerNext, FindIndex, InsertTopic, SetTopic, GetReceivers, SendNext, Published,
              RemoveSender, Ignore, Done, clientVars, mainVars, workerVars, sharedVars
<1>4. ASSUME NEW th \in Threads, RemoveNext(th)
      PROVE  /\ UNCHANGED <<sent, outbox, broken, mpc, hand>>
             /\ place' # <<>> => place' = place
  BY <1>4 DEF RemoveNext, Search, RemoveTopic, RemoveFails, RemoveClose, RemoveFromList, clientVars,
              mainVars, sharedVars
<1>. QED  BY <1>1, <1>2, <1>3, <1>4 DEF Next

LEMMA MailKeeps ==
  ASSUME ServerInv, MailInv, [Next]_vars
  PROVE  MailInv'
<1>1. /\ sent \in [Clients -> Seq(Message)] /\ outbox \in [Clients -> Seq(Message)]
      /\ peer \in [Descriptors -> Clients \cup {NoClient}]
      /\ \A c \in Clients : sent[c] \in Seq(Message) /\ outbox[c] \in Seq(Message)
      /\ \A c \in Clients : DOMAIN outbox[c] = 1..Len(outbox[c]) /\ Len(outbox[c]) \in Nat
  BY DEF ServerInv, KernelInv
<1>2. ASSUME UNCHANGED <<sent, outbox, broken>>, mpc' = "hand" => mpc = "hand" /\ hand' = hand,
             place' # <<>> => place' = place
      PROVE  MailInv'
  BY <1>2 DEF MailInv, WasSent, msg, event
<1>3. ASSUME UNCHANGED <<mpc, hand, place, broken>>, NEW c \in Clients, NEW topic \in Topics,
             NEW type \in {"subscribe", "publish", "error"}, Send(c, type, topic)
      PROVE  MailInv'
  <2>. DEFINE m == [type |-> type, topic |-> topic, by |-> c, n |-> Len(sent[c]) + 1]
  <2>1. /\ sent' = [sent EXCEPT ![c] = Append(sent[c], m)]
        /\ outbox' = [outbox EXCEPT ![c] = Append(outbox[c], m)]
    BY <1>3 DEF Send
  <2>2. m \in Message
    BY <1>1, <1>3, MaxSentAssumption DEF Send, Message
  <2>3. m.by = c
    OBVIOUS
  <2>. HIDE DEF m
  <2>4. /\ DOMAIN sent[c] = 1..Len(sent[c]) /\ Len(sent[c]) \in Nat
        /\ sent'[c][Len(sent[c]) + 1] = m
        /\ DOMAIN sent'[c] = 1..(Len(sent[c]) + 1)
        /\ \A k \in DOMAIN sent[c] : sent'[c][k] = sent[c][k]
    BY <1>1, <2>1, <2>2, AppendProperties
  <2>5. /\ outbox'[c][Len(outbox[c]) + 1] = m
        /\ DOMAIN outbox'[c] = 1..(Len(outbox[c]) + 1)
        /\ \A k \in DOMAIN outbox[c] : outbox'[c][k] = outbox[c][k]
    BY <1>1, <2>1, <2>2, AppendProperties
  <2>6. \A x \in Clients : x # c => sent'[x] = sent[x] /\ outbox'[x] = outbox[x]
    BY <1>1, <2>1
  <2>7. ASSUME NEW x, WasSent(sent, broken, x) PROVE WasSent(sent', broken', x)
    <3>1. x.by \in Clients /\ sent'[x.by] # <<>>
      BY <1>1, <2>4, <2>6, <2>7 DEF WasSent
    <3>. QED  BY <1>3, <2>4, <2>6, <2>7, <3>1 DEF WasSent
  <2>8. WasSent(sent', broken', m)
    <3>1. Len(sent[c]) + 1 \in DOMAIN sent'[c]
      BY <2>4
    <3>2. sent'[c] # <<>>
      BY <3>1
    <3>3. \E k \in DOMAIN sent'[c] : sent'[c][k] = m
      BY <2>4, <3>1
    <3>. QED  BY <2>3, <3>2, <3>3 DEF WasSent
  <2>9. \A x \in Clients : \A i \in DOMAIN outbox'[x] : outbox'[x][i].by = x /\ WasSent(sent', broken', outbox'[x][i])
    <3>1. ASSUME NEW x \in Clients, NEW i \in DOMAIN outbox'[x], x # c
          PROVE  outbox'[x][i].by = x /\ outbox'[x][i] = outbox[x][i] /\ WasSent(sent, broken, outbox[x][i])
      BY <2>6, <3>1 DEF MailInv
    <3>2. ASSUME NEW i \in DOMAIN outbox'[c]
          PROVE  \/ outbox'[c][i] = m
                 \/ i \in DOMAIN outbox[c] /\ outbox'[c][i] = outbox[c][i]
      BY <1>1, <2>5
    <3>. QED  BY <2>3, <2>7, <2>8, <3>1, <3>2 DEF MailInv
  <2>. QED  BY <1>3, <2>7, <2>9 DEF MailInv, msg, event
<1>4. CASE Read /\ UNCHANGED <<sent, place>>
  <2>1. CASE RecvFails
    BY <1>2, <1>4, <2>1 DEF RecvFails
  <2>2. ASSUME NEW c \in Clients, NEW q \in Seq(Message), Reads(c, q) PROVE MailInv'
    <3>1. /\ outbox' = [outbox EXCEPT ![c] = q] /\ broken \subseteq broken'
          /\ c \in broken' \/ q = outbox[c] \/ (outbox[c] # <<>> /\ q = Tail(outbox[c]))
      BY <2>2 DEF Reads
    <3>2. ASSUME NEW x, x \in Senders(outbox[c]) PROVE x = c /\ sent[c] # <<>>
      BY <3>2 DEF Senders, MailInv, WasSent
    <3>3. ASSUME NEW x, WasSent(sent, broken, x) PROVE WasSent(sent', broken', x)
      BY <1>4, <3>1, <3>3 DEF WasSent
    <3>4. ASSUME NEW i \in DOMAIN q PROVE q[i].by = c /\ WasSent(sent', broken', q[i])
      <4>1. q[i].by \in Senders(outbox[c])
        BY <2>2 DEF Reads, Senders
      <4>2. q[i].by = c /\ sent'[c] # <<>>
        BY <1>4, <3>2, <4>1
      <4>3. CASE c \in broken'
        BY <4>2, <4>3 DEF WasSent
      <4>4. CASE c \notin broken'
        <5>1. \E j \in DOMAIN outbox[c] : q[i] = outbox[c][j]
          <6>1. CASE q = outbox[c]
            BY <6>1
          <6>2. CASE outbox[c] # <<>> /\ q = Tail(outbox[c])
            <7>1. i \in 1..Len(q) /\ Len(q) = Len(outbox[c]) - 1 /\ q[i] = outbox[c][i + 1]
              BY <1>1, <6>2, HeadTailProperties
            <7>2. i + 1 \in DOMAIN outbox[c]
              BY <1>1, <7>1
            <7>. QED  BY <7>1, <7>2
          <6>. QED  BY <3>1, <4>4, <6>1, <6>2
        <5>. QED  BY <3>3, <4>2, <5>1 DEF MailInv
      <4>. QED  BY <4>3, <4>4
    <3>5. mpc' = "hand" => WasSent(sent', broken', hand'[2])
      <4>. SUFFICES ASSUME mpc' = "hand" PROVE WasSent(sent', broken', hand'[2])
        OBVIOUS
      <4>1. outbox[c] # <<>> /\ \E m \in Message : /\ HandOver(m) /\ m.by \in Senders(outbox[c])
                                                   /\ c \in broken' \/ m = Head(outbox[c])
        <5>1. mpc = "read"
          BY <1>4 DEF Read
        <5>2. ~(UNCHANGED <<hand, mpc>>) /\ ~NoMessages
          BY <5>1 DEF NoMessages
        <5>. QED  BY <2>2, <5>2, Zenon DEF Reads
      <4>2. PICK m \in Message : /\ HandOver(m) /\ m.by \in Senders(outbox[c])
                                 /\ c \in broken' \/ m = Head(outbox[c])
        BY <4>1
      <4>3. hand'[2] = m /\ m.by = c /\ sent'[c] # <<>>
        BY <1>4, <3>2, <4>2 DEF HandOver
      <4>4. CASE c \in broken'
        BY <4>3, <4>4 DEF WasSent
      <4>5. CASE m = Head(outbox[c])
        <5>1. m = outbox[c][1] /\ 1 \in DOMAIN outbox[c]
          BY <1>1, <4>1, <4>5, HeadTailProperties
        <5>. QED  BY <3>3, <4>3, <5>1 DEF MailInv
      <4>. QED  BY <4>2, <4>4, <4>5
    <3>6. ASSUME NEW x \in Clients, NEW i \in DOMAIN outbox'[x]
          PROVE  outbox'[x][i].by = x /\ WasSent(sent', broken', outbox'[x][i])
      <4>1. CASE x = c
        BY <1>1, <3>1, <3>4, <4>1
      <4>2. CASE x # c
        BY <1>1, <3>1, <3>3, <4>2 DEF MailInv
      <4>. QED  BY <4>1, <4>2
    <3>. QED  BY <1>4, <3>3, <3>5, <3>6 DEF MailInv, msg, event
  <2>3. KernelInv
    BY DEF ServerInv
  <2>. QED  BY <1>4, <2>1, <2>2, <2>3, ReadTakes
<1>5. CASE Take /\ UNCHANGED <<sent, outbox, broken>>
  <2>1. mpc = "hand" /\ mpc' = "scan" /\ \E s \in {FdAgain} : place' = <<[from |-> s, msg |-> hand[2]]>>
    BY <1>5 DEF Take
  <2>2. msg' = hand[2]
    BY <2>1 DEF msg, event
  <2>. QED  BY <1>5, <2>1, <2>2 DEF MailInv, WasSent
<1>6. CASE UNCHANGED vars
  BY <1>2, <1>6 DEF vars, clientVars, mainVars, sharedVars
<1>. QED  BY <1>2, <1>3, <1>4, <1>5, <1>6, MailSteps

-------------------------------------------------------------------------------
(* Whose turn it is *)

\* A thread removes what made it remove something, and the list that poll was called
\* with has only become shorter.
TurnInv ==
  /\ wpc = "remove" <=> removal["worker"].stage # "none"
  /\ wpc = "remove" => removal["worker"].sock = event.from /\ msg.type = "error"
  /\ removal["main"].stage # "none" => mpc = "remove" /\ removal["main"].sock = marked[1]
  /\ polled \in Seq(Sockets) /\ (mpc = "polling" => Len(fds) <= Len(polled))
  /\ mpc \in {"poll", "polling"} => marked = <<>>

\* What the first step of a removal leaves in removal.
LEMMA StartedRemoval ==
  ASSUME RemovalInv, NEW th \in Threads, NEW s, RemoveStart(th, s)
  PROVE  /\ removal'[th].stage = "search" /\ removal'[th].sock = s /\ removal'[th].next = 1
         /\ \A t \in Threads : t # th => removal'[t] = removal[t]
BY DEF RemovalInv, RemoveStart

\* A removal from the list makes it no longer.
LEMMA RemovalShortens ==
  ASSUME ListInv, NEW s, ListRemove(s)
  PROVE  /\ Len(fds') <= Len(fds) /\ Len(fds) \in Nat
         /\ fds' = fds \/ status' \in {"exited", "undefined"} \/ GetIdx(s) \in 1..Len(fds)
<1>1. fds \in Seq(Sockets) /\ Len(fds) \in Nat
  BY DEF ListInv, ListTypeOK
<1>2. GetIdx(s) \in Nat /\ (GetIdx(s) # 0 => GetIdx(s) \in 1..Len(fds))
  BY <1>1, GetIdxFinds
<1>3. fds' = fds \/ (GetIdx(s) # 0 /\ fds' = SwapRemove(fds, GetIdx(s)))
  BY DEF ListRemove
<1>4. GetIdx(s) # 0 => Len(SwapRemove(fds, GetIdx(s))) = Len(fds) - 1
  BY <1>1, <1>2, SwapRemoveProperties
<1>. QED  BY <1>1, <1>2, <1>3, <1>4

LEMMA TurnKeeps ==
  ASSUME ServerInv, TurnInv, [Next]_vars
  PROVE  TurnInv'
<1>0. /\ "main" \in Threads /\ "worker" \in Threads /\ "main" # "worker"
      /\ \A th \in Threads : th = "main" \/ th = "worker"
      /\ fds \in Seq(Sockets) /\ marked \in Seq(Descriptors \cup {NoSocket}) /\ ListInv /\ RemovalInv
      /\ removal \in [Threads -> Removal]
  BY DEF Threads, ServerInv, ListenerInv, ListInv, ListTypeOK, MainInv, RemovalInv
<1>. DEFINE Turn == <<removal, wpc, place, fds, polled, mpc, marked>>
<1>1. CASE UNCHANGED Turn
  BY <1>1 DEF TurnInv, event, msg
<1>2. CASE MainNext
  <2>0. mpc \in {"polling", "scan", "accept", "greet", "test", "read", "mark", "hand"} => removal["main"].stage = "none"
    BY DEF TurnInv
  <2>1. CASE PollCall
    <3>1. mpc = "poll" /\ mpc' = "polling" /\ polled' = fds /\ UNCHANGED <<removal, wpc, place, fds, marked>>
      BY <2>1 DEF PollCall, listVars, sharedVars, workerVars
    <3>. QED  BY <1>0, <3>1 DEF TurnInv, event, msg
  <2>2. CASE PollReturn
    <3>1. mpc = "polling" /\ mpc' = "scan" /\ polled' = <<>>
          /\ UNCHANGED <<removal, wpc, place, fds, marked>>
      BY <2>2 DEF PollReturn, listVars, workerVars
    <3>. QED  BY <1>0, <2>0, <3>1 DEF TurnInv, event, msg
  <2>3. CASE Examine \/ Test \/ Mark \/ ScanEnd \/ Accept \/ Refuse
    <3>1. /\ mpc \in {"scan", "accept", "test", "mark", "hand"} /\ mpc' \notin {"poll", "polling"}
          /\ UNCHANGED <<removal, wpc, place, polled>>
      BY <2>3 DEF Examine, Test, Mark, ScanEnd, Accept, Refuse, sharedVars, workerVars
    <3>. QED  BY <1>0, <2>0, <3>1 DEF TurnInv, event, msg
  <2>4. CASE Greet \/ Read
    <3>1. /\ mpc \in {"greet", "read"} /\ mpc' \notin {"poll", "polling"}
          /\ UNCHANGED <<removal, wpc, place, polled>>
      BY <2>4 DEF Greet, Read, ReadOne, ReadPart, ReadAstray, ReadNothing, RecvFails, HandOver,
                  NoMessages, sharedVars, workerVars
    <3>. QED  BY <1>0, <2>0, <3>1 DEF TurnInv, event, msg
  <2>5. CASE Take
    <3>1. /\ mpc = "hand" /\ mpc' = "scan" /\ place = <<>>
          /\ UNCHANGED <<removal, wpc, polled>>
      BY <2>5 DEF Take, workerVars
    <3>2. wpc # "remove"
      BY <3>1 DEF ServerInv, WorkerInv
    <3>. QED  BY <1>0, <2>0, <3>1, <3>2 DEF TurnInv
  <2>6. CASE RemoveMarked
    <3>1. /\ mpc = "remove" /\ UNCHANGED <<mpc, wpc, place, fds, polled, marked>>
          /\ marked # <<>>
          /\ RemoveStart("main", Head(marked))
      BY <2>6 DEF RemoveMarked, listVars, sharedVars, mainVars, workerVars
    <3>2. Head(marked) = marked[1]
      BY <1>0, <3>1
    <3>. QED  BY <1>0, <3>1, <3>2, StartedRemoval DEF TurnInv, event, msg
  <2>7. CASE AllRemoved
    <3>1. /\ marked = <<>> /\ mpc' = "poll" /\ UNCHANGED <<removal, wpc, place, fds, polled, marked>>
      BY <2>7 DEF AllRemoved, listVars, sharedVars, workerVars
    <3>2. removal["main"].stage = "none"
      BY <3>1 DEF ServerInv, RemovalInv
    <3>. QED  BY <1>0, <3>1, <3>2 DEF TurnInv, event, msg
  <2>. QED  BY <1>2, <2>1, <2>2, <2>3, <2>4, <2>5, <2>6, <2>7 DEF MainNext
<1>3. CASE WorkerNext
  <2>1. UNCHANGED <<fds, polled, mpc, marked>>
    BY <1>3 DEF WorkerNext, FindIndex, InsertTopic, SetTopic, GetReceivers, SendNext, Published,
                RemoveSender, Ignore, listVars, mainVars
  <2>2. CASE RemoveSender
    <3>1. /\ wpc = "idle" /\ Busy /\ msg.type = "error" /\ wpc' = "remove" /\ UNCHANGED place
          /\ RemoveStart("worker", event.from)
      BY <2>2 DEF RemoveSender, Handles, sharedVars
    <3>. QED  BY <1>0, <2>1, <3>1, StartedRemoval DEF TurnInv, event, msg
  <2>3. CASE FindIndex \/ InsertTopic \/ SetTopic \/ GetReceivers \/ SendNext \/ Published \/ Ignore
    <3>1. UNCHANGED removal /\ wpc # "remove" /\ wpc' # "remove"
      BY <2>3 DEF FindIndex, InsertTopic, SetTopic, GetReceivers, SendNext, Published, Ignore, Done,
                  workerVars
    <3>. QED  BY <1>0, <2>1, <3>1 DEF TurnInv
  <2>. QED  BY <1>3, <2>2, <2>3 DEF WorkerNext
<1>4. ASSUME NEW c \in Clients, ClientNext(c) PROVE TurnInv'
  <2>1. UNCHANGED Turn
    BY <1>4 DEF ClientNext, Connect, Connected, Close, Send, clientFrame, listVars, sharedVars,
                mainVars, workerVars
  <2>. QED  BY <1>1, <2>1
<1>5. ASSUME NEW th \in Threads, Search(th) \/ RemoveTopic(th) PROVE TurnInv'
  <2>1. /\ UNCHANGED <<fds, polled, mpc, marked>> /\ removal[th].stage \in {"search", "topics"}
        /\ \/ /\ RemoveFails(th)
           \/ /\ UNCHANGED <<place, wpc>>
              /\ \/ UNCHANGED removal
                 \/ removal' = [removal EXCEPT ![th].stage = "close"]
                 \/ removal' = [removal EXCEPT ![th].next = removal[th].next + 1]
                 \/ removal' = [removal EXCEPT ![th].stage = "topics"]
                 \/ removal' = [removal EXCEPT ![th].idx = removal[th].idx + 1]
    <3>1. CASE Search(th)
      BY <1>0, <3>1, SearchSteps DEF Search, mainVars
    <3>2. CASE RemoveTopic(th)
      BY <3>2 DEF RemoveTopic, mainVars
    <3>. QED  BY <1>5, <3>1, <3>2
  <2>2. CASE RemoveFails(th)
    <3>1. /\ removal' = [removal EXCEPT ![th] = NotRemoving] /\ NotRemoving.stage = "none"
          /\ \/ th = "main" /\ UNCHANGED <<place, wpc>>
             \/ th = "worker" /\ wpc' = "idle"
      BY <2>2 DEF RemoveFails, NotRemoving
    <3>. QED  BY <1>0, <2>1, <3>1 DEF TurnInv, event, msg
  <2>3. CASE /\ UNCHANGED <<place, wpc>>
             /\ \/ UNCHANGED removal
                \/ removal' = [removal EXCEPT ![th].stage = "close"]
                \/ removal' = [removal EXCEPT ![th].next = removal[th].next + 1]
                \/ removal' = [removal EXCEPT ![th].stage = "topics"]
                \/ removal' = [removal EXCEPT ![th].idx = removal[th].idx + 1]
    <3>1. \A t \in Threads : /\ removal'[t].stage # "none" <=> removal[t].stage # "none"
                             /\ removal'[t].sock = removal[t].sock
      <4>. SUFFICES ASSUME NEW t \in Threads
                    PROVE  /\ removal'[t].stage # "none" <=> removal[t].stage # "none"
                           /\ removal'[t].sock = removal[t].sock
        OBVIOUS
      <4>1. removal[t] \in Removal /\ removal[th] \in Removal
        BY <1>0
      <4>2. CASE UNCHANGED removal
        BY <4>2
      <4>3. CASE removal' = [removal EXCEPT ![th].stage = "close"]
        BY <1>0, <2>1, <4>1, <4>3 DEF Removal
      <4>4. CASE removal' = [removal EXCEPT ![th].next = removal[th].next + 1]
        BY <1>0, <2>1, <4>1, <4>4 DEF Removal
      <4>5. CASE removal' = [removal EXCEPT ![th].stage = "topics"]
        BY <1>0, <2>1, <4>1, <4>5 DEF Removal
      <4>6. CASE removal' = [removal EXCEPT ![th].idx = removal[th].idx + 1]
        BY <1>0, <2>1, <4>1, <4>6 DEF Removal
      <4>. QED  BY <2>3, <4>2, <4>3, <4>4, <4>5, <4>6
    <3>. QED  BY <1>0, <2>1, <2>3, <3>1 DEF TurnInv, event, msg
  <2>. QED  BY <2>1, <2>2, <2>3
<1>6. ASSUME NEW th \in Threads, RemoveClose(th) PROVE TurnInv'
  <2>1. /\ UNCHANGED <<fds, polled, mpc, marked, place, wpc>> /\ removal[th].stage = "close"
        /\ removal' = [removal EXCEPT ![th].stage = "list"]
    BY <1>6 DEF RemoveClose, listVars, sharedVars, mainVars, workerVars
  <2>2. \A t \in Threads : /\ removal'[t].stage # "none" <=> removal[t].stage # "none"
                           /\ removal'[t].sock = removal[t].sock
    BY <1>0, <2>1 DEF Removal
  <2>. QED  BY <1>0, <2>1, <2>2 DEF TurnInv, event, msg
<1>7. ASSUME NEW th \in Threads, RemoveFromList(th) PROVE TurnInv'
  <2>1. /\ UNCHANGED <<polled, mpc>> /\ removal[th].stage = "list" /\ ListRemove(removal[th].sock)
        /\ removal' = [removal EXCEPT ![th] = NotRemoving] /\ NotRemoving.stage = "none"
        /\ \/ th = "main" /\ UNCHANGED <<place, wpc>>
           \/ th = "worker" /\ wpc' = "idle" /\ UNCHANGED marked
    BY <1>7 DEF RemoveFromList, NotRemoving
  <2>2. Len(fds') <= Len(fds) /\ Len(fds) \in Nat
    BY <1>0, <2>1, RemovalShortens
  <2>3. fds' \in Seq(Sockets) /\ Len(fds') \in Nat
    BY <1>0, <2>1, RemoveKeeps DEF ListInv, ListTypeOK
  <2>. QED  BY <1>0, <2>1, <2>2, <2>3 DEF TurnInv, event, msg
<1>8. CASE UNCHANGED vars
  BY <1>1, <1>8 DEF vars, listVars, sharedVars, mainVars, workerVars
<1>. QED  BY <1>2, <1>3, <1>4, <1>5, <1>6, <1>7, <1>8 DEF Next, RemoveNext

\* A removal is past no topic while it looks for the client, and the descriptor that the
\* dispatcher takes off the list is closed.
StageInv ==
  /\ \A th \in Threads : removal[th].stage = "search" => removal[th].next = 1
  /\ removal["main"].stage = "list" => peer[removal["main"].sock] = NoClient

LEMMA StageKeeps ==
  ASSUME ServerInv, TurnInv, StageInv, [Next]_vars
  PROVE  StageInv'
<1>0. /\ "main" \in Threads /\ "worker" \in Threads /\ "main" # "worker"
      /\ RemovalInv /\ removal \in [Threads -> Removal] /\ KernelInv
      /\ peer \in [Descriptors -> Clients \cup {NoClient}]
      /\ removal["main"].stage = "list" => mpc = "remove"
  BY DEF Threads, ServerInv, RemovalInv, TurnInv, KernelInv
<1>1. CASE UNCHANGED <<removal, peer>>
  BY <1>1 DEF StageInv
<1>2. CASE Accept
  <2>1. removal["main"].stage # "list" /\ UNCHANGED removal
    BY <1>0, <1>2 DEF Accept
  <2>. QED  BY <2>1 DEF StageInv
<1>3. ASSUME NEW th \in Threads, NEW s, RemoveStart(th, s), UNCHANGED peer PROVE StageInv'
  BY <1>0, <1>3, StartedRemoval DEF StageInv
<1>4. ASSUME NEW th \in Threads, removal'[th].stage = "none", UNCHANGED peer,
             \A t \in Threads : t # th => removal'[t] = removal[t]
      PROVE  StageInv'
  BY <1>0, <1>4 DEF StageInv
<1>5. ASSUME NEW th \in Threads, UNCHANGED peer, removal'[th].stage \in {"topics", "close"},
             \A t \in Threads : t # th => removal'[t] = removal[t]
      PROVE  StageInv'
  BY <1>0, <1>5 DEF StageInv
<1>6. ASSUME NEW th \in Threads, RemoveFails(th), UNCHANGED peer PROVE StageInv'
  <2>1. removal' = [removal EXCEPT ![th] = NotRemoving] /\ NotRemoving.stage = "none"
    BY <1>6 DEF RemoveFails, NotRemoving
  <2>. QED  BY <1>0, <1>4, <1>6, <2>1
<1>7. ASSUME NEW th \in Threads, RemoveNext(th) PROVE StageInv'
  <2>1. CASE Search(th)
    <3>1. UNCHANGED peer /\ removal[th].stage = "search" /\ removal[th] \in Removal
      BY <1>0, <2>1 DEF Search
    <3>2. \/ RemoveFails(th)
          \/ removal' = [removal EXCEPT ![th].stage = "topics"]
          \/ removal' = [removal EXCEPT ![th].idx = removal[th].idx + 1]
      BY <1>0, <2>1, SearchSteps
    <3>3. CASE removal' = [removal EXCEPT ![th].stage = "topics"]
      BY <1>0, <1>5, <3>1, <3>3 DEF Removal
    <3>4. CASE removal' = [removal EXCEPT ![th].idx = removal[th].idx + 1]
      <4>1. /\ removal'[th].stage = "search" /\ removal'[th].next = removal[th].next
            /\ \A t \in Threads : t # th => removal'[t] = removal[t]
        BY <1>0, <3>1, <3>4 DEF Removal
      <4>. QED  BY <1>0, <3>1, <4>1 DEF StageInv
    <3>. QED  BY <1>6, <3>1, <3>2, <3>3, <3>4
  <2>2. CASE RemoveTopic(th)
    <3>1. UNCHANGED peer /\ removal[th].stage = "topics" /\ removal[th] \in Removal
      BY <1>0, <2>2 DEF RemoveTopic
    <3>2. \/ RemoveFails(th)
          \/ UNCHANGED removal
          \/ removal' = [removal EXCEPT ![th].stage = "close"]
          \/ removal' = [removal EXCEPT ![th].next = removal[th].next + 1]
      BY <2>2 DEF RemoveTopic
    <3>3. CASE removal' = [removal EXCEPT ![th].stage = "close"]
      BY <1>0, <1>5, <3>1, <3>3 DEF Removal
    <3>4. CASE removal' = [removal EXCEPT ![th].next = removal[th].next + 1]
      BY <1>0, <1>5, <3>1, <3>4 DEF Removal
    <3>. QED  BY <1>1, <1>6, <3>1, <3>2, <3>3, <3>4
  <2>3. CASE RemoveClose(th)
    <3>1. /\ removal[th].sock \in Descriptors /\ removal[th] \in Removal
          /\ peer' = [peer EXCEPT ![removal[th].sock] = NoClient]
          /\ removal' = [removal EXCEPT ![th].stage = "list"]
      BY <1>0, <2>3 DEF RemoveClose, RemovalInv
    <3>2. /\ removal'[th].stage = "list" /\ removal'[th].sock = removal[th].sock
          /\ \A t \in Threads : t # th => removal'[t] = removal[t]
          /\ peer'[removal[th].sock] = NoClient
          /\ \A f \in Descriptors : peer[f] = NoClient => peer'[f] = NoClient
      BY <1>0, <3>1 DEF Removal
    <3>3. \A t \in Threads : removal[t].stage = "list" => removal[t].sock \in Descriptors
      BY <1>0 DEF RemovalInv
    <3>. QED  BY <1>0, <3>2, <3>3 DEF StageInv
  <2>4. CASE RemoveFromList(th)
    <3>1. /\ removal' = [removal EXCEPT ![th] = NotRemoving] /\ NotRemoving.stage = "none"
          /\ UNCHANGED peer
      BY <2>4 DEF RemoveFromList, NotRemoving
    <3>. QED  BY <1>0, <1>4, <3>1
  <2>. QED  BY <1>7, <2>1, <2>2, <2>3, <2>4 DEF RemoveNext
<1>8. CASE MainNext
  <2>1. CASE PollCall \/ PollReturn \/ Examine \/ Test \/ Mark \/ ScanEnd \/ Greet \/ Read \/ Take
             \/ Refuse \/ AllRemoved
    <3>1. UNCHANGED <<removal, peer>>
      BY <2>1 DEF PollCall, PollReturn, Examine, Test, Mark, ScanEnd, Greet, Read, Take, Refuse, AllRemoved
    <3>. QED  BY <1>1, <3>1
  <2>2. CASE RemoveMarked
    BY <1>0, <1>3, <2>2 DEF RemoveMarked
  <2>. QED  BY <1>2, <1>8, <2>1, <2>2 DEF MainNext
<1>9. CASE WorkerNext
  <2>1. CASE RemoveSender
    BY <1>0, <1>3, <2>1 DEF RemoveSender
  <2>2. CASE FindIndex \/ InsertTopic \/ SetTopic \/ GetReceivers \/ SendNext \/ Published \/ Ignore
    BY <1>1, <2>2 DEF FindIndex, InsertTopic, SetTopic, GetReceivers, SendNext, Published, Ignore
  <2>. QED  BY <1>9, <2>1, <2>2 DEF WorkerNext
<1>10. ASSUME NEW c \in Clients, ClientNext(c) PROVE StageInv'
  BY <1>1, <1>10 DEF ClientNext, Connect, Connected, Close, Send, clientFrame
<1>11. CASE UNCHANGED vars
  BY <1>1, <1>11 DEF vars
<1>. QED  BY <1>7, <1>8, <1>9, <1>10, <1>11 DEF Next

\* What every step keeps, whatever is stale and whoever has left.
SteadyInv == ServerInv /\ LinkInv /\ MailInv /\ TurnInv /\ StageInv

LEMMA InitSteady == Init => SteadyInv
<1>. SUFFICES ASSUME Init PROVE SteadyInv
  OBVIOUS
<1>1. ServerInv
  BY InitServer
<1>2. LinkInv
  BY DEF Init, LinkInv, Waiting
<1>3. MailInv
  BY DEF Init, MailInv
<1>4. TurnInv
  BY DEF Init, TurnInv, NotRemoving, Threads
<1>5. StageInv
  BY DEF Init, StageInv, NotRemoving, Threads
<1>. QED  BY <1>1, <1>2, <1>3, <1>4, <1>5 DEF SteadyInv

LEMMA SteadyInvariant == Spec => []SteadyInv
<1>1. SteadyInv /\ [Next]_vars => SteadyInv'
  <2>. SUFFICES ASSUME SteadyInv, [Next]_vars PROVE SteadyInv'
    OBVIOUS
  <2>1. ServerInv /\ LinkInv /\ MailInv /\ TurnInv /\ StageInv
    BY DEF SteadyInv
  <2>2. ServerInv' /\ LinkInv' /\ MailInv' /\ TurnInv' /\ StageInv'
    BY <2>1, ServerKeeps, LinkKeeps, MailKeeps, TurnKeeps, StageKeeps
  <2>. QED  BY <2>2 DEF SteadyInv
<1>. QED  BY <1>1, InitSteady, PTL DEF Spec

-------------------------------------------------------------------------------
(* What lasts *)

\* The descriptors that are not open, or whose client has closed or had its messages cut.
Failing == {s \in Descriptors : SendFails(s) \/ peer[s] \in broken}

\* Messages that were cut or merged stay so.
LEMMA BrokenGrows ==
  ASSUME SteadyInv, [Next]_vars
  PROVE  broken \subseteq broken'
<1>1. KernelInv
  BY DEF SteadyInv, ServerInv
<1>2. CASE UNCHANGED broken
  BY <1>2
<1>3. CASE Read
  <2>1. CASE RecvFails
    BY <2>1 DEF RecvFails
  <2>2. ASSUME NEW c \in Clients, NEW q \in Seq(Message), Reads(c, q) PROVE broken \subseteq broken'
    BY <2>2 DEF Reads
  <2>. QED  BY <1>1, <1>3, <2>1, <2>2, ReadTakes
<1>. QED  BY <1>2, <1>3, MailSteps DEF vars, clientVars

\* A client that has closed stays closed, and a descriptor that is not open, or whose
\* client has closed or had its messages cut, stays so until accept gives it to the
\* next client.
LEMMA FailureLasts ==
  ASSUME SteadyInv, [Next]_vars
  PROVE  /\ \A c : Closed(c) => Closed(c)'
         /\ \A s \in Failing : s \in Failing' \/ (mpc = "accept" /\ (stale' \/ s \notin Listed))
<1>1. /\ conn \in [Clients -> {"new", "connecting", "connected", "failed", "closed"}]
      /\ peer \in [Descriptors -> Clients \cup {NoClient}]
      /\ NoClient \notin Clients /\ KernelInv
  BY ClientsAssumption DEF SteadyInv, ServerInv, KernelInv
<1>0. broken \subseteq broken' /\ broken \subseteq Clients
  BY <1>1, BrokenGrows DEF KernelInv
<1>2. CASE UNCHANGED <<conn, peer>>
  BY <1>0, <1>2 DEF Closed, SendFails, Failing
<1>3. ASSUME NEW c \in Clients, Connect(c) \/ Connected(c) \/ Close(c), UNCHANGED peer
      PROVE  /\ \A x : Closed(x) => Closed(x)'
             /\ Failing \subseteq Failing'
  <2>1. \A x \in Clients : conn[x] = "closed" => conn'[x] = "closed"
    BY <1>1, <1>3 DEF Connect, Connected, Close
  <2>. QED  BY <1>0, <1>3, <2>1 DEF Closed, SendFails, Failing
<1>4. CASE Accept /\ UNCHANGED conn
  <2>1. CASE UNCHANGED peer
    BY <1>2, <1>4, <2>1
  <2>2. ASSUME NEW f \in Descriptors, peer' = [peer EXCEPT ![f] = pending[1]],
               stale' = (stale \/ f \in Listed)
        PROVE  /\ \A x : Closed(x) => Closed(x)'
               /\ \A s \in Failing : s \in Failing' \/ (mpc = "accept" /\ (stale' \/ s \notin Listed))
    <3>1. mpc = "accept"
      BY <1>4 DEF Accept
    <3>2. \A s \in Descriptors : s # f => peer'[s] = peer[s]
      BY <1>1, <2>2
    <3>. QED  BY <1>0, <1>4, <2>2, <3>1, <3>2 DEF Closed, SendFails, Failing
  <2>. QED  BY <1>1, <1>4, <2>1, <2>2, AcceptCases
<1>5. ASSUME NEW th \in Threads, RemoveClose(th), UNCHANGED conn
      PROVE  /\ \A x : Closed(x) => Closed(x)'
             /\ Failing \subseteq Failing'
  <2>1. \A s \in Descriptors : peer'[s] = peer[s] \/ peer'[s] = NoClient
    BY <1>1, <1>5 DEF RemoveClose
  <2>. QED  BY <1>0, <1>5, <2>1 DEF Closed, SendFails, Failing
<1>6. CASE UNCHANGED vars
  BY <1>2, <1>6 DEF vars, clientVars
<1>. QED  BY <1>2, <1>3, <1>4, <1>5, <1>6, LinkSteps

\* Only a removal drops a client, and none that is dropped comes back.
LEMMA DroppedChanges ==
  ASSUME SteadyInv, [Next]_vars, NEW c \in Clients
  PROVE  /\ Dropped(c) => Dropped(c)' \/ Closed(c)'
         /\ Dropped(c)' => \/ Dropped(c)
                           \/ \E th \in Threads : /\ RemoveClose(th) /\ UNCHANGED conn
                                                  /\ peer[removal[th].sock] = c /\ ~Closed(c)
<1>1. /\ conn \in [Clients -> {"new", "connecting", "connected", "failed", "closed"}]
      /\ peer \in [Descriptors -> Clients \cup {NoClient}]
      /\ NoClient \notin Clients /\ KernelInv /\ LinkInv /\ pending \in Seq(Clients)
      /\ RemovalInv
  BY ClientsAssumption DEF SteadyInv, ServerInv, KernelInv
<1>. DEFINE alive == {"connecting", "connected", "failed"}
<1>2. /\ Dropped(c) <=> conn[c] \in alive /\ ~Linked(c) /\ c \notin Waiting
      /\ Dropped(c)' <=> conn'[c] \in alive /\ ~Linked(c)' /\ c \notin Waiting'
  BY DEF Dropped, Waiting
<1>3. CASE UNCHANGED <<conn, pending, peer>>
  BY <1>2, <1>3 DEF Linked, Waiting
<1>4. ASSUME NEW d \in Clients, Connect(d), UNCHANGED peer
      PROVE  (Dropped(c) => Dropped(c)') /\ (Dropped(c)' => Dropped(c))
  <2>1. conn[d] = "new" /\ conn' = [conn EXCEPT ![d] = "connecting"] /\ pending' = Append(pending, d)
    BY <1>4 DEF Connect
  <2>2. Waiting' = Waiting \cup {d}
    <3>1. /\ DOMAIN pending = 1..Len(pending) /\ Len(pending) \in Nat
          /\ DOMAIN pending' = 1..(Len(pending) + 1) /\ pending'[Len(pending) + 1] = d
          /\ \A i \in 1..Len(pending) : pending'[i] = pending[i]
      BY <1>1, <2>1, AppendProperties
    <3>. QED  BY <3>1 DEF Waiting
  <2>3. Linked(c)' <=> Linked(c)
    BY <1>4 DEF Linked
  <2>. QED  BY <1>1, <1>2, <2>1, <2>2, <2>3
<1>5. ASSUME NEW d \in Clients, Connected(d) \/ Close(d), UNCHANGED <<pending, peer>>
      PROVE  (Dropped(c) => Dropped(c)' \/ Closed(c)') /\ (Dropped(c)' => Dropped(c))
  <2>1. Waiting' = Waiting /\ (Linked(c)' <=> Linked(c))
    BY <1>5 DEF Waiting, Linked
  <2>2. /\ conn[c] \in alive => conn'[c] \in alive \cup {"closed"}
        /\ conn'[c] \in alive => conn[c] \in alive
    BY <1>1, <1>5 DEF Connected, Close
  <2>. QED  BY <1>2, <2>1, <2>2 DEF Closed
<1>6. CASE Accept /\ UNCHANGED conn
  <2>1. CASE UNCHANGED <<pending, peer>>
    BY <1>3, <1>6, <2>1
  <2>2. ASSUME NEW f \in Descriptors, peer[f] = NoClient, pending[1] \in Clients, 1 \in DOMAIN pending,
               peer' = [peer EXCEPT ![f] = pending[1]],
               \A i \in DOMAIN pending' : i + 1 \in DOMAIN pending /\ pending'[i] = pending[i + 1],
               \A i \in DOMAIN pending : i = 1 \/ (i - 1 \in DOMAIN pending' /\ pending'[i - 1] = pending[i])
        PROVE  (Dropped(c) => Dropped(c)') /\ (Dropped(c)' => Dropped(c))
    <3>1. Waiting \subseteq Waiting' \cup {pending[1]} /\ Waiting' \subseteq Waiting
      BY <2>2 DEF Waiting
    <3>2. pending[1] \in Waiting
      BY <2>2 DEF Waiting
    <3>3. \A g \in Descriptors : peer'[g] = IF g = f THEN pending[1] ELSE peer[g]
      BY <1>1, <2>2
    <3>4. Linked(c)' <=> Linked(c) \/ c = pending[1]
      BY <1>1, <2>2, <3>3 DEF Linked
    <3>. QED  BY <1>2, <1>6, <3>1, <3>2, <3>4
  <2>. QED  BY <1>1, <1>6, <2>1, <2>2, AcceptCases
<1>7. ASSUME NEW th \in Threads, RemoveClose(th), UNCHANGED <<conn, pending>>
      PROVE  /\ Dropped(c) => Dropped(c)'
             /\ Dropped(c)' => Dropped(c) \/ (peer[removal[th].sock] = c /\ ~Closed(c))
  <2>1. Waiting' = Waiting
    BY <1>7 DEF Waiting
  <2>2. \A g \in Descriptors : peer'[g] = IF g = removal[th].sock THEN NoClient ELSE peer[g]
    BY <1>1, <1>7 DEF RemoveClose
  <2>3. /\ Linked(c)' => Linked(c)
        /\ Linked(c) /\ ~Linked(c)' => peer[removal[th].sock] = c
    BY <1>1, <2>2 DEF Linked
  <2>4. conn[c] \in alive => ~Closed(c)
    BY DEF Closed
  <2>. QED  BY <1>2, <1>7, <2>1, <2>3, <2>4
<1>8. CASE UNCHANGED vars
  BY <1>3, <1>8 DEF vars, clientVars
<1>. HIDE DEF alive
<1>. QED  BY <1>3, <1>4, <1>5, <1>6, <1>7, <1>8, LinkSteps

\* The descriptors and clients of which the one is the other's, or the other has left.
Attributed ==
  {pair \in Descriptors \X Clients :
     ~Closed(pair[2]) /\ Linked(pair[2]) => peer[pair[1]] = pair[2]}

\* A client that has left is gone for good, and one that has not keeps its descriptor.
LEMMA AttributionLasts ==
  ASSUME SteadyInv, [Next]_vars, NEW s \in Descriptors, NEW by \in Clients, sent[by] # <<>>,
         <<s, by>> \in Attributed
  PROVE  <<s, by>> \in Attributed'
<1>1. /\ peer \in [Descriptors -> Clients \cup {NoClient}]
      /\ NoClient \notin Clients /\ KernelInv /\ LinkInv /\ RemovalInv
  BY ClientsAssumption DEF SteadyInv, ServerInv, KernelInv
<1>2. Closed(by) => Closed(by)'
  BY FailureLasts
<1>3. CASE UNCHANGED peer
  BY <1>2, <1>3 DEF Attributed, Linked
<1>4. CASE Accept
  <2>1. ASSUME NEW f \in Descriptors, peer[f] = NoClient, 1 \in DOMAIN pending,
               peer' = [peer EXCEPT ![f] = pending[1]]
        PROVE  <<s, by>> \in Attributed'
    <3>1. pending[1] # by
      BY <1>1, <2>1 DEF LinkInv, Waiting
    <3>2. \A g \in Descriptors : peer'[g] = IF g = f THEN pending[1] ELSE peer[g]
      BY <1>1, <2>1
    <3>3. Linked(by)' => Linked(by)
      BY <3>1, <3>2 DEF Linked
    <3>4. peer[s] = by => peer'[s] = by
      BY <1>1, <2>1, <3>2
    <3>. QED  BY <1>2, <3>3, <3>4 DEF Attributed
  <2>. QED  BY <1>1, <1>3, <1>4, <2>1, AcceptCases
<1>5. ASSUME NEW th \in Threads, RemoveClose(th) PROVE <<s, by>> \in Attributed'
  <2>1. \A g \in Descriptors : peer'[g] = IF g = removal[th].sock THEN NoClient ELSE peer[g]
    BY <1>1, <1>5 DEF RemoveClose
  <2>2. Linked(by)' => Linked(by)
    BY <1>1, <2>1 DEF Linked
  <2>3. Linked(by)' /\ peer[s] = by => peer'[s] = by
    BY <1>1, <2>1 DEF Linked, LinkInv
  <2>. QED  BY <1>2, <2>2, <2>3 DEF Attributed
<1>6. CASE UNCHANGED vars
  BY <1>3, <1>6 DEF vars
<1>. QED  BY <1>3, <1>4, <1>5, <1>6, LinkSteps

\* Nothing that was sent is forgotten.
LEMMA SentGrows ==
  ASSUME SteadyInv, [Next]_vars, NEW c \in Clients
  PROVE  /\ DOMAIN sent[c] \subseteq DOMAIN sent'[c]
         /\ \A k \in DOMAIN sent[c] : sent'[c][k] = sent[c][k]
<1>1. sent \in [Clients -> Seq(Message)] /\ sent[c] \in Seq(Message)
  BY DEF SteadyInv, ServerInv, KernelInv
<1>2. CASE UNCHANGED sent
  BY <1>2
<1>3. ASSUME NEW d \in Clients, NEW type \in {"subscribe", "publish", "error"}, NEW topic \in Topics,
             Send(d, type, topic)
      PROVE  /\ DOMAIN sent[c] \subseteq DOMAIN sent'[c]
             /\ \A k \in DOMAIN sent[c] : sent'[c][k] = sent[c][k]
  <2>1. PICK m \in Message : sent' = [sent EXCEPT ![d] = Append(sent[d], m)]
    <3>. DEFINE m == [type |-> type, topic |-> topic, by |-> d, n |-> Len(sent[d]) + 1]
    <3>1. sent[d] \in Seq(Message)
      BY <1>1
    <3>2. m \in Message /\ sent' = [sent EXCEPT ![d] = Append(sent[d], m)]
      BY <1>3, <3>1, MaxSentAssumption DEF Send, Message
    <3>. QED  BY <3>2
  <2>2. CASE d = c
    BY <1>1, <2>1, <2>2, AppendProperties
  <2>3. CASE d # c
    BY <1>1, <2>1, <2>3
  <2>. QED  BY <2>2, <2>3
<1>4. CASE UNCHANGED vars
  BY <1>2, <1>4 DEF vars, clientVars
<1>. QED  BY <1>2, <1>3, <1>4, LinkSteps

-------------------------------------------------------------------------------
(* As long as no thread used anything that was out of date *)

Scanning == mpc \in {"scan", "accept", "greet", "test", "read", "mark", "hand"}

\* A marked client is to be removed, and while the list is gone through it is there.
MarkedGone ==
  \A k \in DOMAIN marked : marked[k] \in Failing /\ (mpc # "remove" => marked[k] \in Listed)

\* What poll found of a socket of the list that is to be marked.
FoundGone ==
  Scanning => \A i \in 2..Len(fds) : revents[i] \in {"hup", "nval"} => fds[i] \in Failing

\* What is in the dispatcher's hand is of the client at the slot.
HandFresh ==
  /\ mpc \in {"test", "read", "mark", "hand"} => slot \in DOMAIN fds
  /\ mpc \in {"test", "mark", "hand"} => hand[1] = fds[slot]
  /\ mpc = "mark" => hand[1] \in Failing
  /\ mpc = "hand" => <<hand[1], hand[2].by>> \in Attributed

EventFresh == Busy => <<event.from, msg.by>> \in Attributed

FreshInv ==
  ~stale =>
    /\ \A c \in Clients : Dropped(c) => SentError(c) \/ c \in broken
    /\ MarkedGone /\ FoundGone /\ HandFresh /\ EventFresh

\* The steps that touch these parts, until something is stale.
LEMMA FreshSteps ==
  ASSUME SteadyInv, Next, ~stale'
  PROVE  /\ ~stale
         /\ \/ UNCHANGED <<fds, revents, slot, hand, marked, mpc>>
            \/ PollCall /\ UNCHANGED marked
            \/ PollReturn
            \/ Examine /\ UNCHANGED <<fds, revents, marked>>
            \/ Test /\ UNCHANGED <<fds, revents, marked>>
            \/ Mark /\ UNCHANGED <<fds, revents>>
            \/ mpc' = "remove" /\ UNCHANGED <<fds, marked>>
            \/ Accept /\ UNCHANGED <<fds, revents, marked>>
            \/ Greet /\ UNCHANGED marked
            \/ Read /\ UNCHANGED <<fds, revents, marked>>
            \/ mpc = "hand" /\ mpc' = "scan" /\ UNCHANGED <<fds, revents, marked>>
            \/ /\ mpc = "remove" /\ marked = <<>> /\ UNCHANGED <<fds, marked>>
               /\ mpc' = "poll"
            \/ /\ mpc = "remove" /\ UNCHANGED mpc
               /\ UNCHANGED marked \/ (marked # <<>> /\ marked' = Tail(marked))
            \/ /\ mpc \in {"poll", "polling"} /\ UNCHANGED <<mpc, marked>>
<1>1. ASSUME NEW c \in Clients, ClientNext(c)
      PROVE  UNCHANGED <<fds, revents, slot, hand, marked, mpc, stale>>
  BY <1>1 DEF ClientNext, Connect, Connected, Close, Send, clientFrame, mainVars, sharedVars, listVars
<1>2. CASE MainNext
  <2>1. CASE PollCall
    BY <2>1 DEF PollCall
  <2>2. CASE PollReturn
    <3>1. stale' = (stale \/ \E j \in DOMAIN fds : polled[j] # fds[j])
      BY <2>2 DEF PollReturn
    <3>. QED  BY <2>2, <3>1
  <2>6. CASE Greet \/ Read
    BY <2>6 DEF Greet, Read, sharedVars, listVars
  <2>8. CASE Examine
    BY <2>8 DEF Examine, sharedVars, listVars
  <2>9. CASE Test
    BY <2>9 DEF Test, sharedVars, listVars
  <2>10. CASE Mark
    BY <2>10 DEF Mark, sharedVars, listVars
  <2>7. CASE Accept
    <3>1. UNCHANGED <<fds, revents, marked>>
      BY <2>7 DEF Accept, sharedVars, listVars
    <3>2. ~stale
      <4>1. KernelInv
        BY DEF SteadyInv, ServerInv
      <4>. QED  BY <2>7, <4>1, AcceptCases
    <3>. QED  BY <2>7, <3>1, <3>2
  <2>3. CASE Take \/ Refuse
    BY <2>3 DEF Take, Refuse, sharedVars, listVars
  <2>4. CASE ScanEnd \/ AllRemoved
    BY <2>4 DEF ScanEnd, AllRemoved, listVars
  <2>5. CASE RemoveMarked
    BY <2>5 DEF RemoveMarked, mainVars, sharedVars
  <2>. QED  BY <1>2, <2>1, <2>2, <2>3, <2>4, <2>5, <2>6, <2>7, <2>8, <2>9, <2>10 DEF MainNext
<1>3. CASE WorkerNext
  <2>1. UNCHANGED <<fds, revents, slot, hand, marked, mpc>>
    BY <1>3 DEF WorkerNext, FindIndex, InsertTopic, SetTopic, GetReceivers, SendNext, Published,
                RemoveSender, Ignore, mainVars, sharedVars, listVars
  <2>2. ~stale
    BY <1>3 DEF WorkerNext, FindIndex, InsertTopic, SetTopic, GetReceivers, SendNext, Published,
                RemoveSender, Ignore
  <2>. QED  BY <2>1, <2>2
<1>4. ASSUME NEW th \in Threads, Search(th) \/ RemoveTopic(th)
      PROVE  UNCHANGED <<fds, revents, slot, hand, marked, mpc>> /\ ~stale
  <2>1. CASE Search(th)
    BY <2>1 DEF Search, mainVars
  <2>2. CASE RemoveTopic(th)
    BY <2>2 DEF RemoveTopic, mainVars
  <2>. QED  BY <1>4, <2>1, <2>2
<1>5. ASSUME NEW th \in Threads, RemoveClose(th)
      PROVE  UNCHANGED <<fds, revents, slot, hand, marked, mpc>> /\ ~stale
  BY <1>5 DEF RemoveClose, mainVars, sharedVars, listVars
<1>6. ASSUME NEW th \in Threads, RemoveFromList(th)
      PROVE  /\ ~stale /\ UNCHANGED mpc
             /\ \/ mpc = "remove" /\ (UNCHANGED marked \/ (marked # <<>> /\ marked' = Tail(marked)))
                \/ mpc \in {"poll", "polling"} /\ UNCHANGED marked
  <2>1. /\ UNCHANGED mpc /\ removal[th].stage = "list"
        /\ \/ th = "main" /\ marked' = Tail(marked) /\ UNCHANGED stale
           \/ /\ th = "worker" /\ UNCHANGED marked
              /\ stale' = (stale \/ Scans \/ peer[removal[th].sock] # NoClient)
    BY <1>6 DEF RemoveFromList
  <2>2. CASE th = "main"
    BY <2>1, <2>2 DEF SteadyInv, TurnInv, ServerInv, RemovalInv
  <2>3. CASE th = "worker"
    BY <2>1, <2>3 DEF Scans
  <2>. QED  BY <2>2, <2>3 DEF Threads
<1>. QED  BY <1>1, <1>2, <1>3, <1>4, <1>5, <1>6 DEF Next, RemoveNext

LEMMA DroppedStaysFair ==
  ASSUME SteadyInv, FreshInv, [Next]_vars, ~stale', NEW c \in Clients, Dropped(c)'
  PROVE  SentError(c)' \/ c \in broken'
<1>1. ~stale
  BY FreshSteps DEF vars
<1>4. CASE c \in broken
  BY <1>4, BrokenGrows
<1>2. CASE SentError(c)
  BY <1>2, SentGrows DEF SentError
<1>3. CASE ~SentError(c) /\ c \notin broken
  <2>1. ~Dropped(c)
    BY <1>1, <1>3 DEF FreshInv
  <2>2. PICK th \in Threads : /\ RemoveClose(th) /\ UNCHANGED conn
                              /\ peer[removal[th].sock] = c /\ ~Closed(c)
    BY <2>1, DroppedChanges
  <2>3. removal[th].stage = "close"
    BY <2>2 DEF RemoveClose
  <2>4. CASE th = "main"
    <3>1. removal[th].sock = marked[1] /\ marked # <<>> /\ marked \in Seq(Descriptors \cup {NoSocket})
      BY <2>3, <2>4 DEF SteadyInv, TurnInv, ServerInv, RemovalInv, MainInv
    <3>2. 1 \in DOMAIN marked
      BY <3>1, EmptySeq
    <3>3. SendFails(marked[1]) \/ peer[marked[1]] \in broken
      BY <1>1, <3>2 DEF FreshInv, MarkedGone, Failing
    <3>. QED  BY <1>3, <2>2, <3>1, <3>3, ClientsAssumption DEF SendFails
  <2>5. CASE th = "worker"
    <3>1. ~Departed
      BY <2>2, <2>5 DEF RemoveClose
    <3>2. removal[th].sock = event.from /\ msg.type = "error" /\ wpc = "remove"
      BY <2>3, <2>5 DEF SteadyInv, TurnInv
    <3>3. WasSent(sent, broken, msg)
      BY <3>2 DEF SteadyInv, MailInv, ServerInv, WorkerInv
    <3>. QED  BY <1>3, <2>2, <3>1, <3>2, <3>3 DEF Departed, WasSent, SentError
  <2>. QED  BY <2>4, <2>5 DEF Threads
<1>. QED  BY <1>2, <1>3, <1>4

\* What the parts of the state have for types, in one place.
LEMMA SteadyTypes ==
  ASSUME SteadyInv
  PROVE  /\ fds \in Seq(Sockets) /\ Len(fds) \in Nat /\ DOMAIN fds = 1..Len(fds)
         /\ fds[1] = Listener /\ \A i \in 2..Len(fds) : fds[i] \in Descriptors
         /\ metadata \in Seq(Metadata) /\ DOMAIN metadata = 1..Len(metadata) /\ Len(metadata) \in Nat
         /\ revents \in Seq(Revents) /\ Len(revents) = Len(fds)
         /\ marked \in Seq(Descriptors \cup {NoSocket}) /\ slot \in Nat
         /\ place \in Seq(Event) /\ Len(place) <= 1
         /\ Busy => event.from \in Descriptors /\ msg \in Message /\ msg.by \in Clients
         /\ peer \in [Descriptors -> Clients \cup {NoClient}] /\ NoClient \notin Clients
<1>1. /\ fds \in Seq(Sockets) /\ metadata \in Seq(Metadata)
      /\ revents \in Seq(Revents) /\ Len(revents) = Len(fds) /\ fds[1] = Listener
  BY DEF SteadyInv, ServerInv, ListenerInv, ListInv, ListTypeOK
<1>2. \A i \in 2..Len(fds) : fds[i] \in Descriptors
  BY SlotOfClient DEF SteadyInv, ServerInv
<1>3. /\ marked \in Seq(Descriptors \cup {NoSocket}) /\ slot \in Nat /\ place \in Seq(Event) /\ Len(place) <= 1
      /\ peer \in [Descriptors -> Clients \cup {NoClient}] /\ NoClient \notin Clients
  BY ClientsAssumption DEF SteadyInv, ServerInv, MainInv, WorkerInv, KernelInv
<1>4. ASSUME Busy PROVE event.from \in Descriptors /\ msg \in Message /\ msg.by \in Clients
  <2>1. place[1] \in Event
    BY <1>3, <1>4 DEF Busy
  <2>. QED  BY <2>1 DEF event, msg, Event, Message
<1>. QED  BY <1>1, <1>2, <1>3, <1>4

\* A socket that poll reports to have failed does fail.
LEMMA ReportsFailure ==
  ASSUME NEW s \in Descriptors, NEW r \in Reports(s), r \in {"hup", "nval"}
  PROVE  s \in Failing
<1>1. s # Listener
  BY DEF Descriptors
<1>. QED  BY <1>1 DEF Reports, SendFails, Failing

LEMMA FoundStaysGone ==
  ASSUME SteadyInv, FreshInv, [Next]_vars, ~stale'
  PROVE  FoundGone'
<1>1. ~stale /\ FoundGone
  BY FreshSteps DEF vars, FreshInv
<1>2. /\ fds \in Seq(Sockets) /\ Len(fds) \in Nat /\ DOMAIN fds = 1..Len(fds)
      /\ \A i \in 2..Len(fds) : fds[i] \in Descriptors /\ fds[i] \in Listed
      /\ Len(revents) = Len(fds) /\ revents \in Seq(Revents) /\ DOMAIN revents = 1..Len(fds)
  BY SteadyTypes DEF Listed
<1>3. ASSUME Scanning, NEW i \in 2..Len(fds), revents[i] \in {"hup", "nval"}
      PROVE  fds[i] \in Failing'
  BY <1>1, <1>2, <1>3, FailureLasts DEF FoundGone
<1>4. CASE Scanning /\ UNCHANGED <<fds, revents>>
  BY <1>3, <1>4 DEF FoundGone
<1>5. CASE ~Scanning /\ UNCHANGED mpc
  BY <1>5 DEF FoundGone, Scanning
<1>6. CASE PollReturn
  <2>1. PICK found \in [DOMAIN polled -> {"none", "in", "hup", "nval"}] :
          /\ \A j \in DOMAIN polled : found[j] \in Reports(polled[j])
          /\ revents' = [j \in DOMAIN revents |-> IF j \in DOMAIN polled THEN found[j] ELSE revents[j]]
    BY <1>6 DEF PollReturn
  <2>2. stale' = (stale \/ \E j \in DOMAIN fds : polled[j] # fds[j])
    BY <1>6 DEF PollReturn
  <2>3. UNCHANGED <<fds, conn, peer, broken>> /\ mpc = "polling"
    BY <1>6 DEF PollReturn, listVars, clientVars
  <2>4. \A j \in DOMAIN fds : j \in DOMAIN polled /\ polled[j] = fds[j]
    <3>1. polled \in Seq(Sockets) /\ Len(fds) <= Len(polled)
      BY <2>3 DEF SteadyInv, TurnInv
    <3>2. DOMAIN polled = 1..Len(polled) /\ Len(polled) \in Nat
      BY <3>1
    <3>3. \A j \in DOMAIN fds : polled[j] = fds[j]
      BY <2>2
    <3>. QED  BY <1>2, <3>1, <3>2, <3>3
  <2>5. ASSUME NEW i \in 2..Len(fds), revents'[i] \in {"hup", "nval"} PROVE fds[i] \in Failing
    <3>1. i \in DOMAIN fds /\ i \in DOMAIN revents
      BY <1>2
    <3>2. revents'[i] \in Reports(fds[i])
      BY <2>1, <2>4, <3>1
    <3>. QED  BY <1>2, <2>5, <3>2, ReportsFailure
  <2>6. Failing' = Failing
    BY <2>3 DEF Failing, SendFails, Closed
  <2>. QED  BY <2>3, <2>5, <2>6 DEF FoundGone
<1>7. CASE Greet
  <2>1. mpc = "greet"
    BY <1>7 DEF Greet
  <2>2. CASE UNCHANGED <<fds, revents>>
    BY <1>4, <2>1, <2>2 DEF Scanning
  <2>3. CASE fds' = Append(fds, hand[1]) /\ revents' = Append(revents, "none")
    <3>1. hand[1] \in Sockets
      BY <2>1 DEF SteadyInv, ServerInv, MainInv, Descriptors
    <3>2. /\ Len(fds') = Len(fds) + 1
          /\ \A i \in 1..Len(fds) : fds'[i] = fds[i] /\ revents'[i] = revents[i]
          /\ revents'[Len(fds) + 1] = "none"
      BY <1>2, <2>3, <3>1, AppendProperties DEF Revents
    <3>3. \A i \in 2..Len(fds') : i \in 2..Len(fds) \/ i = Len(fds) + 1
      BY <1>2, <3>2
    <3>. QED  BY <1>3, <2>1, <3>2, <3>3 DEF FoundGone, Scanning
  <2>. QED  BY <1>7, <2>2, <2>3 DEF Greet, ListAppend, listVars
<1>8. CASE PollCall
  BY <1>8 DEF PollCall, FoundGone, Scanning
<1>9. CASE Examine \/ Test \/ Mark \/ Accept \/ Read
  BY <1>4, <1>9 DEF Examine, Test, Mark, Accept, Read, Scanning, sharedVars, listVars
<1>10. CASE UNCHANGED <<fds, revents, mpc>>
  BY <1>4, <1>5, <1>10
<1>11. CASE mpc' \in {"remove", "poll"}
  BY <1>11 DEF FoundGone, Scanning
<1>12. CASE mpc = "hand" /\ UNCHANGED <<fds, revents>>
  BY <1>4, <1>12 DEF Scanning
<1>13. CASE mpc \in {"remove", "poll", "polling"} /\ UNCHANGED mpc
  BY <1>5, <1>13 DEF Scanning
<1>14. CASE UNCHANGED vars
  BY <1>10, <1>14 DEF vars, sharedVars, listVars, mainVars
<1>. QED  BY <1>6, <1>7, <1>8, <1>9, <1>10, <1>11, <1>12, <1>13, <1>14, FreshSteps

\* The sockets that are marked.
Marks == {marked[k] : k \in DOMAIN marked}

LEMMA MarkAppends ==
  ASSUME NEW s \in Descriptors, marked \in Seq(Descriptors \cup {NoSocket}), marked' = Append(marked, s)
  PROVE  Marks' = Marks \cup {s}
<1>1. /\ DOMAIN marked = 1..Len(marked) /\ Len(marked) \in Nat
      /\ DOMAIN marked' = 1..(Len(marked) + 1) /\ marked'[Len(marked) + 1] = s
      /\ \A i \in 1..Len(marked) : marked'[i] = marked[i]
  BY AppendProperties
<1>. QED  BY <1>1 DEF Marks

LEMMA MarkedStaysGone ==
  ASSUME SteadyInv, FreshInv, [Next]_vars, ~stale'
  PROVE  MarkedGone'
<1>1. ~stale /\ HandFresh /\ \A s \in Marks : s \in Failing /\ (mpc # "remove" => s \in Listed)
  BY FreshSteps DEF vars, FreshInv, MarkedGone, Marks
<1>2. MarkedGone' <=> \A s \in Marks' : s \in Failing' /\ (mpc' # "remove" => s \in Listed')
  BY DEF MarkedGone, Marks
<1>3. \A s \in Marks : s \in Failing'
  BY <1>1, FailureLasts
<1>4. ASSUME Marks' \subseteq Marks, mpc' # "remove" => mpc # "remove" /\ Listed \subseteq Listed'
      PROVE  MarkedGone'
  BY <1>1, <1>2, <1>3, <1>4
<1>5. UNCHANGED marked => Marks' = Marks
  BY DEF Marks
<1>6. UNCHANGED fds => Listed' = Listed
  BY DEF Listed
<1>7. CASE UNCHANGED <<fds, marked>> /\ (mpc' = "remove" \/ mpc # "remove" \/ UNCHANGED mpc)
  BY <1>1, <1>2, <1>3, <1>5, <1>6, <1>7
<1>8. CASE marked' = <<>>
  BY <1>8 DEF MarkedGone
<1>9. CASE mpc = "remove" /\ UNCHANGED mpc /\ marked # <<>> /\ marked' = Tail(marked)
  <2>1. Marks' \subseteq Marks
    <3>1. /\ DOMAIN marked' = 1..(Len(marked) - 1) /\ DOMAIN marked = 1..Len(marked) /\ Len(marked) \in Nat
          /\ \A i \in 1..(Len(marked) - 1) : marked'[i] = marked[i + 1]
      BY <1>9, SteadyTypes, HeadTailProperties
    <3>. QED  BY <3>1 DEF Marks
  <2>. QED  BY <1>4, <1>9, <2>1
<1>10. ASSUME NEW s \in Failing, s \in Listed, mpc # "accept", mpc # "remove",
              UNCHANGED fds, marked' = Append(marked, s)
       PROVE  MarkedGone'
  <2>1. Marks' = Marks \cup {s}
    BY <1>10, MarkAppends, SteadyTypes DEF Failing
  <2>2. s \in Failing'
    BY <1>10, FailureLasts
  <2>. QED  BY <1>1, <1>2, <1>3, <1>6, <1>10, <2>1, <2>2
<1>11. CASE Mark /\ UNCHANGED fds
  <2>1. mpc = "mark" /\ slot \in DOMAIN fds /\ hand[1] = fds[slot] /\ hand[1] \in Failing
    BY <1>1, <1>11 DEF Mark, HandFresh
  <2>2. PICK s \in {FdAgain} : marked' = Append(marked, s)
    BY <1>11 DEF Mark
  <2>3. s \in Failing /\ s \in Listed
    BY <2>1, <2>2 DEF FdAgain, Listed
  <2>. QED  BY <1>10, <1>11, <2>1, <2>2, <2>3
<1>12. CASE (Examine \/ Test \/ Read) /\ UNCHANGED <<fds, marked>>
  BY <1>7, <1>12 DEF Examine, Test, Read
<1>13. CASE Greet /\ UNCHANGED marked
  <2>1. mpc = "greet" /\ mpc' = "scan"
    BY <1>13 DEF Greet
  <2>2. Listed \subseteq Listed'
    <3>1. CASE UNCHANGED fds
      BY <1>6, <3>1
    <3>2. CASE fds' = Append(fds, hand[1])
      <4>1. hand[1] \in Sockets
        BY <2>1 DEF SteadyInv, ServerInv, MainInv, Descriptors
      <4>2. /\ DOMAIN fds = 1..Len(fds) /\ DOMAIN fds' = 1..(Len(fds) + 1) /\ Len(fds) \in Nat
            /\ \A i \in 1..Len(fds) : fds'[i] = fds[i]
        BY <3>2, <4>1, SteadyTypes, AppendProperties
      <4>. QED  BY <4>2 DEF Listed
    <3>. QED  BY <1>13, <3>1, <3>2 DEF Greet, ListAppend, listVars
  <2>. QED  BY <1>4, <1>5, <1>13, <2>1, <2>2
<1>14. CASE PollReturn \/ PollCall
  BY <1>7, <1>14 DEF PollReturn, PollCall, listVars
<1>15. CASE Accept /\ UNCHANGED <<fds, marked>>
  BY <1>7, <1>15 DEF Accept
<1>16. CASE mpc \in {"poll", "polling"} /\ UNCHANGED <<mpc, marked>>
  BY <1>8, <1>16 DEF SteadyInv, TurnInv
<1>17. CASE UNCHANGED vars
  BY <1>7, <1>17 DEF vars, listVars, mainVars
<1>18. CASE mpc = "remove" /\ marked = <<>> /\ UNCHANGED marked
  BY <1>8, <1>18
<1>19. CASE mpc = "remove" /\ UNCHANGED <<mpc, marked>>
  BY <1>4, <1>5, <1>19
<1>. QED  BY <1>7, <1>8, <1>9, <1>11, <1>12, <1>13, <1>14, <1>15, <1>16, <1>17, <1>18, <1>19, FreshSteps

\* A message that was sent stays attributed to the descriptor it came from.
LEMMA SenderStays ==
  ASSUME SteadyInv, [Next]_vars, NEW m, WasSent(sent, broken, m), NEW s \in Descriptors,
         <<s, m.by>> \in Attributed
  PROVE  <<s, m.by>> \in Attributed'
<1>1. m.by \in Clients /\ sent[m.by] # <<>>
  BY DEF WasSent
<1>. QED  BY <1>1, AttributionLasts

LEMMA HandStaysFresh ==
  ASSUME SteadyInv, FreshInv, [Next]_vars, ~stale'
  PROVE  HandFresh'
<1>1. ~stale /\ HandFresh /\ FoundGone
  BY FreshSteps DEF vars, FreshInv
<1>2. CASE mpc' \notin {"test", "read", "mark", "hand"}
  BY <1>2 DEF HandFresh
<1>3. CASE UNCHANGED <<fds, slot, hand, mpc>>
  <2>1. ASSUME mpc = "hand" PROVE <<hand[1], hand[2].by>> \in Attributed'
    <3>1. WasSent(sent, broken, hand[2]) /\ hand[1] \in Descriptors
      BY <2>1 DEF SteadyInv, MailInv, ServerInv, MainInv
    <3>. QED  BY <1>1, <2>1, <3>1, SenderStays DEF HandFresh
  <2>2. mpc = "mark" => hand[1] \in Failing'
    BY <1>1, FailureLasts DEF HandFresh
  <2>. QED  BY <1>1, <1>3, <2>1, <2>2 DEF HandFresh
<1>4. ASSUME slot \in 2..Len(fds), revents[slot] \in {"hup", "nval"}, mpc \in {"scan", "test"}
      PROVE  fds[slot] \in Failing'
  <2>1. fds[slot] \in Failing
    BY <1>1, <1>4 DEF FoundGone, Scanning
  <2>. QED  BY <1>4, <2>1, FailureLasts
<1>5. CASE Examine /\ UNCHANGED <<fds, revents>>
  <2>1. CASE fds[slot] = Listener
    BY <1>2, <1>5, <2>1 DEF Examine
  <2>2. CASE fds[slot] # Listener
    <3>1. /\ slot \in DOMAIN fds /\ mpc = "scan" /\ UNCHANGED slot /\ hand' = <<fds[slot]>>
          /\ mpc' = IF revents[slot] = "hup" THEN "mark" ELSE "test"
      BY <1>5, <2>2 DEF Examine
    <3>2. slot \in 2..Len(fds)
      BY <2>2, <3>1, SteadyTypes
    <3>. QED  BY <1>4, <1>5, <3>1, <3>2 DEF HandFresh
  <2>. QED  BY <2>1, <2>2
<1>6. CASE Test /\ UNCHANGED <<fds, revents>>
  <2>1. mpc = "test" /\ slot \in DOMAIN fds /\ hand[1] = fds[slot] /\ slot > 1
    BY <1>1, <1>6 DEF Test, HandFresh, SteadyInv, ServerInv, MainInv
  <2>2. slot \in 2..Len(fds)
    BY <2>1, SteadyTypes
  <2>3. CASE mpc' = "mark"
    <3>1. revents[slot] = "nval" /\ UNCHANGED slot /\ hand' = <<fds[slot]>>
      BY <1>6, <2>1, <2>3 DEF Test
    <3>. QED  BY <1>4, <1>6, <2>1, <2>2, <2>3, <3>1 DEF HandFresh
  <2>4. CASE mpc' = "read" /\ UNCHANGED slot
    BY <1>6, <2>1, <2>4 DEF HandFresh
  <2>. QED  BY <1>2, <1>6, <2>3, <2>4 DEF Test
<1>7. CASE Read /\ UNCHANGED fds
  <2>1. mpc = "read" /\ UNCHANGED <<slot, peer, conn>> /\ slot \in DOMAIN fds /\ slot > 1
    BY <1>1, <1>7 DEF Read, HandFresh, SteadyInv, ServerInv, MainInv
  <2>2. CASE RecvFails
    BY <1>3, <1>7, <2>1, <2>2 DEF RecvFails
  <2>3. ASSUME NEW c \in Clients, NEW q \in Seq(Message), Reads(c, q) PROVE HandFresh'
    <3>1. PICK s \in Descriptors : s = fds[slot] /\ peer[s] = c
      <4>1. slot \in 2..Len(fds)
        BY <2>1, SteadyTypes
      <4>. QED  BY <2>3, <4>1, SteadyTypes DEF Reads
    <3>2. CASE UNCHANGED <<hand, mpc>>
      BY <1>3, <1>7, <2>1, <3>2
    <3>3. CASE NoMessages /\ (Closed(c) \/ c \in broken')
      <4>1. mpc' = "mark" /\ hand' = <<s>>
        BY <3>1, <3>3 DEF NoMessages
      <4>2. s \in Failing'
        BY <2>1, <3>1, <3>3 DEF Failing, SendFails, Closed
      <4>. QED  BY <1>7, <2>1, <3>1, <4>1, <4>2 DEF HandFresh
    <3>4. ASSUME NEW m \in Message, HandOver(m), m.by \in Senders(outbox[c]) PROVE HandFresh'
      <4>1. mpc' = "hand" /\ hand' = <<s, m>>
        BY <3>1, <3>4 DEF HandOver
      <4>2. m.by = c
        BY <3>4 DEF Senders, SteadyInv, MailInv
      <4>3. <<s, c>> \in Attributed'
        BY <2>1, <3>1 DEF Attributed
      <4>. QED  BY <1>7, <2>1, <3>1, <4>1, <4>2, <4>3 DEF HandFresh
    <3>. QED  BY <2>3, <3>2, <3>3, <3>4, Zenon DEF Reads
  <2>4. KernelInv
    BY DEF SteadyInv, ServerInv
  <2>. QED  BY <1>7, <2>2, <2>3, <2>4, ReadTakes
<1>8. CASE PollCall \/ PollReturn \/ Accept \/ Greet \/ Mark
  BY <1>2, <1>8 DEF PollCall, PollReturn, Accept, Greet, Mark
<1>9. CASE mpc \in {"remove", "poll", "polling"} /\ UNCHANGED mpc
  BY <1>2, <1>9
<1>10. CASE UNCHANGED vars
  BY <1>3, <1>10 DEF vars, listVars, mainVars
<1>. QED  BY <1>2, <1>3, <1>5, <1>6, <1>7, <1>8, <1>9, <1>10, FreshSteps

LEMMA EventStaysFresh ==
  ASSUME SteadyInv, FreshInv, [Next]_vars, ~stale'
  PROVE  EventFresh'
<1>1. ~stale /\ HandFresh /\ EventFresh
  BY FreshSteps DEF vars, FreshInv
<1>2. CASE place' = <<>>
  BY <1>2 DEF EventFresh, Busy
<1>3. CASE UNCHANGED place
  <2>1. event' = event /\ msg' = msg
    BY <1>3 DEF event, msg
  <2>2. ASSUME Busy PROVE <<event.from, msg.by>> \in Attributed'
    <3>1. WasSent(sent, broken, msg) /\ event.from \in Descriptors
      BY <2>2, SteadyTypes DEF SteadyInv, MailInv, Busy
    <3>. QED  BY <1>1, <2>2, <3>1, SenderStays DEF EventFresh
  <2>. QED  BY <1>3, <2>1, <2>2 DEF EventFresh, Busy
<1>4. CASE Take
  <2>1. mpc = "hand" /\ slot \in DOMAIN fds /\ hand[1] = fds[slot] /\ <<hand[1], hand[2].by>> \in Attributed
    BY <1>1, <1>4 DEF Take, HandFresh
  <2>2. PICK s \in {FdAgain} : place' = <<[from |-> s, msg |-> hand[2]]>>
    BY <1>4 DEF Take
  <2>3. s = hand[1]
    BY <2>1, <2>2 DEF FdAgain
  <2>4. WasSent(sent, broken, hand[2]) /\ hand[1] \in Descriptors
    BY <2>1 DEF SteadyInv, MailInv, ServerInv, MainInv
  <2>5. <<hand[1], hand[2].by>> \in Attributed'
    BY <2>1, <2>4, SenderStays
  <2>6. event'.from = hand[1] /\ msg' = hand[2]
    BY <2>2, <2>3 DEF event, msg
  <2>. QED  BY <2>5, <2>6 DEF EventFresh
<1>. QED  BY <1>2, <1>3, <1>4, MailSteps DEF vars, sharedVars

LEMMA FreshInvariant == Spec => []FreshInv
<1>1. Init => FreshInv
  <2>. SUFFICES ASSUME Init PROVE FreshInv
    OBVIOUS
  <2>1. \A c \in Clients : ~Dropped(c)
    BY DEF Init, Dropped
  <2>. QED  BY <2>1 DEF Init, FreshInv, MarkedGone, FoundGone, Scanning, HandFresh, EventFresh, Busy
<1>2. ASSUME SteadyInv, FreshInv, [Next]_vars PROVE FreshInv'
  <2>. SUFFICES ASSUME ~stale'
       PROVE  (\A c \in Clients : Dropped(c)' => SentError(c)' \/ c \in broken')
                /\ MarkedGone' /\ FoundGone' /\ HandFresh' /\ EventFresh'
    BY DEF FreshInv
  <2>1. \A c \in Clients : Dropped(c)' => SentError(c)' \/ c \in broken'
    BY <1>2, DroppedStaysFair
  <2>. QED  BY <1>2, <2>1, MarkedStaysGone, FoundStaysGone, HandStaysFresh, EventStaysFresh
<1>. QED  BY <1>1, <1>2, SteadyInvariant, PTL DEF Spec

-------------------------------------------------------------------------------
\* Until a thread used something out of date, the server drops only the connections of
\* clients that sent an ERROR message, or of whom a read took a part of a message or
\* several at once: from what poll found through the
\* array of marked clients to the removal a descriptor stays that of the same client.
THEOREM DropsAreFair == Spec => []OnlyErrorsAreDropped
<1>1. FreshInv => OnlyErrorsAreDropped
  BY DEF FreshInv, OnlyErrorsAreDropped
<1>. QED  BY <1>1, FreshInvariant, PTL

\* Until then process_messages handles an event for the client that sent it, whatever
\* happened between the dispatcher's read and the worker's turn.
THEOREM EventsKeepTheirSender == Spec => []HandledForSender
<1>1. SteadyInv /\ FreshInv => HandledForSender
  <2>. SUFFICES ASSUME SteadyInv, FreshInv, ~stale, Busy PROVE HandledForSender
    BY DEF HandledForSender
  <2>1. <<event.from, msg.by>> \in Attributed
    BY DEF FreshInv, EventFresh
  <2>. QED  BY <2>1 DEF Attributed, HandledForSender
<1>. QED  BY <1>1, SteadyInvariant, FreshInvariant, PTL
-------------------------------------------------------------------------------
(* As long as no client has left, and every read took one message *)

Gone == \E c \in Clients : Closed(c) \/ Dropped(c) \/ c \in broken

\* The descriptors of connections.
Open == {s \in Descriptors : peer[s] # NoClient}

CalmList ==
  /\ status = "running" /\ Len(metadata) = Len(fds)
  /\ fds \in Seq(Open \cup {Listener})

CalmMarks == marked = <<>> /\ removal["main"].stage = "none"

CalmPoll ==
  /\ revents \in Seq({"none", "in"})
  /\ mpc = "polling" => polled \in Seq(Open \cup {Listener})

CalmHand ==
  /\ mpc # "mark" /\ (mpc \in {"test", "read", "hand"} => slot \in DOMAIN fds)
  /\ mpc = "greet" => hand[1] \in Open

CalmEvent == place # <<>> => event.from \in Listed

\* The indices the worker keeps stay within the arrays they are for.
CalmIndex ==
  /\ wpc = "insert" => widx \in DOMAIN fds
  /\ wpc = "remove" => /\ removal["worker"].stage # "list"
                       /\ removal["worker"].stage # "search" => removal["worker"].idx \in DOMAIN fds
  /\ wpc = "send" => /\ widx \in Nat \ {0} /\ wlen \in Nat
                     /\ wlen <= Len(table[msg.topic].cells)

CalmTable == \A topic \in Topics : table[topic].cells \in Seq(Open)

Calm == CalmList /\ CalmMarks /\ CalmPoll /\ CalmHand /\ CalmEvent /\ CalmIndex /\ CalmTable

CalmInv == ~Gone => Calm

LEMMA SeqGrows ==
  ASSUME NEW A, NEW B, A \subseteq B
  PROVE  Seq(A) \subseteq Seq(B)
<1>1. ASSUME NEW q \in Seq(A) PROVE q \in Seq(B)
  <2>1. Len(q) \in Nat /\ q \in [1..Len(q) -> A]
    BY LenProperties
  <2>2. q \in [1..Len(q) -> B]
    BY <2>1
  <2>. QED  BY <2>1, <2>2, SeqDef
<1>. QED  BY <1>1

\* Until a client has left no connection is closed, and nothing leaves the list.
LEMMA CalmStep ==
  ASSUME SteadyInv, CalmInv, [Next]_vars, ~Gone'
  PROVE  /\ ~Gone /\ Calm /\ Open \subseteq Open'
         /\ \A s \in Open : peer[s] \in Clients /\ ~Closed(peer[s]) /\ ~SendFails(s)
         /\ \A th \in Threads : ~RemoveClose(th) /\ ~RemoveFromList(th)
<1>1. ~Gone
  <2>1. ASSUME NEW c \in Clients, Closed(c) \/ Dropped(c) \/ c \in broken PROVE Gone'
    BY <2>1, FailureLasts, DroppedChanges, BrokenGrows DEF Gone
  <2>. QED  BY <2>1 DEF Gone
<1>2. Calm
  BY <1>1 DEF CalmInv
<1>3. /\ peer \in [Descriptors -> Clients \cup {NoClient}] /\ NoClient \notin Clients /\ KernelInv
      /\ conn \in [Clients -> {"new", "connecting", "connected", "failed", "closed"}]
  BY SteadyTypes DEF SteadyInv, ServerInv, KernelInv
<1>4. \A s \in Open : peer[s] \in Clients /\ ~Closed(peer[s]) /\ ~SendFails(s)
  BY <1>1, <1>3 DEF Open, Gone, SendFails
<1>5. ASSUME NEW th \in Threads, removal[th].stage \in {"close", "list"}
      PROVE  th = "worker" /\ removal[th].stage = "close" /\ removal[th].sock \in Open
  <2>1. th = "worker" /\ wpc = "remove"
    BY <1>2, <1>5 DEF Calm, CalmMarks, Threads, SteadyInv, TurnInv
  <2>2. event.from \in Listed /\ removal[th].sock = event.from /\ event.from \in Descriptors
    BY <1>2, <2>1, SteadyTypes DEF Calm, CalmEvent, SteadyInv, TurnInv, ServerInv, WorkerInv, Busy
  <2>3. Listed \subseteq Open \cup {Listener}
    BY <1>2 DEF Calm, CalmList, Listed
  <2>. QED  BY <1>2, <1>5, <2>1, <2>2, <2>3 DEF Calm, CalmIndex, Descriptors
<1>6. ASSUME NEW th \in Threads PROVE ~RemoveFromList(th)
  BY <1>5 DEF RemoveFromList
<1>7. ASSUME NEW th \in Threads, RemoveClose(th) PROVE FALSE
  <2>. DEFINE s == removal[th].sock
  <2>6. s \in Open /\ peer[s] \in Clients /\ ~Closed(peer[s])
    BY <1>4, <1>5, <1>7 DEF RemoveClose
  <2>1. PICK c \in Clients : s \in Open /\ c = peer[s] /\ ~Closed(c)
    BY <2>6
  <2>2. UNCHANGED <<conn, pending>> /\ peer' = [peer EXCEPT ![s] = NoClient]
    BY <1>7 DEF RemoveClose, clientVars
  <2>. HIDE DEF s
  <2>3. conn[c] \in {"connecting", "connected", "failed"} /\ c \notin Waiting
    BY <1>3, <2>1 DEF SteadyInv, LinkInv, Open, Closed
  <2>4. \A f \in Descriptors : peer'[f] # c
    BY <1>3, <2>1, <2>2 DEF SteadyInv, LinkInv, Open
  <2>5. Dropped(c)'
    BY <2>2, <2>3, <2>4 DEF Dropped, Linked, Waiting
  <2>. QED  BY <2>1, <2>5 DEF Gone
<1>8. Open \subseteq Open'
  <2>1. CASE UNCHANGED peer
    BY <2>1 DEF Open
  <2>2. CASE Accept
    <3>1. ASSUME NEW f \in Descriptors, peer' = [peer EXCEPT ![f] = pending[1]], pending[1] \in Clients
          PROVE  Open \subseteq Open'
      BY <1>3, <3>1 DEF Open
    <3>. QED  BY <1>3, <2>1, <2>2, <3>1, AcceptCases
  <2>3. CASE UNCHANGED vars
    BY <2>1, <2>3 DEF vars
  <2>. QED  BY <1>7, <2>1, <2>2, <2>3, LinkSteps
<1>. QED  BY <1>1, <1>2, <1>4, <1>6, <1>7, <1>8

\* A read takes a message, and takes it whole.
LEMMA CalmReads ==
  ASSUME SteadyInv, CalmInv, [Next]_vars, ~Gone', Read
  PROVE  UNCHANGED <<status, slot, marked>> /\ mpc' = "hand"
<1>1. /\ Calm /\ ~Gone /\ KernelInv
      /\ \A s \in Open : ~Closed(peer[s]) /\ ~SendFails(s)
      /\ mpc = "read" /\ UNCHANGED <<conn, slot, marked>>
  BY CalmStep DEF Read, SteadyInv, ServerInv
<1>2. slot \in DOMAIN fds /\ slot > 1 /\ slot \in Nat
  BY <1>1 DEF Calm, CalmHand, SteadyInv, ServerInv, MainInv
<1>3. fds[slot] \in Open
  <2>1. slot \in 2..Len(fds)
    BY <1>2, SteadyTypes
  <2>. QED  BY <1>1, <2>1, SteadyTypes DEF Calm, CalmList, Descriptors
<1>4. ~RecvFails
  BY <1>1, <1>2, <1>3 DEF RecvFails
<1>5. ASSUME NEW c \in Clients, NEW q \in Seq(Message), Reads(c, q)
      PROVE  UNCHANGED status /\ mpc' = "hand"
  <2>1. c \notin broken' /\ ~Closed(c)
    BY <1>1 DEF Gone
  <2>2. \E m \in Message : HandOver(m)
    BY <1>5, <2>1, Zenon DEF Reads
  <2>3. UNCHANGED status
    BY <1>5, <2>1 DEF Reads
  <2>. QED  BY <2>2, <2>3 DEF HandOver
<1>. QED  BY <1>1, <1>4, <1>5, ReadTakes

\* Nothing ends the server, and the list only grows.
LEMMA CalmRuns ==
  ASSUME SteadyInv, CalmInv, Next, ~Gone'
  PROVE  /\ status' = "running"
         /\ \/ UNCHANGED fds /\ Len(metadata') = Len(metadata)
            \/ Greet /\ ListAppend(hand[1])
<1>1. /\ Calm /\ status = "running" /\ DOMAIN fds = DOMAIN metadata /\ DOMAIN fds = 1..Len(fds)
      /\ \A s \in Open : ~Closed(peer[s]) /\ ~SendFails(s)
      /\ \A i \in 2..Len(fds) : fds[i] \in Open
      /\ \A th \in Threads : ~RemoveClose(th) /\ ~RemoveFromList(th)
  <2>1. Calm /\ \A s \in Open : ~Closed(peer[s]) /\ ~SendFails(s)
    BY CalmStep
  <2>2. \A i \in 2..Len(fds) : fds[i] \in Open
    BY <2>1, SteadyTypes DEF Calm, CalmList, Descriptors
  <2>. QED  BY <2>1, <2>2, CalmStep, SteadyTypes DEF Calm, CalmList
<1>2. CASE UNCHANGED listVars
  BY <1>1, <1>2 DEF listVars
<1>3. ASSUME NEW c \in Clients, ClientNext(c) PROVE UNCHANGED listVars
  BY <1>3 DEF ClientNext, Connect, Connected, Close, Send, clientFrame
<1>4. CASE PollCall \/ PollReturn \/ Examine \/ Test \/ Mark \/ ScanEnd \/ Accept \/ Take \/ Refuse
             \/ AllRemoved
  BY <1>2, <1>4 DEF PollCall, PollReturn, Examine, Test, Mark, ScanEnd, Accept, Take, Refuse, AllRemoved
<1>5. CASE Greet
  <2>1. hand[1] \in Open
    BY <1>1, <1>5 DEF Greet, Calm, CalmHand
  <2>. QED  BY <1>1, <1>5, <2>1 DEF Greet, Killed, ListAppend
<1>6. CASE Read
  BY <1>1, <1>6, CalmReads DEF Read
<1>7. CASE RemoveMarked
  BY <1>1, <1>7 DEF RemoveMarked, Calm, CalmMarks
<1>8. CASE FindIndex
  BY <1>1, <1>8 DEF FindIndex, Calm, CalmEvent, Handles, Busy
<1>9. CASE InsertTopic
  <2>1. UNCHANGED <<fds, status>> /\ widx \in DOMAIN metadata
    BY <1>1, <1>9 DEF InsertTopic, Calm, CalmIndex
  <2>2. UNCHANGED metadata \/ metadata' = [metadata EXCEPT ![widx].topics = Append(@, msg.topic)]
    BY <1>9, <2>1 DEF InsertTopic
  <2>3. Len(metadata') = Len(metadata)
    BY <2>2, SteadyTypes
  <2>. QED  BY <1>1, <2>1, <2>3
<1>10. CASE SetTopic \/ Published \/ RemoveSender \/ Ignore
  BY <1>2, <1>10 DEF SetTopic, Published, RemoveSender, Ignore
<1>11. CASE GetReceivers
  <2>1. event.from \in Open
    <3>1. event.from \in Listed /\ event.from \in Descriptors
      BY <1>1, <1>11, SteadyTypes DEF GetReceivers, Handles, Busy, Calm, CalmEvent
    <3>. QED  BY <1>1, <3>1 DEF Calm, CalmList, Listed, Descriptors
  <2>. QED  BY <1>1, <1>11, <2>1 DEF GetReceivers, Killed
<1>12. CASE SendNext
  <2>1. msg.topic \in Topics
    BY <1>12, SteadyTypes DEF SendNext, Message, Busy, SteadyInv, ServerInv, WorkerInv
  <2>2. table[msg.topic].cells \in Seq(Open)
    BY <1>1, <2>1 DEF Calm, CalmTable
  <2>3. widx \in 1..Len(table[msg.topic].cells)
    BY <1>1, <1>12, <2>2 DEF SendNext, Calm, CalmIndex
  <2>4. table[msg.topic].cells[widx] \in Open
    BY <2>2, <2>3
  <2>. QED  BY <1>1, <1>12, <2>4 DEF SendNext
<1>13. ASSUME NEW th \in Threads, RemoveTopic(th)
       PROVE  UNCHANGED <<fds, metadata, status>>
  <2>1. th = "worker" /\ wpc = "remove"
    BY <1>1, <1>13 DEF RemoveTopic, Calm, CalmMarks, Threads, SteadyInv, TurnInv
  <2>2. removal[th].idx \in DOMAIN metadata
    <3>1. removal["worker"].stage = "topics"
      BY <1>13, <2>1 DEF RemoveTopic
    <3>. QED  BY <1>1, <2>1, <3>1 DEF Calm, CalmIndex
  <2>. QED  BY <1>13, <2>1, <2>2 DEF RemoveTopic, RemoveFails
<1>14. ASSUME NEW th \in Threads, Search(th)
       PROVE  UNCHANGED <<fds, metadata, status>>
  <2>1. RemovalInv
    BY DEF SteadyInv, ServerInv
  <2>2. th = "worker"
    BY <1>1, <1>14, <2>1, SearchSteps DEF Calm, CalmMarks, Threads
  <2>3. UNCHANGED status
    BY <1>14, <2>1, <2>2, SearchSteps DEF RemoveFails
  <2>. QED  BY <1>14, <2>3 DEF Search
<1>. QED  BY <1>1, <1>2, <1>3, <1>4, <1>5, <1>6, <1>7, <1>8, <1>9, <1>10, <1>11, <1>12, <1>13, <1>14
          DEF Next, MainNext, WorkerNext, RemoveNext

LEMMA CalmKeepsList ==
  ASSUME SteadyInv, CalmInv, [Next]_vars, ~Gone'
  PROVE  CalmList' /\ Listed \subseteq Listed' /\ DOMAIN fds \subseteq DOMAIN fds'
<1>1. /\ Calm /\ Seq(Open \cup {Listener}) \subseteq Seq(Open' \cup {Listener})
      /\ Open \subseteq Open' /\ fds \in Seq(Open \cup {Listener})
      /\ Len(metadata) = Len(fds) /\ metadata \in Seq(Metadata)
  <2>1. Calm /\ Open \subseteq Open'
    BY CalmStep
  <2>. QED  BY <2>1, SeqGrows, SteadyTypes DEF Calm, CalmList
<1>2. CASE UNCHANGED fds /\ Len(metadata') = Len(metadata) /\ status' = "running"
  BY <1>1, <1>2 DEF CalmList, Listed
<1>3. CASE Greet /\ ListAppend(hand[1])
  <2>1. hand[1] \in Open
    BY <1>1, <1>3 DEF Greet, Calm, CalmHand
  <2>2. /\ fds' = Append(fds, hand[1]) /\ metadata' = Append(metadata, NewMetadata(hand[1]))
        /\ status' = "running"
    BY <1>3 DEF ListAppend
  <2>3. NewMetadata(hand[1]) \in Metadata
    BY <2>1 DEF NewMetadata, Metadata, Open, Descriptors
  <2>4. /\ fds' \in Seq(Open \cup {Listener}) /\ Len(fds') = Len(fds) + 1
        /\ \A i \in 1..Len(fds) : fds'[i] = fds[i]
    BY <1>1, <2>1, <2>2, AppendProperties
  <2>5. Len(metadata') = Len(metadata) + 1
    BY <1>1, <2>2, <2>3, AppendProperties
  <2>6. DOMAIN fds = 1..Len(fds) /\ DOMAIN fds' = 1..(Len(fds) + 1) /\ Len(fds) \in Nat
    BY <1>1, <2>4
  <2>. QED  BY <1>1, <2>2, <2>4, <2>5, <2>6 DEF CalmList, Listed
<1>4. CASE UNCHANGED vars
  <2>1. status = "running"
    BY <1>1 DEF Calm, CalmList
  <2>. QED  BY <1>2, <1>4, <2>1 DEF vars, listVars
<1>. QED  BY <1>2, <1>3, <1>4, CalmRuns

\* What dispatcher and worker have in hand is open.
LEMMA CalmSockets ==
  ASSUME SteadyInv, CalmInv, [Next]_vars, ~Gone'
  PROVE  /\ \A i \in 2..Len(fds) : fds[i] \in Open
         /\ mpc \in {"test", "read", "hand"} => slot \in DOMAIN fds /\ fds[slot] \in Open
         /\ Busy => event.from \in Open
         /\ \A th \in Threads : removal[th].stage # "none" => th = "worker" /\ wpc = "remove"
<1>1. Calm
  BY CalmStep
<1>2. \A i \in 2..Len(fds) : fds[i] \in Open
  BY <1>1, SteadyTypes DEF Calm, CalmList, Descriptors
<1>3. ASSUME mpc \in {"test", "read", "hand"} PROVE slot \in DOMAIN fds /\ fds[slot] \in Open
  <2>1. slot \in DOMAIN fds /\ slot > 1
    BY <1>1, <1>3 DEF Calm, CalmHand, SteadyInv, ServerInv, MainInv
  <2>2. slot \in 2..Len(fds)
    BY <2>1, SteadyTypes
  <2>. QED  BY <1>2, <2>1, <2>2
<1>4. ASSUME Busy PROVE event.from \in Open
  <2>1. event.from \in Listed /\ event.from \in Descriptors
    BY <1>1, <1>4, SteadyTypes DEF Busy, Calm, CalmEvent
  <2>. QED  BY <1>1, <2>1 DEF Calm, CalmList, Listed, Descriptors
<1>5. \A th \in Threads : removal[th].stage # "none" => th = "worker" /\ wpc = "remove"
  BY <1>1 DEF Calm, CalmMarks, Threads, SteadyInv, TurnInv
<1>. QED  BY <1>2, <1>3, <1>4, <1>5

LEMMA CalmKeepsMarks ==
  ASSUME SteadyInv, CalmInv, [Next]_vars, ~Gone'
  PROVE  CalmMarks'
<1>1. /\ Calm /\ marked = <<>> /\ removal["main"].stage = "none"
      /\ \A th \in Threads : removal[th].stage # "none" => th = "worker"
      /\ \A th \in Threads : ~RemoveClose(th) /\ ~RemoveFromList(th)
  BY CalmStep, CalmSockets DEF Calm, CalmMarks
<1>2. removal \in [Threads -> Removal] /\ "main" \in Threads
  BY DEF SteadyInv, ServerInv, RemovalInv, Threads
<1>3. CASE UNCHANGED <<marked, removal>>
  BY <1>1, <1>3 DEF CalmMarks
<1>4. ASSUME NEW r, removal' = [removal EXCEPT !["worker"] = r], UNCHANGED marked
      PROVE  CalmMarks'
  BY <1>1, <1>2, <1>4 DEF CalmMarks
<1>5. ASSUME NEW c \in Clients, ClientNext(c) PROVE UNCHANGED <<marked, removal>>
  BY <1>5 DEF ClientNext, Connect, Connected, Close, Send, clientFrame, mainVars
<1>6. CASE PollCall \/ PollReturn \/ Examine \/ Test \/ ScanEnd \/ Accept \/ Greet \/ Read \/ Take
             \/ Refuse \/ AllRemoved
  BY <1>3, <1>6 DEF PollCall, PollReturn, Examine, Test, ScanEnd, Accept, Greet, Read, Take, Refuse,
                    AllRemoved
<1>7. ~Mark
  BY <1>1 DEF Mark, Calm, CalmHand
<1>8. ASSUME NEW th \in Threads, Search(th) PROVE CalmMarks'
  <2>1. RemovalInv
    BY DEF SteadyInv, ServerInv
  <2>2. th = "worker" /\ UNCHANGED marked
    BY <1>1, <1>8, <2>1, SearchSteps DEF Search, mainVars
  <2>3. \E r : removal' = [removal EXCEPT ![th] = r]
    BY <1>8, Zenon DEF Search, RemoveFails
  <2>. QED  BY <1>4, <2>2, <2>3
<1>9. CASE RemoveMarked
  BY <1>1, <1>9 DEF RemoveMarked
<1>10. CASE FindIndex \/ InsertTopic \/ SetTopic \/ GetReceivers \/ SendNext \/ Published
             \/ Ignore
  BY <1>3, <1>10 DEF FindIndex, InsertTopic, SetTopic, GetReceivers, SendNext, Published, Ignore,
                     mainVars
<1>11. CASE RemoveSender
  BY <1>3, <1>4, <1>11 DEF RemoveSender, RemoveStart, mainVars
<1>12. ASSUME NEW th \in Threads, RemoveTopic(th) PROVE CalmMarks'
  <2>1. th = "worker" /\ UNCHANGED marked
    BY <1>1, <1>12 DEF RemoveTopic, mainVars
  <2>2. \/ UNCHANGED removal
        \/ removal' = [removal EXCEPT ![th] = NotRemoving]
        \/ removal' = [removal EXCEPT ![th].stage = "close"]
        \/ removal' = [removal EXCEPT ![th].next = @ + 1]
    BY <1>12 DEF RemoveTopic, RemoveFails
  <2>. QED  BY <1>1, <1>2, <1>3, <1>4, <2>1, <2>2 DEF CalmMarks
<1>13. CASE UNCHANGED vars
  BY <1>3, <1>13 DEF vars, mainVars
<1>. QED  BY <1>1, <1>3, <1>5, <1>6, <1>7, <1>8, <1>9, <1>10, <1>11, <1>12, <1>13
          DEF Next, MainNext, WorkerNext, RemoveNext

LEMMA CalmKeepsPoll ==
  ASSUME SteadyInv, CalmInv, [Next]_vars, ~Gone'
  PROVE  CalmPoll'
<1>1. /\ Calm /\ Seq(Open \cup {Listener}) \subseteq Seq(Open' \cup {Listener})
      /\ revents \in Seq({"none", "in"})
      /\ mpc = "polling" => polled \in Seq(Open \cup {Listener})
      /\ fds \in Seq(Open \cup {Listener})
      /\ \A th \in Threads : ~RemoveClose(th) /\ ~RemoveFromList(th)
  <2>1. Calm /\ Open \subseteq Open' /\ \A th \in Threads : ~RemoveClose(th) /\ ~RemoveFromList(th)
    BY CalmStep
  <2>. QED  BY <2>1, SeqGrows DEF Calm, CalmPoll, CalmList
<1>2. CASE UNCHANGED <<revents, polled, mpc>>
  BY <1>1, <1>2 DEF CalmPoll
<1>3. ASSUME NEW c \in Clients, ClientNext(c) PROVE UNCHANGED <<revents, polled, mpc>>
  BY <1>3 DEF ClientNext, Connect, Connected, Close, Send, clientFrame, mainVars, sharedVars
<1>4. CASE PollCall
  BY <1>1, <1>4 DEF PollCall, CalmPoll, sharedVars
<1>5. CASE PollReturn
  <2>1. PICK found \in [DOMAIN polled -> {"none", "in", "hup", "nval"}] :
          /\ \A j \in DOMAIN polled : found[j] \in Reports(polled[j])
          /\ revents' = [j \in DOMAIN revents |-> IF j \in DOMAIN polled THEN found[j] ELSE revents[j]]
    BY <1>5 DEF PollReturn
  <2>2. mpc = "polling" /\ mpc' = "scan"
    BY <1>5 DEF PollReturn
  <2>3. ASSUME NEW j \in DOMAIN polled PROVE found[j] \in {"none", "in"}
    <3>1. polled[j] \in Open \cup {Listener}
      BY <1>1, <2>2
    <3>2. polled[j] \in Open => peer[polled[j]] # NoClient /\ ~Closed(peer[polled[j]])
      BY CalmStep DEF Open
    <3>3. found[j] \in Reports(polled[j])
      BY <2>1
    <3>. QED  BY <3>1, <3>2, <3>3 DEF Reports
  <2>4. revents' \in Seq({"none", "in"})
    <3>1. DOMAIN revents = 1..Len(revents) /\ Len(revents) \in Nat
      BY <1>1
    <3>2. revents' \in [1..Len(revents) -> {"none", "in"}]
      BY <1>1, <2>1, <2>3, <3>1
    <3>. QED  BY <3>1, <3>2, SeqDef
  <2>. QED  BY <2>2, <2>4 DEF CalmPoll
<1>6. CASE ScanEnd
  <2>1. revents' = [j \in DOMAIN revents |-> "none"] /\ mpc' = "remove"
    BY <1>6 DEF ScanEnd
  <2>2. revents' \in Seq({"none", "in"})
    <3>1. DOMAIN revents = 1..Len(revents) /\ Len(revents) \in Nat
      BY <1>1
    <3>2. revents' \in [1..Len(revents) -> {"none", "in"}]
      BY <2>1, <3>1
    <3>. QED  BY <3>1, <3>2, SeqDef
  <2>. QED  BY <2>1, <2>2 DEF CalmPoll
<1>7. CASE Greet
  <2>1. mpc' = "scan" /\ (UNCHANGED revents \/ revents' = Append(revents, "none"))
    BY <1>7 DEF Greet
  <2>2. Append(revents, "none") \in Seq({"none", "in"})
    BY <1>1, AppendProperties
  <2>. QED  BY <1>1, <2>1, <2>2 DEF CalmPoll
<1>8. CASE Examine \/ Test \/ Mark \/ Accept \/ Read \/ Take \/ Refuse \/ AllRemoved
  <2>1. UNCHANGED revents /\ mpc' # "polling"
    <3>1. CASE Read
      BY <3>1, CalmReads DEF Read, sharedVars
    <3>2. CASE Examine \/ Test \/ Mark \/ Accept \/ Take \/ Refuse \/ AllRemoved
      BY <3>2 DEF Examine, Test, Mark, Accept, Take, Refuse, AllRemoved, sharedVars
    <3>. QED  BY <1>8, <3>1, <3>2
  <2>. QED  BY <1>1, <2>1 DEF CalmPoll
<1>9. CASE RemoveMarked \/ WorkerNext
  BY <1>2, <1>9 DEF RemoveMarked, WorkerNext, FindIndex, InsertTopic, SetTopic, GetReceivers, SendNext,
                    Published, RemoveSender, Ignore, mainVars, sharedVars
<1>10. ASSUME NEW th \in Threads, Search(th) \/ RemoveTopic(th) PROVE UNCHANGED <<revents, polled, mpc>>
  BY <1>10 DEF Search, RemoveTopic, mainVars
<1>11. CASE UNCHANGED vars
  BY <1>2, <1>11 DEF vars, mainVars, sharedVars
<1>. QED  BY <1>1, <1>2, <1>3, <1>4, <1>5, <1>6, <1>7, <1>8, <1>9, <1>10, <1>11
          DEF Next, MainNext, RemoveNext

LEMMA CalmKeepsHand ==
  ASSUME SteadyInv, CalmInv, [Next]_vars, ~Gone'
  PROVE  CalmHand'
<1>1. /\ CalmHand /\ CalmPoll /\ DOMAIN fds \subseteq DOMAIN fds' /\ Open \subseteq Open'
      /\ \A th \in Threads : ~RemoveClose(th) /\ ~RemoveFromList(th)
  BY CalmStep, CalmKeepsList DEF Calm
<1>2. CASE mpc' \in {"poll", "polling", "scan", "accept", "remove"}
  BY <1>2 DEF CalmHand
<1>3. CASE UNCHANGED <<mpc, slot, hand>>
  BY <1>1, <1>3 DEF CalmHand
<1>4. ASSUME NEW c \in Clients, ClientNext(c) PROVE UNCHANGED <<mpc, slot, hand>>
  BY <1>4 DEF ClientNext, Connect, Connected, Close, Send, clientFrame, mainVars
<1>5. CASE PollCall \/ PollReturn \/ Mark \/ ScanEnd \/ Greet \/ Take \/ Refuse \/ AllRemoved
  BY <1>2, <1>5 DEF PollCall, PollReturn, Mark, ScanEnd, Greet, Take, Refuse, AllRemoved
<1>6. CASE Examine \/ Test
  <2>1. slot \in DOMAIN fds /\ slot \in DOMAIN revents
    BY <1>1, <1>6, SteadyTypes DEF Examine, Test, CalmHand
  <2>2. revents[slot] \in {"none", "in"}
    BY <1>1, <2>1 DEF CalmPoll
  <2>3. mpc' \in {"scan", "accept"} \/ (mpc' \in {"test", "read"} /\ UNCHANGED slot)
    BY <1>6, <2>1, <2>2 DEF Examine, Test
  <2>. QED  BY <1>1, <1>2, <2>1, <2>3 DEF CalmHand
<1>7. CASE Read
  <2>1. UNCHANGED slot /\ mpc' = "hand" /\ mpc = "read"
    BY <1>7, CalmReads DEF Read
  <2>. QED  BY <1>1, <2>1 DEF CalmHand
<1>8. CASE Accept
  <2>1. KernelInv /\ peer \in [Descriptors -> Clients \cup {NoClient}] /\ NoClient \notin Clients
    BY SteadyTypes DEF SteadyInv, ServerInv
  <2>2. ASSUME NEW f \in Descriptors, peer' = [peer EXCEPT ![f] = pending[1]], pending[1] \in Clients,
               hand' = <<f>>, mpc' = "greet"
        PROVE  CalmHand'
    <3>1. f \in Open'
      BY <2>1, <2>2 DEF Open
    <3>. QED  BY <2>2, <3>1 DEF CalmHand
  <2>. QED  BY <1>2, <1>8, <2>1, <2>2, AcceptCases
<1>9. CASE RemoveMarked \/ WorkerNext
  BY <1>3, <1>9 DEF RemoveMarked, WorkerNext, FindIndex, InsertTopic, SetTopic, GetReceivers, SendNext,
                    Published, RemoveSender, Ignore, mainVars
<1>10. ASSUME NEW th \in Threads, Search(th) \/ RemoveTopic(th) PROVE UNCHANGED <<mpc, slot, hand>>
  BY <1>10 DEF Search, RemoveTopic, mainVars
<1>11. CASE UNCHANGED vars
  BY <1>3, <1>11 DEF vars, mainVars
<1>. QED  BY <1>1, <1>3, <1>4, <1>5, <1>6, <1>7, <1>8, <1>9, <1>10, <1>11
          DEF Next, MainNext, RemoveNext

LEMMA CalmKeepsEvent ==
  ASSUME SteadyInv, CalmInv, [Next]_vars, ~Gone'
  PROVE  CalmEvent'
<1>1. CalmEvent /\ Listed \subseteq Listed'
  BY CalmStep, CalmKeepsList DEF Calm
<1>2. CASE place' = <<>>
  BY <1>2 DEF CalmEvent
<1>3. CASE UNCHANGED place
  BY <1>1, <1>3 DEF CalmEvent, event
<1>4. CASE Take
  <2>1. mpc = "hand" /\ slot \in DOMAIN fds
    BY <1>4, CalmSockets DEF Take
  <2>2. PICK s \in {FdAgain} : place' = <<[from |-> s, msg |-> hand[2]]>>
    BY <1>4 DEF Take
  <2>3. s \in Listed /\ event'.from = s
    BY <2>1, <2>2 DEF FdAgain, Listed, event
  <2>. QED  BY <1>1, <2>3 DEF CalmEvent
<1>. QED  BY <1>2, <1>3, <1>4, MailSteps DEF vars, sharedVars

LEMMA CalmKeepsTable ==
  ASSUME SteadyInv, CalmInv, [Next]_vars, ~Gone'
  PROVE  CalmTable'
<1>1. /\ CalmTable /\ Seq(Open) \subseteq Seq(Open') /\ table \in [Topics -> Entry]
      /\ \A topic \in Topics : table[topic].len <= Len(table[topic].cells)
      /\ \A th \in Threads : ~RemoveClose(th) /\ ~RemoveFromList(th)
  BY CalmStep, SeqGrows DEF Calm, SteadyInv, ServerInv, TableInv
<1>2. CASE UNCHANGED table
  BY <1>1, <1>2 DEF CalmTable
<1>3. ASSUME NEW topic \in Topics, NEW e, e.cells \in Seq(Open), table' = [table EXCEPT ![topic] = e]
      PROVE  CalmTable'
  BY <1>1, <1>3 DEF CalmTable
<1>4. ASSUME NEW c \in Clients, ClientNext(c) PROVE UNCHANGED table
  BY <1>4 DEF ClientNext, Connect, Connected, Close, Send, clientFrame, sharedVars
<1>5. CASE MainNext
  BY <1>2, <1>5 DEF MainNext, PollCall, PollReturn, Examine, Test, Mark, ScanEnd, Accept, Greet, Read, Take,
                    Refuse, RemoveMarked, AllRemoved, sharedVars
<1>6. CASE FindIndex \/ InsertTopic \/ GetReceivers \/ SendNext \/ Published \/ RemoveSender \/ Ignore
  BY <1>2, <1>6 DEF FindIndex, InsertTopic, GetReceivers, SendNext, Published, RemoveSender, Ignore, sharedVars
<1>7. CASE SetTopic
  <2>. DEFINE entry == table[msg.topic]
              cells == CellsOf(entry) \o <<event.from>>
                         \o SubSeq(entry.cells, entry.len + 2, Len(entry.cells))
              new == [known |-> TRUE, len |-> entry.len + 1, cells |-> cells]
  <2>1. Busy /\ msg.topic \in Topics /\ event.from \in Open
    BY <1>7, SteadyTypes, CalmSockets DEF SetTopic, Busy, Message, SteadyInv, ServerInv, WorkerInv
  <2>2. table' = [table EXCEPT ![msg.topic] = new]
    BY <1>7 DEF SetTopic
  <2>3. entry.cells \in Seq(Open) /\ entry.len \in Nat /\ entry.len <= Len(entry.cells)
    BY <1>1, <2>1 DEF CalmTable, Entry
  <2>. HIDE DEF entry
  <2>4. cells \in Seq(Open)
    <3>1. CellsOf(entry) \in Seq(Open)
      BY <2>3 DEF CellsOf
    <3>2. SubSeq(entry.cells, entry.len + 2, Len(entry.cells)) \in Seq(Open)
      BY <2>3
    <3>. QED  BY <2>1, <3>1, <3>2
  <2>. HIDE DEF cells
  <2>5. new.cells \in Seq(Open)
    BY <2>4
  <2>. HIDE DEF new
  <2>. QED  BY <1>3, <2>1, <2>2, <2>5
<1>8. ASSUME NEW th \in Threads, RemoveTopic(th) PROVE CalmTable'
  <2>. DEFINE r == removal[th]
              names == metadata[r.idx].topics
              entry == table[names[r.next]]
              i == IndexIn(entry, r.sock)
  <2>1. \/ UNCHANGED table
        \/ /\ r.idx \in DOMAIN metadata /\ r.next <= Len(names) /\ i # 0
           /\ table' = [table EXCEPT ![names[r.next]] = CutOff(entry, i)]
    BY <1>8 DEF RemoveTopic
  <2>2. CASE /\ r.idx \in DOMAIN metadata /\ r.next <= Len(names) /\ i # 0
             /\ table' = [table EXCEPT ![names[r.next]] = CutOff(entry, i)]
    <3>1. names[r.next] \in Topics
      <4>1. r \in Removal /\ r.next > 0
        BY <1>8 DEF RemoveTopic, SteadyInv, ServerInv, RemovalInv
      <4>4. metadata[r.idx] \in Metadata
        BY <2>2, SteadyTypes
      <4>2. names \in Seq(Topics)
        BY <4>4 DEF Metadata
      <4>3. r.next \in 1..Len(names)
        BY <2>2, <4>1, <4>2 DEF Removal
      <4>. QED  BY <4>2, <4>3
    <3>2. entry \in Entry /\ entry.len <= Len(entry.cells) /\ entry.cells \in Seq(Open) /\ entry.len \in Nat
      BY <1>1, <3>1 DEF CalmTable, Entry
    <3>3. i \in 1..entry.len
      BY <2>2, <3>2, IndexInFinds
    <3>. HIDE DEF i, entry
    <3>4. CutOff(entry, i).cells \in Seq(Open)
      BY <3>2, <3>3 DEF CutOff
    <3>. QED  BY <1>3, <2>2, <3>1, <3>4
  <2>. QED  BY <1>2, <2>1, <2>2
<1>9. CASE UNCHANGED vars
  BY <1>2, <1>9 DEF vars, sharedVars
<1>10. ASSUME NEW th \in Threads, Search(th) PROVE UNCHANGED table
  BY <1>10 DEF Search
<1>. QED  BY <1>1, <1>2, <1>4, <1>5, <1>6, <1>7, <1>8, <1>9, <1>10 DEF Next, WorkerNext, RemoveNext

LEMMA CalmKeepsIndex ==
  ASSUME SteadyInv, CalmInv, [Next]_vars, ~Gone'
  PROVE  CalmIndex'
<1>1. /\ CalmIndex /\ DOMAIN fds \subseteq DOMAIN fds'
      /\ \A th \in Threads : ~RemoveClose(th) /\ ~RemoveFromList(th)
      /\ \A th \in Threads : removal[th].stage # "none" => th = "worker" /\ wpc = "remove"
  BY CalmStep, CalmKeepsList, CalmSockets DEF Calm
<1>2. wpc # "idle" /\ wpc' # "idle" => msg' = msg
  <2>1. (wpc # "idle" => place # <<>>) /\ (wpc' # "idle" => place' # <<>>)
    BY ServerKeeps DEF SteadyInv, ServerInv, WorkerInv
  <2>2. Take => place = <<>>
    BY DEF Take
  <2>. QED  BY <2>1, <2>2, MailSteps DEF msg, event, vars, sharedVars
<1>3. CASE wpc' \in {"idle", "set"}
  BY <1>3 DEF CalmIndex
<1>4. CASE UNCHANGED <<wpc, widx, wlen, removal, table>>
  BY <1>1, <1>2, <1>4 DEF CalmIndex
<1>5. ASSUME NEW c \in Clients, ClientNext(c) PROVE UNCHANGED <<wpc, widx, wlen, removal, table>>
  BY <1>5 DEF ClientNext, Connect, Connected, Close, Send, clientFrame, sharedVars, workerVars
<1>6. CASE PollCall \/ PollReturn \/ Examine \/ Test \/ Mark \/ ScanEnd \/ Accept \/ Greet \/ Read \/ Take \/ Refuse
             \/ AllRemoved
  BY <1>4, <1>6 DEF PollCall, PollReturn, Examine, Test, Mark, ScanEnd, Accept, Greet, Read, Take, Refuse,
                    AllRemoved, sharedVars, workerVars
<1>7. CASE RemoveMarked
  BY <1>7, CalmStep DEF RemoveMarked, Calm, CalmMarks
<1>8. ASSUME Busy, event.from \in Listed PROVE GetIdx(event.from) \in DOMAIN fds
  BY <1>8, SteadyTypes, GetIdxFinds
<1>9. Busy => event.from \in Listed
  BY CalmStep DEF Busy, Calm, CalmEvent
<1>10. CASE FindIndex
  <2>1. Busy
    BY <1>10 DEF FindIndex, Handles
  <2>2. wpc' = "insert" /\ widx' = GetIdx(event.from)
    BY <1>9, <1>10, <2>1 DEF FindIndex
  <2>. QED  BY <1>1, <1>8, <1>9, <2>1, <2>2 DEF CalmIndex
<1>11. CASE InsertTopic
  <2>1. widx \in DOMAIN metadata
    <3>1. widx \in DOMAIN fds
      BY <1>1, <1>11 DEF InsertTopic, CalmIndex
    <3>. QED  BY <3>1, SteadyTypes, CalmStep DEF Calm, CalmList
  <2>. QED  BY <1>3, <1>11, <2>1 DEF InsertTopic, Done
<1>12. CASE SetTopic \/ Published \/ Ignore
  BY <1>3, <1>12 DEF SetTopic, Published, Ignore, Done
<1>13. CASE GetReceivers
  <2>1. Busy /\ msg.topic \in Topics /\ UNCHANGED <<table>>
    BY <1>13, SteadyTypes DEF GetReceivers, Handles, Message
  <2>2. CASE ~Killed(event.from) /\ ~table[msg.topic].known
    BY <1>3, <1>13, <2>2 DEF GetReceivers, Done
  <2>3. ~Killed(event.from)
    BY <2>1, CalmStep, CalmSockets DEF Killed
  <2>4. CASE table[msg.topic].known
    <3>1. wpc' = "send" /\ widx' = 1 /\ wlen' = table[msg.topic].len /\ place' = place
      BY <1>13, <2>4 DEF GetReceivers
    <3>2. msg' = msg
      BY <3>1 DEF msg, event
    <3>3. table[msg.topic].len \in Nat /\ table[msg.topic].len <= Len(table[msg.topic].cells)
      BY <2>1 DEF SteadyInv, ServerInv, TableInv, Entry
    <3>. QED  BY <2>1, <3>1, <3>2, <3>3 DEF CalmIndex
  <2>. QED  BY <2>2, <2>3, <2>4
<1>14. CASE SendNext
  <2>1. wpc = "send" /\ widx' = widx + 1 /\ UNCHANGED <<wpc, wlen, table>>
    BY <1>14 DEF SendNext, sharedVars
  <2>. QED  BY <1>1, <1>2, <2>1 DEF CalmIndex
<1>15. removal \in [Threads -> Removal] /\ "worker" \in Threads
  BY DEF SteadyInv, ServerInv, RemovalInv, Threads
<1>16. CASE RemoveSender
  <2>1. RemoveStart("worker", event.from) /\ wpc' = "remove"
    BY <1>16 DEF RemoveSender
  <2>2. RemovalInv
    BY DEF SteadyInv, ServerInv
  <2>3. removal'["worker"].stage = "search"
    BY <1>15, <2>1, <2>2, StartedRemoval
  <2>. QED  BY <2>1, <2>3 DEF CalmIndex
<1>17. ASSUME NEW th \in Threads, RemoveTopic(th) PROVE CalmIndex'
  <2>1. th = "worker" /\ wpc = "remove"
    BY <1>1, <1>17 DEF RemoveTopic
  <2>2. removal[th].stage = "topics"
    BY <1>17 DEF RemoveTopic
  <2>3. CASE RemoveFails(th)
    BY <1>3, <2>1, <2>3 DEF RemoveFails
  <2>4. CASE /\ UNCHANGED wpc
             /\ \/ UNCHANGED removal
                \/ removal' = [removal EXCEPT ![th].stage = "close"]
                \/ removal' = [removal EXCEPT ![th].next = @ + 1]
    <3>1. removal'["worker"].idx = removal["worker"].idx /\ removal'["worker"].stage # "list"
      BY <1>15, <2>1, <2>2, <2>4 DEF Removal
    <3>2. removal["worker"].idx \in DOMAIN fds
      BY <1>1, <2>1, <2>2 DEF CalmIndex
    <3>. QED  BY <1>1, <2>1, <2>4, <3>1, <3>2 DEF CalmIndex
  <2>. QED  BY <1>17, <2>3, <2>4 DEF RemoveTopic
<1>18. CASE UNCHANGED vars
  BY <1>4, <1>18 DEF vars, workerVars, sharedVars
<1>19. ASSUME NEW th \in Threads, Search(th) PROVE CalmIndex'
  <2>1. RemovalInv
    BY DEF SteadyInv, ServerInv
  <2>2. th = "worker" /\ wpc = "remove" /\ removal[th] \in Removal
    BY <1>1, <1>19, <2>1, SearchSteps
  <2>3. CASE RemoveFails(th)
    BY <1>3, <2>2, <2>3 DEF RemoveFails
  <2>4. CASE /\ removal[th].idx \in DOMAIN fds
             /\ removal' = [removal EXCEPT ![th].stage = "topics"] /\ UNCHANGED wpc
    <3>1. removal'[th].stage = "topics" /\ removal'[th].idx = removal[th].idx
      BY <1>15, <2>2, <2>4 DEF Removal
    <3>. QED  BY <1>1, <2>2, <2>4, <3>1 DEF CalmIndex
  <2>5. CASE removal' = [removal EXCEPT ![th].idx = removal[th].idx + 1] /\ UNCHANGED wpc
    <3>1. removal'[th].stage = "search"
      BY <1>15, <1>19, <2>1, <2>2, <2>5, SearchSteps DEF Removal
    <3>. QED  BY <2>2, <2>5, <3>1 DEF CalmIndex
  <2>. QED  BY <1>19, <2>1, <2>3, <2>4, <2>5, SearchSteps
<1>. QED  BY <1>1, <1>4, <1>5, <1>6, <1>7, <1>10, <1>11, <1>12, <1>13, <1>14, <1>16, <1>17, <1>18, <1>19
          DEF Next, MainNext, WorkerNext, RemoveNext

LEMMA CalmInvariant == Spec => []CalmInv
<1>1. Init => CalmInv
  <2>. SUFFICES ASSUME Init PROVE Calm
    BY DEF CalmInv
  <2>1. CalmList
    BY DEF Init, CalmList
  <2>2. CalmMarks /\ CalmHand /\ CalmEvent /\ CalmIndex
    BY DEF Init, CalmMarks, CalmHand, CalmEvent, CalmIndex, NotRemoving, Threads
  <2>3. CalmPoll
    BY DEF Init, CalmPoll
  <2>4. CalmTable
    <3>1. <<>> \in Seq(Open)
      OBVIOUS
    <3>2. \A topic \in Topics : table[topic].cells = <<>>
      BY DEF Init, NoEntry
    <3>. QED  BY <3>1, <3>2 DEF CalmTable
  <2>. QED  BY <2>1, <2>2, <2>3, <2>4 DEF Calm
<1>2. ASSUME SteadyInv, CalmInv, [Next]_vars PROVE CalmInv'
  <2>. SUFFICES ASSUME ~Gone' PROVE Calm'
    BY DEF CalmInv
  <2>. QED  BY <1>2, CalmKeepsList, CalmKeepsMarks, CalmKeepsPoll, CalmKeepsHand, CalmKeepsEvent,
               CalmKeepsIndex, CalmKeepsTable DEF Calm
<1>. QED  BY <1>1, <1>2, SteadyInvariant, PTL DEF Spec

\* However dispatcher and worker interleave, stale or not, the server runs on as long as
\* every client it was connected to is there and every read takes one message: only
\* the end of a connection makes an index outlive a change of the list, a send fail, or
\* a removal find nothing.
THEOREM RunsWhileAllStay == Spec => []OnlyLeavingEndsIt
<1>1. CalmInv => OnlyLeavingEndsIt
  BY DEF CalmInv, Gone, Calm, CalmList, OnlyLeavingEndsIt
<1>. QED  BY <1>1, CalmInvariant, PTL

-------------------------------------------------------------------------------
(* Client list, hash map and kernel, in the middle of every operation *)

\* The subscriptions in the metadata, each with its place there, and those in the map.
Sub(f, m, i, j) == [sock |-> f[i], at |-> j, topic |-> m[i].topics[j]]

SubsOf(f, m) == UNION {{Sub(f, m, i, j) : j \in DOMAIN m[i].topics} : i \in DOMAIN f}

Subs == SubsOf(fds, metadata)

Members(entry) == {entry.cells[i] : i \in 1..entry.len}

Once(entry) == \A i, j \in 1..entry.len : entry.cells[i] = entry.cells[j] => i = j

\* A removal has been past the subscription, or it is only half made.
Cut(x) ==
  \/ \E th \in Threads : /\ removal[th].stage # "none" /\ removal[th].sock = x.sock
                         /\ x.at < removal[th].next
  \/ wpc = "set" /\ x.sock = event.from /\ x.topic = msg.topic

\* A removal that has taken nothing out of the map.
Untouched(r) == r.stage = "none" \/ (r.stage \in {"search", "topics"} /\ r.next = 1)

\* Each socket is listed once, with its own metadata.
ListBooks ==
  /\ Len(metadata) = Len(fds)
  /\ \A i \in DOMAIN fds : metadata[i].owner = fds[i]
  /\ \A i, j \in DOMAIN fds : fds[i] = fds[j] => i = j
  /\ mpc = "greet" => hand[1] \notin Listed

\* Map and metadata have the same subscriptions, those that are cut apart, and each once.
TableBooks ==
  /\ \A topic \in Topics : Once(table[topic])
  /\ \A x, y \in Subs : x.sock = y.sock /\ x.topic = y.topic => x = y
  /\ \A topic \in Topics : \A s \in Members(table[topic]) :
       \E x \in Subs : x.sock = s /\ x.topic = topic
  /\ \A x \in Subs : x.sock \in Members(table[x.topic]) <=> ~Cut(x)
  /\ wpc = "set" /\ ~Departed => \E x \in Subs : x.sock = event.from /\ x.topic = msg.topic

\* Only the socket that a removal is about to take off the list is closed and listed.
RemovalBooks ==
  /\ \A th \in Threads : removal[th].stage \in {"close", "list"} =>
       \A x \in Subs : x.sock = removal[th].sock => x.at < removal[th].next
  /\ \A s \in Listed \ {Listener} : peer[s] = NoClient =>
       \E th \in Threads : removal[th].stage = "list" /\ removal[th].sock = s

Books == ListBooks /\ TableBooks /\ RemovalBooks

BooksInv == ~stale /\ status = "running" => Books

LEMMA SubsAre ==
  ASSUME NEW f \in Seq(Sockets), NEW m \in Seq(Metadata), Len(m) = Len(f), NEW x
  PROVE  /\ x \in SubsOf(f, m) <=>
              \E i \in 1..Len(f) : \E j \in 1..Len(m[i].topics) : x = Sub(f, m, i, j)
         /\ x \in SubsOf(f, m) =>
              x.at \in Nat \ {0} /\ x.topic \in Topics /\ \E i \in DOMAIN f : x.sock = f[i]
<1>1. \A i \in 1..Len(f) : m[i].topics \in Seq(Topics)
  <2>1. \A i \in 1..Len(f) : m[i] \in Metadata
    OBVIOUS
  <2>. QED  BY <2>1 DEF Metadata
<1>2. \A i \in 1..Len(f) : DOMAIN m[i].topics = 1..Len(m[i].topics)
  BY <1>1
<1>3. DOMAIN f = 1..Len(f)
  OBVIOUS
<1>4. x \in SubsOf(f, m) <=>
        \E i \in 1..Len(f) : \E j \in 1..Len(m[i].topics) : x = Sub(f, m, i, j)
  BY <1>2, <1>3 DEF SubsOf
<1>5. ASSUME NEW i \in 1..Len(f), NEW j \in 1..Len(m[i].topics)
      PROVE  m[i].topics[j] \in Topics /\ j \in Nat \ {0}
  <2>1. m[i].topics \in Seq(Topics) /\ Len(m[i].topics) \in Nat
    BY <1>1
  <2>. QED  BY <2>1
<1>6. ASSUME NEW i \in 1..Len(f), NEW j \in 1..Len(m[i].topics), x = Sub(f, m, i, j)
      PROVE  x.at \in Nat \ {0} /\ x.topic \in Topics /\ x.sock = f[i] /\ i \in DOMAIN f
  <2>1. x.at = j /\ x.topic = m[i].topics[j] /\ x.sock = f[i]
    BY <1>6 DEF Sub
  <2>. QED  BY <1>3, <1>5, <2>1
<1>. QED  BY <1>4, <1>6, Zenon

\* A client that is added has no subscriptions,
LEMMA SubsAppend ==
  ASSUME NEW f \in Seq(Sockets), NEW m \in Seq(Metadata), Len(m) = Len(f), NEW s \in Sockets
  PROVE  SubsOf(Append(f, s), Append(m, NewMetadata(s))) = SubsOf(f, m)
<1>. DEFINE g == Append(f, s)
            n == Append(m, NewMetadata(s))
            k == Len(f) + 1
<1>1. NewMetadata(s) \in Metadata /\ NewMetadata(s).topics = <<>>
  BY DEF NewMetadata, Metadata
<1>2. /\ g \in Seq(Sockets) /\ n \in Seq(Metadata) /\ Len(g) = k /\ Len(n) = k
      /\ \A i \in 1..Len(f) : g[i] = f[i] /\ n[i] = m[i]
      /\ n[k] = NewMetadata(s) /\ Len(f) \in Nat
  BY <1>1, AppendProperties
<1>. HIDE DEF g, n
<1>3. ASSUME NEW x PROVE x \in SubsOf(g, n) <=> x \in SubsOf(f, m)
  <2>1. x \in SubsOf(g, n) <=> \E i \in 1..k : \E j \in 1..Len(n[i].topics) : x = Sub(g, n, i, j)
    <3>1. g \in Seq(Sockets) /\ n \in Seq(Metadata) /\ Len(g) = k /\ Len(n) = Len(g)
      BY <1>2
    <3>. HIDE DEF k
    <3>2. x \in SubsOf(g, n) <=> \E i \in 1..Len(g) : \E j \in 1..Len(n[i].topics) : x = Sub(g, n, i, j)
      BY <3>1, SubsAre
    <3>. QED  BY <3>1, <3>2
  <2>2. x \in SubsOf(f, m) <=> \E i \in 1..Len(f) : \E j \in 1..Len(m[i].topics) : x = Sub(f, m, i, j)
    BY SubsAre
  <2>3. Len(n[k].topics) = 0
    BY <1>1, <1>2
  <2>4. \A i \in 1..Len(f) : /\ Len(n[i].topics) = Len(m[i].topics)
                            /\ \A j : Sub(g, n, i, j) = Sub(f, m, i, j)
    BY <1>2 DEF Sub
  <2>5. \A i \in 1..k : i = k \/ i \in 1..Len(f)
    BY <1>2
  <2>6. 1..Len(f) \subseteq 1..k
    BY <1>2
  <2>. HIDE DEF k
  <2>7. \A j \in 1..Len(n[k].topics) : FALSE
    BY <2>3
  <2>8. ASSUME NEW i \in 1..k, NEW j \in 1..Len(n[i].topics), x = Sub(g, n, i, j)
        PROVE  i \in 1..Len(f) /\ j \in 1..Len(m[i].topics) /\ x = Sub(f, m, i, j)
    BY <2>4, <2>5, <2>7, <2>8, Zenon
  <2>9. ASSUME NEW i \in 1..Len(f), NEW j \in 1..Len(m[i].topics), x = Sub(f, m, i, j)
        PROVE  i \in 1..k /\ j \in 1..Len(n[i].topics) /\ x = Sub(g, n, i, j)
    BY <2>4, <2>6, <2>9, Zenon
  <2>. QED  BY <2>1, <2>2, <2>8, <2>9, Zenon
<1>. QED  BY <1>3 DEF g, n

\* one that is removed takes its own with it,
LEMMA SubsRemove ==
  ASSUME NEW f \in Seq(Sockets), NEW m \in Seq(Metadata), Len(m) = Len(f), NEW k \in 1..Len(f),
         \A i, j \in DOMAIN f : f[i] = f[j] => i = j
  PROVE  SubsOf(SwapRemove(f, k), SwapRemove(m, k)) = {x \in SubsOf(f, m) : x.sock # f[k]}
<1>. DEFINE g == SwapRemove(f, k)
            n == SwapRemove(m, k)
            l == Len(f)
            Came(i) == IF i = k THEN l ELSE i
<1>1. /\ g \in Seq(Sockets) /\ n \in Seq(Metadata) /\ Len(g) = l - 1 /\ Len(n) = l - 1
      /\ \A i \in 1..(l - 1) : g[i] = f[Came(i)] /\ n[i] = m[Came(i)]
      /\ l \in Nat /\ k \in Nat /\ DOMAIN f = 1..l
  <2>1. /\ g \in Seq(Sockets) /\ Len(g) = l - 1
        /\ \A i \in 1..(l - 1) : g[i] = IF i = k THEN f[l] ELSE f[i]
    BY SwapRemoveTakes, Zenon
  <2>2. k \in 1..Len(m) /\ k \in Nat /\ Len(m) = l
    OBVIOUS
  <2>. HIDE DEF l
  <2>3. /\ n \in Seq(Metadata) /\ Len(n) = l - 1
        /\ \A i \in 1..(l - 1) : n[i] = IF i = k THEN m[l] ELSE m[i]
    <3>1. /\ n \in Seq(Metadata) /\ Len(n) = Len(m) - 1
          /\ \A i \in 1..(Len(m) - 1) : n[i] = IF i = k THEN m[Len(m)] ELSE m[i]
      BY <2>2, SwapRemoveTakes, ZenonT(30)
    <3>. QED  BY <2>2, <3>1
  <2>4. l \in Nat /\ DOMAIN f = 1..l
    BY DEF l
  <2>. HIDE DEF g, n
  <2>. QED  BY <2>1, <2>2, <2>3, <2>4
<1>. HIDE DEF g, n, l
<1>2. ASSUME NEW x PROVE x \in SubsOf(g, n) <=> x \in SubsOf(f, m) /\ x.sock # f[k]
  <2>1. x \in SubsOf(g, n) <=> \E i \in 1..(l - 1) : \E j \in 1..Len(n[i].topics) : x = Sub(g, n, i, j)
    <3>1. g \in Seq(Sockets) /\ n \in Seq(Metadata) /\ Len(n) = Len(g) /\ Len(g) = l - 1
      BY <1>1
    <3>. QED  BY <3>1, SubsAre
  <2>2. x \in SubsOf(f, m) <=> \E i \in 1..l : \E j \in 1..Len(m[i].topics) : x = Sub(f, m, i, j)
    BY SubsAre DEF l
  <2>3. \A i \in 1..(l - 1) : /\ Came(i) \in 1..l /\ Came(i) # k
                             /\ n[i].topics = m[Came(i)].topics
                             /\ \A j : Sub(g, n, i, j) = Sub(f, m, Came(i), j)
    BY <1>1 DEF Sub, l
  <2>4. \A i \in 1..l : i # k => \E h \in 1..(l - 1) : Came(h) = i
    BY <1>1 DEF l
  <2>5. \A i \in 1..l : \A j : Sub(f, m, i, j).sock = f[k] <=> i = k
    BY <1>1 DEF Sub, l
  <2>. HIDE DEF Came
  <2>6. x \in SubsOf(g, n) => x \in SubsOf(f, m) /\ x.sock # f[k]
    BY <2>1, <2>2, <2>3, <2>5
  <2>7. x \in SubsOf(f, m) /\ x.sock # f[k] => x \in SubsOf(g, n)
    BY <2>1, <2>2, <2>3, <2>4, <2>5
  <2>. QED  BY <2>6, <2>7
<1>. QED  BY <1>2 DEF g, n

\* and one that gets a topic has one more.
LEMMA SubsInsert ==
  ASSUME NEW f \in Seq(Sockets), NEW m \in Seq(Metadata), Len(m) = Len(f), NEW k \in 1..Len(f),
         NEW topic \in Topics
  PROVE  SubsOf(f, [m EXCEPT ![k].topics = Append(@, topic)]) =
           SubsOf(f, m) \cup {[sock |-> f[k], at |-> Len(m[k].topics) + 1, topic |-> topic]}
<1>. DEFINE n == [m EXCEPT ![k].topics = Append(@, topic)]
            q == m[k].topics
            new == [sock |-> f[k], at |-> Len(q) + 1, topic |-> topic]
<1>1. /\ m[k] \in Metadata /\ q \in Seq(Topics) /\ Len(q) \in Nat
      /\ Append(q, topic) \in Seq(Topics) /\ Len(Append(q, topic)) = Len(q) + 1
      /\ \A j \in 1..Len(q) : Append(q, topic)[j] = q[j]
      /\ Append(q, topic)[Len(q) + 1] = topic
  <2>1. m[k] \in Metadata
    OBVIOUS
  <2>2. q \in Seq(Topics)
    BY <2>1 DEF Metadata
  <2>. HIDE DEF q
  <2>. QED  BY <2>1, <2>2, AppendProperties DEF q
<1>2. /\ n[k].topics = Append(q, topic) /\ n[k] \in Metadata
      /\ \A i \in 1..Len(m) : i # k => n[i] = m[i]
      /\ n \in Seq(Metadata) /\ Len(n) = Len(m)
  <2>. DEFINE r == [m[k] EXCEPT !.topics = Append(q, topic)]
  <2>1. r.topics = Append(q, topic) /\ r \in Metadata
    BY <1>1 DEF Metadata
  <2>2. n = [m EXCEPT ![k] = r] /\ k \in 1..Len(m)
    OBVIOUS
  <2>. HIDE DEF r, q, n
  <2>. QED  BY <2>1, <2>2
<1>. HIDE DEF n, q
<1>3. ASSUME NEW x PROVE x \in SubsOf(f, n) <=> x \in SubsOf(f, m) \/ x = new
  <2>0. Len(n) = Len(f)
    BY <1>2
  <2>1. x \in SubsOf(f, n) <=> \E i \in 1..Len(f) : \E j \in 1..Len(n[i].topics) : x = Sub(f, n, i, j)
    BY <1>2, <2>0, SubsAre
  <2>2. x \in SubsOf(f, m) <=> \E i \in 1..Len(f) : \E j \in 1..Len(m[i].topics) : x = Sub(f, m, i, j)
    BY SubsAre
  <2>3. \A i \in 1..Len(f) : i # k => /\ Len(n[i].topics) = Len(m[i].topics)
                                     /\ \A j : Sub(f, n, i, j) = Sub(f, m, i, j)
    BY <1>2 DEF Sub
  <2>4. /\ \A j \in 1..Len(q) : j \in 1..Len(n[k].topics) /\ Sub(f, n, k, j) = Sub(f, m, k, j)
        /\ \A j \in 1..Len(n[k].topics) : j \in 1..Len(q) \/ Sub(f, n, k, j) = new
        /\ Len(q) + 1 \in 1..Len(n[k].topics) /\ Sub(f, n, k, Len(q) + 1) = new
    BY <1>1, <1>2 DEF Sub, q
  <2>5. Len(m[k].topics) = Len(q)
    BY DEF q
  <2>. HIDE DEF new
  <2>6. ASSUME x \in SubsOf(f, n) PROVE x \in SubsOf(f, m) \/ x = new
    <3>1. PICK i \in 1..Len(f) : \E j \in 1..Len(n[i].topics) : x = Sub(f, n, i, j)
      BY <2>1, <2>6
    <3>2. CASE i = k
      BY <2>2, <2>4, <2>5, <3>1, <3>2
    <3>3. CASE i # k
      BY <2>2, <2>3, <3>1, <3>3
    <3>. QED  BY <3>2, <3>3
  <2>7. ASSUME x \in SubsOf(f, m) PROVE x \in SubsOf(f, n)
    <3>1. PICK i \in 1..Len(f) : \E j \in 1..Len(m[i].topics) : x = Sub(f, m, i, j)
      BY <2>2, <2>7
    <3>2. CASE i = k
      BY <2>1, <2>4, <2>5, <3>1, <3>2
    <3>3. CASE i # k
      BY <2>1, <2>3, <3>1, <3>3
    <3>. QED  BY <3>2, <3>3
  <2>8. new \in SubsOf(f, n) \/ x # new
    BY <2>1, <2>4
  <2>. QED  BY <2>6, <2>7, <2>8
<1>. QED  BY <1>3 DEF n, q

\* A value that is removed leaves its entry, and one that is set enters it.
LEMMA MembersCut ==
  ASSUME NEW entry \in Entry, entry.len <= Len(entry.cells), Once(entry), NEW k \in 1..entry.len
  PROVE  /\ Members(CutOff(entry, k)) = Members(entry) \ {entry.cells[k]}
         /\ Once(CutOff(entry, k))
<1>. DEFINE n == entry.len
            q == entry.cells
            r == CutOff(entry, k).cells
            Came(i) == IF i = k THEN n ELSE i
<1>1. /\ n \in Nat /\ k \in 1..n /\ n \in 1..Len(q) /\ k \in 1..Len(q) /\ q \in Seq(Descriptors)
      /\ n <= Len(q)
  BY DEF Entry
<1>2. /\ CutOff(entry, k).len = n - 1
      /\ r = [q EXCEPT ![k] = q[n], ![n] = q[k]]
  BY DEF CutOff
<1>3. \A i \in 1..n : i \in DOMAIN q
  BY <1>1
<1>. HIDE DEF r, q, n
<1>4. \A i \in 1..(n - 1) : r[i] = q[Came(i)] /\ Came(i) \in 1..n /\ Came(i) # k
  BY <1>1, <1>2, <1>3
<1>5. \A i \in 1..n : i # k => \E h \in 1..(n - 1) : Came(h) = i
  BY <1>1
<1>6. \A i, j \in 1..(n - 1) : Came(i) = Came(j) => i = j
  BY <1>1
<1>7. \A i, j \in 1..n : q[i] = q[j] => i = j
  BY DEF Once, n, q
<1>. HIDE DEF Came
<1>8. {r[i] : i \in 1..(n - 1)} = {q[i] : i \in 1..n} \ {q[k]}
  <2>1. ASSUME NEW i \in 1..(n - 1) PROVE r[i] \in {q[j] : j \in 1..n} \ {q[k]}
    BY <1>1, <1>4, <1>7
  <2>2. ASSUME NEW i \in 1..n, q[i] # q[k] PROVE q[i] \in {r[j] : j \in 1..(n - 1)}
    <3>1. PICK h \in 1..(n - 1) : Came(h) = i
      BY <1>5, <2>2
    <3>. QED  BY <1>4, <3>1
  <2>. QED  BY <2>1, <2>2
<1>9. \A i, j \in 1..(n - 1) : r[i] = r[j] => i = j
  BY <1>4, <1>6, <1>7
<1>. QED  BY <1>2, <1>8, <1>9 DEF Members, Once, r, q, n

LEMMA MembersSet ==
  ASSUME NEW entry \in Entry, entry.len <= Len(entry.cells), Once(entry), NEW s \in Descriptors,
         s \notin Members(entry),
         NEW rest \in Seq(Descriptors), NEW new,
         new = [known |-> TRUE, len |-> entry.len + 1, cells |-> CellsOf(entry) \o <<s>> \o rest]
  PROVE  Members(new) = Members(entry) \cup {s} /\ Once(new)
<1>. DEFINE n == entry.len
            q == CellsOf(entry)
            r == new.cells
<1>1. /\ n \in Nat /\ q \in Seq(Descriptors) /\ Len(q) = n
      /\ \A i \in 1..n : q[i] = entry.cells[i]
  BY DEF Entry, CellsOf
<1>2. new.len = n + 1 /\ r = q \o <<s>> \o rest
  OBVIOUS
<1>. HIDE DEF n, q, r
<1>3. (\A i \in 1..n : r[i] = q[i]) /\ r[n + 1] = s
  <2>. DEFINE p == q \o <<s>>
  <2>1. p \in Seq(Descriptors) /\ Len(p) = n + 1 /\ p[n + 1] = s /\ \A i \in 1..n : p[i] = q[i]
    BY <1>1
  <2>2. r = p \o rest
    BY <1>2
  <2>. HIDE DEF p
  <2>3. \A i \in 1..(n + 1) : r[i] = p[i]
    BY <1>1, <2>1, <2>2
  <2>. QED  BY <1>1, <2>1, <2>3
<1>4. \A i \in 1..n : q[i] # s
  BY <1>1 DEF Members, n
<1>5. \A i, j \in 1..n : q[i] = q[j] => i = j
  BY <1>1 DEF Once, n
<1>6. \A i \in 1..(n + 1) : i \in 1..n \/ i = n + 1
  BY <1>1
<1>7. {r[i] : i \in 1..(n + 1)} = {q[i] : i \in 1..n} \cup {s}
  <2>1. 1..n \subseteq 1..(n + 1) /\ n + 1 \in 1..(n + 1)
    BY <1>1
  <2>. QED  BY <1>3, <1>6, <2>1
<1>8. \A i, j \in 1..(n + 1) : r[i] = r[j] => i = j
  BY <1>3, <1>4, <1>5, <1>6
<1>9. Members(entry) = {q[i] : i \in 1..n}
  BY <1>1 DEF Members, n
<1>. QED  BY <1>2, <1>7, <1>8, <1>9 DEF Members, Once, r

\* What Books is about stays the same, but for removals that take nothing out.
LEMMA SameBooks ==
  ASSUME ListenerInv, RemovalInv, Books, UNCHANGED <<fds, metadata, table>>,
         \A th \in Threads : \/ removal'[th] = removal[th]
                             \/ Untouched(removal[th]) /\ Untouched(removal'[th]),
         wpc' = "set" <=> wpc = "set",
         wpc = "set" => UNCHANGED place /\ (Departed => Departed'),
         mpc' = "greet" => (mpc = "greet" /\ hand' = hand) \/ hand'[1] \notin Listed,
         \A s \in Listed \ {Listener} : peer'[s] = NoClient => peer[s] = NoClient
  PROVE  Books'
<1>1. Subs' = Subs /\ Listed' = Listed
  BY DEF Subs, Listed
<1>2. ListBooks'
  BY <1>1 DEF Books, ListBooks
<1>3. ASSUME NEW x \in Subs PROVE Cut(x)' <=> Cut(x)
  <2>1. x.at \in Nat \ {0}
    BY SubsAre DEF Subs, Books, ListBooks, ListenerInv, ListInv, ListTypeOK
  <2>2. ASSUME NEW th \in Threads
        PROVE  (removal[th].stage # "none" /\ removal[th].sock = x.sock /\ x.at < removal[th].next)
                 <=> (removal'[th].stage # "none" /\ removal'[th].sock = x.sock /\ x.at < removal'[th].next)
    BY <2>1 DEF Untouched
  <2>3. wpc = "set" => event' = event /\ msg' = msg
    BY DEF event, msg
  <2>. QED  BY <2>2, <2>3 DEF Cut
<1>4. TableBooks'
  <2>1. wpc = "set" => event' = event /\ msg' = msg
    BY DEF event, msg
  <2>. QED  BY <1>1, <1>3, <2>1 DEF Books, TableBooks
<1>5. RemovalBooks'
  BY <1>1 DEF Books, RemovalBooks, Untouched
<1>. QED  BY <1>2, <1>4, <1>5 DEF Books

\* A removal by the dispatcher goes on to the end.
LEMMA MainRemovesOn ==
  ASSUME SteadyInv, [Next]_vars, status' = "running", NEW s, MainRemoves(s),
         removal["main"].stage # "list"
  PROVE  MainRemoves(s)'
<1>1. /\ removal \in [Threads -> Removal] /\ "main" \in Threads /\ "worker" \in Threads
      /\ removal["main"].stage \in {"topics", "close"} /\ removal["main"].sock = s
      /\ RemovalInv
  BY DEF SteadyInv, ServerInv, RemovalInv, Removal, Threads, MainRemoves
<1>2. CASE removal'["main"] = removal["main"]
  BY <1>2 DEF MainRemoves
<1>3. ASSUME NEW c \in Clients, ClientNext(c) PROVE removal' = removal
  BY <1>3 DEF ClientNext, Connect, Connected, Close, Send, clientFrame
<1>4. CASE MainNext
  <2>1. CASE PollCall \/ PollReturn \/ Examine \/ Test \/ Mark \/ ScanEnd \/ Accept \/ Greet
    BY <1>2, <2>1 DEF PollCall, PollReturn, Examine, Test, Mark, ScanEnd, Accept, Greet
  <2>2. CASE Read \/ Take \/ Refuse \/ AllRemoved
    BY <1>2, <2>2 DEF Read, Take, Refuse, AllRemoved
  <2>3. ~RemoveMarked
    BY <1>1 DEF RemoveMarked
  <2>. QED  BY <1>4, <2>1, <2>2, <2>3 DEF MainNext
<1>5. CASE WorkerNext
  <2>1. CASE FindIndex \/ InsertTopic \/ SetTopic \/ GetReceivers \/ SendNext \/ Published \/ Ignore
    BY <1>2, <2>1 DEF FindIndex, InsertTopic, SetTopic, GetReceivers, SendNext, Published, Ignore
  <2>2. CASE RemoveSender
    BY <1>1, <1>2, <2>2 DEF RemoveSender, RemoveStart
  <2>. QED  BY <1>5, <2>1, <2>2 DEF WorkerNext
<1>6. ASSUME NEW th \in Threads, RemoveNext(th) PROVE MainRemoves(s)'
  <2>1. CASE th = "worker"
    <3>1. \E r : removal' = [removal EXCEPT !["worker"] = r]
      <4>1. \/ Search(th) \/ RemoveClose(th) \/ RemoveFromList(th)
            \/ RemoveTopic(th)
        BY <1>6 DEF RemoveNext
      <4>2. CASE Search(th)
        BY <2>1, <4>2, Zenon DEF Search, RemoveFails
      <4>3. CASE RemoveClose(th) \/ RemoveFromList(th)
        BY <2>1, <4>3, Zenon DEF RemoveClose, RemoveFromList
      <4>4. CASE RemoveTopic(th)
        <5>1. \/ RemoveFails(th)
              \/ UNCHANGED removal
              \/ \E r : removal' = [removal EXCEPT ![th] = r]
          BY <4>4, Zenon DEF RemoveTopic
        <5>2. RemoveFails(th) => removal' = [removal EXCEPT ![th] = NotRemoving]
          BY DEF RemoveFails
        <5>3. UNCHANGED removal => removal' = [removal EXCEPT ![th] = removal[th]]
          BY <1>1
        <5>. QED  BY <2>1, <5>1, <5>2, <5>3
      <4>. QED  BY <4>1, <4>2, <4>3, <4>4
    <3>. QED  BY <1>1, <1>2, <3>1
  <2>2. CASE th = "main"
    <3>1. CASE RemoveTopic(th)
      <4>1. ~RemoveFails(th)
        BY <2>2 DEF RemoveFails
      <4>2. \/ UNCHANGED removal
            \/ removal' = [removal EXCEPT ![th].stage = "close"]
            \/ removal' = [removal EXCEPT ![th].next = removal[th].next + 1]
        BY <3>1, <4>1 DEF RemoveTopic
      <4>. QED  BY <1>1, <1>2, <2>2, <4>2 DEF MainRemoves, Removal
    <3>2. CASE RemoveClose(th)
      <4>1. removal' = [removal EXCEPT ![th].stage = "list"]
        BY <3>2 DEF RemoveClose
      <4>. QED  BY <1>1, <2>2, <4>1 DEF MainRemoves, Removal
    <3>3. ~Search(th) /\ ~RemoveFromList(th)
      BY <1>1, <2>2 DEF Search, RemoveFromList
    <3>. QED  BY <1>6, <3>1, <3>2, <3>3 DEF RemoveNext
  <2>. QED  BY <2>1, <2>2 DEF Threads
<1>7. CASE UNCHANGED vars
  BY <1>2, <1>7 DEF vars
<1>. QED  BY <1>2, <1>3, <1>4, <1>5, <1>6, <1>7 DEF Next

\* A sender that has left does not come back.
LEMMA DepartureLasts ==
  ASSUME SteadyInv, [Next]_vars, status' = "running", Busy, UNCHANGED place, Departed
  PROVE  Departed'
<1>1. PICK s \in Descriptors, by \in Clients : s = event.from /\ by = msg.by
  BY SteadyTypes
<1>2. (event.from)' = s /\ (msg.by)' = by
  BY <1>1 DEF event, msg
<1>3. CASE peer[s] # by
  <2>1. by \notin Waiting /\ KernelInv /\ NoClient \notin Clients
    <3>1. sent[by] # <<>>
      BY <1>1 DEF SteadyInv, MailInv, Busy, WasSent
    <3>. QED  BY <3>1, ClientsAssumption DEF SteadyInv, ServerInv, LinkInv
  <2>2. peer \in [Descriptors -> Clients \cup {NoClient}]
    BY SteadyTypes
  <2>3. ASSUME UNCHANGED peer PROVE peer'[s] # by
    BY <1>3, <2>3
  <2>4. ASSUME Accept PROVE peer'[s] # by
    <3>1. ASSUME NEW f \in Descriptors, 1 \in DOMAIN pending, peer' = [peer EXCEPT ![f] = pending[1]]
          PROVE  peer'[s] # by
      BY <1>3, <2>1, <2>2, <3>1 DEF Waiting
    <3>. QED  BY <2>1, <2>3, <2>4, <3>1, AcceptCases
  <2>5. ASSUME NEW th \in Threads, RemoveClose(th) PROVE peer'[s] # by
    BY <1>3, <2>1, <2>2, <2>5 DEF RemoveClose
  <2>6. peer'[s] # by
    BY <2>3, <2>4, <2>5, LinkSteps DEF vars
  <2>. QED  BY <1>2, <2>6 DEF Departed
<1>4. CASE peer[s] = by
  <2>1. MainRemoves(s) /\ removal["main"].stage # "list"
    BY <1>1, <1>4, ClientsAssumption DEF Departed, MainRemoves, SteadyInv, StageInv
  <2>2. MainRemoves(s)'
    BY <2>1, MainRemovesOn
  <2>. QED  BY <1>2, <2>2 DEF Departed, MainRemoves
<1>. QED  BY <1>3, <1>4

\* The dispatcher has taken nothing out of the map of a client that is there.
LEMMA MainRemovesGone ==
  ASSUME SteadyInv, ~Departed
  PROVE  Untouched(removal["main"]) \/ removal["main"].sock # event.from
<1>1. removal["main"].stage = "search" => removal["main"].next = 1
  BY DEF SteadyInv, StageInv, Threads
<1>. QED  BY <1>1 DEF Departed, MainRemoves, Untouched

\* The steps, as far as the books are concerned.
LEMMA BookSteps ==
  ASSUME SteadyInv, Next
  PROVE  \/ /\ UNCHANGED <<fds, metadata, table, peer>>
            /\ \A th \in Threads : \/ removal'[th] = removal[th]
                                   \/ Untouched(removal[th]) /\ Untouched(removal'[th])
            /\ wpc' = "set" <=> wpc = "set"
            /\ wpc = "set" => UNCHANGED place
            /\ mpc' = "greet" => mpc = "greet" /\ hand' = hand
         \/ Accept \/ Greet \/ InsertTopic \/ SetTopic
         \/ \E th \in Threads : RemoveTopic(th) \/ RemoveClose(th) \/ RemoveFromList(th)
<1>0. /\ "main" \in Threads /\ "worker" \in Threads /\ RemovalInv
      /\ wpc # "remove" => removal["worker"].stage = "none"
      /\ wpc = "set" => place # <<>>
  BY DEF Threads, SteadyInv, TurnInv, ServerInv, WorkerInv
<1>4. ASSUME NEW th \in Threads, NEW s, RemoveStart(th, s), removal[th].stage = "none"
      PROVE  \A t \in Threads : \/ removal'[t] = removal[t]
                                \/ Untouched(removal[t]) /\ Untouched(removal'[t])
  BY <1>0, <1>4, StartedRemoval DEF Untouched
<1>1. ASSUME NEW c \in Clients, ClientNext(c)
      PROVE  UNCHANGED <<fds, metadata, table, peer, removal, wpc, place, mpc, hand>>
  BY <1>1 DEF ClientNext, Connect, Connected, Close, Send, clientFrame, listVars, sharedVars,
              mainVars, workerVars
<1>2. CASE MainNext
  <2>1. CASE PollCall \/ PollReturn \/ Examine \/ Test \/ Mark \/ ScanEnd \/ AllRemoved \/ Refuse
    BY <2>1 DEF PollCall, PollReturn, Examine, Test, Mark, ScanEnd, AllRemoved, Refuse, listVars, sharedVars,
                mainVars, workerVars
  <2>2. CASE Read
    <3>1. UNCHANGED <<fds, metadata, table, peer, removal, wpc, place>> /\ mpc = "read"
      BY <2>2 DEF Read, sharedVars, workerVars
    <3>2. mpc' # "greet"
      <4>1. CASE RecvFails
        BY <3>1, <4>1 DEF RecvFails
      <4>2. ASSUME NEW c \in Clients, NEW q \in Seq(Message), Reads(c, q) PROVE mpc' # "greet"
        <5>1. UNCHANGED mpc \/ NoMessages \/ \E m \in Message : HandOver(m)
          BY <4>2, Zenon DEF Reads
        <5>. QED  BY <3>1, <5>1 DEF NoMessages, HandOver
      <4>3. KernelInv
        BY DEF SteadyInv, ServerInv
      <4>. QED  BY <2>2, <4>1, <4>2, <4>3, ReadTakes
    <3>. QED  BY <3>1, <3>2
  <2>3. CASE Take
    BY <1>0, <2>3 DEF Take, listVars, workerVars
  <2>4. CASE RemoveMarked
    <3>1. /\ UNCHANGED <<fds, metadata, table, peer, wpc, place, mpc, hand>>
          /\ removal["main"].stage = "none" /\ RemoveStart("main", Head(marked))
      BY <2>4 DEF RemoveMarked, listVars, sharedVars, mainVars, workerVars
    <3>. QED  BY <1>0, <1>4, <3>1
  <2>. QED  BY <1>2, <2>1, <2>2, <2>3, <2>4 DEF MainNext
<1>3. CASE WorkerNext
  <2>1. CASE FindIndex \/ GetReceivers \/ SendNext \/ Published \/ Ignore
    BY <2>1 DEF FindIndex, GetReceivers, SendNext, Published, Ignore, Done, listVars, sharedVars, mainVars,
                workerVars
  <2>2. CASE RemoveSender
    <3>1. /\ UNCHANGED <<fds, metadata, table, peer, mpc, hand>>
          /\ wpc = "idle" /\ wpc' = "remove" /\ RemoveStart("worker", event.from)
      BY <2>2 DEF RemoveSender, listVars, sharedVars, mainVars
    <3>. QED  BY <1>0, <1>4, <3>1
  <2>. QED  BY <1>3, <2>1, <2>2 DEF WorkerNext
<1>5. ASSUME NEW th \in Threads, Search(th)
      PROVE  /\ UNCHANGED <<fds, metadata, table, peer, mpc, hand>>
             /\ \A t \in Threads : \/ removal'[t] = removal[t]
                                   \/ Untouched(removal[t]) /\ Untouched(removal'[t])
             /\ wpc' = "set" <=> wpc = "set"
             /\ wpc = "set" => UNCHANGED place
  <2>1. UNCHANGED <<fds, metadata, table, peer, mpc, hand>>
    BY <1>5 DEF Search, mainVars
  <2>2. /\ removal[th].stage = "search" /\ removal[th].next = 1 /\ removal[th] \in Removal
        /\ removal \in [Threads -> Removal]
    BY <1>0, <1>5, SearchSteps DEF SteadyInv, StageInv, RemovalInv
  <2>3. th = "worker" => wpc = "remove"
    BY <1>0, <2>2
  <2>4. CASE RemoveFails(th)
    <3>1. removal' = [removal EXCEPT ![th] = NotRemoving] /\ NotRemoving.stage = "none"
      BY <2>4 DEF RemoveFails, NotRemoving
    <3>2. (th = "main" /\ UNCHANGED <<place, wpc>>) \/ (th = "worker" /\ wpc' = "idle")
      BY <2>4 DEF RemoveFails
    <3>. QED  BY <2>1, <2>2, <2>3, <3>1, <3>2 DEF Untouched
  <2>5. CASE removal' = [removal EXCEPT ![th].stage = "topics"] /\ UNCHANGED <<place, wpc>>
    <3>1. /\ removal'[th].stage = "topics" /\ removal'[th].next = 1
          /\ \A t \in Threads : t # th => removal'[t] = removal[t]
      BY <2>2, <2>5 DEF Removal
    <3>. QED  BY <2>1, <2>2, <2>5, <3>1 DEF Untouched
  <2>6. CASE removal' = [removal EXCEPT ![th].idx = removal[th].idx + 1] /\ UNCHANGED <<place, wpc>>
    <3>1. /\ removal'[th].stage = "search" /\ removal'[th].next = 1
          /\ \A t \in Threads : t # th => removal'[t] = removal[t]
      BY <2>2, <2>6 DEF Removal
    <3>. QED  BY <2>1, <2>2, <2>6, <3>1 DEF Untouched
  <2>. QED  BY <1>0, <1>5, <2>4, <2>5, <2>6, SearchSteps
<1>. QED  BY <1>1, <1>2, <1>3, <1>5 DEF Next, RemoveNext

\* What the books and the types together say, in the form the steps need it.
LEMMA BookTypes ==
  ASSUME SteadyInv, Books
  PROVE  /\ fds \in Seq(Sockets) /\ metadata \in Seq(Metadata) /\ Len(metadata) = Len(fds)
         /\ DOMAIN fds = 1..Len(fds) /\ DOMAIN metadata = 1..Len(fds) /\ Len(fds) \in Nat
         /\ \A x \in Subs : /\ x.at \in Nat \ {0} /\ x.topic \in Topics /\ x.sock \in Listed
                            /\ \E i \in 1..Len(fds) : \E j \in 1..Len(metadata[i].topics) :
                                 x = Sub(fds, metadata, i, j)
         /\ \A i \in 1..Len(fds) : /\ metadata[i].topics \in Seq(Topics)
                                  /\ \A j \in 1..Len(metadata[i].topics) : Sub(fds, metadata, i, j) \in Subs
         /\ removal \in [Threads -> Removal]
         /\ \A topic \in Topics : /\ table[topic] \in Entry
                                 /\ table[topic].len <= Len(table[topic].cells)
<1>1. /\ fds \in Seq(Sockets) /\ metadata \in Seq(Metadata) /\ Len(metadata) = Len(fds)
      /\ DOMAIN fds = 1..Len(fds) /\ DOMAIN metadata = 1..Len(fds) /\ Len(fds) \in Nat
  BY SteadyTypes DEF Books, ListBooks
<1>2. \A x \in Subs : /\ x.at \in Nat \ {0} /\ x.topic \in Topics /\ \E i \in DOMAIN fds : x.sock = fds[i]
                     /\ \E i \in 1..Len(fds) : \E j \in 1..Len(metadata[i].topics) :
                          x = Sub(fds, metadata, i, j)
  BY <1>1, SubsAre DEF Subs
<1>3. \A i \in 1..Len(fds) : metadata[i].topics \in Seq(Topics)
  <2>1. \A i \in 1..Len(fds) : metadata[i] \in Metadata
    BY <1>1
  <2>. QED  BY <2>1 DEF Metadata
<1>4. \A i \in 1..Len(fds) : \A j \in 1..Len(metadata[i].topics) : Sub(fds, metadata, i, j) \in Subs
  BY <1>1, SubsAre DEF Subs
<1>5. removal \in [Threads -> Removal] /\ table \in [Topics -> Entry]
      /\ \A topic \in Topics : table[topic].len <= Len(table[topic].cells)
  BY DEF SteadyInv, ServerInv, RemovalInv, TableInv
<1>. QED  BY <1>1, <1>2, <1>3, <1>4, <1>5 DEF Listed

\* The next client is listed: with metadata of its own and without topics.
LEMMA GreetBooks ==
  ASSUME SteadyInv, Books, Greet
  PROVE  Books'
<1>. DEFINE s == hand[1]
<1>0. /\ UNCHANGED <<peer, table, removal, wpc, place, conn>> /\ mpc = "greet" /\ mpc' = "scan"
      /\ s \in Descriptors /\ s \in Sockets /\ ListenerInv /\ RemovalInv
  BY DEF Greet, clientVars, workerVars, SteadyInv, ServerInv, MainInv, Descriptors
<1>1. CASE UNCHANGED <<fds, metadata>>
  <2>1. Departed' <=> Departed
    BY <1>0 DEF Departed, MainRemoves, event, msg
  <2>. QED  BY <1>0, <1>1, <2>1, SameBooks
<1>2. CASE ListAppend(s) /\ peer[s] # NoClient
  <2>1. fds' = Append(fds, s) /\ metadata' = Append(metadata, NewMetadata(s))
    BY <1>2 DEF ListAppend
  <2>2. fds \in Seq(Sockets) /\ metadata \in Seq(Metadata) /\ Len(metadata) = Len(fds)
    BY BookTypes
  <2>3. NewMetadata(s) \in Metadata /\ NewMetadata(s).owner = s
    BY <1>0 DEF NewMetadata, Metadata
  <2>4. Subs' = Subs
    BY <1>0, <2>1, <2>2, SubsAppend DEF Subs
  <2>. DEFINE k == Len(fds) + 1
  <2>5. /\ Len(fds') = k /\ Len(metadata') = k /\ DOMAIN fds' = 1..k /\ DOMAIN fds = 1..Len(fds)
        /\ fds'[k] = s /\ metadata'[k] = NewMetadata(s) /\ Len(fds) \in Nat
        /\ \A i \in 1..Len(fds) : fds'[i] = fds[i] /\ metadata'[i] = metadata[i]
    BY <1>0, <2>1, <2>2, <2>3, AppendProperties
  <2>6. \A i \in 1..k : i = k \/ i \in 1..Len(fds)
    BY <2>5
  <2>7. s \notin Listed
    BY <1>0 DEF Books, ListBooks
  <2>. HIDE DEF s, k
  <2>8. Listed' = Listed \cup {s}
    <3>1. k \in 1..k /\ 1..Len(fds) \subseteq 1..k
      BY <2>5 DEF k
    <3>. QED  BY <2>5, <2>6, <3>1 DEF Listed
  <2>9. ListBooks'
    <3>1. \A i \in DOMAIN fds' : metadata'[i].owner = fds'[i]
      BY <2>3, <2>5, <2>6 DEF Books, ListBooks
    <3>2. \A i, j \in DOMAIN fds' : fds'[i] = fds'[j] => i = j
      BY <2>5, <2>6, <2>7 DEF Books, ListBooks, Listed
    <3>. QED  BY <1>0, <2>5, <3>1, <3>2 DEF ListBooks
  <2>10. TableBooks'
    <3>1. event' = event /\ msg' = msg /\ (Departed' <=> Departed)
      BY <1>0 DEF Departed, MainRemoves, event, msg
    <3>2. \A x \in Subs : Cut(x)' <=> Cut(x)
      BY <1>0, <3>1 DEF Cut
    <3>. QED  BY <1>0, <2>4, <3>1, <3>2 DEF Books, TableBooks
  <2>11. RemovalBooks'
    BY <1>0, <1>2, <2>4, <2>8 DEF Books, RemovalBooks
  <2>. QED  BY <2>9, <2>10, <2>11 DEF Books
<1>. QED  BY <1>1, <1>2 DEF Greet, Delivers, listVars

\* A subscription is made in two halves: first in the metadata,
LEMMA InsertBooks ==
  ASSUME SteadyInv, FreshInv, ~stale, Books, InsertTopic, ~stale', status' = "running", status = "running"
  PROVE  Books'
<1>0. /\ UNCHANGED <<fds, peer, table, removal, mpc, hand, conn>> /\ wpc = "insert"
      /\ ListenerInv /\ RemovalInv
  BY DEF InsertTopic, clientVars, mainVars, SteadyInv, ServerInv
<1>1. /\ widx \in DOMAIN metadata /\ ~Departed /\ metadata[widx].owner = event.from
      /\ \/ wpc' = "idle" /\ UNCHANGED metadata
         \/ /\ \A i \in DOMAIN metadata[widx].topics : metadata[widx].topics[i] # msg.topic
            /\ metadata' = [metadata EXCEPT ![widx].topics = Append(metadata[widx].topics, msg.topic)]
            /\ wpc' = "set" /\ UNCHANGED place
  BY DEF InsertTopic, Done
<1>2. CASE wpc' = "idle" /\ UNCHANGED metadata
  BY <1>0, <1>2, SameBooks
<1>3. CASE /\ \A i \in DOMAIN metadata[widx].topics : metadata[widx].topics[i] # msg.topic
           /\ metadata' = [metadata EXCEPT ![widx].topics = Append(metadata[widx].topics, msg.topic)]
           /\ wpc' = "set" /\ UNCHANGED place
  <2>0. Busy /\ removal["worker"].stage = "none"
    BY <1>0 DEF SteadyInv, TurnInv, ServerInv, WorkerInv, Busy
  <2>1. PICK s \in Descriptors, topic \in Topics : s = event.from /\ topic = msg.topic
    BY <2>0, SteadyTypes DEF Message
  <2>2. event'.from = s /\ msg'.topic = topic /\ event' = event /\ msg' = msg /\ ~Departed'
    BY <1>0, <1>1, <1>3, <2>1 DEF event, msg, Departed, MainRemoves
  <2>3. widx \in 1..Len(fds) /\ fds[widx] = s
    BY <1>1, <2>1, BookTypes DEF Books, ListBooks
  <2>4. PICK new : /\ new = [sock |-> s, at |-> Len(metadata[widx].topics) + 1, topic |-> topic]
                   /\ Subs' = Subs \cup {new}
    <3>1. metadata' = [metadata EXCEPT ![widx].topics = Append(@, topic)]
      BY <1>3, <2>1
    <3>2. fds \in Seq(Sockets) /\ metadata \in Seq(Metadata) /\ Len(metadata) = Len(fds)
      BY BookTypes
    <3>3. SubsOf(fds, metadata') =
            SubsOf(fds, metadata) \cup {[sock |-> s, at |-> Len(metadata[widx].topics) + 1, topic |-> topic]}
      BY <2>3, <3>1, <3>2, SubsInsert
    <3>. QED  BY <1>0, <3>3 DEF Subs
  <2>5. new.sock = s /\ new.topic = topic
    BY <2>4
  <2>6. ASSUME NEW x \in Subs, x.sock = s PROVE x.topic # topic
    <3>1. PICK i \in 1..Len(fds) : \E j \in 1..Len(metadata[i].topics) : x = Sub(fds, metadata, i, j)
      BY BookTypes
    <3>0. PICK j \in 1..Len(metadata[i].topics) : x = Sub(fds, metadata, i, j)
      BY <3>1
    <3>2. i = widx
      BY <2>3, <2>6, <3>0, BookTypes DEF Sub, Books, ListBooks
    <3>3. j \in DOMAIN metadata[widx].topics
      BY <2>3, <3>0, <3>2, BookTypes
    <3>. QED  BY <1>3, <2>1, <3>0, <3>2, <3>3 DEF Sub
  <2>7. Listed' = Listed
    BY <1>0 DEF Listed
  <2>8. ListBooks'
    <3>1. /\ Len(metadata') = Len(metadata)
          /\ \A i \in DOMAIN metadata : metadata'[i].owner = metadata[i].owner
      <4>1. metadata \in Seq(Metadata) /\ \A i \in DOMAIN metadata : metadata[i] \in Metadata
        BY BookTypes
      <4>. QED  BY <1>1, <1>3, <4>1 DEF Metadata
    <3>. QED  BY <1>0, <2>7, <3>1, BookTypes DEF Books, ListBooks
  <2>9. ASSUME NEW x \in Subs PROVE Cut(x)' <=> Cut(x)
    BY <1>0, <1>3, <2>2, <2>6 DEF Cut
  <2>10. Cut(new)'
    BY <1>3, <2>2, <2>5 DEF Cut
  <2>11. s \notin Members(table[topic])
    BY <2>6 DEF Books, TableBooks
  <2>12. TableBooks'
    <3>1. \A x, y \in Subs' : x.sock = y.sock /\ x.topic = y.topic => x = y
      BY <2>4, <2>5, <2>6 DEF Books, TableBooks
    <3>2. \A x \in Subs' : x.sock \in Members(table[x.topic]) <=> ~Cut(x)'
      BY <2>4, <2>5, <2>9, <2>10, <2>11 DEF Books, TableBooks
    <3>3. \A t \in Topics : \A u \in Members(table[t]) : \E x \in Subs' : x.sock = u /\ x.topic = t
      BY <2>4 DEF Books, TableBooks
    <3>4. new \in Subs'
      BY <2>4
    <3>. QED  BY <1>0, <2>1, <2>2, <2>5, <3>1, <3>2, <3>3, <3>4 DEF Books, TableBooks
  <2>13. \A th \in Threads : Untouched(removal[th]) \/ removal[th].sock # s
    BY <1>1, <2>0, <2>1, MainRemovesGone DEF Threads, Untouched
  <2>14. RemovalBooks'
    BY <1>0, <2>4, <2>5, <2>7, <2>13 DEF Books, RemovalBooks, Untouched
  <2>. QED  BY <2>8, <2>12, <2>14 DEF Books
<1>. QED  BY <1>1, <1>2, <1>3

\* then in the map.
\* What SetTopic adds to which entry.
LEMMA SetMembers ==
  ASSUME SteadyInv, FreshInv, ~stale, Books, SetTopic, ~stale'
  PROVE  \E y \in Subs :
           /\ y.sock = event.from /\ y.topic = msg.topic /\ Cut(y)
           /\ \A t \in Topics : t # y.topic => table'[t] = table[t]
           /\ Members(table'[y.topic]) = Members(table[y.topic]) \cup {y.sock} /\ Once(table'[y.topic])
<1>0. wpc = "set" /\ ~Departed
  BY DEF SetTopic
<1>1. Busy
  BY <1>0 DEF SteadyInv, ServerInv, WorkerInv, Busy
<1>2. PICK s \in Descriptors, topic \in Topics : s = event.from /\ topic = msg.topic
  BY <1>1, SteadyTypes DEF Message
<1>3. PICK y \in Subs : y.sock = s /\ y.topic = topic
  BY <1>0, <1>2 DEF Books, TableBooks
<1>4. Cut(y)
  BY <1>0, <1>2, <1>3 DEF Cut
<1>5. s \notin Members(table[topic])
  BY <1>3, <1>4 DEF Books, TableBooks
<1>. DEFINE entry == table[topic]
            rest == SubSeq(entry.cells, entry.len + 2, Len(entry.cells))
            new == [known |-> TRUE, len |-> entry.len + 1, cells |-> CellsOf(entry) \o <<s>> \o rest]
<1>6. table' = [table EXCEPT ![topic] = new]
  BY <1>2 DEF SetTopic
<1>7. entry \in Entry /\ entry.len <= Len(entry.cells) /\ table \in [Topics -> Entry]
  BY BookTypes DEF SteadyInv, ServerInv, TableInv
<1>8. rest \in Seq(Descriptors)
  BY <1>7 DEF Entry
<1>9. Once(entry)
  BY DEF Books, TableBooks
<1>. HIDE DEF rest
<1>10. Members(new) = Members(entry) \cup {s} /\ Once(new)
  BY <1>5, <1>7, <1>8, <1>9, MembersSet
<1>. HIDE DEF new
<1>11. /\ \A t \in Topics : t # topic => table'[t] = table[t]
       /\ Members(table'[topic]) = Members(table[topic]) \cup {s} /\ Once(table'[topic])
  BY <1>6, <1>7, <1>10
<1>. QED  BY <1>2, <1>3, <1>4, <1>11

LEMMA SetBooks ==
  ASSUME SteadyInv, FreshInv, ~stale, Books, SetTopic, ~stale'
  PROVE  Books'
<1>0. /\ UNCHANGED <<fds, metadata, peer, removal, mpc, hand, conn>> /\ wpc = "set" /\ wpc' = "idle"
      /\ ~Departed
  BY DEF SetTopic, Done, listVars, clientVars, mainVars
<1>1. Busy /\ removal["worker"].stage = "none"
  BY <1>0 DEF SteadyInv, TurnInv, ServerInv, WorkerInv, Busy
<1>2. PICK y \in Subs :
        /\ y.sock = event.from /\ y.topic = msg.topic /\ Cut(y)
        /\ \A t \in Topics : t # y.topic => table'[t] = table[t]
        /\ Members(table'[y.topic]) = Members(table[y.topic]) \cup {y.sock} /\ Once(table'[y.topic])
  BY SetMembers
<1>3. PICK s \in Descriptors, topic \in Topics :
        s = event.from /\ topic = msg.topic /\ y.sock = s /\ y.topic = topic
  BY <1>1, <1>2, SteadyTypes DEF Message
<1>4. /\ \A t \in Topics : t # topic => table'[t] = table[t]
      /\ Members(table'[topic]) = Members(table[topic]) \cup {s} /\ Once(table'[topic])
  BY <1>2, <1>3
<1>5. Subs' = Subs /\ Listed' = Listed
  BY <1>0 DEF Subs, Listed
<1>6. \A th \in Threads : Untouched(removal[th]) \/ removal[th].sock # s
  BY <1>0, <1>1, <1>3, MainRemovesGone DEF Threads, Untouched
<1>7. ~Cut(y)'
  <2>1. y.at \in Nat \ {0}
    BY BookTypes
  <2>. QED  BY <1>0, <1>3, <1>6, <2>1 DEF Cut, Untouched
<1>8. ASSUME NEW x \in Subs, x # y PROVE Cut(x)' <=> Cut(x)
  <2>1. ~(x.sock = s /\ x.topic = topic)
    BY <1>3, <1>8 DEF Books, TableBooks
  <2>. QED  BY <1>0, <1>3, <2>1 DEF Cut
<1>9. ListBooks' /\ RemovalBooks'
  BY <1>0, <1>5 DEF Books, ListBooks, RemovalBooks
<1>10. TableBooks'
  <2>1. \A t \in Topics : Once(table'[t])
    BY <1>4 DEF Books, TableBooks
  <2>2. \A t \in Topics : \A u \in Members(table'[t]) : u \in Members(table[t]) \/ (u = s /\ t = topic)
    BY <1>4
  <2>3. \A x \in Subs : x.topic \in Topics
    BY BookTypes
  <2>4. ASSUME NEW x \in Subs PROVE x.sock \in Members(table'[x.topic]) <=> ~Cut(x)'
    <3>1. CASE x = y
      BY <1>3, <1>4, <1>7, <3>1
    <3>2. CASE x # y
      <4>1. ~(x.sock = s /\ x.topic = topic)
        BY <1>3, <3>2 DEF Books, TableBooks
      <4>2. x.sock \in Members(table'[x.topic]) <=> x.sock \in Members(table[x.topic])
        BY <1>4, <2>3, <4>1
      <4>. QED  BY <1>8, <3>2, <4>2 DEF Books, TableBooks
    <3>. QED  BY <3>1, <3>2
  <2>. QED  BY <1>0, <1>3, <1>5, <2>1, <2>2, <2>4 DEF Books, TableBooks
<1>. QED  BY <1>9, <1>10 DEF Books

\* How far each thread is with its removal, apart from thread th.
OthersSame(th) == \A t \in Threads : t # th => removal'[t] = removal[t]

\* The removal in thread th has gone past subscription y, and only this changed.
LEMMA CutBooks ==
  ASSUME SteadyInv, Books, UNCHANGED <<fds, metadata, peer, mpc, hand, place, wpc, conn>>,
         NEW th \in Threads, removal[th].stage = "topics",
         removal' = [removal EXCEPT ![th].next = removal[th].next + 1],
         NEW y \in Subs, y.sock = removal[th].sock, y.at = removal[th].next,
         \A t \in Topics : t # y.topic => table'[t] = table[t],
         Members(table'[y.topic]) = Members(table[y.topic]) \ {y.sock},
         Once(table'[y.topic])
  PROVE  Books'
<1>1. removal \in [Threads -> Removal] /\ \A x \in Subs : x.at \in Nat /\ x.topic \in Topics
  BY BookTypes
<1>2. /\ removal'[th].stage = "topics" /\ removal'[th].sock = y.sock
      /\ removal'[th].next = removal[th].next + 1 /\ removal[th].next \in Nat
      /\ OthersSame(th)
  BY <1>1 DEF Removal, OthersSame
<1>3. Subs' = Subs /\ Listed' = Listed
  BY DEF Subs, Listed
<1>4. event' = event /\ msg' = msg /\ (Departed' <=> Departed)
  <2>1. MainRemoves(event.from)' <=> MainRemoves(event.from)
    BY <1>1, <1>2 DEF MainRemoves, OthersSame, Removal, event, Threads
  <2>. QED  BY <2>1 DEF Departed, event, msg
<1>5. ASSUME NEW x \in Subs PROVE Cut(x)' <=> Cut(x) \/ x = y
  <2>1. x.sock = y.sock /\ x.at = y.at => x = y
    <3>1. PICK i \in 1..Len(fds) : \E j \in 1..Len(metadata[i].topics) : x = Sub(fds, metadata, i, j)
      BY BookTypes
    <3>2. PICK h \in 1..Len(fds) : \E j \in 1..Len(metadata[h].topics) : y = Sub(fds, metadata, h, j)
      BY BookTypes
    <3>3. x.sock = y.sock => i = h
      BY <3>1, <3>2, BookTypes DEF Sub, Books, ListBooks
    <3>. QED  BY <3>1, <3>2, <3>3 DEF Sub
  <2>2. (x.sock = y.sock /\ x.at < removal'[th].next) <=>
          (x.sock = y.sock /\ x.at < removal[th].next) \/ x = y
    BY <1>1, <1>2, <2>1
  <2>. QED  BY <1>2, <1>4, <2>2 DEF Cut, OthersSame
<1>6. ListBooks'
  BY <1>3 DEF Books, ListBooks
<1>7. TableBooks'
  <2>1. \A t \in Topics : Once(table'[t]) /\ Members(table'[t]) \subseteq Members(table[t])
    BY DEF Books, TableBooks
  <2>2. ASSUME NEW x \in Subs PROVE x.sock \in Members(table'[x.topic]) <=> ~Cut(x)'
    <3>1. CASE x = y
      BY <1>5, <3>1
    <3>2. CASE x # y
      <4>1. ~(x.sock = y.sock /\ x.topic = y.topic)
        BY <3>2 DEF Books, TableBooks
      <4>2. x.sock \in Members(table'[x.topic]) <=> x.sock \in Members(table[x.topic])
        BY <1>1, <4>1
      <4>. QED  BY <1>5, <3>2, <4>2 DEF Books, TableBooks
    <3>. QED  BY <3>1, <3>2
  <2>. QED  BY <1>3, <1>4, <2>1, <2>2 DEF Books, TableBooks
<1>8. RemovalBooks'
  BY <1>2, <1>3 DEF Books, RemovalBooks, OthersSame
<1>. QED  BY <1>6, <1>7, <1>8 DEF Books

LEMMA TopicBooks ==
  ASSUME SteadyInv, FreshInv, ~stale, Books, status = "running",
         NEW th \in Threads, RemoveTopic(th), ~stale', status' = "running"
  PROVE  Books'
<1>. DEFINE r == removal[th]
            names == metadata[r.idx].topics
            y == Sub(fds, metadata, r.idx, r.next)
            entry == table[names[r.next]]
            i == IndexIn(entry, r.sock)
<1>0. /\ UNCHANGED <<fds, metadata, peer, mpc, hand, conn>> /\ r.stage = "topics"
      /\ r.idx \in DOMAIN metadata /\ metadata[r.idx].owner = r.sock
      /\ r \in Removal /\ r.next \in Nat \ {0} /\ ListenerInv /\ RemovalInv
  <2>1. UNCHANGED <<fds, metadata, peer, mpc, hand, conn>> /\ r.stage = "topics"
    BY ZenonT(30) DEF RemoveTopic, clientVars, mainVars
  <2>2. r.idx \in DOMAIN metadata
    BY ZenonT(30) DEF RemoveTopic
  <2>3. metadata[r.idx].owner = r.sock
    BY <2>2 DEF RemoveTopic
  <2>4. ListenerInv /\ RemovalInv
    BY DEF SteadyInv, ServerInv
  <2>5. r \in Removal /\ r.next > 0
    BY <2>1, <2>4 DEF RemovalInv
  <2>6. r.next \in Nat \ {0}
    BY <2>5 DEF Removal
  <2>. QED  BY <2>1, <2>2, <2>3, <2>4, <2>5, <2>6
<1>1. r.idx \in 1..Len(fds) /\ fds[r.idx] = r.sock /\ names \in Seq(Topics)
  BY <1>0, BookTypes DEF Books, ListBooks
<1>2. Subs' = Subs /\ Listed' = Listed
  BY <1>0 DEF Subs, Listed
<1>3. CASE r.next > Len(names)
  <2>0. ~(r.next <= Len(names)) /\ r.idx \in DOMAIN metadata
    <3>1. Len(names) \in Nat /\ r.next \in Nat /\ r.idx \in DOMAIN metadata
      BY <1>0, <1>1
    <3>. HIDE DEF r, names
    <3>. QED  BY <1>3, <3>1
  <2>1. removal' = [removal EXCEPT ![th].stage = "close"] /\ UNCHANGED <<table, place, wpc>>
    BY <2>0, Zenon DEF RemoveTopic
  <2>2. /\ removal'[th].stage = "close" /\ removal'[th].sock = r.sock /\ removal'[th].next = r.next
        /\ OthersSame(th)
    BY <2>1, BookTypes DEF Removal, OthersSame
  <2>3. \A x \in Subs : x.sock = r.sock => x.at < r.next
    <3>. SUFFICES ASSUME NEW x \in Subs, x.sock = r.sock PROVE x.at < r.next
      OBVIOUS
    <3>1. PICK h \in 1..Len(fds) : \E j \in 1..Len(metadata[h].topics) : x = Sub(fds, metadata, h, j)
      BY BookTypes
    <3>2. h = r.idx
      BY <1>1, <3>1, BookTypes DEF Sub, Books, ListBooks
    <3>3. Len(names) \in Nat /\ x.at \in 1..Len(names)
      BY <1>1, <3>1, <3>2 DEF Sub
    <3>. QED  BY <1>0, <1>3, <3>3
  <2>4. event' = event /\ msg' = msg /\ (Departed' <=> Departed)
    <3>1. MainRemoves(event.from)' <=> MainRemoves(event.from)
      BY <1>0, <2>1, <2>2 DEF MainRemoves, OthersSame, event, Threads
    <3>. QED  BY <1>0, <2>1, <3>1 DEF Departed, event, msg
  <2>5. \A x \in Subs : Cut(x)' <=> Cut(x)
    BY <1>0, <2>1, <2>2, <2>4 DEF Cut, OthersSame
  <2>6. ListBooks' /\ TableBooks'
    BY <1>0, <1>2, <2>1, <2>4, <2>5 DEF Books, ListBooks, TableBooks
  <2>7. RemovalBooks'
    BY <1>0, <1>2, <2>2, <2>3 DEF Books, RemovalBooks, OthersSame
  <2>. QED  BY <2>6, <2>7 DEF Books
<1>4. CASE r.next <= Len(names)
  <2>1. /\ r.next \in 1..Len(names) /\ names[r.next] \in Topics
        /\ y \in Subs /\ y.sock = r.sock /\ y.at = r.next /\ y.topic = names[r.next]
    BY <1>0, <1>1, <1>4, BookTypes DEF Sub
  <2>2. /\ entry \in Entry /\ entry.len <= Len(entry.cells) /\ Once(entry)
        /\ table \in [Topics -> Entry]
    BY <2>1, BookTypes DEF Books, TableBooks, SteadyInv, ServerInv, TableInv
  <2>3. /\ i \in Nat /\ (i # 0 => i \in 1..entry.len /\ entry.cells[i] = r.sock)
        /\ i = 0 => r.sock \notin Members(entry)
    <3>. HIDE DEF entry
    <3>1. /\ CellsOf(entry) \in Seq(Descriptors) /\ Len(CellsOf(entry)) = entry.len
          /\ \A j \in 1..entry.len : CellsOf(entry)[j] = entry.cells[j]
      BY <2>2 DEF CellsOf, Entry
    <3>2. /\ i \in Nat /\ (i # 0 => i \in 1..Len(CellsOf(entry)) /\ CellsOf(entry)[i] = r.sock)
          /\ i = 0 => \A j \in 1..Len(CellsOf(entry)) : CellsOf(entry)[j] # r.sock
      BY <3>1, IndexOfFinds DEF IndexIn
    <3>. QED  BY <3>1, <3>2 DEF Members
  <2>4. /\ i # 0 => /\ table' = [table EXCEPT ![names[r.next]] = CutOff(entry, i)]
                    /\ removal' = [removal EXCEPT ![th].next = removal[th].next + 1]
                    /\ UNCHANGED <<place, wpc>>
        /\ i = 0 => /\ UNCHANGED table
                    /\ \/ RemoveFails(th)
                       \/ /\ removal' = [removal EXCEPT ![th].next = removal[th].next + 1]
                          /\ UNCHANGED <<place, wpc>>
    <3>1. r.idx \in DOMAIN metadata /\ ~(r.next > Len(names))
      BY <1>0, <1>1, <1>4
    <3>2. CASE i # 0
      BY <3>1, <3>2 DEF RemoveTopic
    <3>3. CASE i = 0
      BY <3>1, <3>3 DEF RemoveTopic
    <3>. QED  BY <3>2, <3>3
  <2>. HIDE DEF i, entry
  <2>5. CASE i # 0
    <3>1. Members(CutOff(entry, i)) = Members(entry) \ {r.sock} /\ Once(CutOff(entry, i))
      BY <2>2, <2>3, <2>5, MembersCut
    <3>2. /\ \A t \in Topics : t # names[r.next] => table'[t] = table[t]
          /\ table'[names[r.next]] = CutOff(entry, i)
      BY <2>1, <2>2, <2>4, <2>5
    <3>3. /\ \A t \in Topics : t # y.topic => table'[t] = table[t]
          /\ Members(table'[y.topic]) = Members(table[y.topic]) \ {y.sock} /\ Once(table'[y.topic])
      BY <2>1, <3>1, <3>2 DEF entry
    <3>. HIDE DEF y
    <3>. QED  BY <1>0, <2>1, <2>4, <2>5, <3>3, CutBooks
  <2>6. CASE i = 0 /\ removal' = [removal EXCEPT ![th].next = removal[th].next + 1] /\ UNCHANGED <<place, wpc>>
    <3>0. /\ table' = table /\ Once(table[y.topic])
          /\ y.sock \notin Members(table[y.topic])
      BY <2>1, <2>2, <2>3, <2>4, <2>6 DEF entry
    <3>. HIDE DEF y
    <3>1. /\ \A t \in Topics : t # y.topic => table'[t] = table[t]
          /\ Members(table'[y.topic]) = Members(table[y.topic]) \ {y.sock} /\ Once(table'[y.topic])
      BY <3>0
    <3>. QED  BY <1>0, <2>1, <2>6, <3>1, CutBooks
  <2>7. CASE i = 0 /\ RemoveFails(th)
    <3>1. /\ th = "worker" /\ removal' = [removal EXCEPT !["worker"] = NotRemoving] /\ wpc' = "idle"
          /\ UNCHANGED table
      BY <2>4, <2>7 DEF RemoveFails
    <3>2. /\ removal'["worker"].stage = "none" /\ removal'["main"] = removal["main"] /\ wpc = "remove"
      BY <1>0, <3>1, BookTypes DEF NotRemoving, Threads, SteadyInv, TurnInv
    <3>3. Cut(y)
      BY <2>1, <2>3, <2>7 DEF Books, TableBooks, entry
    <3>4. removal["main"].stage # "none" /\ removal["main"].sock = r.sock /\ r.next < removal["main"].next
      BY <1>0, <2>1, <3>1, <3>2, <3>3 DEF Cut, Threads
    <3>5. \A x \in Subs : Cut(x)' <=> Cut(x)
      <4>1. removal["main"].next \in Nat /\ \A x \in Subs : x.at \in Nat
        BY BookTypes DEF Threads, Removal
      <4>2. \A x \in Subs : x.sock = r.sock /\ x.at < r.next => x.at < removal["main"].next
        BY <1>0, <3>4, <4>1
      <4>. QED  BY <3>1, <3>2, <3>4, <4>2 DEF Cut, Threads
    <3>6. ListBooks' /\ TableBooks'
      BY <1>0, <1>2, <3>1, <3>5 DEF Books, ListBooks, TableBooks
    <3>7. RemovalBooks'
      BY <1>0, <1>2, <3>1, <3>2 DEF Books, RemovalBooks, Threads
    <3>. QED  BY <3>6, <3>7 DEF Books
  <2>. QED  BY <2>3, <2>4, <2>5, <2>6, <2>7
<1>5. r.next > Len(names) \/ r.next <= Len(names)
  BY <1>0, <1>1
<1>. QED  BY <1>3, <1>4, <1>5

\* The descriptor is closed when its subscriptions are gone from the map,
LEMMA CloseBooks ==
  ASSUME SteadyInv, FreshInv, ~stale, Books, [Next]_vars, status' = "running",
         NEW th \in Threads, RemoveClose(th)
  PROVE  Books'
<1>1. /\ UNCHANGED <<fds, metadata, table, mpc, hand, place, wpc>>
      /\ removal[th].stage = "close"
      /\ peer' = [peer EXCEPT ![removal[th].sock] = NoClient]
      /\ removal' = [removal EXCEPT ![th].stage = "list"]
  BY DEF RemoveClose, listVars, sharedVars, mainVars, workerVars
<1>2. /\ removal'[th].stage = "list" /\ removal'[th].sock = removal[th].sock
      /\ removal'[th].next = removal[th].next /\ OthersSame(th)
  BY <1>1, BookTypes DEF Removal, OthersSame
<1>3. Subs' = Subs /\ Listed' = Listed
  BY <1>1 DEF Subs, Listed
<1>4. event' = event /\ msg' = msg
  BY <1>1 DEF event, msg
<1>5. \A x \in Subs : Cut(x)' <=> Cut(x)
  BY <1>1, <1>2, <1>4 DEF Cut, OthersSame
<1>6. wpc = "set" /\ Departed => Departed'
  <2>1. wpc = "set" => Busy
    BY DEF SteadyInv, ServerInv, WorkerInv, Busy
  <2>. QED  BY <1>1, <2>1, DepartureLasts
<1>7. ListBooks' /\ TableBooks'
  BY <1>1, <1>3, <1>4, <1>5, <1>6 DEF Books, ListBooks, TableBooks
<1>8. RemovalBooks'
  <2>1. \A s \in Listed \ {Listener} : s = removal[th].sock \/ peer'[s] = peer[s]
    <3>1. Listed \subseteq Sockets /\ peer \in [Descriptors -> Clients \cup {NoClient}]
      BY SteadyTypes DEF Listed
    <3>. QED  BY <1>1, <3>1 DEF Descriptors
  <2>2. \A t \in Threads : removal[t].stage = "list" => t # th
    BY <1>1
  <2>. QED  BY <1>1, <1>2, <1>3, <2>1, <2>2 DEF Books, RemovalBooks, OthersSame
<1>. QED  BY <1>7, <1>8 DEF Books

\* and taken off the list, with the metadata, when it is closed.
LEMMA FromListBooks ==
  ASSUME SteadyInv, FreshInv, ~stale, Books, [Next]_vars, status' = "running",
         NEW th \in Threads, RemoveFromList(th)
  PROVE  Books'
<1>. DEFINE s == removal[th].sock
<1>1. /\ UNCHANGED <<peer, conn, table, mpc, hand>> /\ removal[th].stage = "list" /\ ListRemove(s)
      /\ removal' = [removal EXCEPT ![th] = NotRemoving]
      /\ \/ th = "main" /\ UNCHANGED <<place, wpc>>
         \/ th = "worker" /\ wpc' = "idle"
  BY DEF RemoveFromList, clientVars
<1>2. removal'[th].stage = "none" /\ OthersSame(th)
  BY <1>1, BookTypes DEF NotRemoving, OthersSame
<1>3. /\ Subs' = {x \in Subs : x.sock # s} /\ Listed' = Listed \ {s}
      /\ Len(metadata') = Len(fds')
      /\ \A i \in DOMAIN fds' : metadata'[i].owner = fds'[i]
      /\ \A i, j \in DOMAIN fds' : fds'[i] = fds'[j] => i = j
  <2>. DEFINE k == GetIdx(s)
              l == Len(fds)
  <2>1. /\ fds \in Seq(Sockets) /\ metadata \in Seq(Metadata) /\ Len(metadata) = l /\ l \in Nat
        /\ DOMAIN fds = 1..l /\ DOMAIN metadata = 1..l
        /\ \A x \in Subs : x.sock \in Listed
        /\ \A i, j \in 1..l : fds[i] = fds[j] => i = j
        /\ \A i \in 1..l : metadata[i].owner = fds[i]
    BY BookTypes DEF Books, ListBooks
  <2>2. k \in Nat /\ (k # 0 => k \in 1..l /\ fds[k] = s) /\ (k = 0 => s \notin Listed)
    BY <2>1, GetIdxFinds
  <2>3. CASE k = 0
    <3>1. fds' = fds /\ metadata' = metadata
      BY <1>1, <2>3 DEF ListRemove
    <3>. QED  BY <2>1, <2>2, <2>3, <3>1 DEF Subs, Listed
  <2>4. CASE k # 0
    <3>1. fds' = SwapRemove(fds, k) /\ metadata' = SwapRemove(metadata, k)
      BY <1>1, <2>4 DEF ListRemove
    <3>2. Subs' = {x \in Subs : x.sock # s}
      <4>0. /\ k \in 1..Len(fds) /\ Len(metadata) = Len(fds)
            /\ fds \in Seq(Sockets) /\ metadata \in Seq(Metadata)
            /\ \A i, j \in DOMAIN fds : fds[i] = fds[j] => i = j
        BY <2>1, <2>2, <2>4
      <4>. HIDE DEF k, s
      <4>1. SubsOf(SwapRemove(fds, k), SwapRemove(metadata, k)) = {x \in SubsOf(fds, metadata) : x.sock # fds[k]}
        BY <4>0, SubsRemove
      <4>. QED  BY <2>2, <2>4, <3>1, <4>1 DEF Subs
    <3>. HIDE DEF k, s
    <3>0. k \in Nat /\ k \in 1..Len(fds) /\ k \in 1..Len(metadata)
      BY <2>1, <2>2, <2>4
    <3>3. /\ Len(fds') = l - 1 /\ DOMAIN fds' = 1..(l - 1)
          /\ \A i \in 1..(l - 1) : fds'[i] = IF i = k THEN fds[l] ELSE fds[i]
      <4>1. /\ fds' \in Seq(Sockets) /\ Len(fds') = Len(fds) - 1
            /\ \A i \in 1..(Len(fds) - 1) : fds'[i] = IF i = k THEN fds[Len(fds)] ELSE fds[i]
        BY <2>1, <3>0, <3>1, SwapRemoveTakes, Zenon
      <4>. QED  BY <4>1
    <3>4. /\ Len(metadata') = l - 1
          /\ \A i \in 1..(l - 1) : metadata'[i] = IF i = k THEN metadata[l] ELSE metadata[i]
      <4>1. /\ Len(metadata') = Len(metadata) - 1
            /\ \A i \in 1..(Len(metadata) - 1) :
                 metadata'[i] = IF i = k THEN metadata[Len(metadata)] ELSE metadata[i]
        BY <2>1, <3>0, <3>1, SwapRemoveTakes, Zenon
      <4>2. Len(metadata) = l
        BY <2>1
      <4>. QED  BY <4>1, <4>2
    <3>. HIDE DEF l
    <3>. DEFINE Came(i) == IF i = k THEN l ELSE i
    <3>5. /\ \A i \in 1..(l - 1) : /\ Came(i) \in 1..l /\ Came(i) # k
                                   /\ fds'[i] = fds[Came(i)] /\ metadata'[i] = metadata[Came(i)]
          /\ \A i, j \in 1..(l - 1) : Came(i) = Came(j) => i = j
          /\ \A i \in 1..l : i # k => \E h \in 1..(l - 1) : Came(h) = i
      <4>0. k \in 1..l /\ l \in Nat
        BY <2>1, <2>2, <2>4
      <4>1. \A i \in 1..(l - 1) : /\ Came(i) \in 1..l /\ Came(i) # k
                                   /\ fds'[i] = fds[Came(i)] /\ metadata'[i] = metadata[Came(i)]
        BY <3>3, <3>4, <4>0
      <4>2. \A i, j \in 1..(l - 1) : Came(i) = Came(j) => i = j
        BY <4>0
      <4>3. \A i \in 1..l : i # k => \E h \in 1..(l - 1) : Came(h) = i
        BY <4>0
      <4>. QED  BY <4>1, <4>2, <4>3
    <3>. HIDE DEF Came
    <3>6. \A i \in DOMAIN fds' : metadata'[i].owner = fds'[i]
      BY <2>1, <3>3, <3>5
    <3>7. \A i, j \in DOMAIN fds' : fds'[i] = fds'[j] => i = j
      BY <2>1, <3>3, <3>5
    <3>8. Listed' = Listed \ {s}
      <4>1. ASSUME NEW i \in 1..(l - 1) PROVE fds'[i] \in {fds[j] : j \in 1..l} \ {s}
        BY <2>1, <2>2, <2>4, <3>5
      <4>2. ASSUME NEW i \in 1..l, fds[i] # s PROVE fds[i] \in {fds'[j] : j \in 1..(l - 1)}
        <5>1. PICK h \in 1..(l - 1) : Came(h) = i
          BY <2>2, <2>4, <3>5, <4>2
        <5>. QED  BY <3>5, <5>1
      <4>3. {fds'[j] : j \in 1..(l - 1)} = {fds[j] : j \in 1..l} \ {s}
        BY <4>1, <4>2
      <4>. QED  BY <2>1, <3>3, <4>3 DEF Listed
    <3>. QED  BY <3>2, <3>3, <3>4, <3>6, <3>7, <3>8
  <2>. QED  BY <2>3, <2>4
<1>4. \A x \in Subs : x.sock = s => Cut(x)
  BY <1>1 DEF Books, RemovalBooks, Cut
<1>. HIDE DEF s
<1>5. \A x \in Subs' : Cut(x)' <=> Cut(x)
  <2>1. th = "worker" => wpc = "remove"
    BY <1>1 DEF SteadyInv, TurnInv
  <2>2. th = "main" => event' = event /\ msg' = msg
    BY <1>1 DEF event, msg
  <2>3. \A x \in Subs' : x.sock # removal[th].sock
    BY <1>3 DEF s
  <2>. QED  BY <1>1, <1>2, <2>1, <2>2, <2>3 DEF Cut, OthersSame
<1>6. ListBooks'
  BY <1>1, <1>3 DEF Books, ListBooks
<1>7. TableBooks'
  <2>1. \A x, y \in Subs' : x.sock = y.sock /\ x.topic = y.topic => x = y
    BY <1>3 DEF Books, TableBooks
  <2>2. ASSUME NEW t \in Topics, NEW u \in Members(table[t])
        PROVE  \E x \in Subs' : x.sock = u /\ x.topic = t
    <3>1. PICK x \in Subs : x.sock = u /\ x.topic = t
      BY DEF Books, TableBooks
    <3>2. ~Cut(x)
      BY <3>1 DEF Books, TableBooks
    <3>. QED  BY <1>3, <1>4, <3>1, <3>2
  <2>3. \A x \in Subs' : x.sock \in Members(table[x.topic]) <=> ~Cut(x)'
    BY <1>3, <1>5 DEF Books, TableBooks
  <2>4. ASSUME wpc' = "set", ~Departed' PROVE \E x \in Subs' : x.sock = event'.from /\ x.topic = msg'.topic
    <3>1. /\ th = "main" /\ wpc = "set" /\ event' = event /\ msg' = msg
          /\ peer[event.from] = msg.by
      BY <1>1, <2>4 DEF event, msg, Departed
    <3>2. event.from # s
      <4>1. msg.by \in Clients /\ NoClient \notin Clients
        BY <3>1, SteadyTypes DEF SteadyInv, ServerInv, WorkerInv, Busy
      <4>. QED  BY <1>1, <3>1, <4>1 DEF s, SteadyInv, StageInv
    <3>3. ~Departed
      BY <3>1, <3>2 DEF Departed, MainRemoves, s
    <3>. QED  BY <1>3, <3>1, <3>2, <3>3 DEF Books, TableBooks
  <2>. QED  BY <1>1, <2>1, <2>2, <2>3, <2>4 DEF Books, TableBooks
<1>8. RemovalBooks'
  <2>1. \A u \in Listed' : u # removal[th].sock
    BY <1>3 DEF s
  <2>. QED  BY <1>1, <1>2, <1>3, <2>1 DEF Books, RemovalBooks, OthersSame
<1>. QED  BY <1>6, <1>7, <1>8 DEF Books

LEMMA BooksKeep ==
  ASSUME SteadyInv, FreshInv, BooksInv, [Next]_vars
  PROVE  BooksInv'
<1>. SUFFICES ASSUME ~stale', status' = "running" PROVE Books'
  BY DEF BooksInv
<1>0. ListenerInv /\ RemovalInv /\ KernelInv /\ (wpc = "set" => Busy)
  BY DEF SteadyInv, ServerInv, WorkerInv, Busy
<1>1. CASE UNCHANGED vars
  <2>1. UNCHANGED <<fds, metadata, table, removal, wpc, place, mpc, hand, peer, conn, stale, status>>
    BY <1>1 DEF vars, listVars, clientVars, sharedVars, mainVars, workerVars
  <2>2. Departed' <=> Departed
    BY <2>1 DEF Departed, MainRemoves, event, msg
  <2>. QED  BY <1>0, <2>1, <2>2, SameBooks DEF BooksInv
<1>2. CASE Next
  <2>0. ~stale /\ status = "running"
    BY <1>2, FreshSteps DEF Next
  <2>1. Books
    BY <2>0 DEF BooksInv
  <2>2. wpc = "set" /\ UNCHANGED place /\ Departed => Departed'
    BY <1>0, <2>0, DepartureLasts
  <2>3. CASE /\ UNCHANGED <<fds, metadata, table, peer>>
             /\ \A th \in Threads : \/ removal'[th] = removal[th]
                                    \/ Untouched(removal[th]) /\ Untouched(removal'[th])
             /\ wpc' = "set" <=> wpc = "set"
             /\ wpc = "set" => UNCHANGED place
             /\ mpc' = "greet" => mpc = "greet" /\ hand' = hand
    BY <1>0, <2>1, <2>2, <2>3, SameBooks
  <2>4. CASE Accept
    <3>1. UNCHANGED <<fds, metadata, table, removal, wpc, place>>
      BY <2>4 DEF Accept, listVars, sharedVars, workerVars
    <3>2. (mpc' = "greet" => hand'[1] \notin Listed) /\ \A s \in Descriptors : peer'[s] = NoClient => peer[s] = NoClient
      <4>1. CASE mpc' = "scan" /\ peer' = peer
        BY <4>1
      <4>2. ASSUME NEW f \in Descriptors, peer' = [peer EXCEPT ![f] = pending[1]], pending[1] \in Clients,
                   hand' = <<f>>, stale' = (stale \/ f \in Listed)
            PROVE  (mpc' = "greet" => hand'[1] \notin Listed) /\ \A s \in Descriptors : peer'[s] = NoClient => peer[s] = NoClient
        BY <4>2, SteadyTypes
      <4>. QED  BY <1>0, <2>4, <4>1, <4>2, AcceptCases
    <3>3. Listed \ {Listener} \subseteq Descriptors
      BY SteadyTypes DEF Listed, Descriptors
    <3>. QED  BY <1>0, <2>1, <2>2, <3>1, <3>2, <3>3, SameBooks
  <2>5. CASE Greet \/ InsertTopic \/ SetTopic
    BY <2>0, <2>1, <2>5, GreetBooks, InsertBooks, SetBooks
  <2>6. ASSUME NEW th \in Threads, RemoveTopic(th) \/ RemoveClose(th) \/ RemoveFromList(th) PROVE Books'
    BY <2>0, <2>1, <2>6, TopicBooks, CloseBooks, FromListBooks
  <2>. QED  BY <1>2, <2>3, <2>4, <2>5, <2>6, BookSteps
<1>. QED  BY <1>1, <1>2

LEMMA BooksInvariant == Spec => [](SteadyInv /\ FreshInv /\ BooksInv)
<1>1. Init => BooksInv
  <2>. SUFFICES ASSUME Init PROVE Books
    BY DEF BooksInv
  <2>1. /\ fds = <<Listener>> /\ metadata = <<NewMetadata(Listener)>>
        /\ wpc = "idle" /\ mpc = "poll" /\ \A topic \in Topics : table[topic] = NoEntry
        /\ \A th \in Threads : removal[th].stage = "none"
    BY DEF Init, NotRemoving
  <2>2. Subs = {}
    BY <2>1 DEF Subs, SubsOf, NewMetadata
  <2>3. ListBooks
    BY <2>1 DEF ListBooks, NewMetadata
  <2>4. TableBooks
    BY <2>1, <2>2 DEF TableBooks, NoEntry, Members, Once
  <2>5. RemovalBooks
    BY <2>1, <2>2 DEF RemovalBooks, Listed
  <2>. QED  BY <2>3, <2>4, <2>5 DEF Books
<1>. QED  BY <1>1, BooksKeep, SteadyInvariant, FreshInvariant, PTL DEF Spec

\* Until a thread used something out of date, client list, hash map and kernel agree
\* whenever neither thread is in the middle of changing them.
THEOREM BooksStayInAgreement == Spec => []BooksAgree
<1>1. SteadyInv /\ BooksInv => BooksAgree
  <2>. SUFFICES ASSUME SteadyInv, Books, Quiet
                PROVE  /\ \A i \in DOMAIN fds : metadata[i].owner = fds[i]
                       /\ \A s \in Listed \ {Listener} : peer[s] # NoClient
                       /\ \A topic \in Topics :
                            LET sockets == CellsOf(table[topic]) IN
                              /\ \A i, j \in DOMAIN sockets : sockets[i] = sockets[j] => i = j
                              /\ {sockets[i] : i \in DOMAIN sockets} =
                                   {fds[i] : i \in {k \in DOMAIN fds : \E j \in DOMAIN metadata[k].topics :
                                                                        metadata[k].topics[j] = topic}}
    BY DEF BooksInv, BooksAgree
  <2>1. \A x \in Subs : ~Cut(x)
    BY DEF Cut, Quiet
  <2>2. ASSUME NEW topic \in Topics
        PROVE  LET sockets == CellsOf(table[topic]) IN
                 /\ \A i, j \in DOMAIN sockets : sockets[i] = sockets[j] => i = j
                 /\ {sockets[i] : i \in DOMAIN sockets} =
                      {fds[i] : i \in {k \in DOMAIN fds : \E j \in DOMAIN metadata[k].topics :
                                                           metadata[k].topics[j] = topic}}
    <3>. DEFINE sockets == CellsOf(table[topic])
                subscribed == {k \in DOMAIN fds : \E j \in DOMAIN metadata[k].topics :
                                                    metadata[k].topics[j] = topic}
    <3>1. /\ DOMAIN sockets = 1..table[topic].len
          /\ \A i \in DOMAIN sockets : sockets[i] = table[topic].cells[i]
      BY BookTypes DEF CellsOf, Entry
    <3>2. \A i, j \in DOMAIN sockets : sockets[i] = sockets[j] => i = j
      BY <3>1 DEF Books, TableBooks, Once
    <3>3. {sockets[i] : i \in DOMAIN sockets} = Members(table[topic])
      BY <3>1 DEF Members
    <3>4. ASSUME NEW s \in Members(table[topic]) PROVE s \in {fds[i] : i \in subscribed}
      <4>1. PICK x \in Subs : x.sock = s /\ x.topic = topic
        BY DEF Books, TableBooks
      <4>2. PICK i \in 1..Len(fds) : \E j \in 1..Len(metadata[i].topics) : x = Sub(fds, metadata, i, j)
        BY BookTypes
      <4>3. DOMAIN fds = 1..Len(fds) /\ DOMAIN metadata[i].topics = 1..Len(metadata[i].topics)
        BY BookTypes
      <4>. QED  BY <4>1, <4>2, <4>3 DEF Sub
    <3>5. ASSUME NEW i \in subscribed PROVE fds[i] \in Members(table[topic])
      <4>1. PICK j \in DOMAIN metadata[i].topics : metadata[i].topics[j] = topic
        OBVIOUS
      <4>2. Sub(fds, metadata, i, j) \in Subs
        BY BookTypes
      <4>3. Sub(fds, metadata, i, j).sock = fds[i] /\ Sub(fds, metadata, i, j).topic = topic
        BY <4>1 DEF Sub
      <4>. QED  BY <2>1, <4>2, <4>3 DEF Books, TableBooks
    <3>. HIDE DEF sockets, subscribed
    <3>6. {sockets[i] : i \in DOMAIN sockets} = {fds[i] : i \in subscribed}
      BY <3>3, <3>4, <3>5
    <3>. QED  BY <3>2, <3>6 DEF sockets, subscribed
  <2>3. \A s \in Listed \ {Listener} : peer[s] # NoClient
    BY DEF Books, RemovalBooks, Quiet
  <2>. QED  BY <2>2, <2>3 DEF Books, ListBooks
<1>. QED  BY <1>1, BooksInvariant, PTL

-------------------------------------------------------------------------------
(* The way of a message *)

\* What is under way, read and in the pool, of clients whose messages are whole, and
\* what has arrived at client c.
Outgoing == UNION {{outbox[c][k] : k \in DOMAIN outbox[c]} : c \in Clients \ broken}
InHand == IF mpc = "hand" /\ hand[2].by \notin broken THEN {hand[2]} ELSE {}
InPool == IF Busy /\ msg.by \notin broken THEN {msg} ELSE {}
Got(c) == {inbox[c][k] : k \in DOMAIN inbox[c]}
Arrived == {m \in UNION {Got(c) : c \in Clients} : m.type = "publish"}

Before(m, l) == m.by = l.by => m.n < l.n

\* A client numbers its messages, and nothing is sent to one that is not greeted or
\* changed on the way.
InboxInv ==
  /\ \A c \in Clients : \A k \in DOMAIN sent[c] : sent[c][k].by = c /\ sent[c][k].n = k
  /\ inbox \in [Clients -> Seq(Received)]
  /\ \A m \in Arrived : m \in Message /\ WasSent(sent, broken, m)
  /\ \A c \in Clients : conn[c] \in {"connected", "failed"} \/ sent[c] # <<>> => inbox[c] # <<>>
  /\ wpc = "send" => msg.type = "publish" /\ widx \in Nat /\ widx # 0 /\ wlen \in Nat
  /\ wpc \in {"insert", "set"} => msg.type = "subscribe"

\* Messages of one client do not overtake each other.
LineInv ==
  /\ \A c \in Clients \ broken : \A j, k \in DOMAIN outbox[c] : j < k => outbox[c][j].n < outbox[c][k].n
  /\ \A m \in InHand \cup InPool \cup Arrived : \A l \in Outgoing : Before(m, l)
  /\ \A m \in InPool \cup Arrived : \A l \in InHand : Before(m, l)
  /\ \A m \in Arrived : \A l \in InPool : Before(m, l) \/ (m = l /\ wpc = "send")

Subscribed(mail, topic) == \E k \in DOMAIN mail : mail[k].type = "subscribe" /\ mail[k].topic = topic

\* Client c asked for the topic, or may have.
AskedFor(c, topic) == sent[c] # <<>> /\ (c \in broken \/ Subscribed(sent[c], topic))

\* The members of an entry asked for its topic.
Asked == \A topic \in Topics : \A s \in Members(table[topic]) : AskedFor(peer[s], topic)

\* Who has not been greeted yet has received nothing.
Unmet == {c \in Clients : conn[c] = "new" \/ c \in Waiting \/ (mpc = "greet" /\ peer[hand[1]] = c)}

Ungreeted == \A c \in Unmet : inbox[c] = <<>>

\* Those the publication has not come to do not have it;
Unsent ==
  wpc = "send" /\ msg.by \notin broken =>
    \A k \in 1..table[msg.topic].len : k >= widx => msg \notin Got(peer[table[msg.topic].cells[k]])

\* if no member left meanwhile, all others do.
Reached ==
  wpc = "send" /\ ~disturbed =>
    /\ wlen = table[msg.topic].len
    /\ \A k \in 1..table[msg.topic].len : k < widx =>
         LET s == table[msg.topic].cells[k] IN
           s = event.from \/ Closed(peer[s]) \/ msg \in Got(peer[s])

FlowInv == ~stale /\ status = "running" => Asked /\ Ungreeted /\ Unsent /\ Reached

\* Message m arrives at client c.
Arrives(c, m) == inbox' = [inbox EXCEPT ![c] = Append(inbox[c], m)]

LEMMA ArrivesAt ==
  ASSUME inbox \in [Clients -> Seq(Received)], NEW c \in Clients, NEW m \in Received, Arrives(c, m)
  PROVE  /\ inbox' \in [Clients -> Seq(Received)]
         /\ inbox'[c] = Append(inbox[c], m) /\ inbox'[c] # <<>>
         /\ \A d \in Clients : d # c => inbox'[d] = inbox[d]
         /\ Len(inbox'[c]) = Len(inbox[c]) + 1 /\ inbox'[c][Len(inbox[c]) + 1] = m
         /\ \A k \in 1..Len(inbox[c]) : inbox'[c][k] = inbox[c][k]
         /\ Got(c)' = Got(c) \cup {m} /\ \A d \in Clients : d # c => Got(d)' = Got(d)
<1>1. inbox[c] \in Seq(Received) /\ Len(inbox[c]) \in Nat
  OBVIOUS
<1>2. inbox'[c] = Append(inbox[c], m) /\ \A d \in Clients : d # c => inbox'[d] = inbox[d]
  BY DEF Arrives
<1>3. /\ inbox'[c] \in Seq(Received) /\ Len(inbox'[c]) = Len(inbox[c]) + 1
      /\ inbox'[c][Len(inbox[c]) + 1] = m
      /\ \A k \in 1..Len(inbox[c]) : inbox'[c][k] = inbox[c][k]
  BY <1>1, <1>2, AppendProperties
<1>4. inbox' \in [Clients -> Seq(Received)]
  BY <1>1, <1>2, <1>3 DEF Arrives
<1>5. Got(c)' = Got(c) \cup {m}
  <2>. DEFINE n == Len(inbox[c])
  <2>1. /\ DOMAIN inbox[c] = 1..n /\ DOMAIN inbox'[c] = 1..(n + 1) /\ n \in Nat
        /\ inbox'[c][n + 1] = m
        /\ \A k \in 1..n : inbox'[c][k] = inbox[c][k]
    BY <1>1, <1>3
  <2>. HIDE DEF n
  <2>2. /\ \A k \in 1..(n + 1) : k = n + 1 \/ k \in 1..n
        /\ n + 1 \in 1..(n + 1) /\ 1..n \subseteq 1..(n + 1)
    BY <2>1
  <2>. QED  BY <2>1, <2>2 DEF Got
<1>6. inbox'[c] # <<>>
  BY <1>1, <1>3
<1>. QED  BY <1>2, <1>3, <1>4, <1>5, <1>6, ZenonT(30) DEF Got

\* What arrives is the receipt, the refusal, or the event's message.
LEMMA InboxSteps ==
  ASSUME SteadyInv, Next
  PROVE  \/ UNCHANGED inbox
         \/ \E c \in Clients :
              \/ Greet /\ c = peer[hand[1]] /\ Arrives(c, Receipt)
              \/ GetReceivers /\ c = peer[event.from] /\ Arrives(c, Refusal)
              \/ /\ SendNext /\ c = peer[table[msg.topic].cells[widx]] /\ ~Closed(c) /\ Arrives(c, msg)
                 /\ table[msg.topic].cells[widx] # event.from
                 /\ table[msg.topic].cells[widx] \in Descriptors
<1>0. /\ peer \in [Descriptors -> Clients \cup {NoClient}]
      /\ Busy => event.from \in Descriptors
  BY SteadyTypes
<1>1. ASSUME NEW s, NEW m, Delivers(s, m)
      PROVE  /\ s \in Descriptors /\ peer[s] \in Clients
             /\ UNCHANGED inbox \/ (~Closed(peer[s]) /\ Arrives(peer[s], m))
  BY <1>0, <1>1 DEF Delivers, Arrives
<1>2. ASSUME NEW c \in Clients, ClientNext(c) PROVE UNCHANGED inbox
  BY <1>2 DEF ClientNext, Connect, Connected, Close, Send, clientFrame
<1>3. CASE MainNext
  <2>1. CASE PollCall \/ PollReturn \/ Examine \/ Test \/ Mark \/ ScanEnd \/ AllRemoved \/ Take \/ Refuse
    BY <2>1 DEF PollCall, PollReturn, Examine, Test, Mark, ScanEnd, AllRemoved, Take, Refuse
  <2>2. CASE Accept \/ Read \/ RemoveMarked
    BY <2>2 DEF Accept, Read, RemoveMarked
  <2>3. CASE Greet
    <3>1. UNCHANGED inbox \/ Delivers(hand[1], Receipt)
      BY <2>3 DEF Greet
    <3>. QED  BY <1>1, <2>3, <3>1
  <2>. QED  BY <1>3, <2>1, <2>2, <2>3 DEF MainNext
<1>4. CASE WorkerNext
  <2>1. CASE FindIndex \/ InsertTopic \/ SetTopic \/ Published \/ RemoveSender \/ Ignore
    BY <2>1 DEF FindIndex, InsertTopic, SetTopic, Published, RemoveSender, Ignore
  <2>2. CASE GetReceivers
    <3>1. UNCHANGED inbox \/ Delivers(event.from, Refusal)
      BY <2>2 DEF GetReceivers
    <3>. QED  BY <1>1, <2>2, <3>1
  <2>3. CASE SendNext
    <3>1. PICK s : s = table[msg.topic].cells[widx]
      OBVIOUS
    <3>2. UNCHANGED inbox \/ (s # event.from /\ Delivers(s, msg))
      BY <2>3, <3>1 DEF SendNext
    <3>. QED  BY <1>1, <2>3, <3>1, <3>2
  <2>. QED  BY <1>4, <2>1, <2>2, <2>3 DEF WorkerNext
<1>5. ASSUME NEW th \in Threads, RemoveNext(th) PROVE UNCHANGED inbox
  BY <1>5 DEF RemoveNext, Search, RemoveTopic, RemoveClose, RemoveFromList
<1>. QED  BY <1>2, <1>3, <1>4, <1>5 DEF Next

\* Only the message of the event arrives, and nothing that has arrived is lost.
LEMMA ArrivedSteps ==
  ASSUME SteadyInv, InboxInv, Next
  PROVE  /\ inbox' \in [Clients -> Seq(Received)]
         /\ \A m \in Arrived' : m \in Arrived \/ (m = msg /\ SendNext)
         /\ \A c \in Clients : (inbox[c] # <<>> => inbox'[c] # <<>>) /\ Got(c) \subseteq Got(c)'
<1>0. inbox \in [Clients -> Seq(Received)] /\ (SendNext => msg \in Message)
  BY SteadyTypes DEF InboxInv, SendNext, SteadyInv, ServerInv, WorkerInv, Busy
<1>1. CASE UNCHANGED inbox
  BY <1>0, <1>1 DEF Arrived, Got
<1>2. ASSUME NEW c \in Clients, NEW m \in Received, Arrives(c, m),
             m \in {Receipt, Refusal} \/ (m = msg /\ SendNext)
      PROVE  /\ inbox' \in [Clients -> Seq(Received)]
             /\ \A l \in Arrived' : l \in Arrived \/ (l = msg /\ SendNext)
             /\ \A d \in Clients : (inbox[d] # <<>> => inbox'[d] # <<>>) /\ Got(d) \subseteq Got(d)'
  <2>1. /\ inbox' \in [Clients -> Seq(Received)]
        /\ inbox'[c] # <<>> /\ \A d \in Clients : d # c => inbox'[d] = inbox[d]
        /\ Got(c)' = Got(c) \cup {m} /\ \A d \in Clients : d # c => Got(d)' = Got(d)
    BY <1>0, <1>2, ArrivesAt
  <2>2. Receipt.type # "publish" /\ Refusal.type # "publish"
    BY DEF Receipt, Refusal
  <2>. QED  BY <1>2, <2>1, <2>2 DEF Arrived
<1>. QED  BY <1>0, <1>1, <1>2, InboxSteps DEF Received

\* How a publication and a subscription begin and go on.
LEMMA HandlingSteps ==
  ASSUME SteadyInv, Next
  PROVE  /\ wpc' = "send" =>
              \/ GetReceivers \/ SendNext
              \/ wpc = "send" /\ UNCHANGED <<place, widx, wlen>> /\ (disturbed => disturbed')
         /\ wpc = "send" => wpc' = "send" \/ place' = <<>>
         /\ wpc' \in {"insert", "set"} =>
              FindIndex \/ (wpc \in {"insert", "set"} /\ UNCHANGED place)
<1>0. wpc # "idle" => place # <<>>
  BY DEF SteadyInv, ServerInv, WorkerInv
<1>1. ASSUME NEW c \in Clients, ClientNext(c) PROVE UNCHANGED <<wpc, place, widx, wlen, disturbed>>
  BY <1>1 DEF ClientNext, Connect, Connected, Close, Send, clientFrame, sharedVars, workerVars
<1>2. CASE MainNext
  <2>1. CASE PollCall \/ PollReturn \/ Examine \/ Test \/ Mark \/ ScanEnd \/ AllRemoved \/ Refuse
    BY <2>1 DEF PollCall, PollReturn, Examine, Test, Mark, ScanEnd, AllRemoved, Refuse, sharedVars, workerVars
  <2>2. CASE Accept \/ Read \/ RemoveMarked \/ Greet
    BY <2>2 DEF Accept, Read, RemoveMarked, Greet, sharedVars, workerVars
  <2>3. CASE Take
    BY <1>0, <2>3 DEF Take, workerVars
  <2>. QED  BY <1>2, <2>1, <2>2, <2>3 DEF MainNext
<1>3. CASE FindIndex
  BY <1>3 DEF FindIndex, sharedVars
<1>4. CASE InsertTopic \/ SetTopic \/ Published \/ RemoveSender \/ Ignore
  BY <1>4 DEF InsertTopic, SetTopic, Published, RemoveSender, Ignore, Done, sharedVars, workerVars
<1>5. CASE GetReceivers
  BY <1>5 DEF GetReceivers, Done, sharedVars, workerVars
<1>6. CASE SendNext
  BY <1>6 DEF SendNext, Done, sharedVars
<1>7. ASSUME NEW th \in Threads, RemoveTopic(th)
      PROVE  /\ UNCHANGED <<widx, wlen>> /\ (disturbed => disturbed')
             /\ UNCHANGED <<wpc, place>> \/ (wpc' = "idle" /\ place' = <<>>)
  <2>1. UNCHANGED <<widx, wlen>>
    BY <1>7 DEF RemoveTopic
  <2>2. UNCHANGED disturbed \/ disturbed' = (disturbed \/ wpc = "send")
    BY <1>7, Zenon DEF RemoveTopic
  <2>3. disturbed => disturbed'
    BY <2>2, Zenon
  <2>4. UNCHANGED <<wpc, place>> \/ (wpc' = "idle" /\ place' = <<>>)
    BY <1>7 DEF RemoveTopic, RemoveFails
  <2>. QED  BY <2>1, <2>3, <2>4
<1>8. ASSUME NEW th \in Threads, RemoveClose(th) \/ RemoveFromList(th)
      PROVE  /\ UNCHANGED <<widx, wlen, disturbed>>
             /\ UNCHANGED <<wpc, place>> \/ (wpc' = "idle" /\ place' = <<>>)
  BY <1>8 DEF RemoveClose, RemoveFromList, sharedVars, workerVars
<1>9. ASSUME NEW th \in Threads, Search(th)
      PROVE  /\ UNCHANGED <<widx, wlen, disturbed>>
             /\ UNCHANGED <<wpc, place>> \/ (wpc' = "idle" /\ place' = <<>>)
  BY <1>9 DEF Search, RemoveFails
<1>. QED  BY <1>1, <1>2, <1>3, <1>4, <1>5, <1>6, <1>7, <1>8, <1>9 DEF Next, WorkerNext, RemoveNext

LEMMA InboxKeeps ==
  ASSUME SteadyInv, InboxInv, [Next]_vars
  PROVE  InboxInv'
<1>0. /\ sent \in [Clients -> Seq(Message)] /\ inbox \in [Clients -> Seq(Received)]
      /\ \A c \in Clients : DOMAIN sent[c] = 1..Len(sent[c]) /\ Len(sent[c]) \in Nat
      /\ (Busy => msg \in Message) /\ (wpc # "idle" => Busy) /\ (Busy => WasSent(sent, broken, msg))
  BY SteadyTypes DEF SteadyInv, ServerInv, KernelInv, WorkerInv, MailInv, InboxInv, Busy
<1>1. CASE UNCHANGED vars
  <2>1. UNCHANGED <<conn, sent, broken, inbox, wpc, place, widx, wlen>>
    BY <1>1 DEF vars, clientVars, workerVars, sharedVars
  <2>2. Arrived' = Arrived /\ msg' = msg
    BY <2>1 DEF Arrived, Got, msg, event
  <2>. QED  BY <2>1, <2>2 DEF InboxInv, WasSent
<1>2. CASE Next
  <2>1. \A c \in Clients : \A k \in DOMAIN sent'[c] : sent'[c][k].by = c /\ sent'[c][k].n = k
    <3>1. CASE UNCHANGED sent
      BY <3>1 DEF InboxInv
    <3>2. ASSUME NEW d \in Clients, NEW type \in {"subscribe", "publish", "error"}, NEW topic \in Topics,
                 Send(d, type, topic)
          PROVE  \A c \in Clients : \A k \in DOMAIN sent'[c] : sent'[c][k].by = c /\ sent'[c][k].n = k
      <4>. DEFINE m == [type |-> type, topic |-> topic, by |-> d, n |-> Len(sent[d]) + 1]
      <4>1. sent' = [sent EXCEPT ![d] = Append(sent[d], m)] /\ m.by = d /\ m.n = Len(sent[d]) + 1
        BY <3>2 DEF Send
      <4>. HIDE DEF m
      <4>2. ASSUME NEW k \in DOMAIN sent'[d] PROVE sent'[d][k].by = d /\ sent'[d][k].n = k
        <5>1. /\ Len(sent'[d]) = Len(sent[d]) + 1 /\ DOMAIN sent'[d] = 1..(Len(sent[d]) + 1)
              /\ sent'[d] = Append(sent[d], m)
          BY <1>0, <4>1
        <5>2. k \in 1..Len(sent[d]) \/ k = Len(sent[d]) + 1
          BY <1>0, <5>1
        <5>3. CASE k \in 1..Len(sent[d])
          <6>1. sent'[d][k] = sent[d][k] /\ k \in DOMAIN sent[d]
            BY <1>0, <5>1, <5>3
          <6>. QED  BY <6>1 DEF InboxInv
        <5>4. CASE k = Len(sent[d]) + 1
          <6>1. sent'[d][k] = m
            BY <1>0, <5>1, <5>4
          <6>. QED  BY <4>1, <5>4, <6>1
        <5>. QED  BY <5>2, <5>3, <5>4
      <4>3. \A c \in Clients : c # d => sent'[c] = sent[c]
        BY <1>0, <4>1
      <4>. QED  BY <4>2, <4>3 DEF InboxInv
    <3>. QED  BY <1>2, <3>1, <3>2, MailSteps DEF Read
  <2>2. ASSUME NEW m, WasSent(sent, broken, m) PROVE WasSent(sent', broken', m)
    <3>1. broken \subseteq broken' /\ sent \in [Clients -> Seq(Message)]
      BY <1>0, <1>2, BrokenGrows
    <3>2. sent'[m.by] # <<>>
      BY <2>2, <3>1, <1>2, SentGrows DEF WasSent
    <3>. QED  BY <2>2, <1>2, <3>1, <3>2, SentGrows DEF WasSent
  <2>3. /\ inbox' \in [Clients -> Seq(Received)]
        /\ \A m \in Arrived' : m \in Arrived \/ (m = msg /\ wpc = "send")
        /\ \A c \in Clients : inbox[c] # <<>> => inbox'[c] # <<>>
    BY <1>2, ArrivedSteps DEF SendNext
  <2>4. \A m \in Arrived' : m \in Message /\ WasSent(sent', broken', m)
    BY <1>0, <2>2, <2>3 DEF InboxInv
  <2>5. ASSUME NEW c \in Clients, conn'[c] \in {"connected", "failed"} \/ sent'[c] # <<>>
        PROVE  inbox[c] # <<>>
    <3>1. CASE conn'[c] \in {"connected", "failed"}
      <4>1. conn[c] \in {"connected", "failed"} \/ Connected(c)
        <5>1. conn \in [Clients -> {"new", "connecting", "connected", "failed", "closed"}]
          BY DEF SteadyInv, ServerInv, KernelInv
        <5>2. ASSUME NEW d \in Clients, Connect(d) \/ Connected(d) \/ Close(d), conn'[c] # conn[c]
              PROVE  c = d /\ Connected(d)
          BY <3>1, <5>1, <5>2 DEF Connect, Connected, Close
        <5>. QED  BY <1>2, <3>1, <5>2, LinkSteps
      <4>. QED  BY <4>1 DEF InboxInv, Connected
    <3>2. CASE sent'[c] # <<>>
      <4>1. sent[c] # <<>> \/ conn[c] = "connected"
        <5>1. ASSUME NEW d \in Clients, NEW type \in {"subscribe", "publish", "error"}, NEW topic \in Topics,
                     Send(d, type, topic)
              PROVE  sent'[c] = sent[c] \/ conn[c] = "connected"
          BY <1>0, <5>1 DEF Send
        <5>. QED  BY <1>2, <3>2, <5>1, LinkSteps
      <4>. QED  BY <4>1 DEF InboxInv
    <3>. QED  BY <2>5, <3>1, <3>2
  <2>6. wpc' = "send" => msg'.type = "publish" /\ widx' \in Nat \ {0} /\ wlen' \in Nat
    <3>1. CASE GetReceivers
      <4>1. \/ UNCHANGED place /\ msg.type = "publish" /\ widx' = 1 /\ wlen' = table[msg.topic].len
            \/ wpc' # "send"
        BY <3>1 DEF GetReceivers, Done, Handles, workerVars
      <4>2. Busy => table[msg.topic].len \in Nat
        BY <1>0 DEF SteadyInv, ServerInv, TableInv, Entry, Message
      <4>3. Busy
        BY <3>1 DEF GetReceivers, Handles
      <4>. QED  BY <4>1, <4>2, <4>3 DEF msg, event
    <3>2. CASE SendNext
      <4>1. UNCHANGED <<place, wlen>> /\ wpc = "send" /\ widx' = widx + 1
        BY <3>2 DEF SendNext, sharedVars
      <4>. QED  BY <4>1 DEF InboxInv, msg, event
    <3>3. CASE wpc = "send" /\ UNCHANGED <<place, widx, wlen>>
      BY <3>3 DEF InboxInv, msg, event
    <3>. QED  BY <1>2, <3>1, <3>2, <3>3, HandlingSteps
  <2>7. wpc' \in {"insert", "set"} => msg'.type = "subscribe"
    <3>1. CASE FindIndex
      BY <3>1 DEF FindIndex, Handles, sharedVars, msg, event
    <3>2. CASE wpc \in {"insert", "set"} /\ UNCHANGED place
      BY <3>2 DEF InboxInv, msg, event
    <3>. QED  BY <1>2, <3>1, <3>2, HandlingSteps
  <2>. QED  BY <2>1, <2>3, <2>4, <2>5, <2>6, <2>7 DEF InboxInv
<1>. QED  BY <1>1, <1>2

\* The dispatcher reads the first message of a client, or cuts its messages.
LEMMA ReadCases ==
  ASSUME SteadyInv, Read
  PROVE  \/ UNCHANGED <<outbox, broken>> /\ mpc' # "hand"
         \/ \E c \in Clients :
              /\ \A d \in Clients : d # c => outbox'[d] = outbox[d]
              /\ mpc' = "hand" => hand'[2].by = c
              /\ c \notin broken' =>
                   \E j \in {0, 1} :
                     /\ \A k \in DOMAIN outbox'[c] : /\ k \in Nat \ {0} /\ k + j \in DOMAIN outbox[c]
                                                     /\ outbox'[c][k] = outbox[c][k + j]
                     /\ mpc' = "hand" => j = 1 /\ 1 \in DOMAIN outbox[c] /\ hand'[2] = outbox[c][1]
<1>1. /\ outbox \in [Clients -> Seq(Message)] /\ \A c \in Clients : outbox[c] \in Seq(Message)
      /\ KernelInv /\ \A c \in Clients : Senders(outbox[c]) \subseteq {c}
  BY DEF SteadyInv, ServerInv, KernelInv, MailInv, Senders
<1>2. CASE RecvFails
  <2>1. UNCHANGED <<outbox, broken, mpc>> /\ mpc = "read"
    BY <1>2 DEF RecvFails, Read
  <2>. QED  BY <2>1
<1>3. ASSUME NEW c \in Clients, NEW q \in Seq(Message), Reads(c, q)
      PROVE  /\ \A d \in Clients : d # c => outbox'[d] = outbox[d]
             /\ mpc' = "hand" => hand'[2].by = c
             /\ c \notin broken' =>
                  \E j \in {0, 1} :
                    /\ \A k \in DOMAIN outbox'[c] : /\ k \in Nat \ {0} /\ k + j \in DOMAIN outbox[c]
                                                    /\ outbox'[c][k] = outbox[c][k + j]
                    /\ mpc' = "hand" => j = 1 /\ 1 \in DOMAIN outbox[c] /\ hand'[2] = outbox[c][1]
  <2>1. PICK p \in Seq(Message) : p = outbox[c]
    BY <1>1
  <2>2. outbox' = [outbox EXCEPT ![c] = q] /\ (c \in broken' \/ q = p \/ (p # <<>> /\ q = Tail(p)))
    BY <1>3, <2>1, Zenon DEF Reads
  <2>3. outbox'[c] = q /\ \A d \in Clients : d # c => outbox'[d] = outbox[d]
    BY <1>1, <2>2
  <2>4. ASSUME mpc' = "hand"
        PROVE  \E m \in Message : /\ hand' = <<fds[slot], m>> /\ m.by \in Senders(p) /\ p # <<>>
                                  /\ c \in broken' \/ (m = Head(p) /\ q = Tail(p))
    <3>1. mpc = "read"
      BY DEF Read
    <3>2. \/ status' = "undefined" /\ c \in broken' /\ UNCHANGED <<hand, mpc>>
          \/ NoMessages
          \/ p # <<>> /\ \E m \in Message : /\ HandOver(m) /\ m.by \in Senders(p)
                                            /\ c \in broken' \/ (m = Head(p) /\ q = Tail(p))
      BY <1>3, <2>1, Zenon DEF Reads
    <3>. QED  BY <2>4, <3>1, <3>2 DEF NoMessages, HandOver
  <2>5. mpc' = "hand" => hand'[2].by = c
    BY <1>1, <2>1, <2>4
  <2>6. p # <<>> => /\ 1 \in DOMAIN p /\ Head(p) = p[1]
                    /\ \A k \in DOMAIN Tail(p) : /\ k \in Nat \ {0} /\ k + 1 \in DOMAIN p
                                                 /\ Tail(p)[k] = p[k + 1]
    BY HeadTailProperties
  <2>7. ASSUME c \notin broken'
        PROVE  \E j \in {0, 1} :
                 /\ \A k \in DOMAIN q : k \in Nat \ {0} /\ k + j \in DOMAIN p /\ q[k] = p[k + j]
                 /\ mpc' = "hand" => j = 1 /\ 1 \in DOMAIN p /\ hand'[2] = p[1]
    <3>1. CASE p # <<>> /\ q = Tail(p)
      <4>1. mpc' = "hand" => hand'[2] = p[1]
        BY <2>4, <2>6, <2>7
      <4>. QED  BY <2>6, <3>1, <4>1
    <3>2. CASE q = p /\ mpc' # "hand"
      <4>1. \A k \in DOMAIN p : k \in Nat \ {0} /\ k + 0 = k
        OBVIOUS
      <4>. QED  BY <3>2, <4>1
    <3>. QED  BY <2>2, <2>4, <2>7, <3>1, <3>2
  <2>. QED  BY <2>1, <2>3, <2>5, <2>7
<1>. QED  BY <1>1, <1>2, <1>3, ReadTakes

LEMMA LineKeeps ==
  ASSUME SteadyInv, InboxInv, LineInv, [Next]_vars
  PROVE  LineInv'
<1>0. /\ sent \in [Clients -> Seq(Message)] /\ outbox \in [Clients -> Seq(Message)]
      /\ \A c \in Clients : /\ DOMAIN outbox[c] = 1..Len(outbox[c]) /\ Len(outbox[c]) \in Nat
                            /\ DOMAIN sent[c] = 1..Len(sent[c]) /\ Len(sent[c]) \in Nat
                            /\ outbox[c] \in Seq(Message)
      /\ wpc # "idle" => place # <<>>
      /\ broken \subseteq broken'
  BY BrokenGrows DEF SteadyInv, ServerInv, KernelInv, WorkerInv
<1>1. ASSUME NEW m, m \in InHand \cup InPool \cup Arrived \cup Outgoing, m.by \notin broken
      PROVE  WasSent(sent, broken, m) /\ m.n \in Nat /\ m.n <= Len(sent[m.by])
  <2>1. WasSent(sent, broken, m)
    BY <1>1 DEF InHand, InPool, Outgoing, Busy, InboxInv, SteadyInv, MailInv
  <2>2. PICK k \in DOMAIN sent[m.by] : sent[m.by][k] = m /\ m.by \in Clients
    BY <1>1, <2>1 DEF WasSent
  <2>3. m.n = k
    BY <2>2 DEF InboxInv
  <2>. QED  BY <1>0, <2>1, <2>2, <2>3
<1>2. ASSUME \A d \in Clients \ broken' : outbox'[d] = outbox[d], InHand' \subseteq InHand, InPool' \subseteq InPool,
             \A m \in Arrived' : m \in Arrived \/ (m \in InPool' /\ wpc' = "send") \/ m.by \in broken,
             wpc = "send" => wpc' = "send" \/ InPool' = {}
      PROVE  LineInv'
  <2>1. Outgoing' \subseteq Outgoing
    BY <1>0, <1>2 DEF Outgoing
  <2>2. \A m, l \in InPool : m = l
    BY DEF InPool
  <2>3. \A c \in Clients \ broken' : \A j, k \in DOMAIN outbox'[c] : j < k => outbox'[c][j].n < outbox'[c][k].n
    BY <1>0, <1>2 DEF LineInv
  <2>4. \A l \in Outgoing \cup InHand \cup InPool : l.by \notin broken
    BY DEF Outgoing, InHand, InPool, SteadyInv, MailInv
  <2>5. \A m : m.by \in broken => \A l \in Outgoing \cup InHand \cup InPool : Before(m, l)
    BY <2>4 DEF Before
  <2>. QED  BY <1>2, <2>1, <2>2, <2>3, <2>5 DEF LineInv
<1>3. ASSUME NEW c \in Clients, NEW topic \in Topics, NEW type \in {"subscribe", "publish", "error"},
             Send(c, type, topic)
      PROVE  LineInv'
  <2>0. UNCHANGED <<mpc, hand, place, inbox, wpc, broken>>
    BY <1>3 DEF Send, clientFrame, mainVars, sharedVars, workerVars
  <2>1. InHand' = InHand /\ InPool' = InPool /\ Arrived' = Arrived
    BY <2>0 DEF InHand, InPool, Busy, msg, event, Arrived, Got
  <2>2. PICK m : m = [type |-> type, topic |-> topic, by |-> c, n |-> Len(sent[c]) + 1]
    OBVIOUS
  <2>3. outbox' = [outbox EXCEPT ![c] = Append(outbox[c], m)] /\ m.by = c /\ m.n = Len(sent[c]) + 1
    BY <1>3, <2>2 DEF Send
  <2>4. /\ outbox'[c] = Append(outbox[c], m)
        /\ \A d \in Clients : d # c => outbox'[d] = outbox[d]
    BY <1>0, <2>3
  <2>5. /\ DOMAIN outbox'[c] = 1..(Len(outbox[c]) + 1)
        /\ outbox'[c][Len(outbox[c]) + 1] = m
        /\ \A k \in 1..Len(outbox[c]) : outbox'[c][k] = outbox[c][k]
    BY <1>0, <2>4
  <2>6. \A l \in Outgoing' : l \in Outgoing \/ l = m
    <3>1. ASSUME NEW d \in Clients \ broken, NEW k \in DOMAIN outbox'[d]
          PROVE  outbox'[d][k] \in Outgoing \/ outbox'[d][k] = m
      <4>1. CASE d = c
        <5>1. k = Len(outbox[c]) + 1 \/ k \in 1..Len(outbox[c])
          BY <1>0, <2>5, <3>1, <4>1
        <5>2. outbox'[c][k] = m \/ (k \in DOMAIN outbox[c] /\ outbox'[c][k] = outbox[c][k])
          BY <1>0, <2>5, <5>1
        <5>. QED  BY <4>1, <5>2 DEF Outgoing
      <4>2. CASE d # c
        BY <2>4, <3>1, <4>2 DEF Outgoing
      <4>. QED  BY <4>1, <4>2
    <3>. QED  BY <2>0, <3>1 DEF Outgoing
  <2>7. ASSUME NEW l \in InHand \cup InPool \cup Arrived \cup Outgoing, l.by = c, c \notin broken
        PROVE  l.n < m.n
    BY <1>0, <1>1, <2>3, <2>7
  <2>8. c \notin broken => \A l \in InHand \cup InPool \cup Arrived : Before(l, m)
    BY <2>3, <2>7 DEF Before
  <2>9. ASSUME NEW d \in Clients \ broken, NEW j \in DOMAIN outbox'[d], NEW k \in DOMAIN outbox'[d], j < k
        PROVE  outbox'[d][j].n < outbox'[d][k].n
    <3>1. CASE d = c
      <4>1. j \in DOMAIN outbox[c] /\ (k \in DOMAIN outbox[c] \/ k = Len(outbox[c]) + 1)
        BY <1>0, <2>5, <2>9, <3>1
      <4>2. CASE k \in DOMAIN outbox[c]
        <5>1. outbox[c][j].n < outbox[c][k].n
          BY <2>9, <3>1, <4>1, <4>2 DEF LineInv
        <5>. QED  BY <1>0, <2>5, <3>1, <4>1, <4>2, <5>1
      <4>3. CASE k = Len(outbox[c]) + 1
        <5>1. outbox[c][j] \in Outgoing /\ outbox[c][j].by = c
          BY <2>9, <3>1, <4>1 DEF Outgoing, SteadyInv, MailInv
        <5>. QED  BY <1>0, <2>5, <2>7, <2>9, <3>1, <4>1, <4>3, <5>1
      <4>. QED  BY <4>1, <4>2, <4>3
    <3>2. CASE d # c
      BY <2>4, <2>9, <3>2 DEF LineInv
    <3>. QED  BY <3>1, <3>2
  <2>10. c \in broken => m \notin Outgoing'
    BY <2>0, <2>3, <1>0 DEF Outgoing, SteadyInv, MailInv
  <2>. QED  BY <2>0, <2>1, <2>6, <2>8, <2>9, <2>10 DEF LineInv
<1>4. CASE Read
  <2>0. UNCHANGED <<place, inbox, wpc>> /\ mpc = "read"
    BY <1>4 DEF Read, sharedVars, workerVars
  <2>1. InHand = {} /\ InPool' \subseteq InPool /\ Arrived' = Arrived
    BY <1>0, <2>0 DEF InHand, InPool, Busy, msg, event, Arrived, Got
  <2>2. CASE UNCHANGED <<outbox, broken>> /\ mpc' # "hand"
    <3>1. InHand' = {}
      BY <2>2 DEF InHand
    <3>. QED  BY <1>2, <2>0, <2>1, <2>2, <3>1
  <2>3. ASSUME NEW c \in Clients, c \in broken', mpc' = "hand" => hand'[2].by = c,
               \A d \in Clients : d # c => outbox'[d] = outbox[d]
        PROVE  LineInv'
    <3>1. InHand' = {}
      BY <2>3 DEF InHand
    <3>2. \A d \in Clients \ broken' : outbox'[d] = outbox[d]
      BY <2>3
    <3>. QED  BY <1>2, <2>0, <2>1, <3>1, <3>2
  <2>4. ASSUME NEW c \in Clients, c \notin broken', NEW i \in {0, 1},
               mpc' = "hand" => i = 1 /\ 1 \in DOMAIN outbox[c] /\ hand'[2] = outbox[c][1],
               \A k \in DOMAIN outbox'[c] : /\ k \in Nat \ {0} /\ k + i \in DOMAIN outbox[c]
                                             /\ outbox'[c][k] = outbox[c][k + i],
               \A d \in Clients : d # c => outbox'[d] = outbox[d]
        PROVE  LineInv'
    <3>0. c \notin broken
      BY <1>0, <2>4
    <3>1. Outgoing' \subseteq Outgoing
      <4>1. ASSUME NEW d \in Clients \ broken', NEW k \in DOMAIN outbox'[d] PROVE outbox'[d][k] \in Outgoing
        <5>1. \E l \in DOMAIN outbox[d] : outbox'[d][k] = outbox[d][l]
          BY <2>4, <4>1
        <5>. QED  BY <1>0, <4>1, <5>1 DEF Outgoing
      <4>. QED  BY <4>1 DEF Outgoing
    <3>2. ASSUME NEW m \in InHand' PROVE m \in Outgoing /\ \A l \in Outgoing' : Before(m, l)
      <4>1. i = 1 /\ 1 \in DOMAIN outbox[c] /\ m = outbox[c][1]
        BY <2>4, <3>2 DEF InHand
      <4>2. m.by = c /\ \A d \in Clients : \A k \in DOMAIN outbox[d] : outbox[d][k].by = d
        BY <4>1 DEF SteadyInv, MailInv
      <4>3. ASSUME NEW k \in DOMAIN outbox'[c] PROVE m.n < outbox'[c][k].n
        <5>1. 1 < k + 1 /\ k + 1 \in DOMAIN outbox[c] /\ outbox'[c][k] = outbox[c][k + 1]
          BY <2>4, <4>1
        <5>2. outbox[c][1].n < outbox[c][k + 1].n
          BY <3>0, <4>1, <5>1 DEF LineInv
        <5>. QED  BY <4>1, <5>1, <5>2
      <4>4. ASSUME NEW d \in Clients, d # c, NEW k \in DOMAIN outbox'[d] PROVE Before(m, outbox'[d][k])
        BY <2>4, <4>2, <4>4 DEF Before
      <4>5. m \in Outgoing
        BY <3>0, <4>1 DEF Outgoing
      <4>. QED  BY <4>3, <4>4, <4>5 DEF Outgoing, Before
    <3>3. ASSUME NEW d \in Clients \ broken', NEW j \in DOMAIN outbox'[d], NEW k \in DOMAIN outbox'[d], j < k
          PROVE  outbox'[d][j].n < outbox'[d][k].n
      <4>0. d \notin broken
        BY <1>0, <3>3
      <4>1. CASE d = c
        <5>1. /\ j + i < k + i /\ j + i \in DOMAIN outbox[c] /\ k + i \in DOMAIN outbox[c]
              /\ outbox'[c][j] = outbox[c][j + i] /\ outbox'[c][k] = outbox[c][k + i]
          BY <2>4, <3>3, <4>1
        <5>2. outbox[c][j + i].n < outbox[c][k + i].n
          BY <3>0, <5>1 DEF LineInv
        <5>. QED  BY <4>1, <5>1, <5>2
      <4>2. CASE d # c
        BY <2>4, <3>3, <4>0, <4>2 DEF LineInv
      <4>. QED  BY <4>1, <4>2
    <3>4. \A m, l \in InPool : m = l
      BY DEF InPool
    <3>. QED  BY <2>0, <2>1, <3>1, <3>2, <3>3, <3>4 DEF LineInv
  <2>. QED  BY <1>4, <2>2, <2>3, <2>4, ReadCases
<1>5. CASE Take
  <2>0. UNCHANGED <<outbox, broken, inbox, wpc>> /\ mpc = "hand" /\ mpc' = "scan" /\ place = <<>> /\ wpc = "idle"
    BY <1>0, <1>5 DEF Take, clientVars, workerVars
  <2>1. InHand' = {} /\ InPool = {} /\ Arrived' = Arrived /\ Outgoing' = Outgoing
    BY <2>0 DEF InHand, InPool, Busy, Arrived, Got, Outgoing
  <2>2. InPool' = InHand
    BY <1>5, <2>0 DEF Take, InPool, InHand, Busy, msg, event
  <2>. QED  BY <2>0, <2>1, <2>2 DEF LineInv
<1>6. CASE UNCHANGED vars
  <2>1. UNCHANGED <<outbox, broken, mpc, hand, place, inbox, wpc>>
    BY <1>6 DEF vars, clientVars, mainVars, sharedVars, workerVars
  <2>2. InHand' = InHand /\ InPool' = InPool /\ Arrived' = Arrived
    BY <2>1 DEF InHand, InPool, Busy, msg, event, Arrived, Got
  <2>. QED  BY <1>2, <2>1, <2>2
<1>7. ASSUME Next, UNCHANGED <<outbox, broken>>, mpc' = "hand" => mpc = "hand" /\ hand' = hand,
             place' # <<>> => place' = place
      PROVE  LineInv'
  <2>1. InHand' \subseteq InHand
    BY <1>7 DEF InHand
  <2>2. InPool' \subseteq InPool
    BY <1>7 DEF InPool, Busy, msg, event
  <2>3. \A m \in Arrived' : m \in Arrived \/ (m \in InPool' /\ wpc' = "send") \/ m.by \in broken
    <3>1. ASSUME SendNext PROVE wpc' = "send" /\ (msg.by \notin broken => InPool' = {msg})
      BY <1>0, <1>7, <3>1 DEF SendNext, sharedVars, InPool, Busy, msg, event
    <3>. QED  BY <1>7, <3>1, ArrivedSteps
  <2>4. wpc = "send" => wpc' = "send" \/ InPool' = {}
    BY <1>7, HandlingSteps DEF InPool, Busy
  <2>. QED  BY <1>2, <1>7, <2>1, <2>2, <2>3, <2>4
<1>. QED  BY <1>3, <1>4, <1>5, <1>6, <1>7, MailSteps

\* A removed socket's place is taken by one from behind it.
LEMMA CutMovesForward ==
  ASSUME NEW entry \in Entry, entry.len <= Len(entry.cells), NEW i \in 1..entry.len
  PROVE  /\ CutOff(entry, i).len = entry.len - 1
         /\ \A k \in 1..(entry.len - 1) : \E j \in k..entry.len : CutOff(entry, i).cells[k] = entry.cells[j]
<1>. DEFINE n == entry.len
            q == entry.cells
            r == CutOff(entry, i).cells
<1>1. /\ n \in Nat /\ i \in 1..n /\ q \in Seq(Descriptors) /\ n <= Len(q) /\ DOMAIN q = 1..Len(q)
      /\ r = [q EXCEPT ![i] = q[n], ![n] = q[i]] /\ CutOff(entry, i).len = n - 1
  BY DEF Entry, CutOff
<1>. HIDE DEF n, q, r
<1>2. ASSUME NEW k \in 1..(n - 1) PROVE \E j \in k..n : r[k] = q[j]
  <2>1. k \in k..n /\ n \in k..n /\ k \in DOMAIN q /\ k # n
    BY <1>1
  <2>2. r[k] = IF k = i THEN q[n] ELSE q[k]
    BY <1>1, <2>1
  <2>. QED  BY <2>1, <2>2
<1>. QED  BY <1>1, <1>2 DEF n, q, r

\* What is left of entry e in entry f: none has moved back.
Shrunk(e, f) == f.len <= e.len /\ \A k \in 1..f.len : \E j \in k..e.len : f.cells[k] = e.cells[j]

\* Only a subscription puts a socket into an entry.
LEMMA TableSteps ==
  ASSUME SteadyInv, Next
  PROVE  \/ SetTopic
         \/ /\ \A topic \in Topics : Shrunk(table[topic], table'[topic])
            /\ UNCHANGED table \/ (wpc = "send" => disturbed')
<1>1. table \in [Topics -> Entry] /\ \A topic \in Topics : table[topic].len <= Len(table[topic].cells)
  BY DEF SteadyInv, ServerInv, TableInv
<1>2. \A topic \in Topics : Shrunk(table[topic], table[topic])
  <2>1. ASSUME NEW e \in Entry PROVE Shrunk(e, e)
    BY <2>1 DEF Shrunk, Entry
  <2>. QED  BY <1>1, <2>1
<1>3. ASSUME NEW th \in Threads, RemoveTopic(th)
      PROVE  /\ \A topic \in Topics : Shrunk(table[topic], table'[topic])
             /\ UNCHANGED table \/ (wpc = "send" => disturbed')
  <2>. DEFINE r == removal[th]
              names == metadata[r.idx].topics
  <2>1. CASE UNCHANGED table
    BY <1>2, <2>1
  <2>2. CASE ~UNCHANGED table
    <3>1. /\ r.idx \in DOMAIN metadata /\ r.next <= Len(names) /\ IndexIn(table[names[r.next]], r.sock) # 0
          /\ table' = [table EXCEPT ![names[r.next]] =
                         CutOff(table[names[r.next]], IndexIn(table[names[r.next]], r.sock))]
      BY <1>3, <2>2, Zenon DEF RemoveTopic
    <3>2. disturbed' = (disturbed \/ wpc = "send")
      BY <1>3, <2>2, Zenon DEF RemoveTopic
    <3>3. names[r.next] \in Topics
      <4>1. metadata \in Seq(Metadata) /\ r \in Removal /\ r.stage # "none"
        BY <1>3, SteadyTypes DEF RemoveTopic, SteadyInv, ServerInv, RemovalInv
      <4>2. metadata[r.idx] \in Metadata /\ r.next \in Nat /\ r.next > 0
        BY <1>3, <3>1, <4>1 DEF Removal, SteadyInv, ServerInv, RemovalInv
      <4>3. names \in Seq(Topics)
        BY <4>2 DEF Metadata
      <4>. HIDE DEF names, r
      <4>4. r.next \in 1..Len(names)
        BY <3>1, <4>2, <4>3
      <4>. QED  BY <4>3, <4>4
    <3>4. PICK topic \in Topics : topic = names[r.next]
      BY <3>3
    <3>. DEFINE i == IndexIn(table[topic], r.sock)
    <3>5. i # 0 /\ table' = [table EXCEPT ![topic] = CutOff(table[topic], i)]
      BY <3>1, <3>4
    <3>6. i \in 1..table[topic].len
      BY <1>1, <3>5, IndexInFinds
    <3>. HIDE DEF i
    <3>7. Shrunk(table[topic], CutOff(table[topic], i))
      <4>1. table[topic] \in Entry /\ table[topic].len \in Nat
        BY <1>1 DEF Entry
      <4>2. \A k \in 1..(table[topic].len - 1) :
              \E j \in k..table[topic].len : CutOff(table[topic], i).cells[k] = table[topic].cells[j]
        BY <1>1, <3>6, <4>1, CutMovesForward
      <4>3. CutOff(table[topic], i).len = table[topic].len - 1
        BY DEF CutOff
      <4>. QED  BY <4>1, <4>2, <4>3 DEF Shrunk
    <3>8. wpc = "send" => disturbed'
      BY <3>2, Zenon
    <3>. QED  BY <1>1, <1>2, <3>5, <3>7, <3>8
  <2>. QED  BY <2>1, <2>2
<1>4. ASSUME NEW c \in Clients, ClientNext(c) PROVE UNCHANGED table
  BY <1>4 DEF ClientNext, Connect, Connected, Close, Send, clientFrame, sharedVars
<1>5. ASSUME MainNext PROVE UNCHANGED table
  <2>1. CASE PollCall \/ PollReturn \/ Examine \/ Test \/ Mark \/ ScanEnd \/ AllRemoved \/ Refuse \/ Take
    BY <2>1 DEF PollCall, PollReturn, Examine, Test, Mark, ScanEnd, AllRemoved, Refuse, Take, sharedVars
  <2>2. CASE Accept \/ Read \/ RemoveMarked \/ Greet
    BY <2>2 DEF Accept, Read, RemoveMarked, Greet, sharedVars
  <2>. QED  BY <1>5, <2>1, <2>2 DEF MainNext
<1>6. ASSUME WorkerNext PROVE UNCHANGED table \/ SetTopic
  BY <1>6 DEF WorkerNext, FindIndex, InsertTopic, GetReceivers, SendNext, Published, RemoveSender, Ignore, Done,
                    sharedVars
<1>7. ASSUME NEW th \in Threads, Search(th) \/ RemoveClose(th) \/ RemoveFromList(th) PROVE UNCHANGED table
  BY <1>7 DEF Search, RemoveClose, RemoveFromList, sharedVars
<1>8. UNCHANGED table \/ SetTopic \/ \E th \in Threads : RemoveTopic(th)
  BY <1>4, <1>5, <1>6, <1>7 DEF Next, RemoveNext
<1>. QED  BY <1>2, <1>3, <1>8

\* A socket in an entry is listed, open, and not about to be closed.
LEMMA MembersOpen ==
  ASSUME SteadyInv, Books, NEW topic \in Topics, NEW s \in Members(table[topic])
  PROVE  /\ s \in Descriptors /\ s \in Listed /\ peer[s] \in Clients
         /\ \A th \in Threads : removal[th].stage \in {"close", "list"} => removal[th].sock # s
<1>1. s \in Descriptors
  <2>1. table[topic] \in Entry /\ table[topic].len <= Len(table[topic].cells)
    BY BookTypes
  <2>. QED  BY <2>1 DEF Members, Entry
<1>2. PICK x \in Subs : x.sock = s /\ x.topic = topic
  BY DEF Books, TableBooks
<1>3. ~Cut(x) /\ s \in Listed
  BY <1>2, BookTypes DEF Books, TableBooks
<1>4. ASSUME NEW th \in Threads, removal[th].stage \in {"close", "list"} PROVE removal[th].sock # s
  <2>1. removal[th].sock = s => x.at < removal[th].next
    BY <1>2, <1>4 DEF Books, RemovalBooks
  <2>. QED  BY <1>2, <1>3, <1>4, <2>1 DEF Cut
<1>5. peer[s] # NoClient
  BY <1>1, <1>3, <1>4 DEF Books, RemovalBooks, Descriptors
<1>. QED  BY <1>1, <1>3, <1>4, <1>5, SteadyTypes

\* Until something is stale, it keeps its client.
LEMMA MembersStay ==
  ASSUME SteadyInv, Books, Next, ~stale', NEW topic \in Topics, NEW s \in Members(table[topic])
  PROVE  peer'[s] = peer[s]
<1>1. /\ s \in Descriptors /\ s \in Listed /\ peer \in [Descriptors -> Clients \cup {NoClient}] /\ KernelInv
      /\ \A th \in Threads : removal[th].stage \in {"close", "list"} => removal[th].sock # s
  BY MembersOpen, SteadyTypes DEF SteadyInv, ServerInv
<1>2. CASE Accept
  <2>1. ASSUME NEW f \in Descriptors, peer' = [peer EXCEPT ![f] = pending[1]], stale' = (stale \/ f \in Listed)
        PROVE  peer'[s] = peer[s]
    BY <1>1, <2>1
  <2>. QED  BY <1>1, <1>2, <2>1, AcceptCases
<1>3. ASSUME NEW th \in Threads, RemoveClose(th) PROVE peer'[s] = peer[s]
  BY <1>1, <1>3 DEF RemoveClose
<1>. QED  BY <1>2, <1>3, LinkSteps

\* Nobody who was greeted becomes one who was not.
LEMMA UnmetSteps ==
  ASSUME SteadyInv, Next
  PROVE  Unmet' \subseteq Unmet /\ (Greet => peer[hand[1]] \notin Unmet')
<1>0. /\ peer \in [Descriptors -> Clients \cup {NoClient}] /\ pending \in Seq(Clients) /\ KernelInv
      /\ conn \in [Clients -> {"new", "connecting", "connected", "failed", "closed"}]
      /\ LinkInv /\ NoClient \notin Clients /\ (mpc = "greet" => hand[1] \in Descriptors)
  BY SteadyTypes DEF SteadyInv, ServerInv, KernelInv, MainInv
<1>1. CASE Greet
  <2>1. UNCHANGED <<conn, pending, peer>> /\ mpc' = "scan" /\ mpc = "greet"
    BY <1>1 DEF Greet, clientVars
  <2>2. Unmet' \subseteq {c \in Clients : conn[c] = "new" \/ c \in Waiting}
    BY <2>1 DEF Unmet, Waiting
  <2>3. peer[hand[1]] \notin {c \in Clients : conn[c] = "new" \/ c \in Waiting}
    BY <1>0, <2>1 DEF LinkInv
  <2>. QED  BY <2>2, <2>3 DEF Unmet
<1>2. ASSUME Accept PROVE Unmet' \subseteq Unmet
  <2>1. CASE mpc' = "scan" /\ UNCHANGED <<pending, peer>>
    BY <1>2, <2>1 DEF Accept, Unmet, Waiting
  <2>2. ASSUME NEW f \in Descriptors, peer' = [peer EXCEPT ![f] = pending[1]], pending[1] \in Clients,
               1 \in DOMAIN pending, hand' = <<f>>, mpc' = "greet",
               \A i \in DOMAIN pending' : i + 1 \in DOMAIN pending /\ pending'[i] = pending[i + 1]
        PROVE  Unmet' \subseteq Unmet
    <3>1. Waiting' \subseteq Waiting /\ pending[1] \in Waiting
      BY <2>2 DEF Waiting
    <3>2. peer'[hand'[1]] = pending[1] /\ UNCHANGED conn
      BY <1>0, <1>2, <2>2 DEF Accept
    <3>. QED  BY <3>1, <3>2 DEF Unmet
  <2>3. KernelInv /\ Accept
    BY <1>0, <1>2
  <2>. QED  BY <2>1, <2>2, <2>3, AcceptCases
<1>3. ASSUME ~Accept, ~Greet
      PROVE  mpc' = "greet" => mpc = "greet" /\ hand' = hand
  <2>1. ASSUME NEW c \in Clients, ClientNext(c) PROVE UNCHANGED <<mpc, hand>>
    BY <2>1 DEF ClientNext, Connect, Connected, Close, Send, clientFrame, mainVars
  <2>2. CASE PollCall \/ PollReturn \/ Examine \/ Test \/ Mark \/ ScanEnd \/ AllRemoved \/ Refuse \/ Take
    BY <2>2 DEF PollCall, PollReturn, Examine, Test, Mark, ScanEnd, AllRemoved, Refuse, Take
  <2>6. CASE Read
    BY <2>6 DEF Read, RecvFails, ReadOne, ReadPart, ReadAstray, ReadNothing, HandOver, NoMessages
  <2>3. CASE RemoveMarked
    BY <2>3 DEF RemoveMarked, mainVars
  <2>4. CASE WorkerNext
    BY <2>4 DEF WorkerNext, FindIndex, InsertTopic, SetTopic, GetReceivers, SendNext, Published, RemoveSender,
                Ignore, mainVars
  <2>5. ASSUME NEW th \in Threads, RemoveNext(th) PROVE UNCHANGED <<mpc, hand>>
    BY <2>5 DEF RemoveNext, Search, RemoveTopic, RemoveClose, RemoveFromList, mainVars
  <2>. QED  BY <1>3, <2>1, <2>2, <2>3, <2>4, <2>5, <2>6 DEF Next, MainNext
<1>4. ASSUME ~Accept, ~Greet PROVE Unmet' \subseteq Unmet
  <2>1. mpc' = "greet" => mpc = "greet" /\ hand' = hand
    BY <1>3, <1>4
  <2>2. CASE UNCHANGED <<conn, pending, peer>>
    BY <2>1, <2>2 DEF Unmet, Waiting
  <2>3. ASSUME NEW c \in Clients, Connect(c), UNCHANGED peer PROVE Unmet' \subseteq Unmet
    <3>1. /\ conn[c] = "new" /\ pending' = Append(pending, c)
          /\ \A d \in Clients : conn'[d] = "new" => conn[d] = "new"
      BY <1>0, <2>3 DEF Connect
    <3>2. \A d \in Waiting' : d \in Waiting \/ d = c
      <4>1. \A i \in DOMAIN pending' : pending'[i] = c \/ (i \in DOMAIN pending /\ pending'[i] = pending[i])
        BY <1>0, <3>1
      <4>. QED  BY <4>1 DEF Waiting
    <3>. QED  BY <2>1, <2>3, <3>1, <3>2 DEF Unmet
  <2>4. ASSUME NEW c \in Clients, Connected(c) \/ Close(c), UNCHANGED <<pending, peer>> PROVE Unmet' \subseteq Unmet
    <3>1. \A d \in Clients : conn'[d] = "new" => conn[d] = "new"
      BY <1>0, <2>4 DEF Connected, Close
    <3>. QED  BY <2>1, <2>4, <3>1 DEF Unmet, Waiting
  <2>5. ASSUME NEW th \in Threads, RemoveClose(th), UNCHANGED <<conn, pending>> PROVE Unmet' \subseteq Unmet
    <3>1. \A s \in Descriptors : peer'[s] = peer[s] \/ peer'[s] = NoClient
      BY <1>0, <2>5 DEF RemoveClose
    <3>. QED  BY <1>0, <2>1, <2>5, <3>1 DEF Unmet, Waiting
  <2>. QED  BY <1>4, <2>2, <2>3, <2>4, <2>5, LinkSteps
<1>5. ~(Accept /\ Greet)
  BY DEF Accept, Greet
<1>. QED  BY <1>1, <1>2, <1>4, <1>5


\* What is left of an entry has no new members.
LEMMA ShrunkMembers ==
  ASSUME NEW e \in Entry, NEW f \in Entry, Shrunk(e, f)
  PROVE  Members(f) \subseteq Members(e)
<1>1. ASSUME NEW k \in 1..f.len PROVE \E j \in 1..e.len : f.cells[k] = e.cells[j]
  <2>1. PICK j \in k..e.len : f.cells[k] = e.cells[j]
    BY DEF Shrunk
  <2>2. j \in 1..e.len
    BY DEF Entry
  <2>. QED  BY <2>1, <2>2
<1>. QED  BY <1>1 DEF Members

LEMMA AskedKeeps ==
  ASSUME SteadyInv, FreshInv, ~stale, Books, InboxInv, Asked, Next, ~stale'
  PROVE  Asked'
<1>1. ASSUME NEW c \in Clients, NEW topic, AskedFor(c, topic) PROVE AskedFor(c, topic)'
  <2>1. sent'[c] # <<>> /\ (Subscribed(sent[c], topic) => Subscribed(sent'[c], topic))
    <3>1. sent \in [Clients -> Seq(Message)]
      BY DEF SteadyInv, ServerInv, KernelInv
    <3>. QED  BY <1>1, <3>1, SentGrows DEF AskedFor, Subscribed
  <2>. QED  BY <1>1, <2>1, BrokenGrows DEF AskedFor
<1>2. \A topic \in Topics : \A s \in Members(table[topic]) : peer[s] \in Clients /\ peer'[s] = peer[s]
  BY MembersOpen, MembersStay
<1>3. table \in [Topics -> Entry] /\ table' \in [Topics -> Entry]
  BY ServerKeeps DEF SteadyInv, ServerInv, TableInv
<1>4. ASSUME NEW topic \in Topics, NEW s \in Members(table[topic])
      PROVE  AskedFor(peer[s], topic)'
  <2>1. PICK c \in Clients : c = peer[s] /\ c = peer'[s]
    BY <1>2
  <2>2. AskedFor(c, topic)
    BY <2>1 DEF Asked
  <2>3. AskedFor(c, topic)'
    BY <1>1, <2>2
  <2>. QED  BY <2>1, <2>3 DEF AskedFor
<1>5. CASE SetTopic
  <2>1. PICK y \in Subs :
          /\ y.sock = event.from /\ y.topic = msg.topic
          /\ \A t \in Topics : t # y.topic => table'[t] = table[t]
          /\ Members(table'[y.topic]) = Members(table[y.topic]) \cup {y.sock}
    BY <1>5, SetMembers
  <2>2. wpc = "set" /\ Busy /\ ~Departed /\ UNCHANGED <<peer, sent, broken>>
    BY <1>5 DEF SetTopic, clientVars, SteadyInv, ServerInv, WorkerInv, Busy
  <2>3. PICK c \in Clients : c = msg.by /\ sent[c] # <<>> /\ (c \in broken \/ \E k \in DOMAIN sent[c] : sent[c][k] = msg)
    BY <2>2 DEF SteadyInv, MailInv, WasSent, Busy
  <2>4. msg.type = "subscribe"
    BY <2>2 DEF InboxInv
  <2>5. peer[y.sock] = c /\ AskedFor(c, y.topic)
    BY <2>1, <2>2, <2>3, <2>4 DEF Departed, Subscribed, AskedFor
  <2>6. AskedFor(peer[y.sock], y.topic)'
    BY <2>2, <2>5 DEF AskedFor
  <2>7. \A topic \in Topics : \A s \in Members(table'[topic]) :
          s \in Members(table[topic]) \/ (s = y.sock /\ topic = y.topic)
    BY <2>1
  <2>. QED  BY <1>4, <2>6, <2>7 DEF Asked, AskedFor
<1>6. CASE \A topic \in Topics : Shrunk(table[topic], table'[topic])
  <2>1. \A topic \in Topics : Members(table'[topic]) \subseteq Members(table[topic])
    BY <1>3, <1>6, ShrunkMembers
  <2>. QED  BY <1>4, <2>1 DEF Asked, AskedFor
<1>. QED  BY <1>5, <1>6, TableSteps

\* The receiver a publication comes to next.
LEMMA NextReceiver ==
  ASSUME SteadyInv, Books, InboxInv, Asked, SendNext, ~stale', NEW s, s = table[msg.topic].cells[widx]
  PROVE  /\ msg \in Message /\ msg.topic \in Topics /\ widx \in 1..table[msg.topic].len
         /\ s \in Members(table[msg.topic]) /\ s \in Descriptors /\ peer[s] \in Clients
         /\ peer[s] \in broken \/ Subscribed(sent[peer[s]], msg.topic)
         /\ sent[peer[s]] # <<>>
<1>1. wpc = "send" /\ Busy
  BY DEF SendNext, SteadyInv, ServerInv, WorkerInv, Busy
<1>2. msg \in Message /\ msg.topic \in Topics
  BY <1>1, SteadyTypes DEF Message
<1>3. widx \in Nat \ {0} /\ ~(widx > table[msg.topic].len)
  BY <1>1 DEF SendNext, InboxInv
<1>4. table[msg.topic].len \in Nat
  BY <1>2, BookTypes DEF Entry
<1>5. widx \in 1..table[msg.topic].len
  BY <1>3, <1>4
<1>6. s \in Members(table[msg.topic])
  BY <1>5 DEF Members
<1>7. s \in Descriptors /\ peer[s] \in Clients
  BY <1>2, <1>6, MembersOpen
<1>8. AskedFor(peer[s], msg.topic)
  BY <1>2, <1>6 DEF Asked
<1>. QED  BY <1>2, <1>5, <1>6, <1>7, <1>8 DEF AskedFor

\* Who is sent a message of its own or of others has been greeted.
LEMMA ReceiverMet ==
  ASSUME SteadyInv, Books, InboxInv, Asked, ~stale', GetReceivers \/ SendNext, NEW c \in Clients,
         \/ GetReceivers /\ c = peer[event.from]
         \/ SendNext /\ c = peer[table[msg.topic].cells[widx]]
  PROVE  inbox[c] # <<>>
<1>1. CASE GetReceivers /\ c = peer[event.from]
  <2>1. peer[event.from] = msg.by /\ Busy
    BY <1>1 DEF GetReceivers, Handles
  <2>2. c = msg.by
    BY <1>1, <2>1
  <2>3. sent[c] # <<>>
    BY <2>1, <2>2 DEF SteadyInv, MailInv, WasSent, Busy
  <2>. QED  BY <2>3 DEF InboxInv
<1>2. CASE SendNext /\ c = peer[table[msg.topic].cells[widx]]
  <2>1. sent[c] # <<>>
    BY <1>2, NextReceiver
  <2>. QED  BY <2>1 DEF InboxInv
<1>. QED  BY <1>1, <1>2

LEMMA UngreetedKeeps ==
  ASSUME SteadyInv, Books, InboxInv, Asked, Ungreeted, Next, ~stale'
  PROVE  Ungreeted'
<1>1. Unmet' \subseteq Unmet /\ Unmet \subseteq Clients /\ inbox \in [Clients -> Seq(Received)]
  BY UnmetSteps DEF Unmet, InboxInv
<1>2. CASE UNCHANGED inbox
  BY <1>1, <1>2 DEF Ungreeted
<1>3. ASSUME NEW c \in Clients, NEW m \in Received, Arrives(c, m), c \notin Unmet'
      PROVE  Ungreeted'
  <2>1. \A d \in Clients : d # c => inbox'[d] = inbox[d]
    BY <1>1, <1>3, ArrivesAt
  <2>. QED  BY <1>1, <1>3, <2>1 DEF Ungreeted
<1>4. ASSUME NEW c \in Clients, Greet, c = peer[hand[1]], Arrives(c, Receipt) PROVE Ungreeted'
  BY <1>3, <1>4, UnmetSteps DEF Received
<1>5. ASSUME NEW c \in Clients, GetReceivers, c = peer[event.from], Arrives(c, Refusal) PROVE Ungreeted'
  BY <1>1, <1>3, <1>5, ReceiverMet DEF Received, Ungreeted
<1>6. ASSUME NEW c \in Clients, SendNext, c = peer[table[msg.topic].cells[widx]], Arrives(c, msg)
      PROVE  Ungreeted'
  BY <1>1, <1>3, <1>6, ReceiverMet, NextReceiver DEF Received, Ungreeted
<1>. QED  BY <1>2, <1>4, <1>5, <1>6, InboxSteps

LEMMA UnsentKeeps ==
  ASSUME SteadyInv, Books, InboxInv, LineInv, Asked, Unsent, Next, ~stale'
  PROVE  Unsent'
<1>0. inbox \in [Clients -> Seq(Received)]
  BY DEF InboxInv
<1>1. broken \subseteq broken' /\ \A topic \in Topics : table[topic] \in Entry
  BY BrokenGrows DEF SteadyInv, ServerInv, TableInv
<1>2. ASSUME GetReceivers, wpc' = "send", msg.by \notin broken PROVE Unsent'
  <2>1. /\ UNCHANGED <<inbox, table, peer, place>> /\ wpc = "idle" /\ Busy /\ msg.type = "publish"
    BY <1>2 DEF GetReceivers, Done, Handles, workerVars
  <2>2. msg \in Message /\ msg.topic \in Topics
    BY <2>1, SteadyTypes DEF Message
  <2>3. msg \notin Arrived
    <3>1. ~Before(msg, msg)
      BY <2>2 DEF Before, Message
    <3>. QED  BY <1>2, <2>1, <3>1 DEF LineInv, InPool
  <2>4. \A c \in Clients : msg \notin Got(c)
    BY <2>1, <2>3 DEF Arrived
  <2>5. PICK entry \in Entry, m \in Message : entry = table[msg.topic] /\ m = msg /\ m = msg'
    BY <1>1, <2>1, <2>2 DEF msg, event
  <2>6. ASSUME NEW k \in 1..entry.len PROVE m \notin Got(peer[entry.cells[k]])'
    <3>1. entry.cells[k] \in Members(entry)
      BY DEF Members
    <3>2. PICK c \in Clients : c = peer[entry.cells[k]] /\ c = peer'[entry.cells[k]]
      BY <2>1, <2>2, <2>5, <3>1, MembersOpen
    <3>3. m \notin Got(c)'
      BY <2>1, <2>4, <2>5 DEF Got
    <3>. QED  BY <3>2, <3>3 DEF Got
  <2>7. msg' = m /\ table'[m.topic] = entry
    BY <2>1, <2>5
  <2>. QED  BY <2>6, <2>7 DEF Unsent, Got
<1>3. ASSUME SendNext, msg.by \notin broken PROVE Unsent'
  <2>1. UNCHANGED <<table, peer, place>> /\ wpc = "send" /\ widx' = widx + 1
    BY <1>3 DEF SendNext, sharedVars
  <2>2. PICK s : s = table[msg.topic].cells[widx]
    OBVIOUS
  <2>3. /\ msg \in Message /\ msg.topic \in Topics /\ widx \in 1..table[msg.topic].len
        /\ s \in Descriptors /\ peer[s] \in Clients
    BY <1>3, <2>2, NextReceiver
  <2>4. PICK entry \in Entry, m \in Message : entry = table[msg.topic] /\ m = msg /\ m = msg'
    BY <1>1, <2>1, <2>3 DEF msg, event
  <2>5. ASSUME NEW k \in 1..entry.len, k >= widx' PROVE m \notin Got(peer[entry.cells[k]])'
    <3>1. k # widx /\ k >= widx
      BY <2>1, <2>3, <2>4, <2>5 DEF Entry
    <3>2. entry.cells[k] # s
      BY <2>2, <2>3, <2>4, <3>1 DEF Books, TableBooks, Once
    <3>3. entry.cells[k] \in Members(entry)
      BY DEF Members
    <3>4. PICK c \in Clients, f \in Descriptors : c = peer[f] /\ f = entry.cells[k]
      BY <2>3, <2>4, <3>3, MembersOpen
    <3>5. c # peer[s]
      BY <2>3, <3>2, <3>4, SteadyTypes DEF SteadyInv, LinkInv
    <3>6. m \notin Got(c)
      BY <1>3, <2>1, <2>4, <3>1, <3>4 DEF Unsent
    <3>7. inbox'[c] = inbox[c]
      <4>0. ~Greet /\ ~GetReceivers
        BY <1>3 DEF Greet, GetReceivers, SendNext, mainVars
      <4>1. UNCHANGED inbox \/ \E d \in Clients : d = peer[s] /\ Arrives(d, m)
        BY <2>2, <2>4, <4>0, InboxSteps
      <4>2. m \in Received
        BY DEF Received
      <4>. QED  BY <1>0, <3>5, <4>1, <4>2, ArrivesAt
    <3>8. m \notin Got(c)'
      BY <3>6, <3>7 DEF Got
    <3>9. peer'[entry.cells[k]] = c
      BY <2>1, <3>4
    <3>. QED  BY <3>8, <3>9 DEF Got
  <2>6. msg' = m /\ table'[m.topic] = entry
    BY <2>1, <2>4
  <2>. QED  BY <2>5, <2>6 DEF Unsent, Got
<1>4. ASSUME wpc = "send", UNCHANGED <<place, widx>>, ~GetReceivers, ~SendNext, msg.by \notin broken
      PROVE  Unsent'
  <2>0. msg' = msg /\ Busy /\ msg.type = "publish" /\ widx \in Nat \ {0}
    BY <1>4 DEF msg, event, InboxInv, SteadyInv, ServerInv, WorkerInv, Busy
  <2>1. PICK m \in Message, topic \in Topics : m = msg /\ topic = msg.topic /\ m.type = "publish"
    BY <2>0, SteadyTypes DEF Message
  <2>2. Shrunk(table[topic], table'[topic]) /\ table[topic] \in Entry /\ table'[topic] \in Entry
    BY <1>4, TableSteps, ServerKeeps DEF SetTopic, SteadyInv, ServerInv, TableInv
  <2>3. PICK e \in Entry, f \in Entry : e = table[topic] /\ f = table'[topic]
    BY <2>2
  <2>4. ASSUME NEW k \in 1..f.len, k >= widx PROVE m \notin Got(peer[f.cells[k]])'
    <3>1. PICK j \in k..e.len : f.cells[k] = e.cells[j]
      BY <2>2, <2>3 DEF Shrunk
    <3>2. j \in 1..e.len /\ j >= widx
      BY <2>0, <2>4, <3>1 DEF Entry
    <3>3. e.cells[j] \in Members(e)
      BY <3>2 DEF Members
    <3>4. PICK c \in Clients : c = peer[e.cells[j]] /\ c = peer'[e.cells[j]]
      BY <2>3, <3>3, MembersOpen, MembersStay
    <3>5. m \notin Got(c)
      BY <1>4, <2>1, <2>3, <3>2, <3>4 DEF Unsent
    <3>6. inbox'[c] = inbox[c] \/ Arrives(c, Receipt)
      <4>1. UNCHANGED inbox \/ \E d \in Clients : Arrives(d, Receipt)
        BY <1>4, InboxSteps
      <4>2. Receipt \in Received
        BY DEF Received
      <4>. QED  BY <1>0, <4>1, <4>2, ArrivesAt
    <3>7. m \notin Got(c)'
      <4>1. m # Receipt /\ Receipt \in Received
        BY <2>1 DEF Receipt, Received
      <4>2. CASE inbox'[c] = inbox[c]
        BY <3>5, <4>2 DEF Got
      <4>3. CASE Arrives(c, Receipt)
        BY <1>0, <3>5, <4>1, <4>3, ArrivesAt
      <4>. QED  BY <3>6, <4>2, <4>3
    <3>8. peer'[f.cells[k]] = c
      BY <3>1, <3>4
    <3>. QED  BY <3>7, <3>8 DEF Got
  <2>5. msg' = m /\ table'[m.topic] = f /\ widx' = widx
    BY <1>4, <2>0, <2>1, <2>3
  <2>. QED  BY <2>4, <2>5 DEF Unsent, Got
<1>. QED
  <2>1. CASE wpc' # "send"
    BY <2>1 DEF Unsent
  <2>2. CASE msg.by \in broken /\ UNCHANGED place
    <3>1. msg'.by \in broken'
      BY <1>1, <2>2 DEF msg, event
    <3>. QED  BY <3>1 DEF Unsent
  <2>3. GetReceivers \/ SendNext => UNCHANGED place \/ wpc' # "send"
    BY DEF GetReceivers, SendNext, Done, workerVars, sharedVars
  <2>. QED  BY <1>2, <1>3, <1>4, <2>1, <2>2, <2>3, HandlingSteps

LEMMA ReachedKeeps ==
  ASSUME SteadyInv, Books, InboxInv, Asked, Reached, Next, ~stale'
  PROVE  Reached'
<1>0. /\ inbox \in [Clients -> Seq(Received)]
      /\ \A c \in Clients : Got(c) \subseteq Got(c)'
      /\ \A c : Closed(c) => Closed(c)'
  BY ArrivedSteps, FailureLasts DEF InboxInv
<1>1. \A topic \in Topics : table[topic] \in Entry
  BY DEF SteadyInv, ServerInv, TableInv
<1>2. ASSUME GetReceivers, wpc' = "send" PROVE Reached'
  <2>1. UNCHANGED <<table, place>> /\ widx' = 1 /\ wlen' = table[msg.topic].len /\ Busy
    BY <1>2 DEF GetReceivers, Done, Handles, workerVars
  <2>2. msg' = msg /\ table[msg.topic].len \in Nat
    BY <1>1, <2>1, SteadyTypes DEF msg, event, Message, Entry
  <2>. QED  BY <2>1, <2>2 DEF Reached
<1>3. ASSUME wpc = "send", ~disturbed, UNCHANGED <<place, wlen, table>>,
             UNCHANGED widx \/ (SendNext /\ widx' = widx + 1)
      PROVE  Reached'
  <2>1. msg' = msg /\ event' = event /\ Busy /\ widx \in Nat \ {0}
    BY <1>3 DEF msg, event, InboxInv, SteadyInv, ServerInv, WorkerInv, Busy
  <2>2. PICK m \in Message, topic \in Topics, from \in Descriptors :
          m = msg /\ topic = msg.topic /\ from = event.from
    BY <2>1, SteadyTypes DEF Message
  <2>3. PICK e \in Entry : e = table[topic]
    BY <1>1
  <2>4. ASSUME NEW k \in 1..e.len, k < widx'
        PROVE  \/ e.cells[k] = from \/ Closed(peer[e.cells[k]])' \/ m \in Got(peer[e.cells[k]])'
    <3>1. e.cells[k] \in Members(e)
      BY DEF Members
    <3>2. PICK c \in Clients : c = peer[e.cells[k]] /\ c = peer'[e.cells[k]]
      BY <2>3, <3>1, MembersOpen, MembersStay
    <3>3. e.cells[k] = from \/ Closed(c)' \/ m \in Got(c)'
      <4>1. CASE k < widx
        <5>1. e.cells[k] = from \/ Closed(c) \/ m \in Got(c)
          BY <1>3, <2>2, <2>3, <3>2, <4>1, Zenon DEF Reached
        <5>. QED  BY <1>0, <5>1
      <4>2. CASE SendNext /\ k = widx
        <5>1. CASE e.cells[k] # from /\ ~Closed(c)
          <6>1. Delivers(e.cells[k], m)
            BY <2>2, <2>3, <3>2, <4>2, <5>1, SteadyTypes DEF SendNext, SendFails
          <6>2. Arrives(c, m)
            BY <3>2, <5>1, <6>1 DEF Delivers, Arrives
          <6>. QED  BY <1>0, <6>2, ArrivesAt DEF Received
        <5>. QED  BY <1>0, <5>1
      <4>. QED  BY <1>3, <2>1, <2>4, <4>1, <4>2 DEF Entry
    <3>. QED  BY <3>2, <3>3 DEF Got, Closed
  <2>5. wlen = table[msg.topic].len
    BY <1>3, Zenon DEF Reached
  <2>6. msg' = m /\ event'.from = from /\ table'[m.topic] = e /\ wlen' = e.len
    BY <1>3, <2>1, <2>2, <2>3, <2>5
  <2>. QED  BY <2>4, <2>6 DEF Reached, Got, Closed
<1>4. CASE disturbed' \/ wpc' # "send"
  BY <1>4, Zenon DEF Reached
<1>5. CASE ~disturbed' /\ SendNext
  <2>1. /\ wpc = "send" /\ UNCHANGED <<place, wlen, table, disturbed>> /\ widx' = widx + 1
    BY <1>5 DEF SendNext, sharedVars
  <2>2. ~disturbed
    BY <1>5, <2>1, Zenon
  <2>. QED  BY <1>3, <1>5, <2>1, <2>2
<1>6. CASE ~disturbed' /\ wpc = "send" /\ UNCHANGED <<place, widx, wlen>> /\ (disturbed => disturbed')
  <2>1. ~disturbed
    BY <1>6, Zenon
  <2>2. UNCHANGED table \/ disturbed'
    BY <1>6, TableSteps DEF SetTopic
  <2>3. UNCHANGED table
    BY <1>6, <2>2, Zenon
  <2>. QED  BY <1>3, <1>6, <2>1, <2>3
<1>. QED  BY <1>2, <1>4, <1>5, <1>6, HandlingSteps, Zenon

LEMMA FlowKeeps ==
  ASSUME SteadyInv, FreshInv, BooksInv, InboxInv, LineInv, FlowInv, [Next]_vars
  PROVE  FlowInv'
<1>1. CASE UNCHANGED vars
  <2>1. UNCHANGED <<conn, pending, peer, sent, broken, inbox, table, place, mpc, hand, wpc, widx, wlen,
                    disturbed, stale, status>>
    BY <1>1 DEF vars, listVars, clientVars, sharedVars, mainVars, workerVars
  <2>2. msg' = msg /\ event' = event /\ Unmet' = Unmet /\ \A c : Got(c)' = Got(c) /\ Closed(c)' = Closed(c)
    BY <2>1 DEF msg, event, Unmet, Waiting, Got, Closed
  <2>3. Asked' = Asked
    BY <2>1 DEF Asked, AskedFor
  <2>4. Ungreeted' = Ungreeted
    BY <2>1, <2>2 DEF Ungreeted
  <2>5. Unsent' = Unsent
    BY <2>1, <2>2 DEF Unsent, Got
  <2>6. Reached' = Reached
    BY <2>1, <2>2 DEF Reached, Got, Closed
  <2>. QED  BY <2>1, <2>3, <2>4, <2>5, <2>6, Zenon DEF FlowInv
<1>2. CASE Next /\ ~stale'
  <2>1. ~stale /\ status = "running"
    BY <1>2, FreshSteps DEF Next
  <2>2. Books /\ Asked /\ Ungreeted /\ Unsent /\ Reached
    BY <2>1 DEF BooksInv, FlowInv
  <2>. QED  BY <1>2, <2>1, <2>2, AskedKeeps, UngreetedKeeps, UnsentKeeps, ReachedKeeps DEF FlowInv
<1>3. CASE stale'
  BY <1>3, Zenon DEF FlowInv
<1>. QED  BY <1>1, <1>2, <1>3

\* What OnceInOrder says of what client c has received.
InOrder(c) ==
  \A i \in DOMAIN inbox[c] :
    /\ inbox[c][i] = Receipt <=> i = 1
    /\ inbox[c][i].type = "publish" =>
         /\ inbox[c][i].by # c
         /\ c \notin broken => Subscribed(sent[c], inbox[c][i].topic)
         /\ inbox[c][i].by \notin broken =>
              \A j \in 1..(i - 1) :
                inbox[c][j].type = "publish" /\ inbox[c][j].by = inbox[c][i].by =>
                  inbox[c][j].n < inbox[c][i].n

LEMMA ArrivesInOrder ==
  ASSUME inbox \in [Clients -> Seq(Received)], NEW c \in Clients, NEW m \in Received, Arrives(c, m),
         UNCHANGED <<sent, broken>>, InOrder(c), m = Receipt <=> inbox[c] = <<>>,
         m.type = "publish" =>
           /\ m.by # c /\ (c \notin broken => Subscribed(sent[c], m.topic))
           /\ m.by \notin broken => \A l \in Got(c) : l.type = "publish" /\ l.by = m.by => l.n < m.n
  PROVE  InOrder(c)'
<1>. DEFINE n == Len(inbox[c])
<1>1. /\ DOMAIN inbox[c] = 1..n /\ n \in Nat /\ DOMAIN inbox'[c] = 1..(n + 1)
      /\ inbox'[c][n + 1] = m
      /\ \A k \in 1..n : inbox'[c][k] = inbox[c][k] /\ inbox[c][k] \in Got(c)
      /\ inbox[c] = <<>> <=> n = 0
  <2>1. inbox[c] \in Seq(Received) /\ inbox'[c] \in Seq(Received) /\ Len(inbox'[c]) = n + 1
    BY ArrivesAt
  <2>. QED  BY <2>1, ArrivesAt DEF Got
<1>. HIDE DEF n
<1>2. ASSUME NEW i \in 1..n
      PROVE  /\ inbox'[c][i] = Receipt <=> i = 1
             /\ inbox'[c][i].type = "publish" =>
                  /\ inbox'[c][i].by # c /\ (c \notin broken => Subscribed(sent'[c], inbox'[c][i].topic))
                  /\ inbox'[c][i].by \notin broken =>
                       \A j \in 1..(i - 1) :
                         inbox'[c][j].type = "publish" /\ inbox'[c][j].by = inbox'[c][i].by =>
                           inbox'[c][j].n < inbox'[c][i].n
  <2>1. \A j \in 1..(i - 1) : j \in 1..n
    BY <1>1
  <2>. QED  BY <1>1, <2>1 DEF InOrder
<1>3. /\ m = Receipt <=> n + 1 = 1
      /\ m.type = "publish" /\ m.by \notin broken =>
           \A j \in 1..n : inbox'[c][j].type = "publish" /\ inbox'[c][j].by = m.by => inbox'[c][j].n < m.n
  <2>1. n = 0 <=> n + 1 = 1
    BY <1>1
  <2>. QED  BY <1>1, <2>1, Zenon
<1>4. \A i \in 1..(n + 1) : i \in 1..n \/ (i = n + 1 /\ i - 1 = n)
  BY <1>1
<1>. QED  BY <1>1, <1>2, <1>3, <1>4 DEF InOrder

\* The next receiver of a publication.
LEMMA NextInOrder ==
  ASSUME SteadyInv, FreshInv, ~stale, Books, InboxInv, LineInv, Asked, Unsent, SendNext, ~stale',
         NEW c \in Clients, c = peer[table[msg.topic].cells[widx]], ~Closed(c),
         table[msg.topic].cells[widx] # event.from
  PROVE  /\ msg \in Received /\ msg.type = "publish" /\ msg # Receipt /\ inbox[c] # <<>>
         /\ msg.by # c /\ (c \notin broken => Subscribed(sent[c], msg.topic))
         /\ msg.by \notin broken => \A l \in Got(c) : l.type = "publish" /\ l.by = msg.by => l.n < msg.n
<1>1. PICK s : s = table[msg.topic].cells[widx]
  OBVIOUS
<1>2. /\ msg \in Message /\ msg.topic \in Topics /\ widx \in 1..table[msg.topic].len
      /\ s \in Descriptors /\ (c \notin broken => Subscribed(sent[c], msg.topic)) /\ sent[c] # <<>>
  BY <1>1, NextReceiver
<1>3. wpc = "send" /\ Busy /\ msg.type = "publish" /\ event.from \in Descriptors
  BY SteadyTypes DEF SendNext, InboxInv, SteadyInv, ServerInv, WorkerInv, Busy
<1>4. msg.by # c
  <2>1. SUFFICES ASSUME msg.by = c PROVE FALSE
    OBVIOUS
  <2>2. peer[event.from] = c
    BY <1>1, <1>2, <1>3, <2>1 DEF FreshInv, EventFresh, Attributed, Linked
  <2>. QED  BY <1>1, <1>2, <1>3, <2>2, SteadyTypes DEF SteadyInv, LinkInv
<1>5. msg.by \notin broken => msg \notin Got(c)
  <2>1. widx \in Nat
    BY <1>3, Zenon DEF InboxInv
  <2>2. widx >= widx
    BY <2>1
  <2>3. msg.by \notin broken => \A k \in 1..table[msg.topic].len : k >= widx => msg \notin Got(peer[table[msg.topic].cells[k]])
    BY <1>3, Zenon DEF Unsent
  <2>. QED  BY <1>2, <2>2, <2>3, Zenon
<1>6. ASSUME NEW l \in Got(c), l.type = "publish", l.by = msg.by, msg.by \notin broken PROVE l.n < msg.n
  <2>1. l \in Arrived /\ msg \in InPool /\ l # msg
    BY <1>3, <1>5, <1>6 DEF Arrived, InPool
  <2>2. Before(l, msg)
    BY <2>1 DEF LineInv
  <2>. QED  BY <1>6, <2>2 DEF Before
<1>7. inbox[c] # <<>>
  BY <1>2, Zenon DEF InboxInv
<1>8. msg # Receipt
  BY <1>3 DEF Receipt
<1>. QED  BY <1>2, <1>3, <1>4, <1>6, <1>7, <1>8 DEF Received

LEMMA OrderKeeps ==
  ASSUME SteadyInv, FreshInv, ~stale, Books, InboxInv, LineInv, Asked, Ungreeted, Unsent,
         \A c \in Clients : InOrder(c), Next, ~stale'
  PROVE  \A c \in Clients : InOrder(c)'
<1>0. inbox \in [Clients -> Seq(Received)] /\ Receipt \in Received /\ Refusal \in Received
  BY DEF InboxInv, Received
<1>1. ASSUME NEW c \in Clients, inbox'[c] = inbox[c] PROVE InOrder(c)'
  <2>1. /\ \A topic : Subscribed(sent[c], topic) => Subscribed(sent'[c], topic)
        /\ broken \subseteq broken'
    BY SentGrows, BrokenGrows DEF Subscribed
  <2>. QED  BY <1>1, <2>1 DEF InOrder
<1>2. ASSUME NEW c \in Clients, NEW m \in Received, Arrives(c, m), InOrder(c)'
      PROVE  \A d \in Clients : InOrder(d)'
  BY <1>0, <1>1, <1>2, ArrivesAt
<1>3. ASSUME NEW c \in Clients, Greet, c = peer[hand[1]], Arrives(c, Receipt) PROVE InOrder(c)'
  <2>1. inbox[c] = <<>> /\ UNCHANGED <<sent, broken>> /\ Receipt.type # "publish"
    BY <1>3 DEF Greet, clientVars, Ungreeted, Unmet, Receipt
  <2>. QED  BY <1>0, <1>3, <2>1, ArrivesInOrder
<1>4. ASSUME NEW c \in Clients, GetReceivers, c = peer[event.from], Arrives(c, Refusal) PROVE InOrder(c)'
  <2>1. inbox[c] # <<>>
    BY <1>4, ReceiverMet
  <2>2. UNCHANGED <<sent, broken>> /\ Refusal.type # "publish" /\ Refusal # Receipt
    BY <1>4 DEF GetReceivers, clientVars, Refusal, Receipt
  <2>. QED  BY <1>0, <1>4, <2>1, <2>2, ArrivesInOrder
<1>5. ASSUME NEW c \in Clients, SendNext, c = peer[table[msg.topic].cells[widx]], ~Closed(c),
             Arrives(c, msg), table[msg.topic].cells[widx] # event.from
      PROVE  InOrder(c)' /\ msg \in Received
  <2>1. PICK m : m = msg
    OBVIOUS
  <2>2. /\ m \in Received /\ m # Receipt /\ inbox[c] # <<>> /\ m.by # c
        /\ c \notin broken => Subscribed(sent[c], m.topic)
        /\ m.by \notin broken => \A l \in Got(c) : l.type = "publish" /\ l.by = m.by => l.n < m.n
    BY <1>5, <2>1, NextInOrder
  <2>3. UNCHANGED <<sent, broken>>
    BY <1>5 DEF SendNext, clientVars
  <2>. QED  BY <1>0, <1>5, <2>1, <2>2, <2>3, ArrivesInOrder
<1>6. CASE UNCHANGED inbox
  BY <1>1, <1>6
<1>. QED  BY <1>0, <1>2, <1>3, <1>4, <1>5, <1>6, InboxSteps

OrderInv == ~stale => \A c \in Clients : InOrder(c)

WayInv == SteadyInv /\ FreshInv /\ BooksInv /\ InboxInv /\ LineInv /\ FlowInv /\ OrderInv

LEMMA WayInvariant == Spec => []WayInv
<1>1. ASSUME Init PROVE InboxInv /\ LineInv /\ FlowInv /\ OrderInv
  <2>1. /\ \A c \in Clients : sent[c] = <<>> /\ outbox[c] = <<>> /\ inbox[c] = <<>> /\ conn[c] = "new"
        /\ inbox \in [Clients -> Seq(Received)] /\ wpc = "idle" /\ mpc = "poll" /\ place = <<>>
        /\ \A topic \in Topics : table[topic] = NoEntry
    BY <1>1 DEF Init
  <2>2. Arrived = {} /\ InHand = {} /\ InPool = {} /\ Outgoing = {}
    BY <2>1 DEF Arrived, Got, InHand, InPool, Outgoing, Busy
  <2>3. \A topic \in Topics : Members(table[topic]) = {}
    BY <2>1 DEF Members, NoEntry
  <2>4. InboxInv
    BY <2>1, <2>2 DEF InboxInv
  <2>5. LineInv
    BY <2>1, <2>2 DEF LineInv
  <2>6. Asked /\ Ungreeted /\ Unsent /\ Reached
    BY <2>1, <2>3 DEF Asked, Ungreeted, Unmet, Unsent, Reached
  <2>7. \A c \in Clients : InOrder(c)
    BY <2>1 DEF InOrder
  <2>. QED  BY <2>4, <2>5, <2>6, <2>7 DEF FlowInv, OrderInv
<1>2. SteadyInv /\ FreshInv /\ BooksInv /\ InboxInv /\ LineInv /\ FlowInv /\ OrderInv /\ [Next]_vars
        => InboxInv' /\ LineInv' /\ FlowInv' /\ OrderInv'
  <2>. SUFFICES ASSUME SteadyInv, FreshInv, BooksInv, InboxInv, LineInv, FlowInv, OrderInv, [Next]_vars
                PROVE  InboxInv' /\ LineInv' /\ FlowInv' /\ OrderInv'
    OBVIOUS
  <2>1. CASE Next /\ ~stale'
    <3>1. ~stale /\ status = "running"
      BY <2>1, FreshSteps DEF Next
    <3>2. Books /\ Asked /\ Ungreeted /\ Unsent /\ \A c \in Clients : InOrder(c)
      BY <3>1 DEF BooksInv, FlowInv, OrderInv
    <3>. QED  BY <2>1, <3>1, <3>2, InboxKeeps, LineKeeps, FlowKeeps, OrderKeeps DEF OrderInv
  <2>2. CASE stale'
    BY <2>2, InboxKeeps, LineKeeps, FlowKeeps, Zenon DEF OrderInv
  <2>3. CASE UNCHANGED vars
    <3>1. UNCHANGED <<stale, inbox, sent, broken>>
      BY <2>3 DEF vars, clientVars
    <3>2. OrderInv'
      BY <3>1 DEF OrderInv, InOrder
    <3>. QED  BY <3>2, InboxKeeps, LineKeeps, FlowKeeps
  <2>. QED  BY <2>1, <2>2, <2>3
<1>. QED  BY <1>1, <1>2, BooksInvariant, PTL DEF Spec, WayInv

\* Until a thread used something out of date, a client's first message is the receipt of
\* its connection, and it gets only publications of others on topics it asked for, each
\* once and those of one sender in the order they were sent.
THEOREM MessagesOnceInOrder == Spec => []OnceInOrder
<1>1. WayInv => OnceInOrder
  BY DEF WayInv, OrderInv, InOrder, OnceInOrder, Subscribed
<1>. QED  BY <1>1, WayInvariant, PTL

\* The end of publish_message: if the array was not changed meanwhile, every member of it
\* has got the message, but for its sender and those that have closed.
THEOREM PublicationsReachAll == Spec => ReachesAll
<1>. DEFINE sockets == CellsOf(table[msg.topic])
            All == \A i \in DOMAIN sockets :
                     \/ sockets[i] = event.from \/ Closed(peer[sockets[i]])
                     \/ \E k \in DOMAIN inbox[peer[sockets[i]]] : inbox[peer[sockets[i]]][k] = msg
<1>1. ASSUME WayInv, Next, Published, ~stale, ~disturbed PROVE All
  <2>1. wpc = "send" /\ widx > wlen /\ Busy
    BY <1>1 DEF Published, WayInv, SteadyInv, ServerInv, WorkerInv, Busy
  <2>2. Books /\ Reached
    BY <1>1 DEF WayInv, BooksInv, FlowInv, Next
  <2>3. PICK m \in Message, topic \in Topics : m = msg /\ topic = msg.topic
    BY <1>1, <2>1, SteadyTypes DEF WayInv, Message
  <2>4. PICK e \in Entry : e = table[topic] /\ e.len <= Len(e.cells)
    BY <1>1, <2>2, BookTypes DEF WayInv
  <2>5. wlen = e.len /\ widx \in Nat
    <3>1. wlen = table[msg.topic].len
      BY <1>1, <2>1, <2>2, Zenon DEF Reached
    <3>. QED  BY <1>1, <2>1, <2>3, <2>4, <3>1 DEF WayInv, InboxInv
  <2>6. \A k \in 1..e.len : e.cells[k] = event.from \/ Closed(peer[e.cells[k]]) \/ m \in Got(peer[e.cells[k]])
    <3>1. \A k \in 1..e.len : k < widx
      BY <2>1, <2>4, <2>5 DEF Entry
    <3>. QED  BY <1>1, <2>1, <2>2, <2>3, <2>4, <3>1, Zenon DEF Reached
  <2>7. DOMAIN CellsOf(e) = 1..e.len /\ \A k \in 1..e.len : CellsOf(e)[k] = e.cells[k]
    BY <2>4 DEF CellsOf, Entry
  <2>. QED  BY <2>3, <2>4, <2>6, <2>7 DEF Got
<1>2. WayInv /\ [Next]_vars => [Published /\ ~stale /\ ~disturbed => All]_vars
  BY <1>1, Zenon
<1>. QED  BY <1>2, WayInvariant, PTL DEF Spec, ReachesAll
===============================================================================
