-------------------------------- MODULE Server --------------------------------
(***************************************************************************)
(* The running server and its clients: the main loop of server/main.c and  *)
(* process_poll_events (the dispatcher), the worker of the pool in         *)
(* process_messages, what they share, and clients that use the library of  *)
(* handlers/client.c or send an ERROR message of their own.                *)
(*                                                                         *)
(* The list of clients is ClientList's, and each of its calls is atomic.   *)
(* The code reads both arrays without the mutex too; such a read is a step *)
(* of its own.  The pool is the mailbox of JobMailbox, that ThreadPool     *)
(* implements: an event is taken if the place is empty, and may always be  *)
(* refused.  No topic begins another here (see ServerState), so the hash   *)
(* map is a table.  A read from a socket takes what has arrived: one       *)
(* message, several, or a part of one.  Messages has its bytes; here are   *)
(* the outcomes.  A message arrives in at most two parts.                  *)
(***************************************************************************)
EXTENDS ClientList

CONSTANTS
  Clients,     \* the connections that may be made
  NoClient,    \* the other end of a descriptor that is not open
  Listener,    \* the server's own socket
  MaxSent,     \* bound on the number of messages of one client
  MaxBroken    \* bound on the number of clients whose messages are cut

ASSUME SocketsAssumption == Sockets \subseteq Nat /\ Listener \in Sockets
ASSUME ClientsAssumption == NoClient \notin Clients
ASSUME MaxSentAssumption == MaxSent \in Nat
ASSUME MaxBrokenAssumption == MaxBroken \in Nat

VARIABLES
  \* clients and kernel
  conn,      \* what each client does
  pending,   \* the connections that wait for accept
  peer,      \* the client at the other end of each descriptor
  outbox,    \* messages under way from each client to the server
  sent,      \* all messages each client sent (history)
  inbox,     \* what each client was sent (history)
  broken,    \* clients a read from whom did not take exactly one message (history)
  \* shared by dispatcher and worker, beside the client list
  revents,   \* what poll wrote into each pollfd
  table,     \* the array of sockets the hash map holds for each topic
  place,     \* the event in the pool, none or one
  \* dispatcher
  mpc, polled, slot, hand, marked,
  \* worker
  wpc, widx, wlen, disturbed,
  \* server_state_remove_client, in either thread
  removal,
  stale      \* has a thread used remembered data that was out of date (history)

clientVars == <<conn, pending, outbox, sent, broken>>
mainVars == <<mpc, polled, slot, hand, marked>>
workerVars == <<wpc, widx, wlen, disturbed>>
sharedVars == <<revents, table, place>>
vars == <<listVars, clientVars, peer, inbox, sharedVars, mainVars, workerVars, removal, stale>>

-------------------------------------------------------------------------------
Descriptors == Sockets \ {Listener}
NoSocket == -1
Threads == {"main", "worker"}

\* A message of type "rest" is what is left of one after a part of it was read.
Message == [type : {"subscribe", "publish", "error", "rest"}, topic : Topics, by : Clients,
            n : 1..MaxSent]

\* What the server sends of its own: messages_gen_connection, messages_gen_error.
Receipt == [type |-> "connection"]
Refusal == [type |-> "error"]

\* The value array of an entry: len sockets, and what is in the memory behind them.
NoEntry == [known |-> FALSE, len |-> 0, cells |-> <<>>]

NotRemoving == [stage |-> "none", sock |-> Listener, idx |-> 0, next |-> 0]

Init ==
  /\ fds = <<Listener>> /\ metadata = <<NewMetadata(Listener)>>
  /\ fdsCap = InitialCap /\ metadataCap = InitialCap
  /\ status = "running" /\ result = TRUE
  /\ conn = [c \in Clients |-> "new"] /\ pending = <<>>
  /\ peer = [f \in Descriptors |-> NoClient]
  /\ outbox = [c \in Clients |-> <<>>] /\ sent = [c \in Clients |-> <<>>]
  /\ inbox = [c \in Clients |-> <<>>] /\ broken = {}
  /\ revents = <<"none">>
  /\ table = [topic \in Topics |-> NoEntry]
  /\ place = <<>>
  /\ mpc = "poll" /\ polled = <<>> /\ slot = 0 /\ hand = <<>> /\ marked = <<>>
  /\ wpc = "idle" /\ widx = 0 /\ wlen = 0 /\ disturbed = FALSE
  /\ removal = [th \in Threads |-> NotRemoving]
  /\ stale = FALSE

Closed(c) == c \in Clients /\ conn[c] = "closed"
Linked(c) == \E f \in Descriptors : peer[f] = c
Free == {f \in Descriptors : peer[f] = NoClient}

\* The event in the pool.
Busy == place # <<>>
event == place[1]
msg == event.msg

\* The dispatcher removes the client of descriptor s.
MainRemoves(s) == removal["main"].stage \notin {"none", "search"} /\ removal["main"].sock = s

\* The connection of the event's sender is gone, or goes.
Departed == peer[event.from] # msg.by \/ MainRemoves(event.from)

-------------------------------------------------------------------------------
(* A client: client_connect, client_subscribe, client_publish, client_free *)

clientFrame == <<listVars, peer, inbox, broken, sharedVars, mainVars, workerVars, removal, stale>>

Connect(c) ==
  /\ conn[c] = "new"
  /\ conn' = [conn EXCEPT ![c] = "connecting"]
  /\ pending' = Append(pending, c)
  /\ UNCHANGED <<outbox, sent, clientFrame>>

\* client_connect looks for a CONNECTION message in what it reads first.
Connected(c) ==
  /\ conn[c] = "connecting"
  /\ inbox[c] # <<>>
  /\ conn' = [conn EXCEPT ![c] = IF Head(inbox[c]) = Receipt THEN "connected" ELSE "failed"]
  /\ UNCHANGED <<pending, outbox, sent, clientFrame>>

\* client_subscribe, client_publish, or an ERROR, which the library never sends.
Send(c, type, topic) ==
  /\ conn[c] = "connected" /\ Linked(c)
  /\ Len(sent[c]) < MaxSent
  /\ LET m == [type |-> type, topic |-> topic, by |-> c, n |-> Len(sent[c]) + 1] IN
       /\ sent' = [sent EXCEPT ![c] = Append(@, m)]
       /\ outbox' = [outbox EXCEPT ![c] = Append(@, m)]
  /\ UNCHANGED <<conn, pending, clientFrame>>

\* client_free, or the end of the client's program.
Close(c) ==
  /\ conn[c] \notin {"new", "closed"}
  /\ conn' = [conn EXCEPT ![c] = "closed"]
  /\ UNCHANGED <<pending, outbox, sent, clientFrame>>

-------------------------------------------------------------------------------
(* send, in either thread *)

\* The message arrives; or is lost, because the client has closed.
Delivers(s, m) ==
  /\ s \in Descriptors /\ peer[s] # NoClient
  /\ inbox' = IF Closed(peer[s]) THEN inbox ELSE [inbox EXCEPT ![peer[s]] = Append(@, m)]

\* The descriptor is not open, or the client has reset the connection.
SendFails(s) == peer[s] = NoClient \/ Closed(peer[s])

\* A second send on a connection that was reset raises SIGPIPE.
Killed(s) == Closed(peer[s]) /\ status' = "exited"

-------------------------------------------------------------------------------
(* server_state_remove_client, in thread th for socket s *)

RemoveStart(th, s) ==
  removal' = [removal EXCEPT ![th] = [stage |-> "search", sock |-> s, idx |-> 1, next |-> 1]]

\* Mutant: the socket is swapped to the end and stays there.
CutOffNothing(entry, i) ==
  [entry EXCEPT !.cells = [@ EXCEPT ![i] = entry.cells[entry.len], ![entry.len] = entry.cells[i]]]

\* hash_map_remove_value swaps the socket with the last one and cuts it off.
CutOff(entry, i) ==
  [known |-> TRUE, len |-> entry.len - 1,
   cells |-> [entry.cells EXCEPT ![i] = entry.cells[entry.len], ![entry.len] = entry.cells[i]]]

CellsOf(entry) == SubSeq(entry.cells, 1, entry.len)

IndexIn(entry, s) == IndexOf(CellsOf(entry), s)

\* A failure is an exit for the dispatcher; the worker ignores it.
RemoveFails(th) ==
  /\ removal' = [removal EXCEPT ![th] = NotRemoving]
  /\ \/ th = "main" /\ status' = "exited" /\ UNCHANGED <<place, wpc>>
     \/ th = "worker" /\ place' = <<>> /\ wpc' = "idle" /\ UNCHANGED status

\* The client is looked for; the list is locked for one place at a time.
Search(th) ==
  LET r == removal[th] IN
    /\ r.stage = "search"
    /\ \/ r.idx \notin DOMAIN fds /\ RemoveFails(th)
       \/ /\ r.idx \in DOMAIN fds
          /\ removal' = [removal EXCEPT ![th] =
               IF fds[r.idx] = r.sock THEN [r EXCEPT !.stage = "topics"]
                                      ELSE [r EXCEPT !.idx = r.idx + 1]]
          /\ UNCHANGED <<place, wpc, status>>
    /\ UNCHANGED <<fds, metadata, fdsCap, metadataCap, result, clientVars, peer, inbox,
                   revents, table, mainVars, widx, wlen, disturbed, stale>>

\* The next topic of the metadata at the index found.  For a topic that is
\* not in the map hash_map_remove_value succeeds only if its row is in use.
RemoveTopic(th) ==
  LET r == removal[th]
      names == metadata[r.idx].topics
      i == IndexIn(table[names[r.next]], r.sock) IN
    /\ r.stage = "topics"
    /\ \/ /\ r.idx \notin DOMAIN metadata
          /\ status' = "undefined"
          /\ UNCHANGED <<removal, table, disturbed, place, wpc>>
       \/ /\ r.idx \in DOMAIN metadata /\ r.next > Len(names)
          /\ removal' = [removal EXCEPT ![th].stage = "close"]
          /\ UNCHANGED <<table, disturbed, place, wpc, status>>
       \/ /\ r.idx \in DOMAIN metadata /\ r.next <= Len(names) /\ i # 0
          /\ table' = [table EXCEPT ![names[r.next]] = CutOff(@, i)]
          /\ disturbed' = (disturbed \/ wpc = "send")
          /\ removal' = [removal EXCEPT ![th].next = @ + 1]
          /\ UNCHANGED <<place, wpc, status>>
       \/ /\ r.idx \in DOMAIN metadata /\ r.next <= Len(names) /\ i = 0
          /\ \/ RemoveFails(th)
             \/ /\ ~table[names[r.next]].known
                /\ removal' = [removal EXCEPT ![th].next = @ + 1]
                /\ UNCHANGED <<place, wpc, status>>
          /\ UNCHANGED <<table, disturbed>>
    /\ stale' = (stale \/ (r.idx \in DOMAIN metadata /\ metadata[r.idx].owner # r.sock))
    /\ UNCHANGED <<fds, metadata, fdsCap, metadataCap, result, clientVars, peer, inbox, revents,
                   mainVars, widx, wlen>>

\* The dispatcher goes through the list and remembers places in it.
Scans == mpc \notin {"poll", "polling"}

RemoveClose(th) ==
  /\ removal[th].stage = "close"
  /\ peer' = [peer EXCEPT ![removal[th].sock] = NoClient]
  /\ removal' = [removal EXCEPT ![th].stage = "list"]
  /\ stale' = (stale \/ (th = "worker" /\ (Departed \/ Scans)))
  /\ UNCHANGED <<listVars, clientVars, inbox, sharedVars, mainVars, workerVars>>

\* client_list_remove, and back to the caller.  The descriptor may have been given to
\* the next client by then.
RemoveFromList(th) ==
  /\ removal[th].stage = "list"
  /\ ListRemove(removal[th].sock)
  /\ revents' = SwapRemove(revents, GetIdx(removal[th].sock))
  /\ removal' = [removal EXCEPT ![th] = NotRemoving]
  /\ \/ th = "main" /\ marked' = Tail(marked) /\ UNCHANGED <<place, wpc, stale>>
     \/ /\ th = "worker" /\ place' = <<>> /\ wpc' = "idle" /\ UNCHANGED marked
        /\ stale' = (stale \/ Scans \/ peer[removal[th].sock] # NoClient)
  /\ UNCHANGED <<clientVars, peer, inbox, table, mpc, polled, slot, hand, widx, wlen, disturbed>>

-------------------------------------------------------------------------------
(* The dispatcher *)

\* What poll may report of socket s.
Reports(s) ==
  IF s = Listener THEN {IF pending # <<>> THEN "in" ELSE "none"}
  ELSE IF peer[s] = NoClient THEN {"nval"}
  ELSE IF Closed(peer[s]) THEN {"in", "hup"}
  ELSE IF outbox[peer[s]] = <<>> THEN {"none"}
  ELSE IF Head(outbox[peer[s]]).type = "rest" THEN {"in", "none"}
  ELSE {"in"}

PollCall ==
  /\ mpc = "poll"
  /\ mpc' = "polling" /\ polled' = fds
  /\ UNCHANGED <<listVars, clientVars, peer, inbox, sharedVars, slot, hand, marked,
                 workerVars, removal, stale>>

\* poll writes into the memory it was given, whatever stands there now.
PollReturn ==
  /\ mpc = "polling"
  /\ \E found \in [DOMAIN polled -> {"none", "in", "hup", "nval"}] :
       /\ \A j \in DOMAIN polled : found[j] \in Reports(polled[j])
       /\ \E j \in DOMAIN polled : found[j] # "none"
       /\ revents' = [j \in DOMAIN revents |-> IF j \in DOMAIN polled THEN found[j] ELSE revents[j]]
  /\ mpc' = "scan" /\ polled' = <<>> /\ slot' = 1
  /\ stale' = (stale \/ \E j \in DOMAIN fds : polled[j] # fds[j])
  /\ UNCHANGED <<listVars, clientVars, peer, inbox, table, place, hand, marked,
                 workerVars, removal>>

\* The next pollfd is examined, first for a hang-up.
Examine ==
  /\ mpc = "scan" /\ slot \in DOMAIN fds
  /\ LET s == fds[slot]
         e == revents[slot]
     IN
       \/ /\ s = Listener
          /\ \/ e = "in" /\ mpc' = "accept" /\ UNCHANGED slot
             \/ e # "in" /\ slot' = slot + 1 /\ UNCHANGED mpc
          /\ UNCHANGED hand
       \/ /\ s # Listener
          /\ hand' = <<s>> /\ mpc' = IF e = "hup" THEN "mark" ELSE "test"
          /\ UNCHANGED slot
  /\ UNCHANGED <<listVars, clientVars, peer, inbox, sharedVars, polled, marked,
                 workerVars, removal, stale>>

\* Then for the rest.  The pollfd is read again, and may have left the list.
Test ==
  /\ mpc = "test"
  /\ \E e \in IF slot \in DOMAIN fds THEN {revents[slot]} ELSE {"none", "in", "nval"} :
       \/ e = "none" /\ mpc' = "scan" /\ slot' = slot + 1 /\ hand' = <<>>
       \/ e \in {"in", "hup"} /\ mpc' = "read" /\ hand' = <<>> /\ UNCHANGED slot
       \/ /\ e = "nval" /\ mpc' = "mark" /\ UNCHANGED slot
          /\ hand' = IF slot \in DOMAIN fds THEN <<fds[slot]>> ELSE hand
  /\ UNCHANGED <<listVars, clientVars, peer, inbox, sharedVars, polled, marked,
                 workerVars, removal, stale>>

\* Mutant: the index was moved on already.
FdOfNext ==
  IF slot + 1 \in DOMAIN fds THEN fds[slot + 1] ELSE IF slot \in DOMAIN fds THEN fds[slot] ELSE hand[1]

\* local_c->fd, once more.  Behind the end of the array stands -1, or, if it was the
\* last that was removed, still the same socket.
FdAgain ==
  IF slot \in DOMAIN fds THEN fds[slot] ELSE IF hand[1] \in Listed THEN NoSocket ELSE hand[1]

Mark ==
  /\ mpc = "mark"
  /\ marked' = Append(marked, FdAgain)
  /\ mpc' = "scan" /\ slot' = slot + 1 /\ hand' = <<>>
  /\ UNCHANGED <<listVars, clientVars, peer, inbox, sharedVars, polled,
                 workerVars, removal, stale>>

\* Nothing reads revents before poll has written them again.
ScanEnd ==
  /\ mpc = "scan" /\ slot \notin DOMAIN fds
  /\ mpc' = "remove" /\ slot' = 0
  /\ revents' = [j \in DOMAIN revents |-> "none"]
  /\ UNCHANGED <<listVars, clientVars, peer, inbox, table, place, polled, hand, marked,
                 workerVars, removal, stale>>

\* accept_messages: accept, which gives the lowest free descriptor,
Accept ==
  /\ mpc = "accept"
  /\ \/ /\ Free = {} \/ pending = <<>>
        /\ mpc' = "scan" /\ slot' = slot + 1
        /\ UNCHANGED <<pending, peer, hand, stale>>
     \/ /\ Free # {} /\ pending # <<>>
        /\ \E f \in Free :
             /\ \A g \in Free : f <= g
             /\ peer' = [peer EXCEPT ![f] = Head(pending)]
             /\ hand' = <<f>>
             /\ stale' = (stale \/ f \in Listed)
        /\ pending' = Tail(pending)
        /\ mpc' = "greet" /\ UNCHANGED slot
  /\ UNCHANGED <<listVars, conn, outbox, sent, broken, inbox, sharedVars, polled, marked,
                 workerVars, removal>>

\* and the CONNECTION message.  If it cannot be sent the descriptor stays open,
\* out of the list.
Greet ==
  /\ mpc = "greet"
  /\ mpc' = "scan" /\ slot' = slot + 1 /\ hand' = <<>>
  /\ \/ /\ Delivers(hand[1], Receipt)
        /\ ListAppend(hand[1])
        /\ revents' = Append(revents, "none")
     \/ /\ SendFails(hand[1])
        /\ UNCHANGED <<listVars, inbox, revents>>
     \/ /\ Killed(hand[1])
        /\ UNCHANGED <<fds, metadata, fdsCap, metadataCap, result, inbox, revents>>
  /\ UNCHANGED <<clientVars, peer, table, place, polled, marked, workerVars, removal, stale>>

\* message_array_generate_from_client, for client c.  Either messages are to be handed
\* over, or there is none, and the client is to be marked.
HandOver(m) == hand' = <<fds[slot], m>> /\ mpc' = "hand"
NoMessages == hand' = <<fds[slot]>> /\ mpc' = "mark"

ReadOne(c) ==
  /\ outbox[c] # <<>> /\ Head(outbox[c]).type # "rest"
  /\ HandOver(Head(outbox[c]))
  /\ outbox' = [outbox EXCEPT ![c] = Tail(@)]
  /\ UNCHANGED <<broken, status>>

RestOf(m) == [m EXCEPT !.type = "rest"]

\* What is left of messages q by a read that ends inside one of them, if the first is
\* whole, or anywhere, if it is the rest of another.
Leaves(q) ==
  IF Head(q).type # "rest" THEN {<<RestOf(Head(q))>> \o Tail(q)}
  ELSE UNION {{SubSeq(q, k, Len(q)), <<RestOf(q[k - 1])>> \o SubSeq(q, k, Len(q))} :
              k \in 2..(Len(q) + 1)} \ {q}

\* How messages_read takes bytes that begin so.  A message cut inside its body keeps
\* type and topic; the rest of one may be taken for any message.
Misread(m) ==
  IF m.type = "rest" THEN {l \in Message : l.by = m.by /\ l.n = m.n}
  ELSE IF m.type = "subscribe" THEN {} ELSE {m}

\* A part of a message: one that ends before the body is no message.
ReadPart(c) ==
  /\ outbox[c] # <<>>
  /\ Cardinality(broken \cup {c}) <= MaxBroken
  /\ \/ NoMessages
     \/ \E m \in Misread(Head(outbox[c])) : HandOver(m)
  /\ \E left \in Leaves(outbox[c]) : outbox' = [outbox EXCEPT ![c] = left]
  /\ broken' = broken \cup {c}
  /\ UNCHANGED status

\* A part that ends between two fields, whose others are freed though they were never
\* set; or more than a message, so that the buffer is freed in its middle.
ReadAstray(c) ==
  /\ outbox[c] # <<>>
  /\ broken' = broken \cup {c}
  /\ status' = "undefined"
  /\ UNCHANGED <<outbox, hand, mpc>>

\* It waits if the client has sent nothing, unless it has closed.
ReadNothing(c) ==
  /\ outbox[c] = <<>> /\ Closed(c)
  /\ NoMessages
  /\ UNCHANGED <<outbox, broken, status>>

\* recv fails on a descriptor that is not open and on a connection that was reset.
RecvFails ==
  /\ slot \in DOMAIN fds => SendFails(fds[slot])
  /\ status' = "undefined"
  /\ UNCHANGED <<outbox, broken, hand, mpc>>

Read ==
  /\ mpc = "read"
  /\ \/ \E c \in Clients :
          /\ slot \in DOMAIN fds /\ peer[fds[slot]] = c
          /\ ReadOne(c) \/ ReadPart(c) \/ ReadAstray(c) \/ ReadNothing(c)
     \/ RecvFails
  /\ UNCHANGED <<fds, metadata, fdsCap, metadataCap, result, conn, pending, sent, peer, inbox,
                 sharedVars, polled, slot, marked, workerVars, removal, stale>>

\* Mutant: the event is taken while another is being handled.
TakeSecond ==
  /\ mpc = "hand"
  /\ place' = Append(place, [from |-> FdAgain, msg |-> hand[2]])
  /\ mpc' = "scan" /\ slot' = slot + 1 /\ hand' = <<>>
  /\ UNCHANGED <<listVars, clientVars, peer, inbox, revents, table, polled, marked,
                 workerVars, removal, stale>>

\* thread_pool_start_job: the event is taken; one from -1 would end the worker,
Take ==
  /\ mpc = "hand" /\ place = <<>>
  /\ FdAgain # NoSocket
  /\ place' = <<[from |-> FdAgain, msg |-> hand[2]]>>
  /\ mpc' = "scan" /\ slot' = slot + 1 /\ hand' = <<>>
  /\ UNCHANGED <<listVars, clientVars, peer, inbox, revents, table, polled, marked,
                 workerVars, removal, stale>>

\* or dropped.
Refuse ==
  /\ mpc = "hand"
  /\ mpc' = "scan" /\ slot' = slot + 1 /\ hand' = <<>>
  /\ UNCHANGED <<listVars, clientVars, peer, inbox, sharedVars, polled, marked,
                 workerVars, removal, stale>>

RemoveMarked ==
  /\ mpc = "remove" /\ removal["main"].stage = "none" /\ marked # <<>>
  /\ RemoveStart("main", Head(marked))
  /\ UNCHANGED <<listVars, clientVars, peer, inbox, sharedVars, mainVars, workerVars, stale>>

AllRemoved ==
  /\ mpc = "remove" /\ marked = <<>>
  /\ mpc' = "poll"
  /\ UNCHANGED <<listVars, clientVars, peer, inbox, sharedVars, polled, slot, hand, marked,
                 workerVars, removal, stale>>

-------------------------------------------------------------------------------
(* The worker: process_messages, for the event in the pool *)

Handles(type) == Busy /\ msg.type = type

\* The event is handled and the job free again.
Done == place' = <<>> /\ wpc' = "idle" /\ widx' = 0 /\ wlen' = 0 /\ disturbed' = FALSE

\* Mutant: the index is one too large.
FindIndexOffByOne ==
  /\ wpc = "idle" /\ Handles("subscribe")
  /\ event.from \in Listed
  /\ widx' = GetIdx(event.from) + 1 /\ wpc' = "insert"
  /\ UNCHANGED <<listVars, clientVars, peer, inbox, sharedVars, mainVars, wlen, disturbed,
                 removal, stale>>

\* server_state_add_client_topic: the index is looked up under the mutex,
FindIndex ==
  /\ wpc = "idle" /\ Handles("subscribe")
  /\ \/ /\ event.from \in Listed
        /\ widx' = GetIdx(event.from) /\ wpc' = "insert"
        /\ UNCHANGED status
     \/ /\ event.from \notin Listed
        /\ status' = "undefined" /\ UNCHANGED <<widx, wpc>>
  /\ UNCHANGED <<fds, metadata, fdsCap, metadataCap, result, clientVars, peer, inbox, sharedVars,
                 mainVars, wlen, disturbed, removal, stale>>

\* used after it,
InsertTopic ==
  /\ wpc = "insert"
  /\ \/ /\ widx \notin DOMAIN metadata
        /\ status' = "undefined"
        /\ UNCHANGED <<metadata, place, workerVars, stale>>
     \/ /\ widx \in DOMAIN metadata
        /\ \/ /\ \E i \in DOMAIN metadata[widx].topics : metadata[widx].topics[i] = msg.topic
              /\ Done /\ UNCHANGED metadata
           \/ /\ \A i \in DOMAIN metadata[widx].topics : metadata[widx].topics[i] # msg.topic
              /\ metadata' = [metadata EXCEPT ![widx].topics = Append(@, msg.topic)]
              /\ wpc' = "set" /\ UNCHANGED <<place, widx, wlen, disturbed>>
        /\ stale' = (stale \/ Departed \/ metadata[widx].owner # event.from)
        /\ UNCHANGED status
  /\ UNCHANGED <<fds, fdsCap, metadataCap, result, clientVars, peer, inbox, revents, table,
                 mainVars, removal>>

\* and hash_map_set.
SetTopic ==
  /\ wpc = "set"
  /\ LET entry == table[msg.topic] IN
       table' = [table EXCEPT ![msg.topic] =
         [known |-> TRUE, len |-> entry.len + 1,
          cells |-> CellsOf(entry) \o <<event.from>>
                      \o SubSeq(entry.cells, entry.len + 2, Len(entry.cells))]]
  /\ stale' = (stale \/ Departed)
  /\ Done
  /\ UNCHANGED <<listVars, clientVars, peer, inbox, revents, mainVars, removal>>

\* publish_message: the header of the array is copied under the mutex.  Without an
\* entry the sender is sent an error message, and whether that worked is ignored.
GetReceivers ==
  /\ wpc = "idle" /\ Handles("publish")
  /\ \/ /\ table[msg.topic].known
        /\ wpc' = "send" /\ widx' = 1 /\ wlen' = table[msg.topic].len
        /\ UNCHANGED <<place, disturbed, inbox, status>>
     \/ /\ ~table[msg.topic].known
        /\ \/ Delivers(event.from, Refusal) /\ Done /\ UNCHANGED status
           \/ SendFails(event.from) /\ Done /\ UNCHANGED <<inbox, status>>
           \/ Killed(event.from) /\ UNCHANGED <<place, workerVars, inbox>>
  /\ stale' = (stale \/ peer[event.from] # msg.by)
  /\ UNCHANGED <<fds, metadata, fdsCap, metadataCap, result, clientVars, peer, revents, table,
                 mainVars, removal>>

\* Mutant: the sender is sent its own message.
SendNextToSender ==
  /\ wpc = "send" /\ widx <= wlen
  /\ Delivers(table[msg.topic].cells[widx], msg)
  /\ widx' = widx + 1
  /\ UNCHANGED <<listVars, clientVars, peer, sharedVars, mainVars, wpc, wlen, disturbed,
                 removal, stale>>

\* prepare_and_send_message to the next cell of the array, whose memory the map
\* goes on using: a failure ends the server.
SendNext ==
  /\ wpc = "send" /\ widx <= wlen
  /\ LET s == table[msg.topic].cells[widx] IN
       \/ s = event.from /\ UNCHANGED <<inbox, status>>
       \/ s # event.from /\ Delivers(s, msg) /\ UNCHANGED status
       \/ s # event.from /\ SendFails(s) /\ status' = "exited" /\ UNCHANGED inbox
  /\ widx' = widx + 1
  /\ stale' = (stale \/ widx > table[msg.topic].len)
  /\ UNCHANGED <<fds, metadata, fdsCap, metadataCap, result, clientVars, peer, sharedVars, mainVars,
                 wpc, wlen, disturbed, removal>>

\* Mutant: the loop ends before the last receiver.
PublishedEarly ==
  /\ wpc = "send" /\ widx >= wlen
  /\ Done
  /\ UNCHANGED <<listVars, clientVars, peer, inbox, revents, table, mainVars, removal, stale>>

\* Mutant: the break between PUBLISH and ERROR is missing.
PublishedFallsThrough ==
  /\ wpc = "send" /\ widx > wlen
  /\ event.from \in Listed
  /\ RemoveStart("worker", event.from) /\ wpc' = "remove"
  /\ UNCHANGED <<listVars, clientVars, peer, inbox, revents, table, place, mainVars,
                 widx, wlen, disturbed, stale>>

Published ==
  /\ wpc = "send" /\ widx > wlen
  /\ Done
  /\ UNCHANGED <<listVars, clientVars, peer, inbox, revents, table, mainVars, removal, stale>>

\* An ERROR message: server_state_remove_client, whose result is ignored.
RemoveSender ==
  /\ wpc = "idle" /\ Handles("error")
  /\ RemoveStart("worker", event.from)
  /\ wpc' = "remove"
  /\ UNCHANGED <<listVars, clientVars, peer, inbox, sharedVars, mainVars,
                 widx, wlen, disturbed, stale>>

\* Any other type.
Ignore ==
  /\ wpc = "idle" /\ Handles("rest")
  /\ Done
  /\ UNCHANGED <<listVars, clientVars, peer, inbox, revents, table, mainVars, removal, stale>>

-------------------------------------------------------------------------------
ClientNext(c) ==
  \/ Connect(c) \/ Connected(c) \/ Close(c)
  \/ \E type \in {"subscribe", "publish", "error"}, topic \in Topics : Send(c, type, topic)

MainNext ==
  \/ PollCall \/ PollReturn \/ Examine \/ Test \/ Mark \/ ScanEnd \/ Accept \/ Greet
  \/ Read \/ Take \/ Refuse \/ RemoveMarked \/ AllRemoved

WorkerNext ==
  \/ FindIndex \/ InsertTopic \/ SetTopic \/ GetReceivers \/ SendNext \/ Published
  \/ RemoveSender \/ Ignore

RemoveNext(th) == Search(th) \/ RemoveTopic(th) \/ RemoveClose(th) \/ RemoveFromList(th)

Next ==
  /\ status = "running"
  /\ \/ \E c \in Clients : ClientNext(c)
     \/ MainNext \/ WorkerNext
     \/ \E th \in Threads : RemoveNext(th)

Spec == Init /\ [][Next]_vars

-------------------------------------------------------------------------------
(* Properties *)

Received == Message \cup {Receipt, Refusal}

\* Type invariant of the server and its clients.
ServerTypeOK ==
  /\ ListTypeOK
  /\ conn \in [Clients -> {"new", "connecting", "connected", "failed", "closed"}]
  /\ pending \in Seq(Clients)
  /\ peer \in [Descriptors -> Clients \cup {NoClient}]
  /\ Len(revents) = Len(fds)
  /\ \A topic \in Topics : table[topic].len <= Len(table[topic].cells)
  /\ Len(place) <= 1 /\ (wpc # "idle" => Busy)

\* Whatever is stale, and with a descriptor listed twice: pollfds and metadata stay in
\* step through the adds and removals of both threads, and no removal ever takes the
\* listening socket out of the first place, so the server stays open to new clients.
ListSound ==
  /\ InStep /\ CapacityHolds
  /\ fds # <<>> /\ fds[1] = Listener
  /\ \A i \in 2..Len(fds) : fds[i] # Listener

\* A client the server was connected to and has dropped.
Dropped(c) ==
  conn[c] \in {"connecting", "connected", "failed"} /\ ~Linked(c)
    /\ \A i \in DOMAIN pending : pending[i] # c

\* Whatever the interleaving, the server only ever ends, by exit, a signal or
\* undefined behaviour, after some client has left, or a read has not taken exactly
\* one message.
OnlyLeavingEndsIt ==
  status # "running" => \E c \in Clients : Closed(c) \/ Dropped(c) \/ c \in broken

\* process_poll_events removes only clients that have disconnected.
OnlyDisconnectedRemoved ==
  ~stale => \A s \in Descriptors : MainRemoves(s) => peer[s] = NoClient \/ Closed(peer[s])

SentError(c) == \E i \in DOMAIN sent[c] : sent[c][i].type = "error"

\* Until a thread has used remembered data that was out of date, the server drops
\* only clients that sent an ERROR message, or of whom a read took not exactly one
\* message.
OnlyErrorsAreDropped ==
  ~stale => \A c \in Clients : Dropped(c) => SentError(c) \/ c \in broken

\* Until then, an event whose sender is still connected is handled for its sender.
HandledForSender ==
  ~stale /\ Busy /\ ~Closed(msg.by) /\ Linked(msg.by) => peer[event.from] = msg.by

Quiet == wpc \in {"idle", "send"} /\ \A th \in Threads : removal[th].stage = "none"

\* Until then, and between two changes, client list, hash map and kernel agree: the
\* clients listed are connected, each has its own metadata, and a topic's entry
\* holds each of the clients that have the topic in their metadata, once.
BooksAgree ==
  ~stale /\ Quiet /\ status = "running" =>
    /\ \A i \in DOMAIN fds : metadata[i].owner = fds[i]
    /\ \A s \in Listed \ {Listener} : peer[s] # NoClient
    /\ \A topic \in Topics :
         LET sockets == CellsOf(table[topic]) IN
           /\ \A i, j \in DOMAIN sockets : sockets[i] = sockets[j] => i = j
           /\ {sockets[i] : i \in DOMAIN sockets} =
                {fds[i] : i \in {k \in DOMAIN fds : \E j \in DOMAIN metadata[k].topics :
                                                     metadata[k].topics[j] = topic}}

\* Until then a client's first message is the receipt of its connection; it receives
\* refusals of its own publications, and publications of others on topics it asked
\* for, each at most once and those of one sender in the order they were sent.  Of
\* one whose messages were cut or merged neither asking nor order is known.
OnceInOrder ==
  ~stale => \A c \in Clients : \A i \in DOMAIN inbox[c] :
    /\ inbox[c][i] = Receipt <=> i = 1
    /\ inbox[c][i].type = "publish" =>
         LET m == inbox[c][i] IN
           /\ m.by # c
           /\ c \notin broken =>
                \E k \in DOMAIN sent[c] : sent[c][k].type = "subscribe" /\ sent[c][k].topic = m.topic
           /\ m.by \notin broken =>
                \A j \in 1..(i - 1) :
                  inbox[c][j].type = "publish" /\ inbox[c][j].by = m.by => inbox[c][j].n < m.n

\* A publication during which no client was taken out of an entry has reached every
\* subscriber that is still there.
ReachesAll ==
  [][Published /\ ~stale /\ ~disturbed =>
       LET sockets == CellsOf(table[msg.topic]) IN
         \A i \in DOMAIN sockets :
           \/ sockets[i] = event.from \/ Closed(peer[sockets[i]])
           \/ \E k \in DOMAIN inbox[peer[sockets[i]]] : inbox[peer[sockets[i]]][k] = msg]_vars
===============================================================================
