# A TLA+ model of jm_bus

jm_bus is a small publish/subscribe message bus in C. A server accepts TCP
connections; a client subscribes to topics and publishes messages; the server
passes a message on to every other client that subscribed to its topic. Paths
below are relative to `src/`.

## Inventory

| component | state | operations | what makes it correct |
|---|---|---|---|
| thread pool, `common/structures/thread_pool.c` | array of jobs; a job has an event, an atomic `occupied`, a mutex, a condition variable, a thread | `thread_pool_create`, `thread_pool_start_job`, `thread_pool_destroy` | an event handed over is handled once, in order, and never while it is being written; calls return |
| worker loop, `process_messages` in `common/handlers/connections.c` | its job | wait, handle the messages, free them, release the job | takes every event it is woken for, and becomes free again |
| main loop, `server/main.c`, `connections.c` | the listening socket, the live `pollfd` array | `poll`, `accept_messages`, `process_poll_events` | results of `poll` go to the client they are for; one client's failure is not the server's |
| server state, `common/handlers/server_states.c` | client list + hash map of topics | add client, add topic, remove client | list and map tell the same story |
| client list, `common/handlers/client_list.c` | two arrays, `fds` and `metadata` | add, remove, get index | the arrays stay in step |
| hash map, `common/structures/hash_map.c`, `common/helpers/strings.c` | rows of entries (key, array of values) | set, get, remove, remove_value | behaves like a table |
| dynamic arrays, `common/helpers/array.c`, and the generated ones of cstd | items, length, capacity | swap-remove, resize, insert | length within capacity, items neither lost nor doubled |
| messages, `common/handlers/messages.c`, `common/helpers/bytes.c` | byte arrays | encode, read from a socket, split | what is sent is what is read |
| client library, `common/handlers/client.c` | a socket | connect, subscribe, publish, read | follows the server's protocol |
| sockets, logging, time, the two client programs | none | thin wrappers | |

How they interact: the main loop (the *dispatcher*) polls the client list. For a
readable client it reads messages and calls `thread_pool_start_job` with an event
(sender socket, messages). A worker of the pool handles the event: a subscription
changes the server state, a publication goes through the receivers found in the
hash map and sends to each, an unsubscription or a disconnect removes the client.
Dispatcher and worker share the job, the client list (own mutex), the hash map (own
mutex) and, without any lock, the `pollfd` array that `poll` writes into. The server
never leaves its loop (`running` in `server/main.c` is never set to false), so
`server_state_free` and with it `thread_pool_destroy` are part of the interface but
not reached by the program.

Hard behaviours: the handshake over `occupied`, mutex and condition variable
(waits without a predicate, signals without the mutex, a compare-exchange whose
expected value is overwritten); the two arrays of the client list; prefix comparison
of keys; the state shared by dispatcher and worker; TCP messages split and joined.
`PROJECT.json` lists every hazard at its line.

## Modules

| module | models | state and actions |
|---|---|---|
| `ThreadPool` | pool + worker loop | `threads` is `pool->threads` with each worker's program counter, `pc`, `idx`, `found` are the dispatcher's place and its locals. One action per step another thread can observe: the compare-exchange (`CasSucceeds`, `CasFails`), the write of the event (`HandOver`), the signals, the waits, `pthread_create`, and for the worker `Announce`, `Wait`, `Wake`, `Process`, `Free`, `Release` |
| `JobMailbox` | what the pool promises | a mailbox with one place; an offered event is taken or refused, and leaves the place only by being served or with the box |
| `ThreadPoolProofs`, `ClientListProofs`, `ServerProofs`, `HashMapProofs`, `ServerStateProofs`, `MessagesProofs` | theorems about the module each is named for | |
| `ArraysProofs`, `HashMapOpsProofs` | lemmas about the operators the others share | |
| `Arrays` | `array.c`, cstd inserts | `SwapRemove`, `CapAfterInsert`, `FirstIndex` |
| `ClientList` | `client_list.c` | one action per call (each holds the mutex throughout), the two failures of `client_list_add` as actions of their own |
| `HashMapOps` | `hash_map.c` as operators | `HashFromStr` with its width, `RowOf` and `RowOfInt` (the row `hash_map_remove` computes through an `int`), `Match` (the prefix comparison), `AfterSet`, `AfterRemove`, `AfterRemoveValue` |
| `HashMap`, `MCHashMap` | the map as a state machine | `Set`, `Remove`, `RemoveValue` |
| `TopicTable` | what the map promises when no key is the beginning of another | a table from keys to bags |
| `ServerState`, `MCServerState` | `server_states.c` over `ClientList` and `HashMapOps` | `AddClient`, `AddTopic`, `AddTopicGone`, `RemoveClient`, each run to its end; `Receivers` is the loop of `publish_message` |
| `Server`, `MCServer` | dispatcher, worker and clients over `ClientList`, with the kernel's descriptors | `mpc`, `slot`, `hand`, `marked` are the place and the locals of `process_poll_events`, `wpc`, `widx`, `wlen` those of `process_messages`, `removal` those of `server_state_remove_client` in either thread; `peer` is the kernel's table of descriptors, `revents` what `poll` left in each pollfd, `table` the map, `place` the pool. Clients: `Connect`, `Connected`, `Send`, `Close`. Dispatcher: `PollCall`, `PollReturn`, `Examine`, `Test`, `Mark`, `ScanEnd`, `Accept`, `Greet`, `Read`, `Take`, `Refuse`, `RemoveMarked`, `AllRemoved`. Worker: `FindIndex`, `InsertTopic`, `SetTopic` (a subscription), `GetReceivers`, `SendNext`, `Published` (a publication), `RemoveSender`, `Ignore`. Both: `Search`, `RemoveTopic`, `RemoveClose`, `RemoveFromList` |
| `Messages`, `MCMessages` | `messages.c`, `bytes.c`, the reading part of `process_poll_events` | `stream` is the bytes under way, `buf` what `read_all_raw_bytes` collects, `start` how far `byte_data` was moved, `pc` the reader's place. `Send`, `Close`; `StartRead`, `HangUp`, `Recv` (any portion of the stream), `RecvEnd`, `RecvFails`; one action per outcome of `messages_read` |

A condition variable is the set of the threads blocked on it; a signal with nobody
blocked is lost. Event `n` is the event of the n-th call; handling an event is one
step of `ThreadPool`. `pool->lock` is only taken by the dispatcher and is left out.

`Server` opens that step up and closes the pool in return: an event is taken if the
place is empty, and may always be refused, which is `JobMailbox`, and `pool` and
`PoolIsMailbox` show that the pool implements it. A step of `Server` ends wherever the
other thread can get in between: at each lock and unlock, and at each read or system call
outside them. What a thread read before and uses after such a point is a variable. So
`process_poll_events` looks at a pollfd up to four times (`Examine` its socket and a hang-up, `Test` the rest,
`Read` its socket for `recv`, and `Mark` or `Take` its socket once more), and the
search of `server_state_remove_client` locks the list once for each index (`Search`). The exceptions,
where two reads are one step: `fd` and the first `revents` (`connections.c:80-85`), and the
tests for POLLIN and POLLNVAL (`:88`, `:103`).

`Read` has the outcomes of `message_array_generate_from_client`, whose bytes are in `Messages`:

- `ReadOne`: exactly one message has arrived whole, and is handed over.
- `ReadPart`: only a part of a message has arrived, or what is read begins with the rest of one. If
  it ends before the body there is no message, and the client is marked; if it is cut inside
  the body it is handed over with a wrong body; the rest of a message is taken for whatever its bytes say.
- `ReadAstray`: more than one message, after which the buffer is freed in its middle, or a part
  after which a field is freed that was never set. The program is undefined from there.
- `ReadNothing`: the client has closed. `RecvFails`: the copy out of bounds.

Three histories are not in the code. `broken` has the clients of whom a read took not exactly one
message. The others mark the states in which remembered data was used although it was out of date:

- `stale`: a thread wrote, looked up, closed or removed something by an index or a descriptor
  that had come to mean something else (the places are those that set `stale'`).
- `disturbed`: a socket was taken out of an entry while `publish_message` went through it.

An event whose sender has closed is not stale as long as its descriptor has not been given away: the publications of
a client that publishes and leaves at once are among those the properties are about.

The code does go wrong after that, in the ways listed below, so what is true of it is
that it keeps its promises until then, and that some of them hold whatever happens
(`ListSound`, `OnlyLeavingEndsIt`). The same goes for `broken`: TCP gives no whole messages, so which of the
promises a client with a cut message still enjoys is part of each property.

Outside the repository and assumed: the arrays of cstd append, double their capacity
when full and start with the capacity asked for; the POSIX calls behave as their
standard says, except that spurious wakeups are a constant.

## Runs

| run | what it asks | result |
|---|---|---|
| `pool` | no spurious wakeups, four calls, failing `pthread_create`: event and worker never meet, the pool implements the mailbox, what a dead job means, which waits end | holds |
| `pool_spurious` | the same with spurious wakeups: each event at most once and in order | holds |
| `pool_dropped` | "Start a job ... True for success" (`thread_pool.h:45`) of a pool "spawning and reusing threads" (`:32`) with 100 as "initial size" (`:39`, `server_states.c:42`) | violated: a busy worker and the event is dropped, with `true`; there is never a second thread |
| `pool_lost_signal` | "signal for the job to start" (`thread_pool.c:43`) | violated: the signal falls between `Release` and `Wait` |
| `list` | adds, failed adds and removes: arrays in step, within capacity | holds |
| `list_shrink` | "cut gap size in half to reclaim memory" (`client_list.c:13`) | violated: `array_resize` frees what it returns |
| `map` | keys without common beginnings, all in one row: a table of bags | holds |
| `state` | prefix topics: books of list and map balance, removal succeeds, plain topics are delivered exactly | holds |
| `server` | dispatcher, worker and two clients that connect, subscribe, publish, send errors and leave at any moment, with reads that take one message, a part of one, or several and end the server: the list stays sound, nothing else ends the server as long as nobody leaves; and until stale data is used, only clients that sent an error are dropped, events are handled for their sender, list, map and kernel agree, publications arrive once and in order, and an undisturbed publication reaches every subscriber | holds |
| `server_split` | "removing clients that have disconnected" (`connections.h:22`) | violated: a client that stays is removed because a read took a part of its message |
| `messages` | three messages, `recv` in any portions, the connection closed at any time: reads that end with a message are exact, and the reader gets stuck only after whole buffers | holds |
| `messages_batch` | "Generate an array of parsed messages" (`messages.h:71`) | violated: with two messages in a read, `byte_array_free` gets a pointer into the block |

Bounds and why they are enough:

- `MaxEvents = 4`. There is never a second job, so the first call makes the thread, the
  second may reuse the job, the third meet it busy or dead, and the fourth shows what
  follows. With three the runs already have every violation.
- `InitialCap = 2`, `MaxGap = 2` for 100 and 100, five sockets: the list outgrows its first
  capacity once or twice and can fall below it again, as with 100 and 400 sockets.
- `Rows = 3` for 1000, `HashSize = 2^24`, `IntSize = 2^20` for 2^64 and 2^32: all keys of `map` share
  a row; one-letter keys fit the `int` and two-letter keys do not, as keys up to three and
  from four letters do with the real widths. A `char` is signed, so one key of `map` has a
  negative one, whose hash fits no `int`. `state` has keys in two rows.
- Two clients beside the listener, three topics each: an entry holds up to six sockets, with
  the same client twice, so each swap of a removal is met. The clients are symmetric; no
  property of these runs is a liveness property.
- `server`: two clients on two descriptors, so that a descriptor is closed while the other is in
  use, reused by the client that waits, listed twice, and swapped in the list; two messages at most of
  each client (`MaxSent`), so that a subscription is followed by a publication, a second
  publication, an error or a second subscription of either; one topic, since no topic begins
  another here (`state` has those). The capacity of the list is out of reach, the shrinking is
  `list`'s. Clients are symmetric; every property is one of states or of steps.
- `server`: three messages in all (`MaxAll`), which is a subscription of one client and two publications of the other, or two
  subscriptions and a publication. The messages of one client may be cut (`MaxBroken`), and once they are no client has sent
  a second one; both are constraints on the states explored (`FewMessages` in `MCServer`), as two messages each, cut
  anywhere, are too many states. A message arrives in at most two parts, which is enough to meet each kind of cut and a rest
  that is taken for another message. Two messages in one read end the program.
- `server_split`: one message of each client, one of them cut.
- The proofs have none of these bounds, except that a client sends at most `MaxSent` messages and at most `MaxBroken` clients have theirs
  cut, for every value of the two.

Deadlock is not checked: the pool may rightly get no further call, and the other
models stop when the program exits or becomes undefined.

Fairness (`FairSpec`, liveness properties of `pool` and `pool_lost_signal`): weak
fairness of the dispatcher's next step inside a call and of each worker's next step,
that is, both threads are scheduled. Calls, failures and spurious wakeups are never
forced. A thread blocked on a condition variable has no step, so nothing is assumed
about wakeups. `Server` assumes no fairness: the pool may drop any event, and a read may
wait for a client for ever, so nothing is promised there that must eventually happen.

## Proved

Six modules hold theorems of a specification, for every value of the constants; two hold the lemmas they
share. Every invariant that is not inductive by itself was first checked with TLC, with its strengthening,
on the instance of the run that has it.

### The pool: `ThreadPoolProofs`

For every number of calls, with and without spurious wakeups and failing `pthread_create`:

- `TypeCorrect`: `Spec => []TypeOK`, together with `ScanInv`, which relates `pc`, `idx`, `found` and the length of
  `threads`: the type of `threads[idx]` needs it. It says in particular that `found` is false only while the scan
  is at the first job: a failed compare-exchange sets it, so no second thread is ever made (`pool_dropped`).
- `OnceAndInOrder`: `Spec => []HandledInOrder`. The strengthening `OrderInv` says that the events
  handled are older than the one a job still owes, and that one older than the one being
  offered. Most steps only let a job owe less (`Quiet`), so four kinds of step remain.

and, assuming no spurious wakeups (`ASSUME ~SpuriousWakeups`; with them the statements
are false):

- `WritesAlone`: `Spec => []EventExclusive`. The strengthening `ParkedInv` says of a free job that
  it has no event and its worker is between the loop's head and the end of its wait, and that it
  stays there until `start_job` signals.
- `PoolIsMailbox`: `Spec => ImplementsMailbox`, from `OrderInv` (an offered event is not 0) and `ParkedInv`
  (the place is empty when `start_job` writes). Each step maps to `Offer`, `Take`, `Refuse`, `Serve`,
  `Close` or a stutter.
- `DeadForGood`: `Spec => DeadStaysDead`, from `ScanInv`: the scan cannot take a dead job, whose worker
  has no step.

The assumptions of `ThreadPool`'s constants: `MaxEvents` is positive, the other two are Booleans.

### Loops: `ArraysProofs`

What the search loops, the swap-removal and the counts return for any sequence. `PlacesInduction` is induction over
the places of a sequence, from the least place that fails, and `LoopRuns` that a loop over them has a state
at each. With the two, what a recursive function over the bytes of one key, one length or one
sequence of messages computes can be proved, though induction as an inference rule is out of reach.

### The client list: `ClientListProofs`

For every number of sockets and topics and with failing allocations,
`ListTypeCorrect`, `ArraysInStep` and `ListWithinCapacity` (`ListSpec => []ListTypeOK`, `[]InStep`, `[]CapacityHolds`).
They are inductive only together, as `ListInv`: `SwapRemove` moves the same client in both arrays
because they are equally long, and `InStep` says nothing while they are not, so `RoomInv` keeps
the metadata from ever being more than the pollfds. `RoomInv` also says that a capacity never
falls below the first one; that a list that stays within it is never shrunk then needs
`GapAssumption`, `InitialCap <= MaxGap`: 100 and 100 in the code, so it just holds, and `AddFailsLate`
can give the two arrays different capacities without harm to it.

### The hash map: `HashMapOpsProofs`, `HashMapProofs`

`HashMapOpsProofs` has what each operator of `hash_map.c` returns for every map: the hash is in the width of
`unsigned long` whatever the string; a key that fits the `int` has the same row in `hash_map_remove` as in the
others; which entry a prefix finds; which keys a set or a removal leaves where. On it stand

- `MapTypeCorrect`: `MapSpec => []MapTypeOK`,
- `MapIsTable`: `MapSpec => ImplementsTable`, the refinement of `TopicTable`, and
- `SmallKeysGo`: `MapSpec => SmallKeysAreRemoved`.

The last two assume `PrefixFree(Keys)`: no key begins another. Of other keys they are false (`hash_map.c:172` below), and
`map` checks them on keys that meet the hypothesis. The strengthening is that every entry's key is the only one its row finds by it, and that the row is the one its hash
gives; collisions of rows are allowed.

### The server state: `ServerStateProofs`

For every number of clients, any topics, prefixes and collisions included:

- `StateTypeCorrect`, and `BooksStayBalanced`, `TopicsStayFound`, `TopicsHaveOneEntry`:
  `Spec => []BooksBalance` and so on. They are proved together, as one ledger: a socket
  stands in an entry as often as there are topics in its metadata that lead to the entry, and a topic leads
  to the same entry as long as it is listed, because an entry is never removed and new ones come behind it.
- `RemovalsSucceed`: hence every `hash_map_remove_value` of a removal finds the socket, and
  `server_state_remove_client` never fails on a client that is listed.
- `DeliveryIsExact`: hence a topic that shares no beginning with another has exactly its subscribers as receivers.

These are about operations that run to their end one after the other, as in the C functions called by one thread.

### The running server: `ServerProofs`

For every number of clients, descriptors, topics and messages, and every interleaving of the dispatcher, the worker
and the kernel:

- `ServerTypeCorrect`, `Spec => []ServerTypeOK`, and
- `ListAlwaysSound`, `Spec => []ListSound`, with no condition on `stale`.
- `DropsAreFair`: until stale data is used, only a client that sent an ERROR, or of whom a read took not exactly one
  message, loses its connection.
- `EventsKeepTheirSender`: until then, the descriptor of an event belongs to the client that sent it, or that client
  has left.
- `BooksStayInAgreement`: until then, whenever neither thread is in the middle of a change, client list, hash map and
  kernel tell the same story.
- `MessagesOnceInOrder`: until then, a client's first message is its receipt, and after it come refusals of its own
  publications and publications of others on topics it asked for, each at most once and those of one sender in the order
  they were sent; of a client in `broken` neither what it asked for nor its order is claimed.
- `PublicationsReachAll`: until then, a publication during which no entry lost a member has, when the worker is done with
  it, reached every member of the entry except the sender and those that have closed.
- `RunsWhileAllStay`: the server ends only after a client has left or was dropped, or a read took not exactly one message,
  stale data or not.

The invariant `ServerInv` has one part for each holder of state: `KernelInv`, `ListenerInv`
(`ListInv`, and the listening socket in the first place and in no other), `MainInv`, `WorkerInv`, `RemovalInv`,
`TableInv`. The parts need each other: that a removal never swaps the listening socket away needs
that no thread ever remembers it as a client (`RemovalInv`, `MainInv`, `WorkerInv`), and that in turn holds
because a slot the dispatcher looks at beyond the first is never the listener's (`ListenerInv`),
even when the list has moved since.

`SteadyInv` adds what never goes wrong either: a client has one descriptor (`LinkInv`), every message under
way was sent by the client it names, or is made of one it sent whose messages were cut (`MailInv`), whose turn it is
(`TurnInv`), and that a removal has touched nothing while it searches and the dispatcher takes off the list what is
closed (`StageInv`). `FreshInv` is what holds while `stale` is
false, and gives the two properties about drops and senders: a marked socket, and one `poll` reported as gone, is
`Failing`, that is its client has closed or is in `broken`, and stays so until the dispatcher itself removes it; the event
being read and the one in the pool belong
to the client at the other end of their descriptor. Each step either keeps this or is one that sets `stale`.

`BooksInv` says what `BooksAgree` becomes in the middle of each change. The subscriptions of the metadata (`Subs`, each
with its place there) and the members of the entries are the same pairs, each once, apart from those that are `Cut`: a
removal has been past them, or they are in the metadata and not yet in the map. A removal that comes to close its
socket has cut all of them; only the socket it is about to take off the list may be listed and closed. A main
thread's removal may concern the sender of an event that is being handled, whose messages were cut or who has
left. As long as it searches it has taken nothing out of the map (`Untouched`), and a subscription in between makes no
difference; once it has found the client it goes on to the end (`MainRemovesOn`), so a subscription
that follows is one by a stale descriptor (`Departed`, `DepartureLasts`). A sender that is neither is one of whom
nothing has been taken out (`MainRemovesGone`), so the two halves of its subscription stay together; both threads may be removing the same client, and then the later one fails
on what the earlier has cut, and gives up. The proof showed two things about `stale` that no run on two clients can: the worker's
removal remembers an index too (`server_states.c:94`), and a removal by the worker makes what
the dispatcher remembers out of date only while it goes through the list.

The way of a message is followed by three more invariants. `InboxInv` and `LineInv` hold whatever is stale: a client numbers
its messages, nothing that arrives was not sent, and along the way from `outbox` through the dispatcher's hand and the
pool to the inboxes no message of a sender that is not in `broken` stands before an earlier one of the same sender; events may be dropped, never
swapped. `FlowInv` holds until stale data is used: the members of an entry asked for its topic, or had their messages cut (`Asked`), who is not yet
greeted has received nothing (`Ungreeted`), the receivers the loop of `publish_message` has not come to do not have
the message (`Unsent`), and, if no member was cut off meanwhile, the ones it has passed do (`Reached`). `Unsent` survives a
removal in the middle of the loop because `hash_map_remove_value` fills the gap with a socket from behind it
(`CutMovesForward`), so no receiver moves towards the end to be met again. That same move is why one can be skipped, and why
`Reached` and `ReachesAll` need that none was cut off. Both rest on `BooksInv`: an entry holds a socket once, and its sockets
are listed and open.

`CalmInv` is what holds while no client has left or been dropped and each read took one message (`~Gone`), and shows that then no step ends the server: the
list only grows, so every index looked up before stays within bounds and means the same client
(`CalmList`, `CalmIndex`); nothing is marked (`CalmMarks`, `CalmPoll`); each descriptor in the list, in an entry and in the event is
open (`CalmTable`, `CalmHand`, `CalmEvent`), so each `send` succeeds.

`SocketsAssumption`, `ClientsAssumption`, `MaxSentAssumption` and the assumptions of `ClientList` are used.

### Messages: `MessagesProofs`

For every width of a byte, of a length field and of the buffer, and every set of messages whose lengths fit
(`SendableAssumption`: the top bit of a field stays clear, which in the code means less than 2 GiB):

- `MessageIsReadBack`: bytes that begin with an encoded message are read as that message, of exactly its length. From
  `LengthIsReadBack`, by induction over the bytes of the field, and the places of the five parts.
- `MessagesTypeCorrect`, and `OnlyFullBuffersBlock`: `Spec => []StuckOnFullBuffers`, by `RecvInv`.
- `FramingIsExact`: `Spec => []WholeReadsAreExact`, and `DisconnectsTheClosed`: `Spec => []OnlyClosingDisconnects`.

The last two from `WireInv` and `FrameInv`. `WireInv` says, whatever was cut, that the bytes under way and those of the current read
are the last ones of the messages sent, each at its place; it is what `Recv` moves from one to the other. `FrameInv` says that in every step
of a read that ended at a message the messages handed over and those read so far are the first ones sent, and that what is
left begins where the next one does, so `MessageIsReadBack` applies to it.

### Only model-checked

- Liveness (`ReuseReturns`, `WokenHandles`, `StartupEnds`, `DestroyReturns`): out of the prover's reach.

## Known divergences beside the violation runs

Seen while modelling and part of the models, without a run of their own:

- `thread_pool.c:72`: the start-up wait has no predicate. If the new thread signals first, the
  dispatcher waits for ever with `pool->lock` held. `StartupEnds` says when it does end.
- `thread_pool.c:91`: `thread_pool_destroy` joins a worker that may have missed its signal;
  `DestroyReturns` says when it returns.
- `thread_pool_create(n)` makes no thread, though `thread_pool.h:37` calls `n` the initial amount, and the pool never has more than one
  (`thread_pool.c:40`, see `pool_dropped`).
- `client_list.c:63`: `client_list_add` may return false with the socket in the list.
- `hash_map.c:193`: `hash_map_remove` looks in the wrong row for most longer keys. The server
  does not call it. `SmallKeysAreRemoved` is what remains true.
- `hash_map.c:172`: a value set under `a` is stored under `ad` if that came first, and a subscriber of `ad`
  only receives what is published on `a`, since the key `a` finds the entry `ad` (`:140`).
- `messages.c:40`: a read of exactly `BUFSIZ` bytes calls `recv` again and blocks the main loop until
  that client sends more (`StuckOnFullBuffers` says that this is the only case).
- `messages.c:28`: `recv` returns -1 into a `size_t`, and the copy runs out of bounds (`RecvFails`).
- `messages.c:69-90`: a message cut by TCP is never completed. Depending on the cut it is dropped with
  the client (`server_split`), read with bytes from behind the buffer, or freed without having been set.
- `server_states.c:102`: `remove_client` closes the socket before it takes it off the list. If the other thread
  accepts a connection in between, it gets the same number and is listed twice; the removal then takes
  one of the two, and later the new client is removed for the old one's sake.
- `server/main.c:16`: `poll` writes into the live array. If the worker swap-removes meanwhile, the result of one
  socket lands on another: a client is read that has sent nothing, which blocks the server, or is dropped.
- `connections.c:94`, `:99`: the pollfd is read again after `recv`. If the list has moved, another client is marked, or
  given as the sender, or -1, which ends the worker.
- `server_states.c:83`: the search of a removal locks the list anew for each index; a client swapped behind it is not found,
  and the dispatcher calls `exit(1)`.
- `connections.c:99`: `event.from` may be closed, or reused, by the time the worker handles the event.
- `server_states.c:51`: the index of a client is used after the unlock; a removal gives its topic to another client.
- `server_states.c:94`: so is the index in `remove_client`. If the list moves under a removal, it takes the topics of
  another client out of the map, or none, and the socket stays in the map after its client has left.
- `server_states.c:68`: the topic is in the metadata before it is in the map. If the client leaves between the two,
  `remove_client` fails and `process_poll_events` calls `exit(1)`.
- `connections.c:111`: so it does when the worker has removed a marked client already.
- `connections.c:29`: `publish_message` goes through an array the map goes on using: a subscriber is skipped,
  or one that has left is sent to, and then `prepare_and_send_message` calls `exit`.
- `connections.c:60`: a client that leaves before it is greeted costs a descriptor.
- `socket.c:38`: `send` on a connection that was reset raises SIGPIPE, which ends the server.
- `server_states.c:56`: a client with topic `ad` that subscribes to `a` is told it did and
  nothing is registered.

## Plan

Done, in this order: the pool and its proofs; arrays, client list, hash map and server state; messages; the
running server with its clients; the proofs of all safety properties; the outcomes of a read from `Messages` in `Server`.

## Not modelled

- Of the server: flow control (a `send` that blocks because the receiver does not read), errors of
  `poll` and `accept` other than "nothing waits" and "no descriptor left", signals other than SIGPIPE, the length of
  the listen backlog, CONNECTION messages that a client sends whole (the worker ignores them, as it does the rest of a cut message,
  `Ignore`), a message that arrives in more than two parts.
- Failed allocations, except those of `client_list_add`.
- The large message limit of `read_all_raw_bytes`; `message_print`; what the generators of fixed messages write.
- `client_list_close_connections`, `client_list_free`, `hash_map_destroy`, `server_state_free`:
  never reached, since `running` stays true.
- Logging, time, argument parsing and the two client programs: no state that outlives a call.
