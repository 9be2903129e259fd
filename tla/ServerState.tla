------------------------------ MODULE ServerState -----------------------------
(***************************************************************************)
(* The state of the server, handlers/server_states.c: the client list and  *)
(* the hash map of topics, which have to tell the same story.  The         *)
(* metadata of a client lists the topics it subscribed to; the entry a     *)
(* topic finds in the map lists the sockets a message on it goes to.       *)
(*                                                                         *)
(* Here every operation runs to its end before the next one starts, as if  *)
(* the dispatcher and the worker of the pool never ran at once.            *)
(***************************************************************************)
EXTENDS ClientList, HashMapOps

CONSTANTS
  Listener,   \* the server's own socket
  MaxTopics   \* bound on the number of topics of one client

ASSUME ListenerAssumption == Listener \in Sockets
ASSUME MaxTopicsAssumption == MaxTopics \in Nat \ {0}
ASSUME TopicsAssumption == Topics \subseteq Strings

LOCAL INSTANCE SequencesExt

VARIABLES
  topics    \* s->topics: the hash map

vars == <<listVars, topics>>

Clients == Sockets \ {Listener}

\* server_state_init: the listening socket is the first of the list.
Init ==
  /\ fds = <<Listener>>
  /\ metadata = <<NewMetadata(Listener)>>
  /\ fdsCap = InitialCap
  /\ metadataCap = InitialCap
  /\ status = "running"
  /\ result = TRUE
  /\ topics = EmptyMap

-------------------------------------------------------------------------------
TopicsOf(s) == metadata[GetIdx(s)].topics

\* strncmp(md_topic, topic, topic_len) == 0 for some topic of the metadata.
AlreadySubscribed(s, topic) ==
  \E i \in DOMAIN TopicsOf(s) : IsPrefix(topic, TopicsOf(s)[i])

\* server_state_add_client
AddClient(s) == ListAdd(s) /\ UNCHANGED topics

\* Mutant: a topic is not looked for in the metadata.
AddTopicAlways(s, topic) ==
  /\ status = "running" /\ s \in Listed /\ Len(TopicsOf(s)) < MaxTopics
  /\ metadata' = [metadata EXCEPT ![GetIdx(s)].topics = Append(@, topic)]
  /\ topics' = AfterSet(topics, topic, s)
  /\ result' = TRUE /\ UNCHANGED <<fds, fdsCap, metadataCap, status>>

\* server_state_add_client_topic for a client of the list.
AddTopic(s, topic) ==
  /\ status = "running"
  /\ s \in Listed
  /\ \/ /\ AlreadySubscribed(s, topic)
        /\ UNCHANGED <<metadata, topics>>
     \/ /\ ~AlreadySubscribed(s, topic)
        /\ Len(TopicsOf(s)) < MaxTopics
        /\ metadata' = [metadata EXCEPT ![GetIdx(s)].topics = Append(@, topic)]
        /\ topics' = AfterSet(topics, topic, s)
  /\ result' = TRUE
  /\ UNCHANGED <<fds, fdsCap, metadataCap, status>>

\* server_state_add_client_topic for a client that has gone: the index is -1 and
\* what is before the array is taken for metadata.
AddTopicGone(s, topic) ==
  /\ status = "running"
  /\ s \notin Listed
  /\ status' = "undefined"
  /\ UNCHANGED <<fds, metadata, fdsCap, metadataCap, result, topics>>

\* The map after the sockets s were taken out of the entries of names, in order,
\* up to the first failure of hash_map_remove_value.
Withdraw(names, s) ==
  LET after[n \in 0..Len(names)] ==
        IF n = 0 THEN [ok |-> TRUE, map |-> topics]
        ELSE LET before == after[n - 1] IN
               IF ~before.ok THEN before
               ELSE [ok  |-> RemoveValueResult(before.map, names[n], s),
                     map |-> AfterRemoveValue(before.map, names[n], s)]
  IN  after[Len(names)]

\* Mutant: the last topic of the metadata is not visited.
RemoveClientButLast(s) ==
  /\ s \in Listed
  /\ LET names == TopicsOf(s)
         out == Withdraw(SubSeq(names, 1, Len(names) - 1), s) IN
       topics' = out.map /\ ListRemove(s)

\* server_state_remove_client
RemoveClient(s) ==
  /\ status = "running"
  /\ \/ /\ s \notin Listed
        /\ result' = FALSE
        /\ UNCHANGED <<fds, metadata, fdsCap, metadataCap, status, topics>>
     \/ /\ s \in Listed
        /\ LET out == Withdraw(TopicsOf(s), s) IN
             /\ topics' = out.map
             /\ \/ out.ok /\ ListRemove(s)
                \/ ~out.ok /\ result' = FALSE
                           /\ UNCHANGED <<fds, metadata, fdsCap, metadataCap, status>>

Next ==
  \E s \in Clients :
    \/ AddClient(s) \/ RemoveClient(s)
    \/ \E topic \in Topics : AddTopic(s, topic) \/ AddTopicGone(s, topic)

Spec == Init /\ [][Next]_vars

-------------------------------------------------------------------------------
(* Properties *)

\* The sockets publish_message goes through for a message on topic: those of the
\* entry that hash_map_get finds.  It passes over the sender's own.
Receivers(topic) == IF Found(topics, topic) THEN ValuesOf(topics, topic) ELSE <<>>

\* Type invariant of struct server_state.
StateTypeOK ==
  /\ ListTypeOK
  /\ topics \in [0..(Rows - 1) ->
                   [live : BOOLEAN, entries : Seq([key : Topics, value : Seq(Sockets)])]]

\* The places in the metadata of client i of topics that lead to entry e of row r.
LeadingTo(i, r, e) ==
  {j \in DOMAIN metadata[i].topics :
     RowOf(metadata[i].topics[j]) = r /\ Match(topics, metadata[i].topics[j]) = e}

\* The books balance, prefixes and collisions notwithstanding: a socket stands in
\* an entry of the map as often as the metadata of its client have topics that
\* lead to that entry, and no socket stands there that is not in the client list.
\* So a removed client leaves nothing behind, and a new client that is given the
\* same descriptor receives nothing that was meant for the old one.
BooksBalance ==
  \A r \in DOMAIN topics : \A e \in DOMAIN topics[r].entries :
    LET sockets == topics[r].entries[e].value IN
      /\ \A i \in DOMAIN fds : Occurrences(sockets, fds[i]) = Cardinality(LeadingTo(i, r, e))
      /\ \A j \in DOMAIN sockets : sockets[j] \in Listed

\* A topic of the metadata always finds an entry.
TopicsAreFound ==
  \A i \in DOMAIN metadata : \A j \in DOMAIN metadata[i].topics :
    Found(topics, metadata[i].topics[j])

\* Removing a client that is in the list succeeds and removes it.  (When it fails
\* process_poll_events ends the server.)
RemovalSucceeds ==
  [][\A s \in Clients :
       RemoveClient(s) /\ s \in Listed => result' /\ s \notin {fds'[i] : i \in DOMAIN fds'}]_vars

\* A topic that no other topic begins, and that begins no other.
Plain(topic) ==
  \A other \in Topics \ {topic} : ~IsPrefix(topic, other) /\ ~IsPrefix(other, topic)

\* A message on a plain topic reaches exactly the subscribers of that topic, each
\* of them once, whatever other topics share its row.
ExactDelivery ==
  \A topic \in {name \in Topics : Plain(name)} :
    /\ \A i \in DOMAIN fds :
         (\E j \in DOMAIN metadata[i].topics : metadata[i].topics[j] = topic)
           <=> fds[i] \in ToSet(Receivers(topic))
    /\ IsInjective(Receivers(topic))

\* A topic has at most one entry in the whole map, and it is in the row of the
\* topic's hash: an entry anywhere else could be set but never got.
OneEntryPerTopic ==
  \A r, q \in DOMAIN topics :
    \A i \in DOMAIN topics[r].entries, j \in DOMAIN topics[q].entries :
      /\ RowOf(topics[r].entries[i].key) = r
      /\ topics[r].entries[i].key = topics[q].entries[j].key => r = q /\ i = j
===============================================================================
