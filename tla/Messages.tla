------------------------------- MODULE Messages -------------------------------
(***************************************************************************)
(* The messages of handlers/messages.c: how one is written as bytes, sent  *)
(* over a TCP connection, read as far as recv gives it and split into      *)
(* messages again.  One direction of one connection, with the reader of    *)
(* process_poll_events, which calls message_array_generate_from_client     *)
(* when poll says that the socket is readable.                             *)
(*                                                                         *)
(* Memory errors end the model: badFree is a free of a pointer into a      *)
(* block, badRead a read of memory that was not set or lies behind the     *)
(* bytes received, recvError the copy loop after recv returned -1.         *)
(***************************************************************************)
EXTENDS Integers, Sequences

CONSTANTS
  Base,       \* number of values of a byte: 256
  LenBytes,   \* bytes of a length field, JM_BUS_UTF8_BYTE_LEN: 4
  BufSize,    \* BUFSIZ
  Sendable,   \* the messages that may be sent
  MaxSent     \* bound on the number of messages sent

Byte == 0..(Base - 1)

\* struct message; the type is read from a byte.
Message == [type : Byte, topic : Seq(Byte), body : Seq(Byte)]

ASSUME SizesAssumption ==
  Base \in Nat \ {0, 1} /\ LenBytes \in Nat \ {0} /\ BufSize \in Nat \ {0} /\ MaxSent \in Nat

VARIABLES
  sent,    \* the messages sent (history)
  closed,  \* the sender has closed the connection or lost it
  stream,  \* the bytes under way
  pc,      \* where the reader is
  buf,     \* the bytes of the current read
  start,   \* how far byte_data was moved into them
  msgs,    \* the messages of the current read
  got,     \* the messages of all earlier reads (history)
  whole    \* has every read so far ended at the end of a message (history)

vars == <<sent, closed, stream, pc, buf, start, msgs, got, whole>>

ReaderPc == {"idle", "recv", "parse", "disconnect", "badFree", "badRead", "recvError"}

Init ==
  /\ sent = <<>> /\ closed = FALSE /\ stream = <<>>
  /\ pc = "idle" /\ buf = <<>> /\ start = 0 /\ msgs = <<>>
  /\ got = <<>> /\ whole = TRUE

-------------------------------------------------------------------------------
(* Bytes *)

\* n, shifted right by 0 to LenBytes bytes.
Shifted(n) ==
  LET shift[i \in 0..LenBytes] == IF i = 0 THEN n ELSE shift[i - 1] \div Base
  IN  shift

\* Mutant: the bytes in the opposite order.
LengthFieldBig(n) == [i \in 1..LenBytes |-> Shifted(n)[LenBytes - i] % Base]

\* convert_64bit_to_n_utf8: the lowest byte first.
LengthField(n) == [i \in 1..LenBytes |-> Shifted(n)[i - 1] % Base]

\* convert_n_utf8_to_64bit, summed from the highest byte.  That byte is shifted as
\* an int, so with its top bit set the sum is close to 2^64, which no allocation
\* can satisfy.
LengthOf(field) ==
  LET sum[i \in 0..LenBytes] ==
        IF i = 0 THEN 0 ELSE field[LenBytes + 1 - i] + Base * sum[i - 1]
  IN  sum[LenBytes]

Huge(field) == field[LenBytes] >= Base \div 2

\* A message is sent only if its lengths fit their fields and are not taken for huge.
Fits(n) == Shifted(n)[LenBytes - 1] < Base \div 2

ASSUME SendableAssumption ==
  /\ Sendable \subseteq Message
  /\ \A m \in Sendable : Fits(Len(m.topic)) /\ Fits(Len(m.body))

\* messages_write
Encode(m) ==
  <<m.type>> \o LengthField(Len(m.topic)) \o m.topic \o LengthField(Len(m.body)) \o m.body

Size(m) == 1 + 2 * LenBytes + Len(m.topic) + Len(m.body)

-------------------------------------------------------------------------------
(* messages_read, on the bytes that are left *)

rest == SubSeq(buf, start + 1, Len(buf))

\* The bytes of rest from k to n; what is behind the buffer reads as zeros here.
Slice(k, n) == [i \in 1..(n - k + 1) |-> IF k + i - 1 <= Len(rest) THEN rest[k + i - 1] ELSE 0]

TopicField == Slice(2, 1 + LenBytes)
TopicLen == LengthOf(TopicField)
TopicEnd == 1 + LenBytes + TopicLen
BodyField == Slice(TopicEnd + 1, TopicEnd + LenBytes)
BodyLen == LengthOf(BodyField)
MessageEnd == TopicEnd + LenBytes + BodyLen

\* Too short for a topic length, or the body is missing: returns 0.
ReadsNothing ==
  \/ Len(rest) < 1 + LenBytes
  \/ /\ Len(rest) = TopicEnd + LenBytes /\ ~Huge(TopicField)
     /\ BodyLen # 0 /\ ~Huge(BodyField)

\* message_free is called on a message whose body, or whose topic, was not set.
FreesUnset ==
  /\ Len(rest) >= 1 + LenBytes
  /\ \/ Huge(TopicField)
     \/ Len(rest) = 1 + LenBytes
     \/ Len(rest) < TopicEnd + LenBytes
     \/ Huge(BodyField)

Reads == ~ReadsNothing /\ ~FreesUnset

\* Mutant: the cursor is not moved over the length of the body.
ReadMessageEarly == [type  |-> rest[1],
                     topic |-> Slice(2 + LenBytes, TopicEnd),
                     body  |-> Slice(TopicEnd + 1, TopicEnd + BodyLen)]

ReadMessage == [type  |-> rest[1],
                topic |-> Slice(2 + LenBytes, TopicEnd),
                body  |-> Slice(TopicEnd + LenBytes + 1, MessageEnd)]

-------------------------------------------------------------------------------
(* The sender: prepare_and_send_message *)

Send(m) ==
  /\ ~closed
  /\ Len(sent) < MaxSent
  /\ sent' = Append(sent, m)
  /\ stream' = stream \o Encode(m)
  /\ UNCHANGED <<closed, pc, buf, start, msgs, got, whole>>

Close ==
  /\ ~closed
  /\ closed' = TRUE
  /\ UNCHANGED <<sent, stream, pc, buf, start, msgs, got, whole>>

-------------------------------------------------------------------------------
(* read_all_raw_bytes *)

\* The bytes of the first j messages of ms, for each j.
BytesOf(ms) ==
  LET sum[j \in 0..Len(ms)] == IF j = 0 THEN 0 ELSE sum[j - 1] + Size(ms[j])
  IN  sum

\* The number of bytes of the messages after the j-th.
BytesAfter(j) == BytesOf(sent)[Len(sent)] - BytesOf(sent)[j]

AtBoundary(bytes) == \E j \in 0..Len(sent) : Len(bytes) = BytesAfter(j)

StartRead ==
  /\ pc = "idle"
  /\ stream # <<>> \/ closed
  /\ pc' = "recv"
  /\ buf' = <<>> /\ start' = 0 /\ msgs' = <<>>
  /\ UNCHANGED <<sent, closed, stream, got, whole>>

\* poll reports that the connection is lost: the client is marked without a read.
HangUp ==
  /\ pc = "idle" /\ closed
  /\ pc' = "disconnect"
  /\ buf' = <<>> /\ start' = 0 /\ msgs' = <<>>
  /\ UNCHANGED <<sent, closed, stream, got, whole>>

\* Mutant: the loop goes on as long as recv returns bytes.
RecvUntilEmpty ==
  /\ pc = "recv" /\ stream # <<>>
  /\ \E k \in 1..(IF Len(stream) < BufSize THEN Len(stream) ELSE BufSize) :
       /\ buf' = buf \o SubSeq(stream, 1, k)
       /\ stream' = SubSeq(stream, k + 1, Len(stream))
  /\ UNCHANGED <<sent, closed, pc, start, msgs, got, whole>>

\* recv gives as many bytes as happen to have arrived; after a full buffer the
\* loop calls it again, although the socket may have nothing left.
Recv ==
  /\ pc = "recv" /\ stream # <<>>
  /\ \E k \in 1..(IF Len(stream) < BufSize THEN Len(stream) ELSE BufSize) :
       /\ buf' = buf \o SubSeq(stream, 1, k)
       /\ stream' = SubSeq(stream, k + 1, Len(stream))
       /\ \/ k = BufSize /\ UNCHANGED <<pc, whole>>
          \/ k < BufSize /\ pc' = "parse" /\ whole' = (whole /\ AtBoundary(stream'))
  /\ UNCHANGED <<sent, closed, start, msgs, got>>

\* recv returns 0 on a closed connection.
RecvEnd ==
  /\ pc = "recv" /\ stream = <<>> /\ closed
  /\ pc' = "parse"
  /\ UNCHANGED <<sent, closed, stream, buf, start, msgs, got, whole>>

\* recv returns -1 on a lost connection: n, a size_t, is the largest there is.
RecvFails ==
  /\ pc = "recv" /\ closed
  /\ pc' = "recvError"
  /\ UNCHANGED <<sent, closed, stream, buf, start, msgs, got, whole>>

-------------------------------------------------------------------------------
(* message_array_generate_from_client and what process_poll_events does next *)

\* byte_array_free gets byte_data as it is, moved or not; an array without a
\* message disconnects the client, any other is handed over.
Finish(ms) ==
  \/ start # 0 /\ pc' = "badFree" /\ UNCHANGED got
  \/ start = 0 /\ ms = <<>> /\ pc' = "disconnect" /\ UNCHANGED got
  \/ start = 0 /\ ms # <<>> /\ pc' = "idle" /\ got' = got \o ms

\* Mutant: byte_data is moved whether there are bytes behind the message or not.
ParseNextAlways ==
  /\ pc = "parse" /\ rest # <<>> /\ Reads
  /\ msgs' = Append(msgs, ReadMessage)
  /\ start' = start + MessageEnd
  /\ UNCHANGED <<sent, closed, stream, pc, buf, got, whole>>

\* A message, and there are bytes behind it: byte_data is moved to them.
ParseNext ==
  /\ pc = "parse" /\ rest # <<>>
  /\ Reads /\ MessageEnd < Len(rest)
  /\ msgs' = Append(msgs, ReadMessage)
  /\ start' = start + MessageEnd
  /\ UNCHANGED <<sent, closed, stream, pc, buf, got, whole>>

\* The last message.  If it is not all there, what is behind the bytes received
\* is read instead.
ParseLast ==
  /\ pc = "parse" /\ rest # <<>>
  /\ Reads /\ MessageEnd >= Len(rest)
  /\ msgs' = Append(msgs, ReadMessage)
  /\ \/ Finish(msgs')
     \/ MessageEnd > Len(rest) /\ pc' = "badRead" /\ UNCHANGED got
  /\ UNCHANGED <<sent, closed, stream, buf, start, whole>>

\* messages_read returned 0, or nothing was received at all.
ParseNothing ==
  /\ pc = "parse"
  /\ rest = <<>> \/ ReadsNothing
  /\ Finish(msgs)
  /\ UNCHANGED <<sent, closed, stream, buf, start, msgs, whole>>

\* It is luck whether the pointer that was not set is NULL.
ParseUnset ==
  /\ pc = "parse" /\ rest # <<>>
  /\ FreesUnset
  /\ \/ Finish(msgs)
     \/ pc' = "badRead" /\ UNCHANGED got
  /\ UNCHANGED <<sent, closed, stream, buf, start, msgs, whole>>

Next ==
  \/ \E m \in Sendable : Send(m)
  \/ Close
  \/ StartRead \/ HangUp \/ Recv \/ RecvEnd \/ RecvFails
  \/ ParseNext \/ ParseLast \/ ParseNothing \/ ParseUnset

Spec == Init /\ [][Next]_vars

-------------------------------------------------------------------------------
(* Properties *)

\* Type invariant.  After a read that did not end with a message anything may be
\* taken for a message, but it is one.
TypeOK ==
  /\ sent \in Seq(Sendable)
  /\ {closed, whole} \subseteq BOOLEAN
  /\ {stream, buf} \subseteq Seq(Byte)
  /\ pc \in ReaderPc
  /\ start \in 0..Len(buf)
  /\ {msgs, got} \subseteq Seq(Message)

\* As long as every read ends with a message, writing, sending, reading and
\* splitting lose, double, reorder and alter nothing: between two reads the
\* messages sent are those handed over and those still under way.  (Of a read with
\* two messages the reader does not come back: see FreesItsOwn.)
WholeReadsAreExact ==
  whole /\ pc = "idle" =>
    \E j \in 0..Len(sent) :
      /\ got = SubSeq(sent, 1, j)
      /\ Len(stream) = BytesAfter(j)

\* As long as every read ends with a message, nothing is read that was not sent,
\* and a client is disconnected only when it has closed the connection.
OnlyClosingDisconnects ==
  whole => pc # "badRead" /\ (pc = "disconnect" => closed /\ buf = <<>>)

\* The main loop is stuck in recv, until the client sends more or closes, only if
\* the client sent a whole number of buffers.
StuckOnFullBuffers ==
  pc = "recv" /\ stream = <<>> /\ ~closed => buf # <<>> /\ Len(buf) % BufSize = 0

-------------------------------------------------------------------------------
(* What the documentation says and the code does not do *)

\* messages.h: message_array_generate_from_client is to "generate an array of
\* parsed messages from the data received".  It frees only what it allocated.
FreesItsOwn == pc # "badFree"
===============================================================================
