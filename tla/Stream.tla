------------------------------- MODULE Stream -------------------------------
(***************************************************************************)
(* One direction of one stream: the Stream object (libqdb/stream.cpp) of   *)
(* the end that writes, the Stream object of the end that reads, and the   *)
(* messages between them.                                                  *)
(*                                                                         *)
(* A packet is a sequence of bytes.  The writer puts its size before it    *)
(* and cuts the whole into pieces that fit a message; nothing in a message *)
(* says whether it begins a packet, the reader has to have counted.        *)
(*                                                                         *)
(* The connection is reduced to what it does to the messages of one stream:*)
(* they wait on its queue, leave it in order at some time, and go with the *)
(* stream (modules Connection, Server and Qdb are the whole of it).  Ids of*)
(* streams are not reused, so that a stream has one life.                  *)
(***************************************************************************)
EXTENDS Integers, Sequences

CONSTANTS
    Packets,          \* what is written to the stream
    qdbMaxPayloadSize,\* bytes of payload that fit a message
    Aftermaths,       \* what write() does when its stream is destroyed under it
    MaxWrites         \* bound on the packets written

Byte == 0..255

MaxPacketSize == 2147483643     \* what a QByteArray holds, with the size

ASSUME PacketsAssumption ==
    \A p \in Packets : p \in Seq(Byte) /\ Len(p) > 0 /\ Len(p) <= MaxPacketSize

ASSUME SizeAssumption == qdbMaxPayloadSize \in Nat /\ qdbMaxPayloadSize >= 4

ASSUME AftermathAssumption == Aftermaths \subseteq {"crash", "go on"}

ASSUME BoundAssumption == MaxWrites \in Nat

VARIABLES
    written,          \* history: the packets given to write()
    writer, reader,   \* whether the object exists at either end
    outgoing,         \* m_outgoingMessages of the writer's end, this stream's
    pipe,             \* sent, not received yet
    partlyReceived, incomingSize, incomingData, \* the reader's members
    delivered,        \* history: the packets of packetAvailable()
    assertsHold       \* no Q_ASSERT of receiveMessage() has failed

incoming == <<partlyReceived, incomingSize, incomingData>>
vars == <<written, writer, reader, outgoing, pipe, incoming, delivered, assertsHold>>

(* A Write carries data.  For the proofs it also says which packet, from which
   byte on; a Close says after how many packets it was asked for. *)
WriteMessage(data, packet, from) ==
    [command |-> "Write", data |-> data, packet |-> packet, from |-> from]
CloseMessage(packets) ==
    [command |-> "Close", data |-> <<>>, packet |-> packets, from |-> 0]

Message == [command : {"Write", "Close"}, data : Seq(Byte), packet : Nat, from : Nat]

TypeOK ==
    /\ written \in Seq(Packets)
    /\ writer \in BOOLEAN /\ reader \in BOOLEAN
    /\ outgoing \in Seq(Message) /\ pipe \in Seq(Message)
    /\ partlyReceived \in BOOLEAN
    /\ incomingSize \in Nat
    /\ incomingData \in Seq(Byte)
    /\ delivered \in Seq(Seq(Byte))
    /\ assertsHold \in BOOLEAN

Init ==
    /\ written = <<>> /\ delivered = <<>>
    /\ writer = TRUE /\ reader = TRUE
    /\ outgoing = <<>> /\ pipe = <<>>
    /\ partlyReceived = FALSE /\ incomingSize = 0 /\ incomingData = <<>>
    /\ assertsHold = TRUE
-----------------------------------------------------------------------------
(* The writer. *)

(* QDataStream writes an integer of 32 bits with the highest byte first. *)
Uint32(n) == <<(n \div 16777216) % 256, (n \div 65536) % 256, (n \div 256) % 256, n % 256>>

(* Read back as an int, negative from the highest bit on. *)
ReadInt32(b) ==
    16777216 * (IF b[1] >= 128 THEN b[1] - 256 ELSE b[1])
    + 65536 * b[2] + 256 * b[3] + b[4]

(* A plausible mistake: the size put before a packet counts itself. *)
WrapPacketWhole(p) == Uint32(Len(p) + 4) \o p

WrapPacket(p) == Uint32(Len(p)) \o p

NumberOfPieces(size) == (size + qdbMaxPayloadSize - 1) \div qdbMaxPayloadSize

(* A plausible mistake: pieces as long as the payload, whatever is left. *)
PiecesFromStart(p, number) ==
    LET data == WrapPacket(p)
        Start(k) == (k - 1) * qdbMaxPayloadSize
    IN  [k \in 1..NumberOfPieces(Len(data)) |->
           WriteMessage(SubSeq(data, 1, IF k * qdbMaxPayloadSize <= Len(data)
                                        THEN qdbMaxPayloadSize ELSE Len(data) - Start(k)),
                        number, Start(k))]

(* The messages of packet p, which is the number-th of the stream. *)
Pieces(p, number) ==
    LET data == WrapPacket(p)
        Start(k) == (k - 1) * qdbMaxPayloadSize
        End(k) == IF k * qdbMaxPayloadSize <= Len(data) THEN k * qdbMaxPayloadSize
                                                        ELSE Len(data)
    IN  [k \in 1..NumberOfPieces(Len(data)) |->
           WriteMessage(SubSeq(data, Start(k) + 1, End(k)), number, Start(k))]

Write(p) ==
    /\ writer
    /\ Len(written) < MaxWrites
    /\ written' = Append(written, p)
    /\ outgoing' = outgoing \o Pieces(p, Len(written) + 1)
    /\ UNCHANGED <<writer, reader, pipe, incoming, delivered, assertsHold>>

(* As the k-th piece is queued a send fails, which resets the connection and
   destroys the stream; no piece can have been sent before, because a Write is
   waited for.  The loop of write() goes on in the destroyed object: it may
   crash, or go on and put the rest on the queue the reset has just emptied. *)
WriteFails(p) ==
    /\ writer
    /\ Len(written) < MaxWrites
    /\ written' = Append(written, p)
    /\ LET pieces == Pieces(p, Len(written) + 1)
       IN  \E k \in DOMAIN pieces, aftermath \in Aftermaths :
              outgoing' = IF aftermath = "crash" THEN <<>>
                          ELSE SubSeq(pieces, k + 1, Len(pieces))
    /\ writer' = FALSE
    /\ UNCHANGED <<reader, pipe, incoming, delivered, assertsHold>>

(* A plausible mistake: the Close overtakes what waits on the queue. *)
RequestCloseFirst ==
    /\ writer
    /\ \A i \in DOMAIN outgoing : outgoing[i].command # "Close"
    /\ outgoing' = <<CloseMessage(Len(written))>> \o outgoing
    /\ UNCHANGED <<written, writer, reader, pipe, incoming, delivered, assertsHold>>

RequestClose ==
    /\ writer
    /\ \A i \in DOMAIN outgoing : outgoing[i].command # "Close"
    /\ outgoing' = Append(outgoing, CloseMessage(Len(written)))
    /\ UNCHANGED <<written, writer, reader, pipe, incoming, delivered, assertsHold>>

(* The connection sends the next message; a Close, once sent, closes this end
   and takes the messages of the stream off the queue. *)
Send ==
    /\ outgoing # <<>>
    /\ pipe' = Append(pipe, Head(outgoing))
    /\ IF Head(outgoing).command = "Close"
       THEN writer' = FALSE /\ outgoing' = <<>>
       ELSE UNCHANGED writer /\ outgoing' = Tail(outgoing)
    /\ UNCHANGED <<written, reader, incoming, delivered, assertsHold>>

(* The writer's end loses its connection, or is told that the other end has
   closed the stream. *)
WriterReset ==
    /\ writer' = FALSE /\ outgoing' = <<>>
    /\ UNCHANGED <<written, reader, pipe, incoming, delivered, assertsHold>>

(* The writer's end closes its connection: the queue is dropped for a Close. *)
WriterCloses ==
    /\ writer
    /\ writer' = FALSE /\ outgoing' = <<>>
    /\ pipe' = Append(pipe, CloseMessage(0))
    /\ UNCHANGED <<written, reader, incoming, delivered, assertsHold>>
-----------------------------------------------------------------------------
(* The reader. *)

(* A plausible mistake: the reader does not forget that it was in a packet. *)
AvailableKeepsPart(packet) ==
    /\ delivered' = Append(delivered, packet)
    /\ incomingSize' = 0 /\ incomingData' = <<>>
    /\ UNCHANGED partlyReceived

(* packetAvailable() of what has been received, and ready for the next. *)
Available(packet) ==
    /\ delivered' = Append(delivered, packet)
    /\ partlyReceived' = FALSE /\ incomingSize' = 0 /\ incomingData' = <<>>

ReceiveNext(data) ==
    LET missing == incomingSize - Len(incomingData) - Len(data)
    IN  /\ assertsHold' = (assertsHold /\ missing >= 0)
        /\ IF missing > 0
           THEN /\ incomingData' = incomingData \o data
                /\ UNCHANGED <<partlyReceived, incomingSize, delivered>>
           ELSE Available(incomingData \o data)

(* A plausible mistake: what is missing is stored for the size of the packet,
   with the size itself counted as data. *)
ReceiveFirstMissing(data) ==
    LET packetSize == IF Len(data) >= 4 THEN ReadInt32(data) ELSE 0
        dataSize   == Len(data) - 4
        rest       == SubSeq(data, 5, Len(data))
    IN  /\ assertsHold' = (assertsHold /\ Len(data) >= 4 /\ dataSize <= packetSize)
        /\ IF dataSize < packetSize
           THEN /\ partlyReceived' = TRUE
                /\ incomingSize' = packetSize - Len(data)
                /\ incomingData' = rest
                /\ UNCHANGED delivered
           ELSE Available(rest)

(* A size that is not all there is read as 0. *)
ReceiveFirst(data) ==
    LET packetSize == IF Len(data) >= 4 THEN ReadInt32(data) ELSE 0
        dataSize   == Len(data) - 4
        rest       == SubSeq(data, 5, Len(data))
    IN  /\ assertsHold' = (assertsHold /\ Len(data) >= 4 /\ dataSize <= packetSize)
        /\ IF dataSize < packetSize
           THEN /\ partlyReceived' = TRUE
                /\ incomingSize' = packetSize
                /\ incomingData' = rest
                /\ UNCHANGED delivered
           ELSE Available(rest)

ReceiveMessage(m) ==
    IF partlyReceived THEN ReceiveNext(m.data) ELSE ReceiveFirst(m.data)

(* The reader's connection handles the next message: a Write for a stream that
   is gone is answered with a Close (which comes to the writer as WriterReset),
   a Close closes the stream. *)
Receive ==
    /\ pipe # <<>>
    /\ pipe' = Tail(pipe)
    /\ IF reader /\ Head(pipe).command = "Write"
       THEN ReceiveMessage(Head(pipe)) /\ UNCHANGED reader
       ELSE /\ reader' = (reader /\ Head(pipe).command # "Close")
            /\ UNCHANGED <<incoming, delivered, assertsHold>>
    /\ UNCHANGED <<written, writer, outgoing>>

(* The reader's end closes the stream itself, or loses its connection. *)
ReaderCloses ==
    /\ reader' = FALSE
    /\ UNCHANGED <<written, writer, outgoing, pipe, incoming, delivered, assertsHold>>

Next ==
    \/ \E p \in Packets : Write(p) \/ WriteFails(p)
    \/ RequestClose \/ Send \/ WriterReset \/ WriterCloses
    \/ Receive \/ ReaderCloses

Spec == Init /\ [][Next]_vars

(* The connection keeps sending and the other end receiving. *)
FairSpec == Spec /\ WF_vars(Send) /\ WF_vars(Receive)
-----------------------------------------------------------------------------
Status == IF ~reader THEN "closed" ELSE IF writer THEN "open" ELSE "cut"

Abstract == INSTANCE PacketStream WITH status <- Status

(* Cut into pieces and put together again, packets arrive whole, once and in
   order, whatever their bytes and wherever either end closes or loses its
   connection in the middle of one (stream.cpp:55-66, 88-130). *)
ImplementsPacketStream == Abstract!Spec

(* The assertions of receiveMessage() hold: "One QdbMessage must only contain
   data from a single Stream packet" (stream.cpp:96, 112), and the first piece
   of a packet has its size (stream.cpp:105). *)
AssertionsHold == assertsHold

(* A stream that its writer asks to close delivers what was written before: the
   Close comes to the reader when it has all of that, and no half packet
   (stream.cpp:78-81). *)
OrderlyClose ==
    (reader /\ pipe # <<>> /\ Head(pipe).command = "Close" /\ Head(pipe).packet > 0)
        => Len(delivered) = Head(pipe).packet /\ ~partlyReceived

(* Every packet written to a stream that stays open is delivered, however many
   messages it takes: the reader never waits for more of a packet than there
   is (stream.cpp:99, 115). *)
EveryPacketArrives ==
    \A n \in 1..MaxWrites : Len(written) >= n ~> (Len(delivered) >= n \/ Status # "open")
=============================================================================
