----------------------------- MODULE UsbReader -----------------------------
(***************************************************************************)
(* Messages from the device to the host, packet by packet: the device's    *)
(* writing thread (UsbGadgetWriter), the host's reading thread             *)
(* (UsbConnectionReader), and QdbTransport::receive() above it.            *)
(*                                                                         *)
(* The device writes a message in one call, and the host reads in transfers*)
(* of the longest message's size.  A transfer ends with a packet that is   *)
(* not full, with a full buffer, with an error or after 500 ms.  Nobody    *)
(* sends an empty packet after a message that fills its last one, so such a*)
(* message does not end a transfer.                                        *)
(*                                                                         *)
(* Module UsbLink has the other direction, and of this one only whole      *)
(* messages that arrive alone.  The names here differ from those there, so *)
(* that UsbLinkProofs can extend both.                                     *)
(***************************************************************************)
EXTENDS Integers, Sequences

CONSTANTS
    Sizes,            \* of the device's messages, in bytes
    HeaderSize,       \* qdbHeaderSize: bytes of a message's header
    MessageSize,      \* qdbMessageSize: bytes of the longest message
    PacketSize,       \* of the endpoint
    MaxWrites         \* bound on the messages

ASSUME SizesAssumption ==
    /\ {HeaderSize, MessageSize, PacketSize, MaxWrites} \subseteq Nat \ {0}
    /\ Sizes \subseteq HeaderSize..MessageSize
    /\ HeaderSize < PacketSize
    /\ MessageSize % PacketSize = 0

VARIABLES
    (* device *)
    given,            \* history: the messages given to writeData(), by size
    signals,          \* writeAvailable signals posted to the writing thread
    inWrite,          \* the message inside write(), and what of it has gone
    (* host *)
    buffer,           \* the packets of the transfer of executeRead()
    errorCount,       \* m_errorCount of the reading thread
    newReads,         \* m_reads, with the newRead signals posted for it
    received,         \* history: what receive() has made of the reads
    cut               \* history: messages hit by a failed write or transfer

readerVars == <<given, signals, inWrite, buffer, errorCount, newReads, received, cut>>

Numbers == 1..MaxWrites
Packets == [of : Numbers, from : 0..MessageSize, size : 1..PacketSize]
NotWriting == [of |-> 0, from |-> 0]
MaxErrors == 5

Received == [of : {0} \cup Numbers, as : {"message", "garbage", "Invalid"}]

ReaderInit ==
    /\ given = <<>> /\ signals = <<>> /\ inWrite = NotWriting
    /\ buffer = <<>> /\ errorCount = 0
    /\ newReads = <<>> /\ received = <<>> /\ cut = {}
-----------------------------------------------------------------------------
(* The device. *)

(* UsbGadget::writeData(), on the main thread, returns before anything has
   been written. *)
WriteData ==
    /\ Len(given) < MaxWrites
    /\ \E size \in Sizes : given' = Append(given, size)
    /\ signals' = Append(signals, Len(given'))
    /\ UNCHANGED <<inWrite, buffer, errorCount, newReads, received, cut>>

(* UsbGadgetWriter::write() begins; it returns with the last packet. *)
BeginWrite ==
    /\ inWrite = NotWriting /\ signals # <<>>
    /\ inWrite' = [of |-> Head(signals), from |-> 0]
    /\ signals' = Tail(signals)
    /\ UNCHANGED <<given, buffer, errorCount, newReads, received, cut>>

(* A plausible mistake: a write that has failed is tried again, for ever. *)
WriteFailsRetrying ==
    /\ inWrite # NotWriting
    /\ inWrite' = [inWrite EXCEPT !.from = 0]
    /\ cut' = cut \cup {inWrite.of}
    /\ UNCHANGED <<given, signals, buffer, errorCount, newReads, received>>

(* It fails: writeDone(false) and then writeDone(true) are emitted, and neither
   is connected to anything. *)
WriteFails ==
    /\ inWrite # NotWriting
    /\ inWrite' = NotWriting
    /\ cut' = cut \cup {inWrite.of}
    /\ UNCHANGED <<given, signals, buffer, errorCount, newReads, received>>
-----------------------------------------------------------------------------
(* The host's reading thread. *)

(* The bytes of a transfer: a packet that is not full can only be its last. *)
Size(packets) ==
    IF packets = <<>> THEN 0
    ELSE (Len(packets) - 1) * PacketSize + packets[Len(packets)].size

Reading == errorCount < MaxErrors

NextPacket ==
    LET left == given[inWrite.of] - inWrite.from
    IN  [of |-> inWrite.of, from |-> inWrite.from,
         size |-> IF left < PacketSize THEN left ELSE PacketSize]

AfterPacket(p) ==
    IF p.from + p.size = given[p.of] THEN NotWriting
                                    ELSE [of |-> p.of, from |-> p.from + p.size]

(* A plausible mistake: a read takes the place of one not yet looked at. *)
TransferOverwrites ==
    /\ Reading /\ inWrite # NotWriting
    /\ LET p == NextPacket
           packets == Append(buffer, p)
       IN  /\ inWrite' = AfterPacket(p)
           /\ IF p.size < PacketSize \/ Size(packets) = MessageSize
              THEN buffer' = <<>> /\ newReads' = <<packets>> /\ errorCount' = 0
              ELSE buffer' = packets /\ UNCHANGED <<newReads, errorCount>>
    /\ UNCHANGED <<given, signals, received, cut>>

(* A packet arrives; a short one, or one that fills the buffer, ends the
   transfer, and executeRead() emits newRead(). *)
Transfer ==
    /\ Reading /\ inWrite # NotWriting
    /\ LET p == NextPacket
           packets == Append(buffer, p)
       IN  /\ inWrite' = AfterPacket(p)
           /\ IF p.size < PacketSize \/ Size(packets) = MessageSize
              THEN /\ buffer' = <<>>
                   /\ newReads' = Append(newReads, packets)
                   /\ errorCount' = 0
              ELSE /\ buffer' = packets
                   /\ UNCHANGED <<newReads, errorCount>>
    /\ UNCHANGED <<given, signals, received, cut>>

(* LIBUSB_ERROR_TIMEOUT, with or without something in the buffer. *)
TimesOut ==
    /\ Reading
    /\ buffer' = <<>>
    /\ UNCHANGED <<given, signals, inWrite, errorCount, newReads, received, cut>>

(* A plausible mistake: every error is told. *)
TransferFailsAloud ==
    /\ Reading
    /\ buffer' = <<>>
    /\ errorCount' = errorCount + 1
    /\ newReads' = Append(newReads, <<>>)
    /\ cut' = cut \cup {buffer[i].of : i \in DOMAIN buffer}
    /\ UNCHANGED <<given, signals, inWrite, received>>

(* Any other error; the fifth in a row is told and is the last. *)
TransferFails ==
    /\ Reading
    /\ buffer' = <<>>
    /\ errorCount' = errorCount + 1
    /\ newReads' = IF errorCount' = MaxErrors THEN Append(newReads, <<>>) ELSE newReads
    /\ cut' = cut \cup {buffer[i].of : i \in DOMAIN buffer}
    /\ UNCHANGED <<given, signals, inWrite, received>>
-----------------------------------------------------------------------------
(* The host's main thread. *)

(* The read begins where a message does, and has the last packet of this message
   and with it, as packets come in order and a transfer is dropped as a whole, all
   between. *)
BeginsWithMessage(read) ==
    /\ read[1].from = 0
    /\ \E i \in DOMAIN read :
          read[i].of = read[1].of /\ read[i].from + read[i].size = given[read[i].of]

(* UsbConnection::readData() and QdbTransport::receive(): one message of each
   read, whatever it begins with and whatever else it has. *)
Receive(read) ==
    IF Size(read) < HeaderSize
    THEN [of |-> IF read = <<>> THEN 0 ELSE read[1].of, as |-> "Invalid"]
    ELSE [of |-> read[1].of, as |-> IF BeginsWithMessage(read) THEN "message" ELSE "garbage"]

ReadyRead ==
    /\ newReads # <<>>
    /\ received' = Append(received, Receive(Head(newReads)))
    /\ newReads' = Tail(newReads)
    /\ UNCHANGED <<given, signals, inWrite, buffer, errorCount, cut>>

ReaderNext ==
    \/ WriteData \/ BeginWrite \/ WriteFails
    \/ Transfer \/ TimesOut \/ TransferFails
    \/ ReadyRead

ReaderSpec == ReaderInit /\ [][ReaderNext]_readerVars

ReaderFairSpec ==
    /\ ReaderSpec
    /\ WF_readerVars(BeginWrite) /\ WF_readerVars(Transfer) /\ WF_readerVars(ReadyRead)
-----------------------------------------------------------------------------
ReaderTypeOK ==
    /\ given \in Seq(Sizes) /\ Len(given) <= MaxWrites
    /\ signals \in Seq(Numbers)
    /\ inWrite \in [of : Numbers, from : 0..MessageSize] \cup {NotWriting}
    /\ buffer \in Seq(Packets)
    /\ errorCount \in 0..MaxErrors
    /\ newReads \in Seq(Seq(Packets))
    /\ received \in Seq(Received)
    /\ cut \subseteq Numbers

InPackets(n, packets) == \E i \in DOMAIN packets : packets[i].of = n

(* All of message n has been written, and nothing of it is on the way. *)
Gone(n) ==
    /\ n \in DOMAIN given /\ n # inWrite.of
    /\ \A i \in DOMAIN signals : signals[i] # n
    /\ ~InPackets(n, buffer)
    /\ \A i \in DOMAIN newReads : ~InPackets(n, newReads[i])

Whole == {received[i].of : i \in {j \in DOMAIN received : received[j].as = "message"}}

EndsTransfer(n) == n \notin cut /\ given[n] % PacketSize # 0

(* A message that is shorter than a packet is lost to a failure, or because the
   message before it did not end its transfer, and never to a timeout, to the
   reader's pauses or to what the two threads are doing (usbconnectionreader.cpp:49-75,
   qdbtransport.cpp:70-84). *)
OnlyLongMessagesAreLost ==
    \A n \in DOMAIN given :
        Gone(n) => \/ n \in Whole \/ n \in cut
                   \/ given[n] >= PacketSize
                   \/ n > 1 /\ ~EndsTransfer(n - 1)

(* The host gets the messages in order and none twice, and makes one up, or
   finds an Invalid one, only of what is left of a message of several packets,
   or after the fifth error (usbconnectionreader.cpp:64). *)
MadeUpOfLongMessages ==
    /\ \A i, j \in DOMAIN received :
          i < j /\ received[i].as = "message" /\ received[j].as = "message"
            => received[i].of < received[j].of
    /\ \A i \in DOMAIN received :
          received[i].as # "message" =>
            IF received[i].of = 0 THEN errorCount = MaxErrors /\ i = Len(received)
            ELSE given[received[i].of] > PacketSize

(* The device's writing thread is never left in a write for ever, nor a message
   behind it, unless the host's reader has given up (usbgadgetwriter.cpp:60). *)
EveryWriteEnds ==
    \A n \in Numbers :
        (n \in DOMAIN given) ~>
            (~Reading \/ (inWrite.of # n /\ \A i \in DOMAIN signals : signals[i] # n))
=============================================================================
