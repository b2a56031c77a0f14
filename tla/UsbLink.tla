------------------------------ MODULE UsbLink ------------------------------
(***************************************************************************)
(* The USB link below QdbTransport: the host's UsbConnection with its      *)
(* reading thread, the device's UsbGadget with its reading and writing     *)
(* threads, and the two bulk endpoints between them.                       *)
(*                                                                         *)
(* The host writes a message as two blocking transfers, header and then    *)
(* payload; the device reads a header, learns from it how long the payload *)
(* is, and reads that.  An endpoint holds one transfer until it is read.   *)
(* Nothing marks where a message begins: the two ends agree on it only by  *)
(* having counted alike.  A host process may die between the two transfers.*)
(*                                                                         *)
(* The two ends above the link are reduced to the handshake of Connection  *)
(* and Server, and messages of a few payload sizes once it is done.        *)
(***************************************************************************)
EXTENDS Naturals, Sequences

CONSTANTS
    PayloadSizes,     \* of the messages sent after the handshake, in bytes
    MaxMessages,      \* bound on the messages of one UsbConnection, but for
                      \* those that answer a stale message
    MaxConnections,   \* bound on the UsbConnections
    MaxPulls          \* bound on pulling the cable

ASSUME LinkAssumption ==
    /\ PayloadSizes \subseteq Nat
    /\ {MaxMessages, MaxConnections, MaxPulls} \subseteq Nat

qdbHeaderSize == 16
VersionSize == 4        \* payload of Connect: the protocol version

VARIABLES
    (* host *)
    phase,            \* Connection: new, waiting, connected, gone
    connection, sent, \* UsbConnections so far; messages of this one
    writing,          \* transfers writeData() has not started yet
    hostReads,        \* m_reads, with the newRead signals posted for it
    errors,           \* m_errorCount of the reading thread
    (* cable and endpoints: at most one transfer each *)
    linkUp, pulls, out, in,
    (* device *)
    need,             \* the header executeRead() has read, if any
    reads,            \* m_reads, with the newRead signals posted for it
    toWrite           \* writeAvailable signals posted to the writing thread

hostVars == <<phase, connection, sent, writing, hostReads, errors>>
deviceVars == <<need, reads, toWrite>>
linkVars == <<linkUp, pulls, out, in>>
vars == <<hostVars, linkVars, deviceVars>>

NoHeader == [size |-> 0]
Message(isConnect, size) ==
    [from |-> connection, number |-> sent + 1, isConnect |-> isConnect, size |-> size]
Messages ==
    [from : Nat, number : Nat, isConnect : BOOLEAN, size : PayloadSizes \cup {VersionSize}]

(* What executeRead() hands on: the message of a header, with its own payload
   or with bytes that are not. *)
Reads == [header : Messages, intact : BOOLEAN]
Transfers == [part : {"header", "payload"}, of : Messages]
Errors == 0..5

TypeOK ==
    /\ phase \in {"new", "waiting", "connected", "gone"}
    /\ connection \in Nat /\ sent \in Nat
    /\ writing \in Seq(Transfers) /\ Len(writing) <= 2
    /\ hostReads \in Seq({"Connect", "Refuse", "Invalid"})
    /\ errors \in Errors
    /\ linkUp \in BOOLEAN /\ pulls \in 0..MaxPulls
    /\ out \in Seq(Transfers) /\ Len(out) <= 1
    /\ in \in Seq({"Connect", "Refuse"}) /\ Len(in) <= 1
    /\ need \in Messages \cup {NoHeader}
    /\ reads \in Seq(Reads)
    /\ toWrite \in Seq({"Connect", "Refuse"})

Init ==
    /\ phase = "new" /\ connection = 1 /\ sent = 0
    /\ writing = <<>> /\ hostReads = <<>> /\ errors = 0
    /\ linkUp = TRUE /\ pulls = 0 /\ out = <<>> /\ in = <<>>
    /\ need = NoHeader /\ reads = <<>> /\ toWrite = <<>>
-----------------------------------------------------------------------------
(* The host's main thread. *)

(* writeData(): the header as a transfer of its own, then the rest if any. *)
TransfersOf(m) ==
    <<[part |-> "header", of |-> m]>>
    \o (IF m.size > 0 THEN <<[part |-> "payload", of |-> m]>> ELSE <<>>)

(* The main thread is not inside writeData(), whose transfers block. *)
Free == writing = <<>> /\ out = <<>>

(* QdbTransport::send(); without the cable the first transfer fails. *)
Write(isConnect, size) ==
    IF linkUp
    THEN writing' = TransfersOf(Message(isConnect, size)) /\ sent' = sent + 1
    ELSE UNCHANGED <<writing, sent>>

(* Connection::connect(). *)
HostConnects ==
    /\ Free /\ phase = "new"
    /\ Write(TRUE, VersionSize)
    /\ phase' = "waiting"
    /\ UNCHANGED <<connection, hostReads, errors, linkVars, deviceVars>>

HostSends ==
    /\ Free /\ phase = "connected" /\ sent < MaxMessages
    /\ \E size \in PayloadSizes : Write(FALSE, size)
    /\ UNCHANGED <<phase, connection, hostReads, errors, linkVars, deviceVars>>

(* Connection::handleMessage(), as far as the handshake goes.  An answer that
   was not waited for is a stale one, and makes the host connect again. *)
HostReceives ==
    /\ Free /\ phase # "new" /\ hostReads # <<>>
    /\ LET answer == Head(hostReads)
           stale  == \/ answer = "Connect" /\ phase # "waiting"
                     \/ answer = "Refuse" /\ phase = "gone"
       IN  IF stale
           THEN Write(TRUE, VersionSize) /\ phase' = "waiting"
           ELSE /\ phase' = IF answer = "Connect" THEN "connected" ELSE "gone"
                /\ UNCHANGED <<sent, writing>>
    /\ hostReads' = Tail(hostReads)
    /\ UNCHANGED <<connection, errors, linkVars, deviceVars>>

(* libusb_bulk_transfer() in writeData(). *)
HostTransfers ==
    /\ linkUp /\ out = <<>> /\ writing # <<>>
    /\ out' = <<Head(writing)>>
    /\ writing' = Tail(writing)
    /\ UNCHANGED <<phase, connection, sent, hostReads, errors, linkUp, pulls, in, deviceVars>>

(* A plausible mistake: the reader gives up without a word. *)
HostReadsSilently ==
    /\ errors < 5
    /\ IF linkUp
       THEN /\ in # <<>>
            /\ in' = <<>>
            /\ hostReads' = hostReads \o in
            /\ errors' = 0
       ELSE errors' = errors + 1 /\ UNCHANGED <<in, hostReads>>
    /\ UNCHANGED <<phase, connection, sent, writing, linkUp, pulls, out, deviceVars>>

(* The host's reading thread: UsbConnectionReader::executeRead(). *)
HostReads ==
    /\ errors < 5
    /\ IF linkUp
       THEN /\ in # <<>>
            /\ in' = <<>>
            /\ hostReads' = hostReads \o in
            /\ errors' = 0
       ELSE /\ errors' = errors + 1
            /\ hostReads' = IF errors' = 5 THEN Append(hostReads, "Invalid") ELSE hostReads
            /\ UNCHANGED in
    /\ UNCHANGED <<phase, connection, sent, writing, linkUp, pulls, out, deviceVars>>
-----------------------------------------------------------------------------
(* The device's reading thread: UsbGadgetReader::executeRead(). *)

Length(t) == IF t.part = "header" THEN qdbHeaderSize ELSE t.of.size

(* A plausible mistake: what is shorter than a header passes for one. *)
ReadTransferAnyHeader(c, t) ==
    IF c.need = NoHeader
    THEN IF t.part = "header" /\ t.of.size > 0
         THEN [c EXCEPT !.need = t.of]
         ELSE [c EXCEPT !.reads = Append(@, [header |-> t.of, intact |-> t.part = "header"])]
    ELSE [need  |-> NoHeader,
          reads |-> IF Length(t) < c.need.size THEN c.reads
                    ELSE Append(c.reads, [header |-> c.need,
                                          intact |-> t = [part |-> "payload", of |-> c.need]])]

(* A plausible mistake: after a short payload the reader waits for the rest. *)
ReadTransferWaitingForRest(c, t) ==
    IF c.need = NoHeader
    THEN IF Length(t) < qdbHeaderSize THEN c
         ELSE IF t.part = "header" /\ t.of.size > 0
              THEN [c EXCEPT !.need = t.of]
              ELSE [c EXCEPT !.reads = Append(@, [header |-> t.of, intact |-> t.part = "header"])]
    ELSE IF Length(t) < c.need.size THEN c
         ELSE [need  |-> NoHeader,
               reads |-> Append(c.reads, [header |-> c.need,
                                          intact |-> t = [part |-> "payload", of |-> c.need]])]

(* One read() of the endpoint, for a header or for the payload of one.  A
   transfer shorter than what is asked for is dropped with the header; of a
   longer one the kernel drops the rest.  A payload taken for a header could
   ask for any number of bytes: here it asks for none. *)
ReadTransfer(c, t) ==
    LET asked == IF c.need = NoHeader THEN qdbHeaderSize ELSE c.need.size
        Emit(header, intact) ==
            [need  |-> NoHeader,
             reads |-> Append(c.reads, [header |-> header, intact |-> intact])]
    IN  IF Length(t) < asked
        THEN [c EXCEPT !.need = NoHeader]
        ELSE IF c.need # NoHeader
             THEN Emit(c.need, t = [part |-> "payload", of |-> c.need])
             ELSE IF t.part = "header" /\ t.of.size > 0
                  THEN [c EXCEPT !.need = t.of]
                  ELSE Emit(t.of, t.part = "header")

DeviceReads ==
    /\ out # <<>>
    /\ LET c == ReadTransfer([need |-> need, reads |-> reads], Head(out))
       IN  need' = c.need /\ reads' = c.reads
    /\ out' = <<>>
    /\ UNCHANGED <<hostVars, linkUp, pulls, in, toWrite>>

(* The device's main thread: Server::handleMessage() answers a Connect of its
   own version with Connect, any other with Refuse. *)
DeviceReceives ==
    /\ reads # <<>>
    /\ reads' = Tail(reads)
    /\ toWrite' = IF ~Head(reads).header.isConnect THEN toWrite
                  ELSE Append(toWrite, IF Head(reads).intact THEN "Connect" ELSE "Refuse")
    /\ UNCHANGED <<hostVars, linkVars, need>>

(* The device's writing thread: UsbGadgetWriter::write().  Without the cable
   the write fails and the message is lost. *)
DeviceWrites ==
    /\ toWrite # <<>>
    /\ linkUp => in = <<>>
    /\ in' = IF linkUp THEN <<Head(toWrite)>> ELSE in
    /\ toWrite' = Tail(toWrite)
    /\ UNCHANGED <<hostVars, linkUp, pulls, out, need, reads>>
-----------------------------------------------------------------------------
(* The cable is pulled: transfers under way fail, on both sides.  A read the
   device's thread had begun fails, and it starts over with a header; one it
   has not begun waits for the cable to come back. *)
Unplug ==
    /\ linkUp /\ pulls < MaxPulls
    /\ linkUp' = FALSE /\ pulls' = pulls + 1
    /\ writing' = <<>> /\ out' = <<>> /\ in' = <<>>
    /\ need' \in {need, NoHeader}
    /\ UNCHANGED <<phase, connection, sent, hostReads, errors, reads, toWrite>>

(* Another host process, or after an unplug another UsbConnection of the same.
   The old one is gone with what it had read or not written; its transfers
   under way may be cancelled or still complete. *)
NewConnection ==
    /\ connection < MaxConnections
    /\ connection' = connection + 1
    /\ phase' = "new" /\ sent' = 0
    /\ writing' = <<>> /\ hostReads' = <<>> /\ errors' = 0
    /\ linkUp' = TRUE
    /\ out' \in {out, <<>>} /\ in' \in {in, <<>>}
    /\ UNCHANGED <<pulls, deviceVars>>

(* qdbd is started again; its gadget had gone with it. *)
DeviceRestarts ==
    /\ ~linkUp
    /\ need' = NoHeader /\ reads' = <<>> /\ toWrite' = <<>>
    /\ UNCHANGED <<hostVars, linkVars>>

Next ==
    \/ HostConnects \/ HostSends \/ HostReceives \/ HostTransfers \/ HostReads
    \/ DeviceReads \/ DeviceReceives \/ DeviceWrites
    \/ Unplug \/ NewConnection \/ DeviceRestarts

Spec == Init /\ [][Next]_vars

(* Each thread of either end goes on with what it has to do. *)
FairSpec ==
    /\ Spec
    /\ WF_vars(HostConnects) /\ WF_vars(HostReceives) /\ WF_vars(HostTransfers)
    /\ WF_vars(HostReads)
    /\ WF_vars(DeviceReads) /\ WF_vars(DeviceReceives) /\ WF_vars(DeviceWrites)
-----------------------------------------------------------------------------
(* What the device's reading thread will make of the transfers not read yet:
   no more than the two of one message, as the next one waits for them. *)
ReadNth(c, transfers, n) ==
    IF n <= Len(transfers) THEN ReadTransfer(c, transfers[n]) ELSE c

ReadBoth(c, transfers) == ReadNth(ReadNth(c, transfers, 1), transfers, 2)

Outcome == ReadBoth([need |-> need, reads |-> reads], out \o writing)

Pipe == INSTANCE MessagePipe WITH
    Messages <- [header : Messages, intact : {TRUE}],
    Forgeries <- [header : Messages, intact : {FALSE}],
    queue <- Outcome.reads, torn <- Outcome.need # NoHeader

(* The link is a MessagePipe: a host that dies in the middle of a message, or a
   cable pulled there, costs that message and the first of the next host and
   nothing more, although usbgadgetreader.cpp:56-83 has no way to find the
   beginning of a message again.  It is found because the next host's first
   message is a Connect, whose payload is too short to pass for a header. *)
ImplementsMessagePipe == Pipe!Spec

(* A host that has an answer to its Connect counts like the device: what the
   device's thread reads next as a header is the host's next header. *)
AgreedMeansAligned == phase = "connected" /\ linkUp => Outcome.need = NoHeader

(* A Connection whose cable was pulled is told: the fifth failed read in a row
   (usbconnectionreader.cpp:59-66) is an Invalid message, and the writing
   thread is not left in a transfer for ever (usbconnection.cpp:133 waits
   without a timeout). *)
UnpluggingIsNoticed == ~linkUp ~> (linkUp \/ phase = "gone")


=============================================================================
