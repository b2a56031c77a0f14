-------------------------------- MODULE Qdb --------------------------------
(***************************************************************************)
(* A QDB connection as a whole: the host's Connection and its services,    *)
(* the device's Server and its executors, and the USB pipes between them.  *)
(*                                                                         *)
(* The pipes are reliable and in order while the cable is in.  Pulling it  *)
(* loses what was in the pipes from some message on; the host then reads   *)
(* an Invalid message after those that had arrived.  A new Connection may  *)
(* replace the old one at any time (the host server was killed, or the     *)
(* pool made another object for the device): the device is not told, and   *)
(* what the old object had not read yet is still in the pipe.              *)
(***************************************************************************)
EXTENDS QdbMessages

CONSTANTS
    Tags,             \* the services asked for
    MaxStreams,       \* bound on the streams requested of one Connection
    MaxPackets,       \* bound on the packets written to one stream
    MaxConnections,   \* bound on the Connection objects
    CanUnplug         \* whether the cable may be pulled

ASSUME BoundsAssumption ==
    /\ Tags \subseteq Nat
    /\ MaxStreams \in Nat
    /\ {MaxPackets, MaxConnections} \subseteq Nat \ {0}
    /\ CanUnplug \in BOOLEAN

VARIABLES
    hState, hOutgoing, hStreams, requests, hNextStreamId, opening, holders,
    object, hAsserts,                 \* module Connection
    dState, dOutgoing, dStreams, executors, dNextStreamId, dAsserts,
                                      \* module Server
    toDevice, toHost,                 \* the two pipes
    linkUp,                           \* the cable is in
    connections,                      \* Connection objects so far
    leaving,                          \* services that asked to close
    written, received                 \* per stream of this Connection: packets
                                      \* written, and the packets of the answers

hostVars == <<hState, hOutgoing, hStreams, requests, hNextStreamId, opening,
              holders, object, hAsserts>>
deviceVars == <<dState, dOutgoing, dStreams, executors, dNextStreamId, dAsserts>>
serviceVars == <<leaving, written, received>>
vars == <<hostVars, deviceVars, toDevice, toHost, linkUp, connections, serviceVars>>

StreamIds == 1..MaxStreams

ServiceReactions ==
    {[call |-> "none", data |-> 0], [call |-> "write", data |-> 1]}
    \cup [call : {"open"}, data : Tags]

Host == INSTANCE Connection WITH
    state <- hState, outgoing <- hOutgoing, streams <- hStreams,
    nextStreamId <- hNextStreamId, assertsHold <- hAsserts,
    DeviceMessages <- {}, Reactions <- ServiceReactions,
    Packets <- 1..MaxPackets, SendBudgets <- {}, MaxQueue <- 0

Device == INSTANCE Server WITH
    state <- dState, outgoing <- dOutgoing, streams <- dStreams,
    nextStreamId <- dNextStreamId, assertsHold <- dAsserts,
    HostMessages <- {}, EndpointStates <- {TRUE},
    MaxStreams <- MaxStreams * MaxConnections, MaxQueue <- 0

Init ==
    /\ Host!Init
    /\ Device!Init
    /\ linkUp = TRUE
    /\ connections = 1
    /\ leaving = {}
    /\ written = [id \in StreamIds |-> 0]
    /\ received = [id \in StreamIds |-> <<>>]
-----------------------------------------------------------------------------
(* The sends of one event on the host: all succeed while the cable stays in;
   when it is pulled during the event, those after the first few fail. *)
Plenty == MaxStreams + 3

Sends ==
    IF ~linkUp THEN {0} ELSE IF CanUnplug THEN {0, 1, Plenty} ELSE {Plenty}

(* What the host still reads once the cable is out: some of the messages that
   were on their way, then the failed read. *)
Arrived(pipe) ==
    {SubSeq(pipe, 1, n) \o <<QdbMessage("Invalid", 0, 0, 0)>> : n \in 0..Len(pipe)}

LinkAfter(sends, pipe) ==
    /\ linkUp' = (sends = Plenty)
    /\ IF linkUp /\ ~linkUp' THEN toHost' \in Arrived(pipe) ELSE toHost' = pipe

(* An event on the host that takes nothing from the pipe. *)
HostEvent(sends) ==
    LinkAfter(sends, toHost) /\ UNCHANGED <<deviceVars, connections>>

HostConnects ==
    \E sends \in Sends :
        /\ Host!PoolConnect(Host!Activation(toDevice, sends))
        /\ HostEvent(sends) /\ UNCHANGED serviceVars

ServiceStarts ==
    \E sends \in Sends, tag \in Tags :
        /\ hNextStreamId <= MaxStreams
        /\ Host!InitializeService(Host!Activation(toDevice, sends), tag)
        /\ HostEvent(sends) /\ UNCHANGED serviceVars

ServiceWrites ==
    \E sends \in Sends, id \in holders :
        /\ written[id] < MaxPackets
        /\ Host!ServiceWrite(Host!Activation(toDevice, sends), id, written[id] + 1)
        /\ written' = [written EXCEPT ![id] = @ + 1]
        /\ HostEvent(sends) /\ UNCHANGED <<leaving, received>>

(* EchoService::close(); once for each service. *)
ServiceCloses ==
    \E sends \in Sends, id \in holders \ leaving :
        /\ Host!ServiceClose(Host!Activation(toDevice, sends), id)
        /\ leaving' = leaving \cup {id}
        /\ HostEvent(sends) /\ UNCHANGED <<written, received>>

ServiceDestroyed ==
    \E sends \in Sends, id \in holders :
        /\ Host!ServiceDestroyed(Host!Activation(toDevice, sends), id)
        /\ HostEvent(sends) /\ UNCHANGED serviceVars

ConnectionDestroyed ==
    \E sends \in Sends :
        /\ Host!ConnectionDestroyed(Host!Activation(toDevice, sends))
        /\ HostEvent(sends) /\ UNCHANGED serviceVars

(* handleMessage() on the host, with what the services note of it. *)
HostReceives ==
    /\ toHost # <<>>
    /\ \E sends \in Sends, r \in ServiceReactions :
        LET m  == Head(toHost)
            id == m.hostStream
            delivered == m.command = "Write" /\ id \in holders
            created   == m.command = "Ok" /\ hState = "Waiting" /\ id \in requests
        IN  /\ r.call = "write" => created
            /\ r.call = "open" => delivered /\ hNextStreamId <= MaxStreams
            /\ Host!Receive(Host!Activation(toDevice, sends), m, r)
            /\ LinkAfter(sends, Tail(toHost))
            /\ written' = IF r.call = "write" THEN [written EXCEPT ![id] = 1] ELSE written
            /\ received' = IF delivered /\ object' = "live"
                           THEN [received EXCEPT ![id] = Append(@, m.data)]
                           ELSE received
            /\ UNCHANGED <<deviceVars, connections, leaving>>

(* handleMessage() on the device; what it sends is lost once the cable is out. *)
DeviceReceives ==
    /\ toDevice # <<>>
    /\ LET c == Device!HandleMessage(Device!Activation(toHost, TRUE), Head(toDevice))
       IN  Device!Commit([c EXCEPT !.toHost = IF linkUp THEN @ ELSE toHost])
    /\ toDevice' = Tail(toDevice)
    /\ UNCHANGED <<hostVars, linkUp, connections, serviceVars>>

(* The cable is pulled between two events.  Messages the device's reader has
   not taken yet are lost. *)
Unplug ==
    /\ CanUnplug /\ linkUp
    /\ linkUp' = FALSE
    /\ toHost' \in Arrived(toHost)
    /\ \E n \in 0..Len(toDevice) : toDevice' = SubSeq(toDevice, 1, n)
    /\ UNCHANGED <<hostVars, deviceVars, connections, serviceVars>>

(* qdbd stops and is started again.  The gadget goes away with it, so the host
   has seen the cable pulled; nothing of the old Server is left. *)
DeviceRestarts ==
    /\ ~linkUp
    /\ Device!Commit([Device!Activation(toHost, TRUE) EXCEPT
            !.state = "Disconnected", !.outgoing = <<>>, !.streams = Device!Nothing,
            !.executors = Device!Nothing, !.nextStreamId = 1])
    /\ toDevice' = <<>>
    /\ UNCHANGED <<hostVars, linkUp, connections, serviceVars>>

(* A new object for the device, after the old one was destroyed or its
   process died.  Messages the old one had read are gone with it. *)
NewConnection ==
    /\ connections < MaxConnections
    /\ connections' = connections + 1
    /\ Host!Commit([Host!Activation(toDevice, 0) EXCEPT
            !.state = "Disconnected", !.outgoing = <<>>, !.streams = Host!NoStreams,
            !.requests = {}, !.nextStreamId = 1, !.opening = {}, !.holders = {},
            !.object = "new", !.assertsHold = TRUE])
    /\ linkUp' = TRUE
    /\ IF linkUp THEN \E n \in 0..Len(toHost) : toHost' = SubSeq(toHost, n + 1, Len(toHost))
                 ELSE toHost' = <<>>
    /\ leaving' = {}
    /\ written' = [id \in StreamIds |-> 0]
    /\ received' = [id \in StreamIds |-> <<>>]
    /\ UNCHANGED deviceVars

Next ==
    \/ HostConnects \/ HostReceives \/ DeviceReceives
    \/ ServiceStarts \/ ServiceWrites \/ ServiceCloses \/ ServiceDestroyed
    \/ ConnectionDestroyed \/ NewConnection \/ Unplug \/ DeviceRestarts

Spec == Init /\ [][Next]_vars

(* Both event loops keep handling what has arrived, and the pool connects what
   it creates; nobody is obliged to use the connection. *)
FairSpec ==
    Spec /\ WF_vars(HostConnects) /\ WF_vars(HostReceives) /\ WF_vars(DeviceReceives)
-----------------------------------------------------------------------------
(* Every variable keeps its type (the two components' own are their TypeOK). *)
TypeOK ==
    /\ linkUp \in BOOLEAN
    /\ connections \in 1..MaxConnections
    /\ leaving \subseteq StreamIds
    /\ written \in [StreamIds -> 0..MaxPackets]
    /\ \A id \in StreamIds : received[id] \in Seq(1..MaxPackets)

(* What a service gets back is what it wrote, in order and without a gap,
   also on a new Connection that numbers its streams as an old one did and
   finds the old one's messages in the pipe. *)
EchoInOrder ==
    \A id \in StreamIds :
        /\ received[id] = [k \in 1..Len(received[id]) |-> k]
        /\ Len(received[id]) <= written[id]

Quiet == toDevice = <<>> /\ toHost = <<>>

Attached == linkUp /\ object = "live"

(* Nobody waits in silence: with nothing on its way to either side, neither
   the host nor the device it is connected to waits for an answer.  The host
   acknowledges in Waiting too, "to avoid both sides ending up waiting for
   Ok" (connection.cpp:218). *)
NobodyWaitsInSilence ==
    Quiet /\ Attached =>
        /\ hState \notin {"Waiting", "WaitingForConnection"}
        /\ hState = "Connected" => dState # "Waiting"

(* With nothing on its way, the two ends agree on which streams are open and
   on the ids of each: no stream is leaked at either end. *)
AgreementWhenQuiet ==
    Quiet /\ Attached /\ hState = "Connected" =>
        /\ dState = "Connected"
        /\ {<<h, hStreams[h]>> : h \in DOMAIN hStreams}
             = {<<dStreams[d], d>> : d \in DOMAIN dStreams}

(* No packet is lost: with nothing on its way and nothing queued, every packet
   written to a stream that is still open has been answered. *)
AllAnsweredWhenQuiet ==
    Quiet /\ Attached /\ hState = "Connected" /\ hOutgoing = <<>> =>
        \A id \in holders :
            executors[hStreams[id]] # Device!NoExecutor => Len(received[id]) = written[id]

(* No Q_ASSERT fails between ends of one version: neither those of
   processQueue() on the state in which a message is sent (connection.cpp:262,
   265, 269 and 274, server.cpp:166) nor those of Stream::receiveMessage()
   (stream.cpp:91-92), as a Write that finds a stream by one of its ids
   carries the other one too. *)
AssertionsHold ==
    /\ hAsserts /\ dAsserts
    /\ toHost # <<>> /\ object = "live" /\ hState \in {"Connected", "Waiting"} =>
         LET m == Head(toHost) IN
         m.command = "Write" /\ m.hostStream \in DOMAIN hStreams =>
             hStreams[m.hostStream] = m.deviceStream
    /\ toDevice # <<>> /\ dState # "Disconnected" =>
         LET m == Head(toDevice) IN
         m.command = "Write" /\ m.deviceStream \in DOMAIN dStreams =>
             dStreams[m.deviceStream] = m.hostStream

(* A service that waits for its stream still has its callback registered: on
   the first Connection to a device no reconnect drops it silently
   (connection.cpp:292 drops it without a call). *)
OpeningHasRequest == connections = 1 /\ object = "live" => opening \subseteq requests

(* The null Stream of an unsent acknowledgment is reached only when the cable
   is out (connection.cpp:362-363). *)
NoCrashWhilePluggedIn == linkUp => object # "crashed"

(* A Connection that is destroyed closes its streams on the device as well.
   What is left there are streams whose Ok no Connection has read yet: one, the
   Open it had just sent (connection.cpp:94-98), unless a stale Connect made it
   believe in a connection that the device had begun again since. *)
DestroyedClosesStreams ==
    linkUp /\ object = "destroyed" /\ toDevice = <<>> =>
        /\ \A d \in DOMAIN dStreams :
              \E i \in DOMAIN toHost : toHost[i] = QdbMessage("Ok", dStreams[d], d, 0)
        /\ (\A i \in DOMAIN toHost : toHost[i] # ConnectMessage) =>
              Cardinality(DOMAIN dStreams) <= 1

(* Pulling the cable reaches every service: once the failed read has been
   handled no service keeps a stream or still waits for one, whichever state
   the connection was in. *)
UnpluggingReachesServices ==
    ~linkUp /\ toHost = <<>> /\ object = "live" =>
        hState = "Disconnected" /\ holders = {} /\ opening = {}

(* However stale the pipe a new Connection finds, the reconnects it causes
   come to an end: unless it is used again, the connection falls silent. *)
EventuallyQuiet == <>[](Quiet \/ object \in {"crashed", "destroyed"})
-----------------------------------------------------------------------------
(* What the source says and the code does not do. *)

(* "Since there is no acknowledgment incoming, we also need to move onto the
   next message in the queue, otherwise it would only be sent after host sends
   us something" (server.cpp:171-173, of the same queue at the other end):
   what services have asked for is not left queued in Connected. *)
HostQueueMoves == Host!QueueEmptyWhenConnected

(* Q_ASSERT(message.hostStream() == m_hostId) in Stream::receiveMessage()
   (stream.cpp:91): a Write is handled by the stream it is for, never through
   a null pointer. *)
WriteReachesItsStream == object # "crashed"
=============================================================================
