----------------------------- MODULE Connection -----------------------------
(***************************************************************************)
(* The host's end of a QDB connection: class Connection of                 *)
(* qdb/server/connection.cpp, with the part of the services (class Service *)
(* and its subclasses) that calls it and is called back by it.             *)
(*                                                                         *)
(* Everything runs on the event loop of the host server, so one event (a   *)
(* message to handle, a call of a service, the destruction of the object)  *)
(* runs to its end before the next.  Every function of the class is an     *)
(* operator that maps the object's state to the state it returns with;     *)
(* an action takes the state from the variables, applies the function the  *)
(* event calls, and writes the result back.                                *)
(*                                                                         *)
(* Here the device is arbitrary: any message of DeviceMessages may arrive  *)
(* at any time, and a send may fail at any time.  Module Qdb composes this *)
(* object with the device's Server instead.                                *)
(***************************************************************************)
EXTENDS QdbMessages, Functions

CONSTANTS
    DeviceMessages,   \* what the device may send
    Reactions,        \* what a service may do when called back
    Tags, Packets,    \* what services open streams for, and write to them
    SendBudgets,      \* how many sends may succeed within one event
    MaxStreams,       \* bound on the streams ever requested
    MaxQueue          \* bound on the queue length at which inputs stop

Reaction == [call : {"none", "write", "open"}, data : Nat]

ASSUME InputsAssumption ==
    /\ DeviceMessages \subseteq {m \in Message : m.command # "Open"}
    /\ Reactions \subseteq Reaction
    /\ Tags \subseteq Nat /\ Packets \subseteq Nat
    /\ SendBudgets \subseteq Nat

VARIABLES
    state,          \* m_state
    outgoing,       \* m_outgoingMessages
    streams,        \* m_streams: host id -> device id
    requests,       \* the keys of m_streamRequests
    nextStreamId,   \* m_nextStreamId
    opening,        \* ids of the services that wait for streamCreated()
    holders,        \* ids of the services whose m_stream is not null
    object,         \* the life of the object itself
    assertsHold,    \* no Q_ASSERT of processQueue() has failed
    toDevice        \* what was handed to the transport

vars == <<state, outgoing, streams, requests, nextStreamId, opening, holders,
          object, assertsHold, toDevice>>

ConnectionState == {"Disconnected", "WaitingForConnection", "Connected", "Waiting"}

(***************************************************************************)
(* The object's state as one record; sends is the number of sends that     *)
(* still succeed in the current event.                                     *)
(***************************************************************************)
Activation(wire, sends) ==
    [state |-> state, outgoing |-> outgoing, streams |-> streams,
     requests |-> requests, nextStreamId |-> nextStreamId,
     opening |-> opening, holders |-> holders, object |-> object,
     assertsHold |-> assertsHold, toDevice |-> wire, sends |-> sends]

(* Quantified over one value, which TLC then evaluates once. *)
Commit(c) ==
    \E d \in {c} :
        /\ state' = d.state
        /\ outgoing' = d.outgoing
        /\ streams' = d.streams
        /\ requests' = d.requests
        /\ nextStreamId' = d.nextStreamId
        /\ opening' = d.opening
        /\ holders' = d.holders
        /\ object' = d.object
        /\ assertsHold' = d.assertsHold
        /\ toDevice' = d.toDevice

NoStreams == [i \in {} |-> 0]

Init ==
    /\ state = "Disconnected"
    /\ outgoing = <<>>
    /\ streams = NoStreams
    /\ requests = {}
    /\ nextStreamId = 1
    /\ opening = {}
    /\ holders = {}
    /\ object = "new"
    /\ assertsHold = TRUE
    /\ toDevice = <<>>
-----------------------------------------------------------------------------
(* QdbTransport::send() where it succeeds; it fails when sends is 0. *)
Transmit(c, m) == [c EXCEPT !.toDevice = Append(@, m), !.sends = @ - 1]

(* Mutants stand before the operator they replace: each is the operator with
   one plausible mistake, which the property named in the README catches. *)
CloseStreamSilently(c, id) ==       \* stream->close() forgotten
    IF id \notin DOMAIN c.streams THEN c
    ELSE [c EXCEPT !.streams = Restrict(c.streams, DOMAIN c.streams \ {id}),
                   !.outgoing = KeepAt(c.outgoing,
                       {i \in DOMAIN c.outgoing : c.outgoing[i].hostStream # id})]

CloseStreamKeepsQueue(c, id) ==     \* the queue not purged
    IF id \notin DOMAIN c.streams THEN c
    ELSE [c EXCEPT !.streams = Restrict(c.streams, DOMAIN c.streams \ {id}),
                   !.holders = @ \ {id}]

CloseStreamClearsQueue(c, id) ==    \* clear() for erase(remove_if())
    IF id \notin DOMAIN c.streams THEN c
    ELSE [c EXCEPT !.streams = Restrict(c.streams, DOMAIN c.streams \ {id}),
                   !.holders = @ \ {id}, !.outgoing = <<>>]

(* closed() of a stream makes its service drop m_stream; closing the stream
   takes its messages off the queue. *)
CloseStream(c, id) ==
    IF id \notin DOMAIN c.streams THEN c
    ELSE [c EXCEPT !.streams = Restrict(c.streams, DOMAIN c.streams \ {id}),
                   !.holders = @ \ {id},
                   !.outgoing = KeepAt(c.outgoing,
                       {i \in DOMAIN c.outgoing : c.outgoing[i].hostStream # id})]

ForgetKeepsStreams(c) ==            \* m_streams.clear() forgotten
    [c EXCEPT !.outgoing = <<>>, !.state = "Disconnected", !.requests = {},
              !.holders = @ \ DOMAIN c.streams]

ForgetKeepsRequests(c) ==           \* m_streamRequests.clear() forgotten
    [c EXCEPT !.outgoing = <<>>, !.state = "Disconnected",
              !.holders = @ \ DOMAIN c.streams, !.streams = NoStreams]

ForgetKeepsQueue(c) ==              \* m_outgoingMessages.clear() forgotten
    [c EXCEPT !.state = "Disconnected", !.requests = {},
              !.holders = @ \ DOMAIN c.streams, !.streams = NoStreams]

(* The part of resetConnection() before the branch. *)
Forget(c) ==
    [c EXCEPT !.outgoing = <<>>, !.state = "Disconnected", !.requests = {},
              !.holders = @ \ DOMAIN c.streams, !.streams = NoStreams]

(* resetConnection(false): on disconnected() every service gives up. *)
Disconnect(c) == [Forget(c) EXCEPT !.opening = {}]

AfterSendNoClose(c, m) ==           \* the host's own end left open
    IF m.command = "Close" THEN c
    ELSE [c EXCEPT !.state = IF m.command = "Connect" THEN "WaitingForConnection"
                                                      ELSE "Waiting"]

AfterSend(c, m) ==
    CASE m.command = "Connect" ->
           [c EXCEPT !.assertsHold = @ /\ c.state = "Disconnected",
                     !.state = "WaitingForConnection"]
      [] m.command \in {"Open", "Write"} ->
           [c EXCEPT !.assertsHold = @ /\ c.state = "Connected",
                     !.state = "Waiting"]
      [] m.command = "Close" ->
           CloseStream([c EXCEPT !.assertsHold = @ /\ c.state = "Connected"],
                       m.hostStream)

(* Sends one message at most, even after a Close. *)
ProcessQueue(c) ==
    IF c.outgoing = <<>> \/ c.state \in {"Waiting", "WaitingForConnection"}
    THEN c
    ELSE LET m == Head(c.outgoing)
             d == [c EXCEPT !.outgoing = Tail(@)]
         IN  IF c.sends = 0 THEN Disconnect(d) ELSE AfterSend(Transmit(d, m), m)

EnqueueMessage(c, m) == ProcessQueue([c EXCEPT !.outgoing = Append(@, m)])

ConnectOnlyQueues(c) ==             \* no processQueue()
    [c EXCEPT !.outgoing = Append(@, ConnectMessage)]

Connect(c) == EnqueueMessage(c, ConnectMessage)

ResetConnection(c, reconnect) ==
    IF reconnect THEN Connect(Forget(c)) ELSE Disconnect(c)

CreateStream(c, tag) ==
    LET id == c.nextStreamId
        d  == [c EXCEPT !.nextStreamId = @ + 1, !.requests = @ \cup {id},
                        !.opening = @ \cup {id}]
    IN  EnqueueMessage(d, QdbMessage("Open", id, 0, tag))

Write(c, id, packet) ==
    EnqueueMessage(c, QdbMessage("Write", id, c.streams[id], packet))

RequestClose(c, id) ==
    EnqueueMessage(c, QdbMessage("Close", id, c.streams[id], 0))
-----------------------------------------------------------------------------
AcknowledgeUnlessWaiting(c, m) ==   \* the Ok held back in Waiting
    IF c.state = "Waiting" THEN c
    ELSE IF c.sends = 0 THEN Disconnect(c)
    ELSE Transmit(c, QdbMessage("Ok", m.hostStream, m.deviceStream, 0))

Acknowledge(c, m) ==
    IF c.sends = 0 THEN Disconnect(c)
    ELSE Transmit(c, QdbMessage("Ok", m.hostStream, m.deviceStream, 0))

(* packetAvailable(): the network configurator goes on to fetch the device's
   information, which opens another stream unless the connection is lost. *)
PacketAvailable(c, id, reaction) ==
    IF /\ id \in c.holders
       /\ reaction.call = "open"
       /\ c.state # "Disconnected"
       /\ c.nextStreamId <= MaxStreams
    THEN CreateStream(c, reaction.data)
    ELSE c

HandleWriteUnchecked(c, m, reaction) ==   \* the look-up in m_streams forgotten
    LET a == Acknowledge(c, m)
    IN  IF m.hostStream \in DOMAIN a.streams
        THEN PacketAvailable(a, m.hostStream, reaction)
        ELSE [a EXCEPT !.object = "crashed"]

(* A failed acknowledgment has destroyed the stream the packet is for: the
   null pointer that m_streams[id] then inserts is dereferenced. *)
HandleWrite(c, m, reaction) ==
    IF m.hostStream \notin DOMAIN c.streams
    THEN EnqueueMessage(c, QdbMessage("Close", m.hostStream, m.deviceStream, 0))
    ELSE LET a == Acknowledge(c, m)
         IN  IF m.hostStream \in DOMAIN a.streams
             THEN PacketAvailable(a, m.hostStream, reaction)
             ELSE [a EXCEPT !.object = "crashed"]

FinishCreateStreamHostId(c, host, device, reaction) ==  \* hostId for deviceId
    [c EXCEPT !.streams = [i \in DOMAIN c.streams \cup {host} |->
                              IF i = host THEN host ELSE c.streams[i]],
              !.requests = @ \ {host},
              !.opening = @ \ {host},
              !.holders = @ \cup {host}]

FinishCreateStreamClears(c, host, device, reaction) ==  \* clear() for take()
    [c EXCEPT !.streams = [i \in DOMAIN c.streams \cup {host} |->
                              IF i = host THEN device ELSE c.streams[i]],
              !.requests = {},
              !.opening = @ \ {host},
              !.holders = @ \cup {host}]

(* streamCreated(): the service keeps the stream, and may write at once. *)
FinishCreateStream(c, host, device, reaction) ==
    LET d == [c EXCEPT !.streams = [i \in DOMAIN c.streams \cup {host} |->
                                       IF i = host THEN device ELSE c.streams[i]],
                       !.requests = @ \ {host},
                       !.opening = @ \ {host},
                       !.holders = @ \cup {host}]
    IN  IF reaction.call = "write" THEN Write(d, host, reaction.data) ELSE d

HandleRefuse(c, m) == ResetConnection(c, m.data = NotConnected)

HandleOkUnchecked(c, m, reaction) ==      \* contains() forgotten
    IF c.state = "Connected" THEN c
    ELSE FinishCreateStream([c EXCEPT !.state = "Connected"],
                            m.hostStream, m.deviceStream, reaction)

HandleOk(c, m, reaction) ==
    LET d == [c EXCEPT !.state = "Connected"]
    IN  CASE c.state = "Connected" -> c
          [] c.state = "Waiting" /\ m.hostStream \in c.requests ->
               FinishCreateStream(d, m.hostStream, m.deviceStream, reaction)
          [] OTHER -> d

HandleInDisconnected(c) == ResetConnection(c, TRUE)

HandleAnyAsConnect(c, m) ==         \* any answer but a Refuse will do
    IF m.command = "Refuse" THEN HandleRefuse(c, m)
    ELSE [c EXCEPT !.state = "Connected"]

CheckVersion(m) == m.data = qdbProtocolVersion

HandleInWaitingForConnection(c, m) ==
    CASE m.command = "Connect" ->
           [c EXCEPT !.state = IF CheckVersion(m) THEN "Connected" ELSE "Disconnected"]
      [] m.command = "Refuse" -> HandleRefuse(c, m)
      [] OTHER -> ResetConnection(c, TRUE)

HandleInConnected(c, m, reaction) ==
    CASE m.command = "Connect" -> ResetConnection(c, TRUE)
      [] m.command = "Refuse"  -> HandleRefuse(c, m)
      [] m.command = "Write"   -> HandleWrite(c, m, reaction)
      [] m.command = "Close"   -> CloseStream(c, m.hostStream)
      [] m.command = "Ok"      -> HandleOk(c, m, reaction)

Dispatch(c, m, reaction) ==
    CASE c.state = "Disconnected" -> HandleInDisconnected(c)
      [] c.state = "WaitingForConnection" -> HandleInWaitingForConnection(c, m)
      [] c.state \in {"Connected", "Waiting"} -> HandleInConnected(c, m, reaction)

HandleMessageFailedRead(c, m, reaction) ==  \* a failed read ignored until connected
    CASE m.command # "Invalid" -> ProcessQueue(Dispatch(c, m, reaction))
      [] m.command = "Invalid" /\ c.state \in {"Connected", "Waiting"} -> Disconnect(c)
      [] OTHER -> c

HandleMessage(c, m, reaction) ==
    CASE m.command # "Invalid" -> ProcessQueue(Dispatch(c, m, reaction))
      [] m.command = "Invalid" /\ c.state # "Disconnected" -> Disconnect(c)
      [] OTHER -> c

CloseOnlyConnected(c) ==            \* returns early in Waiting, too
    IF c.state # "Connected" THEN c ELSE [Forget(c) EXCEPT !.state = "Disconnected"]

CloseSilently(c) ==                 \* no Close sent to the device
    IF c.state \in {"Disconnected", "WaitingForConnection"}
    THEN [c EXCEPT !.state = "Disconnected"] ELSE Forget(c)

(* close(), from the destructor.  The loop sends the final Closes one after
   the other without waiting; a send that fails ends it through
   resetConnection(false).  The order of an unordered map is not modelled:
   the Closes go out by id. *)
Close(c) ==
    LET ids    == DOMAIN c.streams
        closes == [k \in 1..Cardinality(ids) |->
                     QdbMessage("Close", Nth(ids, k), c.streams[Nth(ids, k)], 0)]
        sent   == IF Len(closes) <= c.sends THEN closes
                  ELSE SubSeq(closes, 1, c.sends)
        closed == [Forget(c) EXCEPT !.toDevice = @ \o sent]
    IN  IF c.state \in {"Disconnected", "WaitingForConnection"}
        THEN [c EXCEPT !.state = "Disconnected"]
        ELSE IF Len(sent) < Len(closes) THEN Disconnect(closed) ELSE closed

Destroy(c) == [Close(c) EXCEPT !.object = "destroyed"]

(* The destructor of a service that still has its stream. *)
DestroyService(c, id) ==
    LET d == RequestClose(c, id) IN [d EXCEPT !.holders = @ \ {id}]
-----------------------------------------------------------------------------
(* The events.  PoolConnect is ConnectionPool::connect() on a new object;
   the services call createStream() only when state() is not Disconnected. *)
Live == object = "live"

PoolConnect(c) ==
    /\ object = "new"
    /\ Commit([Connect(c) EXCEPT !.object = "live"])

Receive(c, m, reaction) == Live /\ Commit(HandleMessage(c, m, reaction))

InitializeService(c, tag) ==
    Live /\ state # "Disconnected" /\ Commit(CreateStream(c, tag))

ServiceWrite(c, id, packet) == Live /\ id \in holders /\ Commit(Write(c, id, packet))

ServiceClose(c, id) == Live /\ id \in holders /\ Commit(RequestClose(c, id))

ServiceDestroyed(c, id) == Live /\ id \in holders /\ Commit(DestroyService(c, id))

ConnectionDestroyed(c) == Live /\ Commit(Destroy(c))

Fresh(sends) == Activation(<<>>, sends)

HasRoom == Len(outgoing) < MaxQueue

Next ==
    \E sends \in SendBudgets :
        \/ PoolConnect(Fresh(sends))
        \/ \E m \in DeviceMessages, r \in Reactions :
             (m.command = "Write" => HasRoom) /\ Receive(Fresh(sends), m, r)
        \/ \E tag \in Tags :
             HasRoom /\ nextStreamId <= MaxStreams /\ InitializeService(Fresh(sends), tag)
        \/ \E id \in holders, p \in Packets : HasRoom /\ ServiceWrite(Fresh(sends), id, p)
        \/ \E id \in holders : HasRoom /\ ServiceClose(Fresh(sends), id)
        \/ \E id \in holders : HasRoom /\ ServiceDestroyed(Fresh(sends), id)
        \/ ConnectionDestroyed(Fresh(sends))

Spec == Init /\ [][Next]_vars
-----------------------------------------------------------------------------
(* Every variable keeps its type; a Connect never waits on the queue. *)
TypeOK ==
    /\ state \in ConnectionState
    /\ outgoing \in Seq({m \in Message : m.command \in {"Open", "Write", "Close"}})
    /\ streams \in [DOMAIN streams -> Nat] /\ DOMAIN streams \subseteq Nat
    /\ requests \subseteq Nat
    /\ nextStreamId \in Nat
    /\ opening \subseteq Nat
    /\ holders \subseteq Nat
    /\ object \in {"new", "live", "crashed", "destroyed"}
    /\ assertsHold \in BOOLEAN
    /\ toDevice \in Seq(Message)

(* Streams exist only on an agreed connection: whatever takes the connection
   down, mid-handler or not, closes them all, so that close() may skip its
   Closes in the two states where it returns early (connection.cpp:79-85). *)
StreamsOnlyWhenConnected ==
    state \in {"Disconnected", "WaitingForConnection"} => streams = NoStreams

(* The Stream pointer of a service never outlives the stream: the destructor
   of a service may dereference it at any time (echoservice.cpp:48). *)
NoDanglingStream == holders \subseteq DOMAIN streams

(* A pending callback belongs to a service that still waits for it: services
   that gave up on disconnected() are never called back (connection.cpp:292
   clears the requests before the signal of line 302). *)
RequestsHaveServices == requests \subseteq opening

(* What is queued for a stream goes away with the stream: no Write is ever
   sent to a stream the host has closed (connection.cpp:313-318). *)
QueuedWritesHaveStreams ==
    \A i \in DOMAIN outgoing :
        outgoing[i].command = "Write" => outgoing[i].hostStream \in DOMAIN streams

(* The streams asked for while the connection is being agreed are neither
   lost nor sent early: their Opens, and nothing else, wait on the queue. *)
PendingOpensQueued ==
    state = "WaitingForConnection" =>
        /\ \A i \in DOMAIN outgoing : outgoing[i].command = "Open"
        /\ requests = {outgoing[i].hostStream : i \in DOMAIN outgoing}

(* A Connection that is gone leaves no service with one of its streams or
   with a callback it could still make. *)
DestroyedLeavesNothing ==
    object = "destroyed" => streams = NoStreams /\ holders = {}

(* Stream ids are not reused: an id that is neither open nor asked for never
   becomes so again, whatever the device answers late (connection.cpp:110,
   200-203). *)
ClosedStreamsStayClosed ==
    [][\A id \in 1..nextStreamId - 1 :
          id \notin DOMAIN streams \cup requests =>
              id \notin DOMAIN streams' \cup requests']_vars

(* The queue moves: nothing is left queued in Connected. *)
QueueEmptyWhenConnected == Live /\ state = "Connected" => outgoing = <<>>
=============================================================================
