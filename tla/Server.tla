------------------------------- MODULE Server -------------------------------
(***************************************************************************)
(* The device's end of a QDB connection: class Server of qdbd/server.cpp,  *)
(* with the executors it creates for the streams the host opens.           *)
(*                                                                         *)
(* Everything runs on the event loop of qdbd, and the only events are the  *)
(* messages of the host: an executor answers each packet within the        *)
(* handling of the Write that brought it.  As in module Connection, every  *)
(* function is an operator from the object's state to the state it         *)
(* returns with.                                                           *)
(*                                                                         *)
(* Here the host is arbitrary: any message of HostMessages may arrive at   *)
(* any time.  UsbGadget::writeData() refuses data only while its endpoint  *)
(* is closed, so the sends of one event all succeed or all fail.           *)
(***************************************************************************)
EXTENDS QdbMessages, Functions

CONSTANTS
    HostMessages,     \* what the host may send
    EndpointStates,   \* whether the IN endpoint may be open during an event
    MaxStreams,       \* bound on the streams ever opened
    MaxQueue          \* bound on the queue length at which inputs stop

(* services.h; createExecutor() makes no executor for any other tag. *)
EchoTag == 1
HandshakeTag == 2
NetworkConfigurationTag == 3
KnownTags == {EchoTag, HandshakeTag, NetworkConfigurationTag}
NoExecutor == 0

ASSUME InputsAssumption ==
    /\ HostMessages \subseteq {m \in Message : m.command \notin {"Invalid", "Refuse"}}
    /\ EndpointStates \subseteq BOOLEAN

VARIABLES
    state,          \* m_state
    outgoing,       \* m_outgoingMessages
    streams,        \* m_streams: device id -> host id
    executors,      \* m_executors: device id -> tag, or NoExecutor for null
    nextStreamId,   \* m_nextStreamId
    assertsHold,    \* no Q_ASSERT of processQueue() has failed
    toHost          \* what was handed to the transport

vars == <<state, outgoing, streams, executors, nextStreamId, assertsHold, toHost>>

ServerState == {"Disconnected", "Connected", "Waiting"}

Activation(wire, isOpen) ==
    [state |-> state, outgoing |-> outgoing, streams |-> streams,
     executors |-> executors, nextStreamId |-> nextStreamId,
     assertsHold |-> assertsHold, toHost |-> wire, isOpen |-> isOpen]

(* Quantified over one value, which TLC then evaluates once. *)
Commit(c) ==
    \E d \in {c} :
        /\ state' = d.state
        /\ outgoing' = d.outgoing
        /\ streams' = d.streams
        /\ executors' = d.executors
        /\ nextStreamId' = d.nextStreamId
        /\ assertsHold' = d.assertsHold
        /\ toHost' = d.toHost

Nothing == [i \in {} |-> 0]

With(f, i, v) == [j \in DOMAIN f \cup {i} |-> IF j = i THEN v ELSE f[j]]

Init ==
    /\ state = "Disconnected"
    /\ outgoing = <<>>
    /\ streams = Nothing
    /\ executors = Nothing
    /\ nextStreamId = 1
    /\ assertsHold = TRUE
    /\ toHost = <<>>
-----------------------------------------------------------------------------
(* Mutants stand before the operator they replace: each is the operator with
   one plausible mistake, which the property named in the README catches. *)
LastSentFirst(q) == 1               \* processQueue() does not call itself

(* The message after which the queue is left alone: the first that changes
   the state, or the last of all. *)
LastSent(q) ==
    LET stops == {i \in DOMAIN q : q[i].command \in {"Write", "Refuse"}}
    IN  IF stops = {} THEN Len(q) ELSE Nth(stops, 1)

StateAfter(state0, m) ==
    CASE m.command = "Write"  -> "Waiting"
      [] m.command = "Refuse" -> "Disconnected"
      [] OTHER -> state0

(* processQueue() calls itself after a Connect, a Close or an Ok: it sends
   all of them up to the next Write, which it then waits for. *)
ProcessQueue(c) ==
    IF c.outgoing = <<>> \/ c.state = "Waiting" THEN c
    ELSE IF ~c.isOpen
    THEN [c EXCEPT !.outgoing = Tail(@), !.state = "Disconnected"]
    ELSE LET n == LastSent(c.outgoing)
             m == c.outgoing[n]
         IN  [c EXCEPT !.outgoing = SubSeq(@, n + 1, Len(@)),
                       !.toHost = @ \o SubSeq(c.outgoing, 1, n),
                       !.assertsHold = @ /\ (m.command = "Write" => c.state = "Connected"),
                       !.state = StateAfter(@, m)]

EnqueueMessage(c, m) == ProcessQueue([c EXCEPT !.outgoing = Append(@, m)])

ResetServerRestartsIds(c) ==
    [c EXCEPT !.outgoing = <<>>, !.executors = Nothing, !.streams = Nothing,
              !.nextStreamId = 1]

ResetServer(c) ==
    [c EXCEPT !.outgoing = <<>>, !.executors = Nothing, !.streams = Nothing]

Refuse(c, reason) ==
    EnqueueMessage([ResetServer(c) EXCEPT !.state = "Disconnected"],
                   QdbMessage("Refuse", 0, 0, reason))

(* A payload too short for a version is a number other than it. *)
CheckVersion(m) == m.data = qdbProtocolVersion

HandleConnectAcknowledged(c, m) ==  \* a Connect acknowledged like a Write
    IF ~CheckVersion(m) THEN Refuse(c, UnknownVersion)
    ELSE EnqueueMessage(EnqueueMessage([ResetServer(c) EXCEPT !.state = "Connected"],
                                       QdbMessage("Ok", 0, 0, 0)), ConnectMessage)

HandleConnect(c, m) ==
    IF ~CheckVersion(m) THEN Refuse(c, UnknownVersion)
    ELSE EnqueueMessage([ResetServer(c) EXCEPT !.state = "Connected"], ConnectMessage)

HandleOpenAnyTag(c, m) ==           \* an executor for every tag
    LET id == c.nextStreamId
        d  == EnqueueMessage([c EXCEPT !.nextStreamId = @ + 1],
                             QdbMessage("Ok", m.hostStream, id, 0))
    IN  [d EXCEPT !.streams = With(@, id, m.hostStream),
                  !.executors = With(@, id, m.data)]

(* The Ok is queued before there is a stream: what is on the queue for the
   new id cannot have been there before. *)
HandleOpen(c, m) ==
    LET id == c.nextStreamId
        d  == EnqueueMessage([c EXCEPT !.nextStreamId = @ + 1],
                             QdbMessage("Ok", m.hostStream, id, 0))
    IN  [d EXCEPT !.streams = With(@, id, m.hostStream),
                  !.executors = With(@, id, IF m.data \in KnownTags THEN m.data
                                                                    ELSE NoExecutor)]

(* Every executor answers a packet with one packet on the same stream; the
   answer is told by the number of the packet it answers. *)
ExecutorReceives(c, id, packet) ==
    IF c.executors[id] = NoExecutor THEN c
    ELSE EnqueueMessage(c, QdbMessage("Write", c.streams[id], id, packet))

HandleWrite(c, m) ==
    LET id == m.deviceStream IN
    IF id \notin DOMAIN c.streams
    THEN EnqueueMessage(c, QdbMessage("Close", m.hostStream, id, 0))
    ELSE ExecutorReceives(
            EnqueueMessage(c, QdbMessage("Ok", m.hostStream, id, 0)), id, m.data)

CloseStreamKeepsExecutor(c, id) ==
    IF id \notin DOMAIN c.streams THEN c
    ELSE [c EXCEPT !.streams = Restrict(c.streams, DOMAIN c.streams \ {id}),
                   !.outgoing = KeepAt(c.outgoing,
                       {i \in DOMAIN c.outgoing : c.outgoing[i].deviceStream # id})]

CloseStream(c, id) ==
    IF id \notin DOMAIN c.streams THEN c
    ELSE [c EXCEPT !.streams = Restrict(c.streams, DOMAIN c.streams \ {id}),
                   !.executors = Restrict(c.executors, DOMAIN c.executors \ {id}),
                   !.outgoing = KeepAt(c.outgoing,
                       {i \in DOMAIN c.outgoing : c.outgoing[i].deviceStream # id})]

(* In Waiting, an Ok or a Close of any stream ends the wait. *)
Release(c) == [c EXCEPT !.state = "Connected"]

HandleInDisconnected(c, m) ==
    IF m.command = "Connect" THEN HandleConnect(c, m) ELSE Refuse(c, NotConnected)

HandleInConnected(c, m) ==
    CASE m.command = "Connect" -> HandleConnect(c, m)
      [] m.command = "Open"    -> HandleOpen(c, m)
      [] m.command = "Write"   -> HandleWrite(c, m)
      [] m.command = "Close"   -> CloseStream(Release(c), m.deviceStream)
      [] m.command = "Ok"      -> Release(c)

HandleMessage(c, m) ==
    ProcessQueue(IF c.state = "Disconnected" THEN HandleInDisconnected(c, m)
                                             ELSE HandleInConnected(c, m))
-----------------------------------------------------------------------------
Fresh(isOpen) == Activation(<<>>, isOpen)

Receive(c, m) == Commit(HandleMessage(c, m))

HasRoom == Len(outgoing) < MaxQueue

Next ==
    \E isOpen \in EndpointStates, m \in HostMessages :
        /\ m.command \in {"Open", "Write"} => HasRoom
        /\ m.command = "Open" => nextStreamId <= MaxStreams
        /\ Receive(Fresh(isOpen), m)

Spec == Init /\ [][Next]_vars
-----------------------------------------------------------------------------
(* Every variable keeps its type; a Refuse never waits on the queue. *)
TypeOK ==
    /\ state \in ServerState
    /\ outgoing \in Seq({m \in Message : m.command \in {"Connect", "Write", "Close", "Ok"}})
    /\ streams \in [DOMAIN streams -> Nat] /\ DOMAIN streams \subseteq Nat
    /\ executors \in [DOMAIN executors -> KnownTags \cup {NoExecutor}]
    /\ nextStreamId \in Nat
    /\ assertsHold \in BOOLEAN
    /\ toHost \in Seq(Message)

(* No executor outlives its stream, whose pointer it keeps (echoexecutor.cpp),
   and no stream is without the entry that createExecutor() made for it. *)
ExecutorsMatchStreams == DOMAIN executors = DOMAIN streams

(* "we also need to move onto the next message in the queue, otherwise it
   would only be sent after host sends us something" (server.cpp:169-173):
   while the server is connected and waits for nothing, nothing is queued. *)
QueueEmptyWhenConnected == state = "Connected" => outgoing = <<>>

(* Device ids are not reused, not even by a new connection after a reset
   (resetServer() keeps m_nextStreamId): a message that was on its way for an
   old stream never reaches a new one. *)
StreamIdsAreFresh ==
    [][/\ nextStreamId' >= nextStreamId
       /\ \A id \in DOMAIN streams' \ DOMAIN streams : id >= nextStreamId]_vars
=============================================================================
