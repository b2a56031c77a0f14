-------------------------- MODULE ConnectionProofs --------------------------
(***************************************************************************)
(* Proofs about the host's Connection, for every device, every failure of  *)
(* the transport and every number of streams.                              *)
(*                                                                         *)
(* Consistent(c) is the inductive invariant, stated of the record that the *)
(* functions of the class pass on, and Follows(c, d) what no function may  *)
(* do to an object.  There is one lemma for each function: called on a     *)
(* consistent object, it returns one, and one that follows it.             *)
(***************************************************************************)
EXTENDS Connection, QueuesProofs

Queueable == {m \in Message : m.command \in {"Open", "Write", "Close"}}

StreamMap == UNION {[D -> Nat] : D \in {D \in SUBSET Nat : IsFiniteSet(D)}}

Objects ==
    [state : ConnectionState, outgoing : Seq(Queueable), streams : StreamMap,
     requests : SUBSET Nat, nextStreamId : Nat, opening : SUBSET Nat,
     holders : SUBSET Nat, object : {"new", "live", "crashed", "destroyed"},
     assertsHold : BOOLEAN, toDevice : Seq(Message), sends : Nat]

(* Membership in Objects, field by field: the form that the provers find. *)
Typed(c) ==
    /\ c.state \in ConnectionState
    /\ c.outgoing \in Seq(Queueable)
    /\ c.streams \in StreamMap
    /\ c.requests \in SUBSET Nat
    /\ c.nextStreamId \in Nat
    /\ c.opening \in SUBSET Nat
    /\ c.holders \in SUBSET Nat
    /\ c.object \in {"new", "live", "crashed", "destroyed"}
    /\ c.assertsHold \in BOOLEAN
    /\ c.toDevice \in Seq(Message)
    /\ c.sends \in Nat

Whole(c) ==
    c = [state |-> c.state, outgoing |-> c.outgoing, streams |-> c.streams,
         requests |-> c.requests, nextStreamId |-> c.nextStreamId,
         opening |-> c.opening, holders |-> c.holders, object |-> c.object,
         assertsHold |-> c.assertsHold, toDevice |-> c.toDevice, sends |-> c.sends]

(* The invariants of module Connection, of a record. *)
StreamsNeedConnection(c) ==
    c.state \in {"Disconnected", "WaitingForConnection"} => c.streams = NoStreams

HoldersHaveStreams(c) == c.holders \subseteq DOMAIN c.streams

CallbacksHaveServices(c) == c.requests \subseteq c.opening

WritesHaveStreams(c) ==
    \A i \in DOMAIN c.outgoing :
        c.outgoing[i].command = "Write" => c.outgoing[i].hostStream \in DOMAIN c.streams

OpensWait(c) ==
    c.state = "WaitingForConnection" =>
        /\ \A i \in DOMAIN c.outgoing : c.outgoing[i].command = "Open"
        /\ c.requests = {c.outgoing[i].hostStream : i \in DOMAIN c.outgoing}

Invariants(c) ==
    /\ StreamsNeedConnection(c)
    /\ HoldersHaveStreams(c)
    /\ CallbacksHaveServices(c)
    /\ WritesHaveStreams(c)
    /\ OpensWait(c)

Consistent(c) == c \in Objects /\ Invariants(c)

(* The streams of an object: open, or asked for. *)
Known(c) == DOMAIN c.streams \cup c.requests

(* Ids only count up, and an id that was used does not become known again. *)
IdsKept(c, d) ==
    /\ c.nextStreamId \in Nat /\ d.nextStreamId \in Nat
    /\ c.nextStreamId <= d.nextStreamId
    /\ \A id \in Nat : id < c.nextStreamId /\ id \notin Known(c) => id \notin Known(d)

(* ... and no function but the destructor ends the object's life. *)
Follows(c, d) == IdsKept(c, d) /\ d.object \in {c.object, "crashed"}

-----------------------------------------------------------------------------
(* A typed record with all its fields is a state of the connection. *)
LEMMA ObjectIntro ==
    ASSUME NEW d, Whole(d), Typed(d)
    PROVE  d \in Objects
BY DEF Whole, Typed, Objects

(* A state of the connection has its fields, each of its type. *)
LEMMA ObjectFields ==
    ASSUME NEW c \in Objects
    PROVE  Typed(c) /\ Whole(c)
BY DEF Whole, Typed, Objects

(* A function that returns without doing anything keeps the ids. *)
LEMMA FollowsItself ==
    ASSUME NEW c \in Objects
    PROVE  Follows(c, c)
BY DEF Follows, IdsKept, Objects

(* Two functions called one after the other keep the ids if each does. *)
LEMMA FollowsOn ==
    ASSUME NEW c, NEW d, NEW e, Follows(c, d), Follows(d, e)
    PROVE  Follows(c, e)
BY DEF Follows, IdsKept

(* What forgets streams, or nothing, follows. *)
LEMMA FollowsFewer ==
    ASSUME NEW c, NEW d, c.nextStreamId \in Nat, d.nextStreamId = c.nextStreamId,
           Known(d) \subseteq Known(c), d.object = c.object
    PROVE  Follows(c, d)
BY DEF Follows, IdsKept

(* The cleared m_streams is a map of streams. *)
LEMMA NoStreamsType == NoStreams \in StreamMap /\ DOMAIN NoStreams = {}
<1>1. DOMAIN NoStreams = {} /\ NoStreams \in [{} -> Nat]
  BY DEF NoStreams
<1>2. IsFiniteSet({})
  BY FS_EmptySet
<1> QED  BY <1>1, <1>2 DEF StreamMap

(* m_streams maps finitely many host ids to device ids. *)
LEMMA StreamMapType ==
    ASSUME NEW f \in StreamMap
    PROVE  /\ f \in [DOMAIN f -> Nat]
           /\ DOMAIN f \in SUBSET Nat
           /\ IsFiniteSet(DOMAIN f)
BY DEF StreamMap

(* Erasing entries of m_streams leaves a map of streams. *)
LEMMA RestrictType ==
    ASSUME NEW f \in StreamMap, NEW S \in SUBSET DOMAIN f
    PROVE  Restrict(f, S) \in StreamMap /\ DOMAIN Restrict(f, S) = S
<1>1. IsFiniteSet(S)
  BY StreamMapType, FS_Subset
<1> QED  BY <1>1, StreamMapType DEF Restrict, StreamMap

(* The constructor of QdbMessage makes a message of its arguments. *)
LEMMA MessageType ==
    ASSUME NEW command \in Commands, NEW h \in Nat, NEW d \in Nat, NEW data \in Nat
    PROVE  /\ QdbMessage(command, h, d, data) \in Message
           /\ QdbMessage(command, h, d, data).command = command
           /\ QdbMessage(command, h, d, data).hostStream = h
BY DEF QdbMessage, Message, StreamId

(* An Open, a Write or a Close made of its arguments may be enqueued. *)
LEMMA QueueableType ==
    ASSUME NEW command \in {"Open", "Write", "Close"},
           NEW h \in Nat, NEW d \in Nat, NEW data \in Nat
    PROVE  LET m == QdbMessage(command, h, d, data) IN
           m \in Queueable /\ m.command = command /\ m.hostStream = h
<1>1. command \in Commands
  BY DEF Commands
<1>2. /\ QdbMessage(command, h, d, data) \in Message
      /\ QdbMessage(command, h, d, data).command = command
      /\ QdbMessage(command, h, d, data).hostStream = h
  BY <1>1, MessageType
<1> QED  BY <1>2 DEF Queueable

(* The Connect message of connect() is a message, and not queueable
   behind others. *)
LEMMA ConnectType ==
    ConnectMessage \in Message /\ ConnectMessage.command = "Connect"
BY DEF ConnectMessage, QdbMessage, Message, StreamId, Commands, qdbProtocolVersion
-----------------------------------------------------------------------------
(* send() touches nothing but the wire. *)
LEMMA TransmitType ==
    ASSUME NEW c \in Objects, c.sends # 0, NEW m \in Message
    PROVE  LET d == Transmit(c, m) IN
           /\ d \in Objects
           /\ d.state = c.state /\ d.outgoing = c.outgoing /\ d.streams = c.streams
           /\ d.requests = c.requests /\ d.opening = c.opening
           /\ d.holders = c.holders /\ d.nextStreamId = c.nextStreamId
           /\ d.object = c.object /\ d.assertsHold = c.assertsHold
<1> DEFINE d == Transmit(c, m)
<1>1. /\ d.state = c.state /\ d.outgoing = c.outgoing /\ d.streams = c.streams
      /\ d.requests = c.requests /\ d.opening = c.opening
      /\ d.holders = c.holders /\ d.nextStreamId = c.nextStreamId
      /\ d.object = c.object /\ d.assertsHold = c.assertsHold
      /\ d.toDevice = Append(c.toDevice, m) /\ d.sends = c.sends - 1
  BY DEF Transmit, Objects
<1>2. Whole(d)
  <2>1. d = [c EXCEPT !.toDevice = Append(c.toDevice, m), !.sends = c.sends - 1]
    BY DEF Transmit
  <2> HIDE DEF d
  <2> QED  BY <2>1 DEF Objects, Whole
<1>3. Typed(c)
  BY ObjectFields
<1>4. d.sends \in Nat /\ d.toDevice \in Seq(Message)
  BY <1>1, <1>3 DEF Typed
<1>5. Typed(d)
  BY <1>1, <1>3, <1>4 DEF Typed
<1> QED  BY <1>1, <1>2, <1>5, ObjectIntro

(* Sending a message changes nothing that consistency speaks of. *)
LEMMA TransmitConsistent ==
    ASSUME NEW c, Consistent(c), c.sends # 0, NEW m \in Message
    PROVE  /\ Consistent(Transmit(c, m)) /\ Follows(c, Transmit(c, m))
           /\ Transmit(c, m).state = c.state
<1>1. c \in Objects /\ Invariants(c)
  BY DEF Consistent
<1>2. Invariants(Transmit(c, m))
  BY <1>1, TransmitType DEF Invariants, StreamsNeedConnection, HoldersHaveStreams,
     CallbacksHaveServices, WritesHaveStreams, OpensWait
<1>3. Follows(c, Transmit(c, m))
  BY <1>1, TransmitType, ObjectFields, FollowsFewer DEF Known, Typed
<1> QED  BY <1>1, <1>2, <1>3, TransmitType DEF Consistent

(* closeStream() *)
LEMMA CloseStreamConsistent ==
    ASSUME NEW c, Consistent(c), NEW id
    PROVE  Consistent(CloseStream(c, id)) /\ Follows(c, CloseStream(c, id))
<1> DEFINE d == CloseStream(c, id)
           S == {i \in DOMAIN c.outgoing : c.outgoing[i].hostStream # id}
<1>0. c \in Objects /\ Typed(c) /\ Invariants(c)
  BY ObjectFields DEF Consistent
<1>1. CASE id \notin DOMAIN c.streams
  BY <1>0, <1>1, FollowsItself DEF CloseStream
<1>2. CASE id \in DOMAIN c.streams
  <2>1. /\ KeepAt(c.outgoing, S) \in Seq(Queueable)
        /\ \A k \in DOMAIN KeepAt(c.outgoing, S) :
              \E i \in S : KeepAt(c.outgoing, S)[k] = c.outgoing[i]
    <3>1. c.outgoing \in Seq(Queueable) /\ S \in SUBSET DOMAIN c.outgoing
      BY <1>0 DEF Typed
    <3> HIDE DEF S
    <3> QED  BY <3>1, KeepAtKeeps
  <2>2. /\ Restrict(c.streams, DOMAIN c.streams \ {id}) \in StreamMap
        /\ DOMAIN Restrict(c.streams, DOMAIN c.streams \ {id}) = DOMAIN c.streams \ {id}
    BY <1>0, RestrictType DEF Typed
  <2>3. d = [c EXCEPT !.streams = Restrict(c.streams, DOMAIN c.streams \ {id}),
                      !.holders = c.holders \ {id},
                      !.outgoing = KeepAt(c.outgoing, S)]
    BY <1>2 DEF CloseStream
  <2>4. Whole(d)
    BY <1>0, <2>3 DEF Objects, Whole
  <2>5. /\ d.state = c.state /\ d.requests = c.requests /\ d.opening = c.opening
        /\ d.streams = Restrict(c.streams, DOMAIN c.streams \ {id})
        /\ d.holders = c.holders \ {id} /\ d.outgoing = KeepAt(c.outgoing, S)
        /\ d.nextStreamId = c.nextStreamId /\ d.object = c.object
        /\ d.assertsHold = c.assertsHold /\ d.toDevice = c.toDevice
        /\ d.sends = c.sends
    BY <1>0, <2>3 DEF Objects
  <2> HIDE DEF d, S
  <2>6. Typed(d)
    BY <1>0, <2>1, <2>2, <2>5 DEF Typed
  <2>7. c.state \notin {"Disconnected", "WaitingForConnection"}
    BY <1>0, <1>2, NoStreamsType DEF Invariants, StreamsNeedConnection
  <2>8. WritesHaveStreams(d)
    BY <1>0, <2>1, <2>2, <2>5 DEF Invariants, WritesHaveStreams, S
  <2>9. Invariants(d)
    BY <1>0, <2>2, <2>5, <2>7, <2>8 DEF Invariants, StreamsNeedConnection,
       HoldersHaveStreams, CallbacksHaveServices, OpensWait
  <2>10. Follows(c, d)
    BY <1>0, <2>2, <2>5, FollowsFewer DEF Known, Typed
  <2> QED  BY <2>4, <2>6, <2>9, <2>10, ObjectIntro DEF Consistent, d
<1> QED  BY <1>1, <1>2

(* resetConnection(), up to its branch.  It is called on objects that are
   about to change state, of which less is known than Consistent says. *)
LEMMA ForgetConsistent ==
    ASSUME NEW c \in Objects, HoldersHaveStreams(c)
    PROVE  LET d == Forget(c) IN
           /\ Consistent(d) /\ Follows(c, d)
           /\ d.state = "Disconnected" /\ d.outgoing = <<>> /\ d.requests = {}
           /\ d.streams = NoStreams /\ d.sends = c.sends
           /\ d.nextStreamId = c.nextStreamId /\ d.object = c.object
<1> DEFINE d == Forget(c)
<1>1. Typed(c)
  BY ObjectFields
<1>2. d = [c EXCEPT !.outgoing = <<>>, !.state = "Disconnected", !.requests = {},
                    !.holders = c.holders \ DOMAIN c.streams, !.streams = NoStreams]
  BY DEF Forget
<1> HIDE DEF d
<1>3. Whole(d)
  BY <1>2 DEF Objects, Whole
<1>4. /\ d.state = "Disconnected" /\ d.outgoing = <<>> /\ d.requests = {}
      /\ d.streams = NoStreams /\ d.holders = c.holders \ DOMAIN c.streams
      /\ d.opening = c.opening /\ d.nextStreamId = c.nextStreamId
      /\ d.object = c.object /\ d.assertsHold = c.assertsHold
      /\ d.toDevice = c.toDevice /\ d.sends = c.sends
  BY <1>2 DEF Objects
<1>5. Typed(d)
  BY <1>1, <1>4, NoStreamsType DEF Typed, ConnectionState
<1>6. d.holders = {}
  BY <1>4 DEF HoldersHaveStreams
<1>7. Invariants(d)
  BY <1>4, <1>6 DEF Invariants, StreamsNeedConnection, HoldersHaveStreams,
     CallbacksHaveServices, WritesHaveStreams, OpensWait
<1>8. Follows(c, d)
  BY <1>1, <1>4, NoStreamsType, FollowsFewer DEF Known, Typed
<1> QED  BY <1>3, <1>4, <1>5, <1>7, <1>8, ObjectIntro DEF Consistent, d

(* resetConnection(false) *)
LEMMA DisconnectConsistent ==
    ASSUME NEW c \in Objects, HoldersHaveStreams(c)
    PROVE  /\ Consistent(Disconnect(c)) /\ Follows(c, Disconnect(c))
           /\ Disconnect(c).streams = NoStreams
<1> DEFINE e == Forget(c)
           d == Disconnect(c)
<1>1. d = [e EXCEPT !.opening = {}]
  BY DEF Disconnect
<1>2. /\ Consistent(e) /\ Follows(c, e)
      /\ e.state = "Disconnected" /\ e.outgoing = <<>>
      /\ e.requests = {} /\ e.streams = NoStreams
  BY ForgetConsistent
<1> HIDE DEF d, e
<1>3. e \in Objects /\ Typed(e) /\ Invariants(e)
  BY <1>2, ObjectFields DEF Consistent
<1>4. Whole(d)
  BY <1>1, <1>3 DEF Objects, Whole
<1>5. /\ d.state = e.state /\ d.outgoing = e.outgoing /\ d.requests = e.requests
      /\ d.streams = e.streams /\ d.holders = e.holders /\ d.opening = {}
      /\ d.nextStreamId = e.nextStreamId /\ d.object = e.object
      /\ d.assertsHold = e.assertsHold /\ d.toDevice = e.toDevice
      /\ d.sends = e.sends
  BY <1>1, <1>3 DEF Objects
<1>6. Typed(d)
  BY <1>3, <1>5 DEF Typed
<1>7. Invariants(d)
  BY <1>2, <1>3, <1>5 DEF Invariants, StreamsNeedConnection, HoldersHaveStreams,
     CallbacksHaveServices, WritesHaveStreams, OpensWait
<1>8. Follows(e, d)
  BY <1>3, <1>5, FollowsFewer DEF Known, Typed
<1>9. d.streams = NoStreams
  BY <1>2, <1>5
<1>10. Consistent(d) /\ Follows(c, d)
  BY <1>2, <1>4, <1>6, <1>7, <1>8, ObjectIntro, FollowsOn DEF Consistent
<1> QED  BY <1>9, <1>10 DEF d

(* A change of m_state alone. *)
LEMMA StateConsistent ==
    ASSUME NEW c, Consistent(c), NEW s \in ConnectionState, NEW d,
           d = [c EXCEPT !.state = s],
           s \in {"Disconnected", "WaitingForConnection"} => c.streams = NoStreams,
           s = "WaitingForConnection" => c.outgoing = <<>> /\ c.requests = {}
    PROVE  /\ Consistent(d) /\ Follows(c, d) /\ d.state = s
           /\ d.streams = c.streams /\ d.requests = c.requests
           /\ d.object = c.object
<1>1. c \in Objects /\ Typed(c) /\ Invariants(c)
  BY ObjectFields DEF Consistent
<1>2. Whole(d)
  BY <1>1 DEF Objects, Whole
<1>3. /\ d.state = s /\ d.outgoing = c.outgoing /\ d.requests = c.requests
      /\ d.streams = c.streams /\ d.holders = c.holders /\ d.opening = c.opening
      /\ d.nextStreamId = c.nextStreamId /\ d.object = c.object
      /\ d.assertsHold = c.assertsHold /\ d.toDevice = c.toDevice
      /\ d.sends = c.sends
  BY <1>1 DEF Objects
<1>4. Typed(d)
  BY <1>1, <1>3 DEF Typed
<1>5. Invariants(d)
  BY <1>1, <1>3 DEF Invariants, StreamsNeedConnection, HoldersHaveStreams,
     CallbacksHaveServices, WritesHaveStreams, OpensWait
<1>6. Follows(c, d)
  BY <1>1, <1>3, FollowsFewer DEF Known, Typed
<1> QED  BY <1>2, <1>3, <1>4, <1>5, <1>6, ObjectIntro DEF Consistent

(* The outcome of a Q_ASSERT is a record of it, and nothing else. *)
LEMMA AssertConsistent ==
    ASSUME NEW c, Consistent(c), NEW b \in BOOLEAN, NEW d,
           d = [c EXCEPT !.assertsHold = b]
    PROVE  /\ Consistent(d) /\ Follows(c, d) /\ d.state = c.state
           /\ d.streams = c.streams /\ d.requests = c.requests
           /\ d.outgoing = c.outgoing
<1>1. c \in Objects /\ Typed(c) /\ Invariants(c)
  BY ObjectFields DEF Consistent
<1>2. Whole(d)
  BY <1>1 DEF Objects, Whole
<1>3. /\ d.state = c.state /\ d.outgoing = c.outgoing /\ d.requests = c.requests
      /\ d.streams = c.streams /\ d.holders = c.holders /\ d.opening = c.opening
      /\ d.nextStreamId = c.nextStreamId /\ d.object = c.object
      /\ d.assertsHold = b /\ d.toDevice = c.toDevice
      /\ d.sends = c.sends
  BY <1>1 DEF Objects
<1>4. Typed(d)
  BY <1>1, <1>3 DEF Typed
<1>5. Invariants(d)
  BY <1>1, <1>3 DEF Invariants, StreamsNeedConnection, HoldersHaveStreams,
     CallbacksHaveServices, WritesHaveStreams, OpensWait
<1>6. Follows(c, d)
  BY <1>1, <1>3, FollowsFewer DEF Known, Typed
<1> QED  BY <1>2, <1>3, <1>4, <1>5, <1>6, ObjectIntro DEF Consistent

(* processQueue(), after a message was sent.  A Connect goes out of an object
   that has nothing to lose. *)
Pristine(c) ==
    /\ c.state = "Disconnected" /\ c.outgoing = <<>> /\ c.requests = {}
    /\ c.streams = NoStreams

(* What processQueue() does once a message is sent keeps the connection
   consistent. *)
LEMMA AfterSendConsistent ==
    ASSUME NEW c, Consistent(c), NEW m \in Message,
           m.command \in {"Connect", "Open", "Write", "Close"},
           m.command = "Connect" => Pristine(c)
    PROVE  Consistent(AfterSend(c, m)) /\ Follows(c, AfterSend(c, m))
<1>0. c \in Objects /\ c.assertsHold \in BOOLEAN
  BY ObjectFields DEF Consistent, Typed
<1>1. CASE m.command = "Connect"
  <2> DEFINE b == c.assertsHold /\ c.state = "Disconnected"
             e == [c EXCEPT !.assertsHold = b]
  <2>1. AfterSend(c, m) = [e EXCEPT !.state = "WaitingForConnection"]
    BY <1>1 DEF AfterSend
  <2>2. b \in BOOLEAN
    OBVIOUS
  <2> HIDE DEF b
  <2>3. /\ Consistent(e) /\ Follows(c, e)
        /\ e.streams = c.streams /\ e.requests = c.requests
        /\ e.outgoing = c.outgoing
    BY <2>2, AssertConsistent
  <2> HIDE DEF e
  <2>4. Consistent(AfterSend(c, m)) /\ Follows(e, AfterSend(c, m))
    BY <1>1, <2>1, <2>3, StateConsistent DEF ConnectionState, Pristine
  <2> QED  BY <2>3, <2>4, FollowsOn
<1>2. CASE m.command \in {"Open", "Write"}
  <2> DEFINE b == c.assertsHold /\ c.state = "Connected"
             e == [c EXCEPT !.assertsHold = b]
  <2>1. AfterSend(c, m) = [e EXCEPT !.state = "Waiting"]
    BY <1>2 DEF AfterSend
  <2>2. b \in BOOLEAN
    OBVIOUS
  <2> HIDE DEF b
  <2>3. Consistent(e) /\ Follows(c, e)
    BY <2>2, AssertConsistent
  <2> HIDE DEF e
  <2>4. Consistent(AfterSend(c, m)) /\ Follows(e, AfterSend(c, m))
    BY <2>1, <2>3, StateConsistent DEF ConnectionState
  <2> QED  BY <2>3, <2>4, FollowsOn
<1>3. CASE m.command = "Close"
  <2> DEFINE b == c.assertsHold /\ c.state = "Connected"
             e == [c EXCEPT !.assertsHold = b]
  <2>1. AfterSend(c, m) = CloseStream(e, m.hostStream)
    BY <1>3 DEF AfterSend
  <2>2. b \in BOOLEAN
    OBVIOUS
  <2> HIDE DEF b
  <2>3. Consistent(e) /\ Follows(c, e)
    BY <2>2, AssertConsistent
  <2> HIDE DEF e
  <2> QED  BY <2>1, <2>3, CloseStreamConsistent, FollowsOn
<1> QED  BY <1>1, <1>2, <1>3

(* dequeue() *)
LEMMA DequeueConsistent ==
    ASSUME NEW c, Consistent(c), c.outgoing # <<>>,
           c.state # "WaitingForConnection", NEW d,
           d = [c EXCEPT !.outgoing = Tail(c.outgoing)]
    PROVE  Consistent(d) /\ Follows(c, d) /\ Head(c.outgoing) \in Queueable
<1>1. c \in Objects /\ Typed(c) /\ Invariants(c)
  BY ObjectFields DEF Consistent
<1>2. Whole(d)
  BY <1>1 DEF Objects, Whole
<1>3. /\ d.state = c.state /\ d.outgoing = Tail(c.outgoing)
      /\ d.requests = c.requests
      /\ d.streams = c.streams /\ d.holders = c.holders /\ d.opening = c.opening
      /\ d.nextStreamId = c.nextStreamId /\ d.object = c.object
      /\ d.assertsHold = c.assertsHold /\ d.toDevice = c.toDevice
      /\ d.sends = c.sends
  BY <1>1 DEF Objects
<1>4. /\ Tail(c.outgoing) \in Seq(Queueable) /\ Head(c.outgoing) \in Queueable
      /\ \A i \in DOMAIN Tail(c.outgoing) :
            i + 1 \in DOMAIN c.outgoing /\ Tail(c.outgoing)[i] = c.outgoing[i + 1]
  BY <1>1 DEF Typed
<1>5. Typed(d)
  BY <1>1, <1>3, <1>4 DEF Typed
<1>6. WritesHaveStreams(d)
  BY <1>1, <1>3, <1>4 DEF Invariants, WritesHaveStreams
<1>7. Invariants(d)
  BY <1>1, <1>3, <1>6 DEF Invariants, StreamsNeedConnection, HoldersHaveStreams,
     CallbacksHaveServices, OpensWait
<1>8. Follows(c, d)
  BY <1>1, <1>3, FollowsFewer DEF Known, Typed
<1> QED  BY <1>2, <1>4, <1>5, <1>7, <1>8, ObjectIntro DEF Consistent

(* processQueue() keeps the connection consistent, whatever is at the head
   of the queue and whether or not it can be sent. *)
LEMMA ProcessQueueConsistent ==
    ASSUME NEW c, Consistent(c)
    PROVE  Consistent(ProcessQueue(c)) /\ Follows(c, ProcessQueue(c))
<1> DEFINE m == Head(c.outgoing)
           d == [c EXCEPT !.outgoing = Tail(c.outgoing)]
<1>1. CASE c.outgoing = <<>> \/ c.state \in {"Waiting", "WaitingForConnection"}
  BY <1>1, FollowsItself DEF ProcessQueue, Consistent
<1>2. CASE ~ (c.outgoing = <<>> \/ c.state \in {"Waiting", "WaitingForConnection"})
  <2>1. Consistent(d) /\ Follows(c, d) /\ m \in Queueable
    BY <1>2, DequeueConsistent
  <2>2. ProcessQueue(c) =
            IF c.sends = 0 THEN Disconnect(d) ELSE AfterSend(Transmit(d, m), m)
    BY <1>2 DEF ProcessQueue
  <2>3. d.sends = c.sends
    BY DEF Consistent, Objects
  <2> HIDE DEF d, m
  <2>4. d \in Objects /\ HoldersHaveStreams(d)
    BY <2>1 DEF Consistent, Invariants
  <2>5. m \in Message /\ m.command \in {"Open", "Write", "Close"}
    BY <2>1 DEF Queueable
  <2>6. CASE c.sends = 0
    BY <2>1, <2>2, <2>4, <2>6, DisconnectConsistent, FollowsOn
  <2>7. CASE c.sends # 0
    <3> DEFINE e == Transmit(d, m)
    <3>1. Consistent(e) /\ Follows(d, e)
      BY <2>1, <2>3, <2>5, <2>7, TransmitConsistent
    <3>2. ProcessQueue(c) = AfterSend(e, m)
      BY <2>2, <2>7
    <3> HIDE DEF e
    <3>3. Consistent(AfterSend(e, m)) /\ Follows(e, AfterSend(e, m))
      BY <2>5, <3>1, AfterSendConsistent
    <3> QED  BY <2>1, <3>1, <3>2, <3>3, FollowsOn
  <2> QED  BY <2>6, <2>7
<1> QED  BY <1>1, <1>2

(* connect(), of an object that has nothing to lose. *)
LEMMA ConnectConsistent ==
    ASSUME NEW c, Consistent(c), Pristine(c)
    PROVE  Consistent(Connect(c)) /\ Follows(c, Connect(c))
<1> DEFINE q == [c EXCEPT !.outgoing = Append(c.outgoing, ConnectMessage)]
           d == [q EXCEPT !.outgoing = Tail(q.outgoing)]
           e == Transmit(c, ConnectMessage)
<1>1. c \in Objects /\ HoldersHaveStreams(c)
  BY DEF Consistent, Invariants
<1>2. /\ q.outgoing = <<ConnectMessage>> /\ q.state = "Disconnected"
      /\ q.sends = c.sends
  BY <1>1 DEF Pristine, Objects
<1>3. /\ Head(q.outgoing) = ConnectMessage /\ Tail(q.outgoing) = <<>>
      /\ q.outgoing # <<>>
  BY <1>2
<1>4. d = c
  BY <1>1, <1>3 DEF Pristine, Objects
<1>5. Connect(c) = ProcessQueue(q)
  BY DEF Connect, EnqueueMessage
<1>6. ProcessQueue(q) = IF c.sends = 0 THEN Disconnect(c)
                                       ELSE AfterSend(e, ConnectMessage)
  BY <1>2, <1>3, <1>4 DEF ProcessQueue
<1>7. CASE c.sends = 0
  BY <1>1, <1>5, <1>6, <1>7, DisconnectConsistent
<1>8. CASE c.sends # 0
  <2>1. Consistent(e) /\ Follows(c, e) /\ Pristine(e)
    BY <1>1, <1>8, ConnectType, TransmitConsistent, TransmitType DEF Pristine
  <2>2. Connect(c) = AfterSend(e, ConnectMessage)
    BY <1>5, <1>6, <1>8
  <2> HIDE DEF e
  <2> QED  BY <2>1, <2>2, ConnectType, AfterSendConsistent, FollowsOn
<1> QED  BY <1>7, <1>8

(* resetConnection() makes the connection consistent, with and without a
   reconnect. *)
LEMMA ResetConnectionConsistent ==
    ASSUME NEW c, Consistent(c), NEW reconnect \in BOOLEAN
    PROVE  /\ Consistent(ResetConnection(c, reconnect))
           /\ Follows(c, ResetConnection(c, reconnect))
<1>1. c \in Objects /\ HoldersHaveStreams(c)
  BY DEF Consistent, Invariants
<1>2. Consistent(Forget(c)) /\ Follows(c, Forget(c)) /\ Pristine(Forget(c))
  BY <1>1, ForgetConsistent DEF Pristine
<1>3. Consistent(Connect(Forget(c))) /\ Follows(Forget(c), Connect(Forget(c)))
  BY <1>2, ConnectConsistent
<1>4. Consistent(Disconnect(c)) /\ Follows(c, Disconnect(c))
  BY <1>1, DisconnectConsistent
<1> QED  BY <1>2, <1>3, <1>4, FollowsOn DEF ResetConnection
-----------------------------------------------------------------------------
(* enqueue(), where it is not an Open that waits for the connection. *)
LEMMA EnqueueConsistent ==
    ASSUME NEW c, Consistent(c), NEW m \in Queueable,
           c.state # "WaitingForConnection",
           m.command = "Write" => m.hostStream \in DOMAIN c.streams
    PROVE  Consistent(EnqueueMessage(c, m)) /\ Follows(c, EnqueueMessage(c, m))
<1> DEFINE d == [c EXCEPT !.outgoing = Append(c.outgoing, m)]
<1>1. c \in Objects /\ Typed(c) /\ Invariants(c)
  BY ObjectFields DEF Consistent
<1>2. EnqueueMessage(c, m) = ProcessQueue(d)
  BY DEF EnqueueMessage
<1>3. d = [c EXCEPT !.outgoing = Append(c.outgoing, m)]
  OBVIOUS
<1> HIDE DEF d
<1>4. Whole(d)
  BY <1>1, <1>3 DEF Objects, Whole
<1>5. /\ d.state = c.state /\ d.outgoing = Append(c.outgoing, m)
      /\ d.requests = c.requests
      /\ d.streams = c.streams /\ d.holders = c.holders /\ d.opening = c.opening
      /\ d.nextStreamId = c.nextStreamId /\ d.object = c.object
      /\ d.assertsHold = c.assertsHold /\ d.toDevice = c.toDevice
      /\ d.sends = c.sends
  BY <1>1, <1>3 DEF Objects
<1>6. /\ Append(c.outgoing, m) \in Seq(Queueable)
      /\ \A k \in DOMAIN Append(c.outgoing, m) :
            \/ Append(c.outgoing, m)[k] = m
            \/ k \in DOMAIN c.outgoing /\ Append(c.outgoing, m)[k] = c.outgoing[k]
  BY <1>1 DEF Typed
<1>7. Typed(d)
  BY <1>1, <1>5, <1>6 DEF Typed
<1>8. WritesHaveStreams(d)
  BY <1>1, <1>5, <1>6 DEF Invariants, WritesHaveStreams
<1>9. Invariants(d)
  BY <1>1, <1>5, <1>8 DEF Invariants, StreamsNeedConnection, HoldersHaveStreams,
     CallbacksHaveServices, OpensWait
<1>10. Follows(c, d)
  BY <1>1, <1>5, FollowsFewer DEF Known, Typed
<1>11. Consistent(d)
  BY <1>4, <1>7, <1>9, ObjectIntro DEF Consistent
<1> QED  BY <1>2, <1>10, <1>11, ProcessQueueConsistent, FollowsOn

(* createStream(), in every state. *)
LEMMA CreateStreamConsistent ==
    ASSUME NEW c, Consistent(c), NEW tag \in Nat
    PROVE  Consistent(CreateStream(c, tag)) /\ Follows(c, CreateStream(c, tag))
<1> DEFINE id == c.nextStreamId
           m  == QdbMessage("Open", id, 0, tag)
           b  == [c EXCEPT !.nextStreamId = id + 1,
                           !.requests = c.requests \cup {id},
                           !.opening = c.opening \cup {id}]
           d  == [b EXCEPT !.outgoing = Append(b.outgoing, m)]
<1>1. c \in Objects /\ Typed(c) /\ Invariants(c)
  BY ObjectFields DEF Consistent
<1>2. id \in Nat
  BY <1>1 DEF Typed
<1>3. m \in Queueable /\ m.hostStream = id /\ m.command = "Open"
  BY <1>2, QueueableType
<1>4. CreateStream(c, tag) = ProcessQueue(d)
  BY DEF CreateStream, EnqueueMessage
<1>5. b = [c EXCEPT !.nextStreamId = id + 1,
                    !.requests = c.requests \cup {id},
                    !.opening = c.opening \cup {id}]
  OBVIOUS
<1>6. d = [b EXCEPT !.outgoing = Append(b.outgoing, m)]
  OBVIOUS
<1> HIDE DEF m, b, d
<1>7. /\ b.state = c.state /\ b.outgoing = c.outgoing
      /\ b.requests = c.requests \cup {id}
      /\ b.streams = c.streams /\ b.holders = c.holders
      /\ b.opening = c.opening \cup {id}
      /\ b.nextStreamId = id + 1 /\ b.object = c.object
      /\ b.assertsHold = c.assertsHold /\ b.toDevice = c.toDevice
      /\ b.sends = c.sends /\ Whole(b)
  BY <1>1, <1>5 DEF Objects, Whole
<1>8. b \in Objects
  <2>1. /\ b.state \in ConnectionState /\ b.outgoing \in Seq(Queueable)
        /\ b.streams \in StreamMap
    BY <1>1, <1>7 DEF Typed
  <2>2. b.nextStreamId \in Nat
    BY <1>2, <1>7
  <2>3. b.requests \in SUBSET Nat /\ b.opening \in SUBSET Nat
    BY <1>1, <1>2, <1>7 DEF Typed
  <2>4. /\ b.holders \in SUBSET Nat
        /\ b.object \in {"new", "live", "crashed", "destroyed"}
        /\ b.assertsHold \in BOOLEAN /\ b.toDevice \in Seq(Message) /\ b.sends \in Nat
    BY <1>1, <1>7 DEF Typed
  <2> QED  BY <1>7, <2>1, <2>2, <2>3, <2>4, ObjectIntro DEF Typed
<1>9. /\ d.state = b.state /\ d.outgoing = Append(b.outgoing, m)
      /\ d.requests = b.requests /\ d.streams = b.streams
      /\ d.holders = b.holders /\ d.opening = b.opening
      /\ d.nextStreamId = b.nextStreamId /\ d.object = b.object
      /\ d.assertsHold = b.assertsHold /\ d.toDevice = b.toDevice
      /\ d.sends = b.sends /\ Whole(d)
  BY <1>6, <1>8 DEF Objects, Whole
<1>10. /\ d.outgoing \in Seq(Queueable)
       /\ \A k \in DOMAIN d.outgoing :
             \/ d.outgoing[k] = m
             \/ k \in DOMAIN c.outgoing /\ d.outgoing[k] = c.outgoing[k]
       /\ \A k \in DOMAIN c.outgoing :
             k \in DOMAIN d.outgoing /\ d.outgoing[k] = c.outgoing[k]
       /\ \E k \in DOMAIN d.outgoing : d.outgoing[k] = m
  <2>1. d.outgoing = Append(c.outgoing, m) /\ c.outgoing \in Seq(Queueable)
    BY <1>1, <1>7, <1>9 DEF Typed
  <2>2. /\ Append(c.outgoing, m) \in Seq(Queueable)
        /\ DOMAIN c.outgoing = 1..Len(c.outgoing)
        /\ DOMAIN Append(c.outgoing, m) = 1..Len(c.outgoing) + 1
        /\ Append(c.outgoing, m)[Len(c.outgoing) + 1] = m
        /\ Len(c.outgoing) \in Nat
    BY <1>3, <2>1
  <2>3. \A k \in DOMAIN c.outgoing : Append(c.outgoing, m)[k] = c.outgoing[k]
    BY <1>3, <2>1
  <2> QED  BY <2>1, <2>2, <2>3
<1>11. d \in Objects
  BY <1>8, <1>9, <1>10, ObjectFields, ObjectIntro DEF Typed
<1>12. WritesHaveStreams(d)
  BY <1>1, <1>3, <1>7, <1>9, <1>10 DEF Invariants, WritesHaveStreams
<1>13. OpensWait(d)
  <2>1. SUFFICES ASSUME c.state = "WaitingForConnection"
        PROVE  /\ \A k \in DOMAIN d.outgoing : d.outgoing[k].command = "Open"
               /\ d.requests = {d.outgoing[k].hostStream : k \in DOMAIN d.outgoing}
    BY <1>7, <1>9 DEF OpensWait
  <2>2. /\ \A k \in DOMAIN c.outgoing : c.outgoing[k].command = "Open"
        /\ c.requests = {c.outgoing[k].hostStream : k \in DOMAIN c.outgoing}
    BY <1>1, <2>1 DEF Invariants, OpensWait
  <2>3. \A k \in DOMAIN d.outgoing : d.outgoing[k].command = "Open"
    BY <1>3, <1>10, <2>2
  <2>4. d.requests = c.requests \cup {m.hostStream}
    BY <1>3, <1>7, <1>9
  <2>5. d.requests = {d.outgoing[k].hostStream : k \in DOMAIN d.outgoing}
    BY <1>10, <2>2, <2>4
  <2> QED  BY <2>3, <2>5
<1>14. Invariants(d)
  BY <1>1, <1>7, <1>9, <1>12, <1>13 DEF Invariants, StreamsNeedConnection,
     HoldersHaveStreams, CallbacksHaveServices
<1>15. Follows(c, d)
  BY <1>1, <1>2, <1>7, <1>9 DEF Follows, IdsKept, Known
<1>16. Consistent(d)
  BY <1>11, <1>14 DEF Consistent
<1> QED  BY <1>4, <1>15, <1>16, ProcessQueueConsistent, FollowsOn

(* Stream::write() and Stream::requestClose() of an open stream *)
LEMMA WriteConsistent ==
    ASSUME NEW c, Consistent(c), NEW id \in DOMAIN c.streams, NEW packet \in Nat
    PROVE  /\ Consistent(Write(c, id, packet)) /\ Follows(c, Write(c, id, packet))
           /\ Consistent(RequestClose(c, id)) /\ Follows(c, RequestClose(c, id))
<1> DEFINE w == QdbMessage("Write", id, c.streams[id], packet)
           x == QdbMessage("Close", id, c.streams[id], 0)
<1>1. c \in Objects /\ Typed(c) /\ Invariants(c)
  BY ObjectFields DEF Consistent
<1>2. id \in Nat /\ c.streams[id] \in Nat
  BY <1>1, StreamMapType DEF Typed
<1>3. /\ w \in Queueable /\ w.hostStream = id
      /\ x \in Queueable /\ x.command = "Close"
  BY <1>2, QueueableType
<1>4. c.state # "WaitingForConnection"
  BY <1>1, NoStreamsType DEF Invariants, StreamsNeedConnection
<1> HIDE DEF w, x
<1>5. Consistent(EnqueueMessage(c, w)) /\ Follows(c, EnqueueMessage(c, w))
  BY <1>3, <1>4, EnqueueConsistent
<1>6. Consistent(EnqueueMessage(c, x)) /\ Follows(c, EnqueueMessage(c, x))
  BY <1>3, <1>4, EnqueueConsistent
<1> QED  BY <1>5, <1>6 DEF Write, RequestClose, w, x

(* acknowledge(), which may lose the connection. *)
LEMMA AcknowledgeConsistent ==
    ASSUME NEW c, Consistent(c), NEW m \in Message
    PROVE  /\ Consistent(Acknowledge(c, m)) /\ Follows(c, Acknowledge(c, m))
<1> DEFINE ok == QdbMessage("Ok", m.hostStream, m.deviceStream, 0)
<1>1. ok \in Message
  BY MessageType DEF Message, StreamId, Commands
<1>2. c \in Objects /\ HoldersHaveStreams(c)
  BY DEF Consistent, Invariants
<1> HIDE DEF ok
<1>3. CASE c.sends = 0
  BY <1>2, <1>3, DisconnectConsistent DEF Acknowledge
<1>4. CASE c.sends # 0
  <2>1. Acknowledge(c, m) = Transmit(c, ok)
    BY <1>4 DEF Acknowledge, ok
  <2> QED  BY <1>1, <1>4, <2>1, TransmitConsistent
<1> QED  BY <1>3, <1>4

(* packetAvailable() of a service *)
LEMMA PacketAvailableConsistent ==
    ASSUME NEW c, Consistent(c), NEW id, NEW reaction \in Reaction
    PROVE  /\ Consistent(PacketAvailable(c, id, reaction))
           /\ Follows(c, PacketAvailable(c, id, reaction))
<1>1. reaction.data \in Nat
  BY DEF Reaction
<1>2. Consistent(CreateStream(c, reaction.data))
      /\ Follows(c, CreateStream(c, reaction.data))
  BY <1>1, CreateStreamConsistent
<1>3. Follows(c, c)
  BY FollowsItself DEF Consistent
<1> QED  BY <1>2, <1>3 DEF PacketAvailable

(* A change of the object's life alone, which is never its creation. *)
LEMMA ObjectConsistent ==
    ASSUME NEW c, Consistent(c), NEW o \in {"live", "crashed", "destroyed"}, NEW d,
           d = [c EXCEPT !.object = o]
    PROVE  /\ Consistent(d) /\ IdsKept(c, d) /\ d.object = o
           /\ o = "crashed" => Follows(c, d)
           /\ d.streams = c.streams /\ d.holders = c.holders
<1>1. c \in Objects /\ Typed(c) /\ Invariants(c)
  BY ObjectFields DEF Consistent
<1>2. Whole(d)
  BY <1>1 DEF Objects, Whole
<1>3. /\ d.state = c.state /\ d.outgoing = c.outgoing /\ d.requests = c.requests
      /\ d.streams = c.streams /\ d.holders = c.holders /\ d.opening = c.opening
      /\ d.nextStreamId = c.nextStreamId /\ d.object = o
      /\ d.assertsHold = c.assertsHold /\ d.toDevice = c.toDevice
      /\ d.sends = c.sends
  BY <1>1 DEF Objects
<1>4. Typed(d)
  BY <1>1, <1>3 DEF Typed
<1>5. Invariants(d)
  BY <1>1, <1>3 DEF Invariants, StreamsNeedConnection, HoldersHaveStreams,
     CallbacksHaveServices, WritesHaveStreams, OpensWait
<1>6. IdsKept(c, d) /\ (o = "crashed" => Follows(c, d))
  BY <1>1, <1>3 DEF Known, Typed, Follows, IdsKept
<1> QED  BY <1>2, <1>3, <1>4, <1>5, <1>6, ObjectIntro DEF Consistent

(* handleWrite() *)
LEMMA HandleWriteConsistent ==
    ASSUME NEW c, Consistent(c), c.state \in {"Connected", "Waiting"},
           NEW m \in Message, NEW reaction \in Reaction
    PROVE  /\ Consistent(HandleWrite(c, m, reaction))
           /\ Follows(c, HandleWrite(c, m, reaction))
<1> DEFINE x == QdbMessage("Close", m.hostStream, m.deviceStream, 0)
           a == Acknowledge(c, m)
<1>1. CASE m.hostStream \notin DOMAIN c.streams
  <2>1. x \in Queueable /\ x.command = "Close"
    BY QueueableType DEF Message, StreamId
  <2>2. HandleWrite(c, m, reaction) = EnqueueMessage(c, x)
    BY <1>1 DEF HandleWrite
  <2> HIDE DEF x
  <2> QED  BY <2>1, <2>2, EnqueueConsistent
<1>2. CASE m.hostStream \in DOMAIN c.streams
  <2>1. Consistent(a) /\ Follows(c, a)
    BY AcknowledgeConsistent
  <2>2. HandleWrite(c, m, reaction) =
            IF m.hostStream \in DOMAIN a.streams
            THEN PacketAvailable(a, m.hostStream, reaction)
            ELSE [a EXCEPT !.object = "crashed"]
    BY <1>2 DEF HandleWrite
  <2> HIDE DEF a
  <2>3. /\ Consistent(PacketAvailable(a, m.hostStream, reaction))
        /\ Follows(a, PacketAvailable(a, m.hostStream, reaction))
    BY <2>1, PacketAvailableConsistent
  <2>4. /\ Consistent([a EXCEPT !.object = "crashed"])
        /\ Follows(a, [a EXCEPT !.object = "crashed"])
    BY <2>1, ObjectConsistent
  <2> QED  BY <2>1, <2>2, <2>3, <2>4, FollowsOn
<1> QED  BY <1>1, <1>2

(* finishCreateStream() *)
LEMMA FinishCreateStreamConsistent ==
    ASSUME NEW c, Consistent(c), c.state = "Connected", NEW host \in c.requests,
           NEW device \in Nat, NEW reaction \in Reaction
    PROVE  /\ Consistent(FinishCreateStream(c, host, device, reaction))
           /\ Follows(c, FinishCreateStream(c, host, device, reaction))
<1> DEFINE f == [i \in DOMAIN c.streams \cup {host} |->
                     IF i = host THEN device ELSE c.streams[i]]
           d == [c EXCEPT !.streams = f, !.requests = c.requests \ {host},
                          !.opening = c.opening \ {host},
                          !.holders = c.holders \cup {host}]
<1>1. c \in Objects /\ Typed(c) /\ Invariants(c)
  BY ObjectFields DEF Consistent
<1>2. host \in Nat
  BY <1>1 DEF Typed
<1>3. f \in StreamMap /\ DOMAIN f = DOMAIN c.streams \cup {host}
  <2>1. /\ c.streams \in [DOMAIN c.streams -> Nat]
        /\ DOMAIN c.streams \in SUBSET Nat
        /\ IsFiniteSet(DOMAIN c.streams)
    BY <1>1, StreamMapType DEF Typed
  <2>2. IsFiniteSet(DOMAIN c.streams \cup {host})
    BY <2>1, FS_AddElement
  <2>3. f \in [DOMAIN c.streams \cup {host} -> Nat]
    BY <2>1
  <2>4. DOMAIN c.streams \cup {host} \in SUBSET Nat
    BY <1>2, <2>1
  <2> HIDE DEF f
  <2>5. DOMAIN f = DOMAIN c.streams \cup {host}
    BY <2>3
  <2> QED  BY <2>2, <2>3, <2>4, <2>5 DEF StreamMap
<1>4. FinishCreateStream(c, host, device, reaction) =
          IF reaction.call = "write" THEN Write(d, host, reaction.data) ELSE d
  BY DEF FinishCreateStream
<1>5. d = [c EXCEPT !.streams = f, !.requests = c.requests \ {host},
                    !.opening = c.opening \ {host},
                    !.holders = c.holders \cup {host}]
  OBVIOUS
<1> HIDE DEF f, d
<1>6. /\ d.state = c.state /\ d.outgoing = c.outgoing
      /\ d.requests = c.requests \ {host}
      /\ d.streams = f /\ d.holders = c.holders \cup {host}
      /\ d.opening = c.opening \ {host}
      /\ d.nextStreamId = c.nextStreamId /\ d.object = c.object
      /\ d.assertsHold = c.assertsHold /\ d.toDevice = c.toDevice
      /\ d.sends = c.sends /\ Whole(d)
  BY <1>1, <1>5 DEF Objects, Whole
<1>7. Typed(d)
  BY <1>1, <1>2, <1>3, <1>6 DEF Typed
<1>8. Invariants(d)
  BY <1>1, <1>3, <1>6 DEF Invariants, StreamsNeedConnection, HoldersHaveStreams,
     CallbacksHaveServices, WritesHaveStreams, OpensWait
<1>9. Follows(c, d)
  BY <1>1, <1>3, <1>6, FollowsFewer DEF Known, Typed
<1>10. Consistent(d)
  BY <1>6, <1>7, <1>8, ObjectIntro DEF Consistent
<1>11. reaction.data \in Nat /\ host \in DOMAIN d.streams
  BY <1>3, <1>6 DEF Reaction
<1>12. /\ Consistent(Write(d, host, reaction.data))
       /\ Follows(d, Write(d, host, reaction.data))
  BY <1>10, <1>11, WriteConsistent
<1> QED  BY <1>4, <1>9, <1>10, <1>12, FollowsOn

(* handleMessage(), the case of an Ok *)
LEMMA HandleOkConsistent ==
    ASSUME NEW c, Consistent(c), c.state \in {"Connected", "Waiting"},
           NEW m \in Message, NEW reaction \in Reaction
    PROVE  /\ Consistent(HandleOk(c, m, reaction))
           /\ Follows(c, HandleOk(c, m, reaction))
<1> DEFINE d == [c EXCEPT !.state = "Connected"]
<1>1. Follows(c, c)
  BY FollowsItself DEF Consistent
<1>2. Consistent(d) /\ Follows(c, d) /\ d.state = "Connected" /\ d.requests = c.requests
  BY StateConsistent DEF ConnectionState
<1>3. HandleOk(c, m, reaction) =
          CASE c.state = "Connected" -> c
            [] c.state = "Waiting" /\ m.hostStream \in c.requests ->
                 FinishCreateStream(d, m.hostStream, m.deviceStream, reaction)
            [] OTHER -> d
  BY DEF HandleOk
<1> HIDE DEF d
<1>4. CASE c.state = "Connected"
  BY <1>1, <1>3, <1>4
<1>5. CASE c.state = "Waiting" /\ m.hostStream \in c.requests
  <2>1. HandleOk(c, m, reaction) =
            FinishCreateStream(d, m.hostStream, m.deviceStream, reaction)
    BY <1>3, <1>5
  <2>2. m.deviceStream \in Nat
    BY DEF Message, StreamId
  <2> QED  BY <1>2, <1>5, <2>1, <2>2, FinishCreateStreamConsistent, FollowsOn
<1>6. CASE c.state = "Waiting" /\ m.hostStream \notin c.requests
  BY <1>2, <1>3, <1>6
<1> QED  BY <1>4, <1>5, <1>6

(* handleRefuse() *)
LEMMA HandleRefuseConsistent ==
    ASSUME NEW c, Consistent(c), NEW m
    PROVE  Consistent(HandleRefuse(c, m)) /\ Follows(c, HandleRefuse(c, m))
BY ResetConnectionConsistent DEF HandleRefuse

(* handleMessage(), the outer switch *)
LEMMA DispatchConsistent ==
    ASSUME NEW c, Consistent(c), NEW m \in Message,
           m.command \notin {"Invalid", "Open"}, NEW reaction \in Reaction
    PROVE  /\ Consistent(Dispatch(c, m, reaction))
           /\ Follows(c, Dispatch(c, m, reaction))
<1>1. c \in Objects /\ c.state \in ConnectionState /\ Invariants(c)
  BY ObjectFields DEF Consistent, Typed
<1>2. CASE c.state = "Disconnected"
  BY <1>2, ResetConnectionConsistent DEF Dispatch, HandleInDisconnected
<1>3. CASE c.state = "WaitingForConnection"
  <2>0. Dispatch(c, m, reaction) = HandleInWaitingForConnection(c, m)
    BY <1>3 DEF Dispatch
  <2>1. CASE m.command = "Connect"
    <3> DEFINE s == IF CheckVersion(m) THEN "Connected" ELSE "Disconnected"
    <3>1. Dispatch(c, m, reaction) = [c EXCEPT !.state = s]
      BY <2>0, <2>1 DEF HandleInWaitingForConnection
    <3>2. s \in ConnectionState /\ s # "WaitingForConnection" /\ c.streams = NoStreams
      BY <1>1, <1>3 DEF ConnectionState, Invariants, StreamsNeedConnection
    <3> HIDE DEF s
    <3> QED  BY <3>1, <3>2, StateConsistent
  <2>2. CASE m.command = "Refuse"
    BY <2>0, <2>2, HandleRefuseConsistent DEF HandleInWaitingForConnection
  <2>3. CASE m.command \notin {"Connect", "Refuse"}
    BY <2>0, <2>3, ResetConnectionConsistent DEF HandleInWaitingForConnection
  <2> QED  BY <2>1, <2>2, <2>3
<1>4. CASE c.state \in {"Connected", "Waiting"}
  <2>0. Dispatch(c, m, reaction) = HandleInConnected(c, m, reaction)
    BY <1>4 DEF Dispatch
  <2>1. CASE m.command = "Connect"
    BY <2>0, <2>1, ResetConnectionConsistent DEF HandleInConnected
  <2>2. CASE m.command = "Refuse"
    BY <2>0, <2>2, HandleRefuseConsistent DEF HandleInConnected
  <2>3. CASE m.command = "Write"
    BY <1>4, <2>0, <2>3, HandleWriteConsistent DEF HandleInConnected
  <2>4. CASE m.command = "Close"
    BY <2>0, <2>4, CloseStreamConsistent DEF HandleInConnected
  <2>5. CASE m.command = "Ok"
    BY <1>4, <2>0, <2>5, HandleOkConsistent DEF HandleInConnected
  <2>6. m.command \in {"Connect", "Refuse", "Write", "Close", "Ok"}
    BY DEF Message, Commands
  <2> QED  BY <2>1, <2>2, <2>3, <2>4, <2>5, <2>6
<1> QED  BY <1>1, <1>2, <1>3, <1>4 DEF ConnectionState

(* handleMessage() keeps the connection consistent in every state, for every
   message the device may send. *)
LEMMA HandleMessageConsistent ==
    ASSUME NEW c, Consistent(c), NEW m \in Message, m.command # "Open",
           NEW reaction \in Reaction
    PROVE  /\ Consistent(HandleMessage(c, m, reaction))
           /\ Follows(c, HandleMessage(c, m, reaction))
<1>1. c \in Objects /\ HoldersHaveStreams(c) /\ Follows(c, c)
  BY FollowsItself DEF Consistent, Invariants
<1>2. CASE m.command # "Invalid"
  <2> DEFINE d == Dispatch(c, m, reaction)
  <2>1. HandleMessage(c, m, reaction) = ProcessQueue(d)
    BY <1>2 DEF HandleMessage
  <2>2. Consistent(d) /\ Follows(c, d)
    BY <1>2, DispatchConsistent
  <2> HIDE DEF d
  <2> QED  BY <2>1, <2>2, ProcessQueueConsistent, FollowsOn
<1>3. CASE m.command = "Invalid" /\ c.state # "Disconnected"
  <2>1. HandleMessage(c, m, reaction) = Disconnect(c)
    BY <1>3 DEF HandleMessage
  <2> QED  BY <1>1, <2>1, DisconnectConsistent
<1>4. CASE m.command = "Invalid" /\ c.state = "Disconnected"
  <2>1. HandleMessage(c, m, reaction) = c
    BY <1>4 DEF HandleMessage
  <2> QED  BY <1>1, <2>1
<1> QED  BY <1>2, <1>3, <1>4

(* close(): everything is gone, whether or not all the Closes could be sent. *)
LEMMA CloseConsistent ==
    ASSUME NEW c, Consistent(c)
    PROVE  /\ Consistent(Close(c)) /\ Follows(c, Close(c))
           /\ Close(c).streams = NoStreams
<1> DEFINE ids    == DOMAIN c.streams
           closes == [k \in 1..Cardinality(ids) |->
                        QdbMessage("Close", Nth(ids, k), c.streams[Nth(ids, k)], 0)]
           sent   == IF Len(closes) <= c.sends THEN closes
                     ELSE SubSeq(closes, 1, c.sends)
           f      == Forget(c)
           closed == [f EXCEPT !.toDevice = f.toDevice \o sent]
<1>1. c \in Objects /\ Typed(c) /\ Invariants(c) /\ HoldersHaveStreams(c)
  BY ObjectFields DEF Consistent, Invariants
<1>2. sent \in Seq(Message)
  <2>1. /\ IsFiniteSet(ids) /\ ids \subseteq Nat
        /\ \A i \in ids : c.streams[i] \in Nat
    BY <1>1, StreamMapType DEF Typed
  <2> HIDE DEF ids
  <2>2. Cardinality(ids) \in Nat /\ (Cardinality(ids) = 0 <=> ids = {})
    BY <2>1, FS_CardinalityType, FS_EmptySet
  <2>3. ASSUME NEW k \in 1..Cardinality(ids)
        PROVE  QdbMessage("Close", Nth(ids, k), c.streams[Nth(ids, k)], 0) \in Message
    <3>1. Nth(ids, k) \in ids
      BY <2>2, <2>3, NthIsMember
    <3>2. Nth(ids, k) \in Nat /\ c.streams[Nth(ids, k)] \in Nat
      BY <2>1, <3>1
    <3>3. "Close" \in Commands
      BY DEF Commands
    <3> QED  BY <3>2, <3>3, MessageType
  <2>4. closes \in [1..Cardinality(ids) -> Message]
    BY <2>3
  <2>5. closes \in Seq(Message)
    BY <2>2, <2>4
  <2> HIDE DEF closes
  <2>6. c.sends \in Nat
    BY <1>1 DEF Typed
  <2>7. Len(closes) \in Nat
    BY <2>5
  <2>8. ASSUME ~ Len(closes) <= c.sends
        PROVE  SubSeq(closes, 1, c.sends) \in Seq(Message)
    BY <2>5, <2>6, <2>7, <2>8
  <2> QED  BY <2>5, <2>8
<1>3. /\ Consistent(f) /\ Follows(c, f) /\ f.streams = NoStreams
  BY <1>1, ForgetConsistent
<1>4. closed = [f EXCEPT !.toDevice = f.toDevice \o sent]
  OBVIOUS
<1> DEFINE lost == Len(sent) < Len(closes)
<1>6. Close(c) =
          IF c.state \in {"Disconnected", "WaitingForConnection"}
          THEN [c EXCEPT !.state = "Disconnected"]
          ELSE IF lost THEN Disconnect(closed) ELSE closed
  BY DEF Close
<1> HIDE DEF closed, f, sent, closes, lost
<1>5. f \in Objects /\ Typed(f) /\ Invariants(f)
  BY <1>3, ObjectFields DEF Consistent
<1>7. /\ closed.state = f.state /\ closed.outgoing = f.outgoing
      /\ closed.requests = f.requests
      /\ closed.streams = f.streams /\ closed.holders = f.holders
      /\ closed.opening = f.opening
      /\ closed.nextStreamId = f.nextStreamId /\ closed.object = f.object
      /\ closed.assertsHold = f.assertsHold
      /\ closed.toDevice = f.toDevice \o sent
      /\ closed.sends = f.sends /\ Whole(closed)
  BY <1>4, <1>5 DEF Objects, Whole
<1>8. f.toDevice \o sent \in Seq(Message)
  BY <1>2, <1>5 DEF Typed
<1>9. Typed(closed)
  BY <1>5, <1>7, <1>8 DEF Typed
<1>10. Invariants(closed)
  BY <1>5, <1>7 DEF Invariants, StreamsNeedConnection, HoldersHaveStreams,
     CallbacksHaveServices, WritesHaveStreams, OpensWait
<1>11. Consistent(closed) /\ closed.streams = NoStreams
  BY <1>3, <1>7, <1>9, <1>10, ObjectIntro DEF Consistent
<1>12. Follows(c, closed)
  <2>1. Follows(f, closed)
    BY <1>5, <1>7, FollowsFewer DEF Known, Typed
  <2> QED  BY <1>3, <2>1, FollowsOn
<1>13. CASE c.state \in {"Disconnected", "WaitingForConnection"}
  <2>1. Close(c) = [c EXCEPT !.state = "Disconnected"]
    BY <1>6, <1>13
  <2>2. c.streams = NoStreams
    BY <1>1, <1>13 DEF Invariants, StreamsNeedConnection
  <2> QED  BY <2>1, <2>2, StateConsistent DEF ConnectionState
<1>14. CASE c.state \notin {"Disconnected", "WaitingForConnection"}
  <2>1. CASE lost
    <3>1. Close(c) = Disconnect(closed)
      BY <1>6, <1>14, <2>1
    <3>2. closed \in Objects /\ HoldersHaveStreams(closed)
      BY <1>11 DEF Consistent, Invariants
    <3>3. Consistent(Disconnect(closed)) /\ Follows(closed, Disconnect(closed))
          /\ Disconnect(closed).streams = NoStreams
      BY <3>2, DisconnectConsistent
    <3> QED  BY <1>12, <3>1, <3>3, FollowsOn
  <2>2. CASE ~ lost
    BY <1>6, <1>11, <1>12, <1>14, <2>2
  <2> QED  BY <2>1, <2>2
<1> QED  BY <1>13, <1>14

(* ~Connection() *)
LEMMA DestroyConsistent ==
    ASSUME NEW c, Consistent(c)
    PROVE  LET d == Destroy(c) IN
           /\ Consistent(d) /\ IdsKept(c, d) /\ d.object = "destroyed"
           /\ d.streams = NoStreams /\ d.holders = {}
<1> DEFINE e == Close(c)
           d == Destroy(c)
<1>1. Consistent(e) /\ Follows(c, e) /\ e.streams = NoStreams
  BY CloseConsistent
<1>2. d = [e EXCEPT !.object = "destroyed"]
  BY DEF Destroy
<1> HIDE DEF d, e
<1>3. /\ Consistent(d) /\ IdsKept(e, d) /\ d.object = "destroyed"
      /\ d.streams = e.streams
  BY <1>1, <1>2, ObjectConsistent
<1>4. IdsKept(c, d)
  BY <1>1, <1>3 DEF Follows, IdsKept
<1>5. d.holders = {}
  BY <1>1, <1>3, NoStreamsType DEF Consistent, Invariants, HoldersHaveStreams
<1> QED  BY <1>1, <1>3, <1>4, <1>5 DEF d

(* The destructor of a service: requestClose(), and the pointer is gone. *)
LEMMA DestroyServiceConsistent ==
    ASSUME NEW c, Consistent(c), NEW id \in DOMAIN c.streams
    PROVE  Consistent(DestroyService(c, id)) /\ Follows(c, DestroyService(c, id))
<1> DEFINE e == RequestClose(c, id)
           d == DestroyService(c, id)
<1>1. Consistent(e) /\ Follows(c, e)
  BY WriteConsistent
<1>2. d = [e EXCEPT !.holders = e.holders \ {id}]
  BY DEF DestroyService
<1> HIDE DEF d, e
<1>3. e \in Objects /\ Typed(e) /\ Invariants(e)
  BY <1>1, ObjectFields DEF Consistent
<1>4. /\ d.state = e.state /\ d.outgoing = e.outgoing /\ d.requests = e.requests
      /\ d.streams = e.streams /\ d.holders = e.holders \ {id}
      /\ d.opening = e.opening
      /\ d.nextStreamId = e.nextStreamId /\ d.object = e.object
      /\ d.assertsHold = e.assertsHold /\ d.toDevice = e.toDevice
      /\ d.sends = e.sends /\ Whole(d)
  BY <1>2, <1>3 DEF Objects, Whole
<1>5. Typed(d)
  BY <1>3, <1>4 DEF Typed
<1>6. Invariants(d)
  BY <1>3, <1>4 DEF Invariants, StreamsNeedConnection, HoldersHaveStreams,
     CallbacksHaveServices, WritesHaveStreams, OpensWait
<1>7. Follows(e, d)
  BY <1>3, <1>4, FollowsFewer DEF Known, Typed
<1> QED  BY <1>1, <1>4, <1>5, <1>6, <1>7, ObjectIntro, FollowsOn DEF Consistent, d
-----------------------------------------------------------------------------
(* The inductive invariant of the specification: the invariants the run
   checks, that there are finitely many streams (close() numbers them), and
   that an object nobody has called connect() on yet has nothing to lose. *)
IInv ==
    /\ TypeOK
    /\ StreamsOnlyWhenConnected
    /\ NoDanglingStream
    /\ RequestsHaveServices
    /\ QueuedWritesHaveStreams
    /\ PendingOpensQueued
    /\ DestroyedLeavesNothing
    /\ IsFiniteSet(DOMAIN streams)
    /\ object = "new" =>
          state = "Disconnected" /\ outgoing = <<>> /\ requests = {} /\ streams = NoStreams

(* An event starts with a consistent object ... *)
LEMMA FreshConsistent ==
    ASSUME IInv, NEW n \in Nat
    PROVE  /\ Consistent(Fresh(n))
           /\ Fresh(n).streams = streams /\ Fresh(n).requests = requests
           /\ Fresh(n).nextStreamId = nextStreamId /\ Fresh(n).object = object
           /\ object = "new" => Pristine(Fresh(n))
<1> DEFINE c == Fresh(n)
<1>1. /\ c.state = state /\ c.outgoing = outgoing /\ c.streams = streams
      /\ c.requests = requests /\ c.nextStreamId = nextStreamId
      /\ c.opening = opening /\ c.holders = holders /\ c.object = object
      /\ c.assertsHold = assertsHold /\ c.toDevice = <<>> /\ c.sends = n
      /\ Whole(c)
  BY DEF Fresh, Activation, Whole
<1> HIDE DEF c
<1>2. streams \in StreamMap
  BY DEF IInv, TypeOK, StreamMap
<1>3. Typed(c)
  BY <1>1, <1>2 DEF IInv, TypeOK, Typed, Queueable
<1>4. Invariants(c)
  BY <1>1 DEF IInv, Invariants, StreamsOnlyWhenConnected, StreamsNeedConnection,
     NoDanglingStream, HoldersHaveStreams, RequestsHaveServices, CallbacksHaveServices,
     QueuedWritesHaveStreams, WritesHaveStreams, PendingOpensQueued, OpensWait
<1>5. object = "new" => Pristine(c)
  BY <1>1 DEF IInv, Pristine
<1> QED  BY <1>1, <1>3, <1>4, <1>5, ObjectIntro DEF Consistent, c

(* ... and what it returns with is committed to consistent variables. *)
LEMMA CommitConsistent ==
    ASSUME NEW d, Consistent(d), Commit(d), d.object # "new",
           d.object = "destroyed" => d.streams = NoStreams /\ d.holders = {}
    PROVE  IInv'
<1>1. /\ state' = d.state /\ outgoing' = d.outgoing /\ streams' = d.streams
      /\ requests' = d.requests /\ nextStreamId' = d.nextStreamId
      /\ opening' = d.opening /\ holders' = d.holders /\ object' = d.object
      /\ assertsHold' = d.assertsHold /\ toDevice' = d.toDevice
  BY DEF Commit
<1>2. Typed(d) /\ Invariants(d)
  BY ObjectFields DEF Consistent
<1>3. /\ d.streams \in [DOMAIN d.streams -> Nat] /\ DOMAIN d.streams \subseteq Nat
      /\ IsFiniteSet(DOMAIN d.streams)
  BY <1>2, StreamMapType DEF Typed
<1>4. TypeOK'
  BY <1>1, <1>2, <1>3 DEF TypeOK, Typed, Queueable
<1>5. /\ StreamsOnlyWhenConnected' /\ NoDanglingStream' /\ RequestsHaveServices'
      /\ QueuedWritesHaveStreams' /\ PendingOpensQueued'
  BY <1>1, <1>2 DEF Invariants, StreamsOnlyWhenConnected, StreamsNeedConnection,
     NoDanglingStream, HoldersHaveStreams, RequestsHaveServices, CallbacksHaveServices,
     QueuedWritesHaveStreams, WritesHaveStreams, PendingOpensQueued, OpensWait
<1>6. DestroyedLeavesNothing'
  BY <1>1 DEF DestroyedLeavesNothing
<1>7. IsFiniteSet(DOMAIN streams)'
  BY <1>1, <1>3
<1>8. object' # "new"
  BY <1>1
<1> QED  BY <1>4, <1>5, <1>6, <1>7, <1>8 DEF IInv

(* No id in use before is known after, unless it was. *)
IdsStayClosed ==
    \A id \in 1..nextStreamId - 1 :
        id \notin DOMAIN streams \cup requests =>
            id \notin DOMAIN streams' \cup requests'

(* The ids that a handler has kept from use are kept by the step. *)
LEMMA CommitKeepsIds ==
    ASSUME IInv, NEW n \in Nat, NEW d, IdsKept(Fresh(n), d), Commit(d)
    PROVE  IdsStayClosed
<1>1. streams' = d.streams /\ requests' = d.requests
  BY DEF Commit
<1>2. /\ Fresh(n).streams = streams /\ Fresh(n).requests = requests
      /\ Fresh(n).nextStreamId = nextStreamId /\ nextStreamId \in Nat
  BY FreshConsistent DEF IInv, TypeOK
<1> QED  BY <1>1, <1>2 DEF IdsKept, Known, IdsStayClosed

(* The two facts of one event of a live object. *)
LEMMA EventConsistent ==
    ASSUME IInv, Live, NEW n \in Nat, NEW d, Consistent(d), Follows(Fresh(n), d),
           Commit(d)
    PROVE  IInv' /\ IdsStayClosed
<1>1. Fresh(n).object = "live"
  BY FreshConsistent DEF Live
<1>2. d.object \notin {"new", "destroyed"}
  BY <1>1 DEF Follows
<1> QED  BY <1>2, CommitConsistent, CommitKeepsIds DEF Follows
-----------------------------------------------------------------------------
(* A Connection is consistent when it has been constructed. *)
LEMMA InitIInv == Init => IInv
<1> SUFFICES ASSUME Init PROVE IInv
  OBVIOUS
<1>1. /\ streams = NoStreams /\ DOMAIN streams = {} /\ IsFiniteSet(DOMAIN streams)
      /\ streams \in [DOMAIN streams -> Nat]
  BY NoStreamsType, StreamMapType DEF Init
<1>2. TypeOK
  BY <1>1 DEF Init, TypeOK, ConnectionState
<1>3. QueuedWritesHaveStreams /\ PendingOpensQueued
  BY DEF Init, QueuedWritesHaveStreams, PendingOpensQueued
<1> QED
  BY <1>1, <1>2, <1>3 DEF Init, IInv, StreamsOnlyWhenConnected, NoDanglingStream,
     RequestsHaveServices, DestroyedLeavesNothing

(* Every event on the connection keeps it consistent. *)
LEMMA NextIInv ==
    ASSUME IInv, [Next]_vars
    PROVE  IInv' /\ [IdsStayClosed]_vars
<1>1. CASE UNCHANGED vars
  BY <1>1 DEF vars, IInv, TypeOK, StreamsOnlyWhenConnected, NoDanglingStream,
     RequestsHaveServices, QueuedWritesHaveStreams, PendingOpensQueued,
     DestroyedLeavesNothing
<1>2. ASSUME NEW sends \in SendBudgets, PoolConnect(Fresh(sends))
      PROVE  IInv' /\ IdsStayClosed
  <2> DEFINE c == Fresh(sends)
             d == Connect(c)
             e == [d EXCEPT !.object = "live"]
  <2>1. sends \in Nat
    BY InputsAssumption
  <2>2. Consistent(c) /\ Pristine(c)
    BY <1>2, <2>1, FreshConsistent DEF PoolConnect
  <2>3. Consistent(d) /\ Follows(c, d)
    BY <2>2, ConnectConsistent
  <2>4. Commit(e)
    BY <1>2 DEF PoolConnect
  <2> HIDE DEF d
  <2>5. Consistent(e) /\ IdsKept(d, e) /\ e.object = "live"
    BY <2>3, ObjectConsistent
  <2>6. IdsKept(c, e)
    BY <2>3, <2>5 DEF Follows, IdsKept
  <2> HIDE DEF e, c
  <2>7. IInv'
    BY <2>4, <2>5, CommitConsistent
  <2> QED  BY <2>1, <2>4, <2>6, <2>7, CommitKeepsIds DEF c
<1>3. ASSUME NEW sends \in SendBudgets, NEW m \in DeviceMessages, NEW r \in Reactions,
             Receive(Fresh(sends), m, r)
      PROVE  IInv' /\ IdsStayClosed
  <2>1. /\ sends \in Nat /\ m \in Message /\ m.command # "Open" /\ r \in Reaction
    BY InputsAssumption
  <2>2. Consistent(Fresh(sends))
    BY <2>1, FreshConsistent
  <2>3. /\ Consistent(HandleMessage(Fresh(sends), m, r))
        /\ Follows(Fresh(sends), HandleMessage(Fresh(sends), m, r))
    BY <2>1, <2>2, HandleMessageConsistent
  <2> QED  BY <1>3, <2>1, <2>3, EventConsistent DEF Receive
<1>4. ASSUME NEW sends \in SendBudgets, NEW tag \in Tags,
             InitializeService(Fresh(sends), tag)
      PROVE  IInv' /\ IdsStayClosed
  <2>1. sends \in Nat /\ tag \in Nat
    BY InputsAssumption
  <2>2. Consistent(Fresh(sends))
    BY <2>1, FreshConsistent
  <2>3. /\ Consistent(CreateStream(Fresh(sends), tag))
        /\ Follows(Fresh(sends), CreateStream(Fresh(sends), tag))
    BY <2>1, <2>2, CreateStreamConsistent
  <2> QED  BY <1>4, <2>1, <2>3, EventConsistent DEF InitializeService
<1>5. ASSUME NEW sends \in SendBudgets, NEW id \in holders, NEW p \in Packets,
             ServiceWrite(Fresh(sends), id, p)
      PROVE  IInv' /\ IdsStayClosed
  <2>1. sends \in Nat /\ p \in Nat
    BY InputsAssumption
  <2>2. Consistent(Fresh(sends)) /\ id \in DOMAIN Fresh(sends).streams
    BY <2>1, FreshConsistent DEF IInv, NoDanglingStream
  <2>3. /\ Consistent(Write(Fresh(sends), id, p))
        /\ Follows(Fresh(sends), Write(Fresh(sends), id, p))
    BY <2>1, <2>2, WriteConsistent
  <2> QED  BY <1>5, <2>1, <2>3, EventConsistent DEF ServiceWrite
<1>6. ASSUME NEW sends \in SendBudgets, NEW id \in holders,
             ServiceClose(Fresh(sends), id)
      PROVE  IInv' /\ IdsStayClosed
  <2>1. sends \in Nat
    BY InputsAssumption
  <2>2. Consistent(Fresh(sends)) /\ id \in DOMAIN Fresh(sends).streams
    BY <2>1, FreshConsistent DEF IInv, NoDanglingStream
  <2>3. /\ Consistent(RequestClose(Fresh(sends), id))
        /\ Follows(Fresh(sends), RequestClose(Fresh(sends), id))
    BY <2>2, WriteConsistent
  <2> QED  BY <1>6, <2>1, <2>3, EventConsistent DEF ServiceClose
<1>7. ASSUME NEW sends \in SendBudgets, NEW id \in holders,
             ServiceDestroyed(Fresh(sends), id)
      PROVE  IInv' /\ IdsStayClosed
  <2>1. sends \in Nat
    BY InputsAssumption
  <2>2. Consistent(Fresh(sends)) /\ id \in DOMAIN Fresh(sends).streams
    BY <2>1, FreshConsistent DEF IInv, NoDanglingStream
  <2>3. /\ Consistent(DestroyService(Fresh(sends), id))
        /\ Follows(Fresh(sends), DestroyService(Fresh(sends), id))
    BY <2>2, DestroyServiceConsistent
  <2> QED  BY <1>7, <2>1, <2>3, EventConsistent DEF ServiceDestroyed
<1>8. ASSUME NEW sends \in SendBudgets, ConnectionDestroyed(Fresh(sends))
      PROVE  IInv' /\ IdsStayClosed
  <2> DEFINE d == Destroy(Fresh(sends))
  <2>1. sends \in Nat
    BY InputsAssumption
  <2>2. Consistent(Fresh(sends))
    BY <2>1, FreshConsistent
  <2>3. /\ Consistent(d) /\ IdsKept(Fresh(sends), d) /\ d.object = "destroyed"
        /\ d.streams = NoStreams /\ d.holders = {}
    BY <2>2, DestroyConsistent
  <2>4. Commit(d)
    BY <1>8 DEF ConnectionDestroyed
  <2> HIDE DEF d
  <2> QED  BY <2>1, <2>3, <2>4, CommitConsistent, CommitKeepsIds
<1> QED
  BY <1>1, <1>2, <1>3, <1>4, <1>5, <1>6, <1>7, <1>8 DEF Next

(* The invariant holds of every reachable state, for every device, every
   failure of the transport, and every number of streams and messages. *)
THEOREM Invariance == Spec => []IInv
<1>1. Init => IInv
  BY InitIInv
<1>2. IInv /\ [Next]_vars => IInv'
  BY NextIInv
<1> QED  BY <1>1, <1>2, PTL DEF Spec

(* Every variable keeps its type: the switch statements of the class meet no
   state and no queued command they have no case for (connection.cpp:137-212,
   258-286). *)
THEOREM TypeCorrect == Spec => []TypeOK
<1>1. IInv => TypeOK
  BY DEF IInv
<1> QED  BY <1>1, Invariance, PTL

(* Streams exist only on an agreed connection (connection.cpp:79-85). *)
THEOREM StreamsNeedAgreement == Spec => []StreamsOnlyWhenConnected
<1>1. IInv => StreamsOnlyWhenConnected
  BY DEF IInv
<1> QED  BY <1>1, Invariance, PTL

(* No service is left with a pointer to a stream that is gone. *)
THEOREM NoStreamDangles == Spec => []NoDanglingStream
<1>1. IInv => NoDanglingStream
  BY DEF IInv
<1> QED  BY <1>1, Invariance, PTL

(* No service that has given up is ever called back (connection.cpp:288-303). *)
THEOREM CallbacksAreWanted == Spec => []RequestsHaveServices
<1>1. IInv => RequestsHaveServices
  BY DEF IInv
<1> QED  BY <1>1, Invariance, PTL

(* No Write waits for a stream the host has closed (connection.cpp:313-318). *)
THEOREM WritesAreForStreams == Spec => []QueuedWritesHaveStreams
<1>1. IInv => QueuedWritesHaveStreams
  BY DEF IInv
<1> QED  BY <1>1, Invariance, PTL

(* While a connection is agreed on, exactly the Opens asked for are queued. *)
THEOREM OpensWaitForConnection == Spec => []PendingOpensQueued
<1>1. IInv => PendingOpensQueued
  BY DEF IInv
<1> QED  BY <1>1, Invariance, PTL

(* A destroyed Connection leaves no service with one of its streams. *)
THEOREM DestructionIsComplete == Spec => []DestroyedLeavesNothing
<1>1. IInv => DestroyedLeavesNothing
  BY DEF IInv
<1> QED  BY <1>1, Invariance, PTL

(* An id that was used is not used again, whatever the device answers late. *)
THEOREM IdsAreUsedOnce == Spec => ClosedStreamsStayClosed
<1>1. IInv /\ [Next]_vars => [IdsStayClosed]_vars
  BY NextIInv
<1>2. [IdsStayClosed]_vars =>
          [\A id \in 1..nextStreamId - 1 :
              id \notin DOMAIN streams \cup requests =>
                  id \notin DOMAIN streams' \cup requests']_vars
  BY DEF IdsStayClosed
<1> QED  BY <1>1, <1>2, Invariance, PTL DEF Spec, ClosedStreamsStayClosed
=============================================================================
