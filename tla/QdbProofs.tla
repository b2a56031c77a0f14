------------------------------- MODULE QdbProofs ------------------------------
(*****************************************************************************)
(* Proofs about the whole connection: host, device, the pipes between them,  *)
(* the cable and the Connections that follow each other, for any number of   *)
(* streams, packets and Connections.                                         *)
(*                                                                           *)
(* World(n, c, e, w, r) is what holds of host c, device e and the pipes      *)
(* while the cable is in, w and r being what the services have noted.  It is *)
(* put together of what each end keeps by itself (HostSound, DeviceSound),   *)
(* of the relation of the two ends once both have read the same Connect      *)
(* (InStep), and of what is left of earlier Connections before that.         *)
(*                                                                           *)
(* A handler makes several changes to the ends, so there is first a lemma    *)
(* for each of these changes, then one for each function of the classes,     *)
(* and then one for each action.  With the cable out nothing more is sent:   *)
(* Known says that a host that is still alive is one of a World in which it  *)
(* has sent something else, of which the pipe to it has lost the end (Cut).  *)
(*****************************************************************************)
EXTENDS Qdb, QueuesProofs

(* The host's object. *)
HostTyped(c) ==
    /\ c.state \in {"Disconnected", "WaitingForConnection", "Connected", "Waiting"}
    /\ c.outgoing \in Seq(Message)
    /\ c.streams \in [DOMAIN c.streams -> Nat] /\ DOMAIN c.streams \subseteq Nat
    /\ c.requests \subseteq Nat /\ c.opening \subseteq Nat
    /\ c.holders \subseteq DOMAIN c.streams
    /\ c.nextStreamId \in 1..MaxStreams + 1
    /\ c.object \in {"new", "live", "crashed", "destroyed"}
    /\ c.assertsHold = TRUE
    /\ c.toDevice \in Seq(Message)

(* What the services have written, and received, per stream. *)
NotesTyped(w, r) ==
    /\ w \in [StreamIds -> 0..MaxPackets]
    /\ r \in [StreamIds -> Seq(Nat)]

Connected(c) == c.state \in {"Connected", "Waiting"}

(* What waits on the host's queue. *)
QueueSound(c) ==
    /\ OpensDiffer(c.outgoing)
    /\ \A m \in Range(c.outgoing) :
         /\ m.command \in {"Open", "Write", "Close"}
         /\ m.command = "Open" => m.hostStream < c.nextStreamId
         /\ m.command = "Write" => m.hostStream \in DOMAIN c.streams
         /\ m.command = "Close" =>
                m.data = 0 /\ m.hostStream \notin c.requests /\ m.hostStream < c.nextStreamId
         /\ c.state = "WaitingForConnection" =>
                m.command = "Open" /\ m.hostStream \in c.requests

(* The ids the host has given. *)
IdsSound(c) ==
    /\ DOMAIN c.streams \cap c.requests = {}
    /\ DOMAIN c.streams \cup c.requests \subseteq 1..c.nextStreamId - 1
    /\ ~Connected(c) => DOMAIN c.streams = {}

(* An object that is not live has no connection. *)
LifeSound(c) ==
    /\ c.state = "Disconnected" /\ c.object # "destroyed" =>
         c.outgoing = <<>> /\ c.requests = {} /\ c.opening = {}
    /\ c.object # "live" => c.state = "Disconnected"
    /\ c.object = "new" => c.nextStreamId = 1

(* What the services note of their streams. *)
NotesSound(c, w, r) ==
    \A h \in StreamIds :
        /\ h >= c.nextStreamId \/ h \in c.requests => w[h] = 0 /\ r[h] = <<>>
        /\ r[h] = [k \in 1..Len(r[h]) |-> k]
        /\ Len(r[h]) <= w[h]

HostSound(c, w, r) ==
    /\ HostTyped(c) /\ NotesTyped(w, r)
    /\ QueueSound(c) /\ IdsSound(c) /\ LifeSound(c) /\ NotesSound(c, w, r)

-----------------------------------------------------------------------------
(* The device's server. *)
Out(e) == e.toHost \o e.outgoing

GoodConnects(q) == \A m \in Range(q) : m.command = "Connect" => m = ConnectMessage

(* The ids a message carries are those of a stream, or of none any more. *)
Owned(m, e) ==
    /\ m.deviceStream < e.nextStreamId
    /\ m.deviceStream \in DOMAIN e.streams => e.streams[m.deviceStream] = m.hostStream

(* The server's own state, whatever the host is. *)
DeviceSound(e) ==
    /\ e.state \in {"Disconnected", "Connected", "Waiting"}
    /\ e.outgoing \in Seq(Message) /\ e.toHost \in Seq(Message)
    /\ e.streams \in [DOMAIN e.streams -> Nat] /\ DOMAIN e.streams \subseteq Nat
    /\ DOMAIN e.executors = DOMAIN e.streams
    /\ e.nextStreamId \in Nat /\ e.nextStreamId >= 1
    /\ e.assertsHold = TRUE
    /\ 0 \notin DOMAIN e.streams
    /\ \A d \in DOMAIN e.streams : d < e.nextStreamId
    /\ \A m \in Range(e.outgoing) :
         /\ Owned(m, e)
         /\ m.command \in {"Write", "Close", "Ok"}
         /\ m.command = "Write" => m.deviceStream \in DOMAIN e.streams
    /\ e.state = "Disconnected" => DOMAIN e.streams = {}

(* What is on its way to the device. *)
SentSound(p, e) ==
    /\ p \in Seq(Message)
    /\ \A m \in Range(p) :
         /\ Owned(m, e)
         /\ m.command \in {"Connect", "Open", "Write", "Close", "Ok"}
    /\ GoodConnects(p)
    /\ e.state = "Disconnected" /\ p # <<>> => p[1] = ConnectMessage

(* What is on its way to the host. *)
AnswersSound(e) ==
    /\ \A m \in Range(e.toHost) :
         Owned(m, e) /\ m.command \in {"Connect", "Write", "Close", "Ok"}
    /\ GoodConnects(e.toHost)

(* What the host knows of the device's ids. *)
HostIds(c, e) ==
    /\ \A h \in DOMAIN c.streams :
         /\ c.streams[h] < e.nextStreamId
         /\ c.streams[h] \in DOMAIN e.streams => e.streams[c.streams[h]] = h
    /\ \A m \in Range(c.outgoing) :
         /\ Owned(m, e)
         /\ m.command \in {"Write", "Close"} /\ m.hostStream \in DOMAIN c.streams =>
                c.streams[m.hostStream] = m.deviceStream
    /\ Connected(c) /\ e.state = "Disconnected" => c.toDevice # <<>>

OkFor(e, d) == QdbMessage("Ok", e.streams[d], d, 0)
CloseFor(e, d) == QdbMessage("Close", e.streams[d], d, 0)

(* A Connect of the device is still unread, or one of the host unhandled: what
   is between the ends belongs, in part, to a connection of before. *)
Unread(e) == Holds(Out(e), "Connect")

Behind(c, e) == Unread(e) \/ Holds(c.toDevice, "Connect")

(* What the device has sent before such a Connect is for streams it has no more;
   and what the host still sends, unaware of it, finds none of the streams. *)
Stale(c, e) ==
    /\ Passed(Out(e), DOMAIN e.streams)
    /\ Settled(Out(e))
    /\ Unread(e) =>
        /\ e.state = "Connected"
        /\ Clean(c.toDevice, DOMAIN e.streams)
        /\ \A h \in DOMAIN c.streams : c.streams[h] \notin DOMAIN e.streams
        /\ \A d \in DOMAIN e.streams : OkFor(e, d) \in Range(Out(e))

(* A host that waits for the device's Connect: its own, or the answer, is on its
   way as the last message. *)
Hopes(c, e) ==
    c.state = "WaitingForConnection" =>
        \/ EndsWithConnect(c.toDevice)
        \/ /\ c.toDevice = <<>> /\ EndsWithConnect(e.toHost)
           /\ e.state = "Connected" /\ DOMAIN e.streams = {} /\ e.outgoing = <<>>

(* A host that believes in a connection the device has begun anew gets no packet
   of it, and sends none to a stream that is there. *)
Doomed(c, e) ==
    Connected(c) /\ Behind(c, e) =>
        ~Holds(Out(e), "Write") /\ Clean(c.toDevice, DOMAIN e.streams)

Asked == {"Open", "Write"}
Answers == {"Ok"}
(* What the device has still to answer, and its answers on the way. *)
Outstanding(c, e) == Num(c.toDevice, Asked) + Num(Out(e), Answers)

(* Each stream is known at both ends, or a message that tells is on its way. *)
StreamsAgree(c, e) ==
    /\ e.state \in {"Connected", "Waiting"}
    /\ \A h \in DOMAIN c.streams : c.streams[h] \in DOMAIN e.streams
    /\ \A d \in DOMAIN e.streams :
          \/ e.streams[d] \in DOMAIN c.streams /\ c.streams[e.streams[d]] = d
          \/ CloseFor(e, d) \in Range(c.toDevice)
          \/ e.streams[d] \in c.requests /\ OkFor(e, d) \in Range(Out(e))

(* What the host has sent, has queued, and is sent, fits its streams. *)
SentAgrees(c) ==
    \A m \in Range(c.toDevice) :
        /\ m.command = "Open" => m.hostStream \in c.requests /\ NoOpen(c.outgoing, m.hostStream)
        /\ m.command = "Write" =>
             m.hostStream \in DOMAIN c.streams /\ c.streams[m.hostStream] = m.deviceStream
        /\ m.command = "Close" =>
             m.hostStream \notin DOMAIN c.streams \cup c.requests /\ m.hostStream < c.nextStreamId

QueuedAgrees(c) ==
    \A m \in Range(c.outgoing) : m.command = "Open" => m.hostStream \in c.requests

AnswersAgree(c, e) ==
    \A m \in Range(Out(e)) :
        /\ m.command \in {"Ok", "Write"}
        /\ m.command = "Ok" =>
             /\ m.deviceStream \in DOMAIN e.streams
             /\ m.hostStream \in c.requests \cup DOMAIN c.streams
             /\ NoOpen(c.outgoing, m.hostStream)
        /\ m.command = "Write" =>
             /\ m.hostStream \notin c.requests /\ m.hostStream < c.nextStreamId
             /\ m.hostStream \in DOMAIN c.streams => c.streams[m.hostStream] = m.deviceStream

(* A device that waits is answered. *)
DeviceGoesOn(c, e) ==
    e.state = "Waiting" =>
        \/ \E m \in Range(e.toHost) : m.command = "Write" /\ m.hostStream \in DOMAIN c.streams
        \/ Holds(c.toDevice, "Ok") \/ Holds(c.toDevice, "Close")

(* The host waits for one answer exactly in Waiting. *)
OneAnswer(c, e) == Outstanding(c, e) = IF c.state = "Connected" THEN 0 ELSE 1

Agree(c, e) ==
    /\ StreamsAgree(c, e) /\ SentAgrees(c) /\ QueuedAgrees(c) /\ AnswersAgree(c, e)
    /\ OneAnswer(c, e) /\ DeviceGoesOn(c, e)

(* The packets of one stream on their way: echoes, then what the device has
   still to handle, then what the host has still to send. *)
ChainOf(o, p, q, d, k, n) ==
    /\ Increasing(o, d) /\ Increasing(p, d) /\ Increasing(q, d)
    /\ Before(o, p, d) /\ Before(o, q, d) /\ Before(p, q, d)
    /\ Data(o, d) \cup Data(p, d) \cup Data(q, d) = k + 1..n

(* No packet of a service's stream is missing, doubled or out of order. *)
Chain(c, e, w, r) ==
    \A h \in c.holders :
        LET d == c.streams[h] IN
        IF e.executors[d] = Device!NoExecutor THEN Data(Out(e), d) = {}
        ELSE ChainOf(Out(e), c.toDevice, c.outgoing, d, Len(r[h]), w[h])

(* Two ends with nothing of before between them agree. *)
InStep(c, e, w, r) == Connected(c) /\ ~Behind(c, e) => Agree(c, e) /\ Chain(c, e, w, r)

(* What a destroyed object leaves on the device. *)
Left(c, e) ==
    c.object = "destroyed" /\ ~Behind(c, e) =>
        /\ Outstanding(c, e) <= 1
        /\ \A d \in DOMAIN e.streams :
             \/ CloseFor(e, d) \in Range(c.toDevice)
             \/ /\ OkFor(e, d) \in Range(Out(e))
                /\ Data(Out(e), d) = {} /\ Data(c.toDevice, d) = {}
        /\ e.state = "Waiting" => Holds(c.toDevice, "Ok") \/ Holds(c.toDevice, "Close")

(* On the first Connection. *)
First(n, c, e) ==
    n = 1 =>
        /\ c.object = "new" =>
             e.toHost = <<>> /\ c.toDevice = <<>> /\ e.state = "Disconnected"
        /\ c.state = "WaitingForConnection" =>
              \/ c.toDevice = <<ConnectMessage>> /\ e.state = "Disconnected" /\ e.toHost = <<>>
              \/ c.toDevice = <<>> /\ e.toHost = <<ConnectMessage>>
        /\ Connected(c) => ~Behind(c, e)
        /\ c.object = "live" => c.opening \subseteq c.requests

(* While the cable is in the object has not crashed, nor lost its connection. *)
Life(c) ==
    /\ c.object # "crashed"
    /\ c.object = "live" => c.state # "Disconnected"

(* The two ends together, *)
J(n, c, e, w, r) ==
    /\ Life(c) /\ HostIds(c, e) /\ AnswersSound(e)
    /\ Stale(c, e) /\ Hopes(c, e) /\ Doomed(c, e) /\ InStep(c, e, w, r)
    /\ Left(c, e) /\ First(n, c, e)

(* ... and each for itself: what is true with the cable in. *)
World(n, c, e, w, r) ==
    /\ HostSound(c, w, r) /\ DeviceSound(e) /\ SentSound(c.toDevice, e)
    /\ J(n, c, e, w, r)

(* Between two events nothing is queued on a device that waits for nothing. *)
Idle(e) == e.state # "Waiting" => e.outgoing = <<>>

(* What a message added to the queue leaves alone. *)
HostQueues(c, d, m) ==
    /\ LongerBy(c.outgoing, m, d.outgoing)
    /\ d.state = c.state /\ d.streams = c.streams /\ d.holders = c.holders
    /\ d.object = c.object /\ d.assertsHold = c.assertsHold /\ d.toDevice = c.toDevice

SameIds(c, d) ==
    d.requests = c.requests /\ d.nextStreamId = c.nextStreamId /\ d.opening = c.opening

(* A Close waits on the queue. *)
LEMMA QueueClose ==
    ASSUME NEW n, NEW c, NEW d, NEW e, NEW w, NEW r, NEW m,
           World(n, c, e, w, r), HostQueues(c, d, m), SameIds(c, d),
           m.command = "Close", m.data = 0, Connected(c), Owned(m, e),
           m.hostStream \in DOMAIN c.streams => c.streams[m.hostStream] = m.deviceStream,
           m.hostStream \notin c.requests, m.hostStream < c.nextStreamId
    PROVE  World(n, d, e, w, r)
<1>1. /\ HostTyped(c) /\ NotesTyped(w, r) /\ QueueSound(c) /\ IdsSound(c) /\ LifeSound(c)
      /\ NotesSound(c, w, r) /\ DeviceSound(e) /\ SentSound(c.toDevice, e)
  BY DEF World, HostSound
<1>2. /\ Life(c) /\ HostIds(c, e) /\ AnswersSound(e)
      /\ Stale(c, e) /\ Hopes(c, e) /\ Doomed(c, e) /\ InStep(c, e, w, r)
      /\ Left(c, e) /\ First(n, c, e)
  BY DEF World, J
<1>3. /\ d.state = c.state /\ d.streams = c.streams /\ d.holders = c.holders
      /\ d.object = c.object /\ d.assertsHold = c.assertsHold /\ d.toDevice = c.toDevice
      /\ d.requests = c.requests /\ d.nextStreamId = c.nextStreamId /\ d.opening = c.opening
  BY DEF HostQueues, SameIds
<1>4. /\ m \in Message /\ d.outgoing \in Seq(Message)
      /\ Range(d.outgoing) = Range(c.outgoing) \cup {m}
      /\ \A x : Data(d.outgoing, x) = Data(c.outgoing, x)
      /\ \A x : Increasing(c.outgoing, x) => Increasing(d.outgoing, x)
      /\ OpensDiffer(c.outgoing) => OpensDiffer(d.outgoing)
  BY DEF HostQueues, LongerBy, IsWrite
<1>5. HostSound(d, w, r)
  <2>1. HostTyped(d)
    BY <1>1, <1>3, <1>4 DEF HostTyped
  <2>2. QueueSound(d)
    BY <1>1, <1>3, <1>4 DEF QueueSound, Connected
  <2>3. IdsSound(d) /\ NotesSound(d, w, r)
    BY <1>1, <1>3 DEF IdsSound, NotesSound, Connected
  <2>4. LifeSound(d)
    BY <1>1, <1>3 DEF LifeSound, Connected
  <2> QED  BY <1>1, <2>1, <2>2, <2>3, <2>4 DEF HostSound
<1>6. /\ Life(d) /\ HostIds(d, e) /\ Stale(d, e) /\ Hopes(d, e) /\ Doomed(d, e)
      /\ Left(d, e) /\ First(n, d, e)
  BY <1>2, <1>3, <1>4
     DEF Life, HostIds, Stale, Hopes, Doomed, Left, First, Connected, Behind, Outstanding
<1>7. InStep(d, e, w, r)
  <2>1. SUFFICES ASSUME ~Behind(c, e) PROVE Agree(d, e) /\ Chain(d, e, w, r)
    BY <1>3 DEF InStep, Behind
  <2>2. Agree(c, e) /\ Chain(c, e, w, r)
    BY <1>2, <2>1 DEF InStep
  <2>3. \A h : NoOpen(d.outgoing, h) <=> NoOpen(c.outgoing, h)
    BY <1>4 DEF NoOpen
  <2>4. StreamsAgree(d, e) /\ SentAgrees(d) /\ AnswersAgree(d, e) /\ OneAnswer(d, e)
        /\ DeviceGoesOn(d, e)
    BY <1>3, <2>2, <2>3
       DEF Agree, StreamsAgree, SentAgrees, AnswersAgree, OneAnswer, DeviceGoesOn, Outstanding
  <2>5. QueuedAgrees(d)
    BY <1>3, <1>4, <2>1, <2>2 DEF Agree, QueuedAgrees
  <2>6. Chain(d, e, w, r)
    BY <1>3, <1>4, <2>2 DEF Chain, ChainOf, Before
  <2> QED  BY <2>4, <2>5, <2>6 DEF Agree
<1> QED  BY <1>1, <1>2, <1>3, <1>5, <1>6, <1>7 DEF World, J

(* A Write waits on the queue. *)
LEMMA QueueWrite ==
    ASSUME NEW n, NEW c, NEW d, NEW e, NEW w, NEW r, NEW m, NEW g \in c.holders, NEW x, NEW v,
           World(n, c, e, w, r), HostQueues(c, d, m), SameIds(c, d),
           x = w[g] + 1, m = QdbMessage("Write", g, c.streams[g], x), w[g] < MaxPackets,
           v = [w EXCEPT ![g] = x]
    PROVE  World(n, d, e, v, r)
<1>1. /\ HostTyped(c) /\ NotesTyped(w, r) /\ QueueSound(c) /\ IdsSound(c) /\ LifeSound(c)
      /\ NotesSound(c, w, r) /\ DeviceSound(e) /\ SentSound(c.toDevice, e)
  BY DEF World, HostSound
<1>2. /\ Life(c) /\ HostIds(c, e) /\ AnswersSound(e)
      /\ Stale(c, e) /\ Hopes(c, e) /\ Doomed(c, e) /\ InStep(c, e, w, r)
      /\ Left(c, e) /\ First(n, c, e)
  BY DEF World, J
<1>3. /\ d.state = c.state /\ d.streams = c.streams /\ d.holders = c.holders
      /\ d.object = c.object /\ d.assertsHold = c.assertsHold /\ d.toDevice = c.toDevice
      /\ d.requests = c.requests /\ d.nextStreamId = c.nextStreamId /\ d.opening = c.opening
  BY DEF HostQueues, SameIds
<1>4. /\ g \in DOMAIN c.streams /\ Connected(c)
      /\ g \in StreamIds /\ g \notin c.requests /\ g < c.nextStreamId
  BY <1>1, BoundsAssumption DEF HostTyped, IdsSound, StreamIds
<1>5. /\ m.command = "Write" /\ m.hostStream = g /\ m.deviceStream = c.streams[g]
      /\ m.data = x /\ Owned(m, e)
  BY <1>2, <1>4 DEF QdbMessage, HostIds, Owned
<1>6. /\ w[g] \in Nat /\ x \in 0..MaxPackets /\ w[g] < x /\ v \in [StreamIds -> 0..MaxPackets]
      /\ v[g] = x /\ \A h \in StreamIds : h # g => v[h] = w[h]
  BY <1>1, <1>4, BoundsAssumption DEF NotesTyped
<1>7. /\ m \in Message /\ d.outgoing \in Seq(Message)
      /\ Range(d.outgoing) = Range(c.outgoing) \cup {m}
      /\ \A y : Data(d.outgoing, y) =
                    Data(c.outgoing, y) \cup (IF IsWrite(m, y) THEN {x} ELSE {})
      /\ \A y : Increasing(c.outgoing, y)
                /\ (IsWrite(m, y) => \A b \in Data(c.outgoing, y) : b < x) =>
                    Increasing(d.outgoing, y)
      /\ OpensDiffer(c.outgoing) => OpensDiffer(d.outgoing)
  BY <1>5 DEF HostQueues, LongerBy
<1>8. HostSound(d, v, r)
  <2>1. HostTyped(d) /\ NotesTyped(v, r)
    BY <1>1, <1>3, <1>6, <1>7 DEF HostTyped, NotesTyped
  <2>2. QueueSound(d)
    BY <1>1, <1>3, <1>4, <1>5, <1>7 DEF QueueSound, Connected
  <2>3. IdsSound(d)
    BY <1>1, <1>3 DEF IdsSound, Connected
  <2>4. LifeSound(d)
    BY <1>1, <1>3, <1>4 DEF LifeSound, Connected
  <2>5. NotesSound(d, v, r)
    <3>1. SUFFICES ASSUME NEW h \in StreamIds
                   PROVE  /\ h >= c.nextStreamId \/ h \in c.requests => v[h] = 0 /\ r[h] = <<>>
                          /\ r[h] = [k \in 1..Len(r[h]) |-> k]
                          /\ Len(r[h]) <= v[h]
      BY <1>3 DEF NotesSound
    <3>2. CASE h # g
      BY <1>1, <1>6, <3>2 DEF NotesSound
    <3>3. CASE h = g
      <4>1. ~(h >= c.nextStreamId \/ h \in c.requests)
        BY <1>1, <1>4, <3>3 DEF HostTyped, StreamIds
      <4>2. Len(r[g]) <= w[g] /\ Len(r[g]) \in Nat
        BY <1>1, <1>4 DEF NotesSound, NotesTyped
      <4>3. Len(r[h]) <= v[h]
        BY <1>6, <3>3, <4>2
      <4> QED  BY <1>1, <4>1, <4>3 DEF NotesSound
    <3> QED  BY <3>2, <3>3
  <2> QED  BY <2>1, <2>2, <2>3, <2>4, <2>5 DEF HostSound
<1>9. /\ Life(d) /\ HostIds(d, e) /\ Stale(d, e) /\ Hopes(d, e) /\ Doomed(d, e)
      /\ Left(d, e) /\ First(n, d, e)
  BY <1>2, <1>3, <1>5, <1>7
     DEF Life, HostIds, Stale, Hopes, Doomed, Left, First, Connected, Behind, Outstanding
<1>10. InStep(d, e, v, r)
  <2>1. SUFFICES ASSUME ~Behind(c, e) PROVE Agree(d, e) /\ Chain(d, e, v, r)
    BY <1>3 DEF InStep, Behind
  <2>2. Agree(c, e) /\ Chain(c, e, w, r)
    BY <1>2, <1>4, <2>1 DEF InStep
  <2>3. \A h : NoOpen(d.outgoing, h) <=> NoOpen(c.outgoing, h)
    BY <1>5, <1>7 DEF NoOpen
  <2>4. StreamsAgree(d, e) /\ SentAgrees(d) /\ AnswersAgree(d, e) /\ OneAnswer(d, e)
        /\ DeviceGoesOn(d, e)
    BY <1>3, <2>2, <2>3
       DEF Agree, StreamsAgree, SentAgrees, AnswersAgree, OneAnswer, DeviceGoesOn, Outstanding
  <2>5. QueuedAgrees(d)
    BY <1>3, <1>5, <1>7, <2>2 DEF Agree, QueuedAgrees
  <2>6. ASSUME NEW h \in c.holders, e.executors[c.streams[h]] # Device!NoExecutor
        PROVE  ChainOf(Out(e), c.toDevice, d.outgoing, c.streams[h], Len(r[h]), v[h])
    <3> DEFINE y == c.streams[h]
               o == Data(Out(e), y)
               p == Data(c.toDevice, y)
               q == Data(c.outgoing, y)
               k == Len(r[h])
    <3>1. ChainOf(Out(e), c.toDevice, c.outgoing, y, k, w[h])
      BY <2>2, <2>6 DEF Chain
    <3>2. CASE h = g
      <4>1. IsWrite(m, y)
        BY <1>5, <3>2 DEF IsWrite
      <4>2. k <= w[g] /\ k \in Nat
        BY <1>1, <1>4, <3>2 DEF NotesSound, NotesTyped
      <4>3. o \cup p \cup q = k + 1..w[g]
        BY <3>1, <3>2 DEF ChainOf
      <4> HIDE DEF o, p, q, k, y
      <4>4. \A b \in o \cup p \cup q : b < x
        BY <1>6, <4>2, <4>3
      <4>5. Data(d.outgoing, y) = q \cup {x}
        BY <1>7, <4>1 DEF q
      <4>6. Increasing(d.outgoing, y)
        BY <1>7, <3>1, <4>4 DEF ChainOf, q
      <4>7. o \cup p \cup Data(d.outgoing, y) = k + 1..x
        BY <1>6, <4>2, <4>3, <4>5
      <4>8. Before(Out(e), d.outgoing, y) /\ Before(c.toDevice, d.outgoing, y)
        BY <3>1, <4>4, <4>5 DEF ChainOf, Before, o, p, q
      <4>9. ChainOf(Out(e), c.toDevice, d.outgoing, y, k, x)
        BY <3>1, <4>6, <4>7, <4>8 DEF ChainOf, o, p
      <4> QED  BY <1>6, <3>2, <4>9 DEF y, k
    <3>3. CASE h # g
      <4>1. c.streams[h] # c.streams[g]
        BY <1>1, <1>2, <1>4, <2>2, <3>3 DEF HostTyped, HostIds, Agree, StreamsAgree
      <4>2. ~IsWrite(m, y)
        BY <1>5, <4>1 DEF IsWrite
      <4>3. v[h] = w[h]
        BY <1>1, <1>6, <3>3, BoundsAssumption DEF HostTyped, IdsSound, StreamIds
      <4>4. Data(d.outgoing, y) = q
        BY <1>7, <4>2
      <4>5. Increasing(c.outgoing, y) => Increasing(d.outgoing, y)
        BY <1>7, <4>2
      <4> QED  BY <3>1, <4>3, <4>4, <4>5 DEF ChainOf, Before
    <3> QED  BY <3>2, <3>3
  <2>7. Chain(d, e, v, r)
    BY <1>3, <2>2, <2>6 DEF Chain
  <2> QED  BY <2>4, <2>5, <2>7 DEF Agree
<1> QED  BY <1>1, <1>2, <1>3, <1>8, <1>9, <1>10 DEF World, J

(* An Open waits on the queue, and its service for the stream. *)
LEMMA QueueOpen ==
    ASSUME NEW n, NEW c, NEW d, NEW e, NEW w, NEW r, NEW m, NEW id, NEW tag \in Nat,
           World(n, c, e, w, r), HostQueues(c, d, m),
           id = c.nextStreamId, id <= MaxStreams, m = QdbMessage("Open", id, 0, tag),
           d.requests = c.requests \cup {id}, d.opening = c.opening \cup {id},
           d.nextStreamId = id + 1, c.object = "live"
    PROVE  World(n, d, e, w, r)
<1>1. /\ HostTyped(c) /\ NotesTyped(w, r) /\ QueueSound(c) /\ IdsSound(c) /\ LifeSound(c)
      /\ NotesSound(c, w, r) /\ DeviceSound(e) /\ SentSound(c.toDevice, e)
  BY DEF World, HostSound
<1>2. /\ Life(c) /\ HostIds(c, e) /\ AnswersSound(e)
      /\ Stale(c, e) /\ Hopes(c, e) /\ Doomed(c, e) /\ InStep(c, e, w, r)
      /\ Left(c, e) /\ First(n, c, e)
  BY DEF World, J
<1>3. /\ d.state = c.state /\ d.streams = c.streams /\ d.holders = c.holders
      /\ d.object = c.object /\ d.assertsHold = c.assertsHold /\ d.toDevice = c.toDevice
  BY DEF HostQueues
<1>4. /\ id \in 1..MaxStreams /\ id \in Nat /\ id + 1 \in 1..MaxStreams + 1
      /\ c.state # "Disconnected"
      /\ DOMAIN c.streams \cup c.requests \subseteq 1..id - 1
      /\ id \notin DOMAIN c.streams /\ id \notin c.requests
  BY <1>1, <1>2, BoundsAssumption DEF HostTyped, IdsSound, Life
<1>5. /\ m.command = "Open" /\ m.hostStream = id /\ m.deviceStream = 0 /\ Owned(m, e)
  BY <1>1 DEF QdbMessage, DeviceSound, Owned
<1>6. NoOpen(c.outgoing, id)
  <2>1. \A m1 \in Range(c.outgoing) : m1.command = "Open" => m1.hostStream < id
    BY <1>1 DEF QueueSound
  <2> QED  BY <1>4, <2>1 DEF NoOpen
<1>7. /\ m \in Message /\ d.outgoing \in Seq(Message)
      /\ Range(d.outgoing) = Range(c.outgoing) \cup {m}
      /\ \A y : Data(d.outgoing, y) = Data(c.outgoing, y)
      /\ \A y : Increasing(c.outgoing, y) => Increasing(d.outgoing, y)
      /\ OpensDiffer(d.outgoing)
  <2>1. \A y : ~IsWrite(m, y)
    BY <1>5 DEF IsWrite
  <2>2. OpensDiffer(c.outgoing)
    BY <1>1 DEF QueueSound
  <2> QED  BY <1>5, <1>6, <2>1, <2>2 DEF HostQueues, LongerBy
<1>8. HostSound(d, w, r)
  <2>1. HostTyped(d)
    BY <1>1, <1>3, <1>4, <1>7 DEF HostTyped
  <2>2. QueueSound(d)
    <3>1. \A m1 \in Range(c.outgoing) : m1.hostStream \in Nat
      BY <1>1, OnlyMessages DEF HostTyped
    <3> QED  BY <1>1, <1>3, <1>4, <1>5, <1>7, <3>1 DEF QueueSound
  <2>3. IdsSound(d)
    BY <1>1, <1>3, <1>4 DEF IdsSound, Connected
  <2>4. LifeSound(d)
    BY <1>1, <1>3, <1>4 DEF LifeSound
  <2>5. NotesSound(d, w, r)
    <3>1. \A h \in StreamIds : h >= id + 1 \/ h \in d.requests => h >= id \/ h \in c.requests
      BY <1>4 DEF StreamIds
    <3> QED  BY <1>1, <3>1 DEF NotesSound
  <2> QED  BY <1>1, <2>1, <2>2, <2>3, <2>4, <2>5 DEF HostSound
<1>9. /\ Life(d) /\ HostIds(d, e) /\ Stale(d, e) /\ Hopes(d, e) /\ Doomed(d, e)
      /\ Left(d, e) /\ First(n, d, e)
  <2>1. HostIds(d, e)
    BY <1>2, <1>3, <1>5, <1>7 DEF HostIds, Connected
  <2> QED  BY <1>2, <1>3, <2>1
           DEF Life, Stale, Hopes, Doomed, Left, First, Connected, Behind, Outstanding
<1>10. InStep(d, e, w, r)
  <2>1. SUFFICES ASSUME Connected(c), ~Behind(c, e) PROVE Agree(d, e) /\ Chain(d, e, w, r)
    BY <1>3 DEF InStep, Behind, Connected
  <2>2. Agree(c, e) /\ Chain(c, e, w, r)
    BY <1>2, <2>1 DEF InStep
  <2>3. \A h : h # id /\ NoOpen(c.outgoing, h) => NoOpen(d.outgoing, h)
    BY <1>5, <1>7 DEF NoOpen
  <2>4. StreamsAgree(d, e) /\ OneAnswer(d, e) /\ DeviceGoesOn(d, e)
    BY <1>3, <2>2 DEF Agree, StreamsAgree, OneAnswer, DeviceGoesOn, Outstanding
  <2>5. \A h \in Nat : h < id => h < id + 1 /\ h # id
    BY <1>4
  <2>6. \A m1 \in Range(c.toDevice) \cup Range(Out(e)) \cup Range(c.outgoing) :
            m1.hostStream \in Nat
    <3>1. c.toDevice \in Seq(Message) /\ c.outgoing \in Seq(Message)
      BY <1>1 DEF HostTyped
    <3>2. Out(e) \in Seq(Message)
      BY <1>1, ConcatParts DEF Out, DeviceSound
    <3> QED  BY <3>1, <3>2, OnlyMessages
  <2>7. SentAgrees(d)
    BY <1>3, <1>4, <2>2, <2>3, <2>5, <2>6 DEF Agree, SentAgrees
  <2>8. QueuedAgrees(d)
    BY <1>3, <1>4, <1>5, <1>7, <2>2, <2>5, <2>6 DEF Agree, QueuedAgrees
  <2>9. AnswersAgree(d, e)
    BY <1>3, <1>4, <2>2, <2>3, <2>5, <2>6 DEF Agree, AnswersAgree
  <2>10. Chain(d, e, w, r)
    <3>1. \A y, k, x : ChainOf(Out(e), c.toDevice, c.outgoing, y, k, x) =>
                           ChainOf(Out(e), c.toDevice, d.outgoing, y, k, x)
      BY <1>7 DEF ChainOf, Before
    <3> QED  BY <1>3, <2>2, <3>1 DEF Chain
  <2> QED  BY <2>4, <2>7, <2>8, <2>9, <2>10 DEF Agree
<1> QED  BY <1>1, <1>2, <1>3, <1>8, <1>9, <1>10 DEF World, J

(* An Open or a Write goes from the queue to the device. *)
HostSends(c, d, m) ==
    /\ c.state = "Connected" /\ d.state = "Waiting" /\ m.command \in {"Open", "Write"}
    /\ ShorterBy(c.outgoing, m, d.outgoing)
    /\ LongerBy(c.toDevice, m, d.toDevice)
    /\ d.streams = c.streams /\ d.holders = c.holders
    /\ d.object = c.object /\ d.assertsHold = c.assertsHold

(* The front of one part of a chain moves to the end of the part before. *)
LEMMA ChainMoves ==
    ASSUME NEW o, NEW p, NEW q, NEW a, NEW t, NEW m, NEW y, NEW k, NEW n,
           ShorterBy(q, m, t), LongerBy(p, m, a), ChainOf(o, p, q, y, k, n)
    PROVE  ChainOf(o, a, t, y, k, n)
<1>1. /\ Increasing(o, y) /\ Increasing(p, y) /\ Increasing(q, y)
      /\ Before(o, p, y) /\ Before(o, q, y) /\ Before(p, q, y)
      /\ Data(o, y) \cup Data(p, y) \cup Data(q, y) = k + 1..n
  BY DEF ChainOf
<1>2. /\ Data(q, y) = Data(t, y) \cup (IF IsWrite(m, y) THEN {m.data} ELSE {})
      /\ Increasing(t, y)
      /\ IsWrite(m, y) => \A b \in Data(t, y) : m.data < b
  BY <1>1 DEF ShorterBy
<1>3. /\ Data(a, y) = Data(p, y) \cup (IF IsWrite(m, y) THEN {m.data} ELSE {})
      /\ Increasing(p, y) /\ (IsWrite(m, y) => \A b \in Data(p, y) : b < m.data) =>
            Increasing(a, y)
  BY DEF LongerBy
<1>4. Increasing(a, y)
  BY <1>1, <1>2, <1>3 DEF Before
<1>5. Before(o, a, y) /\ Before(o, t, y) /\ Before(a, t, y)
  BY <1>1, <1>2, <1>3 DEF Before
<1>6. Data(o, y) \cup Data(a, y) \cup Data(t, y) = k + 1..n
  BY <1>1, <1>2, <1>3
<1> QED  BY <1>1, <1>2, <1>4, <1>5, <1>6 DEF ChainOf

(* The host sends an Open or a Write and waits for its answer. *)
LEMMA SendAsked ==
    ASSUME NEW n, NEW c, NEW d, NEW e, NEW w, NEW r, NEW m,
           World(n, c, e, w, r), HostSends(c, d, m), SameIds(c, d)
    PROVE  World(n, d, e, w, r)
<1>1. /\ HostTyped(c) /\ NotesTyped(w, r) /\ QueueSound(c) /\ IdsSound(c) /\ LifeSound(c)
      /\ NotesSound(c, w, r) /\ DeviceSound(e) /\ SentSound(c.toDevice, e)
  BY DEF World, HostSound
<1>2. /\ Life(c) /\ HostIds(c, e) /\ AnswersSound(e)
      /\ Stale(c, e) /\ Hopes(c, e) /\ Doomed(c, e) /\ InStep(c, e, w, r)
      /\ Left(c, e) /\ First(n, c, e)
  BY DEF World, J
<1>3. /\ c.state = "Connected" /\ d.state = "Waiting" /\ m.command \in {"Open", "Write"}
      /\ d.streams = c.streams /\ d.holders = c.holders
      /\ d.object = c.object /\ d.assertsHold = c.assertsHold
      /\ d.requests = c.requests /\ d.nextStreamId = c.nextStreamId /\ d.opening = c.opening
  BY DEF HostSends, SameIds
<1>4. /\ m \in Message /\ d.outgoing \in Seq(Message)
      /\ Range(c.outgoing) = Range(d.outgoing) \cup {m}
      /\ OpensDiffer(d.outgoing) /\ (m.command = "Open" => NoOpen(d.outgoing, m.hostStream))
  BY <1>1 DEF HostSends, ShorterBy, QueueSound
<1>5. /\ d.toDevice \in Seq(Message) /\ d.toDevice # <<>>
      /\ Range(d.toDevice) = Range(c.toDevice) \cup {m}
      /\ \A command : Holds(d.toDevice, command) <=>
                          Holds(c.toDevice, command) \/ m.command = command
      /\ \A S : Num(d.toDevice, S) = Num(c.toDevice, S) + (IF m.command \in S THEN 1 ELSE 0)
      /\ d.toDevice[1] = IF c.toDevice = <<>> THEN m ELSE c.toDevice[1]
  BY DEF HostSends, LongerBy
<1>6. \A D : Clean(c.toDevice, D)
              /\ (m.command = "Write" /\ ~Holds(c.toDevice, "Connect") => m.deviceStream \notin D) =>
                  Clean(d.toDevice, D)
  BY DEF HostSends, LongerBy
<1>7. /\ Owned(m, e)
      /\ m.command = "Write" =>
            m.hostStream \in DOMAIN c.streams /\ c.streams[m.hostStream] = m.deviceStream
      /\ c.object = "live"
  BY <1>1, <1>2, <1>3, <1>4 DEF HostIds, QueueSound, LifeSound
<1>8. HostSound(d, w, r)
  <2>1. HostTyped(d)
    BY <1>1, <1>3, <1>4, <1>5 DEF HostTyped
  <2>2. QueueSound(d)
    BY <1>1, <1>3, <1>4 DEF QueueSound
  <2>3. IdsSound(d) /\ NotesSound(d, w, r) /\ LifeSound(d)
    BY <1>1, <1>3, <1>7 DEF IdsSound, NotesSound, LifeSound, Connected
  <2> QED  BY <1>1, <2>1, <2>2, <2>3 DEF HostSound
<1>9. SentSound(d.toDevice, e)
  <2>1. e.state = "Disconnected" => c.toDevice # <<>> /\ c.toDevice[1] = ConnectMessage
    BY <1>1, <1>2, <1>3 DEF HostIds, Connected, SentSound
  <2> QED  BY <1>1, <1>3, <1>5, <1>7, <2>1 DEF SentSound, GoodConnects
<1>10. Behind(d, e) <=> Behind(c, e)
  BY <1>3, <1>5 DEF Behind
<1>11. Life(d) /\ HostIds(d, e) /\ Hopes(d, e) /\ Left(d, e) /\ First(n, d, e)
  BY <1>2, <1>3, <1>4, <1>5, <1>7, <1>10 DEF Life, HostIds, Hopes, Left, First, Connected
<1>12. Unread(e) => Clean(d.toDevice, DOMAIN e.streams)
  BY <1>2, <1>6, <1>7 DEF Stale
<1>13. Stale(d, e)
  BY <1>2, <1>3, <1>12 DEF Stale
<1>14. Doomed(d, e)
  <2>1. SUFFICES ASSUME Behind(c, e)
                 PROVE  ~Holds(Out(e), "Write") /\ Clean(d.toDevice, DOMAIN e.streams)
    BY <1>10 DEF Doomed
  <2>2. ~Holds(Out(e), "Write") /\ Clean(c.toDevice, DOMAIN e.streams)
    BY <1>2, <1>3, <2>1 DEF Doomed, Connected
  <2> QED  BY <1>6, <1>12, <2>1, <2>2 DEF Behind
<1>15. InStep(d, e, w, r)
  <2>1. SUFFICES ASSUME ~Behind(c, e) PROVE Agree(d, e) /\ Chain(d, e, w, r)
    BY <1>10 DEF InStep
  <2>2. Agree(c, e) /\ Chain(c, e, w, r)
    BY <1>2, <1>3, <2>1 DEF InStep, Connected
  <2>3. \A h : NoOpen(c.outgoing, h) => NoOpen(d.outgoing, h)
    BY <1>4 DEF NoOpen
  <2>4. StreamsAgree(d, e) /\ DeviceGoesOn(d, e)
    BY <1>3, <1>5, <2>2 DEF Agree, StreamsAgree, DeviceGoesOn
  <2>5. QueuedAgrees(d)
    BY <1>3, <1>4, <2>2 DEF Agree, QueuedAgrees
  <2>6. AnswersAgree(d, e)
    BY <1>3, <2>2, <2>3 DEF Agree, AnswersAgree
  <2>7. SentAgrees(d)
    <3>1. m.command = "Open" => m.hostStream \in c.requests
      BY <1>4, <2>2 DEF Agree, QueuedAgrees
    <3> QED  BY <1>3, <1>4, <1>5, <1>7, <2>2, <2>3, <3>1 DEF Agree, SentAgrees
  <2>8. OneAnswer(d, e)
    <3>1. Num(c.toDevice, Asked) + Num(Out(e), Answers) = 0
      BY <1>3, <2>2 DEF Agree, OneAnswer, Outstanding
    <3>2. Num(c.toDevice, Asked) \in Nat /\ Num(Out(e), Answers) \in Nat
      BY <1>1, NumType, ConcatParts DEF HostTyped, Out, DeviceSound
    <3>3. Num(d.toDevice, Asked) = Num(c.toDevice, Asked) + 1
      BY <1>3, <1>5 DEF Asked
    <3>4. Num(d.toDevice, Asked) + Num(Out(e), Answers) = 1
      BY <3>1, <3>2, <3>3
    <3> QED  BY <1>3, <3>4 DEF OneAnswer, Outstanding
  <2>9. \A y, k, x : ChainOf(Out(e), c.toDevice, c.outgoing, y, k, x) =>
                         ChainOf(Out(e), d.toDevice, d.outgoing, y, k, x)
    BY ChainMoves DEF HostSends
  <2>10. Chain(d, e, w, r)
    BY <1>3, <2>2, <2>9 DEF Chain
  <2> QED  BY <2>4, <2>5, <2>6, <2>7, <2>8, <2>10 DEF Agree
<1> QED  BY <1>2, <1>1, <1>8, <1>9, <1>11, <1>13, <1>14, <1>15 DEF World, J

(* Stream g is gone, and of the queue q what is not in R. *)
Drops(c, d, g, R, q) ==
    /\ DOMAIN d.streams = DOMAIN c.streams \ {g}
    /\ d.streams \in [DOMAIN d.streams -> Nat]
    /\ \A h \in DOMAIN d.streams : d.streams[h] = c.streams[h]
    /\ d.holders = c.holders \ {g}
    /\ KeptOf(q, R, d.outgoing)
    /\ \A x \in Range(q) : x.hostStream # g => x \in R
    /\ g \in DOMAIN c.streams => \A x \in R : x.hostStream # g
    /\ d.state = c.state /\ d.object = c.object /\ d.assertsHold = c.assertsHold
    /\ SameIds(c, d)

(* The host drops a stream, and what was queued for it. *)
LEMMA DropsSound ==
    ASSUME NEW c, NEW d, NEW w, NEW r, NEW g, NEW R, NEW q,
           HostSound(c, w, r), Drops(c, d, g, R, q), Connected(c),
           Range(q) \subseteq Range(c.outgoing), OpensDiffer(c.outgoing) => OpensDiffer(q),
           d.toDevice \in Seq(Message)
    PROVE  HostSound(d, w, r)
<1>1. /\ HostTyped(c) /\ NotesTyped(w, r) /\ QueueSound(c) /\ IdsSound(c) /\ LifeSound(c)
      /\ NotesSound(c, w, r)
  BY DEF HostSound
<1>2. /\ DOMAIN d.streams = DOMAIN c.streams \ {g}
      /\ d.streams \in [DOMAIN d.streams -> Nat]
      /\ d.holders = c.holders \ {g}
      /\ d.state = c.state /\ d.object = c.object /\ d.assertsHold = c.assertsHold
      /\ d.requests = c.requests /\ d.nextStreamId = c.nextStreamId /\ d.opening = c.opening
  BY DEF Drops, SameIds
<1>3. /\ d.outgoing \in Seq(Message) /\ OpensDiffer(d.outgoing)
      /\ Range(d.outgoing) \subseteq Range(c.outgoing)
      /\ g \in DOMAIN c.streams => \A x \in Range(d.outgoing) : x.hostStream # g
  BY <1>1 DEF Drops, KeptOf, QueueSound
<1>4. HostTyped(d)
  BY <1>1, <1>2, <1>3 DEF HostTyped
<1>5. QueueSound(d)
  BY <1>1, <1>2, <1>3 DEF QueueSound
<1>6. IdsSound(d) /\ NotesSound(d, w, r) /\ LifeSound(d)
  BY <1>1, <1>2 DEF IdsSound, NotesSound, LifeSound, Connected
<1> QED  BY <1>1, <1>4, <1>5, <1>6 DEF HostSound

(* A Close goes from the queue to the device, and the stream with it. *)
HostSendsClose(c, d, m, rest) ==
    /\ c.state = "Connected" /\ m.command = "Close"
    /\ ShorterBy(c.outgoing, m, rest)
    /\ LongerBy(c.toDevice, m, d.toDevice)

(* The host sends a Close and drops the stream it is for. *)
LEMMA SendClose ==
    ASSUME NEW n, NEW c, NEW d, NEW e, NEW w, NEW r, NEW m, NEW rest, NEW R,
           World(n, c, e, w, r), HostSendsClose(c, d, m, rest),
           Drops(c, d, m.hostStream, R, rest)
    PROVE  World(n, d, e, w, r)
<1> DEFINE g == m.hostStream
<1>1. /\ HostTyped(c) /\ NotesTyped(w, r) /\ QueueSound(c) /\ IdsSound(c) /\ LifeSound(c)
      /\ NotesSound(c, w, r) /\ DeviceSound(e) /\ SentSound(c.toDevice, e)
      /\ HostSound(c, w, r)
  BY DEF World, HostSound
<1>2. /\ Life(c) /\ HostIds(c, e) /\ AnswersSound(e)
      /\ Stale(c, e) /\ Hopes(c, e) /\ Doomed(c, e) /\ InStep(c, e, w, r)
      /\ Left(c, e) /\ First(n, c, e)
  BY DEF World, J
<1>3. /\ c.state = "Connected" /\ m.command = "Close" /\ d.state = c.state
      /\ d.object = c.object /\ d.requests = c.requests
      /\ d.nextStreamId = c.nextStreamId /\ d.opening = c.opening
      /\ DOMAIN d.streams = DOMAIN c.streams \ {g}
      /\ \A h \in DOMAIN d.streams : d.streams[h] = c.streams[h]
      /\ d.holders = c.holders \ {g}
  BY DEF HostSendsClose, Drops, SameIds
<1>4. /\ m \in Message /\ m \in Range(c.outgoing)
      /\ Range(rest) \subseteq Range(c.outgoing)
      /\ OpensDiffer(c.outgoing) => OpensDiffer(rest)
      /\ Range(d.outgoing) = Range(rest) \cap R
  BY DEF HostSendsClose, ShorterBy, Drops, KeptOf
<1>5. /\ d.toDevice \in Seq(Message) /\ d.toDevice # <<>>
      /\ Range(d.toDevice) = Range(c.toDevice) \cup {m}
      /\ \A command : Holds(d.toDevice, command) <=>
                          Holds(c.toDevice, command) \/ m.command = command
      /\ \A S : Num(d.toDevice, S) = Num(c.toDevice, S) + (IF m.command \in S THEN 1 ELSE 0)
      /\ d.toDevice[1] = IF c.toDevice = <<>> THEN m ELSE c.toDevice[1]
  BY DEF HostSendsClose, LongerBy
<1>6. /\ \A D : Clean(c.toDevice, D) => Clean(d.toDevice, D)
      /\ \A y : Data(d.toDevice, y) = Data(c.toDevice, y)
      /\ \A y : Increasing(c.toDevice, y) => Increasing(d.toDevice, y)
  BY <1>3 DEF HostSendsClose, LongerBy, IsWrite
<1>7. /\ Owned(m, e) /\ m.data = 0 /\ c.object = "live"
      /\ g \in DOMAIN c.streams => c.streams[g] = m.deviceStream
  BY <1>1, <1>2, <1>3, <1>4 DEF HostIds, QueueSound, LifeSound
<1>8. HostSound(d, w, r)
  BY <1>1, <1>3, <1>4, <1>5, DropsSound DEF Connected
<1>9. SentSound(d.toDevice, e)
  <2>1. e.state = "Disconnected" => c.toDevice # <<>> /\ c.toDevice[1] = ConnectMessage
    BY <1>1, <1>2, <1>3 DEF HostIds, Connected, SentSound
  <2> QED  BY <1>1, <1>3, <1>5, <1>7, <2>1 DEF SentSound, GoodConnects
<1>10. Behind(d, e) <=> Behind(c, e)
  BY <1>3, <1>5 DEF Behind
<1>11. /\ Life(d) /\ HostIds(d, e) /\ Hopes(d, e) /\ Left(d, e) /\ First(n, d, e)
       /\ Stale(d, e) /\ Doomed(d, e)
  <2>1. HostIds(d, e)
    BY <1>2, <1>3, <1>4, <1>5 DEF HostIds, Connected
  <2>2. Life(d) /\ Hopes(d, e) /\ Left(d, e) /\ First(n, d, e)
    BY <1>2, <1>3, <1>7, <1>10 DEF Life, Hopes, Left, First, Connected
  <2>3. Stale(d, e) /\ Doomed(d, e)
    BY <1>2, <1>3, <1>6, <1>10 DEF Stale, Doomed, Connected
  <2> QED  BY <2>1, <2>2, <2>3
<1>12. InStep(d, e, w, r)
  <2>1. SUFFICES ASSUME ~Behind(c, e) PROVE Agree(d, e) /\ Chain(d, e, w, r)
    BY <1>10 DEF InStep
  <2>2. Agree(c, e) /\ Chain(c, e, w, r)
    BY <1>2, <1>3, <2>1 DEF InStep, Connected
  <2>3. \A h : NoOpen(c.outgoing, h) => NoOpen(d.outgoing, h)
    BY <1>4 DEF NoOpen
  <2>4. /\ Num(c.toDevice, Asked) = 0 /\ Num(Out(e), Answers) = 0
        /\ \A x \in Range(c.toDevice) : x.command \notin Asked
        /\ \A x \in Range(Out(e)) : x.command \notin Answers
    <3>1. c.toDevice \in Seq(Message) /\ Out(e) \in Seq(Message)
      BY <1>1, ConcatParts DEF HostTyped, Out, DeviceSound
    <3>2. Num(c.toDevice, Asked) + Num(Out(e), Answers) = 0
      BY <1>3, <2>2 DEF Agree, OneAnswer, Outstanding
    <3>3. Num(c.toDevice, Asked) \in Nat /\ Num(Out(e), Answers) \in Nat
      BY <3>1, NumType
    <3>4. Num(c.toDevice, Asked) = 0 /\ Num(Out(e), Answers) = 0
      BY <3>2, <3>3
    <3> QED  BY <3>1, <3>4, NumType DEF Range
  <2>5. \A y \in DOMAIN e.streams : g \in DOMAIN c.streams /\ e.streams[y] = g /\ c.streams[g] = y =>
            CloseFor(e, y) = m
    BY <1>3, <1>4, <1>7 DEF CloseFor, QdbMessage, Message
  <2>6. StreamsAgree(d, e)
    <3>1. ASSUME NEW y \in DOMAIN e.streams
          PROVE  \/ e.streams[y] \in DOMAIN d.streams /\ d.streams[e.streams[y]] = y
                 \/ CloseFor(e, y) \in Range(d.toDevice)
                 \/ e.streams[y] \in d.requests /\ OkFor(e, y) \in Range(Out(e))
      BY <1>3, <1>5, <2>2, <2>5 DEF Agree, StreamsAgree
    <3> QED  BY <1>3, <2>2, <3>1 DEF Agree, StreamsAgree
  <2>7. QueuedAgrees(d)
    BY <1>3, <1>4, <2>2 DEF Agree, QueuedAgrees
  <2>8. AnswersAgree(d, e)
    BY <1>3, <2>2, <2>4 DEF Agree, AnswersAgree, Answers
  <2>9. SentAgrees(d)
    <3>1. g \notin c.requests /\ g < c.nextStreamId
      BY <1>1, <1>3, <1>4 DEF QueueSound
    <3> QED  BY <1>3, <1>5, <2>2, <2>4, <3>1 DEF Agree, SentAgrees, Asked
  <2>10. OneAnswer(d, e) /\ DeviceGoesOn(d, e)
    <3>1. Num(d.toDevice, Asked) = Num(c.toDevice, Asked)
      BY <1>3, <1>5, <2>4 DEF Asked
    <3> QED  BY <1>3, <1>5, <2>2, <3>1 DEF Agree, OneAnswer, Outstanding, DeviceGoesOn
  <2>11. ASSUME NEW h \in d.holders
         PROVE  LET y == d.streams[h] IN
                IF e.executors[y] = Device!NoExecutor THEN Data(Out(e), y) = {}
                ELSE ChainOf(Out(e), d.toDevice, d.outgoing, y, Len(r[h]), w[h])
    <3> DEFINE y == d.streams[h]
    <3>1. h \in c.holders /\ h # g /\ h \in DOMAIN d.streams /\ y = c.streams[h]
      BY <1>1, <1>3 DEF HostTyped
    <3>2. \A x \in Range(c.outgoing) : IsWrite(x, y) => x.hostStream # g
      <4>1. ASSUME NEW x \in Range(c.outgoing), IsWrite(x, y), x.hostStream = g PROVE FALSE
        <5>1. g \in DOMAIN c.streams /\ c.streams[g] = y
          BY <1>1, <1>2, <4>1 DEF QueueSound, HostIds, IsWrite
        <5>2. y \in DOMAIN e.streams /\ e.streams[y] = g /\ e.streams[y] = h
          BY <1>2, <1>3, <2>2, <3>1, <5>1 DEF Agree, StreamsAgree, HostIds
        <5> QED  BY <3>1, <5>2
      <4> QED  BY <4>1
    <3>3. Data(d.outgoing, y) = Data(c.outgoing, y)
      <4>1. \A x \in Range(c.outgoing) : IsWrite(x, y) => x \in Range(d.outgoing)
        <5>1. \A x \in Range(c.outgoing) : IsWrite(x, y) => x \in Range(rest)
          BY <1>3 DEF HostSendsClose, ShorterBy, IsWrite
        <5> QED  BY <1>4, <3>2, <5>1 DEF Drops
      <4> HIDE DEF y
      <4>2. {x \in Range(d.outgoing) : IsWrite(x, y)} = {x \in Range(c.outgoing) : IsWrite(x, y)}
        BY <1>4, <4>1
      <4>3. /\ Data(d.outgoing, y) = {x.data : x \in {z \in Range(d.outgoing) : IsWrite(z, y)}}
            /\ Data(c.outgoing, y) = {x.data : x \in {z \in Range(c.outgoing) : IsWrite(z, y)}}
        BY ByRange
      <4> QED  BY <4>2, <4>3
    <3>4. Increasing(c.outgoing, y) => Increasing(d.outgoing, y)
      BY DEF HostSendsClose, ShorterBy, Drops, KeptOf
    <3> HIDE DEF y
    <3>5. \A k, x : ChainOf(Out(e), c.toDevice, c.outgoing, y, k, x) =>
                        ChainOf(Out(e), d.toDevice, d.outgoing, y, k, x)
      BY <1>6, <3>3, <3>4 DEF ChainOf, Before
    <3> QED  BY <2>2, <3>1, <3>5 DEF Chain, y
  <2> QED  BY <2>6, <2>7, <2>8, <2>9, <2>10, <2>11 DEF Agree, Chain
<1> QED  BY <1>1, <1>2, <1>8, <1>9, <1>11, <1>12 DEF World, J

(* An answer is taken from those on their way. *)
HostTakes(e, f, m) ==
    /\ ShorterBy(e.toHost, m, f.toHost)
    /\ ShorterBy(Out(e), m, Out(f))
    /\ f.state = e.state /\ f.outgoing = e.outgoing /\ f.streams = e.streams
    /\ f.executors = e.executors /\ f.nextStreamId = e.nextStreamId
    /\ f.assertsHold = e.assertsHold

(* Whatever the host does with it, the ends stay sound. *)
LEMMA Taken ==
    ASSUME NEW c, NEW e, NEW f, NEW m, HostTakes(e, f, m),
           DeviceSound(e), AnswersSound(e), HostIds(c, e), Stale(c, e)
    PROVE  /\ DeviceSound(f) /\ AnswersSound(f) /\ HostIds(c, f) /\ Stale(c, f)
           /\ m \in Message /\ m \in Range(Out(e))
           /\ m.command \in {"Connect", "Write", "Close", "Ok"}
           /\ m.command = "Connect" => m = ConnectMessage
           /\ \A x : Owned(x, f) <=> Owned(x, e)
           /\ \A p : SentSound(p, f) <=> SentSound(p, e)
           /\ \A y : OkFor(f, y) = OkFor(e, y) /\ CloseFor(f, y) = CloseFor(e, y)
           /\ Owned(m, e)
           /\ Unread(f) => Unread(e) /\ m.deviceStream \notin DOMAIN e.streams
           /\ m.command = "Connect" => Unread(e) /\ ~Holds(Out(f), "Write")
<1>1. /\ f.state = e.state /\ f.outgoing = e.outgoing /\ f.streams = e.streams
      /\ f.executors = e.executors /\ f.nextStreamId = e.nextStreamId
      /\ f.assertsHold = e.assertsHold
  BY DEF HostTakes
<1>2. /\ m \in Message /\ f.toHost \in Seq(Message)
      /\ Range(e.toHost) = Range(f.toHost) \cup {m}
  BY DEF HostTakes, ShorterBy
<1>3. /\ Range(Out(e)) = Range(Out(f)) \cup {m}
      /\ \A command : Holds(Out(e), command) <=> Holds(Out(f), command) \/ m.command = command
      /\ Settled(Out(e)) =>
            Settled(Out(f)) /\ (m.command = "Connect" => ~Holds(Out(f), "Write"))
      /\ \A D : Passed(Out(e), D) =>
            Passed(Out(f), D) /\ (Holds(Out(f), "Connect") => m.deviceStream \notin D)
  BY DEF HostTakes, ShorterBy
<1>4. \A x : Owned(x, f) <=> Owned(x, e)
  BY <1>1 DEF Owned
<1>5. \A p : SentSound(p, f) <=> SentSound(p, e)
  BY <1>1, <1>4 DEF SentSound
<1>6. \A y : OkFor(f, y) = OkFor(e, y) /\ CloseFor(f, y) = CloseFor(e, y)
  BY <1>1 DEF OkFor, CloseFor
<1>7. /\ m.command \in {"Connect", "Write", "Close", "Ok"} /\ Owned(m, e)
      /\ m.command = "Connect" => m = ConnectMessage
      /\ AnswersSound(f)
  BY <1>2, <1>4 DEF AnswersSound, GoodConnects
<1>8. DeviceSound(f)
  BY <1>1, <1>2, <1>4 DEF DeviceSound
<1>9. HostIds(c, f)
  BY <1>1, <1>4 DEF HostIds
<1>10. /\ Unread(f) => Unread(e) /\ m.deviceStream \notin DOMAIN e.streams
       /\ m.command = "Connect" => Unread(e) /\ ~Holds(Out(f), "Write")
  BY <1>3 DEF Unread, Stale
<1>11. Stale(c, f)
  <2>1. ASSUME Unread(f), NEW y \in DOMAIN e.streams PROVE OkFor(f, y) \in Range(Out(f))
    <3>1. OkFor(e, y) \in Range(Out(e))
      BY <1>10, <2>1 DEF Stale
    <3>2. OkFor(e, y).deviceStream = y
      BY DEF OkFor, QdbMessage
    <3> QED  BY <1>3, <1>6, <1>10, <2>1, <3>1, <3>2
  <2> QED  BY <1>1, <1>3, <1>10, <2>1 DEF Stale
<1> QED  BY <1>2, <1>3, <1>4, <1>5, <1>6, <1>7, <1>8, <1>9, <1>10, <1>11

(* The host's object stays what it was, but for what is named. *)
SameHost(c, d) ==
    /\ d.outgoing = c.outgoing /\ d.streams = c.streams /\ d.holders = c.holders
    /\ d.object = c.object /\ d.assertsHold = c.assertsHold
    /\ SameIds(c, d)

(* A Write is taken only on an agreed connection. *)
LEMMA WriteMeansInStep ==
    ASSUME NEW n, NEW c, NEW e, NEW f, NEW w, NEW r, NEW m,
           World(n, c, e, w, r), HostTakes(e, f, m), m.command = "Write", Connected(c)
    PROVE  ~Behind(c, e)
<1>1. Holds(Out(e), "Write")
  BY DEF HostTakes, ShorterBy
<1> QED  BY <1>1 DEF World, J, Doomed

(* A Write of a stream the host does not know is taken. *)
LEMMA TakeUnknown ==
    ASSUME NEW n, NEW c, NEW e, NEW f, NEW w, NEW r, NEW m,
           World(n, c, e, w, r), HostTakes(e, f, m), m.command = "Write", Connected(c),
           m.hostStream \notin DOMAIN c.streams
    PROVE  /\ World(n, c, f, w, r) /\ Owned(m, f)
           /\ m.hostStream \notin c.requests /\ m.hostStream < c.nextStreamId
<1>1. /\ HostSound(c, w, r) /\ HostTyped(c) /\ IdsSound(c) /\ LifeSound(c)
      /\ DeviceSound(e) /\ SentSound(c.toDevice, e)
  BY DEF World, HostSound
<1>2. /\ Life(c) /\ HostIds(c, e) /\ AnswersSound(e)
      /\ Stale(c, e) /\ InStep(c, e, w, r) /\ First(n, c, e)
  BY DEF World, J
<1>3. /\ DeviceSound(f) /\ AnswersSound(f) /\ HostIds(c, f) /\ Stale(c, f)
      /\ m \in Range(Out(e)) /\ Owned(m, e) /\ Owned(m, f)
      /\ SentSound(c.toDevice, f)
      /\ \A y : OkFor(f, y) = OkFor(e, y) /\ CloseFor(f, y) = CloseFor(e, y)
      /\ Unread(f) => Unread(e)
  BY <1>1, <1>2, Taken
<1>4. Agree(c, e) /\ Chain(c, e, w, r) /\ ~Behind(c, e) /\ ~Behind(c, f)
  BY <1>2, <1>3, WriteMeansInStep DEF InStep, Behind
<1>5. c.object = "live" /\ c.state # "WaitingForConnection"
  BY <1>1 DEF LifeSound, Connected
<1>6. Hopes(c, f) /\ Doomed(c, f) /\ Left(c, f) /\ First(n, c, f)
  BY <1>2, <1>4, <1>5 DEF Hopes, Doomed, Left, First
<1>7. /\ f.state = e.state /\ f.streams = e.streams /\ f.executors = e.executors
      /\ Range(e.toHost) = Range(f.toHost) \cup {m}
      /\ Range(Out(e)) = Range(Out(f)) \cup {m}
      /\ \A S : Num(Out(e), S) = Num(Out(f), S) + (IF m.command \in S THEN 1 ELSE 0)
      /\ Out(f) \in Seq(Message)
  BY DEF HostTakes, ShorterBy
<1>8. Agree(c, f)
  <2>1. StreamsAgree(c, f)
    <3>1. \A y : OkFor(e, y) # m
      BY DEF OkFor, QdbMessage
    <3> QED  BY <1>3, <1>4, <1>7, <3>1 DEF Agree, StreamsAgree
  <2>2. SentAgrees(c) /\ QueuedAgrees(c) /\ AnswersAgree(c, f) /\ DeviceGoesOn(c, f)
    BY <1>4, <1>7 DEF Agree, AnswersAgree, DeviceGoesOn
  <2>3. OneAnswer(c, f)
    <3>1. Num(Out(f), Answers) \in Nat
      BY <1>7, NumType
    <3>2. Num(Out(f), Answers) = Num(Out(e), Answers)
      BY <1>7, <3>1 DEF Answers
    <3> QED  BY <1>4, <3>2 DEF Agree, OneAnswer, Outstanding
  <2> QED  BY <2>1, <2>2, <2>3 DEF Agree
<1>9. Chain(c, f, w, r)
  <2>1. SUFFICES ASSUME NEW h \in c.holders
        PROVE  LET y == c.streams[h] IN
               IF e.executors[y] = Device!NoExecutor THEN Data(Out(f), y) = {}
               ELSE ChainOf(Out(f), c.toDevice, c.outgoing, y, Len(r[h]), w[h])
    BY <1>7 DEF Chain
  <2> DEFINE y == c.streams[h]
  <2>2. h \in DOMAIN c.streams /\ h # m.hostStream
    BY <1>1 DEF HostTyped
  <2>3. y \in DOMAIN e.streams /\ e.streams[y] = h
    BY <1>2, <1>4, <2>2 DEF Agree, StreamsAgree, HostIds
  <2>4. ~IsWrite(m, y)
    BY <1>3, <2>2, <2>3 DEF IsWrite, Owned
  <2> HIDE DEF y
  <2>5. Data(Out(e), y) = Data(Out(f), y) /\ (Increasing(Out(e), y) => Increasing(Out(f), y))
    BY <2>4 DEF HostTakes, ShorterBy
  <2>6. \A k, x : ChainOf(Out(e), c.toDevice, c.outgoing, y, k, x) =>
                      ChainOf(Out(f), c.toDevice, c.outgoing, y, k, x)
    BY <2>5 DEF ChainOf, Before
  <2> QED  BY <1>4, <2>5, <2>6 DEF Chain, y
<1>10. InStep(c, f, w, r)
  BY <1>8, <1>9 DEF InStep
<1>11. m.hostStream \notin c.requests /\ m.hostStream < c.nextStreamId
  BY <1>3, <1>4 DEF Agree, AnswersAgree
<1> QED  BY <1>1, <1>2, <1>3, <1>6, <1>10, <1>11 DEF World, J

(* Another stream's Write, or none, leaves a chain as it is. *)
LEMMA ChainSkips ==
    ASSUME NEW o, NEW p, NEW q, NEW t, NEW m, NEW y, NEW k, NEW n,
           ShorterBy(o, m, t), ~IsWrite(m, y), ChainOf(o, p, q, y, k, n)
    PROVE  ChainOf(t, p, q, y, k, n)
<1>1. Data(o, y) = Data(t, y) /\ (Increasing(o, y) => Increasing(t, y))
  BY DEF ShorterBy
<1> QED  BY <1>1 DEF ChainOf, Before

(* The first Write of a stream on its way is of the packet that comes next. *)
LEMMA ChainAdvances ==
    ASSUME NEW o, NEW p, NEW q, NEW t, NEW m, NEW y, NEW k \in Nat, NEW n \in Nat,
           ShorterBy(o, m, t), IsWrite(m, y), ChainOf(o, p, q, y, k, n)
    PROVE  /\ m.data = k + 1 /\ k + 1 <= n
           /\ ChainOf(t, p, q, y, k + 1, n)
<1> DEFINE x == m.data
           D == Data(o, y) \cup Data(p, y) \cup Data(q, y)
<1>1. /\ Increasing(o, y) /\ Increasing(p, y) /\ Increasing(q, y)
      /\ Before(o, p, y) /\ Before(o, q, y) /\ Before(p, q, y)
      /\ D = k + 1..n
  BY DEF ChainOf
<1>2. /\ Data(o, y) = Data(t, y) \cup {x}
      /\ Increasing(t, y) /\ \A b \in Data(t, y) : x < b
      /\ x \in Nat
  BY <1>1 DEF ShorterBy, Message
<1>3. Before(t, p, y) /\ Before(t, q, y)
  BY <1>1, <1>2 DEF Before
<1>4. \A b \in Data(t, y) \cup Data(p, y) \cup Data(q, y) : x < b
  BY <1>1, <1>2 DEF Before
<1>5. x \in k + 1..n
  BY <1>1, <1>2
<1>6. k + 1 \in D
  BY <1>1, <1>5
<1>7. D = (Data(t, y) \cup Data(p, y) \cup Data(q, y)) \cup {x}
  BY <1>2
<1>8. x = k + 1
  BY <1>4, <1>5, <1>6, <1>7
<1>9. Data(t, y) \cup Data(p, y) \cup Data(q, y) = (k + 1) + 1..n
  <2> DEFINE E == Data(t, y) \cup Data(p, y) \cup Data(q, y)
  <2>1. E \cup {k + 1} = k + 1..n /\ \A b \in E : k + 1 < b
    BY <1>1, <1>4, <1>7, <1>8
  <2> HIDE DEF E
  <2>2. \A b \in E : b \in (k + 1) + 1..n
    BY <2>1
  <2>3. ASSUME NEW b \in (k + 1) + 1..n PROVE b \in E
    <3>1. b \in k + 1..n /\ b # k + 1
      OBVIOUS
    <3> QED  BY <2>1, <3>1
  <2>4. E = (k + 1) + 1..n
    BY <2>2, <2>3
  <2> QED  BY <2>4 DEF E
<1> QED  BY <1>1, <1>2, <1>3, <1>5, <1>8, <1>9 DEF ChainOf

(* A Write of a stream the host knows is taken, acknowledged and delivered. *)
LEMMA TakeWrite ==
    ASSUME NEW n, NEW c, NEW d, NEW e, NEW f, NEW w, NEW r, NEW v, NEW m, NEW ack,
           World(n, c, e, w, r), HostTakes(e, f, m), m.command = "Write", Connected(c),
           m.hostStream \in DOMAIN c.streams,
           ack = QdbMessage("Ok", m.hostStream, m.deviceStream, 0),
           LongerBy(c.toDevice, ack, d.toDevice), SameHost(c, d), d.state = c.state,
           v = IF m.hostStream \in c.holders
               THEN [r EXCEPT ![m.hostStream] = Append(r[m.hostStream], m.data)] ELSE r
    PROVE  World(n, d, f, w, v)
<1> DEFINE g == m.hostStream
<1>1. /\ HostSound(c, w, r) /\ HostTyped(c) /\ NotesTyped(w, r) /\ QueueSound(c)
      /\ IdsSound(c) /\ LifeSound(c) /\ NotesSound(c, w, r)
      /\ DeviceSound(e) /\ SentSound(c.toDevice, e)
  BY DEF World, HostSound
<1>2. /\ Life(c) /\ HostIds(c, e) /\ AnswersSound(e)
      /\ Stale(c, e) /\ InStep(c, e, w, r) /\ First(n, c, e)
  BY DEF World, J
<1>3. /\ DeviceSound(f) /\ AnswersSound(f) /\ HostIds(c, f) /\ Stale(c, f)
      /\ m \in Message /\ m \in Range(Out(e)) /\ Owned(m, e)
      /\ \A x : Owned(x, f) <=> Owned(x, e)
      /\ SentSound(c.toDevice, f)
      /\ \A y : OkFor(f, y) = OkFor(e, y) /\ CloseFor(f, y) = CloseFor(e, y)
      /\ Unread(f) => Unread(e)
  BY <1>1, <1>2, Taken
<1>4. /\ d.outgoing = c.outgoing /\ d.streams = c.streams /\ d.holders = c.holders
      /\ d.object = c.object /\ d.assertsHold = c.assertsHold /\ d.state = c.state
      /\ d.requests = c.requests /\ d.nextStreamId = c.nextStreamId /\ d.opening = c.opening
  BY DEF SameHost, SameIds
<1>5. /\ ack.command = "Ok" /\ ack.hostStream = g /\ ack.deviceStream = m.deviceStream
      /\ Owned(ack, e)
  BY <1>3 DEF QdbMessage, Owned
<1>6. /\ d.toDevice \in Seq(Message) /\ d.toDevice # <<>>
      /\ Range(d.toDevice) = Range(c.toDevice) \cup {ack}
      /\ \A command : Holds(d.toDevice, command) <=>
                          Holds(c.toDevice, command) \/ ack.command = command
      /\ Num(d.toDevice, Asked) = Num(c.toDevice, Asked)
      /\ d.toDevice[1] = IF c.toDevice = <<>> THEN ack ELSE c.toDevice[1]
      /\ \A y : Data(d.toDevice, y) = Data(c.toDevice, y)
      /\ \A y : Increasing(c.toDevice, y) => Increasing(d.toDevice, y)
  <2>1. Num(c.toDevice, Asked) \in Nat
    BY <1>1, NumType DEF HostTyped
  <2>2. \A y : ~IsWrite(ack, y)
    BY <1>5 DEF IsWrite
  <2>3. Num(d.toDevice, Asked) = Num(c.toDevice, Asked) + (IF ack.command \in Asked THEN 1 ELSE 0)
    BY DEF LongerBy
  <2>4. Num(d.toDevice, Asked) = Num(c.toDevice, Asked)
    BY <1>5, <2>1, <2>3 DEF Asked
  <2> QED  BY <2>2, <2>4 DEF LongerBy
<1>7. /\ f.state = e.state /\ f.streams = e.streams /\ f.executors = e.executors
      /\ Range(Out(e)) = Range(Out(f)) \cup {m}
      /\ \A S : Num(Out(e), S) = Num(Out(f), S) + (IF m.command \in S THEN 1 ELSE 0)
      /\ Out(f) \in Seq(Message)
  BY DEF HostTakes, ShorterBy
<1>8. Agree(c, e) /\ Chain(c, e, w, r) /\ ~Behind(c, e) /\ ~Behind(d, f)
  BY <1>2, <1>3, <1>5, <1>6, WriteMeansInStep DEF InStep, Behind
<1>9. c.object = "live" /\ c.state # "WaitingForConnection"
  BY <1>1 DEF LifeSound, Connected
<1>10. /\ g \in StreamIds /\ g < c.nextStreamId /\ g \notin c.requests /\ g \in Nat
       /\ c.streams[g] = m.deviceStream
  <2>1. c.streams[g] = m.deviceStream
    BY <1>3, <1>8 DEF Agree, AnswersAgree
  <2> QED  BY <1>1, <2>1, BoundsAssumption DEF HostTyped, IdsSound, StreamIds
<1>11. \A h \in c.holders :
           /\ h \in StreamIds /\ w[h] \in Nat /\ Len(r[h]) \in Nat /\ r[h] \in Seq(Nat)
           /\ r[h] = [k \in 1..Len(r[h]) |-> k]
  <2>1. \A h \in c.holders : h \in StreamIds
    BY <1>1, BoundsAssumption DEF HostTyped, IdsSound, StreamIds
  <2>2. \A h \in StreamIds : w[h] \in Nat /\ r[h] \in Seq(Nat)
    BY <1>1, BoundsAssumption DEF NotesTyped
  <2>3. \A h \in StreamIds : Len(r[h]) \in Nat
    BY <2>2
  <2> QED  BY <1>1, <2>1, <2>2, <2>3 DEF NotesSound
<1>12. ASSUME NEW h \in c.holders
       PROVE  LET y == c.streams[h] IN
              /\ h = g => m.data = Len(r[g]) + 1 /\ Len(r[g]) + 1 <= w[g]
              /\ IF e.executors[y] = Device!NoExecutor THEN Data(Out(f), y) = {}
                 ELSE ChainOf(Out(f), c.toDevice, c.outgoing, y,
                              IF h = g THEN Len(r[g]) + 1 ELSE Len(r[h]), w[h])
  <2> DEFINE y == c.streams[h]
  <2>1. h \in DOMAIN c.streams
    BY <1>1 DEF HostTyped
  <2>2. y \in DOMAIN e.streams /\ e.streams[y] = h
    BY <1>2, <1>8, <2>1 DEF Agree, StreamsAgree, HostIds
  <2>3. IF e.executors[y] = Device!NoExecutor THEN Data(Out(e), y) = {}
        ELSE ChainOf(Out(e), c.toDevice, c.outgoing, y, Len(r[h]), w[h])
    BY <1>8 DEF Chain
  <2>4. IsWrite(m, y) <=> h = g
    BY <1>3, <1>10, <2>2 DEF IsWrite, Owned
  <2> HIDE DEF y
  <2>5. CASE h # g
    <3>1. Data(Out(e), y) = Data(Out(f), y)
      BY <2>4, <2>5 DEF HostTakes, ShorterBy
    <3>2. ChainOf(Out(e), c.toDevice, c.outgoing, y, Len(r[h]), w[h]) =>
              ChainOf(Out(f), c.toDevice, c.outgoing, y, Len(r[h]), w[h])
      BY <2>4, <2>5, ChainSkips DEF HostTakes
    <3> QED  BY <2>3, <2>5, <3>1, <3>2 DEF y
  <2>6. CASE h = g
    <3>1. Data(Out(e), y) # {}
      BY <2>4, <2>6 DEF HostTakes, ShorterBy
    <3>2. ChainOf(Out(e), c.toDevice, c.outgoing, y, Len(r[h]), w[h])
          /\ e.executors[y] # Device!NoExecutor
      BY <2>3, <3>1
    <3>3. /\ m.data = Len(r[h]) + 1 /\ Len(r[h]) + 1 <= w[h]
          /\ ChainOf(Out(f), c.toDevice, c.outgoing, y, Len(r[h]) + 1, w[h])
      BY <1>11, <2>4, <2>6, <3>2, ChainAdvances DEF HostTakes
    <3> QED  BY <2>6, <3>2, <3>3 DEF y
  <2> QED  BY <2>5, <2>6
<1>13. ASSUME NEW h \in StreamIds
       PROVE  /\ v[h] \in Seq(Nat)
              /\ IF h = g /\ g \in c.holders
                 THEN Len(v[h]) = Len(r[g]) + 1 /\ v[h] = [k \in 1..Len(v[h]) |-> k]
                 ELSE v[h] = r[h]
  <2>1. r[h] \in Seq(Nat)
    BY <1>1 DEF NotesTyped
  <2>2. CASE ~(h = g /\ g \in c.holders)
    BY <1>1, <2>1, <2>2 DEF NotesTyped
  <2>3. CASE h = g /\ g \in c.holders
    <3> DEFINE l == Len(r[g])
    <3>1. v[h] = Append(r[g], m.data)
      BY <1>1, <1>10, <2>3 DEF NotesTyped
    <3>2. m.data = l + 1 /\ l \in Nat /\ r[g] = [k \in 1..l |-> k]
      BY <1>11, <1>12, <2>3
    <3>3. /\ Append(r[g], l + 1) \in Seq(Nat)
          /\ Len(Append(r[g], l + 1)) = l + 1
          /\ DOMAIN Append(r[g], l + 1) = 1..l + 1
          /\ \A i \in 1..l : Append(r[g], l + 1)[i] = r[g][i]
          /\ Append(r[g], l + 1)[l + 1] = l + 1
      BY <2>1, <2>3, <3>2
    <3> HIDE DEF l
    <3>4. \A i \in 1..l + 1 : Append(r[g], l + 1)[i] = i
      BY <3>2, <3>3
    <3>5. Append(r[g], l + 1) = [k \in 1..l + 1 |-> k]
      BY <3>3, <3>4
    <3> QED  BY <2>3, <3>1, <3>2, <3>3, <3>5 DEF l
  <2> QED  BY <2>2, <2>3
<1>14. HostSound(d, w, v)
  <2>1. HostTyped(d) /\ QueueSound(d) /\ IdsSound(d) /\ LifeSound(d)
    BY <1>1, <1>4, <1>6 DEF HostTyped, QueueSound, IdsSound, LifeSound, Connected
  <2>2. NotesTyped(w, v)
    BY <1>1, <1>13 DEF NotesTyped
  <2>3. NotesSound(d, w, v)
    <3>1. SUFFICES ASSUME NEW h \in StreamIds
                   PROVE  /\ h >= c.nextStreamId \/ h \in c.requests => w[h] = 0 /\ v[h] = <<>>
                          /\ v[h] = [k \in 1..Len(v[h]) |-> k]
                          /\ Len(v[h]) <= w[h]
      BY <1>4 DEF NotesSound
    <3>2. CASE h = g /\ g \in c.holders
      <4>1. ~(h >= c.nextStreamId \/ h \in c.requests)
        BY <1>1, <1>10, <3>2 DEF HostTyped
      <4> QED  BY <1>12, <1>13, <3>2, <4>1
    <3>3. CASE ~(h = g /\ g \in c.holders)
      BY <1>1, <1>13, <3>3 DEF NotesSound
    <3> QED  BY <3>2, <3>3
  <2> QED  BY <2>1, <2>2, <2>3 DEF HostSound
<1>15. SentSound(d.toDevice, f)
  <2>1. f.state # "Disconnected"
    BY <1>7, <1>8 DEF Agree, StreamsAgree
  <2> QED  BY <1>3, <1>5, <1>6, <2>1 DEF SentSound, GoodConnects
<1>16. /\ Life(d) /\ HostIds(d, f) /\ Stale(d, f) /\ Hopes(d, f) /\ Doomed(d, f)
       /\ Left(d, f) /\ First(n, d, f)
  <2>1. ~Unread(f)
    BY <1>8 DEF Behind
  <2>2. Stale(d, f)
    BY <1>3, <2>1 DEF Stale
  <2> QED  BY <1>2, <1>3, <1>4, <1>6, <1>8, <1>9, <2>2
           DEF Life, HostIds, Hopes, Doomed, Left, First, Connected
<1>17. Agree(d, f)
  <2>1. StreamsAgree(d, f)
    <3>1. \A y : OkFor(e, y) # m
      BY DEF OkFor, QdbMessage
    <3> QED  BY <1>3, <1>4, <1>6, <1>7, <1>8, <3>1 DEF Agree, StreamsAgree
  <2>2. SentAgrees(d) /\ QueuedAgrees(d) /\ AnswersAgree(d, f)
    BY <1>4, <1>5, <1>6, <1>7, <1>8 DEF Agree, SentAgrees, QueuedAgrees, AnswersAgree
  <2>3. DeviceGoesOn(d, f)
    BY <1>5, <1>6 DEF DeviceGoesOn
  <2>4. OneAnswer(d, f)
    <3>1. Num(Out(f), Answers) \in Nat
      BY <1>7, NumType
    <3>2. Num(Out(f), Answers) = Num(Out(e), Answers)
      BY <1>7, <3>1 DEF Answers
    <3> QED  BY <1>4, <1>6, <1>8, <3>2 DEF Agree, OneAnswer, Outstanding
  <2> QED  BY <2>1, <2>2, <2>3, <2>4 DEF Agree
<1>18. Chain(d, f, w, v)
  <2>1. SUFFICES ASSUME NEW h \in c.holders
        PROVE  LET y == c.streams[h] IN
               IF e.executors[y] = Device!NoExecutor THEN Data(Out(f), y) = {}
               ELSE ChainOf(Out(f), d.toDevice, c.outgoing, y, Len(v[h]), w[h])
    BY <1>4, <1>7 DEF Chain
  <2>2. Len(v[h]) = IF h = g THEN Len(r[g]) + 1 ELSE Len(r[h])
    <3>1. h \in StreamIds
      BY <1>11
    <3>2. CASE h = g
      BY <1>13, <3>1, <3>2
    <3>3. CASE h # g
      BY <1>13, <3>1, <3>3
    <3> QED  BY <3>2, <3>3
  <2>3. \A y, k, x : ChainOf(Out(f), c.toDevice, c.outgoing, y, k, x) =>
                         ChainOf(Out(f), d.toDevice, c.outgoing, y, k, x)
    BY <1>6 DEF ChainOf, Before
  <2> QED  BY <1>12, <2>2, <2>3
<1> QED  BY <1>3, <1>14, <1>15, <1>16, <1>17, <1>18 DEF World, J, InStep

(* With the one answer taken, none is on its way and nothing asks for one. *)
LEMMA OkEndsTheWait ==
    ASSUME NEW c, NEW e, NEW f, NEW m, HostTakes(e, f, m), m.command = "Ok",
           DeviceSound(e), SentSound(c.toDevice, e), OneAnswer(c, e)
    PROVE  /\ Num(c.toDevice, Asked) + Num(Out(f), Answers) = 0
           /\ \A x \in Range(c.toDevice) : x.command \notin {"Open", "Write"}
           /\ \A x \in Range(Out(f)) : x.command # "Ok"
<1>1. /\ c.toDevice \in Seq(Message) /\ Out(f) \in Seq(Message)
      /\ Num(Out(e), Answers) = Num(Out(f), Answers) + 1
  BY DEF HostTakes, ShorterBy, SentSound, Answers
<1>2. Num(c.toDevice, Asked) \in Nat /\ Num(Out(f), Answers) \in Nat
  BY <1>1, NumType
<1>3. Num(c.toDevice, Asked) + (Num(Out(f), Answers) + 1) = IF c.state = "Connected" THEN 0 ELSE 1
  BY <1>1 DEF OneAnswer, Outstanding
<1>4. Num(c.toDevice, Asked) = 0 /\ Num(Out(f), Answers) = 0
  BY <1>2, <1>3
<1>5. /\ \A i \in DOMAIN c.toDevice : c.toDevice[i].command \notin Asked
      /\ \A i \in DOMAIN Out(f) : Out(f)[i].command \notin Answers
  BY <1>1, <1>4, NumType
<1> QED  BY <1>4, <1>5 DEF Range, Asked, Answers

(* An Ok ends the wait of the host. *)
LEMMA TakeOk ==
    ASSUME NEW n, NEW c, NEW d, NEW e, NEW f, NEW w, NEW r, NEW m,
           World(n, c, e, w, r), HostTakes(e, f, m), m.command = "Ok", Connected(c),
           SameHost(c, d), d.toDevice = c.toDevice, d.state = "Connected",
           c.state = "Waiting" => m.hostStream \notin c.requests
    PROVE  World(n, d, f, w, r)
<1>1. /\ HostSound(c, w, r) /\ HostTyped(c) /\ NotesTyped(w, r) /\ QueueSound(c)
      /\ IdsSound(c) /\ LifeSound(c) /\ NotesSound(c, w, r)
      /\ DeviceSound(e) /\ SentSound(c.toDevice, e)
  BY DEF World, HostSound
<1>2. /\ Life(c) /\ HostIds(c, e) /\ AnswersSound(e)
      /\ Stale(c, e) /\ InStep(c, e, w, r) /\ First(n, c, e) /\ Doomed(c, e)
  BY DEF World, J
<1>3. /\ DeviceSound(f) /\ AnswersSound(f) /\ HostIds(c, f) /\ Stale(c, f)
      /\ m \in Range(Out(e)) /\ Owned(m, e)
      /\ \A x : Owned(x, f) <=> Owned(x, e)
      /\ SentSound(c.toDevice, f)
      /\ \A y : OkFor(f, y) = OkFor(e, y) /\ CloseFor(f, y) = CloseFor(e, y)
  BY <1>1, <1>2, Taken
<1>4. /\ d.outgoing = c.outgoing /\ d.streams = c.streams /\ d.holders = c.holders
      /\ d.object = c.object /\ d.assertsHold = c.assertsHold
      /\ d.requests = c.requests /\ d.nextStreamId = c.nextStreamId /\ d.opening = c.opening
  BY DEF SameHost, SameIds
<1>5. c.object = "live" /\ Connected(d)
  BY <1>1 DEF LifeSound, Connected
<1>6. HostSound(d, w, r)
  BY <1>1, <1>4, <1>5
     DEF HostSound, HostTyped, QueueSound, IdsSound, LifeSound, NotesSound, Connected
<1>7. /\ f.state = e.state /\ f.streams = e.streams /\ f.executors = e.executors
      /\ Range(e.toHost) = Range(f.toHost) \cup {m}
      /\ Range(Out(e)) = Range(Out(f)) \cup {m}
      /\ \A command : Holds(Out(e), command) <=> Holds(Out(f), command) \/ m.command = command
  BY DEF HostTakes, ShorterBy
<1>8. Behind(d, f) <=> Behind(c, e)
  BY <1>7 DEF Behind, Unread
<1>9. /\ Life(d) /\ HostIds(d, f) /\ Stale(d, f) /\ Hopes(d, f) /\ Doomed(d, f)
      /\ Left(d, f) /\ First(n, d, f)
  <2>1. HostIds(d, f) /\ Stale(d, f)
    BY <1>3, <1>4, <1>5 DEF HostIds, Stale
  <2>2. Doomed(d, f)
    BY <1>2, <1>7, <1>8 DEF Doomed
  <2> QED  BY <1>2, <1>4, <1>5, <1>8, <2>1, <2>2 DEF Life, Hopes, Left, First, Connected
<1>10. InStep(d, f, w, r)
  <2>1. SUFFICES ASSUME ~Behind(c, e) PROVE Agree(d, f) /\ Chain(d, f, w, r)
    BY <1>8 DEF InStep
  <2>2. Agree(c, e) /\ Chain(c, e, w, r)
    BY <1>2, <2>1 DEF InStep
  <2>3. /\ Num(c.toDevice, Asked) + Num(Out(f), Answers) = 0
        /\ \A x \in Range(c.toDevice) : x.command \notin {"Open", "Write"}
        /\ \A x \in Range(Out(f)) : x.command # "Ok"
    BY <1>1, <2>2, OkEndsTheWait DEF Agree
  <2>4. m.hostStream \notin c.requests
    <3>1. Num(Out(f), Answers) \in Nat /\ Num(c.toDevice, Asked) \in Nat
      BY <1>1, <1>3, ConcatParts, NumType DEF Out, DeviceSound, SentSound
    <3>2. Num(Out(e), Answers) = Num(Out(f), Answers) + 1
      BY DEF HostTakes, ShorterBy, Answers
    <3>3. c.state # "Connected"
      BY <2>2, <3>1, <3>2 DEF Agree, OneAnswer, Outstanding
    <3> QED  BY <3>3 DEF Connected
  <2>5. StreamsAgree(d, f)
    <3>1. \A y : e.streams[y] \in c.requests => OkFor(e, y) # m
      BY <2>4 DEF OkFor, QdbMessage
    <3> QED  BY <1>3, <1>4, <1>7, <2>2, <3>1 DEF Agree, StreamsAgree
  <2>6. SentAgrees(d) /\ QueuedAgrees(d) /\ AnswersAgree(d, f) /\ OneAnswer(d, f)
    BY <1>4, <1>7, <2>2, <2>3
       DEF Agree, SentAgrees, QueuedAgrees, AnswersAgree, OneAnswer, Outstanding
  <2>7. DeviceGoesOn(d, f)
    BY <1>4, <1>7, <2>2 DEF Agree, DeviceGoesOn
  <2>8. \A y : ~IsWrite(m, y)
    BY DEF IsWrite
  <2>9. /\ \A y : Data(Out(e), y) = Data(Out(f), y)
        /\ \A y, p, q, k, x : ChainOf(Out(e), p, q, y, k, x) => ChainOf(Out(f), p, q, y, k, x)
    <3>1. ASSUME NEW y PROVE Data(Out(e), y) = Data(Out(f), y)
      <4>1. Data(Out(e), y) = Data(Out(f), y) \cup (IF IsWrite(m, y) THEN {m.data} ELSE {})
        BY DEF HostTakes, ShorterBy
      <4> QED  BY <2>8, <4>1
    <3>2. ShorterBy(Out(e), m, Out(f))
      BY DEF HostTakes
    <3>3. \A y, p, q, k, x : ChainOf(Out(e), p, q, y, k, x) => ChainOf(Out(f), p, q, y, k, x)
      BY <2>8, <3>2, ChainSkips
    <3> QED  BY <3>1, <3>3
  <2>10. Chain(d, f, w, r)
    BY <1>4, <1>7, <2>2, <2>9 DEF Chain
  <2> QED  BY <2>5, <2>6, <2>7, <2>10 DEF Agree
<1> QED  BY <1>3, <1>4, <1>6, <1>9, <1>10 DEF World, J

(* An Ok gives a service its stream. *)
HostCreates(c, d, m) ==
    /\ DOMAIN d.streams = DOMAIN c.streams \cup {m.hostStream}
    /\ d.streams \in [DOMAIN d.streams -> Nat]
    /\ d.streams[m.hostStream] = m.deviceStream
    /\ \A h \in DOMAIN c.streams : h # m.hostStream => d.streams[h] = c.streams[h]
    /\ d.requests = c.requests \ {m.hostStream}
    /\ d.opening = c.opening \ {m.hostStream}
    /\ d.holders = c.holders \cup {m.hostStream}
    /\ d.outgoing = c.outgoing /\ d.toDevice = c.toDevice
    /\ d.nextStreamId = c.nextStreamId
    /\ d.object = c.object /\ d.assertsHold = c.assertsHold

(* The host takes the Ok that gives it a stream. *)
LEMMA TakeStream ==
    ASSUME NEW n, NEW c, NEW d, NEW e, NEW f, NEW w, NEW r, NEW m,
           World(n, c, e, w, r), HostTakes(e, f, m), m.command = "Ok",
           c.state = "Waiting", d.state = "Connected",
           m.hostStream \in c.requests, HostCreates(c, d, m)
    PROVE  World(n, d, f, w, r)
<1> DEFINE g == m.hostStream
<1>1. /\ HostSound(c, w, r) /\ HostTyped(c) /\ NotesTyped(w, r) /\ QueueSound(c)
      /\ IdsSound(c) /\ LifeSound(c) /\ NotesSound(c, w, r)
      /\ DeviceSound(e) /\ SentSound(c.toDevice, e)
  BY DEF World, HostSound
<1>2. /\ Life(c) /\ HostIds(c, e) /\ AnswersSound(e)
      /\ Stale(c, e) /\ InStep(c, e, w, r) /\ First(n, c, e) /\ Doomed(c, e)
  BY DEF World, J
<1>3. /\ DeviceSound(f) /\ AnswersSound(f) /\ HostIds(c, f) /\ Stale(c, f)
      /\ m \in Message /\ m \in Range(Out(e)) /\ Owned(m, e) /\ Owned(m, f)
      /\ SentSound(c.toDevice, f)
      /\ \A y : OkFor(f, y) = OkFor(e, y) /\ CloseFor(f, y) = CloseFor(e, y)
      /\ Unread(f) => m.deviceStream \notin DOMAIN e.streams
  BY <1>1, <1>2, Taken
<1>4. /\ DOMAIN d.streams = DOMAIN c.streams \cup {g}
      /\ d.streams \in [DOMAIN d.streams -> Nat]
      /\ d.streams[g] = m.deviceStream
      /\ \A h \in DOMAIN c.streams : h # g => d.streams[h] = c.streams[h]
      /\ d.requests = c.requests \ {g}
      /\ d.opening = c.opening \ {g}
      /\ d.holders = c.holders \cup {g}
      /\ d.outgoing = c.outgoing /\ d.toDevice = c.toDevice
      /\ d.nextStreamId = c.nextStreamId
      /\ d.object = c.object /\ d.assertsHold = c.assertsHold
  BY DEF HostCreates
<1>5. /\ c.object = "live" /\ Connected(d) /\ Connected(c)
      /\ g \notin DOMAIN c.streams /\ g \in StreamIds /\ g < c.nextStreamId /\ g \in Nat
  BY <1>1, BoundsAssumption DEF LifeSound, Connected, IdsSound, HostTyped, StreamIds
<1>6. HostSound(d, w, r)
  <2>1. HostTyped(d)
    BY <1>1, <1>4, <1>5 DEF HostTyped
  <2>2. QueueSound(d)
    BY <1>1, <1>4, <1>5 DEF QueueSound
  <2>3. IdsSound(d) /\ LifeSound(d) /\ NotesSound(d, w, r)
    BY <1>1, <1>4, <1>5 DEF IdsSound, LifeSound, NotesSound, Connected
  <2> QED  BY <1>1, <2>1, <2>2, <2>3 DEF HostSound
<1>7. /\ f.state = e.state /\ f.streams = e.streams /\ f.executors = e.executors
      /\ f.nextStreamId = e.nextStreamId
      /\ Range(e.toHost) = Range(f.toHost) \cup {m}
      /\ Range(Out(e)) = Range(Out(f)) \cup {m}
      /\ \A command : Holds(Out(e), command) <=> Holds(Out(f), command) \/ m.command = command
  BY DEF HostTakes, ShorterBy
<1>8. Behind(d, f) <=> Behind(c, e)
  BY <1>4, <1>7 DEF Behind, Unread
<1>9. /\ Life(d) /\ HostIds(d, f) /\ Stale(d, f) /\ Hopes(d, f) /\ Doomed(d, f)
      /\ Left(d, f) /\ First(n, d, f)
  <2>1. HostIds(d, f)
    <3>1. \A x \in Range(c.outgoing) : x.command \in {"Write", "Close"} => x.hostStream # g
      BY <1>1, <1>5 DEF QueueSound
    <3>2. ASSUME NEW h \in DOMAIN d.streams
          PROVE  /\ d.streams[h] < f.nextStreamId
                 /\ d.streams[h] \in DOMAIN f.streams => f.streams[d.streams[h]] = h
      BY <1>3, <1>4 DEF HostIds, Owned
    <3> QED  BY <1>3, <1>4, <1>5, <3>1, <3>2 DEF HostIds
  <2>2. Stale(d, f)
    BY <1>3, <1>4, <1>7 DEF Stale
  <2>3. Doomed(d, f)
    BY <1>2, <1>4, <1>5, <1>7, <1>8 DEF Doomed
  <2>4. Life(d) /\ Hopes(d, f) /\ Left(d, f)
    BY <1>4, <1>5 DEF Life, Hopes, Left, Connected
  <2>5. First(n, d, f)
    BY <1>2, <1>4, <1>5, <1>8 DEF First, Connected
  <2> QED  BY <2>1, <2>2, <2>3, <2>4, <2>5
<1>10. InStep(d, f, w, r)
  <2>1. SUFFICES ASSUME ~Behind(c, e) PROVE Agree(d, f) /\ Chain(d, f, w, r)
    BY <1>8 DEF InStep
  <2>2. Agree(c, e) /\ Chain(c, e, w, r)
    BY <1>2, <1>5, <2>1 DEF InStep
  <2>3. /\ Num(c.toDevice, Asked) + Num(Out(f), Answers) = 0
        /\ \A x \in Range(c.toDevice) : x.command \notin {"Open", "Write"}
        /\ \A x \in Range(Out(f)) : x.command # "Ok"
    BY <1>1, <2>2, OkEndsTheWait DEF Agree
  <2>4. m.deviceStream \in DOMAIN e.streams /\ e.streams[m.deviceStream] = g
        /\ NoOpen(c.outgoing, g)
    BY <1>3, <2>2 DEF Agree, AnswersAgree, Owned
  <2>5. StreamsAgree(d, f)
    <3>1. ASSUME NEW y \in DOMAIN e.streams
          PROVE  \/ e.streams[y] \in DOMAIN d.streams /\ d.streams[e.streams[y]] = y
                 \/ CloseFor(e, y) \in Range(d.toDevice)
      <4>1. CASE e.streams[y] \in DOMAIN c.streams /\ c.streams[e.streams[y]] = y
        BY <1>4, <1>5, <4>1
      <4>2. CASE CloseFor(e, y) \in Range(c.toDevice)
        BY <1>4, <4>2
      <4>3. CASE e.streams[y] \in c.requests /\ OkFor(e, y) \in Range(Out(e))
        <5>1. OkFor(e, y).command = "Ok" /\ OkFor(e, y).deviceStream = y
          BY DEF OkFor, QdbMessage
        <5>2. OkFor(e, y) = m
          BY <1>7, <2>3, <4>3, <5>1
        <5> QED  BY <1>4, <2>4, <5>1, <5>2
      <4> QED  BY <2>2, <4>1, <4>2, <4>3 DEF Agree, StreamsAgree
    <3>2. \A h \in DOMAIN d.streams : d.streams[h] \in DOMAIN e.streams
      BY <1>4, <2>2, <2>4 DEF Agree, StreamsAgree
    <3> QED  BY <1>3, <1>7, <2>2, <3>1, <3>2 DEF Agree, StreamsAgree
  <2>6. SentAgrees(d)
    BY <1>4, <1>5, <2>2, <2>3 DEF Agree, SentAgrees
  <2>7. QueuedAgrees(d)
    BY <1>4, <2>2, <2>4 DEF Agree, QueuedAgrees, NoOpen
  <2>8. AnswersAgree(d, f)
    <3>1. ASSUME NEW x \in Range(Out(f))
          PROVE  /\ x.command = "Write"
                 /\ x.hostStream \notin c.requests /\ x.hostStream < c.nextStreamId
                 /\ x.hostStream \in DOMAIN c.streams => c.streams[x.hostStream] = x.deviceStream
      BY <1>7, <2>2, <2>3 DEF Agree, AnswersAgree
    <3> QED  BY <1>4, <3>1 DEF AnswersAgree
  <2>9. OneAnswer(d, f) /\ DeviceGoesOn(d, f)
    BY <1>4, <1>7, <2>2, <2>3 DEF Agree, OneAnswer, Outstanding, DeviceGoesOn
  <2>10. \A y : ~IsWrite(m, y)
    BY DEF IsWrite
  <2>11. /\ \A y : Data(Out(e), y) = Data(Out(f), y)
         /\ \A y, p, q, k, x : ChainOf(Out(e), p, q, y, k, x) => ChainOf(Out(f), p, q, y, k, x)
    <3>1. ASSUME NEW y PROVE Data(Out(e), y) = Data(Out(f), y)
      <4>1. Data(Out(e), y) = Data(Out(f), y) \cup (IF IsWrite(m, y) THEN {m.data} ELSE {})
        BY DEF HostTakes, ShorterBy
      <4> QED  BY <2>10, <4>1
    <3>2. ShorterBy(Out(e), m, Out(f))
      BY DEF HostTakes
    <3>3. \A y, p, q, k, x : ChainOf(Out(e), p, q, y, k, x) => ChainOf(Out(f), p, q, y, k, x)
      BY <2>10, <3>2, ChainSkips
    <3> QED  BY <3>1, <3>3
  <2>12. ASSUME NEW h \in d.holders
         PROVE  LET y == d.streams[h] IN
                IF e.executors[y] = Device!NoExecutor THEN Data(Out(f), y) = {}
                ELSE ChainOf(Out(f), c.toDevice, c.outgoing, y, Len(r[h]), w[h])
    <3>1. CASE h # g
      <4>1. h \in c.holders /\ d.streams[h] = c.streams[h]
        BY <1>1, <1>4, <3>1 DEF HostTyped
      <4> QED  BY <2>2, <2>11, <4>1 DEF Chain
    <3>2. CASE h = g
      <4> DEFINE y == m.deviceStream
      <4>1. /\ \A x \in Range(Out(f)) : ~IsWrite(x, y)
            /\ \A x \in Range(c.toDevice) : ~IsWrite(x, y)
            /\ \A x \in Range(c.outgoing) : ~IsWrite(x, y)
        <5>1. ASSUME NEW x \in Range(Out(f)), IsWrite(x, y) PROVE FALSE
          <6>1. x.hostStream \notin c.requests
            BY <1>7, <2>2, <5>1 DEF Agree, AnswersAgree, IsWrite
          <6>2. Owned(x, e)
            BY <1>1, <1>2, <1>7, <5>1, Joined
               DEF Out, JoinOf, DeviceSound, AnswersSound
          <6> QED  BY <2>4, <5>1, <6>1, <6>2 DEF Owned, IsWrite
        <5>2. ASSUME NEW x \in Range(c.outgoing), IsWrite(x, y) PROVE FALSE
          <6>1. x.hostStream \in DOMAIN c.streams /\ Owned(x, e)
            BY <1>1, <1>2, <5>2 DEF QueueSound, HostIds, IsWrite
          <6> QED  BY <1>5, <2>4, <5>2, <6>1 DEF Owned, IsWrite
        <5> QED  BY <2>3, <5>1, <5>2 DEF IsWrite
      <4> HIDE DEF y
      <4>2. Data(Out(f), y) = {} /\ Data(c.toDevice, y) = {} /\ Data(c.outgoing, y) = {}
        BY <4>1 DEF Data, Range
      <4>3. Increasing(Out(f), y) /\ Increasing(c.toDevice, y) /\ Increasing(c.outgoing, y)
        BY <4>1 DEF Increasing, Range
      <4>4. w[g] = 0 /\ Len(r[g]) = 0
        <5>1. w[g] = 0 /\ r[g] = <<>>
          BY <1>1, <1>5 DEF NotesSound
        <5> QED  BY <5>1
      <4>5. ChainOf(Out(f), c.toDevice, c.outgoing, y, 0, 0)
        BY <4>2, <4>3 DEF ChainOf, Before
      <4> QED  BY <1>4, <3>2, <4>2, <4>4, <4>5 DEF y
    <3> QED  BY <3>1, <3>2
  <2>13. Chain(d, f, w, r)
    BY <1>4, <1>7, <2>12 DEF Chain
  <2> QED  BY <2>5, <2>6, <2>7, <2>8, <2>9, <2>13 DEF Agree
<1> QED  BY <1>3, <1>4, <1>6, <1>9, <1>10 DEF World, J

(* A Close comes only from before the connection that the host believes in. *)
LEMMA TakeClose ==
    ASSUME NEW n, NEW c, NEW d, NEW e, NEW f, NEW w, NEW r, NEW m, NEW R,
           World(n, c, e, w, r), HostTakes(e, f, m), m.command = "Close", Connected(c),
           Drops(c, d, m.hostStream, R, c.outgoing), d.toDevice = c.toDevice
    PROVE  World(n, d, f, w, r)
<1> DEFINE g == m.hostStream
<1>1. /\ HostSound(c, w, r) /\ HostTyped(c) /\ LifeSound(c)
      /\ DeviceSound(e) /\ SentSound(c.toDevice, e)
  BY DEF World, HostSound
<1>2. /\ Life(c) /\ HostIds(c, e) /\ AnswersSound(e)
      /\ Stale(c, e) /\ InStep(c, e, w, r) /\ First(n, c, e) /\ Doomed(c, e)
  BY DEF World, J
<1>3. /\ DeviceSound(f) /\ AnswersSound(f) /\ HostIds(c, f) /\ Stale(c, f)
      /\ m \in Range(Out(e))
      /\ SentSound(c.toDevice, f)
  BY <1>1, <1>2, Taken
<1>4. /\ DOMAIN d.streams = DOMAIN c.streams \ {g}
      /\ \A h \in DOMAIN d.streams : d.streams[h] = c.streams[h]
      /\ Range(d.outgoing) \subseteq Range(c.outgoing)
      /\ d.state = c.state /\ d.object = c.object
      /\ d.requests = c.requests /\ d.nextStreamId = c.nextStreamId /\ d.opening = c.opening
  BY DEF Drops, SameIds, KeptOf
<1>5. Behind(c, e) /\ c.object = "live"
  <2>1. ASSUME ~Behind(c, e) PROVE FALSE
    BY <1>2, <1>3, <2>1 DEF InStep, Agree, AnswersAgree
  <2> QED  BY <1>1, <2>1 DEF LifeSound, Connected
<1>6. /\ f.state = e.state /\ f.streams = e.streams
      /\ \A command : Holds(Out(e), command) <=> Holds(Out(f), command) \/ m.command = command
  BY DEF HostTakes, ShorterBy
<1>7. Behind(d, f)
  BY <1>5, <1>6 DEF Behind, Unread
<1>8. HostSound(d, w, r)
  BY <1>1, DropsSound DEF HostTyped
<1>9. /\ Life(d) /\ HostIds(d, f) /\ Stale(d, f) /\ Hopes(d, f) /\ Doomed(d, f)
      /\ Left(d, f) /\ First(n, d, f) /\ InStep(d, f, w, r)
  <2>1. HostIds(d, f)
    BY <1>3, <1>4 DEF HostIds, Connected
  <2>2. Stale(d, f)
    BY <1>3, <1>4 DEF Stale
  <2>3. Doomed(d, f)
    BY <1>2, <1>5, <1>6 DEF Doomed
  <2> QED  BY <1>2, <1>4, <1>5, <1>7, <2>1, <2>2, <2>3
           DEF Life, Hopes, Left, First, InStep, Connected
<1> QED  BY <1>3, <1>8, <1>9 DEF World, J

(* The device's Connect makes the connection that the host waits for. *)
LEMMA TakeConnect ==
    ASSUME NEW n, NEW c, NEW d, NEW e, NEW f, NEW w, NEW r, NEW m,
           World(n, c, e, w, r), HostTakes(e, f, m), m.command = "Connect",
           c.state = "WaitingForConnection", d.state = "Connected",
           SameHost(c, d), d.toDevice = c.toDevice
    PROVE  World(n, d, f, w, r)
<1>1. /\ HostSound(c, w, r) /\ HostTyped(c) /\ NotesTyped(w, r) /\ QueueSound(c)
      /\ IdsSound(c) /\ LifeSound(c) /\ NotesSound(c, w, r)
      /\ DeviceSound(e) /\ SentSound(c.toDevice, e)
  BY DEF World, HostSound
<1>2. /\ Life(c) /\ HostIds(c, e) /\ AnswersSound(e)
      /\ Stale(c, e) /\ First(n, c, e) /\ Hopes(c, e)
  BY DEF World, J
<1>3. /\ DeviceSound(f) /\ AnswersSound(f) /\ HostIds(c, f) /\ Stale(c, f)
      /\ m = ConnectMessage /\ Unread(e) /\ ~Holds(Out(f), "Write")
      /\ SentSound(c.toDevice, f)
  BY <1>1, <1>2, Taken
<1>4. /\ d.outgoing = c.outgoing /\ d.streams = c.streams /\ d.holders = c.holders
      /\ d.object = c.object /\ d.assertsHold = c.assertsHold
      /\ d.requests = c.requests /\ d.nextStreamId = c.nextStreamId /\ d.opening = c.opening
  BY DEF SameHost, SameIds
<1>5. /\ c.object = "live" /\ Connected(d) /\ DOMAIN c.streams = {} /\ c.holders = {}
  BY <1>1 DEF LifeSound, Connected, IdsSound, HostTyped
<1>6. HostSound(d, w, r)
  BY <1>1, <1>4, <1>5
     DEF HostSound, HostTyped, QueueSound, IdsSound, LifeSound, NotesSound, Connected
<1>7. /\ f.state = e.state /\ f.streams = e.streams /\ f.outgoing = e.outgoing
      /\ EndsWithConnect(e.toHost) =>
            EndsWithConnect(f.toHost) \/ f.toHost = <<>>
      /\ f.toHost \in Seq(Message) /\ e.toHost \in Seq(Message)
  BY DEF HostTakes, ShorterBy
<1>8. ~EndsWithConnect(<<>>)
  BY DEF EndsWithConnect
<1>9. ASSUME NEW q \in Seq(Message), EndsWithConnect(q) PROVE Holds(q, "Connect")
  <2>1. Len(q) \in DOMAIN q
    BY <1>9, EmptySeq DEF EndsWithConnect
  <2> QED  BY <1>9, <2>1 DEF EndsWithConnect, Holds, ConnectMessage, QdbMessage
<1>10. ASSUME ~Behind(d, f)
       PROVE  /\ c.toDevice = <<>> /\ Out(f) = <<>> /\ f.toHost = <<>>
              /\ f.state = "Connected" /\ DOMAIN f.streams = {}
  <2>1. ~EndsWithConnect(c.toDevice)
    BY <1>1, <1>9, <1>10 DEF Behind, SentSound
  <2>2. /\ c.toDevice = <<>> /\ EndsWithConnect(e.toHost)
        /\ e.state = "Connected" /\ DOMAIN e.streams = {} /\ e.outgoing = <<>>
    BY <1>2, <2>1 DEF Hopes
  <2>3. Out(f) = f.toHost
    BY <1>7, <2>2, Joined DEF Out, JoinOf
  <2>4. ~EndsWithConnect(f.toHost)
    BY <1>7, <1>9, <1>10, <2>3 DEF Behind, Unread
  <2> QED  BY <1>7, <2>2, <2>3, <2>4
<1>11. Clean(c.toDevice, DOMAIN f.streams)
  BY <1>2, <1>3, <1>7 DEF Stale
<1>12. HostIds(d, f)
  <2>1. f.state = "Disconnected" => c.toDevice # <<>>
    BY <1>2, <1>7, <1>8 DEF Hopes
  <2> QED  BY <1>3, <1>4, <2>1 DEF HostIds
<1>13. First(n, d, f)
  <2>1. SUFFICES ASSUME n = 1
                 PROVE  ~Behind(d, f) /\ (c.object = "live" => c.opening \subseteq c.requests)
    BY <1>4, <1>5 DEF First, Connected
  <2>2. e.toHost # <<>>
    BY DEF HostTakes, ShorterBy
  <2>3. c.toDevice = <<>> /\ e.toHost = <<ConnectMessage>>
    BY <1>2, <2>1, <2>2 DEF First
  <2>4. e.outgoing = <<>>
    BY <1>2, <1>8, <2>3 DEF Hopes
  <2>5. f.toHost = <<>>
    <3>1. Range(e.toHost) = {ConnectMessage} /\ Len(e.toHost) = 1
      BY <2>3 DEF Range
    <3>2. Num(e.toHost, {"Connect"}) = Num(f.toHost, {"Connect"}) + 1
      BY DEF HostTakes, ShorterBy
    <3>3. Positions(e.toHost, {"Connect"}) = {1}
      BY <2>3 DEF Positions, ConnectMessage, QdbMessage
    <3>4. Num(f.toHost, {"Connect"}) = 0
      <4>1. Num(e.toHost, {"Connect"}) = 1
        BY <3>3, FS_Singleton DEF Num
      <4>2. Num(f.toHost, {"Connect"}) \in Nat
        BY <1>7, NumType
      <4> QED  BY <3>2, <4>1, <4>2
    <3>5. \A i \in DOMAIN f.toHost : f.toHost[i].command # "Connect"
      BY <1>7, <3>4, NumType
    <3>6. Range(f.toHost) \subseteq {ConnectMessage}
      BY <3>1 DEF HostTakes, ShorterBy
    <3>7. DOMAIN f.toHost = {}
      BY <3>5, <3>6 DEF Range, ConnectMessage, QdbMessage
    <3>8. Len(f.toHost) \in Nat /\ DOMAIN f.toHost = 1..Len(f.toHost)
      BY <1>7
    <3>9. Len(f.toHost) = 0
      <4>1. \A l \in Nat : l # 0 => 1 \in 1..l
        OBVIOUS
      <4>2. Len(f.toHost) # 0 => 1 \in DOMAIN f.toHost
        BY <3>8, <4>1
      <4> QED  BY <3>7, <4>2
    <3> QED  BY <1>7, <3>9, EmptySeq
  <2>6. Out(f) = <<>>
    BY <1>7, <2>4, <2>5 DEF Out
  <2> QED  BY <1>2, <1>4, <2>1, <2>3, <2>6, EmptyHolds DEF Behind, Unread, First
<1>14. /\ Life(d) /\ Stale(d, f) /\ Hopes(d, f) /\ Doomed(d, f) /\ Left(d, f)
  <2>1. Stale(d, f)
    BY <1>3, <1>4 DEF Stale
  <2> QED  BY <1>3, <1>4, <1>5, <1>11, <2>1 DEF Life, Hopes, Left, Doomed, Connected
<1>15. InStep(d, f, w, r)
  <2>1. SUFFICES ASSUME ~Behind(d, f) PROVE Agree(d, f) /\ Chain(d, f, w, r)
    BY DEF InStep
  <2>2. /\ c.toDevice = <<>> /\ Out(f) = <<>>
        /\ f.state = "Connected" /\ DOMAIN f.streams = {}
    BY <1>10, <2>1
  <2>3. Range(c.toDevice) = {} /\ Range(Out(f)) = {} /\ Outstanding(d, f) = 0
    BY <2>2, RangeEmpty, EmptyHolds DEF Outstanding
  <2>4. StreamsAgree(d, f) /\ SentAgrees(d) /\ AnswersAgree(d, f) /\ DeviceGoesOn(d, f)
        /\ OneAnswer(d, f)
    BY <1>4, <1>5, <2>2, <2>3
       DEF StreamsAgree, SentAgrees, AnswersAgree, DeviceGoesOn, OneAnswer
  <2>5. QueuedAgrees(d)
    BY <1>1, <1>4 DEF QueueSound, QueuedAgrees
  <2>6. Chain(d, f, w, r)
    BY <1>4, <1>5 DEF Chain
  <2> QED  BY <2>4, <2>5, <2>6 DEF Agree
<1> QED  BY <1>3, <1>4, <1>6, <1>12, <1>13, <1>14, <1>15 DEF World, J

(* The host forgets what it had and asks for a connection anew. *)
HostRestarts(c, d) ==
    /\ d.state = "WaitingForConnection"
    /\ d.outgoing = <<>> /\ d.requests = {} /\ d.holders = {}
    /\ DOMAIN d.streams = {} /\ d.streams \in [DOMAIN d.streams -> Nat]
    /\ d.nextStreamId = c.nextStreamId /\ d.opening = c.opening
    /\ d.object = "live" /\ d.assertsHold = c.assertsHold
    /\ LongerBy(c.toDevice, ConnectMessage, d.toDevice)

(* What a Connect is added to stays sound. *)
LEMMA ConnectAdded ==
    ASSUME NEW p, NEW a, NEW e, DeviceSound(e), SentSound(p, e),
           LongerBy(p, ConnectMessage, a)
    PROVE  /\ SentSound(a, e) /\ EndsWithConnect(a)
           /\ \A D : Clean(p, D) => Clean(a, D)
<1>1. /\ ConnectMessage.command = "Connect" /\ ConnectMessage.deviceStream = 0
  BY DEF ConnectMessage, QdbMessage
<1>2. Owned(ConnectMessage, e)
  BY <1>1 DEF DeviceSound, Owned
<1>3. /\ a \in Seq(Message) /\ Range(a) = Range(p) \cup {ConnectMessage}
      /\ a[1] = IF p = <<>> THEN ConnectMessage ELSE p[1]
      /\ EndsWithConnect(a)
      /\ \A D : Clean(p, D) => Clean(a, D)
  BY <1>1 DEF LongerBy
<1> QED  BY <1>1, <1>2, <1>3 DEF SentSound, GoodConnects

(* A Connect that was not asked for, or anything but a Connect where one was
   asked for, makes the host start anew. *)
LEMMA TakeRestart ==
    ASSUME NEW n, NEW c, NEW d, NEW e, NEW f, NEW w, NEW r, NEW m,
           World(n, c, e, w, r), HostTakes(e, f, m), c.object = "live",
           IF m.command = "Connect" THEN Connected(c) ELSE c.state = "WaitingForConnection",
           HostRestarts(c, d)
    PROVE  World(n, d, f, w, r)
<1>1. /\ HostTyped(c) /\ NotesTyped(w, r) /\ NotesSound(c, w, r)
      /\ DeviceSound(e) /\ SentSound(c.toDevice, e)
  BY DEF World, HostSound
<1>2. /\ HostIds(c, e) /\ AnswersSound(e) /\ Stale(c, e) /\ First(n, c, e)
  BY DEF World, J
<1>3. /\ DeviceSound(f) /\ AnswersSound(f) /\ HostIds(c, f) /\ Stale(c, f)
      /\ m.command = "Connect" => Unread(e)
      /\ SentSound(c.toDevice, f)
  BY <1>1, <1>2, Taken
<1>4. /\ d.state = "WaitingForConnection"
      /\ d.outgoing = <<>> /\ d.requests = {} /\ d.holders = {}
      /\ DOMAIN d.streams = {} /\ d.streams \in [DOMAIN d.streams -> Nat]
      /\ d.nextStreamId = c.nextStreamId /\ d.opening = c.opening
      /\ d.object = "live" /\ d.assertsHold = c.assertsHold
  BY DEF HostRestarts
<1>5. /\ SentSound(d.toDevice, f) /\ EndsWithConnect(d.toDevice)
      /\ \A D : Clean(c.toDevice, D) => Clean(d.toDevice, D)
  BY <1>3, ConnectAdded DEF HostRestarts
<1>6. HostSound(d, w, r)
  <2>1. Range(d.outgoing) = {} /\ OpensDiffer(d.outgoing) /\ d.outgoing \in Seq(Message)
    BY <1>4, RangeEmpty DEF OpensDiffer
  <2>2. HostTyped(d)
    BY <1>1, <1>4, <1>5, <2>1 DEF HostTyped, SentSound
  <2>3. QueueSound(d) /\ IdsSound(d) /\ LifeSound(d)
    BY <1>1, <1>4, <2>1 DEF QueueSound, IdsSound, LifeSound, HostTyped, Connected
  <2>4. NotesSound(d, w, r)
    BY <1>1, <1>4 DEF NotesSound
  <2> QED  BY <1>1, <2>2, <2>3, <2>4 DEF HostSound
<1>7. HostIds(d, f)
  BY <1>4, RangeEmpty DEF HostIds, Connected
<1>8. Stale(d, f)
  BY <1>3, <1>4, <1>5 DEF Stale
<1>9. n # 1
  <2>1. SUFFICES ASSUME n = 1 PROVE FALSE
    OBVIOUS
  <2>2. CASE m.command = "Connect"
    BY <1>2, <1>3, <2>1, <2>2 DEF First, Behind
  <2>3. CASE m.command # "Connect"
    <3>1. e.toHost # <<>> /\ e.toHost[1] = m
      BY DEF HostTakes, ShorterBy
    <3>2. e.toHost = <<ConnectMessage>>
      BY <1>2, <2>1, <2>3, <3>1 DEF First
    <3> QED  BY <2>3, <3>1, <3>2 DEF ConnectMessage, QdbMessage
  <2> QED  BY <2>2, <2>3
<1>10. /\ Life(d) /\ Hopes(d, f) /\ Doomed(d, f) /\ InStep(d, f, w, r) /\ Left(d, f)
       /\ First(n, d, f)
  BY <1>4, <1>5, <1>9 DEF Life, Hopes, Doomed, InStep, Left, First, Connected
<1> QED  BY <1>3, <1>5, <1>6, <1>7, <1>8, <1>10 DEF World, J

(* A service lets go of its stream. *)
LEMMA DropHolder ==
    ASSUME NEW n, NEW c, NEW d, NEW e, NEW w, NEW r, NEW g,
           World(n, c, e, w, r),
           d.state = c.state, d.outgoing = c.outgoing, d.streams = c.streams,
           d.holders = c.holders \ {g}, d.object = c.object,
           d.assertsHold = c.assertsHold, d.toDevice = c.toDevice, SameIds(c, d)
    PROVE  World(n, d, e, w, r)
<1>1. /\ HostSound(c, w, r) /\ DeviceSound(e) /\ SentSound(c.toDevice, e) /\ J(n, c, e, w, r)
  BY DEF World
<1>2. HostSound(d, w, r)
  BY <1>1 DEF HostSound, HostTyped, QueueSound, IdsSound, LifeSound, NotesSound, Connected, SameIds
<1>3. /\ Life(d) /\ HostIds(d, e) /\ AnswersSound(e) /\ Hopes(d, e) /\ First(n, d, e)
      /\ Stale(d, e) /\ Doomed(d, e) /\ Left(d, e) /\ (Behind(d, e) <=> Behind(c, e))
  <2>1. Life(d) /\ HostIds(d, e) /\ AnswersSound(e) /\ Hopes(d, e)
    BY <1>1 DEF J, Life, HostIds, Hopes, Connected
  <2>2. Behind(d, e) <=> Behind(c, e)
    BY DEF Behind
  <2>3. Stale(d, e) /\ Doomed(d, e) /\ Left(d, e)
    BY <1>1, <2>2 DEF J, Stale, Doomed, Left, Connected, Outstanding
  <2>4. First(n, d, e)
    BY <1>1, <2>2 DEF J, First, Connected, SameIds
  <2> QED  BY <2>1, <2>2, <2>3, <2>4
<1>4. InStep(d, e, w, r)
  <2>1. SUFFICES ASSUME Connected(c), ~Behind(c, e) PROVE Agree(d, e) /\ Chain(d, e, w, r)
    BY <1>3 DEF InStep, Connected
  <2>2. Agree(c, e) /\ Chain(c, e, w, r)
    BY <1>1, <2>1 DEF J, InStep
  <2>3. StreamsAgree(d, e) /\ SentAgrees(d) /\ QueuedAgrees(d) /\ AnswersAgree(d, e)
    BY <2>2 DEF Agree, StreamsAgree, SentAgrees, QueuedAgrees, AnswersAgree, SameIds
  <2>4. OneAnswer(d, e) /\ DeviceGoesOn(d, e)
    BY <2>2 DEF Agree, OneAnswer, DeviceGoesOn, Outstanding
  <2>5. Chain(d, e, w, r)
    BY <2>2 DEF Chain
  <2> QED  BY <2>3, <2>4, <2>5 DEF Agree
<1> QED  BY <1>1, <1>2, <1>3, <1>4 DEF World, J

(* A Connection that waits for the device's Connect has not read it. *)
LEMMA WaitingIsBehind ==
    ASSUME NEW n, NEW c, NEW e, NEW w, NEW r,
           World(n, c, e, w, r), c.state = "WaitingForConnection"
    PROVE  Behind(c, e)
<1>1. Hopes(c, e) /\ SentSound(c.toDevice, e) /\ DeviceSound(e)
  BY DEF World, J
<1>2. ASSUME NEW q \in Seq(Message), EndsWithConnect(q) PROVE Holds(q, "Connect")
  <2>1. Len(q) \in DOMAIN q
    BY <1>2, EmptySeq DEF EndsWithConnect
  <2> QED  BY <1>2, <2>1 DEF EndsWithConnect, Holds, ConnectMessage, QdbMessage
<1>3. CASE EndsWithConnect(c.toDevice)
  BY <1>1, <1>2, <1>3 DEF Behind, SentSound
<1>4. CASE EndsWithConnect(e.toHost)
  <2>1. Holds(e.toHost, "Connect") /\ e.toHost \in Seq(Message) /\ e.outgoing \in Seq(Message)
    BY <1>1, <1>2, <1>4 DEF DeviceSound
  <2>2. Holds(Out(e), "Connect")
    BY <2>1, Joined DEF Out, JoinOf
  <2> QED  BY <2>2 DEF Behind, Unread
<1> QED  BY <1>1, <1>3, <1>4 DEF Hopes

(* A Connection is destroyed before it is agreed. *)
LEMMA DestroyEarly ==
    ASSUME NEW n, NEW c, NEW d, NEW e, NEW w, NEW r,
           World(n, c, e, w, r), c.state = "WaitingForConnection",
           d.state = "Disconnected", d.outgoing = c.outgoing, d.streams = c.streams,
           d.holders = c.holders, d.object = "destroyed",
           d.assertsHold = c.assertsHold, d.toDevice = c.toDevice, SameIds(c, d)
    PROVE  World(n, d, e, w, r)
<1>1. /\ HostSound(c, w, r) /\ DeviceSound(e) /\ SentSound(c.toDevice, e) /\ J(n, c, e, w, r)
  BY DEF World
<1>2. HostSound(d, w, r)
  BY <1>1 DEF HostSound, HostTyped, QueueSound, IdsSound, LifeSound, NotesSound, Connected, SameIds
<1>3. Behind(d, e)
  BY WaitingIsBehind DEF Behind
<1>4. /\ Life(d) /\ HostIds(d, e) /\ AnswersSound(e) /\ Hopes(d, e) /\ Stale(d, e)
  BY <1>1 DEF J, Life, HostIds, Hopes, Stale, Connected
<1>5. First(n, d, e) /\ Doomed(d, e) /\ Left(d, e) /\ InStep(d, e, w, r)
  BY <1>3 DEF First, Doomed, Left, InStep, Connected
<1> QED  BY <1>1, <1>2, <1>4, <1>5 DEF World, J

(* A Connection is destroyed, and a Close sent for each of its streams. *)
HostLeaves(c, d, closes) ==
    /\ closes \in Seq(Message)
    /\ Range(closes) = {QdbMessage("Close", h, c.streams[h], 0) : h \in DOMAIN c.streams}
    /\ JoinOf(c.toDevice, closes, d.toDevice)
    /\ d.state = "Disconnected" /\ d.object = "destroyed"
    /\ d.outgoing = <<>> /\ d.requests = {} /\ d.holders = {}
    /\ DOMAIN d.streams = {} /\ d.streams \in [DOMAIN d.streams -> Nat]
    /\ d.nextStreamId = c.nextStreamId /\ d.opening = c.opening
    /\ d.assertsHold = c.assertsHold

(* The object is destroyed in Connected or Waiting. *)
LEMMA DestroyConnected ==
    ASSUME NEW n, NEW c, NEW d, NEW e, NEW w, NEW r, NEW closes,
           World(n, c, e, w, r), Connected(c), HostLeaves(c, d, closes)
    PROVE  World(n, d, e, w, r)
<1>1. /\ HostTyped(c) /\ NotesTyped(w, r) /\ QueueSound(c) /\ IdsSound(c) /\ LifeSound(c)
      /\ NotesSound(c, w, r) /\ DeviceSound(e) /\ SentSound(c.toDevice, e)
  BY DEF World, HostSound
<1>2. /\ Life(c) /\ HostIds(c, e) /\ AnswersSound(e) /\ Stale(c, e) /\ InStep(c, e, w, r)
  BY DEF World, J
<1>3. /\ d.state = "Disconnected" /\ d.object = "destroyed"
      /\ d.outgoing = <<>> /\ d.requests = {} /\ d.holders = {}
      /\ DOMAIN d.streams = {} /\ d.streams \in [DOMAIN d.streams -> Nat]
      /\ d.nextStreamId = c.nextStreamId /\ d.opening = c.opening
      /\ d.assertsHold = c.assertsHold
  BY DEF HostLeaves
<1>4. /\ d.toDevice \in Seq(Message)
      /\ Range(d.toDevice) = Range(c.toDevice) \cup Range(closes)
      /\ \A command : Holds(d.toDevice, command) <=>
                          Holds(c.toDevice, command) \/ Holds(closes, command)
      /\ \A y : Data(d.toDevice, y) = Data(c.toDevice, y) \cup Data(closes, y)
      /\ \A S : Num(d.toDevice, S) = Num(c.toDevice, S) + Num(closes, S)
      /\ ~Holds(closes, "Write") => \A D : Clean(c.toDevice, D) => Clean(d.toDevice, D)
      /\ c.toDevice # <<>> => d.toDevice # <<>> /\ d.toDevice[1] = c.toDevice[1]
  BY DEF HostLeaves, JoinOf
<1>5. \A x \in Range(closes) :
        /\ x.command = "Close" /\ x.hostStream \in DOMAIN c.streams
        /\ x.deviceStream = c.streams[x.hostStream]
  BY DEF HostLeaves, QdbMessage
<1>6. ~Holds(closes, "Write") /\ ~Holds(closes, "Connect")
  BY <1>5, ByRange
<1>7. Num(closes, Asked) = 0
  <2>1. closes \in Seq(Message)
    BY DEF HostLeaves
  <2>2. \A i \in DOMAIN closes : closes[i].command \notin Asked
    BY <1>5 DEF Range, Asked
  <2> QED  BY <2>1, <2>2, NumType
<1>8. Data(closes, 0) = {} /\ \A y : Data(closes, y) = {}
  BY <1>5, ByRange DEF IsWrite
<1>9. HostSound(d, w, r)
  <2>1. Range(d.outgoing) = {} /\ OpensDiffer(d.outgoing) /\ d.outgoing \in Seq(Message)
    BY <1>3, RangeEmpty DEF OpensDiffer
  <2>2. HostTyped(d)
    BY <1>1, <1>3, <1>4, <2>1 DEF HostTyped
  <2>3. QueueSound(d) /\ IdsSound(d) /\ LifeSound(d)
    BY <1>1, <1>3, <2>1 DEF QueueSound, IdsSound, LifeSound, HostTyped, Connected
  <2>4. NotesSound(d, w, r)
    BY <1>1, <1>3 DEF NotesSound
  <2> QED  BY <1>1, <2>2, <2>3, <2>4 DEF HostSound
<1>10. SentSound(d.toDevice, e)
  <2>1. \A x \in Range(closes) : Owned(x, e)
    BY <1>2, <1>5 DEF HostIds, Owned
  <2>2. e.state = "Disconnected" => c.toDevice # <<>> /\ c.toDevice[1] = ConnectMessage
    BY <1>1, <1>2 DEF HostIds, SentSound
  <2> QED  BY <1>1, <1>4, <1>5, <2>1, <2>2 DEF SentSound, GoodConnects
<1>11. Behind(d, e) <=> Behind(c, e)
  BY <1>4, <1>6 DEF Behind
<1>12. Life(d) /\ HostIds(d, e) /\ Stale(d, e)
  <2>1. HostIds(d, e)
    BY <1>3, RangeEmpty DEF HostIds, Connected
  <2>2. Stale(d, e)
    BY <1>2, <1>3, <1>4, <1>6 DEF Stale
  <2> QED  BY <1>3, <2>1, <2>2 DEF Life
<1>13. Hopes(d, e) /\ Doomed(d, e) /\ InStep(d, e, w, r) /\ First(n, d, e)
  BY <1>3 DEF Hopes, Doomed, InStep, First, Connected
<1>14. Left(d, e)
  <2>1. SUFFICES ASSUME ~Behind(c, e)
        PROVE  /\ Outstanding(d, e) <= 1
               /\ \A y \in DOMAIN e.streams :
                     \/ CloseFor(e, y) \in Range(d.toDevice)
                     \/ /\ OkFor(e, y) \in Range(Out(e))
                        /\ Data(Out(e), y) = {} /\ Data(d.toDevice, y) = {}
               /\ e.state = "Waiting" => Holds(d.toDevice, "Ok") \/ Holds(d.toDevice, "Close")
    BY <1>11 DEF Left
  <2>2. Agree(c, e)
    BY <1>2, <2>1 DEF InStep
  <2>3. Outstanding(d, e) <= 1
    <3>1. Num(c.toDevice, Asked) \in Nat
      BY <1>1, NumType DEF HostTyped
    <3>2. Num(d.toDevice, Asked) = Num(c.toDevice, Asked)
      BY <1>4, <1>7, <3>1
    <3> QED  BY <2>2, <3>2 DEF Agree, OneAnswer, Outstanding
  <2>4. ASSUME NEW y \in DOMAIN e.streams
        PROVE  \/ CloseFor(e, y) \in Range(d.toDevice)
               \/ /\ OkFor(e, y) \in Range(Out(e))
                  /\ Data(Out(e), y) = {} /\ Data(d.toDevice, y) = {}
    <3>1. CASE e.streams[y] \in DOMAIN c.streams /\ c.streams[e.streams[y]] = y
      <4>1. CloseFor(e, y) \in Range(closes)
        BY <3>1 DEF HostLeaves, CloseFor
      <4> QED  BY <1>4, <4>1
    <3>2. CASE CloseFor(e, y) \in Range(c.toDevice)
      BY <1>4, <3>2
    <3>3. CASE e.streams[y] \in c.requests /\ OkFor(e, y) \in Range(Out(e))
      <4>1. \A x \in Range(Out(e)) : ~IsWrite(x, y)
        <5>1. \A x \in Range(Out(e)) : Owned(x, e)
          <6>1. Range(Out(e)) = Range(e.toHost) \cup Range(e.outgoing)
            BY <1>1, Joined DEF DeviceSound, Out, JoinOf
          <6> QED  BY <1>1, <1>2, <6>1 DEF DeviceSound, AnswersSound
        <5> QED  BY <2>2, <3>3, <5>1 DEF Agree, AnswersAgree, IsWrite, Owned
      <4>2. \A x \in Range(c.toDevice) : ~IsWrite(x, y)
        BY <1>1, <2>2, <3>3 DEF Agree, SentAgrees, IsWrite, Owned, SentSound, IdsSound
      <4>3. Data(Out(e), y) = {} /\ Data(c.toDevice, y) = {}
        BY <4>1, <4>2, ByRange
      <4> QED  BY <1>4, <1>8, <3>3, <4>3
    <3> QED  BY <2>2, <3>1, <3>2, <3>3 DEF Agree, StreamsAgree
  <2>5. ASSUME e.state = "Waiting"
        PROVE  Holds(d.toDevice, "Ok") \/ Holds(d.toDevice, "Close")
    <3>1. CASE \E m \in Range(e.toHost) : m.command = "Write" /\ m.hostStream \in DOMAIN c.streams
      <4>1. PICK h : h \in DOMAIN c.streams
        BY <3>1
      <4>2. QdbMessage("Close", h, c.streams[h], 0) \in Range(closes)
        BY <4>1 DEF HostLeaves
      <4>3. QdbMessage("Close", h, c.streams[h], 0).command = "Close"
        BY DEF QdbMessage
      <4>4. Holds(closes, "Close")
        BY <4>2, <4>3, ByRange
      <4> QED  BY <1>4, <4>4
    <3> QED  BY <1>4, <2>2, <2>5, <3>1 DEF Agree, DeviceGoesOn
  <2> QED  BY <2>3, <2>4, <2>5
<1> QED  BY <1>1, <1>2, <1>9, <1>10, <1>12, <1>13, <1>14 DEF World, J

(* A new Connection asks for a connection. *)
LEMMA Begin ==
    ASSUME NEW n, NEW c, NEW d, NEW e, NEW w, NEW r,
           World(n, c, e, w, r), c.object = "new", HostRestarts(c, d),
           d.toDevice = Append(c.toDevice, ConnectMessage)
    PROVE  World(n, d, e, w, r)
<1>1. /\ HostTyped(c) /\ NotesTyped(w, r) /\ LifeSound(c)
      /\ NotesSound(c, w, r) /\ DeviceSound(e) /\ SentSound(c.toDevice, e)
  BY DEF World, HostSound
<1>2. /\ HostIds(c, e) /\ AnswersSound(e) /\ Stale(c, e) /\ First(n, c, e)
  BY DEF World, J
<1>3. /\ d.state = "WaitingForConnection"
      /\ d.outgoing = <<>> /\ d.requests = {} /\ d.holders = {}
      /\ DOMAIN d.streams = {} /\ d.streams \in [DOMAIN d.streams -> Nat]
      /\ d.nextStreamId = c.nextStreamId /\ d.opening = c.opening
      /\ d.object = "live" /\ d.assertsHold = c.assertsHold
  BY DEF HostRestarts
<1>4. /\ SentSound(d.toDevice, e) /\ EndsWithConnect(d.toDevice)
      /\ \A D : Clean(c.toDevice, D) => Clean(d.toDevice, D)
  BY <1>1, ConnectAdded DEF HostRestarts
<1>5. HostSound(d, w, r)
  <2>1. Range(d.outgoing) = {} /\ OpensDiffer(d.outgoing) /\ d.outgoing \in Seq(Message)
    BY <1>3, RangeEmpty DEF OpensDiffer
  <2>2. HostTyped(d)
    BY <1>1, <1>3, <1>4, <2>1 DEF HostTyped, SentSound
  <2>3. QueueSound(d) /\ IdsSound(d) /\ LifeSound(d)
    BY <1>1, <1>3, <2>1 DEF QueueSound, IdsSound, LifeSound, HostTyped, Connected
  <2>4. NotesSound(d, w, r)
    BY <1>1, <1>3 DEF NotesSound
  <2> QED  BY <1>1, <2>2, <2>3, <2>4 DEF HostSound
<1>6. HostIds(d, e)
  BY <1>3, RangeEmpty DEF HostIds, Connected
<1>7. Stale(d, e)
  BY <1>2, <1>3, <1>4 DEF Stale
<1>8. First(n, d, e)
  <2>1. SUFFICES ASSUME n = 1
        PROVE  /\ d.toDevice = <<ConnectMessage>> /\ e.state = "Disconnected" /\ e.toHost = <<>>
               /\ d.opening = {}
    BY <1>3 DEF First, Connected
  <2>2. c.toDevice = <<>> /\ e.toHost = <<>> /\ e.state = "Disconnected"
    BY <1>2, <2>1 DEF First
  <2>3. c.opening = {}
    BY <1>1 DEF LifeSound
  <2> QED  BY <1>3, <2>2, <2>3
<1>9. /\ Life(d) /\ Hopes(d, e) /\ Doomed(d, e) /\ InStep(d, e, w, r) /\ Left(d, e)
  BY <1>3, <1>4 DEF Life, Hopes, Doomed, InStep, Left, Connected
<1> QED  BY <1>1, <1>2, <1>4, <1>5, <1>6, <1>7, <1>8, <1>9 DEF World, J

(* A Connection as it is constructed. *)
HostFresh(d) ==
    /\ d.state = "Disconnected" /\ d.object = "new" /\ d.assertsHold = TRUE
    /\ d.outgoing = <<>> /\ d.requests = {} /\ d.holders = {} /\ d.opening = {}
    /\ DOMAIN d.streams = {} /\ d.streams \in [DOMAIN d.streams -> Nat]
    /\ d.nextStreamId = 1

NotesFresh(w, r) ==
    w = [id \in StreamIds |-> 0] /\ r = [id \in StreamIds |-> <<>>]

(* The device's state but for its pipe. *)
SameDevice(e, f) ==
    /\ f.state = e.state /\ f.outgoing = e.outgoing /\ f.streams = e.streams
    /\ f.executors = e.executors /\ f.nextStreamId = e.nextStreamId
    /\ f.assertsHold = e.assertsHold

(* A new Connection is sound, whatever it finds. *)
LEMMA FreshIsSound ==
    ASSUME NEW d, NEW w, NEW r, HostFresh(d), NotesFresh(w, r), d.toDevice \in Seq(Message),
           MaxStreams \in Nat, MaxPackets \in Nat
    PROVE  HostSound(d, w, r)
<1>1. Range(d.outgoing) = {} /\ OpensDiffer(d.outgoing) /\ d.outgoing \in Seq(Message)
  BY RangeEmpty DEF OpensDiffer, HostFresh
<1>2. HostTyped(d)
  BY <1>1 DEF HostTyped, HostFresh
<1>3. QueueSound(d) /\ IdsSound(d) /\ LifeSound(d)
  BY <1>1 DEF QueueSound, IdsSound, LifeSound, Connected, HostFresh
<1>4. NotesTyped(w, r)
  BY DEF NotesFresh, NotesTyped
<1>5. NotesSound(d, w, r)
  <2>1. ASSUME NEW h \in StreamIds
        PROVE  w[h] = 0 /\ r[h] = <<>>
    BY DEF NotesFresh
  <2>2. <<>> = [k \in 1..Len(<<>>) |-> k] /\ Len(<<>>) <= 0
    OBVIOUS
  <2> QED  BY <2>1, <2>2 DEF NotesSound
<1> QED  BY <1>2, <1>3, <1>4, <1>5 DEF HostSound

(* A new Connection takes the place of another; the messages x of the old one's
   pipe went with it. *)
LEMMA Renew ==
    ASSUME NEW n, NEW c, NEW d, NEW e, NEW f, NEW w, NEW r, NEW v, NEW s, NEW l, NEW x,
           World(n, c, e, w, r), HostFresh(d), NotesFresh(v, s), d.toDevice = c.toDevice,
           SameDevice(e, f), JoinOf(x, f.toHost, e.toHost), JoinOf(x, Out(f), Out(e)),
           l # 1, MaxStreams \in Nat, MaxPackets \in Nat
    PROVE  World(l, d, f, v, s)
<1>1. DeviceSound(e) /\ SentSound(c.toDevice, e) /\ AnswersSound(e) /\ Stale(c, e)
  BY DEF World, J
<1>2. /\ f.state = e.state /\ f.outgoing = e.outgoing /\ f.streams = e.streams
      /\ f.executors = e.executors /\ f.nextStreamId = e.nextStreamId
      /\ f.assertsHold = e.assertsHold
  BY DEF SameDevice
<1>3. /\ f.toHost \in Seq(Message) /\ Range(f.toHost) \subseteq Range(e.toHost)
      /\ Range(Out(e)) = Range(x) \cup Range(Out(f))
      /\ Settled(Out(e)) => Settled(Out(f))
      /\ \A D : Passed(Out(e), D) => Passed(Out(f), D)
      /\ \A D : Passed(Out(e), D) /\ Unread(f) => \A m \in Range(x) : m.deviceStream \notin D
      /\ Unread(f) => Unread(e)
  BY DEF JoinOf, Unread
<1>4. DeviceSound(f) /\ SentSound(d.toDevice, f) /\ AnswersSound(f)
  BY <1>1, <1>2, <1>3 DEF DeviceSound, SentSound, AnswersSound, Owned, GoodConnects
<1>5. HostSound(d, v, s)
  BY <1>4, FreshIsSound DEF SentSound
<1>6. HostIds(d, f)
  BY RangeEmpty DEF HostIds, HostFresh, Connected
<1>7. Stale(d, f)
  <2>1. Passed(Out(f), DOMAIN f.streams) /\ Settled(Out(f))
    BY <1>1, <1>2, <1>3 DEF Stale
  <2>2. ASSUME Unread(f), NEW y \in DOMAIN f.streams
        PROVE  OkFor(f, y) \in Range(Out(f))
    <3>1. OkFor(e, y) \in Range(Out(e))
      BY <1>1, <1>2, <1>3, <2>2 DEF Stale
    <3>2. OkFor(e, y) = OkFor(f, y) /\ OkFor(e, y).deviceStream = y
      BY <1>2 DEF OkFor, QdbMessage
    <3>3. OkFor(e, y) \notin Range(x)
      BY <1>1, <1>2, <1>3, <2>2, <3>2 DEF Stale
    <3> QED  BY <1>3, <3>1, <3>2, <3>3
  <2> QED  BY <1>1, <1>2, <1>3, <2>1, <2>2 DEF Stale, HostFresh
<1>8. /\ Life(d) /\ Hopes(d, f) /\ Doomed(d, f) /\ InStep(d, f, v, s) /\ Left(d, f)
      /\ First(l, d, f)
  BY DEF Life, Hopes, Doomed, InStep, Left, First, Connected, HostFresh
<1> QED  BY <1>4, <1>5, <1>6, <1>7, <1>8 DEF World, J

(* A new Connection after the cable was out: its pipe is empty. *)
LEMMA RenewUnplugged ==
    ASSUME NEW d, NEW e, NEW f, NEW v, NEW s, NEW l,
           DeviceSound(e), SentSound(d.toDevice, e), SameDevice(e, f), f.toHost = <<>>,
           HostFresh(d), NotesFresh(v, s), l # 1, MaxStreams \in Nat, MaxPackets \in Nat
    PROVE  World(l, d, f, v, s)
<1>1. /\ f.state = e.state /\ f.outgoing = e.outgoing /\ f.streams = e.streams
      /\ f.executors = e.executors /\ f.nextStreamId = e.nextStreamId
      /\ f.assertsHold = e.assertsHold
  BY DEF SameDevice
<1>2. DeviceSound(f) /\ SentSound(d.toDevice, f) /\ AnswersSound(f)
  BY <1>1, RangeEmpty DEF DeviceSound, SentSound, AnswersSound, Owned, GoodConnects
<1>3. HostSound(d, v, s)
  BY <1>2, FreshIsSound DEF SentSound
<1>4. HostIds(d, f)
  BY RangeEmpty DEF HostIds, HostFresh, Connected
<1>5. ~Holds(Out(f), "Connect")
  <2>1. ~Holds(f.outgoing, "Connect") /\ ~Holds(f.toHost, "Connect")
    BY <1>2, ByRange, EmptyHolds DEF DeviceSound
  <2> QED  BY <1>2, <2>1, Joined DEF Out, JoinOf, DeviceSound
<1>6. Stale(d, f)
  BY <1>5 DEF Stale, Unread, Passed, Settled, Holds
<1>7. /\ Life(d) /\ Hopes(d, f) /\ Doomed(d, f) /\ InStep(d, f, v, s) /\ Left(d, f)
      /\ First(l, d, f)
  BY DEF Life, Hopes, Doomed, InStep, Left, First, Connected, HostFresh
<1> QED  BY <1>2, <1>3, <1>4, <1>6, <1>7 DEF World, J

(* The device takes a message of the host. *)
DeviceTakes(c, d, m) ==
    ShorterBy(c.toDevice, m, d.toDevice) /\ d.state = c.state /\ SameHost(c, d)

(* The host does not notice. *)
LEMMA HostUnaware ==
    ASSUME NEW c, NEW d, NEW m, NEW w, NEW r, HostSound(c, w, r), DeviceTakes(c, d, m)
    PROVE  HostSound(d, w, r)
<1>1. d.toDevice \in Seq(Message)
  BY DEF DeviceTakes, ShorterBy
<1> QED  BY <1>1 DEF HostSound, HostTyped, QueueSound, IdsSound, LifeSound, NotesSound,
                     Connected, DeviceTakes, SameHost, SameIds

(* The device forgets what it had. *)
DeviceResets(e, f) ==
    /\ f.state = "Connected" /\ f.outgoing = <<>>
    /\ DOMAIN f.streams = {} /\ f.streams \in [DOMAIN f.streams -> Nat]
    /\ DOMAIN f.executors = {}
    /\ f.nextStreamId = e.nextStreamId /\ f.assertsHold = e.assertsHold

(* ... which leaves it sound. *)
LEMMA ResetSound ==
    ASSUME NEW e, NEW f, NEW p, NEW q, NEW m, DeviceSound(e), SentSound(p, e),
           ShorterBy(p, m, q), DeviceResets(e, f), f.toHost \in Seq(Message)
    PROVE  DeviceSound(f) /\ SentSound(q, f)
<1>1. Range(q) \subseteq Range(p) /\ q \in Seq(Message)
  BY DEF ShorterBy
<1>2. \A x : Owned(x, e) => Owned(x, f)
  BY DEF Owned, DeviceResets
<1>3. DeviceSound(f)
  BY RangeEmpty DEF DeviceSound, DeviceResets
<1>4. SentSound(q, f)
  BY <1>1, <1>2 DEF SentSound, GoodConnects, DeviceResets
<1> QED  BY <1>3, <1>4

(* A Connect resets the device, which answers with its own. *)
LEMMA DeviceConnects ==
    ASSUME NEW n, NEW c, NEW d, NEW e, NEW f, NEW w, NEW r, NEW m,
           World(n, c, e, w, r), DeviceTakes(c, d, m), m = ConnectMessage,
           d.toDevice = Tail(c.toDevice), DeviceResets(e, f),
           f.toHost = Append(e.toHost, ConnectMessage)
    PROVE  World(n, d, f, w, r)
<1>1. HostSound(c, w, r) /\ DeviceSound(e) /\ SentSound(c.toDevice, e)
  BY DEF World
<1>2. /\ Life(c) /\ HostIds(c, e) /\ AnswersSound(e)
      /\ Stale(c, e) /\ Hopes(c, e) /\ Doomed(c, e) /\ First(n, c, e)
  BY DEF World, J
<1>3. /\ f.state = "Connected" /\ f.outgoing = <<>>
      /\ DOMAIN f.streams = {} /\ f.nextStreamId = e.nextStreamId
  BY DEF DeviceResets
<1>4. /\ d.state = c.state /\ d.outgoing = c.outgoing /\ d.streams = c.streams
      /\ d.holders = c.holders /\ d.object = c.object
      /\ d.requests = c.requests /\ d.opening = c.opening
  BY DEF DeviceTakes, SameHost, SameIds
<1>5. ConnectMessage \in Message /\ ConnectMessage.command = "Connect"
  BY DEF ConnectMessage, QdbMessage, Message, Commands, StreamId, qdbProtocolVersion
<1>6. e.toHost \in Seq(Message) /\ e.outgoing \in Seq(Message)
  BY <1>1 DEF DeviceSound
<1>7. LongerBy(e.toHost, ConnectMessage, f.toHost)
  BY <1>5, <1>6, Longer
<1>8. f.toHost \in Seq(Message) /\ Out(f) = f.toHost /\ EndsWithConnect(f.toHost)
  <2>1. f.toHost \in Seq(Message) /\ EndsWithConnect(f.toHost)
    BY <1>7 DEF LongerBy
  <2>2. Out(f) = f.toHost
    BY <1>3, <2>1 DEF Out
  <2> QED  BY <2>1, <2>2
<1>9. DeviceSound(f) /\ SentSound(d.toDevice, f)
  BY <1>1, <1>8, ResetSound DEF DeviceTakes
<1>10. /\ c.toDevice # <<>> /\ c.toDevice[1] = m /\ Holds(c.toDevice, "Connect")
       /\ EndsWithConnect(c.toDevice) => EndsWithConnect(d.toDevice) \/ d.toDevice = <<>>
  BY <1>5 DEF DeviceTakes, ShorterBy
<1>11. AnswersSound(f)
  <2>1. Range(f.toHost) = Range(e.toHost) \cup {ConnectMessage}
    BY <1>7 DEF LongerBy
  <2>2. \A x : Owned(x, e) => Owned(x, f)
    BY <1>3 DEF Owned
  <2>3. Owned(ConnectMessage, f)
    BY <1>1, <1>3 DEF Owned, DeviceSound, ConnectMessage, QdbMessage
  <2> QED  BY <1>2, <1>5, <2>1, <2>2, <2>3 DEF AnswersSound, GoodConnects
<1>12. HostSound(d, w, r) /\ Life(d)
  BY <1>1, <1>2, <1>4, HostUnaware DEF Life
<1>13. HostIds(d, f)
  <2>1. \A x : Owned(x, e) => Owned(x, f)
    BY <1>3 DEF Owned
  <2> QED  BY <1>2, <1>3, <1>4, <2>1 DEF HostIds, Connected
<1>14. JoinOf(e.toHost, e.outgoing, Out(e))
  BY <1>6, Joined DEF Out
<1>15. Unread(f) /\ Behind(d, f)
  BY <1>5, <1>7, <1>8 DEF Unread, LongerBy, Behind
<1>16. Stale(d, f)
  <2>1. Settled(f.toHost)
    BY <1>2, <1>5, <1>7, <1>14 DEF Stale, JoinOf, LongerBy
  <2> QED  BY <1>3, <1>8, <2>1 DEF Stale, Passed, Clean
<1>17. Hopes(d, f)
  BY <1>2, <1>3, <1>4, <1>8, <1>10 DEF Hopes
<1>18. Doomed(d, f)
  <2>1. SUFFICES ASSUME Connected(c) PROVE ~Holds(Out(f), "Write") /\ Clean(d.toDevice, {})
    BY <1>3, <1>4 DEF Doomed, Connected
  <2>2. ~Holds(Out(e), "Write")
    BY <1>2, <1>10, <2>1 DEF Doomed, Behind
  <2>3. ~Holds(f.toHost, "Write")
    BY <1>5, <1>7, <1>14, <2>2 DEF JoinOf, LongerBy
  <2> QED  BY <1>8, <2>3 DEF Clean
<1>19. InStep(d, f, w, r) /\ Left(d, f)
  BY <1>15 DEF InStep, Left
<1>20. First(n, d, f)
  <2>1. SUFFICES ASSUME n = 1
        PROVE  /\ c.object # "new" /\ ~Connected(c)
               /\ c.state = "WaitingForConnection" =>
                    d.toDevice = <<>> /\ f.toHost = <<ConnectMessage>>
               /\ c.object = "live" => c.opening \subseteq c.requests
    BY <1>4 DEF First, Connected
  <2>2. ASSUME c.state = "WaitingForConnection"
        PROVE  d.toDevice = <<>> /\ f.toHost = <<ConnectMessage>>
    <3>1. c.toDevice = <<ConnectMessage>> /\ e.toHost = <<>>
      BY <1>2, <1>10, <2>1, <2>2 DEF First
    <3> QED  BY <3>1
  <2> QED  BY <1>2, <1>10, <2>1, <2>2 DEF First, Behind
<1> QED  BY <1>9, <1>11, <1>12, <1>13, <1>16, <1>17, <1>18, <1>19, <1>20 DEF World, J

(* A Connect is never left on the device's queue. *)
LEMMA NoConnectQueued ==
    ASSUME NEW e, DeviceSound(e)
    PROVE  ~Holds(e.outgoing, "Connect")
<1>1. \A x \in Range(e.outgoing) : x.command # "Connect"
  BY DEF DeviceSound
<1> QED  BY <1>1, ByRange

(* The wait of the device ends, and its stream y is gone, if there is one,
   with what of the queue is not in R. *)
DeviceDrops(e, f, y, R) ==
    /\ f.state = "Connected"
    /\ DOMAIN f.streams = DOMAIN e.streams \ {y}
    /\ f.streams \in [DOMAIN f.streams -> Nat]
    /\ \A z \in DOMAIN f.streams : f.streams[z] = e.streams[z]
    /\ DOMAIN f.executors = DOMAIN e.executors \ {y}
    /\ \A z \in DOMAIN f.executors : f.executors[z] = e.executors[z]
    /\ KeptOf(e.outgoing, R, f.outgoing)
    /\ \A x \in Range(e.outgoing) : x.deviceStream # y => x \in R
    /\ y \in DOMAIN e.streams => \A x \in R : x.deviceStream # y
    /\ f.nextStreamId = e.nextStreamId /\ f.assertsHold = e.assertsHold

(* The device drops a stream, and what was queued for it. *)
LEMMA DeviceDropsSound ==
    ASSUME NEW e, NEW f, NEW p, NEW q, NEW m, NEW y, NEW R, DeviceSound(e), SentSound(p, e),
           ShorterBy(p, m, q), DeviceDrops(e, f, y, R), f.toHost \in Seq(Message)
    PROVE  DeviceSound(f) /\ SentSound(q, f)
<1>1. Range(q) \subseteq Range(p) /\ q \in Seq(Message)
  BY DEF ShorterBy
<1>2. \A x : Owned(x, e) => Owned(x, f)
  BY DEF Owned, DeviceDrops
<1>3. f.outgoing \in Seq(Message) /\ Range(f.outgoing) = Range(e.outgoing) \cap R
  BY DEF DeviceDrops, KeptOf
<1>4. DeviceSound(f)
  BY <1>2, <1>3 DEF DeviceSound, DeviceDrops
<1>5. SentSound(q, f)
  BY <1>1, <1>2 DEF SentSound, GoodConnects, DeviceDrops
<1> QED  BY <1>4, <1>5

(* The device takes a Close or an Ok. *)
LEMMA DeviceGoesFree ==
    ASSUME NEW n, NEW c, NEW d, NEW e, NEW f, NEW w, NEW r, NEW m, NEW y, NEW R,
           World(n, c, e, w, r), DeviceTakes(c, d, m), m.command \in {"Close", "Ok"},
           DeviceDrops(e, f, y, R), f.toHost = e.toHost,
           m.command = "Close" => y = m.deviceStream,
           m.command = "Ok" => y \notin DOMAIN e.streams
    PROVE  World(n, d, f, w, r)
<1>1. /\ HostSound(c, w, r) /\ DeviceSound(e) /\ SentSound(c.toDevice, e)
      /\ HostTyped(c) /\ IdsSound(c)
  BY DEF World, HostSound
<1>2. /\ Life(c) /\ HostIds(c, e) /\ AnswersSound(e) /\ InStep(c, e, w, r) /\ Left(c, e)
      /\ Stale(c, e) /\ Hopes(c, e) /\ Doomed(c, e) /\ First(n, c, e)
  BY DEF World, J
<1>3. /\ f.state = "Connected" /\ f.nextStreamId = e.nextStreamId
      /\ DOMAIN f.streams = DOMAIN e.streams \ {y}
      /\ \A z \in DOMAIN f.streams : f.streams[z] = e.streams[z]
      /\ DOMAIN f.executors = DOMAIN e.executors \ {y}
      /\ \A z \in DOMAIN f.executors : f.executors[z] = e.executors[z]
      /\ \A x \in Range(e.outgoing) : x.deviceStream # y => x \in R
  BY DEF DeviceDrops
<1>4. /\ d.state = c.state /\ d.outgoing = c.outgoing /\ d.streams = c.streams
      /\ d.holders = c.holders /\ d.object = c.object /\ d.nextStreamId = c.nextStreamId
      /\ d.requests = c.requests /\ d.opening = c.opening
  BY DEF DeviceTakes, SameHost, SameIds
<1>5. e.toHost \in Seq(Message) /\ e.outgoing \in Seq(Message)
  BY <1>1 DEF DeviceSound
<1>6. DeviceSound(f) /\ SentSound(d.toDevice, f)
  BY <1>1, <1>5, DeviceDropsSound DEF DeviceTakes
<1>7. f.outgoing \in Seq(Message)
  BY <1>6 DEF DeviceSound
<1>8. /\ JoinOf(e.toHost, e.outgoing, Out(e)) /\ JoinOf(e.toHost, f.outgoing, Out(f))
      /\ KeptOf(e.outgoing, R, f.outgoing)
  BY <1>5, <1>7, Joined DEF Out, DeviceDrops
<1>9. /\ c.toDevice # <<>> /\ m \in Range(c.toDevice) /\ m \in Message
      /\ Range(d.toDevice) \subseteq Range(c.toDevice)
      /\ \A x \in Range(c.toDevice) : x = m \/ x \in Range(d.toDevice)
      /\ \A command : Holds(c.toDevice, command) <=> Holds(d.toDevice, command) \/ m.command = command
      /\ EndsWithConnect(c.toDevice) => EndsWithConnect(d.toDevice)
      /\ \A D : Clean(c.toDevice, D) => Clean(d.toDevice, D)
      /\ \A z : Data(c.toDevice, z) = Data(d.toDevice, z)
      /\ \A z : Increasing(c.toDevice, z) => Increasing(d.toDevice, z)
      /\ Num(c.toDevice, Asked) = Num(d.toDevice, Asked) + 0
  BY DEF DeviceTakes, ShorterBy, IsWrite, Asked, ConnectMessage, QdbMessage
<1>10. /\ Range(f.outgoing) = Range(e.outgoing) \cap R
       /\ Range(Out(f)) \subseteq Range(Out(e))
       /\ \A x \in Range(Out(e)) : x.deviceStream # y => x \in Range(Out(f))
  <2>1. Range(f.outgoing) = Range(e.outgoing) \cap R
    BY <1>8 DEF KeptOf
  <2> QED  BY <1>3, <1>8, <2>1 DEF JoinOf
<1>11. \A x \in Range(Out(e)) : Owned(x, e)
  BY <1>1, <1>2, <1>8 DEF DeviceSound, AnswersSound, JoinOf
<1>12. \A command : Holds(Out(f), command) => Holds(Out(e), command)
  BY <1>10, ByRange
<1>13. Unread(f) <=> Unread(e)
  <2>1. ~Holds(e.outgoing, "Connect") /\ ~Holds(f.outgoing, "Connect")
    BY <1>1, <1>6, NoConnectQueued
  <2>2. Holds(Out(e), "Connect") <=> Holds(e.toHost, "Connect") \/ Holds(e.outgoing, "Connect")
    BY <1>8 DEF JoinOf
  <2>3. Holds(Out(f), "Connect") <=> Holds(e.toHost, "Connect") \/ Holds(f.outgoing, "Connect")
    BY <1>8 DEF JoinOf
  <2> QED  BY <2>1, <2>2, <2>3 DEF Unread
<1>14. Behind(d, f) <=> Behind(c, e)
  BY <1>9, <1>13 DEF Behind
<1>15. \A x : Owned(x, e) => Owned(x, f)
  BY <1>3 DEF Owned
<1>16. \A z \in DOMAIN f.streams : OkFor(f, z) = OkFor(e, z) /\ CloseFor(f, z) = CloseFor(e, z)
  BY <1>3 DEF OkFor, CloseFor
<1>17. \A z \in DOMAIN f.streams :
         /\ OkFor(e, z) \in Range(Out(e)) => OkFor(f, z) \in Range(Out(f))
         /\ CloseFor(e, z) \in Range(c.toDevice) => CloseFor(f, z) \in Range(d.toDevice)
  <2>1. ASSUME NEW z \in DOMAIN f.streams
        PROVE  OkFor(e, z) \in Range(Out(e)) => OkFor(f, z) \in Range(Out(f))
    BY <1>3, <1>10, <1>16 DEF OkFor, QdbMessage
  <2>2. ASSUME NEW z \in DOMAIN f.streams
        PROVE  CloseFor(e, z) # m
    BY <1>3 DEF CloseFor, QdbMessage
  <2> QED  BY <1>9, <1>16, <2>1, <2>2
<1>18. HostSound(d, w, r) /\ Life(d) /\ AnswersSound(f) /\ HostIds(d, f)
  <2>1. HostSound(d, w, r) /\ Life(d)
    BY <1>1, <1>2, <1>4, HostUnaware DEF Life
  <2>2. AnswersSound(f)
    BY <1>2, <1>15 DEF AnswersSound
  <2>3. HostIds(d, f)
    BY <1>2, <1>3, <1>4, <1>15 DEF HostIds, Connected
  <2> QED  BY <2>1, <2>2, <2>3
<1>19. Stale(d, f)
  <2>1. Settled(Out(f))
    <3>1. ~Holds(f.outgoing, "Connect")
      BY <1>6, NoConnectQueued
    <3>2. Settled(e.toHost) /\ (Holds(e.toHost, "Connect") => ~Holds(e.outgoing, "Write"))
      BY <1>2, <1>8 DEF Stale, JoinOf
    <3>3. Holds(f.outgoing, "Write") => Holds(e.outgoing, "Write")
      BY <1>10, ByRange
    <3> QED  BY <1>8, <3>1, <3>2, <3>3 DEF JoinOf
  <2>2. Passed(Out(f), DOMAIN f.streams)
    <3>1. ~Holds(f.outgoing, "Connect")
      BY <1>6, NoConnectQueued
    <3>2. Passed(e.toHost, DOMAIN e.streams)
      BY <1>2, <1>8 DEF Stale, JoinOf
    <3>3. Passed(e.toHost, DOMAIN f.streams)
      BY <1>3, <3>2 DEF Passed
    <3> QED  BY <1>8, <3>1, <3>3 DEF JoinOf
  <2>3. ASSUME Unread(f)
        PROVE  /\ Clean(d.toDevice, DOMAIN f.streams)
               /\ \A h \in DOMAIN d.streams : d.streams[h] \notin DOMAIN f.streams
               /\ \A z \in DOMAIN f.streams : OkFor(f, z) \in Range(Out(f))
    <3>1. Clean(d.toDevice, DOMAIN e.streams)
      BY <1>2, <1>9, <1>13, <2>3 DEF Stale
    <3>2. Clean(d.toDevice, DOMAIN f.streams)
      BY <1>3, <3>1 DEF Clean
    <3> QED  BY <1>2, <1>3, <1>4, <1>13, <1>17, <2>3, <3>2 DEF Stale
  <2> QED  BY <1>3, <2>1, <2>2, <2>3 DEF Stale
<1>20. Hopes(d, f)
  BY <1>2, <1>4, <1>9 DEF Hopes
<1>21. Doomed(d, f)
  <2>1. SUFFICES ASSUME Connected(c), Behind(c, e)
                 PROVE  ~Holds(Out(f), "Write") /\ Clean(d.toDevice, DOMAIN f.streams)
    BY <1>4, <1>14 DEF Doomed, Connected
  <2>2. ~Holds(Out(e), "Write") /\ Clean(d.toDevice, DOMAIN e.streams)
    BY <1>2, <1>9, <2>1 DEF Doomed
  <2> QED  BY <1>3, <1>12, <2>2 DEF Clean
<1>22. First(n, d, f)
  <2>1. SUFFICES ASSUME n = 1
        PROVE  /\ c.object # "new" /\ c.state # "WaitingForConnection"
               /\ Connected(c) => ~Behind(c, e)
               /\ c.object = "live" => c.opening \subseteq c.requests
    BY <1>4, <1>14 DEF First, Connected
  <2>2. ASSUME c.state = "WaitingForConnection" PROVE FALSE
    <3>1. c.toDevice = <<ConnectMessage>>
      BY <1>2, <1>9, <2>1, <2>2 DEF First
    <3> QED  BY <1>9, <3>1 DEF Range, ConnectMessage, QdbMessage
  <2> QED  BY <1>2, <1>9, <2>1, <2>2 DEF First
<1>23. Left(d, f)
  <2>1. SUFFICES ASSUME c.object = "destroyed", ~Behind(c, e)
        PROVE  /\ Outstanding(d, f) <= 1
               /\ \A z \in DOMAIN f.streams :
                     \/ CloseFor(f, z) \in Range(d.toDevice)
                     \/ /\ OkFor(f, z) \in Range(Out(f))
                        /\ Data(Out(f), z) = {} /\ Data(d.toDevice, z) = {}
    BY <1>3, <1>4, <1>14 DEF Left
  <2>2. Outstanding(d, f) <= 1
    <3>1. /\ Num(Out(f), Answers) = Num(e.toHost, Answers) + Num(f.outgoing, Answers)
          /\ Num(Out(e), Answers) = Num(e.toHost, Answers) + Num(e.outgoing, Answers)
          /\ Num(f.outgoing, Answers) <= Num(e.outgoing, Answers)
      BY <1>8 DEF JoinOf, KeptOf
    <3>2. /\ Num(e.toHost, Answers) \in Nat /\ Num(f.outgoing, Answers) \in Nat
          /\ Num(e.outgoing, Answers) \in Nat
          /\ Num(d.toDevice, Asked) \in Nat /\ Num(c.toDevice, Asked) \in Nat
      BY <1>1, <1>5, <1>6, <1>7, NumType DEF SentSound
    <3>3. Num(c.toDevice, Asked) + Num(Out(e), Answers) <= 1
      BY <1>2, <2>1 DEF Left, Outstanding
    <3>4. Num(c.toDevice, Asked) = Num(d.toDevice, Asked)
      BY <1>9, <3>2
    <3> QED  BY <3>1, <3>2, <3>3, <3>4 DEF Outstanding
  <2>3. \A z : Data(Out(f), z) \subseteq Data(Out(e), z)
    BY <1>10, ByRange
  <2> QED  BY <1>2, <1>3, <1>9, <1>17, <2>1, <2>2, <2>3 DEF Left
<1>24. InStep(d, f, w, r)
  <2>1. SUFFICES ASSUME Connected(c), ~Behind(c, e)
                 PROVE  Agree(d, f) /\ Chain(d, f, w, r)
    BY <1>4, <1>14 DEF InStep, Connected
  <2>2. Agree(c, e) /\ Chain(c, e, w, r)
    BY <1>2, <2>1 DEF InStep
  <2>3. ASSUME y \in DOMAIN e.streams
        PROVE  e.streams[y] \notin DOMAIN c.streams \cup c.requests
    <3>1. m.command = "Close" /\ m.deviceStream = y
      BY <2>3
    <3>2. e.streams[y] = m.hostStream
      BY <1>1, <1>9, <2>3, <3>1 DEF SentSound, Owned
    <3> QED  BY <1>9, <2>2, <3>1, <3>2 DEF Agree, SentAgrees
  <2>4. \A h \in DOMAIN c.streams : c.streams[h] # y
    BY <1>2, <2>2, <2>3 DEF Agree, StreamsAgree, HostIds
  <2>5. \A x \in Range(Out(e)) : x.command = "Ok" => x.deviceStream # y
    BY <1>11, <2>2, <2>3 DEF Agree, AnswersAgree, Owned
  <2>6. StreamsAgree(d, f)
    <3>1. \A h \in DOMAIN d.streams : d.streams[h] \in DOMAIN f.streams
      BY <1>3, <1>4, <2>2, <2>4 DEF Agree, StreamsAgree
    <3>2. ASSUME NEW z \in DOMAIN f.streams
          PROVE  \/ f.streams[z] \in DOMAIN d.streams /\ d.streams[f.streams[z]] = z
                 \/ CloseFor(f, z) \in Range(d.toDevice)
                 \/ f.streams[z] \in d.requests /\ OkFor(f, z) \in Range(Out(f))
      BY <1>3, <1>4, <1>17, <2>2 DEF Agree, StreamsAgree
    <3> QED  BY <1>3, <3>1, <3>2 DEF StreamsAgree
  <2>7. SentAgrees(d) /\ QueuedAgrees(d)
    BY <1>4, <1>9, <2>2 DEF Agree, SentAgrees, QueuedAgrees
  <2>8. AnswersAgree(d, f)
    BY <1>3, <1>4, <1>10, <2>2, <2>5 DEF Agree, AnswersAgree
  <2>9. OneAnswer(d, f)
    <3>1. \A x \in Range(e.outgoing) : x.command \in Answers => x \in R
      BY <1>3, <1>8, <2>5 DEF JoinOf, Answers
    <3>2. Num(f.outgoing, Answers) = Num(e.outgoing, Answers)
      BY <1>8, <3>1 DEF KeptOf
    <3>3. Num(Out(f), Answers) = Num(Out(e), Answers)
      BY <1>8, <3>2 DEF JoinOf
    <3>4. Num(c.toDevice, Asked) = Num(d.toDevice, Asked)
      BY <1>6, <1>9, NumType DEF SentSound
    <3> QED  BY <1>4, <2>2, <3>3, <3>4 DEF Agree, OneAnswer, Outstanding
  <2>10. DeviceGoesOn(d, f)
    BY <1>3 DEF DeviceGoesOn
  <2>11. ASSUME NEW h \in d.holders
         PROVE  LET z == d.streams[h] IN
                IF f.executors[z] = Device!NoExecutor THEN Data(Out(f), z) = {}
                ELSE ChainOf(Out(f), d.toDevice, d.outgoing, z, Len(r[h]), w[h])
    <3> DEFINE z == d.streams[h]
    <3>1. h \in c.holders /\ h \in DOMAIN c.streams /\ z = c.streams[h] /\ z # y
      BY <1>1, <1>4, <2>4 DEF HostTyped
    <3>2. z \in DOMAIN e.executors /\ f.executors[z] = e.executors[z]
      BY <1>1, <1>3, <2>2, <3>1 DEF Agree, StreamsAgree, DeviceSound
    <3> HIDE DEF z
    <3>3. Data(f.outgoing, z) = Data(e.outgoing, z)
      <4>1. {x \in Range(f.outgoing) : IsWrite(x, z)} = {x \in Range(e.outgoing) : IsWrite(x, z)}
        BY <1>3, <1>10, <3>1 DEF IsWrite
      <4>2. /\ Data(f.outgoing, z) = {x.data : x \in {u \in Range(f.outgoing) : IsWrite(u, z)}}
            /\ Data(e.outgoing, z) = {x.data : x \in {u \in Range(e.outgoing) : IsWrite(u, z)}}
        BY ByRange
      <4> QED  BY <4>1, <4>2
    <3>4. Data(Out(f), z) = Data(Out(e), z)
      BY <1>8, <3>3 DEF JoinOf
    <3>5. Increasing(Out(e), z) => Increasing(Out(f), z)
      <4>1. Increasing(e.outgoing, z) => Increasing(f.outgoing, z)
        BY <1>8 DEF KeptOf
      <4> QED  BY <1>8, <3>3, <4>1 DEF JoinOf, Before
    <3>6. \A k, x : ChainOf(Out(e), c.toDevice, c.outgoing, z, k, x) =>
                        ChainOf(Out(f), d.toDevice, d.outgoing, z, k, x)
      BY <1>4, <1>9, <3>4, <3>5 DEF ChainOf, Before
    <3> QED  BY <2>2, <3>1, <3>2, <3>4, <3>6 DEF Chain, z
  <2> QED  BY <2>6, <2>7, <2>8, <2>9, <2>10, <2>11 DEF Agree, Chain
<1> QED  BY <1>6, <1>18, <1>19, <1>20, <1>21, <1>22, <1>23, <1>24 DEF World, J

(* The messages S are added to those on their way or on the queue. *)
Replies(e, f, S) ==
    /\ e.state # "Disconnected" /\ f.state = e.state /\ f.assertsHold = e.assertsHold
    /\ f.toHost \in Seq(Message) /\ f.outgoing \in Seq(Message)
    /\ Range(f.toHost) \subseteq Range(e.toHost) \cup S
    /\ Range(f.outgoing) \subseteq Range(e.outgoing) \cup S

SameStreams(e, f) ==
    /\ f.streams = e.streams /\ f.executors = e.executors
    /\ f.nextStreamId = e.nextStreamId

Answerable(e, S) ==
    \A x \in S :
        /\ Owned(x, e) /\ x.command \in {"Write", "Close", "Ok"}
        /\ x.command = "Write" => x.deviceStream \in DOMAIN e.streams

(* The device replies to a message. *)
LEMMA ReplySound ==
    ASSUME NEW e, NEW f, NEW p, NEW q, NEW m, NEW S, DeviceSound(e), SentSound(p, e),
           ShorterBy(p, m, q), Replies(e, f, S), SameStreams(e, f), Answerable(e, S)
    PROVE  DeviceSound(f) /\ SentSound(q, f)
<1>1. Range(q) \subseteq Range(p) /\ q \in Seq(Message)
  BY DEF ShorterBy
<1>2. \A x : Owned(x, e) => Owned(x, f)
  BY DEF Owned, SameStreams
<1>3. DeviceSound(f)
  BY <1>2 DEF DeviceSound, Replies, SameStreams, Answerable
<1>4. SentSound(q, f)
  BY <1>1, <1>2 DEF SentSound, GoodConnects, Replies
<1> QED  BY <1>3, <1>4

(* The device opens stream y for the host's stream h. *)
DeviceOpens(e, f, y, h) ==
    /\ y = e.nextStreamId /\ f.nextStreamId = y + 1
    /\ DOMAIN f.streams = DOMAIN e.streams \cup {y}
    /\ f.streams \in [DOMAIN f.streams -> Nat] /\ f.streams[y] = h
    /\ \A z \in DOMAIN e.streams : f.streams[z] = e.streams[z]
    /\ DOMAIN f.executors = DOMAIN e.executors \cup {y}
    /\ \A z \in DOMAIN e.executors : f.executors[z] = e.executors[z]

(* The device opens a stream, which its Ok tells of. *)
LEMMA OpenSound ==
    ASSUME NEW e, NEW f, NEW p, NEW q, NEW m, NEW y, NEW h, NEW x,
           DeviceSound(e), SentSound(p, e), ShorterBy(p, m, q),
           Replies(e, f, {x}), DeviceOpens(e, f, y, h), x = QdbMessage("Ok", h, y, 0)
    PROVE  /\ DeviceSound(f) /\ SentSound(q, f) /\ Owned(x, f)
           /\ y \notin DOMAIN e.streams
           /\ \A z \in Message : Owned(z, e) => Owned(z, f) /\ z.deviceStream # y
<1>1. Range(q) \subseteq Range(p) /\ q \in Seq(Message)
  BY DEF ShorterBy
<1>2. y \in Nat /\ y >= 1 /\ y \notin DOMAIN e.streams /\ \A z \in DOMAIN e.streams : z < y
  BY DEF DeviceSound, DeviceOpens
<1>3. x.command = "Ok" /\ x.hostStream = h /\ x.deviceStream = y
  BY DEF QdbMessage
<1>4. Owned(x, f)
  BY <1>2, <1>3 DEF Owned, DeviceOpens
<1>5. ASSUME NEW z \in Message, Owned(z, e) PROVE Owned(z, f) /\ z.deviceStream # y
  <2>1. z.deviceStream < y
    BY <1>5 DEF Owned, DeviceOpens
  <2> z.deviceStream \in Nat
    BY DEF Message, StreamId
  <2>2. z.deviceStream # y
    BY <1>2, <2>1
  <2>3. z.deviceStream < y + 1
    BY <1>2, <2>1
  <2> QED  BY <1>5, <2>2, <2>3 DEF Owned, DeviceOpens
<1>6. DeviceSound(f)
  <2>1. \A u \in Range(f.outgoing) : u \in Range(e.outgoing) \/ u = x
    BY DEF Replies
  <2> Range(e.outgoing) \subseteq Message
    BY OnlyMessages DEF DeviceSound
  <2>2. \A u \in Range(f.outgoing) :
          /\ Owned(u, f) /\ u.command \in {"Write", "Close", "Ok"}
          /\ u.command = "Write" => u.deviceStream \in DOMAIN f.streams
    BY <1>3, <1>4, <1>5, <2>1 DEF DeviceSound, DeviceOpens
  <2>3. /\ f.nextStreamId \in Nat /\ f.nextStreamId >= 1
        /\ 0 \notin DOMAIN f.streams /\ DOMAIN f.streams \subseteq Nat
        /\ \A z \in DOMAIN f.streams : z < f.nextStreamId
    BY <1>2 DEF DeviceSound, DeviceOpens
  <2> QED  BY <2>2, <2>3 DEF DeviceSound, DeviceOpens, Replies
<1>7. SentSound(q, f)
  <2> Range(q) \subseteq Message
    BY <1>1, OnlyMessages
  <2> QED  BY <1>1, <1>5 DEF SentSound, GoodConnects, Replies
<1> QED  BY <1>2, <1>4, <1>5, <1>6, <1>7

(* The device answers an Open. *)
LEMMA DeviceTakesOpen ==
    ASSUME NEW n, NEW c, NEW d, NEW e, NEW f, NEW w, NEW r, NEW m, NEW y, NEW x,
           World(n, c, e, w, r), DeviceTakes(c, d, m), m.command = "Open",
           x = QdbMessage("Ok", m.hostStream, y, 0), DeviceOpens(e, f, y, m.hostStream),
           Replies(e, f, {x}), Range(e.toHost) \subseteq Range(f.toHost),
           LongerBy(Out(e), x, Out(f))
    PROVE  World(n, d, f, w, r)
<1>1. /\ HostSound(c, w, r) /\ DeviceSound(e) /\ SentSound(c.toDevice, e)
      /\ HostTyped(c) /\ IdsSound(c)
  BY DEF World, HostSound
<1>2. /\ Life(c) /\ HostIds(c, e) /\ AnswersSound(e) /\ InStep(c, e, w, r) /\ Left(c, e)
      /\ Stale(c, e) /\ Hopes(c, e) /\ Doomed(c, e) /\ First(n, c, e)
  BY DEF World, J
<1>3. /\ e.state # "Disconnected" /\ f.state = e.state
      /\ DOMAIN f.streams = DOMAIN e.streams \cup {y} /\ f.streams[y] = m.hostStream
      /\ \A z \in DOMAIN e.streams : f.streams[z] = e.streams[z]
      /\ DOMAIN f.executors = DOMAIN e.executors \cup {y}
      /\ \A z \in DOMAIN e.executors : f.executors[z] = e.executors[z]
      /\ Range(f.toHost) \subseteq Range(e.toHost) \cup {x}
      /\ y = e.nextStreamId /\ f.nextStreamId = y + 1
  BY DEF DeviceOpens, Replies
<1>4. /\ d.state = c.state /\ d.outgoing = c.outgoing /\ d.streams = c.streams
      /\ d.holders = c.holders /\ d.object = c.object /\ d.nextStreamId = c.nextStreamId
      /\ d.requests = c.requests /\ d.opening = c.opening
  BY DEF DeviceTakes, SameHost, SameIds
<1>5. x.command = "Ok" /\ x.hostStream = m.hostStream /\ x.deviceStream = y
  BY DEF QdbMessage
<1>6. /\ DeviceSound(f) /\ SentSound(d.toDevice, f) /\ Owned(x, f)
      /\ y \notin DOMAIN e.streams
      /\ \A z \in Message : Owned(z, e) => Owned(z, f) /\ z.deviceStream # y
  BY <1>1, OpenSound DEF DeviceTakes
<1>7. /\ Range(Out(f)) = Range(Out(e)) \cup {x}
      /\ \A command : Holds(Out(f), command) <=> Holds(Out(e), command) \/ command = "Ok"
      /\ \A z : Data(Out(f), z) = Data(Out(e), z)
      /\ Num(Out(f), Answers) = Num(Out(e), Answers) + 1
      /\ \A z : Increasing(Out(e), z) => Increasing(Out(f), z)
      /\ Settled(Out(e)) => Settled(Out(f))
      /\ \A D : Passed(Out(e), D) => Passed(Out(f), D)
  BY <1>5 DEF LongerBy, IsWrite, Answers
<1>8. /\ c.toDevice # <<>> /\ m \in Range(c.toDevice)
      /\ Range(d.toDevice) \subseteq Range(c.toDevice)
      /\ \A z \in Range(c.toDevice) : z = m \/ z \in Range(d.toDevice)
      /\ \A command : Holds(c.toDevice, command) <=> Holds(d.toDevice, command) \/ "Open" = command
      /\ EndsWithConnect(c.toDevice) => EndsWithConnect(d.toDevice)
      /\ \A D : Clean(c.toDevice, D) => Clean(d.toDevice, D)
      /\ \A z : Data(c.toDevice, z) = Data(d.toDevice, z)
      /\ \A z : Increasing(c.toDevice, z) => Increasing(d.toDevice, z)
      /\ Num(c.toDevice, Asked) = Num(d.toDevice, Asked) + 1
  BY DEF DeviceTakes, ShorterBy, IsWrite, Asked, ConnectMessage, QdbMessage
<1>9. e.toHost \in Seq(Message) /\ e.outgoing \in Seq(Message)
  BY <1>1 DEF DeviceSound
<1>10. \A z \in Range(Out(e)) : Owned(z, e)
  <2>1. JoinOf(e.toHost, e.outgoing, Out(e))
    BY <1>9, Joined DEF Out
  <2> QED  BY <1>1, <1>2, <2>1 DEF DeviceSound, AnswersSound, JoinOf
<1> /\ Range(Out(e)) \subseteq Message /\ Range(c.toDevice) \subseteq Message
    /\ Range(e.toHost) \subseteq Message /\ Range(c.outgoing) \subseteq Message
  <2>1. Out(e) \in Seq(Message) /\ c.toDevice \in Seq(Message) /\ c.outgoing \in Seq(Message)
    BY <1>1, <1>9, ConcatParts DEF Out, HostTyped
  <2> QED  BY <1>9, <2>1, OnlyMessages
<1>11. Unread(f) <=> Unread(e)
  BY <1>7 DEF Unread
<1>12. Behind(d, f) <=> Behind(c, e)
  BY <1>8, <1>11 DEF Behind
<1>13. \A z \in DOMAIN e.streams : OkFor(f, z) = OkFor(e, z) /\ CloseFor(f, z) = CloseFor(e, z)
  BY <1>3 DEF OkFor, CloseFor
<1>14. OkFor(f, y) = x
  BY <1>3 DEF OkFor
<1>15. \A z \in DOMAIN e.streams : CloseFor(e, z) \in Range(c.toDevice) =>
                                      CloseFor(f, z) \in Range(d.toDevice)
  <2>1. \A z \in DOMAIN e.streams : CloseFor(e, z) # m
    BY DEF CloseFor, QdbMessage
  <2> QED  BY <1>8, <1>13, <2>1
<1>16. HostSound(d, w, r) /\ Life(d) /\ AnswersSound(f) /\ HostIds(d, f)
  <2>1. HostSound(d, w, r) /\ Life(d)
    BY <1>1, <1>2, <1>4, HostUnaware DEF Life
  <2>2. AnswersSound(f)
    BY <1>2, <1>3, <1>5, <1>6 DEF AnswersSound, GoodConnects
  <2>3. ASSUME NEW h \in DOMAIN c.streams
        PROVE  /\ c.streams[h] < f.nextStreamId
               /\ c.streams[h] \in DOMAIN f.streams => f.streams[c.streams[h]] = h
    <3>1. c.streams[h] \in Nat /\ c.streams[h] < y /\ y \in Nat
      BY <1>1, <1>2, <1>3 DEF HostIds, HostTyped, DeviceSound
    <3> QED  BY <1>2, <1>3, <3>1 DEF HostIds
  <2>4. HostIds(d, f)
    BY <1>2, <1>3, <1>4, <1>6, <2>3 DEF HostIds, Connected
  <2> QED  BY <2>1, <2>2, <2>4
<1>17. Stale(d, f)
  <2>1. Passed(Out(f), DOMAIN f.streams)
    <3>1. ASSUME NEW i \in DOMAIN Out(e) PROVE Out(e)[i].deviceStream # y
      BY <1>6, <1>10 DEF Range
    <3>2. Passed(Out(e), DOMAIN f.streams)
      BY <1>2, <1>3, <3>1 DEF Stale, Passed
    <3> QED  BY <1>7, <3>2
  <2>2. ASSUME Unread(f)
        PROVE  /\ Clean(d.toDevice, DOMAIN f.streams)
               /\ \A h \in DOMAIN d.streams : d.streams[h] \notin DOMAIN f.streams
               /\ \A z \in DOMAIN f.streams : OkFor(f, z) \in Range(Out(f))
    <3>1. Clean(d.toDevice, DOMAIN e.streams)
      BY <1>2, <1>8, <1>11, <2>2 DEF Stale
    <3>2. ASSUME NEW i \in DOMAIN d.toDevice PROVE d.toDevice[i].deviceStream # y
      BY <1>1, <1>6, <1>8 DEF Range, SentSound
    <3>3. Clean(d.toDevice, DOMAIN f.streams)
      BY <1>3, <3>1, <3>2 DEF Clean
    <3>4. \A h \in DOMAIN c.streams : c.streams[h] # y
      BY <1>1, <1>2, <1>3 DEF HostIds, HostTyped, DeviceSound
    <3>5. \A z \in DOMAIN f.streams : OkFor(f, z) \in Range(Out(f))
      BY <1>2, <1>3, <1>7, <1>11, <1>13, <1>14, <2>2 DEF Stale
    <3> QED  BY <1>2, <1>3, <1>4, <1>11, <2>2, <3>3, <3>4, <3>5 DEF Stale
  <2> QED  BY <1>2, <1>3, <1>7, <1>11, <2>1, <2>2 DEF Stale
<1>18. Hopes(d, f)
  BY <1>2, <1>4, <1>8 DEF Hopes
<1>19. Doomed(d, f)
  <2>1. SUFFICES ASSUME Connected(c), Behind(c, e)
                 PROVE  ~Holds(Out(f), "Write") /\ Clean(d.toDevice, DOMAIN f.streams)
    BY <1>4, <1>12 DEF Doomed, Connected
  <2>2. ~Holds(Out(e), "Write") /\ Clean(d.toDevice, DOMAIN e.streams)
    BY <1>2, <1>8, <2>1 DEF Doomed
  <2>3. ASSUME NEW i \in DOMAIN d.toDevice PROVE d.toDevice[i].deviceStream # y
    BY <1>1, <1>6, <1>8 DEF Range, SentSound
  <2> QED  BY <1>3, <1>7, <2>2, <2>3 DEF Clean
<1>20. First(n, d, f)
  <2>1. SUFFICES ASSUME n = 1
        PROVE  /\ c.object # "new" /\ c.state # "WaitingForConnection"
               /\ Connected(c) => ~Behind(c, e)
               /\ c.object = "live" => c.opening \subseteq c.requests
    BY <1>4, <1>12 DEF First, Connected
  <2>2. ASSUME c.state = "WaitingForConnection" PROVE FALSE
    <3>1. c.toDevice = <<ConnectMessage>>
      BY <1>2, <1>8, <2>1, <2>2 DEF First
    <3> QED  BY <1>8, <3>1 DEF Range, ConnectMessage, QdbMessage
  <2> QED  BY <1>2, <1>8, <2>1, <2>2 DEF First
<1>21. Outstanding(d, f) = Outstanding(c, e)
  <2>1. Num(d.toDevice, Asked) \in Nat /\ Num(Out(e), Answers) \in Nat
    BY <1>6, <1>9, NumType, ConcatParts DEF SentSound, Out
  <2> QED  BY <1>7, <1>8, <2>1 DEF Outstanding
<1>22. Left(d, f)
  <2>1. SUFFICES ASSUME c.object = "destroyed", ~Behind(c, e)
        PROVE  /\ Outstanding(d, f) <= 1
               /\ \A z \in DOMAIN f.streams :
                     \/ CloseFor(f, z) \in Range(d.toDevice)
                     \/ /\ OkFor(f, z) \in Range(Out(f))
                        /\ Data(Out(f), z) = {} /\ Data(d.toDevice, z) = {}
               /\ f.state = "Waiting" => Holds(d.toDevice, "Ok") \/ Holds(d.toDevice, "Close")
    BY <1>4, <1>12 DEF Left
  <2>2. Data(Out(f), y) = {} /\ Data(d.toDevice, y) = {}
    <3>1. \A z \in Range(Out(f)) : ~IsWrite(z, y)
      BY <1>5, <1>6, <1>7, <1>10 DEF IsWrite
    <3>2. \A z \in Range(d.toDevice) : ~IsWrite(z, y)
      BY <1>1, <1>6, <1>8 DEF IsWrite, SentSound
    <3>3. Data(Out(f), y) = {}
      BY <3>1, ByRange
    <3>4. Data(d.toDevice, y) = {}
      BY <3>2, ByRange
    <3> QED  BY <3>3, <3>4
  <2>3. OkFor(f, y) \in Range(Out(f))
    BY <1>7, <1>14
  <2>4. ASSUME NEW z \in DOMAIN e.streams
        PROVE  \/ CloseFor(f, z) \in Range(d.toDevice)
               \/ /\ OkFor(f, z) \in Range(Out(f))
                  /\ Data(Out(f), z) = {} /\ Data(d.toDevice, z) = {}
    BY <1>2, <1>7, <1>8, <1>13, <1>15, <2>1 DEF Left
  <2>5. /\ Outstanding(d, f) <= 1
        /\ f.state = "Waiting" => Holds(d.toDevice, "Ok") \/ Holds(d.toDevice, "Close")
    BY <1>2, <1>3, <1>8, <1>21, <2>1 DEF Left
  <2> QED  BY <1>3, <2>2, <2>3, <2>4, <2>5
<1>23. InStep(d, f, w, r)
  <2>1. SUFFICES ASSUME Connected(c), ~Behind(c, e)
                 PROVE  Agree(d, f) /\ Chain(d, f, w, r)
    BY <1>4, <1>12 DEF InStep, Connected
  <2>2. Agree(c, e) /\ Chain(c, e, w, r)
    BY <1>2, <2>1 DEF InStep
  <2>3. m.hostStream \in c.requests /\ NoOpen(c.outgoing, m.hostStream)
    BY <1>8, <2>2 DEF Agree, SentAgrees
  <2>4. StreamsAgree(d, f)
    <3>1. /\ f.state \in {"Connected", "Waiting"}
          /\ \A h \in DOMAIN d.streams : d.streams[h] \in DOMAIN f.streams
      BY <1>3, <1>4, <2>2 DEF Agree, StreamsAgree
    <3>2. ASSUME NEW z \in DOMAIN e.streams
          PROVE  \/ f.streams[z] \in DOMAIN d.streams /\ d.streams[f.streams[z]] = z
                 \/ CloseFor(f, z) \in Range(d.toDevice)
                 \/ f.streams[z] \in d.requests /\ OkFor(f, z) \in Range(Out(f))
      BY <1>3, <1>4, <1>7, <1>13, <1>15, <2>2 DEF Agree, StreamsAgree
    <3>3. f.streams[y] \in d.requests /\ OkFor(f, y) \in Range(Out(f))
      BY <1>3, <1>4, <1>7, <1>14, <2>3
    <3> QED  BY <1>3, <3>1, <3>2, <3>3 DEF StreamsAgree
  <2>5. SentAgrees(d) /\ QueuedAgrees(d)
    BY <1>4, <1>8, <2>2 DEF Agree, SentAgrees, QueuedAgrees
  <2>6. AnswersAgree(d, f)
    BY <1>3, <1>4, <1>5, <1>7, <2>2, <2>3 DEF Agree, AnswersAgree
  <2>7. OneAnswer(d, f)
    BY <1>4, <1>21, <2>2 DEF Agree, OneAnswer
  <2>8. DeviceGoesOn(d, f)
    BY <1>3, <1>4, <1>8, <2>2 DEF Agree, DeviceGoesOn
  <2>9. ASSUME NEW h \in d.holders
        PROVE  LET z == d.streams[h] IN
               IF f.executors[z] = Device!NoExecutor THEN Data(Out(f), z) = {}
               ELSE ChainOf(Out(f), d.toDevice, d.outgoing, z, Len(r[h]), w[h])
    <3> DEFINE z == d.streams[h]
    <3>1. h \in c.holders /\ h \in DOMAIN c.streams /\ z = c.streams[h]
      BY <1>1, <1>4 DEF HostTyped
    <3>2. z \in DOMAIN e.executors /\ f.executors[z] = e.executors[z]
      BY <1>1, <1>3, <2>2, <3>1 DEF Agree, StreamsAgree, DeviceSound
    <3> HIDE DEF z
    <3>3. \A k, l : ChainOf(Out(e), c.toDevice, c.outgoing, z, k, l) =>
                        ChainOf(Out(f), d.toDevice, d.outgoing, z, k, l)
      BY <1>4, <1>7, <1>8 DEF ChainOf, Before
    <3> QED  BY <1>7, <2>2, <3>1, <3>2, <3>3 DEF Chain, z
  <2> QED  BY <2>4, <2>5, <2>6, <2>7, <2>8, <2>9 DEF Agree, Chain
<1> QED  BY <1>6, <1>16, <1>17, <1>18, <1>19, <1>20, <1>22, <1>23 DEF World, J

(* a is o with the replies S added, k of them an Ok. *)
Adds(o, S, k, a) ==
    /\ Range(a) = Range(o) \cup S
    /\ \A command : Holds(a, command) <=> Holds(o, command) \/ \E x \in S : x.command = command
    /\ Num(a, Answers) = Num(o, Answers) + k
    /\ Settled(o) /\ (~Holds(o, "Connect") \/ \A x \in S : x.command # "Write") => Settled(a)
    /\ \A D : Passed(o, D) => Passed(a, D)
    /\ \A z : (\A x \in S : ~IsWrite(x, z)) =>
                  Data(a, z) = Data(o, z) /\ (Increasing(o, z) => Increasing(a, z))

(* One reply is added. *)
LEMMA AddsOne ==
    ASSUME NEW o, NEW x, NEW a, NEW k, LongerBy(o, x, a),
           x.command \in {"Ok", "Close"}, k = IF x.command = "Ok" THEN 1 ELSE 0
    PROVE  Adds(o, {x}, k, a)
<1>1. /\ Range(a) = Range(o) \cup {x}
      /\ \A command : Holds(a, command) <=> Holds(o, command) \/ x.command = command
      /\ Settled(o) => Settled(a)
      /\ \A D : Passed(o, D) => Passed(a, D)
      /\ Num(a, Answers) = Num(o, Answers) + (IF x.command \in Answers THEN 1 ELSE 0)
  BY DEF LongerBy
<1>2. Num(a, Answers) = Num(o, Answers) + k
  BY <1>1 DEF Answers
<1>3. \A z : Data(a, z) = Data(o, z) /\ (Increasing(o, z) => Increasing(a, z))
  BY DEF LongerBy, IsWrite
<1> QED  BY <1>1, <1>2, <1>3 DEF Adds

(* An Ok is added, and the answer to a packet. *)
LEMMA AddsTwo ==
    ASSUME NEW o, NEW x, NEW b, NEW y, NEW a, LongerBy(o, x, b), LongerBy(b, y, a),
           x.command = "Ok", y.command = "Write", Num(o, Answers) \in Nat
    PROVE  Adds(o, {x, y}, 1, a)
<1>1. /\ Range(b) = Range(o) \cup {x}
      /\ \A command : Holds(b, command) <=> Holds(o, command) \/ x.command = command
      /\ Settled(o) => Settled(b)
      /\ \A D : Passed(o, D) => Passed(b, D)
      /\ Num(b, Answers) = Num(o, Answers) + 1
      /\ \A z : Data(b, z) = Data(o, z) /\ (Increasing(o, z) => Increasing(b, z))
  BY DEF LongerBy, IsWrite, Answers
<1>2. /\ Range(a) = Range(b) \cup {y}
      /\ \A command : Holds(a, command) <=> Holds(b, command) \/ y.command = command
      /\ Settled(b) /\ ~Holds(b, "Connect") => Settled(a)
      /\ \A D : Passed(b, D) => Passed(a, D)
      /\ Num(a, Answers) = Num(b, Answers) + 0
  BY DEF LongerBy, Answers
<1>3. \A z : ~IsWrite(y, z) => Data(a, z) = Data(b, z) /\ (Increasing(b, z) => Increasing(a, z))
  BY DEF LongerBy
<1>4. Settled(o) /\ ~Holds(o, "Connect") => Settled(a)
  BY <1>1, <1>2
<1> QED  BY <1>1, <1>2, <1>3, <1>4 DEF Adds

(* A packet that the device answers moves on in its chain. *)
LEMMA ChainEchoes ==
    ASSUME NEW o, NEW x, NEW b, NEW m, NEW a, NEW p, NEW t, NEW q, NEW y, NEW k, NEW n,
           LongerBy(o, x, b), LongerBy(b, m, a), x.command = "Ok",
           ShorterBy(p, m, t), ChainOf(o, p, q, y, k, n)
    PROVE  ChainOf(a, t, q, y, k, n)
<1>1. /\ Increasing(o, y) /\ Increasing(p, y) /\ Increasing(q, y)
      /\ Before(o, p, y) /\ Before(o, q, y) /\ Before(p, q, y)
      /\ Data(o, y) \cup Data(p, y) \cup Data(q, y) = k + 1..n
  BY DEF ChainOf
<1>2. Data(b, y) = Data(o, y) /\ Increasing(b, y)
  BY <1>1 DEF LongerBy, IsWrite
<1>3. /\ Data(p, y) = Data(t, y) \cup (IF IsWrite(m, y) THEN {m.data} ELSE {})
      /\ Increasing(t, y)
      /\ IsWrite(m, y) => \A z \in Data(t, y) : m.data < z
  BY <1>1 DEF ShorterBy
<1>4. /\ Data(a, y) = Data(b, y) \cup (IF IsWrite(m, y) THEN {m.data} ELSE {})
      /\ Increasing(b, y) /\ (IsWrite(m, y) => \A z \in Data(b, y) : z < m.data) =>
            Increasing(a, y)
  BY DEF LongerBy
<1>5. Increasing(a, y)
  BY <1>1, <1>2, <1>3, <1>4 DEF Before
<1>6. Before(a, t, y) /\ Before(a, q, y) /\ Before(t, q, y)
  BY <1>1, <1>2, <1>3, <1>4 DEF Before
<1>7. Data(a, y) \cup Data(t, y) \cup Data(q, y) = k + 1..n
  BY <1>1, <1>2, <1>3, <1>4
<1> QED  BY <1>1, <1>3, <1>5, <1>6, <1>7 DEF ChainOf

(* The device takes a Write and adds its replies S. *)
DeviceReplies(c, d, e, f, m, S, k) ==
    /\ DeviceTakes(c, d, m) /\ m.command = "Write"
    /\ Replies(e, f, S) /\ SameStreams(e, f) /\ Answerable(e, S)
    /\ \A x \in S : x.command = "Write" =>
          x.deviceStream = m.deviceStream /\ m.deviceStream \in DOMAIN e.streams
    /\ Range(e.toHost) \subseteq Range(f.toHost)
    /\ k \in {0, 1} /\ Adds(Out(e), S, k, Out(f))

(* Whatever it replies, only the agreement of the two ends is left to show. *)
LEMMA RepliesKeep ==
    ASSUME NEW n, NEW c, NEW d, NEW e, NEW f, NEW w, NEW r, NEW m, NEW S, NEW k,
           World(n, c, e, w, r), DeviceReplies(c, d, e, f, m, S, k),
           InStep(d, f, w, r)
    PROVE  World(n, d, f, w, r)
<1>1. /\ HostSound(c, w, r) /\ DeviceSound(e) /\ SentSound(c.toDevice, e)
  BY DEF World
<1>2. /\ Life(c) /\ HostIds(c, e) /\ AnswersSound(e) /\ Left(c, e)
      /\ Stale(c, e) /\ Hopes(c, e) /\ Doomed(c, e) /\ First(n, c, e)
  BY DEF World, J
<1>3. /\ e.state # "Disconnected" /\ f.state = e.state
      /\ f.streams = e.streams /\ f.nextStreamId = e.nextStreamId
      /\ Range(f.toHost) \subseteq Range(e.toHost) \cup S
  BY DEF DeviceReplies, Replies, SameStreams
<1>4. /\ d.state = c.state /\ d.outgoing = c.outgoing /\ d.streams = c.streams
      /\ d.holders = c.holders /\ d.object = c.object /\ d.nextStreamId = c.nextStreamId
      /\ d.requests = c.requests /\ d.opening = c.opening
  BY DEF DeviceReplies, DeviceTakes, SameHost, SameIds
<1>5. /\ DeviceSound(f) /\ SentSound(d.toDevice, f)
  <2>1. /\ ShorterBy(c.toDevice, m, d.toDevice) /\ Replies(e, f, S) /\ SameStreams(e, f)
        /\ Answerable(e, S)
    BY DEF DeviceReplies, DeviceTakes
  <2> QED  BY <1>1, <2>1, ReplySound
<1>6. \A x : Owned(x, e) <=> Owned(x, f)
  BY <1>3 DEF Owned
<1>7. \A x \in S :
        /\ Owned(x, e) /\ x.command \in {"Write", "Close", "Ok"}
        /\ x.command = "Write" =>
             x.deviceStream = m.deviceStream /\ m.deviceStream \in DOMAIN e.streams
  BY DEF DeviceReplies, Answerable
<1>8. /\ Range(Out(f)) = Range(Out(e)) \cup S
      /\ \A command : Holds(Out(f), command) <=>
                          Holds(Out(e), command) \/ \E x \in S : x.command = command
      /\ Num(Out(f), Answers) = Num(Out(e), Answers) + k /\ k \in {0, 1}
      /\ Settled(Out(e)) /\ (~Holds(Out(e), "Connect") \/ \A x \in S : x.command # "Write") =>
            Settled(Out(f))
      /\ \A D : Passed(Out(e), D) => Passed(Out(f), D)
      /\ \A z : (\A x \in S : ~IsWrite(x, z)) => Data(Out(f), z) = Data(Out(e), z)
  BY DEF DeviceReplies, Adds
<1>9. /\ c.toDevice # <<>> /\ m \in Range(c.toDevice) /\ m.command = "Write"
      /\ Range(d.toDevice) \subseteq Range(c.toDevice)
      /\ \A z \in Range(c.toDevice) : z = m \/ z \in Range(d.toDevice)
      /\ \A command : Holds(c.toDevice, command) <=> Holds(d.toDevice, command) \/ "Write" = command
      /\ EndsWithConnect(c.toDevice) => EndsWithConnect(d.toDevice)
      /\ \A D : Clean(c.toDevice, D) => Clean(d.toDevice, D) /\ m.deviceStream \notin D
      /\ \A z : Data(c.toDevice, z) = {} => Data(d.toDevice, z) = {} /\ ~IsWrite(m, z)
      /\ Num(c.toDevice, Asked) = Num(d.toDevice, Asked) + 1
  <2>1. ShorterBy(c.toDevice, m, d.toDevice) /\ m.command = "Write"
    BY DEF DeviceReplies, DeviceTakes
  <2>2. \A z : Data(c.toDevice, z) = {} => Data(d.toDevice, z) = {} /\ ~IsWrite(m, z)
    BY <2>1 DEF ShorterBy
  <2>3. Num(c.toDevice, Asked) = Num(d.toDevice, Asked) + 1
    BY <2>1 DEF ShorterBy, Asked
  <2>4. EndsWithConnect(c.toDevice) => EndsWithConnect(d.toDevice)
    BY <2>1 DEF ShorterBy, ConnectMessage, QdbMessage
  <2> QED  BY <2>1, <2>2, <2>3, <2>4 DEF ShorterBy
<1>10. Unread(f) <=> Unread(e)
  BY <1>7, <1>8 DEF Unread
<1>11. Behind(d, f) <=> Behind(c, e)
  BY <1>9, <1>10 DEF Behind
<1>12. \A z : OkFor(f, z) = OkFor(e, z) /\ CloseFor(f, z) = CloseFor(e, z)
  BY <1>3 DEF OkFor, CloseFor
<1>13. \A z : CloseFor(e, z) \in Range(c.toDevice) => CloseFor(f, z) \in Range(d.toDevice)
  <2>1. \A z : CloseFor(e, z) # m
    BY <1>9 DEF CloseFor, QdbMessage
  <2> QED  BY <1>9, <1>12, <2>1
<1>14. HostSound(d, w, r) /\ Life(d) /\ AnswersSound(f) /\ HostIds(d, f)
  <2>1. HostSound(d, w, r) /\ Life(d)
    BY <1>1, <1>2, <1>4, HostUnaware DEF Life, DeviceReplies
  <2>2. AnswersSound(f)
    BY <1>2, <1>3, <1>6, <1>7 DEF AnswersSound, GoodConnects
  <2>3. HostIds(d, f)
    BY <1>2, <1>3, <1>4, <1>6 DEF HostIds, Connected
  <2> QED  BY <2>1, <2>2, <2>3
<1>15. Stale(d, f)
  <2>1. Settled(Out(f))
    <3>1. Holds(Out(e), "Connect") => \A x \in S : x.command # "Write"
      BY <1>2, <1>7, <1>9 DEF Stale, Unread
    <3> QED  BY <1>2, <1>8, <3>1 DEF Stale
  <2> QED  BY <1>2, <1>3, <1>4, <1>8, <1>9, <1>10, <1>12, <2>1 DEF Stale
<1>16. Hopes(d, f)
  BY <1>2, <1>4, <1>9 DEF Hopes
<1>17. Doomed(d, f)
  <2>1. SUFFICES ASSUME Connected(c), Behind(c, e)
                 PROVE  ~Holds(Out(f), "Write") /\ Clean(d.toDevice, DOMAIN f.streams)
    BY <1>4, <1>11 DEF Doomed, Connected
  <2>2. ~Holds(Out(e), "Write") /\ Clean(c.toDevice, DOMAIN e.streams)
    BY <1>2, <2>1 DEF Doomed
  <2> QED  BY <1>3, <1>7, <1>8, <1>9, <2>2
<1>18. First(n, d, f)
  <2>1. SUFFICES ASSUME n = 1
        PROVE  /\ c.object # "new" /\ c.state # "WaitingForConnection"
               /\ Connected(c) => ~Behind(c, e)
               /\ c.object = "live" => c.opening \subseteq c.requests
    BY <1>4, <1>11 DEF First, Connected
  <2>2. ASSUME c.state = "WaitingForConnection" PROVE FALSE
    <3>1. c.toDevice = <<ConnectMessage>>
      BY <1>2, <1>9, <2>1, <2>2 DEF First
    <3> QED  BY <1>9, <3>1 DEF Range, ConnectMessage, QdbMessage
  <2> QED  BY <1>2, <1>9, <2>1, <2>2 DEF First
<1>19. Left(d, f)
  <2>1. SUFFICES ASSUME c.object = "destroyed", ~Behind(c, e)
        PROVE  /\ Outstanding(d, f) <= 1
               /\ \A z \in DOMAIN e.streams :
                     \/ CloseFor(f, z) \in Range(d.toDevice)
                     \/ /\ OkFor(f, z) \in Range(Out(f))
                        /\ Data(Out(f), z) = {} /\ Data(d.toDevice, z) = {}
               /\ f.state = "Waiting" => Holds(d.toDevice, "Ok") \/ Holds(d.toDevice, "Close")
    BY <1>3, <1>4, <1>11 DEF Left
  <2>2. Outstanding(d, f) <= 1
    <3>1. Num(d.toDevice, Asked) \in Nat /\ Num(Out(e), Answers) \in Nat
      <4>1. Out(e) \in Seq(Message)
        BY <1>1, ConcatParts DEF Out, DeviceSound
      <4> QED  BY <1>5, <4>1, NumType DEF SentSound
    <3>2. Num(c.toDevice, Asked) + Num(Out(e), Answers) <= 1
      BY <1>2, <2>1 DEF Left, Outstanding
    <3> QED  BY <1>8, <1>9, <3>1, <3>2 DEF Outstanding
  <2>3. ASSUME NEW z \in DOMAIN e.streams
        PROVE  \/ CloseFor(f, z) \in Range(d.toDevice)
               \/ /\ OkFor(f, z) \in Range(Out(f))
                  /\ Data(Out(f), z) = {} /\ Data(d.toDevice, z) = {}
    <3>1. CASE CloseFor(e, z) \in Range(c.toDevice)
      BY <1>13, <3>1
    <3>2. CASE OkFor(e, z) \in Range(Out(e)) /\ Data(Out(e), z) = {} /\ Data(c.toDevice, z) = {}
      <4>1. z # m.deviceStream
        BY <1>9, <3>2 DEF IsWrite
      <4>2. \A x \in S : ~IsWrite(x, z)
        BY <1>7, <4>1 DEF IsWrite
      <4> QED  BY <1>8, <1>9, <1>12, <3>2, <4>2
    <3> QED  BY <1>2, <2>1, <3>1, <3>2 DEF Left
  <2> QED  BY <1>2, <1>3, <1>9, <2>1, <2>2, <2>3 DEF Left
<1> QED  BY <1>5, <1>14, <1>15, <1>16, <1>17, <1>18, <1>19 DEF World, J

(* A Write of a stream that the device does not know is refused with a Close. *)
LEMMA DeviceTakesStray ==
    ASSUME NEW n, NEW c, NEW d, NEW e, NEW f, NEW w, NEW r, NEW m, NEW S, NEW k,
           World(n, c, e, w, r), DeviceReplies(c, d, e, f, m, S, k),
           m.deviceStream \notin DOMAIN e.streams
    PROVE  World(n, d, f, w, r)
<1>1. /\ m \in Range(c.toDevice) /\ m.command = "Write"
      /\ \A command : Holds(c.toDevice, command) <=> Holds(d.toDevice, command) \/ "Write" = command
  BY DEF DeviceReplies, DeviceTakes, ShorterBy
<1>2. Behind(d, f) <=> Behind(c, e)
  <2>1. Unread(f) <=> Unread(e)
    BY DEF DeviceReplies, Adds, Answerable, Unread
  <2> QED  BY <1>1, <2>1 DEF Behind
<1>3. d.state = c.state
  BY DEF DeviceReplies, DeviceTakes
<1>4. InStep(c, e, w, r)
  BY DEF World, J
<1>5. InStep(d, f, w, r)
  <2>1. SUFFICES ASSUME Connected(c), ~Behind(c, e) PROVE FALSE
    BY <1>2, <1>3 DEF InStep, Connected
  <2>2. StreamsAgree(c, e) /\ SentAgrees(c)
    BY <1>4, <2>1 DEF InStep, Agree
  <2> QED  BY <1>1, <2>2 DEF StreamsAgree, SentAgrees
<1> QED  BY <1>5, RepliesKeep

(* A Write is acknowledged, and answered if the stream has an executor. *)
LEMMA DeviceTakesWrite ==
    ASSUME NEW n, NEW c, NEW d, NEW e, NEW f, NEW w, NEW r, NEW m, NEW S, NEW x, NEW o,
           World(n, c, e, w, r), DeviceReplies(c, d, e, f, m, S, 1),
           m.deviceStream \in DOMAIN e.streams,
           x = QdbMessage("Ok", m.hostStream, m.deviceStream, 0),
           IF e.executors[m.deviceStream] = Device!NoExecutor THEN S = {x}
           ELSE S = {x, m} /\ LongerBy(Out(e), x, o) /\ LongerBy(o, m, Out(f))
    PROVE  World(n, d, f, w, r)
<1> DEFINE y == m.deviceStream
<1>1. /\ HostSound(c, w, r) /\ DeviceSound(e) /\ SentSound(c.toDevice, e)
      /\ HostTyped(c) /\ IdsSound(c)
  BY DEF World, HostSound
<1>2. HostIds(c, e) /\ AnswersSound(e) /\ InStep(c, e, w, r)
  BY DEF World, J
<1>3. /\ f.state = e.state /\ f.streams = e.streams /\ f.executors = e.executors
      /\ Range(e.toHost) \subseteq Range(f.toHost)
  BY DEF DeviceReplies, Replies, SameStreams
<1>4. /\ d.state = c.state /\ d.outgoing = c.outgoing /\ d.streams = c.streams
      /\ d.holders = c.holders /\ d.nextStreamId = c.nextStreamId
      /\ d.requests = c.requests
  BY DEF DeviceReplies, DeviceTakes, SameHost, SameIds
<1>5. x.command = "Ok" /\ x.hostStream = m.hostStream /\ x.deviceStream = y
  BY DEF QdbMessage
<1>6. ShorterBy(c.toDevice, m, d.toDevice) /\ m.command = "Write"
  BY DEF DeviceReplies, DeviceTakes
<1>7. /\ Range(Out(f)) = Range(Out(e)) \cup S
      /\ Num(Out(f), Answers) = Num(Out(e), Answers) + 1
      /\ \A z : (\A u \in S : ~IsWrite(u, z)) =>
                    Data(Out(f), z) = Data(Out(e), z) /\ (Increasing(Out(e), z) => Increasing(Out(f), z))
  BY DEF DeviceReplies, Adds
<1>8. /\ m \in Range(c.toDevice)
      /\ Range(d.toDevice) \subseteq Range(c.toDevice)
      /\ \A z \in Range(c.toDevice) : z = m \/ z \in Range(d.toDevice)
      /\ \A command : Holds(c.toDevice, command) <=> Holds(d.toDevice, command) \/ "Write" = command
      /\ Num(c.toDevice, Asked) = Num(d.toDevice, Asked) + 1
  BY <1>6 DEF ShorterBy, Asked
<1>9. Behind(d, f) <=> Behind(c, e)
  <2>1. Unread(f) <=> Unread(e)
    BY DEF DeviceReplies, Adds, Answerable, Unread
  <2> QED  BY <1>8, <2>1 DEF Behind
<1>10. S \subseteq {x, m}
  OBVIOUS
<1>11. \A z : OkFor(f, z) = OkFor(e, z) /\ CloseFor(f, z) = CloseFor(e, z)
  BY <1>3 DEF OkFor, CloseFor
<1>12. \A z : CloseFor(e, z) \in Range(c.toDevice) => CloseFor(f, z) \in Range(d.toDevice)
  <2>1. \A z : CloseFor(e, z) # m
    BY <1>6 DEF CloseFor, QdbMessage
  <2> QED  BY <1>8, <1>11, <2>1
<1>13. InStep(d, f, w, r)
  <2>1. SUFFICES ASSUME Connected(c), ~Behind(c, e)
                 PROVE  Agree(d, f) /\ Chain(d, f, w, r)
    BY <1>4, <1>9 DEF InStep, Connected
  <2>2. Agree(c, e) /\ Chain(c, e, w, r)
    BY <1>2, <2>1 DEF InStep
  <2>3. m.hostStream \in DOMAIN c.streams /\ c.streams[m.hostStream] = y
    BY <1>6, <1>8, <2>2 DEF Agree, SentAgrees
  <2>4. m.hostStream \notin c.requests /\ m.hostStream < c.nextStreamId
    <3>1. m.hostStream \in 1..c.nextStreamId - 1 /\ c.nextStreamId \in Nat
      BY <1>1, <2>3 DEF IdsSound, HostTyped
    <3> QED  BY <1>1, <2>3, <3>1 DEF IdsSound
  <2>5. NoOpen(c.outgoing, m.hostStream)
    BY <2>2, <2>4 DEF Agree, QueuedAgrees, NoOpen
  <2>6. StreamsAgree(d, f)
    BY <1>3, <1>4, <1>7, <1>11, <1>12, <2>2 DEF Agree, StreamsAgree
  <2>7. SentAgrees(d) /\ QueuedAgrees(d)
    BY <1>4, <1>8, <2>2 DEF Agree, SentAgrees, QueuedAgrees
  <2>8. AnswersAgree(d, f)
    BY <1>3, <1>4, <1>5, <1>6, <1>7, <1>10, <2>2, <2>3, <2>4, <2>5 DEF Agree, AnswersAgree
  <2>9. OneAnswer(d, f)
    <3>1. Num(d.toDevice, Asked) \in Nat /\ Num(Out(e), Answers) \in Nat
      <4>1. Out(e) \in Seq(Message) /\ d.toDevice \in Seq(Message)
        BY <1>1, <1>6, ConcatParts DEF Out, DeviceSound, ShorterBy
      <4> QED  BY <4>1, NumType
    <3> QED  BY <1>4, <1>7, <1>8, <2>2, <3>1 DEF Agree, OneAnswer, Outstanding
  <2>10. DeviceGoesOn(d, f)
    BY <1>3, <1>4, <1>8, <2>2 DEF Agree, DeviceGoesOn
  <2>11. ASSUME NEW h \in d.holders
         PROVE  LET z == d.streams[h] IN
                IF f.executors[z] = Device!NoExecutor THEN Data(Out(f), z) = {}
                ELSE ChainOf(Out(f), d.toDevice, d.outgoing, z, Len(r[h]), w[h])
    <3> DEFINE z == d.streams[h]
    <3>1. h \in c.holders /\ z = c.streams[h]
      BY <1>4
    <3>2. CASE z # y
      <4>1. \A u \in S : ~IsWrite(u, z)
        BY <1>5, <1>10, <3>2 DEF IsWrite
      <4>2. ~IsWrite(m, z)
        BY <3>2 DEF IsWrite
      <4> HIDE DEF z
      <4>3. /\ Data(c.toDevice, z) = Data(d.toDevice, z)
            /\ Increasing(c.toDevice, z) => Increasing(d.toDevice, z)
        BY <1>6, <4>2 DEF ShorterBy
      <4>4. \A k, l : ChainOf(Out(e), c.toDevice, c.outgoing, z, k, l) =>
                          ChainOf(Out(f), d.toDevice, d.outgoing, z, k, l)
        BY <1>4, <1>7, <4>1, <4>3 DEF ChainOf, Before
      <4> QED  BY <1>3, <1>7, <2>2, <3>1, <4>1, <4>4 DEF Chain, z
    <3>3. CASE z = y /\ e.executors[y] = Device!NoExecutor
      <4>1. \A u \in S : ~IsWrite(u, z)
        BY <1>5, <3>3 DEF IsWrite
      <4> QED  BY <1>3, <1>7, <2>2, <3>1, <3>3, <4>1 DEF Chain
    <3>4. CASE z = y /\ e.executors[y] # Device!NoExecutor
      <4>1. LongerBy(Out(e), x, o) /\ LongerBy(o, m, Out(f))
        BY <3>4
      <4>2. ChainOf(Out(e), c.toDevice, c.outgoing, y, Len(r[h]), w[h])
        BY <2>2, <3>1, <3>4 DEF Chain
      <4>3. ChainOf(Out(f), d.toDevice, c.outgoing, y, Len(r[h]), w[h])
        BY <1>5, <1>6, <4>1, <4>2, ChainEchoes
      <4> QED  BY <1>3, <1>4, <3>4, <4>3
    <3> QED  BY <3>2, <3>3, <3>4
  <2> QED  BY <2>6, <2>7, <2>8, <2>9, <2>10, <2>11 DEF Agree, Chain
<1> QED  BY <1>13, RepliesKeep

(* What was queued goes out, up to a Write, which the device then waits for. *)
Pumps(e, f) ==
    /\ e.state = "Connected" /\ e.outgoing # <<>>
    /\ f.toHost \in Seq(Message) /\ f.outgoing \in Seq(Message)
    /\ Range(f.outgoing) \subseteq Range(e.outgoing)
    /\ Range(e.toHost) \subseteq Range(f.toHost)
    /\ Range(f.toHost) \subseteq Range(e.toHost) \cup Range(e.outgoing)
    /\ \/ f.state = "Connected"
       \/ f.state = "Waiting" /\ \E m \in Range(f.toHost) \cap Range(e.outgoing) : m.command = "Write"
    /\ f.assertsHold = e.assertsHold

(* What was queued on the device goes out, which leaves it sound. *)
LEMMA PumpSound ==
    ASSUME NEW e, NEW f, NEW p, DeviceSound(e), SentSound(p, e), Pumps(e, f), SameStreams(e, f)
    PROVE  DeviceSound(f) /\ SentSound(p, f)
<1>1. \A x : Owned(x, e) => Owned(x, f)
  BY DEF Owned, SameStreams
<1>2. DeviceSound(f)
  BY <1>1 DEF DeviceSound, Pumps, SameStreams
<1>3. SentSound(p, f)
  BY <1>1 DEF SentSound, Pumps
<1> QED  BY <1>2, <1>3

(* ... and the two ends in their world. *)
LEMMA Pump ==
    ASSUME NEW n, NEW c, NEW e, NEW f, NEW w, NEW r,
           World(n, c, e, w, r), Pumps(e, f), SameStreams(e, f), Out(f) = Out(e)
    PROVE  World(n, c, f, w, r)
<1>1. /\ HostSound(c, w, r) /\ DeviceSound(e) /\ SentSound(c.toDevice, e)
  BY DEF World
<1>2. /\ Life(c) /\ HostIds(c, e) /\ AnswersSound(e) /\ Left(c, e) /\ InStep(c, e, w, r)
      /\ Stale(c, e) /\ Hopes(c, e) /\ Doomed(c, e) /\ First(n, c, e)
  BY DEF World, J
<1>3. /\ e.state = "Connected" /\ e.outgoing # <<>> /\ f.state \in {"Connected", "Waiting"}
      /\ Range(e.toHost) \subseteq Range(f.toHost)
      /\ Range(f.toHost) \subseteq Range(e.toHost) \cup Range(e.outgoing)
      /\ f.streams = e.streams /\ f.executors = e.executors /\ f.nextStreamId = e.nextStreamId
  BY DEF Pumps, SameStreams
<1>4. DeviceSound(f) /\ SentSound(c.toDevice, f)
  BY <1>1, PumpSound
<1>5. \A x : Owned(x, e) <=> Owned(x, f)
  BY <1>3 DEF Owned
<1>6. \A z : OkFor(f, z) = OkFor(e, z) /\ CloseFor(f, z) = CloseFor(e, z)
  BY <1>3 DEF OkFor, CloseFor
<1>7. (Unread(f) <=> Unread(e)) /\ (Behind(c, f) <=> Behind(c, e))
  BY DEF Unread, Behind
<1>8. e.toHost \in Seq(Message) /\ e.outgoing \in Seq(Message)
  BY <1>1 DEF DeviceSound
<1>9. JoinOf(e.toHost, e.outgoing, Out(e))
  BY <1>8, Joined DEF Out
<1>10. AnswersSound(f) /\ HostIds(c, f)
  <2>1. \A x \in Range(e.outgoing) : Owned(x, e) /\ x.command \in {"Write", "Close", "Ok"}
    BY <1>1 DEF DeviceSound
  <2>2. AnswersSound(f)
    BY <1>2, <1>3, <1>5, <2>1 DEF AnswersSound, GoodConnects
  <2>3. HostIds(c, f)
    BY <1>2, <1>3, <1>5 DEF HostIds
  <2> QED  BY <2>2, <2>3
<1>11. ASSUME f.state = "Waiting"
       PROVE  \E m \in Range(e.outgoing) :
                 /\ m.command = "Write" /\ m \in Range(f.toHost) /\ m \in Range(Out(e))
                 /\ m.deviceStream \in DOMAIN e.streams
                 /\ e.streams[m.deviceStream] = m.hostStream
  <2>1. PICK m \in Range(f.toHost) \cap Range(e.outgoing) : m.command = "Write"
    BY <1>11 DEF Pumps
  <2>2. /\ m.deviceStream \in DOMAIN e.streams
        /\ e.streams[m.deviceStream] = m.hostStream
    BY <1>1, <2>1 DEF DeviceSound, Owned
  <2>3. m \in Range(Out(e))
    BY <1>9, <2>1 DEF JoinOf
  <2> QED  BY <2>1, <2>2, <2>3
<1>12. Stale(c, f)
  <2>1. Unread(e) => f.state = "Connected"
    <3>1. SUFFICES ASSUME Unread(e), f.state = "Waiting" PROVE FALSE
      BY <1>3
    <3>2. Holds(e.outgoing, "Write")
      BY <1>11, <3>1, ByRange
    <3>3. Holds(e.toHost, "Connect") => ~Holds(e.outgoing, "Write")
      BY <1>2, <1>9 DEF Stale, JoinOf
    <3>4. Holds(Out(e), "Connect") <=> Holds(e.toHost, "Connect") \/ Holds(e.outgoing, "Connect")
      BY <1>9 DEF JoinOf
    <3> QED  BY <1>1, <3>1, <3>2, <3>3, <3>4, NoConnectQueued DEF Unread
  <2> QED  BY <1>2, <1>3, <1>6, <1>7, <2>1 DEF Stale
<1>13. Hopes(c, f) /\ Doomed(c, f) /\ First(n, c, f)
  <2>1. ASSUME c.state = "WaitingForConnection" PROVE EndsWithConnect(c.toDevice)
    BY <1>2, <1>3, <2>1 DEF Hopes
  <2>2. Hopes(c, f)
    BY <2>1 DEF Hopes
  <2>3. Doomed(c, f)
    BY <1>2, <1>3, <1>7 DEF Doomed
  <2>4. First(n, c, f)
    <3>1. c.state = "WaitingForConnection" => c.toDevice # <<>>
      BY <2>1 DEF EndsWithConnect
    <3> QED  BY <1>2, <1>3, <1>7, <3>1 DEF First
  <2> QED  BY <2>2, <2>3, <2>4
<1>14. Left(c, f)
  <2>1. SUFFICES ASSUME c.object = "destroyed", ~Behind(c, e), f.state = "Waiting"
                 PROVE  Holds(c.toDevice, "Ok") \/ Holds(c.toDevice, "Close")
    BY <1>2, <1>3, <1>6, <1>7 DEF Left, Outstanding
  <2>2. PICK m \in Range(e.outgoing) :
          /\ m.command = "Write" /\ m \in Range(Out(e))
          /\ m.deviceStream \in DOMAIN e.streams
    BY <1>11, <2>1
  <2>3. Data(Out(e), m.deviceStream) # {}
    BY <2>2, ByRange DEF IsWrite
  <2>4. CloseFor(e, m.deviceStream) \in Range(c.toDevice)
    BY <1>2, <2>1, <2>2, <2>3 DEF Left
  <2>5. CloseFor(e, m.deviceStream).command = "Close"
    BY DEF CloseFor, QdbMessage
  <2> QED  BY <2>4, <2>5, ByRange
<1>15. InStep(c, f, w, r)
  <2>1. SUFFICES ASSUME Connected(c), ~Behind(c, e) PROVE Agree(c, f) /\ Chain(c, f, w, r)
    BY <1>7 DEF InStep
  <2>2. Agree(c, e) /\ Chain(c, e, w, r)
    BY <1>2, <2>1 DEF InStep
  <2>3. StreamsAgree(c, f) /\ AnswersAgree(c, f) /\ OneAnswer(c, f)
    BY <1>3, <1>6, <2>2 DEF Agree, StreamsAgree, AnswersAgree, OneAnswer, Outstanding
  <2>4. DeviceGoesOn(c, f)
    <3>1. SUFFICES ASSUME f.state = "Waiting"
                   PROVE  \/ \E m \in Range(f.toHost) :
                                m.command = "Write" /\ m.hostStream \in DOMAIN c.streams
                          \/ Holds(c.toDevice, "Close")
      BY DEF DeviceGoesOn
    <3>2. PICK m \in Range(e.outgoing) :
            /\ m.command = "Write" /\ m \in Range(f.toHost) /\ m \in Range(Out(e))
            /\ m.deviceStream \in DOMAIN e.streams
            /\ e.streams[m.deviceStream] = m.hostStream
      BY <1>11, <3>1
    <3>3. m.hostStream \notin c.requests
      BY <2>2, <3>2 DEF Agree, AnswersAgree
    <3>4. CASE CloseFor(e, m.deviceStream) \in Range(c.toDevice)
      <4>1. CloseFor(e, m.deviceStream).command = "Close"
        BY DEF CloseFor, QdbMessage
      <4> QED  BY <3>4, <4>1, ByRange
    <3>5. CASE m.hostStream \in DOMAIN c.streams
      BY <3>2, <3>5
    <3> QED  BY <2>2, <3>2, <3>3, <3>4, <3>5 DEF Agree, StreamsAgree
  <2>5. Chain(c, f, w, r)
    BY <1>3, <2>2 DEF Chain
  <2> QED  BY <2>2, <2>3, <2>4, <2>5 DEF Agree
<1> QED  BY <1>1, <1>2, <1>4, <1>10, <1>12, <1>13, <1>14, <1>15 DEF World, J

(* The two ends name the operators of Queues and QdbMessages that they take in
   by their own names. *)
LEMMA DeviceNames ==
    /\ \A S : Device!Cardinality(S) = Cardinality(S)
    /\ \A S, k : Device!Nth(S, k) = Nth(S, k)
    /\ \A q, S : Device!KeepAt(q, S) = KeepAt(q, S)
    /\ \A x, h, d, y : Device!QdbMessage(x, h, d, y) = QdbMessage(x, h, d, y)
    /\ Device!ConnectMessage = ConnectMessage
    /\ Device!Message = Message
<1>0. \A S : Device!Cardinality(S) = Cardinality(S)
  BY DEF Device!Cardinality, Cardinality
<1>1. \A S, k : Device!Nth(S, k) = Nth(S, k)
  <2>1. \A S, i : Device!Rank(S, i) = Rank(S, i)
    BY <1>0 DEF Device!Rank, Rank
  <2> QED  BY <2>1 DEF Device!Nth, Nth
<1>2. \A q, S : Device!KeepAt(q, S) = KeepAt(q, S)
  BY <1>0, <1>1 DEF Device!KeepAt, KeepAt
<1>3. \A x, h, d, y : Device!QdbMessage(x, h, d, y) = QdbMessage(x, h, d, y)
  BY DEF Device!QdbMessage, QdbMessage
<1>4. Device!ConnectMessage = ConnectMessage
  BY DEF Device!ConnectMessage, ConnectMessage, Device!QdbMessage, QdbMessage,
         Device!qdbProtocolVersion, qdbProtocolVersion
<1>5. Device!Message = Message
  BY DEF Device!Message, Message, Device!Commands, Commands, Device!StreamId, StreamId
<1> QED  BY <1>0, <1>1, <1>2, <1>3, <1>4, <1>5

(* The record of the server has its fields, whatever they are. *)
DeviceFields(X) ==
    [state : X, outgoing : X, streams : X, executors : X,
     nextStreamId : X, assertsHold : X, toHost : X, isOpen : X]

DeviceWhole(e) == e.isOpen = TRUE /\ \E X : e \in DeviceFields(X)

DeviceReady(e) ==
    /\ DeviceWhole(e) /\ e.assertsHold = TRUE /\ e.state \in {"Connected", "Waiting"}
    /\ e.outgoing \in Seq(Message) /\ e.toHost \in Seq(Message)

PumpsOrNot(g, f) == f = g \/ (Pumps(g, f) /\ SameStreams(g, f) /\ Out(f) = Out(g))

(* What processQueue() sends of a queue: up to the first Write, or all. *)
LEMMA SplitAtWrite ==
    ASSUME NEW q \in Seq(Message), q # <<>>, NEW n, n = Device!LastSent(q),
           \A m \in Range(q) : m.command # "Refuse"
    PROVE  /\ n \in 1..Len(q) /\ q[n] \in Range(q)
           /\ q[n].command = "Write" \/ n = Len(q)
           /\ q[n] \in Range(SubSeq(q, 1, n))
<1> DEFINE stops == {i \in DOMAIN q : q[i].command \in {"Write", "Refuse"}}
<1>1. DOMAIN q = 1..Len(q) /\ Len(q) \in Nat /\ Len(q) \in DOMAIN q
  OBVIOUS
<1>2. n \in DOMAIN q /\ (q[n].command \in {"Write", "Refuse"} \/ n = Len(q))
  <2>1. CASE stops = {}
    BY <1>1, <2>1 DEF Device!LastSent
  <2>2. CASE stops # {}
    <3>1. n = Nth(stops, 1)
      BY <2>2, DeviceNames DEF Device!LastSent
    <3>2. Nth(stops, 1) \in stops
      <4> HIDE DEF stops
      <4> QED  BY <2>2, NthIsMember
    <3> QED  BY <3>1, <3>2
  <2> QED  BY <2>1, <2>2
<1>3. q[n] \in Range(q)
  BY <1>2 DEF Range
<1>4. q[n] \in Range(SubSeq(q, 1, n))
  <2>1. n \in 1..n /\ n \in Nat
    BY <1>1, <1>2
  <2>2. DOMAIN SubSeq(q, 1, n) = 1..n /\ SubSeq(q, 1, n)[n] = q[n]
    BY <1>1, <1>2, <2>1
  <2> QED  BY <2>1, <2>2 DEF Range
<1> QED  BY <1>1, <1>2, <1>3, <1>4

(* Three queues one after the other, by two and one or by one and two. *)
LEMMA JoinAssociative ==
    ASSUME NEW p \in Seq(Message), NEW q \in Seq(Message), NEW r \in Seq(Message)
    PROVE  (p \o q) \o r = p \o (q \o r)
BY ConcatAssociative

(* processQueue() with nothing to send, or nothing it may send. *)
LEMMA DeviceWaits ==
    ASSUME NEW g, g.outgoing = <<>> \/ g.state = "Waiting"
    PROVE  Device!ProcessQueue(g) = g
BY DEF Device!ProcessQueue

(* processQueue() sends what is queued up to a Write, or all of it. *)
LEMMA DeviceProcesses ==
    ASSUME NEW g, DeviceReady(g), \A m \in Range(g.outgoing) : m.command \in {"Write", "Close", "Ok"},
           NEW f, f = Device!ProcessQueue(g)
    PROVE  PumpsOrNot(g, f) /\ DeviceWhole(f) /\ Idle(f)
<1>1. CASE g.outgoing = <<>> \/ g.state = "Waiting"
  BY <1>1, DeviceWaits DEF PumpsOrNot, DeviceReady, Idle
<1>2. CASE ~(g.outgoing = <<>> \/ g.state = "Waiting")
  <2> DEFINE q == g.outgoing
             n == Device!LastSent(q)
             m == q[n]
             sent == SubSeq(q, 1, n)
             rest == SubSeq(q, n + 1, Len(q))
  <2>0. /\ q \in Seq(Message) /\ q # <<>> /\ g.toHost \in Seq(Message)
        /\ g.state = "Connected" /\ g.assertsHold = TRUE
        /\ DeviceWhole(g) /\ g.isOpen = TRUE
    BY <1>2 DEF DeviceReady, DeviceWhole
  <2>1. /\ n \in 1..Len(q) /\ m \in Range(q)
        /\ m.command = "Write" \/ n = Len(q)
        /\ m \in Range(sent)
    <3> HIDE DEF q
    <3> QED  BY <2>0, SplitAtWrite DEF q
  <2>2. m.command \in {"Write", "Close", "Ok"}
    BY <2>1 DEF q
  <2>3. g.isOpen = TRUE
    BY <2>0
  <2>4. f = [g EXCEPT !.outgoing = rest, !.toHost = g.toHost \o sent,
                      !.assertsHold = g.assertsHold /\ (m.command = "Write" => g.state = "Connected"),
                      !.state = Device!StateAfter(g.state, m)]
    BY <1>2, <2>3 DEF Device!ProcessQueue
  <2>5. Device!StateAfter(g.state, m) = IF m.command = "Write" THEN "Waiting" ELSE "Connected"
    BY <2>0, <2>2 DEF Device!StateAfter
  <2> HIDE DEF n, m, sent, rest, q
  <2>6. /\ f.state = IF m.command = "Write" THEN "Waiting" ELSE "Connected"
        /\ f.outgoing = rest /\ f.toHost = g.toHost \o sent /\ f.assertsHold = TRUE
        /\ SameStreams(g, f) /\ DeviceWhole(f)
    <3>1. (g.assertsHold /\ (m.command = "Write" => g.state = "Connected")) = TRUE
      BY <2>0
    <3> DEFINE s2 == IF m.command = "Write" THEN "Waiting" ELSE "Connected"
               t2 == g.toHost \o sent
    <3>2. f = [g EXCEPT !.outgoing = rest, !.toHost = t2, !.assertsHold = TRUE, !.state = s2]
      BY <2>4, <2>5, <3>1
    <3> HIDE DEF s2, t2
    <3>3. PICK X : g \in DeviceFields(X)
      BY <2>0 DEF DeviceWhole
    <3>4. /\ f.state = s2 /\ f.outgoing = rest /\ f.toHost = t2 /\ f.assertsHold = TRUE
          /\ f.isOpen = g.isOpen /\ f.streams = g.streams /\ f.executors = g.executors
          /\ f.nextStreamId = g.nextStreamId
      BY <3>2, <3>3 DEF DeviceFields
    <3>5. f \in DeviceFields(X \cup {rest, t2, TRUE, s2})
      BY <3>2, <3>3 DEF DeviceFields
    <3>6. DeviceWhole(f)
      BY <2>0, <3>4, <3>5 DEF DeviceWhole
    <3> QED  BY <3>4, <3>6 DEF SameStreams, s2, t2
  <2>7. /\ sent \in Seq(Message) /\ rest \in Seq(Message) /\ q = sent \o rest
    <3>1. n \in 0..Len(q)
      BY <2>0, <2>1
    <3> QED  BY <2>0, <3>1, SplitQueue DEF sent, rest
  <2>8. n = Len(q) => rest = <<>>
    BY <2>0 DEF rest
  <2>9. Range(q) = Range(sent) \cup Range(rest)
    BY <2>7, Joined DEF JoinOf
  <2>10. Range(f.toHost) = Range(g.toHost) \cup Range(sent) /\ f.toHost \in Seq(Message)
    BY <2>0, <2>6, <2>7, Joined DEF JoinOf
  <2>11. Pumps(g, f)
    <3>1. m.command = "Write" => m \in Range(f.toHost) \cap Range(g.outgoing)
      BY <2>1, <2>10 DEF q
    <3>2. f.state = IF m.command = "Write" THEN "Waiting" ELSE "Connected"
      BY <2>6
    <3>3. \/ f.state = "Connected"
          \/ f.state = "Waiting" /\ \E x \in Range(f.toHost) \cap Range(g.outgoing) : x.command = "Write"
      BY <3>1, <3>2
    <3>4. /\ Range(f.outgoing) \subseteq Range(g.outgoing)
          /\ Range(g.toHost) \subseteq Range(f.toHost)
          /\ Range(f.toHost) \subseteq Range(g.toHost) \cup Range(g.outgoing)
      BY <2>6, <2>9, <2>10 DEF q
    <3> QED  BY <2>0, <2>6, <2>7, <2>10, <3>3, <3>4 DEF Pumps, q
  <2>12. Out(f) = Out(g)
    <3>1. g.toHost \o q = (g.toHost \o sent) \o rest
      <4>1. g.toHost \in Seq(Message) /\ sent \in Seq(Message) /\ rest \in Seq(Message)
        BY <2>0, <2>7
      <4>2. (g.toHost \o sent) \o rest = g.toHost \o (sent \o rest)
        BY <4>1, JoinAssociative
      <4> QED  BY <2>7, <4>2
    <3> QED  BY <2>6, <3>1 DEF Out, q
  <2>14. Idle(f)
    BY <2>1, <2>6, <2>8 DEF Idle
  <2> QED  BY <2>6, <2>11, <2>12, <2>14 DEF PumpsOrNot
<1> QED  BY <1>1, <1>2

(* enqueueMessage() of anything but a Write: sent at once, or left queued. *)
LEMMA DeviceEnqueues ==
    ASSUME NEW e, DeviceReady(e), Idle(e), NEW x \in Message,
           x.command \in {"Connect", "Close", "Ok"},
           NEW f, f = Device!EnqueueMessage(e, x)
    PROVE  /\ DeviceReady(f) /\ Idle(f) /\ f.state = e.state /\ SameStreams(e, f)
           /\ f.assertsHold = e.assertsHold
           /\ e.state = "Connected" => f.outgoing = <<>> /\ f.toHost = Append(e.toHost, x)
           /\ e.state = "Waiting" => f.outgoing = Append(e.outgoing, x) /\ f.toHost = e.toHost
<1> DEFINE q == Append(e.outgoing, x)
           g == [e EXCEPT !.outgoing = q]
<1>1. f = Device!ProcessQueue(g)
  BY DEF Device!EnqueueMessage
<1>2. PICK X : e \in DeviceFields(X)
  BY DEF DeviceReady, DeviceWhole
<1>3. /\ e.isOpen = TRUE /\ e.state \in {"Connected", "Waiting"} /\ e.assertsHold = TRUE
      /\ e.outgoing \in Seq(Message) /\ e.toHost \in Seq(Message)
  BY DEF DeviceReady, DeviceWhole
<1>4. q \in Seq(Message) /\ q # <<>>
  BY <1>3, Longer DEF LongerBy
<1> HIDE DEF q
<1>5. /\ g \in DeviceFields(X \cup {q}) /\ g.outgoing = q /\ g.state = e.state
      /\ g.streams = e.streams /\ g.executors = e.executors /\ g.isOpen = TRUE
      /\ g.nextStreamId = e.nextStreamId /\ g.assertsHold = e.assertsHold
      /\ g.toHost = e.toHost
  <2>1. g \in DeviceFields(X \cup {q})
    BY <1>2 DEF DeviceFields
  <2>2. /\ g.outgoing = q /\ g.state = e.state
        /\ g.streams = e.streams /\ g.executors = e.executors /\ g.isOpen = e.isOpen
        /\ g.nextStreamId = e.nextStreamId /\ g.assertsHold = e.assertsHold
        /\ g.toHost = e.toHost
    BY <1>2 DEF DeviceFields
  <2> QED  BY <1>3, <2>1, <2>2
<1> HIDE DEF g
<1>6. CASE e.state = "Waiting"
  <2>1. f = g
    BY <1>1, <1>5, <1>6, DeviceWaits
  <2>2. DeviceWhole(f)
    BY <1>5, <2>1 DEF DeviceWhole
  <2> QED
    BY <1>3, <1>4, <1>5, <1>6, <2>1, <2>2 DEF DeviceReady, Idle, SameStreams, q
<1>7. CASE e.state = "Connected"
  <2>1. q = <<x>>
    <3>1. e.outgoing = <<>>
      BY <1>7 DEF Idle
    <3>2. Append(<<>>, x) = <<x>>
      OBVIOUS
    <3> QED  BY <3>1, <3>2 DEF q
  <2>2. Device!LastSent(q) = 1
    <3>1. q[1] = x /\ Len(q) = 1 /\ DOMAIN q = {1}
      BY <2>1
    <3>2. {i \in DOMAIN q : q[i].command \in {"Write", "Refuse"}} = {}
      BY <3>1
    <3> QED  BY <3>1, <3>2 DEF Device!LastSent
  <2>3. /\ q[1] = x /\ SubSeq(q, 1, 1) = <<x>> /\ SubSeq(q, 1 + 1, Len(q)) = <<>>
        /\ e.toHost \o <<x>> = Append(e.toHost, x)
    <3>1. q[1] = x /\ Len(q) = 1
      BY <2>1
    <3>2. SubSeq(q, 1, 1) = q /\ SubSeq(q, 1 + 1, Len(q)) = <<>>
      <4>1. /\ SubSeq(q, 1, 1) \in Seq(Message)
            /\ q = SubSeq(q, 1, 1) \o SubSeq(q, 1 + 1, Len(q))
        <5>1. 1 \in 0..Len(q)
          BY <3>1
        <5> QED  BY <1>4, <5>1, SplitQueue
      <4>2. SubSeq(q, 1 + 1, Len(q)) = <<>>
        BY <1>4, <3>1
      <4>3. \A p \in Seq(Message) : p \o <<>> = p
        OBVIOUS
      <4> QED  BY <4>1, <4>2, <4>3
    <3>3. e.toHost \o <<x>> = Append(e.toHost, x)
      BY <1>3
    <3> QED  BY <2>1, <3>1, <3>2, <3>3
  <2>4. f = [g EXCEPT !.outgoing = <<>>, !.toHost = Append(e.toHost, x),
                      !.assertsHold = TRUE, !.state = "Connected"]
    <3>1. Device!StateAfter(g.state, x) = "Connected"
      BY <1>5, <1>7 DEF Device!StateAfter
    <3>2. (g.assertsHold /\ (x.command = "Write" => g.state = "Connected")) = TRUE
      BY <1>3, <1>5
    <3>3. f = [g EXCEPT !.outgoing = SubSeq(q, 1 + 1, Len(q)),
                        !.toHost = g.toHost \o SubSeq(q, 1, 1),
                        !.assertsHold = g.assertsHold /\ (q[1].command = "Write" => g.state = "Connected"),
                        !.state = Device!StateAfter(g.state, q[1])]
      <4>1. ~(g.outgoing = <<>> \/ g.state = "Waiting") /\ g.isOpen = TRUE /\ g.outgoing = q
        BY <1>4, <1>5, <1>7
      <4> QED  BY <1>1, <2>2, <4>1 DEF Device!ProcessQueue
    <3> QED  BY <1>5, <2>3, <3>1, <3>2, <3>3
  <2> DEFINE t == Append(e.toHost, x)
  <2>5. t \in Seq(Message)
    BY <1>3
  <2> HIDE DEF t
  <2>6. /\ f.state = "Connected" /\ f.outgoing = <<>> /\ f.toHost = t /\ f.assertsHold = TRUE
        /\ f.isOpen = TRUE /\ f.streams = g.streams /\ f.executors = g.executors
        /\ f.nextStreamId = g.nextStreamId
    BY <1>5, <2>4 DEF DeviceFields, t
  <2>7. f \in DeviceFields(X \cup {q, <<>>, t, TRUE, "Connected"})
    BY <1>5, <2>4 DEF DeviceFields, t
  <2>8. DeviceWhole(f)
    BY <2>6, <2>7 DEF DeviceWhole
  <2>9. <<>> \in Seq(Message)
    OBVIOUS
  <2> QED
    BY <1>3, <1>5, <1>7, <2>5, <2>6, <2>8, <2>9 DEF DeviceReady, Idle, SameStreams, t
<1> QED  BY <1>3, <1>6, <1>7

(* Sent or queued, it is the last message on its way to the host. *)
LEMMA DeviceSays ==
    ASSUME NEW e, DeviceReady(e), Idle(e), NEW x \in Message,
           x.command \in {"Connect", "Close", "Ok"},
           NEW f, f = Device!EnqueueMessage(e, x)
    PROVE  /\ DeviceReady(f) /\ Idle(f) /\ f.state = e.state /\ SameStreams(e, f)
           /\ Replies(e, f, {x}) /\ Range(e.toHost) \subseteq Range(f.toHost)
           /\ LongerBy(Out(e), x, Out(f))
           /\ e.state = "Connected" => f.outgoing = <<>> /\ f.toHost = Append(e.toHost, x)
<1>1. /\ DeviceReady(f) /\ Idle(f) /\ f.state = e.state /\ SameStreams(e, f)
      /\ f.assertsHold = e.assertsHold
      /\ e.state = "Connected" => f.outgoing = <<>> /\ f.toHost = Append(e.toHost, x)
      /\ e.state = "Waiting" => f.outgoing = Append(e.outgoing, x) /\ f.toHost = e.toHost
  BY DeviceEnqueues
<1>2. /\ e.outgoing \in Seq(Message) /\ e.toHost \in Seq(Message)
      /\ f.outgoing \in Seq(Message) /\ f.toHost \in Seq(Message)
      /\ e.state \in {"Connected", "Waiting"}
  BY <1>1 DEF DeviceReady
<1>3. CASE e.state = "Waiting"
  <2>1. Range(f.outgoing) = Range(e.outgoing) \cup {x}
    <3>1. LongerBy(e.outgoing, x, f.outgoing)
      BY <1>1, <1>2, <1>3, Longer
    <3> QED  BY <3>1 DEF LongerBy
  <2>2. LongerBy(Out(e), x, Out(f))
    BY <1>1, <1>2, <1>3, LongerJoin DEF Out
  <2> QED  BY <1>1, <1>2, <1>3, <2>1, <2>2 DEF Replies
<1>4. CASE e.state = "Connected"
  <2>1. Range(f.toHost) = Range(e.toHost) \cup {x} /\ Range(f.outgoing) = {}
    <3>1. LongerBy(e.toHost, x, f.toHost)
      BY <1>1, <1>2, <1>4, Longer
    <3> QED  BY <1>1, <1>4, <3>1, RangeEmpty DEF LongerBy
  <2>2. Out(e) = e.toHost /\ Out(f) = Append(e.toHost, x)
    <3>1. e.outgoing = <<>> /\ f.outgoing = <<>> /\ f.toHost = Append(e.toHost, x)
      BY <1>1, <1>4 DEF Idle
    <3> QED  BY <1>2, <3>1 DEF Out
  <2>3. LongerBy(Out(e), x, Out(f))
    BY <1>2, <2>2, Longer
  <2> QED  BY <1>1, <1>2, <1>4, <2>1, <2>3 DEF Replies
<1> QED  BY <1>2, <1>3, <1>4

(* What a message makes of the device, before what is queued goes out: *)
DeviceGreets(e, g, m) ==
    m = ConnectMessage /\ DeviceResets(e, g) /\ g.toHost = Append(e.toHost, ConnectMessage)

DeviceGrants(e, g, m) ==
    /\ m.command = "Open"
    /\ \E y, x :
         /\ x = QdbMessage("Ok", m.hostStream, y, 0) /\ DeviceOpens(e, g, y, m.hostStream)
         /\ Replies(e, g, {x}) /\ Range(e.toHost) \subseteq Range(g.toHost)
         /\ LongerBy(Out(e), x, Out(g))

DeviceAdds(e, g, m, S, k) ==
    /\ m.command = "Write"
    /\ Replies(e, g, S) /\ SameStreams(e, g) /\ Answerable(e, S)
    /\ \A x \in S : x.command = "Write" =>
          x.deviceStream = m.deviceStream /\ m.deviceStream \in DOMAIN e.streams
    /\ Range(e.toHost) \subseteq Range(g.toHost)
    /\ k \in {0, 1} /\ Adds(Out(e), S, k, Out(g))

DeviceRefuses(e, g, m) ==
    m.deviceStream \notin DOMAIN e.streams /\ \E S, k : DeviceAdds(e, g, m, S, k)

DeviceAnswers(e, g, m) ==
    /\ m.deviceStream \in DOMAIN e.streams
    /\ \E S, x, o :
         /\ DeviceAdds(e, g, m, S, 1)
         /\ x = QdbMessage("Ok", m.hostStream, m.deviceStream, 0)
         /\ IF e.executors[m.deviceStream] = Device!NoExecutor THEN S = {x}
            ELSE S = {x, m} /\ LongerBy(Out(e), x, o) /\ LongerBy(o, m, Out(g))

DeviceFrees(e, g, m) ==
    /\ m.command \in {"Close", "Ok"}
    /\ \E y, R :
         /\ DeviceDrops(e, g, y, R) /\ g.toHost = e.toHost
         /\ m.command = "Close" => y = m.deviceStream
         /\ m.command = "Ok" => y \notin DOMAIN e.streams

DeviceActs(e, g, m) ==
    \/ DeviceGreets(e, g, m) \/ DeviceGrants(e, g, m) \/ DeviceRefuses(e, g, m)
    \/ DeviceAnswers(e, g, m) \/ DeviceFrees(e, g, m)

(* What a message makes of it in all. *)
DeviceSteps(e, f, m) ==
    DeviceWhole(f) /\ Idle(f) /\ \E g : DeviceActs(e, g, m) /\ PumpsOrNot(g, f)

(* What the device takes. *)
DeviceInput(e, m) ==
    /\ m \in Message /\ Owned(m, e)
    /\ m.command \in {"Connect", "Open", "Write", "Close", "Ok"}
    /\ m.command = "Connect" => m = ConnectMessage
    /\ e.state = "Disconnected" => m = ConnectMessage

(* The parts of a message are what it is made of. *)
LEMMA MessageFields ==
    ASSUME NEW x \in Commands, NEW h \in Nat, NEW d \in Nat, NEW y \in Nat
    PROVE  /\ QdbMessage(x, h, d, y) \in Message
           /\ QdbMessage(x, h, d, y).command = x /\ QdbMessage(x, h, d, y).hostStream = h
           /\ QdbMessage(x, h, d, y).deviceStream = d /\ QdbMessage(x, h, d, y).data = y
BY DEF QdbMessage, Message, StreamId

(* handleMessage() of a Connect. *)
LEMMA DeviceHandlesConnect ==
    ASSUME NEW e, DeviceSound(e), DeviceWhole(e), NEW m, m = ConnectMessage,
           NEW f, f = Device!HandleConnect(e, m)
    PROVE  DeviceGreets(e, f, m) /\ f.outgoing = <<>> /\ DeviceWhole(f)
<1> DEFINE r == [e EXCEPT !.outgoing = <<>>, !.executors = Device!Nothing,
                          !.streams = Device!Nothing]
           g == [r EXCEPT !.state = "Connected"]
<1>1. m.data = 1 /\ m.command = "Connect" /\ m \in Message
  BY DEF ConnectMessage, QdbMessage, qdbProtocolVersion, Message, Commands, StreamId
<1>2. f = Device!EnqueueMessage(g, ConnectMessage)
  <2>1. Device!CheckVersion(m)
    BY <1>1 DEF Device!CheckVersion, Device!qdbProtocolVersion
  <2> QED  BY <2>1, DeviceNames DEF Device!HandleConnect, Device!ResetServer
<1>3. PICK X : e \in DeviceFields(X)
  BY DEF DeviceWhole
<1> DEFINE Y == X \cup {<<>>, Device!Nothing}
<1>4. /\ r \in DeviceFields(Y) /\ r.outgoing = <<>> /\ r.streams = Device!Nothing
      /\ r.executors = Device!Nothing /\ r.isOpen = e.isOpen /\ r.toHost = e.toHost
      /\ r.nextStreamId = e.nextStreamId /\ r.assertsHold = e.assertsHold
  <2>1. r \in DeviceFields(Y)
    BY <1>3 DEF DeviceFields
  <2>2. /\ r.outgoing = <<>> /\ r.streams = Device!Nothing
        /\ r.executors = Device!Nothing /\ r.isOpen = e.isOpen /\ r.toHost = e.toHost
        /\ r.nextStreamId = e.nextStreamId /\ r.assertsHold = e.assertsHold
    BY <1>3 DEF DeviceFields
  <2> QED  BY <2>1, <2>2
<1> HIDE DEF r, Y
<1>5. /\ g \in DeviceFields(Y \cup {"Connected"}) /\ g.state = "Connected"
      /\ g.outgoing = <<>> /\ g.streams = Device!Nothing
      /\ g.executors = Device!Nothing /\ g.isOpen = e.isOpen /\ g.toHost = e.toHost
      /\ g.nextStreamId = e.nextStreamId /\ g.assertsHold = e.assertsHold
  <2>1. g \in DeviceFields(Y \cup {"Connected"})
    BY <1>4 DEF DeviceFields
  <2>2. /\ g.state = "Connected" /\ g.outgoing = r.outgoing /\ g.streams = r.streams
        /\ g.executors = r.executors /\ g.isOpen = r.isOpen /\ g.toHost = r.toHost
        /\ g.nextStreamId = r.nextStreamId /\ g.assertsHold = r.assertsHold
    BY <1>4 DEF DeviceFields
  <2> QED  BY <1>4, <2>1, <2>2
<1> HIDE DEF g
<1>6. DeviceReady(g) /\ Idle(g)
  <2>1. <<>> \in Seq(Message)
    OBVIOUS
  <2> QED  BY <1>5, <2>1 DEF DeviceReady, DeviceWhole, DeviceSound, Idle
<1>7. /\ f.state = "Connected" /\ f.outgoing = <<>> /\ f.toHost = Append(e.toHost, m)
      /\ SameStreams(g, f) /\ f.assertsHold = g.assertsHold /\ DeviceReady(f)
  BY <1>1, <1>2, <1>5, <1>6, DeviceEnqueues
<1>8. /\ DOMAIN Device!Nothing = {} /\ Device!Nothing \in [{} -> Nat]
  BY DEF Device!Nothing
<1>9. DeviceWhole(f)
  BY <1>7 DEF DeviceReady
<1> QED  BY <1>5, <1>7, <1>8, <1>9 DEF DeviceGreets, DeviceResets, SameStreams

(* handleMessage() of an Open. *)
LEMMA DeviceHandlesOpen ==
    ASSUME NEW e, DeviceSound(e), DeviceReady(e), Idle(e), NEW m, DeviceInput(e, m),
           m.command = "Open", NEW f, f = Device!HandleOpen(e, m)
    PROVE  /\ DeviceGrants(e, f, m) /\ Idle(f) /\ DeviceWhole(f)
           /\ f.outgoing = <<>> \/ f.state = "Waiting"
<1> DEFINE y == e.nextStreamId
           x == QdbMessage("Ok", m.hostStream, y, 0)
           b == [e EXCEPT !.nextStreamId = y + 1]
           d == Device!EnqueueMessage(b, x)
           tag == IF m.data \in Device!KnownTags THEN m.data ELSE Device!NoExecutor
           s == Device!With(d.streams, y, m.hostStream)
           z == Device!With(d.executors, y, tag)
<1>1. f = [d EXCEPT !.streams = s, !.executors = z]
  BY DeviceNames DEF Device!HandleOpen
<1>2. y \in Nat /\ m.hostStream \in Nat
  BY DEF DeviceSound, DeviceInput, Message, StreamId
<1>3. x \in Message /\ x.command = "Ok"
  <2>1. "Ok" \in Commands
    BY DEF Commands
  <2> QED  BY <1>2, <2>1, MessageFields
<1>4. PICK X : e \in DeviceFields(X)
  BY DEF DeviceReady, DeviceWhole
<1> HIDE DEF x
<1>5. /\ b.state = e.state /\ b.outgoing = e.outgoing /\ b.streams = e.streams
      /\ b.executors = e.executors /\ b.nextStreamId = y + 1
      /\ b.assertsHold = e.assertsHold /\ b.toHost = e.toHost /\ b.isOpen = e.isOpen
  BY <1>4 DEF DeviceFields
<1>6. b \in DeviceFields(X \cup {y + 1})
  BY <1>4 DEF DeviceFields
<1> HIDE DEF b, y
<1>7. DeviceReady(b) /\ Idle(b)
  BY <1>5, <1>6 DEF DeviceReady, DeviceWhole, Idle
<1>8. /\ DeviceReady(d) /\ Idle(d) /\ d.state = b.state /\ SameStreams(b, d)
      /\ Replies(b, d, {x}) /\ Range(b.toHost) \subseteq Range(d.toHost)
      /\ LongerBy(Out(b), x, Out(d))
  BY <1>3, <1>7, DeviceSays
<1> HIDE DEF d
<1>9. PICK D : d \in DeviceFields(D)
  BY <1>8 DEF DeviceReady, DeviceWhole
<1> HIDE DEF s, z
<1>10. /\ f.state = d.state /\ f.outgoing = d.outgoing /\ f.streams = s
       /\ f.executors = z /\ f.nextStreamId = d.nextStreamId
       /\ f.assertsHold = d.assertsHold /\ f.toHost = d.toHost
  BY <1>1, <1>9 DEF DeviceFields
<1>11. /\ d.streams = e.streams /\ d.executors = e.executors /\ d.nextStreamId = y + 1
  BY <1>5, <1>8 DEF SameStreams
<1>12. /\ e.streams \in [DOMAIN e.streams -> Nat] /\ y \notin DOMAIN e.streams
       /\ DOMAIN e.executors = DOMAIN e.streams
  <2>1. \A i \in DOMAIN e.streams : i \in Nat /\ i < y
    BY DEF DeviceSound, y
  <2> QED  BY <1>2, <2>1 DEF DeviceSound
<1>13. /\ DOMAIN s = DOMAIN e.streams \cup {y} /\ s \in [DOMAIN s -> Nat]
       /\ s[y] = m.hostStream /\ \A i \in DOMAIN e.streams : s[i] = e.streams[i]
  BY <1>2, <1>11, <1>12 DEF s, Device!With
<1>14. /\ DOMAIN z = DOMAIN e.executors \cup {y}
       /\ \A i \in DOMAIN e.executors : z[i] = e.executors[i]
  BY <1>11, <1>12 DEF z, Device!With
<1>15. DeviceOpens(e, f, y, m.hostStream)
  BY <1>10, <1>11, <1>13, <1>14 DEF DeviceOpens, y
<1>16. /\ Replies(e, f, {x}) /\ Range(e.toHost) \subseteq Range(f.toHost)
       /\ LongerBy(Out(e), x, Out(f))
  BY <1>5, <1>8, <1>10 DEF Replies, Out
<1>17. DeviceGrants(e, f, m)
  BY <1>15, <1>16 DEF DeviceGrants, x, DeviceInput
<1>18. Idle(f) /\ (f.outgoing = <<>> \/ f.state = "Waiting")
  BY <1>8, <1>10 DEF Idle
<1>19. DeviceWhole(f)
  <2>1. f.isOpen = d.isOpen
    BY <1>1, <1>9 DEF DeviceFields
  <2>2. f \in DeviceFields(D \cup {s, z})
    BY <1>1, <1>9 DEF DeviceFields
  <2> QED  BY <1>8, <2>1, <2>2 DEF DeviceReady, DeviceWhole
<1> QED  BY <1>17, <1>18, <1>19

(* handleMessage() of a Write of a stream that is not there. *)
LEMMA DeviceHandlesStray ==
    ASSUME NEW e, DeviceSound(e), DeviceReady(e), Idle(e), NEW m, DeviceInput(e, m),
           m.command = "Write", m.deviceStream \notin DOMAIN e.streams,
           NEW f, f = Device!HandleWrite(e, m)
    PROVE  DeviceRefuses(e, f, m) /\ Idle(f) /\ DeviceReady(f)
<1> DEFINE x == QdbMessage("Close", m.hostStream, m.deviceStream, 0)
<1>1. f = Device!EnqueueMessage(e, x)
  BY DeviceNames DEF Device!HandleWrite
<1>2. /\ x \in Message /\ x.command = "Close" /\ x.deviceStream = m.deviceStream
  <2>1. m.deviceStream \in Nat /\ m.hostStream \in Nat /\ "Close" \in Commands
    BY DEF DeviceInput, Message, StreamId, Commands
  <2> QED  BY <2>1, MessageFields
<1> HIDE DEF x
<1>3. /\ DeviceReady(f) /\ Idle(f) /\ f.state = e.state /\ SameStreams(e, f)
      /\ Replies(e, f, {x}) /\ Range(e.toHost) \subseteq Range(f.toHost)
      /\ LongerBy(Out(e), x, Out(f))
  BY <1>1, <1>2, DeviceSays
<1>4. Answerable(e, {x})
  BY <1>2 DEF Answerable, Owned, DeviceInput
<1>5. Adds(Out(e), {x}, 0, Out(f))
  BY <1>2, <1>3, AddsOne
<1>6. DeviceAdds(e, f, m, {x}, 0)
  BY <1>2, <1>3, <1>4, <1>5 DEF DeviceAdds
<1> QED  BY <1>3, <1>6 DEF DeviceRefuses

(* handleMessage() of a Write of a stream that is there. *)
LEMMA DeviceHandlesPacket ==
    ASSUME NEW e, DeviceSound(e), DeviceReady(e), Idle(e), NEW m, DeviceInput(e, m),
           m.command = "Write", m.deviceStream \in DOMAIN e.streams,
           NEW f, f = Device!HandleWrite(e, m)
    PROVE  /\ \E g : DeviceAnswers(e, g, m) /\ PumpsOrNot(g, f)
           /\ DeviceWhole(f) /\ Idle(f) /\ f.state \in {"Connected", "Waiting"}
<1> DEFINE id == m.deviceStream
           x == QdbMessage("Ok", m.hostStream, id, 0)
           b == Device!EnqueueMessage(e, x)
           g == [b EXCEPT !.outgoing = Append(@, m)]
<1>1. f = Device!ExecutorReceives(b, id, m.data)
  BY DeviceNames DEF Device!HandleWrite
<1>2. /\ x \in Message /\ x.command = "Ok" /\ x.deviceStream = id /\ x.hostStream = m.hostStream
  <2>1. m.deviceStream \in Nat /\ m.hostStream \in Nat /\ "Ok" \in Commands
    BY DEF DeviceInput, Message, StreamId, Commands
  <2> QED  BY <2>1, MessageFields
<1> HIDE DEF b
<1>3. x = QdbMessage("Ok", m.hostStream, m.deviceStream, 0)
  OBVIOUS
<1> HIDE DEF x
<1>4. /\ DeviceReady(b) /\ Idle(b) /\ b.state = e.state /\ SameStreams(e, b)
      /\ Replies(e, b, {x}) /\ Range(e.toHost) \subseteq Range(b.toHost)
      /\ LongerBy(Out(e), x, Out(b))
  BY <1>2, DeviceSays DEF b
<1>5. m \in Message /\ Owned(m, e) /\ Owned(x, e) /\ e.streams[id] = m.hostStream
  BY <1>2 DEF DeviceInput, Owned
<1>6. Num(Out(e), Answers) \in Nat
  <2>1. Out(e) \in Seq(Message)
    BY <1>4 DEF LongerBy
  <2> QED  BY <2>1, NumType
<1>7. CASE e.executors[id] = Device!NoExecutor
  <2>1. f = b
    BY <1>1, <1>4, <1>7 DEF Device!ExecutorReceives, SameStreams
  <2>2. Answerable(e, {x})
    BY <1>2, <1>5 DEF Answerable
  <2>3. Adds(Out(e), {x}, 1, Out(b))
    BY <1>2, <1>4, AddsOne
  <2>4. DeviceAdds(e, b, m, {x}, 1)
    BY <1>2, <1>4, <2>2, <2>3 DEF DeviceAdds
  <2>5. DeviceAnswers(e, b, m)
    BY <1>3, <1>7, <2>4 DEF DeviceAnswers
  <2> QED  BY <1>4, <2>1, <2>5 DEF PumpsOrNot, DeviceReady
<1>8. CASE e.executors[id] # Device!NoExecutor
  <2>1. QdbMessage("Write", e.streams[id], id, m.data) = m
    BY <1>5 DEF QdbMessage, Message
  <2>2. f = Device!ProcessQueue(g)
    BY <1>1, <1>4, <1>8, <2>1, DeviceNames
    DEF Device!ExecutorReceives, Device!EnqueueMessage, SameStreams
  <2>3. PICK X : b \in DeviceFields(X)
    BY <1>4 DEF DeviceReady, DeviceWhole
  <2> DEFINE q == Append(b.outgoing, m)
  <2>4. /\ g.outgoing = q /\ g.state = b.state /\ g.streams = b.streams
        /\ g.executors = b.executors /\ g.isOpen = b.isOpen
        /\ g.nextStreamId = b.nextStreamId /\ g.assertsHold = b.assertsHold
        /\ g.toHost = b.toHost
    BY <2>3 DEF DeviceFields
  <2>5. g \in DeviceFields(X \cup {q})
    BY <2>3 DEF DeviceFields
  <2> HIDE DEF g, q
  <2>6. /\ b.outgoing \in Seq(Message) /\ b.toHost \in Seq(Message)
        /\ b.state \in {"Connected", "Waiting"} /\ b.assertsHold = TRUE /\ b.isOpen = TRUE
    BY <1>4 DEF DeviceReady, DeviceWhole
  <2>7. LongerBy(b.outgoing, m, q)
    BY <1>5, <2>6, Longer DEF q
  <2>8. q \in Seq(Message) /\ Range(q) = Range(b.outgoing) \cup {m}
    BY <2>7 DEF LongerBy
  <2>9. DeviceReady(g)
    BY <2>4, <2>5, <2>6, <2>8 DEF DeviceReady, DeviceWhole
  <2>10. /\ Range(b.outgoing) \subseteq Range(e.outgoing) \cup {x}
         /\ Range(b.toHost) \subseteq Range(e.toHost) \cup {x}
         /\ b.state = e.state /\ e.state # "Disconnected" /\ b.assertsHold = e.assertsHold
    BY <1>4 DEF Replies
  <2>11. \A y \in Range(g.outgoing) : y.command \in {"Write", "Close", "Ok"}
    <3>1. \A y \in Range(e.outgoing) : y.command \in {"Write", "Close", "Ok"}
      BY DEF DeviceSound
    <3> QED  BY <1>2, <2>4, <2>8, <2>10, <3>1
  <2>12. PumpsOrNot(g, f) /\ DeviceWhole(f) /\ Idle(f)
    BY <2>2, <2>9, <2>11, DeviceProcesses
  <2>13. f.state \in {"Connected", "Waiting"}
    BY <2>4, <2>6, <2>12 DEF PumpsOrNot, Pumps
  <2>14. LongerBy(Out(b), m, Out(g))
    <3>1. LongerBy(b.toHost \o b.outgoing, m, b.toHost \o Append(b.outgoing, m))
      BY <1>5, <2>6, LongerJoin
    <3> QED  BY <2>4, <3>1 DEF Out, q
  <2>15. Adds(Out(e), {x, m}, 1, Out(g))
    BY <1>2, <1>4, <1>6, <2>14, AddsTwo
  <2>16. Replies(e, g, {x, m}) /\ SameStreams(e, g)
    BY <1>4, <2>4, <2>6, <2>8, <2>10 DEF Replies, SameStreams
  <2>17. Answerable(e, {x, m})
    BY <1>2, <1>5 DEF Answerable
  <2>18. DeviceAdds(e, g, m, {x, m}, 1)
    BY <1>2, <1>4, <2>4, <2>15, <2>16, <2>17 DEF DeviceAdds
  <2>19. DeviceAnswers(e, g, m)
    BY <1>3, <1>4, <1>8, <2>14, <2>18 DEF DeviceAnswers
  <2> QED  BY <2>12, <2>13, <2>19
<1> QED  BY <1>7, <1>8

(* handleMessage() of a Close or an Ok, up to what it lets go out. *)
LEMMA DeviceHandlesRelease ==
    ASSUME NEW e, DeviceSound(e), DeviceReady(e), NEW m, DeviceInput(e, m),
           m.command \in {"Close", "Ok"},
           NEW g, g = IF m.command = "Close"
                      THEN Device!CloseStream(Device!Release(e), m.deviceStream)
                      ELSE Device!Release(e)
    PROVE  DeviceFrees(e, g, m) /\ DeviceReady(g)
<1> DEFINE id == m.deviceStream
           b == Device!Release(e)
<1>1. b = [e EXCEPT !.state = "Connected"]
  BY DEF Device!Release
<1>2. PICK X : e \in DeviceFields(X)
  BY DEF DeviceReady, DeviceWhole
<1> HIDE DEF b
<1>3. /\ b.state = "Connected" /\ b.outgoing = e.outgoing /\ b.streams = e.streams
      /\ b.executors = e.executors /\ b.nextStreamId = e.nextStreamId
      /\ b.assertsHold = e.assertsHold /\ b.toHost = e.toHost /\ b.isOpen = e.isOpen
  BY <1>1, <1>2 DEF DeviceFields
<1>4. b \in DeviceFields(X \cup {"Connected"})
  BY <1>1, <1>2 DEF DeviceFields
<1>5. /\ e.outgoing \in Seq(Message) /\ e.toHost \in Seq(Message) /\ e.isOpen = TRUE
      /\ e.assertsHold = TRUE
      /\ e.streams \in [DOMAIN e.streams -> Nat] /\ DOMAIN e.executors = DOMAIN e.streams
  BY DEF DeviceReady, DeviceWhole, DeviceSound
<1>6. DeviceReady(b)
  BY <1>3, <1>4, <1>5 DEF DeviceReady, DeviceWhole
<1>7. ASSUME g = b, NEW y, y \notin DOMAIN e.streams, m.command = "Close" => y = id
      PROVE  DeviceFrees(e, g, m)
  <2>1. KeptOf(e.outgoing, Range(e.outgoing), e.outgoing)
    <3>1. Range(e.outgoing) = Range(e.outgoing) \cap Range(e.outgoing)
      OBVIOUS
    <3>2. \A S : Num(e.outgoing, S) \in Nat
      BY <1>5, NumType
    <3> QED  BY <1>5, <3>1, <3>2 DEF KeptOf
  <2>2. DeviceDrops(e, g, y, Range(e.outgoing))
    BY <1>3, <1>5, <1>7, <2>1 DEF DeviceDrops
  <2> QED  BY <1>3, <1>7, <2>2 DEF DeviceFrees
<1>8. CASE m.command = "Close" /\ id \in DOMAIN e.streams
  <2> DEFINE S == {i \in DOMAIN e.outgoing : e.outgoing[i].deviceStream # id}
             R == {x \in Range(e.outgoing) : x.deviceStream # id}
             k == KeepAt(e.outgoing, S)
             s == Device!Restrict(e.streams, DOMAIN e.streams \ {id})
             z == Device!Restrict(e.executors, DOMAIN e.executors \ {id})
  <2>1. g = [b EXCEPT !.streams = s, !.executors = z, !.outgoing = k]
    BY <1>3, <1>8, DeviceNames DEF Device!CloseStream, b
  <2>2. S = {i \in DOMAIN e.outgoing : e.outgoing[i] \in R}
    BY DEF Range
  <2>3. KeptOf(e.outgoing, R, k)
    <3> HIDE DEF S, R
    <3> QED  BY <1>5, <2>2, Kept
  <2>4. /\ DOMAIN s = DOMAIN e.streams \ {id} /\ s \in [DOMAIN s -> Nat]
        /\ \A i \in DOMAIN s : s[i] = e.streams[i]
    BY <1>5 DEF Device!Restrict
  <2>5. /\ DOMAIN z = DOMAIN e.executors \ {id}
        /\ \A i \in DOMAIN z : z[i] = e.executors[i]
    BY DEF Device!Restrict
  <2> HIDE DEF k, s, z
  <2>6. /\ g.state = b.state /\ g.outgoing = k /\ g.streams = s
        /\ g.executors = z /\ g.nextStreamId = b.nextStreamId
        /\ g.assertsHold = b.assertsHold /\ g.toHost = b.toHost /\ g.isOpen = b.isOpen
    BY <1>4, <2>1 DEF DeviceFields
  <2>7. g \in DeviceFields(X \cup {"Connected"} \cup {s, z, k})
    BY <1>4, <2>1 DEF DeviceFields
  <2>8. k \in Seq(Message)
    BY <2>3 DEF KeptOf
  <2>9. DeviceReady(g)
    BY <1>3, <1>5, <2>6, <2>7, <2>8 DEF DeviceReady, DeviceWhole
  <2>10. DeviceDrops(e, g, id, R)
    BY <1>3, <2>3, <2>4, <2>5, <2>6 DEF DeviceDrops
  <2> QED  BY <1>3, <1>8, <2>6, <2>9, <2>10 DEF DeviceFrees
<1>9. CASE m.command = "Close" /\ id \notin DOMAIN e.streams
  <2>1. g = b
    BY <1>3, <1>9 DEF Device!CloseStream, b
  <2> QED  BY <1>6, <1>7, <1>9, <2>1
<1>10. CASE m.command = "Ok"
  <2>1. g = b
    BY <1>10 DEF b
  <2>2. 0 \notin DOMAIN e.streams
    BY DEF DeviceSound
  <2> QED  BY <1>6, <1>7, <1>10, <2>1, <2>2
<1> QED  BY <1>8, <1>9, <1>10

(* handleMessage(), of every message that the device takes. *)
LEMMA DeviceHandles ==
    ASSUME NEW e, DeviceSound(e), DeviceWhole(e), Idle(e), NEW m, DeviceInput(e, m),
           NEW f, f = Device!HandleMessage(e, m)
    PROVE  DeviceSteps(e, f, m)
<1>1. /\ e.state \in {"Disconnected", "Connected", "Waiting"}
      /\ e.state # "Disconnected" => DeviceReady(e)
  BY DEF DeviceSound, DeviceReady
<1>2. CASE m.command = "Connect"
  <2> DEFINE g == Device!HandleConnect(e, m)
  <2>1. f = Device!ProcessQueue(g)
    BY <1>1, <1>2 DEF Device!HandleMessage, Device!HandleInDisconnected,
                      Device!HandleInConnected
  <2>2. m = ConnectMessage
    BY <1>2 DEF DeviceInput
  <2>3. DeviceGreets(e, g, m) /\ g.outgoing = <<>> /\ DeviceWhole(g)
    BY <2>2, DeviceHandlesConnect
  <2> HIDE DEF g
  <2>4. f = g
    BY <2>1, <2>3, DeviceWaits
  <2> QED  BY <2>3, <2>4 DEF DeviceSteps, DeviceActs, PumpsOrNot, Idle
<1>3. CASE m.command # "Connect"
  <2>1. DeviceReady(e) /\ e.state # "Disconnected"
    <3>1. e.state # "Disconnected"
      BY <1>3 DEF DeviceInput, ConnectMessage, QdbMessage
    <3> QED  BY <1>1, <3>1
  <2>2. CASE m.command = "Open"
    <3> DEFINE g == Device!HandleOpen(e, m)
    <3>1. f = Device!ProcessQueue(g)
      BY <2>1, <2>2 DEF Device!HandleMessage, Device!HandleInConnected
    <3>2. DeviceGrants(e, g, m) /\ DeviceWhole(g) /\ Idle(g) /\ (g.outgoing = <<>> \/ g.state = "Waiting")
      BY <2>1, <2>2, DeviceHandlesOpen
    <3> HIDE DEF g
    <3>3. f = g
      BY <3>1, <3>2, DeviceWaits
    <3> QED  BY <3>2, <3>3 DEF DeviceSteps, DeviceActs, PumpsOrNot
  <2>3. CASE m.command = "Write"
    <3> DEFINE g == Device!HandleWrite(e, m)
    <3>1. f = Device!ProcessQueue(g)
      BY <2>1, <2>3 DEF Device!HandleMessage, Device!HandleInConnected
    <3>2. CASE m.deviceStream \notin DOMAIN e.streams
      <4>1. DeviceRefuses(e, g, m) /\ Idle(g) /\ DeviceReady(g)
        BY <2>1, <2>3, <3>2, DeviceHandlesStray
      <4> HIDE DEF g
      <4>2. g.outgoing = <<>> \/ g.state = "Waiting"
        BY <4>1 DEF Idle
      <4>3. f = g
        BY <3>1, <4>2, DeviceWaits
      <4> QED  BY <4>1, <4>3 DEF DeviceSteps, DeviceActs, PumpsOrNot, DeviceReady
    <3>3. CASE m.deviceStream \in DOMAIN e.streams
      <4>1. /\ \E y : DeviceAnswers(e, y, m) /\ PumpsOrNot(y, g)
            /\ DeviceWhole(g) /\ Idle(g) /\ g.state \in {"Connected", "Waiting"}
        BY <2>1, <2>3, <3>3, DeviceHandlesPacket
      <4> HIDE DEF g
      <4>2. g.outgoing = <<>> \/ g.state = "Waiting"
        BY <4>1 DEF Idle
      <4>3. f = g
        BY <3>1, <4>2, DeviceWaits
      <4> QED  BY <4>1, <4>3 DEF DeviceSteps, DeviceActs
    <3> QED  BY <3>2, <3>3
  <2>4. CASE m.command \in {"Close", "Ok"}
    <3> DEFINE g == IF m.command = "Close"
                    THEN Device!CloseStream(Device!Release(e), m.deviceStream)
                    ELSE Device!Release(e)
    <3>1. f = Device!ProcessQueue(g)
      BY <2>1, <2>4 DEF Device!HandleMessage, Device!HandleInConnected
    <3>2. DeviceFrees(e, g, m) /\ DeviceReady(g)
      BY <2>1, <2>4, DeviceHandlesRelease
    <3> HIDE DEF g
    <3>3. \A x \in Range(g.outgoing) : x.command \in {"Write", "Close", "Ok"}
      <4>1. \A x \in Range(e.outgoing) : x.command \in {"Write", "Close", "Ok"}
        BY DEF DeviceSound
      <4> QED  BY <3>2, <4>1 DEF DeviceFrees, DeviceDrops, KeptOf
    <3>4. PumpsOrNot(g, f) /\ DeviceWhole(f) /\ Idle(f)
      BY <3>1, <3>2, <3>3, DeviceProcesses
    <3> QED  BY <3>2, <3>4 DEF DeviceSteps, DeviceActs
  <2> QED  BY <1>3, <2>2, <2>3, <2>4 DEF DeviceInput
<1> QED  BY <1>2, <1>3

(* What is on its way to the device is what it takes. *)
LEMMA DeviceIsSent ==
    ASSUME NEW e, NEW p, NEW m, NEW q, SentSound(p, e), ShorterBy(p, m, q)
    PROVE  DeviceInput(e, m)
<1>1. m \in Range(p) /\ m \in Message /\ p[1] = m /\ p # <<>>
  BY DEF ShorterBy
<1> QED  BY <1>1 DEF DeviceInput, SentSound, GoodConnects

(* The device handles a message, up to what it lets go out. *)
LEMMA DeviceActsInWorld ==
    ASSUME NEW n, NEW c, NEW d, NEW e, NEW g, NEW w, NEW r, NEW m,
           World(n, c, e, w, r), DeviceTakes(c, d, m), d.toDevice = Tail(c.toDevice),
           DeviceActs(e, g, m)
    PROVE  World(n, d, g, w, r)
<1>1. CASE DeviceGreets(e, g, m)
  BY <1>1, DeviceConnects DEF DeviceGreets
<1>2. CASE DeviceGrants(e, g, m)
  <2>1. PICK y, x :
          /\ x = QdbMessage("Ok", m.hostStream, y, 0) /\ DeviceOpens(e, g, y, m.hostStream)
          /\ Replies(e, g, {x}) /\ Range(e.toHost) \subseteq Range(g.toHost)
          /\ LongerBy(Out(e), x, Out(g))
    BY <1>2 DEF DeviceGrants
  <2>2. m.command = "Open"
    BY <1>2 DEF DeviceGrants
  <2> QED  BY <2>1, <2>2, DeviceTakesOpen
<1>3. CASE DeviceRefuses(e, g, m)
  <2>1. PICK S, k : DeviceAdds(e, g, m, S, k)
    BY <1>3 DEF DeviceRefuses
  <2>2. DeviceReplies(c, d, e, g, m, S, k)
    BY <2>1 DEF DeviceReplies, DeviceAdds
  <2>3. m.deviceStream \notin DOMAIN e.streams
    BY <1>3 DEF DeviceRefuses
  <2> QED  BY <2>2, <2>3, DeviceTakesStray
<1>4. CASE DeviceAnswers(e, g, m)
  <2>1. PICK S, x, o :
          /\ DeviceAdds(e, g, m, S, 1)
          /\ x = QdbMessage("Ok", m.hostStream, m.deviceStream, 0)
          /\ IF e.executors[m.deviceStream] = Device!NoExecutor THEN S = {x}
             ELSE S = {x, m} /\ LongerBy(Out(e), x, o) /\ LongerBy(o, m, Out(g))
    BY <1>4 DEF DeviceAnswers
  <2>2. DeviceReplies(c, d, e, g, m, S, 1)
    BY <2>1 DEF DeviceReplies, DeviceAdds
  <2>3. m.deviceStream \in DOMAIN e.streams
    BY <1>4 DEF DeviceAnswers
  <2> QED  BY <2>1, <2>2, <2>3, DeviceTakesWrite
<1>5. CASE DeviceFrees(e, g, m)
  <2>1. PICK y, R :
          /\ DeviceDrops(e, g, y, R) /\ g.toHost = e.toHost
          /\ m.command = "Close" => y = m.deviceStream
          /\ m.command = "Ok" => y \notin DOMAIN e.streams
    BY <1>5 DEF DeviceFrees
  <2>2. m.command \in {"Close", "Ok"}
    BY <1>5 DEF DeviceFrees
  <2> QED  BY <2>1, <2>2, DeviceGoesFree
<1> QED  BY <1>1, <1>2, <1>3, <1>4, <1>5 DEF DeviceActs

(* The device handles a message while the cable is in. *)
LEMMA DeviceEvent ==
    ASSUME NEW n, NEW c, NEW d, NEW e, NEW f, NEW w, NEW r, NEW m,
           World(n, c, e, w, r), Idle(e), DeviceWhole(e),
           DeviceTakes(c, d, m), d.toDevice = Tail(c.toDevice),
           f = Device!HandleMessage(e, m)
    PROVE  World(n, d, f, w, r) /\ Idle(f) /\ DeviceWhole(f)
<1>1. DeviceSound(e) /\ SentSound(c.toDevice, e) /\ ShorterBy(c.toDevice, m, d.toDevice)
  BY DEF World, DeviceTakes
<1>2. DeviceInput(e, m)
  BY <1>1, DeviceIsSent
<1>3. DeviceSteps(e, f, m)
  BY <1>1, <1>2, DeviceHandles
<1>4. PICK g : DeviceActs(e, g, m) /\ PumpsOrNot(g, f)
  BY <1>3 DEF DeviceSteps
<1>5. World(n, d, g, w, r)
  BY <1>4, DeviceActsInWorld
<1>6. World(n, d, f, w, r)
  BY <1>4, <1>5, Pump DEF PumpsOrNot
<1> QED  BY <1>3, <1>6 DEF DeviceSteps

(* The same with the cable out, when what the device sends is lost. *)
LEMMA DeviceEventLost ==
    ASSUME NEW e, NEW f, NEW g, NEW p, NEW q, NEW m, DeviceSound(e), SentSound(p, e), Idle(e),
           DeviceWhole(e), ShorterBy(p, m, q), f = Device!HandleMessage(e, m),
           SameDevice(f, g), g.toHost \in Seq(Message)
    PROVE  DeviceSound(g) /\ SentSound(q, g) /\ Idle(g) /\ DeviceWhole(f)
<1>1. DeviceInput(e, m)
  BY DeviceIsSent
<1>2. DeviceSteps(e, f, m)
  BY <1>1, DeviceHandles
<1>3. PICK h : DeviceActs(e, h, m) /\ PumpsOrNot(h, f)
  BY <1>2 DEF DeviceSteps
<1>4. DeviceSound(h) /\ SentSound(q, h)
  <2>1. e.toHost \in Seq(Message) /\ ConnectMessage \in Message
    BY DEF DeviceSound, ConnectMessage, QdbMessage, qdbProtocolVersion, Message, Commands, StreamId
  <2>2. CASE DeviceGreets(e, h, m)
    <3>1. h.toHost \in Seq(Message)
      BY <2>1, <2>2, Longer DEF DeviceGreets, LongerBy
    <3> QED  BY <2>2, <3>1, ResetSound DEF DeviceGreets
  <2>3. CASE DeviceGrants(e, h, m)
    <3>1. PICK y, x :
            /\ x = QdbMessage("Ok", m.hostStream, y, 0) /\ DeviceOpens(e, h, y, m.hostStream)
            /\ Replies(e, h, {x})
      BY <2>3 DEF DeviceGrants
    <3> QED  BY <3>1, OpenSound
  <2>4. ASSUME NEW S, NEW k, DeviceAdds(e, h, m, S, k)
        PROVE  DeviceSound(h) /\ SentSound(q, h)
    <3>1. Replies(e, h, S) /\ SameStreams(e, h) /\ Answerable(e, S)
      BY <2>4 DEF DeviceAdds
    <3> QED  BY <3>1, ReplySound
  <2>5. CASE DeviceRefuses(e, h, m)
    BY <2>4, <2>5 DEF DeviceRefuses
  <2>6. CASE DeviceAnswers(e, h, m)
    BY <2>4, <2>6 DEF DeviceAnswers
  <2>7. CASE DeviceFrees(e, h, m)
    <3>1. PICK y, R : DeviceDrops(e, h, y, R) /\ h.toHost = e.toHost
      BY <2>7 DEF DeviceFrees
    <3>2. h.toHost \in Seq(Message)
      BY <2>1, <3>1
    <3> QED  BY <3>1, <3>2, DeviceDropsSound
  <2> QED  BY <1>3, <2>2, <2>3, <2>5, <2>6, <2>7 DEF DeviceActs
<1>5. DeviceSound(f) /\ SentSound(q, f)
  BY <1>3, <1>4, PumpSound DEF PumpsOrNot
<1>6. DeviceSound(g) /\ SentSound(q, g)
  BY <1>5 DEF DeviceSound, SentSound, SameDevice, Owned
<1> QED  BY <1>2, <1>6 DEF DeviceSteps, SameDevice, Idle

(* The record of the host's object has its fields, whatever they are. *)
HostFields(X) ==
    [state : X, outgoing : X, streams : X, requests : X, nextStreamId : X,
     opening : X, holders : X, object : X, assertsHold : X, toDevice : X, sends : X]

HostWhole(c) == \E X : c \in HostFields(X)

(* The host's object as if it had sent p. *)
Image(c, p) ==
    [state |-> c.state, outgoing |-> c.outgoing, streams |-> c.streams,
     requests |-> c.requests, nextStreamId |-> c.nextStreamId, opening |-> c.opening,
     holders |-> c.holders, object |-> c.object, assertsHold |-> c.assertsHold,
     toDevice |-> p]

(* The object is sound as far as it knows, which is what it is as long as no
   send has failed. *)
Fine(n, c, p, e, w, r) ==
    /\ HostWhole(c) /\ c.sends \in Nat
    /\ World(n, Image(c, p), e, w, r)
    /\ c.sends = 0 \/ p = c.toDevice

NotesGood(w, r) ==
    /\ NotesTyped(w, r)
    /\ \A h \in StreamIds : r[h] = [k \in 1..Len(r[h]) |-> k] /\ Len(r[h]) <= w[h]

(* The object has lost its connection for good. *)
Empty(c) ==
    /\ c.state = "Disconnected" /\ c.outgoing = <<>> /\ c.requests = {}
    /\ c.opening = {} /\ c.holders = {} /\ DOMAIN c.streams = {}
    /\ c.streams \in [DOMAIN c.streams -> Nat] /\ c.nextStreamId \in 1..MaxStreams + 1
    /\ c.assertsHold = TRUE

Lost(c) == Empty(c) /\ c.object \in {"live", "crashed", "destroyed"}

Gone(c, w, r) == Lost(c) /\ NotesGood(w, r)

(* With at most k sends c has become d. *)
Wired(c, d, e, k) ==
    /\ c.sends \in Nat /\ d.sends \in Nat /\ k \in Nat
    /\ d.sends <= c.sends /\ c.sends <= d.sends + k
    /\ d.toDevice = c.toDevice \/ (c.sends # 0 /\ SentSound(d.toDevice, e))

Outcome(n, c, d, p, e, w, r, k) ==
    /\ Wired(c, d, e, k)
    /\ \/ Gone(d, w, r) /\ HostWhole(d) /\ d.sends = 0 /\ c.sends < k
       \/ \E q : Fine(n, d, q, e, w, r) /\ (p = c.toDevice => q = d.toDevice)

(* The object as if it had sent p is what it was but for its pipe. *)
LEMMA ImageFields ==
    ASSUME NEW c, NEW p
    PROVE  /\ Image(c, p).state = c.state /\ Image(c, p).outgoing = c.outgoing
           /\ Image(c, p).streams = c.streams /\ Image(c, p).requests = c.requests
           /\ Image(c, p).nextStreamId = c.nextStreamId /\ Image(c, p).opening = c.opening
           /\ Image(c, p).holders = c.holders /\ Image(c, p).object = c.object
           /\ Image(c, p).assertsHold = c.assertsHold /\ Image(c, p).toDevice = p
BY DEF Image

(* The operators of module Connection are those known here. *)
LEMMA HostNames ==
    /\ \A S : Host!Cardinality(S) = Cardinality(S)
    /\ \A S, k : Host!Nth(S, k) = Nth(S, k)
    /\ \A q, S : Host!KeepAt(q, S) = KeepAt(q, S)
    /\ \A x, h, d, y : Host!QdbMessage(x, h, d, y) = QdbMessage(x, h, d, y)
    /\ Host!ConnectMessage = ConnectMessage
    /\ Host!Message = Message
<1>0. \A S : Host!Cardinality(S) = Cardinality(S)
  BY DEF Host!Cardinality, Cardinality
<1>1. \A S, k : Host!Nth(S, k) = Nth(S, k)
  <2>1. \A S, i : Host!Rank(S, i) = Rank(S, i)
    BY <1>0 DEF Host!Rank, Rank
  <2> QED  BY <2>1 DEF Host!Nth, Nth
<1>2. \A q, S : Host!KeepAt(q, S) = KeepAt(q, S)
  BY <1>0, <1>1 DEF Host!KeepAt, KeepAt
<1>3. \A x, h, d, y : Host!QdbMessage(x, h, d, y) = QdbMessage(x, h, d, y)
  BY DEF Host!QdbMessage, QdbMessage
<1>4. Host!ConnectMessage = ConnectMessage
  BY DEF Host!ConnectMessage, ConnectMessage, Host!QdbMessage, QdbMessage,
         Host!qdbProtocolVersion, qdbProtocolVersion
<1>5. Host!Message = Message
  BY DEF Host!Message, Message, Host!Commands, Commands, Host!StreamId, StreamId
<1> QED  BY <1>0, <1>1, <1>2, <1>3, <1>4, <1>5

(* What a sound object is, whatever it is thought to have sent. *)
LEMMA FineFields ==
    ASSUME NEW n, NEW c, NEW p, NEW e, NEW w, NEW r, Fine(n, c, p, e, w, r)
    PROVE  /\ HostWhole(c) /\ c.sends \in Nat /\ p \in Seq(Message)
           /\ c.state \in {"Disconnected", "WaitingForConnection", "Connected", "Waiting"}
           /\ c.outgoing \in Seq(Message)
           /\ c.streams \in [DOMAIN c.streams -> Nat] /\ DOMAIN c.streams \subseteq Nat
           /\ c.holders \subseteq DOMAIN c.streams
           /\ c.nextStreamId \in 1..MaxStreams + 1
           /\ c.object \in {"new", "live", "destroyed"} /\ c.assertsHold = TRUE
           /\ c.object = "live" => c.state # "Disconnected"
           /\ c.object # "live" => c.state = "Disconnected"
           /\ c.object = "new" => c.outgoing = <<>>
           /\ \A m \in Range(c.outgoing) : m.command \in {"Open", "Write", "Close"}
           /\ DOMAIN c.streams \cap c.requests = {}
           /\ DOMAIN c.streams \cup c.requests \subseteq 1..c.nextStreamId - 1
           /\ ~Connected(c) => DOMAIN c.streams = {}
           /\ c.sends # 0 => c.toDevice = p
           /\ SentSound(p, e)
<1> DEFINE d == Image(c, p)
<1>1. /\ d.state = c.state /\ d.outgoing = c.outgoing
      /\ d.streams = c.streams /\ d.requests = c.requests
      /\ d.nextStreamId = c.nextStreamId /\ d.opening = c.opening
      /\ d.holders = c.holders /\ d.object = c.object
      /\ d.assertsHold = c.assertsHold /\ d.toDevice = p
  BY ImageFields
<1>2. World(n, d, e, w, r) /\ HostWhole(c) /\ c.sends \in Nat /\ (c.sends = 0 \/ p = c.toDevice)
  BY DEF Fine
<1> HIDE DEF d
<1>3. /\ HostTyped(d) /\ QueueSound(d) /\ IdsSound(d) /\ LifeSound(d) /\ Life(d)
      /\ SentSound(d.toDevice, e)
  BY <1>2 DEF World, J, HostSound
<1>4. Connected(c) <=> Connected(d)
  BY <1>1 DEF Connected
<1>5. /\ d.state \in {"Disconnected", "WaitingForConnection", "Connected", "Waiting"}
      /\ d.outgoing \in Seq(Message) /\ d.toDevice \in Seq(Message)
      /\ d.streams \in [DOMAIN d.streams -> Nat] /\ DOMAIN d.streams \subseteq Nat
      /\ d.holders \subseteq DOMAIN d.streams
      /\ d.nextStreamId \in 1..MaxStreams + 1
      /\ d.object \in {"new", "live", "destroyed"} /\ d.assertsHold = TRUE
  BY <1>3 DEF HostTyped, Life
<1>6. /\ d.object = "live" => d.state # "Disconnected"
      /\ d.object # "live" => d.state = "Disconnected"
      /\ d.object = "new" => d.outgoing = <<>>
      /\ \A m \in Range(d.outgoing) : m.command \in {"Open", "Write", "Close"}
      /\ DOMAIN d.streams \cap d.requests = {}
      /\ DOMAIN d.streams \cup d.requests \subseteq 1..d.nextStreamId - 1
      /\ ~Connected(d) => DOMAIN d.streams = {}
  BY <1>3 DEF Life, LifeSound, IdsSound, QueueSound
<1> QED  BY <1>1, <1>2, <1>3, <1>4, <1>5, <1>6

(* Nothing happened. *)
LEMMA NoChange ==
    ASSUME NEW n, NEW c, NEW p, NEW e, NEW w, NEW r, Fine(n, c, p, e, w, r)
    PROVE  Outcome(n, c, c, p, e, w, r, 0)
<1>1. c.sends \in Nat
  BY FineFields
<1>2. Wired(c, c, e, 0)
  BY <1>1 DEF Wired
<1>3. CASE p = c.toDevice
  BY <1>2, <1>3 DEF Outcome
<1>4. CASE p # c.toDevice
  BY <1>2, <1>4 DEF Outcome
<1> QED  BY <1>3, <1>4

(* resetConnection(false), after a send that failed. *)
LEMMA HostDisconnects ==
    ASSUME NEW c, NEW d, HostWhole(c), d = Host!Disconnect(c),
           c.holders \subseteq DOMAIN c.streams, c.nextStreamId \in 1..MaxStreams + 1,
           c.assertsHold = TRUE
    PROVE  /\ Empty(d) /\ HostWhole(d) /\ d.sends = c.sends /\ d.toDevice = c.toDevice
           /\ d.object = c.object
<1> DEFINE h == c.holders \ DOMAIN c.streams
           a == [c EXCEPT !.outgoing = <<>>, !.state = "Disconnected", !.requests = {},
                          !.holders = h, !.streams = Host!NoStreams]
           b == [a EXCEPT !.opening = {}]
<1>1. d = b
  BY DEF Host!Disconnect, Host!Forget
<1>2. PICK X : c \in HostFields(X)
  BY DEF HostWhole
<1>3. /\ h = {} /\ DOMAIN Host!NoStreams = {}
      /\ Host!NoStreams \in [DOMAIN Host!NoStreams -> Nat]
  BY DEF Host!NoStreams
<1> HIDE DEF h
<1> DEFINE Y == X \cup {<<>>, "Disconnected", {}, h, Host!NoStreams}
<1>4. a \in HostFields(Y)
  BY <1>2 DEF HostFields
<1>5. /\ a.outgoing = <<>> /\ a.state = "Disconnected" /\ a.requests = {}
      /\ a.holders = h /\ a.streams = Host!NoStreams /\ a.object = c.object
      /\ a.assertsHold = c.assertsHold /\ a.toDevice = c.toDevice /\ a.sends = c.sends
      /\ a.nextStreamId = c.nextStreamId
  BY <1>2 DEF HostFields
<1> HIDE DEF a, Y
<1>6. b \in HostFields(Y \cup {{}})
  BY <1>4 DEF HostFields
<1>7. /\ b.outgoing = a.outgoing /\ b.state = a.state /\ b.requests = a.requests
      /\ b.holders = a.holders /\ b.streams = a.streams /\ b.object = a.object
      /\ b.assertsHold = a.assertsHold /\ b.toDevice = a.toDevice /\ b.sends = a.sends
      /\ b.nextStreamId = a.nextStreamId
      /\ b.opening = {}
  BY <1>4 DEF HostFields
<1> HIDE DEF b
<1>8. HostWhole(d)
  BY <1>1, <1>6 DEF HostWhole
<1>9. Empty(b)
  BY <1>3, <1>5, <1>7 DEF Empty
<1> QED  BY <1>1, <1>5, <1>7, <1>8, <1>9

(* What the services have noted stays so when the connection is gone. *)
LEMMA NotesStay ==
    ASSUME NEW n, NEW c, NEW p, NEW e, NEW w, NEW r, Fine(n, c, p, e, w, r)
    PROVE  NotesGood(w, r)
<1>1. HostSound(Image(c, p), w, r)
  BY DEF Fine, World
<1>2. NotesTyped(w, r) /\ NotesSound(Image(c, p), w, r)
  BY <1>1 DEF HostSound
<1> QED  BY <1>2 DEF NotesSound, NotesGood

(* A send fails: the connection is gone. *)
LEMMA SendFails ==
    ASSUME NEW n, NEW c, NEW b, NEW d, NEW p, NEW e, NEW w, NEW r, NEW k, k = 1,
           Fine(n, c, p, e, w, r), c.object = "live", c.sends = 0,
           HostWhole(b), b.holders = c.holders, b.streams = c.streams,
           b.nextStreamId = c.nextStreamId,
           b.object = c.object, b.assertsHold = c.assertsHold,
           b.toDevice = c.toDevice, b.sends = c.sends, d = Host!Disconnect(b)
    PROVE  Outcome(n, c, d, p, e, w, r, k) /\ Gone(d, w, r) /\ d.object = c.object
<1>1. /\ c.holders \subseteq DOMAIN c.streams /\ c.assertsHold = TRUE
      /\ c.nextStreamId \in 1..MaxStreams + 1
  BY FineFields
<1>2. /\ b.holders \subseteq DOMAIN b.streams /\ b.assertsHold = TRUE
      /\ b.nextStreamId \in 1..MaxStreams + 1
      /\ b.object \in {"live", "crashed", "destroyed"}
  BY <1>1
<1>3. /\ Empty(d) /\ HostWhole(d) /\ d.sends = b.sends /\ d.toDevice = b.toDevice
      /\ d.object = b.object
  BY <1>2, HostDisconnects
<1>4. Gone(d, w, r)
  BY <1>2, <1>3, NotesStay DEF Gone, Lost
<1>5. Wired(c, d, e, k)
  BY <1>3 DEF Wired
<1> QED  BY <1>3, <1>4, <1>5 DEF Outcome

(* A step of the host that sends nothing. *)
LEMMA Still ==
    ASSUME NEW n, NEW c, NEW d, NEW p, NEW f, NEW v, NEW s,
           c.sends \in Nat, c.sends = 0 \/ p = c.toDevice,
           HostWhole(d), d.sends = c.sends, d.toDevice = c.toDevice,
           World(n, Image(d, p), f, v, s)
    PROVE  Outcome(n, c, d, p, f, v, s, 0) /\ Fine(n, d, p, f, v, s)
<1>1. Fine(n, d, p, f, v, s)
  BY DEF Fine
<1>2. Wired(c, d, f, 0)
  BY DEF Wired
<1>3. p = c.toDevice => p = d.toDevice
  OBVIOUS
<1>4. Outcome(n, c, d, p, f, v, s, 0)
  BY <1>1, <1>2, <1>3 DEF Outcome
<1> QED  BY <1>1, <1>4

(* A step of the host that sends one message. *)
LEMMA Sent ==
    ASSUME NEW n, NEW c, NEW d, NEW p, NEW f, NEW v, NEW s,
           c.sends \in Nat, c.sends # 0, HostWhole(d), d.sends = c.sends - 1,
           World(n, Image(d, d.toDevice), f, v, s)
    PROVE  Outcome(n, c, d, p, f, v, s, 1)
<1>1. Fine(n, d, d.toDevice, f, v, s)
  BY DEF Fine
<1>2. SentSound(d.toDevice, f)
  <2>1. SentSound(Image(d, d.toDevice).toDevice, f)
    BY DEF World
  <2> QED  BY <2>1, ImageFields
<1>3. Wired(c, d, f, 1)
  BY <1>2 DEF Wired
<1> QED  BY <1>1, <1>3 DEF Outcome

(* One step of the host after another. *)
LEMMA OutcomeThen ==
    ASSUME NEW n, NEW c, NEW d, NEW g, NEW p, NEW e, NEW w, NEW r, NEW k,
           NEW v, NEW s, NEW l, Outcome(n, c, d, p, e, w, r, k),
           Gone(d, w, r) /\ HostWhole(d) /\ d.sends = 0 =>
               Gone(g, v, s) /\ HostWhole(g) /\ Wired(d, g, e, l),
           \A q : Fine(n, d, q, e, w, r) => Outcome(n, d, g, q, e, v, s, l)
    PROVE  Outcome(n, c, g, p, e, v, s, k + l)
<1>1. Wired(c, d, e, k)
  BY DEF Outcome
<1>2. ASSUME Wired(d, g, e, l) PROVE Wired(c, g, e, k + l)
  <2>1. /\ c.sends \in Nat /\ d.sends \in Nat /\ g.sends \in Nat /\ k \in Nat /\ l \in Nat
        /\ d.sends <= c.sends /\ c.sends <= d.sends + k
        /\ g.sends <= d.sends /\ d.sends <= g.sends + l
    BY <1>1, <1>2 DEF Wired
  <2>2. g.sends <= c.sends /\ c.sends <= g.sends + (k + l) /\ k + l \in Nat
    BY <2>1
  <2>3. d.sends # 0 => c.sends # 0
    BY <2>1
  <2>4. g.toDevice = c.toDevice \/ (c.sends # 0 /\ SentSound(g.toDevice, e))
    BY <1>1, <1>2, <2>3 DEF Wired
  <2> QED  BY <2>1, <2>2, <2>4 DEF Wired
<1>3. CASE Gone(d, w, r) /\ HostWhole(d) /\ d.sends = 0 /\ c.sends < k
  <2>1. Gone(g, v, s) /\ HostWhole(g) /\ Wired(d, g, e, l)
    BY <1>3
  <2>2. Wired(c, g, e, k + l)
    BY <1>2, <2>1
  <2>3. g.sends = 0
    BY <1>3, <2>1 DEF Wired
  <2>4. c.sends < k + l
    <3>1. c.sends \in Nat /\ k \in Nat /\ l \in Nat
      BY <1>1, <2>1 DEF Wired
    <3> QED  BY <1>3, <3>1
  <2> QED  BY <2>1, <2>2, <2>3, <2>4 DEF Outcome
<1>4. ASSUME NEW q, Fine(n, d, q, e, w, r), p = c.toDevice => q = d.toDevice
      PROVE  Outcome(n, c, g, p, e, v, s, k + l)
  <2>1. Outcome(n, d, g, q, e, v, s, l)
    BY <1>4
  <2>2. Wired(d, g, e, l) /\ Wired(c, g, e, k + l)
    BY <1>2, <2>1 DEF Outcome
  <2>3. ASSUME Gone(g, v, s), HostWhole(g), g.sends = 0, d.sends < l
        PROVE  Outcome(n, c, g, p, e, v, s, k + l)
    <3>1. c.sends < k + l
      <4>1. /\ c.sends \in Nat /\ d.sends \in Nat /\ k \in Nat /\ l \in Nat
            /\ c.sends <= d.sends + k
        BY <1>1, <2>2 DEF Wired
      <4> QED  BY <2>3, <4>1
    <3> QED  BY <2>2, <2>3, <3>1 DEF Outcome
  <2>4. ASSUME NEW x, Fine(n, g, x, e, v, s), q = d.toDevice => x = g.toDevice
        PROVE  Outcome(n, c, g, p, e, v, s, k + l)
    <3>1. p = c.toDevice => x = g.toDevice
      BY <1>4, <2>4
    <3> QED  BY <2>2, <2>4, <3>1 DEF Outcome
  <2> QED  BY <2>1, <2>3, <2>4 DEF Outcome
<1>5. \/ Gone(d, w, r) /\ HostWhole(d) /\ d.sends = 0 /\ c.sends < k
      \/ \E q : Fine(n, d, q, e, w, r) /\ (p = c.toDevice => q = d.toDevice)
  BY DEF Outcome
<1> QED  BY <1>3, <1>4, <1>5

(* What is left of a queue that loses nothing. *)
LEMMA AllKept ==
    ASSUME NEW q \in Seq(Message)
    PROVE  KeptOf(q, Range(q), q)
<1>1. Range(q) = Range(q) \cap Range(q)
  OBVIOUS
<1>2. \A S : Num(q, S) \in Nat
  BY NumType
<1> QED  BY <1>1, <1>2 DEF KeptOf

(* closeStream() of the host. *)
LEMMA HostCloses ==
    ASSUME NEW c, HostWhole(c), c.outgoing \in Seq(Message),
           c.streams \in [DOMAIN c.streams -> Nat], c.holders \subseteq DOMAIN c.streams,
           NEW id, NEW d, d = Host!CloseStream(c, id)
    PROVE  /\ HostWhole(d) /\ d.sends = c.sends /\ d.toDevice = c.toDevice
           /\ \E R : Drops(c, d, id, R, c.outgoing)
<1>1. CASE id \notin DOMAIN c.streams
  <2>1. d = c
    BY <1>1 DEF Host!CloseStream
  <2>2. KeptOf(c.outgoing, Range(c.outgoing), c.outgoing)
    BY AllKept
  <2>3. Drops(c, d, id, Range(c.outgoing), c.outgoing)
    BY <1>1, <2>1, <2>2 DEF Drops, SameIds
  <2> QED  BY <2>1, <2>3
<1>2. CASE id \in DOMAIN c.streams
  <2> DEFINE S == {i \in DOMAIN c.outgoing : c.outgoing[i].hostStream # id}
             R == {x \in Range(c.outgoing) : x.hostStream # id}
             k == KeepAt(c.outgoing, S)
             s == Host!Restrict(c.streams, DOMAIN c.streams \ {id})
             h == c.holders \ {id}
  <2>1. d = [c EXCEPT !.streams = s, !.holders = h, !.outgoing = k]
    BY <1>2, HostNames DEF Host!CloseStream
  <2>2. S = {i \in DOMAIN c.outgoing : c.outgoing[i] \in R}
    BY DEF Range
  <2>3. KeptOf(c.outgoing, R, k)
    <3> HIDE DEF S, R
    <3> QED  BY <2>2, Kept
  <2>4. /\ DOMAIN s = DOMAIN c.streams \ {id} /\ s \in [DOMAIN s -> Nat]
        /\ \A i \in DOMAIN s : s[i] = c.streams[i]
    BY DEF Host!Restrict
  <2>5. PICK X : c \in HostFields(X)
    BY DEF HostWhole
  <2> HIDE DEF k, s, h
  <2>6. /\ d.streams = s /\ d.holders = h /\ d.outgoing = k /\ d.state = c.state
        /\ d.requests = c.requests /\ d.nextStreamId = c.nextStreamId
        /\ d.opening = c.opening /\ d.object = c.object /\ d.assertsHold = c.assertsHold
        /\ d.toDevice = c.toDevice /\ d.sends = c.sends
    BY <2>1, <2>5 DEF HostFields
  <2>7. d \in HostFields(X \cup {s, h, k})
    BY <2>1, <2>5 DEF HostFields
  <2>8. Drops(c, d, id, R, c.outgoing)
    BY <2>3, <2>4, <2>6 DEF Drops, SameIds, h
  <2> QED  BY <2>6, <2>7, <2>8 DEF HostWhole
<1> QED  BY <1>1, <1>2

(* What takes few sends takes no more than more. *)
LEMMA OutcomeMore ==
    ASSUME NEW n, NEW c, NEW d, NEW p, NEW e, NEW w, NEW r, NEW k, NEW l \in Nat,
           Outcome(n, c, d, p, e, w, r, k), k <= l
    PROVE  Outcome(n, c, d, p, e, w, r, l)
<1>1. Wired(c, d, e, k)
  BY DEF Outcome
<1>2. Wired(c, d, e, l)
  BY <1>1 DEF Wired
<1>3. c.sends < k => c.sends < l
  <2>1. c.sends \in Nat /\ k \in Nat
    BY <1>1 DEF Wired
  <2> QED  BY <2>1
<1> QED  BY <1>2, <1>3 DEF Outcome

(* The first message of the queue is sent. *)
LEMMA HostTransmits ==
    ASSUME NEW c, HostWhole(c), c.sends \in Nat, c.sends # 0, NEW m, NEW b, NEW t,
           b = [c EXCEPT !.outgoing = Tail(c.outgoing)], t = Host!Transmit(b, m)
    PROVE  /\ HostWhole(b) /\ HostWhole(t)
           /\ t.outgoing = Tail(c.outgoing) /\ t.toDevice = Append(c.toDevice, m)
           /\ t.sends = c.sends - 1
           /\ t.state = c.state /\ t.streams = c.streams /\ t.holders = c.holders
           /\ t.requests = c.requests /\ t.nextStreamId = c.nextStreamId
           /\ t.opening = c.opening /\ t.object = c.object /\ t.assertsHold = c.assertsHold
<1> DEFINE o == Tail(c.outgoing)
           a == Append(b.toDevice, m)
           k == b.sends - 1
<1>1. PICK X : c \in HostFields(X)
  BY DEF HostWhole
<1>2. b = [c EXCEPT !.outgoing = o]
  OBVIOUS
<1> HIDE DEF o
<1>3. b \in HostFields(X \cup {o})
  BY <1>1, <1>2 DEF HostFields
<1>4. /\ b.outgoing = o /\ b.toDevice = c.toDevice /\ b.sends = c.sends
      /\ b.state = c.state /\ b.streams = c.streams /\ b.holders = c.holders
      /\ b.requests = c.requests /\ b.nextStreamId = c.nextStreamId
      /\ b.opening = c.opening /\ b.object = c.object /\ b.assertsHold = c.assertsHold
  BY <1>1, <1>2 DEF HostFields
<1>5. t = [b EXCEPT !.toDevice = a, !.sends = k]
  BY DEF Host!Transmit
<1> HIDE DEF a, k
<1>6. t \in HostFields(X \cup {o} \cup {a, k})
  BY <1>3, <1>5 DEF HostFields
<1>7. /\ t.toDevice = a /\ t.sends = k
      /\ t.outgoing = b.outgoing
      /\ t.state = b.state /\ t.streams = b.streams /\ t.holders = b.holders
      /\ t.requests = b.requests /\ t.nextStreamId = b.nextStreamId
      /\ t.opening = b.opening /\ t.object = b.object /\ t.assertsHold = b.assertsHold
  BY <1>3, <1>5 DEF HostFields
<1> QED  BY <1>3, <1>4, <1>6, <1>7 DEF HostWhole, o, a, k

(* processQueue() of a live object. *)
LEMMA HostProcesses ==
    ASSUME NEW n, NEW c, NEW p, NEW e, NEW w, NEW r, Fine(n, c, p, e, w, r),
           c.object = "live", NEW d, d = Host!ProcessQueue(c)
    PROVE  Outcome(n, c, d, p, e, w, r, 1) /\ d.object = "live"
<1>0. /\ HostWhole(c) /\ c.sends \in Nat /\ p \in Seq(Message)
      /\ c.state \in {"Disconnected", "WaitingForConnection", "Connected", "Waiting"}
      /\ c.outgoing \in Seq(Message)
      /\ c.streams \in [DOMAIN c.streams -> Nat]
      /\ c.holders \subseteq DOMAIN c.streams
      /\ c.assertsHold = TRUE
      /\ c.state # "Disconnected"
      /\ \A m \in Range(c.outgoing) : m.command \in {"Open", "Write", "Close"}
      /\ c.sends # 0 => c.toDevice = p
  <2>1. /\ HostWhole(c) /\ c.sends \in Nat /\ p \in Seq(Message)
        /\ c.state \in {"Disconnected", "WaitingForConnection", "Connected", "Waiting"}
        /\ c.outgoing \in Seq(Message)
        /\ c.streams \in [DOMAIN c.streams -> Nat]
        /\ c.holders \subseteq DOMAIN c.streams
    BY FineFields
  <2>2. c.assertsHold = TRUE /\ c.state # "Disconnected"
    BY FineFields
  <2>3. \A m \in Range(c.outgoing) : m.command \in {"Open", "Write", "Close"}
    BY FineFields
  <2>4. c.sends # 0 => c.toDevice = p
    BY DEF Fine
  <2> QED  BY <2>1, <2>2, <2>3, <2>4
<1>1. CASE c.outgoing = <<>> \/ c.state \in {"Waiting", "WaitingForConnection"}
  <2>1. d = c
    BY <1>1 DEF Host!ProcessQueue
  <2>2. Outcome(n, c, c, p, e, w, r, 0)
    BY NoChange
  <2>3. Outcome(n, c, c, p, e, w, r, 1)
    <3> DEFINE one == 1
    <3>1. 0 <= one /\ one \in Nat
      OBVIOUS
    <3> HIDE DEF one
    <3>2. Outcome(n, c, c, p, e, w, r, one)
      BY <2>2, <3>1, OutcomeMore
    <3> QED  BY <3>2 DEF one
  <2> QED  BY <2>1, <2>3
<1>2. CASE ~(c.outgoing = <<>> \/ c.state \in {"Waiting", "WaitingForConnection"})
  <2> DEFINE m == Head(c.outgoing)
             rest == Tail(c.outgoing)
             b == [c EXCEPT !.outgoing = Tail(c.outgoing)]
             t == Host!Transmit(b, m)
  <2>1. c.state = "Connected" /\ c.outgoing # <<>>
    BY <1>0, <1>2
  <2>2. ShorterBy(c.outgoing, m, rest)
    BY <1>0, <2>1, Shorter
  <2>3. m \in Message /\ m \in Range(c.outgoing) /\ m.command \in {"Open", "Write", "Close"}
    <3>1. m \in Message /\ m \in Range(c.outgoing)
      BY <2>2 DEF ShorterBy
    <3> QED  BY <1>0, <3>1
  <2>4. d = IF c.sends = 0 THEN Host!Disconnect(b) ELSE Host!AfterSend(t, m)
    BY <1>2 DEF Host!ProcessQueue
  <2>5. CASE c.sends = 0
    <3>1. d = Host!Disconnect(b)
      BY <2>4, <2>5
    <3>2. PICK X : c \in HostFields(X)
      BY <1>0 DEF HostWhole
    <3>3. b \in HostFields(X \cup {rest})
      BY <3>2 DEF HostFields
    <3>4. /\ b.holders = c.holders /\ b.streams = c.streams
          /\ b.nextStreamId = c.nextStreamId /\ b.object = c.object
          /\ b.assertsHold = c.assertsHold /\ b.toDevice = c.toDevice /\ b.sends = c.sends
      BY <3>2 DEF HostFields
    <3>5. HostWhole(b)
      BY <3>3 DEF HostWhole
    <3> HIDE DEF b
    <3>6. Outcome(n, c, d, p, e, w, r, 1) /\ d.object = c.object
      BY <2>5, <3>1, <3>4, <3>5, SendFails
    <3> QED  BY <3>6
  <2>6. CASE c.sends # 0
    <3>0. d = Host!AfterSend(t, m) /\ c.toDevice = p
      BY <1>0, <2>4, <2>6
    <3>1. /\ HostWhole(t)
          /\ t.outgoing = rest /\ t.toDevice = Append(p, m)
          /\ t.sends = c.sends - 1
          /\ t.state = c.state /\ t.streams = c.streams /\ t.holders = c.holders
          /\ t.requests = c.requests /\ t.nextStreamId = c.nextStreamId
          /\ t.opening = c.opening /\ t.object = c.object /\ t.assertsHold = c.assertsHold
      BY <1>0, <2>6, <3>0, HostTransmits
    <3>2. LongerBy(p, m, Append(p, m))
      BY <1>0, <2>3, Longer
    <3>3. /\ World(n, Image(c, p), e, w, r)
          /\ c.sends = 0 \/ p = c.toDevice
      BY DEF Fine
    <3> HIDE DEF t, b, m, rest
    <3>4. CASE m.command \in {"Open", "Write"}
      <4>1. d = [t EXCEPT !.assertsHold = TRUE, !.state = "Waiting"]
        <5>1. d = [t EXCEPT !.assertsHold = t.assertsHold /\ t.state = "Connected",
                            !.state = "Waiting"]
          BY <3>0, <3>4 DEF Host!AfterSend
        <5>2. (t.assertsHold /\ t.state = "Connected") = TRUE
          BY <1>0, <2>1, <3>1
        <5> QED  BY <5>1, <5>2
      <4>2. PICK X : t \in HostFields(X)
        BY <3>1 DEF HostWhole
      <4>3. d \in HostFields(X \cup {TRUE, "Waiting"})
        BY <4>1, <4>2 DEF HostFields
      <4>4. /\ d.assertsHold = TRUE /\ d.state = "Waiting"
            /\ d.outgoing = t.outgoing /\ d.toDevice = t.toDevice /\ d.sends = t.sends
            /\ d.streams = t.streams /\ d.holders = t.holders
            /\ d.requests = t.requests /\ d.nextStreamId = t.nextStreamId
            /\ d.opening = t.opening /\ d.object = t.object
        BY <4>1, <4>2 DEF HostFields
      <4>5. HostSends(Image(c, p), Image(d, d.toDevice), m)
        <5>1. /\ d.outgoing = rest /\ d.toDevice = Append(p, m) /\ d.state = "Waiting"
              /\ d.streams = c.streams /\ d.holders = c.holders
              /\ d.object = c.object /\ d.assertsHold = c.assertsHold
          BY <1>0, <3>1, <4>4
        <5> QED  BY <2>1, <2>2, <3>2, <3>4, <5>1, ImageFields DEF HostSends
      <4>6. SameIds(Image(c, p), Image(d, d.toDevice))
        BY <3>1, <4>4, ImageFields DEF SameIds
      <4>7. World(n, Image(d, d.toDevice), e, w, r)
        BY <3>3, <4>5, <4>6, SendAsked
      <4>8. HostWhole(d) /\ d.sends = c.sends - 1 /\ d.object = "live"
        BY <3>1, <4>3, <4>4 DEF HostWhole
      <4> QED  BY <1>0, <2>6, <4>7, <4>8, Sent
    <3>5. CASE m.command = "Close"
      <4> DEFINE a == [t EXCEPT !.assertsHold = TRUE]
      <4>1. d = Host!CloseStream(a, m.hostStream)
        <5>1. d = Host!CloseStream([t EXCEPT !.assertsHold = t.assertsHold /\ t.state = "Connected"],
                                   m.hostStream)
          BY <3>0, <3>5 DEF Host!AfterSend
        <5>2. (t.assertsHold /\ t.state = "Connected") = TRUE
          BY <1>0, <2>1, <3>1
        <5> QED  BY <5>1, <5>2
      <4>2. PICK X : t \in HostFields(X)
        BY <3>1 DEF HostWhole
      <4>3. a \in HostFields(X \cup {TRUE})
        BY <4>2 DEF HostFields
      <4>4. /\ a.assertsHold = TRUE /\ a.state = t.state
            /\ a.outgoing = t.outgoing /\ a.toDevice = t.toDevice /\ a.sends = t.sends
            /\ a.streams = t.streams /\ a.holders = t.holders
            /\ a.requests = t.requests /\ a.nextStreamId = t.nextStreamId
            /\ a.opening = t.opening /\ a.object = t.object
        BY <4>2 DEF HostFields
      <4> HIDE DEF a
      <4>5. HostWhole(a) /\ a.outgoing \in Seq(Message)
        <5>1. rest \in Seq(Message)
          BY <2>2 DEF ShorterBy
        <5> QED  BY <3>1, <4>3, <4>4, <5>1 DEF HostWhole
      <4>6. /\ HostWhole(d) /\ d.sends = a.sends /\ d.toDevice = a.toDevice
            /\ \E R : Drops(a, d, m.hostStream, R, a.outgoing)
        <5>1. /\ a.streams \in [DOMAIN a.streams -> Nat]
              /\ a.holders \subseteq DOMAIN a.streams
          BY <1>0, <3>1, <4>4
        <5> QED  BY <4>1, <4>5, <5>1, HostCloses
      <4>7. PICK R : Drops(a, d, m.hostStream, R, a.outgoing)
        BY <4>6
      <4>8. Drops(Image(c, p), Image(d, d.toDevice), m.hostStream, R, rest)
        <5>1. /\ a.outgoing = rest /\ a.state = c.state /\ a.streams = c.streams
              /\ a.holders = c.holders /\ a.requests = c.requests
              /\ a.nextStreamId = c.nextStreamId /\ a.opening = c.opening
              /\ a.object = c.object /\ a.assertsHold = c.assertsHold
          BY <1>0, <3>1, <4>4
        <5> QED  BY <4>7, <5>1, ImageFields DEF Drops, SameIds
      <4>9. HostSendsClose(Image(c, p), Image(d, d.toDevice), m, rest)
        <5>1. d.toDevice = Append(p, m)
          BY <3>1, <4>4, <4>6
        <5> QED  BY <2>1, <2>2, <3>2, <3>5, <5>1, ImageFields DEF HostSendsClose
      <4>10. World(n, Image(d, d.toDevice), e, w, r)
        BY <3>3, <4>8, <4>9, SendClose
      <4>11. d.sends = c.sends - 1 /\ d.object = "live"
        BY <3>1, <4>4, <4>6, <4>7 DEF Drops
      <4> QED  BY <1>0, <2>6, <4>6, <4>10, <4>11, Sent
    <3> QED  BY <2>3, <3>4, <3>5
  <2> QED  BY <2>5, <2>6
<1> QED  BY <1>1, <1>2

(* What is sent, and how often, is told by the pipe alone. *)
LEMMA OutcomeFrom ==
    ASSUME NEW n, NEW c, NEW g, NEW d, NEW p, NEW e, NEW w, NEW r, NEW k,
           Outcome(n, g, d, p, e, w, r, k), g.sends = c.sends, g.toDevice = c.toDevice
    PROVE  Outcome(n, c, d, p, e, w, r, k)
<1>1. Wired(c, d, e, k)
  BY DEF Outcome, Wired
<1> QED  BY <1>1 DEF Outcome

(* What a message added to the queue leaves alone, seen with any pipe. *)
LEMMA ImageQueues ==
    ASSUME NEW c, NEW g, NEW m, NEW p, HostQueues(c, g, m)
    PROVE  HostQueues(Image(c, p), Image(g, p), m)
BY ImageFields DEF HostQueues

(* Neither do the ids depend on the pipe, *)
LEMMA ImageSameIds ==
    ASSUME NEW c, NEW g, NEW p, NEW q, SameIds(c, g)
    PROVE  SameIds(Image(c, p), Image(g, q))
BY ImageFields DEF SameIds

(* enqueueMessage() up to processQueue(). *)
LEMMA HostAppends ==
    ASSUME NEW c, HostWhole(c), c.outgoing \in Seq(Message), NEW m \in Message,
           NEW g, g = [c EXCEPT !.outgoing = Append(c.outgoing, m)]
    PROVE  /\ HostWhole(g) /\ g.sends = c.sends /\ g.toDevice = c.toDevice
           /\ g.object = c.object /\ g.outgoing = Append(c.outgoing, m)
           /\ g.state = c.state /\ g.streams = c.streams /\ g.holders = c.holders
           /\ g.assertsHold = c.assertsHold /\ SameIds(c, g)
           /\ LongerBy(c.outgoing, m, g.outgoing)
           /\ HostQueues(c, g, m)
<1> DEFINE o == Append(c.outgoing, m)
<1>1. PICK X : c \in HostFields(X)
  BY DEF HostWhole
<1>2. g = [c EXCEPT !.outgoing = o]
  OBVIOUS
<1>3. LongerBy(c.outgoing, m, o)
  BY Longer
<1> HIDE DEF o
<1>4. g \in HostFields(X \cup {o})
  BY <1>1, <1>2 DEF HostFields
<1>5. /\ g.outgoing = o /\ g.toDevice = c.toDevice /\ g.sends = c.sends
      /\ g.state = c.state /\ g.streams = c.streams /\ g.holders = c.holders
      /\ g.requests = c.requests /\ g.nextStreamId = c.nextStreamId
      /\ g.opening = c.opening /\ g.object = c.object /\ g.assertsHold = c.assertsHold
  BY <1>1, <1>2 DEF HostFields
<1>6. HostQueues(c, g, m)
  BY <1>3, <1>5 DEF HostQueues
<1>7. SameIds(c, g)
  BY <1>5 DEF SameIds
<1> QED  BY <1>3, <1>4, <1>5, <1>6, <1>7 DEF HostWhole, o

(* enqueueMessage() of a live object. *)
LEMMA Enqueues ==
    ASSUME NEW n, NEW c, NEW g, NEW d, NEW p, NEW e, NEW w, NEW r,
           c.object = "live", c.sends \in Nat, c.sends = 0 \/ p = c.toDevice,
           HostWhole(g), g.sends = c.sends, g.toDevice = c.toDevice,
           g.object = c.object, World(n, Image(g, p), e, w, r),
           d = Host!ProcessQueue(g)
    PROVE  Outcome(n, c, d, p, e, w, r, 1) /\ d.object = "live"
<1>1. Fine(n, g, p, e, w, r)
  BY DEF Fine
<1>2. Outcome(n, g, d, p, e, w, r, 1) /\ d.object = "live"
  BY <1>1, HostProcesses
<1> QED  BY <1>2, OutcomeFrom

(* A Close for a stream, the host's own or one the device alone has. *)
LEMMA EnqueuesClose ==
    ASSUME NEW n, NEW c, NEW p, NEW e, NEW w, NEW r, NEW m,
           Fine(n, c, p, e, w, r), c.object = "live",
           m \in Message, m.command = "Close", m.data = 0, Connected(c), Owned(m, e),
           m.hostStream \in DOMAIN c.streams => c.streams[m.hostStream] = m.deviceStream,
           m.hostStream \notin c.requests, m.hostStream < c.nextStreamId,
           NEW d, d = Host!EnqueueMessage(c, m)
    PROVE  Outcome(n, c, d, p, e, w, r, 1) /\ d.object = "live"
<1> DEFINE g == [c EXCEPT !.outgoing = Append(c.outgoing, m)]
<1>1. d = Host!ProcessQueue(g)
  BY DEF Host!EnqueueMessage
<1>2. /\ HostWhole(c) /\ c.sends \in Nat /\ c.outgoing \in Seq(Message)
  BY FineFields
<1>3. /\ HostWhole(g) /\ g.sends = c.sends /\ g.toDevice = c.toDevice
      /\ g.object = c.object
      /\ HostQueues(Image(c, p), Image(g, p), m) /\ SameIds(Image(c, p), Image(g, p))
  <2>1. /\ HostWhole(g) /\ g.sends = c.sends /\ g.toDevice = c.toDevice
        /\ g.object = c.object /\ HostQueues(c, g, m) /\ SameIds(c, g)
    BY <1>2, HostAppends
  <2> HIDE DEF g
  <2> QED  BY <2>1, ImageQueues, ImageSameIds
<1> HIDE DEF g
<1>4. World(n, Image(c, p), e, w, r) /\ (c.sends = 0 \/ p = c.toDevice)
  BY DEF Fine
<1>5. World(n, Image(g, p), e, w, r)
  <2> DEFINE b == Image(c, p)
             a == Image(g, p)
  <2>1. /\ World(n, b, e, w, r) /\ HostQueues(b, a, m) /\ SameIds(b, a)
        /\ Connected(b) /\ m.hostStream \notin b.requests /\ m.hostStream < b.nextStreamId
        /\ m.hostStream \in DOMAIN b.streams => b.streams[m.hostStream] = m.deviceStream
    BY <1>3, <1>4, ImageFields DEF Connected
  <2> HIDE DEF a, b
  <2>2. World(n, a, e, w, r)
    BY <2>1, QueueClose
  <2> QED  BY <2>2 DEF a
<1> QED  BY <1>1, <1>2, <1>3, <1>4, <1>5, Enqueues

(* The service notes that packet x of stream g was written, the next one. *)
Noted(w, g, x, v) == x = w[g] + 1 /\ w[g] < MaxPackets /\ v = [w EXCEPT ![g] = x]

(* Stream::write(). *)
LEMMA EnqueuesWrite ==
    ASSUME NEW n, NEW c, NEW p, NEW e, NEW w, NEW r, NEW g \in c.holders, NEW x, NEW v,
           Fine(n, c, p, e, w, r), c.object = "live",
           Noted(w, g, x, v), NEW d, d = Host!Write(c, g, x)
    PROVE  Outcome(n, c, d, p, e, v, r, 1) /\ d.object = "live"
<1> DEFINE m == QdbMessage("Write", g, c.streams[g], x)
           b == [c EXCEPT !.outgoing = Append(c.outgoing, m)]
<1>1. d = Host!ProcessQueue(b)
  BY HostNames DEF Host!EnqueueMessage, Host!Write
<1>2. /\ HostWhole(c) /\ c.sends \in Nat /\ c.outgoing \in Seq(Message)
  BY FineFields
<1> HIDE DEF m
<1>3. /\ HostWhole(b) /\ b.sends = c.sends /\ b.toDevice = c.toDevice
      /\ b.object = c.object
      /\ HostQueues(Image(c, p), Image(b, p), m) /\ SameIds(Image(c, p), Image(b, p))
  <2>1. g \in StreamIds
    <3>1. c.holders \subseteq DOMAIN c.streams /\ c.nextStreamId \in 1..MaxStreams + 1
      BY FineFields
    <3>2. DOMAIN c.streams \subseteq 1..c.nextStreamId - 1
      BY FineFields
    <3>3. g \in 1..c.nextStreamId - 1
      BY <3>1, <3>2
    <3> QED  BY <3>1, <3>3, BoundsAssumption DEF StreamIds
  <2>2. x \in Nat
    <3>1. w \in [StreamIds -> 0..MaxPackets]
      BY NotesStay DEF NotesGood, NotesTyped
    <3> QED  BY <2>1, <3>1 DEF Noted
  <2>3. c.streams[g] \in Nat
    <3>1. c.streams \in [DOMAIN c.streams -> Nat] /\ c.holders \subseteq DOMAIN c.streams
      BY FineFields
    <3> QED  BY <3>1
  <2>4. m \in Message
    <3>1. "Write" \in Commands
      BY DEF Commands
    <3> QED  BY <2>1, <2>2, <2>3, <3>1 DEF m, QdbMessage, Message, StreamId, StreamIds
  <2>5. /\ HostWhole(b) /\ b.sends = c.sends /\ b.toDevice = c.toDevice
        /\ b.object = c.object /\ HostQueues(c, b, m) /\ SameIds(c, b)
    BY <1>2, <2>4, HostAppends
  <2> HIDE DEF b
  <2> QED  BY <2>5, ImageQueues, ImageSameIds
<1> HIDE DEF b
<1>4. World(n, Image(c, p), e, w, r) /\ (c.sends = 0 \/ p = c.toDevice)
  BY DEF Fine
<1>5. World(n, Image(b, p), e, v, r)
  <2> DEFINE s == Image(c, p)
             a == Image(b, p)
  <2>1. /\ World(n, s, e, w, r) /\ HostQueues(s, a, m) /\ SameIds(s, a)
        /\ g \in s.holders /\ m = QdbMessage("Write", g, s.streams[g], x)
    BY <1>3, <1>4, ImageFields DEF m
  <2> HIDE DEF a, s
  <2>2. World(n, a, e, v, r)
    BY <2>1, QueueWrite DEF Noted
  <2> QED  BY <2>2 DEF a
<1> QED  BY <1>1, <1>2, <1>3, <1>4, <1>5, Enqueues

(* createStream(). *)
LEMMA EnqueuesOpen ==
    ASSUME NEW n, NEW c, NEW p, NEW e, NEW w, NEW r, NEW tag \in Nat,
           Fine(n, c, p, e, w, r), c.object = "live", c.nextStreamId <= MaxStreams,
           NEW d, d = Host!CreateStream(c, tag)
    PROVE  Outcome(n, c, d, p, e, w, r, 1) /\ d.object = "live"
<1> DEFINE id == c.nextStreamId
           m == QdbMessage("Open", id, 0, tag)
           q == c.requests \cup {id}
           o == c.opening \cup {id}
           y == id + 1
           a == [c EXCEPT !.nextStreamId = y, !.requests = q, !.opening = o]
           b == [a EXCEPT !.outgoing = Append(a.outgoing, m)]
<1>1. d = Host!ProcessQueue(b)
  BY HostNames DEF Host!EnqueueMessage, Host!CreateStream
<1>2. /\ HostWhole(c) /\ c.sends \in Nat /\ c.outgoing \in Seq(Message) /\ id \in Nat
  <2>1. HostWhole(c) /\ c.sends \in Nat /\ c.outgoing \in Seq(Message)
    BY FineFields
  <2>2. id \in 1..MaxStreams + 1
    BY FineFields
  <2> QED  BY <2>1, <2>2
<1>3. m \in Message
  <2>1. "Open" \in Commands
    BY DEF Commands
  <2> QED  BY <1>2, <2>1 DEF QdbMessage, Message, StreamId
<1>4. PICK X : c \in HostFields(X)
  BY <1>2 DEF HostWhole
<1> HIDE DEF id, m, q, o, y
<1>5. a \in HostFields(X \cup {y, q, o})
  BY <1>4 DEF HostFields
<1>6. /\ a.outgoing = c.outgoing /\ a.toDevice = c.toDevice /\ a.sends = c.sends
      /\ a.state = c.state /\ a.streams = c.streams /\ a.holders = c.holders
      /\ a.requests = q /\ a.nextStreamId = y /\ a.opening = o
      /\ a.object = c.object /\ a.assertsHold = c.assertsHold
  BY <1>4 DEF HostFields
<1>7. HostWhole(a) /\ a.outgoing \in Seq(Message)
  BY <1>2, <1>5, <1>6 DEF HostWhole
<1> HIDE DEF a
<1>8. /\ HostWhole(b) /\ b.sends = a.sends /\ b.toDevice = a.toDevice
      /\ b.object = a.object
      /\ HostQueues(a, b, m) /\ SameIds(a, b)
  BY <1>3, <1>7, HostAppends
<1> HIDE DEF b
<1>9. HostQueues(Image(c, p), Image(b, p), m)
  <2>1. HostQueues(c, b, m)
    BY <1>6, <1>8 DEF HostQueues
  <2> QED  BY <2>1, ImageQueues
<1>10. World(n, Image(c, p), e, w, r) /\ (c.sends = 0 \/ p = c.toDevice)
  BY DEF Fine
<1>11. World(n, Image(b, p), e, w, r)
  <2> DEFINE s == Image(c, p)
             t == Image(b, p)
  <2>1. /\ World(n, s, e, w, r) /\ HostQueues(s, t, m) /\ s.object = "live"
        /\ id = s.nextStreamId /\ id <= MaxStreams /\ m = QdbMessage("Open", id, 0, tag)
        /\ t.requests = s.requests \cup {id} /\ t.opening = s.opening \cup {id}
        /\ t.nextStreamId = id + 1
    BY <1>6, <1>8, <1>9, <1>10, ImageFields DEF id, m, q, o, y, SameIds
  <2> HIDE DEF s, t
  <2>2. World(n, t, e, w, r)
    BY <2>1, QueueOpen
  <2> QED  BY <2>2 DEF t
<1>12. b.sends = c.sends /\ b.toDevice = c.toDevice /\ b.object = c.object
  BY <1>6, <1>8
<1> QED  BY <1>1, <1>2, <1>8, <1>10, <1>11, <1>12, Enqueues

(* resetConnection() up to the branch. *)
LEMMA HostForgets ==
    ASSUME NEW c, HostWhole(c), c.holders \subseteq DOMAIN c.streams, NEW d, d = Host!Forget(c)
    PROVE  /\ HostWhole(d) /\ d.sends = c.sends /\ d.toDevice = c.toDevice
           /\ d.outgoing = <<>> /\ d.state = "Disconnected" /\ d.requests = {}
           /\ d.holders = {} /\ DOMAIN d.streams = {}
           /\ d.streams \in [DOMAIN d.streams -> Nat]
           /\ d.nextStreamId = c.nextStreamId /\ d.opening = c.opening
           /\ d.object = c.object /\ d.assertsHold = c.assertsHold
<1> DEFINE h == c.holders \ DOMAIN c.streams
<1>1. d = [c EXCEPT !.outgoing = <<>>, !.state = "Disconnected", !.requests = {},
                    !.holders = h, !.streams = Host!NoStreams]
  BY DEF Host!Forget
<1>2. PICK X : c \in HostFields(X)
  BY DEF HostWhole
<1>3. /\ h = {} /\ DOMAIN Host!NoStreams = {}
      /\ Host!NoStreams \in [DOMAIN Host!NoStreams -> Nat]
  BY DEF Host!NoStreams
<1> HIDE DEF h
<1>4. d \in HostFields(X \cup {<<>>, "Disconnected", {}, h, Host!NoStreams})
  BY <1>1, <1>2 DEF HostFields
<1>5. /\ d.outgoing = <<>> /\ d.state = "Disconnected" /\ d.requests = {}
      /\ d.holders = h /\ d.streams = Host!NoStreams /\ d.object = c.object
      /\ d.assertsHold = c.assertsHold /\ d.toDevice = c.toDevice /\ d.sends = c.sends
      /\ d.nextStreamId = c.nextStreamId /\ d.opening = c.opening
  BY <1>1, <1>2 DEF HostFields
<1> QED  BY <1>3, <1>4, <1>5 DEF HostWhole

(* connect(): the Connect is sent, or the connection is gone. *)
LEMMA HostAsks ==
    ASSUME NEW c, HostWhole(c), c.outgoing \in Seq(Message), Len(c.outgoing) = 0,
           c.state = "Disconnected",
           c.assertsHold = TRUE, c.sends \in Nat, c.holders \subseteq DOMAIN c.streams,
           c.nextStreamId \in 1..MaxStreams + 1,
           NEW d, d = Host!Connect(c)
    PROVE  /\ HostWhole(d) /\ d.object = c.object
           /\ c.sends = 0 => Empty(d) /\ d.sends = 0 /\ d.toDevice = c.toDevice
           /\ c.sends # 0 =>
                /\ d.state = "WaitingForConnection" /\ d.outgoing = <<>>
                /\ d.toDevice = Append(c.toDevice, ConnectMessage)
                /\ d.sends = c.sends - 1
                /\ d.streams = c.streams /\ d.holders = c.holders /\ SameIds(c, d)
                /\ d.assertsHold = c.assertsHold
<1> DEFINE m == ConnectMessage
           a == [c EXCEPT !.outgoing = Append(c.outgoing, m)]
           b == [a EXCEPT !.outgoing = Tail(a.outgoing)]
           t == Host!Transmit(b, m)
<1>1. d = Host!ProcessQueue(a)
  BY HostNames DEF Host!EnqueueMessage, Host!Connect
<1>2. m \in Message /\ m.command = "Connect"
  <2>1. "Connect" \in Commands
    BY DEF Commands
  <2> QED  BY <2>1 DEF ConnectMessage, QdbMessage, Message, StreamId, qdbProtocolVersion
<1> HIDE DEF m
<1>3. /\ HostWhole(a) /\ a.sends = c.sends /\ a.toDevice = c.toDevice
      /\ a.object = c.object /\ a.outgoing = Append(<<>>, m)
      /\ a.state = c.state /\ a.streams = c.streams /\ a.holders = c.holders
      /\ a.assertsHold = c.assertsHold /\ SameIds(c, a)
  <2>1. /\ HostWhole(a) /\ a.sends = c.sends /\ a.toDevice = c.toDevice
        /\ a.object = c.object /\ a.outgoing = Append(c.outgoing, m)
        /\ a.state = c.state /\ a.streams = c.streams /\ a.holders = c.holders
        /\ a.assertsHold = c.assertsHold /\ SameIds(c, a)
    BY <1>2, HostAppends
  <2> HIDE DEF a
  <2>2. c.outgoing = <<>>
    BY EmptySeq
  <2> QED  BY <2>1, <2>2
<1> HIDE DEF a
<1>4. Append(<<>>, m) # <<>> /\ Head(Append(<<>>, m)) = m /\ Tail(Append(<<>>, m)) = <<>>
  OBVIOUS
<1>5. /\ a.outgoing # <<>> /\ Head(a.outgoing) = m /\ Tail(a.outgoing) = <<>>
      /\ a.state = "Disconnected"
  BY <1>3, <1>4
<1>6. d = IF a.sends = 0 THEN Host!Disconnect(b) ELSE Host!AfterSend(t, m)
  BY <1>1, <1>5 DEF Host!ProcessQueue
<1>7. PICK X : a \in HostFields(X)
  BY <1>3 DEF HostWhole
<1>8. CASE c.sends = 0
  <2>1. d = Host!Disconnect(b)
    BY <1>3, <1>6, <1>8
  <2>2. b = [a EXCEPT !.outgoing = <<>>]
    BY <1>5
  <2>3. b \in HostFields(X \cup {<<>>})
    BY <1>7, <2>2 DEF HostFields
  <2>4. /\ b.holders = a.holders /\ b.streams = a.streams
        /\ b.nextStreamId = a.nextStreamId /\ b.object = a.object
        /\ b.assertsHold = a.assertsHold /\ b.toDevice = a.toDevice /\ b.sends = a.sends
    BY <1>7, <2>2 DEF HostFields
  <2> HIDE DEF b
  <2>5. /\ HostWhole(b) /\ b.holders \subseteq DOMAIN b.streams /\ b.assertsHold = TRUE
        /\ b.nextStreamId \in 1..MaxStreams + 1
    BY <1>3, <2>3, <2>4 DEF HostWhole, SameIds
  <2>6. /\ Empty(d) /\ HostWhole(d) /\ d.sends = b.sends /\ d.toDevice = b.toDevice
        /\ d.object = b.object
    BY <2>1, <2>5, HostDisconnects
  <2> QED  BY <1>3, <1>8, <2>4, <2>6
<1>9. CASE c.sends # 0
  <2>1. /\ HostWhole(t)
        /\ t.outgoing = Tail(a.outgoing) /\ t.toDevice = Append(a.toDevice, m)
        /\ t.sends = a.sends - 1
        /\ t.state = a.state /\ t.streams = a.streams /\ t.holders = a.holders
        /\ t.requests = a.requests /\ t.nextStreamId = a.nextStreamId
        /\ t.opening = a.opening /\ t.object = a.object /\ t.assertsHold = a.assertsHold
    <3>1. /\ HostWhole(a) /\ a.sends \in Nat /\ a.sends # 0
          /\ b = [a EXCEPT !.outgoing = Tail(a.outgoing)] /\ t = Host!Transmit(b, m)
      BY <1>3, <1>9
    <3> HIDE DEF b, t
    <3> QED  BY <3>1, HostTransmits
  <2>2. d = Host!AfterSend(t, m)
    BY <1>3, <1>6, <1>9
  <2> HIDE DEF t
  <2>3. d = [t EXCEPT !.assertsHold = TRUE, !.state = "WaitingForConnection"]
    <3>1. d = [t EXCEPT !.assertsHold = t.assertsHold /\ t.state = "Disconnected",
                        !.state = "WaitingForConnection"]
      BY <1>2, <2>2 DEF Host!AfterSend
    <3>2. (t.assertsHold /\ t.state = "Disconnected") = TRUE
      BY <1>3, <2>1
    <3> QED  BY <3>1, <3>2
  <2>4. PICK Y : t \in HostFields(Y)
    BY <2>1 DEF HostWhole
  <2>5. d \in HostFields(Y \cup {TRUE, "WaitingForConnection"})
    BY <2>3, <2>4 DEF HostFields
  <2>6. /\ d.assertsHold = TRUE /\ d.state = "WaitingForConnection"
        /\ d.outgoing = t.outgoing /\ d.toDevice = t.toDevice /\ d.sends = t.sends
        /\ d.streams = t.streams /\ d.holders = t.holders
        /\ d.requests = t.requests /\ d.nextStreamId = t.nextStreamId
        /\ d.opening = t.opening /\ d.object = t.object
    BY <2>3, <2>4 DEF HostFields
  <2>7. HostWhole(d)
    BY <2>5 DEF HostWhole
  <2>8. SameIds(c, d)
    BY <1>3, <2>1, <2>6 DEF SameIds
  <2> QED  BY <1>3, <1>5, <1>9, <2>1, <2>6, <2>7, <2>8 DEF m
<1> QED  BY <1>8, <1>9

(* resetConnection(true): the host starts anew, or the connection is gone. *)
LEMMA HostResets ==
    ASSUME NEW c, HostWhole(c), c.assertsHold = TRUE, c.sends \in Nat, c.object = "live",
           c.sends # 0 => c.toDevice \in Seq(Message),
           c.holders \subseteq DOMAIN c.streams, c.nextStreamId \in 1..MaxStreams + 1,
           NEW d, d = Host!ResetConnection(c, TRUE)
    PROVE  /\ HostWhole(d) /\ d.object = "live"
           /\ c.sends = 0 => Lost(d) /\ d.sends = 0 /\ d.toDevice = c.toDevice
           /\ c.sends # 0 => HostRestarts(c, d) /\ d.sends = c.sends - 1
<1> DEFINE a == Host!Forget(c)
<1>1. d = Host!Connect(a)
  BY DEF Host!ResetConnection
<1>2. /\ HostWhole(a) /\ a.sends = c.sends /\ a.toDevice = c.toDevice
      /\ a.outgoing = <<>> /\ a.state = "Disconnected" /\ a.requests = {}
      /\ a.holders = {} /\ DOMAIN a.streams = {}
      /\ a.streams \in [DOMAIN a.streams -> Nat]
      /\ a.nextStreamId = c.nextStreamId /\ a.opening = c.opening
      /\ a.object = c.object /\ a.assertsHold = c.assertsHold
  BY HostForgets
<1> HIDE DEF a
<1>3. /\ HostWhole(d) /\ d.object = a.object
      /\ a.sends = 0 => Empty(d) /\ d.sends = 0 /\ d.toDevice = a.toDevice
      /\ a.sends # 0 =>
           /\ d.state = "WaitingForConnection" /\ d.outgoing = <<>>
           /\ d.toDevice = Append(a.toDevice, ConnectMessage)
           /\ d.sends = a.sends - 1
           /\ d.streams = a.streams /\ d.holders = a.holders /\ SameIds(a, d)
           /\ d.assertsHold = a.assertsHold
  <2>1. /\ a.assertsHold = TRUE /\ a.sends \in Nat /\ a.holders \subseteq DOMAIN a.streams
        /\ a.nextStreamId \in 1..MaxStreams + 1
        /\ a.outgoing \in Seq(Message) /\ Len(a.outgoing) = 0
    BY <1>2
  <2> QED  BY <1>1, <1>2, <2>1, HostAsks
<1>4. c.sends = 0 => Lost(d) /\ d.sends = 0 /\ d.toDevice = c.toDevice
  BY <1>2, <1>3 DEF Lost
<1>5. ASSUME c.sends # 0 PROVE HostRestarts(c, d) /\ d.sends = c.sends - 1
  <2>1. LongerBy(c.toDevice, ConnectMessage, Append(c.toDevice, ConnectMessage))
    <3>1. ConnectMessage \in Message
      <4>1. "Connect" \in Commands
        BY DEF Commands
      <4> QED  BY <4>1 DEF ConnectMessage, QdbMessage, Message, StreamId, qdbProtocolVersion
    <3>2. c.toDevice \in Seq(Message)
      BY <1>5
    <3> QED  BY <3>1, <3>2, Longer
  <2> QED  BY <1>2, <1>3, <1>5, <2>1 DEF HostRestarts, SameIds
<1> QED  BY <1>2, <1>3, <1>4, <1>5

(* What one step changes, seen with any pipe. *)
LEMMA ImageDrops ==
    ASSUME NEW c, NEW d, NEW g, NEW R, NEW x, NEW p, NEW q, Drops(c, d, g, R, x)
    PROVE  Drops(Image(c, p), Image(d, q), g, R, x)
BY ImageFields DEF Drops, SameIds

(* ... nor the rest of the object, *)
LEMMA ImageSameHost ==
    ASSUME NEW c, NEW d, NEW p, NEW q, SameHost(c, d)
    PROVE  SameHost(Image(c, p), Image(d, q))
BY ImageFields DEF SameHost, SameIds

(* ... nor what a reset makes of it, *)
LEMMA ImageRestarts ==
    ASSUME NEW c, NEW d, HostRestarts(c, d)
    PROVE  HostRestarts(Image(c, c.toDevice), Image(d, d.toDevice))
BY ImageFields DEF HostRestarts

(* ... nor what a new stream does, *)
LEMMA ImageCreates ==
    ASSUME NEW c, NEW d, NEW m, NEW p, HostCreates(c, d, m)
    PROVE  HostCreates(Image(c, p), Image(d, p), m)
BY ImageFields DEF HostCreates

(* ... nor whether it believes in its connection. *)
LEMMA ImageConnected ==
    ASSUME NEW c, NEW p
    PROVE  Connected(Image(c, p)) <=> Connected(c)
BY ImageFields DEF Connected

(* What the host takes from the pipe. *)
LEMMA TakenMessage ==
    ASSUME NEW n, NEW c, NEW p, NEW e, NEW f, NEW w, NEW r, NEW m,
           Fine(n, c, p, e, w, r), HostTakes(e, f, m)
    PROVE  /\ World(n, Image(c, p), e, w, r) /\ (c.sends = 0 \/ p = c.toDevice)
           /\ m \in Message /\ m.command \in {"Connect", "Write", "Close", "Ok"}
           /\ m.command = "Connect" => m = ConnectMessage
<1>1. World(n, Image(c, p), e, w, r) /\ (c.sends = 0 \/ p = c.toDevice)
  BY DEF Fine
<1>2. DeviceSound(e) /\ AnswersSound(e) /\ HostIds(Image(c, p), e) /\ Stale(Image(c, p), e)
  BY <1>1 DEF World, J
<1>3. /\ m \in Message /\ m.command \in {"Connect", "Write", "Close", "Ok"}
      /\ m.command = "Connect" => m = ConnectMessage
  BY <1>2, Taken
<1> QED  BY <1>1, <1>3

(* Nothing is sent where no send succeeds. *)
LEMMA WiredMute ==
    ASSUME NEW c, NEW d, NEW e, NEW k \in Nat, c.sends = 0, d.sends = 0,
           d.toDevice = c.toDevice
    PROVE  Wired(c, d, e, k)
<1>1. c.sends \in Nat /\ d.sends \in Nat
  OBVIOUS
<1>2. d.sends <= c.sends /\ c.sends <= d.sends + k
  OBVIOUS
<1> QED  BY <1>1, <1>2 DEF Wired

(* resetConnection(true) upon a message. *)
LEMMA HandlesReset ==
    ASSUME NEW n, NEW c, NEW p, NEW e, NEW f, NEW w, NEW r, NEW m,
           Fine(n, c, p, e, w, r), HostTakes(e, f, m), c.object = "live",
           IF m.command = "Connect" THEN Connected(c) ELSE c.state = "WaitingForConnection",
           NEW d, d = Host!ResetConnection(c, TRUE)
    PROVE  Outcome(n, c, d, p, f, w, r, 1) /\ d.object = "live"
<1>1. /\ World(n, Image(c, p), e, w, r) /\ (c.sends = 0 \/ p = c.toDevice)
  BY TakenMessage
<1>2. /\ HostWhole(c) /\ c.assertsHold = TRUE /\ c.sends \in Nat /\ p \in Seq(Message)
      /\ c.holders \subseteq DOMAIN c.streams /\ c.nextStreamId \in 1..MaxStreams + 1
  BY FineFields
<1>3. CASE c.sends = 0
  <2>1. Lost(d) /\ HostWhole(d) /\ d.sends = 0 /\ d.toDevice = c.toDevice /\ d.object = "live"
    <3>1. /\ HostWhole(d) /\ d.object = "live"
          /\ c.sends = 0 => Lost(d) /\ d.sends = 0 /\ d.toDevice = c.toDevice
      <4>1. HostWhole(c) /\ c.assertsHold = TRUE /\ c.sends \in Nat
        BY <1>2
      <4>2. c.sends # 0 => c.toDevice \in Seq(Message)
        BY <1>3
      <4>3. c.holders \subseteq DOMAIN c.streams /\ c.nextStreamId \in 1..MaxStreams + 1
        BY <1>2
      <4> QED  BY <4>1, <4>2, <4>3, HostResets
    <3> QED  BY <1>3, <3>1
  <2>2. Gone(d, w, r)
    <3>1. NotesGood(w, r)
      BY NotesStay
    <3> QED  BY <2>1, <3>1 DEF Gone
  <2>3. Wired(c, d, f, 1)
    <3>1. c.sends = 0 /\ d.sends = 0 /\ d.toDevice = c.toDevice
      BY <1>3, <2>1
    <3> DEFINE one == 1
    <3>2. one \in Nat
      OBVIOUS
    <3> HIDE DEF one
    <3>3. Wired(c, d, f, one)
      BY <3>1, <3>2, WiredMute
    <3> QED  BY <3>3 DEF one
  <2>4. c.sends < 1
    BY <1>3
  <2> QED  BY <2>1, <2>2, <2>3, <2>4 DEF Outcome
<1>4. CASE c.sends # 0
  <2>1. p = c.toDevice /\ c.toDevice \in Seq(Message)
    BY <1>1, <1>2, <1>4
  <2>2. /\ HostWhole(d) /\ d.object = "live"
        /\ HostRestarts(c, d) /\ d.sends = c.sends - 1
    BY <1>2, <1>4, <2>1, HostResets
  <2>3. World(n, Image(d, d.toDevice), f, w, r)
    <3> DEFINE a == Image(c, c.toDevice)
               b == Image(d, d.toDevice)
    <3>1. /\ World(n, a, e, w, r) /\ HostRestarts(a, b) /\ a.object = "live"
          /\ IF m.command = "Connect" THEN Connected(a) ELSE a.state = "WaitingForConnection"
      <4>1. World(n, a, e, w, r)
        BY <1>1, <2>1
      <4>2. HostRestarts(a, b)
        BY <2>2, ImageRestarts
      <4>3. a.object = "live" /\ a.state = c.state /\ (Connected(a) <=> Connected(c))
        BY ImageFields, ImageConnected
      <4> QED  BY <4>1, <4>2, <4>3
    <3> HIDE DEF a, b
    <3>2. World(n, b, f, w, r)
      BY <3>1, TakeRestart
    <3> QED  BY <3>2 DEF b
  <2> QED  BY <1>2, <1>4, <2>2, <2>3, Sent
<1> QED  BY <1>3, <1>4

(* The object in another state. *)
LEMMA HostTurns ==
    ASSUME NEW c, HostWhole(c), NEW x, NEW d, d = [c EXCEPT !.state = x]
    PROVE  /\ HostWhole(d) /\ d.state = x /\ SameHost(c, d)
           /\ d.toDevice = c.toDevice /\ d.sends = c.sends
<1>1. PICK X : c \in HostFields(X)
  BY DEF HostWhole
<1>2. d \in HostFields(X \cup {x})
  BY <1>1 DEF HostFields
<1>3. /\ d.state = x /\ d.outgoing = c.outgoing /\ d.toDevice = c.toDevice
      /\ d.sends = c.sends /\ d.streams = c.streams /\ d.holders = c.holders
      /\ d.requests = c.requests /\ d.nextStreamId = c.nextStreamId
      /\ d.opening = c.opening /\ d.object = c.object /\ d.assertsHold = c.assertsHold
  BY <1>1 DEF HostFields
<1> QED  BY <1>2, <1>3 DEF HostWhole, SameHost, SameIds

(* A Connect that the host waits for. *)
LEMMA HandlesConnect ==
    ASSUME NEW n, NEW c, NEW p, NEW e, NEW f, NEW w, NEW r, NEW m,
           Fine(n, c, p, e, w, r), HostTakes(e, f, m), c.object = "live",
           m.command = "Connect", c.state = "WaitingForConnection",
           NEW d, HostWhole(d), d.state = "Connected", SameHost(c, d),
           d.toDevice = c.toDevice, d.sends = c.sends
    PROVE  Outcome(n, c, d, p, f, w, r, 0) /\ d.object = "live"
<1>1. /\ World(n, Image(c, p), e, w, r) /\ (c.sends = 0 \/ p = c.toDevice)
  BY TakenMessage
<1>2. c.sends \in Nat
  BY FineFields
<1>4. World(n, Image(d, p), f, w, r)
  <2> DEFINE a == Image(c, p)
             b == Image(d, p)
  <2>1. /\ World(n, a, e, w, r) /\ a.state = "WaitingForConnection" /\ b.state = "Connected"
        /\ SameHost(a, b) /\ b.toDevice = a.toDevice
    <3>1. SameHost(a, b)
      BY ImageSameHost
    <3>2. a.state = c.state /\ b.state = d.state /\ b.toDevice = a.toDevice
      BY ImageFields
    <3> QED  BY <1>1, <3>1, <3>2
  <2> HIDE DEF a, b
  <2>2. World(n, b, f, w, r)
    BY <2>1, TakeConnect
  <2> QED  BY <2>2 DEF b
<1>5. d.object = "live"
  BY DEF SameHost
<1> QED  BY <1>1, <1>2, <1>4, <1>5, Still

(* A Close of the device. *)
LEMMA HandlesClose ==
    ASSUME NEW n, NEW c, NEW p, NEW e, NEW f, NEW w, NEW r, NEW m,
           Fine(n, c, p, e, w, r), HostTakes(e, f, m), c.object = "live",
           m.command = "Close", Connected(c),
           NEW d, d = Host!CloseStream(c, m.hostStream)
    PROVE  Outcome(n, c, d, p, f, w, r, 0) /\ d.object = "live"
<1>1. /\ World(n, Image(c, p), e, w, r) /\ (c.sends = 0 \/ p = c.toDevice)
  BY TakenMessage
<1>2. /\ HostWhole(c) /\ c.sends \in Nat /\ c.outgoing \in Seq(Message)
      /\ c.streams \in [DOMAIN c.streams -> Nat] /\ c.holders \subseteq DOMAIN c.streams
  BY FineFields
<1>3. /\ HostWhole(d) /\ d.sends = c.sends /\ d.toDevice = c.toDevice
      /\ \E R : Drops(c, d, m.hostStream, R, c.outgoing)
  BY <1>2, HostCloses
<1>4. PICK R : Drops(c, d, m.hostStream, R, c.outgoing)
  BY <1>3
<1>5. World(n, Image(d, p), f, w, r)
  <2> DEFINE a == Image(c, p)
             b == Image(d, p)
  <2>1. /\ World(n, a, e, w, r) /\ Connected(a) /\ b.toDevice = a.toDevice
        /\ Drops(a, b, m.hostStream, R, a.outgoing)
    BY <1>1, <1>4, ImageDrops, ImageFields, ImageConnected
  <2> HIDE DEF a, b
  <2>2. World(n, b, f, w, r)
    BY <2>1, TakeClose
  <2> QED  BY <2>2 DEF b
<1>6. d.object = "live"
  BY <1>4 DEF Drops
<1> QED  BY <1>1, <1>2, <1>3, <1>5, <1>6, Still

(* A message sent past the queue. *)
LEMMA HostSpeaks ==
    ASSUME NEW c, HostWhole(c), c.sends \in Nat, c.sends # 0, NEW m,
           NEW t, t = Host!Transmit(c, m)
    PROVE  /\ HostWhole(t) /\ SameHost(c, t) /\ t.state = c.state
           /\ t.toDevice = Append(c.toDevice, m) /\ t.sends = c.sends - 1
<1> DEFINE a == Append(c.toDevice, m)
           k == c.sends - 1
<1>1. PICK X : c \in HostFields(X)
  BY DEF HostWhole
<1>2. t = [c EXCEPT !.toDevice = a, !.sends = k]
  BY DEF Host!Transmit
<1> HIDE DEF a, k
<1>3. t \in HostFields(X \cup {a, k})
  BY <1>1, <1>2 DEF HostFields
<1>4. /\ t.toDevice = a /\ t.sends = k
      /\ t.outgoing = c.outgoing
      /\ t.state = c.state /\ t.streams = c.streams /\ t.holders = c.holders
      /\ t.requests = c.requests /\ t.nextStreamId = c.nextStreamId
      /\ t.opening = c.opening /\ t.object = c.object /\ t.assertsHold = c.assertsHold
  BY <1>1, <1>2 DEF HostFields
<1> QED  BY <1>3, <1>4 DEF HostWhole, SameHost, SameIds, a, k

(* A Write for a stream the host does not have. *)
LEMMA HandlesUnknown ==
    ASSUME NEW n, NEW c, NEW p, NEW e, NEW f, NEW w, NEW r, NEW m, NEW x,
           Fine(n, c, p, e, w, r), HostTakes(e, f, m), c.object = "live",
           m.command = "Write", Connected(c), m.hostStream \notin DOMAIN c.streams,
           NEW d, d = Host!HandleWrite(c, m, x)
    PROVE  Outcome(n, c, d, p, f, w, r, 1) /\ d.object = "live"
<1> DEFINE z == QdbMessage("Close", m.hostStream, m.deviceStream, 0)
<1>1. /\ World(n, Image(c, p), e, w, r) /\ (c.sends = 0 \/ p = c.toDevice) /\ m \in Message
  BY TakenMessage
<1>2. d = Host!EnqueueMessage(c, z)
  BY HostNames DEF Host!HandleWrite
<1>3. /\ World(n, Image(c, p), f, w, r) /\ Owned(m, f)
      /\ m.hostStream \notin c.requests /\ m.hostStream < c.nextStreamId
  <2> DEFINE a == Image(c, p)
  <2>1. /\ World(n, a, e, w, r) /\ Connected(a) /\ m.hostStream \notin DOMAIN a.streams
    BY <1>1, ImageFields, ImageConnected
  <2>2. a.requests = c.requests /\ a.nextStreamId = c.nextStreamId
    BY ImageFields
  <2> HIDE DEF a
  <2>3. /\ World(n, a, f, w, r) /\ Owned(m, f)
        /\ m.hostStream \notin a.requests /\ m.hostStream < a.nextStreamId
    BY <2>1, TakeUnknown
  <2> QED  BY <2>2, <2>3 DEF a
<1>4. Fine(n, c, p, f, w, r)
  <2>1. HostWhole(c) /\ c.sends \in Nat
    BY FineFields
  <2> QED  BY <1>1, <1>3, <2>1 DEF Fine
<1>5. /\ z \in Message /\ z.command = "Close" /\ z.data = 0
      /\ z.hostStream = m.hostStream /\ z.deviceStream = m.deviceStream
  <2>1. "Close" \in Commands
    BY DEF Commands
  <2> QED  BY <1>1, <2>1 DEF QdbMessage, Message, StreamId
<1> HIDE DEF z
<1>6. Owned(z, f)
  BY <1>3, <1>5 DEF Owned
<1>7. /\ z.hostStream \notin DOMAIN c.streams /\ z.hostStream \notin c.requests
      /\ z.hostStream < c.nextStreamId
  BY <1>3, <1>5
<1> QED  BY <1>2, <1>4, <1>5, <1>6, <1>7, EnqueuesClose

(* What a service does when its packet has come. *)
LEMMA ServiceGets ==
    ASSUME NEW n, NEW c, NEW p, NEW e, NEW w, NEW r, NEW id, NEW x,
           Fine(n, c, p, e, w, r), c.object = "live",
           x.call = "open" => x.data \in Nat,
           NEW d, d = Host!PacketAvailable(c, id, x)
    PROVE  Outcome(n, c, d, p, e, w, r, 1) /\ d.object = "live"
<1> DEFINE one == 1
<1>1. 0 <= one /\ one \in Nat /\ one = 1
  OBVIOUS
<1> HIDE DEF one
<1>2. CASE /\ id \in c.holders /\ x.call = "open" /\ c.state # "Disconnected"
           /\ c.nextStreamId <= MaxStreams
  <2>1. d = Host!CreateStream(c, x.data)
    BY <1>2 DEF Host!PacketAvailable
  <2> QED  BY <1>2, <2>1, EnqueuesOpen
<1>3. CASE ~(/\ id \in c.holders /\ x.call = "open" /\ c.state # "Disconnected"
             /\ c.nextStreamId <= MaxStreams)
  <2>1. d = c
    BY <1>3 DEF Host!PacketAvailable
  <2>2. Outcome(n, c, d, p, e, w, r, 0)
    BY <2>1, NoChange
  <2>3. Outcome(n, c, d, p, e, w, r, one)
    BY <1>1, <2>2, OutcomeMore
  <2> QED  BY <1>1, <2>1, <2>3
<1> QED  BY <1>2, <1>3

(* The acknowledgment of a Write cannot be sent. *)
LEMMA HandlesMute ==
    ASSUME NEW n, NEW c, NEW p, NEW e, NEW f, NEW w, NEW r, NEW m, NEW x,
           Fine(n, c, p, e, w, r), m.hostStream \in DOMAIN c.streams, c.sends = 0,
           NEW d, d = Host!HandleWrite(c, m, x)
    PROVE  Outcome(n, c, d, p, f, w, r, 1) /\ d.object = "crashed"
<1> DEFINE a == Host!Disconnect(c)
<1>1. /\ HostWhole(c) /\ c.assertsHold = TRUE
      /\ c.holders \subseteq DOMAIN c.streams /\ c.nextStreamId \in 1..MaxStreams + 1
  BY FineFields
<1>2. /\ Empty(a) /\ HostWhole(a) /\ a.sends = c.sends /\ a.toDevice = c.toDevice
  BY <1>1, HostDisconnects
<1>3. d = IF m.hostStream \in DOMAIN a.streams
          THEN Host!PacketAvailable(a, m.hostStream, x) ELSE [a EXCEPT !.object = "crashed"]
  BY DEF Host!HandleWrite, Host!Acknowledge
<1> HIDE DEF a
<1>4. d = [a EXCEPT !.object = "crashed"]
  BY <1>2, <1>3 DEF Empty
<1>5. PICK X : a \in HostFields(X)
  BY <1>2 DEF HostWhole
<1>6. d \in HostFields(X \cup {"crashed"})
  BY <1>4, <1>5 DEF HostFields
<1>7. /\ d.object = "crashed" /\ d.state = a.state /\ d.outgoing = a.outgoing
      /\ d.toDevice = a.toDevice /\ d.sends = a.sends /\ d.streams = a.streams
      /\ d.holders = a.holders /\ d.requests = a.requests
      /\ d.nextStreamId = a.nextStreamId /\ d.opening = a.opening
      /\ d.assertsHold = a.assertsHold
  BY <1>4, <1>5 DEF HostFields
<1>8. Lost(d) /\ HostWhole(d)
  BY <1>2, <1>6, <1>7 DEF Lost, Empty, HostWhole
<1>9. Gone(d, w, r)
  <2>1. NotesGood(w, r)
    BY NotesStay
  <2> QED  BY <1>8, <2>1 DEF Gone
<1> DEFINE one == 1
<1>10. one \in Nat /\ 0 < one /\ one = 1
  OBVIOUS
<1> HIDE DEF one
<1>11. d.sends = 0 /\ d.toDevice = c.toDevice
  BY <1>2, <1>7
<1>12. Wired(c, d, f, one)
  BY <1>10, <1>11, WiredMute
<1>13. c.sends < one
  BY <1>10
<1>14. Outcome(n, c, d, p, f, w, r, one)
  BY <1>8, <1>9, <1>11, <1>12, <1>13 DEF Outcome
<1> QED  BY <1>7, <1>10, <1>14

(* A Write is acknowledged and delivered. *)
LEMMA HandlesPacket ==
    ASSUME NEW n, NEW c, NEW p, NEW e, NEW f, NEW w, NEW r, NEW v, NEW m, NEW x,
           Fine(n, c, p, e, w, r), HostTakes(e, f, m), c.object = "live",
           m.command = "Write", Connected(c), m.hostStream \in DOMAIN c.streams, c.sends # 0,
           v = IF m.hostStream \in c.holders
               THEN [r EXCEPT ![m.hostStream] = Append(r[m.hostStream], m.data)] ELSE r,
           x.call = "open" => x.data \in Nat,
           NEW d, d = Host!HandleWrite(c, m, x)
    PROVE  Outcome(n, c, d, p, f, w, v, 1 + 1) /\ d.object = "live"
<1> DEFINE ack == QdbMessage("Ok", m.hostStream, m.deviceStream, 0)
           a == Host!Transmit(c, ack)
<1>1. /\ World(n, Image(c, p), e, w, r) /\ (c.sends = 0 \/ p = c.toDevice) /\ m \in Message
  BY TakenMessage
<1>2. HostWhole(c) /\ c.sends \in Nat /\ p \in Seq(Message)
  BY FineFields
<1>3. d = IF m.hostStream \in DOMAIN a.streams
          THEN Host!PacketAvailable(a, m.hostStream, x) ELSE [a EXCEPT !.object = "crashed"]
  BY HostNames DEF Host!HandleWrite, Host!Acknowledge
<1>4. ack \in Message
  <2>1. "Ok" \in Commands
    BY DEF Commands
  <2> QED  BY <1>1, <2>1 DEF QdbMessage, Message, StreamId
<1>5. /\ HostWhole(a) /\ SameHost(c, a) /\ a.state = c.state
      /\ a.toDevice = Append(c.toDevice, ack) /\ a.sends = c.sends - 1
  <2> DEFINE k == ack
             t == a
  <2>1. t = Host!Transmit(c, k)
    OBVIOUS
  <2> HIDE DEF t, k
  <2>2. /\ HostWhole(t) /\ SameHost(c, t) /\ t.state = c.state
        /\ t.toDevice = Append(c.toDevice, k) /\ t.sends = c.sends - 1
    BY <1>2, <2>1, HostSpeaks
  <2> QED  BY <2>2 DEF t, k
<1> HIDE DEF a
<1>6. d = Host!PacketAvailable(a, m.hostStream, x)
  BY <1>3, <1>5 DEF SameHost
<1>7. World(n, Image(a, a.toDevice), f, w, v)
  <2> DEFINE b == Image(c, p)
             t == Image(a, a.toDevice)
             k == ack
  <2>1. World(n, b, e, w, r) /\ Connected(b) /\ b.streams = c.streams /\ b.holders = c.holders
    BY <1>1, ImageFields, ImageConnected
  <2>2. SameHost(b, t)
    BY <1>5, ImageSameHost
  <2>3. t.state = b.state /\ b.toDevice = p /\ t.toDevice = a.toDevice
    <3>1. t.state = a.state
      BY ImageFields
    <3>2. b.state = c.state
      BY ImageFields
    <3>3. b.toDevice = p
      BY ImageFields
    <3>4. t.toDevice = a.toDevice
      BY ImageFields
    <3> QED  BY <1>5, <3>1, <3>2, <3>3, <3>4
  <2>4. k = QdbMessage("Ok", m.hostStream, m.deviceStream, 0) /\ k \in Message
    BY <1>4
  <2>5. a.toDevice = Append(p, k)
    BY <1>1, <1>5
  <2> HIDE DEF b, t, k
  <2>6. LongerBy(b.toDevice, k, t.toDevice)
    <3>1. LongerBy(p, k, Append(p, k))
      BY <1>2, <2>4, Longer
    <3> QED  BY <2>3, <2>5, <3>1
  <2>7. World(n, t, f, w, v)
    BY <2>1, <2>2, <2>3, <2>4, <2>6, TakeWrite
  <2> QED  BY <2>7 DEF t
<1>8. Outcome(n, c, a, p, f, w, v, 1)
  BY <1>2, <1>5, <1>7, Sent
<1>9. a.object = "live" /\ Connected(a)
  BY <1>5 DEF SameHost, Connected
<1>10. \A q : Fine(n, a, q, f, w, v) => Outcome(n, a, d, q, f, w, v, 1)
  BY <1>6, <1>9, ServiceGets
<1>11. ~Gone(a, w, v)
  BY <1>9 DEF Gone, Lost, Empty, Connected
<1>12. Outcome(n, c, d, p, f, w, v, 1 + 1)
  <2> DEFINE one == 1
  <2> HIDE DEF one
  <2>1. Outcome(n, c, a, p, f, w, v, one) /\ \A q : Fine(n, a, q, f, w, v) => Outcome(n, a, d, q, f, w, v, one)
    BY <1>8, <1>10 DEF one
  <2>2. Outcome(n, c, d, p, f, w, v, one + one)
    BY <1>11, <2>1, OutcomeThen
  <2> QED  BY <2>2 DEF one
<1>13. d.object = "live"
  <2>1. Fine(n, a, a.toDevice, f, w, v)
    BY <1>2, <1>5, <1>7 DEF Fine
  <2>2. PICK q : Fine(n, a, q, f, w, v)
    BY <2>1
  <2>3. Outcome(n, a, d, q, f, w, v, 1) /\ d.object = "live"
    BY <1>6, <1>9, <2>2, ServiceGets
  <2> QED  BY <2>3
<1> QED  BY <1>12, <1>13

(* streamCreated() without a reaction. *)
LEMMA HostFinishes ==
    ASSUME NEW c, HostWhole(c), c.streams \in [DOMAIN c.streams -> Nat], NEW m \in Message,
           NEW x, x.call # "write",
           NEW d, d = Host!FinishCreateStream(c, m.hostStream, m.deviceStream, x)
    PROVE  HostWhole(d) /\ HostCreates(c, d, m) /\ d.state = c.state /\ d.sends = c.sends
<1> DEFINE host == m.hostStream
           s == [i \in DOMAIN c.streams \cup {host} |->
                    IF i = host THEN m.deviceStream ELSE c.streams[i]]
           q == c.requests \ {host}
           o == c.opening \ {host}
           h == c.holders \cup {host}
<1>1. d = [c EXCEPT !.streams = s, !.requests = q, !.opening = o, !.holders = h]
  BY DEF Host!FinishCreateStream
<1>2. /\ DOMAIN s = DOMAIN c.streams \cup {host} /\ s \in [DOMAIN s -> Nat]
      /\ s[host] = m.deviceStream
      /\ \A i \in DOMAIN c.streams : i # host => s[i] = c.streams[i]
  BY DEF Message, StreamId
<1>3. PICK X : c \in HostFields(X)
  BY DEF HostWhole
<1> HIDE DEF s, q, o, h
<1>4. d \in HostFields(X \cup {s, q, o, h})
  BY <1>1, <1>3 DEF HostFields
<1>5. /\ d.streams = s /\ d.requests = q /\ d.opening = o /\ d.holders = h
      /\ d.state = c.state /\ d.outgoing = c.outgoing /\ d.toDevice = c.toDevice
      /\ d.sends = c.sends /\ d.nextStreamId = c.nextStreamId
      /\ d.object = c.object /\ d.assertsHold = c.assertsHold
  BY <1>1, <1>3 DEF HostFields
<1>6. HostCreates(c, d, m)
  BY <1>2, <1>5 DEF HostCreates, q, o, h
<1> QED  BY <1>4, <1>5, <1>6 DEF HostWhole

(* An Ok that gives no stream. *)
LEMMA HandlesPlainOk ==
    ASSUME NEW n, NEW c, NEW p, NEW e, NEW f, NEW w, NEW r, NEW m,
           Fine(n, c, p, e, w, r), HostTakes(e, f, m), c.object = "live",
           m.command = "Ok", Connected(c), c.state = "Waiting" => m.hostStream \notin c.requests,
           NEW d, HostWhole(d), d.state = "Connected", SameHost(c, d),
           d.toDevice = c.toDevice, d.sends = c.sends
    PROVE  Outcome(n, c, d, p, f, w, r, 0) /\ d.object = "live"
<1>1. /\ World(n, Image(c, p), e, w, r) /\ (c.sends = 0 \/ p = c.toDevice)
  BY TakenMessage
<1>2. c.sends \in Nat
  BY FineFields
<1>3. World(n, Image(d, p), f, w, r)
  <2> DEFINE a == Image(c, p)
             b == Image(d, p)
  <2>1. World(n, a, e, w, r) /\ Connected(a)
    BY <1>1, ImageConnected
  <2>2. a.state = "Waiting" => m.hostStream \notin a.requests
    <3>1. a.state = c.state /\ a.requests = c.requests
      BY ImageFields
    <3> QED  BY <3>1
  <2>3. SameHost(a, b)
    BY ImageSameHost
  <2>4. b.state = "Connected"
    <3>1. b.state = d.state
      BY ImageFields
    <3> QED  BY <3>1
  <2>5. b.toDevice = a.toDevice
    BY ImageFields
  <2> HIDE DEF a, b
  <2>6. World(n, b, f, w, r)
    BY <2>1, <2>2, <2>3, <2>4, <2>5, TakeOk
  <2> QED  BY <2>6 DEF b
<1>4. d.object = "live"
  BY DEF SameHost
<1> QED  BY <1>1, <1>2, <1>3, <1>4, Still

(* An Ok that gives a service its stream. *)
LEMMA HandlesStream ==
    ASSUME NEW n, NEW c, NEW p, NEW e, NEW f, NEW w, NEW r, NEW m, NEW g,
           Fine(n, c, p, e, w, r), HostTakes(e, f, m), c.object = "live",
           m.command = "Ok", c.state = "Waiting", m.hostStream \in c.requests,
           NEW d, HostWhole(d), HostWhole(g), SameHost(c, g), g.state = "Connected",
           g.toDevice = c.toDevice, g.sends = c.sends,
           d.state = "Connected", HostCreates(g, d, m), d.sends = c.sends
    PROVE  /\ Outcome(n, c, d, p, f, w, r, 0) /\ Fine(n, d, p, f, w, r) /\ d.object = "live"
           /\ w[m.hostStream] = 0 /\ m.hostStream \in d.holders
<1>1. /\ World(n, Image(c, p), e, w, r) /\ (c.sends = 0 \/ p = c.toDevice)
  BY TakenMessage
<1>2. c.sends \in Nat
  BY FineFields
<1>3. HostCreates(c, d, m) /\ d.toDevice = c.toDevice
  BY DEF HostCreates, SameHost, SameIds
<1>4. World(n, Image(d, p), f, w, r)
  <2> DEFINE a == Image(c, p)
             b == Image(d, p)
  <2>1. a.state = "Waiting" /\ m.hostStream \in a.requests
    <3>1. a.state = c.state /\ a.requests = c.requests
      BY ImageFields
    <3> QED  BY <3>1
  <2>2. HostCreates(a, b, m)
    BY <1>3, ImageCreates
  <2>3. b.state = "Connected"
    <3>1. b.state = d.state
      BY ImageFields
    <3> QED  BY <3>1
  <2>4. World(n, a, e, w, r)
    BY <1>1
  <2> HIDE DEF a, b
  <2>5. World(n, b, f, w, r)
    BY <2>1, <2>2, <2>3, <2>4, TakeStream
  <2> QED  BY <2>5 DEF b
<1>5. d.object = "live" /\ m.hostStream \in d.holders
  BY <1>3 DEF HostCreates
<1>6. w[m.hostStream] = 0
  <2> DEFINE a == Image(c, p)
  <2>1. m.hostStream \in a.requests
    <3>1. a.requests = c.requests
      BY ImageFields
    <3> QED  BY <3>1
  <2>2. HostSound(a, w, r)
    BY <1>1 DEF World
  <2>3. a.nextStreamId \in 1..MaxStreams + 1 /\ a.requests \subseteq 1..a.nextStreamId - 1
    BY <2>2 DEF HostSound, HostTyped, IdsSound
  <2>4. m.hostStream \in StreamIds
    BY <2>1, <2>3, BoundsAssumption DEF StreamIds
  <2> HIDE DEF a
  <2> QED  BY <2>1, <2>2, <2>4 DEF HostSound, NotesSound
<1>7. Outcome(n, c, d, p, f, w, r, 0) /\ Fine(n, d, p, f, w, r)
  BY <1>1, <1>2, <1>3, <1>4, Still
<1> QED  BY <1>5, <1>6, <1>7

(* handleOk(). *)
LEMMA HandlesOk ==
    ASSUME NEW n, NEW c, NEW p, NEW e, NEW f, NEW w, NEW r, NEW m, NEW x, NEW v,
           Fine(n, c, p, e, w, r), HostTakes(e, f, m), c.object = "live",
           m.command = "Ok", Connected(c),
           x.call = "write" => /\ c.state = "Waiting" /\ m.hostStream \in c.requests
                               /\ x.data = 1,
           v = IF x.call = "write" THEN [w EXCEPT ![m.hostStream] = 1] ELSE w,
           NEW d, d = Host!HandleOk(c, m, x)
    PROVE  Outcome(n, c, d, p, f, v, r, 1) /\ d.object = "live"
<1> DEFINE g == [c EXCEPT !.state = "Connected"]
           one == 1
<1>0. 0 <= one /\ one \in Nat /\ one = 1 /\ one = 0 + 1
  OBVIOUS
<1>1. /\ HostWhole(c) /\ c.streams \in [DOMAIN c.streams -> Nat]
  BY FineFields
<1>2. /\ HostWhole(g) /\ g.state = "Connected" /\ SameHost(c, g)
      /\ g.toDevice = c.toDevice /\ g.sends = c.sends
  BY <1>1, HostTurns
<1>3. m \in Message
  BY TakenMessage
<1>4. d = CASE c.state = "Connected" -> c
            [] c.state = "Waiting" /\ m.hostStream \in c.requests ->
                 Host!FinishCreateStream(g, m.hostStream, m.deviceStream, x)
            [] OTHER -> g
  BY DEF Host!HandleOk
<1> HIDE DEF g, one
<1>5. CASE ~(c.state = "Waiting" /\ m.hostStream \in c.requests)
  <2>1. v = w
    BY <1>5
  <2>2. d = c \/ d = g
    BY <1>4, <1>5
  <2>3. c.state = "Connected" => d = c
    BY <1>4
  <2>4. /\ HostWhole(d) /\ d.state = "Connected" /\ SameHost(c, d)
        /\ d.toDevice = c.toDevice /\ d.sends = c.sends
    <3>1. CASE c.state = "Connected"
      BY <1>1, <2>3, <3>1 DEF SameHost, SameIds
    <3>2. CASE c.state # "Connected"
      <4>1. d = g
        BY <1>4, <1>5, <3>2
      <4> QED  BY <1>2, <4>1
    <3> QED  BY <3>1, <3>2
  <2>5. Outcome(n, c, d, p, f, w, r, 0) /\ d.object = "live"
    BY <1>5, <2>4, HandlesPlainOk
  <2>6. Outcome(n, c, d, p, f, w, r, one)
    BY <1>0, <2>5, OutcomeMore
  <2> QED  BY <1>0, <2>1, <2>5, <2>6
<1>6. CASE c.state = "Waiting" /\ m.hostStream \in c.requests
  <2>1. d = Host!FinishCreateStream(g, m.hostStream, m.deviceStream, x)
    BY <1>4, <1>6
  <2>2. g.streams \in [DOMAIN g.streams -> Nat]
    BY <1>1, <1>2 DEF SameHost
  <2>3. CASE x.call # "write"
    <3>1. HostWhole(d) /\ HostCreates(g, d, m) /\ d.state = g.state /\ d.sends = g.sends
      BY <1>2, <1>3, <2>1, <2>2, <2>3, HostFinishes
    <3>2. d.state = "Connected" /\ d.sends = c.sends
      BY <1>2, <3>1
    <3>3. Outcome(n, c, d, p, f, w, r, 0) /\ d.object = "live"
      BY <1>2, <1>6, <3>1, <3>2, HandlesStream
    <3>4. Outcome(n, c, d, p, f, w, r, one)
      BY <1>0, <3>3, OutcomeMore
    <3>5. v = w
      BY <2>3
    <3> QED  BY <1>0, <3>3, <3>4, <3>5
  <2>4. CASE x.call = "write"
    <3> DEFINE y == [call |-> "none", data |-> 0]
               b == Host!FinishCreateStream(g, m.hostStream, m.deviceStream, y)
    <3>1. d = Host!Write(b, m.hostStream, 1)
      <4>1. y.call # "write"
        OBVIOUS
      <4>2. x.data = 1
        BY <2>4
      <4> HIDE DEF y
      <4> QED  BY <2>1, <2>4, <4>1, <4>2 DEF Host!FinishCreateStream
    <3>2. y.call # "write"
      OBVIOUS
    <3>3. HostWhole(b) /\ HostCreates(g, b, m) /\ b.state = g.state /\ b.sends = g.sends
      <4> DEFINE z == b
      <4>1. z = Host!FinishCreateStream(g, m.hostStream, m.deviceStream, y)
        OBVIOUS
      <4> HIDE DEF y, z
      <4>2. HostWhole(z) /\ HostCreates(g, z, m) /\ z.state = g.state /\ z.sends = g.sends
        BY <1>2, <1>3, <2>2, <3>2, <4>1, HostFinishes
      <4> QED  BY <4>2 DEF z
    <3> HIDE DEF b, y
    <3>4. b.state = "Connected" /\ b.sends = c.sends
      BY <1>2, <3>3
    <3>5. /\ Outcome(n, c, b, p, f, w, r, 0) /\ Fine(n, b, p, f, w, r) /\ b.object = "live"
          /\ w[m.hostStream] = 0 /\ m.hostStream \in b.holders
      BY <1>2, <1>6, <3>3, <3>4, HandlesStream
    <3>6. Noted(w, m.hostStream, 1, v)
      <4>1. v = [w EXCEPT ![m.hostStream] = 1]
        BY <2>4
      <4>2. 1 = w[m.hostStream] + 1 /\ w[m.hostStream] < MaxPackets
        BY <3>5, BoundsAssumption
      <4> QED  BY <4>1, <4>2 DEF Noted
    <3>8. Outcome(n, b, d, p, f, v, r, 1) /\ d.object = "live"
      <4> DEFINE k == 1
      <4>1. Noted(w, m.hostStream, k, v) /\ d = Host!Write(b, m.hostStream, k)
        BY <3>1, <3>6
      <4> HIDE DEF k
      <4> QED  BY <3>5, <4>1, EnqueuesWrite
    <3>9. b.sends = c.sends /\ b.toDevice = c.toDevice
      BY <1>2, <3>3, <3>4 DEF HostCreates
    <3> QED  BY <3>8, <3>9, OutcomeFrom
  <2> QED  BY <2>3, <2>4
<1> QED  BY <1>5, <1>6

(* The services note what they read of a message, once it is handled. *)
Read(c, d, m, r, s) ==
    s = IF m.command = "Write" /\ m.hostStream \in c.holders /\ d.object = "live"
        THEN [r EXCEPT ![m.hostStream] = Append(r[m.hostStream], m.data)] ELSE r

(* ... and what they write upon it. *)
Wrote(m, x, w, v) ==
    v = IF x.call = "write" THEN [w EXCEPT ![m.hostStream] = 1] ELSE w

(* What a service may do when it is called back. *)
MayReact(c, m, x) ==
    /\ x.call = "write" => /\ m.command = "Ok" /\ c.state = "Waiting"
                           /\ m.hostStream \in c.requests /\ x.data = 1
    /\ x.call = "open" => m.command = "Write" /\ x.data \in Nat

(* A Write, of whatever stream. *)
LEMMA HandlesWrite ==
    ASSUME NEW n, NEW c, NEW p, NEW e, NEW f, NEW w, NEW r, NEW s, NEW m, NEW x,
           Fine(n, c, p, e, w, r), HostTakes(e, f, m), c.object = "live",
           m.command = "Write", Connected(c), MayReact(c, m, x),
           NEW d, d = Host!HandleWrite(c, m, x), Read(c, d, m, r, s)
    PROVE  Outcome(n, c, d, p, f, w, s, 1 + 1) /\ d.object \in {"live", "crashed"}
<1> DEFINE one == 1
           two == one + 1
<1>0. one <= two /\ two \in Nat /\ one = 1 /\ two = 1 + 1
  OBVIOUS
<1> HIDE DEF one, two
<1>1. c.holders \subseteq DOMAIN c.streams
  BY FineFields
<1>2. CASE m.hostStream \notin DOMAIN c.streams
  <2>1. Outcome(n, c, d, p, f, w, r, 1) /\ d.object = "live"
    BY <1>2, HandlesUnknown
  <2>2. Outcome(n, c, d, p, f, w, r, two)
    <3>1. Outcome(n, c, d, p, f, w, r, one)
      BY <1>0, <2>1
    <3> QED  BY <1>0, <3>1, OutcomeMore
  <2>3. s = r
    BY <1>1, <1>2 DEF Read
  <2> QED  BY <1>0, <2>1, <2>2, <2>3
<1>3. CASE m.hostStream \in DOMAIN c.streams /\ c.sends = 0
  <2>1. Outcome(n, c, d, p, f, w, r, 1) /\ d.object = "crashed"
    BY <1>3, HandlesMute
  <2>2. Outcome(n, c, d, p, f, w, r, two)
    <3>1. Outcome(n, c, d, p, f, w, r, one)
      BY <1>0, <2>1
    <3> QED  BY <1>0, <3>1, OutcomeMore
  <2>3. s = r
    BY <2>1 DEF Read
  <2> QED  BY <1>0, <2>1, <2>2, <2>3
<1>4. CASE m.hostStream \in DOMAIN c.streams /\ c.sends # 0
  <2> DEFINE v == IF m.hostStream \in c.holders
                  THEN [r EXCEPT ![m.hostStream] = Append(r[m.hostStream], m.data)] ELSE r
  <2>1. x.call = "open" => x.data \in Nat
    BY DEF MayReact
  <2>2. Outcome(n, c, d, p, f, w, v, 1 + 1) /\ d.object = "live"
    <3> DEFINE u == v
    <3>1. u = IF m.hostStream \in c.holders
              THEN [r EXCEPT ![m.hostStream] = Append(r[m.hostStream], m.data)] ELSE r
      OBVIOUS
    <3> HIDE DEF u
    <3>2. Outcome(n, c, d, p, f, w, u, 1 + 1) /\ d.object = "live"
      BY <1>4, <2>1, <3>1, HandlesPacket
    <3> QED  BY <3>2 DEF u
  <2>3. s = v
    BY <2>2 DEF Read
  <2> QED  BY <2>2, <2>3
<1> QED  BY <1>2, <1>3, <1>4

(* The message is handled, up to processQueue(). *)
LEMMA HostDispatches ==
    ASSUME NEW n, NEW c, NEW p, NEW e, NEW f, NEW w, NEW r, NEW v, NEW s, NEW m, NEW x,
           Fine(n, c, p, e, w, r), HostTakes(e, f, m), c.object = "live",
           MayReact(c, m, x), Wrote(m, x, w, v),
           NEW d, d = Host!Dispatch(c, m, x), Read(c, d, m, r, s)
    PROVE  Outcome(n, c, d, p, f, v, s, 1 + 1) /\ d.object \in {"live", "crashed"}
<1> DEFINE one == 1
           two == one + 1
<1>0. 0 <= two /\ one <= two /\ two \in Nat /\ one = 1 /\ two = 1 + 1
  OBVIOUS
<1> HIDE DEF one, two
<1>1. /\ m \in Message /\ m.command \in {"Connect", "Write", "Close", "Ok"}
      /\ m.command = "Connect" => m = ConnectMessage
  BY TakenMessage
<1>2. c.state \in {"WaitingForConnection", "Connected", "Waiting"} /\ HostWhole(c)
  <2>1. c.state \in {"Disconnected", "WaitingForConnection", "Connected", "Waiting"}
    BY FineFields
  <2>2. c.state # "Disconnected" /\ HostWhole(c)
    BY FineFields
  <2> QED  BY <2>1, <2>2
<1>3. m.command # "Write" => s = r
  BY DEF Read
<1>4. m.command # "Ok" => v = w
  BY DEF Wrote, MayReact
<1>5. ASSUME d = Host!ResetConnection(c, TRUE), v = w /\ s = r,
             IF m.command = "Connect" THEN Connected(c) ELSE c.state = "WaitingForConnection"
      PROVE  Outcome(n, c, d, p, f, v, s, 1 + 1) /\ d.object \in {"live", "crashed"}
  <2>1. Outcome(n, c, d, p, f, w, r, 1) /\ d.object = "live"
    BY <1>5, HandlesReset
  <2>2. v = w /\ s = r
    BY <1>5
  <2>3. Outcome(n, c, d, p, f, w, r, two)
    <3>1. Outcome(n, c, d, p, f, w, r, one)
      BY <1>0, <2>1
    <3> QED  BY <1>0, <3>1, OutcomeMore
  <2> QED  BY <1>0, <2>1, <2>2, <2>3
<1>6. CASE c.state = "WaitingForConnection"
  <2>0. d = Host!HandleInWaitingForConnection(c, m)
    BY <1>6 DEF Host!Dispatch
  <2>1. CASE m.command = "Connect"
    <3>1. d = [c EXCEPT !.state = "Connected"]
      <4>1. Host!CheckVersion(m)
        BY <1>1, <2>1 DEF Host!CheckVersion, ConnectMessage, QdbMessage,
                          qdbProtocolVersion, Host!qdbProtocolVersion
      <4> QED  BY <2>0, <2>1, <4>1 DEF Host!HandleInWaitingForConnection
    <3>2. /\ HostWhole(d) /\ d.state = "Connected" /\ SameHost(c, d)
          /\ d.toDevice = c.toDevice /\ d.sends = c.sends
      BY <1>2, <3>1, HostTurns
    <3>3. Outcome(n, c, d, p, f, w, r, 0) /\ d.object = "live"
      BY <1>6, <2>1, <3>2, HandlesConnect
    <3>4. Outcome(n, c, d, p, f, w, r, two)
      BY <1>0, <3>3, OutcomeMore
    <3> QED  BY <1>0, <1>3, <1>4, <2>1, <3>3, <3>4
  <2>2. CASE m.command # "Connect"
    <3>1. d = Host!ResetConnection(c, TRUE)
      BY <1>1, <2>0, <2>2 DEF Host!HandleInWaitingForConnection
    <3>2. v = w
      BY <1>4, <1>6 DEF Wrote, MayReact
    <3>3. s = r
      <4>1. c.holders = {}
        <5>1. c.holders \subseteq DOMAIN c.streams
          BY FineFields
        <5>2. ~Connected(c) => DOMAIN c.streams = {}
          BY FineFields
        <5> QED  BY <1>6, <5>1, <5>2 DEF Connected
      <4> QED  BY <4>1 DEF Read
    <3> QED  BY <1>5, <1>6, <2>2, <3>1, <3>2, <3>3
  <2> QED  BY <2>1, <2>2
<1>7. CASE c.state \in {"Connected", "Waiting"}
  <2>0. d = Host!HandleInConnected(c, m, x) /\ Connected(c)
    BY <1>7 DEF Host!Dispatch, Connected
  <2>1. CASE m.command = "Connect"
    <3>1. d = Host!ResetConnection(c, TRUE)
      BY <2>0, <2>1 DEF Host!HandleInConnected
    <3>2. v = w /\ s = r
      BY <1>3, <1>4, <2>1
    <3> QED  BY <1>5, <2>0, <2>1, <3>1, <3>2
  <2>2. CASE m.command = "Write"
    <3>1. d = Host!HandleWrite(c, m, x)
      BY <2>0, <2>2 DEF Host!HandleInConnected
    <3>2. Outcome(n, c, d, p, f, w, s, 1 + 1) /\ d.object \in {"live", "crashed"}
      BY <2>0, <2>2, <3>1, HandlesWrite
    <3> QED  BY <1>4, <2>2, <3>2
  <2>3. CASE m.command = "Close"
    <3>1. d = Host!CloseStream(c, m.hostStream)
      BY <2>0, <2>3 DEF Host!HandleInConnected
    <3>2. Outcome(n, c, d, p, f, w, r, 0) /\ d.object = "live"
      BY <2>0, <2>3, <3>1, HandlesClose
    <3>3. Outcome(n, c, d, p, f, w, r, two)
      BY <1>0, <3>2, OutcomeMore
    <3> QED  BY <1>0, <1>3, <1>4, <2>3, <3>2, <3>3
  <2>4. CASE m.command = "Ok"
    <3>1. d = Host!HandleOk(c, m, x)
      BY <2>0, <2>4 DEF Host!HandleInConnected
    <3>2. x.call = "write" => /\ c.state = "Waiting" /\ m.hostStream \in c.requests
                              /\ x.data = 1
      BY DEF MayReact
    <3>3. v = IF x.call = "write" THEN [w EXCEPT ![m.hostStream] = 1] ELSE w
      BY DEF Wrote
    <3>4. Outcome(n, c, d, p, f, v, r, 1) /\ d.object = "live"
      BY <2>0, <2>4, <3>1, <3>2, <3>3, HandlesOk
    <3>5. Outcome(n, c, d, p, f, v, r, two)
      <4>1. Outcome(n, c, d, p, f, v, r, one)
        BY <1>0, <3>4
      <4> QED  BY <1>0, <4>1, OutcomeMore
    <3> QED  BY <1>0, <1>3, <2>4, <3>4, <3>5
  <2> QED  BY <1>1, <2>1, <2>2, <2>3, <2>4
<1> QED  BY <1>2, <1>6, <1>7

(* processQueue() of a lost object does nothing. *)
LEMMA LostIsIdle ==
    ASSUME NEW c, Lost(c)
    PROVE  Host!ProcessQueue(c) = c
  BY DEF Lost, Empty, Host!ProcessQueue

(* handleMessage(). *)
LEMMA HostHandles ==
    ASSUME NEW n, NEW c, NEW p, NEW e, NEW f, NEW w, NEW r, NEW v, NEW s, NEW m, NEW x,
           Fine(n, c, p, e, w, r), HostTakes(e, f, m), c.object = "live",
           MayReact(c, m, x), Wrote(m, x, w, v),
           NEW d, d = Host!HandleMessage(c, m, x), Read(c, d, m, r, s)
    PROVE  Outcome(n, c, d, p, f, v, s, 3) /\ d.object \in {"live", "crashed"}
<1> DEFINE b == Host!Dispatch(c, m, x)
           one == 1
           two == one + 1
           u == IF m.command = "Write" /\ m.hostStream \in c.holders /\ b.object = "live"
                THEN [r EXCEPT ![m.hostStream] = Append(r[m.hostStream], m.data)] ELSE r
<1>0. one = 1 /\ two = 1 + 1 /\ two + one = 3 /\ one \in Nat
  OBVIOUS
<1>1. b = Host!Dispatch(c, m, x)
  OBVIOUS
<1>2. Read(c, b, m, r, u)
  BY DEF Read
<1>3. d = Host!ProcessQueue(b)
  <2>1. m.command # "Invalid"
    BY TakenMessage
  <2> QED  BY <2>1 DEF Host!HandleMessage
<1> HIDE DEF b, u, one, two
<1>4. Outcome(n, c, b, p, f, v, u, 1 + 1) /\ b.object \in {"live", "crashed"}
  BY <1>1, <1>2, HostDispatches
<1>5. ASSUME Gone(b, v, u), HostWhole(b), b.sends = 0
      PROVE  d = b /\ Wired(b, d, f, one)
  <2>1. d = b
    BY <1>3, <1>5, LostIsIdle DEF Gone
  <2> QED  BY <1>0, <1>5, <2>1, WiredMute
<1>6. ASSUME NEW q, Fine(n, b, q, f, v, u)
      PROVE  Outcome(n, b, d, q, f, v, u, 1) /\ d.object = "live" /\ b.object = "live"
  <2>1. b.object = "live"
    BY <1>4, <1>6, FineFields
  <2> QED  BY <1>3, <1>6, <2>1, HostProcesses
<1>7. d.object = b.object
  BY <1>4, <1>5, <1>6 DEF Outcome
<1>8. s = u
  BY <1>2, <1>7 DEF Read
<1>9. Outcome(n, c, d, p, f, v, u, two + one)
  <2>1. Outcome(n, c, b, p, f, v, u, two)
    BY <1>0, <1>4
  <2>2. Gone(b, v, u) /\ HostWhole(b) /\ b.sends = 0 =>
            Gone(d, v, u) /\ HostWhole(d) /\ Wired(b, d, f, one)
    BY <1>5
  <2>3. \A q : Fine(n, b, q, f, v, u) => Outcome(n, b, d, q, f, v, u, one)
    BY <1>0, <1>6
  <2> QED  BY <2>1, <2>2, <2>3, OutcomeThen
<1> QED  BY <1>0, <1>4, <1>7, <1>8, <1>9

(* The failed read ends the connection. *)
LEMMA HostHandlesInvalid ==
    ASSUME NEW n, NEW c, NEW p, NEW e, NEW w, NEW r, NEW m, NEW x,
           Fine(n, c, p, e, w, r), c.object = "live", c.sends = 0, m.command = "Invalid",
           NEW d, d = Host!HandleMessage(c, m, x)
    PROVE  /\ Gone(d, w, r) /\ HostWhole(d) /\ d.sends = 0
           /\ d.toDevice = c.toDevice /\ d.object = "live"
<1>1. d = Host!Disconnect(c)
  <2>1. c.state # "Disconnected"
    BY FineFields
  <2> QED  BY <2>1 DEF Host!HandleMessage
<1>2. HostWhole(c) /\ c.holders \subseteq DOMAIN c.streams /\ c.nextStreamId \in 1..MaxStreams + 1
      /\ c.assertsHold = TRUE
  BY FineFields
<1>3. Empty(d) /\ HostWhole(d) /\ d.sends = c.sends /\ d.toDevice = c.toDevice
      /\ d.object = c.object
  BY <1>1, <1>2, HostDisconnects
<1>4. NotesGood(w, r)
  BY NotesStay
<1> QED  BY <1>3, <1>4 DEF Gone, Lost

(* A message that reaches a lost object changes nothing about that. *)
LEMMA LostHandles ==
    ASSUME NEW c, NEW m, NEW x, Lost(c), HostWhole(c), c.object = "live", c.sends = 0,
           NEW d, d = Host!HandleMessage(c, m, x)
    PROVE  /\ Lost(d) /\ HostWhole(d) /\ d.sends = 0
           /\ d.toDevice = c.toDevice /\ d.object = "live"
<1>1. CASE m.command = "Invalid"
  <2>1. d = c
    BY <1>1 DEF Host!HandleMessage, Lost, Empty
  <2> QED  BY <2>1
<1>2. CASE m.command # "Invalid"
  <2> DEFINE b == Host!ResetConnection(c, TRUE)
  <2>1. d = Host!ProcessQueue(b)
    BY <1>2 DEF Host!HandleMessage, Host!Dispatch, Host!HandleInDisconnected, Lost, Empty
  <2>2. b = Host!ResetConnection(c, TRUE)
    OBVIOUS
  <2> HIDE DEF b
  <2>3. c.assertsHold = TRUE /\ c.sends \in Nat /\ c.holders \subseteq DOMAIN c.streams
        /\ c.nextStreamId \in 1..MaxStreams + 1
    BY DEF Lost, Empty
  <2>4. HostWhole(b) /\ b.object = "live" /\ Lost(b) /\ b.sends = 0 /\ b.toDevice = c.toDevice
    BY <2>2, <2>3, HostResets
  <2>5. d = b
    BY <2>1, <2>4, LostIsIdle
  <2> QED  BY <2>4, <2>5
<1> QED  BY <1>1, <1>2

(* Counting through a set of ids meets each of them. *)
LEMMA NthMeetsAll ==
    ASSUME NEW n \in Nat, NEW S \in SUBSET (1..n)
    PROVE  /\ IsFiniteSet(S) /\ Cardinality(S) \in Nat /\ Cardinality(S) <= n
           /\ \A k \in 1..Cardinality(S) : Nth(S, k) \in S
           /\ \A i \in S : \E k \in 1..Cardinality(S) : Nth(S, k) = i
<1>1. IsFiniteSet(1..n) /\ Cardinality(1..n) = n
  <2>1. 1 \in Int /\ n \in Int /\ 1 - 1 <= n
    OBVIOUS
  <2>2. IsFiniteSet(1..n) /\ Cardinality(1..n) = IF 1 > n THEN 0 ELSE n - 1 + 1
    BY FS_Interval
  <2> QED  BY <2>2
<1>2. IsFiniteSet(S) /\ Cardinality(S) \in Nat /\ Cardinality(S) <= n
  BY <1>1, FS_Subset, FS_CardinalityType
<1>3. \A k \in 1..Cardinality(S) : Nth(S, k) \in S
  <2>1. S \in SUBSET Nat
    OBVIOUS
  <2> QED  BY <1>2, <2>1, NthHasRank
<1> DEFINE q == [i \in 1..n |-> 0]
<1>4. q \in Seq({0}) /\ DOMAIN q = 1..n
  <2>1. q \in [1..n -> {0}]
    OBVIOUS
  <2> QED  BY <2>1
<1>5. DOMAIN KeepAt(q, S) = 1..Cardinality(S)
  BY DEF KeepAt
<1> HIDE DEF q
<1>6. \A i \in S : \E k \in DOMAIN KeepAt(q, S) : Nth(S, k) = i
  BY <1>4, KeepAtParts
<1> QED  BY <1>2, <1>3, <1>5, <1>6

(* What was sent first is sound. *)
LEMMA SentPrefix ==
    ASSUME NEW p, NEW q, NEW a, NEW e, SentSound(a, e), JoinOf(p, q, a)
    PROVE  SentSound(p, e)
BY DEF SentSound, JoinOf, GoodConnects

(* The end of an event on the host. *)
Ended(n, c, d, p, e, w, r) ==
    /\ d.toDevice = c.toDevice \/ (c.sends # 0 /\ SentSound(d.toDevice, e))
    /\ \/ Gone(d, w, r) /\ c.sends < Plenty
       \/ \E q : World(n, Image(d, q), e, w, r) /\ (p = c.toDevice => q = d.toDevice)

(* No event sends as often as the sends of a plugged-in cable suffice for. *)
LEMMA OutcomeEnds ==
    ASSUME NEW n, NEW c, NEW d, NEW p, NEW e, NEW w, NEW r, NEW k,
           Outcome(n, c, d, p, e, w, r, k), k <= 3
    PROVE  Ended(n, c, d, p, e, w, r)
<1>1. Wired(c, d, e, k)
  BY DEF Outcome
<1>2. c.sends < k => c.sends < Plenty
  <2>1. c.sends \in Nat /\ k \in Nat /\ MaxStreams \in Nat
    BY <1>1, BoundsAssumption DEF Wired
  <2> QED  BY <2>1 DEF Plenty
<1>3. CASE Gone(d, w, r) /\ c.sends < k
  BY <1>1, <1>2, <1>3 DEF Ended, Wired
<1>4. CASE \E q : Fine(n, d, q, e, w, r) /\ (p = c.toDevice => q = d.toDevice)
  BY <1>1, <1>4 DEF Ended, Wired, Fine
<1> QED  BY <1>3, <1>4 DEF Outcome

(* Stream::requestClose(). *)
LEMMA EnqueuesRequest ==
    ASSUME NEW n, NEW c, NEW p, NEW e, NEW w, NEW r, NEW id \in c.holders,
           Fine(n, c, p, e, w, r), c.object = "live", NEW d, d = Host!RequestClose(c, id)
    PROVE  Outcome(n, c, d, p, e, w, r, 1) /\ d.object = "live"
<1> DEFINE m == QdbMessage("Close", id, c.streams[id], 0)
<1>1. d = Host!EnqueueMessage(c, m)
  BY HostNames DEF Host!RequestClose
<1>2. /\ id \in DOMAIN c.streams /\ id \in Nat /\ c.streams[id] \in Nat
      /\ id \notin c.requests /\ id < c.nextStreamId /\ Connected(c)
  <2>1. id \in DOMAIN c.streams
    BY FineFields
  <2>2. id \in 1..c.nextStreamId - 1 /\ c.nextStreamId \in 1..MaxStreams + 1
    BY <2>1, FineFields
  <2>3. id \in Nat /\ id < c.nextStreamId
    BY <2>2, BoundsAssumption
  <2>4. c.streams[id] \in Nat
    BY <2>1, FineFields
  <2>5. id \notin c.requests /\ Connected(c)
    BY <2>1, FineFields
  <2> QED  BY <2>1, <2>3, <2>4, <2>5
<1>3. c.streams[id] < e.nextStreamId
      /\ (c.streams[id] \in DOMAIN e.streams => e.streams[c.streams[id]] = id)
  <2> DEFINE a == Image(c, p)
  <2>1. a.streams = c.streams
    BY ImageFields
  <2>2. World(n, a, e, w, r)
    BY DEF Fine
  <2> HIDE DEF a
  <2> QED  BY <1>2, <2>1, <2>2 DEF World, J, HostIds
<1>4. /\ m \in Message /\ m.command = "Close" /\ m.data = 0
      /\ m.hostStream = id /\ m.deviceStream = c.streams[id]
  <2>1. "Close" \in Commands
    BY DEF Commands
  <2> QED  BY <1>2, <2>1 DEF QdbMessage, Message, StreamId
<1> HIDE DEF m
<1>5. Owned(m, e)
  BY <1>3, <1>4 DEF Owned
<1>6. /\ m.hostStream \in DOMAIN c.streams => c.streams[m.hostStream] = m.deviceStream
      /\ m.hostStream \notin c.requests /\ m.hostStream < c.nextStreamId
  BY <1>2, <1>4
<1> QED  BY <1>1, <1>2, <1>4, <1>5, <1>6, EnqueuesClose

(* A service forgets its stream. *)
LEMMA HostLetsGo ==
    ASSUME NEW b, HostWhole(b), NEW id, NEW d, d = [b EXCEPT !.holders = b.holders \ {id}]
    PROVE  /\ HostWhole(d) /\ d.holders = b.holders \ {id}
           /\ d.state = b.state /\ d.outgoing = b.outgoing /\ d.streams = b.streams
           /\ d.object = b.object /\ d.assertsHold = b.assertsHold
           /\ d.toDevice = b.toDevice /\ d.sends = b.sends /\ SameIds(b, d)
<1> DEFINE h == b.holders \ {id}
<1>1. PICK X : b \in HostFields(X)
  BY DEF HostWhole
<1>2. d = [b EXCEPT !.holders = h]
  OBVIOUS
<1> HIDE DEF h
<1>3. d \in HostFields(X \cup {h})
  BY <1>1, <1>2 DEF HostFields
<1>4. /\ d.holders = h
      /\ d.state = b.state /\ d.outgoing = b.outgoing /\ d.streams = b.streams
      /\ d.object = b.object /\ d.assertsHold = b.assertsHold
      /\ d.toDevice = b.toDevice /\ d.sends = b.sends
      /\ d.requests = b.requests /\ d.nextStreamId = b.nextStreamId /\ d.opening = b.opening
  BY <1>1, <1>2 DEF HostFields
<1> QED  BY <1>3, <1>4 DEF HostWhole, SameIds, h

(* The destructor of a service. *)
LEMMA ServiceIsDestroyed ==
    ASSUME NEW n, NEW c, NEW p, NEW e, NEW w, NEW r, NEW id \in c.holders,
           Fine(n, c, p, e, w, r), c.object = "live", NEW d, d = Host!DestroyService(c, id)
    PROVE  Outcome(n, c, d, p, e, w, r, 1 + 0) /\ d.object = "live"
<1> DEFINE b == Host!RequestClose(c, id)
           one == 1
           zero == 0
<1>0. one = 1 /\ zero = 0 /\ zero \in Nat
  OBVIOUS
<1>1. b = Host!RequestClose(c, id)
  OBVIOUS
<1>2. d = [b EXCEPT !.holders = b.holders \ {id}]
  BY DEF Host!DestroyService
<1> HIDE DEF b, one, zero
<1>3. Outcome(n, c, b, p, e, w, r, one) /\ b.object = "live"
  BY <1>0, <1>1, EnqueuesRequest
<1>4. HostWhole(b)
  BY <1>3 DEF Outcome, Fine
<1>5. /\ HostWhole(d) /\ d.holders = b.holders \ {id}
      /\ d.state = b.state /\ d.outgoing = b.outgoing /\ d.streams = b.streams
      /\ d.object = b.object /\ d.assertsHold = b.assertsHold
      /\ d.toDevice = b.toDevice /\ d.sends = b.sends /\ SameIds(b, d)
  BY <1>2, <1>4, HostLetsGo
<1>6. Gone(b, w, r) /\ HostWhole(b) /\ b.sends = 0 =>
          Gone(d, w, r) /\ HostWhole(d) /\ Wired(b, d, e, zero)
  <2> SUFFICES ASSUME Gone(b, w, r), b.sends = 0
               PROVE  Gone(d, w, r) /\ HostWhole(d) /\ Wired(b, d, e, zero)
    OBVIOUS
  <2>1. Gone(d, w, r)
    BY <1>5 DEF Gone, Lost, Empty, SameIds
  <2>2. Wired(b, d, e, zero)
    BY <1>0, <1>5, WiredMute
  <2> QED  BY <1>5, <2>1, <2>2
<1>7. \A q : Fine(n, b, q, e, w, r) => Outcome(n, b, d, q, e, w, r, zero)
  <2> SUFFICES ASSUME NEW q, Fine(n, b, q, e, w, r)
               PROVE  Outcome(n, b, d, q, e, w, r, zero)
    OBVIOUS
  <2>1. World(n, Image(b, q), e, w, r) /\ (b.sends = 0 \/ q = b.toDevice) /\ b.sends \in Nat
    BY DEF Fine
  <2>2. World(n, Image(d, q), e, w, r)
    <3> DEFINE a == Image(b, q)
               g == Image(d, q)
    <3>1. g.state = a.state /\ g.outgoing = a.outgoing /\ g.streams = a.streams
          /\ g.object = a.object /\ g.assertsHold = a.assertsHold
      BY <1>5 DEF Image
    <3>2. g.holders = a.holders \ {id} /\ g.toDevice = a.toDevice
      BY <1>5 DEF Image
    <3>3. SameIds(a, g)
      BY <1>5, ImageSameIds
    <3>4. World(n, a, e, w, r)
      BY <2>1
    <3> HIDE DEF a, g
    <3>5. World(n, g, e, w, r)
      BY <3>1, <3>2, <3>3, <3>4, DropHolder
    <3> QED  BY <3>5 DEF g
  <2> QED  BY <1>0, <1>5, <2>1, <2>2, Still
<1>8. Outcome(n, c, d, p, e, w, r, one + zero)
  BY <1>3, <1>6, <1>7, OutcomeThen
<1> QED  BY <1>0, <1>3, <1>5, <1>8

(* close() of a Connection that is not agreed. *)
LEMMA HostStops ==
    ASSUME NEW c, HostWhole(c), c.state \in {"Disconnected", "WaitingForConnection"},
           NEW d, d = Host!Destroy(c)
    PROVE  /\ HostWhole(d) /\ d.state = "Disconnected" /\ d.object = "destroyed"
           /\ d.outgoing = c.outgoing /\ d.streams = c.streams /\ d.holders = c.holders
           /\ d.assertsHold = c.assertsHold
           /\ d.toDevice = c.toDevice /\ d.sends = c.sends /\ SameIds(c, d)
<1>1. PICK X : c \in HostFields(X)
  BY DEF HostWhole
<1> DEFINE a == [c EXCEPT !.state = "Disconnected"]
<1>2. d = [a EXCEPT !.object = "destroyed"]
  BY DEF Host!Destroy, Host!Close
<1>3. a \in HostFields(X \cup {"Disconnected"})
  BY <1>1 DEF HostFields
<1>4. /\ a.state = "Disconnected" /\ a.outgoing = c.outgoing /\ a.streams = c.streams
      /\ a.holders = c.holders /\ a.assertsHold = c.assertsHold
      /\ a.toDevice = c.toDevice /\ a.sends = c.sends
      /\ a.requests = c.requests /\ a.nextStreamId = c.nextStreamId /\ a.opening = c.opening
  BY <1>1 DEF HostFields
<1> HIDE DEF a
<1>5. d \in HostFields((X \cup {"Disconnected"}) \cup {"destroyed"})
  BY <1>2, <1>3 DEF HostFields
<1>6. /\ d.object = "destroyed"
      /\ d.state = a.state /\ d.outgoing = a.outgoing /\ d.streams = a.streams
      /\ d.holders = a.holders /\ d.assertsHold = a.assertsHold
      /\ d.toDevice = a.toDevice /\ d.sends = a.sends
      /\ d.requests = a.requests /\ d.nextStreamId = a.nextStreamId /\ d.opening = a.opening
  BY <1>2, <1>3 DEF HostFields
<1> QED  BY <1>4, <1>5, <1>6 DEF HostWhole, SameIds

(* The Closes of the streams that are open. *)
ClosesOf(c) ==
    [k \in 1..Cardinality(DOMAIN c.streams) |->
        QdbMessage("Close", Nth(DOMAIN c.streams, k), c.streams[Nth(DOMAIN c.streams, k)], 0)]

(* There is one for each stream. *)
LEMMA ClosesAreSound ==
    ASSUME NEW c, NEW n \in Nat, c.streams \in [DOMAIN c.streams -> Nat],
           DOMAIN c.streams \subseteq 1..n
    PROVE  /\ ClosesOf(c) \in Seq(Message) /\ Len(ClosesOf(c)) \in Nat /\ Len(ClosesOf(c)) <= n
           /\ Range(ClosesOf(c)) = {QdbMessage("Close", h, c.streams[h], 0) : h \in DOMAIN c.streams}
<1> DEFINE S == DOMAIN c.streams
           q == ClosesOf(c)
           Of(h) == QdbMessage("Close", h, c.streams[h], 0)
<1>1. /\ IsFiniteSet(S) /\ Cardinality(S) \in Nat /\ Cardinality(S) <= n
      /\ \A k \in 1..Cardinality(S) : Nth(S, k) \in S
      /\ \A i \in S : \E k \in 1..Cardinality(S) : Nth(S, k) = i
  BY NthMeetsAll
<1>2. \A h \in S : Of(h) \in Message
  <2>1. "Close" \in Commands
    BY DEF Commands
  <2> QED  BY <2>1 DEF QdbMessage, Message, StreamId
<1>3. q = [k \in 1..Cardinality(S) |-> Of(Nth(S, k))]
  BY DEF ClosesOf
<1> HIDE DEF S, q, Of
<1>4. q \in [1..Cardinality(S) -> Message]
  BY <1>1, <1>2, <1>3
<1>5. q \in Seq(Message) /\ Len(q) = Cardinality(S) /\ DOMAIN q = 1..Cardinality(S)
  BY <1>1, <1>4
<1>6. \A m : m \in Range(q) => \E h \in S : m = Of(h)
  BY <1>1, <1>3, <1>5 DEF Range
<1>7. \A h \in S : Of(h) \in Range(q)
  <2> SUFFICES ASSUME NEW h \in S
               PROVE  Of(h) \in Range(q)
    OBVIOUS
  <2>1. PICK k \in 1..Cardinality(S) : Nth(S, k) = h
    BY <1>1
  <2>2. q[k] = Of(h)
    BY <1>3, <2>1
  <2> QED  BY <1>5, <2>2 DEF Range
<1>8. Range(q) = {Of(h) : h \in S}
  BY <1>6, <1>7
<1> QED  BY <1>1, <1>5, <1>8 DEF S, q, Of

(* What the loop of close() sends, of the Closes q. *)
SentOf(c, q) == IF Len(q) <= c.sends THEN q ELSE SubSeq(q, 1, c.sends)

(* ... and what it leaves. *)
LEMMA HostEnds ==
    ASSUME NEW c, HostWhole(c), Connected(c), c.holders \subseteq DOMAIN c.streams,
           c.nextStreamId \in 1..MaxStreams + 1, c.assertsHold = TRUE, NEW q, q = ClosesOf(c),
           NEW d, d = Host!Destroy(c)
    PROVE  /\ HostWhole(d) /\ d.state = "Disconnected" /\ d.object = "destroyed"
           /\ d.outgoing = <<>> /\ d.requests = {} /\ d.holders = {}
           /\ DOMAIN d.streams = {} /\ d.streams \in [DOMAIN d.streams -> Nat]
           /\ d.nextStreamId = c.nextStreamId /\ d.assertsHold = c.assertsHold
           /\ d.toDevice = c.toDevice \o SentOf(c, q)
           /\ Len(SentOf(c, q)) < Len(q) => d.opening = {}
           /\ ~(Len(SentOf(c, q)) < Len(q)) => d.opening = c.opening
<1> DEFINE u == Host!Forget(c)
           t == c.toDevice \o SentOf(c, q)
           b == [u EXCEPT !.toDevice = t]
           a == IF Len(SentOf(c, q)) < Len(q) THEN Host!Disconnect(b) ELSE b
<1>1. q = [k \in 1..Cardinality(DOMAIN c.streams) |->
              Host!QdbMessage("Close", Host!Nth(DOMAIN c.streams, k),
                              c.streams[Host!Nth(DOMAIN c.streams, k)], 0)]
  BY HostNames DEF ClosesOf
<1>2. u = Host!Forget(c)
  OBVIOUS
<1> HIDE DEF u
<1>3. /\ HostWhole(u) /\ u.sends = c.sends /\ u.toDevice = c.toDevice
      /\ u.outgoing = <<>> /\ u.state = "Disconnected" /\ u.requests = {}
      /\ u.holders = {} /\ DOMAIN u.streams = {}
      /\ u.streams \in [DOMAIN u.streams -> Nat]
      /\ u.nextStreamId = c.nextStreamId /\ u.opening = c.opening
      /\ u.object = c.object /\ u.assertsHold = c.assertsHold
  BY <1>2, HostForgets
<1>4. d = [a EXCEPT !.object = "destroyed"]
  <2>1. c.state \notin {"Disconnected", "WaitingForConnection"}
    BY DEF Connected
  <2>2. Host!Close(c) = a
    BY <1>1, <1>2, <1>3, <2>1, HostNames DEF Host!Close, SentOf
  <2> QED  BY <2>2 DEF Host!Destroy
<1>5. PICK X : u \in HostFields(X)
  BY <1>3 DEF HostWhole
<1> HIDE DEF t
<1>6. b \in HostFields(X \cup {t})
  BY <1>5 DEF HostFields
<1>7. /\ b.toDevice = t /\ b.sends = u.sends
      /\ b.outgoing = u.outgoing /\ b.state = u.state /\ b.requests = u.requests
      /\ b.holders = u.holders /\ b.streams = u.streams
      /\ b.nextStreamId = u.nextStreamId /\ b.opening = u.opening
      /\ b.object = u.object /\ b.assertsHold = u.assertsHold
  BY <1>5 DEF HostFields
<1> HIDE DEF b
<1>8. HostWhole(b)
  BY <1>6 DEF HostWhole
<1>9. /\ HostWhole(a) /\ a.toDevice = t
      /\ a.outgoing = <<>> /\ a.state = "Disconnected" /\ a.requests = {}
      /\ a.holders = {} /\ DOMAIN a.streams = {}
      /\ a.streams \in [DOMAIN a.streams -> Nat]
      /\ a.nextStreamId = c.nextStreamId /\ a.assertsHold = c.assertsHold
      /\ Len(SentOf(c, q)) < Len(q) => a.opening = {}
      /\ ~(Len(SentOf(c, q)) < Len(q)) => a.opening = c.opening
  <2>1. CASE Len(SentOf(c, q)) < Len(q)
    <3> DEFINE g == Host!Disconnect(b)
    <3>1. g = Host!Disconnect(b) /\ a = g
      BY <2>1
    <3>2. /\ b.holders \subseteq DOMAIN b.streams /\ b.nextStreamId \in 1..MaxStreams + 1
          /\ b.assertsHold = TRUE
      BY <1>3, <1>7
    <3> HIDE DEF g
    <3>3. Empty(g) /\ HostWhole(g) /\ g.sends = b.sends /\ g.toDevice = b.toDevice
          /\ g.object = b.object
      BY <1>8, <3>1, <3>2, HostDisconnects
    <3>4. g.nextStreamId = b.nextStreamId
      <4>1. PICK Y : b \in HostFields(Y)
        BY <1>8 DEF HostWhole
      <4> DEFINE h == b.holders \ DOMAIN b.streams
                 f == [b EXCEPT !.outgoing = <<>>, !.state = "Disconnected", !.requests = {},
                                !.holders = h, !.streams = Host!NoStreams]
      <4>2. g = [f EXCEPT !.opening = {}]
        BY <3>1 DEF Host!Disconnect, Host!Forget
      <4> HIDE DEF h
      <4>3. f \in HostFields(Y \cup {<<>>, "Disconnected", {}, h, Host!NoStreams})
        BY <4>1 DEF HostFields
      <4>4. f.nextStreamId = b.nextStreamId
        BY <4>1 DEF HostFields
      <4> HIDE DEF f
      <4>5. g.nextStreamId = f.nextStreamId
        BY <4>2, <4>3 DEF HostFields
      <4> QED  BY <4>4, <4>5
    <3> QED  BY <1>3, <1>7, <2>1, <3>1, <3>3, <3>4 DEF Empty
  <2>2. CASE ~(Len(SentOf(c, q)) < Len(q))
    <3>1. a = b
      BY <2>2
    <3> QED  BY <1>3, <1>7, <1>8, <2>2, <3>1
  <2> QED  BY <2>1, <2>2
<1> HIDE DEF a
<1>10. PICK Z : a \in HostFields(Z)
  BY <1>9 DEF HostWhole
<1>11. d \in HostFields(Z \cup {"destroyed"})
  BY <1>4, <1>10 DEF HostFields
<1>12. /\ d.object = "destroyed" /\ d.toDevice = a.toDevice
       /\ d.outgoing = a.outgoing /\ d.state = a.state /\ d.requests = a.requests
       /\ d.holders = a.holders /\ d.streams = a.streams
       /\ d.nextStreamId = a.nextStreamId /\ d.opening = a.opening
       /\ d.assertsHold = a.assertsHold
  BY <1>4, <1>10 DEF HostFields
<1> QED  BY <1>9, <1>11, <1>12 DEF HostWhole, t

(* The Closes are sent, all of them. *)
LEMMA LeavesInWorld ==
    ASSUME NEW n, NEW c, NEW p, NEW e, NEW w, NEW r, NEW q, NEW y,
           Fine(n, c, p, e, w, r), Connected(c), q = ClosesOf(c), q \in Seq(Message),
           Range(q) = {QdbMessage("Close", h, c.streams[h], 0) : h \in DOMAIN c.streams},
           y.state = "Disconnected", y.object = "destroyed",
           y.outgoing = <<>>, y.requests = {}, y.holders = {},
           DOMAIN y.streams = {}, y.streams \in [DOMAIN y.streams -> Nat],
           y.nextStreamId = c.nextStreamId, y.opening = c.opening,
           y.assertsHold = c.assertsHold, y.toDevice = p \o q
    PROVE  World(n, y, e, w, r)
<1> DEFINE a == Image(c, p)
<1>1. World(n, a, e, w, r) /\ p \in Seq(Message)
  BY FineFields DEF Fine
<1>2. JoinOf(p, q, y.toDevice)
  BY <1>1, Joined
<1>3. Connected(a)
  BY ImageConnected
<1>4. a.streams = c.streams /\ a.toDevice = p /\ a.nextStreamId = c.nextStreamId
      /\ a.opening = c.opening /\ a.assertsHold = c.assertsHold
  BY ImageFields
<1> HIDE DEF a
<1>5. HostLeaves(a, y, q)
  BY <1>2, <1>4 DEF HostLeaves
<1> QED  BY <1>1, <1>3, <1>5, DestroyConnected

(* A part of what is sent is sound when all of it is. *)
LEMMA SentInPart ==
    ASSUME NEW p \in Seq(Message), NEW q \in Seq(Message), NEW e, SentSound(p \o q, e),
           NEW k \in 0..Len(q)
    PROVE  SentSound(p \o SubSeq(q, 1, k), e)
<1> DEFINE a == SubSeq(q, 1, k)
           b == SubSeq(q, k + 1, Len(q))
<1>1. a \in Seq(Message) /\ b \in Seq(Message) /\ q = a \o b
  BY SplitQueue
<1> HIDE DEF a, b
<1>2. p \o q = (p \o a) \o b /\ p \o a \in Seq(Message)
  <2>1. p \o a \in Seq(Message)
    BY <1>1
  <2>2. p \o (a \o b) = (p \o a) \o b
    BY <1>1
  <2> QED  BY <1>1, <2>1, <2>2
<1> DEFINE x == p \o a
           z == p \o q
<1>3. JoinOf(x, b, z)
  <2>1. z = x \o b /\ x \in Seq(Message)
    BY <1>2
  <2> HIDE DEF x, z
  <2> QED  BY <1>1, <2>1, Joined
<1>4. SentSound(z, e)
  OBVIOUS
<1> HIDE DEF x, z
<1>5. SentSound(x, e)
  BY <1>3, <1>4, SentPrefix
<1> QED  BY <1>5 DEF x, a

(* The destructor of the object. *)
LEMMA HostIsDestroyed ==
    ASSUME NEW n, NEW c, NEW p, NEW e, NEW w, NEW r, Fine(n, c, p, e, w, r),
           c.object = "live", c.toDevice \in Seq(Message), NEW d, d = Host!Destroy(c)
    PROVE  Ended(n, c, d, p, e, w, r) /\ d.object = "destroyed"
<1>1. /\ HostWhole(c) /\ c.sends \in Nat /\ p \in Seq(Message)
      /\ c.streams \in [DOMAIN c.streams -> Nat] /\ c.holders \subseteq DOMAIN c.streams
      /\ c.nextStreamId \in 1..MaxStreams + 1 /\ c.assertsHold = TRUE
  BY FineFields
<1>2. World(n, Image(c, p), e, w, r) /\ (c.sends = 0 \/ p = c.toDevice)
  BY DEF Fine
<1>3. CASE c.state = "WaitingForConnection"
  <2>1. /\ d.state = "Disconnected" /\ d.object = "destroyed"
        /\ d.outgoing = c.outgoing /\ d.streams = c.streams /\ d.holders = c.holders
        /\ d.assertsHold = c.assertsHold
        /\ d.toDevice = c.toDevice /\ SameIds(c, d)
    BY <1>1, <1>3, HostStops
  <2> DEFINE a == Image(c, p)
             g == Image(d, p)
  <2>2. /\ g.state = "Disconnected" /\ g.outgoing = a.outgoing /\ g.streams = a.streams
        /\ g.holders = a.holders /\ g.object = "destroyed"
        /\ g.assertsHold = a.assertsHold /\ g.toDevice = a.toDevice
    BY <2>1 DEF Image
  <2>3. SameIds(a, g)
    BY <2>1, ImageSameIds
  <2>4. World(n, a, e, w, r) /\ a.state = "WaitingForConnection"
    BY <1>2, <1>3, ImageFields
  <2> HIDE DEF a, g
  <2>5. World(n, g, e, w, r)
    BY <2>2, <2>3, <2>4, DestroyEarly
  <2> QED  BY <2>1, <2>5 DEF Ended, g
<1>4. CASE Connected(c)
  <2> DEFINE q == ClosesOf(c)
             s == SentOf(c, q)
  <2>1. /\ q \in Seq(Message) /\ Len(q) \in Nat /\ Len(q) <= MaxStreams
        /\ Range(q) = {QdbMessage("Close", h, c.streams[h], 0) : h \in DOMAIN c.streams}
    <3>1. DOMAIN c.streams \subseteq 1..c.nextStreamId - 1
      BY FineFields
    <3>2. DOMAIN c.streams \subseteq 1..MaxStreams /\ MaxStreams \in Nat
      BY <1>1, <3>1, BoundsAssumption
    <3> QED  BY <1>1, <3>2, ClosesAreSound
  <2>2. /\ HostWhole(d) /\ d.state = "Disconnected" /\ d.object = "destroyed"
        /\ d.outgoing = <<>> /\ d.requests = {} /\ d.holders = {}
        /\ DOMAIN d.streams = {} /\ d.streams \in [DOMAIN d.streams -> Nat]
        /\ d.nextStreamId = c.nextStreamId /\ d.assertsHold = c.assertsHold
        /\ d.toDevice = c.toDevice \o s
        /\ Len(s) < Len(q) => d.opening = {}
        /\ ~(Len(s) < Len(q)) => d.opening = c.opening
    <3> DEFINE z == q
    <3>1. z = ClosesOf(c)
      OBVIOUS
    <3> HIDE DEF z
    <3> QED  BY <1>1, <1>4, <3>1, HostEnds DEF z
  <2>3. q = ClosesOf(c)
    OBVIOUS
  <2> HIDE DEF q
  <2>4. IF Len(q) <= c.sends THEN s = q ELSE s = SubSeq(q, 1, c.sends) /\ Len(s) < Len(q)
    <3>1. ~(Len(q) <= c.sends) => c.sends \in 0..Len(q) /\ c.sends < Len(q)
      BY <1>1, <2>1
    <3>2. c.sends \in 0..Len(q) => Len(SubSeq(q, 1, c.sends)) = c.sends
      BY <1>1, <2>1
    <3> QED  BY <3>1, <3>2 DEF SentOf
  <2> HIDE DEF s
  <2> DEFINE y == [state |-> d.state, outgoing |-> d.outgoing, streams |-> d.streams,
                   requests |-> d.requests, nextStreamId |-> d.nextStreamId,
                   opening |-> c.opening, holders |-> d.holders, object |-> d.object,
                   assertsHold |-> d.assertsHold, toDevice |-> p \o q]
  <2>5. /\ y.state = "Disconnected" /\ y.object = "destroyed"
        /\ y.outgoing = <<>> /\ y.requests = {} /\ y.holders = {}
        /\ DOMAIN y.streams = {} /\ y.streams \in [DOMAIN y.streams -> Nat]
        /\ y.nextStreamId = c.nextStreamId /\ y.opening = c.opening
        /\ y.assertsHold = c.assertsHold /\ y.toDevice = p \o q
    BY <2>2
  <2>6. d.opening = c.opening => y = Image(d, p \o q)
    BY DEF Image
  <2> HIDE DEF y
  <2>7. World(n, y, e, w, r)
    BY <1>4, <2>1, <2>3, <2>5, LeavesInWorld
  <2>8. SentSound(p \o q, e)
    BY <2>5, <2>7 DEF World
  <2>9. CASE Len(q) <= c.sends
    <3>1. s = q /\ d.opening = c.opening
      BY <2>1, <2>2, <2>4, <2>9
    <3>2. World(n, Image(d, p \o q), e, w, r) /\ d.toDevice = c.toDevice \o q
      BY <2>2, <2>6, <2>7, <3>1
    <3>3. d.toDevice = c.toDevice \/ (c.sends # 0 /\ SentSound(d.toDevice, e))
      <4>1. CASE c.sends = 0
        <5>1. q = <<>>
          BY <2>1, <2>9, <4>1
        <5> QED  BY <3>2, <5>1
      <4>2. CASE c.sends # 0
        BY <1>2, <2>8, <3>2, <4>2
      <4> QED  BY <4>1, <4>2
    <3>4. p = c.toDevice => p \o q = d.toDevice
      BY <3>2
    <3> DEFINE z == p \o q
    <3>5. World(n, Image(d, z), e, w, r) /\ (p = c.toDevice => z = d.toDevice)
      BY <3>2, <3>4
    <3> HIDE DEF z
    <3>6. Ended(n, c, d, p, e, w, r)
      BY <3>3, <3>5 DEF Ended
    <3> QED  BY <2>2, <3>6
  <2>10. CASE ~(Len(q) <= c.sends)
    <3>1. s = SubSeq(q, 1, c.sends) /\ d.opening = {} /\ c.sends \in 0..Len(q)
          /\ c.sends < Plenty
      BY <1>1, <2>1, <2>2, <2>4, <2>10, BoundsAssumption DEF Plenty
    <3>2. Gone(d, w, r)
      <4>1. NotesGood(w, r)
        BY NotesStay
      <4> QED  BY <1>1, <2>2, <3>1, <4>1 DEF Gone, Lost, Empty
    <3>3. d.toDevice = c.toDevice \/ (c.sends # 0 /\ SentSound(d.toDevice, e))
      <4>1. CASE c.sends = 0
        <5>1. s = <<>>
          BY <3>1, <4>1
        <5> QED  BY <2>2, <5>1
      <4>2. CASE c.sends # 0
        <5>1. SentSound(p \o SubSeq(q, 1, c.sends), e)
          BY <1>1, <2>1, <2>8, <3>1, SentInPart
        <5> QED  BY <1>2, <2>2, <3>1, <4>2, <5>1
      <4> QED  BY <4>1, <4>2
    <3> QED  BY <2>2, <3>1, <3>2, <3>3 DEF Ended
  <2> QED  BY <2>9, <2>10
<1> QED
  <2>1. c.state \in {"Disconnected", "WaitingForConnection", "Connected", "Waiting"}
    BY FineFields
  <2>2. c.state # "Disconnected"
    BY FineFields
  <2> QED  BY <1>3, <1>4, <2>1, <2>2 DEF Connected

(* ConnectionPool::connect() of a new object. *)
LEMMA HostBegins ==
    ASSUME NEW n, NEW c, NEW p, NEW e, NEW w, NEW r, Fine(n, c, p, e, w, r),
           c.object = "new", NEW b, b = Host!Connect(c),
           NEW d, d = [b EXCEPT !.object = "live"]
    PROVE  Ended(n, c, d, p, e, w, r) /\ d.object = "live"
<1>1. /\ HostWhole(c) /\ c.sends \in Nat /\ p \in Seq(Message)
      /\ c.outgoing \in Seq(Message) /\ Len(c.outgoing) = 0 /\ c.state = "Disconnected"
      /\ c.streams \in [DOMAIN c.streams -> Nat] /\ c.holders \subseteq DOMAIN c.streams
      /\ c.nextStreamId \in 1..MaxStreams + 1 /\ c.assertsHold = TRUE
      /\ DOMAIN c.streams = {} /\ c.holders = {}
  <2>1. c.state = "Disconnected" /\ c.outgoing = <<>>
    BY FineFields
  <2>2. DOMAIN c.streams = {} /\ c.holders \subseteq DOMAIN c.streams
    BY <2>1, FineFields DEF Connected
  <2> QED  BY <2>1, <2>2, FineFields
<1>2. c.requests = {}
  <2> DEFINE a == Image(c, p)
  <2>1. a.state = c.state /\ a.object = c.object /\ a.requests = c.requests
    BY ImageFields
  <2>2. LifeSound(a)
    BY DEF Fine, World, HostSound
  <2> HIDE DEF a
  <2> QED  BY <1>1, <2>1, <2>2 DEF LifeSound
<1>3. World(n, Image(c, p), e, w, r) /\ (c.sends = 0 \/ p = c.toDevice)
  BY DEF Fine
<1>4. /\ HostWhole(b)
      /\ c.sends = 0 => Empty(b) /\ b.sends = 0 /\ b.toDevice = c.toDevice
      /\ c.sends # 0 =>
           /\ b.state = "WaitingForConnection" /\ b.outgoing = <<>>
           /\ b.toDevice = Append(c.toDevice, ConnectMessage)
           /\ b.sends = c.sends - 1
           /\ b.streams = c.streams /\ b.holders = c.holders /\ SameIds(c, b)
           /\ b.assertsHold = c.assertsHold
  BY <1>1, HostAsks
<1>5. PICK X : b \in HostFields(X)
  BY <1>4 DEF HostWhole
<1>6. /\ d.object = "live"
      /\ d.state = b.state /\ d.outgoing = b.outgoing /\ d.streams = b.streams
      /\ d.holders = b.holders /\ d.assertsHold = b.assertsHold
      /\ d.toDevice = b.toDevice
      /\ d.requests = b.requests /\ d.nextStreamId = b.nextStreamId /\ d.opening = b.opening
  BY <1>5 DEF HostFields
<1>7. CASE c.sends = 0
  <2>1. Gone(d, w, r)
    <3>1. NotesGood(w, r)
      BY NotesStay
    <3> QED  BY <1>4, <1>6, <1>7, <3>1 DEF Gone, Lost, Empty
  <2>2. c.sends < Plenty
    BY <1>7, BoundsAssumption DEF Plenty
  <2> QED  BY <1>4, <1>6, <1>7, <2>1, <2>2 DEF Ended
<1>8. CASE c.sends # 0
  <2> DEFINE a == Image(c, p)
             t == Append(c.toDevice, ConnectMessage)
             g == Image(d, t)
  <2>0. p = c.toDevice /\ d.toDevice = t
    BY <1>3, <1>4, <1>6, <1>8
  <2>1. LongerBy(a.toDevice, ConnectMessage, t)
    <3>1. ConnectMessage \in Message
      BY DEF ConnectMessage, QdbMessage, qdbProtocolVersion, Message, Commands, StreamId
    <3> QED  BY <1>1, <2>0, <3>1, Longer, ImageFields
  <2>2. /\ a.nextStreamId = c.nextStreamId /\ a.opening = c.opening
        /\ a.assertsHold = c.assertsHold /\ a.object = "new" /\ a.toDevice = c.toDevice
    BY <2>0, ImageFields
  <2> HIDE DEF a
  <2>3. /\ g.state = "WaitingForConnection" /\ g.outgoing = <<>>
        /\ g.holders = {} /\ DOMAIN g.streams = {}
        /\ g.streams \in [DOMAIN g.streams -> Nat] /\ g.object = "live" /\ g.toDevice = t
        /\ g.assertsHold = c.assertsHold
    BY <1>1, <1>4, <1>6, <1>8 DEF Image
  <2>4. g.requests = {} /\ g.nextStreamId = c.nextStreamId /\ g.opening = c.opening
    BY <1>2, <1>4, <1>6, <1>8 DEF Image, SameIds
  <2> HIDE DEF g
  <2>5. HostRestarts(a, g) /\ g.toDevice = Append(a.toDevice, ConnectMessage)
    BY <2>1, <2>2, <2>3, <2>4 DEF HostRestarts
  <2>6. World(n, a, e, w, r)
    BY <1>3 DEF a
  <2>7. World(n, g, e, w, r)
    BY <2>2, <2>5, <2>6, Begin
  <2>8. SentSound(t, e)
    BY <2>3, <2>7 DEF World
  <2>9. Ended(n, c, d, p, e, w, r)
    <3> HIDE DEF t
    <3> QED  BY <1>8, <2>0, <2>7, <2>8 DEF Ended, g
  <2> QED  BY <1>6, <2>9
<1> QED  BY <1>7, <1>8

(* The destructor of a lost object. *)
LEMMA LostIsDestroyed ==
    ASSUME NEW c, Lost(c), HostWhole(c), NEW d, d = Host!Destroy(c)
    PROVE  Lost(d) /\ d.toDevice = c.toDevice /\ d.object = "destroyed"
<1>1. c.state \in {"Disconnected", "WaitingForConnection"}
  BY DEF Lost, Empty
<1>2. /\ d.state = "Disconnected" /\ d.object = "destroyed"
      /\ d.outgoing = c.outgoing /\ d.streams = c.streams /\ d.holders = c.holders
      /\ d.assertsHold = c.assertsHold /\ d.toDevice = c.toDevice /\ SameIds(c, d)
  BY <1>1, HostStops
<1> QED  BY <1>2 DEF Lost, Empty, SameIds

-----------------------------------------------------------------------------
(* The device's record, with its fields what they were. *)
LEMMA SameDeviceSound ==
    ASSUME NEW e, NEW f, SameDevice(e, f), f.toHost = e.toHost, NEW p
    PROVE  /\ DeviceSound(e) => DeviceSound(f)
           /\ SentSound(p, e) => SentSound(p, f)
           /\ AnswersSound(e) => AnswersSound(f)
           /\ Idle(e) => Idle(f)
           /\ Out(f) = Out(e)
           /\ \A m : Owned(m, f) <=> Owned(m, e)
           /\ \A y : OkFor(f, y) = OkFor(e, y) /\ CloseFor(f, y) = CloseFor(e, y)
<1>1. \A m : Owned(m, f) <=> Owned(m, e)
  BY DEF SameDevice, Owned
<1>2. Out(f) = Out(e)
  BY DEF SameDevice, Out
<1>3. \A y : OkFor(f, y) = OkFor(e, y) /\ CloseFor(f, y) = CloseFor(e, y)
  BY DEF SameDevice, OkFor, CloseFor
<1>4. DeviceSound(e) => DeviceSound(f)
  BY <1>1 DEF SameDevice, DeviceSound
<1>5. SentSound(p, e) => SentSound(p, f)
  BY <1>1 DEF SameDevice, SentSound
<1>6. AnswersSound(e) => AnswersSound(f)
  BY <1>1 DEF AnswersSound
<1>7. Idle(e) => Idle(f)
  BY DEF SameDevice, Idle
<1> QED  BY <1>1, <1>2, <1>3, <1>4, <1>5, <1>6, <1>7

(* ... and the two ends in the world they were in. *)
LEMMA SameDeviceWorld ==
    ASSUME NEW n, NEW c, NEW e, NEW f, NEW w, NEW r, SameDevice(e, f), f.toHost = e.toHost,
           World(n, c, e, w, r)
    PROVE  World(n, c, f, w, r)
<1>1. /\ DeviceSound(f) /\ SentSound(c.toDevice, f) /\ AnswersSound(f)
  BY SameDeviceSound DEF World, J
<1>2. /\ Out(f) = Out(e) /\ \A m : Owned(m, f) <=> Owned(m, e)
  BY SameDeviceSound
<1>3. \A y : OkFor(f, y) = OkFor(e, y) /\ CloseFor(f, y) = CloseFor(e, y)
  BY SameDeviceSound
<1>4. /\ f.state = e.state /\ f.outgoing = e.outgoing /\ f.streams = e.streams
      /\ f.executors = e.executors /\ f.nextStreamId = e.nextStreamId
  BY DEF SameDevice
<1>5. HostIds(c, f)
  BY <1>2, <1>4 DEF World, J, HostIds
<1>6. Unread(f) <=> Unread(e)
  BY <1>2 DEF Unread
<1>7. Behind(c, f) <=> Behind(c, e)
  BY <1>6 DEF Behind
<1>8. Stale(c, f)
  <2>1. Stale(c, e)
    BY DEF World, J
  <2> QED  BY <1>2, <1>3, <1>4, <1>6, <2>1 DEF Stale
<1>9. Hopes(c, f)
  BY <1>4 DEF World, J, Hopes
<1>10. Doomed(c, f)
  BY <1>2, <1>4, <1>7 DEF World, J, Doomed
<1>11. Outstanding(c, f) = Outstanding(c, e)
  BY <1>2 DEF Outstanding
<1>12. InStep(c, f, w, r)
  <2> SUFFICES ASSUME Connected(c), ~Behind(c, f)
               PROVE  Agree(c, f) /\ Chain(c, f, w, r)
    BY DEF InStep
  <2>1. Agree(c, e) /\ Chain(c, e, w, r)
    BY <1>7 DEF World, J, InStep
  <2>2. StreamsAgree(c, f)
    BY <1>2, <1>3, <1>4, <2>1 DEF Agree, StreamsAgree
  <2>3. AnswersAgree(c, f)
    BY <1>2, <1>4, <2>1 DEF Agree, AnswersAgree
  <2>4. OneAnswer(c, f)
    BY <1>11, <2>1 DEF Agree, OneAnswer
  <2>5. DeviceGoesOn(c, f)
    BY <1>4, <2>1 DEF Agree, DeviceGoesOn
  <2>6. Chain(c, f, w, r)
    BY <1>2, <1>4, <2>1 DEF Chain
  <2> QED  BY <2>1, <2>2, <2>3, <2>4, <2>5, <2>6 DEF Agree
<1>13. Left(c, f)
  <2>1. Left(c, e)
    BY DEF World, J
  <2> QED  BY <1>2, <1>3, <1>4, <1>7, <1>11, <2>1 DEF Left
<1>14. First(n, c, f)
  <2>1. First(n, c, e)
    BY DEF World, J
  <2> QED  BY <1>4, <1>7, <2>1 DEF First
<1> QED  BY <1>1, <1>5, <1>8, <1>9, <1>10, <1>12, <1>13, <1>14 DEF World, J

(* The host's object, as if it had sent p. *)
HostNow(p) ==
    [state |-> hState, outgoing |-> hOutgoing, streams |-> hStreams,
     requests |-> requests, nextStreamId |-> hNextStreamId, opening |-> opening,
     holders |-> holders, object |-> object, assertsHold |-> hAsserts, toDevice |-> p]

DeviceNow(t) == Device!Activation(t, TRUE)

InvalidMessage == QdbMessage("Invalid", 0, 0, 0)

(* Of what device e has sent, the host still reads the pipe t, then the failed
   read: it goes on with the connection as if p were on its way there. *)
CutAt(t, q, k, x) == t = SubSeq(q, 1, k) \o <<x>>

Cut(t, e) == \E k \in 0..Len(e.toHost) : CutAt(t, e.toHost, k, InvalidMessage)

Imagined(n, c, t, w, r) == \E p, e : World(n, Image(c, p), e, w, r) /\ Cut(t, e)

(* What is known of host c, device e and the pipes: n is the number of the
   host's object, w and r what the services have noted, on tells whether the
   cable is in. *)
Known(on, n, c, e, w, r) ==
    /\ Idle(e) /\ DeviceSound(e) /\ SentSound(c.toDevice, e)
    /\ on => World(n, c, e, w, r)
    /\ ~on => Gone(c, w, r) \/ Imagined(n, c, e.toHost, w, r)

QdbInv ==
    /\ linkUp \in BOOLEAN /\ connections \in 1..MaxConnections /\ leaving \subseteq StreamIds
    /\ Known(linkUp, connections, HostNow(toDevice), DeviceNow(toHost), written, received)

-----------------------------------------------------------------------------
(* A lost object is lost whatever it has sent. *)
LEMMA GoneImage ==
    ASSUME NEW c, NEW p, NEW w, NEW r
    PROVE  Gone(Image(c, p), w, r) <=> Gone(c, w, r)
BY DEF Gone, Lost, Empty, Image

(* An object that has sent nothing but what is known looks the same. *)
LEMMA ImageTwice ==
    ASSUME NEW c, NEW p, NEW q
    PROVE  Image(Image(c, p), q) = Image(c, q)
BY DEF Image

(* An event on the host is over and the cable still in. *)
LEMMA EndsOn ==
    ASSUME NEW n, NEW a, NEW d, NEW f, NEW g, NEW v, NEW s,
           Ended(n, a, d, a.toDevice, f, v, s), a.sends = Plenty, Idle(f), DeviceSound(f),
           SentSound(a.toDevice, f), SameDevice(f, g), g.toHost = f.toHost
    PROVE  Known(TRUE, n, Image(d, d.toDevice), g, v, s)
<1>1. ~(a.sends < Plenty)
  BY BoundsAssumption DEF Plenty
<1>2. World(n, Image(d, d.toDevice), f, v, s)
  BY <1>1 DEF Ended
<1>3. World(n, Image(d, d.toDevice), g, v, s)
  BY <1>2, SameDeviceWorld
<1>4. Idle(g) /\ DeviceSound(g)
  BY SameDeviceSound
<1>5. SentSound(Image(d, d.toDevice).toDevice, g)
  BY <1>3 DEF World
<1> QED  BY <1>3, <1>4, <1>5 DEF Known

(* The cable was pulled during the event. *)
LEMMA EndsCut ==
    ASSUME NEW n, NEW a, NEW d, NEW p, NEW f, NEW g, NEW v, NEW s,
           Ended(n, a, d, p, f, v, s), Idle(g), DeviceSound(g), SentSound(d.toDevice, g),
           Cut(g.toHost, f)
    PROVE  Known(FALSE, n, Image(d, d.toDevice), g, v, s)
<1>1. SentSound(Image(d, d.toDevice).toDevice, g)
  BY ImageFields
<1>2. CASE Gone(d, v, s)
  <2>1. Gone(Image(d, d.toDevice), v, s)
    BY <1>2, GoneImage
  <2> QED  BY <1>1, <2>1 DEF Known
<1>3. CASE \E q : World(n, Image(d, q), f, v, s)
  <2>1. PICK q : World(n, Image(d, q), f, v, s)
    BY <1>3
  <2>2. World(n, Image(Image(d, d.toDevice), q), f, v, s)
    BY <2>1, ImageTwice
  <2>3. Imagined(n, Image(d, d.toDevice), g.toHost, v, s)
    BY <2>2 DEF Imagined
  <2> QED  BY <1>1, <2>3 DEF Known
<1> QED  BY <1>2, <1>3 DEF Ended

(* The object is gone, and nothing else happened. *)
LEMMA EndsGone ==
    ASSUME NEW n, NEW d, NEW g, NEW v, NEW s, Gone(d, v, s), Idle(g), DeviceSound(g),
           SentSound(d.toDevice, g)
    PROVE  Known(FALSE, n, Image(d, d.toDevice), g, v, s)
<1>1. SentSound(Image(d, d.toDevice).toDevice, g)
  BY ImageFields
<1>2. Gone(Image(d, d.toDevice), v, s)
  BY GoneImage
<1> QED  BY <1>1, <1>2 DEF Known

(* What the host's event leaves in the pipe, of what the device e had sent. *)
After(on, sends, e, g, up) ==
    /\ SameDevice(e, g) /\ g.toHost \in Seq(Message) /\ up = (sends = Plenty)
    /\ IF on /\ ~up THEN Cut(g.toHost, e) ELSE g.toHost = e.toHost

Answered(n, a, d, w, r, v, s) ==
    \A p, x : Fine(n, a, p, x, w, r) => Ended(n, a, d, p, x, v, s)

(* An event on the host that takes nothing from the pipe. *)
LEMMA HostActs ==
    ASSUME NEW on \in BOOLEAN, NEW up, NEW n, NEW a, NEW d, NEW e, NEW g, NEW w, NEW r, NEW v, NEW s,
           Known(on, n, Image(a, a.toDevice), e, w, r), HostWhole(a), a.sends \in Nat,
           on \/ a.sends = 0, Answered(n, a, d, w, r, v, s),
           Gone(a, w, r) => Gone(d, v, s) /\ d.toDevice = a.toDevice,
           After(on, a.sends, e, g, up)
    PROVE  Known(up, n, Image(d, d.toDevice), g, v, s)
<1>1. /\ Idle(e) /\ DeviceSound(e) /\ SentSound(a.toDevice, e)
  BY ImageFields DEF Known
<1>2. SameDevice(e, g) /\ g.toHost \in Seq(Message) /\ up = (a.sends = Plenty)
  BY DEF After
<1>3. Idle(g) /\ DeviceSound(g) /\ SentSound(a.toDevice, g)
  BY <1>1, <1>2 DEF SameDevice, Idle, DeviceSound, SentSound, Owned
<1>4. CASE on
  <2>1. Fine(n, a, a.toDevice, e, w, r)
    BY <1>4 DEF Known, Fine
  <2>2. Ended(n, a, d, a.toDevice, e, v, s)
    BY <2>1 DEF Answered
  <2>3. CASE a.sends = Plenty
    <3>1. g.toHost = e.toHost /\ up = TRUE
      BY <1>2, <2>3 DEF After
    <3> QED  BY <1>1, <1>2, <2>2, <2>3, <3>1, EndsOn
  <2>4. CASE a.sends # Plenty
    <3>1. Cut(g.toHost, e) /\ up = FALSE
      BY <1>2, <1>4, <2>4 DEF After
    <3>2. SentSound(d.toDevice, g)
      <4>1. SentSound(d.toDevice, e)
        BY <1>1, <2>2 DEF Ended
      <4> QED  BY <1>2, <4>1 DEF SameDevice, SentSound, Owned
    <3> QED  BY <1>3, <2>2, <3>1, <3>2, EndsCut
  <2> QED  BY <2>3, <2>4
<1>5. CASE ~on
  <2>1. a.sends = 0 /\ up = FALSE /\ g.toHost = e.toHost
    <3>1. a.sends = 0
      BY <1>5
    <3>2. a.sends # Plenty
      BY <3>1, BoundsAssumption DEF Plenty
    <3> QED  BY <1>2, <1>5, <3>1, <3>2 DEF After
  <2>2. CASE Gone(Image(a, a.toDevice), w, r)
    <3>1. Gone(d, v, s) /\ d.toDevice = a.toDevice
      BY <2>2, GoneImage
    <3> QED  BY <1>3, <2>1, <3>1, EndsGone
  <2>3. CASE Imagined(n, Image(a, a.toDevice), e.toHost, w, r)
    <3>1. PICK p, x : World(n, Image(Image(a, a.toDevice), p), x, w, r) /\ Cut(e.toHost, x)
      BY <2>3 DEF Imagined
    <3>2. World(n, Image(a, p), x, w, r)
      BY <3>1, ImageTwice
    <3>3. Fine(n, a, p, x, w, r)
      BY <2>1, <3>2 DEF Fine
    <3>4. Ended(n, a, d, p, x, v, s)
      BY <3>3 DEF Answered
    <3>5. SentSound(d.toDevice, g)
      BY <1>3, <2>1, <3>4 DEF Ended
    <3>6. Cut(g.toHost, x)
      BY <2>1, <3>1
    <3> QED  BY <1>3, <2>1, <3>4, <3>5, <3>6, EndsCut
  <2> QED  BY <1>5, <2>2, <2>3 DEF Known
<1> QED  BY <1>4, <1>5

(* The device's state with another pipe. *)
DeviceWith(e, t) ==
    [state |-> e.state, outgoing |-> e.outgoing, streams |-> e.streams,
     executors |-> e.executors, nextStreamId |-> e.nextStreamId,
     assertsHold |-> e.assertsHold, toHost |-> t, isOpen |-> TRUE]

(* The host takes the first message of the pipe. *)
LEMMA HostTakesFirst ==
    ASSUME NEW e, DeviceSound(e), e.toHost # <<>>
    PROVE  HostTakes(e, DeviceWith(e, Tail(e.toHost)), Head(e.toHost))
<1> DEFINE f == DeviceWith(e, Tail(e.toHost))
<1>1. /\ f.state = e.state /\ f.outgoing = e.outgoing /\ f.streams = e.streams
      /\ f.executors = e.executors /\ f.nextStreamId = e.nextStreamId
      /\ f.assertsHold = e.assertsHold /\ f.toHost = Tail(e.toHost)
  BY DEF DeviceWith
<1>2. e.toHost \in Seq(Message) /\ e.outgoing \in Seq(Message)
  BY DEF DeviceSound
<1> HIDE DEF f
<1>3. ShorterBy(e.toHost, Head(e.toHost), f.toHost)
  BY <1>1, <1>2, Shorter
<1>4. ShorterBy(Out(e), Head(e.toHost), Out(f))
  BY <1>1, <1>2, ShorterJoin DEF Out
<1>5. HostTakes(e, f, Head(e.toHost))
  BY <1>1, <1>3, <1>4 DEF HostTakes
<1> QED  BY <1>5 DEF f

(* What is read of the pipe t: x after the first k messages of q. *)
ReadOf(t, q, k, x) ==
    /\ t # <<>>
    /\ k = 0 => Head(t) = x /\ Tail(t) = <<>>
    /\ k # 0 => /\ q # <<>> /\ Head(t) = Head(q) /\ k - 1 \in 0..Len(Tail(q))
                /\ CutAt(Tail(t), Tail(q), k - 1, x)

(* What is read first of a pipe cut off behind k messages. *)
LEMMA CutFirst ==
    ASSUME NEW q \in Seq(Message), NEW k \in 0..Len(q), NEW x, NEW t, CutAt(t, q, k, x)
    PROVE  ReadOf(t, q, k, x)
<1> DEFINE a == SubSeq(q, 1, k)
<1>1. /\ Len(q) \in Nat /\ k \in Nat
      /\ a \in Seq(Message) /\ Len(a) = k /\ \A i \in 1..k : a[i] = q[i]
  OBVIOUS
<1>2. t = a \o <<x>>
  BY DEF CutAt
<1> HIDE DEF a
<1> DEFINE T == Message \cup {x}
<1>3. a \in Seq(T) /\ <<x>> \in Seq(T) /\ q \in Seq(T)
  BY <1>1
<1>4. /\ t \in Seq(T) /\ Len(t) = k + 1 /\ t[k + 1] = x
      /\ \A i \in 1..k : t[i] = q[i]
  <2> HIDE DEF T
  <2>1. t \in Seq(T) /\ Len(t) = Len(a) + 1
    BY <1>2, <1>3
  <2>2. \A i \in 1..Len(a) : t[i] = a[i]
    BY <1>2, <1>3
  <2>3. t[Len(a) + 1] = x
    BY <1>2, <1>3
  <2> QED  BY <1>1, <2>1, <2>2, <2>3
<1> HIDE DEF T
<1>5. t # <<>>
  BY <1>1, <1>4
<1>6. /\ Head(t) = t[1] /\ Tail(t) \in Seq(T) /\ DOMAIN Tail(t) = 1..Len(t) - 1
      /\ Len(Tail(t)) = Len(t) - 1
      /\ \A i \in 1..Len(t) - 1 : Tail(t)[i] = t[i + 1]
  <2>1. /\ Head(t) = t[1] /\ Tail(t) \in Seq(T) /\ DOMAIN Tail(t) = 1..Len(t) - 1
        /\ \A i \in 1..Len(t) - 1 : Tail(t)[i] = t[i + 1]
    BY <1>4, <1>5, TailParts
  <2>2. Len(Tail(t)) = Len(t) - 1
    BY <1>4, <1>5
  <2> QED  BY <2>1, <2>2
<1>7. CASE k = 0
  <2>1. Head(t) = x
    BY <1>4, <1>6, <1>7
  <2>2. Tail(t) = <<>>
    BY <1>1, <1>4, <1>6, <1>7
  <2> QED  BY <1>5, <1>7, <2>1, <2>2 DEF ReadOf
<1>8. CASE k # 0
  <2>0. k >= 1 /\ Len(q) >= k
    BY <1>1, <1>8
  <2>1. q # <<>> /\ Head(t) = Head(q)
    <3>1. q # <<>>
      BY <2>0
    <3>2. Head(q) = q[1]
      BY <3>1, TailParts
    <3>3. t[1] = q[1]
      BY <1>1, <1>4, <2>0
    <3> QED  BY <1>6, <3>1, <3>2, <3>3
  <2> DEFINE p == Tail(q)
             l == k - 1
  <2>2. p \in Seq(T) /\ Len(p) = Len(q) - 1 /\ \A i \in 1..Len(q) - 1 : p[i] = q[i + 1]
    BY <1>3, <2>1, TailParts
  <2>3. l \in 0..Len(p) /\ l \in Nat
    BY <1>1, <2>0, <2>2
  <2>4. l + 1 = k /\ Len(t) - 1 = k
    BY <1>1, <1>4
  <2> HIDE DEF p, l
  <2> DEFINE b == SubSeq(p, 1, l)
             u == b \o <<x>>
  <2>5. b \in Seq(T) /\ Len(b) = l /\ \A i \in 1..l : b[i] = p[i]
    BY <2>2, <2>3
  <2> HIDE DEF b
  <2>6. /\ u \in Seq(T) /\ Len(u) = l + 1 /\ u[l + 1] = x
        /\ \A i \in 1..l : u[i] = b[i]
    <3>1. u \in Seq(T) /\ Len(u) = Len(b) + 1
      BY <1>3, <2>5
    <3>2. \A i \in 1..Len(b) : u[i] = b[i]
      BY <1>3, <2>5
    <3>3. u[Len(b) + 1] = x
      BY <1>3, <2>5
    <3> QED  BY <2>5, <3>1, <3>2, <3>3
  <2> HIDE DEF u
  <2>7. \A i \in 1..k : Tail(t)[i] = u[i]
    <3> SUFFICES ASSUME NEW i \in 1..k
                 PROVE  Tail(t)[i] = u[i]
      OBVIOUS
    <3>1. Tail(t)[i] = t[i + 1]
      BY <1>6, <2>4
    <3>2. CASE i = k
      BY <1>4, <2>4, <2>6, <3>1, <3>2
    <3>3. CASE i # k
      <4>1. i \in 1..l /\ i + 1 \in 1..k /\ i \in 1..Len(q) - 1
        BY <1>1, <2>0, <2>3, <2>4, <3>3
      <4>2. u[i] = p[i]
        BY <2>5, <2>6, <4>1
      <4>3. p[i] = q[i + 1] /\ t[i + 1] = q[i + 1]
        BY <1>4, <2>2, <4>1
      <4> QED  BY <3>1, <4>2, <4>3
    <3> QED  BY <3>2, <3>3
  <2>8. Tail(t) = u
    <3>1. Len(Tail(t)) = k /\ Len(u) = k
      BY <1>6, <2>4, <2>6
    <3> QED  BY <1>6, <2>6, <2>7, <3>1, SeqEqual
  <2> QED  BY <1>5, <1>8, <2>1, <2>3, <2>8 DEF u, b, p, l, ReadOf, CutAt
<1> QED  BY <1>7, <1>8

(* The answer to a message of the device, and to the failed read. *)
Handled(n, a, d, m, w, r, v, s) ==
    \A p, x, y : Fine(n, a, p, x, w, r) /\ HostTakes(x, y, m) => Ended(n, a, d, p, y, v, s)

Failed(n, a, d, m, w, r, v, s) ==
    \A p, x : Fine(n, a, p, x, w, r) /\ a.sends = 0 /\ m.command = "Invalid" =>
                  Gone(d, v, s) /\ d.toDevice = a.toDevice

(* What follows the message read stays cut off where it was. *)
LEMMA CutGoesOn ==
    ASSUME NEW t, NEW e, DeviceSound(e), Cut(t, e), Head(t).command # "Invalid"
    PROVE  /\ e.toHost # <<>> /\ Head(t) = Head(e.toHost)
           /\ Cut(Tail(t), DeviceWith(e, Tail(e.toHost)))
<1> DEFINE q == e.toHost
           x == InvalidMessage
           f == DeviceWith(e, Tail(q))
<1>1. PICK k \in 0..Len(q) : CutAt(t, q, k, x)
  BY DEF Cut
<1>2. q \in Seq(Message)
  BY DEF DeviceSound
<1>3. f.toHost = Tail(q)
  BY DEF DeviceWith
<1>4. x.command = "Invalid"
  BY DEF InvalidMessage, QdbMessage
<1> HIDE DEF q, x, f
<1>5. ReadOf(t, q, k, x)
  BY <1>1, <1>2, CutFirst
<1>6. k # 0
  BY <1>4, <1>5 DEF ReadOf
<1> DEFINE l == k - 1
<1>7. /\ q # <<>> /\ Head(t) = Head(q) /\ l \in 0..Len(Tail(q))
      /\ CutAt(Tail(t), Tail(q), l, x)
  BY <1>5, <1>6 DEF ReadOf
<1> HIDE DEF l
<1>8. Cut(Tail(t), f)
  BY <1>3, <1>7 DEF Cut, x
<1> QED  BY <1>7, <1>8 DEF f, q

(* The failed read comes last. *)
LEMMA CutEnds ==
    ASSUME NEW t, NEW e, DeviceSound(e), Cut(t, e)
    PROVE  t # <<>>
<1> DEFINE q == e.toHost
           x == InvalidMessage
<1>1. PICK k \in 0..Len(q) : CutAt(t, q, k, x)
  BY DEF Cut
<1>2. q \in Seq(Message)
  BY DEF DeviceSound
<1> HIDE DEF q, x
<1>3. ReadOf(t, q, k, x)
  BY <1>1, <1>2, CutFirst
<1> QED  BY <1>3 DEF ReadOf

(* The host reads a message. *)
LEMMA HostReads ==
    ASSUME NEW on \in BOOLEAN, NEW up, NEW n, NEW a, NEW d, NEW e, NEW f, NEW g,
           NEW w, NEW r, NEW v, NEW s, NEW m,
           Known(on, n, Image(a, a.toDevice), e, w, r), HostWhole(a), a.sends \in Nat,
           on \/ a.sends = 0, e.toHost # <<>>, m = Head(e.toHost),
           f = DeviceWith(e, Tail(e.toHost)),
           Handled(n, a, d, m, w, r, v, s), Failed(n, a, d, m, w, r, v, s),
           Gone(a, w, r) => Gone(d, v, s) /\ d.toDevice = a.toDevice,
           After(on, a.sends, f, g, up)
    PROVE  Known(up, n, Image(d, d.toDevice), g, v, s)
<1>1. /\ Idle(e) /\ DeviceSound(e) /\ SentSound(a.toDevice, e)
  BY ImageFields DEF Known
<1>2. SameDevice(f, g) /\ g.toHost \in Seq(Message) /\ up = (a.sends = Plenty)
  BY DEF After
<1>3. SameDevice(e, f) /\ f.toHost = Tail(e.toHost) /\ f.toHost \in Seq(Message)
  <2>1. Tail(e.toHost) \in Seq(Message)
    BY <1>1, TailParts DEF DeviceSound
  <2> QED  BY <2>1 DEF DeviceWith, SameDevice
<1>4. Idle(f) /\ DeviceSound(f) /\ SentSound(a.toDevice, f)
  BY <1>1, <1>3 DEF SameDevice, Idle, DeviceSound, SentSound, Owned
<1>5. Idle(g) /\ DeviceSound(g) /\ SentSound(a.toDevice, g)
  BY <1>2, <1>4 DEF SameDevice, Idle, DeviceSound, SentSound, Owned
<1>6. CASE on
  <2>1. Fine(n, a, a.toDevice, e, w, r)
    BY <1>6 DEF Known, Fine
  <2>2. HostTakes(e, f, m)
    BY <1>1, HostTakesFirst
  <2>3. Ended(n, a, d, a.toDevice, f, v, s)
    BY <2>1, <2>2 DEF Handled
  <2>4. CASE a.sends = Plenty
    <3>1. g.toHost = f.toHost /\ up = TRUE
      BY <1>2, <2>4 DEF After
    <3> QED  BY <1>2, <1>4, <2>3, <2>4, <3>1, EndsOn
  <2>5. CASE a.sends # Plenty
    <3>1. Cut(g.toHost, f) /\ up = FALSE
      BY <1>2, <1>6, <2>5 DEF After
    <3>2. SentSound(d.toDevice, g)
      <4>1. SentSound(d.toDevice, f)
        BY <1>4, <2>3 DEF Ended
      <4> QED  BY <1>2, <4>1 DEF SameDevice, SentSound, Owned
    <3> QED  BY <1>5, <2>3, <3>1, <3>2, EndsCut
  <2> QED  BY <2>4, <2>5
<1>7. CASE ~on
  <2>1. a.sends = 0 /\ up = FALSE /\ g.toHost = Tail(e.toHost)
    <3>1. a.sends = 0
      BY <1>7
    <3>2. a.sends # Plenty
      BY <3>1, BoundsAssumption DEF Plenty
    <3> QED  BY <1>2, <1>3, <1>7, <3>1, <3>2 DEF After
  <2>2. CASE Gone(Image(a, a.toDevice), w, r)
    <3>1. Gone(d, v, s) /\ d.toDevice = a.toDevice
      BY <2>2, GoneImage
    <3> QED  BY <1>5, <2>1, <3>1, EndsGone
  <2>3. CASE Imagined(n, Image(a, a.toDevice), e.toHost, w, r)
    <3>1. PICK p, x : World(n, Image(Image(a, a.toDevice), p), x, w, r) /\ Cut(e.toHost, x)
      BY <2>3 DEF Imagined
    <3>2. World(n, Image(a, p), x, w, r) /\ DeviceSound(x)
      BY <3>1, ImageTwice DEF World
    <3>3. Fine(n, a, p, x, w, r)
      BY <2>1, <3>2 DEF Fine
    <3>4. CASE m.command = "Invalid"
      <4>1. Gone(d, v, s) /\ d.toDevice = a.toDevice
        BY <2>1, <3>3, <3>4 DEF Failed
      <4> QED  BY <1>5, <2>1, <4>1, EndsGone
    <3>5. CASE m.command # "Invalid"
      <4> DEFINE y == DeviceWith(x, Tail(x.toHost))
      <4>1. /\ x.toHost # <<>> /\ m = Head(x.toHost) /\ Cut(Tail(e.toHost), y)
        BY <3>1, <3>2, <3>5, CutGoesOn
      <4>2. HostTakes(x, y, m)
        BY <3>2, <4>1, HostTakesFirst
      <4> HIDE DEF y
      <4>3. Ended(n, a, d, p, y, v, s)
        BY <3>3, <4>2 DEF Handled
      <4>4. SentSound(d.toDevice, g)
        BY <1>5, <2>1, <4>3 DEF Ended
      <4>5. Cut(g.toHost, y)
        BY <2>1, <4>1
      <4> QED  BY <1>5, <2>1, <4>3, <4>4, <4>5, EndsCut
    <3> QED  BY <3>4, <3>5
  <2> QED  BY <1>7, <2>2, <2>3 DEF Known
<1> QED  BY <1>6, <1>7

(* The object's record at the start of an event. *)
LEMMA ActivationIsWhole ==
    ASSUME NEW sends, NEW a, a = Host!Activation(toDevice, sends)
    PROVE  /\ HostWhole(a) /\ a.sends = sends /\ a.toDevice = toDevice
           /\ \A p : Image(a, p) = HostNow(p)
           /\ a.state = hState /\ a.outgoing = hOutgoing /\ a.streams = hStreams
           /\ a.requests = requests /\ a.nextStreamId = hNextStreamId
           /\ a.opening = opening /\ a.holders = holders /\ a.object = object
<1> DEFINE X == {hState, hOutgoing, hStreams, requests, hNextStreamId, opening, holders,
                 object, hAsserts, toDevice, sends}
<1>1. a \in HostFields(X)
  BY DEF Host!Activation, HostFields
<1>2. HostWhole(a)
  BY <1>1 DEF HostWhole
<1>3. \A p : Image(a, p) = HostNow(p)
  BY DEF Host!Activation, Image, HostNow
<1>4. /\ a.sends = sends /\ a.toDevice = toDevice
      /\ a.state = hState /\ a.outgoing = hOutgoing /\ a.streams = hStreams
      /\ a.requests = requests /\ a.nextStreamId = hNextStreamId
      /\ a.opening = opening /\ a.holders = holders /\ a.object = object
  BY DEF Host!Activation
<1> QED  BY <1>2, <1>3, <1>4

(* ... and at its end. *)
LEMMA HostCommits ==
    ASSUME NEW d, Host!Commit(d)
    PROVE  /\ HostNow(toDevice)' = Image(d, d.toDevice)
           /\ object' = d.object /\ toDevice' = d.toDevice
BY DEF Host!Commit, HostNow, Image

(* With the cable out no send succeeds. *)
LEMMA SendsAreCounted ==
    ASSUME NEW sends \in Sends
    PROVE  sends \in Nat /\ (linkUp \/ sends = 0)
BY BoundsAssumption DEF Sends, Plenty

(* The device's record, and what is in its pipe after the host's event. *)
LEMMA DeviceNowFields ==
    ASSUME NEW t
    PROVE  /\ DeviceNow(t).state = dState /\ DeviceNow(t).outgoing = dOutgoing
           /\ DeviceNow(t).streams = dStreams /\ DeviceNow(t).executors = executors
           /\ DeviceNow(t).nextStreamId = dNextStreamId /\ DeviceNow(t).assertsHold = dAsserts
           /\ DeviceNow(t).toHost = t /\ DeviceNow(t).isOpen = TRUE
BY DEF DeviceNow, Device!Activation

(* An event on the host leaves the device as it is. *)
LEMMA DeviceNowStays ==
    ASSUME UNCHANGED deviceVars, NEW f, SameDevice(DeviceNow(toHost), f)
    PROVE  SameDevice(f, DeviceNow(toHost)') /\ DeviceNow(toHost)'.toHost = toHost'
BY DEF deviceVars, DeviceNow, Device!Activation, SameDevice

(* What an event on the host does to the cable and to the pipe. *)
LEMMA LinkIsAfter ==
    ASSUME NEW sends, NEW pipe \in Seq(Message), NEW f, SameDevice(DeviceNow(toHost), f),
           f.toHost = pipe, LinkAfter(sends, pipe), UNCHANGED deviceVars
    PROVE  After(linkUp, sends, f, DeviceNow(toHost)', linkUp')
<1> DEFINE g == DeviceNow(toHost)'
<1>1. SameDevice(f, g) /\ g.toHost = toHost'
  BY DeviceNowStays
<1> HIDE DEF g
<1>2. linkUp' = (sends = Plenty)
  BY DEF LinkAfter
<1>3. InvalidMessage \in Message
  BY DEF InvalidMessage, QdbMessage, Message, Commands, StreamId
<1>4. CASE linkUp /\ ~linkUp'
  <2>1. toHost' \in Arrived(pipe)
    BY <1>4 DEF LinkAfter
  <2>2. PICK k \in 0..Len(pipe) : toHost' = SubSeq(pipe, 1, k) \o <<InvalidMessage>>
    BY <2>1 DEF Arrived, InvalidMessage
  <2>3. Cut(g.toHost, f)
    BY <1>1, <2>2 DEF Cut, CutAt
  <2>4. g.toHost \in Seq(Message)
    <3>1. SubSeq(pipe, 1, k) \in Seq(Message)
      BY SplitQueue
    <3> QED  BY <1>1, <1>3, <2>2, <3>1
  <2> QED  BY <1>1, <1>2, <1>4, <2>3, <2>4 DEF After, g
<1>5. CASE ~(linkUp /\ ~linkUp')
  <2>1. toHost' = pipe
    BY <1>5 DEF LinkAfter
  <2> QED  BY <1>1, <1>2, <1>5, <2>1 DEF After, g
<1> QED  BY <1>4, <1>5

(* An event on the host that takes nothing from the pipe keeps the invariant. *)
LEMMA HostActsInQdb ==
    ASSUME QdbInv, NEW sends \in Sends, NEW a, a = Host!Activation(toDevice, sends),
           NEW d, Host!Commit(d), HostEvent(sends), leaving' \subseteq StreamIds,
           Answered(connections, a, d, written, received, written', received'),
           Gone(a, written, received) =>
               Gone(d, written', received') /\ d.toDevice = a.toDevice
    PROVE  QdbInv'
<1> DEFINE e == DeviceNow(toHost)
<1>1. /\ linkUp \in BOOLEAN /\ connections \in 1..MaxConnections
      /\ Known(linkUp, connections, HostNow(toDevice), e, written, received)
  BY DEF QdbInv
<1>2. HostWhole(a) /\ a.sends = sends /\ a.toDevice = toDevice
      /\ Image(a, a.toDevice) = HostNow(toDevice)
  BY ActivationIsWhole
<1>3. sends \in Nat /\ (linkUp \/ sends = 0)
  BY SendsAreCounted
<1>4. LinkAfter(sends, toHost) /\ UNCHANGED deviceVars /\ connections' = connections
  BY DEF HostEvent
<1>5. e.toHost = toHost /\ toHost \in Seq(Message)
  <2>1. e.toHost = toHost
    BY DeviceNowFields
  <2>2. e.toHost \in Seq(Message)
    BY <1>1 DEF Known, DeviceSound
  <2> QED  BY <2>1, <2>2
<1>6. After(linkUp, sends, e, DeviceNow(toHost)', linkUp')
  <2>1. SameDevice(e, e)
    BY DEF SameDevice
  <2> QED  BY <1>4, <1>5, <2>1, LinkIsAfter
<1> HIDE DEF e
<1>7. Known(linkUp', connections, Image(d, d.toDevice), DeviceNow(toHost)', written', received')
  <2> DEFINE up == linkUp'
             g == DeviceNow(toHost)'
             v == written'
             s == received'
             h == Image(a, a.toDevice)
  <2>1. /\ After(linkUp, a.sends, e, g, up)
        /\ Answered(connections, a, d, written, received, v, s)
        /\ Gone(a, written, received) => Gone(d, v, s) /\ d.toDevice = a.toDevice
        /\ Known(linkUp, connections, Image(a, a.toDevice), e, written, received)
        /\ a.sends \in Nat /\ (linkUp \/ a.sends = 0)
    BY <1>1, <1>2, <1>3, <1>6
  <2> HIDE DEF up, g, v, s
  <2>2. Known(up, connections, Image(d, d.toDevice), g, v, s)
    BY <1>1, <1>2, <2>1, HostActs
  <2> QED  BY <2>2 DEF up, g, v, s
<1>8. HostNow(toDevice)' = Image(d, d.toDevice)
  BY HostCommits
<1>9. linkUp' \in BOOLEAN
  BY <1>4 DEF LinkAfter
<1> QED  BY <1>1, <1>4, <1>7, <1>8, <1>9 DEF QdbInv

(* The services that hold a stream are among those there can be. *)
LEMMA HoldersAreIds ==
    ASSUME QdbInv
    PROVE  holders \subseteq StreamIds
<1>1. ASSUME NEW p, NEW e, World(connections, HostNow(p), e, written, received)
      PROVE  holders \subseteq StreamIds
  <2> DEFINE c == HostNow(p)
  <2>1. c.holders = holders /\ c.streams = hStreams
    BY DEF HostNow
  <2>2. HostTyped(c) /\ IdsSound(c)
    BY <1>1 DEF World, HostSound
  <2> HIDE DEF c
  <2>3. c.holders \subseteq DOMAIN c.streams /\ c.nextStreamId \in 1..MaxStreams + 1
    BY <2>2 DEF HostTyped
  <2>4. DOMAIN c.streams \subseteq 1..c.nextStreamId - 1
    BY <2>2 DEF IdsSound
  <2>5. DOMAIN c.streams \subseteq StreamIds
    BY <2>3, <2>4, BoundsAssumption DEF StreamIds
  <2> QED  BY <2>1, <2>3, <2>5
<1> DEFINE e == DeviceNow(toHost)
<1>2. Known(linkUp, connections, HostNow(toDevice), e, written, received)
  BY DEF QdbInv
<1> HIDE DEF e
<1>3. CASE linkUp
  BY <1>1, <1>2, <1>3 DEF Known
<1>4. CASE Gone(HostNow(toDevice), written, received)
  <2>1. HostNow(toDevice).holders = {}
    BY <1>4 DEF Gone, Lost, Empty
  <2> QED  BY <2>1 DEF HostNow
<1>5. CASE Imagined(connections, HostNow(toDevice), e.toHost, written, received)
  <2>1. PICK p, x : World(connections, Image(HostNow(toDevice), p), x, written, received)
    BY <1>5 DEF Imagined
  <2>2. Image(HostNow(toDevice), p) = HostNow(p)
    BY DEF Image, HostNow
  <2> QED  BY <1>1, <2>1, <2>2
<1> QED  BY <1>2, <1>3, <1>4, <1>5 DEF Known

(* An event with one send at most is over. *)
LEMMA OneSendEnds ==
    ASSUME NEW n, NEW c, NEW d, NEW p, NEW e, NEW w, NEW r, Outcome(n, c, d, p, e, w, r, 1)
    PROVE  Ended(n, c, d, p, e, w, r)
<1> DEFINE one == 1
<1>1. one <= 3 /\ Outcome(n, c, d, p, e, w, r, one)
  OBVIOUS
<1> HIDE DEF one
<1> QED  BY <1>1, OutcomeEnds

(* ConnectionPool::connect(). *)
LEMMA ConnectsKeeps ==
    ASSUME QdbInv, HostConnects
    PROVE  QdbInv'
<1>1. PICK sends \in Sends :
        /\ Host!PoolConnect(Host!Activation(toDevice, sends))
        /\ HostEvent(sends) /\ UNCHANGED serviceVars
  BY DEF HostConnects
<1> DEFINE a == Host!Activation(toDevice, sends)
           b == Host!Connect(a)
           d == [b EXCEPT !.object = "live"]
<1>2. object = "new" /\ Host!Commit(d)
  BY <1>1 DEF Host!PoolConnect
<1>3. a.object = "new"
  BY <1>2, ActivationIsWhole
<1>4. a = Host!Activation(toDevice, sends) /\ b = Host!Connect(a)
      /\ d = [b EXCEPT !.object = "live"]
  OBVIOUS
<1>5. UNCHANGED <<leaving, written, received>> /\ leaving \subseteq StreamIds
  BY <1>1 DEF serviceVars, QdbInv
<1> HIDE DEF a, b, d
<1>6. Answered(connections, a, d, written, received, written', received')
  BY <1>3, <1>4, <1>5, HostBegins DEF Answered
<1>7. ~Gone(a, written, received)
  BY <1>3 DEF Gone, Lost
<1> QED  BY <1>1, <1>2, <1>4, <1>5, <1>6, <1>7, HostActsInQdb

(* A service is started. *)
LEMMA StartsKeeps ==
    ASSUME QdbInv, ServiceStarts
    PROVE  QdbInv'
<1>1. PICK sends \in Sends, tag \in Tags :
        /\ hNextStreamId <= MaxStreams
        /\ Host!InitializeService(Host!Activation(toDevice, sends), tag)
        /\ HostEvent(sends) /\ UNCHANGED serviceVars
  BY DEF ServiceStarts
<1> DEFINE a == Host!Activation(toDevice, sends)
           d == Host!CreateStream(a, tag)
<1>2. object = "live" /\ hState # "Disconnected" /\ Host!Commit(d)
  BY <1>1 DEF Host!InitializeService, Host!Live
<1>3. a.object = "live" /\ a.state # "Disconnected" /\ a.nextStreamId <= MaxStreams
  BY <1>1, <1>2, ActivationIsWhole
<1>4. a = Host!Activation(toDevice, sends) /\ d = Host!CreateStream(a, tag)
  OBVIOUS
<1>5. UNCHANGED <<leaving, written, received>> /\ leaving \subseteq StreamIds /\ tag \in Nat
  BY <1>1, BoundsAssumption DEF serviceVars, QdbInv
<1> HIDE DEF a, d
<1>6. Answered(connections, a, d, written, received, written', received')
  BY <1>3, <1>4, <1>5, EnqueuesOpen, OneSendEnds DEF Answered
<1>7. ~Gone(a, written, received)
  BY <1>3 DEF Gone, Lost, Empty
<1> QED  BY <1>1, <1>2, <1>4, <1>5, <1>6, <1>7, HostActsInQdb

(* A service writes a packet. *)
LEMMA WritesKeeps ==
    ASSUME QdbInv, ServiceWrites
    PROVE  QdbInv'
<1>1. PICK sends \in Sends, id \in holders :
        /\ written[id] < MaxPackets
        /\ Host!ServiceWrite(Host!Activation(toDevice, sends), id, written[id] + 1)
        /\ written' = [written EXCEPT ![id] = written[id] + 1]
        /\ HostEvent(sends) /\ UNCHANGED <<leaving, received>>
  BY DEF ServiceWrites
<1> DEFINE a == Host!Activation(toDevice, sends)
           x == written[id] + 1
           d == Host!Write(a, id, x)
<1>2. object = "live" /\ Host!Commit(d)
  BY <1>1 DEF Host!ServiceWrite, Host!Live
<1>3. a.object = "live" /\ id \in a.holders
  BY <1>2, ActivationIsWhole
<1>4. a = Host!Activation(toDevice, sends) /\ d = Host!Write(a, id, x)
  OBVIOUS
<1>5. received' = received /\ leaving' = leaving /\ leaving \subseteq StreamIds
  BY <1>1 DEF QdbInv
<1>6. Noted(written, id, x, written')
  BY <1>1 DEF Noted
<1> HIDE DEF a, d, x
<1>7. Answered(connections, a, d, written, received, written', received')
  <2> DEFINE v == written'
  <2>1. Noted(written, id, x, v)
    BY <1>6
  <2> HIDE DEF v
  <2>2. Answered(connections, a, d, written, received, v, received)
    BY <1>3, <1>4, <2>1, EnqueuesWrite, OneSendEnds DEF Answered
  <2> QED  BY <1>5, <2>2 DEF v
<1>8. ~Gone(a, written, received)
  BY <1>3 DEF Gone, Lost, Empty
<1> QED  BY <1>1, <1>2, <1>4, <1>5, <1>7, <1>8, HostActsInQdb

(* A service asks for its stream to be closed. *)
LEMMA ClosesKeeps ==
    ASSUME QdbInv, ServiceCloses
    PROVE  QdbInv'
<1>1. PICK sends \in Sends, id \in holders \ leaving :
        /\ Host!ServiceClose(Host!Activation(toDevice, sends), id)
        /\ leaving' = leaving \cup {id}
        /\ HostEvent(sends) /\ UNCHANGED <<written, received>>
  BY DEF ServiceCloses
<1> DEFINE a == Host!Activation(toDevice, sends)
           d == Host!RequestClose(a, id)
<1>2. object = "live" /\ Host!Commit(d)
  BY <1>1 DEF Host!ServiceClose, Host!Live
<1>3. a.object = "live" /\ id \in a.holders
  BY <1>2, ActivationIsWhole
<1>4. a = Host!Activation(toDevice, sends) /\ d = Host!RequestClose(a, id)
  OBVIOUS
<1>5. written' = written /\ received' = received
  BY <1>1
<1>6. leaving' \subseteq StreamIds
  BY <1>1, HoldersAreIds DEF QdbInv
<1> HIDE DEF a, d
<1>7. Answered(connections, a, d, written, received, written', received')
  BY <1>3, <1>4, <1>5, EnqueuesRequest, OneSendEnds DEF Answered
<1>8. ~Gone(a, written, received)
  BY <1>3 DEF Gone, Lost, Empty
<1> QED  BY <1>1, <1>2, <1>4, <1>6, <1>7, <1>8, HostActsInQdb

(* A service is destroyed. *)
LEMMA ServiceDestroyedKeeps ==
    ASSUME QdbInv, ServiceDestroyed
    PROVE  QdbInv'
<1>1. PICK sends \in Sends, id \in holders :
        /\ Host!ServiceDestroyed(Host!Activation(toDevice, sends), id)
        /\ HostEvent(sends) /\ UNCHANGED serviceVars
  BY DEF ServiceDestroyed
<1> DEFINE a == Host!Activation(toDevice, sends)
           d == Host!DestroyService(a, id)
<1>2. object = "live" /\ Host!Commit(d)
  BY <1>1 DEF Host!ServiceDestroyed, Host!Live
<1>3. a.object = "live" /\ id \in a.holders
  BY <1>2, ActivationIsWhole
<1>4. a = Host!Activation(toDevice, sends) /\ d = Host!DestroyService(a, id)
  OBVIOUS
<1>5. UNCHANGED <<leaving, written, received>> /\ leaving \subseteq StreamIds
  BY <1>1 DEF serviceVars, QdbInv
<1> HIDE DEF a, d
<1>6. Answered(connections, a, d, written, received, written', received')
  <2> SUFFICES ASSUME NEW p, NEW x, Fine(connections, a, p, x, written, received)
               PROVE  Ended(connections, a, d, p, x, written, received)
    BY <1>5 DEF Answered
  <2>1. Outcome(connections, a, d, p, x, written, received, 1 + 0)
    BY <1>3, <1>4, ServiceIsDestroyed
  <2> DEFINE k == 1 + 0
  <2>2. k <= 3 /\ Outcome(connections, a, d, p, x, written, received, k)
    BY <2>1
  <2> HIDE DEF k
  <2> QED  BY <2>2, OutcomeEnds
<1>7. ~Gone(a, written, received)
  BY <1>3 DEF Gone, Lost, Empty
<1> QED  BY <1>1, <1>2, <1>4, <1>5, <1>6, <1>7, HostActsInQdb

(* The Connection is destroyed. *)
LEMMA DestroyedKeeps ==
    ASSUME QdbInv, ConnectionDestroyed
    PROVE  QdbInv'
<1>1. PICK sends \in Sends :
        /\ Host!ConnectionDestroyed(Host!Activation(toDevice, sends))
        /\ HostEvent(sends) /\ UNCHANGED serviceVars
  BY DEF ConnectionDestroyed
<1> DEFINE a == Host!Activation(toDevice, sends)
           d == Host!Destroy(a)
<1>2. object = "live" /\ Host!Commit(d)
  BY <1>1 DEF Host!ConnectionDestroyed, Host!Live
<1>3. a.object = "live" /\ HostWhole(a) /\ a.toDevice = toDevice
  BY <1>2, ActivationIsWhole
<1>4. a = Host!Activation(toDevice, sends) /\ d = Host!Destroy(a)
  OBVIOUS
<1>5. UNCHANGED <<leaving, written, received>> /\ leaving \subseteq StreamIds
  BY <1>1 DEF serviceVars, QdbInv
<1>6. toDevice \in Seq(Message)
  <2> DEFINE e == DeviceNow(toHost)
  <2>1. SentSound(HostNow(toDevice).toDevice, e)
    BY DEF QdbInv, Known
  <2> HIDE DEF e
  <2> QED  BY <2>1 DEF SentSound, HostNow
<1> HIDE DEF a, d
<1>7. Answered(connections, a, d, written, received, written', received')
  BY <1>3, <1>4, <1>5, <1>6, HostIsDestroyed DEF Answered
<1>8. Gone(a, written, received) => Gone(d, written', received') /\ d.toDevice = a.toDevice
  BY <1>3, <1>4, <1>5, LostIsDestroyed DEF Gone
<1> QED  BY <1>1, <1>2, <1>4, <1>5, <1>7, <1>8, HostActsInQdb

(* An event with three sends at most is over. *)
LEMMA ThreeSendsEnd ==
    ASSUME NEW n, NEW c, NEW d, NEW p, NEW e, NEW w, NEW r, Outcome(n, c, d, p, e, w, r, 3)
    PROVE  Ended(n, c, d, p, e, w, r)
<1> DEFINE k == 3
<1>1. k <= 3 /\ Outcome(n, c, d, p, e, w, r, k)
  OBVIOUS
<1> HIDE DEF k
<1> QED  BY <1>1, OutcomeEnds

(* The host handles a message, or the failed read. *)
LEMMA ReceivesKeeps ==
    ASSUME QdbInv, HostReceives
    PROVE  QdbInv'
<1> DEFINE m == Head(toHost)
           w == written
           r == received
           e == DeviceNow(toHost)
           f == DeviceWith(e, Tail(e.toHost))
<1>1. PICK sends \in Sends, x \in ServiceReactions :
        /\ x.call = "write" => m.command = "Ok" /\ hState = "Waiting" /\ m.hostStream \in requests
        /\ x.call = "open" => m.command = "Write" /\ m.hostStream \in holders
                              /\ hNextStreamId <= MaxStreams
        /\ Host!Receive(Host!Activation(toDevice, sends), m, x)
        /\ LinkAfter(sends, Tail(toHost))
        /\ written' = IF x.call = "write" THEN [written EXCEPT ![m.hostStream] = 1] ELSE written
        /\ received' = IF m.command = "Write" /\ m.hostStream \in holders /\ object' = "live"
                       THEN [received EXCEPT ![m.hostStream] =
                                 Append(received[m.hostStream], m.data)]
                       ELSE received
        /\ UNCHANGED <<deviceVars, connections, leaving>>
  BY Zenon DEF HostReceives
<1>0. toHost # <<>>
  BY DEF HostReceives
<1> DEFINE a == Host!Activation(toDevice, sends)
           d == Host!HandleMessage(a, m, x)
           v == written'
           s == received'
<1>2. object = "live" /\ Host!Commit(d)
  BY <1>1 DEF Host!Receive, Host!Live
<1>3. /\ HostWhole(a) /\ a.sends = sends /\ a.toDevice = toDevice
      /\ Image(a, a.toDevice) = HostNow(toDevice) /\ a.object = "live"
      /\ a.state = hState /\ a.holders = holders /\ a.requests = requests
  BY <1>2, ActivationIsWhole
<1>4. sends \in Nat /\ (linkUp \/ sends = 0)
  BY SendsAreCounted
<1>5. d = Host!HandleMessage(a, m, x)
  OBVIOUS
<1>6. MayReact(a, m, x)
  <2>1. x.call = "write" => x.data = 1
    BY DEF ServiceReactions
  <2>2. x.call = "open" => x.data \in Nat
    <3> SUFFICES ASSUME x.call = "open"
                 PROVE  x.data \in Nat
      OBVIOUS
    <3>1. x \in [call : {"open"}, data : Tags]
      BY DEF ServiceReactions
    <3> QED  BY <3>1, BoundsAssumption
  <2>3. /\ x.call = "write" => m.command = "Ok" /\ hState = "Waiting"
                                /\ m.hostStream \in requests
        /\ x.call = "open" => m.command = "Write"
    BY <1>1
  <2>4. a.state = hState /\ a.requests = requests
    BY <1>3
  <2> HIDE DEF a, m
  <2> QED  BY <2>1, <2>2, <2>3, <2>4 DEF MayReact
<1>7. object' = d.object
  BY <1>2, HostCommits
<1> HIDE DEF a, d
<1>8. Wrote(m, x, w, v) /\ Read(a, d, m, r, s)
  <2> HIDE DEF m
  <2>1. Wrote(m, x, w, v)
    <3>1. written' = IF x.call = "write" THEN [written EXCEPT ![m.hostStream] = 1] ELSE written
      BY <1>1
    <3> QED  BY <3>1 DEF Wrote
  <2>2. Read(a, d, m, r, s)
    BY <1>1, <1>3, <1>7 DEF Read
  <2> QED  BY <2>1, <2>2
<1>9. /\ linkUp \in BOOLEAN /\ connections \in 1..MaxConnections
      /\ Known(linkUp, connections, Image(a, a.toDevice), e, w, r)
  BY <1>3 DEF QdbInv
<1>10. /\ e.toHost = toHost /\ toHost \in Seq(Message) /\ Tail(toHost) \in Seq(Message)
       /\ m = Head(e.toHost) /\ f.toHost = Tail(toHost) /\ SameDevice(e, f)
  <2>1. e.toHost = toHost
    BY DeviceNowFields
  <2>2. e.toHost \in Seq(Message)
    BY <1>9 DEF Known, DeviceSound
  <2>3. Tail(toHost) \in Seq(Message)
    BY <1>0, <2>1, <2>2, TailParts
  <2>4. f.toHost = Tail(e.toHost) /\ SameDevice(e, f)
    BY DEF DeviceWith, SameDevice
  <2> QED  BY <2>1, <2>2, <2>3, <2>4
<1>11. After(linkUp, sends, f, DeviceNow(toHost)', linkUp')
  <2> DEFINE pipe == Tail(toHost)
  <2>1. pipe \in Seq(Message) /\ f.toHost = pipe /\ LinkAfter(sends, pipe)
        /\ UNCHANGED deviceVars /\ SameDevice(DeviceNow(toHost), f)
    BY <1>1, <1>10
  <2> HIDE DEF pipe, f, e
  <2> QED  BY <2>1, LinkIsAfter
<1>12. f = DeviceWith(e, Tail(e.toHost))
  OBVIOUS
<1> DEFINE up == linkUp'
           g == DeviceNow(toHost)'
<1>13. After(linkUp, a.sends, f, g, up)
  BY <1>3, <1>11
<1> HIDE DEF m, e, f, w, r, v, s, up, g
<1>14. Handled(connections, a, d, m, w, r, v, s)
  <2> SUFFICES ASSUME NEW p, NEW y, NEW z,
                      Fine(connections, a, p, y, w, r), HostTakes(y, z, m)
               PROVE  Ended(connections, a, d, p, z, v, s)
    BY DEF Handled
  <2>1. Outcome(connections, a, d, p, z, v, s, 3)
    BY <1>3, <1>5, <1>6, <1>8, HostHandles
  <2> QED  BY <2>1, ThreeSendsEnd
<1>15. m.command \notin {"Ok", "Write"} => v = w /\ s = r
  <2>1. m.command # "Ok" => v = w
    BY <1>6, <1>8 DEF MayReact, Wrote
  <2>2. m.command # "Write" => s = r
    BY <1>8 DEF Read
  <2> QED  BY <2>1, <2>2
<1>16. Failed(connections, a, d, m, w, r, v, s)
  <2> SUFFICES ASSUME NEW p, NEW y, Fine(connections, a, p, y, w, r), a.sends = 0,
                      m.command = "Invalid"
               PROVE  Gone(d, v, s) /\ d.toDevice = a.toDevice
    BY DEF Failed
  <2>1. Gone(d, w, r) /\ d.toDevice = a.toDevice
    BY <1>3, <1>5, HostHandlesInvalid
  <2>2. v = w /\ s = r
    BY <1>15
  <2> QED  BY <2>1, <2>2
<1>17. Gone(a, w, r) => Gone(d, v, s) /\ d.toDevice = a.toDevice
  <2> SUFFICES ASSUME Gone(a, w, r)
               PROVE  Gone(d, v, s) /\ d.toDevice = a.toDevice
    OBVIOUS
  <2>1. a.state = "Disconnected" /\ a.holders = {} /\ Lost(a)
    BY DEF Gone, Lost, Empty
  <2>2. ~linkUp
    <3> SUFFICES ASSUME linkUp
                 PROVE  FALSE
      OBVIOUS
    <3>1. World(connections, Image(a, a.toDevice), e, w, r)
      BY <1>9 DEF Known
    <3>2. Life(Image(a, a.toDevice))
      BY <3>1 DEF World, J
    <3> QED  BY <1>3, <2>1, <3>2, ImageFields DEF Life
  <2>3. a.sends = 0
    BY <1>3, <1>4, <2>2
  <2>4. Lost(d) /\ d.toDevice = a.toDevice
    BY <1>3, <1>5, <2>1, <2>3, LostHandles
  <2>5. v = w
    BY <1>6, <1>8, <2>1 DEF MayReact, Wrote
  <2>6. s = r
    BY <1>8, <2>1 DEF Read
  <2> QED  BY <2>4, <2>5, <2>6 DEF Gone
<1>18. Known(up, connections, Image(d, d.toDevice), g, v, s)
  <2>1. a.sends \in Nat /\ (linkUp \/ a.sends = 0) /\ e.toHost # <<>> /\ m = Head(e.toHost)
    BY <1>0, <1>3, <1>4, <1>10
  <2> QED  BY <1>3, <1>9, <1>12, <1>13, <1>14, <1>16, <1>17, <2>1, HostReads
<1>19. HostNow(toDevice)' = Image(d, d.toDevice)
  BY <1>2, HostCommits
<1>20. linkUp' \in BOOLEAN /\ connections' = connections /\ leaving' = leaving
  BY <1>1 DEF LinkAfter
<1>21. leaving \subseteq StreamIds
  BY DEF QdbInv
<1> QED  BY <1>9, <1>18, <1>19, <1>20, <1>21 DEF QdbInv, up, g, v, s

(* What the host's object is does not depend on what it has sent. *)
LEMMA HostNowFields ==
    ASSUME NEW p
    PROVE  /\ HostNow(p).toDevice = p /\ HostNow(p).state = hState
           /\ \A q : SameHost(HostNow(q), HostNow(p))
           /\ \A q : Image(HostNow(p), q) = HostNow(q)
BY DEF HostNow, SameHost, SameIds, Image

(* An event on the device leaves the host's object as it is. *)
LEMMA HostNowStays ==
    ASSUME UNCHANGED hostVars, NEW q, q = toDevice'
    PROVE  HostNow(toDevice)' = HostNow(q)
BY DEF HostNow, hostVars

(* With the cable out it does not matter what becomes of the device. *)
LEMMA KnownOut ==
    ASSUME NEW n, NEW p, NEW q, NEW e, NEW f, NEW w, NEW r,
           Known(FALSE, n, HostNow(p), e, w, r), f.toHost = e.toHost,
           Idle(f), DeviceSound(f), SentSound(q, f)
    PROVE  Known(FALSE, n, HostNow(q), f, w, r)
<1>1. \A x : Image(HostNow(p), x) = Image(HostNow(q), x)
  BY HostNowFields
<1>2. SentSound(HostNow(q).toDevice, f)
  BY HostNowFields
<1>3. CASE Gone(HostNow(p), w, r)
  <2>1. Gone(HostNow(q), w, r)
    <3>1. Image(HostNow(p), q) = HostNow(q)
      BY HostNowFields
    <3> QED  BY <1>3, <3>1, GoneImage
  <2> QED  BY <1>2, <2>1 DEF Known
<1>4. CASE Imagined(n, HostNow(p), e.toHost, w, r)
  <2>1. Imagined(n, HostNow(q), f.toHost, w, r)
    BY <1>1, <1>4 DEF Imagined
  <2> QED  BY <1>2, <2>1 DEF Known
<1> QED  BY <1>3, <1>4 DEF Known

(* The device's record has its fields. *)
LEMMA DeviceNowIsWhole ==
    ASSUME NEW t
    PROVE  DeviceWhole(DeviceNow(t))
<1> DEFINE X == {dState, dOutgoing, dStreams, executors, dNextStreamId, dAsserts, t, TRUE}
<1>1. DeviceNow(t) \in DeviceFields(X)
  BY DEF DeviceNow, Device!Activation, DeviceFields
<1> QED  BY <1>1, DeviceNowFields DEF DeviceWhole

(* What the device's event has made of it. *)
LEMMA DeviceCommits ==
    ASSUME NEW f, DeviceWhole(f), NEW t, Device!Commit([f EXCEPT !.toHost = t])
    PROVE  SameDevice(f, DeviceNow(toHost)') /\ DeviceNow(toHost)'.toHost = t /\ toHost' = t
<1> DEFINE g == [f EXCEPT !.toHost = t]
<1>1. PICK X : f \in DeviceFields(X)
  BY DEF DeviceWhole
<1>2. /\ g.state = f.state /\ g.outgoing = f.outgoing /\ g.streams = f.streams
      /\ g.executors = f.executors /\ g.nextStreamId = f.nextStreamId
      /\ g.assertsHold = f.assertsHold /\ g.toHost = t
  BY <1>1 DEF DeviceFields
<1>3. Device!Commit(g)
  OBVIOUS
<1> HIDE DEF g
<1>4. /\ dState' = g.state /\ dOutgoing' = g.outgoing /\ dStreams' = g.streams
      /\ executors' = g.executors /\ dNextStreamId' = g.nextStreamId
      /\ dAsserts' = g.assertsHold /\ toHost' = g.toHost
  BY <1>3 DEF Device!Commit
<1>5. /\ DeviceNow(toHost)'.state = dState' /\ DeviceNow(toHost)'.outgoing = dOutgoing'
      /\ DeviceNow(toHost)'.streams = dStreams' /\ DeviceNow(toHost)'.executors = executors'
      /\ DeviceNow(toHost)'.nextStreamId = dNextStreamId'
      /\ DeviceNow(toHost)'.assertsHold = dAsserts' /\ DeviceNow(toHost)'.toHost = toHost'
  BY DEF DeviceNow, Device!Activation
<1> QED  BY <1>2, <1>4, <1>5 DEF SameDevice

(* The device handles a message. *)
LEMMA DeviceReceivesKeeps ==
    ASSUME QdbInv, DeviceReceives
    PROVE  QdbInv'
<1> DEFINE e == DeviceNow(toHost)
           m == Head(toDevice)
           f == Device!HandleMessage(e, m)
           t == IF linkUp THEN f.toHost ELSE toHost
           h == DeviceNow(toHost)'
           p == toDevice
           q == Tail(toDevice)
           c == HostNow(p)
           d == HostNow(q)
<1>1. /\ toDevice # <<>> /\ Device!Commit([f EXCEPT !.toHost = t])
      /\ UNCHANGED hostVars /\ toDevice' = q
      /\ UNCHANGED <<linkUp, connections, leaving, written, received>>
  BY DEF DeviceReceives, DeviceNow, serviceVars
<1>2. Known(linkUp, connections, c, e, written, received)
  BY DEF QdbInv
<1>3. e.toHost = toHost /\ DeviceWhole(e)
  BY DeviceNowFields, DeviceNowIsWhole
<1>4. HostNow(toDevice)' = d
  BY <1>1, HostNowStays
<1>5. c.toDevice = p /\ d.toDevice = q /\ d.state = c.state /\ SameHost(c, d)
  BY HostNowFields
<1>6. f = Device!HandleMessage(e, m) /\ t = IF linkUp THEN f.toHost ELSE toHost
  OBVIOUS
<1> HIDE DEF e, f, t, c, d
<1>7. Idle(e) /\ DeviceSound(e) /\ SentSound(p, e)
  BY <1>2, <1>5 DEF Known
<1>8. ShorterBy(p, m, q)
  BY <1>1, <1>7, Shorter DEF SentSound
<1>9. DeviceTakes(c, d, m)
  BY <1>5, <1>8 DEF DeviceTakes
<1> HIDE DEF m, p, q
<1>10. DeviceWhole(f)
  BY <1>3, <1>6, <1>7, <1>8, DeviceIsSent, DeviceHandles DEF DeviceSteps
<1>11. SameDevice(f, h) /\ h.toHost = t
  BY <1>1, <1>10, DeviceCommits
<1>12. h = DeviceNow(toHost)'
  OBVIOUS
<1> HIDE DEF h
<1>13. CASE linkUp
  <2>1. World(connections, c, e, written, received)
    BY <1>2, <1>13 DEF Known
  <2>2. d.toDevice = Tail(c.toDevice)
    BY <1>5 DEF p, q
  <2>3. World(connections, d, f, written, received) /\ Idle(f)
    BY <1>3, <1>6, <1>7, <1>9, <2>1, <2>2, DeviceEvent
  <2>4. h.toHost = f.toHost
    BY <1>6, <1>11, <1>13
  <2>5. World(connections, d, h, written, received)
    BY <1>11, <2>3, <2>4, SameDeviceWorld
  <2>6. Idle(h)
    BY <1>11, <2>3, <2>4, SameDeviceSound
  <2>7. Known(linkUp, connections, d, h, written, received)
    BY <1>13, <2>5, <2>6 DEF Known, World
  <2> QED  BY <1>1, <1>4, <1>12, <2>7 DEF QdbInv
<1>14. CASE ~linkUp
  <2>1. h.toHost = e.toHost /\ h.toHost \in Seq(Message)
    BY <1>3, <1>6, <1>7, <1>11, <1>14 DEF DeviceSound
  <2>2. DeviceSound(h) /\ SentSound(q, h) /\ Idle(h)
    BY <1>3, <1>6, <1>7, <1>8, <1>11, <2>1, DeviceEventLost
  <2>3. Known(FALSE, connections, c, e, written, received)
    BY <1>2, <1>14 DEF Known
  <2>4. Known(FALSE, connections, d, h, written, received)
    BY <2>1, <2>2, <2>3, KnownOut DEF c, d
  <2>5. Known(linkUp, connections, d, h, written, received)
    BY <1>14, <2>4 DEF Known
  <2> QED  BY <1>1, <1>4, <1>12, <2>5 DEF QdbInv
<1> QED  BY <1>13, <1>14

(* The two ends as they are created. *)
LEMMA InitiallyKnown ==
    ASSUME Init
    PROVE  QdbInv
<1> DEFINE c == HostNow(toDevice)
           e == DeviceNow(toHost)
<1>1. HostFresh(c) /\ c.toDevice = <<>>
  BY DEF Init, Host!Init, Host!NoStreams, HostFresh, HostNow
<1>2. /\ e.state = "Disconnected" /\ e.outgoing = <<>> /\ DOMAIN e.streams = {}
      /\ e.streams \in [DOMAIN e.streams -> Nat]
      /\ DOMAIN e.executors = {} /\ e.nextStreamId = 1 /\ e.assertsHold = TRUE
      /\ e.toHost = <<>>
  BY DeviceNowFields DEF Init, Device!Init, Device!Nothing
<1>3. NotesFresh(written, received) /\ leaving = {} /\ connections = 1 /\ linkUp = TRUE
  BY DEF Init, NotesFresh
<1>4. MaxStreams \in Nat /\ MaxPackets \in Nat /\ 1 \in 1..MaxConnections
  BY BoundsAssumption
<1> HIDE DEF c, e
<1>5. DeviceSound(e) /\ SentSound(c.toDevice, e) /\ Idle(e)
  <2>1. <<>> \in Seq(Message)
    OBVIOUS
  <2>2. DeviceSound(e)
    BY <1>2, <2>1, RangeEmpty DEF DeviceSound
  <2>3. SentSound(c.toDevice, e)
    BY <1>1, <2>1, RangeEmpty DEF SentSound, GoodConnects
  <2> QED  BY <1>2, <2>2, <2>3 DEF Idle
<1>6. World(2, c, e, written, received)
  <2>1. SameDevice(e, e)
    BY DEF SameDevice
  <2> DEFINE l == 2
  <2>2. l # 1
    OBVIOUS
  <2> HIDE DEF l
  <2>3. World(l, c, e, written, received)
    BY <1>1, <1>2, <1>3, <1>4, <1>5, <2>1, <2>2, RenewUnplugged
  <2> QED  BY <2>3 DEF l
<1>7. First(1, c, e)
  BY <1>1, <1>2 DEF First, HostFresh, Connected
<1>8. World(1, c, e, written, received)
  BY <1>6, <1>7 DEF World, J
<1>9. Known(linkUp, connections, c, e, written, received)
  BY <1>3, <1>5, <1>8 DEF Known
<1> QED  BY <1>3, <1>4, <1>9 DEF QdbInv, c, e

(* The cable is pulled between two events. *)
LEMMA UnplugKeeps ==
    ASSUME QdbInv, Unplug
    PROVE  QdbInv'
<1> DEFINE e == DeviceNow(toHost)
           h == DeviceNow(toHost)'
           p == toDevice
           q == toDevice'
<1>1. /\ linkUp /\ linkUp' = FALSE /\ toHost' \in Arrived(toHost)
      /\ UNCHANGED <<hostVars, deviceVars, connections, leaving, written, received>>
  BY DEF Unplug, serviceVars
<1>2. PICK n \in 0..Len(toDevice) : q = SubSeq(toDevice, 1, n)
  BY DEF Unplug
<1>3. Known(linkUp, connections, HostNow(p), e, written, received)
  BY DEF QdbInv
<1>4. e.toHost = toHost /\ SameDevice(e, e)
  BY DeviceNowFields DEF SameDevice
<1>5. HostNow(toDevice)' = HostNow(q)
  BY <1>1, HostNowStays
<1>6. toHost \in Seq(Message) /\ Idle(e) /\ DeviceSound(e) /\ SentSound(p, e)
      /\ World(connections, HostNow(p), e, written, received)
  <2>1. SentSound(HostNow(p).toDevice, e)
    BY <1>3 DEF Known
  <2>2. SentSound(p, e)
    BY <2>1, HostNowFields
  <2> QED  BY <1>1, <1>3, <1>4, <2>2 DEF Known, DeviceSound
<1>7. After(linkUp, 0, e, h, linkUp')
  <2> DEFINE z == 0
  <2>1. LinkAfter(z, toHost)
    <3>1. z # Plenty
      BY BoundsAssumption DEF Plenty
    <3> QED  BY <1>1, <3>1 DEF LinkAfter
  <2> HIDE DEF z, e
  <2>2. After(linkUp, z, e, h, linkUp')
    BY <1>1, <1>4, <1>6, <2>1, LinkIsAfter DEF e
  <2> QED  BY <2>2 DEF z
<1>8. h = DeviceNow(toHost)' /\ toDevice' = q
  OBVIOUS
<1> HIDE DEF e, h, q
<1>9. SameDevice(e, h) /\ h.toHost \in Seq(Message) /\ Cut(h.toHost, e)
  BY <1>1, <1>7 DEF After
<1>10. Idle(h) /\ DeviceSound(h)
  BY <1>6, <1>9 DEF SameDevice, Idle, DeviceSound, Owned
<1>11. SentSound(q, h)
  <2> DEFINE x == SubSeq(p, n + 1, Len(p))
  <2>1. p \in Seq(Message)
    BY <1>6 DEF SentSound
  <2>2. q \in Seq(Message) /\ x \in Seq(Message) /\ p = q \o x
    BY <1>2, <2>1, SplitQueue
  <2> HIDE DEF x, p
  <2>3. JoinOf(q, x, p)
    BY <2>2, Joined
  <2>4. SentSound(q, e)
    BY <1>6, <2>3, SentPrefix
  <2> QED  BY <1>9, <2>4 DEF SameDevice, SentSound, Owned
<1>12. Imagined(connections, HostNow(q), h.toHost, written, received)
  <2>1. World(connections, Image(HostNow(q), p), e, written, received)
    BY <1>6, HostNowFields
  <2> QED  BY <1>9, <2>1 DEF Imagined
<1>13. Known(FALSE, connections, HostNow(q), h, written, received)
  BY <1>10, <1>11, <1>12, HostNowFields DEF Known
<1>14. Known(FALSE, connections, HostNow(toDevice)', h, written, received)
  BY <1>5, <1>13
<1> QED  BY <1>1, <1>8, <1>14 DEF QdbInv

(* qdbd is started again. *)
LEMMA RestartsKeeps ==
    ASSUME QdbInv, DeviceRestarts
    PROVE  QdbInv'
<1> DEFINE e == DeviceNow(toHost)
           h == DeviceNow(toHost)'
           c == HostNow(toDevice)
           d == HostNow(<<>>)
<1>1. /\ ~linkUp /\ linkUp' = linkUp /\ toDevice' = <<>>
      /\ UNCHANGED <<hostVars, connections, leaving, written, received>>
  BY DEF DeviceRestarts, serviceVars
<1>2. Known(linkUp, connections, c, e, written, received)
  BY DEF QdbInv
<1>3. /\ h.state = "Disconnected" /\ h.outgoing = <<>> /\ h.streams = Device!Nothing
      /\ h.executors = Device!Nothing /\ h.nextStreamId = 1
      /\ h.assertsHold = e.assertsHold /\ h.toHost = e.toHost
  <2> DEFINE g == [e EXCEPT !.state = "Disconnected", !.outgoing = <<>>,
                            !.streams = Device!Nothing, !.executors = Device!Nothing,
                            !.nextStreamId = 1]
  <2>1. Device!Commit(g)
    BY DEF DeviceRestarts, DeviceNow
  <2>2. PICK X : e \in DeviceFields(X)
    BY DeviceNowIsWhole DEF DeviceWhole
  <2> HIDE DEF e
  <2>3. /\ g.state = "Disconnected" /\ g.outgoing = <<>> /\ g.streams = Device!Nothing
        /\ g.executors = Device!Nothing /\ g.nextStreamId = 1
        /\ g.assertsHold = e.assertsHold /\ g.toHost = e.toHost
    BY <2>2 DEF DeviceFields
  <2> HIDE DEF g
  <2>4. /\ dState' = g.state /\ dOutgoing' = g.outgoing /\ dStreams' = g.streams
        /\ executors' = g.executors /\ dNextStreamId' = g.nextStreamId
        /\ dAsserts' = g.assertsHold /\ toHost' = g.toHost
    BY <2>1 DEF Device!Commit
  <2>5. /\ h.state = dState' /\ h.outgoing = dOutgoing' /\ h.streams = dStreams'
        /\ h.executors = executors' /\ h.nextStreamId = dNextStreamId'
        /\ h.assertsHold = dAsserts' /\ h.toHost = toHost'
    BY DEF DeviceNow, Device!Activation
  <2> HIDE DEF h
  <2> QED  BY <2>3, <2>4, <2>5
<1>4. HostNow(toDevice)' = d
  BY <1>1, HostNowStays
<1>5. h = DeviceNow(toHost)'
  OBVIOUS
<1> HIDE DEF e, h
<1>6. Idle(h) /\ DeviceSound(h) /\ SentSound(<<>>, h)
  <2>1. e.toHost \in Seq(Message) /\ e.assertsHold = TRUE
    BY <1>2 DEF Known, DeviceSound
  <2>2. /\ DOMAIN Device!Nothing = {} /\ Device!Nothing \in [{} -> Nat]
    BY DEF Device!Nothing
  <2>3. <<>> \in Seq(Message)
    OBVIOUS
  <2>4. Idle(h) /\ DeviceSound(h)
    BY <1>3, <2>1, <2>2, <2>3, RangeEmpty DEF Idle, DeviceSound
  <2>5. SentSound(<<>>, h)
    BY <2>3, RangeEmpty DEF SentSound, GoodConnects
  <2> QED  BY <2>4, <2>5
<1>7. Known(FALSE, connections, d, h, written, received)
  <2> DEFINE q == <<>>
  <2>1. Known(FALSE, connections, HostNow(toDevice), e, written, received)
    BY <1>1, <1>2 DEF Known
  <2>2. SentSound(q, h)
    BY <1>6
  <2> HIDE DEF q
  <2>3. Known(FALSE, connections, HostNow(q), h, written, received)
    BY <1>3, <1>6, <2>1, <2>2, KnownOut
  <2> QED  BY <2>3 DEF q
<1>8. Known(linkUp, connections, HostNow(toDevice)', h, written, received)
  <2>1. Known(linkUp, connections, d, h, written, received)
    BY <1>1, <1>7 DEF Known
  <2> QED  BY <1>4, <2>1
<1> QED  BY <1>1, <1>5, <1>8 DEF QdbInv

(* A new object for the device. *)
LEMMA RenewsTheObject ==
    ASSUME NewConnection
    PROVE  /\ HostFresh(HostNow(toDevice)') /\ toDevice' = toDevice
           /\ HostNow(toDevice)'.toDevice = toDevice
           /\ connections' = connections + 1 /\ connections < MaxConnections
           /\ linkUp' = TRUE /\ leaving' = {} /\ NotesFresh(written', received')
<1> DEFINE b == Host!Activation(toDevice, 0)
           g == [b EXCEPT
                   !.state = "Disconnected", !.outgoing = <<>>, !.streams = Host!NoStreams,
                   !.requests = {}, !.nextStreamId = 1, !.opening = {}, !.holders = {},
                   !.object = "new", !.assertsHold = TRUE]
           h == HostNow(toDevice)'
<1>1. Host!Commit(g)
  BY DEF NewConnection
<1>2. HostWhole(b) /\ b.toDevice = toDevice
  BY ActivationIsWhole
<1>3. PICK X : b \in HostFields(X)
  BY <1>2 DEF HostWhole
<1> HIDE DEF b
<1>4. /\ g.state = "Disconnected" /\ g.outgoing = <<>> /\ g.streams = Host!NoStreams
      /\ g.requests = {} /\ g.nextStreamId = 1 /\ g.opening = {} /\ g.holders = {}
      /\ g.object = "new" /\ g.assertsHold = TRUE /\ g.toDevice = toDevice
  BY <1>2, <1>3 DEF HostFields
<1> HIDE DEF g
<1>5. h = Image(g, g.toDevice) /\ toDevice' = g.toDevice
  BY <1>1, HostCommits
<1> HIDE DEF h
<1>6. HostFresh(h) /\ h.toDevice = toDevice
  <2>1. DOMAIN Host!NoStreams = {} /\ Host!NoStreams \in [{} -> Nat]
    BY DEF Host!NoStreams
  <2>2. /\ h.state = g.state /\ h.object = g.object /\ h.assertsHold = g.assertsHold
        /\ h.outgoing = g.outgoing /\ h.requests = g.requests /\ h.holders = g.holders
        /\ h.opening = g.opening /\ h.streams = g.streams
        /\ h.nextStreamId = g.nextStreamId /\ h.toDevice = g.toDevice
    BY <1>5 DEF Image
  <2> QED  BY <1>4, <2>1, <2>2 DEF HostFresh
<1>7. toDevice' = toDevice
  BY <1>4, <1>5
<1>8. /\ connections' = connections + 1 /\ connections < MaxConnections
      /\ linkUp' = TRUE /\ leaving' = {}
  BY DEF NewConnection
<1>9. NotesFresh(written', received')
  BY DEF NewConnection, NotesFresh
<1> QED  BY <1>6, <1>7, <1>8, <1>9 DEF h

(* The two ends with a new object: the old one's messages are stale. *)
LEMMA NewConnectionKeeps ==
    ASSUME QdbInv, NewConnection
    PROVE  QdbInv'
<1> DEFINE c == HostNow(toDevice)
           d == HostNow(toDevice)'
           e == DeviceNow(toHost)
           h == DeviceNow(toHost)'
           l == connections'
           v == written'
           s == received'
<1>1. /\ HostFresh(d) /\ d.toDevice = c.toDevice /\ NotesFresh(v, s)
      /\ linkUp' = TRUE /\ leaving' = {}
  BY RenewsTheObject, HostNowFields
<1>2. Known(linkUp, connections, c, e, written, received)
  BY DEF QdbInv
<1>3. /\ l # 1 /\ l \in 1..MaxConnections
  <2>1. connections \in 1..MaxConnections /\ l = connections + 1 /\ connections < MaxConnections
    BY RenewsTheObject DEF QdbInv
  <2> HIDE DEF l
  <2> QED  BY <2>1, BoundsAssumption
<1>4. MaxStreams \in Nat /\ MaxPackets \in Nat
  BY BoundsAssumption
<1>5. SameDevice(e, h) /\ h.toHost = toHost' /\ e.toHost = toHost
  <2>1. UNCHANGED deviceVars /\ SameDevice(DeviceNow(toHost), e)
    BY DEF NewConnection, SameDevice
  <2>2. SameDevice(e, h) /\ h.toHost = toHost'
    BY <2>1, DeviceNowStays
  <2> QED  BY <2>2, DeviceNowFields
<1>6. /\ linkUp => \E n \in 0..Len(toHost) : toHost' = SubSeq(toHost, n + 1, Len(toHost))
      /\ ~linkUp => toHost' = <<>>
  BY DEF NewConnection
<1>7. /\ d = HostNow(toDevice)' /\ h = DeviceNow(toHost)' /\ l = connections'
      /\ v = written' /\ s = received'
  OBVIOUS
<1> HIDE DEF c, d, e, h, l, v, s
<1>8. Idle(e) /\ DeviceSound(e) /\ SentSound(d.toDevice, e)
  BY <1>1, <1>2 DEF Known
<1>9. toHost \in Seq(Message) /\ e.outgoing \in Seq(Message)
  BY <1>5, <1>8 DEF DeviceSound
<1>10. World(l, d, h, v, s)
  <2>1. CASE linkUp
    <3>1. PICK n \in 0..Len(toHost) : toHost' = SubSeq(toHost, n + 1, Len(toHost))
      BY <1>6, <2>1
    <3> DEFINE x == SubSeq(toHost, 1, n)
               y == SubSeq(toHost, n + 1, Len(toHost))
    <3>2. x \in Seq(Message) /\ y \in Seq(Message) /\ toHost = x \o y /\ toHost' = y
      BY <1>9, <3>1, SplitQueue
    <3> HIDE DEF x, y
    <3>3. JoinOf(x, h.toHost, e.toHost)
      <4>1. JoinOf(x, y, x \o y)
        BY <3>2, Joined
      <4> QED  BY <1>5, <3>2, <4>1
    <3>4. JoinOf(x, Out(h), Out(e))
      <4> DEFINE z == y \o e.outgoing
      <4>1. z \in Seq(Message)
        BY <1>9, <3>2
      <4>2. (x \o y) \o e.outgoing = x \o z
        BY <1>9, <3>2, JoinAssociative
      <4>3. Out(h) = z /\ Out(e) = x \o z
        BY <1>5, <3>2, <4>2 DEF Out, SameDevice
      <4> HIDE DEF z
      <4>4. JoinOf(x, z, x \o z)
        BY <3>2, <4>1, Joined
      <4> QED  BY <4>3, <4>4
    <3>5. World(connections, c, e, written, received)
      BY <1>2, <2>1 DEF Known
    <3> QED  BY <1>1, <1>3, <1>4, <1>5, <3>3, <3>4, <3>5, Renew
  <2>2. CASE ~linkUp
    <3>1. h.toHost = <<>>
      BY <1>5, <1>6, <2>2
    <3> QED  BY <1>1, <1>3, <1>4, <1>5, <1>8, <3>1, RenewUnplugged
  <2> QED  BY <2>1, <2>2
<1>11. Idle(h)
  BY <1>5, <1>8 DEF SameDevice, Idle
<1>12. Known(TRUE, l, d, h, v, s)
  BY <1>10, <1>11 DEF Known, World
<1> QED  BY <1>1, <1>3, <1>7, <1>12 DEF QdbInv

(* A step that changes nothing. *)
LEMMA StutterKeeps ==
    ASSUME QdbInv, UNCHANGED vars
    PROVE  QdbInv'
<1>1. HostNow(toDevice)' = HostNow(toDevice)
  BY DEF vars, hostVars, HostNow
<1>2. DeviceNow(toHost)' = DeviceNow(toHost)
  BY DEF vars, deviceVars, DeviceNow, Device!Activation
<1>3. UNCHANGED <<linkUp, connections, leaving, written, received>>
  BY DEF vars, serviceVars
<1> QED  BY <1>1, <1>2, <1>3 DEF QdbInv

(* The two ends and the pipes are in the world the invariant describes,
   whatever the events and their order. *)
THEOREM Invariance == Spec => []QdbInv
<1>1. Init => QdbInv
  BY InitiallyKnown
<1>2. QdbInv /\ [Next]_vars => QdbInv'
  <2> SUFFICES ASSUME QdbInv, [Next]_vars
               PROVE  QdbInv'
    OBVIOUS
  <2>1. CASE HostConnects
    BY <2>1, ConnectsKeeps
  <2>2. CASE HostReceives
    BY <2>2, ReceivesKeeps
  <2>3. CASE DeviceReceives
    BY <2>3, DeviceReceivesKeeps
  <2>4. CASE ServiceStarts
    BY <2>4, StartsKeeps
  <2>5. CASE ServiceWrites
    BY <2>5, WritesKeeps
  <2>6. CASE ServiceCloses
    BY <2>6, ClosesKeeps
  <2>7. CASE ServiceDestroyed
    BY <2>7, ServiceDestroyedKeeps
  <2>8. CASE ConnectionDestroyed
    BY <2>8, DestroyedKeeps
  <2>9. CASE NewConnection
    BY <2>9, NewConnectionKeeps
  <2>10. CASE Unplug
    BY <2>10, UnplugKeeps
  <2>11. CASE DeviceRestarts
    BY <2>11, RestartsKeeps
  <2>12. CASE UNCHANGED vars
    BY <2>12, StutterKeeps
  <2> QED  BY <2>1, <2>2, <2>3, <2>4, <2>5, <2>6, <2>7, <2>8, <2>9, <2>10, <2>11, <2>12
           DEF Next
<1> QED  BY <1>1, <1>2, PTL DEF Spec

(* What the invariant says with the cable in, and what with the cable out. *)
LEMMA InWorld ==
    ASSUME QdbInv, linkUp
    PROVE  /\ World(connections, HostNow(toDevice), DeviceNow(toHost), written, received)
           /\ Idle(DeviceNow(toHost))
BY DEF QdbInv, Known

(* With the cable out the object is lost, or goes on until the failed read. *)
LEMMA OutOfWorld ==
    ASSUME QdbInv, ~linkUp
    PROVE  \/ Gone(HostNow(toDevice), written, received)
           \/ \E p, x : World(connections, HostNow(p), x, written, received) /\ Cut(toHost, x)
<1> DEFINE c == HostNow(toDevice)
           e == DeviceNow(toHost)
<1>1. Known(linkUp, connections, c, e, written, received) /\ e.toHost = toHost
  BY DeviceNowFields DEF QdbInv
<1>2. \A p : Image(c, p) = HostNow(p)
  BY HostNowFields
<1> HIDE DEF c, e
<1>3. Gone(c, written, received) \/ Imagined(connections, c, toHost, written, received)
  BY <1>1 DEF Known
<1> QED  BY <1>2, <1>3 DEF Imagined, c

(* An object of the host that the invariant is about. *)
Sound(c) == c.assertsHold = TRUE /\ NotesGood(written, received)

(* In the world no assertion of the host has failed, and the notes are good. *)
LEMMA WorldIsSound ==
    ASSUME NEW n, NEW c, NEW e, World(n, c, e, written, received)
    PROVE  Sound(c)
<1>1. HostTyped(c) /\ NotesTyped(written, received) /\ NotesSound(c, written, received)
  BY DEF World, HostSound
<1> QED  BY <1>1 DEF Sound, HostTyped, NotesSound, NotesGood

(* The same of every state. *)
LEMMA InvIsSound ==
    ASSUME QdbInv
    PROVE  hAsserts = TRUE /\ dAsserts = TRUE /\ NotesGood(written, received)
<1>1. \A p : HostNow(p).assertsHold = hAsserts
  BY DEF HostNow
<1>2. hAsserts = TRUE /\ NotesGood(written, received)
  <2>1. CASE linkUp
    <3>1. Sound(HostNow(toDevice))
      BY <2>1, InWorld, WorldIsSound
    <3> QED  BY <1>1, <3>1 DEF Sound
  <2>2. CASE Gone(HostNow(toDevice), written, received)
    BY <1>1, <2>2 DEF Gone, Lost, Empty
  <2>3. CASE \E p, x : World(connections, HostNow(p), x, written, received) /\ Cut(toHost, x)
    <3>1. PICK p, x : World(connections, HostNow(p), x, written, received)
      BY <2>3
    <3>2. Sound(HostNow(p))
      BY <3>1, WorldIsSound
    <3> QED  BY <1>1, <3>2 DEF Sound
  <2> QED  BY <2>1, <2>2, <2>3, OutOfWorld
<1>3. dAsserts = TRUE
  <2> DEFINE e == DeviceNow(toHost)
  <2>1. DeviceSound(e) /\ e.assertsHold = dAsserts
    BY DeviceNowFields DEF QdbInv, Known
  <2> HIDE DEF e
  <2> QED  BY <2>1 DEF DeviceSound
<1> QED  BY <1>2, <1>3

(* TypeOK follows from the invariant, *)
LEMMA InvTyped ==
    ASSUME QdbInv
    PROVE  TypeOK
<1>1. NotesGood(written, received)
  BY InvIsSound
<1>2. written \in [StreamIds -> 0..MaxPackets]
  BY <1>1 DEF NotesGood, NotesTyped
<1>3. ASSUME NEW id \in StreamIds
      PROVE  received[id] \in Seq(1..MaxPackets)
  <2> DEFINE q == received[id]
             n == Len(q)
  <2>1. q = [k \in 1..n |-> k] /\ n <= written[id] /\ q \in Seq(Nat)
    BY <1>1, <1>3 DEF NotesGood, NotesTyped
  <2>2. n \in Nat /\ n <= MaxPackets
    BY <1>2, <2>1, BoundsAssumption
  <2> DEFINE T == 1..MaxPackets
  <2> HIDE DEF n
  <2>3. q \in [1..n -> T]
    BY <2>1, <2>2, BoundsAssumption
  <2> HIDE DEF q, T
  <2>4. q \in Seq(T)
    BY <2>2, <2>3
  <2> QED  BY <2>4 DEF q, T
<1> QED  BY <1>2, <1>3 DEF TypeOK, QdbInv

(* ... and EchoInOrder, *)
LEMMA InvEchoes ==
    ASSUME QdbInv
    PROVE  EchoInOrder
BY InvIsSound DEF EchoInOrder, NotesGood

(* With nothing on its way between two ends that believe in the connection,
   each is the other's, and has nothing to send. *)
LEMMA QuietAgrees ==
    ASSUME NEW n, NEW c, NEW e, NEW w, NEW r, World(n, c, e, w, r), Idle(e),
           c.toDevice = <<>>, e.toHost = <<>>
    PROVE  /\ c.state # "WaitingForConnection"
           /\ Connected(c) => /\ c.state = "Connected" /\ e.state = "Connected"
                              /\ Out(e) = <<>> /\ Agree(c, e) /\ Chain(c, e, w, r)
<1>1. DeviceSound(e) /\ HostIds(c, e) /\ Hopes(c, e) /\ InStep(c, e, w, r)
  BY DEF World, J
<1>2. c.state # "WaitingForConnection"
  BY <1>1 DEF Hopes, EndsWithConnect
<1>3. ASSUME Connected(c)
      PROVE  /\ c.state = "Connected" /\ e.state = "Connected"
             /\ Out(e) = <<>> /\ Agree(c, e) /\ Chain(c, e, w, r)
  <2>1. Out(e) = e.outgoing
    <3>1. e.outgoing \in Seq(Message)
      BY <1>1 DEF DeviceSound
    <3> QED  BY <3>1 DEF Out
  <2>2. ~Behind(c, e)
    <3>1. \A m \in Range(e.outgoing) : m.command # "Connect"
      BY <1>1 DEF DeviceSound
    <3>2. ~Holds(e.outgoing, "Connect")
      BY <3>1 DEF Holds, Range
    <3>3. ~Holds(<<>>, "Connect")
      BY EmptyHolds
    <3> QED  BY <2>1, <3>2, <3>3 DEF Behind, Unread
  <2>3. Agree(c, e) /\ Chain(c, e, w, r)
    BY <1>1, <1>3, <2>2 DEF InStep
  <2>4. e.state = "Connected"
    <3>1. e.state # "Waiting"
      <4>1. Range(e.toHost) = {} /\ ~Holds(c.toDevice, "Ok") /\ ~Holds(c.toDevice, "Close")
        BY RangeEmpty, EmptyHolds
      <4>2. DeviceGoesOn(c, e)
        BY <2>3 DEF Agree
      <4> QED  BY <4>1, <4>2 DEF DeviceGoesOn
    <3>2. e.state \in {"Connected", "Waiting"}
      BY <2>3 DEF Agree, StreamsAgree
    <3> QED  BY <3>1, <3>2
  <2>5. Out(e) = <<>>
    BY <2>1, <2>4 DEF Idle
  <2>6. c.state = "Connected"
    <3>1. Outstanding(c, e) = 0
      BY <2>5, EmptyHolds DEF Outstanding
    <3>2. OneAnswer(c, e)
      BY <2>3 DEF Agree
    <3> QED  BY <3>1, <3>2 DEF OneAnswer
  <2> QED  BY <2>3, <2>4, <2>5, <2>6
<1> QED  BY <1>2, <1>3

(* The same of the two ends as they are. *)
LEMMA QuietInWorld ==
    ASSUME QdbInv, Quiet, Attached, NEW c, c = HostNow(toDevice), NEW e, e = DeviceNow(toHost)
    PROVE  /\ World(connections, c, e, written, received)
           /\ c.state = hState /\ c.streams = hStreams /\ c.outgoing = hOutgoing
           /\ c.holders = holders /\ c.toDevice = <<>>
           /\ e.state = dState /\ e.streams = dStreams /\ e.executors = executors
           /\ hState # "WaitingForConnection"
           /\ hState \in {"Connected", "Waiting"} =>
                /\ hState = "Connected" /\ dState = "Connected"
                /\ Out(e) = <<>> /\ Agree(c, e) /\ Chain(c, e, written, received)
<1>1. linkUp /\ toDevice = <<>> /\ toHost = <<>>
  BY DEF Attached, Quiet
<1>2. World(connections, c, e, written, received) /\ Idle(e)
  BY <1>1, InWorld
<1>3. /\ c.state = hState /\ c.streams = hStreams /\ c.outgoing = hOutgoing
      /\ c.holders = holders /\ c.toDevice = <<>>
  BY <1>1 DEF HostNow
<1>4. e.state = dState /\ e.streams = dStreams /\ e.executors = executors /\ e.toHost = <<>>
  BY <1>1, DeviceNowFields
<1>5. /\ c.state # "WaitingForConnection"
      /\ Connected(c) => /\ c.state = "Connected" /\ e.state = "Connected"
                         /\ Out(e) = <<>> /\ Agree(c, e) /\ Chain(c, e, written, received)
  <2> DEFINE w == written
             r == received
  <2> HIDE DEF w, r
  <2>1. World(connections, c, e, w, r)
    BY <1>2 DEF w, r
  <2>2. /\ c.state # "WaitingForConnection"
        /\ Connected(c) => /\ c.state = "Connected" /\ e.state = "Connected"
                           /\ Out(e) = <<>> /\ Agree(c, e) /\ Chain(c, e, w, r)
    BY <1>2, <1>3, <1>4, <2>1, QuietAgrees
  <2> QED  BY <2>2 DEF w, r
<1> QED  BY <1>2, <1>3, <1>4, <1>5 DEF Connected

(* ... and NobodyWaitsInSilence, *)
LEMMA InvNobodyWaits ==
    ASSUME QdbInv
    PROVE  NobodyWaitsInSilence
BY QuietInWorld DEF NobodyWaitsInSilence

(* ... and AgreementWhenQuiet, *)
LEMMA InvAgreement ==
    ASSUME QdbInv
    PROVE  AgreementWhenQuiet
<1> SUFFICES ASSUME Quiet, Attached, hState = "Connected"
             PROVE  /\ dState = "Connected"
                    /\ {<<h, hStreams[h]>> : h \in DOMAIN hStreams}
                         = {<<dStreams[d], d>> : d \in DOMAIN dStreams}
  BY DEF AgreementWhenQuiet
<1> DEFINE c == HostNow(toDevice)
           e == DeviceNow(toHost)
<1>1. /\ World(connections, c, e, written, received) /\ dState = "Connected"
      /\ Out(e) = <<>> /\ Agree(c, e) /\ c.toDevice = <<>>
      /\ c.streams = hStreams /\ e.streams = dStreams
  BY QuietInWorld
<1> HIDE DEF c, e
<1>2. StreamsAgree(c, e) /\ HostIds(c, e)
  BY <1>1 DEF Agree, World, J
<1>3. ASSUME NEW h \in DOMAIN hStreams
      PROVE  hStreams[h] \in DOMAIN dStreams /\ dStreams[hStreams[h]] = h
  BY <1>1, <1>2 DEF StreamsAgree, HostIds
<1>4. ASSUME NEW d \in DOMAIN dStreams
      PROVE  dStreams[d] \in DOMAIN hStreams /\ hStreams[dStreams[d]] = d
  <2>1. Range(c.toDevice) = {} /\ Range(Out(e)) = {}
    BY <1>1, RangeEmpty
  <2> QED  BY <1>1, <1>2, <2>1 DEF StreamsAgree
<1> QED  BY <1>1, <1>3, <1>4

(* ... and AllAnsweredWhenQuiet, *)
LEMMA InvAnswered ==
    ASSUME QdbInv
    PROVE  AllAnsweredWhenQuiet
<1> SUFFICES ASSUME Quiet, Attached, hState = "Connected", hOutgoing = <<>>,
                    NEW id \in holders, executors[hStreams[id]] # Device!NoExecutor
             PROVE  Len(received[id]) = written[id]
  BY DEF AllAnsweredWhenQuiet
<1> DEFINE c == HostNow(toDevice)
           e == DeviceNow(toHost)
           d == hStreams[id]
           k == Len(received[id])
           n == written[id]
<1>1. /\ Out(e) = <<>> /\ Chain(c, e, written, received)
      /\ c.toDevice = <<>> /\ c.outgoing = <<>>
      /\ c.streams = hStreams /\ c.holders = holders /\ e.executors = executors
  BY QuietInWorld
<1> HIDE DEF c, e
<1>2. ChainOf(<<>>, <<>>, <<>>, d, k, n)
  BY <1>1 DEF Chain
<1>3. k \in Nat /\ n \in Nat /\ k <= n
  <2>1. NotesGood(written, received) /\ id \in StreamIds
    BY InvIsSound, HoldersAreIds
  <2>2. received[id] \in Seq(Nat) /\ k <= n /\ n \in 0..MaxPackets
    BY <2>1 DEF NotesGood, NotesTyped
  <2> QED  BY <2>2, BoundsAssumption
<1> HIDE DEF d, k, n
<1>4. k + 1..n = {}
  BY <1>2, EmptyHolds DEF ChainOf
<1>5. ~(k + 1 <= n)
  BY <1>3, <1>4
<1>6. k = n
  BY <1>3, <1>5
<1> QED  BY <1>6 DEF k, n

(* A Write that the host reads carries both ids of its stream. *)
LEMMA WriteCarriesBoth ==
    ASSUME NEW n, NEW c, NEW e, NEW w, NEW r, World(n, c, e, w, r), Connected(c),
           e.toHost # <<>>, NEW m, m = Head(e.toHost), m.command = "Write",
           m.hostStream \in DOMAIN c.streams
    PROVE  c.streams[m.hostStream] = m.deviceStream
<1> DEFINE f == DeviceWith(e, Tail(e.toHost))
<1>1. HostTakes(e, f, m)
  BY HostTakesFirst DEF World
<1> HIDE DEF f
<1>2. ~Behind(c, e)
  BY <1>1, WriteMeansInStep
<1>3. AnswersAgree(c, e)
  BY <1>2 DEF World, J, InStep, Agree
<1>4. m \in Range(Out(e))
  BY <1>1 DEF HostTakes, ShorterBy
<1> QED  BY <1>3, <1>4 DEF AnswersAgree

(* ... and AssertionsHold, *)
LEMMA InvAsserts ==
    ASSUME QdbInv
    PROVE  AssertionsHold
<1>1. hAsserts /\ dAsserts
  BY InvIsSound
<1>2. ASSUME toHost # <<>>, object = "live", hState \in {"Connected", "Waiting"},
             NEW m, m = Head(toHost), m.command = "Write", m.hostStream \in DOMAIN hStreams
      PROVE  hStreams[m.hostStream] = m.deviceStream
  <2>1. \A p : HostNow(p).state = hState /\ HostNow(p).streams = hStreams
    BY DEF HostNow
  <2>2. ASSUME NEW p, NEW x, World(connections, HostNow(p), x, written, received),
               x.toHost # <<>>, m = Head(x.toHost)
        PROVE  hStreams[m.hostStream] = m.deviceStream
    <3> DEFINE c == HostNow(p)
               w == written
               r == received
    <3>1. c.state = hState /\ c.streams = hStreams /\ Connected(c)
      BY <1>2, <2>1 DEF Connected
    <3>2. World(connections, c, x, w, r)
      BY <2>2
    <3> HIDE DEF c, w, r
    <3>3. m.hostStream \in DOMAIN c.streams
      BY <1>2, <3>1
    <3>4. c.streams[m.hostStream] = m.deviceStream
      BY <1>2, <2>2, <3>1, <3>2, <3>3, WriteCarriesBoth
    <3> QED  BY <3>1, <3>4
  <2>3. CASE linkUp
    <3>1. DeviceNow(toHost).toHost = toHost
      BY DeviceNowFields
    <3> QED  BY <1>2, <2>2, <2>3, <3>1, InWorld
  <2>4. CASE Gone(HostNow(toDevice), written, received)
    <3>1. HostNow(toDevice).state = "Disconnected"
      BY <2>4 DEF Gone, Lost, Empty
    <3> QED  BY <1>2, <2>1, <3>1
  <2>5. CASE \E p, x : World(connections, HostNow(p), x, written, received) /\ Cut(toHost, x)
    <3>1. PICK p, x : World(connections, HostNow(p), x, written, received) /\ Cut(toHost, x)
      BY <2>5
    <3>2. DeviceSound(x)
      BY <3>1 DEF World
    <3>3. x.toHost # <<>> /\ Head(toHost) = Head(x.toHost)
      BY <1>2, <3>1, <3>2, CutGoesOn
    <3> QED  BY <1>2, <2>2, <3>1, <3>3
  <2> QED  BY <2>3, <2>4, <2>5, OutOfWorld
<1>3. ASSUME toDevice # <<>>, NEW m, m = Head(toDevice), m.deviceStream \in DOMAIN dStreams
      PROVE  dStreams[m.deviceStream] = m.hostStream
  <2> DEFINE e == DeviceNow(toHost)
             p == toDevice
  <2>1. SentSound(p, e) /\ e.streams = dStreams
    <3>1. SentSound(HostNow(toDevice).toDevice, e)
      BY DEF QdbInv, Known
    <3> QED  BY <3>1, HostNowFields, DeviceNowFields
  <2> HIDE DEF e
  <2>2. ShorterBy(p, m, Tail(p))
    BY <1>3, <2>1, Shorter DEF SentSound
  <2>3. m \in Range(p)
    BY <2>2 DEF ShorterBy
  <2>4. Owned(m, e)
    BY <2>1, <2>3 DEF SentSound
  <2> QED  BY <1>3, <2>1, <2>4 DEF Owned
<1> QED  BY <1>1, <1>2, <1>3 DEF AssertionsHold

(* ... and OpeningHasRequest, *)
LEMMA InvOpening ==
    ASSUME QdbInv
    PROVE  OpeningHasRequest
<1> SUFFICES ASSUME connections = 1, object = "live"
             PROVE  opening \subseteq requests
  BY DEF OpeningHasRequest
<1>1. \A p : /\ HostNow(p).object = object /\ HostNow(p).opening = opening
             /\ HostNow(p).requests = requests
  BY DEF HostNow
<1>2. ASSUME NEW p, NEW x, World(connections, HostNow(p), x, written, received)
      PROVE  opening \subseteq requests
  <2>1. First(connections, HostNow(p), x)
    BY <1>2 DEF World, J
  <2> QED  BY <1>1, <2>1 DEF First
<1>3. CASE linkUp
  BY <1>2, <1>3, InWorld
<1>4. CASE Gone(HostNow(toDevice), written, received)
  <2>1. HostNow(toDevice).opening = {}
    BY <1>4 DEF Gone, Lost, Empty
  <2> QED  BY <1>1, <2>1
<1>5. CASE \E p, x : World(connections, HostNow(p), x, written, received) /\ Cut(toHost, x)
  BY <1>2, <1>5
<1> QED  BY <1>3, <1>4, <1>5, OutOfWorld

(* ... and NoCrashWhilePluggedIn, *)
LEMMA InvNoCrash ==
    ASSUME QdbInv
    PROVE  NoCrashWhilePluggedIn
<1> SUFFICES ASSUME linkUp
             PROVE  object # "crashed"
  BY DEF NoCrashWhilePluggedIn
<1>1. Life(HostNow(toDevice))
  BY InWorld DEF World, J
<1>2. HostNow(toDevice).object = object
  BY DEF HostNow
<1> QED  BY <1>1, <1>2 DEF Life

(* ... and UnpluggingReachesServices, *)
LEMMA InvUnplugging ==
    ASSUME QdbInv
    PROVE  UnpluggingReachesServices
<1> SUFFICES ASSUME ~linkUp, toHost = <<>>
             PROVE  hState = "Disconnected" /\ holders = {} /\ opening = {}
  BY DEF UnpluggingReachesServices
<1>1. Gone(HostNow(toDevice), written, received)
  <2>1. ASSUME NEW p, NEW x, World(connections, HostNow(p), x, written, received), Cut(toHost, x)
        PROVE  FALSE
    BY <2>1, CutEnds DEF World
  <2> QED  BY <2>1, OutOfWorld
<1> DEFINE c == HostNow(toDevice)
<1>2. c.state = hState /\ c.holders = holders /\ c.opening = opening
  BY DEF HostNow
<1> HIDE DEF c
<1>3. Empty(c)
  BY <1>1 DEF Gone, Lost, c
<1> QED  BY <1>2, <1>3 DEF Empty

(* Two messages of a queue count as two. *)
LEMMA NumOfTwo ==
    ASSUME NEW q \in Seq(Message), NEW S, NEW x \in Range(q), NEW y \in Range(q), x # y,
           x.command \in S, y.command \in S
    PROVE  Num(q, S) >= 2
<1> DEFINE P == Positions(q, S)
<1>1. PICK i \in DOMAIN q : q[i] = x
  BY DEF Range
<1>2. PICK j \in DOMAIN q : q[j] = y
  BY DEF Range
<1>3. i \in P /\ j \in P /\ i # j
  BY <1>1, <1>2 DEF Positions
<1>4. IsFiniteSet(P) /\ Num(q, S) = Cardinality(P) /\ Num(q, S) \in Nat
  BY NumType DEF Num
<1> HIDE DEF P
<1>5. Cardinality(P) # 0
  BY <1>3, <1>4, FS_EmptySet
<1>6. Cardinality(P) # 1
  BY <1>3, <1>4, FS_Singleton
<1> QED  BY <1>4, <1>5, <1>6

(* A set without two members. *)
LEMMA AtMostOne ==
    ASSUME NEW S, \A x, y \in S : x = y
    PROVE  Cardinality(S) <= 1
<1>1. CASE S = {}
  BY <1>1, FS_EmptySet
<1>2. CASE S # {}
  <2>1. PICK x : S = {x}
    BY <1>2
  <2> QED  BY <2>1, FS_Singleton
<1> QED  BY <1>1, <1>2

(* ... and DestroyedClosesStreams. *)
LEMMA InvDestroyed ==
    ASSUME QdbInv
    PROVE  DestroyedClosesStreams
<1> SUFFICES ASSUME linkUp, object = "destroyed", toDevice = <<>>
             PROVE  /\ \A d \in DOMAIN dStreams :
                          \E i \in DOMAIN toHost :
                              toHost[i] = QdbMessage("Ok", dStreams[d], d, 0)
                    /\ (\A i \in DOMAIN toHost : toHost[i] # ConnectMessage) =>
                          Cardinality(DOMAIN dStreams) <= 1
  BY DEF DestroyedClosesStreams
<1> DEFINE c == HostNow(toDevice)
           e == DeviceNow(toHost)
<1>1. World(connections, c, e, written, received) /\ Idle(e)
  BY InWorld
<1>2. c.object = "destroyed" /\ c.toDevice = <<>> /\ e.streams = dStreams /\ e.toHost = toHost
  BY DeviceNowFields DEF HostNow
<1> HIDE DEF c, e
<1>3. /\ DeviceSound(e) /\ Stale(c, e) /\ Left(c, e) /\ AnswersSound(e)
      /\ toHost \in Seq(Message)
  BY <1>1, <1>2 DEF World, J, DeviceSound
<1>4. Range(c.toDevice) = {} /\ \A command : ~Holds(c.toDevice, command)
  BY <1>2, RangeEmpty, EmptyHolds
<1>5. /\ e.state # "Waiting"
      /\ Unread(e) => \A d \in DOMAIN e.streams : OkFor(e, d) \in Range(Out(e))
      /\ ~Unread(e) => /\ Outstanding(c, e) <= 1
                       /\ \A d \in DOMAIN e.streams : OkFor(e, d) \in Range(Out(e))
  <2>1. CASE Unread(e)
    BY <1>3, <2>1 DEF Stale
  <2>2. CASE ~Unread(e)
    <3>1. ~Behind(c, e)
      BY <1>4, <2>2 DEF Behind
    <3> QED  BY <1>2, <1>3, <1>4, <2>2, <3>1 DEF Left
  <2> QED  BY <2>1, <2>2
<1>6. Out(e) = toHost
  <2>1. e.outgoing = <<>>
    BY <1>1, <1>5 DEF Idle
  <2> QED  BY <1>2, <1>3, <2>1 DEF Out
<1>7. \A d \in DOMAIN dStreams : OkFor(e, d) \in Range(toHost)
  BY <1>2, <1>5, <1>6
<1>8. ASSUME NEW d \in DOMAIN dStreams
      PROVE  \E i \in DOMAIN toHost : toHost[i] = QdbMessage("Ok", dStreams[d], d, 0)
  BY <1>2, <1>7 DEF OkFor, Range
<1>9. ASSUME \A i \in DOMAIN toHost : toHost[i] # ConnectMessage
      PROVE  Cardinality(DOMAIN dStreams) <= 1
  <2>1. ~Unread(e)
    <3>1. GoodConnects(toHost)
      BY <1>2, <1>3 DEF AnswersSound
    <3> QED  BY <1>6, <1>9, <3>1 DEF Unread, Holds, GoodConnects, Range
  <2>2. Num(toHost, Answers) <= 1
    <3>1. Num(c.toDevice, Asked) = 0
      BY <1>2, EmptyHolds
    <3>2. Num(toHost, Answers) \in Nat
      BY <1>3, NumType
    <3> QED  BY <1>5, <1>6, <2>1, <3>1, <3>2 DEF Outstanding
  <2>3. ASSUME NEW x \in DOMAIN dStreams, NEW y \in DOMAIN dStreams, x # y
        PROVE  FALSE
    <3> DEFINE a == OkFor(e, x)
               b == OkFor(e, y)
    <3>1. a \in Range(toHost) /\ b \in Range(toHost)
      BY <1>7
    <3>2. a # b /\ a.command = "Ok" /\ b.command = "Ok"
      BY <2>3 DEF OkFor, QdbMessage
    <3> HIDE DEF a, b
    <3>3. Num(toHost, Answers) >= 2
      BY <1>3, <3>1, <3>2, NumOfTwo DEF Answers
    <3>4. Num(toHost, Answers) \in Nat
      BY <1>3, NumType
    <3> QED  BY <2>2, <3>3, <3>4
  <2>4. \A x, y \in DOMAIN dStreams : x = y
    BY <2>3
  <2> QED  BY <2>4, AtMostOne
<1> QED  BY <1>8, <1>9
-----------------------------------------------------------------------------
(* Every variable keeps its type. *)
THEOREM TypeCorrect == Spec => []TypeOK
BY Invariance, InvTyped, PTL

(* What a service gets back is what it wrote, in order and without a gap. *)
THEOREM EchoesInOrder == Spec => []EchoInOrder
BY Invariance, InvEchoes, PTL

(* Nobody waits for an answer that is not on its way. *)
THEOREM NobodyWaits == Spec => []NobodyWaitsInSilence
BY Invariance, InvNobodyWaits, PTL

(* With nothing on its way, the two ends have the same streams. *)
THEOREM EndsAgree == Spec => []AgreementWhenQuiet
BY Invariance, InvAgreement, PTL

(* With nothing on its way and nothing queued, every packet is answered. *)
THEOREM PacketsAreAnswered == Spec => []AllAnsweredWhenQuiet
BY Invariance, InvAnswered, PTL

(* No assertion of the two ends fails. *)
THEOREM NoAssertionFails == Spec => []AssertionsHold
BY Invariance, InvAsserts, PTL

(* On the first Connection a service that waits for its stream has its callback
   registered. *)
THEOREM CallbacksAreKept == Spec => []OpeningHasRequest
BY Invariance, InvOpening, PTL

(* The null Stream is reached only once the cable is out. *)
THEOREM PluggedInNoCrash == Spec => []NoCrashWhilePluggedIn
BY Invariance, InvNoCrash, PTL

(* Pulling the cable reaches every service. *)
THEOREM ServicesAreTold == Spec => []UnpluggingReachesServices
BY Invariance, InvUnplugging, PTL

(* A Connection that is destroyed leaves on the device at most the stream whose
   Ok nobody has read. *)
THEOREM DestroyedLeavesOne == Spec => []DestroyedClosesStreams
BY Invariance, InvDestroyed, PTL
=============================================================================
