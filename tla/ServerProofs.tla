---------------------------- MODULE ServerProofs ----------------------------
(***************************************************************************)
(* Proofs about the device's Server, for every host, every pattern of      *)
(* failing sends and every number of streams, by the method of module      *)
(* ConnectionProofs: Consistent(c) is the invariant of the record that the *)
(* functions of the class pass on, Follows(c, d) says what no function may *)
(* do to the ids of streams, and there is one lemma for each function.     *)
(***************************************************************************)
EXTENDS Server, SequenceTheorems, QueuesProofs

Queueable == {m \in Message : m.command \in {"Connect", "Write", "Close", "Ok"}}

MapsTo(T) == UNION {[D -> T] : D \in SUBSET Nat}

Tags == KnownTags \cup {NoExecutor}

Servers ==
    [state : ServerState, outgoing : Seq(Queueable), streams : MapsTo(Nat),
     executors : MapsTo(Tags), nextStreamId : Nat, assertsHold : BOOLEAN,
     toHost : Seq(Message), isOpen : BOOLEAN]

(* Membership in Servers, field by field. *)
Typed(c) ==
    /\ c.state \in ServerState
    /\ c.outgoing \in Seq(Queueable)
    /\ c.streams \in MapsTo(Nat)
    /\ c.executors \in MapsTo(Tags)
    /\ c.nextStreamId \in Nat
    /\ c.assertsHold \in BOOLEAN
    /\ c.toHost \in Seq(Message)
    /\ c.isOpen \in BOOLEAN

Whole(c) ==
    c = [state |-> c.state, outgoing |-> c.outgoing, streams |-> c.streams,
         executors |-> c.executors, nextStreamId |-> c.nextStreamId,
         assertsHold |-> c.assertsHold, toHost |-> c.toHost, isOpen |-> c.isOpen]

(* The invariants of module Server, of a record. *)
Matched(c) == DOMAIN c.executors = DOMAIN c.streams

Drained(c) == c.state = "Connected" => c.outgoing = <<>>

(* A queued Write is for an open stream and carries both its ids. *)
WritesMatchStreams(c) ==
    \A i \in DOMAIN c.outgoing :
        c.outgoing[i].command = "Write" =>
            /\ c.outgoing[i].deviceStream \in DOMAIN c.streams
            /\ c.streams[c.outgoing[i].deviceStream] = c.outgoing[i].hostStream

IdsAreUsed(c) == \A id \in DOMAIN c.streams : id < c.nextStreamId

Invariants(c) == Matched(c) /\ WritesMatchStreams(c) /\ IdsAreUsed(c) /\ c.assertsHold = TRUE

(* Where a send may succeed, no Write waits in Disconnected.  It holds inside
   a handler, from the first reset on; before it, a queue that a failed send
   has left is still there. *)
Ready(c) ==
    c.isOpen /\ c.state = "Disconnected" =>
        \A i \in DOMAIN c.outgoing : c.outgoing[i].command # "Write"

Consistent(c) == c \in Servers /\ Invariants(c) /\ Ready(c)

(* A stream that was not there has an id that was not used. *)
Follows(c, d) ==
    /\ c.nextStreamId \in Nat /\ d.nextStreamId \in Nat
    /\ c.nextStreamId <= d.nextStreamId
    /\ \A id \in DOMAIN d.streams \ DOMAIN c.streams : id >= c.nextStreamId

-----------------------------------------------------------------------------
(* A typed record with all its fields is a state of the server. *)
LEMMA ServerIntro ==
    ASSUME NEW d, Whole(d), Typed(d)
    PROVE  d \in Servers
BY DEF Whole, Typed, Servers

(* A state of the server has its fields, each of its type. *)
LEMMA ServerFields ==
    ASSUME NEW c \in Servers
    PROVE  Typed(c) /\ Whole(c)
BY DEF Whole, Typed, Servers

(* Two functions called one after the other keep the ids if each does. *)
LEMMA FollowsOn ==
    ASSUME NEW c, NEW d, NEW e, Follows(c, d), Follows(d, e),
           DOMAIN e.streams \subseteq Nat
    PROVE  Follows(c, e)
BY DEF Follows

(* What forgets streams, or nothing, follows. *)
LEMMA FollowsFewer ==
    ASSUME NEW c, NEW d, c.nextStreamId \in Nat, d.nextStreamId = c.nextStreamId,
           DOMAIN d.streams \subseteq DOMAIN c.streams
    PROVE  Follows(c, d)
BY DEF Follows

(* The cleared maps. *)
LEMMA NothingType ==
    ASSUME NEW T
    PROVE  Nothing \in MapsTo(T) /\ DOMAIN Nothing = {}
<1>1. DOMAIN Nothing = {} /\ Nothing \in [{} -> T]
  BY DEF Nothing
<1> QED  BY <1>1 DEF MapsTo

(* m_streams and m_executors map device ids. *)
LEMMA MapType ==
    ASSUME NEW T, NEW f \in MapsTo(T)
    PROVE  f \in [DOMAIN f -> T] /\ DOMAIN f \in SUBSET Nat
BY DEF MapsTo

(* Erasing an entry leaves a map. *)
LEMMA RestrictType ==
    ASSUME NEW T, NEW f \in MapsTo(T), NEW S \in SUBSET DOMAIN f
    PROVE  /\ Restrict(f, S) \in MapsTo(T) /\ DOMAIN Restrict(f, S) = S
           /\ \A i \in S : Restrict(f, S)[i] = f[i]
BY MapType DEF Restrict, MapsTo

(* Adding an entry makes a map. *)
LEMMA WithType ==
    \A T : \A f \in MapsTo(T), v \in T : \A i \in Nat :
        /\ With(f, i, v) \in MapsTo(T)
        /\ DOMAIN With(f, i, v) = DOMAIN f \cup {i}
<1> TAKE T
<1> TAKE f \in MapsTo(T), v \in T
<1> TAKE i \in Nat
<1>1. f \in [DOMAIN f -> T] /\ DOMAIN f \in SUBSET Nat
  BY MapType
<1>2. With(f, i, v) \in [DOMAIN f \cup {i} -> T]
  BY <1>1 DEF With
<1>3. DOMAIN f \cup {i} \in SUBSET Nat
  BY <1>1
<1> QED  BY <1>2, <1>3 DEF MapsTo, With

(* The constructor of QdbMessage makes a message of its arguments. *)
LEMMA MessageType ==
    ASSUME NEW command \in Commands, NEW h \in Nat, NEW d \in Nat, NEW data \in Nat
    PROVE  /\ QdbMessage(command, h, d, data) \in Message
           /\ QdbMessage(command, h, d, data).command = command
           /\ QdbMessage(command, h, d, data).hostStream = h
           /\ QdbMessage(command, h, d, data).deviceStream = d
BY DEF QdbMessage, Message, StreamId

(* One of the commands the server queues. *)
LEMMA QueueableType ==
    ASSUME NEW command \in {"Connect", "Write", "Close", "Ok"},
           NEW h \in Nat, NEW d \in Nat, NEW data \in Nat
    PROVE  /\ QdbMessage(command, h, d, data) \in Queueable
           /\ QdbMessage(command, h, d, data).command = command
           /\ QdbMessage(command, h, d, data).hostStream = h
           /\ QdbMessage(command, h, d, data).deviceStream = d
<1>1. command \in Commands
  BY DEF Commands
<1> QED  BY <1>1, MessageType DEF Queueable

(* The message after which processQueue() stops is on the queue. *)
LEMMA LastSentOnQueue ==
    ASSUME NEW T, NEW q \in Seq(T), q # <<>>
    PROVE  /\ LastSent(q) \in DOMAIN q
           /\ \/ q[LastSent(q)].command \in {"Write", "Refuse"}
              \/ LastSent(q) = Len(q)
<1> DEFINE stops == {i \in DOMAIN q : q[i].command \in {"Write", "Refuse"}}
<1>1. Len(q) \in DOMAIN q
  OBVIOUS
<1>2. CASE stops = {}
  BY <1>1, <1>2 DEF LastSent
<1>3. CASE stops # {}
  <2>1. LastSent(q) = Nth(stops, 1)
    BY <1>3 DEF LastSent
  <2>2. Nth(stops, 1) \in stops
    <3> HIDE DEF stops
    <3> QED  BY <1>3, NthIsMember
  <2> QED  BY <2>1, <2>2
<1> QED  BY <1>2, <1>3

(* processQueue() leaves nothing queued in Connected, changes no stream, and
   its Q_ASSERT holds (server.cpp:166). *)
LEMMA ProcessQueueConsistent ==
    ASSUME NEW c, Consistent(c)
    PROVE  LET d == ProcessQueue(c) IN
           /\ Consistent(d) /\ Drained(d)
           /\ d.streams = c.streams /\ d.executors = c.executors
           /\ d.nextStreamId = c.nextStreamId /\ d.isOpen = c.isOpen
           /\ c.state \in {"Connected", "Waiting"} /\ c.isOpen =>
                  d.state \in {"Connected", "Waiting"}
<1> DEFINE d == ProcessQueue(c)
           q == c.outgoing
<1>1. c \in Servers /\ Typed(c) /\ Whole(c) /\ Invariants(c) /\ Ready(c)
  BY ServerFields DEF Consistent
<1>2. CASE q = <<>> \/ c.state = "Waiting"
  <2>1. d = c
    BY <1>2 DEF ProcessQueue
  <2>2. Drained(c)
    BY <1>2 DEF Drained
  <2> QED  BY <1>1, <2>1, <2>2 DEF Consistent
<1>3. CASE ~(q = <<>> \/ c.state = "Waiting") /\ ~c.isOpen
  <2>1. d = [c EXCEPT !.outgoing = Tail(q), !.state = "Disconnected"]
    BY <1>3 DEF ProcessQueue
  <2>2. /\ d.state = "Disconnected" /\ d.outgoing = Tail(q) /\ d.streams = c.streams
        /\ d.executors = c.executors /\ d.nextStreamId = c.nextStreamId
        /\ d.assertsHold = c.assertsHold /\ d.toHost = c.toHost /\ d.isOpen = c.isOpen
    BY <1>1, <2>1 DEF Servers
  <2>3. Whole(d)
    BY <1>1, <2>1 DEF Servers, Whole
  <2> HIDE DEF d
  <2>4. /\ Tail(q) \in Seq(Queueable) /\ Len(Tail(q)) = Len(q) - 1
        /\ \A i \in DOMAIN Tail(q) : Tail(q)[i] = q[i + 1] /\ i + 1 \in DOMAIN q
    <3>1. q \in Seq(Queueable) /\ q # <<>>
      BY <1>1, <1>3 DEF Typed
    <3>2. /\ Tail(q) \in Seq(Queueable) /\ Len(Tail(q)) = Len(q) - 1
          /\ \A i \in 1..Len(Tail(q)) : Tail(q)[i] = q[i + 1]
      BY <3>1, HeadTailProperties
    <3>3. DOMAIN q = 1..Len(q) /\ DOMAIN Tail(q) = 1..Len(Tail(q)) /\ Len(q) \in Nat
      BY <3>1, <3>2, LenProperties
    <3> QED  BY <3>2, <3>3
  <2>5. Typed(d)
    BY <1>1, <2>2, <2>4 DEF Typed, ServerState
  <2>6. Invariants(d)
    BY <1>1, <2>2, <2>4 DEF Invariants, Matched, WritesMatchStreams, IdsAreUsed
  <2>7. Ready(d) /\ Drained(d)
    BY <1>3, <2>2 DEF Ready, Drained
  <2> QED  BY <1>3, <2>2, <2>3, <2>5, <2>6, <2>7, ServerIntro DEF Consistent, d
<1>4. CASE ~(q = <<>> \/ c.state = "Waiting") /\ c.isOpen
  <2> DEFINE n == LastSent(q)
             rest == SubSeq(q, n + 1, Len(q))
             sent == SubSeq(q, 1, n)
  <2>1. q \in Seq(Queueable) /\ q # <<>> /\ DOMAIN q = 1..Len(q) /\ Len(q) \in Nat
    BY <1>1, <1>4, LenProperties DEF Typed
  <2>2. /\ n \in 1..Len(q)
        /\ q[n].command # "Write" => n = Len(q)
    BY <2>1, LastSentOnQueue DEF Queueable
  <2>3. d = [c EXCEPT !.outgoing = rest,
                      !.toHost = c.toHost \o sent,
                      !.assertsHold = c.assertsHold
                            /\ (q[n].command = "Write" => c.state = "Connected"),
                      !.state = StateAfter(c.state, q[n])]
    BY <1>4 DEF ProcessQueue
  <2> HIDE DEF n
  <2>4. /\ d.state = StateAfter(c.state, q[n]) /\ d.outgoing = rest
        /\ d.streams = c.streams /\ d.executors = c.executors
        /\ d.nextStreamId = c.nextStreamId
        /\ d.assertsHold = (c.assertsHold
                            /\ (q[n].command = "Write" => c.state = "Connected"))
        /\ d.toHost = c.toHost \o sent /\ d.isOpen = c.isOpen
    BY <1>1, <2>3 DEF Servers
  <2>5. Whole(d)
    BY <1>1, <2>3 DEF Servers, Whole
  <2> HIDE DEF d
  <2>6. /\ rest \in Seq(Queueable)
        /\ \A i \in DOMAIN rest : rest[i] = q[n + i] /\ n + i \in DOMAIN q
        /\ n = Len(q) => rest = <<>>
    <3>1. \A i \in n + 1..Len(q) : q[i] \in Queueable
      BY <2>1, <2>2
    <3>2. /\ rest \in Seq(Queueable)
          /\ Len(rest) = IF n + 1 <= Len(q) THEN Len(q) - (n + 1) + 1 ELSE 0
          /\ \A i \in 1..Len(q) - (n + 1) + 1 : rest[i] = q[n + 1 + i - 1]
      BY <2>1, <2>2, <3>1, SubSeqProperties
    <3>3. DOMAIN rest = 1..Len(rest)
      BY <3>2, LenProperties
    <3>4. n = Len(q) => rest = <<>>
      BY <2>1, <2>2, SubSeqEmpty
    <3> HIDE DEF rest
    <3> QED  BY <2>1, <2>2, <3>2, <3>3, <3>4
  <2>7. c.toHost \o sent \in Seq(Message)
    <3>1. \A i \in 1..n : q[i] \in Message
      BY <2>1, <2>2 DEF Queueable
    <3>2. sent \in Seq(Message)
      BY <2>1, <2>2, <3>1, SubSeqProperties
    <3> QED  BY <1>1, <3>2, ConcatProperties DEF Typed
  <2>8. q[n] \in Queueable /\ q[n].command # "Refuse"
    BY <2>1, <2>2 DEF Queueable
  <2>9. /\ q[n].command = "Write" => d.state = "Waiting"
        /\ q[n].command # "Write" => d.state = c.state
    BY <2>4, <2>8 DEF StateAfter
  <2>10. q[n].command = "Write" => c.state = "Connected"
    BY <1>1, <1>4, <2>1, <2>2 DEF Ready, Typed, ServerState
  <2> HIDE DEF rest, sent
  <2>11. d.assertsHold = TRUE
    BY <1>1, <2>4, <2>10 DEF Invariants
  <2>12. Typed(d)
    BY <1>1, <2>4, <2>6, <2>7, <2>9, <2>11 DEF Typed, ServerState
  <2>13. Invariants(d)
    BY <1>1, <2>4, <2>6, <2>11 DEF Invariants, Matched, WritesMatchStreams, IdsAreUsed
  <2>14. Ready(d)
    BY <1>1, <2>4, <2>6, <2>9 DEF Ready
  <2>15. Drained(d)
    BY <2>2, <2>4, <2>6, <2>9 DEF Drained
  <2>16. c.state = "Connected" => d.state \in {"Connected", "Waiting"}
    BY <2>9
  <2> QED
    BY <1>4, <2>4, <2>5, <2>12, <2>13, <2>14, <2>15, <2>16, ServerIntro DEF Consistent, d
<1> QED  BY <1>2, <1>3, <1>4

(* enqueueMessage(), of a message for which the queue is ready. *)
LEMMA EnqueueConsistent ==
    ASSUME NEW c, Consistent(c), NEW m \in Queueable,
           m.command = "Write" =>
               /\ m.deviceStream \in DOMAIN c.streams
               /\ c.streams[m.deviceStream] = m.hostStream
               /\ c.isOpen => c.state # "Disconnected"
    PROVE  LET d == EnqueueMessage(c, m) IN
           /\ Consistent(d) /\ Drained(d)
           /\ d.streams = c.streams /\ d.executors = c.executors
           /\ d.nextStreamId = c.nextStreamId /\ d.isOpen = c.isOpen
           /\ c.state \in {"Connected", "Waiting"} /\ c.isOpen =>
                  d.state \in {"Connected", "Waiting"}
<1> DEFINE e == [c EXCEPT !.outgoing = Append(@, m)]
<1>1. c \in Servers /\ Typed(c) /\ Whole(c) /\ Invariants(c) /\ Ready(c)
  BY ServerFields DEF Consistent
<1>2. /\ e.state = c.state /\ e.outgoing = Append(c.outgoing, m)
      /\ e.streams = c.streams /\ e.executors = c.executors
      /\ e.nextStreamId = c.nextStreamId /\ e.assertsHold = c.assertsHold
      /\ e.toHost = c.toHost /\ e.isOpen = c.isOpen
  BY <1>1 DEF Servers
<1>3. Whole(e)
  <2>1. e = [c EXCEPT !.outgoing = Append(c.outgoing, m)]
    OBVIOUS
  <2> HIDE DEF e
  <2> QED  BY <1>1, <2>1 DEF Servers, Whole
<1>4. EnqueueMessage(c, m) = ProcessQueue(e)
  BY DEF EnqueueMessage
<1> HIDE DEF e
<1>5. /\ e.outgoing \in Seq(Queueable)
      /\ \A i \in DOMAIN e.outgoing :
            \/ e.outgoing[i] = m
            \/ i \in DOMAIN c.outgoing /\ e.outgoing[i] = c.outgoing[i]
  <2>1. c.outgoing \in Seq(Queueable)
    BY <1>1 DEF Typed
  <2>2. /\ e.outgoing \in Seq(Queueable) /\ Len(e.outgoing) = Len(c.outgoing) + 1
        /\ \A i \in 1..Len(c.outgoing) : e.outgoing[i] = c.outgoing[i]
        /\ e.outgoing[Len(c.outgoing) + 1] = m
    BY <1>2, <2>1, AppendProperties
  <2>3. /\ DOMAIN c.outgoing = 1..Len(c.outgoing) /\ Len(c.outgoing) \in Nat
        /\ DOMAIN e.outgoing = 1..Len(e.outgoing)
    BY <2>1, <2>2, LenProperties
  <2> QED  BY <2>2, <2>3
<1>6. Typed(e)
  BY <1>1, <1>2, <1>5 DEF Typed
<1>7. Invariants(e)
  BY <1>1, <1>2, <1>5 DEF Invariants, Matched, WritesMatchStreams, IdsAreUsed
<1>8. Ready(e)
  BY <1>1, <1>2, <1>5 DEF Ready
<1>9. Consistent(e)
  BY <1>3, <1>6, <1>7, <1>8, ServerIntro DEF Consistent
<1> QED  BY <1>2, <1>4, <1>9, ProcessQueueConsistent

(* resetServer(), with the state that is set next to it. *)
LEMMA ResetServerConsistent ==
    ASSUME NEW c \in Servers, c.assertsHold = TRUE, NEW s \in ServerState
    PROVE  LET d == [ResetServer(c) EXCEPT !.state = s] IN
           /\ Consistent(d) /\ d.outgoing = <<>> /\ d.state = s
           /\ DOMAIN d.streams = {} /\ d.nextStreamId = c.nextStreamId
           /\ d.isOpen = c.isOpen
<1> DEFINE d == [ResetServer(c) EXCEPT !.state = s]
<1>1. Typed(c) /\ Whole(c)
  BY ServerFields
<1>2. /\ d.state = s /\ d.outgoing = <<>> /\ d.streams = Nothing
      /\ d.executors = Nothing /\ d.nextStreamId = c.nextStreamId
      /\ d.assertsHold = c.assertsHold /\ d.toHost = c.toHost /\ d.isOpen = c.isOpen
  BY DEF ResetServer, Servers
<1>3. Whole(d)
  <2>1. d = [c EXCEPT !.outgoing = <<>>, !.executors = Nothing, !.streams = Nothing,
                      !.state = s]
    BY DEF ResetServer
  <2> HIDE DEF d
  <2> QED  BY <2>1 DEF Servers, Whole
<1> HIDE DEF d
<1>4. /\ Nothing \in MapsTo(Nat) /\ Nothing \in MapsTo(Tags) /\ DOMAIN Nothing = {}
  BY NothingType
<1>5. <<>> \in Seq(Queueable) /\ DOMAIN <<>> = {}
  OBVIOUS
<1>6. Typed(d)
  BY <1>1, <1>2, <1>4, <1>5 DEF Typed
<1>7. Invariants(d) /\ Ready(d)
  BY <1>2, <1>4, <1>5 DEF Invariants, Matched, WritesMatchStreams, IdsAreUsed, Ready
<1> QED  BY <1>2, <1>3, <1>4, <1>6, <1>7, ServerIntro DEF Consistent, d

(* A Refuse is sent at once, or dropped: the queue it is put on is empty. *)
LEMMA RefuseConsistent ==
    ASSUME NEW c \in Servers, c.assertsHold = TRUE, NEW reason \in Nat
    PROVE  Consistent(Refuse(c, reason)) /\ Follows(c, Refuse(c, reason))
<1> DEFINE m == QdbMessage("Refuse", 0, 0, reason)
           b == [ResetServer(c) EXCEPT !.state = "Disconnected"]
           e == [b EXCEPT !.outgoing = Append(@, m)]
           d == ProcessQueue(e)
<1>1. Refuse(c, reason) = d
  BY DEF Refuse, EnqueueMessage
<1>2. m \in Message /\ m.command = "Refuse"
  BY MessageType DEF Commands
<1>3. /\ Consistent(b) /\ b.outgoing = <<>> /\ b.state = "Disconnected"
      /\ DOMAIN b.streams = {} /\ b.nextStreamId = c.nextStreamId
  BY ResetServerConsistent DEF ServerState
<1> HIDE DEF b, m
<1>4. b \in Servers /\ Typed(b) /\ Whole(b) /\ Invariants(b)
  BY <1>3, ServerFields DEF Consistent
<1>5. /\ e.state = b.state /\ e.outgoing = <<m>>
      /\ e.streams = b.streams /\ e.executors = b.executors
      /\ e.nextStreamId = b.nextStreamId /\ e.assertsHold = b.assertsHold
      /\ e.toHost = b.toHost /\ e.isOpen = b.isOpen
  BY <1>3, <1>4 DEF Servers
<1>6. e = [b EXCEPT !.outgoing = <<m>>]
  BY <1>3, <1>4, <1>5 DEF Servers
<1> HIDE DEF e
<1>7. /\ Whole(d) /\ d.state = "Disconnected" /\ d.outgoing = <<>>
      /\ d.streams = b.streams /\ d.executors = b.executors
      /\ d.nextStreamId = b.nextStreamId /\ d.assertsHold = TRUE
      /\ d.toHost \in Seq(Message) /\ d.isOpen = b.isOpen
  <2>1. CASE ~e.isOpen
    <3>1. d = [e EXCEPT !.outgoing = Tail(<<m>>), !.state = "Disconnected"]
      BY <1>3, <1>5, <2>1 DEF ProcessQueue
    <3>2. Tail(<<m>>) = <<>>
      OBVIOUS
    <3> HIDE DEF d
    <3>3. d = [b EXCEPT !.outgoing = <<>>]
      <4>1. d = [e EXCEPT !.outgoing = <<>>, !.state = "Disconnected"]
        BY <3>1, <3>2
      <4>2. d = [[b EXCEPT !.outgoing = <<m>>] EXCEPT !.outgoing = <<>>,
                                                      !.state = "Disconnected"]
        BY <1>6, <4>1
      <4> QED  BY <1>3, <1>4, <4>2 DEF Servers, Whole
    <3> QED  BY <1>3, <1>4, <3>3 DEF Servers, Whole, Invariants, Typed
  <2>2. CASE e.isOpen
    <3>1. LastSent(<<m>>) = 1
      <4>1. <<m>> \in Seq(Message) /\ <<m>> # <<>> /\ DOMAIN <<m>> = {1}
        BY <1>2
      <4> QED  BY <4>1, LastSentOnQueue
    <3>2. SubSeq(<<m>>, 1 + 1, Len(<<m>>)) = <<>> /\ SubSeq(<<m>>, 1, 1) \in Seq(Message)
      <4>1. \A i \in 1..1 : <<m>>[i] \in Message
        BY <1>2
      <4>2. SubSeq(<<m>>, 1, 1) \in Seq(Message)
        BY <4>1, SubSeqProperties
      <4> QED  BY <4>1, <4>2, SubSeqEmpty
    <3>3. d = [e EXCEPT !.outgoing = SubSeq(<<m>>, 1 + 1, Len(<<m>>)),
                        !.toHost = e.toHost \o SubSeq(<<m>>, 1, 1),
                        !.assertsHold = e.assertsHold
                              /\ (m.command = "Write" => e.state = "Connected"),
                        !.state = StateAfter(e.state, m)]
      <4> DEFINE q == e.outgoing
      <4>1. q = <<m>> /\ q # <<>> /\ LastSent(q) = 1 /\ q[1] = m /\ e.state # "Waiting"
        BY <1>3, <1>5, <3>1
      <4>2. d = [e EXCEPT !.outgoing = SubSeq(q, LastSent(q) + 1, Len(q)),
                          !.toHost = e.toHost \o SubSeq(q, 1, LastSent(q)),
                          !.assertsHold = e.assertsHold
                              /\ (q[LastSent(q)].command = "Write" => e.state = "Connected"),
                          !.state = StateAfter(e.state, q[LastSent(q)])]
        BY <2>2, <4>1 DEF ProcessQueue
      <4> HIDE DEF d, q
      <4> QED  BY <4>1, <4>2
    <3>4. StateAfter(e.state, m) = "Disconnected"
      BY <1>2 DEF StateAfter
    <3>5. (e.assertsHold /\ (m.command = "Write" => e.state = "Connected")) = TRUE
      BY <1>2, <1>4, <1>5 DEF Invariants
    <3> HIDE DEF d
    <3>6. d = [b EXCEPT !.outgoing = <<>>, !.toHost = b.toHost \o SubSeq(<<m>>, 1, 1)]
      BY <1>3, <1>4, <1>5, <1>6, <3>2, <3>3, <3>4, <3>5 DEF Servers, Invariants
    <3>7. b.toHost \o SubSeq(<<m>>, 1, 1) \in Seq(Message)
      BY <1>4, <3>2, ConcatProperties DEF Typed
    <3> QED  BY <1>3, <1>4, <3>6, <3>7 DEF Servers, Whole, Invariants, Typed
  <2> QED  BY <2>1, <2>2
<1> HIDE DEF d
<1>8. <<>> \in Seq(Queueable) /\ DOMAIN <<>> = {}
  OBVIOUS
<1>9. Typed(d)
  BY <1>4, <1>7, <1>8 DEF Typed, ServerState
<1>10. Invariants(d) /\ Ready(d)
  BY <1>4, <1>7, <1>8 DEF Invariants, Matched, WritesMatchStreams, IdsAreUsed, Ready
<1>11. Follows(c, d)
  <2>1. c.nextStreamId \in Nat
    BY DEF Servers
  <2> QED  BY <1>3, <1>7, <2>1, FollowsFewer
<1> QED  BY <1>1, <1>7, <1>9, <1>10, <1>11, ServerIntro DEF Consistent

(* handleConnect() *)
LEMMA HandleConnectConsistent ==
    ASSUME NEW c \in Servers, c.assertsHold = TRUE, NEW m \in Message
    PROVE  Consistent(HandleConnect(c, m)) /\ Follows(c, HandleConnect(c, m))
<1>1. CASE ~CheckVersion(m)
  BY <1>1, RefuseConsistent DEF HandleConnect, UnknownVersion
<1>2. CASE CheckVersion(m)
  <2> DEFINE b == [ResetServer(c) EXCEPT !.state = "Connected"]
             d == EnqueueMessage(b, ConnectMessage)
  <2>1. HandleConnect(c, m) = d
    BY <1>2 DEF HandleConnect
  <2>2. /\ Consistent(b) /\ DOMAIN b.streams = {} /\ b.nextStreamId = c.nextStreamId
    BY ResetServerConsistent DEF ServerState
  <2>3. ConnectMessage \in Queueable /\ ConnectMessage.command = "Connect"
    BY QueueableType DEF ConnectMessage, qdbProtocolVersion
  <2> HIDE DEF b
  <2>4. Consistent(d) /\ d.streams = b.streams /\ d.nextStreamId = b.nextStreamId
    BY <2>2, <2>3, EnqueueConsistent
  <2> HIDE DEF d
  <2>5. Follows(c, d)
    <3>1. c.nextStreamId \in Nat
      BY DEF Servers
    <3> QED  BY <2>2, <2>4, <3>1, FollowsFewer
  <2> QED  BY <2>1, <2>4, <2>5
<1> QED  BY <1>1, <1>2

(* handleOpen(): the new stream has an id of its own. *)
LEMMA HandleOpenConsistent ==
    ASSUME NEW c, Consistent(c), NEW m \in Message
    PROVE  Consistent(HandleOpen(c, m)) /\ Follows(c, HandleOpen(c, m))
<1> DEFINE id == c.nextStreamId
           b == [c EXCEPT !.nextStreamId = @ + 1]
           ok == QdbMessage("Ok", m.hostStream, id, 0)
           d == EnqueueMessage(b, ok)
           tag == IF m.data \in KnownTags THEN m.data ELSE NoExecutor
           e == [d EXCEPT !.streams = With(@, id, m.hostStream),
                          !.executors = With(@, id, tag)]
<1>1. HandleOpen(c, m) = e
  BY DEF HandleOpen
<1>2. c \in Servers /\ Typed(c) /\ Whole(c) /\ Invariants(c) /\ Ready(c)
  BY ServerFields DEF Consistent
<1>3. id \in Nat /\ m.hostStream \in Nat /\ tag \in Tags
  BY <1>2 DEF Typed, Message, StreamId, Tags
<1>4. Consistent(b) /\ b.streams = c.streams /\ b.nextStreamId = id + 1
  <2>1. b = [c EXCEPT !.nextStreamId = id + 1]
    OBVIOUS
  <2> HIDE DEF b, id
  <2>2. /\ b.state = c.state /\ b.outgoing = c.outgoing /\ b.streams = c.streams
        /\ b.executors = c.executors /\ b.nextStreamId = id + 1
        /\ b.assertsHold = c.assertsHold /\ b.toHost = c.toHost /\ b.isOpen = c.isOpen
    BY <1>2, <2>1 DEF Servers
  <2>3. Whole(b)
    BY <1>2, <2>1 DEF Servers, Whole
  <2>4. Typed(b)
    BY <1>2, <1>3, <2>2 DEF Typed
  <2>5. IdsAreUsed(b)
    <3>1. \A i \in DOMAIN c.streams : i \in Nat /\ i < id
      BY <1>2, MapType DEF Typed, Invariants, IdsAreUsed, id
    <3> QED  BY <1>3, <2>2, <3>1 DEF IdsAreUsed
  <2>6. Invariants(b) /\ Ready(b)
    BY <1>2, <2>2, <2>5 DEF Invariants, Matched, WritesMatchStreams, Ready
  <2> QED  BY <2>2, <2>3, <2>4, <2>6, ServerIntro DEF Consistent
<1>5. ok \in Queueable /\ ok.command = "Ok"
  BY <1>3, QueueableType
<1> HIDE DEF b, ok
<1>6. /\ Consistent(d) /\ d.streams = c.streams /\ d.nextStreamId = id + 1
  BY <1>4, <1>5, EnqueueConsistent
<1> HIDE DEF d, tag
<1>7. d \in Servers /\ Typed(d) /\ Whole(d) /\ Invariants(d) /\ Ready(d)
  BY <1>6, ServerFields DEF Consistent
<1>8. /\ With(d.streams, id, m.hostStream) \in MapsTo(Nat)
      /\ DOMAIN With(d.streams, id, m.hostStream) = DOMAIN d.streams \cup {id}
      /\ \A j \in DOMAIN d.streams : j # id =>
            With(d.streams, id, m.hostStream)[j] = d.streams[j]
  <2> DEFINE f == d.streams
             h == m.hostStream
             T == Nat
  <2>1. f \in MapsTo(T) /\ id \in Nat /\ h \in T
    BY <1>3, <1>7 DEF Typed
  <2> HIDE DEF id, f, h, T
  <2>2. With(f, id, h) \in MapsTo(T) /\ DOMAIN With(f, id, h) = DOMAIN f \cup {id}
    BY <2>1, WithType
  <2>3. \A j \in DOMAIN f : j # id => With(f, id, h)[j] = f[j]
    BY DEF With
  <2> QED  BY <2>2, <2>3 DEF f, h, T
<1>9. /\ With(d.executors, id, tag) \in MapsTo(Tags)
      /\ DOMAIN With(d.executors, id, tag) = DOMAIN d.executors \cup {id}
  <2> DEFINE f == d.executors
  <2>1. f \in MapsTo(Tags) /\ id \in Nat
    BY <1>3, <1>7 DEF Typed
  <2> HIDE DEF id, f
  <2>2. With(f, id, tag) \in MapsTo(Tags) /\ DOMAIN With(f, id, tag) = DOMAIN f \cup {id}
    BY <1>3, <2>1, WithType
  <2> QED  BY <2>2 DEF f
<1>10. \A j \in DOMAIN d.streams : j \in Nat /\ j < id
  BY <1>2, <1>6, MapType DEF Typed, Invariants, IdsAreUsed
<1>11. e = [d EXCEPT !.streams = With(d.streams, id, m.hostStream),
                     !.executors = With(d.executors, id, tag)]
  OBVIOUS
<1> HIDE DEF e, id
<1>12. /\ e.state = d.state /\ e.outgoing = d.outgoing
       /\ e.streams = With(d.streams, id, m.hostStream)
       /\ e.executors = With(d.executors, id, tag) /\ e.nextStreamId = d.nextStreamId
       /\ e.assertsHold = d.assertsHold /\ e.toHost = d.toHost /\ e.isOpen = d.isOpen
  BY <1>7, <1>11 DEF Servers
<1>13. Whole(e)
  BY <1>7, <1>11 DEF Servers, Whole
<1>14. Typed(e)
  BY <1>7, <1>8, <1>9, <1>12 DEF Typed
<1>15. WritesMatchStreams(e)
  BY <1>7, <1>8, <1>10, <1>12 DEF Invariants, WritesMatchStreams
<1>16. IdsAreUsed(e)
  BY <1>3, <1>6, <1>8, <1>10, <1>12 DEF IdsAreUsed
<1>17. Matched(e)
  BY <1>7, <1>8, <1>9, <1>12 DEF Invariants, Matched
<1>18. Consistent(e)
  BY <1>7, <1>12, <1>13, <1>14, <1>15, <1>16, <1>17, ServerIntro
     DEF Consistent, Invariants, Ready
<1>19. Follows(c, e)
  BY <1>3, <1>6, <1>8, <1>12 DEF Follows, id
<1> QED  BY <1>1, <1>18, <1>19

(* handleWrite(), and the answer of the executor. *)
LEMMA HandleWriteConsistent ==
    ASSUME NEW c, Consistent(c), c.state # "Disconnected", NEW m \in Message
    PROVE  Consistent(HandleWrite(c, m)) /\ Follows(c, HandleWrite(c, m))
<1> DEFINE id == m.deviceStream
           close == QdbMessage("Close", m.hostStream, id, 0)
           ok == QdbMessage("Ok", m.hostStream, id, 0)
           answer == QdbMessage("Write", c.streams[id], id, m.data)
           d == EnqueueMessage(c, ok)
           e == EnqueueMessage(d, answer)
<1>1. c \in Servers /\ Typed(c) /\ Invariants(c)
  BY ServerFields DEF Consistent
<1>2. id \in Nat /\ m.hostStream \in Nat /\ m.data \in Nat /\ c.nextStreamId \in Nat
  BY <1>1 DEF Message, StreamId, Typed
<1>3. c.state \in {"Connected", "Waiting"}
  BY <1>1 DEF Typed, ServerState
<1>4. CASE id \notin DOMAIN c.streams
  <2> DEFINE f == EnqueueMessage(c, close)
  <2>1. HandleWrite(c, m) = f
    BY <1>4 DEF HandleWrite
  <2>2. close \in Queueable /\ close.command = "Close"
    BY <1>2 DEF QdbMessage, Queueable, Message, StreamId, Commands
  <2>3. Consistent(f) /\ f.streams = c.streams /\ f.nextStreamId = c.nextStreamId
    BY <2>2, EnqueueConsistent
  <2> HIDE DEF f
  <2> QED  BY <1>2, <2>1, <2>3, FollowsFewer
<1>5. CASE id \in DOMAIN c.streams
  <2>1. HandleWrite(c, m) = ExecutorReceives(d, id, m.data)
    BY <1>5 DEF HandleWrite
  <2>2. ok \in Queueable /\ ok.command = "Ok"
    BY <1>2 DEF QdbMessage, Queueable, Message, StreamId, Commands
  <2>3. /\ Consistent(d) /\ d.streams = c.streams /\ d.nextStreamId = c.nextStreamId
        /\ d.isOpen => d.state \in {"Connected", "Waiting"}
    BY <1>3, <2>2, EnqueueConsistent
  <2>4. c.streams[id] \in Nat
    BY <1>1, <1>5, MapType DEF Typed
  <2>5. /\ answer \in Queueable /\ answer.command = "Write"
        /\ answer.hostStream = c.streams[id] /\ answer.deviceStream = id
    BY <1>2, <2>4 DEF QdbMessage, Queueable, Message, StreamId, Commands
  <2> HIDE DEF d, answer
  <2>6. ExecutorReceives(d, id, m.data) \in {d, e}
    BY <2>3 DEF ExecutorReceives, answer
  <2>7. Consistent(e) /\ e.streams = c.streams /\ e.nextStreamId = c.nextStreamId
    BY <1>5, <2>3, <2>5, EnqueueConsistent
  <2> HIDE DEF e, id
  <2>8. Follows(c, d) /\ Follows(c, e)
    BY <1>2, <2>3, <2>7, FollowsFewer
  <2> QED  BY <2>1, <2>3, <2>6, <2>7, <2>8
<1> QED  BY <1>4, <1>5

(* closeStream() *)
LEMMA CloseStreamConsistent ==
    ASSUME NEW c, Consistent(c), NEW id
    PROVE  Consistent(CloseStream(c, id)) /\ Follows(c, CloseStream(c, id))
<1> DEFINE d == CloseStream(c, id)
           S == {i \in DOMAIN c.outgoing : c.outgoing[i].deviceStream # id}
           left == DOMAIN c.streams \ {id}
           leftExecutors == DOMAIN c.executors \ {id}
<1>1. c \in Servers /\ Typed(c) /\ Whole(c) /\ Invariants(c) /\ Ready(c)
  BY ServerFields DEF Consistent
<1>2. CASE id \notin DOMAIN c.streams
  <2>1. c.nextStreamId \in Nat
    BY <1>1 DEF Typed
  <2> QED  BY <1>2, <2>1, FollowsFewer DEF CloseStream
<1>3. CASE id \in DOMAIN c.streams
  <2>1. /\ KeepAt(c.outgoing, S) \in Seq(Queueable)
        /\ \A k \in DOMAIN KeepAt(c.outgoing, S) :
              \E i \in S : KeepAt(c.outgoing, S)[k] = c.outgoing[i]
    <3>1. c.outgoing \in Seq(Queueable) /\ S \in SUBSET DOMAIN c.outgoing
      BY <1>1 DEF Typed
    <3> HIDE DEF S
    <3> QED  BY <3>1, KeepAtKeeps
  <2>2. /\ Restrict(c.streams, left) \in MapsTo(Nat)
        /\ DOMAIN Restrict(c.streams, left) = left
        /\ \A i \in left : Restrict(c.streams, left)[i] = c.streams[i]
    BY <1>1, RestrictType DEF Typed
  <2>3. /\ Restrict(c.executors, leftExecutors) \in MapsTo(Tags)
        /\ DOMAIN Restrict(c.executors, leftExecutors) = leftExecutors
    BY <1>1, RestrictType DEF Typed
  <2>4. d = [c EXCEPT !.streams = Restrict(c.streams, left),
                      !.executors = Restrict(c.executors, leftExecutors),
                      !.outgoing = KeepAt(c.outgoing, S)]
    BY <1>3 DEF CloseStream
  <2>5. Whole(d)
    BY <1>1, <2>4 DEF Servers, Whole
  <2>6. /\ d.state = c.state /\ d.outgoing = KeepAt(c.outgoing, S)
        /\ d.streams = Restrict(c.streams, left)
        /\ d.executors = Restrict(c.executors, leftExecutors)
        /\ d.nextStreamId = c.nextStreamId /\ d.assertsHold = c.assertsHold
        /\ d.toHost = c.toHost /\ d.isOpen = c.isOpen
    BY <1>1, <2>4 DEF Servers
  <2> HIDE DEF d, S
  <2>7. Typed(d)
    BY <1>1, <2>1, <2>2, <2>3, <2>6 DEF Typed
  <2>8. WritesMatchStreams(d)
    <3>1. ASSUME NEW k \in DOMAIN d.outgoing, d.outgoing[k].command = "Write"
          PROVE  /\ d.outgoing[k].deviceStream \in DOMAIN d.streams
                 /\ d.streams[d.outgoing[k].deviceStream] = d.outgoing[k].hostStream
      <4>1. PICK i \in S : d.outgoing[k] = c.outgoing[i]
        BY <2>1, <2>6
      <4>2. i \in DOMAIN c.outgoing /\ c.outgoing[i].deviceStream # id
        BY DEF S
      <4>3. /\ c.outgoing[i].deviceStream \in left
            /\ c.streams[c.outgoing[i].deviceStream] = c.outgoing[i].hostStream
        BY <1>1, <3>1, <4>1, <4>2 DEF Invariants, WritesMatchStreams
      <4> QED  BY <2>2, <2>6, <4>1, <4>3
    <3> QED  BY <3>1 DEF WritesMatchStreams
  <2>9. Ready(d)
    <3>1. \A k \in DOMAIN d.outgoing : \E i \in DOMAIN c.outgoing :
              d.outgoing[k] = c.outgoing[i]
      BY <2>1, <2>6 DEF S
    <3> QED  BY <1>1, <2>6, <3>1 DEF Ready
  <2>10. Matched(d) /\ IdsAreUsed(d)
    BY <1>1, <2>2, <2>3, <2>6 DEF Invariants, Matched, IdsAreUsed
  <2>11. Follows(c, d)
    BY <1>1, <2>2, <2>6, FollowsFewer DEF Typed
  <2> QED
    BY <1>1, <2>5, <2>6, <2>7, <2>8, <2>9, <2>10, <2>11, ServerIntro
       DEF Consistent, Invariants, d
<1> QED  BY <1>2, <1>3

(* An Ok or a Close ends the wait. *)
LEMMA ReleaseConsistent ==
    ASSUME NEW c, Consistent(c)
    PROVE  Consistent(Release(c)) /\ Follows(c, Release(c))
<1> DEFINE d == Release(c)
<1>1. c \in Servers /\ Typed(c) /\ Whole(c) /\ Invariants(c)
  BY ServerFields DEF Consistent
<1>2. d = [c EXCEPT !.state = "Connected"]
  BY DEF Release
<1> HIDE DEF d
<1>3. /\ d.state = "Connected" /\ d.outgoing = c.outgoing /\ d.streams = c.streams
      /\ d.executors = c.executors /\ d.nextStreamId = c.nextStreamId
      /\ d.assertsHold = c.assertsHold /\ d.toHost = c.toHost /\ d.isOpen = c.isOpen
  BY <1>1, <1>2 DEF Servers
<1>4. Whole(d)
  BY <1>1, <1>2 DEF Servers, Whole
<1>5. Typed(d)
  BY <1>1, <1>3 DEF Typed, ServerState
<1>6. Invariants(d) /\ Ready(d)
  BY <1>1, <1>3 DEF Invariants, Matched, WritesMatchStreams, IdsAreUsed, Ready
<1>7. Follows(c, d)
  BY <1>1, <1>3, FollowsFewer DEF Typed
<1> QED  BY <1>4, <1>5, <1>6, <1>7, ServerIntro DEF Consistent, d

(* closeStream() on the host's Close, which ends the wait as well. *)
LEMMA HandleCloseConsistent ==
    ASSUME NEW c, Consistent(c), NEW id
    PROVE  /\ Consistent(CloseStream(Release(c), id))
           /\ Follows(c, CloseStream(Release(c), id))
<1> DEFINE b == Release(c)
           d == CloseStream(b, id)
<1>1. Consistent(b) /\ Follows(c, b)
  BY ReleaseConsistent
<1> HIDE DEF b
<1>2. Consistent(d) /\ Follows(b, d)
  BY <1>1, CloseStreamConsistent
<1> HIDE DEF d
<1>3. DOMAIN d.streams \subseteq Nat
  BY <1>2, ServerFields, MapType DEF Consistent, Typed
<1>4. Follows(c, d)
  BY <1>1, <1>2, <1>3, FollowsOn
<1> QED  BY <1>2, <1>4 DEF b, d

(* handleMessage(), with the processQueue() that ends it. *)
LEMMA HandleMessageConsistent ==
    ASSUME NEW c \in Servers, Invariants(c),
           NEW m \in Message, m.command \notin {"Invalid", "Refuse"}
    PROVE  /\ Consistent(HandleMessage(c, m)) /\ Drained(HandleMessage(c, m))
           /\ Follows(c, HandleMessage(c, m))
<1> DEFINE d == IF c.state = "Disconnected" THEN HandleInDisconnected(c, m)
                                            ELSE HandleInConnected(c, m)
           e == ProcessQueue(d)
<1>1. c.assertsHold = TRUE
  BY DEF Invariants
<1>2. ASSUME m.command = "Connect"
      PROVE  Consistent(d) /\ Follows(c, d)
  <2>1. d = HandleConnect(c, m)
    BY <1>2 DEF HandleInDisconnected, HandleInConnected
  <2> HIDE DEF d
  <2>2. Consistent(d) /\ Follows(c, d)
    BY <1>1, <2>1, HandleConnectConsistent
  <2> QED  BY <2>2
<1>3. ASSUME c.state = "Disconnected" /\ m.command # "Connect"
      PROVE  Consistent(d) /\ Follows(c, d)
  <2>1. d = Refuse(c, NotConnected)
    BY <1>3 DEF HandleInDisconnected
  <2> HIDE DEF d
  <2>2. Consistent(d) /\ Follows(c, d)
    BY <1>1, <2>1, RefuseConsistent DEF NotConnected
  <2> QED  BY <2>2
<1>4. ASSUME c.state # "Disconnected" /\ m.command # "Connect"
      PROVE  Consistent(d) /\ Follows(c, d)
  <2>1. Consistent(c)
    BY <1>4 DEF Consistent, Ready
  <2>2. m.command \in {"Open", "Write", "Close", "Ok"}
    BY <1>4 DEF Message, Commands
  <2>3. \/ d = HandleOpen(c, m)
        \/ d = HandleWrite(c, m)
        \/ d = CloseStream(Release(c), m.deviceStream)
        \/ d = Release(c)
    BY <1>4, <2>2 DEF HandleInConnected
  <2> HIDE DEF d
  <2>4. Consistent(d) /\ Follows(c, d)
    BY <1>4, <2>1, <2>3, HandleOpenConsistent, HandleWriteConsistent,
       HandleCloseConsistent, ReleaseConsistent
  <2> QED  BY <2>4
<1>5. Consistent(d) /\ Follows(c, d)
  BY <1>2, <1>3, <1>4
<1>6. HandleMessage(c, m) = e
  BY DEF HandleMessage
<1> HIDE DEF d
<1>7. /\ Consistent(e) /\ Drained(e) /\ e.streams = d.streams
      /\ e.nextStreamId = d.nextStreamId
  BY <1>5, ProcessQueueConsistent
<1> HIDE DEF e
<1>8. Follows(c, e)
  BY <1>5, <1>7 DEF Follows
<1> QED  BY <1>6, <1>7, <1>8

-----------------------------------------------------------------------------
(* What IInv adds to the invariants that the runs check. *)
QueuedWritesMatchStreams ==
    \A i \in DOMAIN outgoing :
        outgoing[i].command = "Write" =>
            /\ outgoing[i].deviceStream \in DOMAIN streams
            /\ streams[outgoing[i].deviceStream] = outgoing[i].hostStream

(* The inductive invariant. *)
IInv ==
    /\ TypeOK
    /\ ExecutorsMatchStreams
    /\ QueueEmptyWhenConnected
    /\ QueuedWritesMatchStreams
    /\ \A id \in DOMAIN streams : id < nextStreamId
    /\ assertsHold = TRUE

(* What a step may not do to the ids of streams. *)
IdsStayFresh ==
    /\ nextStreamId' >= nextStreamId
    /\ \A id \in DOMAIN streams' \ DOMAIN streams : id >= nextStreamId

(* The record that a handler is given. *)
LEMMA FreshConsistent ==
    ASSUME IInv, NEW isOpen \in BOOLEAN
    PROVE  Fresh(isOpen) \in Servers /\ Invariants(Fresh(isOpen))
<1> DEFINE c == Fresh(isOpen)
<1>1. /\ c.state = state /\ c.outgoing = outgoing /\ c.streams = streams
      /\ c.executors = executors /\ c.nextStreamId = nextStreamId
      /\ c.assertsHold = assertsHold /\ c.toHost = <<>> /\ c.isOpen = isOpen
  BY DEF Fresh, Activation
<1>2. Whole(c)
  BY DEF Whole, Fresh, Activation
<1> HIDE DEF c
<1>3. streams \in MapsTo(Nat) /\ executors \in MapsTo(Tags)
  BY DEF IInv, TypeOK, ExecutorsMatchStreams, MapsTo, Tags
<1>4. Typed(c)
  <2>1. outgoing \in Seq(Queueable)
    BY DEF IInv, TypeOK, Queueable
  <2>2. <<>> \in Seq(Message)
    OBVIOUS
  <2> QED  BY <1>1, <1>3, <2>1, <2>2 DEF IInv, TypeOK, Typed
<1>5. Invariants(c)
  BY <1>1 DEF IInv, ExecutorsMatchStreams, QueuedWritesMatchStreams, Invariants,
              Matched, WritesMatchStreams, IdsAreUsed
<1> QED  BY <1>2, <1>4, <1>5, ServerIntro DEF c

(* A handler that returns a consistent record keeps the invariant. *)
LEMMA CommitConsistent ==
    ASSUME NEW d, Consistent(d), Drained(d), Commit(d)
    PROVE  IInv'
<1>1. d \in Servers /\ Typed(d) /\ Invariants(d)
  BY ServerFields DEF Consistent
<1>2. /\ state' = d.state /\ outgoing' = d.outgoing /\ streams' = d.streams
      /\ executors' = d.executors /\ nextStreamId' = d.nextStreamId
      /\ assertsHold' = d.assertsHold /\ toHost' = d.toHost
  BY DEF Commit
<1>3. TypeOK'
  <2>1. streams' \in [DOMAIN streams' -> Nat] /\ DOMAIN streams' \in SUBSET Nat
    BY <1>1, <1>2, MapType DEF Typed
  <2>2. executors' \in [DOMAIN executors' -> Tags]
    BY <1>1, <1>2, MapType DEF Typed
  <2> QED  BY <1>1, <1>2, <2>1, <2>2 DEF Typed, TypeOK, Tags, Queueable
<1>4. ExecutorsMatchStreams' /\ QueueEmptyWhenConnected'
  BY <1>1, <1>2 DEF Invariants, Matched, Drained, ExecutorsMatchStreams,
                    QueueEmptyWhenConnected
<1>5. QueuedWritesMatchStreams'
  BY <1>1, <1>2 DEF Invariants, WritesMatchStreams, QueuedWritesMatchStreams
<1>6. (\A id \in DOMAIN streams : id < nextStreamId)' /\ (assertsHold = TRUE)'
  BY <1>1, <1>2 DEF Invariants, IdsAreUsed
<1> QED  BY <1>3, <1>4, <1>5, <1>6 DEF IInv

(* The new Server. *)
LEMMA InitIInv == Init => IInv
<1> SUFFICES ASSUME Init PROVE IInv
  OBVIOUS
<1>1. Nothing \in [{} -> Nat] /\ Nothing \in [{} -> Tags] /\ DOMAIN Nothing = {}
  BY DEF Nothing
<1>2. TypeOK
  BY <1>1 DEF Init, TypeOK, ServerState, Tags
<1> QED  BY <1>1, <1>2 DEF Init, IInv, ExecutorsMatchStreams, QueueEmptyWhenConnected,
                           QueuedWritesMatchStreams

(* Every message of every host keeps the invariant and the ids. *)
LEMMA NextIInv == IInv /\ [Next]_vars => IInv' /\ [IdsStayFresh]_vars
<1> SUFFICES ASSUME IInv, [Next]_vars PROVE IInv' /\ [IdsStayFresh]_vars
  OBVIOUS
<1>1. CASE UNCHANGED vars
  BY <1>1 DEF vars, IInv, TypeOK, ExecutorsMatchStreams, QueueEmptyWhenConnected,
              QueuedWritesMatchStreams
<1>2. ASSUME NEW isOpen \in EndpointStates, NEW m \in HostMessages,
             Receive(Fresh(isOpen), m)
      PROVE  IInv' /\ IdsStayFresh
  <2> DEFINE c == Fresh(isOpen)
             d == HandleMessage(c, m)
  <2>1. /\ isOpen \in BOOLEAN /\ m \in Message
        /\ m.command \notin {"Invalid", "Refuse"}
    BY InputsAssumption
  <2>2. c \in Servers /\ Invariants(c)
    BY <2>1, FreshConsistent
  <2>3. c.nextStreamId = nextStreamId /\ c.streams = streams
    BY DEF Fresh, Activation
  <2>4. Commit(d)
    BY <1>2 DEF Receive
  <2> HIDE DEF c
  <2>5. Consistent(d) /\ Drained(d) /\ Follows(c, d)
    BY <2>1, <2>2, HandleMessageConsistent
  <2> HIDE DEF d
  <2>6. IInv'
    BY <2>4, <2>5, CommitConsistent
  <2>7. streams' = d.streams /\ nextStreamId' = d.nextStreamId
    BY <2>4 DEF Commit
  <2>8. IdsStayFresh
    BY <2>3, <2>5, <2>7 DEF Follows, IdsStayFresh
  <2> QED  BY <2>6, <2>8
<1> QED  BY <1>1, <1>2 DEF Next

(* The invariant holds of every reachable state, for every host and every
   pattern of sends that fail. *)
THEOREM Invariance == Spec => []IInv
<1>1. Init => IInv
  BY InitIInv
<1>2. IInv /\ [Next]_vars => IInv'
  BY NextIInv
<1> QED  BY <1>1, <1>2, PTL DEF Spec

(* Every variable keeps its type: handleMessage() and processQueue() meet no
   state and no message they have no case for (server.cpp:52-127, 137-187). *)
THEOREM TypeCorrect == Spec => []TypeOK
<1>1. IInv => TypeOK
  BY DEF IInv
<1> QED  BY <1>1, Invariance, PTL

(* No executor is left with a pointer to a stream that is gone, and no stream
   without its entry (server.cpp:206-212, 246-263). *)
THEOREM ExecutorsHaveStreams == Spec => []ExecutorsMatchStreams
<1>1. IInv => ExecutorsMatchStreams
  BY DEF IInv
<1> QED  BY <1>1, Invariance, PTL

(* Nothing the server has queued waits for the host to send something first,
   whatever fails in between (server.cpp:169-173). *)
THEOREM NothingIsLeftQueued == Spec => []QueueEmptyWhenConnected
<1>1. IInv => QueueEmptyWhenConnected
  BY DEF IInv
<1> QED  BY <1>1, Invariance, PTL

(* The Q_ASSERT of processQueue() before a Write is sent holds
   (server.cpp:166). *)
THEOREM AssertionHolds == Spec => [](assertsHold = TRUE)
<1>1. IInv => assertsHold = TRUE
  BY DEF IInv
<1> QED  BY <1>1, Invariance, PTL

(* No answer of an executor waits for a stream that the host has closed, and
   each one that waits carries the ids of its stream (server.cpp:235-244, 246-263). *)
THEOREM AnswersAreForStreams == Spec => []QueuedWritesMatchStreams
<1>1. IInv => QueuedWritesMatchStreams
  BY DEF IInv
<1> QED  BY <1>1, Invariance, PTL

(* The device never gives an id to a second stream, not after a refusal, a
   reset or a new connection either (server.cpp:206-212, 228-233). *)
THEOREM IdsAreNotReused == Spec => StreamIdsAreFresh
<1>1. IInv /\ [Next]_vars => [IdsStayFresh]_vars
  BY NextIInv
<1>2. [IdsStayFresh]_vars =>
          [/\ nextStreamId' >= nextStreamId
           /\ \A id \in DOMAIN streams' \ DOMAIN streams : id >= nextStreamId]_vars
  BY DEF IdsStayFresh
<1> QED  BY <1>1, <1>2, Invariance, PTL DEF Spec, StreamIdsAreFresh
=============================================================================
