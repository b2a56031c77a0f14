-------------------------- MODULE HostServerProofs --------------------------
(***************************************************************************)
(* Proofs about the host servers and their clients: whatever the clients   *)
(* ask for, in any number and at any time, a watch has been told what its  *)
(* server knows, a server that has said that it stops is out of reach, and *)
(* no client waits for a server that does not know it.                     *)
(***************************************************************************)
EXTENDS HostServer, FiniteSetTheorems, SequenceTheorems, QueuesProofs

Listings == [Devices -> Infos \cup {None}]

ResponseTypes ==
    {"devices", "new-device", "disconnected-device", "messages",
     "unsupported-version", "stopping"}

Responses ==
    [type : ResponseTypes,
     data : Listings \cup (Devices \X (Infos \cup {None})) \cup (Nat \X Nat) \cup {<<>>}]

ClientType ==
    [phase   : {"idle", "waiting", "asking", "watching", "ended"},
     command : Command,
     tried   : BOOLEAN,
     exit    : {None, 0, 1, 2},
     peer    : Servers \cup {None},
     printed : Seq(Responses)]

SocketType ==
    [request   : BOOLEAN,
     responses : Seq(Responses),
     watching  : {"nothing", "devices", "messages"},
     hungUp    : BOOLEAN]

ServerType ==
    [state    : {"none", "forked", "cleared", "up", "closing", "stopped"},
     pending  : Seq(Clients),
     servlets : Seq(Clients),
     stopper  : Clients \cup {None},
     listed   : Listings,
     cleared  : Nat,
     logged   : Nat]

Typed ==
    /\ client \in [Clients -> ClientType]
    /\ socket \in [Clients -> SocketType]
    /\ server \in [Servers -> ServerType]
    /\ path \in Servers \cup {None}

Serves(s, c) == \E i \in DOMAIN server[s].servlets : server[s].servlets[i] = c

Awaits(s, c) == \E i \in DOMAIN server[s].pending : server[s].pending[i] = c

(* Whoever a server knows is connected to it, and is known once. *)
KnownAreConnected ==
    \A s \in Servers, c \in Clients :
        Serves(s, c) \/ Awaits(s, c) =>
            client[c].peer = s /\ socket[c].hungUp = FALSE

KnownOnce ==
    \A s \in Servers :
        /\ \A c \in Clients : ~(Serves(s, c) /\ Awaits(s, c))
        /\ \A i, j \in DOMAIN server[s].pending :
               server[s].pending[i] = server[s].pending[j] => i = j

(* A client that has not connected yet has nothing to do with any server. *)
UnconnectedAreNew ==
    \A c \in Clients : client[c].phase \in {"idle", "waiting"} =>
        /\ client[c].peer = None /\ client[c].printed = <<>>
        /\ socket[c] = [request |-> FALSE, responses |-> <<>>,
                        watching |-> "nothing", hungUp |-> FALSE]

ExitsAtEnd ==
    \A c \in Clients : client[c].exit # None => client[c].phase = "ended"

(* Nothing is sent to a servlet's client before it watches. *)
NotWatchingNotTold ==
    \A c \in Clients :
        /\ socket[c].request = TRUE => socket[c].watching = "nothing"
        /\ socket[c].watching = "nothing" /\ socket[c].hungUp = FALSE =>
               client[c].printed = <<>> /\ socket[c].responses = <<>>

AwaitedAreNotWatching ==
    \A s \in Servers, c \in Clients :
        Awaits(s, c) => socket[c].watching = "nothing"

(* A server that has begun to close is out of reach, and stays so. *)
OutOfReach(s) ==
    s \in Servers /\ server[s].state \in {"closing", "stopped"} /\ path # s

ClosingIsOutOfReach ==
    \A s \in Servers : server[s].state = "closing" => path # s

ToldOfStop(c) ==
    \/ \E i \in DOMAIN socket[c].responses : socket[c].responses[i].type = "stopping"
    \/ Asks(c) = "stop-server" /\ client[c].exit = 0

StopIsTrue == \A c \in Clients : ToldOfStop(c) => OutOfReach(client[c].peer)

Told(c) == client[c].printed \o socket[c].responses

ToldOfDevices(c, s) ==
    socket[c].watching = "devices" => Describe(Told(c), server[s].listed)

ToldOfMessages(c, s) ==
    socket[c].watching = "messages" =>
        /\ Told(c) # <<>>
        /\ Adjoin(Told(c))
        /\ Told(c)[Len(Told(c))].data[2] = server[s].logged

ServedAreUpToDate ==
    \A s \in Servers, c \in Clients :
        Serves(s, c) /\ Runs(c) => ToldOfDevices(c, s) /\ ToldOfMessages(c, s)

IInv ==
    /\ Typed
    /\ KnownAreConnected
    /\ KnownOnce
    /\ UnconnectedAreNew
    /\ ExitsAtEnd
    /\ NotWatchingNotTold
    /\ AwaitedAreNotWatching
    /\ ClosingIsOutOfReach
    /\ StopIsTrue
    /\ ServedAreUpToDate
-----------------------------------------------------------------------------
(* A step in which servers at most get started. *)
StartsAtMost ==
    /\ server' \in [Servers -> ServerType]
    /\ \A s \in Servers :
          /\ server'[s].pending = server[s].pending
          /\ server'[s].servlets = server[s].servlets
          /\ server'[s].listed = server[s].listed
          /\ server'[s].logged = server[s].logged
          /\ \/ server'[s].state = server[s].state
             \/ server[s].state = "none" /\ server'[s].state = "forked"

(* A step in which c at most reads all that it has been sent. *)
ReadsAtMost(c) ==
    socket' = socket \/ socket' = [socket EXCEPT ![c].responses = <<>>]

(* Reading leaves a socket as it was but for what has been read. *)
LEMMA ReadsOnly ==
    ASSUME Typed, NEW c \in Clients, ReadsAtMost(c)
    PROVE  /\ socket' \in [Clients -> SocketType]
           /\ \A d \in Clients :
                 /\ d # c => socket'[d] = socket[d]
                 /\ socket'[d].request = socket[d].request
                 /\ socket'[d].watching = socket[d].watching
                 /\ socket'[d].hungUp = socket[d].hungUp
                 /\ socket'[d].responses = <<>> \/ socket'[d] = socket[d]
<1>1. <<>> \in Seq(Responses)
  OBVIOUS
<1>2. CASE socket' = socket
  BY <1>2 DEF Typed
<1>3. CASE socket' = [socket EXCEPT ![c].responses = <<>>]
  <2> DEFINE k == [socket[c] EXCEPT !.responses = <<>>]
  <2>1. socket[c] \in SocketType
    BY DEF Typed
  <2>2. /\ k \in SocketType /\ k.responses = <<>> /\ k.request = socket[c].request
        /\ k.watching = socket[c].watching /\ k.hungUp = socket[c].hungUp
    BY <2>1, <1>1 DEF SocketType
  <2>3. socket' = [socket EXCEPT ![c] = k]
    BY <1>3 DEF Typed
  <2> HIDE DEF k
  <2> QED  BY <2>2, <2>3 DEF Typed
<1> QED  BY <1>2, <1>3 DEF ReadsAtMost

(* Starting a server changes no server that runs. *)
LEMMA ForkStartsAtMost ==
    ASSUME Typed, ForkHostServer \/ UNCHANGED server
    PROVE  StartsAtMost
<1>1. CASE UNCHANGED server
  BY <1>1 DEF Typed, StartsAtMost, ServerType
<1>2. CASE ForkHostServer
  <2> DEFINE unused == {s \in Servers : server[s].state = "none"}
             new == CHOOSE t \in unused : TRUE
  <2>1. server' = [s \in Servers |->
            IF unused # {} /\ s = new
            THEN [server[s] EXCEPT !.state = "forked"] ELSE server[s]]
    BY <1>2 DEF ForkHostServer
  <2>2. unused # {} => new \in unused
    OBVIOUS
  <2>3. unused # {} => server[new].state = "none"
    BY <2>2
  <2> HIDE DEF unused, new
  <2>4. ASSUME NEW s \in Servers
        PROVE  /\ server'[s] \in ServerType
               /\ server'[s].pending = server[s].pending
               /\ server'[s].servlets = server[s].servlets
               /\ server'[s].listed = server[s].listed
               /\ server'[s].logged = server[s].logged
               /\ \/ server'[s].state = server[s].state
                  \/ server[s].state = "none" /\ server'[s].state = "forked"
    BY <2>1, <2>3 DEF Typed, ServerType
  <2> QED  BY <2>1, <2>4 DEF StartsAtMost
<1> QED  BY <1>1, <1>2

(* Who hears nothing while nothing changes is up to date. *)
LEMMA StillUpToDate ==
    ASSUME NEW s \in Servers, NEW d \in Clients,
           ToldOfDevices(d, s), ToldOfMessages(d, s),
           Told(d)' = Told(d), socket'[d].watching = socket[d].watching,
           server'[s].listed = server[s].listed, server'[s].logged = server[s].logged
    PROVE  ToldOfDevices(d, s)' /\ ToldOfMessages(d, s)'
<1>1. ToldOfDevices(d, s)'
  BY DEF ToldOfDevices, Describe
<1>2. ToldOfMessages(d, s)'
  BY DEF ToldOfMessages, Adjoin
<1> QED  BY <1>1, <1>2

(* What a client prints before it ends does not matter, as long as success
   of a stop is true. *)
LEMMA ExitsIInv ==
    ASSUME IInv, StartsAtMost, UNCHANGED path,
           NEW c \in Clients, ReadsAtMost(c), NEW code \in {0, 1, 2}, Exits(c, code),
           Asks(c) = "stop-server" /\ code = 0 => OutOfReach(client[c].peer)
    PROVE  IInv'
<1> USE DEF IInv
<1>1. /\ client' \in [Clients -> ClientType]
      /\ \A d \in Clients :
            /\ client'[d].peer = client[d].peer
            /\ client'[d].command = client[d].command
            /\ d # c => client'[d] = client[d]
      /\ client'[c].printed = <<>>
      /\ client'[c].phase = "ended"
      /\ client'[c].exit = code
  <2> DEFINE k == [client[c] EXCEPT !.printed = <<>>, !.phase = "ended", !.exit = code]
  <2>1. client[c] \in ClientType
    BY DEF Typed
  <2>2. /\ k \in ClientType
        /\ k.peer = client[c].peer /\ k.command = client[c].command
        /\ k.printed = <<>> /\ k.phase = "ended" /\ k.exit = code
    <3>1. <<>> \in Seq(Responses) /\ code \in {None, 0, 1, 2}
      OBVIOUS
    <3> QED  BY <2>1, <3>1 DEF ClientType
  <2>3. client' = [client EXCEPT ![c] = k]
    BY <2>1 DEF Exits, Typed, ClientType
  <2> HIDE DEF k
  <2> QED  BY <2>2, <2>3 DEF Typed
<1>s. /\ socket' \in [Clients -> SocketType]
      /\ \A d \in Clients :
            /\ d # c => socket'[d] = socket[d]
            /\ socket'[d].request = socket[d].request
            /\ socket'[d].watching = socket[d].watching
            /\ socket'[d].hungUp = socket[d].hungUp
            /\ socket'[d].responses = <<>> \/ socket'[d] = socket[d]
  BY ReadsOnly
<1>2. Typed'
  BY <1>1, <1>s DEF Typed, StartsAtMost
<1>3. \A s \in Servers, d \in Clients :
         (Serves(s, d)' <=> Serves(s, d)) /\ (Awaits(s, d)' <=> Awaits(s, d))
  BY DEF StartsAtMost, Serves, Awaits
<1>4. KnownAreConnected'
  BY <1>1, <1>s, <1>3 DEF KnownAreConnected
<1>5. KnownOnce'
  BY <1>3 DEF KnownOnce, StartsAtMost
<1>6. UnconnectedAreNew'
  BY <1>1, <1>s DEF UnconnectedAreNew
<1>7. ExitsAtEnd'
  BY <1>1 DEF ExitsAtEnd
<1>8. NotWatchingNotTold'
  BY <1>1, <1>s DEF NotWatchingNotTold
<1>9. AwaitedAreNotWatching'
  BY <1>3, <1>s DEF AwaitedAreNotWatching
<1>10. ClosingIsOutOfReach'
  BY DEF ClosingIsOutOfReach, StartsAtMost
<1>11. \A s : OutOfReach(s) => OutOfReach(s)'
  BY DEF OutOfReach, StartsAtMost
<1>12. StopIsTrue'
  BY <1>1, <1>s, <1>11 DEF StopIsTrue, ToldOfStop, Asks
<1>13. ServedAreUpToDate'
  <2>1. ASSUME NEW s \in Servers, NEW d \in Clients, Serves(s, d)', Runs(d)'
        PROVE  ToldOfDevices(d, s)' /\ ToldOfMessages(d, s)'
    <3>1. d # c /\ Runs(d) /\ Serves(s, d)
      BY <1>1, <1>3, <2>1 DEF Runs
    <3>2. ToldOfDevices(d, s) /\ ToldOfMessages(d, s)
      BY <3>1 DEF ServedAreUpToDate
    <3>3. Told(d)' = Told(d)
      BY <3>1, <1>1, <1>s DEF Told
    <3>w. socket'[d] = socket[d]
      BY <3>1, <1>s
    <3> QED  BY <3>2, <3>3, <3>w, StillUpToDate DEF StartsAtMost
  <2> QED  BY <2>1 DEF ServedAreUpToDate
<1> QED  BY <1>2, <1>4, <1>5, <1>6, <1>7, <1>8, <1>9, <1>10, <1>12, <1>13

(* A client that waits for the server it has started is still new. *)
LEMMA WaitsIInv ==
    ASSUME IInv, StartsAtMost, UNCHANGED <<socket, path>>,
           NEW c \in Clients, client[c].phase \in {"idle", "waiting"},
           client' = [client EXCEPT ![c].tried = TRUE, ![c].phase = "waiting"]
    PROVE  IInv'
<1> USE DEF IInv
<1>1. /\ client' \in [Clients -> ClientType]
      /\ \A d \in Clients :
            /\ client'[d].peer = client[d].peer
            /\ client'[d].command = client[d].command
            /\ client'[d].exit = client[d].exit
            /\ client'[d].printed = client[d].printed
            /\ d # c => client'[d] = client[d]
      /\ client'[c].phase = "waiting"
  <2> DEFINE k == [client[c] EXCEPT !.tried = TRUE, !.phase = "waiting"]
  <2>1. client[c] \in ClientType
    BY DEF Typed
  <2>2. /\ k \in ClientType
        /\ k.peer = client[c].peer /\ k.command = client[c].command
        /\ k.printed = client[c].printed /\ k.phase = "waiting"
        /\ k.exit = client[c].exit
    BY <2>1 DEF ClientType
  <2>3. client' = [client EXCEPT ![c] = k]
    BY <2>1 DEF Typed, ClientType
  <2> HIDE DEF k
  <2> QED  BY <2>2, <2>3 DEF Typed
<1>2. Typed'
  BY <1>1 DEF Typed, StartsAtMost
<1>3. \A s \in Servers, d \in Clients :
         (Serves(s, d)' <=> Serves(s, d)) /\ (Awaits(s, d)' <=> Awaits(s, d))
  BY DEF StartsAtMost, Serves, Awaits
<1>4. KnownAreConnected'
  BY <1>1, <1>3 DEF KnownAreConnected
<1>5. KnownOnce'
  BY <1>3 DEF KnownOnce, StartsAtMost
<1>6. UnconnectedAreNew'
  BY <1>1 DEF UnconnectedAreNew
<1>7. ExitsAtEnd'
  BY <1>1 DEF ExitsAtEnd
<1>8. NotWatchingNotTold'
  BY <1>1 DEF NotWatchingNotTold
<1>9. AwaitedAreNotWatching'
  BY <1>3 DEF AwaitedAreNotWatching
<1>10. ClosingIsOutOfReach'
  BY DEF ClosingIsOutOfReach, StartsAtMost
<1>11. \A s : OutOfReach(s) => OutOfReach(s)'
  BY DEF OutOfReach, StartsAtMost
<1>12. StopIsTrue'
  BY <1>1, <1>11 DEF StopIsTrue, ToldOfStop, Asks
<1>13. ServedAreUpToDate'
  <2>1. ASSUME NEW s \in Servers, NEW d \in Clients, Serves(s, d)', Runs(d)'
        PROVE  ToldOfDevices(d, s)' /\ ToldOfMessages(d, s)'
    <3>1. Serves(s, d) /\ client[d].peer = s
      BY <1>3, <2>1 DEF KnownAreConnected
    <3>2. d # c
      BY <3>1, ProcessesAssumption DEF UnconnectedAreNew
    <3>3. Runs(d)
      BY <3>2, <1>1, <2>1 DEF Runs
    <3>4. ToldOfDevices(d, s) /\ ToldOfMessages(d, s)
      BY <3>1, <3>3 DEF ServedAreUpToDate
    <3>5. Told(d)' = Told(d)
      BY <1>1 DEF Told
    <3> QED  BY <3>4, <3>5, StillUpToDate DEF StartsAtMost
  <2> QED  BY <2>1 DEF ServedAreUpToDate
<1> QED  BY <1>2, <1>4, <1>5, <1>6, <1>7, <1>8, <1>9, <1>10, <1>12, <1>13

(* Appending to a list of clients. *)
LEMMA AppendClient ==
    ASSUME NEW q \in Seq(Clients), NEW c \in Clients
    PROVE  /\ Append(q, c) \in Seq(Clients)
           /\ DOMAIN Append(q, c) = DOMAIN q \cup {Len(q) + 1}
           /\ Len(q) + 1 \notin DOMAIN q
           /\ \A i \in DOMAIN q : Append(q, c)[i] = q[i]
           /\ Append(q, c)[Len(q) + 1] = c
OBVIOUS

(* A connection reaches a server that is up, and takes its place there. *)
LEMMA ConnectsIInv ==
    ASSUME IInv, NEW c \in Clients, client[c].phase \in {"idle", "waiting"},
           path # None, server[path].state = "up", SetupSocketAndConnect(c),
           UNCHANGED path
    PROVE  IInv'
<1> USE DEF IInv
<1> DEFINE phase == IF Watches(c) THEN "watching" ELSE "asking"
<1>1. /\ path \in Servers
      /\ client[c] \in ClientType /\ socket[c] \in SocketType
      /\ server[path] \in ServerType /\ server[path].pending \in Seq(Clients)
  BY DEF Typed, ServerType
<1>2. /\ client' = [client EXCEPT ![c].peer = path, ![c].phase = phase]
      /\ socket' = [socket EXCEPT ![c].request = TRUE]
      /\ server' = [server EXCEPT ![path].pending = Append(server[path].pending, c)]
  BY DEF SetupSocketAndConnect
<1>3. /\ client' \in [Clients -> ClientType]
      /\ \A d \in Clients : d # c => client'[d] = client[d]
      /\ client'[c].peer = path
      /\ client'[c].phase \in {"watching", "asking"}
      /\ client'[c].exit = client[c].exit
      /\ client'[c].command = client[c].command
      /\ client'[c].printed = client[c].printed
  <2> DEFINE k == [client[c] EXCEPT !.peer = path, !.phase = phase]
  <2>1. /\ k \in ClientType
        /\ k.peer = path /\ k.command = client[c].command
        /\ k.printed = client[c].printed /\ k.phase \in {"watching", "asking"}
        /\ k.exit = client[c].exit
    BY <1>1 DEF ClientType
  <2>2. client' = [client EXCEPT ![c] = k]
    BY <1>1, <1>2 DEF Typed, ClientType
  <2> HIDE DEF k
  <2> QED  BY <2>1, <2>2 DEF Typed
<1>4. /\ socket' \in [Clients -> SocketType]
      /\ \A d \in Clients : d # c => socket'[d] = socket[d]
      /\ socket'[c].responses = <<>> /\ socket'[c].watching = "nothing"
      /\ socket'[c].hungUp = FALSE
  <2> DEFINE k == [socket[c] EXCEPT !.request = TRUE]
  <2>1. k \in SocketType /\ k.responses = <<>> /\ k.watching = "nothing" /\ k.hungUp = FALSE
    <3>1. socket[c].responses = <<>> /\ socket[c].watching = "nothing" /\ socket[c].hungUp = FALSE
      BY DEF UnconnectedAreNew
    <3> QED  BY <3>1, <1>1 DEF SocketType
  <2>2. socket' = [socket EXCEPT ![c] = k]
    BY <1>2 DEF Typed
  <2> HIDE DEF k
  <2> QED  BY <2>1, <2>2 DEF Typed
<1>5. /\ server' \in [Servers -> ServerType]
      /\ \A s \in Servers : s # path => server'[s] = server[s]
      /\ server'[path].pending = Append(server[path].pending, c)
      /\ server'[path].state = "up"
      /\ server'[path].servlets = server[path].servlets
      /\ server'[path].listed = server[path].listed
      /\ server'[path].logged = server[path].logged
  <2> DEFINE k == [server[path] EXCEPT !.pending = Append(server[path].pending, c)]
  <2>1. Append(server[path].pending, c) \in Seq(Clients)
    BY <1>1
  <2>2. /\ k \in ServerType /\ k.pending = Append(server[path].pending, c)
        /\ k.state = server[path].state /\ k.servlets = server[path].servlets
        /\ k.listed = server[path].listed /\ k.logged = server[path].logged
    BY <2>1, <1>1 DEF ServerType
  <2>3. server' = [server EXCEPT ![path] = k]
    BY <1>2
  <2> HIDE DEF k
  <2> QED  BY <1>1, <2>2, <2>3 DEF Typed
<1>6. /\ client[c].peer = None /\ client[c].exit = None
      /\ client[c].printed = <<>>
  BY DEF UnconnectedAreNew, ExitsAtEnd
<1>7. \A s \in Servers : ~Serves(s, c) /\ ~Awaits(s, c)
  BY <1>6, ProcessesAssumption DEF KnownAreConnected
<1>8. \A s \in Servers, d \in Clients :
         /\ Serves(s, d)' <=> Serves(s, d)
         /\ Awaits(s, d)' <=> Awaits(s, d) \/ (s = path /\ d = c)
  <2>1. ASSUME NEW s \in Servers, NEW d \in Clients
        PROVE  Serves(s, d)' <=> Serves(s, d)
    BY <1>5 DEF Serves
  <2>2. ASSUME NEW s \in Servers, NEW d \in Clients, s # path
        PROVE  Awaits(s, d)' <=> Awaits(s, d)
    BY <1>5, <2>2 DEF Awaits
  <2>3. ASSUME NEW d \in Clients
        PROVE  Awaits(path, d)' <=> Awaits(path, d) \/ d = c
    <3> DEFINE q == server[path].pending
    <3>1. /\ server'[path].pending = Append(q, c)
          /\ DOMAIN Append(q, c) = DOMAIN q \cup {Len(q) + 1}
          /\ \A i \in DOMAIN q : Append(q, c)[i] = q[i]
          /\ Append(q, c)[Len(q) + 1] = c
      BY <1>1, <1>5, AppendClient
    <3>2. /\ Awaits(path, d)' <=> \E i \in DOMAIN Append(q, c) : Append(q, c)[i] = d
          /\ Awaits(path, d) <=> \E i \in DOMAIN q : q[i] = d
      BY <3>1 DEF Awaits
    <3> HIDE DEF q
    <3> QED  BY <3>1, <3>2
  <2> QED  BY <2>1, <2>2, <2>3
<1>9. Typed'
  BY <1>3, <1>4, <1>5 DEF Typed
<1>10. KnownAreConnected'
  <2>1. ASSUME NEW s \in Servers, NEW d \in Clients, (Serves(s, d) \/ Awaits(s, d))'
        PROVE  client'[d].peer = s /\ socket'[d].hungUp = FALSE
    <3>1. CASE d = c
      BY <3>1, <2>1, <1>7, <1>8, <1>3, <1>4
    <3>2. CASE d # c
      BY <3>2, <2>1, <1>8, <1>3, <1>4 DEF KnownAreConnected
    <3> QED  BY <3>1, <3>2
  <2> QED  BY <2>1 DEF KnownAreConnected
<1>11. KnownOnce'
  <2>1. ASSUME NEW s \in Servers, NEW d \in Clients
        PROVE  ~(Serves(s, d) /\ Awaits(s, d))'
    BY <1>7, <1>8 DEF KnownOnce
  <2>2. ASSUME NEW s \in Servers, s # path,
               NEW i \in DOMAIN server'[s].pending, NEW j \in DOMAIN server'[s].pending,
               server'[s].pending[i] = server'[s].pending[j]
        PROVE  i = j
    BY <2>2, <1>5 DEF KnownOnce
  <2>3. ASSUME NEW i \in DOMAIN server'[path].pending, NEW j \in DOMAIN server'[path].pending,
               server'[path].pending[i] = server'[path].pending[j]
        PROVE  i = j
    <3> DEFINE q == server[path].pending
    <3>1. /\ i \in DOMAIN q \cup {Len(q) + 1} /\ j \in DOMAIN q \cup {Len(q) + 1}
          /\ Append(q, c)[i] = Append(q, c)[j]
          /\ \A k \in DOMAIN q : Append(q, c)[k] = q[k]
          /\ Append(q, c)[Len(q) + 1] = c
      BY <2>3, <1>1, <1>5, AppendClient
    <3>2. \A k \in DOMAIN q : q[k] # c
      BY <1>1, <1>7 DEF Awaits
    <3>3. \A k, l \in DOMAIN q : q[k] = q[l] => k = l
      BY <1>1 DEF KnownOnce
    <3> HIDE DEF q
    <3> QED  BY <3>1, <3>2, <3>3
  <2> QED  BY <2>1, <2>2, <2>3 DEF KnownOnce
<1>12. UnconnectedAreNew'
  BY <1>3, <1>4 DEF UnconnectedAreNew
<1>13. ExitsAtEnd'
  BY <1>3, <1>6 DEF ExitsAtEnd
<1>14. NotWatchingNotTold'
  BY <1>3, <1>4, <1>6 DEF NotWatchingNotTold
<1>15. AwaitedAreNotWatching'
  BY <1>4, <1>8 DEF AwaitedAreNotWatching
<1>16. ClosingIsOutOfReach'
  BY <1>5 DEF ClosingIsOutOfReach
<1>17. StopIsTrue'
  <2>1. \A s : OutOfReach(s) => OutOfReach(s)'
    BY <1>5 DEF OutOfReach
  <2>2. ASSUME NEW d \in Clients, ToldOfStop(d)'
        PROVE  d # c /\ ToldOfStop(d) /\ client'[d].peer = client[d].peer
    <3>1. ~ToldOfStop(c)'
      BY <1>3, <1>4, <1>6, ProcessesAssumption DEF ToldOfStop
    <3> QED  BY <3>1, <2>2, <1>3, <1>4 DEF ToldOfStop, Asks
  <2> QED  BY <2>1, <2>2 DEF StopIsTrue
<1>18. ServedAreUpToDate'
  <2>1. ASSUME NEW s \in Servers, NEW d \in Clients, Serves(s, d)', Runs(d)'
        PROVE  ToldOfDevices(d, s)' /\ ToldOfMessages(d, s)'
    <3>1. Serves(s, d) /\ d # c
      BY <1>7, <1>8, <2>1
    <3>2. client'[d] = client[d] /\ socket'[d] = socket[d]
      BY <3>1, <1>3, <1>4
    <3>3. Runs(d) /\ Told(d)' = Told(d)
      BY <3>2, <2>1 DEF Runs, Told
    <3>4. ToldOfDevices(d, s) /\ ToldOfMessages(d, s)
      BY <3>1, <3>3 DEF ServedAreUpToDate
    <3>5. server'[s].listed = server[s].listed /\ server'[s].logged = server[s].logged
      BY <1>5
    <3> QED  BY <3>2, <3>3, <3>4, <3>5, StillUpToDate
  <2> QED  BY <2>1 DEF ServedAreUpToDate
<1> QED  BY <1>9, <1>10, <1>11, <1>12, <1>13, <1>14, <1>15, <1>16, <1>17, <1>18

(* A client connects, gives up or starts a server. *)
LEMMA SetupIInv ==
    ASSUME IInv, NEW c \in Clients, client[c].phase \in {"idle", "waiting"},
           SetupSocketAndConnect(c), UNCHANGED path
    PROVE  IInv'
<1>1. CASE path # None /\ server[path].state = "up"
  BY <1>1, ConnectsIInv
<1>2. CASE ~(path # None /\ server[path].state = "up")
  <2>1. UNCHANGED socket /\ ReadsAtMost(c)
    BY <1>2 DEF SetupSocketAndConnect, ReadsAtMost
  <2>2. StartsAtMost
    BY <1>2, ForkStartsAtMost
       DEF SetupSocketAndConnect, HandleStopError, HandleErrorWithRetry, IInv
  <2>3. CASE Exits(c, 1)
    BY <2>1, <2>2, <2>3, ExitsIInv
  <2>4. CASE client' = [client EXCEPT ![c].tried = TRUE, ![c].phase = "waiting"]
    BY <2>1, <2>2, <2>4, WaitsIInv
  <2> QED
    BY <1>2, <2>3, <2>4 DEF SetupSocketAndConnect, HandleStopError, HandleErrorWithRetry
<1> QED  BY <1>1, <1>2

(* The first attempt of a client. *)
LEMMA ExecClientIInv ==
    ASSUME IInv, NEW c \in Clients, ExecClient(c)
    PROVE  IInv'
<1>1. CASE Asks(c) = "start-server"
  <2>1. StartsAtMost /\ ReadsAtMost(c) /\ Exits(c, 0) /\ UNCHANGED path
    BY <1>1, ForkStartsAtMost DEF ExecClient, ReadsAtMost, IInv
  <2> QED  BY <1>1, <2>1, ExitsIInv
<1>2. CASE Asks(c) # "start-server"
  BY <1>2, SetupIInv DEF ExecClient
<1> QED  BY <1>1, <1>2

(* Its second attempt. *)
LEMMA RetryIInv ==
    ASSUME IInv, NEW c \in Clients, Retry(c)
    PROVE  IInv'
BY SetupIInv DEF Retry

(* A client ends, for whatever reason but the answer to a stop. *)
LEMMA FailsIInv ==
    ASSUME IInv, NEW c \in Clients, GivesUp(c) \/ AnswerTimesOut(c) \/ KillClient(c)
    PROVE  IInv'
<1>1. StartsAtMost /\ ReadsAtMost(c) /\ UNCHANGED path
  BY ForkStartsAtMost DEF GivesUp, AnswerTimesOut, KillClient, ReadsAtMost, IInv
<1>2. Exits(c, 1) \/ Exits(c, 2)
  BY DEF GivesUp, AnswerTimesOut, KillClient
<1> QED  BY <1>1, <1>2, ExitsIInv

(* A client ends with the first answer; to a stop, only the truth lets it succeed. *)
LEMMA HandleResponseIInv ==
    ASSUME IInv, NEW c \in Clients, HandleResponse(c)
    PROVE  IInv'
<1> DEFINE type == Head(socket[c].responses).type
           code == IF Asks(c) = "stop-server" /\ type # "stopping" THEN 1 ELSE 0
<1>1. StartsAtMost /\ ReadsAtMost(c) /\ UNCHANGED path
  BY ForkStartsAtMost DEF HandleResponse, ReadsAtMost, IInv
<1>2. Exits(c, code)
  BY DEF HandleResponse
<1>3. ASSUME Asks(c) = "stop-server", code = 0
      PROVE  OutOfReach(client[c].peer)
  <2>1. type = "stopping"
    BY <1>3
  <2>2. socket[c].responses \in Seq(Responses) /\ socket[c].responses # <<>>
    BY DEF IInv, Typed, SocketType, HandleResponse
  <2>3. 1 \in DOMAIN socket[c].responses /\ socket[c].responses[1].type = "stopping"
    BY <2>1, <2>2
  <2> QED  BY <2>3 DEF IInv, StopIsTrue, ToldOfStop
<1>4. code \in {0, 1, 2}
  OBVIOUS
<1> HIDE DEF code
<1> QED  BY <1>1, <1>2, <1>3, <1>4, ExitsIInv

(* What a watch prints it has been told all the same. *)
LEMMA HandleWatchMessageIInv ==
    ASSUME IInv, NEW c \in Clients, HandleWatchMessage(c)
    PROVE  IInv'
<1> USE DEF IInv
<1> DEFINE responses == socket[c].responses
           printed == client[c].printed \o responses
           expected  == \A i \in DOMAIN responses : responses[i].type \in WatchedTypes(c)
<1>1. /\ socket' = [socket EXCEPT ![c].responses = <<>>]
      /\ IF expected THEN client' = [client EXCEPT ![c].printed = @ \o responses]
                     ELSE Exits(c, 1)
      /\ UNCHANGED <<server, path>>
      /\ client[c].phase = "watching" /\ responses # <<>>
  BY DEF HandleWatchMessage
<1>2. StartsAtMost /\ ReadsAtMost(c)
  BY <1>1, ForkStartsAtMost DEF ReadsAtMost
<1>3. CASE ~expected
  BY <1>1, <1>2, <1>3, ExitsIInv
<1>4. CASE expected
  <2>1. client[c] \in ClientType /\ socket[c] \in SocketType
    BY DEF Typed
  <2>2. /\ responses \in Seq(Responses) /\ client[c].printed \in Seq(Responses)
        /\ printed \in Seq(Responses)
        /\ printed \o <<>> = printed
    <3>1. responses \in Seq(Responses) /\ client[c].printed \in Seq(Responses)
      BY <2>1 DEF ClientType, SocketType
    <3>2. printed \in Seq(Responses)
      BY <3>1
    <3>3. printed \o <<>> = printed
      BY <3>2, ConcatEmptySeq
    <3> QED  BY <3>1, <3>2, <3>3
  <2>3. /\ client' \in [Clients -> ClientType]
        /\ \A d \in Clients :
              /\ client'[d].peer = client[d].peer
              /\ client'[d].command = client[d].command
              /\ client'[d].exit = client[d].exit
              /\ client'[d].phase = client[d].phase
              /\ d # c => client'[d] = client[d]
        /\ client'[c].printed = printed
    <3> DEFINE k == [client[c] EXCEPT !.printed = printed]
    <3>1. client' = [client EXCEPT ![c] = k]
      BY <1>1, <1>4, <2>1 DEF Typed, ClientType
    <3> HIDE DEF printed
    <3>2. /\ k \in ClientType
          /\ k.peer = client[c].peer /\ k.command = client[c].command
          /\ k.printed = printed /\ k.phase = client[c].phase
          /\ k.exit = client[c].exit
      BY <2>1, <2>2 DEF ClientType
    <3> HIDE DEF k
    <3> QED  BY <3>1, <3>2 DEF Typed
  <2> HIDE DEF printed
  <2>4. /\ socket' \in [Clients -> SocketType]
        /\ \A d \in Clients :
              /\ d # c => socket'[d] = socket[d]
              /\ socket'[d].request = socket[d].request
              /\ socket'[d].watching = socket[d].watching
              /\ socket'[d].hungUp = socket[d].hungUp
              /\ socket'[d].responses = <<>> \/ socket'[d] = socket[d]
        /\ socket'[c].responses = <<>>
    <3>1. socket'[c].responses = <<>>
      BY <1>1, <2>1 DEF Typed, SocketType
    <3> QED  BY <1>2, <3>1, ReadsOnly
  <2>5. Typed'
    BY <1>1, <2>3, <2>4 DEF Typed
  <2>6. \A s \in Servers, d \in Clients :
           (Serves(s, d)' <=> Serves(s, d)) /\ (Awaits(s, d)' <=> Awaits(s, d))
    BY <1>1 DEF Serves, Awaits
  <2>7. KnownAreConnected'
    BY <2>3, <2>4, <2>6 DEF KnownAreConnected
  <2>8. KnownOnce'
    BY <1>1, <2>6 DEF KnownOnce
  <2>9. UnconnectedAreNew'
    <3>1. client'[c].phase = "watching"
      BY <1>1, <2>3
    <3>2. \A d \in Clients \ {c} : client'[d] = client[d] /\ socket'[d] = socket[d]
      BY <2>3, <2>4
    <3> QED  BY <3>1, <3>2 DEF UnconnectedAreNew
  <2>10. ExitsAtEnd'
    BY <2>3 DEF ExitsAtEnd
  <2>11. NotWatchingNotTold'
    BY <1>1, <2>3, <2>4 DEF NotWatchingNotTold
  <2>12. AwaitedAreNotWatching'
    BY <2>4, <2>6 DEF AwaitedAreNotWatching
  <2>13. ClosingIsOutOfReach'
    BY <1>1 DEF ClosingIsOutOfReach
  <2>14. StopIsTrue'
    <3>1. \A s : OutOfReach(s) => OutOfReach(s)'
      BY <1>1 DEF OutOfReach
    <3> QED  BY <2>3, <2>4, <3>1 DEF StopIsTrue, ToldOfStop, Asks
  <2>15. ServedAreUpToDate'
    <3>1. ASSUME NEW s \in Servers, NEW d \in Clients, Serves(s, d)', Runs(d)'
          PROVE  ToldOfDevices(d, s)' /\ ToldOfMessages(d, s)'
      <4>1. Serves(s, d) /\ Runs(d)
        BY <2>3, <2>6, <3>1 DEF Runs
      <4>2. ToldOfDevices(d, s) /\ ToldOfMessages(d, s)
        BY <4>1 DEF ServedAreUpToDate
      <4>3. CASE d # c
        <5>1. Told(d)' = Told(d)
          BY <4>3, <2>3, <2>4 DEF Told
        <5> QED  BY <5>1, <4>2, <1>1, <2>4, StillUpToDate
      <4>4. CASE d = c
        <5>1. Told(c)' = client'[c].printed \o socket'[c].responses
          BY DEF Told
        <5>2. Told(c)' = printed
          BY <5>1, <2>2, <2>3, <2>4
        <5>3. printed = Told(c)
          BY DEF Told, printed
        <5> QED  BY <4>4, <5>2, <5>3, <4>2, <1>1, <2>4, StillUpToDate
      <4> QED  BY <4>3, <4>4
    <3> QED  BY <3>1 DEF ServedAreUpToDate
  <2> QED  BY <2>5, <2>7, <2>8, <2>9, <2>10, <2>11, <2>12, <2>13, <2>14, <2>15
<1> QED  BY <1>3, <1>4
-----------------------------------------------------------------------------
(* What a step of a server may do to the socket of a client: nothing, write
   to one that watches, begin to serve its watch, or hang up. *)
Written(d) ==
    /\ socket[d].watching # "nothing"
    /\ socket'[d].watching = socket[d].watching
    /\ socket'[d].request = socket[d].request
    /\ socket'[d].hungUp = socket[d].hungUp

Begins(d) ==
    /\ client[d].peer # None
    /\ \A t \in Servers : ~Awaits(t, d)'
    /\ socket'[d].watching # "nothing"
    /\ socket'[d].request = FALSE
    /\ socket'[d].hungUp = socket[d].hungUp

LetGo(d) ==
    /\ client[d].peer # None
    /\ \A t \in Servers : ~Serves(t, d)' /\ ~Awaits(t, d)'
    /\ socket'[d].request = FALSE
    /\ socket'[d].hungUp = TRUE

(* A server forgets clients, or goes on to serve one that waits. *)
KnowsNoMore ==
    \A t \in Servers, d \in Clients :
        /\ Awaits(t, d)' => Awaits(t, d)
        /\ Serves(t, d)' => Serves(t, d) \/ Awaits(t, d)

StoppedStayStopped ==
    \A t \in Servers :
        /\ OutOfReach(t) => OutOfReach(t)'
        /\ server'[t].state = "closing" => path' # t

SaysStopping(d) ==
    \E i \in DOMAIN socket[d].responses : socket[d].responses[i].type = "stopping"

(* What every step of a server comes down to: each client keeps its socket, is
   written to, begins to watch or is let go, and whoever is still served has
   been told of what has changed. *)
LEMMA ServerStepIInv ==
    ASSUME IInv, Typed', UNCHANGED client, KnowsNoMore, KnownOnce', StoppedStayStopped,
           \A d \in Clients : \/ socket'[d] = socket[d]
                              \/ Written(d) \/ Begins(d) \/ LetGo(d),
           \A d \in Clients : SaysStopping(d)' =>
               SaysStopping(d) \/ (client[d].peer \in Servers /\ OutOfReach(client[d].peer)'),
           \A t \in Servers, d \in Clients : Serves(t, d)' /\ Runs(d) =>
               \/ /\ Serves(t, d) /\ socket'[d] = socket[d]
                  /\ server'[t].listed = server[t].listed
                  /\ server'[t].logged = server[t].logged
               \/ ToldOfDevices(d, t)' /\ ToldOfMessages(d, t)'
    PROVE  IInv'
<1> USE DEF IInv
<1>1. KnownAreConnected'
  <2>1. ASSUME NEW t \in Servers, NEW d \in Clients, (Serves(t, d) \/ Awaits(t, d))'
        PROVE  client'[d].peer = t /\ socket'[d].hungUp = FALSE
    <3>1. Serves(t, d) \/ Awaits(t, d)
      BY <2>1 DEF KnowsNoMore
    <3>2. client[d].peer = t /\ socket[d].hungUp = FALSE
      BY <3>1 DEF KnownAreConnected
    <3>3. ~LetGo(d)
      BY <2>1 DEF LetGo
    <3> QED  BY <3>2, <3>3 DEF Written, Begins
  <2> QED  BY <2>1 DEF KnownAreConnected
<1>2. UnconnectedAreNew'
  <2>1. ASSUME NEW d \in Clients, client[d].phase \in {"idle", "waiting"}
        PROVE  socket'[d] = socket[d]
    <3>1. client[d].peer = None
      BY <2>1 DEF UnconnectedAreNew
    <3>2. socket[d] = [request |-> FALSE, responses |-> <<>>,
                       watching |-> "nothing", hungUp |-> FALSE]
      BY <2>1 DEF UnconnectedAreNew
    <3>3. ~Written(d) /\ ~Begins(d) /\ ~LetGo(d)
      BY <3>1, <3>2 DEF Written, Begins, LetGo
    <3> QED  BY <3>3
  <2> QED  BY <2>1 DEF UnconnectedAreNew
<1>3. ExitsAtEnd'
  BY DEF ExitsAtEnd
<1>4. NotWatchingNotTold'
  BY DEF NotWatchingNotTold, Written, Begins, LetGo
<1>5. AwaitedAreNotWatching'
  <2>1. ASSUME NEW t \in Servers, NEW d \in Clients, Awaits(t, d)'
        PROVE  socket'[d].watching = "nothing"
    <3>1. Awaits(t, d) /\ ~LetGo(d) /\ ~Begins(d)
      BY <2>1 DEF KnowsNoMore, LetGo, Begins
    <3> QED  BY <3>1 DEF Written, AwaitedAreNotWatching
  <2> QED  BY <2>1 DEF AwaitedAreNotWatching
<1>6. ClosingIsOutOfReach'
  BY DEF ClosingIsOutOfReach, StoppedStayStopped
<1>7. StopIsTrue'
  <2>1. ASSUME NEW d \in Clients, ToldOfStop(d)'
        PROVE  OutOfReach(client[d].peer)'
    <3>1. SaysStopping(d)' \/ (Asks(d) = "stop-server" /\ client[d].exit = 0)
      BY <2>1 DEF ToldOfStop, SaysStopping, Asks
    <3>2. ToldOfStop(d) \/ (client[d].peer \in Servers /\ OutOfReach(client[d].peer)')
      BY <3>1 DEF ToldOfStop, SaysStopping
    <3>3. ToldOfStop(d) => OutOfReach(client[d].peer)
      BY DEF StopIsTrue
    <3>4. OutOfReach(client[d].peer) => OutOfReach(client[d].peer)'
      BY DEF StoppedStayStopped, OutOfReach
    <3> QED  BY <3>2, <3>3, <3>4
  <2> QED  BY <2>1 DEF StopIsTrue
<1>8. ServedAreUpToDate'
  <2>1. ASSUME NEW t \in Servers, NEW d \in Clients, Serves(t, d)', Runs(d)'
        PROVE  ToldOfDevices(d, t)' /\ ToldOfMessages(d, t)'
    <3>1. Runs(d)
      BY <2>1 DEF Runs
    <3>2. CASE /\ Serves(t, d) /\ socket'[d] = socket[d]
               /\ server'[t].listed = server[t].listed
               /\ server'[t].logged = server[t].logged
      <4>1. ToldOfDevices(d, t) /\ ToldOfMessages(d, t)
        BY <3>1, <3>2 DEF ServedAreUpToDate
      <4>2. Told(d)' = Told(d)
        BY <3>2 DEF Told
      <4> QED  BY <3>2, <4>1, <4>2, StillUpToDate
    <3> QED  BY <3>1, <3>2, <2>1
  <2> QED  BY <2>1 DEF ServedAreUpToDate
<1> QED  BY <1>1, <1>2, <1>3, <1>4, <1>5, <1>6, <1>7, <1>8

(* A server changes its state only, or is gone with no client left. *)
LEMMA StatesIInv ==
    ASSUME IInv, Typed', UNCHANGED <<client, socket>>, StoppedStayStopped,
           \A t \in Servers :
              \/ /\ server'[t].pending = server[t].pending
                 /\ server'[t].servlets = server[t].servlets
                 /\ server'[t].listed = server[t].listed
                 /\ server'[t].logged = server[t].logged
              \/ server'[t].pending = <<>> /\ server'[t].servlets = <<>>
    PROVE  IInv'
<1>1. \A t \in Servers, d \in Clients :
         /\ Awaits(t, d)' => Awaits(t, d)
         /\ Serves(t, d)' => /\ Serves(t, d)
                             /\ server'[t].listed = server[t].listed
                             /\ server'[t].logged = server[t].logged
  BY DEF Serves, Awaits
<1>2. KnowsNoMore
  BY <1>1 DEF KnowsNoMore
<1>3. KnownOnce'
  <2>1. KnownOnce
    BY DEF IInv
  <2>2. ASSUME NEW t \in Servers
        PROVE  \A i, j \in DOMAIN server'[t].pending :
                  server'[t].pending[i] = server'[t].pending[j] => i = j
    BY <2>1 DEF KnownOnce
  <2> QED  BY <1>1, <2>1, <2>2 DEF KnownOnce
<1>4. \A d \in Clients : SaysStopping(d)' => SaysStopping(d)
  BY DEF SaysStopping
<1> QED  BY <1>1, <1>2, <1>3, <1>4, ServerStepIInv

(* A process without clients. *)
LEMMA ProcessTyped ==
    ASSUME NEW state \in {"none", "stopped"}
    PROVE  /\ Process(state) \in ServerType
           /\ Process(state).pending = <<>> /\ Process(state).servlets = <<>>
           /\ Process(state).state = state
<1>1. NoDevices \in Listings
  BY DEF NoDevices, Listings
<1>2. <<>> \in Seq(Clients)
  OBVIOUS
<1> QED  BY <1>1, <1>2 DEF Process, ServerType

(* A server takes the name from whoever has it. *)
LEMMA RemoveSocketIInv ==
    ASSUME IInv, NEW s \in Servers, RemoveSocket(s)
    PROVE  IInv'
<1> USE DEF IInv
<1> DEFINE k == [server[s] EXCEPT !.state = "cleared"]
<1>1. server[s] \in ServerType /\ server[s].state = "forked" /\ path' = None
  BY DEF Typed, RemoveSocket
<1>2. /\ k \in ServerType /\ k.state = "cleared"
      /\ k.pending = server[s].pending /\ k.servlets = server[s].servlets
      /\ k.listed = server[s].listed /\ k.logged = server[s].logged
  BY <1>1 DEF ServerType
<1>3. server' = [server EXCEPT ![s] = k] /\ UNCHANGED <<client, socket>>
  BY DEF RemoveSocket
<1> HIDE DEF k
<1>4. Typed'
  BY <1>1, <1>2, <1>3 DEF Typed
<1>5. StoppedStayStopped
  <2>1. \A t \in Servers : path' # t
    BY <1>1, ProcessesAssumption
  <2>2. ~OutOfReach(s)
    BY <1>1 DEF OutOfReach
  <2> QED  BY <1>3, <2>1, <2>2 DEF StoppedStayStopped, OutOfReach, Typed
<1> QED  BY <1>2, <1>3, <1>4, <1>5, StatesIInv DEF Typed

(* A server gets the name, or ends when another has it. *)
LEMMA ListenIInv ==
    ASSUME IInv, NEW s \in Servers, Listen(s)
    PROVE  IInv'
<1> USE DEF IInv
<1> DEFINE state == IF path = None THEN "up" ELSE "stopped"
           k == [server[s] EXCEPT !.state = state]
<1>1. /\ server[s] \in ServerType /\ server[s].state = "cleared"
      /\ path' = IF path = None THEN s ELSE path
      /\ server' = [server EXCEPT ![s] = k] /\ UNCHANGED <<client, socket>>
  BY DEF Typed, Listen
<1>2. /\ k \in ServerType /\ k.state = state
      /\ k.pending = server[s].pending /\ k.servlets = server[s].servlets
      /\ k.listed = server[s].listed /\ k.logged = server[s].logged
  BY <1>1 DEF ServerType
<1> HIDE DEF k
<1>3. Typed'
  BY <1>1, <1>2 DEF Typed
<1>4. StoppedStayStopped
  <2>1. ASSUME NEW t \in Servers, OutOfReach(t)
        PROVE  OutOfReach(t)'
    <3>1. t # s
      BY <2>1, <1>1 DEF OutOfReach
    <3> QED  BY <3>1, <2>1, <1>1 DEF OutOfReach, Typed
  <2>2. ASSUME NEW t \in Servers, server'[t].state = "closing"
        PROVE  path' # t
    <3>1. t # s
      BY <2>2, <1>1, <1>2 DEF Typed
    <3>2. path # t
      BY <3>1, <2>2, <1>1 DEF Typed, ClosingIsOutOfReach
    <3> QED  BY <3>1, <3>2, <1>1
  <2> QED  BY <2>1, <2>2 DEF StoppedStayStopped
<1> QED  BY <1>1, <1>2, <1>3, <1>4, StatesIInv DEF Typed

(* A server without clients ends. *)
LEMMA QuitIInv ==
    ASSUME IInv, NEW s \in Servers, Quit(s)
    PROVE  IInv'
<1> USE DEF IInv
<1> DEFINE k == Process("stopped")
<1>1. /\ server[s] \in ServerType /\ server[s].state = "closing"
      /\ server' = [server EXCEPT ![s] = k] /\ UNCHANGED <<client, socket, path>>
  BY DEF Typed, Quit
<1>2. /\ k \in ServerType /\ k.state = "stopped"
      /\ k.pending = <<>> /\ k.servlets = <<>>
  BY ProcessTyped
<1> HIDE DEF k
<1>3. Typed'
  BY <1>1, <1>2 DEF Typed
<1>4. StoppedStayStopped
  BY <1>1, <1>2 DEF StoppedStayStopped, OutOfReach, ClosingIsOutOfReach, Typed
<1> QED  BY <1>1, <1>2, <1>3, <1>4, StatesIInv DEF Typed

(* The first who waits is served, the others wait on. *)
LEMMA HandleClientIInv ==
    ASSUME IInv, NEW s \in Servers, HandleClient(s)
    PROVE  IInv'
<1> USE DEF IInv
<1> DEFINE p == server[s].pending
           q == server[s].servlets
           k == [server[s] EXCEPT !.servlets = Append(q, Head(p)), !.pending = Tail(p)]
<1>1. server[s] \in ServerType /\ p \in Seq(Clients) /\ q \in Seq(Clients)
  BY DEF Typed, ServerType
<1>2. /\ p # <<>> /\ server[s].state = "up"
      /\ server' = [server EXCEPT ![s] = k]
      /\ UNCHANGED <<client, socket, path>>
  BY <1>1 DEF HandleClient, ServerType, Typed
<1>3. /\ Head(p) \in Clients /\ Tail(p) \in Seq(Clients)
      /\ Len(p) \in Nat /\ Len(p) > 0
      /\ Head(p) = p[1]
      /\ DOMAIN Tail(p) = 1..(Len(p) - 1)
      /\ \A i \in DOMAIN Tail(p) : Tail(p)[i] = p[i + 1]
  BY <1>1, <1>2
<1>4. Append(q, Head(p)) \in Seq(Clients)
  BY <1>1, <1>3
<1>5. /\ k \in ServerType /\ k.state = "up"
      /\ k.pending = Tail(p) /\ k.servlets = Append(q, Head(p))
      /\ k.listed = server[s].listed /\ k.logged = server[s].logged
  BY <1>1, <1>2, <1>3, <1>4 DEF ServerType
<1> HIDE DEF k
<1>6. server'[s] = k /\ \A t \in Servers : t # s => server'[t] = server[t]
  BY <1>2 DEF Typed
<1>7. Typed'
  BY <1>2, <1>5 DEF Typed
<1>8. ASSUME NEW t \in Servers, NEW d \in Clients
      PROVE  /\ Awaits(t, d)' => Awaits(t, d) /\ (t = s => d # Head(p))
             /\ Serves(t, d)' => Serves(t, d) \/ (t = s /\ d = Head(p))
  <2>1. CASE t # s
    BY <2>1, <1>6 DEF Awaits, Serves
  <2>2. CASE t = s
    <3>1. ASSUME Awaits(s, d)'
          PROVE  Awaits(s, d) /\ d # Head(p)
      <4>1. PICK i \in DOMAIN Tail(p) : Tail(p)[i] = d
        BY <3>1, <1>5, <1>6 DEF Awaits
      <4>2. i + 1 \in DOMAIN p /\ 1 \in DOMAIN p /\ i + 1 # 1 /\ p[i + 1] = d
        BY <4>1, <1>1, <1>3
      <4>3. p[1] # d
        BY <4>2 DEF KnownOnce
      <4> QED  BY <4>2, <4>3, <1>3 DEF Awaits
    <3>2. ASSUME Serves(s, d)'
          PROVE  Serves(s, d) \/ d = Head(p)
      <4>1. PICK i \in DOMAIN Append(q, Head(p)) : Append(q, Head(p))[i] = d
        BY <3>2, <1>5, <1>6 DEF Serves
      <4>2. (i \in DOMAIN q /\ q[i] = d) \/ Head(p) = d
        BY <4>1, <1>1, <1>3, AppendClient
      <4> QED  BY <4>2 DEF Serves
    <3> QED  BY <2>2, <3>1, <3>2
  <2> QED  BY <2>1, <2>2
<1>9. Awaits(s, Head(p))
  BY <1>1, <1>3 DEF Awaits
<1>10. KnowsNoMore
  BY <1>8, <1>9 DEF KnowsNoMore
<1>11. KnownOnce'
  <2>1. ASSUME NEW t \in Servers, NEW d \in Clients
        PROVE  ~(Serves(t, d) /\ Awaits(t, d))'
    BY <1>8 DEF KnownOnce
  <2>2. ASSUME NEW t \in Servers, t # s
        PROVE  \A i, j \in DOMAIN server'[t].pending :
                  server'[t].pending[i] = server'[t].pending[j] => i = j
    BY <2>2, <1>6 DEF KnownOnce
  <2>3. \A i, j \in DOMAIN Tail(p) : Tail(p)[i] = Tail(p)[j] => i = j
    <3>1. \A i, j \in DOMAIN p : p[i] = p[j] => i = j
      BY DEF KnownOnce
    <3>2. ASSUME NEW i \in DOMAIN Tail(p), NEW j \in DOMAIN Tail(p), Tail(p)[i] = Tail(p)[j]
          PROVE  i = j
      <4>1. i + 1 \in DOMAIN p /\ j + 1 \in DOMAIN p /\ p[i + 1] = p[j + 1]
        BY <3>2, <1>1, <1>3
      <4>2. i + 1 = j + 1
        BY <3>1, <4>1
      <4> QED  BY <4>2, <1>3
    <3> QED  BY <3>2
  <2>4. \A i, j \in DOMAIN server'[s].pending :
           server'[s].pending[i] = server'[s].pending[j] => i = j
    BY <2>3, <1>5, <1>6
  <2> QED  BY <2>1, <2>2, <2>4 DEF KnownOnce
<1>12. StoppedStayStopped
  BY <1>2, <1>5, <1>6 DEF StoppedStayStopped, OutOfReach, ClosingIsOutOfReach
<1>13. \A d \in Clients : SaysStopping(d)' => SaysStopping(d)
  BY <1>2 DEF SaysStopping
<1>14. ASSUME NEW t \in Servers, NEW d \in Clients, Serves(t, d)'
       PROVE  \/ /\ Serves(t, d) /\ socket'[d] = socket[d]
                 /\ server'[t].listed = server[t].listed
                 /\ server'[t].logged = server[t].logged
              \/ ToldOfDevices(d, t)' /\ ToldOfMessages(d, t)'
  <2>1. CASE Serves(t, d)
    BY <2>1, <1>2, <1>5, <1>6
  <2>2. CASE t = s /\ d = Head(p)
    <3>1. socket'[d].watching = "nothing"
      BY <2>2, <1>2, <1>9 DEF AwaitedAreNotWatching
    <3> QED  BY <3>1 DEF ToldOfDevices, ToldOfMessages
  <2> QED  BY <2>1, <2>2, <1>8, <1>14
<1> QED  BY <1>2, <1>7, <1>10, <1>11, <1>12, <1>13, <1>14, ServerStepIInv

(* handleDoneClient() erases the client it is called for, and nobody comes. *)
LEMMA ErasedFacts ==
    ASSUME Typed, NEW s \in Servers, NEW c \in Clients
    PROVE  /\ Erased(s, c) \in Seq(Clients)
           /\ \A i \in DOMAIN Erased(s, c) :
                 Erased(s, c)[i] # c /\ Serves(s, Erased(s, c)[i])
<1> DEFINE q == server[s].servlets
           kept == {i \in DOMAIN q : q[i] # c}
<1>1. q \in Seq(Clients) /\ kept \in SUBSET DOMAIN q
  BY DEF Typed, ServerType
<1>2. Erased(s, c) = KeepAt(q, kept)
  BY DEF Erased
<1>3. /\ KeepAt(q, kept) \in Seq(Clients)
      /\ \A i \in DOMAIN KeepAt(q, kept) : \E j \in kept : KeepAt(q, kept)[i] = q[j]
  BY <1>1, KeepAtKeeps
<1> QED  BY <1>2, <1>3 DEF Serves

(* The socket of one client is closed and its servlet erased. *)
LEMMA LetsOneGoIInv ==
    ASSUME IInv, NEW s \in Servers, NEW c \in Clients, Serves(s, c),
           UNCHANGED <<client, path>>,
           NEW k \in ServerType, server' = [server EXCEPT ![s] = k],
           k.state = server[s].state, k.pending = server[s].pending,
           k.servlets = Erased(s, c), k.listed = server[s].listed,
           k.logged = server[s].logged,
           NEW e \in SocketType, socket' = [socket EXCEPT ![c] = e],
           e.request = FALSE, e.hungUp = TRUE,
           (\E i \in DOMAIN e.responses : e.responses[i].type = "stopping") =>
               SaysStopping(c) \/ server[s].state = "closing"
    PROVE  IInv'
<1> USE DEF IInv
<1>1. server'[s] = k /\ \A t \in Servers : t # s => server'[t] = server[t]
  BY DEF Typed
<1>2. socket'[c] = e /\ \A d \in Clients : d # c => socket'[d] = socket[d]
  BY DEF Typed
<1>3. Typed'
  BY DEF Typed
<1>4. client[c].peer = s /\ client[c].peer # None
  BY ProcessesAssumption DEF KnownAreConnected
<1>5. ASSUME NEW t \in Servers, NEW d \in Clients
      PROVE  /\ Awaits(t, d)' => Awaits(t, d)
             /\ Serves(t, d)' => Serves(t, d)
             /\ Serves(t, d)' => d # c
  <2>1. Awaits(t, d)' => Awaits(t, d)
    BY <1>1 DEF Awaits
  <2>2. CASE t # s
    <3>1. Serves(t, d)' => Serves(t, d)
      BY <2>2, <1>1 DEF Serves
    <3>2. Serves(t, c) => client[c].peer = t
      BY DEF KnownAreConnected
    <3> QED  BY <2>1, <2>2, <3>1, <3>2, <1>4
  <2>3. CASE t = s
    <3>1. Serves(s, d)' <=> \E i \in DOMAIN Erased(s, c) : Erased(s, c)[i] = d
      BY <1>1 DEF Serves
    <3> QED  BY <2>1, <2>3, <3>1, ErasedFacts
  <2> QED  BY <2>2, <2>3
<1>6. KnowsNoMore
  BY <1>5 DEF KnowsNoMore
<1>7. KnownOnce'
  <2>1. \A t \in Servers : server'[t].pending = server[t].pending
    BY <1>1
  <2>2. KnownOnce
    OBVIOUS
  <2>3. \A t \in Servers : \A i, j \in DOMAIN server'[t].pending :
           server'[t].pending[i] = server'[t].pending[j] => i = j
    BY <2>1, <2>2 DEF KnownOnce
  <2> QED  BY <1>5, <2>2, <2>3 DEF KnownOnce
<1>8. StoppedStayStopped
  BY <1>1 DEF StoppedStayStopped, OutOfReach, ClosingIsOutOfReach
<1>9. LetGo(c)
  <2>1. \A t \in Servers : ~Serves(t, c)'
    BY <1>5
  <2>2. ASSUME NEW t \in Servers
        PROVE  ~Awaits(t, c)'
    <3>1. Awaits(t, c) => client[c].peer = t
      BY DEF KnownAreConnected
    <3>2. ~Awaits(s, c)
      BY DEF KnownOnce
    <3> QED  BY <3>1, <3>2, <1>4, <1>5
  <2> QED  BY <2>1, <2>2, <1>2, <1>4 DEF LetGo
<1>10. ASSUME NEW d \in Clients, SaysStopping(d)'
       PROVE  \/ SaysStopping(d)
              \/ client[d].peer \in Servers /\ OutOfReach(client[d].peer)'
  <2>1. CASE d # c
    BY <2>1, <1>2, <1>10 DEF SaysStopping
  <2>2. CASE d = c
    <3>1. SaysStopping(c) \/ server[s].state = "closing"
      BY <2>2, <1>2, <1>10 DEF SaysStopping
    <3>2. server[s].state = "closing" => OutOfReach(s)'
      BY <1>1 DEF OutOfReach, ClosingIsOutOfReach
    <3> QED  BY <2>2, <3>1, <3>2, <1>4
  <2> QED  BY <2>1, <2>2
<1>11. \A t \in Servers, d \in Clients : Serves(t, d)' =>
          /\ Serves(t, d) /\ socket'[d] = socket[d]
          /\ server'[t].listed = server[t].listed
          /\ server'[t].logged = server[t].logged
  BY <1>1, <1>2, <1>5
<1> QED  BY <1>2, <1>3, <1>6, <1>7, <1>8, <1>9, <1>10, <1>11, ServerStepIInv

(* What is left of a closed socket. *)
LEMMA EndedFacts ==
    ASSUME NEW k \in SocketType
    PROVE  /\ Ended(k) \in SocketType /\ Ended(k).responses = k.responses
           /\ Ended(k).request = FALSE /\ Ended(k).hungUp = TRUE
           /\ Ended(k).watching = "nothing"
BY DEF Ended, SocketType

(* Sending adds responses and changes nothing else. *)
LEMMA SentFacts ==
    ASSUME NEW k \in SocketType, NEW q \in Seq(Responses)
    PROVE  /\ Sent(k, q) \in SocketType
           /\ Sent(k, q).responses = k.responses \o q
           /\ Sent(k, q).watching = k.watching
           /\ Sent(k, q).request = k.request
           /\ Sent(k, q).hungUp = k.hungUp
<1>1. k.responses \in Seq(Responses)
  BY DEF SocketType
<1>2. k.responses \o q \in Seq(Responses)
  BY <1>1
<1> QED  BY <1>2 DEF Sent, SocketType

(* The responses the servlets write are of the type. *)
LEMMA ResponseFacts ==
    /\ \A data : \A type \in ResponseTypes :
          Response(type, data).type = type /\ Response(type, data).data = data
    /\ \A type \in ResponseTypes, l \in Listings : Response(type, l) \in Responses
    /\ \A type \in ResponseTypes, d \in Devices, i \in Infos \cup {None} :
           Response(type, <<d, i>>) \in Responses
    /\ \A type \in ResponseTypes, m, n \in Nat : Response(type, <<m, n>>) \in Responses
    /\ \A type \in ResponseTypes : Response(type, <<>>) \in Responses
<1> DEFINE D == Listings \cup (Devices \X (Infos \cup {None})) \cup (Nat \X Nat) \cup {<<>>}
<1>1. \A data : \A type \in ResponseTypes :
          Response(type, data).type = type /\ Response(type, data).data = data
  BY DEF Response
<1>2. \A type \in ResponseTypes, data \in D : Response(type, data) \in Responses
  BY DEF Response, Responses
<1>3. /\ Listings \subseteq D
      /\ \A d \in Devices, i \in Infos \cup {None} : <<d, i>> \in D
      /\ \A m, n \in Nat : <<m, n>> \in D
      /\ <<>> \in D
  OBVIOUS
<1> HIDE DEF D
<1> QED  BY <1>1, <1>2, <1>3

(* Responses that do not speak of stopping tell nobody of it. *)
LEMMA SentOfStop ==
    ASSUME NEW k \in SocketType, NEW q \in Seq(Responses),
           NEW i \in DOMAIN Sent(k, q).responses,
           Sent(k, q).responses[i].type = "stopping"
    PROVE  \/ \E j \in DOMAIN k.responses : k.responses[j].type = "stopping"
           \/ \E j \in DOMAIN q : q[j].type = "stopping"
<1> DEFINE p == k.responses
<1>1. p \in Seq(Responses) /\ Sent(k, q).responses = p \o q
  BY SentFacts DEF SocketType
<1>2. i \in DOMAIN (p \o q) /\ (p \o q)[i].type = "stopping"
  BY <1>1
<1> HIDE DEF p
<1>3. /\ Len(p) \in Nat /\ Len(q) \in Nat /\ i \in 1..(Len(p) + Len(q))
      /\ (p \o q)[i] = IF i <= Len(p) THEN p[i] ELSE q[i - Len(p)]
  BY <1>1, <1>2, ConcatProperties
<1>4. CASE i <= Len(p)
  BY <1>1, <1>2, <1>3, <1>4 DEF p
<1>5. CASE ~(i <= Len(p))
  <2>1. i - Len(p) \in 1..Len(q) /\ q[i - Len(p)].type = "stopping"
    BY <1>2, <1>3, <1>5
  <2> QED  BY <2>1
<1> QED  BY <1>4, <1>5

(* The set of the servlets is those served. *)
LEMMA ToSetServes ==
    ASSUME NEW s, NEW c
    PROVE  c \in ToSet(server[s].servlets) <=> Serves(s, c)
BY DEF ToSet, Serves

(* A servlet answers and lets its client go. *)
LEMMA ReplyIInv ==
    ASSUME IInv, NEW s \in Servers, NEW c \in Clients, Serves(s, c),
           UNCHANGED client, NEW response \in Responses, response.type # "stopping",
           NEW cleared \in Nat, Reply(s, c, response, cleared)
    PROVE  IInv'
<1> DEFINE k == [server[s] EXCEPT !.servlets = Erased(s, c), !.cleared = cleared]
           new == <<response>>
           w == Sent(socket[c], new)
           e == Ended(w)
<1>1. server[s] \in ServerType /\ socket[c] \in SocketType
  BY DEF IInv, Typed
<1>2. Erased(s, c) \in Seq(Clients)
  BY ErasedFacts DEF IInv
<1>3. /\ k \in ServerType /\ k.state = server[s].state /\ k.pending = server[s].pending
      /\ k.servlets = Erased(s, c) /\ k.listed = server[s].listed
      /\ k.logged = server[s].logged
  BY <1>1, <1>2 DEF ServerType
<1>4. server' = [server EXCEPT ![s] = k]
  BY <1>1 DEF Reply, IInv, Typed, ServerType
<1>5. socket' = [socket EXCEPT ![c] = e] /\ UNCHANGED path
  BY DEF Reply, IInv, Typed
<1> HIDE DEF k
<1>6. new \in Seq(Responses) /\ \A j \in DOMAIN new : new[j].type # "stopping"
  OBVIOUS
<1> HIDE DEF new
<1>w. w \in SocketType
  BY <1>1, <1>6, SentFacts
<1>7. ASSUME NEW i \in DOMAIN w.responses, w.responses[i].type = "stopping"
      PROVE  SaysStopping(c)
  BY <1>1, <1>6, <1>7, SentOfStop DEF SaysStopping
<1> HIDE DEF w
<1>8. e \in SocketType /\ e.responses = w.responses /\ e.request = FALSE /\ e.hungUp = TRUE
  BY <1>w, EndedFacts
<1> HIDE DEF e
<1> QED  BY <1>3, <1>4, <1>5, <1>7, <1>8, LetsOneGoIInv

(* A servlet finds that its client is gone. *)
LEMMA HandleDisconnectionIInv ==
    ASSUME IInv, NEW s \in Servers, NEW c \in Clients, HandleDisconnection(s, c)
    PROVE  IInv'
<1> DEFINE k == [server[s] EXCEPT !.servlets = Erased(s, c)]
           e == Ended(socket[c])
<1>1. server[s] \in ServerType /\ socket[c] \in SocketType /\ socket[c].responses \in Seq(Responses)
  BY DEF IInv, Typed, SocketType
<1>2. Erased(s, c) \in Seq(Clients)
  BY ErasedFacts DEF IInv
<1>3. /\ k \in ServerType /\ k.state = server[s].state /\ k.pending = server[s].pending
      /\ k.servlets = Erased(s, c) /\ k.listed = server[s].listed
      /\ k.logged = server[s].logged
  BY <1>1, <1>2 DEF ServerType
<1>4. /\ server' = [server EXCEPT ![s] = k] /\ socket' = [socket EXCEPT ![c] = e]
      /\ UNCHANGED <<client, path>>
  BY DEF HandleDisconnection, IInv, Typed
<1>5. Serves(s, c)
  BY ToSetServes DEF HandleDisconnection
<1> HIDE DEF k
<1>6. e \in SocketType /\ e.responses = socket[c].responses
      /\ e.request = FALSE /\ e.hungUp = TRUE
  BY <1>1, EndedFacts
<1> HIDE DEF e
<1>7. (\E i \in DOMAIN e.responses : e.responses[i].type = "stopping") => SaysStopping(c)
  BY <1>6 DEF SaysStopping
<1> QED  BY <1>3, <1>4, <1>5, <1>6, <1>7, LetsOneGoIInv

(* A closing server lets one client go, and tells the one that stopped it. *)
LEMMA CloseServletIInv ==
    ASSUME IInv, NEW s \in Servers, CloseServlet(s)
    PROVE  IInv'
<1> DEFINE c == Head(server[s].servlets)
           last == IF c = server[s].stopper THEN <<Response("stopping", <<>>)>> ELSE <<>>
           k == [server[s] EXCEPT !.servlets = Erased(s, c)]
           w == Sent(socket[c], last)
           e == Ended(w)
<1>1. /\ server[s] \in ServerType /\ server[s].servlets \in Seq(Clients)
      /\ server[s].servlets # <<>> /\ server[s].state = "closing"
  BY DEF IInv, Typed, ServerType, CloseServlet
<1>2. c \in Clients /\ Serves(s, c)
  <2>1. c \in Clients /\ 1 \in DOMAIN server[s].servlets /\ c = server[s].servlets[1]
    BY <1>1
  <2> QED  BY <2>1 DEF Serves
<1>3. /\ server' = [server EXCEPT ![s] = k] /\ socket' = [socket EXCEPT ![c] = e]
      /\ UNCHANGED <<client, path>>
  BY <1>2 DEF CloseServlet, IInv, Typed
<1> HIDE DEF c
<1>4. socket[c] \in SocketType
  BY <1>2 DEF IInv, Typed
<1>5. Erased(s, c) \in Seq(Clients)
  BY <1>2, ErasedFacts DEF IInv
<1>6. /\ k \in ServerType /\ k.state = server[s].state /\ k.pending = server[s].pending
      /\ k.servlets = Erased(s, c) /\ k.listed = server[s].listed
      /\ k.logged = server[s].logged
  BY <1>1, <1>5 DEF ServerType
<1>7. last \in Seq(Responses)
  <2>1. Response("stopping", <<>>) \in Responses
    BY ResponseFacts DEF ResponseTypes
  <2> QED  BY <2>1
<1> HIDE DEF last, k
<1>8. w \in SocketType
  BY <1>4, <1>7, SentFacts
<1> HIDE DEF w
<1>9. e \in SocketType /\ e.request = FALSE /\ e.hungUp = TRUE
  BY <1>8, EndedFacts
<1> HIDE DEF e
<1> QED  BY <1>1, <1>2, <1>3, <1>6, <1>9, LetsOneGoIInv

(* Any number of clients that are not served any more are cut off. *)
LEMMA LetsGoIInv ==
    ASSUME IInv, Typed', UNCHANGED client, StoppedStayStopped, NEW s \in Servers,
           server'[s].servlets \in {server[s].servlets, <<>>}, server'[s].pending = <<>>,
           server'[s].listed = server[s].listed \/ server'[s].servlets = <<>>,
           server'[s].logged = server[s].logged \/ server'[s].servlets = <<>>,
           \A t \in Servers : t # s => server'[t] = server[t],
           NEW cut, \A d \in cut : Awaits(s, d) \/ (Serves(s, d) /\ server'[s].servlets = <<>>),
           socket' = [d \in Clients |-> IF d \in cut THEN Ended(socket[d]) ELSE socket[d]]
    PROVE  IInv'
<1> USE DEF IInv
<1>1. ASSUME NEW t \in Servers, NEW d \in Clients
      PROVE  /\ Awaits(t, d)' => Awaits(t, d) /\ t # s
             /\ Serves(t, d)' => Serves(t, d)
             /\ server'[s].servlets = <<>> => ~Serves(s, d)'
  BY DEF Awaits, Serves
<1>2. KnowsNoMore
  BY <1>1 DEF KnowsNoMore
<1>3. KnownOnce'
  <2>1. KnownOnce
    OBVIOUS
  <2>2. ASSUME NEW t \in Servers
        PROVE  \A i, j \in DOMAIN server'[t].pending :
                  server'[t].pending[i] = server'[t].pending[j] => i = j
    BY <2>1 DEF KnownOnce
  <2> QED  BY <1>1, <2>1, <2>2 DEF KnownOnce
<1>4. ASSUME NEW d \in Clients, d \in cut
      PROVE  /\ LetGo(d)
             /\ socket'[d].responses = socket[d].responses
  <2>1. socket[d] \in SocketType /\ socket[d].responses \in Seq(Responses)
    BY DEF Typed, SocketType
  <2>2. socket'[d] = Ended(socket[d])
    BY <1>4
  <2>3. /\ socket'[d].responses = socket[d].responses
        /\ socket'[d].request = FALSE /\ socket'[d].hungUp = TRUE
    BY <2>1, <2>2, EndedFacts
  <2>4. client[d].peer = s /\ client[d].peer # None
    BY <1>4, ProcessesAssumption DEF KnownAreConnected
  <2>5. ASSUME NEW t \in Servers
        PROVE  ~Serves(t, d)' /\ ~Awaits(t, d)'
    <3>1. CASE t = s
      BY <3>1, <1>1, <1>4 DEF KnownOnce
    <3>2. CASE t # s
      BY <3>2, <1>1, <2>4 DEF KnownAreConnected
    <3> QED  BY <3>1, <3>2
  <2> QED  BY <2>3, <2>4, <2>5 DEF LetGo
<1>5. \A d \in Clients : d \notin cut => socket'[d] = socket[d]
  OBVIOUS
<1>6. \A d \in Clients : SaysStopping(d)' => SaysStopping(d)
  BY <1>4, <1>5 DEF SaysStopping
<1>7. ASSUME NEW t \in Servers, NEW d \in Clients, Serves(t, d)'
      PROVE  /\ Serves(t, d) /\ socket'[d] = socket[d]
             /\ server'[t].listed = server[t].listed
             /\ server'[t].logged = server[t].logged
  <2>1. d \notin cut
    BY <1>4, <1>7 DEF LetGo
  <2> QED  BY <2>1, <1>1, <1>5, <1>7
<1> QED  BY <1>2, <1>3, <1>4, <1>5, <1>6, <1>7, ServerStepIInv

(* The sockets stay typed when some are closed. *)
LEMMA CutTyped ==
    ASSUME socket \in [Clients -> SocketType], NEW cut
    PROVE  [d \in Clients |-> IF d \in cut THEN Ended(socket[d]) ELSE socket[d]]
               \in [Clients -> SocketType]
BY DEF Ended, SocketType

(* A server begins to close: nobody can reach it any more. *)
LEMMA CloseIInv ==
    ASSUME IInv, NEW s \in Servers, NEW c \in Clients \cup {None},
           Close(s, c), UNCHANGED client
    PROVE  IInv'
<1> DEFINE k == [server[s] EXCEPT !.state = "closing", !.stopper = c, !.pending = <<>>]
           cut == ToSet(server[s].pending)
<1>1. server[s] \in ServerType
  BY DEF IInv, Typed
<1>2. /\ k \in ServerType /\ k.state = "closing" /\ k.pending = <<>>
      /\ k.servlets = server[s].servlets /\ k.listed = server[s].listed
      /\ k.logged = server[s].logged
  <2>1. <<>> \in Seq(Clients)
    OBVIOUS
  <2> QED  BY <1>1, <2>1 DEF ServerType
<1>3. /\ server' = [server EXCEPT ![s] = k] /\ path' = None
      /\ socket' = [d \in Clients |-> IF d \in cut THEN Ended(socket[d]) ELSE socket[d]]
  BY <1>1 DEF Close, IInv, Typed, ServerType
<1> HIDE DEF k
<1>4. server'[s] = k /\ \A t \in Servers : t # s => server'[t] = server[t]
  BY <1>3 DEF IInv, Typed
<1>5. \A d \in cut : Awaits(s, d)
  BY DEF ToSet, Awaits
<1> HIDE DEF cut
<1>6. Typed'
  <2>1. socket' \in [Clients -> SocketType]
    BY <1>3, CutTyped DEF IInv, Typed
  <2> QED  BY <1>2, <1>3, <2>1 DEF IInv, Typed
<1>7. StoppedStayStopped
  BY <1>2, <1>3, <1>4, ProcessesAssumption DEF StoppedStayStopped, OutOfReach
<1> QED  BY <1>2, <1>3, <1>4, <1>5, <1>6, <1>7, LetsGoIInv

(* A server is killed and its clients are cut off. *)
LEMMA CrashIInv ==
    ASSUME IInv, NEW s \in Servers, Crash(s)
    PROVE  IInv'
<1> DEFINE k == Process("stopped")
           p == server[s].servlets
           q == server[s].pending
           cut == ToSet(p \o q)
<1>1. server[s] \in ServerType /\ p \in Seq(Clients) /\ q \in Seq(Clients)
  BY DEF IInv, Typed, ServerType
<1>2. k \in ServerType /\ k.state = "stopped" /\ k.pending = <<>> /\ k.servlets = <<>>
  BY ProcessTyped
<1>3. /\ server' = [server EXCEPT ![s] = k] /\ UNCHANGED <<client, path>>
      /\ server[s].state \in {"forked", "cleared", "up", "closing"}
      /\ socket' = [d \in Clients |-> IF d \in cut THEN Ended(socket[d]) ELSE socket[d]]
  BY DEF Crash
<1> HIDE DEF k
<1>4. server'[s] = k /\ \A t \in Servers : t # s => server'[t] = server[t]
  BY <1>3 DEF IInv, Typed
<1>5. \A d \in cut : Awaits(s, d) \/ Serves(s, d)
  <2>1. ASSUME NEW d \in cut
        PROVE  (\E i \in DOMAIN q : q[i] = d) \/ (\E i \in DOMAIN p : p[i] = d)
    <3>1. PICK i \in DOMAIN (p \o q) : (p \o q)[i] = d
      BY DEF ToSet
    <3> HIDE DEF p, q
    <3>2. /\ Len(p) \in Nat /\ Len(q) \in Nat /\ i \in 1..(Len(p) + Len(q))
          /\ (p \o q)[i] = IF i <= Len(p) THEN p[i] ELSE q[i - Len(p)]
      BY <1>1, <3>1, ConcatProperties
    <3>3. CASE i <= Len(p)
      BY <1>1, <3>1, <3>2, <3>3
    <3>4. CASE ~(i <= Len(p))
      <4>1. i - Len(p) \in 1..Len(q) /\ q[i - Len(p)] = d
        BY <3>1, <3>2, <3>4
      <4> QED  BY <4>1, <1>1
    <3> QED  BY <3>3, <3>4
  <2> QED  BY <2>1 DEF Awaits, Serves
<1> HIDE DEF cut
<1>6. Typed'
  <2>1. socket' \in [Clients -> SocketType]
    BY <1>3, CutTyped DEF IInv, Typed
  <2> QED  BY <1>2, <1>3, <2>1 DEF IInv, Typed
<1>7. StoppedStayStopped
  BY <1>2, <1>3, <1>4 DEF StoppedStayStopped, OutOfReach, IInv, ClosingIsOutOfReach
<1> QED  BY <1>2, <1>3, <1>4, <1>5, <1>6, <1>7, LetsGoIInv
-----------------------------------------------------------------------------
(* The devices a watch is told first are all that are listed, each once. *)
LEMMA SetToSeqFacts ==
    ASSUME NEW S, IsFiniteSet(S)
    PROVE  /\ SetToSeq(S) \in Seq(S)
           /\ \A i, j \in DOMAIN SetToSeq(S) : SetToSeq(S)[i] = SetToSeq(S)[j] => i = j
           /\ \A x \in S : \E i \in DOMAIN SetToSeq(S) : SetToSeq(S)[i] = x
<1> DEFINE n == Cardinality(S)
           f == SetToSeq(S)
<1>1. n \in Nat /\ ExistsBijection(1..n, S)
  BY FS_CardinalityType
<1>2. \E g \in [1..n -> S] : IsInjective(g)
  BY <1>1 DEF ExistsBijection, Bijection, Injection
<1>3. f \in [1..n -> S] /\ IsInjective(f)
  BY <1>2 DEF SetToSeq
<1>4. f \in Injection(1..n, S)
  BY <1>3 DEF Injection
<1>5. IsFiniteSet(1..n) /\ Cardinality(1..n) = n
  BY <1>1, FS_Interval
<1>6. f \in Surjection(1..n, S)
  BY <1>4, <1>5, FS_Injection
<1>7. /\ \A x \in S : \E i \in 1..n : f[i] = x
      /\ DOMAIN f = 1..n
  BY <1>3, <1>6 DEF Surjection
<1>8. f \in Seq(S)
  BY <1>1, <1>3
<1>9. \A i, j \in DOMAIN f : f[i] = f[j] => i = j
  BY <1>3 DEF IsInjective
<1> QED  BY <1>7, <1>8, <1>9

Reports(listed) ==
    {Response("new-device", <<d, listed[d]>>) : d \in {e \in Devices : listed[e] # None}}

(* The first reports to a watch describe what is listed, in whatever order. *)
LEMMA FirstReports ==
    ASSUME NEW listed \in Listings
    PROVE  /\ SetToSeq(Reports(listed)) \in Seq(Responses)
           /\ Describe(SetToSeq(Reports(listed)), listed)
           /\ \A i \in DOMAIN SetToSeq(Reports(listed)) :
                 SetToSeq(Reports(listed))[i].type # "stopping"
<1> DEFINE D == {e \in Devices : listed[e] # None}
           S == Reports(listed)
           q == SetToSeq(S)
           f == [d \in D |-> Response("new-device", <<d, listed[d]>>)]
<1>1. S = {Response("new-device", <<d, listed[d]>>) : d \in D}
  BY DEF Reports
<1>2. f \in Surjection(D, S)
  BY <1>1 DEF Surjection
<1>3. IsFiniteSet(D)
  BY ProcessesAssumption, FS_Subset
<1>4. IsFiniteSet(S)
  <2> HIDE DEF D, S, f
  <2> QED  BY <1>2, <1>3, FS_Surjection
<1>5. \A d \in D : /\ f[d] \in Responses /\ f[d].type = "new-device"
                   /\ f[d].data = <<d, listed[d]>>
  BY ResponseFacts DEF ResponseTypes, Listings
<1>6. \A x \in S : \E d \in D : x = f[d]
  BY <1>1
<1>7. \A d \in D : f[d] \in S
  BY <1>1
<1> HIDE DEF S, f
<1>8. /\ q \in Seq(S)
      /\ \A i, j \in DOMAIN q : q[i] = q[j] => i = j
      /\ \A x \in S : \E i \in DOMAIN q : q[i] = x
  BY <1>4, SetToSeqFacts
<1> HIDE DEF q
<1>9. \A i \in DOMAIN q : q[i] \in S
  BY <1>8
<1>10. \A i \in DOMAIN q : \E d \in D : q[i] = f[d]
  BY <1>6, <1>9
<1>11. q \in Seq(Responses)
  <2>1. S \subseteq Responses
    BY <1>5, <1>6
  <2> QED  BY <1>8, <2>1
<1>12. \A i \in DOMAIN q : q[i].type # "stopping"
  BY <1>5, <1>10
<1>13. ASSUME NEW i \in DOMAIN q, NEW d \in D, q[i] = f[d]
       PROVE  q[i].data = <<d, listed[d]>> /\ q[i].data[1] = d
  BY <1>5, <1>13
<1>14. ASSUME NEW d \in Devices
       PROVE  \/ /\ \A i \in DOMAIN q : q[i].data[1] # d
                 /\ listed[d] = None
              \/ \E i \in DOMAIN q :
                    /\ q[i].data = <<d, listed[d]>>
                    /\ \A j \in DOMAIN q : j > i => q[j].data[1] # d
  <2>1. CASE listed[d] = None
    <3>1. \A i \in DOMAIN q : q[i].data[1] # d
      BY <2>1, <1>10, <1>13
    <3> QED  BY <2>1, <3>1
  <2>2. CASE listed[d] # None
    <3>1. d \in D
      BY <2>2
    <3>2. PICK i \in DOMAIN q : q[i] = f[d]
      BY <3>1, <1>7, <1>8
    <3>3. q[i].data = <<d, listed[d]>>
      BY <3>1, <3>2, <1>13
    <3>4. ASSUME NEW j \in DOMAIN q, j > i, q[j].data[1] = d
          PROVE  FALSE
      <4>1. PICK e \in D : q[j] = f[e]
        BY <1>10
      <4>2. e = d
        BY <4>1, <1>13, <3>4
      <4>3. j = i
        BY <4>1, <4>2, <3>2, <1>8
      <4>4. i \in Nat /\ j \in Nat
        BY <1>11
      <4> QED  BY <4>3, <4>4, <3>4
    <3> QED  BY <3>3, <3>4
  <2> QED  BY <2>1, <2>2
<1>15. Describe(q, listed)
  BY <1>14 DEF Describe
<1> QED  BY <1>11, <1>12, <1>15 DEF q, S

(* A servlet that has been told what there is begins to watch. *)
LEMMA StartWatchingIInv ==
    ASSUME IInv, NEW s \in Servers, NEW c \in Clients, Serves(s, c),
           socket[c].request = TRUE, UNCHANGED <<client, server, path>>,
           NEW topic \in {"devices", "messages"}, NEW responses \in Seq(Responses),
           StartWatching(c, topic, responses),
           \A i \in DOMAIN responses : responses[i].type # "stopping",
           topic = "devices" => Describe(responses, server[s].listed),
           topic = "messages" =>
               /\ responses # <<>> /\ Adjoin(responses)
               /\ responses[Len(responses)].data[2] = server[s].logged
    PROVE  IInv'
<1> DEFINE v == Sent(socket[c], responses)
           w == [v EXCEPT !.request = FALSE, !.watching = topic]
<1>1. socket[c] \in SocketType
  BY DEF IInv, Typed
<1>2. client[c].peer = s /\ socket[c].hungUp = FALSE
  BY DEF IInv, KnownAreConnected
<1>3. client[c].printed = <<>> /\ socket[c].responses = <<>>
  BY <1>2 DEF IInv, NotWatchingNotTold
<1>4. /\ v \in SocketType /\ v.responses = socket[c].responses \o responses
      /\ v.hungUp = socket[c].hungUp
  BY <1>1, SentFacts
<1>5. socket' = [socket EXCEPT ![c] = w]
  BY <1>1 DEF StartWatching, Sent, IInv, Typed, SocketType
<1>6. v.responses = responses
  BY <1>3, <1>4, ConcatEmptySeq
<1> HIDE DEF v
<1>7. /\ w \in SocketType /\ w.responses = responses /\ w.hungUp = FALSE
      /\ w.request = FALSE /\ w.watching = topic
  BY <1>2, <1>4, <1>6 DEF SocketType
<1> HIDE DEF w
<1>8. socket'[c] = w /\ \A d \in Clients : d # c => socket'[d] = socket[d]
  BY <1>5 DEF IInv, Typed
<1>9. Typed'
  BY <1>5, <1>7 DEF IInv, Typed
<1>10. \A t \in Servers, d \in Clients :
          (Serves(t, d)' <=> Serves(t, d)) /\ (Awaits(t, d)' <=> Awaits(t, d))
  BY DEF Serves, Awaits
<1>11. KnowsNoMore /\ KnownOnce'
  BY <1>10 DEF KnowsNoMore, KnownOnce, IInv
<1>12. StoppedStayStopped
  BY DEF StoppedStayStopped, OutOfReach, IInv, ClosingIsOutOfReach
<1>13. Begins(c)
  <2>1. client[c].peer # None
    BY <1>2, ProcessesAssumption
  <2>2. \A t \in Servers : ~Awaits(t, c)
    BY <1>2 DEF IInv, KnownOnce, KnownAreConnected
  <2> QED  BY <2>1, <2>2, <1>2, <1>7, <1>8, <1>10 DEF Begins
<1>14. \A d \in Clients : SaysStopping(d)' => SaysStopping(d)
  <2>1. ~SaysStopping(c)'
    BY <1>7, <1>8 DEF SaysStopping
  <2>2. \A d \in Clients : d # c => (SaysStopping(d)' <=> SaysStopping(d))
    BY <1>8 DEF SaysStopping
  <2> QED  BY <2>1, <2>2
<1>15. ToldOfDevices(c, s)' /\ ToldOfMessages(c, s)'
  <2>1. Told(c)' = responses
    <3>1. Told(c)' = client'[c].printed \o socket'[c].responses
      BY DEF Told
    <3>2. Told(c)' = <<>> \o responses
      BY <3>1, <1>3, <1>7, <1>8
    <3> QED  BY <3>2, ConcatEmptySeq
  <2>2. socket'[c].watching = topic
    BY <1>7, <1>8
  <2>a. ASSUME socket'[c].watching = "devices"
        PROVE  Describe(responses, server'[s].listed)
    BY <2>2, <2>a
  <2>3. ToldOfDevices(c, s)'
    BY <2>1, <2>a DEF ToldOfDevices
  <2>4. ASSUME socket'[c].watching = "messages"
        PROVE  /\ responses # <<>> /\ Adjoin(responses)
               /\ responses[Len(responses)].data[2] = server'[s].logged
    BY <2>2, <2>4
  <2>5. ToldOfMessages(c, s)'
    BY <2>1, <2>4 DEF ToldOfMessages, Adjoin
  <2> QED  BY <2>3, <2>5
<1>16. ASSUME NEW t \in Servers, NEW d \in Clients, Serves(t, d)'
       PROVE  \/ /\ Serves(t, d) /\ socket'[d] = socket[d]
                 /\ server'[t].listed = server[t].listed
                 /\ server'[t].logged = server[t].logged
              \/ ToldOfDevices(d, t)' /\ ToldOfMessages(d, t)'
  <2>1. CASE d # c
    BY <2>1, <1>8, <1>10, <1>16
  <2>2. CASE d = c
    <3>1. t = s
      BY <2>2, <1>2, <1>10, <1>16 DEF IInv, KnownAreConnected
    <3> QED  BY <2>2, <3>1, <1>15
  <2> QED  BY <2>1, <2>2
<1> QED  BY <1>8, <1>9, <1>11, <1>12, <1>13, <1>14, <1>16, ServerStepIInv

(* One more report says what is listed now. *)
LEMMA AppendDescribes ==
    ASSUME NEW told \in Seq(Responses), NEW listed \in Listings, Describe(told, listed),
           NEW x \in Devices, NEW i \in Infos \cup {None},
           NEW r \in Responses, r.data = <<x, i>>
    PROVE  Describe(Append(told, r), [listed EXCEPT ![x] = i])
<1> DEFINE q == Append(told, r)
           new == [listed EXCEPT ![x] = i]
<1>1. /\ DOMAIN q = DOMAIN told \cup {Len(told) + 1}
      /\ \A k \in DOMAIN told : q[k] = told[k] /\ k \in Nat /\ k <= Len(told)
      /\ q[Len(told) + 1] = r /\ Len(told) \in Nat
  OBVIOUS
<1>2. new[x] = i /\ \A d \in Devices : d # x => new[d] = listed[d]
  BY DEF Listings
<1>3. r.data[1] = x
  OBVIOUS
<1> HIDE DEF q, new
<1>4. ASSUME NEW d \in Devices
      PROVE  \/ /\ \A k \in DOMAIN q : q[k].data[1] # d
                /\ new[d] = None
             \/ \E k \in DOMAIN q :
                   /\ q[k].data = <<d, new[d]>>
                   /\ \A j \in DOMAIN q : j > k => q[j].data[1] # d
  <2>1. CASE d = x
    <3>1. \A j \in DOMAIN q : ~(j > Len(told) + 1)
      BY <1>1
    <3>2. Len(told) + 1 \in DOMAIN q /\ q[Len(told) + 1].data = <<x, i>>
      BY <1>1
    <3> QED  BY <2>1, <3>1, <3>2, <1>2
  <2>2. CASE d # x
    <3>1. CASE (\A k \in DOMAIN told : told[k].data[1] # d) /\ listed[d] = None
      BY <2>2, <3>1, <1>1, <1>2, <1>3
    <3>2. CASE \E k \in DOMAIN told :
                  /\ told[k].data = <<d, listed[d]>>
                  /\ \A j \in DOMAIN told : j > k => told[j].data[1] # d
      <4>1. PICK k \in DOMAIN told :
                    /\ told[k].data = <<d, listed[d]>>
                    /\ \A j \in DOMAIN told : j > k => told[j].data[1] # d
        BY <3>2
      <4>2. k \in DOMAIN q /\ q[k].data = <<d, new[d]>>
        BY <4>1, <2>2, <1>1, <1>2
      <4>3. \A j \in DOMAIN q : j > k => q[j].data[1] # d
        BY <4>1, <2>2, <1>1, <1>3
      <4> QED  BY <4>2, <4>3
    <3> QED  BY <3>1, <3>2 DEF Describe
  <2> QED  BY <2>1, <2>2
<1>5. Describe(q, new)
  BY <1>4 DEF Describe
<1> QED  BY <1>5 DEF q, new

(* One more batch of messages begins where the last one ended. *)
LEMMA AppendAdjoins ==
    ASSUME NEW told \in Seq(Responses), told # <<>>, Adjoin(told), NEW n \in Nat,
           told[Len(told)].data[2] = n,
           NEW r \in Responses, r.data = <<n, n + 1>>
    PROVE  LET q == Append(told, r)
           IN  q # <<>> /\ Adjoin(q) /\ q[Len(q)].data[2] = n + 1
<1> DEFINE q == Append(told, r)
<1>1. /\ Len(told) \in Nat /\ Len(told) # 0 /\ Len(q) = Len(told) + 1
      /\ \A k \in 1..Len(told) : q[k] = told[k]
      /\ q[Len(told) + 1] = r
      /\ q # <<>>
  OBVIOUS
<1>2. r.data[1] = n /\ r.data[2] = n + 1
  OBVIOUS
<1> HIDE DEF q
<1>3. ASSUME NEW k \in 1..(Len(q) - 1)
      PROVE  q[k].data[2] = q[k + 1].data[1]
  <2>1. CASE k = Len(told)
    BY <2>1, <1>1, <1>2
  <2>2. CASE k # Len(told)
    <3>1. k \in 1..(Len(told) - 1) /\ q[k] = told[k] /\ q[k + 1] = told[k + 1]
      BY <2>2, <1>1
    <3> QED  BY <3>1 DEF Adjoin
  <2> QED  BY <2>1, <2>2
<1>4. Adjoin(q)
  BY <1>3 DEF Adjoin
<1> QED  BY <1>1, <1>2, <1>4 DEF q

(* Who is notified of a change is up to date again. *)
LEMMA NotifiedFacts ==
    ASSUME Typed, NEW s \in Servers, NEW topic \in {"devices", "messages"},
           NEW r \in Responses, r.type # "stopping"
    PROVE  /\ Notified(s, topic, r) \in [Clients -> SocketType]
           /\ \A d \in Clients :
                LET w == Notified(s, topic, r)[d]
                IN  /\ w.watching = socket[d].watching
                    /\ w.request = socket[d].request
                    /\ w.hungUp = socket[d].hungUp
                    /\ IF Serves(s, d) /\ socket[d].watching = topic /\ Runs(d)
                       THEN w.responses = socket[d].responses \o <<r>>
                       ELSE w = socket[d]
                    /\ (\E i \in DOMAIN w.responses : w.responses[i].type = "stopping")
                           => SaysStopping(d)
<1> DEFINE n == Notified(s, topic, r)
           one == <<r>>
<1>1. one \in Seq(Responses) /\ \A j \in DOMAIN one : one[j].type # "stopping"
  OBVIOUS
<1>2. n = [d \in Clients |->
             IF d \in Watchers(s, topic) /\ Runs(d) THEN Sent(socket[d], one) ELSE socket[d]]
  BY DEF Notified
<1>3. ASSUME NEW d \in Clients
      PROVE  d \in Watchers(s, topic) <=> Serves(s, d) /\ socket[d].watching = topic
  BY ToSetServes DEF Watchers
<1> HIDE DEF n, one
<1>4. ASSUME NEW d \in Clients
      PROVE  /\ n[d] \in SocketType
             /\ n[d].watching = socket[d].watching
             /\ n[d].request = socket[d].request
             /\ n[d].hungUp = socket[d].hungUp
             /\ IF Serves(s, d) /\ socket[d].watching = topic /\ Runs(d)
                THEN n[d].responses = socket[d].responses \o one
                ELSE n[d] = socket[d]
             /\ (\E i \in DOMAIN n[d].responses : n[d].responses[i].type = "stopping")
                    => SaysStopping(d)
  <2>1. socket[d] \in SocketType
    BY DEF Typed
  <2>2. CASE Serves(s, d) /\ socket[d].watching = topic /\ Runs(d)
    <3>1. n[d] = Sent(socket[d], one)
      BY <2>2, <1>2, <1>3
    <3>2. /\ n[d] \in SocketType
          /\ n[d].responses = socket[d].responses \o one
          /\ n[d].watching = socket[d].watching
          /\ n[d].request = socket[d].request
          /\ n[d].hungUp = socket[d].hungUp
      BY <3>1, <2>1, <1>1, SentFacts
    <3>3. ASSUME NEW i \in DOMAIN n[d].responses, n[d].responses[i].type = "stopping"
          PROVE  SaysStopping(d)
      BY <3>1, <3>3, <2>1, <1>1, SentOfStop DEF SaysStopping
    <3> QED  BY <2>2, <3>2, <3>3
  <2>3. CASE ~(Serves(s, d) /\ socket[d].watching = topic /\ Runs(d))
    <3>1. n[d] = socket[d]
      BY <2>3, <1>2, <1>3
    <3> QED  BY <2>1, <2>3, <3>1 DEF SaysStopping
  <2> QED  BY <2>2, <2>3
<1>5. n \in [Clients -> SocketType]
  BY <1>2, <1>4
<1> QED  BY <1>4, <1>5 DEF n, one

(* The response r tells of the change that s makes to what it knows. *)
Announces(s, topic, r, listed, logged) ==
    \/ /\ topic = "messages" /\ listed = server[s].listed
       /\ logged = server[s].logged + 1
       /\ r.data = <<server[s].logged, server[s].logged + 1>>
    \/ /\ topic = "devices" /\ logged = server[s].logged
       /\ \E x \in Devices, i \in Infos \cup {None} :
             /\ r.data = <<x, i>>
             /\ listed = [server[s].listed EXCEPT ![x] = i]

(* Who is up to date and hears of a change is up to date after it. *)
LEMMA NotifiedUpToDate ==
    ASSUME IInv, NEW s \in Servers, NEW topic \in {"devices", "messages"},
           NEW r \in Responses, r.type # "stopping",
           UNCHANGED client, NEW d \in Clients, Serves(s, d), Runs(d),
           socket'[d] = Notified(s, topic, r)[d],
           Announces(s, topic, r, server'[s].listed, server'[s].logged)
    PROVE  ToldOfDevices(d, s)' /\ ToldOfMessages(d, s)'
<1> DEFINE w == Notified(s, topic, r)[d]
           told == Told(d)
<1>1. /\ w.watching = socket[d].watching
      /\ IF socket[d].watching = topic
         THEN w.responses = socket[d].responses \o <<r>>
         ELSE w = socket[d]
  BY NotifiedFacts DEF IInv
<1>2. ToldOfDevices(d, s) /\ ToldOfMessages(d, s)
  BY DEF IInv, ServedAreUpToDate
<1>3. /\ client[d].printed \in Seq(Responses) /\ socket[d].responses \in Seq(Responses)
      /\ server[s].listed \in Listings /\ server[s].logged \in Nat
  BY DEF IInv, Typed, ClientType, SocketType, ServerType
<1>4. told \in Seq(Responses)
  BY <1>3 DEF Told
<1>5. Told(d)' = client[d].printed \o w.responses
  BY DEF Told
<1> HIDE DEF w
<1>6. socket'[d].watching = socket[d].watching
  BY <1>1 DEF w
<1>7. CASE socket[d].watching = topic
  <2>1. Told(d)' = Append(told, r)
    <3>1. <<r>> \in Seq(Responses)
      OBVIOUS
    <3>2. Told(d)' = client[d].printed \o (socket[d].responses \o <<r>>)
      BY <1>1, <1>5, <1>7
    <3> DEFINE p == client[d].printed
               u == socket[d].responses
               one == <<r>>
    <3> HIDE DEF p, u, one
    <3>a. (p \o u) \o one = p \o (u \o one)
      <4>1. p \in Seq(Responses) /\ u \in Seq(Responses) /\ one \in Seq(Responses)
        BY <3>1, <1>3 DEF p, u, one
      <4> QED  BY <4>1, ConcatAssociative
    <3>3. Told(d)' = told \o <<r>>
      BY <3>2, <3>a DEF Told, p, u, one
    <3> QED  BY <3>3, <1>4, AppendIsConcat
  <2> HIDE DEF told
  <2>2. CASE topic = "messages"
    <3>1. /\ told # <<>> /\ Adjoin(told)
          /\ told[Len(told)].data[2] = server[s].logged
      BY <2>2, <1>2, <1>7 DEF ToldOfMessages, told
    <3>2. /\ r.data = <<server[s].logged, server[s].logged + 1>>
          /\ server'[s].logged = server[s].logged + 1
      BY <2>2 DEF Announces
    <3> DEFINE q == Append(told, r)
               m == server[s].logged
    <3> HIDE DEF m
    <3>3. q # <<>> /\ Adjoin(q) /\ q[Len(q)].data[2] = m + 1
      <4>1. m \in Nat /\ told[Len(told)].data[2] = m /\ r.data = <<m, m + 1>>
        BY <1>3, <3>1, <3>2 DEF m
      <4> QED  BY <4>1, <3>1, <1>4, AppendAdjoins
    <3>4. Told(d)' = q
      BY <2>1
    <3> HIDE DEF q
    <3>5. ToldOfMessages(d, s)'
      BY <3>2, <3>3, <3>4 DEF ToldOfMessages, Adjoin, m
    <3>6. ToldOfDevices(d, s)'
      BY <2>2, <1>6, <1>7 DEF ToldOfDevices
    <3> QED  BY <3>5, <3>6
  <2>3. CASE topic = "devices"
    <3>1. Describe(told, server[s].listed)
      BY <2>3, <1>2, <1>7 DEF ToldOfDevices, told
    <3>2. PICK x \in Devices, i \in Infos \cup {None} :
             /\ r.data = <<x, i>>
             /\ server'[s].listed = [server[s].listed EXCEPT ![x] = i]
      BY <2>3 DEF Announces
    <3>3. Describe(Append(told, r), server'[s].listed)
      <4> DEFINE listed == server[s].listed
                 new == [listed EXCEPT ![x] = i]
      <4>1. /\ listed \in Listings /\ Describe(told, listed)
            /\ r.data = <<x, i>> /\ server'[s].listed = new
        BY <3>1, <3>2, <1>3
      <4> HIDE DEF listed
      <4>2. Describe(Append(told, r), new)
        BY <4>1, <1>4, AppendDescribes
      <4> HIDE DEF new
      <4> QED  BY <4>1, <4>2
    <3>4. ToldOfDevices(d, s)'
      BY <2>1, <3>3 DEF ToldOfDevices
    <3>5. ToldOfMessages(d, s)'
      BY <2>3, <1>6, <1>7 DEF ToldOfMessages
    <3> QED  BY <3>4, <3>5
  <2> QED  BY <2>2, <2>3
<1>8. CASE socket[d].watching # topic
  <2>1. socket'[d] = socket[d] /\ Told(d)' = Told(d)
    BY <1>1, <1>8 DEF Told, w
  <2>2. CASE topic = "messages"
    <3>1. ToldOfMessages(d, s)'
      BY <2>1, <2>2, <1>8 DEF ToldOfMessages
    <3>2. ToldOfDevices(d, s)'
      BY <2>1, <2>2, <1>2 DEF ToldOfDevices, Announces
    <3> QED  BY <3>1, <3>2
  <2>3. CASE topic = "devices"
    <3>1. ToldOfDevices(d, s)'
      BY <2>1, <2>3, <1>8 DEF ToldOfDevices
    <3>2. ToldOfMessages(d, s)'
      BY <2>1, <2>3, <1>2 DEF ToldOfMessages, Announces
    <3> QED  BY <3>1, <3>2
  <2> QED  BY <2>2, <2>3
<1> QED  BY <1>7, <1>8

(* A change is told to all who watch for it, and to nobody else. *)
LEMMA NotifiesIInv ==
    ASSUME IInv, NEW s \in Servers, NEW topic \in {"devices", "messages"},
           NEW r \in Responses, r.type # "stopping",
           UNCHANGED <<client, path>>, socket' = Notified(s, topic, r),
           NEW k \in ServerType, server' = [server EXCEPT ![s] = k],
           k.state = server[s].state, k.pending = server[s].pending,
           k.servlets = server[s].servlets,
           Announces(s, topic, r, k.listed, k.logged)
    PROVE  IInv'
<1>1. server'[s] = k /\ \A t \in Servers : t # s => server'[t] = server[t]
  BY DEF IInv, Typed
<1>2. Typed
  BY DEF IInv
<1>3. socket' \in [Clients -> SocketType]
  BY <1>2, NotifiedFacts
<1>4. Typed'
  BY <1>3 DEF IInv, Typed
<1>5. ASSUME NEW d \in Clients
      PROVE  /\ Written(d) \/ socket'[d] = socket[d]
             /\ SaysStopping(d)' => SaysStopping(d)
             /\ ~Serves(s, d) => socket'[d] = socket[d]
  <2> DEFINE w == Notified(s, topic, r)[d]
  <2>1. /\ w.watching = socket[d].watching
        /\ w.request = socket[d].request
        /\ w.hungUp = socket[d].hungUp
        /\ IF Serves(s, d) /\ socket[d].watching = topic /\ Runs(d)
           THEN w.responses = socket[d].responses \o <<r>>
           ELSE w = socket[d]
        /\ (\E i \in DOMAIN w.responses : w.responses[i].type = "stopping")
               => SaysStopping(d)
    BY <1>2, NotifiedFacts
  <2>2. socket'[d] = w
    OBVIOUS
  <2> HIDE DEF w
  <2>3. Written(d) \/ socket'[d] = socket[d]
    BY <2>1, <2>2 DEF Written
  <2>4. SaysStopping(d)' => SaysStopping(d)
    BY <2>1, <2>2 DEF SaysStopping
  <2> QED  BY <2>1, <2>2, <2>3, <2>4
<1>6. \A t \in Servers, d \in Clients :
         (Serves(t, d)' <=> Serves(t, d)) /\ (Awaits(t, d)' <=> Awaits(t, d))
  BY <1>1 DEF Serves, Awaits
<1>7. KnowsNoMore
  BY <1>6 DEF KnowsNoMore
<1>8. KnownOnce'
  <2>1. KnownOnce /\ \A t \in Servers : server'[t].pending = server[t].pending
    BY <1>1 DEF IInv
  <2>2. \A t \in Servers : \A i, j \in DOMAIN server'[t].pending :
           server'[t].pending[i] = server'[t].pending[j] => i = j
    BY <2>1 DEF KnownOnce
  <2> QED  BY <1>6, <2>1, <2>2 DEF KnownOnce
<1>9. StoppedStayStopped
  BY <1>1 DEF StoppedStayStopped, OutOfReach, IInv, ClosingIsOutOfReach
<1>10. ASSUME NEW t \in Servers, NEW d \in Clients, Serves(t, d)', Runs(d)
       PROVE  \/ /\ Serves(t, d) /\ socket'[d] = socket[d]
                 /\ server'[t].listed = server[t].listed
                 /\ server'[t].logged = server[t].logged
              \/ ToldOfDevices(d, t)' /\ ToldOfMessages(d, t)'
  <2>1. Serves(t, d)
    BY <1>6, <1>10
  <2>2. CASE t = s
    <3>1. Announces(s, topic, r, server'[s].listed, server'[s].logged)
      BY <1>1
    <3>2. socket'[d] = Notified(s, topic, r)[d] /\ Serves(s, d)
      BY <2>1, <2>2
    <3>3. ToldOfDevices(d, s)' /\ ToldOfMessages(d, s)'
      BY <3>1, <3>2, <1>10, NotifiedUpToDate
    <3> QED  BY <2>2, <3>3
  <2>3. CASE t # s
    <3>1. ~Serves(s, d)
      BY <2>1, <2>3 DEF IInv, KnownAreConnected
    <3> QED  BY <2>1, <2>3, <3>1, <1>1, <1>5
  <2> QED  BY <2>2, <2>3
<1> QED  BY <1>4, <1>5, <1>7, <1>8, <1>9, <1>10, ServerStepIInv

(* A new message is reported with the number it gets. *)
LEMMA NewMessageFacts ==
    ASSUME NEW s \in Servers, server[s].logged \in Nat
    PROVE  /\ NewMessage(s) \in Responses /\ NewMessage(s).type # "stopping"
           /\ NewMessage(s).data = <<server[s].logged, server[s].logged + 1>>
BY ResponseFacts DEF NewMessage, ResponseTypes

(* A message is logged. *)
LEMMA EmitNewMessageIInv ==
    ASSUME IInv, NEW s \in Servers, EmitNewMessage(s)
    PROVE  IInv'
<1> DEFINE k == [server[s] EXCEPT !.logged = server[s].logged + 1]
           r == NewMessage(s)
<1>1. server[s] \in ServerType /\ server[s].logged \in Nat
  BY DEF IInv, Typed, ServerType
<1>2. /\ k \in ServerType /\ k.state = server[s].state /\ k.pending = server[s].pending
      /\ k.servlets = server[s].servlets /\ k.listed = server[s].listed
      /\ k.logged = server[s].logged + 1
  BY <1>1 DEF ServerType
<1>3. /\ server' = [server EXCEPT ![s] = k] /\ UNCHANGED <<client, path>>
      /\ socket' = Notified(s, "messages", r)
  BY <1>1 DEF EmitNewMessage, IInv, Typed, ServerType
<1> HIDE DEF k
<1>4. /\ r \in Responses /\ r.type # "stopping"
      /\ r.data = <<server[s].logged, server[s].logged + 1>>
  BY <1>1, NewMessageFacts
<1> HIDE DEF r
<1>5. Announces(s, "messages", r, k.listed, k.logged)
  BY <1>2, <1>4 DEF Announces
<1> QED  BY <1>2, <1>3, <1>4, <1>5, NotifiesIInv

(* A device is listed, changed or taken off the list. *)
LEMMA ListsIInv ==
    ASSUME IInv, NEW s \in Servers, NEW x \in Devices, NEW i \in Infos \cup {None},
           NEW type \in {"new-device", "disconnected-device"},
           server' = [server EXCEPT ![s].listed[x] = i], UNCHANGED <<client, path>>,
           socket' = Notified(s, "devices", Response(type, <<x, i>>))
    PROVE  IInv'
<1> DEFINE listed == [server[s].listed EXCEPT ![x] = i]
           k == [server[s] EXCEPT !.listed = listed]
           r == Response(type, <<x, i>>)
<1>1. server[s] \in ServerType /\ server[s].listed \in Listings
  BY DEF IInv, Typed, ServerType
<1>2. listed \in Listings
  BY <1>1 DEF Listings
<1>3. server' = [server EXCEPT ![s] = k]
  BY <1>1 DEF IInv, Typed, ServerType
<1>4. listed = [server[s].listed EXCEPT ![x] = i]
  OBVIOUS
<1> HIDE DEF listed
<1>5. /\ k \in ServerType /\ k.state = server[s].state /\ k.pending = server[s].pending
      /\ k.servlets = server[s].servlets /\ k.listed = listed
      /\ k.logged = server[s].logged
  BY <1>1, <1>2 DEF ServerType
<1> HIDE DEF k
<1>6. r \in Responses /\ r.type # "stopping" /\ r.data = <<x, i>>
  BY ResponseFacts DEF ResponseTypes
<1>7. socket' = Notified(s, "devices", r)
  OBVIOUS
<1> HIDE DEF r
<1>8. Announces(s, "devices", r, k.listed, k.logged)
  BY <1>4, <1>5, <1>6 DEF Announces
<1> QED  BY <1>3, <1>5, <1>6, <1>7, <1>8, NotifiesIInv

(* A device is listed, or its information has changed. *)
LEMMA HandleNewDeviceInfoIInv ==
    ASSUME IInv, NEW s \in Servers, NEW x \in Devices, NEW i \in Infos,
           HandleNewDeviceInfo(s, x, i)
    PROVE  IInv'
BY ListsIInv DEF HandleNewDeviceInfo

(* A device is taken off the list. *)
LEMMA HandleDisconnectedDeviceIInv ==
    ASSUME IInv, NEW s \in Servers, NEW x \in Devices, HandleDisconnectedDevice(s, x)
    PROVE  IInv'
BY ListsIInv DEF HandleDisconnectedDevice

(* An interrupt closes the server with nobody to tell. *)
LEMMA InterruptIInv ==
    ASSUME IInv, NEW s \in Servers, Interrupt(s)
    PROVE  IInv'
BY CloseIInv DEF Interrupt

(* The refusal of a version is logged, which the watches of messages are told,
   and the client is let go. *)
LEMMA RefuseVersionIInv ==
    ASSUME IInv, NEW s \in Servers, NEW c \in Clients, Serves(s, c),
           socket[c].request = TRUE, UNCHANGED client, RefuseVersion(s, c)
    PROVE  IInv'
<1> DEFINE r == NewMessage(s)
           n == Notified(s, "messages", r)
           u == <<Response("unsupported-version", <<>>)>>
           w == Sent(n[c], u)
           e == Ended(w)
           k == [server[s] EXCEPT !.servlets = Erased(s, c), !.logged = server[s].logged + 1]
<1>1. Typed /\ server[s] \in ServerType /\ server[s].logged \in Nat
  BY DEF IInv, Typed, ServerType
<1>2. r \in Responses /\ r.type # "stopping"
  BY <1>1, NewMessageFacts
<1>3. r.data = <<server[s].logged, server[s].logged + 1>>
  BY <1>1, NewMessageFacts
<1>4. Erased(s, c) \in Seq(Clients)
  BY <1>1, ErasedFacts
<1>5. /\ k \in ServerType /\ k.state = server[s].state /\ k.pending = server[s].pending
      /\ k.servlets = Erased(s, c) /\ k.listed = server[s].listed
      /\ k.logged = server[s].logged + 1
  <2> DEFINE old == server[s]
             list == Erased(s, c)
             next == old.logged + 1
             h == [old EXCEPT !.servlets = list]
  <2>1. old \in ServerType /\ list \in Seq(Clients) /\ next \in Nat
    BY <1>1, <1>4
  <2>2. k = [h EXCEPT !.logged = next]
    OBVIOUS
  <2> HIDE DEF list, next
  <2>3. /\ h \in ServerType /\ h.state = old.state /\ h.pending = old.pending
        /\ h.servlets = list /\ h.listed = old.listed
    BY <2>1 DEF ServerType
  <2> HIDE DEF h
  <2>4. /\ k \in ServerType /\ k.state = h.state /\ k.pending = h.pending
        /\ k.servlets = h.servlets /\ k.listed = h.listed /\ k.logged = next
    BY <2>1, <2>2, <2>3 DEF ServerType
  <2> QED  BY <2>3, <2>4 DEF list, next
<1>6. n \in [Clients -> SocketType]
  BY <1>1, <1>2, NotifiedFacts
<1>7. /\ server' = [server EXCEPT ![s] = k] /\ UNCHANGED path
      /\ socket' = [n EXCEPT ![c] = e]
  BY <1>1, <1>6 DEF RefuseVersion, Typed, ServerType
<1>8. u \in Seq(Responses) /\ \A j \in DOMAIN u : u[j].type # "stopping"
  <2>1. /\ Response("unsupported-version", <<>>) \in Responses
        /\ Response("unsupported-version", <<>>).type = "unsupported-version"
    BY ResponseFacts DEF ResponseTypes
  <2> QED  BY <2>1
<1>9. \A d \in Clients :
         /\ n[d].watching = socket[d].watching
         /\ n[d].request = socket[d].request
         /\ n[d].hungUp = socket[d].hungUp
         /\ IF Serves(s, d) /\ socket[d].watching = "messages" /\ Runs(d)
            THEN n[d].responses = socket[d].responses \o <<r>>
            ELSE n[d] = socket[d]
         /\ (\E i \in DOMAIN n[d].responses : n[d].responses[i].type = "stopping")
                => SaysStopping(d)
  BY <1>1, <1>2, NotifiedFacts
<1>10. Announces(s, "messages", r, k.listed, k.logged)
  BY <1>3, <1>5 DEF Announces
<1> HIDE DEF k, u
<1>11. w \in SocketType
  BY <1>6, <1>8, SentFacts
<1>12. ASSUME NEW i \in DOMAIN w.responses, w.responses[i].type = "stopping"
       PROVE  SaysStopping(c)
  <2>1. \E j \in DOMAIN n[c].responses : n[c].responses[j].type = "stopping"
    BY <1>6, <1>8, <1>12, SentOfStop
  <2> QED  BY <2>1, <1>9
<1> HIDE DEF w
<1>13. /\ e \in SocketType /\ e.responses = w.responses
       /\ e.request = FALSE /\ e.hungUp = TRUE
  BY <1>11, EndedFacts
<1> HIDE DEF e
<1>14. socket'[c] = e /\ \A d \in Clients : d # c => socket'[d] = n[d]
  BY <1>6, <1>7
<1>15. server'[s] = k /\ \A t \in Servers : t # s => server'[t] = server[t]
  BY <1>1, <1>7 DEF Typed
<1>16. Typed'
  <2>1. socket' \in [Clients -> SocketType]
    BY <1>6, <1>7, <1>13
  <2> QED  BY <2>1, <1>1, <1>5, <1>7 DEF Typed
<1>17. client[c].peer = s /\ client[c].peer # None
  BY ProcessesAssumption DEF IInv, KnownAreConnected
<1>18. ASSUME NEW t \in Servers, NEW d \in Clients
       PROVE  /\ Awaits(t, d)' <=> Awaits(t, d)
              /\ Serves(t, d)' => Serves(t, d)
              /\ Serves(t, d)' => d # c
  <2>1. Awaits(t, d)' <=> Awaits(t, d)
    BY <1>5, <1>15 DEF Awaits
  <2>2. CASE t # s
    <3>1. Serves(t, d)' => Serves(t, d)
      BY <2>2, <1>15 DEF Serves
    <3>2. Serves(t, c) => client[c].peer = t
      BY DEF IInv, KnownAreConnected
    <3> QED  BY <2>1, <2>2, <3>1, <3>2, <1>17
  <2>3. CASE t = s
    <3>1. Serves(s, d)' <=> \E i \in DOMAIN Erased(s, c) : Erased(s, c)[i] = d
      BY <1>5, <1>15 DEF Serves
    <3> QED  BY <2>1, <2>3, <3>1, <1>1, ErasedFacts
  <2> QED  BY <2>2, <2>3
<1>19. KnowsNoMore
  BY <1>18 DEF KnowsNoMore
<1>20. KnownOnce'
  <2>1. KnownOnce /\ \A t \in Servers : server'[t].pending = server[t].pending
    BY <1>5, <1>15 DEF IInv
  <2>2. \A t \in Servers : \A i, j \in DOMAIN server'[t].pending :
           server'[t].pending[i] = server'[t].pending[j] => i = j
    BY <2>1 DEF KnownOnce
  <2> QED  BY <1>18, <2>1, <2>2 DEF KnownOnce
<1>21. StoppedStayStopped
  BY <1>5, <1>7, <1>15 DEF StoppedStayStopped, OutOfReach, IInv, ClosingIsOutOfReach
<1>22. ASSUME NEW d \in Clients
       PROVE  \/ socket'[d] = socket[d]
              \/ Written(d) \/ Begins(d) \/ LetGo(d)
  <2>1. CASE d # c
    BY <2>1, <1>9, <1>14 DEF Written
  <2>2. CASE d = c
    <3>1. \A t \in Servers : ~Serves(t, c)' /\ ~Awaits(t, c)'
      BY <1>17, <1>18 DEF IInv, KnownOnce, KnownAreConnected
    <3> QED  BY <2>2, <3>1, <1>13, <1>14, <1>17 DEF LetGo
  <2> QED  BY <2>1, <2>2
<1>23. ASSUME NEW d \in Clients, SaysStopping(d)'
       PROVE  SaysStopping(d)
  <2>1. CASE d # c
    BY <2>1, <1>9, <1>14, <1>23 DEF SaysStopping
  <2>2. CASE d = c
    BY <2>2, <1>12, <1>13, <1>14, <1>23 DEF SaysStopping
  <2> QED  BY <2>1, <2>2
<1>24. ASSUME NEW t \in Servers, NEW d \in Clients, Serves(t, d)', Runs(d)
       PROVE  \/ /\ Serves(t, d) /\ socket'[d] = socket[d]
                 /\ server'[t].listed = server[t].listed
                 /\ server'[t].logged = server[t].logged
              \/ ToldOfDevices(d, t)' /\ ToldOfMessages(d, t)'
  <2>1. d # c /\ Serves(t, d)
    BY <1>18, <1>24
  <2>2. CASE t = s
    <3>1. Announces(s, "messages", r, server'[s].listed, server'[s].logged)
      BY <1>10, <1>15
    <3>2. socket'[d] = n[d] /\ Serves(s, d)
      BY <2>1, <2>2, <1>14
    <3>3. ToldOfDevices(d, s)' /\ ToldOfMessages(d, s)'
      BY <3>1, <3>2, <1>2, <1>24, NotifiedUpToDate
    <3> QED  BY <2>2, <3>3
  <2>3. CASE t # s
    <3>1. ~Serves(s, d)
      BY <2>1, <2>3 DEF IInv, KnownAreConnected
    <3>2. socket'[d] = socket[d]
      BY <2>1, <3>1, <1>9, <1>14
    <3> QED  BY <2>1, <2>3, <3>2, <1>15
  <2> QED  BY <2>2, <2>3
<1> QED  BY <1>16, <1>19, <1>20, <1>21, <1>22, <1>23, <1>24, ServerStepIInv

(* A servlet acts on its request. *)
LEMMA HandleRequestIInv ==
    ASSUME IInv, NEW s \in Servers, NEW c \in Clients, HandleRequest(s, c)
    PROVE  IInv'
<1> DEFINE devices == Response("devices", server[s].listed)
           messages == AllMessages(s)
<1>1. Serves(s, c) /\ socket[c].request = TRUE /\ UNCHANGED client
  <2>1. socket[c] \in SocketType
    BY DEF IInv, Typed
  <2> QED  BY <2>1, ToSetServes DEF HandleRequest, SocketType
<1>3. /\ server[s].listed \in Listings
      /\ server[s].cleared \in Nat /\ server[s].logged \in Nat
  BY DEF IInv, Typed, ServerType
<1>4. devices \in Responses /\ devices.type # "stopping"
  BY <1>3, ResponseFacts DEF ResponseTypes
<1>5. /\ messages \in Responses /\ messages.type # "stopping"
      /\ messages.data = <<server[s].cleared, server[s].logged>>
  BY <1>3, ResponseFacts DEF AllMessages, ResponseTypes
<1> HIDE DEF devices, messages
<1>6. CASE RefuseVersion(s, c)
  BY <1>1, <1>6, RefuseVersionIInv
<1>7. CASE Reply(s, c, devices, server[s].cleared)
  BY <1>1, <1>3, <1>4, <1>7, ReplyIInv
<1>8. CASE Reply(s, c, messages, server[s].cleared)
  BY <1>1, <1>3, <1>5, <1>8, ReplyIInv
<1>9. CASE Reply(s, c, messages, server[s].logged)
  BY <1>1, <1>3, <1>5, <1>9, ReplyIInv
<1>10. CASE Close(s, c)
  BY <1>1, <1>10, CloseIInv
<1>11. CASE StartWatchingDevices(s, c)
  <2> DEFINE q == SetToSeq(Reports(server[s].listed))
  <2>1. StartWatching(c, "devices", q) /\ UNCHANGED <<server, path>>
    BY <1>11 DEF StartWatchingDevices, Reports
  <2>2. /\ q \in Seq(Responses) /\ Describe(q, server[s].listed)
        /\ \A i \in DOMAIN q : q[i].type # "stopping"
    BY <1>3, FirstReports
  <2> HIDE DEF q
  <2> QED  BY <1>1, <2>1, <2>2, StartWatchingIInv
<1>12. CASE StartWatchingMessages(s, c)
  <2> DEFINE q == <<messages>>
  <2>1. StartWatching(c, "messages", q) /\ UNCHANGED <<server, path>>
    BY <1>12 DEF StartWatchingMessages, messages
  <2>2. /\ q \in Seq(Responses) /\ q # <<>> /\ Len(q) = 1 /\ q[1] = messages
        /\ \A i \in DOMAIN q : q[i].type # "stopping"
    BY <1>5
  <2>3. q[Len(q)].data[2] = server[s].logged
    BY <2>2, <1>5
  <2> HIDE DEF q
  <2>4. Adjoin(q)
    BY <2>2 DEF Adjoin
  <2> QED  BY <1>1, <2>1, <2>2, <2>3, <2>4, StartWatchingIInv
<1> QED
  BY <1>6, <1>7, <1>8, <1>9, <1>10, <1>11, <1>12
     DEF HandleRequest, ReplyDevices, devices, messages
-----------------------------------------------------------------------------
(* The first state has the invariant. *)
LEMMA InitIInv == ASSUME Init PROVE IInv
<1>1. PICK work \in Workloads : client = [c \in Clients |->
           [phase |-> "idle", command |-> work[c], tried |-> FALSE, exit |-> None,
            peer |-> None, printed |-> <<>>]]
  BY DEF Init
<1>2. \A c \in Clients : work[c] \in Command
  BY ProcessesAssumption
<1>3. \A c \in Clients :
         /\ client[c] \in ClientType
         /\ client[c].phase = "idle" /\ client[c].exit = None
         /\ client[c].peer = None /\ client[c].printed = <<>>
  <2>1. <<>> \in Seq(Responses)
    OBVIOUS
  <2> QED  BY <1>1, <1>2, <2>1 DEF ClientType
<1>4. \A c \in Clients :
         /\ socket[c] \in SocketType
         /\ socket[c] = [request |-> FALSE, responses |-> <<>>,
                         watching |-> "nothing", hungUp |-> FALSE]
  <2>1. <<>> \in Seq(Responses)
    OBVIOUS
  <2> QED  BY <2>1 DEF Init, SocketType
<1>5. \A s \in Servers :
         /\ server[s] \in ServerType
         /\ server[s].pending = <<>> /\ server[s].servlets = <<>>
         /\ server[s].state = "none"
  BY ProcessTyped DEF Init
<1>6. Typed
  BY <1>1, <1>3, <1>4, <1>5 DEF Typed, Init
<1>7. \A s \in Servers, c \in Clients : ~Serves(s, c) /\ ~Awaits(s, c)
  BY <1>5 DEF Serves, Awaits
<1>8. KnownAreConnected /\ AwaitedAreNotWatching /\ ServedAreUpToDate
  BY <1>7 DEF KnownAreConnected, AwaitedAreNotWatching, ServedAreUpToDate
<1>9. KnownOnce
  BY <1>5, <1>7 DEF KnownOnce
<1>10. UnconnectedAreNew /\ ExitsAtEnd
  BY <1>3, <1>4 DEF UnconnectedAreNew, ExitsAtEnd
<1>11. NotWatchingNotTold
  BY <1>3, <1>4 DEF NotWatchingNotTold
<1>12. ClosingIsOutOfReach
  BY <1>5 DEF ClosingIsOutOfReach
<1>13. StopIsTrue
  <2>1. \A c \in Clients : client[c].exit # 0 /\ DOMAIN socket[c].responses = {}
    BY <1>3, <1>4, ProcessesAssumption
  <2> QED  BY <2>1 DEF StopIsTrue, ToldOfStop
<1> QED  BY <1>6, <1>8, <1>9, <1>10, <1>11, <1>12, <1>13 DEF IInv

(* A step that changes nothing keeps the invariant. *)
LEMMA StutterIInv == ASSUME IInv, UNCHANGED vars PROVE IInv'
<1> USE DEF IInv
<1>1. UNCHANGED <<client, socket, server, path>>
  BY DEF vars
<1>2. Typed'
  BY <1>1 DEF Typed
<1>3. \A s \in Servers, c \in Clients :
         (Serves(s, c)' <=> Serves(s, c)) /\ (Awaits(s, c)' <=> Awaits(s, c))
  BY <1>1 DEF Serves, Awaits
<1>4. KnownAreConnected' /\ AwaitedAreNotWatching'
  BY <1>1, <1>3 DEF KnownAreConnected, AwaitedAreNotWatching
<1>5. KnownOnce'
  BY <1>1, <1>3 DEF KnownOnce
<1>6. UnconnectedAreNew' /\ ExitsAtEnd' /\ NotWatchingNotTold' /\ ClosingIsOutOfReach'
  BY <1>1 DEF UnconnectedAreNew, ExitsAtEnd, NotWatchingNotTold, ClosingIsOutOfReach
<1>7. StopIsTrue'
  BY <1>1 DEF StopIsTrue, ToldOfStop, OutOfReach, Asks
<1>8. ServedAreUpToDate'
  <2>1. ASSUME NEW s \in Servers, NEW c \in Clients, Serves(s, c)', Runs(c)'
        PROVE  ToldOfDevices(c, s)' /\ ToldOfMessages(c, s)'
    <3>1. ToldOfDevices(c, s) /\ ToldOfMessages(c, s)
      BY <1>1, <1>3, <2>1 DEF ServedAreUpToDate, Runs
    <3>2. Told(c)' = Told(c)
      BY <1>1 DEF Told
    <3> QED  BY <1>1, <3>1, <3>2, StillUpToDate
  <2> QED  BY <2>1 DEF ServedAreUpToDate
<1> QED  BY <1>2, <1>4, <1>5, <1>6, <1>7, <1>8

(* Every step keeps the invariant: one case for each action. *)
LEMMA NextIInv == ASSUME IInv, [Next]_vars PROVE IInv'
<1>1. CASE UNCHANGED vars
  BY <1>1, StutterIInv
<1>2. ASSUME NEW c \in Clients,
             ExecClient(c) \/ ClientStep(c) \/ AnswerTimesOut(c) \/ KillClient(c)
      PROVE  IInv'
  BY <1>2, ExecClientIInv, RetryIInv, HandleResponseIInv, HandleWatchMessageIInv,
     FailsIInv DEF ClientStep
<1>3. ASSUME NEW s \in Servers, ServerStep(s)
      PROVE  IInv'
  BY <1>3, RemoveSocketIInv, ListenIInv, HandleClientIInv, CloseServletIInv, QuitIInv,
     HandleRequestIInv, HandleDisconnectionIInv DEF ServerStep
<1>4. ASSUME NEW s \in Servers,
             \/ \E d \in Devices, info \in Infos : HandleNewDeviceInfo(s, d, info)
             \/ \E d \in Devices : HandleDisconnectedDevice(s, d)
             \/ EmitNewMessage(s) \/ Interrupt(s) \/ Crash(s)
      PROVE  IInv'
  BY <1>4, HandleNewDeviceInfoIInv, HandleDisconnectedDeviceIInv, EmitNewMessageIInv,
     InterruptIInv, CrashIInv
<1> QED  BY <1>1, <1>2, <1>3, <1>4 DEF Next

(* However many clients and servers run, what the servers and the clients'
   sockets hold fits together as IInv says (hostserver.cpp, hostservlet.cpp,
   client.cpp). *)
THEOREM Invariance == Spec => []IInv
<1>1. Init => IInv
  BY InitIInv
<1>2. IInv /\ [Next]_vars => IInv'
  BY NextIInv
<1> QED  BY <1>1, <1>2, PTL DEF Spec

(* What a watch has been told adds up to what its server knows, whenever it
   began and whatever other clients, devices and messages do meanwhile
   (hostservlet.cpp:188-214). *)
THEOREM WatchesMissNothing == Spec => []WatchersAreUpToDate
<1>1. IInv => WatchersAreUpToDate
  <2> SUFFICES ASSUME IInv, NEW s \in Servers, NEW c \in ToSet(server[s].servlets), Runs(c)
               PROVE  LET told == client[c].printed \o socket[c].responses
                      IN  /\ socket[c].watching = "devices" =>
                                 Describe(told, server[s].listed)
                          /\ socket[c].watching = "messages" =>
                                 Adjoin(told) /\ Last(told).data[2] = server[s].logged
    BY DEF WatchersAreUpToDate
  <2>1. Serves(s, c)
    BY ToSetServes
  <2>2. c \in Clients
    <3>1. server[s].servlets \in Seq(Clients)
      BY DEF IInv, Typed, ServerType
    <3> QED  BY <2>1, <3>1 DEF Serves
  <2>3. ToldOfDevices(c, s) /\ ToldOfMessages(c, s)
    BY <2>1, <2>2 DEF IInv, ServedAreUpToDate
  <2> QED  BY <2>3 DEF ToldOfDevices, ToldOfMessages, Told, Last
<1> QED  BY <1>1, Invariance, PTL

(* Once a client has been told that its server stops, no client can reach that
   server any more (hostserver.cpp:93-100, hostservlet.cpp:216-222). *)
THEOREM StopMeansOutOfReach == Spec => []StoppedMeansUnreachable
<1>1. IInv => StoppedMeansUnreachable
  BY DEF IInv, StopIsTrue, ToldOfStop, OutOfReach, StoppedMeansUnreachable
<1> QED  BY <1>1, Invariance, PTL
-----------------------------------------------------------------------------
(* The other way round: whoever is connected is known, and asks for something. *)

ServedOnce ==
    \A s \in Servers : \A i, j \in DOMAIN server[s].servlets :
        server[s].servlets[i] = server[s].servlets[j] => i = j

ConnectedAreKnown ==
    \A s \in Servers, c \in Clients :
        client[c].peer = s /\ socket[c].hungUp = FALSE => Serves(s, c) \/ Awaits(s, c)

OnlyRunningHaveClients ==
    \A s \in Servers :
        /\ server[s].state \notin {"up", "closing"} => server[s].servlets = <<>>
        /\ server[s].state # "up" => server[s].pending = <<>>

(* A request is taken only with its answer, or to watch. *)
AskingHaveRequests ==
    \A c \in Clients : client[c].phase = "asking" =>
        /\ client[c].peer \in Servers /\ ~Watches(c)
        /\ socket[c].request = TRUE \/ socket[c].hungUp = TRUE

(* No process ends without an exit code. *)
EndedHaveExited == \A c \in Clients : client[c].phase = "ended" => client[c].exit # None

KnownParts ==
    /\ ServedOnce
    /\ ConnectedAreKnown
    /\ OnlyRunningHaveClients
    /\ AskingHaveRequests
    /\ EndedHaveExited

KnownInv == IInv /\ KnownParts

(* Closing one client's servlet keeps all others, each of them once. *)
LEMMA ErasedKeepsOthers ==
    ASSUME Typed, ServedOnce, NEW s \in Servers, NEW c \in Clients
    PROVE  /\ \A i, j \in DOMAIN Erased(s, c) : Erased(s, c)[i] = Erased(s, c)[j] => i = j
           /\ \A d \in Clients : d # c /\ Serves(s, d) =>
                \E i \in DOMAIN Erased(s, c) : Erased(s, c)[i] = d
           /\ server[s].servlets = <<>> => Erased(s, c) = <<>>
<1> DEFINE q == server[s].servlets
           kept == {i \in DOMAIN q : q[i] # c}
           u == KeepAt(q, kept)
<1>1. q \in Seq(Clients) /\ kept \in SUBSET DOMAIN q
  BY DEF Typed, ServerType
<1>2. Erased(s, c) = u
  BY DEF Erased
<1>3. /\ u \in Seq(Clients)
      /\ \A k \in DOMAIN u : Nth(kept, k) \in kept /\ u[k] = q[Nth(kept, k)]
      /\ \A k, l \in DOMAIN u : k < l => Nth(kept, k) < Nth(kept, l)
      /\ \A i \in kept : \E k \in DOMAIN u : Nth(kept, k) = i
  BY <1>1, KeepAtParts
<1> HIDE DEF u
<1>4. ASSUME NEW i \in DOMAIN u, NEW j \in DOMAIN u, u[i] = u[j] PROVE i = j
  <2>1. /\ Nth(kept, i) \in DOMAIN q /\ Nth(kept, j) \in DOMAIN q
        /\ q[Nth(kept, i)] = q[Nth(kept, j)]
    BY <1>1, <1>3, <1>4
  <2>2. Nth(kept, i) = Nth(kept, j)
    BY <2>1 DEF ServedOnce
  <2>3. DOMAIN u \subseteq Nat /\ DOMAIN q \subseteq Nat
    <3>1. DOMAIN u = 1..Len(u) /\ DOMAIN q = 1..Len(q)
      BY <1>1, <1>3, LenProperties
    <3> QED  BY <3>1
  <2>4. ~(i < j) /\ ~(j < i)
    BY <1>3, <2>1, <2>2, <2>3
  <2> QED  BY <2>3, <2>4
<1>5. ASSUME NEW d \in Clients, d # c, Serves(s, d) PROVE \E i \in DOMAIN u : u[i] = d
  <2>1. PICK j \in kept : q[j] = d
    BY <1>5 DEF Serves
  <2> QED  BY <1>3, <2>1
<1>6. ASSUME q = <<>> PROVE u = <<>>
  <2>1. kept = {}
    BY <1>6
  <2> QED  BY <1>1, <2>1, KeepAtKeeps DEF u
<1> QED  BY <1>2, <1>4, <1>5, <1>6

(* A step of a client that does not connect leaves the servers' clients alone. *)
LEMMA ClientKnown ==
    ASSUME KnownInv, StartsAtMost,
           \A d \in Clients :
              /\ client'[d].peer = client[d].peer /\ client'[d].command = client[d].command
              /\ client'[d].phase = "asking" => client[d].phase = "asking"
              /\ client'[d].phase = "ended" => client'[d].exit # None
              /\ socket'[d].request = socket[d].request /\ socket'[d].hungUp = socket[d].hungUp
    PROVE  KnownParts'
<1>1. \A s \in Servers, d \in Clients :
         (Serves(s, d)' <=> Serves(s, d)) /\ (Awaits(s, d)' <=> Awaits(s, d))
  BY DEF StartsAtMost, Serves, Awaits
<1>2. ServedOnce'
  BY DEF KnownInv, KnownParts, StartsAtMost, ServedOnce
<1>3. ConnectedAreKnown'
  BY <1>1 DEF KnownInv, KnownParts, ConnectedAreKnown
<1>4. OnlyRunningHaveClients'
  BY DEF KnownInv, KnownParts, StartsAtMost, OnlyRunningHaveClients
<1>5. AskingHaveRequests'
  BY DEF KnownInv, KnownParts, AskingHaveRequests, Watches, Asks
<1>6. EndedHaveExited'
  BY DEF KnownInv, KnownParts, EndedHaveExited
<1> QED  BY <1>2, <1>3, <1>4, <1>5, <1>6 DEF KnownParts

(* A step of a server forgets no client but one it has hung up on. *)
LEMMA ServerKnown ==
    ASSUME KnownInv, NEW s \in Servers, UNCHANGED client,
           \A t \in Servers : t # s => server'[t] = server[t],
           \A i, j \in DOMAIN server'[s].servlets :
               server'[s].servlets[i] = server'[s].servlets[j] => i = j,
           server'[s].state \notin {"up", "closing"} => server'[s].servlets = <<>>,
           server'[s].state # "up" => server'[s].pending = <<>>,
           \A d \in Clients :
              /\ socket'[d].hungUp = FALSE =>
                   /\ socket[d].hungUp = FALSE
                   /\ Serves(s, d) \/ Awaits(s, d) => Serves(s, d)' \/ Awaits(s, d)'
              /\ socket[d].request = TRUE =>
                   socket'[d].request = TRUE \/ socket'[d].hungUp = TRUE \/ Watches(d)
              /\ socket[d].hungUp = TRUE => socket'[d].hungUp = TRUE
    PROVE  KnownParts'
<1>1. ServedOnce'
  BY DEF KnownInv, KnownParts, ServedOnce
<1>2. ASSUME NEW t \in Servers, NEW d \in Clients, client'[d].peer = t, socket'[d].hungUp = FALSE
      PROVE  Serves(t, d)' \/ Awaits(t, d)'
  <2>1. Serves(t, d) \/ Awaits(t, d)
    BY <1>2 DEF KnownInv, KnownParts, ConnectedAreKnown
  <2>2. CASE t = s
    BY <1>2, <2>1, <2>2
  <2>3. CASE t # s
    BY <2>1, <2>3 DEF Serves, Awaits
  <2> QED  BY <2>2, <2>3
<1>3. ConnectedAreKnown'
  BY <1>2 DEF ConnectedAreKnown
<1>4. OnlyRunningHaveClients'
  BY DEF KnownInv, KnownParts, OnlyRunningHaveClients
<1>5. AskingHaveRequests'
  BY DEF KnownInv, KnownParts, AskingHaveRequests, Watches, Asks
<1>6. EndedHaveExited'
  BY DEF KnownInv, KnownParts, EndedHaveExited
<1> QED  BY <1>1, <1>3, <1>4, <1>5, <1>6 DEF KnownParts

(* The client that connects is queued by the server it has found. *)
LEMMA ConnectsKnown ==
    ASSUME KnownInv, NEW c \in Clients, client[c].phase \in {"idle", "waiting"},
           path # None, server[path].state = "up", SetupSocketAndConnect(c)
    PROVE  KnownParts'
<1> DEFINE phase == IF Watches(c) THEN "watching" ELSE "asking"
           pending == Append(server[path].pending, c)
<1>1. /\ path \in Servers
      /\ client[c] \in ClientType /\ socket[c] \in SocketType
      /\ server[path] \in ServerType /\ server[path].pending \in Seq(Clients)
  BY DEF KnownInv, KnownParts, IInv, Typed, ServerType
<1>2. /\ client' = [client EXCEPT ![c].peer = path, ![c].phase = phase]
      /\ socket' = [socket EXCEPT ![c].request = TRUE]
      /\ server' = [server EXCEPT ![path].pending = pending]
  BY DEF SetupSocketAndConnect
<1>3. /\ client'[c].peer = path /\ client'[c].phase = phase /\ client'[c].command = client[c].command
      /\ \A d \in Clients : d # c => client'[d] = client[d]
  BY <1>1, <1>2 DEF KnownInv, KnownParts, IInv, Typed, ClientType
<1>4. /\ socket'[c].request = TRUE
      /\ \A d \in Clients : d # c => socket'[d] = socket[d]
  BY <1>1, <1>2 DEF KnownInv, KnownParts, IInv, Typed, SocketType
<1>5. /\ server'[path].pending = pending /\ server'[path].servlets = server[path].servlets
      /\ server'[path].state = "up"
      /\ \A t \in Servers : t # path => server'[t] = server[t]
  BY <1>1, <1>2 DEF KnownInv, KnownParts, IInv, Typed, ServerType
<1>6. /\ \A i \in DOMAIN server[path].pending : i \in DOMAIN pending /\ pending[i] = server[path].pending[i]
      /\ \E i \in DOMAIN pending : pending[i] = c
  <2>1. Len(pending) \in DOMAIN pending /\ pending[Len(pending)] = c
    BY <1>1
  <2>2. \A i \in DOMAIN server[path].pending : i \in DOMAIN pending /\ pending[i] = server[path].pending[i]
    BY <1>1
  <2> QED  BY <2>1, <2>2
<1> HIDE DEF pending
<1>7. \A t \in Servers, d \in Clients :
         (Serves(t, d) => Serves(t, d)') /\ (Awaits(t, d) => Awaits(t, d)')
  BY <1>5, <1>6 DEF Serves, Awaits
<1>9. ServedOnce'
  BY <1>5 DEF KnownInv, KnownParts, ServedOnce
<1>10. ConnectedAreKnown'
  BY <1>3, <1>4, <1>5, <1>6, <1>7 DEF KnownInv, KnownParts, ConnectedAreKnown, Awaits
<1>11. OnlyRunningHaveClients'
  BY <1>5 DEF KnownInv, KnownParts, OnlyRunningHaveClients
<1>12. AskingHaveRequests'
  BY <1>1, <1>3, <1>4 DEF KnownInv, KnownParts, AskingHaveRequests, Watches, Asks
<1>13. EndedHaveExited'
  BY <1>3 DEF KnownInv, KnownParts, EndedHaveExited
<1> QED  BY <1>9, <1>10, <1>11, <1>12, <1>13 DEF KnownParts

(* The socket of one client is closed and its servlet erased. *)
LEMMA LetsOneGoKnown ==
    ASSUME KnownInv, NEW s \in Servers, NEW c \in Clients, UNCHANGED client,
           \A t \in Servers : t # s => server'[t] = server[t],
           server'[s].servlets = Erased(s, c), server'[s].pending = server[s].pending,
           server'[s].state = server[s].state, socket'[c].hungUp = TRUE,
           \A d \in Clients : d # c =>
               socket'[d].request = socket[d].request /\ socket'[d].hungUp = socket[d].hungUp
    PROVE  KnownParts'
<1>1. Typed /\ ServedOnce /\ OnlyRunningHaveClients
  BY DEF KnownInv, KnownParts, IInv
<1>2. /\ \A i, j \in DOMAIN server'[s].servlets :
            server'[s].servlets[i] = server'[s].servlets[j] => i = j
      /\ server[s].servlets = <<>> => server'[s].servlets = <<>>
      /\ \A d \in Clients : d # c /\ Serves(s, d) => Serves(s, d)'
      /\ \A d \in Clients : Awaits(s, d) => Awaits(s, d)'
  BY <1>1, ErasedKeepsOthers DEF Serves, Awaits
<1>3. /\ server'[s].state \notin {"up", "closing"} => server'[s].servlets = <<>>
      /\ server'[s].state # "up" => server'[s].pending = <<>>
  BY <1>1, <1>2 DEF OnlyRunningHaveClients
<1> QED  BY <1>2, <1>3, ServerKnown

(* Whoever waits at a server or is served there is cut off, or stays. *)
LEMMA CutsKnown ==
    ASSUME KnownInv, NEW s \in Servers, UNCHANGED client,
           \A t \in Servers : t # s => server'[t] = server[t],
           NEW cut, socket' = [d \in Clients |-> IF d \in cut THEN Ended(socket[d]) ELSE socket[d]],
           \A d \in Clients : Awaits(s, d) => d \in cut,
           \/ server'[s].servlets = <<>> /\ \A d \in Clients : Serves(s, d) => d \in cut
           \/ server'[s].servlets = server[s].servlets /\ server'[s].state = "closing",
           server'[s].pending = <<>>
    PROVE  KnownParts'
<1>1. /\ \A d \in Clients : socket[d] \in SocketType
      /\ ServedOnce
  BY DEF KnownInv, KnownParts, IInv, Typed
<1>2. \A d \in Clients :
         /\ d \in cut => socket'[d].hungUp = TRUE
         /\ d \notin cut => socket'[d] = socket[d]
  BY <1>1, EndedFacts
<1>3. /\ \A i, j \in DOMAIN server'[s].servlets :
            server'[s].servlets[i] = server'[s].servlets[j] => i = j
      /\ \A d \in Clients : Serves(s, d) => Serves(s, d)' \/ d \in cut
  BY <1>1 DEF ServedOnce, Serves
<1> QED  BY <1>2, <1>3, ServerKnown

(* The steps of the clients. *)
LEMMA ClientStepKnown ==
    ASSUME KnownInv, NEW c \in Clients,
           ExecClient(c) \/ ClientStep(c) \/ AnswerTimesOut(c) \/ KillClient(c)
    PROVE  KnownParts'
<1>1. Typed /\ client[c] \in ClientType
  BY DEF KnownInv, IInv, Typed
<1>2. ASSUME NEW code \in {0, 1, 2}, Exits(c, code), ReadsAtMost(c), ForkHostServer \/ UNCHANGED server
      PROVE  KnownParts'
  <2>1. \A d \in Clients :
           /\ client'[d].peer = client[d].peer /\ client'[d].command = client[d].command
           /\ client'[d].phase = "asking" => client[d].phase = "asking"
           /\ client'[d].phase = "ended" => client'[d].exit # None
    BY <1>1, <1>2, ProcessesAssumption
       DEF Exits, Typed, ClientType, KnownInv, KnownParts, EndedHaveExited
  <2> QED  BY <1>1, <1>2, <2>1, ReadsOnly, ForkStartsAtMost, ClientKnown
<1>3. CASE SetupSocketAndConnect(c) /\ client[c].phase \in {"idle", "waiting"}
  <2>1. CASE path # None /\ server[path].state = "up"
    BY <1>3, <2>1, ConnectsKnown
  <2>2. CASE ~(path # None /\ server[path].state = "up")
    <3>1. UNCHANGED socket
      BY <1>3, <2>2 DEF SetupSocketAndConnect
    <3>2. \/ Exits(c, 1) /\ UNCHANGED server
          \/ /\ client' = [client EXCEPT ![c].tried = TRUE, ![c].phase = "waiting"]
             /\ ForkHostServer
      BY <1>3, <2>2 DEF SetupSocketAndConnect, HandleStopError, HandleErrorWithRetry
    <3>3. CASE Exits(c, 1) /\ UNCHANGED server
      BY <1>2, <3>1, <3>3 DEF ReadsAtMost
    <3>4. CASE /\ client' = [client EXCEPT ![c].tried = TRUE, ![c].phase = "waiting"]
               /\ ForkHostServer
      <4>1. \A d \in Clients :
               /\ client'[d].peer = client[d].peer /\ client'[d].command = client[d].command
               /\ client'[d].phase = "asking" => client[d].phase = "asking"
               /\ client'[d].phase = "ended" => client'[d].exit # None
        BY <1>1, <3>4 DEF Typed, ClientType, KnownInv, KnownParts, EndedHaveExited
      <4> QED  BY <1>1, <3>1, <3>4, <4>1, ForkStartsAtMost, ClientKnown
    <3> QED  BY <3>2, <3>3, <3>4
  <2> QED  BY <2>1, <2>2
<1>4. CASE ExecClient(c)
  BY <1>2, <1>3, <1>4 DEF ExecClient, ReadsAtMost
<1>5. CASE Retry(c)
  BY <1>3, <1>5 DEF Retry
<1>6. CASE HandleResponse(c)
  BY <1>2, <1>6 DEF HandleResponse, ReadsAtMost
<1>7. CASE GivesUp(c) \/ AnswerTimesOut(c) \/ KillClient(c)
  BY <1>2, <1>7 DEF GivesUp, AnswerTimesOut, KillClient, ReadsAtMost
<1>8. CASE HandleWatchMessage(c)
  <2>1. ReadsAtMost(c) /\ UNCHANGED server
    BY <1>8 DEF HandleWatchMessage, ReadsAtMost
  <2>2. CASE Exits(c, 1)
    BY <1>2, <2>1, <2>2
  <2>3. CASE client' = [client EXCEPT ![c].printed = @ \o socket[c].responses]
    <3>1. \A d \in Clients :
             /\ client'[d].peer = client[d].peer /\ client'[d].command = client[d].command
             /\ client'[d].phase = client[d].phase
             /\ client'[d].phase = "ended" => client'[d].exit # None
      BY <1>1, <2>3 DEF Typed, ClientType, KnownInv, KnownParts, EndedHaveExited
    <3> QED  BY <1>1, <2>1, <3>1, ReadsOnly, ForkStartsAtMost, ClientKnown
  <2> QED  BY <1>8, <2>2, <2>3 DEF HandleWatchMessage
<1> QED  BY <1>4, <1>5, <1>6, <1>7, <1>8 DEF ClientStep

(* A server starts, listens, ends, or begins to serve one who waits. *)
LEMMA StatesKnown ==
    ASSUME KnownInv, NEW s \in Servers,
           RemoveSocket(s) \/ Listen(s) \/ Quit(s) \/ HandleClient(s)
    PROVE  KnownParts'
<1>1. /\ server[s] \in ServerType /\ server \in [Servers -> ServerType]
      /\ ServedOnce /\ OnlyRunningHaveClients /\ KnownOnce
      /\ server[s].pending \in Seq(Clients) /\ server[s].servlets \in Seq(Clients)
      /\ UNCHANGED <<client, socket>>
  BY DEF KnownInv, KnownParts, IInv, Typed, ServerType, RemoveSocket, Listen, Quit, HandleClient
<1>2. \A t \in Servers : t # s => server'[t] = server[t]
  BY <1>1 DEF RemoveSocket, Listen, Quit, HandleClient
<1>3. CASE RemoveSocket(s) \/ Listen(s) \/ Quit(s)
  <2>1. server[s].servlets = <<>> /\ server[s].pending = <<>>
    BY <1>1, <1>3 DEF RemoveSocket, Listen, Quit, OnlyRunningHaveClients
  <2>2. server'[s].servlets = <<>> /\ server'[s].pending = <<>>
    BY <1>1, <1>3, <2>1 DEF RemoveSocket, Listen, Quit, Process, ServerType
  <2>3. \A d \in Clients : ~Serves(s, d) /\ ~Awaits(s, d)
    BY <2>1 DEF Serves, Awaits
  <2>4. /\ \A i, j \in DOMAIN server'[s].servlets :
              server'[s].servlets[i] = server'[s].servlets[j] => i = j
        /\ \A d \in Clients :
              /\ socket'[d].hungUp = socket[d].hungUp
              /\ socket'[d].request = socket[d].request
    BY <1>1, <2>2
  <2> QED  BY <1>1, <1>2, <2>2, <2>3, <2>4, ServerKnown
<1>4. CASE HandleClient(s)
  <2> DEFINE p == server[s].pending
             q == server[s].servlets
  <2>1. /\ p # <<>> /\ server[s].state = "up"
        /\ server'[s].servlets = Append(q, Head(p)) /\ server'[s].pending = Tail(p)
        /\ server'[s].state = "up"
    BY <1>1, <1>4 DEF HandleClient, ServerType
  <2>2. p \in Seq(Clients) /\ q \in Seq(Clients) /\ p # <<>>
    BY <1>1, <2>1
  <2>3. \A i \in DOMAIN q : q[i] # Head(p)
    <3>1. Awaits(s, Head(p)) /\ Head(p) \in Clients
      <4>1. 1 \in DOMAIN p /\ Head(p) = p[1] /\ p[1] \in Clients
        BY <2>2
      <4> QED  BY <4>1 DEF Awaits
    <3>2. ~Serves(s, Head(p))
      BY <1>1, <3>1 DEF KnownOnce
    <3> QED  BY <3>2 DEF Serves
  <2>4. \A i, j \in DOMAIN q : q[i] = q[j] => i = j
    BY <1>1 DEF ServedOnce
  <2>5. ASSUME NEW d \in Clients, Serves(s, d) \/ Awaits(s, d)
        PROVE  Serves(s, d)' \/ Awaits(s, d)'
    <3>1. (\E i \in DOMAIN q : q[i] = d) \/ (\E i \in DOMAIN p : p[i] = d)
      BY <2>5 DEF Serves, Awaits
    <3> HIDE DEF p, q
    <3>2. CASE \E i \in DOMAIN q : q[i] = d
      <4>1. \E i \in DOMAIN Append(q, Head(p)) : Append(q, Head(p))[i] = d
        BY <2>2, <3>2
      <4> QED  BY <2>1, <4>1 DEF Serves
    <3>3. CASE \E i \in DOMAIN p : p[i] = d
      <4>1. PICK i \in DOMAIN p : p[i] = d
        BY <3>3
      <4>2. CASE i = 1
        <5>1. Head(p) = d
          BY <2>2, <4>1, <4>2
        <5>2. \E j \in DOMAIN Append(q, Head(p)) : Append(q, Head(p))[j] = d
          BY <2>2, <5>1, AppendClient
        <5> QED  BY <2>1, <5>2 DEF Serves
      <4>3. CASE i # 1
        <5>1. i - 1 \in DOMAIN Tail(p) /\ Tail(p)[i - 1] = d
          BY <2>2, <4>1, <4>3
        <5> QED  BY <2>1, <5>1 DEF Awaits
      <4> QED  BY <4>2, <4>3
    <3> QED  BY <3>1, <3>2, <3>3
  <2> HIDE DEF p, q
  <2>6. \A i, j \in DOMAIN Append(q, Head(p)) :
           Append(q, Head(p))[i] = Append(q, Head(p))[j] => i = j
    BY <2>2, <2>3, <2>4
  <2> QED  BY <1>1, <1>2, <2>1, <2>5, <2>6, ServerKnown
<1> QED  BY <1>3, <1>4

(* A servlet is erased when the socket of its client is closed. *)
LEMMA ErasesKnown ==
    ASSUME KnownInv, NEW s \in Servers, NEW c \in Clients, UNCHANGED client,
           NEW k, server' = [server EXCEPT ![s] = k],
           k.state = server[s].state, k.pending = server[s].pending,
           k.servlets = Erased(s, c),
           NEW w \in SocketType, NEW n \in [Clients -> SocketType],
           \A d \in Clients : n[d].request = socket[d].request /\ n[d].hungUp = socket[d].hungUp,
           socket' = [n EXCEPT ![c] = Ended(w)]
    PROVE  KnownParts'
<1>1. server'[s] = k /\ \A t \in Servers : t # s => server'[t] = server[t]
  BY DEF KnownInv, IInv, Typed
<1>2. socket'[c].hungUp = TRUE /\ \A d \in Clients : d # c => socket'[d] = n[d]
  BY EndedFacts
<1>3. \A d \in Clients : d # c =>
         socket'[d].request = socket[d].request /\ socket'[d].hungUp = socket[d].hungUp
  BY <1>2
<1>4. /\ server'[s].servlets = Erased(s, c) /\ server'[s].pending = server[s].pending
      /\ server'[s].state = server[s].state
  BY <1>1
<1> QED  BY <1>1, <1>2, <1>3, <1>4, LetsOneGoKnown

(* An answer ends a servlet. *)
LEMMA ReplyKnown ==
    ASSUME KnownInv, NEW s \in Servers, NEW c \in Clients, UNCHANGED client,
           NEW response \in Responses, NEW cleared, Reply(s, c, response, cleared)
    PROVE  KnownParts'
<1> DEFINE k == [server[s] EXCEPT !.servlets = Erased(s, c), !.cleared = cleared]
           new == <<response>>
           w == Sent(socket[c], new)
<1>1. Typed /\ server[s] \in ServerType /\ socket[c] \in SocketType
  BY DEF KnownInv, IInv, Typed
<1>2. /\ k.state = server[s].state /\ k.pending = server[s].pending
      /\ k.servlets = Erased(s, c)
  BY <1>1 DEF ServerType
<1>3. server' = [server EXCEPT ![s] = k]
  BY <1>1 DEF Reply, Typed, ServerType
<1>4. socket' = [socket EXCEPT ![c] = Ended(w)]
  BY <1>1 DEF Reply, Typed
<1> HIDE DEF k
<1>5. new \in Seq(Responses)
  OBVIOUS
<1> HIDE DEF new
<1>6. w \in SocketType
  BY <1>1, <1>5, SentFacts
<1> HIDE DEF w
<1> QED  BY <1>1, <1>2, <1>3, <1>4, <1>6, ErasesKnown DEF Typed

(* So does the end of its client. *)
LEMMA HandleDisconnectionKnown ==
    ASSUME KnownInv, NEW s \in Servers, NEW c \in Clients, HandleDisconnection(s, c)
    PROVE  KnownParts'
<1> DEFINE k == [server[s] EXCEPT !.servlets = Erased(s, c)]
<1>1. Typed /\ server[s] \in ServerType /\ socket[c] \in SocketType
  BY DEF KnownInv, IInv, Typed
<1>2. /\ k.state = server[s].state /\ k.pending = server[s].pending
      /\ k.servlets = Erased(s, c)
  BY <1>1 DEF ServerType
<1>3. /\ server' = [server EXCEPT ![s] = k] /\ UNCHANGED client
      /\ socket' = [socket EXCEPT ![c] = Ended(socket[c])]
  BY <1>1 DEF HandleDisconnection, Typed
<1> HIDE DEF k
<1> QED  BY <1>1, <1>2, <1>3, ErasesKnown DEF Typed

(* And so does a round of the loop of close(). *)
LEMMA CloseServletKnown ==
    ASSUME KnownInv, NEW s \in Servers, CloseServlet(s)
    PROVE  KnownParts'
<1> DEFINE c == Head(server[s].servlets)
           last == IF c = server[s].stopper THEN <<Response("stopping", <<>>)>> ELSE <<>>
           k == [server[s] EXCEPT !.servlets = Erased(s, c)]
           w == Sent(socket[c], last)
<1>1. /\ Typed /\ server[s] \in ServerType /\ server[s].servlets \in Seq(Clients)
      /\ server[s].servlets # <<>>
  BY DEF KnownInv, IInv, Typed, ServerType, CloseServlet
<1>2. c \in Clients
  BY <1>1
<1>3. /\ server' = [server EXCEPT ![s] = k] /\ socket' = [socket EXCEPT ![c] = Ended(w)]
      /\ UNCHANGED client
  BY <1>1, <1>2 DEF CloseServlet, Typed
<1> HIDE DEF c
<1>4. socket[c] \in SocketType
  BY <1>1, <1>2 DEF Typed
<1>5. /\ k.state = server[s].state /\ k.pending = server[s].pending
      /\ k.servlets = Erased(s, c)
  BY <1>1 DEF ServerType
<1>6. last \in Seq(Responses)
  <2>1. Response("stopping", <<>>) \in Responses
    BY ResponseFacts DEF ResponseTypes
  <2> QED  BY <2>1
<1> HIDE DEF last, k
<1>7. w \in SocketType
  BY <1>4, <1>6, SentFacts
<1> HIDE DEF w
<1> QED  BY <1>1, <1>2, <1>3, <1>5, <1>7, ErasesKnown DEF Typed

(* And so does the refusal of a version. *)
LEMMA RefuseVersionKnown ==
    ASSUME KnownInv, NEW s \in Servers, NEW c \in Clients, UNCHANGED client, RefuseVersion(s, c)
    PROVE  KnownParts'
<1> DEFINE r == NewMessage(s)
           n == Notified(s, "messages", r)
           u == <<Response("unsupported-version", <<>>)>>
           w == Sent(n[c], u)
           k == [server[s] EXCEPT !.servlets = Erased(s, c), !.logged = server[s].logged + 1]
<1>1. Typed /\ server[s] \in ServerType /\ server[s].logged \in Nat
  BY DEF KnownInv, IInv, Typed, ServerType
<1>2. r \in Responses /\ r.type # "stopping"
  BY <1>1, NewMessageFacts
<1>3. /\ k.state = server[s].state /\ k.pending = server[s].pending
      /\ k.servlets = Erased(s, c)
  BY <1>1 DEF ServerType
<1>4. server' = [server EXCEPT ![s] = k]
  BY <1>1 DEF RefuseVersion, Typed, ServerType
<1> HIDE DEF k, r
<1>5. /\ n \in [Clients -> SocketType]
      /\ \A d \in Clients : n[d].request = socket[d].request /\ n[d].hungUp = socket[d].hungUp
  BY <1>1, <1>2, NotifiedFacts
<1>6. socket' = [n EXCEPT ![c] = Ended(w)]
  BY <1>5 DEF RefuseVersion, r
<1> HIDE DEF n
<1>7. u \in Seq(Responses)
  <2>1. Response("unsupported-version", <<>>) \in Responses
    BY ResponseFacts DEF ResponseTypes
  <2> QED  BY <2>1
<1> HIDE DEF u
<1>8. w \in SocketType
  BY <1>5, <1>7, SentFacts
<1> HIDE DEF w
<1> QED  BY <1>3, <1>4, <1>5, <1>6, <1>8, ErasesKnown

(* A step that tells clients something at most. *)
LEMMA TellsKnown ==
    ASSUME KnownInv, NEW s \in Servers, UNCHANGED client,
           \A t \in Servers :
              /\ server'[t].state = server[t].state
              /\ server'[t].pending = server[t].pending
              /\ server'[t].servlets = server[t].servlets,
           \A d \in Clients :
              /\ socket'[d].hungUp = socket[d].hungUp
              /\ socket'[d].request = socket[d].request \/ Watches(d)
    PROVE  KnownParts'
<1>1. \A t \in Servers, d \in Clients :
         (Serves(t, d)' <=> Serves(t, d)) /\ (Awaits(t, d)' <=> Awaits(t, d))
  BY DEF Serves, Awaits
<1>2. ServedOnce'
  BY DEF KnownInv, KnownParts, ServedOnce
<1>3. ConnectedAreKnown'
  BY <1>1 DEF KnownInv, KnownParts, ConnectedAreKnown
<1>4. OnlyRunningHaveClients'
  BY DEF KnownInv, KnownParts, OnlyRunningHaveClients
<1>5. AskingHaveRequests'
  BY DEF KnownInv, KnownParts, AskingHaveRequests, Watches, Asks
<1>6. EndedHaveExited'
  BY DEF KnownInv, KnownParts, EndedHaveExited
<1> QED  BY <1>2, <1>3, <1>4, <1>5, <1>6 DEF KnownParts

(* A signal reaches those who watch. *)
LEMMA NotifiesKnown ==
    ASSUME KnownInv, NEW s \in Servers, NEW topic \in {"devices", "messages"},
           NEW r \in Responses, r.type # "stopping", UNCHANGED client,
           socket' = Notified(s, topic, r), NEW k, server' = [server EXCEPT ![s] = k],
           k.state = server[s].state, k.pending = server[s].pending,
           k.servlets = server[s].servlets
    PROVE  KnownParts'
<1>1. Typed
  BY DEF KnownInv, IInv
<1>2. server'[s] = k /\ \A t \in Servers : t # s => server'[t] = server[t]
  BY <1>1 DEF Typed
<1>3. \A d \in Clients :
         socket'[d].hungUp = socket[d].hungUp /\ socket'[d].request = socket[d].request
  BY <1>1, NotifiedFacts
<1> QED  BY <1>2, <1>3, TellsKnown

(* A device is listed, changed or taken off the list. *)
LEMMA ListsKnown ==
    ASSUME KnownInv, NEW s \in Servers, NEW x \in Devices, NEW i \in Infos \cup {None},
           NEW type \in {"new-device", "disconnected-device"}, UNCHANGED client,
           server' = [server EXCEPT ![s].listed[x] = i],
           socket' = Notified(s, "devices", Response(type, <<x, i>>))
    PROVE  KnownParts'
<1> DEFINE k == [server[s] EXCEPT !.listed[x] = i]
           r == Response(type, <<x, i>>)
<1>1. server[s] \in ServerType
  BY DEF KnownInv, IInv, Typed
<1>2. /\ k.state = server[s].state /\ k.pending = server[s].pending
      /\ k.servlets = server[s].servlets
  BY <1>1 DEF ServerType
<1>3. server' = [server EXCEPT ![s] = k] /\ socket' = Notified(s, "devices", r)
  OBVIOUS
<1>4. r \in Responses /\ r.type # "stopping"
  BY ResponseFacts DEF ResponseTypes
<1> HIDE DEF k, r
<1> QED  BY <1>2, <1>3, <1>4, NotifiesKnown

(* A message is logged. *)
LEMMA EmitNewMessageKnown ==
    ASSUME KnownInv, NEW s \in Servers, EmitNewMessage(s)
    PROVE  KnownParts'
<1> DEFINE k == [server[s] EXCEPT !.logged = server[s].logged + 1]
           r == NewMessage(s)
<1>1. server[s] \in ServerType /\ server[s].logged \in Nat
  BY DEF KnownInv, IInv, Typed, ServerType
<1>2. /\ k.state = server[s].state /\ k.pending = server[s].pending
      /\ k.servlets = server[s].servlets
  BY <1>1 DEF ServerType
<1>3. /\ server' = [server EXCEPT ![s] = k] /\ UNCHANGED client
      /\ socket' = Notified(s, "messages", r)
  BY <1>1 DEF EmitNewMessage, KnownInv, IInv, Typed, ServerType
<1>4. r \in Responses /\ r.type # "stopping"
  BY <1>1, NewMessageFacts
<1> HIDE DEF k, r
<1> QED  BY <1>2, <1>3, <1>4, NotifiesKnown

(* A watch has its request taken. *)
LEMMA StartWatchingKnown ==
    ASSUME KnownInv, NEW s \in Servers, NEW c \in Clients, Watches(c),
           UNCHANGED <<client, server>>, NEW topic, NEW responses,
           StartWatching(c, topic, responses)
    PROVE  KnownParts'
<1>1. socket[c] \in SocketType
  BY DEF KnownInv, IInv, Typed
<1>2. \A d \in Clients :
         /\ socket'[d].hungUp = socket[d].hungUp
         /\ socket'[d].request = socket[d].request \/ Watches(d)
  BY <1>1 DEF StartWatching, KnownInv, IInv, Typed, SocketType
<1> QED  BY <1>2, TellsKnown

(* A server begins to close: whoever waits there is cut off. *)
LEMMA CloseKnown ==
    ASSUME KnownInv, NEW s \in Servers, NEW c, Close(s, c), UNCHANGED client
    PROVE  KnownParts'
<1> DEFINE cut == ToSet(server[s].pending)
<1>1. server[s] \in ServerType
  BY DEF KnownInv, IInv, Typed
<1>2. /\ server'[s].state = "closing" /\ server'[s].pending = <<>>
      /\ server'[s].servlets = server[s].servlets
      /\ \A t \in Servers : t # s => server'[t] = server[t]
  BY <1>1 DEF Close, KnownInv, IInv, Typed, ServerType
<1>3. socket' = [d \in Clients |-> IF d \in cut THEN Ended(socket[d]) ELSE socket[d]]
  BY DEF Close
<1>4. \A d \in Clients : Awaits(s, d) => d \in cut
  BY DEF Awaits, ToSet
<1> HIDE DEF cut
<1> QED  BY <1>2, <1>3, <1>4, CutsKnown

(* A server is killed: whoever is connected to it is cut off. *)
LEMMA CrashKnown ==
    ASSUME KnownInv, NEW s \in Servers, Crash(s)
    PROVE  KnownParts'
<1> DEFINE p == server[s].servlets
           q == server[s].pending
           cut == ToSet(p \o q)
<1>1. p \in Seq(Clients) /\ q \in Seq(Clients)
  BY DEF KnownInv, IInv, Typed, ServerType
<1>2. /\ server'[s].pending = <<>> /\ server'[s].servlets = <<>>
      /\ \A t \in Servers : t # s => server'[t] = server[t]
  BY DEF Crash, Process, KnownInv, IInv, Typed
<1>3. /\ socket' = [d \in Clients |-> IF d \in cut THEN Ended(socket[d]) ELSE socket[d]]
      /\ UNCHANGED client
  BY DEF Crash
<1>4. ASSUME NEW d \in Clients, Serves(s, d) \/ Awaits(s, d) PROVE d \in cut
  <2>1. (\E i \in DOMAIN p : p[i] = d) \/ (\E i \in DOMAIN q : q[i] = d)
    BY <1>4 DEF Serves, Awaits
  <2> HIDE DEF p, q
  <2>2. \E i \in DOMAIN (p \o q) : (p \o q)[i] = d
    <3>1. CASE \E i \in DOMAIN p : p[i] = d
      <4>1. PICK i \in DOMAIN p : p[i] = d
        BY <3>1
      <4>2. i \in DOMAIN (p \o q) /\ (p \o q)[i] = d
        BY <1>1, <4>1
      <4> QED  BY <4>2
    <3>2. CASE \E i \in DOMAIN q : q[i] = d
      <4>1. PICK i \in DOMAIN q : q[i] = d
        BY <3>2
      <4>2. Len(p) + i \in DOMAIN (p \o q) /\ (p \o q)[Len(p) + i] = d
        BY <1>1, <4>1
      <4> QED  BY <4>2
    <3> QED  BY <2>1, <3>1, <3>2
  <2> QED  BY <2>2 DEF ToSet
<1> HIDE DEF cut
<1> QED  BY <1>2, <1>3, <1>4, CutsKnown

(* A servlet handles the request of its client. *)
LEMMA HandleRequestKnown ==
    ASSUME KnownInv, NEW s \in Servers, NEW c \in Clients, HandleRequest(s, c)
    PROVE  KnownParts'
<1> DEFINE devices == Response("devices", server[s].listed)
           messages == AllMessages(s)
<1>1. UNCHANGED client
  BY DEF HandleRequest
<1>2. devices \in Responses /\ messages \in Responses
  <2>1. /\ server[s].listed \in Listings
        /\ server[s].cleared \in Nat /\ server[s].logged \in Nat
    BY DEF KnownInv, IInv, Typed, ServerType
  <2> QED  BY <2>1, ResponseFacts DEF AllMessages, ResponseTypes
<1> HIDE DEF devices, messages
<1>3. CASE RefuseVersion(s, c)
  BY <1>1, <1>3, RefuseVersionKnown
<1>4. CASE \E response \in {devices, messages}, cleared \in {server[s].cleared, server[s].logged} :
               Reply(s, c, response, cleared)
  BY <1>1, <1>2, <1>4, ReplyKnown
<1>5. CASE Close(s, c)
  BY <1>1, <1>5, CloseKnown
<1>6. CASE Asks(c) = "watch-devices" /\ StartWatchingDevices(s, c)
  <2>1. Watches(c)
    BY <1>6 DEF Watches
  <2> QED  BY <1>1, <1>6, <2>1, StartWatchingKnown DEF StartWatchingDevices
<1>7. CASE Asks(c) = "watch-messages" /\ StartWatchingMessages(s, c)
  <2>1. Watches(c)
    BY <1>7 DEF Watches
  <2> QED  BY <1>1, <1>7, <2>1, StartWatchingKnown DEF StartWatchingMessages
<1> QED
  BY <1>3, <1>4, <1>5, <1>6, <1>7 DEF HandleRequest, ReplyDevices, devices, messages

(* Nobody is connected at first. *)
LEMMA InitKnown == ASSUME Init PROVE KnownParts
<1>1. \A s \in Servers : server[s].servlets = <<>> /\ server[s].pending = <<>>
  BY DEF Init, Process
<1>2. \A c \in Clients : client[c].peer = None /\ client[c].phase = "idle"
  BY DEF Init
<1>3. ServedOnce /\ OnlyRunningHaveClients
  BY <1>1 DEF ServedOnce, OnlyRunningHaveClients
<1>4. ConnectedAreKnown /\ AskingHaveRequests
  BY <1>2, ProcessesAssumption DEF ConnectedAreKnown, AskingHaveRequests
<1>5. EndedHaveExited
  BY <1>2 DEF EndedHaveExited
<1> QED  BY <1>3, <1>4, <1>5 DEF KnownParts

(* Every step keeps all of it: one case for each action. *)
LEMMA NextKnown == ASSUME KnownInv, [Next]_vars PROVE KnownParts'
<1>1. CASE UNCHANGED vars
  <2>1. UNCHANGED <<client, socket, server>>
    BY <1>1 DEF vars
  <2> QED
    BY <2>1 DEF KnownInv, KnownParts, ServedOnce, ConnectedAreKnown, OnlyRunningHaveClients,
                AskingHaveRequests, EndedHaveExited, Serves, Awaits, Watches, Asks
<1>2. ASSUME NEW c \in Clients,
             ExecClient(c) \/ ClientStep(c) \/ AnswerTimesOut(c) \/ KillClient(c)
      PROVE  KnownParts'
  BY <1>2, ClientStepKnown
<1>3. ASSUME NEW s \in Servers, ServerStep(s)
      PROVE  KnownParts'
  BY <1>3, StatesKnown, CloseServletKnown, HandleRequestKnown, HandleDisconnectionKnown
     DEF ServerStep
<1>4. ASSUME NEW s \in Servers, NEW x \in Devices, NEW i \in Infos,
             HandleNewDeviceInfo(s, x, i) \/ HandleDisconnectedDevice(s, x)
      PROVE  KnownParts'
  BY <1>4, ListsKnown DEF HandleNewDeviceInfo, HandleDisconnectedDevice
<1>5. ASSUME NEW s \in Servers, NEW x \in Devices, HandleDisconnectedDevice(s, x)
      PROVE  KnownParts'
  BY <1>5, ListsKnown DEF HandleDisconnectedDevice
<1>6. ASSUME NEW s \in Servers, EmitNewMessage(s) \/ Interrupt(s) \/ Crash(s)
      PROVE  KnownParts'
  BY <1>6, EmitNewMessageKnown, CloseKnown, CrashKnown DEF Interrupt
<1> QED  BY <1>1, <1>2, <1>3, <1>4, <1>5, <1>6 DEF Next

(* Whoever is connected is known, besides IInv (hostserver.cpp, hostservlet.cpp,
   client.cpp). *)
THEOREM KnownInvariance == Spec => []KnownInv
<1>1. Init => KnownInv
  BY InitIInv, InitKnown DEF KnownInv
<1>2. KnownInv /\ [Next]_vars => KnownInv'
  <2>1. ASSUME KnownInv, [Next]_vars PROVE KnownInv'
    <3>1. IInv'
      BY <2>1, NextIInv DEF KnownInv
    <3> QED  BY <2>1, <3>1, NextKnown DEF KnownInv
  <2> QED  BY <2>1
<1> QED  BY <1>1, <1>2, PTL DEF Spec

(* The servlets of a server and those who wait for one are, each once, the
   clients connected to it whose sockets it has not closed. *)
LEMMA AllAreOnce ==
    ASSUME KnownInv, NEW s \in Servers
    PROVE  LET all == server[s].servlets \o server[s].pending
           IN  /\ IsInjective(all)
               /\ ToSet(all) = {c \in Clients : client[c].peer = s /\ ~socket[c].hungUp}
<1> DEFINE p == server[s].servlets
           q == server[s].pending
<1>1. p \in Seq(Clients) /\ q \in Seq(Clients)
  BY DEF KnownInv, IInv, Typed, ServerType
<1>2. /\ \A c \in Clients : Serves(s, c) <=> \E i \in DOMAIN p : p[i] = c
      /\ \A c \in Clients : Awaits(s, c) <=> \E i \in DOMAIN q : q[i] = c
      /\ \A i, j \in DOMAIN p : p[i] = p[j] => i = j
      /\ \A i, j \in DOMAIN q : q[i] = q[j] => i = j
      /\ \A i \in DOMAIN p, j \in DOMAIN q : p[i] # q[j]
  <2>1. \A c \in Clients : ~(Serves(s, c) /\ Awaits(s, c))
    BY DEF KnownInv, IInv, KnownOnce
  <2>2. \A i \in DOMAIN p, j \in DOMAIN q : p[i] # q[j]
    BY <1>1, <2>1 DEF Serves, Awaits
  <2> QED
    BY <2>2 DEF Serves, Awaits, KnownInv, IInv, KnownParts, KnownOnce, ServedOnce
<1>3. \A c \in Clients :
         Serves(s, c) \/ Awaits(s, c) <=> client[c].peer = s /\ ~socket[c].hungUp
  <2>1. \A c \in Clients : socket[c].hungUp \in BOOLEAN
    BY DEF KnownInv, IInv, Typed, SocketType
  <2> QED  BY <2>1 DEF KnownInv, IInv, KnownParts, KnownAreConnected, ConnectedAreKnown
<1> HIDE DEF p, q
<1>4. /\ DOMAIN (p \o q) = 1..(Len(p) + Len(q)) /\ Len(p) \in Nat /\ Len(q) \in Nat
      /\ DOMAIN p = 1..Len(p) /\ DOMAIN q = 1..Len(q)
      /\ \A i \in DOMAIN (p \o q) : (p \o q)[i] = IF i <= Len(p) THEN p[i] ELSE q[i - Len(p)]
  BY <1>1, ConcatProperties, LenProperties
<1>5. IsInjective(p \o q)
  <2>1. ASSUME NEW i \in DOMAIN (p \o q), NEW j \in DOMAIN (p \o q), (p \o q)[i] = (p \o q)[j]
        PROVE  i = j
    <3>1. CASE i <= Len(p) /\ j <= Len(p)
      BY <1>2, <1>4, <2>1, <3>1
    <3>2. CASE ~(i <= Len(p)) /\ ~(j <= Len(p))
      <4>1. /\ i - Len(p) \in DOMAIN q /\ j - Len(p) \in DOMAIN q
            /\ q[i - Len(p)] = q[j - Len(p)]
        BY <1>4, <2>1, <3>2
      <4>2. i - Len(p) = j - Len(p)
        BY <1>2, <4>1
      <4> QED  BY <1>4, <4>2
    <3>3. CASE i <= Len(p) /\ ~(j <= Len(p))
      <4>1. i \in DOMAIN p /\ j - Len(p) \in DOMAIN q /\ p[i] = q[j - Len(p)]
        BY <1>4, <2>1, <3>3
      <4> QED  BY <1>2, <4>1
    <3>4. CASE ~(i <= Len(p)) /\ j <= Len(p)
      <4>1. j \in DOMAIN p /\ i - Len(p) \in DOMAIN q /\ p[j] = q[i - Len(p)]
        BY <1>4, <2>1, <3>4
      <4> QED  BY <1>2, <4>1
    <3> QED  BY <3>1, <3>2, <3>3, <3>4
  <2> QED  BY <2>1 DEF IsInjective
<1>6. ToSet(p \o q) = {c \in Clients : client[c].peer = s /\ ~socket[c].hungUp}
  <2>1. ASSUME NEW c PROVE c \in ToSet(p \o q) <=>
                              (\E i \in DOMAIN p : p[i] = c) \/ (\E i \in DOMAIN q : q[i] = c)
    <3>1. ASSUME NEW i \in DOMAIN (p \o q), (p \o q)[i] = c
          PROVE  (\E j \in DOMAIN p : p[j] = c) \/ (\E j \in DOMAIN q : q[j] = c)
      <4>1. CASE i <= Len(p)
        BY <1>4, <3>1, <4>1
      <4>2. CASE ~(i <= Len(p))
        <5>1. i - Len(p) \in DOMAIN q /\ q[i - Len(p)] = c
          BY <1>4, <3>1, <4>2
        <5> QED  BY <5>1
      <4> QED  BY <4>1, <4>2
    <3>2. ASSUME NEW i \in DOMAIN p, p[i] = c PROVE \E j \in DOMAIN (p \o q) : (p \o q)[j] = c
      <4>1. i \in DOMAIN (p \o q) /\ (p \o q)[i] = c
        BY <1>4, <3>2
      <4> QED  BY <4>1
    <3>3. ASSUME NEW i \in DOMAIN q, q[i] = c PROVE \E j \in DOMAIN (p \o q) : (p \o q)[j] = c
      <4>1. Len(p) + i \in DOMAIN (p \o q) /\ (p \o q)[Len(p) + i] = c
        BY <1>1, <3>3
      <4> QED  BY <4>1
    <3> QED  BY <3>1, <3>2, <3>3 DEF ToSet
  <2>2. ASSUME NEW c \in ToSet(p \o q) PROVE c \in Clients
    BY <1>1, <2>1
  <2> QED  BY <1>2, <1>3, <2>1, <2>2
<1> QED  BY <1>5, <1>6 DEF p, q

(* Every variable keeps its type, and a client that is connected is one servlet
   of one server, or waits once to become one, until that server closes its
   socket: HostServer::handleClient() and handleDoneClient() lose nobody and
   take nobody twice (hostserver.cpp:102-130). *)
THEOREM TypeCorrect == Spec => []TypeOK
<1>1. ASSUME KnownInv PROVE TypeOK
  <2>1. \A c \in Clients :
           /\ client[c].phase \in {"idle", "waiting", "asking", "watching", "ended"}
           /\ client[c].exit \in {None, 0, 1, 2}
           /\ client[c].peer \in Servers \cup {None}
           /\ socket[c].watching \in {"nothing", "devices", "messages"}
    BY <1>1 DEF KnownInv, IInv, Typed, ClientType, SocketType
  <2>2. \A c \in Clients : (client[c].exit = None) = (client[c].phase # "ended")
    BY <1>1 DEF KnownInv, KnownParts, EndedHaveExited, IInv, ExitsAtEnd
  <2>3. \A s \in Servers :
           server[s].state \in {"none", "forked", "cleared", "up", "closing", "stopped"}
    BY <1>1 DEF KnownInv, IInv, Typed, ServerType
  <2>4. path \in Servers \cup {None}
    BY <1>1 DEF KnownInv, IInv, Typed
  <2> QED  BY <1>1, <2>1, <2>2, <2>3, <2>4, AllAreOnce DEF TypeOK
<1> QED  BY <1>1, KnownInvariance, PTL

(* The answer or the end of its socket is there for a client that waits, or the
   request is with a server that has yet to see to it. *)
NobodyIsForgotten ==
    \A c \in Clients : client[c].phase = "asking" =>
        \/ socket[c].responses # <<>> \/ socket[c].hungUp
        \/ \E s \in Servers :
             /\ client[c].peer = s /\ socket[c].request
             /\ \/ server[s].state = "up" /\ (Awaits(s, c) \/ Serves(s, c))
                \/ server[s].state = "closing" /\ Serves(s, c)

(* A client that waits for its answer has it, or the end of its socket, or else
   its request lies unread with a server that runs and knows the client, or
   that closes and has yet to hang up on it: whichever servers are stopped or
   killed, no client is left with a server that has nothing to do for it
   (hostserver.cpp:93-118, hostservlet.cpp:69-132). *)
THEOREM NobodyIsEverForgotten == Spec => []NobodyIsForgotten
<1>1. ASSUME KnownInv PROVE NobodyIsForgotten
  <2> SUFFICES ASSUME NEW c \in Clients, client[c].phase = "asking",
                      socket[c].hungUp = FALSE
               PROVE  \E s \in Servers :
                        /\ client[c].peer = s /\ socket[c].request
                        /\ \/ server[s].state = "up" /\ (Awaits(s, c) \/ Serves(s, c))
                           \/ server[s].state = "closing" /\ Serves(s, c)
    <3>1. \A c \in Clients : socket[c].hungUp \in BOOLEAN
      BY <1>1 DEF KnownInv, IInv, Typed, SocketType
    <3> QED  BY <3>1 DEF NobodyIsForgotten
  <2> DEFINE s == client[c].peer
  <2>1. s \in Servers /\ socket[c].request = TRUE
    BY <1>1 DEF KnownInv, KnownParts, AskingHaveRequests
  <2>2. Serves(s, c) \/ Awaits(s, c)
    BY <1>1, <2>1 DEF KnownInv, KnownParts, ConnectedAreKnown
  <2>3. /\ Serves(s, c) => server[s].state \in {"up", "closing"}
        /\ Awaits(s, c) => server[s].state = "up"
    BY <1>1, <2>1 DEF KnownInv, KnownParts, OnlyRunningHaveClients, Serves, Awaits
  <2> QED  BY <2>1, <2>2, <2>3
<1> QED  BY <1>1, KnownInvariance, PTL
=============================================================================
