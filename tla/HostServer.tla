----------------------------- MODULE HostServer -----------------------------
(***************************************************************************)
(* The qdb command on the host: the client processes of                    *)
(* qdb/client/client.cpp, the host server processes of                     *)
(* qdb/server/hostserver.cpp and hostservlet.cpp that they start, ask and  *)
(* stop, and the local socket between them.                                *)
(*                                                                         *)
(* Several clients may run at once, and as each of them starts a server    *)
(* when it finds none, so may several servers.  Steps of different         *)
(* processes interleave; a handler is one step, except where another       *)
(* process can see it half done: listen() removes the socket's name and    *)
(* then binds it, and close() lets go of the servlets one by one.          *)
(*                                                                         *)
(* What a servlet writes is on its way when its handler returns to the     *)
(* event loop or closes the socket.  A response arrives as a whole line.   *)
(***************************************************************************)
EXTENDS Naturals, FiniteSets, SequencesExt, Queues

CONSTANTS
    Clients,        \* the client processes, each runs one command
    Workloads,      \* the commands they may be started with together
    Servers,        \* the server processes that can be started
    Devices, Infos, \* serials, and the information a device may have
    None,           \* no process, or a device that is not listed
    MaxEvents       \* bound on changes of listed devices, warnings, kills,
                    \* timeouts and interrupts

(* The version is the qdbHostMessageVersion of the client. *)
Command ==
    [type : {"devices", "watch-devices", "messages", "watch-messages",
             "messages-and-clear", "start-server", "stop-server"},
     version : Nat]

qdbHostMessageVersion == 1

ASSUME ProcessesAssumption ==
    /\ Workloads \subseteq [Clients -> Command]
    /\ None \notin Servers \cup Infos \cup {0, 1, 2}
    /\ IsFiniteSet(Devices)
    /\ MaxEvents \in 0..99    \* Logging keeps 200 messages

VARIABLES
    client,     \* the client processes
    socket,     \* each client's socket and what its servlet does with it
    server,     \* the host server processes
    path,       \* the server that is bound to the socket's name
    events

vars == <<client, socket, server, path, events>>

Response(type, data) == [type |-> type, data |-> data]

NoDevices == [d \in Devices |-> None]

Process(state) ==
    [state    |-> state,
     pending  |-> <<>>,         \* connections m_localServer has accepted
     servlets |-> <<>>,         \* m_servlets, each named by its client
     stopper  |-> None,         \* the client to tell that it is stopping
     listed   |-> NoDevices,    \* the DeviceManager's list
     cleared  |-> 0,            \* Logging's messages are those numbered
     logged   |-> 0]            \*   cleared + 1 .. logged

Init ==
    /\ \E work \in Workloads :
         client = [c \in Clients |->
           [phase   |-> "idle",
            command |-> work[c],  \* what it is called with
            tried   |-> FALSE,    \* m_triedToStart
            exit    |-> None,     \* the code without --force, 2 if it is killed
            peer    |-> None,     \* the server m_socket was connected to
            printed |-> <<>>]]    \* what a watch has printed
    /\ socket = [c \in Clients |->
           [request   |-> FALSE,      \* holds a request to read
            responses |-> <<>>,       \* holds these for the client
            watching  |-> "nothing",  \* the signals the servlet is connected to
            hungUp    |-> FALSE]]     \* closed by the server
    /\ server = [s \in Servers |-> Process("none")]
    /\ path = None
    /\ events = 0
-----------------------------------------------------------------------------
Runs(c) == client[c].phase \notin {"idle", "ended"}

(* A process that cannot be started is reported, and waited for all the same. *)
ForkHostServer ==
    LET unused == {s \in Servers : server[s].state = "none"}
    IN  server' = [s \in Servers |->
            IF unused # {} /\ s = (CHOOSE t \in unused : TRUE)
            THEN [server[s] EXCEPT !.state = "forked"] ELSE server[s]]

HandleErrorTryingForever(c) ==      \* m_triedToStart not looked at
    /\ client' = [client EXCEPT ![c].phase = "waiting"]
    /\ ForkHostServer

Exits(c, code) ==
    client' = [client EXCEPT ![c].printed = <<>>, ![c].phase = "ended", ![c].exit = code]

HandleErrorWithRetry(c) ==
    IF client[c].tried
    THEN Exits(c, 1) /\ UNCHANGED server
    ELSE /\ client' = [client EXCEPT ![c].tried = TRUE, ![c].phase = "waiting"]
         /\ ForkHostServer

HandleStopError(c) == Exits(c, 1) /\ UNCHANGED server

Asks(c) == client[c].command.type

Watches(c) == Asks(c) \in {"watch-devices", "watch-messages"}

(* A connection succeeds once the server listens, before it is accepted, and
   the request is written at once.  A name left by a process that is gone
   refuses like a name that is not there. *)
SetupSocketAndConnect(c) ==
    IF path # None /\ server[path].state = "up"
    THEN /\ client' = [client EXCEPT
                ![c].peer = path,
                ![c].phase = IF Watches(c) THEN "watching" ELSE "asking"]
         /\ socket' = [socket EXCEPT ![c].request = TRUE]
         /\ server' = [server EXCEPT ![path].pending = Append(@, c)]
    ELSE /\ IF Asks(c) = "stop-server" THEN HandleStopError(c) ELSE HandleErrorWithRetry(c)
         /\ UNCHANGED socket

ExecClient(c) ==
    /\ client[c].phase = "idle"
    /\ IF Asks(c) = "start-server"
       THEN Exits(c, 0) /\ ForkHostServer /\ UNCHANGED socket
       ELSE SetupSocketAndConnect(c)
    /\ UNCHANGED <<path, events>>

(* startupDelay has passed, however long the server takes to start. *)
Retry(c) ==
    /\ client[c].phase = "waiting"
    /\ SetupSocketAndConnect(c)
    /\ UNCHANGED <<path, events>>

(* waitForReadyRead() returns true: any response will do, but for a stop. *)
HandleResponse(c) ==
    /\ client[c].phase = "asking" /\ socket[c].responses # <<>>
    /\ LET type == Head(socket[c].responses).type
       IN  Exits(c, IF Asks(c) = "stop-server" /\ type # "stopping" THEN 1 ELSE 0)
    /\ UNCHANGED <<socket, server, path, events>>

(* It returns false: the server has hung up. *)
GivesUp(c) ==
    /\ client[c].phase = "asking" /\ socket[c].responses = <<>> /\ socket[c].hungUp
    /\ Exits(c, 1)
    /\ UNCHANGED <<socket, server, path, events>>

WatchedTypes(c) ==
    IF Asks(c) = "watch-devices" THEN {"new-device", "disconnected-device"}
                                 ELSE {"messages"}

HandleWatchMessage(c) ==
    /\ client[c].phase = "watching" /\ socket[c].responses # <<>>
    /\ LET responses == socket[c].responses
           expected  == \A i \in DOMAIN responses :
                            responses[i].type \in WatchedTypes(c)
       IN  IF expected THEN client' = [client EXCEPT ![c].printed = @ \o responses]
                       ELSE Exits(c, 1)
    /\ socket' = [socket EXCEPT ![c].responses = <<>>]
    /\ UNCHANGED <<server, path, events>>

(* Or 30 s have passed.  The server may yet take the request and act on it. *)
AnswerTimesOut(c) ==
    /\ client[c].phase = "asking" /\ socket[c].responses = <<>> /\ events < MaxEvents
    /\ Exits(c, 1)
    /\ events' = events + 1
    /\ UNCHANGED <<socket, server, path>>

KillClient(c) ==
    /\ Runs(c) /\ events < MaxEvents
    /\ Exits(c, 2)
    /\ events' = events + 1
    /\ UNCHANGED <<socket, server, path>>
-----------------------------------------------------------------------------
(* The first half of listen(): whoever has the name loses it, and goes on
   serving the clients it has. *)
RemoveSocket(s) ==
    /\ server[s].state = "forked"
    /\ server' = [server EXCEPT ![s].state = "cleared"]
    /\ path' = None
    /\ UNCHANGED <<client, socket, events>>

(* The second half: QLocalServer::listen() fails if the name is there again. *)
Listen(s) ==
    /\ server[s].state = "cleared"
    /\ IF path = None
       THEN path' = s /\ server' = [server EXCEPT ![s].state = "up"]
       ELSE UNCHANGED path /\ server' = [server EXCEPT ![s].state = "stopped"]
    /\ UNCHANGED <<client, socket, events>>

HandleClient(s) ==
    /\ server[s].state = "up" /\ server[s].pending # <<>>
    /\ server' = [server EXCEPT ![s].servlets = Append(@, Head(server[s].pending)),
                                ![s].pending = Tail(@)]
    /\ UNCHANGED <<client, socket, path, events>>

Watchers(s, topic) ==
    {c \in ToSet(server[s].servlets) : socket[c].watching = topic}

Sent(k, responses) == [k EXCEPT !.responses = @ \o responses]

(* sendResponse() by the servlets connected to a signal; what is written to a
   client that is gone is lost. *)
Notified(s, topic, response) ==
    [c \in Clients |-> IF c \in Watchers(s, topic) /\ Runs(c)
                       THEN Sent(socket[c], <<response>>) ELSE socket[c]]

NewMessage(s) == Response("messages", <<server[s].logged, server[s].logged + 1>>)

(* handleDoneClient(): the servlet is erased when its socket is closed. *)
Erased(s, c) ==
    LET servlets == server[s].servlets
    IN  KeepAt(servlets, {i \in DOMAIN servlets : servlets[i] # c})

Ended(k) == [k EXCEPT !.request = FALSE, !.watching = "nothing", !.hungUp = TRUE]

(* Answer, close() and with it handleDoneClient(). *)
Reply(s, c, response, cleared) ==
    /\ socket' = [socket EXCEPT ![c] = Ended(Sent(@, <<response>>))]
    /\ server' = [server EXCEPT ![s].servlets = Erased(s, c), ![s].cleared = cleared]
    /\ UNCHANGED path

ReplyDevices(s, c) ==
    Reply(s, c, Response("devices", server[s].listed), server[s].cleared)

AllMessages(s) == Response("messages", <<server[s].cleared, server[s].logged>>)

StartWatching(c, topic, responses) ==
    socket' = [socket EXCEPT ![c].request = FALSE, ![c].watching = topic,
                             ![c].responses = @ \o responses]

StartWatchingDevicesFromNow(s, c) ==     \* the devices listed so far not sent
    StartWatching(c, "devices", <<>>) /\ UNCHANGED <<server, path>>

(* The devices are sent in the order of their listing, which no one relies on. *)
StartWatchingDevices(s, c) ==
    /\ StartWatching(c, "devices",
           SetToSeq({Response("new-device", <<d, server[s].listed[d]>>) :
                         d \in {e \in Devices : server[s].listed[e] # None}}))
    /\ UNCHANGED <<server, path>>

StartWatchingMessages(s, c) ==
    StartWatching(c, "messages", <<AllMessages(s)>>) /\ UNCHANGED <<server, path>>

(* HostServer::close() up to its loop: those who wait in m_localServer are
   cut off, and QLocalServer::close() removes the name, whosever it is. *)
CloseKeepsListening(s, c) ==             \* m_localServer.close() forgotten
    /\ server' = [server EXCEPT ![s].state = "closing", ![s].stopper = c]
    /\ UNCHANGED <<socket, path>>

Close(s, c) ==
    /\ server' = [server EXCEPT ![s].state = "closing", ![s].stopper = c,
                                ![s].pending = <<>>]
    /\ socket' = [d \in Clients |-> IF d \in ToSet(server[s].pending)
                                    THEN Ended(socket[d]) ELSE socket[d]]
    /\ path' = None

(* The refusal is logged as a warning first. *)
RefuseVersion(s, c) ==
    LET notified == Notified(s, "messages", NewMessage(s))
    IN  /\ socket' = [notified EXCEPT ![c] =
               Ended(Sent(@, <<Response("unsupported-version", <<>>)>>))]
        /\ server' = [server EXCEPT ![s].servlets = Erased(s, c), ![s].logged = @ + 1]
        /\ UNCHANGED path

HandleRequest(s, c) ==
    /\ server[s].state = "up" /\ c \in ToSet(server[s].servlets) /\ socket[c].request
    /\ LET type    == Asks(c)
           refused == /\ client[c].command.version # qdbHostMessageVersion
                      /\ type # "stop-server"
       IN  \/ refused /\ RefuseVersion(s, c)
           \/ /\ ~refused
              /\ \/ type = "devices"        /\ ReplyDevices(s, c)
                 \/ type = "watch-devices"  /\ StartWatchingDevices(s, c)
                 \/ type = "stop-server"    /\ Close(s, c)
                 \/ type = "messages"       /\ Reply(s, c, AllMessages(s), server[s].cleared)
                 \/ /\ type = "messages-and-clear"
                    /\ Reply(s, c, AllMessages(s), server[s].logged)
                 \/ type = "watch-messages" /\ StartWatchingMessages(s, c)
    /\ UNCHANGED <<client, events>>

(* A request that has arrived is read before the end of the socket is. *)
HandleDisconnection(s, c) ==
    /\ server[s].state = "up" /\ c \in ToSet(server[s].servlets)
    /\ ~Runs(c) /\ ~socket[c].request
    /\ server' = [server EXCEPT ![s].servlets = Erased(s, c)]
    /\ socket' = [socket EXCEPT ![c] = Ended(@)]
    /\ UNCHANGED <<client, path, events>>

(* One round of the loop of HostServer::close(): the socket's last bytes are
   written and it is closed. *)
CloseServlet(s) ==
    /\ server[s].state = "closing" /\ server[s].servlets # <<>>
    /\ LET c == Head(server[s].servlets)
           last == IF c = server[s].stopper THEN <<Response("stopping", <<>>)>> ELSE <<>>
       IN  /\ socket' = [socket EXCEPT ![c] = Ended(Sent(@, last))]
           /\ server' = [server EXCEPT ![s].servlets = Erased(s, c)]
    /\ UNCHANGED <<client, path, events>>

Quit(s) ==
    /\ server[s].state = "closing" /\ server[s].servlets = <<>>
    /\ server' = [server EXCEPT ![s] = Process("stopped")]
    /\ UNCHANGED <<client, socket, path, events>>

(* The signals of the DeviceManager and of Logging; a device is reported again
   when its information has changed. *)
HandleNewDeviceInfo(s, d, info) ==
    /\ server[s].state = "up" /\ server[s].listed[d] # info
    /\ server[s].listed[d] # None => events < MaxEvents
    /\ server' = [server EXCEPT ![s].listed[d] = info]
    /\ socket' = Notified(s, "devices", Response("new-device", <<d, info>>))
    /\ events' = IF server[s].listed[d] = None THEN events ELSE events + 1
    /\ UNCHANGED <<client, path>>

HandleDisconnectedDevice(s, d) ==
    /\ server[s].state = "up" /\ server[s].listed[d] # None /\ events < MaxEvents
    /\ server' = [server EXCEPT ![s].listed[d] = None]
    /\ socket' = Notified(s, "devices", Response("disconnected-device", <<d, None>>))
    /\ events' = events + 1
    /\ UNCHANGED <<client, path>>

EmitNewMessage(s) ==
    /\ server[s].state = "up" /\ events < MaxEvents
    /\ server' = [server EXCEPT ![s].logged = @ + 1]
    /\ socket' = Notified(s, "messages", NewMessage(s))
    /\ events' = events + 1
    /\ UNCHANGED <<client, path>>

Interrupt(s) ==
    /\ server[s].state = "up" /\ events < MaxEvents
    /\ Close(s, None)
    /\ events' = events + 1
    /\ UNCHANGED <<client>>

(* The process is killed, as by a second interrupt: its sockets are closed for
   it, its name stays. *)
Crash(s) ==
    /\ server[s].state \in {"forked", "cleared", "up", "closing"}
    /\ events < MaxEvents
    /\ LET cut == ToSet(server[s].servlets \o server[s].pending)
       IN  socket' = [d \in Clients |-> IF d \in cut THEN Ended(socket[d]) ELSE socket[d]]
    /\ server' = [server EXCEPT ![s] = Process("stopped")]
    /\ events' = events + 1
    /\ UNCHANGED <<client, path>>
-----------------------------------------------------------------------------
ClientStep(c) ==
    Retry(c) \/ HandleResponse(c) \/ HandleWatchMessage(c) \/ GivesUp(c)

ServerStep(s) ==
    RemoveSocket(s) \/ Listen(s) \/ HandleClient(s) \/ CloseServlet(s) \/ Quit(s)
        \/ \E c \in Clients : HandleRequest(s, c) \/ HandleDisconnection(s, c)

Next ==
    \/ \E c \in Clients :
          ExecClient(c) \/ ClientStep(c) \/ AnswerTimesOut(c) \/ KillClient(c)
    \/ \E s \in Servers :
          \/ ServerStep(s)
          \/ \E d \in Devices, info \in Infos : HandleNewDeviceInfo(s, d, info)
          \/ \E d \in Devices : HandleDisconnectedDevice(s, d)
          \/ EmitNewMessage(s) \/ Interrupt(s) \/ Crash(s)

(* A process that can run does. *)
Fairness ==
    /\ \A c \in Clients : WF_vars(ClientStep(c))
    /\ \A s \in Servers : WF_vars(ServerStep(s))

Spec == Init /\ [][Next]_vars
FairSpec == Spec /\ Fairness
-----------------------------------------------------------------------------
(* Every variable keeps its type, and a client is one servlet of one server,
   the one it is connected to, until its socket is closed there. *)
TypeOK ==
    /\ \A c \in Clients :
          /\ client[c].phase \in {"idle", "waiting", "asking", "watching", "ended"}
          /\ client[c].exit \in {None, 0, 1, 2}
          /\ (client[c].exit = None) = (client[c].phase # "ended")
          /\ client[c].peer \in Servers \cup {None}
          /\ socket[c].watching \in {"nothing", "devices", "messages"}
    /\ \A s \in Servers :
          /\ server[s].state \in {"none", "forked", "cleared", "up", "closing", "stopped"}
          /\ LET all == server[s].servlets \o server[s].pending
             IN  /\ IsInjective(all)
                 /\ ToSet(all) = {c \in Clients : client[c].peer = s /\ ~socket[c].hungUp}
    /\ path \in Servers \cup {None}

(* For each device the last report about it, if any, says what is listed. *)
Describe(reports, listed) ==
    \A d \in Devices :
        \/ /\ \A i \in DOMAIN reports : reports[i].data[1] # d
           /\ listed[d] = None
        \/ \E i \in DOMAIN reports :
              /\ reports[i].data = <<d, listed[d]>>
              /\ \A j \in DOMAIN reports : j > i => reports[j].data[1] # d

Adjoin(batches) ==
    \A i \in 1..(Len(batches) - 1) : batches[i].data[2] = batches[i + 1].data[1]

(* What a watcher has been told adds up to what its server knows, whenever it
   began to watch and whatever others do meanwhile: no device or change is
   missed between the first report and the signals (hostservlet.cpp:188-198),
   and of the messages none is missed, repeated or out of order although
   another client may clear them (hostservlet.cpp:200-214). *)
WatchersAreUpToDate ==
    \A s \in Servers : \A c \in ToSet(server[s].servlets) :
        LET told == client[c].printed \o socket[c].responses IN
        Runs(c) =>
            /\ socket[c].watching = "devices" => Describe(told, server[s].listed)
            /\ socket[c].watching = "messages" =>
                   Adjoin(told) /\ Last(told).data[2] = server[s].logged

(* Once stop-server has reported success, the server it has asked cannot be
   reached any more, although that server may still be closing its other
   clients: the client's next command starts a new one or finds another
   (hostserver.cpp:93-100 and hostservlet.cpp:216-222). *)
StoppedMeansUnreachable ==
    \A c \in Clients :
        Asks(c) = "stop-server" /\ client[c].exit = 0 => path # client[c].peer

(* Every command ends except a watch, whichever servers are started, stopped
   or killed on the way: a client starts a server once at the most
   (client.cpp:162-183) and is never left without an answer or an end of its
   socket. *)
EveryCommandEnds ==
    \A c \in Clients :
        client[c].phase \in {"waiting", "asking"}
            ~> client[c].phase \in {"watching", "ended"}
=============================================================================
