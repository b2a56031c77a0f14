# QDB in TLA+

A verification project for the Qt Debug Bridge: the `qdb` host tool
(`src/qdb`), the `qdbd` device daemon (`src/qdbd`) and their common library
(`src/libqdb`). The modules here are translated from the C++ source. TLC checks
them on small instances, and TLAPS proves for every value of their constants the invariants of a
Connection, the daemon's Server, the two ends together, a Stream, the USB link in both directions, the device management
and the host servers, and that a Stream and the link implement their abstract specifications.
`PROJECT.json` maps each definition to the lines it stands for and lists runs, mutants,
hazards, findings and theorems.

Contents

1. The system: components, state, operations, interactions
2. Where it is hard, and what makes each part correct
3. The modules and how they correspond to the code
4. The runs: questions, bounds, fairness
5. What the runs found
6. One mutant per property
7. What is proved, and how
8. What is not modelled, and what is only model-checked
9. Plan

## 1. The system

```
 qdb (client process)          qdb (host server process)                    qdbd (device)
 Client --local socket--> HostServer/HostServlet
                              |  signals
                          DeviceManager -- ConnectionPool
                              |                 |
                     services (echo, handshake, network)      executors (echo, handshake, network)
                              |  Stream                              |  Stream
                          Connection  ---- QdbMessage ---->   Server
                          QdbTransport                        QdbTransport
                          UsbConnection + reader thread  ==USB==  UsbGadget + reader, writer, control threads
```

| component | source | state | operations |
|---|---|---|---|
| Connection | `qdb/server/connection.cpp` | `m_state` (Disconnected, WaitingForConnection, Connected, Waiting), queue of outgoing messages, streams by host id, requests waiting for an Ok, next id | connect, createStream, enqueueMessage, handleMessage (every kind of message in each of the four states), processQueue, resetConnection, close, destructor |
| Server | `qdbd/server.cpp` | state, queue, streams by device id, executors, next id | handleMessage, processQueue, handleConnect/Open/Write, closeStream, refuse, resetServer |
| Stream, StreamPacket | `libqdb/stream.cpp` | the two ids, the packet being put together | write (split in messages), receiveMessage, requestClose, close |
| Services | `qdb/server/*service.cpp` | the Stream pointer or none | initialize, answer, close, told of a closed stream or a lost connection |
| Executors | `qdbd/*executor.cpp` | the Stream pointer | receive, answer |
| Device management | `qdb/server/devicemanager.cpp`, `networkconfigurator.cpp`, `deviceinformationfetcher.cpp`, `connectionpool.cpp`, `subnet.cpp` | listed devices, incomplete devices and their timers, running tasks, pool of weakly shared connections, reserved subnets | plug, unplug, configure, fetch, retry, release |
| Host USB | `qdb/server/usb-host/` | queue of reads, error count, known devices | blocking write of header and payload, read thread, poll of the bus |
| Device USB | `qdbd/usb-gadget/` | queue of reads, the message half read | read thread, write thread, control thread |
| Host server | `qdb/server/hostserver.cpp`, `hostservlet.cpp`, `logging.cpp` | servlets, cached messages, the socket's name | listen, accept, requests, signals to watches, close |
| Client | `qdb/client/client.cpp` | socket, whether a server was started | the seven commands, retry after starting a server |

How they interact. The host sends one message at a time: an Open or a Write
waits for its Ok, a Close for nothing, and an Ok overtakes the queue. The device
does the same with its Writes. A send that fails resets the connection in the
middle of whatever handler made it; the reset calls back into services, which
may call the connection again. Services share a connection through the pool; the
device manager keeps a device while a task, the list or the queue of incomplete
devices holds it, and a subnet is reserved as long as any of them does. Between
threads of one process only queues, locks and posted signals are shared. Clients
and servers share the name of one local socket.

## 2. Where it is hard

The hazards are listed in `PROJECT.json` with their lines. By component:

- **Connection**: re-entrance. A reset deep inside `processQueue()` clears the
  streams, requests and queue its callers work with; services react from inside
  callbacks. Correct: no stream outlives the connection and no service holds a
  stream that is gone; no callback reaches a service that gave up; nothing is
  sent to a stream that was closed; what was asked for before the connection
  was agreed is neither lost nor sent early; a late answer opens nothing.
- **Server**: a host that is replaced without notice. Correct: executors and
  streams stay paired, the queue does not stall, device ids are fresh for ever,
  so that a message for an old stream cannot reach a new one.
- **The two together**: both may wait for an Ok; messages of an old Connection
  are in the pipes when a new one starts. Correct: packets of a stream arrive in
  order, once, and on the stream they were for; nobody waits in silence; with
  nothing on its way both ends agree on the open streams; reconnects end.
- **Stream**: nothing in a message says whether it begins a packet. Correct: what
  is written is delivered whole, once and in order, also when either end goes in
  the middle of a packet, and no half packet is waited for or handed on.
- **USB link**: a message is two transfers to the device, one write of several
  packets from it, and nothing marks where a message begins. Correct: whatever is
  cut off, the device finds the next message again; the host loses no short
  message to a timeout, and no write hangs.
- **Device management**: answers, timers, polls and deferred deletions in any
  order; polls that miss a device, addresses that are used again. Correct: one
  connection to a device, no subnet used twice, every
  incomplete device has a timer that will ask again.
- **Host server and clients**: several clients start, watch, stop and interrupt
  several servers, and give up waiting. Correct: watches miss nothing, a stopped server is out of
  reach, every command ends.

## 3. The modules

| module | models | composed of |
|---|---|---|
| `Queues` | `KeepAt`, the `erase(remove_if())` and the selections made from a queue | |
| `QdbMessages` | `QdbMessage`, protocol constants | |
| `Connection` | class Connection, with the services' part of it | `QdbMessages`, `Queues` |
| `Server` | class Server, with the executors' part of it | `QdbMessages`, `Queues` |
| `Qdb` | the whole connection: host, device, pipes, cable, replacement Connections | instances of `Connection` and `Server` |
| `PacketStream` | what a stream promises in one direction, abstractly | |
| `Stream` | both Stream objects of one direction of a stream, byte by byte | implements `PacketStream` |
| `MessagePipe` | what the transport promises the device's Server, abstractly | |
| `UsbLink` | UsbConnection and UsbGadget with their threads | implements `MessagePipe` |
| `UsbReader` | the device's writing thread and the host's reading thread, packet by packet | |
| `DeviceManager` | device management and the device's network configuration | `Queues` |
| `HostServer` | clients, host servers, the local socket | `Queues` |
| `MCConnection`, `MCServer`, `MCStream`, `MCHostServer` | the inputs of the runs | |
| `QueuesProofs`, `ConnectionProofs`, `ServerProofs`, `QdbProofs`, `StreamProofs`, `UsbLinkProofs`, `HostServerProofs`, `DeviceManagerProofs` | lemmas, theorems, proofs | |

**Connection and Server.** Everything in these classes runs on one event loop,
so one event is one step. A step may be long: `handleMessage()` may send, fail,
reset, call services back and be called by them. Every function of the class is
therefore an operator of the same name that maps the object, one record, to the
object it returns with; an action builds the record from the variables
(`Activation`), applies the function that the event calls, and writes the result
back (`Commit`). The field `sends` is the number of sends that still succeed in
this event, so a failure can strike at any send of a handler. `processQueue()`
sends one message at most on the host, and on the device it calls itself after a
Close; both are written without RECURSIVE, so that the modules can be proved about. `streams` maps a host
id to a device id (and the reverse on the device), which is all that a Stream
object is once packets are single messages; `Stream` has the rest of it. A service is the id of its stream:
in `opening` while it waits for `streamCreated()`, in `holders` while `m_stream`
is not null. `object = "crashed"` is the call through the null entry that
`m_streams[hostStream]` makes (section 5). `assertsHold` remembers the Q_ASSERTs of
`processQueue()`.

**Qdb** replaces the arbitrary peer of both modules with the other one. Its pipes
are reliable and in order while the cable is in. `Unplug`, and a cable pulled
during an event, lose what was on the way from some message on, and leave the
failed read as last message. `NewConnection` is a new Connection object,
in the same or a new host process: the device is not told, and what is in the
pipes stays there. It happens between two messages; in the middle of one is
`UsbLink`'s subject. `DeviceRestarts` needs the gadget gone, hence the cable out.
Packets are numbered per stream, so order and loss can be stated.

**Stream** is one direction of one stream: `Write` cuts a packet of bytes, with its
size in front, into the messages of `Pieces`; they wait on `outgoing` (the part of
`m_outgoingMessages` that is this stream's), pass the `pipe` in order, and
`ReceiveFirst` and `ReceiveNext`, the two branches of `receiveMessage()`, put them
together. The connection is reduced to what it does to these messages: it
sends them (`Send`), drops them with the stream (`WriterReset`), or replaces them by
a Close (`WriterCloses`); `Connection` and `Server` are where that is checked of the
code. `WriteFails` is the send that fails while `write()` queues the rest of a packet:
the reset has destroyed the object whose loop is running, so what follows is
undefined, and `Aftermaths` says which outcomes a run allows. `PacketStream` is what the
user of a stream sees of it, a queue of packets that may be cut off at its end;
`Abstract == INSTANCE PacketStream WITH status <- Status` is the refinement. A message carries
two more fields, which packet and which byte it begins with; the reader never looks at them, only
`OrderlyClose` and the proof do.

**UsbLink** has a transfer as its unit: the host's thread writes a header, and
the payload when the header was taken (`writing`, `out`); the device's thread reads a
header, then a payload if it needs one (`need`); the device's write thread and
the host's reading thread work on the other endpoint. An endpoint holds one
transfer. Above it only the handshake is left of Connection and Server.
`Pipe == INSTANCE MessagePipe WITH ...` is the refinement: the queue is what the
device's thread will make of the transfers still to come, `torn` says whether
the last of them leaves it with half a message.

**UsbReader** is the other direction in detail, whose unit is a packet of the endpoint.
The device writes a message in one call; the host's thread reads transfers of
`qdbMessageSize` bytes, which end with a packet that is not full, a full buffer, an error or
after 500 ms (`TimesOut`, at any moment). Each read is posted to the main thread,
where `QdbTransport::receive()` makes one message of it (`Receive`), whatever else
it holds. `cut` remembers the messages hit by a failed write or transfer, so that the
properties can tell what failures excuse. `Size` counts a transfer's bytes as full packets and a
last one, which `ReadsAreRuns` of `UsbLinkProofs` justifies. Names that `UsbLink` has too begin with
`Reader` or differ, as `UsbLinkProofs` extends both modules.

**DeviceManager** follows `Connection`'s form: an event maps the record `manager` to
the next one. A QDB connection is seen as its users see it: requests are
answered in order, or it goes down and every service is told. The device's
control thread (`Suspend`, `Reset`) and main thread (`DeviceHandles`) interleave;
`DeviceHandles` chooses among the answers that the two locked sections
`set()` and `subnet()` permit, with a reset between them or not. Deferred deletions are
handled before the next timer or poll, as Qt's event loop does. A libusb device is a new
number each time a device is plugged in, its `address` may
be one that was in use before. A poll sees all that is there, or misses some of the
devices it knew (`Seen`): one that cannot be opened at that moment, or all of
them when the bus cannot be listed. `missed` and `unlisted` only remember, for the
properties, which devices a poll has missed and which lost their entry in the list to the unplugging
of another. Connections are numbered
with the smallest free number, and tasks that are done keep only what they hold, so
that the state space stays small.

**HostServer** has one process per client and server. A handler is one step,
but for two places where another process sees it half done: `listen()` removes
the socket's name before it binds it, so two servers can race, and
`HostServer::close()` lets go of its servlets one by one. The behaviour of
`QLocalServer` and `QLocalSocket` (a name removed on close whosever it is, an
end of file after the last data) is external and modelled from how the code uses
it. What a watch has printed is kept, to be compared with what the server knows.

## 4. The runs

Passing runs; the numbers are TLC's distinct states.

| run | states | bounds | shows |
|---|---|---|---|
| `connection` | 3,937 | 2 streams, queue of 3, sends fail after 0, 1 or never | against a device that may send anything at any time, stale, wrong or unreadable, streams, callbacks and queue are consistent after every event |
| `server` | 2,097 | 2 streams, queue of 3, endpoint open or closed | the same for the device's end; the queue never stalls |
| `session` | 1,746,261 | 2 Connections, 2 streams (one echo, one unknown tag), 2 packets, cable pulled before, in or between events | order, no loss, no mutual wait, agreement, no forgotten request; a service is never left with a stream or a request on a dead connection; the null stream only without the cable |
| `restart` | 60,343 | 3 Connections in a row, 2 streams, 1 packet | no assertion of the two ends fails on stale messages, which do not keep the ends busy for ever; what a destroyed Connection leaves open at the device is what it had not been told of |
| `framing` | 40,639 | 4 packets of 1 to 9 bytes in messages of 5, 3 written | a Stream implements `PacketStream` and delivers what is written; its assertions hold; a Close that was asked for comes after the last whole packet |
| `usb` | 51,211 | 3 UsbConnections, 2 pulls, 3 messages with payloads of 0, 16 and 40 bytes | the link implements `MessagePipe`; agreement above means alignment below; an unplug is noticed |
| `usb_reader` | 164,241 | 3 messages of 1, 2 and 3 packets, two sizes that fill their last packet | what is shorter than a packet gets through whole, nothing is made up of it, and no write hangs, with timeouts, failed transfers and failed writes anywhere |
| `devices` | 3,385,666 | 2 devices, 2 times plugged in, 2 subnets, 2 troubles, 1 timer | one connection per device, exclusive reservations, subnets in use are reserved, a timer for each incomplete device |
| `host_server` | 536,349 | 3 clients in 4 workloads, 2 servers, 1 device, 1 event from outside | watches add up, stopped means unreachable, commands end |

Why the bounds are enough. The interesting cases of a Connection need two
streams: one that waits, and another that closes, writes or opens meanwhile; a
third adds no new pair. A send fails at once, after the first, or not: no handler
of the model depends on more than one earlier send, and proofs cover the rest.
Two packets show an order; one is enough where the question is whether it
arrives on the right stream. Three Connections are needed for a stale message of
a stale message. Packets of one, two and three messages have a first, a middle and
a last piece, and their bytes look like sizes where a piece begins; the proof covers
all other sizes. A message of the device is a short one, one that ends in a short packet, one that
does not, or the longest; three in a row are one that is cut, what is made of it,
and what comes after. Payloads of 0, of exactly a header's size, and of more are the three
cases that a reader out of step can tell apart. Two devices and two subnets
conflict; two troubles are a trouble while another is handled (a lost
connection, a suspend, a failing script, a failed open or send, missing
information, a poll that misses a device, a restart of the host server). `MaxTimers` stops only new failures
of a fetch, never the handling of what runs. Three clients are one that watches,
one that asks and one that stops, and two servers are one more than should be.
A workload says what the three are called with: a watch of messages beside one
who clears them and one who stops the server; a watch of devices beside a list
and a stop; a watch, a client of another version and a second start; two stops
at once. Each client may also not be started at all. `MaxEvents` is shared by
warnings, kills, timeouts, interrupts and changes of a listed device; the first listing
of a device is free of it.

`Clients` and `Devices` stay without symmetry wherever liveness is checked; `devices` uses
symmetry in the devices and checks invariants only. The runs with
`CHECK_DEADLOCK FALSE` end in states where every input has reached its bound or
the object is gone, which the program really reaches.

Fairness. `restart` assumes weak fairness of the two event loops (a message that
has arrived is handled) and of the pool's connect(); no service is obliged to do
anything. `usb` assumes it of each thread, which blocks only in transfers that the
other side or the unplugging ends. `host_server` assumes it of each process: a process
that can run does, but for the client's 30 s, which may never be needed. `framing` assumes it of
sending and receiving: the reader's event loop runs, and the connection goes on with
its queue (the exception is the finding of run `queue_stall`). `usb_reader` assumes it of the two threads
and of the host's main thread, and nothing of timeouts and failures. Nothing is assumed
of users, of cables, or of
devices being plugged in.

`EveryCommandEnds` leaves the watches out: they end only when they are
interrupted, and a watch whose server has gone is not told (`client.cpp:164` ignores PeerClosedError).
`OpeningHasRequest` is stated for the first Connection
to a device, as a reconnect caused by stale messages does drop requests without a
call (`connection.cpp:292`). `ListedSubnetIsReserved` allows the empty subnet that a late reset leaves,
and leaves out devices that a poll has missed (section 5). `IncompleteAreAskedAgain` promises an
entry in the list to the incomplete devices that no poll has missed and that did not lose their entry to the
unplugging of another device (section 5); that a timer is left for each holds of all of them.

`Connection`, `Server` and `Stream` have their `TypeOK` among the properties of their runs; in the
other modules it documents the variables and has been checked apart from the runs (section 7 proves
those of `UsbLink` and `DeviceManager`).

## 5. What the runs found

Three runs state what the source says of itself, and fail.

| run | what the source says | what happens |
|---|---|---|
| `queue_stall` | `server.cpp:171-173`: after a Close "we also need to move onto the next message in the queue, otherwise it would only be sent after host sends us something" | the host's `processQueue()` (`connection.cpp:273`) returns after the Close; a message queued behind it waits for unrelated traffic |
| `null_stream` | `stream.cpp:91`: `Q_ASSERT(message.hostStream() == m_hostId)` | the Ok of a Write fails to be sent, the reset empties `m_streams`, and `m_streams[hostStream]->receiveMessage()` (`connection.cpp:363`) calls through a null pointer |
| `write_goes_on` | `stream.cpp:96` and `112`: "One QdbMessage must only contain data from a single Stream packet" | a send fails as a piece of a long packet is queued, the reset destroys the stream, and the loop of `Stream::write()` (`stream.cpp:59`) queues the remaining pieces behind it; the reader takes their bytes for a size |

What holds in spite of them is checked too: no packet is lost and both ends agree again
(`AllAnsweredWhenQuiet`, `AgreementWhenQuiet`), the null stream is reached only
without the cable (`NoCrashWhilePluggedIn`), and a stream is exact as long as no write outlives it
(`ImplementsPacketStream`, proved under that assumption).

The properties of the other runs had to be worded around some behaviour of the code
that no line of it promises to avoid:

- A Close of any stream ends the device's wait for the Ok of a Write
  (`server.cpp:112`), and it sends the next one. Order and agreement hold all the same.
- A host that dies between the two transfers of a message leaves the device
  waiting for a payload, for which it takes the next host's header
  (`usbgadgetreader.cpp:73`): one message is lost or forged at each such cut, and no
  more (`ImplementsMessagePipe`).
- A timeout of the host's reader drops what the transfer had got
  (`usbconnectionreader.cpp:59-74`), and a message that fills its last packet does not end its transfer, so
  that the next one is read with it and ignored, or both are dropped. `OnlyLongMessagesAreLost` and
  `MadeUpOfLongMessages` say that this is all: messages shorter than a packet, among them every Ok
  and Close, are safe unless they follow such a message.
- A poll that misses a device that is there makes the next one configure it a
  second time. With a suspend between the two, the device uses the second
  reservation while the list keeps the first (`devicemanager.cpp:98` replaces the
  addresses alone). Of two incomplete entries only the first is removed at an unplug
  (`devicemanager.cpp:122`).
- A device that is exchanged at one address between two polls is not
  configured; the entry of the one before stays until that address is empty.
- Entries are removed by address too, whichever device has it now. A device that is
  listed under address 1, and between two polls goes elsewhere while another takes address 1,
  loses its entry when that other is unplugged (`devicemanager.cpp:126`), although it is there and
  may be in the queue of incomplete devices: that they "already have information stored about
  them" (`devicemanager.cpp:123`) is then not true. It takes three times of plugging
  in, one more than the run has. The proof of `IncompleteGoOn` did not go through
  for it, and `unlisted` names the case.

## 6. One mutant per property

Each mutant stands in the module before the operator it replaces, with a comment that
names the mistake; its run then violates the property.

| run | property | replaced | mutant |
|---|---|---|---|
| `connection` | `TypeOK` | `Connection.Connect` | `ConnectOnlyQueues` |
| `connection` | `StreamsOnlyWhenConnected` | `Connection.Forget` | `ForgetKeepsStreams` |
| `connection` | `NoDanglingStream` | `Connection.CloseStream` | `CloseStreamSilently` |
| `connection` | `RequestsHaveServices` | `Connection.Forget` | `ForgetKeepsRequests` |
| `connection` | `QueuedWritesHaveStreams` | `Connection.CloseStream` | `CloseStreamKeepsQueue` |
| `connection` | `PendingOpensQueued` | `Connection.Forget` | `ForgetKeepsQueue` |
| `connection` | `DestroyedLeavesNothing` | `Connection.Close` | `CloseOnlyConnected` |
| `connection` | `ClosedStreamsStayClosed` | `Connection.HandleOk` | `HandleOkUnchecked` |
| `server` | `TypeOK` | `Server.HandleOpen` | `HandleOpenAnyTag` |
| `server` | `ExecutorsMatchStreams` | `Server.CloseStream` | `CloseStreamKeepsExecutor` |
| `server` | `QueueEmptyWhenConnected` | `Server.LastSent` | `LastSentFirst` |
| `server` | `StreamIdsAreFresh` | `Server.ResetServer` | `ResetServerRestartsIds` |
| `session` | `EchoInOrder` | `Connection.HandleInWaitingForConnection` | `HandleAnyAsConnect` |
| `session` | `NobodyWaitsInSilence` | `Connection.Acknowledge` | `AcknowledgeUnlessWaiting` |
| `session` | `AgreementWhenQuiet` | `Connection.AfterSend` | `AfterSendNoClose` |
| `session` | `AllAnsweredWhenQuiet` | `Connection.CloseStream` | `CloseStreamClearsQueue` |
| `session` | `OpeningHasRequest` | `Connection.FinishCreateStream` | `FinishCreateStreamClears` |
| `session` | `NoCrashWhilePluggedIn` | `Connection.HandleWrite` | `HandleWriteUnchecked` |
| `session` | `UnpluggingReachesServices` | `Connection.HandleMessage` | `HandleMessageFailedRead` |
| `restart` | `AssertionsHold` | `Connection.FinishCreateStream` | `FinishCreateStreamHostId` |
| `restart` | `DestroyedClosesStreams` | `Connection.Close` | `CloseSilently` |
| `restart` | `EventuallyQuiet` | `Server.HandleConnect` | `HandleConnectAcknowledged` |
| `devices` | `OneConnectionPerDevice` | `DeviceManager.Connect` | `ConnectAnew` |
| `devices` | `ReservationsAreExclusive` | `DeviceManager.HandleAlreadySet` | `HandleAlreadySetUnreserved` |
| `devices` | `ListedSubnetIsReserved` | `DeviceManager.HandleAlreadySet` | `HandleAlreadySetKeepsOwn` |
| `devices` | `IncompleteAreAskedAgain` | `DeviceManager.HandleDeviceInformation` | `HandleDeviceInformationOneTimer` |
| `usb` | `UnpluggingIsNoticed` | `UsbLink.HostReads` | `HostReadsSilently` |
| `usb` | `ImplementsMessagePipe` | `UsbLink.ReadTransfer` | `ReadTransferAnyHeader` |
| `usb` | `AgreedMeansAligned` | `UsbLink.ReadTransfer` | `ReadTransferWaitingForRest` |
| `host_server` | `WatchersAreUpToDate` | `HostServer.StartWatchingDevices` | `StartWatchingDevicesFromNow` |
| `host_server` | `StoppedMeansUnreachable` | `HostServer.Close` | `CloseKeepsListening` |
| `host_server` | `EveryCommandEnds` | `HostServer.HandleErrorWithRetry` | `HandleErrorTryingForever` |
| `framing` | `TypeOK` | `Stream.ReceiveFirst` | `ReceiveFirstMissing` |
| `framing` | `AssertionsHold` | `Stream.Available` | `AvailableKeepsPart` |
| `framing` | `OrderlyClose` | `Stream.RequestClose` | `RequestCloseFirst` |
| `framing` | `ImplementsPacketStream` | `Stream.Pieces` | `PiecesFromStart` |
| `framing` | `EveryPacketArrives` | `Stream.WrapPacket` | `WrapPacketWhole` |
| `usb_reader` | `OnlyLongMessagesAreLost` | `UsbReader.Transfer` | `TransferOverwrites` |
| `usb_reader` | `MadeUpOfLongMessages` | `UsbReader.TransferFails` | `TransferFailsAloud` |
| `usb_reader` | `EveryWriteEnds` | `UsbReader.WriteFails` | `WriteFailsRetrying` |

## 7. What is proved

`ConnectionProofs` proves, of module `Connection`, for every set of device
messages other than Opens, every set of reactions, tags, packets and send budgets,
and every bound, which is to say for any device, any failing transport and any services:

| theorem | states |
|---|---|
| `Invariance` | `Spec => []IInv`, the inductive invariant |
| `TypeCorrect` | `TypeOK` |
| `StreamsNeedAgreement` | `StreamsOnlyWhenConnected` |
| `NoStreamDangles` | `NoDanglingStream` |
| `CallbacksAreWanted` | `RequestsHaveServices` |
| `WritesAreForStreams` | `QueuedWritesHaveStreams` |
| `OpensWaitForConnection` | `PendingOpensQueued` |
| `DestructionIsComplete` | `DestroyedLeavesNothing` |
| `IdsAreUsedOnce` | the action property `ClosedStreamsStayClosed` |

The only assumption is `InputsAssumption`: the device sends messages other than
Open, which only a host sends, and the inputs have their types.

The argument. An event of a Connection is a chain of function calls, so the
invariant is stated of the record the functions pass on: `Consistent(c)` says that
the record is typed and that the five invariants hold of it, and `Follows(c, d)` that
ids only count up, that no used id becomes known again and that only the
destructor ends the object's life. There is one lemma for each function,
in the order of the calls: given a consistent object it returns one that is
consistent and follows it. `FreshConsistent` and `CommitConsistent` lead from the
variables to the record and back, and `NextIInv` has a case for each action.

`IInv` adds two facts to the invariants the run checks. `close()` numbers the
streams it closes, so that there are finitely many has to be known; and an
object on which nobody has called `connect()` has nothing queued, asked for or
open yet, which `PendingOpensQueued` needs of the state `connect()` starts from. The
invariants need each other:
`QueuedWritesHaveStreams` is preserved by the reset only because
`Forget` empties both sides, and `PendingOpensQueued` after a reset with
reconnect only because requests and queue are emptied together.

`QueuesProofs` has what `KeepAt` returns of any queue: a sequence of the same
elements, and exactly of those at the places to be kept. It also says how a queue of messages
changes when one is added, taken from the front or dropped: what it holds, how many of a kind, and
in which order the packets of a stream. The modules below use it too.

`ServerProofs` proves, of module `Server`, for every host, every set of tags and any
pattern of failing sends:

| theorem | states |
|---|---|
| `Invariance` | `Spec => []IInv`, the inductive invariant |
| `TypeCorrect` | `TypeOK` |
| `ExecutorsHaveStreams` | `ExecutorsMatchStreams` |
| `NothingIsLeftQueued` | `QueueEmptyWhenConnected` |
| `AssertionHolds` | the Q_ASSERT of `processQueue()` holds |
| `AnswersAreForStreams` | a queued Write carries the ids of a stream that is open |
| `IdsAreNotReused` | the action property `StreamIdsAreFresh` |

It assumes of the host's messages that none is Refuse, which only a device sends, or Invalid, which
is no message that arrives (`InputsAssumption`). The method is that of `ConnectionProofs`. The invariant
adds to the run's that a queued Write has its stream (`QueuedWritesMatchStreams`),
which `assertsHold` needs, and that ids are below `nextStreamId`. The work is in `processQueue()`,
which goes on by itself after a Close: `LastSent` says how far, and the lemmas on it that
it stops at the first message that waits for an Ok or with an empty queue.

`QdbProofs` proves, of module `Qdb`, for any tags and any number of streams, packets and
Connections, with a cable that may be pulled before, in or between events, all the invariants its runs check:

| theorem | states |
|---|---|
| `Invariance` | `Spec => []QdbInv`, the inductive invariant |
| `TypeCorrect` | `TypeOK` |
| `EchoesInOrder` | `EchoInOrder` |
| `NobodyWaits` | `NobodyWaitsInSilence` |
| `EndsAgree` | `AgreementWhenQuiet` |
| `PacketsAreAnswered` | `AllAnsweredWhenQuiet` |
| `NoAssertionFails` | `AssertionsHold` |
| `CallbacksAreKept` | `OpeningHasRequest` |
| `PluggedInNoCrash` | `NoCrashWhilePluggedIn` |
| `ServicesAreTold` | `UnpluggingReachesServices` |
| `DestroyedLeavesOne` | `DestroyedClosesStreams` |

`BoundsAssumption` is all it assumes: the tags and bounds are numbers, and a service may write at least one
packet on at least one Connection, as the echo service does as soon as it has its stream.

The argument. None of these invariants can be proved of what it speaks of alone: that nothing is
waited for when the pipes are empty depends on every message that was in them. `World` says what holds of
both ends and all that is between them while the cable is in.

- Each end by itself: `HostSound` and `DeviceSound` are typed states whose queues fit their streams,
  `SentSound` and `AnswersSound` say which messages can be on the way, and `HostIds` that no id
  of the device ever means two streams.
- The two ends after both have read the same Connect (`InStep`). `Agree`: a stream is known
  at both ends, or the Ok or Close that will tell is on its way; of Opens, Writes and Oks, in
  the pipes and on the device's queue, there is one exactly while the host waits (`OneAnswer`); a device that waits
  has an answer coming (`DeviceGoesOn`). `Chain`: the packets of a stream in the answers, before the device and on
  the host's queue follow each other without a gap, from the last one received to the last one written.
- What is left of earlier Connections (`Behind`): a Connect is still unread, or not handled yet. What the device
  sent before it is for streams it does not have any more, and what the host still sends finds none of
  the streams (`Stale`). A host that takes such a stale Connect for the answer to its own believes in a connection that
  has ended; `Doomed` says that no packet passes on it, and `Hopes` that a host that waits for a connection
  has a Connect coming.
- An object that is destroyed (`Left`), and the first Connection, where nothing is stale (`First`).

A handler of either end makes several changes to its record: it sends a message, opens a
stream, drops one with what is queued for it, calls a service that queues more. There is one lemma
for each such change, that it keeps `World`, or what holds between two changes of one handler; then
one for each function of the classes, in the order of the calls; then one for each action. A message makes the device do
one of five things (`DeviceActs`), and `processQueue()` may follow (`Pumps`).

Once the cable is out nothing arrives, so what an end sends is no longer what the other has
received. `Known` therefore says: the host has been reset and no service has anything left
(`Gone`), or there is an imagined device and pipe with which the host is in a `World`, and the real pipe to the host
is a prefix of the imagined one with the failed read at its end (`Cut`). The steps of the host are then the same as
with the cable in, until it reads the failed transfer. The same holds within an event in which the cable is pulled:
the sends that succeed lead from a `World` to a `World`, and the first that fails resets the connection, whatever
handler it was in (`Ended`).

`StreamProofs` proves, of module `Stream`, for packets of any bytes, in any number,
and messages of any size of at least four bytes:

| theorem | states |
|---|---|
| `Invariance` | `Spec => []IInv`, the inductive invariant |
| `TypeCorrect` | `TypeOK` |
| `NoAssertionFails` | `AssertionsHold` |
| `ClosesAreOrderly` | `OrderlyClose` |
| `PacketsArriveInOrder` | `ImplementsPacketStream`: the initial states and every step are those of `PacketStream`, or stutter |

Each of them assumes `NeverGoesOn`: a send that fails in the middle of a `write()`
does not let the loop go on in the destroyed object (without it the theorems are false, as run `write_goes_on`
shows). The other assumptions are those of the constants: packets are not empty and not
longer than a QByteArray can be with its size (`PacketsAssumption`), and a message has room for that size
(`SizeAssumption`).

The argument. `Uint32RoundTrip`: the four bytes written are the size read,
never negative. `PiecesAreAChain`: each message of a packet begins where the one before it ended,
is not empty, and the first has the size. A `Chain` is a queue of such messages, `Position`
the byte the reader waits for and `End` the byte written next; `IInv` says that what is on the way
(pipe and queue together) is a chain that begins at `Position` while there is a reader (`FrontFits`)
and ends at `End` while there is a writer (`BackEnds`), that what was delivered is a
prefix of what was written, and that the reader's part is one of the next
packet (`ReaderHasPart`). It is needed because no assertion can be proved of a message without knowing
where the reader is. `ReceiveMessage` then either lengthens the part or delivers the next
packet, which is the abstract `Deliver`; all else maps to writing, cutting off, closing or nothing.

`UsbLinkProofs` proves, of module `UsbLink`, for payloads of any sizes and any number of messages,
connections and pulls of the cable:

| theorem | states |
|---|---|
| `Invariance` | `Spec => []IInv`, the inductive invariant |
| `TypeCorrect` | `TypeOK` |
| `AgreementMeansAlignment` | `AgreedMeansAligned` |
| `LinkIsMessagePipe` | `ImplementsMessagePipe`: the initial states and every step are those of `MessagePipe`, or stutter |

The argument. What is under way between the ends is at most one message, whole, its header alone
or its payload alone (`OneMessageUnderWay`), and nothing while the link is down. A reader that
counts otherwise has a Connect before it, whose payload is the version, and that is too short to be taken
for a header: after it the reader needs a header again, whatever it needed before
(`AlignedOnceWritten`). Hence the one message lost or forged at a change of hosts, which is
what `MessagePipe` allows, and agreement on where messages begin once the host has an answer. Each step has
one lemma that it preserves the invariant and is a step of the pipe or a stutter.

The second part of `UsbLinkProofs` proves, of module `UsbReader`, for messages of any sizes, in any number, and
any pattern of timeouts, failed writes and failed transfers:

| theorem | states |
|---|---|
| `ReaderInvariance` | `ReaderSpec => []ReaderInv`, the inductive invariant |
| `ReaderTypeCorrect` | `ReaderTypeOK` |
| `OnlyLongMessagesAreLostCorrect` | `OnlyLongMessagesAreLost` |
| `MadeUpOfLongMessagesCorrect` | `MadeUpOfLongMessages` |
| `RunsInvariance` | `ReaderSpec => []RunsInv`, `ReaderInv` and what transfers and reads hold |
| `TakenMessagesAreWhole` | a read from which `receive()` takes a message has all its packets, in order from the first |
| `TransfersFitBuffer` | while a transfer is open the buffer has room for a whole packet, and no read is longer than the buffer |

`SizesAssumption` is what they assume: a message is no shorter than its header and no longer than the longest one,
a header is shorter than a packet, and the buffer, as long as the longest message, is a multiple of the packet size
(16384 of 64 or 512 bytes).

The argument. Neither property can be proved of what has been received alone, as a read not looked at yet may
still violate it. `ReaderInv` therefore orders everything that is on its way by the first packet: the messages received, the
reads posted, the open transfer and the packet written next each come after the one before, and a later place
in the same message is not its beginning (`TransfersInOrder`, `ReceivedInOrder`). Hence nothing is
received twice, and what begins in the middle of a message is of a message of several packets
(`MadeOfLong`). An empty read is the last thing the thread ever posts (`ErrorsAreTold`). A short message gets
through if the transfer is empty when it begins, and that is so unless the message before it filled its last
packet (`TransferBeginsAnew`); it is then being written, alone in a read, or received (`SafeArrive`).

`RunsInv` says more of transfers: packets in one follow each other without a gap, but for messages that failed, all full
except the last one of a read. A transfer that is still open has room for a packet as the buffer is a multiple of it.
A read can begin with the end of a message that an open transfer left, or hold two messages. `Receive` calls it a message if
it begins with the first packet of one and has the last packet of the same; `TakenMessagesAreWhole` says that it then has
all those between, which `receive()` does not check: it compares nothing but the length of the header.

`HostServerProofs` proves, of module `HostServer`, for any clients, servers, devices and workloads:

| theorem | states |
|---|---|
| `Invariance` | `Spec => []IInv`, the inductive invariant |
| `WatchesMissNothing` | `WatchersAreUpToDate` |
| `StopMeansOutOfReach` | `StoppedMeansUnreachable` |
| `KnownInvariance` | `Spec => []KnownInv`, `IInv` and who is known |
| `TypeCorrect` | `TypeOK` |
| `NobodyIsEverForgotten` | `NobodyIsForgotten`, the safety part of `EveryCommandEnds` |

It assumes that there are finitely many devices, that no server and no information is the value
`None`, and that fewer messages are logged than the cache holds (`ProcessesAssumption`). The invariant has
ten parts. The first ones say who is connected to whom: a client that a server has pending or
serves is connected to it, once, and one that has not connected has been told nothing. On these rest
`ServedAreUpToDate`, which adds what is still in a socket to what was printed, and
`StopIsTrue`: whoever has the answer "stopping" in the socket or has exited with it asked a server that is closing or stopped,
and whose name is not at the path (`ClosingIsOutOfReach`).

`KnownInv` adds the converse: a client whose socket is open on the server's side is pending or served there, once
(`ConnectedAreKnown`, `ServedOnce`), only a server that runs has anybody pending or served, and a client that asks
still has its request unread unless the socket has been closed (`AskingHaveRequests`), as every branch of
`handleRequest()` but the watches closes it. It is a second induction, with the first at hand. From it follow `TypeOK`, whose
last part says that servlets and connections are in one-to-one correspondence, and `NobodyIsForgotten`: whoever waits has
an answer, an end of the socket, or a server that runs and has yet to read the request or to hang up. That the server
does so is fairness, and stays with TLC.

`DeviceManagerProofs` proves, of module `DeviceManager`, for any finite set of devices, any
subnets and any number of plugs, troubles and timers:

| theorem | states |
|---|---|
| `Invariance` | `Spec => []IInv`, the inductive invariant |
| `TypeCorrect` | `TypeOK` |
| `ConnectionsAreUnique` | `OneConnectionPerDevice` |
| `SubnetsHaveOneHolder` | `ReservationsAreExclusive` |
| `IncompleteGoOn` | `IncompleteAreAskedAgain` |

The assumption is `BoundsAssumption`: finitely many devices, and subnets with positive numbers. The
argument has two halves. `Consistent(m)` is the invariant of the manager's record, as in
`ConnectionProofs`: the pool knows each live connection under its device's serial number and no other
(`PoolIsRight`), a task that waits has its connection and an answer of its kind (`TasksAreRight`),
reservations are exclusive among all copies of a device (`Exclusive`), and timers suffice; each
function of the classes has a lemma that it keeps this and which devices it adds (`Leads`). A poll runs
the handlers over a queue of insertions and another of removals, and `SegmentInduction` carries the
invariant through both. The other half ties the record to the bus: a libusb device is that of
one device, and of those of one device the present one is the last (`MetOnce`); what the
manager deals with and is still there and was not missed is known to the enumerator (`CurrentAreKnown`),
so that it is not inserted again; the enumerator knows a device once (`KnownOnce`). Without these
`IncompleteHaveInfo` is not inductive, as a poll could insert or remove the wrong one.

The second part of `DeviceManagerProofs` proves from the same assumption

| theorem | states |
|---|---|
| `ListedSubnetsAreReserved` | `ListedSubnetIsReserved` |

This property speaks of the end of a chain: a task reserves a subnet and asks the device to use it, the
device may answer that it has another, the manager reserves that one, and the device is asked for its
information and listed. A request is carried out by the device even when its
sender is gone, so the danger is one left in the inbox by an earlier task of the same device. `SubnetsAreTrue`
has a part for each link. The device of a task that configures it is configured by that task alone, and
is not held otherwise (`PendingOnce`), as polls insert only what nobody deals with. The task's request is the last in the inbox that can
set the subnet, and sets the one that is reserved (`AskedIsLast`): inboxes are handled in order, and
whatever is older is before it. From the answer on no request is left that could
set another (`AnsweredIsTrue`), and so it stays for every copy of the device that comes of
the task (`ConfiguredIsTrue`). `RequestsAreRight` says that the sender a request still has is a service of its device. All this
is about the devices that no poll has missed: one that was missed is configured again while the first
task waits. It needs `IInv`, above all `CurrentAreKnown` and `MetOnce`.

A step of the host is treated once for all its handlers. `Traced(m, n, g)` says that each task of the outcome `n` that
configures a device was a task `g[i]` of `m`, or is new for a device that nobody dealt with; that what has been configured was so before, or
comes of a task with its answer; and that what is sent configures no device that was dealt with. `TracedKeepsSubnets` shows that this
is enough, and there is one lemma per function that its outcome is traced. The steps of the bus are covered by `BusStepSubnets`: they make no
device current that the manager holds, and at most take subnets and requests away.

## 8. Not modelled; only model-checked

Model-checked only:

- All liveness (`EventuallyQuiet`, `UnpluggingIsNoticed`, `EveryPacketArrives`,
  `EveryWriteEnds`, `EveryCommandEnds`), which is out of the prover's reach.

Not modelled:

- The value of a payload, its encoding and checks of its size, but for the size put
  before a packet. The interleaving of several streams' pieces on one queue: `Connection`
  has the queue with single messages, `Stream` one stream's part of it.
- Wrap-around of stream ids after 2^32 streams.
- USB: zero-length packets, which nobody sends, an IN transfer that fails after the device's last
  packet has been acknowledged, the reference counts of libusb devices and handles (an
  assignment leaks one, `usbdevice.cpp:70`), descriptors, the end of the daemon's
  threads (`usbgadget.cpp:155`).
- Devices whose serial number cannot be read, which all have the same name
  (`usbdeviceenumerator.cpp:91`) and share a Connection. An unknown result of the network
  service, which is answered twice (`networkconfigurationservice.cpp:84`) and which no
  device of this version sends.
- Host server: a request of unknown type, which no client of the same version sends,
  `--force`, partial lines, clients that do not read, more messages than the cache holds
  (`MaxEvents` is at most 99), a servlet used after its deletion, the
  unlocked access of other threads to the cache.
- The socket pair of the interrupt handler, the command line and the daemon's configuration, the
  Windows drivers, the build. The tests were read for the intended behaviour.

## 9. Plan

Order: the connection first, as everything else relies on it, then its peer, the
composition, the layer below, and the two layers above.

| step | module | state |
|---|---|---|
| 1 | `QdbMessages`, `Connection`, `Server` | done |
| 2 | `Qdb`: session, restart, findings | done |
| 3 | `QueuesProofs`, `ConnectionProofs` | done |
| 4 | `DeviceManager` | done |
| 5 | `UsbLink` implementing `MessagePipe` | done |
| 6 | `HostServer` | done |
| 7 | `Stream` implementing `PacketStream`, `StreamProofs` | done |
| 8 | an abstract service of streams that `Qdb` implements while no Connection is replaced | to do |
| 9 | `ServerProofs`: the invariants of `Server`, by the method of `ConnectionProofs` | done |
| 10 | `UsbLinkProofs`: the refinement of `MessagePipe`, initial states and steps | done |
| 11 | `HostServerProofs`, `DeviceManagerProofs` | done |
| 12 | `UsbReader`: failed device writes and cut IN transfers; polls that miss devices, addresses used again; late answers of the host server | done |
| 13 | a full message cache; `UsbReader` below `Connection`, so that a lost Write of several packets reaches a service | to do |
| 14 | `QdbProofs`: the invariants of the two ends together | done |
| 15 | theorems about `UsbReader`, in `UsbLinkProofs` | done |
