---------------------------- MODULE DeviceManager ----------------------------
(***************************************************************************)
(* How the host finds devices and gives each of them a network: class      *)
(* DeviceManager with UsbDeviceEnumerator, ConnectionPool, SubnetPool,     *)
(* NetworkConfigurator and DeviceInformationFetcher, and on the device the *)
(* network configuration, which the main thread sets and the thread of the *)
(* USB control endpoint resets.                                            *)
(*                                                                         *)
(* The QDB connection is abstracted to what its users see of it (modules   *)
(* Connection and Qdb have the rest): a request of a service is answered   *)
(* in order, or the connection goes down and every service is told.        *)
(*                                                                         *)
(* An event on the host maps the manager's state, one record, to the state *)
(* it is left in, as in module Connection.                                 *)
(***************************************************************************)
EXTENDS Naturals, SequencesExt, Queues

CONSTANTS
    Devices,          \* by serial number
    Subnets,          \* the candidates, in the order of their numbers
    MaxPlugs,         \* bound on how often a device is plugged in
    MaxTroubles,      \* bound on what may go wrong while the cable is in
    MaxTimers         \* bound on the timers of incomplete devices

ASSUME BoundsAssumption ==
    /\ IsFiniteSet(Devices) /\ Subnets \subseteq Nat \ {0}
    /\ {MaxPlugs, MaxTroubles, MaxTimers} \subseteq Nat

VARIABLES
    \* the bus and the devices
    plugged,          \* the libusb device of a device that is plugged in, a new
                      \* number each time, 0 while it is not
    nextPlug,
    address,          \* the USB address of each libusb device, 0 before it is there
    config,           \* m_subnetString of the device, 0 when it is empty
    resetDue,         \* a DISABLE or SUSPEND is not handled yet
    inbox,            \* requests the device has not handled yet
    \* the host server
    known,            \* m_qdbDevices of the enumerator
    manager,          \* the rest, see Fresh
    missed,           \* history: devices a poll has missed since they are there
    unlisted,         \* history: devices taken off the list for another since then
    troubles          \* what has gone wrong with devices that were plugged in

vars == <<plugged, nextPlug, address, config, resetDue, inbox, known, manager,
          missed, unlisted, troubles>>
busVars == <<plugged, nextPlug, address, config, resetDue>>

None == 0

(* A UsbDevice, by serial; reservation is the subnet reserved for it. *)
UsbDevice(d, p, s) == [serial |-> d, device |-> p, reservation |-> s]

(* A task is a NetworkConfigurator or a DeviceInformationFetcher: it waits
   for the device, it has its reply, or it waits for its deferred deletion. *)
Task(kind, usb, conn, stage) ==
    [kind |-> kind, usb |-> usb, conn |-> conn, stage |-> stage,
     result |-> "none", subnet |-> None]

Fresh == [infos |-> <<>>,           \* m_deviceInfos
          incomplete |-> <<>>,      \* m_incompleteDevices
          timers |-> 0,             \* pending calls of fetchIncomplete()
          tasks |-> <<>>,
          conns |-> [c \in {} |-> 0], \* the live Connection objects
          pool |-> [d \in Devices |-> None], \* m_connections
          sent |-> <<>>]            \* what this event asks of devices

Init ==
    /\ plugged = [d \in Devices |-> None]
    /\ nextPlug = 1
    /\ address = [p \in 1..MaxPlugs |-> None]
    /\ config = [d \in Devices |-> None]
    /\ resetDue = [d \in Devices |-> FALSE]
    /\ inbox = [d \in Devices |-> <<>>]
    /\ known = {}
    /\ manager = Fresh
    /\ missed = {}
    /\ unlisted = {}
    /\ troubles = 0
-----------------------------------------------------------------------------
(* A reservation is held by every copy of the UsbDevice it was put into, and
   freed with the last of them. *)
HeldBy(m) ==
    {m.tasks[i].usb : i \in DOMAIN m.tasks}
    \cup {m.incomplete[i] : i \in DOMAIN m.incomplete}
    \cup {m.infos[i].usb : i \in DOMAIN m.infos}

Reserved(m) == {usb.reservation : usb \in HeldBy(m)} \ {None}

(* The first candidate that is not reserved and that no interface of the
   host overlaps. *)
FindUnusedSubnet(m, used) ==
    LET free == Subnets \ (Reserved(m) \cup used)
    IN  IF free = {} THEN None ELSE Min(free)

(* The smallest number no live connection has. *)
NewId(m) == Min((1..Cardinality(DOMAIN m.conns) + 1) \ DOMAIN m.conns)

NewConnection(m, usb, outcome) ==
    LET c == NewId(m)
    IN  IF outcome = "null" THEN [m EXCEPT !.pool[usb.serial] = None]
        ELSE [m EXCEPT !.pool[usb.serial] = c,
                       !.conns = [x \in DOMAIN m.conns \cup {c} |->
                                    IF x = c THEN [usb |-> UsbDevice(usb.serial, usb.device, None),
                                                    up |-> outcome = "up"]
                                             ELSE m.conns[x]]]

(* Mutants stand before the operator they replace: each is the operator with
   one plausible mistake, which the property named in the README catches. *)
ConnectAnew(m, usb, outcome) ==     \* the existing connection not looked up
    NewConnection(m, usb, outcome)

(* ConnectionPool::connect(): the connection that is still alive, whatever
   its state, or a new one.  A new one is null when the device cannot be
   opened, and down when the first send fails. *)
Connect(m, usb, outcome) ==
    IF m.pool[usb.serial] \in DOMAIN m.conns THEN m ELSE NewConnection(m, usb, outcome)

Usable(m, conn) == conn # None /\ m.conns[conn].up

(* A new task; one that cannot ask the device has failed at once. *)
Start(m, kind, usb, ready) ==
    LET conn == m.pool[usb.serial]
        n    == [m EXCEPT !.tasks = Append(@, Task(kind, usb, conn,
                                               IF ready THEN "asked" ELSE "done"))]
    IN  IF ready
        THEN [n EXCEPT !.sent = Append(@, [conn |-> conn, kind |-> kind,
                                           subnet |-> IF kind = "configure" THEN usb.reservation
                                                                     ELSE None])]
        ELSE n

ConfigureDevice(m, usb, outcome, used) ==
    LET n == Connect(m, usb, outcome)
        s == FindUnusedSubnet(n, used)
        ready == Usable(n, n.pool[usb.serial]) /\ s # None
    IN  Start(n, "configure", IF ready THEN [usb EXCEPT !.reservation = s] ELSE usb, ready)

FetchDeviceInformation(m, usb, outcome) ==
    LET n == Connect(m, usb, outcome)
    IN  Start(n, "fetch", usb, Usable(n, n.pool[usb.serial]))

HandleUnpluggedDevice(m, a) ==
    [m EXCEPT !.incomplete = RemoveFirstMatch(@, LAMBDA usb : address[usb.device] = a),
              !.infos = RemoveFirstMatch(@, LAMBDA info : address[info.usb.device] = a)]

HandleDeviceInformationOneTimer(m, usb, result) ==  \* no timer while one runs
    LET n == IF result = "incomplete"
             THEN [m EXCEPT !.incomplete = Append(@, usb), !.timers = 1]
             ELSE m
        same == {i \in DOMAIN n.infos : n.infos[i].usb.serial = usb.serial}
    IN  IF result = "none" THEN m
        ELSE IF same = {}
        THEN [n EXCEPT !.infos = Append(@, [usb |-> usb, ip |-> result = "complete"])]
        ELSE [n EXCEPT !.infos[Min(same)].ip = (result = "complete")]

(* The device's information is complete when it has an IP address.  What is
   known of the device by its serial number is replaced, where it differs. *)
HandleDeviceInformation(m, usb, result) ==
    LET n == IF result = "incomplete"
             THEN [m EXCEPT !.incomplete = Append(@, usb), !.timers = @ + 1]
             ELSE m
        same == {i \in DOMAIN n.infos : n.infos[i].usb.serial = usb.serial}
    IN  IF result = "none" THEN m
        ELSE IF same = {}
        THEN [n EXCEPT !.infos = Append(@, [usb |-> usb, ip |-> result = "complete"])]
        ELSE [n EXCEPT !.infos[Min(same)].ip = (result = "complete")]

HandleAlreadySetUnreserved(m, i, outcome) ==  \* the pool not asked
    LET s   == m.tasks[i].subnet
        usb == [m.tasks[i].usb EXCEPT !.reservation = s]
    IN  IF s = None THEN m
        ELSE FetchDeviceInformation([m EXCEPT !.tasks[i].usb = usb], usb, outcome)

HandleAlreadySetKeepsOwn(m, i, outcome) ==    \* the reservation not replaced
    IF m.tasks[i].subnet = None \/ m.tasks[i].subnet \in Reserved(m) THEN m
    ELSE FetchDeviceInformation(m, m.tasks[i].usb, outcome)

(* alreadySetResponse: a reservation of the device's own subnet replaces the
   one that was made for it, unless that subnet is reserved, be it by itself. *)
HandleAlreadySet(m, i, outcome) ==
    LET s   == m.tasks[i].subnet
        usb == [m.tasks[i].usb EXCEPT !.reservation = s]
    IN  IF s = None \/ s \in Reserved(m) THEN m
        ELSE FetchDeviceInformation([m EXCEPT !.tasks[i].usb = usb], usb, outcome)

(* A task gets the device's reply, and has done with it. *)
Finish(m, i, outcome) ==
    LET t == m.tasks[i]
        n == [m EXCEPT !.tasks[i].stage = "done"]
    IN  CASE t.kind = "fetch" -> HandleDeviceInformation(n, t.usb, t.result)
          [] t.kind = "configure" /\ t.result = "Success" ->
               FetchDeviceInformation(n, t.usb, outcome)
          [] t.kind = "configure" /\ t.result = "AlreadySet" ->
               HandleAlreadySet(n, i, outcome)
          [] t.kind = "configure" /\ t.result = "Failure" -> n

(* disconnected(): every service that waits reports a failure, which ends its
   task without more. *)
Disconnected(m, c) ==
    [m EXCEPT !.conns[c].up = FALSE,
              !.tasks = [i \in DOMAIN @ |->
                  IF @[i].conn = c THEN [@[i] EXCEPT !.stage = "done"] ELSE @[i]]]

(* fetchIncomplete() *)
FetchIncomplete(m, outcome) ==
    LET n == [m EXCEPT !.timers = @ - 1]
    IN  IF n.incomplete = <<>> THEN n
        ELSE FetchDeviceInformation([n EXCEPT !.incomplete = Tail(@)],
                                    Head(n.incomplete), outcome)

(* The deferred deletion of a task, and of the connection that nobody else
   holds: the pool's weak pointer to it expires. *)
DeleteTask(m, i) ==
    LET n    == [m EXCEPT !.tasks = RemoveAt(@, i)]
        live == {n.tasks[j].conn : j \in DOMAIN n.tasks} \cap DOMAIN n.conns
    IN  [n EXCEPT !.conns = Restrict(n.conns, live),
                  !.pool = [d \in Devices |-> IF n.pool[d] \in live THEN n.pool[d]
                                                                   ELSE None]]
-----------------------------------------------------------------------------
(* What may go wrong with a device although it is plugged in is counted. *)
Troubles(n) == troubles + n <= MaxTroubles /\ troubles' = troubles + n

TroubleIf(wrong) == IF wrong THEN Troubles(1) ELSE UNCHANGED troubles

(* What becomes of a new connection to a device. *)
Outcomes(usb) ==
    IF plugged[usb.serial] = usb.device THEN {"up", "down", "null"} ELSE {"null"}

Fails(usb, outcome) == plugged[usb.serial] = usb.device /\ outcome # "up"

Waits(m, r) ==
    \E i \in DOMAIN m.tasks :
        m.tasks[i].stage = "asked" /\ m.tasks[i].conn = r.conn /\ m.tasks[i].kind = r.kind

(* What an event has sent goes to the devices that are still where their
   connection was made; a request whose sender no longer waits is told by
   having no connection, and a task that is done by what it holds alone. *)
Commit(m) ==
    \E n \in {m} :
        LET mine(d) == KeepAt(n.sent, {i \in DOMAIN n.sent :
                           LET usb == n.conns[n.sent[i].conn].usb
                           IN  usb.serial = d /\ usb.device = plugged[d]})
            kept(d) == [i \in DOMAIN inbox[d] |->
                          IF Waits(n, inbox[d][i]) THEN inbox[d][i]
                          ELSE [inbox[d][i] EXCEPT !.conn = None]]
            spent(t) == Task("none", t.usb, t.conn, "done")
        IN  /\ manager' = [n EXCEPT !.sent = <<>>,
                  !.tasks = [i \in DOMAIN @ |-> IF @[i].stage = "done" THEN spent(@[i]) ELSE @[i]]]
            /\ inbox' = [d \in Devices |-> kept(d) \o mine(d)]

(* Deferred deletions are posted events, which the event loop handles before
   it looks at its timers. *)
NothingToDelete == \A i \in DOMAIN manager.tasks : manager.tasks[i].stage # "done"

Present == {<<plugged[d], d>> : d \in {x \in Devices : plugged[x] # None}}

(* makeUsbDevices(): when the bus cannot be listed, or a device cannot be opened,
   it is left out.  One that was not known is as good as not plugged in yet. *)
Seen == {Present \ unseen : unseen \in SUBSET (Present \cap known)}

Addresses(devices) == {address[p[1]] : p \in devices}

(* Of the devices' networks, the host's own interfaces may have got those. *)
HostSubnets == {config[d] : d \in {x \in Devices : plugged[x] # None}} \ {None}

(* std::set keeps devices in the order of their addresses. *)
ByAddress(devices) ==
    [k \in 1..Cardinality(devices) |->
        CHOOSE p \in devices : address[p[1]] = Nth(Addresses(devices), k)]

(* The handlers of the insertions, and those of the removals, one by one. *)
AfterInsertions(m, queue, outcome, used) ==
    LET after[k \in 0..Len(queue)] ==
            IF k = 0 THEN m
            ELSE ConfigureDevice(after[k - 1], UsbDevice(queue[k][2], queue[k][1], None),
                                 outcome[queue[k][2]], used)
    IN  after[Len(queue)]

AfterRemovals(m, queue) ==
    LET after[k \in 0..Len(queue)] ==
            IF k = 0 THEN m
            ELSE HandleUnpluggedDevice(after[k - 1], address[queue[k][1]])
    IN  after[Len(queue)]

Listed(m) == {m.infos[i].usb : i \in DOMAIN m.infos}

(* pollQdbDevices(), of the devices seen: the insertions, each handled to its
   end, then the removals.  Only addresses are compared with those of the last
   poll. *)
PollQdbDevices(seen) ==
    LET inserted == {p \in seen : address[p[1]] \notin Addresses(known)}
        removed  == {p \in known : address[p[1]] \notin Addresses(seen)}
        lost     == {p[2] : p \in removed \cap Present}
    IN  /\ seen # known /\ NothingToDelete
        /\ \E outcome \in [{p[2] : p \in inserted} -> {"up", "down", "null"}],
              used \in SUBSET HostSubnets :
             /\ Commit(AfterRemovals(
                    AfterInsertions(manager, ByAddress(inserted), outcome, used),
                    ByAddress(removed)))
             /\ Troubles(Cardinality({d \in DOMAIN outcome : outcome[d] # "up"})
                         + Cardinality(lost))
        /\ known' = seen
        /\ missed' = missed \cup lost
        /\ unlisted' = unlisted \cup
               {usb.serial : usb \in
                   {u \in Listed(manager) \ Listed(manager') :
                       plugged[u.serial] # None /\ u.device \notin {p[1] : p \in removed}}}
        /\ UNCHANGED busVars

HandleReply ==
    \E i \in DOMAIN manager.tasks :
        LET t == manager.tasks[i] IN
        /\ t.stage = "answered"
        /\ \E outcome \in Outcomes(t.usb) :
             /\ Commit(Finish(manager, i, outcome))
             /\ TroubleIf(Fails(t.usb, outcome))
        /\ UNCHANGED <<busVars, known, missed, unlisted>>

(* A read or a send fails for good, because of the cable or otherwise. *)
ConnectionLost ==
    \E c \in DOMAIN manager.conns :
        LET usb == manager.conns[c].usb IN
        /\ manager.conns[c].up
        /\ TroubleIf(plugged[usb.serial] = usb.device)
        /\ Commit(Disconnected(manager, c))
        /\ UNCHANGED <<busVars, known, missed, unlisted>>

(* A message that comes after the loss makes the connection connect again. *)
Reconnected ==
    \E c \in DOMAIN manager.conns :
        LET usb == manager.conns[c].usb IN
        /\ ~manager.conns[c].up /\ plugged[usb.serial] = usb.device
        /\ Commit([manager EXCEPT !.conns[c].up = TRUE])
        /\ UNCHANGED <<busVars, known, missed, unlisted, troubles>>

TimerFires ==
    /\ manager.timers > 0 /\ NothingToDelete
    /\ IF manager.incomplete = <<>>
       THEN Commit(FetchIncomplete(manager, "null")) /\ UNCHANGED troubles
       ELSE LET usb == Head(manager.incomplete) IN
            \E outcome \in Outcomes(usb) :
                /\ Commit(FetchIncomplete(manager, outcome))
                /\ TroubleIf(Fails(usb, outcome))
    /\ UNCHANGED <<busVars, known, missed, unlisted>>

TaskDeleted ==
    \E i \in DOMAIN manager.tasks :
        /\ manager.tasks[i].stage = "done"
        /\ Commit(DeleteTask(manager, i))
        /\ UNCHANGED <<busVars, known, missed, unlisted, troubles>>

(* The host server ends, in whatever way, and is started again. *)
HostRestarts ==
    /\ Troubles(1)
    /\ Commit(Fresh)
    /\ known' = {} /\ missed' = {} /\ unlisted' = {}
    /\ UNCHANGED busVars
-----------------------------------------------------------------------------
(* A USB address may be used again as soon as it is free. *)
PlugIn ==
    \E d \in Devices, a \in 1..nextPlug :
        /\ plugged[d] = None /\ nextPlug <= MaxPlugs
        /\ plugged' = [plugged EXCEPT ![d] = nextPlug]
        /\ a \notin Addresses(Present)
        /\ address' = [address EXCEPT ![nextPlug] = a]
        /\ nextPlug' = nextPlug + 1
        /\ UNCHANGED <<config, resetDue, inbox, known, manager, missed, unlisted, troubles>>

(* What the device has not read by now it never will. *)
Unplug ==
    \E d \in Devices :
        /\ plugged[d] # None
        /\ plugged' = [plugged EXCEPT ![d] = None]
        /\ resetDue' = [resetDue EXCEPT ![d] = TRUE]
        /\ \E n \in 0..Len(inbox[d]) : inbox' = [inbox EXCEPT ![d] = SubSeq(@, 1, n)]
        /\ missed' = missed \ {d} /\ unlisted' = unlisted \ {d}
        /\ UNCHANGED <<nextPlug, address, config, known, manager, troubles>>

Suspend ==
    \E d \in Devices :
        /\ plugged[d] # None /\ ~resetDue[d]
        /\ Troubles(1)
        /\ resetDue' = [resetDue EXCEPT ![d] = TRUE]
        /\ UNCHANGED <<plugged, nextPlug, address, config, inbox, known, manager, missed,
                       unlisted>>

(* NetworkConfiguration::reset() on the thread of the control endpoint: it may
   wait long for the lock that set() holds while its script runs. *)
Reset ==
    \E d \in Devices :
        /\ resetDue[d]
        /\ config' = [config EXCEPT ![d] = None]
        /\ resetDue' = [resetDue EXCEPT ![d] = FALSE]
        /\ UNCHANGED <<plugged, nextPlug, address, inbox, known, manager, missed, unlisted,
                       troubles>>

(* NetworkConfiguration::set(), subnet() and the executor's response: between
   the two the other thread may have reset what was set already. *)
SetReplies(d, subnet) ==
    LET reply(result, told, set, due) ==
            [result |-> result, subnet |-> told, config |-> set, resetDue |-> due]
    IN  IF config[d] = None
        THEN {reply("Success", None, subnet, resetDue[d]),
              reply("Failure", None, None, resetDue[d])}
        ELSE {reply("AlreadySet", config[d], config[d], resetDue[d])}
             \cup (IF resetDue[d] THEN {reply("AlreadySet", None, None, FALSE)} ELSE {})

(* HandshakeExecutor: without an IP address the host asks again, MaxTimers of
   these at a time. *)
FetchReplies(d) ==
    {[result |-> r, subnet |-> None, config |-> config[d], resetDue |-> resetDue[d]] :
        r \in {"none", "complete"} \cup (IF manager.timers < MaxTimers THEN {"incomplete"} ELSE {})}

(* The device handles a request; the reply reaches the host only on the
   connection that asked, and only while the cable is in. *)
DeviceHandles ==
    \E d \in Devices :
        /\ inbox[d] # <<>>
        /\ LET r == Head(inbox[d])
               asking == {i \in DOMAIN manager.tasks : Waits([tasks |-> <<manager.tasks[i]>>], r)}
               heard == /\ asking # {}
                        /\ manager.conns[r.conn].usb.device = plugged[d]
           IN \E reply \in IF r.kind = "configure" THEN SetReplies(d, r.subnet)
                                                  ELSE FetchReplies(d) :
                /\ config' = [config EXCEPT ![d] = reply.config]
                /\ resetDue' = [resetDue EXCEPT ![d] = reply.resetDue]
                /\ manager' = IF ~heard THEN manager
                     ELSE [manager EXCEPT !.tasks[Min(asking)] =
                             [@ EXCEPT !.stage = "answered", !.result = reply.result,
                                       !.subnet = reply.subnet]]
                /\ TroubleIf(reply.result \in {"Failure", "none"})
        /\ inbox' = [inbox EXCEPT ![d] = Tail(@)]
        /\ UNCHANGED <<plugged, nextPlug, address, known, missed, unlisted>>

Next ==
    \/ \E seen \in Seen : PollQdbDevices(seen)
    \/ HandleReply \/ ConnectionLost \/ Reconnected
    \/ TimerFires \/ TaskDeleted \/ HostRestarts
    \/ PlugIn \/ Unplug \/ Suspend \/ Reset \/ DeviceHandles

Spec == Init /\ [][Next]_vars
-----------------------------------------------------------------------------
UsbDevices == [serial : Devices, device : 1..MaxPlugs, reservation : Subnets \cup {None}]

(* Every variable keeps its type; a task that waits has a connection. *)
TypeOK ==
    /\ plugged \in [Devices -> 0..MaxPlugs] /\ address \in [1..MaxPlugs -> 0..MaxPlugs]
    /\ config \in [Devices -> Subnets \cup {None}]
    /\ resetDue \in [Devices -> BOOLEAN]
    /\ \A i \in DOMAIN manager.tasks :
         LET t == manager.tasks[i] IN
         /\ t.kind \in {"configure", "fetch", "none"} /\ t.usb \in UsbDevices
         /\ t.stage \in {"asked", "answered", "done"}
         /\ t.stage # "done" => t.conn \in DOMAIN manager.conns
    /\ \A i \in DOMAIN manager.incomplete : manager.incomplete[i] \in UsbDevices
    /\ \A i \in DOMAIN manager.infos : manager.infos[i].usb \in UsbDevices
    /\ manager.timers \in Nat

(* Two connections to one device would claim one USB interface twice: there
   is never more than one, whoever asks for it when (connectionpool.cpp:42). *)
OneConnectionPerDevice ==
    \A b, c \in DOMAIN manager.conns :
        manager.conns[b].usb.serial = manager.conns[c].usb.serial => b = c

(* Nobody holds a reservation of the subnet of another device, or of the same
   device plugged in another time (subnet.cpp:96-106). *)
ReservationsAreExclusive ==
    \A x, y \in HeldBy(manager) :
        x.reservation # None /\ x.reservation = y.reservation =>
            x.serial = y.serial /\ x.device = y.device

(* The subnet a listed device uses is the one reserved for it, however its
   threads, replugs at the same address and the restarts of the host were
   interleaved; a late reset may have taken it away (networkconfigurator.cpp:86-118).
   A device that a poll has missed is configured twice at a time, and may be
   listed with the reservation of the first time and use that of the second. *)
ListedSubnetIsReserved ==
    \A i \in DOMAIN manager.infos :
        LET usb == manager.infos[i].usb IN
        plugged[usb.serial] = usb.device /\ usb.serial \notin missed
            => config[usb.serial] \in {None, usb.reservation}

(* Every device in the queue of incomplete ones will be asked again: there is a
   timer for each although a timer takes whichever is first, and whatever was
   unplugged meanwhile.  "Incomplete devices already have information stored
   about them" (devicemanager.cpp:123) as long as they are there, polls see
   them, and no other device is unplugged from the address under which they
   are still listed from the time before. *)
IncompleteAreAskedAgain ==
    /\ Len(manager.incomplete) <= manager.timers
    /\ \A i \in DOMAIN manager.incomplete :
          LET usb == manager.incomplete[i] IN
          plugged[usb.serial] = usb.device /\ usb.serial \notin missed \cup unlisted =>
              \E j \in DOMAIN manager.infos : manager.infos[j].usb.serial = usb.serial
-----------------------------------------------------------------------------
Symmetry == Permutations(Devices)
=============================================================================
