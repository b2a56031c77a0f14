------------------------ MODULE DeviceManagerProofs ------------------------
(***************************************************************************)
(* Proofs about the device management: however often devices are plugged   *)
(* in, whatever a poll misses and whatever fails, a device has one         *)
(* connection, a subnet has one holder, and every incomplete device is     *)
(* asked again.                                                            *)
(*                                                                         *)
(* Consistent(m) is the invariant of the record that the functions of the  *)
(* classes pass on, and Leads(m, n, S) says which devices they get to      *)
(* know.  There is one lemma for each function: called on a consistent     *)
(* manager it returns one, and one that it leads to.                       *)
(***************************************************************************)
EXTENDS DeviceManager, FiniteSetTheorems, SequenceTheorems, QueuesProofs,
        WellFoundedInduction

Infos == [usb : UsbDevices, ip : BOOLEAN]

FetchResults == {"none", "complete", "incomplete"}

ConfigureResults == {"Success", "Failure", "AlreadySet"}

Tasks ==
    [kind : {"configure", "fetch", "none"}, usb : UsbDevices, conn : Nat,
     stage : {"asked", "answered", "done"},
     result : FetchResults \cup ConfigureResults, subnet : Subnets \cup {None}]

Connections == [usb : UsbDevices, up : BOOLEAN]

Requests == [conn : Nat, kind : {"configure", "fetch"}, subnet : Subnets \cup {None}]

Whole(m) ==
    m = [infos |-> m.infos, incomplete |-> m.incomplete, timers |-> m.timers,
         tasks |-> m.tasks, conns |-> m.conns, pool |-> m.pool, sent |-> m.sent]

ConnectionMap(conns) ==
    /\ conns \in [DOMAIN conns -> Connections]
    /\ DOMAIN conns \subseteq Nat \ {None} /\ IsFiniteSet(DOMAIN conns)

Typed(m) ==
    /\ m.infos \in Seq(Infos) /\ m.incomplete \in Seq(UsbDevices) /\ m.timers \in Nat
    /\ m.tasks \in Seq(Tasks) /\ ConnectionMap(m.conns)
    /\ m.pool \in [Devices -> Nat] /\ m.sent \in Seq(Requests)

(* The pool knows each live connection under the device's serial number, and no
   other. *)
PoolIsRight(m) ==
    /\ \A c \in DOMAIN m.conns : m.pool[m.conns[c].usb.serial] = c
    /\ \A d \in Devices : m.pool[d] # None =>
           m.pool[d] \in DOMAIN m.conns /\ m.conns[m.pool[d]].usb.serial = d

(* A task that waits has its connection, and once it is answered, an answer of
   its kind. *)
TaskIsRight(m, t) ==
    t.stage # "done" =>
        /\ t.kind # "none"
        /\ t.conn \in DOMAIN m.conns /\ m.conns[t.conn].usb.serial = t.usb.serial
        /\ t.stage = "answered" =>
               t.result \in IF t.kind = "fetch" THEN FetchResults ELSE ConfigureResults

TasksAreRight(m) == \A i \in DOMAIN m.tasks : TaskIsRight(m, m.tasks[i])

Manages(m, u) ==
    \/ \E i \in DOMAIN m.tasks : m.tasks[i].usb = u
    \/ \E i \in DOMAIN m.incomplete : m.incomplete[i] = u
    \/ \E i \in DOMAIN m.infos : m.infos[i].usb = u

SamePlug(u, v) == u.serial = v.serial /\ u.device = v.device

Compatible(u, v) ==
    u.reservation # None /\ u.reservation = v.reservation => SamePlug(u, v)

Exclusive(m) == \A x, y \in UsbDevices : Manages(m, x) /\ Manages(m, y) => Compatible(x, y)

(* What another copy of u's reservation may be added to. *)
Fits(m, u) == u \in UsbDevices /\ \A x \in UsbDevices : Manages(m, x) => Compatible(x, u)

TimersSuffice(m) == Len(m.incomplete) <= m.timers

Consistent(m) ==
    /\ Whole(m) /\ Typed(m)
    /\ PoolIsRight(m) /\ TasksAreRight(m) /\ Exclusive(m) /\ TimersSuffice(m)

(* The manager knows the libusb device p as the device d. *)
DealsWith(m, p, d) ==
    \/ \E u \in UsbDevices : Manages(m, u) /\ u.serial = d /\ u.device = p
    \/ \E c \in DOMAIN m.conns : m.conns[c].usb.serial = d /\ m.conns[c].usb.device = p

Leads(m, n, S) == \A p, d : DealsWith(n, p, d) => DealsWith(m, p, d) \/ <<p, d>> \in S

(* The queue and the list as one step leaves them, a step about the device usb. *)
FromIncomplete(m, usb, x) ==
    \A k \in DOMAIN x : x[k] = usb \/ \E j \in DOMAIN m.incomplete : x[k] = m.incomplete[j]

FromInfos(m, usb, x) ==
    \A k \in DOMAIN x : x[k].usb = usb \/ \E j \in DOMAIN m.infos : x[k].usb = m.infos[j].usb

HasInfo(m, d) == \E j \in DOMAIN m.infos : m.infos[j].usb.serial = d

(* No information is dropped, and no device without one is queued. *)
KeepsInfos(m, n) ==
    /\ \A d : HasInfo(m, d) => HasInfo(n, d)
    /\ \A k \in DOMAIN n.incomplete :
          \/ HasInfo(n, n.incomplete[k].serial)
          \/ \E j \in DOMAIN m.incomplete : n.incomplete[k] = m.incomplete[j]

-----------------------------------------------------------------------------
BusTyped ==
    /\ plugged \in [Devices -> 0..MaxPlugs] /\ nextPlug \in 1..(MaxPlugs + 1)
    /\ address \in [1..MaxPlugs -> 0..MaxPlugs]
    /\ config \in [Devices -> Subnets \cup {None}]
    /\ resetDue \in [Devices -> BOOLEAN]
    /\ inbox \in [Devices -> Seq(Requests)]
    /\ known \in SUBSET ((1..MaxPlugs) \X Devices)

(* Devices that are plugged in have addresses of their own. *)
AddressesAreUnique ==
    \A d, e \in Devices :
        plugged[d] # None /\ plugged[e] # None /\ address[plugged[d]] = address[plugged[e]]
            => d = e

(* p is, or was, the libusb device of d: on the bus, or in what the host knows. *)
Met(p, d) ==
    \/ plugged[d] = p
    \/ <<p, d>> \in known
    \/ DealsWith(manager, p, d)

(* A libusb device is one device; of those of one device the one that is plugged in
   is the last. *)
MetOnce ==
    \A p \in 1..MaxPlugs : \A d \in Devices : Met(p, d) =>
        /\ p < nextPlug
        /\ plugged[d] # None => p <= plugged[d]
        /\ \A e \in Devices : Met(p, e) => e = d

KnownOnce == \A p, q \in known : p[2] = q[2] => p = q

(* What the manager deals with, and what is still there and was not missed, is known
   to the enumerator. *)
CurrentAreKnown ==
    \A p \in 1..MaxPlugs : \A d \in Devices :
        DealsWith(manager, p, d) /\ plugged[d] = p /\ d \notin missed => <<p, d>> \in known

IncompleteHaveInfo ==
    \A i \in DOMAIN manager.incomplete :
        LET u == manager.incomplete[i] IN
        plugged[u.serial] = u.device /\ u.serial \notin missed \cup unlisted
            => HasInfo(manager, u.serial)

IInv ==
    /\ Consistent(manager) /\ BusTyped
    /\ AddressesAreUnique /\ MetOnce /\ KnownOnce
    /\ CurrentAreKnown /\ IncompleteHaveInfo
-----------------------------------------------------------------------------
(* A family of subsets of a finite set has a smallest member. *)
LEMMA MinimalSubset ==
    ASSUME NEW U, IsFiniteSet(U), NEW Q \in SUBSET SUBSET U, Q # {}
    PROVE  \E X \in Q : \A Y \in Q : Y \subseteq X => Y = X
<1> DEFINE R == StrictSubsetOrdering(U)
<1>1. IsWellFoundedOn(R, SUBSET U)
  BY FS_StrictSubsetOrderingWellFounded, FS_FiniteSubsetsOfFinite
<1>2. \A X, Y \in SUBSET U : X \subseteq Y /\ X # Y => <<X, Y>> \in R
  BY DEF StrictSubsetOrdering
<1> HIDE DEF R
<1>3. PICK X \in Q : \A Y \in Q : ~(<<Y, X>> \in R)
  BY <1>1, WFMin
<1> QED  BY <1>2, <1>3

(* A set of numbers has a smallest member, which Min() returns. *)
LEMMA SmallestNumber ==
    ASSUME NEW T \in SUBSET Nat, T # {}
    PROVE  Min(T) \in T /\ \A m \in T : Min(T) <= m
<1>1. PICK k \in T : TRUE
  OBVIOUS
<1> DEFINE Q == {0..m : m \in T \cap 0..k}
<1>2. Q \in SUBSET SUBSET (0..k) /\ 0..k \in Q
  OBVIOUS
<1>3. IsFiniteSet(0..k)
  BY FS_Interval
<1>4. PICK X \in Q : \A Y \in Q : Y \subseteq X => Y = X
  <2> DEFINE U == 0..k
  <2>1. Q \in SUBSET SUBSET U /\ Q # {} /\ IsFiniteSet(U)
    BY <1>2, <1>3
  <2> HIDE DEF Q, U
  <2> QED  BY <2>1, MinimalSubset
<1>5. PICK n \in T \cap 0..k : X = 0..n
  OBVIOUS
<1>6. ASSUME NEW m \in T, m < n
      PROVE  FALSE
  <2>1. 0..m \in Q
    BY <1>6
  <2>2. 0..m \subseteq X /\ n \in X /\ n \notin 0..m
    BY <1>5, <1>6
  <2> QED  BY <1>4, <2>1, <2>2
<1>7. n \in T /\ \A m \in T : n <= m
  BY <1>5, <1>6
<1> QED  BY <1>7 DEF Min

(* Induction over the numbers up to N. *)
LEMMA SegmentInduction ==
    ASSUME NEW N \in Nat, NEW S, 0 \in S, \A n \in 0..N : n < N /\ n \in S => n + 1 \in S
    PROVE  N \in S
<1> DEFINE T == {n \in 0..N : n \notin S}
<1>1. SUFFICES ASSUME T # {} PROVE FALSE
  OBVIOUS
<1>2. T \in SUBSET Nat
  OBVIOUS
<1> DEFINE n == Min(T)
<1>3. n \in T /\ \A m \in T : n <= m
  <2> HIDE DEF T
  <2> QED  BY <1>1, <1>2, SmallestNumber
<1> HIDE DEF n
<1>4. n \in 0..N /\ n # 0 /\ n - 1 \in 0..N /\ n - 1 < N /\ n - 1 \notin T
  BY <1>3
<1> QED  BY <1>3, <1>4

(* Erasing the member at i keeps the others in their order. *)
LEMMA RemoveAtProperties ==
    ASSUME NEW T, NEW s \in Seq(T), NEW i \in 1..Len(s)
    PROVE  /\ RemoveAt(s, i) \in Seq(T)
           /\ Len(RemoveAt(s, i)) = Len(s) - 1
           /\ \A k \in 1..(Len(s) - 1) : RemoveAt(s, i)[k] = s[IF k < i THEN k ELSE k + 1]
<1> DEFINE a == SubSeq(s, 1, i - 1)
           b == SubSeq(s, i + 1, Len(s))
<1>1. a \in Seq(T) /\ Len(a) = i - 1 /\ \A k \in 1..(i - 1) : a[k] = s[k]
  BY SubSeqProperties
<1>2. b \in Seq(T) /\ Len(b) = Len(s) - i /\ \A k \in 1..(Len(s) - i) : b[k] = s[k + i]
  BY SubSeqProperties
<1> HIDE DEF a, b
<1>3. /\ a \o b \in Seq(T)
      /\ Len(a \o b) = Len(a) + Len(b)
      /\ \A k \in 1..(Len(a) + Len(b)) :
            (a \o b)[k] = IF k <= Len(a) THEN a[k] ELSE b[k - Len(a)]
  BY <1>1, <1>2, ConcatProperties
<1>4. RemoveAt(s, i) = a \o b
  BY DEF RemoveAt, a, b
<1>5. ASSUME NEW k \in 1..(Len(s) - 1)
      PROVE  (a \o b)[k] = s[IF k < i THEN k ELSE k + 1]
  <2>1. CASE k < i
    BY <1>1, <1>2, <1>3, <2>1
  <2>2. CASE ~(k < i)
    <3>1. k - (i - 1) \in 1..(Len(s) - i) /\ k - (i - 1) + i = k + 1
      BY <2>2
    <3>2. (a \o b)[k] = b[k - (i - 1)]
      BY <1>1, <1>2, <1>3, <2>2
    <3> QED  BY <1>2, <2>2, <3>1, <3>2
  <2> QED  BY <2>1, <2>2
<1>6. Len(a \o b) = Len(s) - 1
  BY <1>1, <1>2, <1>3
<1> QED  BY <1>3, <1>4, <1>5, <1>6

-----------------------------------------------------------------------------
(* What holds no more than a manager and a copy of what fits it is exclusive. *)
LEMMA ExclusiveFrom ==
    ASSUME NEW m, NEW n, NEW v, Exclusive(m), Fits(m, v),
           \A u \in UsbDevices : Manages(n, u) => Manages(m, u) \/ u = v
    PROVE  Exclusive(n)
BY DEF Exclusive, Fits, Compatible, SamePlug

(* ... and so is what holds no more than a manager. *)
LEMMA ExclusiveFewer ==
    ASSUME NEW m, NEW n, Exclusive(m), \A u \in UsbDevices : Manages(n, u) => Manages(m, u)
    PROVE  Exclusive(n)
BY DEF Exclusive

(* What a manager holds fits it, and is a device it deals with. *)
LEMMA HeldFits ==
    ASSUME NEW m, Exclusive(m), NEW u \in UsbDevices, Manages(m, u)
    PROVE  Fits(m, u) /\ DealsWith(m, u.device, u.serial)
BY DEF Exclusive, Fits, DealsWith

(* A device, with or without a reservation, has its fields. *)
LEMMA UsbDeviceFields ==
    ASSUME NEW u \in UsbDevices
    PROVE  /\ u = [serial |-> u.serial, device |-> u.device, reservation |-> u.reservation]
           /\ u.serial \in Devices /\ u.device \in 1..MaxPlugs
           /\ u.reservation \in Subnets \cup {None}
BY DEF UsbDevices

(* The number of a new connection is none of a live one. *)
LEMMA NewIdIsNew ==
    ASSUME NEW m, ConnectionMap(m.conns)
    PROVE  NewId(m) \in Nat \ {None} /\ NewId(m) \notin DOMAIN m.conns
<1> DEFINE D == DOMAIN m.conns
           N == Cardinality(D)
           S == 1..N + 1
<1>1. D \in SUBSET (Nat \ {None}) /\ IsFiniteSet(D) /\ N \in Nat
  BY FS_CardinalityType DEF ConnectionMap
<1>2. IsFiniteSet(S) /\ Cardinality(S) = N + 1
  BY <1>1, FS_Interval
<1>3. S \ D # {}
  <2>1. SUFFICES ASSUME S \subseteq D PROVE FALSE
    OBVIOUS
  <2>2. Cardinality(S) <= Cardinality(D)
    BY <1>1, <2>1, FS_Subset
  <2> QED  BY <1>1, <1>2, <2>2
<1>4. S \ D \in SUBSET Nat /\ None \notin S
  BY DEF None
<1>5. Min(S \ D) \in S \ D
  <2> HIDE DEF S, D
  <2> QED  BY <1>3, <1>4, SmallestNumber
<1> QED  BY <1>4, <1>5 DEF NewId

(* ConnectionPool::connect() with a pool that has no live connection to the device. *)
LEMMA NewConnectionFields ==
    ASSUME NEW m, Whole(m), NEW usb, NEW outcome
    PROVE  LET n == NewConnection(m, usb, outcome) IN
           /\ Whole(n)
           /\ n.infos = m.infos /\ n.incomplete = m.incomplete /\ n.timers = m.timers
           /\ n.tasks = m.tasks /\ n.sent = m.sent
           /\ outcome = "null" => n.conns = m.conns
                                  /\ n.pool = [m.pool EXCEPT ![usb.serial] = None]
           /\ outcome # "null" =>
                 /\ n.pool = [m.pool EXCEPT ![usb.serial] = NewId(m)]
                 /\ n.conns = [x \in DOMAIN m.conns \cup {NewId(m)} |->
                       IF x = NewId(m)
                       THEN [usb |-> UsbDevice(usb.serial, usb.device, None),
                             up |-> outcome = "up"]
                       ELSE m.conns[x]]
BY DEF NewConnection, Whole

(* ConnectionPool::connect() never makes a second connection to a device, and leaves
   the pool with the connection that lives, if any. *)
LEMMA ConnectConsistent ==
    ASSUME NEW m, Consistent(m), NEW usb \in UsbDevices, NEW outcome
    PROVE  LET n == Connect(m, usb, outcome) IN
           /\ Consistent(n) /\ Leads(m, n, {<<usb.device, usb.serial>>})
           /\ n.infos = m.infos /\ n.incomplete = m.incomplete /\ n.timers = m.timers
           /\ n.tasks = m.tasks /\ n.sent = m.sent
<1> DEFINE n == NewConnection(m, usb, outcome)
           c == NewId(m)
           d == usb.serial
           new == [usb |-> UsbDevice(d, usb.device, None), up |-> outcome = "up"]
<1>1. CASE m.pool[d] \in DOMAIN m.conns
  BY <1>1 DEF Connect, Leads
<1>2. CASE m.pool[d] \notin DOMAIN m.conns
  <2>1. /\ Whole(n)
        /\ n.infos = m.infos /\ n.incomplete = m.incomplete /\ n.timers = m.timers
        /\ n.tasks = m.tasks /\ n.sent = m.sent
        /\ outcome = "null" => n.conns = m.conns /\ n.pool = [m.pool EXCEPT ![d] = None]
        /\ outcome # "null" =>
              /\ n.pool = [m.pool EXCEPT ![d] = c]
              /\ n.conns = [x \in DOMAIN m.conns \cup {c} |-> IF x = c THEN new ELSE m.conns[x]]
    BY NewConnectionFields DEF Consistent
  <2>2. Connect(m, usb, outcome) = n
    BY <1>2 DEF Connect
  <2>3. c \in Nat \ {None} /\ c \notin DOMAIN m.conns
    BY NewIdIsNew DEF Consistent, Typed
  <2>4. new \in Connections /\ new.usb.serial = d /\ new.usb.device = usb.device
    BY UsbDeviceFields DEF Connections, UsbDevice, UsbDevices, None
  <2> HIDE DEF n, c, new
  <2>5. d \in Devices /\ m.pool \in [Devices -> Nat] /\ ConnectionMap(m.conns) /\ PoolIsRight(m)
    BY UsbDeviceFields DEF Consistent, Typed
  <2>6. m.pool[d] = None /\ \A b \in DOMAIN m.conns : m.conns[b].usb.serial # d
    BY <1>2, <2>5 DEF PoolIsRight
  <2>7. \A b \in DOMAIN m.conns : m.conns[b].usb.serial \in Devices
    BY <2>5 DEF ConnectionMap, Connections, UsbDevices
  <2>8. ConnectionMap(n.conns) /\ n.pool \in [Devices -> Nat] /\ PoolIsRight(n)
    <3>1. CASE outcome = "null"
      <4>1. n.conns = m.conns /\ n.pool = m.pool
        BY <2>1, <2>5, <2>6, <3>1
      <4> QED  BY <2>5, <4>1 DEF PoolIsRight
    <3>2. CASE outcome # "null"
      <4>1. /\ DOMAIN n.conns = DOMAIN m.conns \cup {c} /\ n.conns[c] = new
            /\ \A b \in DOMAIN m.conns : n.conns[b] = m.conns[b]
            /\ n.conns \in [DOMAIN n.conns -> Connections]
        BY <2>1, <2>3, <2>4, <2>5, <3>2 DEF ConnectionMap
      <4>2. IsFiniteSet(DOMAIN n.conns)
        BY <2>5, <4>1, FS_AddElement DEF ConnectionMap
      <4>3. n.pool \in [Devices -> Nat] /\ n.pool[d] = c
            /\ \A e \in Devices \ {d} : n.pool[e] = m.pool[e]
        BY <2>1, <2>3, <2>5, <3>2
      <4>4. PoolIsRight(n)
        BY <2>4, <2>5, <2>6, <2>7, <4>1, <4>3 DEF PoolIsRight
      <4> QED  BY <2>3, <2>5, <4>1, <4>2, <4>3, <4>4 DEF ConnectionMap
    <3> QED  BY <3>1, <3>2
  <2>9. /\ DOMAIN m.conns \subseteq DOMAIN n.conns
        /\ \A b \in DOMAIN m.conns : n.conns[b] = m.conns[b]
        /\ \A b \in DOMAIN n.conns \ DOMAIN m.conns :
              n.conns[b].usb.serial = d /\ n.conns[b].usb.device = usb.device
    BY <2>1, <2>3, <2>4
  <2>10. TasksAreRight(n)
    BY <2>1, <2>9 DEF Consistent, TasksAreRight, TaskIsRight
  <2>11. \A u : Manages(n, u) <=> Manages(m, u)
    BY <2>1 DEF Manages
  <2>12. Exclusive(n)
    BY <2>11, ExclusiveFewer DEF Consistent
  <2>13. Consistent(n)
    BY <2>1, <2>8, <2>10, <2>12 DEF Consistent, Typed, TimersSuffice
  <2>14. Leads(m, n, {<<usb.device, d>>})
    BY <2>9, <2>11 DEF Leads, DealsWith
  <2> QED  BY <2>1, <2>2, <2>13, <2>14
<1> QED  BY <1>1, <1>2

(* What an assignment to a member of the manager changes. *)
LEMMA InfosUpdate ==
    ASSUME NEW m, Whole(m), NEW x
    PROVE  LET n == [m EXCEPT !.infos = x] IN
           /\ Whole(n) /\ n.infos = x
           /\ n.incomplete = m.incomplete /\ n.timers = m.timers /\ n.tasks = m.tasks
           /\ n.conns = m.conns /\ n.pool = m.pool /\ n.sent = m.sent
BY DEF Whole

(* The queue m_incompleteDevices changed, and nothing else. *)
LEMMA IncompleteUpdate ==
    ASSUME NEW m, Whole(m), NEW x
    PROVE  LET n == [m EXCEPT !.incomplete = x] IN
           /\ Whole(n) /\ n.incomplete = x
           /\ n.infos = m.infos /\ n.timers = m.timers /\ n.tasks = m.tasks
           /\ n.conns = m.conns /\ n.pool = m.pool /\ n.sent = m.sent
BY DEF Whole

(* The number of pending singleShot timers changed, and nothing else. *)
LEMMA TimersUpdate ==
    ASSUME NEW m, Whole(m), NEW x
    PROVE  LET n == [m EXCEPT !.timers = x] IN
           /\ Whole(n) /\ n.timers = x
           /\ n.infos = m.infos /\ n.incomplete = m.incomplete /\ n.tasks = m.tasks
           /\ n.conns = m.conns /\ n.pool = m.pool /\ n.sent = m.sent
BY DEF Whole

(* The tasks changed, and nothing else. *)
LEMMA TasksUpdate ==
    ASSUME NEW m, Whole(m), NEW x
    PROVE  LET n == [m EXCEPT !.tasks = x] IN
           /\ Whole(n) /\ n.tasks = x
           /\ n.infos = m.infos /\ n.incomplete = m.incomplete /\ n.timers = m.timers
           /\ n.conns = m.conns /\ n.pool = m.pool /\ n.sent = m.sent
BY DEF Whole

(* What went to the devices changed, and nothing else. *)
LEMMA SentUpdate ==
    ASSUME NEW m, Whole(m), NEW x
    PROVE  LET n == [m EXCEPT !.sent = x] IN
           /\ Whole(n) /\ n.sent = x
           /\ n.infos = m.infos /\ n.incomplete = m.incomplete /\ n.timers = m.timers
           /\ n.tasks = m.tasks /\ n.conns = m.conns /\ n.pool = m.pool
BY DEF Whole

(* What a task is when it starts, and what it asks the device. *)
Started(m, kind, usb, ready) ==
    Task(kind, usb, m.pool[usb.serial], IF ready THEN "asked" ELSE "done")

Asked(m, kind, usb) ==
    [conn |-> m.pool[usb.serial], kind |-> kind,
     subnet |-> IF kind = "configure" THEN usb.reservation ELSE None]

(* A task that starts: one more task, and its request sent when the connection is up. *)
LEMMA StartFields ==
    ASSUME NEW m, Whole(m), NEW kind, NEW usb, NEW ready \in BOOLEAN
    PROVE  LET n == Start(m, kind, usb, ready) IN
           /\ Whole(n)
           /\ n.infos = m.infos /\ n.incomplete = m.incomplete /\ n.timers = m.timers
           /\ n.conns = m.conns /\ n.pool = m.pool
           /\ n.tasks = Append(m.tasks, Started(m, kind, usb, ready))
           /\ n.sent = IF ready THEN Append(m.sent, Asked(m, kind, usb)) ELSE m.sent
<1> DEFINE t == Started(m, kind, usb, ready)
           n == [m EXCEPT !.tasks = Append(@, t)]
           s == Append(n.sent, Asked(m, kind, usb))
           o == [n EXCEPT !.sent = s]
<1>1. Start(m, kind, usb, ready) = IF ready THEN o ELSE n
  BY DEF Start, Started, Asked
<1> HIDE DEF t, s
<1>2. /\ Whole(n)
      /\ n.infos = m.infos /\ n.incomplete = m.incomplete /\ n.timers = m.timers
      /\ n.conns = m.conns /\ n.pool = m.pool /\ n.sent = m.sent
      /\ n.tasks = Append(m.tasks, t)
  BY TasksUpdate
<1> HIDE DEF n
<1>3. /\ Whole(o) /\ o.sent = s
      /\ o.infos = n.infos /\ o.incomplete = n.incomplete /\ o.timers = n.timers
      /\ o.conns = n.conns /\ o.pool = n.pool /\ o.tasks = n.tasks
  BY <1>2, SentUpdate
<1> HIDE DEF o
<1> QED  BY <1>1, <1>2, <1>3 DEF t, s

(* Starting a task for a device that fits, on the connection the pool has. *)
LEMMA StartConsistent ==
    ASSUME NEW m, Consistent(m), NEW kind \in {"configure", "fetch"}, NEW usb, Fits(m, usb),
           NEW ready \in BOOLEAN, ready => m.pool[usb.serial] # None
    PROVE  LET n == Start(m, kind, usb, ready) IN
           Consistent(n) /\ Leads(m, n, {<<usb.device, usb.serial>>})
<1> DEFINE n == Start(m, kind, usb, ready)
           t == Started(m, kind, usb, ready)
           r == Asked(m, kind, usb)
           d == usb.serial
<1>1. /\ Whole(n)
      /\ n.infos = m.infos /\ n.incomplete = m.incomplete /\ n.timers = m.timers
      /\ n.conns = m.conns /\ n.pool = m.pool
      /\ n.tasks = Append(m.tasks, t)
      /\ n.sent = IF ready THEN Append(m.sent, r) ELSE m.sent
  BY StartFields DEF Consistent
<1> HIDE DEF n
<1>2. Typed(m) /\ PoolIsRight(m) /\ TasksAreRight(m) /\ Exclusive(m) /\ TimersSuffice(m)
      /\ m.tasks \in Seq(Tasks) /\ m.sent \in Seq(Requests)
  BY DEF Consistent, Typed
<1>3. usb \in UsbDevices /\ d \in Devices /\ m.pool[d] \in Nat
      /\ usb.reservation \in Subnets \cup {None}
  BY <1>2, UsbDeviceFields DEF Fits, Typed
<1>4. /\ t \in Tasks /\ t.usb = usb /\ t.conn = m.pool[d]
      /\ t.stage = IF ready THEN "asked" ELSE "done"
      /\ t.kind = kind
  BY <1>3 DEF Started, Task, Tasks, FetchResults
<1>5. r \in Requests
  BY <1>3 DEF Asked, Requests
<1>6. TaskIsRight(n, t)
  BY <1>1, <1>2, <1>3, <1>4 DEF PoolIsRight, TaskIsRight
<1> HIDE DEF t, r
<1>7. /\ n.tasks \in Seq(Tasks) /\ Len(n.tasks) = Len(m.tasks) + 1
      /\ \A i \in 1..Len(m.tasks) : n.tasks[i] = m.tasks[i]
      /\ n.tasks[Len(m.tasks) + 1] = t
  BY <1>1, <1>2, <1>4, AppendProperties
<1>8. n.sent \in Seq(Requests)
  BY <1>1, <1>2, <1>5, AppendProperties
<1>9. \A i \in DOMAIN n.tasks : n.tasks[i] = t \/ \E j \in DOMAIN m.tasks : n.tasks[i] = m.tasks[j]
  BY <1>2, <1>7
<1>10. TasksAreRight(n)
  BY <1>1, <1>2, <1>6, <1>9 DEF TasksAreRight, TaskIsRight
<1>11. \A u : Manages(n, u) => Manages(m, u) \/ u = usb
  BY <1>1, <1>4, <1>9 DEF Manages
<1>12. Exclusive(n)
  BY <1>2, <1>11, ExclusiveFrom
<1>13. Consistent(n)
  BY <1>1, <1>2, <1>7, <1>8, <1>10, <1>12 DEF Consistent, Typed, PoolIsRight, TimersSuffice
<1>14. Leads(m, n, {<<usb.device, d>>})
  BY <1>1, <1>11 DEF Leads, DealsWith
<1> QED  BY <1>13, <1>14 DEF n

(* What two functions called one after the other lead to. *)
LEMMA LeadsOn ==
    ASSUME NEW m, NEW n, NEW o, NEW S, Leads(m, n, S), Leads(n, o, S)
    PROVE  Leads(m, o, S)
BY DEF Leads

(* Fits() does not depend on the connections. *)
LEMMA FitsSame ==
    ASSUME NEW m, NEW n, NEW u, Fits(m, u),
           n.infos = m.infos, n.incomplete = m.incomplete, n.tasks = m.tasks
    PROVE  Fits(n, u)
BY DEF Fits, Manages

(* A reservation of a subnet that is not reserved fits whatever is held. *)
LEMMA UnreservedFits ==
    ASSUME NEW m, NEW u \in UsbDevices, NEW s \in Subnets, s \notin Reserved(m)
    PROVE  /\ [u EXCEPT !.reservation = s] \in UsbDevices
           /\ SamePlug([u EXCEPT !.reservation = s], u)
           /\ [u EXCEPT !.reservation = s].reservation = s
           /\ Fits(m, [u EXCEPT !.reservation = s])
<1> DEFINE v == [u EXCEPT !.reservation = s]
<1>1. v \in UsbDevices /\ SamePlug(v, u) /\ v.reservation = s
  BY DEF UsbDevices, SamePlug
<1> HIDE DEF v
<1>2. \A x : Manages(m, x) => x.reservation # s
  BY BoundsAssumption DEF Manages, Reserved, HeldBy, None
<1>3. Fits(m, v)
  BY <1>1, <1>2 DEF Fits, Compatible
<1> QED  BY <1>1, <1>3 DEF v

(* SubnetPool::findUnusedSubnet() returns a candidate that is not reserved, or none. *)
LEMMA UnusedSubnet ==
    ASSUME NEW m, NEW used, FindUnusedSubnet(m, used) # None
    PROVE  FindUnusedSubnet(m, used) \in Subnets \ Reserved(m)
<1> DEFINE free == Subnets \ (Reserved(m) \cup used)
<1>1. free # {} /\ FindUnusedSubnet(m, used) = Min(free)
  BY DEF FindUnusedSubnet
<1>2. free \in SUBSET Nat
  BY BoundsAssumption
<1>3. Min(free) \in free
  <2> HIDE DEF free
  <2> QED  BY <1>1, <1>2, SmallestNumber
<1> QED  BY <1>1, <1>3

(* configureDevice() starts a task for the device, if it can with a reservation. *)
LEMMA ConfigureDeviceStarts ==
    ASSUME NEW m, Consistent(m), NEW usb \in UsbDevices, usb.reservation = None,
           NEW outcome, NEW used
    PROVE  LET n == Connect(m, usb, outcome) IN
           \E v \in UsbDevices, ready \in BOOLEAN :
              /\ ConfigureDevice(m, usb, outcome, used) = Start(n, "configure", v, ready)
              /\ SamePlug(v, usb) /\ Fits(n, v)
              /\ ready => n.pool[usb.serial] # None
<1> DEFINE n == Connect(m, usb, outcome)
           s == FindUnusedSubnet(n, used)
           ready == Usable(n, n.pool[usb.serial]) /\ s # None
           v == IF ready THEN [usb EXCEPT !.reservation = s] ELSE usb
<1>1. ConfigureDevice(m, usb, outcome, used) = Start(n, "configure", v, ready)
  BY DEF ConfigureDevice
<1>2. Consistent(n)
  BY ConnectConsistent
<1>3. v \in UsbDevices /\ SamePlug(v, usb) /\ Fits(n, v)
  <2> HIDE DEF n
  <2>1. CASE ready
    <3>1. s \in Subnets \ Reserved(n)
      BY <2>1, UnusedSubnet
    <3> HIDE DEF s
    <3> QED  BY <2>1, <3>1, UnreservedFits
  <2>2. CASE ~ready
    <3>1. v = usb /\ Fits(n, usb)
      BY <2>2 DEF Fits, Compatible
    <3> QED  BY <3>1 DEF SamePlug
  <2> QED  BY <2>1, <2>2
<1>4. ready => n.pool[usb.serial] # None
  BY DEF Usable
<1>5. ready \in BOOLEAN
  OBVIOUS
<1> HIDE DEF ready, v, n
<1>6. \E w \in UsbDevices, b \in BOOLEAN :
         /\ ConfigureDevice(m, usb, outcome, used) = Start(n, "configure", w, b)
         /\ SamePlug(w, usb) /\ Fits(n, w)
         /\ b => n.pool[usb.serial] # None
  BY <1>1, <1>3, <1>4, <1>5
<1> QED  BY <1>6 DEF n

(* configureDevice of a device without a reservation keeps a consistent manager,
   and adds no task but of that device. *)
LEMMA ConfigureDeviceConsistent ==
    ASSUME NEW m, Consistent(m), NEW usb \in UsbDevices, usb.reservation = None,
           NEW outcome, NEW used
    PROVE  LET n == ConfigureDevice(m, usb, outcome, used) IN
           /\ Consistent(n) /\ Leads(m, n, {<<usb.device, usb.serial>>})
           /\ n.infos = m.infos /\ n.incomplete = m.incomplete
<1> DEFINE n == Connect(m, usb, outcome)
           o == ConfigureDevice(m, usb, outcome, used)
           S == {<<usb.device, usb.serial>>}
<1>1. Consistent(n) /\ Leads(m, n, S) /\ n.infos = m.infos /\ n.incomplete = m.incomplete
  BY ConnectConsistent
<1>2. PICK v \in UsbDevices, ready \in BOOLEAN :
          /\ o = Start(n, "configure", v, ready)
          /\ SamePlug(v, usb) /\ Fits(n, v)
          /\ ready => n.pool[usb.serial] # None
  BY ConfigureDeviceStarts
<1>3. v.serial = usb.serial /\ v.device = usb.device
  BY <1>2 DEF SamePlug
<1> HIDE DEF n, o
<1>4. Consistent(o) /\ Leads(n, o, S)
  BY <1>1, <1>2, <1>3, StartConsistent
<1>5. o.infos = n.infos /\ o.incomplete = n.incomplete
  BY <1>1, <1>2, StartFields DEF Consistent
<1> QED  BY <1>1, <1>4, <1>5, LeadsOn DEF o

(* fetchDeviceInformation() of a device that fits. *)
LEMMA FetchConsistent ==
    ASSUME NEW m, Consistent(m), NEW usb, Fits(m, usb), NEW outcome
    PROVE  LET n == FetchDeviceInformation(m, usb, outcome) IN
           /\ Consistent(n) /\ Leads(m, n, {<<usb.device, usb.serial>>})
           /\ n.infos = m.infos /\ n.incomplete = m.incomplete
<1> DEFINE n == Connect(m, usb, outcome)
           ready == Usable(n, n.pool[usb.serial])
           o == FetchDeviceInformation(m, usb, outcome)
           S == {<<usb.device, usb.serial>>}
<1>1. usb \in UsbDevices
  BY DEF Fits
<1>2. /\ Consistent(n) /\ Leads(m, n, S)
      /\ n.infos = m.infos /\ n.incomplete = m.incomplete /\ n.tasks = m.tasks
  BY <1>1, ConnectConsistent
<1>3. Fits(n, usb)
  <2> HIDE DEF n
  <2> QED  BY <1>2, FitsSame
<1>4. ready \in BOOLEAN /\ (ready => n.pool[usb.serial] # None)
  BY <1>2 DEF Usable, Consistent, Typed, ConnectionMap, Connections, PoolIsRight
<1>5. o = Start(n, "fetch", usb, ready)
  BY DEF FetchDeviceInformation
<1> HIDE DEF n, o, ready
<1>6. Consistent(o) /\ Leads(n, o, S)
  BY <1>2, <1>3, <1>4, <1>5, StartConsistent
<1>7. o.infos = n.infos /\ o.incomplete = n.incomplete
  BY <1>2, <1>4, <1>5, StartFields DEF Consistent
<1> QED  BY <1>2, <1>6, <1>7, LeadsOn DEF o

-----------------------------------------------------------------------------
(* Putting another task in the place of one, for a device that fits. *)
LEMMA TaskReplaced ==
    ASSUME NEW m, Consistent(m), NEW i \in DOMAIN m.tasks, NEW t \in Tasks,
           TaskIsRight(m, t), Fits(m, t.usb)
    PROVE  LET n == [m EXCEPT !.tasks[i] = t] IN
           /\ Consistent(n) /\ Leads(m, n, {<<t.usb.device, t.usb.serial>>})
           /\ n.infos = m.infos /\ n.incomplete = m.incomplete /\ n.timers = m.timers
           /\ n.conns = m.conns /\ n.pool = m.pool /\ n.sent = m.sent
           /\ n.tasks = [m.tasks EXCEPT ![i] = t]
<1> DEFINE x == [m.tasks EXCEPT ![i] = t]
           n == [m EXCEPT !.tasks = x]
<1>1. [m EXCEPT !.tasks[i] = t] = n
  OBVIOUS
<1>2. m.tasks \in Seq(Tasks)
  BY DEF Consistent, Typed
<1>3. x \in Seq(Tasks) /\ DOMAIN x = DOMAIN m.tasks
      /\ \A j \in DOMAIN x : x[j] = IF j = i THEN t ELSE m.tasks[j]
  BY <1>2, ExceptSeq
<1> HIDE DEF x
<1>4. /\ Whole(n) /\ n.tasks = x
      /\ n.infos = m.infos /\ n.incomplete = m.incomplete /\ n.timers = m.timers
      /\ n.conns = m.conns /\ n.pool = m.pool /\ n.sent = m.sent
  BY TasksUpdate DEF Consistent
<1> HIDE DEF n
<1>5. TasksAreRight(n)
  BY <1>3, <1>4 DEF TasksAreRight, TaskIsRight, Consistent
<1>6. \A u : Manages(n, u) => Manages(m, u) \/ u = t.usb
  BY <1>3, <1>4 DEF Manages
<1>7. Exclusive(n)
  BY <1>6, ExclusiveFrom DEF Consistent
<1>8. Consistent(n)
  BY <1>3, <1>4, <1>5, <1>7 DEF Consistent, Typed, PoolIsRight, TimersSuffice
<1>9. Leads(m, n, {<<t.usb.device, t.usb.serial>>})
  BY <1>4, <1>6 DEF Leads, DealsWith
<1> QED  BY <1>1, <1>4, <1>8, <1>9 DEF x

(* Queueing an incomplete device, with a timer of its own. *)
LEMMA IncompleteQueued ==
    ASSUME NEW m, Consistent(m), NEW usb, Fits(m, usb)
    PROVE  LET n == [m EXCEPT !.incomplete = Append(@, usb), !.timers = @ + 1] IN
           /\ Consistent(n) /\ Leads(m, n, {<<usb.device, usb.serial>>}) /\ Fits(n, usb)
           /\ n.infos = m.infos /\ n.tasks = m.tasks /\ n.conns = m.conns
           /\ n.pool = m.pool /\ n.sent = m.sent
           /\ FromIncomplete(m, usb, n.incomplete)
<1> DEFINE x == Append(m.incomplete, usb)
           o == [m EXCEPT !.incomplete = x]
           y == m.timers + 1
           n == [o EXCEPT !.timers = y]
<1>1. m.incomplete \in Seq(UsbDevices) /\ usb \in UsbDevices /\ m.timers \in Nat
  BY DEF Consistent, Typed, Fits
<1>2. /\ x \in Seq(UsbDevices) /\ Len(x) = Len(m.incomplete) + 1
      /\ \A j \in 1..Len(m.incomplete) : x[j] = m.incomplete[j]
      /\ x[Len(m.incomplete) + 1] = usb
  BY <1>1, AppendProperties
<1> HIDE DEF x
<1>3. /\ Whole(o) /\ o.incomplete = x
      /\ o.infos = m.infos /\ o.timers = m.timers /\ o.tasks = m.tasks
      /\ o.conns = m.conns /\ o.pool = m.pool /\ o.sent = m.sent
  BY IncompleteUpdate DEF Consistent
<1>4. [m EXCEPT !.incomplete = Append(@, usb), !.timers = @ + 1] = n
  BY DEF x, Consistent, Whole
<1> HIDE DEF o, y
<1>5. /\ Whole(n) /\ n.timers = y
      /\ n.infos = o.infos /\ n.incomplete = o.incomplete /\ n.tasks = o.tasks
      /\ n.conns = o.conns /\ n.pool = o.pool /\ n.sent = o.sent
  BY <1>3, TimersUpdate
<1> HIDE DEF n
<1>6. FromIncomplete(m, usb, n.incomplete)
  BY <1>1, <1>2, <1>3, <1>5 DEF FromIncomplete
<1>7. \A u : Manages(n, u) => Manages(m, u) \/ u = usb
  BY <1>3, <1>5, <1>6 DEF Manages, FromIncomplete
<1>8. Exclusive(n) /\ Fits(n, usb)
  BY <1>7, ExclusiveFrom DEF Consistent, Fits, Compatible, SamePlug
<1>9. Len(n.incomplete) <= n.timers /\ n.timers \in Nat
  BY <1>1, <1>2, <1>3, <1>5 DEF y, Consistent, TimersSuffice
<1>10. Consistent(n)
  BY <1>2, <1>3, <1>5, <1>8, <1>9
     DEF Consistent, Typed, PoolIsRight, TimersSuffice, TasksAreRight, TaskIsRight
<1>11. Leads(m, n, {<<usb.device, usb.serial>>})
  BY <1>3, <1>5, <1>7 DEF Leads, DealsWith
<1> QED  BY <1>3, <1>4, <1>5, <1>6, <1>8, <1>10, <1>11

(* Changing the list of informations, by one about a device that fits. *)
LEMMA InfosChanged ==
    ASSUME NEW m, Consistent(m), NEW usb, Fits(m, usb), NEW x \in Seq(Infos),
           FromInfos(m, usb, x)
    PROVE  LET n == [m EXCEPT !.infos = x] IN
           /\ Consistent(n) /\ Leads(m, n, {<<usb.device, usb.serial>>})
           /\ n.infos = x /\ n.incomplete = m.incomplete
           /\ n.tasks = m.tasks /\ n.conns = m.conns /\ n.pool = m.pool /\ n.sent = m.sent
<1> DEFINE n == [m EXCEPT !.infos = x]
<1>1. /\ Whole(n) /\ n.infos = x
      /\ n.incomplete = m.incomplete /\ n.timers = m.timers /\ n.tasks = m.tasks
      /\ n.conns = m.conns /\ n.pool = m.pool /\ n.sent = m.sent
  BY InfosUpdate DEF Consistent
<1> HIDE DEF n
<1>2. \A u : Manages(n, u) => Manages(m, u) \/ u = usb
  BY <1>1 DEF Manages, FromInfos
<1>3. Exclusive(n)
  BY <1>2, ExclusiveFrom DEF Consistent
<1>4. Consistent(n)
  BY <1>1, <1>3
     DEF Consistent, Typed, PoolIsRight, TimersSuffice, TasksAreRight, TaskIsRight
<1>5. Leads(m, n, {<<usb.device, usb.serial>>})
  BY <1>1, <1>2 DEF Leads, DealsWith
<1> QED  BY <1>1, <1>4, <1>5 DEF n

(* The second half of handleDeviceInformation(): what is known of the device by its
   serial number is replaced, or the information is added. *)
Stored(m, usb, ip) ==
    LET same == {i \in DOMAIN m.infos : m.infos[i].usb.serial = usb.serial}
    IN  IF same = {} THEN [m EXCEPT !.infos = Append(@, [usb |-> usb, ip |-> ip])]
        ELSE [m EXCEPT !.infos[Min(same)].ip = ip]

(* Storing what a device answered keeps a consistent manager, and every device
   that had an information still has one. *)
LEMMA StoredConsistent ==
    ASSUME NEW m, Consistent(m), NEW usb, Fits(m, usb), NEW ip \in BOOLEAN
    PROVE  LET n == Stored(m, usb, ip) IN
           /\ Consistent(n) /\ Leads(m, n, {<<usb.device, usb.serial>>})
           /\ n.incomplete = m.incomplete
           /\ n.tasks = m.tasks /\ n.conns = m.conns /\ n.pool = m.pool /\ n.sent = m.sent
           /\ HasInfo(n, usb.serial) /\ \A d : HasInfo(m, d) => HasInfo(n, d)
           /\ FromInfos(m, usb, n.infos)
<1> DEFINE same == {i \in DOMAIN m.infos : m.infos[i].usb.serial = usb.serial}
           info == [usb |-> usb, ip |-> ip]
           x == IF same = {} THEN Append(m.infos, info)
                ELSE [m.infos EXCEPT ![Min(same)].ip = ip]
           n == [m EXCEPT !.infos = x]
<1>1. m.infos \in Seq(Infos) /\ usb \in UsbDevices /\ info \in Infos /\ info.usb = usb
  BY DEF Consistent, Typed, Fits, Infos
<1>2. Stored(m, usb, ip) = n
  BY DEF Stored
<1>3. /\ x \in Seq(Infos) /\ FromInfos(m, usb, x)
      /\ \E k \in DOMAIN x : x[k].usb.serial = usb.serial
      /\ \A j \in DOMAIN m.infos : \E k \in DOMAIN x : x[k].usb = m.infos[j].usb
  <2> HIDE DEF info
  <2>1. CASE same = {}
    <3>1. x = Append(m.infos, info)
      BY <2>1
    <3>2. /\ x \in Seq(Infos) /\ Len(x) = Len(m.infos) + 1
          /\ \A j \in 1..Len(m.infos) : x[j] = m.infos[j]
          /\ x[Len(m.infos) + 1] = info
      BY <1>1, <3>1, AppendProperties
    <3> HIDE DEF x
    <3>3. DOMAIN x = 1..(Len(m.infos) + 1) /\ DOMAIN m.infos = 1..Len(m.infos)
          /\ Len(m.infos) \in Nat
      BY <1>1, <3>2
    <3> QED  BY <1>1, <3>2, <3>3 DEF FromInfos
  <2>2. CASE same # {}
    <3> DEFINE k == Min(same)
               new == [m.infos[k] EXCEPT !.ip = ip]
    <3>1. same \in SUBSET Nat
      BY <1>1
    <3>2. k \in DOMAIN m.infos /\ m.infos[k].usb.serial = usb.serial
      <4>1. k \in same
        <5> HIDE DEF same
        <5> QED  BY <2>2, <3>1, SmallestNumber
      <4> QED  BY <4>1
    <3>3. x = [m.infos EXCEPT ![k] = new]
      BY <2>2
    <3> HIDE DEF k, x
    <3>4. new \in Infos /\ new.usb = m.infos[k].usb
      <4>1. m.infos[k] \in Infos
        BY <1>1, <3>2
      <4>2. ASSUME NEW z \in Infos
            PROVE  [z EXCEPT !.ip = ip] \in Infos /\ [z EXCEPT !.ip = ip].usb = z.usb
        BY DEF Infos
      <4> QED  BY <4>1, <4>2
    <3> HIDE DEF new
    <3>5. x \in Seq(Infos) /\ DOMAIN x = DOMAIN m.infos
          /\ \A j \in DOMAIN x : x[j] = IF j = k THEN new ELSE m.infos[j]
      BY <1>1, <3>2, <3>3, <3>4, ExceptSeq
    <3> QED  BY <3>2, <3>4, <3>5 DEF FromInfos
  <2> QED  BY <2>1, <2>2
<1> HIDE DEF x
<1>4. /\ Consistent(n) /\ Leads(m, n, {<<usb.device, usb.serial>>})
      /\ n.infos = x /\ n.incomplete = m.incomplete
      /\ n.tasks = m.tasks /\ n.conns = m.conns /\ n.pool = m.pool /\ n.sent = m.sent
  BY <1>3, InfosChanged
<1> HIDE DEF n
<1>5. HasInfo(n, usb.serial) /\ \A d : HasInfo(m, d) => HasInfo(n, d)
  BY <1>3, <1>4 DEF HasInfo
<1> QED  BY <1>2, <1>3, <1>4, <1>5

(* handleDeviceInformation() of a device that fits leaves an incomplete one in the
   queue, and with an information. *)
LEMMA HandleDeviceInformationConsistent ==
    ASSUME NEW m, Consistent(m), NEW usb, Fits(m, usb), NEW result \in FetchResults
    PROVE  LET n == HandleDeviceInformation(m, usb, result) IN
           /\ Consistent(n) /\ Leads(m, n, {<<usb.device, usb.serial>>})
           /\ n.tasks = m.tasks /\ n.conns = m.conns /\ n.pool = m.pool /\ n.sent = m.sent
           /\ \A d : HasInfo(m, d) => HasInfo(n, d)
           /\ FromIncomplete(m, usb, n.incomplete)
           /\ result # "none" => HasInfo(n, usb.serial)
           /\ result = "none" => n = m
           /\ FromInfos(m, usb, n.infos)
<1> DEFINE q == [m EXCEPT !.incomplete = Append(@, usb), !.timers = @ + 1]
           o == IF result = "incomplete" THEN q ELSE m
           ip == result = "complete"
           n == Stored(o, usb, ip)
           S == {<<usb.device, usb.serial>>}
<1>1. HandleDeviceInformation(m, usb, result) = IF result = "none" THEN m ELSE n
  BY DEF HandleDeviceInformation, Stored
<1>2. /\ Consistent(q) /\ Leads(m, q, S) /\ Fits(q, usb)
      /\ q.infos = m.infos /\ q.tasks = m.tasks /\ q.conns = m.conns
      /\ q.pool = m.pool /\ q.sent = m.sent /\ FromIncomplete(m, usb, q.incomplete)
  BY IncompleteQueued
<1>3. Leads(m, m, S) /\ FromIncomplete(m, usb, m.incomplete) /\ FromInfos(m, usb, m.infos)
  BY DEF Leads, FromIncomplete, FromInfos
<1> HIDE DEF q
<1>4. /\ Consistent(o) /\ Leads(m, o, S) /\ Fits(o, usb)
      /\ o.infos = m.infos /\ o.tasks = m.tasks /\ o.conns = m.conns
      /\ o.pool = m.pool /\ o.sent = m.sent /\ FromIncomplete(m, usb, o.incomplete)
  BY <1>2, <1>3
<1>5. ip \in BOOLEAN
  OBVIOUS
<1> HIDE DEF o, ip
<1>6. /\ Consistent(n) /\ Leads(o, n, S) /\ n.incomplete = o.incomplete
      /\ n.tasks = o.tasks /\ n.conns = o.conns /\ n.pool = o.pool /\ n.sent = o.sent
      /\ HasInfo(n, usb.serial) /\ \A d : HasInfo(o, d) => HasInfo(n, d)
      /\ FromInfos(o, usb, n.infos)
  BY <1>4, <1>5, StoredConsistent
<1> HIDE DEF n
<1>7. (\A d : HasInfo(m, d) => HasInfo(n, d)) /\ FromInfos(m, usb, n.infos)
  BY <1>4, <1>6 DEF HasInfo, FromInfos
<1>8. Leads(m, n, S)
  BY <1>4, <1>6, LeadsOn
<1> QED  BY <1>1, <1>3, <1>4, <1>6, <1>7, <1>8

-----------------------------------------------------------------------------
(* A step about a device that the manager deals with leads to nothing new. *)
LEMMA LeadsToNothingNew ==
    ASSUME NEW m, NEW n, NEW p, NEW d, Leads(m, n, {<<p, d>>}), DealsWith(m, p, d)
    PROVE  Leads(m, n, {})
BY DEF Leads

(* What leaves the queue and the list alone keeps the informations. *)
LEMMA KeepsSameInfos ==
    ASSUME NEW m, NEW n, n.infos = m.infos, n.incomplete = m.incomplete
    PROVE  KeepsInfos(m, n)
BY DEF KeepsInfos, HasInfo

(* A task of a consistent manager has its fields, and its device fits. *)
LEMMA TaskFields ==
    ASSUME NEW m, Consistent(m), NEW i \in DOMAIN m.tasks
    PROVE  /\ m.tasks[i] \in Tasks /\ m.tasks[i].usb \in UsbDevices
           /\ m.tasks[i].kind \in {"configure", "fetch", "none"}
           /\ m.tasks[i].stage \in {"asked", "answered", "done"}
           /\ m.tasks[i].subnet \in Subnets \cup {None}
           /\ TaskIsRight(m, m.tasks[i]) /\ Fits(m, m.tasks[i].usb)
           /\ DealsWith(m, m.tasks[i].usb.device, m.tasks[i].usb.serial)
<1>1. m.tasks \in Seq(Tasks) /\ TasksAreRight(m) /\ Exclusive(m)
  BY DEF Consistent, Typed
<1>2. m.tasks[i] \in Tasks
  BY <1>1
<1>3. /\ m.tasks[i].usb \in UsbDevices
      /\ m.tasks[i].kind \in {"configure", "fetch", "none"}
      /\ m.tasks[i].stage \in {"asked", "answered", "done"}
      /\ m.tasks[i].subnet \in Subnets \cup {None}
  BY <1>2 DEF Tasks
<1>4. Manages(m, m.tasks[i].usb)
  BY DEF Manages
<1>5. Fits(m, m.tasks[i].usb) /\ DealsWith(m, m.tasks[i].usb.device, m.tasks[i].usb.serial)
  BY <1>1, <1>3, <1>4, HeldFits
<1> QED  BY <1>1, <1>2, <1>3, <1>5 DEF TasksAreRight

(* Changing one member of a task. *)
LEMMA TaskUpdate ==
    ASSUME NEW t \in Tasks
    PROVE  /\ \A s \in {"asked", "answered", "done"} :
                 LET n == [t EXCEPT !.stage = s] IN
                 /\ n \in Tasks /\ n.stage = s /\ n.usb = t.usb /\ n.kind = t.kind
                 /\ n.conn = t.conn /\ n.result = t.result /\ n.subnet = t.subnet
           /\ \A u \in UsbDevices :
                 LET n == [t EXCEPT !.usb = u] IN
                 /\ n \in Tasks /\ n.usb = u /\ n.stage = t.stage /\ n.kind = t.kind
                 /\ n.conn = t.conn /\ n.result = t.result /\ n.subnet = t.subnet
BY DEF Tasks

(* alreadySetResponse *)
LEMMA HandleAlreadySetConsistent ==
    ASSUME NEW m, Consistent(m), NEW i \in DOMAIN m.tasks, NEW outcome
    PROVE  LET n == HandleAlreadySet(m, i, outcome) IN
           /\ Consistent(n) /\ Leads(m, n, {})
           /\ n.infos = m.infos /\ n.incomplete = m.incomplete
<1> DEFINE t == m.tasks[i]
           s == t.subnet
           u == [t.usb EXCEPT !.reservation = s]
           v == [t EXCEPT !.usb = u]
           o == [m EXCEPT !.tasks[i] = v]
           n == FetchDeviceInformation(o, u, outcome)
<1>1. /\ t \in Tasks /\ t.usb \in UsbDevices /\ s \in Subnets \cup {None}
      /\ TaskIsRight(m, t) /\ DealsWith(m, t.usb.device, t.usb.serial)
  BY TaskFields
<1>2. CASE s = None \/ s \in Reserved(m)
  <2>1. HandleAlreadySet(m, i, outcome) = m
    BY <1>2 DEF HandleAlreadySet
  <2> QED  BY <2>1 DEF Leads
<1>3. CASE ~(s = None \/ s \in Reserved(m))
  <2>1. HandleAlreadySet(m, i, outcome) = n
    BY <1>3 DEF HandleAlreadySet
  <2> HIDE DEF t
  <2>2. u \in UsbDevices /\ SamePlug(u, t.usb) /\ Fits(m, u)
    BY <1>1, <1>3, UnreservedFits
  <2> HIDE DEF u
  <2>3. v \in Tasks /\ v.usb = u /\ v.stage = t.stage /\ v.kind = t.kind /\ v.conn = t.conn
        /\ v.result = t.result
    BY <1>1, <2>2, TaskUpdate
  <2> HIDE DEF v
  <2>4. TaskIsRight(m, v) /\ DealsWith(m, u.device, u.serial)
    BY <1>1, <2>2, <2>3 DEF TaskIsRight, SamePlug
  <2>5. /\ Consistent(o) /\ Leads(m, o, {<<u.device, u.serial>>})
        /\ o.infos = m.infos /\ o.incomplete = m.incomplete
        /\ o.tasks = [m.tasks EXCEPT ![i] = v]
    BY <2>2, <2>3, <2>4, TaskReplaced
  <2> HIDE DEF o
  <2>6. i \in DOMAIN o.tasks /\ o.tasks[i] = v
    BY <2>5
  <2>7. Fits(o, u)
    BY <2>3, <2>5, <2>6, TaskFields
  <2>8. /\ Consistent(n) /\ Leads(o, n, {<<u.device, u.serial>>})
        /\ n.infos = o.infos /\ n.incomplete = o.incomplete
    BY <2>5, <2>7, FetchConsistent
  <2> HIDE DEF n
  <2>9. Leads(m, n, {})
    BY <2>4, <2>5, <2>8, LeadsOn, LeadsToNothingNew
  <2> QED  BY <2>1, <2>5, <2>8, <2>9
<1> QED  BY <1>2, <1>3

(* A task gets the device's reply: its handler. *)
LEMMA FinishConsistent ==
    ASSUME NEW m, Consistent(m), NEW i \in DOMAIN m.tasks, m.tasks[i].stage = "answered",
           NEW outcome
    PROVE  LET n == Finish(m, i, outcome) IN
           Consistent(n) /\ Leads(m, n, {}) /\ KeepsInfos(m, n)
<1> DEFINE t == m.tasks[i]
           u == t.usb
           v == [t EXCEPT !.stage = "done"]
           o == [m EXCEPT !.tasks[i] = v]
           n == Finish(m, i, outcome)
           S == {<<u.device, u.serial>>}
<1>1. /\ t \in Tasks /\ u = t.usb /\ t.stage = "answered"
      /\ TaskIsRight(m, t) /\ Fits(m, u) /\ DealsWith(m, u.device, u.serial)
  BY TaskFields
<1>2. [m EXCEPT !.tasks[i].stage = "done"] = o
  OBVIOUS
<1> HIDE DEF t, u
<1>3. v \in Tasks /\ v.usb = u /\ v.stage = "done"
  BY <1>1, TaskUpdate
<1> HIDE DEF v
<1>4. TaskIsRight(m, v)
  BY <1>3 DEF TaskIsRight
<1>5. /\ Consistent(o) /\ Leads(m, o, S)
      /\ o.infos = m.infos /\ o.incomplete = m.incomplete
      /\ o.tasks = [m.tasks EXCEPT ![i] = v]
  BY <1>1, <1>3, <1>4, TaskReplaced
<1>6. n = CASE t.kind = "fetch" -> HandleDeviceInformation(o, u, t.result)
            [] t.kind = "configure" /\ t.result = "Success" ->
                 FetchDeviceInformation(o, u, outcome)
            [] t.kind = "configure" /\ t.result = "AlreadySet" ->
                 HandleAlreadySet(o, i, outcome)
            [] t.kind = "configure" /\ t.result = "Failure" -> o
  BY <1>2 DEF Finish, t, u
<1> HIDE DEF o, n
<1>7. i \in DOMAIN o.tasks /\ o.tasks[i] = v
  BY <1>5
<1>8. Fits(o, u)
  BY <1>3, <1>5, <1>7, TaskFields
<1>9. SUFFICES Consistent(n) /\ Leads(o, n, S) /\ KeepsInfos(m, n)
  BY <1>1, <1>5, LeadsOn, LeadsToNothingNew DEF n
<1>10. CASE t.kind = "fetch"
  <2> DEFINE r == t.result
             h == HandleDeviceInformation(o, u, r)
  <2>1. r \in FetchResults
    BY <1>1, <1>10 DEF TaskIsRight
  <2>2. n = h
    BY <1>6, <1>10
  <2> HIDE DEF r
  <2>3. /\ Consistent(h) /\ Leads(o, h, S)
        /\ \A d : HasInfo(o, d) => HasInfo(h, d)
        /\ FromIncomplete(o, u, h.incomplete)
        /\ r # "none" => HasInfo(h, u.serial)
        /\ r = "none" => h = o
    BY <1>5, <1>8, <2>1, HandleDeviceInformationConsistent
  <2> HIDE DEF h
  <2>4. KeepsInfos(m, n)
    BY <1>5, <2>2, <2>3 DEF KeepsInfos, FromIncomplete, HasInfo
  <2> QED  BY <2>2, <2>3, <2>4
<1>11. CASE t.kind = "configure" /\ t.result = "Success"
  <2>1. n = FetchDeviceInformation(o, u, outcome)
    BY <1>6, <1>11
  <2>2. /\ Consistent(n) /\ Leads(o, n, S)
        /\ n.infos = o.infos /\ n.incomplete = o.incomplete
    BY <1>5, <1>8, <2>1, FetchConsistent
  <2> QED  BY <1>5, <2>2, KeepsSameInfos
<1>12. CASE t.kind = "configure" /\ t.result = "AlreadySet"
  <2>1. n = HandleAlreadySet(o, i, outcome)
    BY <1>6, <1>12
  <2>2. /\ Consistent(n) /\ Leads(o, n, {})
        /\ n.infos = o.infos /\ n.incomplete = o.incomplete
    BY <1>5, <1>7, <2>1, HandleAlreadySetConsistent
  <2>3. Leads(o, n, S)
    BY <2>2 DEF Leads
  <2> QED  BY <1>5, <2>2, <2>3, KeepsSameInfos
<1>13. CASE t.kind = "configure" /\ t.result = "Failure"
  <2>1. n = o
    BY <1>6, <1>13
  <2> QED  BY <1>5, <2>1, KeepsSameInfos DEF Leads
<1>14. \/ t.kind = "fetch"
       \/ t.kind = "configure" /\ t.result \in {"Success", "AlreadySet", "Failure"}
  BY <1>1 DEF Tasks, TaskIsRight, ConfigureResults
<1> QED  BY <1>10, <1>11, <1>12, <1>13, <1>14

(* disconnected() *)
LEMMA DisconnectedConsistent ==
    ASSUME NEW m, Consistent(m), NEW c \in DOMAIN m.conns
    PROVE  LET n == Disconnected(m, c) IN
           /\ Consistent(n) /\ Leads(m, n, {})
           /\ n.infos = m.infos /\ n.incomplete = m.incomplete /\ n.sent = m.sent
           /\ DOMAIN n.conns = DOMAIN m.conns
           /\ \A b \in DOMAIN m.conns : n.conns[b].usb = m.conns[b].usb
           /\ DOMAIN n.tasks = DOMAIN m.tasks
           /\ \A j \in DOMAIN m.tasks :
                 n.tasks[j] = IF m.tasks[j].conn = c THEN [m.tasks[j] EXCEPT !.stage = "done"]
                                                     ELSE m.tasks[j]
<1> DEFINE x == [j \in DOMAIN m.tasks |->
                    IF m.tasks[j].conn = c THEN [m.tasks[j] EXCEPT !.stage = "done"]
                                           ELSE m.tasks[j]]
           y == [m.conns EXCEPT ![c].up = FALSE]
           o == [m EXCEPT !.conns = y]
           n == [o EXCEPT !.tasks = x]
<1>1. Whole(m) /\ m.tasks \in Seq(Tasks) /\ ConnectionMap(m.conns)
  BY DEF Consistent, Typed
<1>2. Disconnected(m, c) = n
  BY <1>1 DEF Disconnected, Whole
<1>3. /\ ConnectionMap(y) /\ DOMAIN y = DOMAIN m.conns
      /\ \A b \in DOMAIN m.conns : y[b].usb = m.conns[b].usb
  BY <1>1 DEF ConnectionMap, Connections
<1>4. ASSUME NEW j \in DOMAIN m.tasks
      PROVE  /\ x[j] \in Tasks /\ x[j].usb = m.tasks[j].usb
             /\ x[j] = m.tasks[j] \/ x[j].stage = "done"
  <2> DEFINE t == m.tasks[j]
             v == [t EXCEPT !.stage = "done"]
  <2>1. x[j] = IF t.conn = c THEN v ELSE t
    OBVIOUS
  <2>2. t \in Tasks
    BY <1>1
  <2> HIDE DEF x, t
  <2>3. v \in Tasks /\ v.usb = t.usb /\ v.stage = "done"
    BY <2>2, TaskUpdate
  <2> HIDE DEF v
  <2> QED  BY <2>1, <2>2, <2>3 DEF t
<1>5. x \in Seq(Tasks) /\ DOMAIN x = DOMAIN m.tasks
  <2>1. DOMAIN m.tasks = 1..Len(m.tasks) /\ Len(m.tasks) \in Nat
    BY <1>1
  <2>2. x \in [1..Len(m.tasks) -> Tasks]
    BY <1>4, <2>1
  <2> HIDE DEF x
  <2> QED  BY <2>1, <2>2, SeqDef
<1>6. \A j \in DOMAIN m.tasks :
         x[j] = IF m.tasks[j].conn = c THEN [m.tasks[j] EXCEPT !.stage = "done"]
                                       ELSE m.tasks[j]
  OBVIOUS
<1> HIDE DEF x, y
<1>7. /\ Whole(o) /\ o.conns = y
      /\ o.infos = m.infos /\ o.incomplete = m.incomplete /\ o.timers = m.timers
      /\ o.tasks = m.tasks /\ o.pool = m.pool /\ o.sent = m.sent
  BY <1>1 DEF Whole
<1> HIDE DEF o
<1>8. /\ Whole(n) /\ n.tasks = x
      /\ n.infos = o.infos /\ n.incomplete = o.incomplete /\ n.timers = o.timers
      /\ n.conns = o.conns /\ n.pool = o.pool /\ n.sent = o.sent
  BY <1>7, TasksUpdate
<1> HIDE DEF n
<1>9. \A u : Manages(n, u) => Manages(m, u)
  BY <1>4, <1>5, <1>7, <1>8 DEF Manages
<1>10. Exclusive(n)
  BY <1>9, ExclusiveFewer DEF Consistent
<1>11. TasksAreRight(n)
  BY <1>3, <1>4, <1>5, <1>7, <1>8 DEF Consistent, TasksAreRight, TaskIsRight
<1>12. Consistent(n)
  <2>1. Typed(n) /\ TimersSuffice(n)
    BY <1>3, <1>5, <1>7, <1>8 DEF Consistent, Typed, TimersSuffice
  <2>2. PoolIsRight(n)
    BY <1>3, <1>7, <1>8 DEF Consistent, PoolIsRight
  <2> QED  BY <1>8, <1>10, <1>11, <2>1, <2>2 DEF Consistent
<1>13. Leads(m, n, {})
  BY <1>3, <1>7, <1>8, <1>9 DEF Leads, DealsWith
<1> QED  BY <1>2, <1>3, <1>5, <1>6, <1>7, <1>8, <1>12, <1>13

(* fetchIncomplete(), of a manager that has a timer. *)
LEMMA FetchIncompleteConsistent ==
    ASSUME NEW m, Consistent(m), m.timers > 0, NEW outcome
    PROVE  LET n == FetchIncomplete(m, outcome) IN
           Consistent(n) /\ Leads(m, n, {}) /\ KeepsInfos(m, n)
<1> DEFINE y == m.timers - 1
           a == [m EXCEPT !.timers = y]
           x == Tail(m.incomplete)
           o == [a EXCEPT !.incomplete = x]
           u == Head(m.incomplete)
           f == FetchDeviceInformation(o, u, outcome)
<1>1. Whole(m) /\ m.incomplete \in Seq(UsbDevices) /\ m.timers \in Nat
      /\ Len(m.incomplete) <= m.timers
  BY DEF Consistent, Typed, TimersSuffice
<1>2. y \in Nat /\ y = m.timers - 1
  BY <1>1
<1> HIDE DEF y
<1>3. /\ Whole(a) /\ a.timers = y
      /\ a.infos = m.infos /\ a.incomplete = m.incomplete /\ a.tasks = m.tasks
      /\ a.conns = m.conns /\ a.pool = m.pool /\ a.sent = m.sent
  BY <1>1, TimersUpdate
<1>4. FetchIncomplete(m, outcome) = IF m.incomplete = <<>> THEN a ELSE f
  BY <1>3 DEF FetchIncomplete, y
<1> HIDE DEF a
<1>5. CASE m.incomplete = <<>>
  <2>1. \A v : Manages(a, v) <=> Manages(m, v)
    BY <1>3 DEF Manages
  <2>2. Exclusive(a)
    BY <2>1, ExclusiveFewer DEF Consistent
  <2>3. Len(a.incomplete) = 0
    BY <1>3, <1>5
  <2>4. Typed(a) /\ TimersSuffice(a)
    BY <1>2, <1>3, <2>3 DEF Consistent, Typed, TimersSuffice
  <2>5. PoolIsRight(a) /\ TasksAreRight(a)
    BY <1>3 DEF Consistent, PoolIsRight, TasksAreRight, TaskIsRight
  <2>6. Leads(m, a, {}) /\ KeepsInfos(m, a)
    BY <1>3, <2>1, KeepsSameInfos DEF Leads, DealsWith
  <2> QED  BY <1>3, <1>4, <1>5, <2>2, <2>4, <2>5, <2>6 DEF Consistent
<1>6. CASE m.incomplete # <<>>
  <2>1. /\ x \in Seq(UsbDevices) /\ Len(x) = Len(m.incomplete) - 1
        /\ \A k \in 1..Len(x) : x[k] = m.incomplete[k + 1]
        /\ u \in UsbDevices /\ u = m.incomplete[1] /\ Len(m.incomplete) \in Nat \ {0}
    BY <1>1, <1>6, HeadTailProperties
  <2> HIDE DEF x, u
  <2>2. \A k \in DOMAIN x : \E j \in DOMAIN m.incomplete : x[k] = m.incomplete[j]
    BY <1>1, <2>1
  <2>3. /\ Whole(o) /\ o.incomplete = x
        /\ o.infos = a.infos /\ o.timers = a.timers /\ o.tasks = a.tasks
        /\ o.conns = a.conns /\ o.pool = a.pool /\ o.sent = a.sent
    BY <1>3, IncompleteUpdate
  <2> HIDE DEF o
  <2>4. \A v : Manages(o, v) => Manages(m, v)
    BY <1>3, <2>2, <2>3 DEF Manages
  <2>5. Exclusive(o)
    BY <2>4, ExclusiveFewer DEF Consistent
  <2>6. Typed(o) /\ TimersSuffice(o)
    <3>1. Len(x) <= y
      BY <1>1, <1>2, <2>1
    <3> QED  BY <1>2, <1>3, <2>1, <2>3, <3>1 DEF Consistent, Typed, TimersSuffice
  <2>7. PoolIsRight(o) /\ TasksAreRight(o)
    BY <1>3, <2>3 DEF Consistent, PoolIsRight, TasksAreRight, TaskIsRight
  <2>8. Consistent(o)
    BY <2>3, <2>5, <2>6, <2>7 DEF Consistent
  <2>9. Manages(m, u)
    BY <1>1, <2>1 DEF Manages
  <2>10. Fits(m, u) /\ DealsWith(m, u.device, u.serial)
    BY <2>1, <2>9, HeldFits DEF Consistent
  <2>11. Fits(o, u)
    BY <2>4, <2>10 DEF Fits
  <2>12. /\ Consistent(f) /\ Leads(o, f, {<<u.device, u.serial>>})
         /\ f.infos = o.infos /\ f.incomplete = o.incomplete
    BY <2>8, <2>11, FetchConsistent
  <2> HIDE DEF f
  <2>13. Leads(m, o, {<<u.device, u.serial>>})
    BY <1>3, <2>3, <2>4 DEF Leads, DealsWith
  <2>14. Leads(m, f, {})
    BY <2>10, <2>12, <2>13, LeadsOn, LeadsToNothingNew
  <2>15. KeepsInfos(m, f)
    BY <1>3, <2>2, <2>3, <2>12 DEF KeepsInfos, HasInfo
  <2> QED  BY <1>4, <1>6, <2>12, <2>14, <2>15
<1> QED  BY <1>5, <1>6

(* The deletion of a task that is done, and of the connection nobody else holds. *)
LEMMA DeleteTaskConsistent ==
    ASSUME NEW m, Consistent(m), NEW i \in DOMAIN m.tasks
    PROVE  LET n == DeleteTask(m, i) IN
           /\ Consistent(n) /\ Leads(m, n, {})
           /\ n.infos = m.infos /\ n.incomplete = m.incomplete /\ n.sent = m.sent
           /\ n.tasks = RemoveAt(m.tasks, i)
           /\ DOMAIN n.conns \subseteq DOMAIN m.conns
           /\ \A c \in DOMAIN n.conns : n.conns[c] = m.conns[c]
<1> DEFINE x == RemoveAt(m.tasks, i)
           live == {x[j].conn : j \in DOMAIN x} \cap DOMAIN m.conns
           y == Restrict(m.conns, live)
           z == [d \in Devices |-> IF m.pool[d] \in live THEN m.pool[d] ELSE None]
           a == [m EXCEPT !.tasks = x]
           b == [a EXCEPT !.conns = y]
           n == [b EXCEPT !.pool = z]
<1>1. Whole(m) /\ m.tasks \in Seq(Tasks) /\ ConnectionMap(m.conns)
      /\ m.pool \in [Devices -> Nat] /\ PoolIsRight(m) /\ TasksAreRight(m)
  BY DEF Consistent, Typed
<1>2. DOMAIN m.tasks = 1..Len(m.tasks) /\ Len(m.tasks) \in Nat
  BY <1>1
<1>3. /\ x \in Seq(Tasks) /\ Len(x) = Len(m.tasks) - 1
      /\ \A k \in 1..(Len(m.tasks) - 1) : x[k] = m.tasks[IF k < i THEN k ELSE k + 1]
  BY <1>1, <1>2, RemoveAtProperties
<1>4. /\ Whole(a) /\ a.tasks = x
      /\ a.infos = m.infos /\ a.incomplete = m.incomplete /\ a.timers = m.timers
      /\ a.conns = m.conns /\ a.pool = m.pool /\ a.sent = m.sent
  BY <1>1, TasksUpdate
<1>5. DeleteTask(m, i) = n
  BY <1>4 DEF DeleteTask
<1> HIDE DEF x
<1>6. \A k \in DOMAIN x : \E j \in DOMAIN m.tasks : x[k] = m.tasks[j]
  BY <1>2, <1>3
<1>7. live \subseteq DOMAIN m.conns /\ \A k \in DOMAIN x : x[k].conn \in DOMAIN m.conns => x[k].conn \in live
  OBVIOUS
<1> HIDE DEF live
<1>8. DOMAIN y = live /\ \A c \in live : y[c] = m.conns[c]
  BY DEF Restrict
<1>9. ConnectionMap(y)
  <2>1. IsFiniteSet(live)
    BY <1>1, <1>7, FS_Subset DEF ConnectionMap
  <2> QED  BY <1>1, <1>7, <2>1 DEF ConnectionMap, Restrict
<1>10. z \in [Devices -> Nat] /\ \A d \in Devices : z[d] = IF m.pool[d] \in live THEN m.pool[d] ELSE None
  BY <1>1 DEF None
<1> HIDE DEF a, y, z
<1>11. /\ Whole(n) /\ n.conns = y /\ n.pool = z
       /\ n.infos = a.infos /\ n.incomplete = a.incomplete /\ n.timers = a.timers
       /\ n.tasks = a.tasks /\ n.sent = a.sent
  <2>1. /\ Whole(b) /\ b.conns = y
        /\ b.infos = a.infos /\ b.incomplete = a.incomplete /\ b.timers = a.timers
        /\ b.tasks = a.tasks /\ b.sent = a.sent
    BY <1>4 DEF Whole
  <2> HIDE DEF b
  <2> QED  BY <2>1 DEF Whole
<1> HIDE DEF b, n
<1>12. \A u : Manages(n, u) => Manages(m, u)
  BY <1>4, <1>6, <1>11 DEF Manages
<1>13. Exclusive(n)
  BY <1>12, ExclusiveFewer DEF Consistent
<1>14. TasksAreRight(n)
  <2>1. SUFFICES ASSUME NEW k \in DOMAIN x PROVE TaskIsRight(n, x[k])
    BY <1>4, <1>11 DEF TasksAreRight
  <2>2. TaskIsRight(m, x[k])
    BY <1>1, <1>6 DEF TasksAreRight
  <2> QED  BY <1>7, <1>8, <1>11, <2>2 DEF TaskIsRight
<1>15. PoolIsRight(n)
  <2>1. \A c \in live : m.conns[c].usb.serial \in Devices
    BY <1>1, <1>7 DEF ConnectionMap, Connections, UsbDevices
  <2> QED  BY <1>1, <1>7, <1>8, <1>10, <1>11, <2>1 DEF PoolIsRight
<1>16. Typed(n) /\ TimersSuffice(n)
  BY <1>3, <1>4, <1>9, <1>10, <1>11 DEF Consistent, Typed, TimersSuffice
<1>17. Leads(m, n, {})
  BY <1>4, <1>7, <1>8, <1>11, <1>12 DEF Leads, DealsWith
<1> QED  BY <1>4, <1>5, <1>7, <1>8, <1>11, <1>13, <1>14, <1>15, <1>16, <1>17 DEF Consistent, x

(* find_if and erase: what is found at the positions I, if anything, goes. *)
LEMMA FirstRemoved ==
    ASSUME NEW T, NEW s \in Seq(T), NEW I \in SUBSET DOMAIN s
    PROVE  LET x == IF I = {} THEN s ELSE RemoveAt(s, Min(I)) IN
           /\ x \in Seq(T) /\ Len(x) <= Len(s)
           /\ \A k \in DOMAIN x : \E j \in DOMAIN s : x[k] = s[j]
<1> DEFINE i == Min(I)
           x == RemoveAt(s, i)
<1>1. Len(s) \in Nat /\ DOMAIN s = 1..Len(s) /\ I \in SUBSET Nat
  OBVIOUS
<1>2. CASE I = {}
  BY <1>1, <1>2
<1>3. CASE I # {}
  <2>1. i \in 1..Len(s)
    BY <1>1, <1>3, SmallestNumber
  <2> HIDE DEF i
  <2>2. /\ x \in Seq(T) /\ Len(x) = Len(s) - 1
        /\ \A k \in 1..(Len(s) - 1) : x[k] = s[IF k < i THEN k ELSE k + 1]
    BY <2>1, RemoveAtProperties
  <2> HIDE DEF x
  <2>3. ASSUME NEW k \in DOMAIN x
        PROVE  \E j \in DOMAIN s : x[k] = s[j]
    <3>1. k \in 1..(Len(s) - 1) /\ (IF k < i THEN k ELSE k + 1) \in DOMAIN s
      BY <1>1, <2>1, <2>2
    <3> QED  BY <2>2, <3>1
  <2>4. Len(x) <= Len(s)
    BY <1>1, <2>2
  <2> QED  BY <1>3, <2>2, <2>3, <2>4 DEF i, x
<1> QED  BY <1>2, <1>3

(* What removals leave. *)
Remains(m, n) ==
    /\ n.tasks = m.tasks /\ n.conns = m.conns /\ n.pool = m.pool /\ n.sent = m.sent
    /\ \A k \in DOMAIN n.incomplete :
          \E j \in DOMAIN m.incomplete : n.incomplete[k] = m.incomplete[j]
    /\ \A k \in DOMAIN n.infos : \E j \in DOMAIN m.infos : n.infos[k] = m.infos[j]

(* handleUnpluggedDevice() drops one device of the queue and one information, at most,
   and changes nothing else. *)
LEMMA HandleUnpluggedDeviceConsistent ==
    ASSUME NEW m, Consistent(m), NEW a
    PROVE  LET n == HandleUnpluggedDevice(m, a) IN
           Consistent(n) /\ Leads(m, n, {}) /\ Remains(m, n)
<1> DEFINE I == {i \in 1..Len(m.incomplete) : address[m.incomplete[i].device] = a}
           J == {i \in 1..Len(m.infos) : address[m.infos[i].usb.device] = a}
           x == IF I = {} THEN m.incomplete ELSE RemoveAt(m.incomplete, Min(I))
           y == IF J = {} THEN m.infos ELSE RemoveAt(m.infos, Min(J))
           o == [m EXCEPT !.incomplete = x]
           n == [o EXCEPT !.infos = y]
<1>1. Whole(m) /\ m.incomplete \in Seq(UsbDevices) /\ m.infos \in Seq(Infos)
  BY DEF Consistent, Typed
<1>2. RemoveFirstMatch(m.incomplete, LAMBDA usb : address[usb.device] = a) = x
  BY DEF RemoveFirstMatch, SelectInSeq
<1>3. RemoveFirstMatch(m.infos, LAMBDA info : address[info.usb.device] = a) = y
  BY DEF RemoveFirstMatch, SelectInSeq
<1>4. I \in SUBSET DOMAIN m.incomplete /\ J \in SUBSET DOMAIN m.infos
  BY <1>1
<1> HIDE DEF I, J
<1>5. /\ x \in Seq(UsbDevices) /\ Len(x) <= Len(m.incomplete)
      /\ \A k \in DOMAIN x : \E j \in DOMAIN m.incomplete : x[k] = m.incomplete[j]
  BY <1>1, <1>4, FirstRemoved
<1>6. /\ y \in Seq(Infos)
      /\ \A k \in DOMAIN y : \E j \in DOMAIN m.infos : y[k] = m.infos[j]
  BY <1>1, <1>4, FirstRemoved
<1> HIDE DEF x, y
<1>7. HandleUnpluggedDevice(m, a) = n
  BY <1>1, <1>2, <1>3 DEF HandleUnpluggedDevice, Whole
<1>8. /\ Whole(o) /\ o.incomplete = x
      /\ o.infos = m.infos /\ o.timers = m.timers /\ o.tasks = m.tasks
      /\ o.conns = m.conns /\ o.pool = m.pool /\ o.sent = m.sent
  BY <1>1, IncompleteUpdate
<1> HIDE DEF o
<1>9. /\ Whole(n) /\ n.infos = y
      /\ n.incomplete = o.incomplete /\ n.timers = o.timers /\ n.tasks = o.tasks
      /\ n.conns = o.conns /\ n.pool = o.pool /\ n.sent = o.sent
  BY <1>8, InfosUpdate
<1> HIDE DEF n
<1>10. \A u : Manages(n, u) => Manages(m, u)
  BY <1>5, <1>6, <1>8, <1>9 DEF Manages
<1>11. Exclusive(n)
  BY <1>10, ExclusiveFewer DEF Consistent
<1>12. Typed(n) /\ TimersSuffice(n)
  <2>1. Len(x) <= m.timers
    BY <1>1, <1>5 DEF Consistent, Typed, TimersSuffice
  <2> QED  BY <1>5, <1>6, <1>8, <1>9, <2>1 DEF Consistent, Typed, TimersSuffice
<1>13. PoolIsRight(n) /\ TasksAreRight(n)
  BY <1>8, <1>9 DEF Consistent, PoolIsRight, TasksAreRight, TaskIsRight
<1>14. Leads(m, n, {})
  BY <1>8, <1>9, <1>10 DEF Leads, DealsWith
<1> QED  BY <1>5, <1>6, <1>7, <1>8, <1>9, <1>11, <1>12, <1>13, <1>14 DEF Consistent, Remains

(* f[k] is the manager when k of the insertions have been handled. *)
InsertionSteps(f, m, queue, outcome, used) ==
    /\ DOMAIN f = 0..Len(queue) /\ f[0] = m
    /\ \A k \in 1..Len(queue) :
          f[k] = ConfigureDevice(f[k - 1], UsbDevice(queue[k][2], queue[k][1], None),
                                 outcome[queue[k][2]], used)
    /\ AfterInsertions(m, queue, outcome, used) = f[Len(queue)]

(* The handlers of the insertions are called one after the other. *)
LEMMA InsertionsUnfold ==
    ASSUME NEW m, NEW queue, Len(queue) \in Nat, NEW outcome, NEW used
    PROVE  \E f : InsertionSteps(f, m, queue, outcome, used)
<1> DEFINE N == Len(queue)
           F(f, k) == IF k = 0 THEN m
                      ELSE ConfigureDevice(f[k - 1], UsbDevice(queue[k][2], queue[k][1], None), outcome[queue[k][2]], used)
           S == {n \in 0..N : \E f : f = [k \in 0..n |-> F(f, k)]}
<1>1. 0 \in S
  <2> DEFINE g == [k \in 0..0 |-> m]
  <2>1. g = [k \in 0..0 |-> F(g, k)]
    OBVIOUS
  <2> HIDE DEF g, F
  <2>2. \E f : f = [k \in 0..0 |-> F(f, k)]
    BY <2>1
  <2> QED  BY <2>2
<1>2. ASSUME NEW n \in 0..N, n < N, n \in S
      PROVE  n + 1 \in S
  <2>1. PICK f : f = [k \in 0..n |-> F(f, k)]
    BY <1>2
  <2> DEFINE g == [k \in 0..n + 1 |-> IF k = n + 1 THEN F(f, k) ELSE f[k]]
  <2>2. g = [k \in 0..n + 1 |-> F(g, k)]
    <3>1. ASSUME NEW k \in 0..n + 1
          PROVE  g[k] = F(g, k)
      <4>1. k # 0 => k - 1 \in 0..n /\ g[k - 1] = f[k - 1]
        OBVIOUS
      <4>2. F(g, k) = F(f, k)
        <5> HIDE DEF g
        <5> QED  BY <4>1
      <4>3. k # n + 1 => f[k] = F(f, k)
        <5> HIDE DEF F, g
        <5>1. k # n + 1 => k \in 0..n
          OBVIOUS
        <5> QED  BY <2>1, <5>1
      <4> HIDE DEF F
      <4> QED  BY <4>2, <4>3
    <3> HIDE DEF F
    <3> QED  BY <3>1
  <2> HIDE DEF g, F
  <2>3. \E h : h = [k \in 0..n + 1 |-> F(h, k)]
    BY <2>2
  <2> QED  BY <2>3
<1>3. N \in S
  <2>1. \A n \in 0..N : n < N /\ n \in S => n + 1 \in S
    BY <1>2
  <2> HIDE DEF S, N
  <2>2. N \in Nat
    BY DEF N
  <2> QED  BY <1>1, <2>1, <2>2, SegmentInduction
<1>4. \E f : f = [k \in 0..N |-> F(f, k)]
  BY <1>3
<1> DEFINE after == CHOOSE f : f = [k \in 0..N |-> F(f, k)]
<1>5. after = [k \in 0..N |-> F(after, k)]
  BY <1>4
<1>6. AfterInsertions(m, queue, outcome, used) = after[N]
  BY DEF AfterInsertions
<1> HIDE DEF after
<1>7. DOMAIN after = 0..N /\ after[0] = m
      /\ \A k \in 1..N : after[k] = ConfigureDevice(after[k - 1], UsbDevice(queue[k][2], queue[k][1], None), outcome[queue[k][2]], used)
  <2>1. \A k \in 0..N : after[k] = F(after, k)
    <3> HIDE DEF F
    <3> QED  BY <1>5
  <2>2. DOMAIN after = 0..N
    <3> HIDE DEF F
    <3> QED  BY <1>5
  <2> QED  BY <2>1, <2>2
<1>8. InsertionSteps(after, m, queue, outcome, used)
  BY <1>6, <1>7 DEF InsertionSteps
<1> QED  BY <1>8

(* ... and so are those of the removals. *)
LEMMA RemovalsUnfold ==
    ASSUME NEW m, NEW queue, Len(queue) \in Nat
    PROVE  \E f :
              /\ DOMAIN f = 0..Len(queue) /\ f[0] = m
              /\ \A k \in 1..Len(queue) : f[k] = HandleUnpluggedDevice(f[k - 1], address[queue[k][1]])
              /\ AfterRemovals(m, queue) = f[Len(queue)]
<1> DEFINE N == Len(queue)
           F(f, k) == IF k = 0 THEN m
                      ELSE HandleUnpluggedDevice(f[k - 1], address[queue[k][1]])
           S == {n \in 0..N : \E f : f = [k \in 0..n |-> F(f, k)]}
<1>1. 0 \in S
  <2> DEFINE g == [k \in 0..0 |-> m]
  <2>1. g = [k \in 0..0 |-> F(g, k)]
    OBVIOUS
  <2> HIDE DEF g, F
  <2>2. \E f : f = [k \in 0..0 |-> F(f, k)]
    BY <2>1
  <2> QED  BY <2>2
<1>2. ASSUME NEW n \in 0..N, n < N, n \in S
      PROVE  n + 1 \in S
  <2>1. PICK f : f = [k \in 0..n |-> F(f, k)]
    BY <1>2
  <2> DEFINE g == [k \in 0..n + 1 |-> IF k = n + 1 THEN F(f, k) ELSE f[k]]
  <2>2. g = [k \in 0..n + 1 |-> F(g, k)]
    <3>1. ASSUME NEW k \in 0..n + 1
          PROVE  g[k] = F(g, k)
      <4>1. k # 0 => k - 1 \in 0..n /\ g[k - 1] = f[k - 1]
        OBVIOUS
      <4>2. F(g, k) = F(f, k)
        <5> HIDE DEF g
        <5> QED  BY <4>1
      <4>3. k # n + 1 => f[k] = F(f, k)
        <5> HIDE DEF F, g
        <5>1. k # n + 1 => k \in 0..n
          OBVIOUS
        <5> QED  BY <2>1, <5>1
      <4> HIDE DEF F
      <4> QED  BY <4>2, <4>3
    <3> HIDE DEF F
    <3> QED  BY <3>1
  <2> HIDE DEF g, F
  <2>3. \E h : h = [k \in 0..n + 1 |-> F(h, k)]
    BY <2>2
  <2> QED  BY <2>3
<1>3. N \in S
  <2>1. \A n \in 0..N : n < N /\ n \in S => n + 1 \in S
    BY <1>2
  <2> HIDE DEF S, N
  <2>2. N \in Nat
    BY DEF N
  <2> QED  BY <1>1, <2>1, <2>2, SegmentInduction
<1>4. \E f : f = [k \in 0..N |-> F(f, k)]
  BY <1>3
<1> DEFINE after == CHOOSE f : f = [k \in 0..N |-> F(f, k)]
<1>5. after = [k \in 0..N |-> F(after, k)]
  BY <1>4
<1>6. AfterRemovals(m, queue) = after[N]
  BY DEF AfterRemovals
<1> HIDE DEF after
<1>7. DOMAIN after = 0..N /\ after[0] = m
      /\ \A k \in 1..N : after[k] = HandleUnpluggedDevice(after[k - 1], address[queue[k][1]])
  <2>1. \A k \in 0..N : after[k] = F(after, k)
    <3> HIDE DEF F
    <3> QED  BY <1>5
  <2>2. DOMAIN after = 0..N
    <3> HIDE DEF F
    <3> QED  BY <1>5
  <2> QED  BY <2>1, <2>2
<1> QED  BY <1>6, <1>7

(* The devices of a queue of insertions or of removals. *)
Queued(queue) == {<<queue[k][1], queue[k][2]>> : k \in 1..Len(queue)}

(* The insertions that a poll reports, one after the other. *)
LEMMA InsertionsConsistent ==
    ASSUME NEW m, Consistent(m), NEW queue, Len(queue) \in Nat,
           Queued(queue) \subseteq (1..MaxPlugs) \X Devices, NEW outcome, NEW used
    PROVE  LET n == AfterInsertions(m, queue, outcome, used) IN
           /\ Consistent(n) /\ Leads(m, n, Queued(queue))
           /\ n.infos = m.infos /\ n.incomplete = m.incomplete
<1> DEFINE N == Len(queue)
           u(k) == UsbDevice(queue[k][2], queue[k][1], None)
           Good(n) == /\ Consistent(n) /\ Leads(m, n, Queued(queue))
                      /\ n.infos = m.infos /\ n.incomplete = m.incomplete
<1>1. PICK f : /\ DOMAIN f = 0..N /\ f[0] = m
               /\ \A k \in 1..N :
                     f[k] = ConfigureDevice(f[k - 1], u(k), outcome[queue[k][2]], used)
               /\ AfterInsertions(m, queue, outcome, used) = f[N]
  <2>1. PICK f : InsertionSteps(f, m, queue, outcome, used)
    BY InsertionsUnfold
  <2> QED  BY <2>1 DEF InsertionSteps
<1>2. ASSUME NEW k \in 1..N
      PROVE  /\ u(k) \in UsbDevices /\ u(k).reservation = None
             /\ <<u(k).device, u(k).serial>> \in Queued(queue)
  <2>1. <<queue[k][1], queue[k][2]>> \in Queued(queue)
    BY DEF Queued
  <2>2. queue[k][1] \in 1..MaxPlugs /\ queue[k][2] \in Devices
    BY <2>1
  <2> QED  BY <2>1, <2>2 DEF UsbDevice, UsbDevices
<1>3. Good(m)
  BY DEF Leads
<1>4. ASSUME NEW k \in 1..N, Good(f[k - 1])
      PROVE  Good(f[k])
  <2> DEFINE v == u(k)
             b == f[k - 1]
             o == outcome[queue[k][2]]
             n == ConfigureDevice(b, v, o, used)
             S == {<<v.device, v.serial>>}
  <2>1. v \in UsbDevices /\ v.reservation = None /\ <<v.device, v.serial>> \in Queued(queue)
    BY <1>2
  <2>2. f[k] = n
    BY <1>1
  <2> HIDE DEF u
  <2>3. Consistent(b) /\ Leads(m, b, Queued(queue))
        /\ b.infos = m.infos /\ b.incomplete = m.incomplete
    BY <1>4
  <2> HIDE DEF v, b, o
  <2>4. /\ Consistent(n) /\ Leads(b, n, S)
        /\ n.infos = b.infos /\ n.incomplete = b.incomplete
    BY <2>1, <2>3, ConfigureDeviceConsistent
  <2> HIDE DEF n
  <2>5. Leads(b, n, Queued(queue))
    BY <2>1, <2>4 DEF Leads
  <2> QED  BY <2>2, <2>3, <2>4, <2>5, LeadsOn
<1> HIDE DEF Good, u
<1> DEFINE T == {k \in 0..N : Good(f[k])}
<1>5. N \in T
  <2>1. 0 \in T
    BY <1>1, <1>3
  <2>2. ASSUME NEW k \in 0..N, k < N, k \in T
        PROVE  k + 1 \in T
    <3>1. k + 1 \in 1..N /\ (k + 1) - 1 = k
      BY <2>2
    <3> QED  BY <1>4, <2>2, <3>1
  <2> HIDE DEF T
  <2>3. \A k \in 0..N : k < N /\ k \in T => k + 1 \in T
    BY <2>2
  <2> HIDE DEF N
  <2>4. N \in Nat
    BY DEF N
  <2> QED  BY <2>1, <2>3, <2>4, SegmentInduction
<1> QED  BY <1>1, <1>5 DEF Good

(* The removals that a poll reports, one after the other. *)
LEMMA RemovalsConsistent ==
    ASSUME NEW m, Consistent(m), NEW queue, Len(queue) \in Nat
    PROVE  LET n == AfterRemovals(m, queue) IN
           Consistent(n) /\ Leads(m, n, {}) /\ Remains(m, n)
<1> DEFINE N == Len(queue)
           Good(n) == Consistent(n) /\ Leads(m, n, {}) /\ Remains(m, n)
<1>1. PICK f : /\ DOMAIN f = 0..N /\ f[0] = m
               /\ \A k \in 1..N : f[k] = HandleUnpluggedDevice(f[k - 1], address[queue[k][1]])
               /\ AfterRemovals(m, queue) = f[N]
  BY RemovalsUnfold
<1>2. Good(m)
  BY DEF Leads, Remains
<1>3. ASSUME NEW k \in 1..N, Good(f[k - 1])
      PROVE  Good(f[k])
  <2> DEFINE b == f[k - 1]
             a == address[queue[k][1]]
             n == HandleUnpluggedDevice(b, a)
  <2>1. f[k] = n
    BY <1>1
  <2>2. Good(b)
    BY <1>3
  <2> HIDE DEF a, b
  <2>3. Consistent(n) /\ Leads(b, n, {}) /\ Remains(b, n)
    BY <2>2, HandleUnpluggedDeviceConsistent
  <2> HIDE DEF n
  <2>4. Leads(m, n, {})
    BY <2>2, <2>3, LeadsOn
  <2>5. Remains(m, n)
    BY <2>2, <2>3 DEF Remains
  <2> QED  BY <2>1, <2>2, <2>3, <2>4, <2>5
<1> HIDE DEF Good
<1> DEFINE T == {k \in 0..N : Good(f[k])}
<1>4. N \in T
  <2>1. 0 \in T
    BY <1>1, <1>2
  <2>2. ASSUME NEW k \in 0..N, k < N, k \in T
        PROVE  k + 1 \in T
    <3>1. k + 1 \in 1..N /\ (k + 1) - 1 = k
      BY <2>2
    <3> QED  BY <1>3, <2>2, <3>1
  <2> HIDE DEF T
  <2>3. \A k \in 0..N : k < N /\ k \in T => k + 1 \in T
    BY <2>2
  <2> HIDE DEF N
  <2>4. N \in Nat
    BY DEF N
  <2> QED  BY <2>1, <2>3, <2>4, SegmentInduction
<1> QED  BY <1>1, <1>4 DEF Good

-----------------------------------------------------------------------------
(* What an event has asked of devices is sent, and tasks that are done are spent. *)
Spent(t) == Task("none", t.usb, t.conn, "done")

AtRest(m) ==
    [m EXCEPT !.sent = <<>>,
              !.tasks = [i \in DOMAIN @ |-> IF @[i].stage = "done" THEN Spent(@[i]) ELSE @[i]]]

(* Deleting the finished tasks and taking what was sent keep a consistent manager. *)
LEMMA AtRestConsistent ==
    ASSUME NEW m, Consistent(m)
    PROVE  LET n == AtRest(m) IN
           /\ Consistent(n) /\ Leads(m, n, {}) /\ KeepsInfos(m, n)
           /\ n.infos = m.infos /\ n.incomplete = m.incomplete /\ n.conns = m.conns
           /\ n.sent = <<>> /\ DOMAIN n.tasks = DOMAIN m.tasks
           /\ \A i \in DOMAIN m.tasks :
                 n.tasks[i] = IF m.tasks[i].stage = "done" THEN Spent(m.tasks[i]) ELSE m.tasks[i]
<1> DEFINE x == [i \in DOMAIN m.tasks |->
                    IF m.tasks[i].stage = "done" THEN Spent(m.tasks[i]) ELSE m.tasks[i]]
           y == <<>>
           o == [m EXCEPT !.sent = y]
           n == [o EXCEPT !.tasks = x]
<1>1. Whole(m) /\ m.tasks \in Seq(Tasks)
  BY DEF Consistent, Typed
<1>2. AtRest(m) = n
  BY <1>1 DEF AtRest, Whole
<1>3. \A i \in DOMAIN m.tasks :
         x[i] = IF m.tasks[i].stage = "done" THEN Spent(m.tasks[i]) ELSE m.tasks[i]
  OBVIOUS
<1>4. ASSUME NEW i \in DOMAIN m.tasks
      PROVE  /\ x[i] \in Tasks /\ x[i].usb = m.tasks[i].usb
             /\ x[i] = m.tasks[i] \/ x[i].stage = "done"
  <2>1. m.tasks[i] \in Tasks
    BY <1>1
  <2>2. \A t \in Tasks : Spent(t) \in Tasks /\ Spent(t).usb = t.usb /\ Spent(t).stage = "done"
    BY DEF Spent, Task, Tasks, FetchResults, None
  <2> HIDE DEF x
  <2> QED  BY <1>3, <2>1, <2>2
<1>5. x \in Seq(Tasks) /\ DOMAIN x = DOMAIN m.tasks
  <2>1. DOMAIN m.tasks = 1..Len(m.tasks) /\ Len(m.tasks) \in Nat
    BY <1>1
  <2>2. x \in [1..Len(m.tasks) -> Tasks]
    BY <1>4, <2>1
  <2> HIDE DEF x
  <2> QED  BY <2>1, <2>2, SeqDef
<1>6. y \in Seq(Requests)
  OBVIOUS
<1> HIDE DEF x
<1>7. /\ Whole(o) /\ o.sent = y
      /\ o.infos = m.infos /\ o.incomplete = m.incomplete /\ o.timers = m.timers
      /\ o.tasks = m.tasks /\ o.conns = m.conns /\ o.pool = m.pool
  BY <1>1, SentUpdate
<1> HIDE DEF o
<1>8. /\ Whole(n) /\ n.tasks = x
      /\ n.infos = o.infos /\ n.incomplete = o.incomplete /\ n.timers = o.timers
      /\ n.conns = o.conns /\ n.pool = o.pool /\ n.sent = o.sent
  BY <1>7, TasksUpdate
<1> HIDE DEF n
<1>9. \A u : Manages(n, u) => Manages(m, u)
  BY <1>4, <1>5, <1>7, <1>8 DEF Manages
<1>10. Exclusive(n)
  BY <1>9, ExclusiveFewer DEF Consistent
<1>11. TasksAreRight(n)
  BY <1>4, <1>5, <1>7, <1>8 DEF Consistent, TasksAreRight, TaskIsRight
<1>12. Typed(n) /\ TimersSuffice(n) /\ PoolIsRight(n)
  <2> HIDE DEF y
  <2> QED  BY <1>5, <1>6, <1>7, <1>8 DEF Consistent, Typed, TimersSuffice, PoolIsRight
<1>13. Leads(m, n, {})
  BY <1>7, <1>8, <1>9 DEF Leads, DealsWith
<1>14. KeepsInfos(m, n)
  BY <1>7, <1>8, KeepsSameInfos
<1> QED  BY <1>2, <1>3, <1>5, <1>7, <1>8, <1>10, <1>11, <1>12, <1>13, <1>14 DEF Consistent

(* The requests of d that are left, and those that an event adds. *)
Left(m, d) ==
    [i \in DOMAIN inbox[d] |-> IF Waits(m, inbox[d][i]) THEN inbox[d][i]
                               ELSE [inbox[d][i] EXCEPT !.conn = None]]

Mine(m, d) ==
    {i \in DOMAIN m.sent :
        m.conns[m.sent[i].conn].usb.serial = d /\ m.conns[m.sent[i].conn].usb.device = plugged[d]}

(* What Commit leaves: the settled manager, and the requests in the inboxes. *)
LEMMA CommitSettles ==
    ASSUME NEW m, Consistent(m), BusTyped, Commit(m)
    PROVE  /\ manager' = AtRest(m)
           /\ inbox' = [d \in Devices |-> Left(m, d) \o KeepAt(m.sent, Mine(m, d))]
           /\ inbox' \in [Devices -> Seq(Requests)]
<1>1. manager' = AtRest(m)
  BY DEF Commit, AtRest, Spent
<1>2. inbox' = [d \in Devices |-> Left(m, d) \o KeepAt(m.sent, Mine(m, d))]
  <2>1. PICK n \in {m} :
            inbox' = [d \in Devices |-> Left(n, d) \o KeepAt(n.sent, Mine(n, d))]
    BY Zenon DEF Commit, Left, Mine
  <2> QED  BY <2>1
<1>3. ASSUME NEW d \in Devices
      PROVE  Left(m, d) \o KeepAt(m.sent, Mine(m, d)) \in Seq(Requests)
  <2>1. m.sent \in Seq(Requests) /\ Mine(m, d) \in SUBSET DOMAIN m.sent
    BY DEF Consistent, Typed, Mine
  <2>2. KeepAt(m.sent, Mine(m, d)) \in Seq(Requests)
    BY <2>1, KeepAtKeeps
  <2>3. inbox[d] \in Seq(Requests)
    BY DEF BusTyped
  <2>4. DOMAIN inbox[d] = 1..Len(inbox[d]) /\ Len(inbox[d]) \in Nat
    BY <2>3
  <2>5. \A r \in Requests : [r EXCEPT !.conn = None] \in Requests
    BY DEF Requests, None
  <2>6. Left(m, d) \in [1..Len(inbox[d]) -> Requests]
    BY <2>3, <2>4, <2>5 DEF Left
  <2>7. Left(m, d) \in Seq(Requests)
    BY <2>4, <2>6, SeqDef
  <2> QED  BY <2>2, <2>7, ConcatProperties
<1> QED  BY <1>1, <1>2, <1>3

-----------------------------------------------------------------------------
(* What a consistent manager deals with is a device, under a number. *)
LEMMA DealsWithDevices ==
    ASSUME NEW m, Consistent(m), NEW p, NEW d, DealsWith(m, p, d)
    PROVE  p \in 1..MaxPlugs /\ d \in Devices
<1>1. \A u \in UsbDevices : u.serial \in Devices /\ u.device \in 1..MaxPlugs
  BY DEF UsbDevices
<1>2. \A c \in DOMAIN m.conns : m.conns[c].usb \in UsbDevices
  BY DEF Consistent, Typed, ConnectionMap, Connections
<1> QED  BY <1>1, <1>2 DEF DealsWith

(* What is committed is as consistent as what the event left. *)
LEMMA CommitConsistent ==
    ASSUME IInv, NEW m, Consistent(m), NEW S, Leads(manager, m, S), Commit(m)
    PROVE  /\ Consistent(manager') /\ Leads(manager, manager', S)
           /\ manager'.infos = m.infos /\ manager'.incomplete = m.incomplete
           /\ inbox' \in [Devices -> Seq(Requests)]
<1>1. manager' = AtRest(m) /\ inbox' \in [Devices -> Seq(Requests)]
  BY CommitSettles DEF IInv
<1>2. /\ Consistent(manager') /\ Leads(m, manager', {})
      /\ manager'.infos = m.infos /\ manager'.incomplete = m.incomplete
  BY <1>1, AtRestConsistent
<1>3. Leads(manager, manager', S)
  BY <1>2 DEF Leads
<1> QED  BY <1>1, <1>2, <1>3

(* A step that plugs and polls nothing, and gets to know no device. *)
LEMMA QuietStep ==
    ASSUME IInv, Consistent(manager'), Leads(manager, manager', {}),
           KeepsInfos(manager, manager'), BusTyped',
           UNCHANGED <<plugged, nextPlug, address, known, missed, unlisted>>
    PROVE  IInv'
<1> USE DEF IInv
<1>1. AddressesAreUnique' /\ KnownOnce'
  BY DEF AddressesAreUnique, KnownOnce
<1>2. \A p, d : DealsWith(manager', p, d) => DealsWith(manager, p, d)
  BY DEF Leads
<1>3. \A p, d : Met(p, d)' => Met(p, d)
  BY <1>2 DEF Met
<1>4. MetOnce'
  BY <1>3 DEF MetOnce
<1>5. CurrentAreKnown'
  BY <1>2 DEF CurrentAreKnown
<1>6. IncompleteHaveInfo'
  BY DEF IncompleteHaveInfo, KeepsInfos
<1> QED  BY <1>1, <1>4, <1>5, <1>6

(* The events of the host that concern devices it knows already. *)
LEMMA HandleReplyStep == ASSUME IInv, HandleReply PROVE IInv'
<1>1. PICK i \in DOMAIN manager.tasks, outcome \in {"up", "down", "null"} :
          /\ manager.tasks[i].stage = "answered"
          /\ Commit(Finish(manager, i, outcome))
          /\ UNCHANGED <<busVars, known, missed, unlisted>>
  BY DEF HandleReply, Outcomes
<1> DEFINE m == Finish(manager, i, outcome)
<1>2. Consistent(m) /\ Leads(manager, m, {}) /\ KeepsInfos(manager, m)
  BY <1>1, FinishConsistent DEF IInv
<1>3. Commit(m)
  BY <1>1
<1> HIDE DEF m
<1>4. /\ Consistent(manager') /\ Leads(manager, manager', {})
      /\ manager'.infos = m.infos /\ manager'.incomplete = m.incomplete
      /\ inbox' \in [Devices -> Seq(Requests)]
  BY <1>2, <1>3, CommitConsistent
<1>5. KeepsInfos(manager, manager') /\ BusTyped'
  BY <1>1, <1>2, <1>4 DEF KeepsInfos, HasInfo, BusTyped, IInv, busVars
<1> QED  BY <1>1, <1>4, <1>5, QuietStep DEF busVars

(* A connection that is lost. *)
LEMMA ConnectionLostStep == ASSUME IInv, ConnectionLost PROVE IInv'
<1>1. PICK c \in DOMAIN manager.conns :
          /\ Commit(Disconnected(manager, c))
          /\ UNCHANGED <<busVars, known, missed, unlisted>>
  BY DEF ConnectionLost
<1> DEFINE m == Disconnected(manager, c)
<1>2. /\ Consistent(m) /\ Leads(manager, m, {})
      /\ m.infos = manager.infos /\ m.incomplete = manager.incomplete
  BY DisconnectedConsistent DEF IInv
<1>3. Commit(m)
  BY <1>1
<1> HIDE DEF m
<1>4. /\ Consistent(manager') /\ Leads(manager, manager', {})
      /\ manager'.infos = m.infos /\ manager'.incomplete = m.incomplete
      /\ inbox' \in [Devices -> Seq(Requests)]
  BY <1>2, <1>3, CommitConsistent
<1>5. KeepsInfos(manager, manager') /\ BusTyped'
  BY <1>1, <1>2, <1>4, KeepsSameInfos DEF BusTyped, IInv, busVars
<1> QED  BY <1>1, <1>4, <1>5, QuietStep DEF busVars

(* A connection that is up again keeps a consistent manager. *)
LEMMA ReconnectedConsistent ==
    ASSUME NEW m, Consistent(m), NEW c \in DOMAIN m.conns
    PROVE  LET n == [m EXCEPT !.conns[c].up = TRUE] IN
           /\ Consistent(n) /\ Leads(m, n, {})
           /\ n.infos = m.infos /\ n.incomplete = m.incomplete
           /\ n.tasks = m.tasks /\ n.sent = m.sent
           /\ DOMAIN n.conns = DOMAIN m.conns
           /\ \A b \in DOMAIN m.conns : n.conns[b].usb = m.conns[b].usb
<1> DEFINE y == [m.conns EXCEPT ![c].up = TRUE]
           n == [m EXCEPT !.conns = y]
<1>1. Whole(m) /\ ConnectionMap(m.conns)
  BY DEF Consistent, Typed
<1>2. [m EXCEPT !.conns[c].up = TRUE] = n
  OBVIOUS
<1>3. /\ ConnectionMap(y) /\ DOMAIN y = DOMAIN m.conns
      /\ \A b \in DOMAIN m.conns : y[b].usb = m.conns[b].usb
  BY <1>1 DEF ConnectionMap, Connections
<1> HIDE DEF y
<1>4. /\ Whole(n) /\ n.conns = y
      /\ n.infos = m.infos /\ n.incomplete = m.incomplete /\ n.timers = m.timers
      /\ n.tasks = m.tasks /\ n.pool = m.pool /\ n.sent = m.sent
  BY <1>1 DEF Whole
<1> HIDE DEF n
<1>5. \A u : Manages(n, u) => Manages(m, u)
  BY <1>4 DEF Manages
<1>6. Exclusive(n)
  BY <1>5, ExclusiveFewer DEF Consistent
<1>7. Typed(n) /\ TimersSuffice(n)
  BY <1>3, <1>4 DEF Consistent, Typed, TimersSuffice
<1>8. PoolIsRight(n)
  BY <1>3, <1>4 DEF Consistent, PoolIsRight
<1>9. TasksAreRight(n)
  BY <1>3, <1>4 DEF Consistent, TasksAreRight, TaskIsRight
<1>10. Leads(m, n, {})
  BY <1>3, <1>4, <1>5 DEF Leads, DealsWith
<1> QED  BY <1>2, <1>3, <1>4, <1>6, <1>7, <1>8, <1>9, <1>10 DEF Consistent

(* A connection that was lost connects again. *)
LEMMA ReconnectedStep == ASSUME IInv, Reconnected PROVE IInv'
<1>1. PICK c \in DOMAIN manager.conns :
          /\ Commit([manager EXCEPT !.conns[c].up = TRUE])
          /\ UNCHANGED <<busVars, known, missed, unlisted>>
  BY DEF Reconnected
<1> DEFINE m == [manager EXCEPT !.conns[c].up = TRUE]
<1>2. /\ Consistent(m) /\ Leads(manager, m, {})
      /\ m.infos = manager.infos /\ m.incomplete = manager.incomplete
  BY ReconnectedConsistent DEF IInv
<1>3. Commit(m)
  BY <1>1
<1> HIDE DEF m
<1>4. /\ Consistent(manager') /\ Leads(manager, manager', {})
      /\ manager'.infos = m.infos /\ manager'.incomplete = m.incomplete
      /\ inbox' \in [Devices -> Seq(Requests)]
  BY <1>2, <1>3, CommitConsistent
<1>5. KeepsInfos(manager, manager') /\ BusTyped'
  BY <1>1, <1>2, <1>4, KeepsSameInfos DEF BusTyped, IInv, busVars
<1> QED  BY <1>1, <1>4, <1>5, QuietStep DEF busVars

(* The one-second timer of an incomplete device. *)
LEMMA TimerFiresStep == ASSUME IInv, TimerFires PROVE IInv'
<1>1. PICK outcome \in {"up", "down", "null"} :
          /\ manager.timers > 0
          /\ Commit(FetchIncomplete(manager, outcome))
          /\ UNCHANGED <<busVars, known, missed, unlisted>>
  BY DEF TimerFires, Outcomes
<1> DEFINE m == FetchIncomplete(manager, outcome)
<1>2. Consistent(m) /\ Leads(manager, m, {}) /\ KeepsInfos(manager, m)
  BY <1>1, FetchIncompleteConsistent DEF IInv
<1>3. Commit(m)
  BY <1>1
<1> HIDE DEF m
<1>4. /\ Consistent(manager') /\ Leads(manager, manager', {})
      /\ manager'.infos = m.infos /\ manager'.incomplete = m.incomplete
      /\ inbox' \in [Devices -> Seq(Requests)]
  BY <1>2, <1>3, CommitConsistent
<1>5. KeepsInfos(manager, manager') /\ BusTyped'
  BY <1>1, <1>2, <1>4 DEF KeepsInfos, HasInfo, BusTyped, IInv, busVars
<1> QED  BY <1>1, <1>4, <1>5, QuietStep DEF busVars

(* deleteLater of a finished task. *)
LEMMA TaskDeletedStep == ASSUME IInv, TaskDeleted PROVE IInv'
<1>1. PICK i \in DOMAIN manager.tasks :
          /\ Commit(DeleteTask(manager, i))
          /\ UNCHANGED <<busVars, known, missed, unlisted>>
  BY DEF TaskDeleted
<1> DEFINE m == DeleteTask(manager, i)
<1>2. /\ Consistent(m) /\ Leads(manager, m, {})
      /\ m.infos = manager.infos /\ m.incomplete = manager.incomplete
  BY DeleteTaskConsistent DEF IInv
<1>3. Commit(m)
  BY <1>1
<1> HIDE DEF m
<1>4. /\ Consistent(manager') /\ Leads(manager, manager', {})
      /\ manager'.infos = m.infos /\ manager'.incomplete = m.incomplete
      /\ inbox' \in [Devices -> Seq(Requests)]
  BY <1>2, <1>3, CommitConsistent
<1>5. KeepsInfos(manager, manager') /\ BusTyped'
  BY <1>1, <1>2, <1>4, KeepsSameInfos DEF BusTyped, IInv, busVars
<1> QED  BY <1>1, <1>4, <1>5, QuietStep DEF busVars

-----------------------------------------------------------------------------
(* What is on the bus: the devices that are plugged in, each under its number. *)
LEMMA PresentProperties ==
    ASSUME BusTyped
    PROVE  /\ Present \subseteq (1..MaxPlugs) \X Devices
           /\ \A d \in Devices : plugged[d] # None => <<plugged[d], d>> \in Present
           /\ \A p \in Present : p[2] \in Devices /\ p[1] = plugged[p[2]] /\ p[1] # None
BY DEF BusTyped, Present, None

(* The devices that a poll finds inserted, or removed, in the order of the set. *)
LEMMA ByAddressQueues ==
    ASSUME NEW D \in SUBSET ((1..MaxPlugs) \X Devices)
    PROVE  Len(ByAddress(D)) \in Nat /\ Queued(ByAddress(D)) \subseteq D
<1> DEFINE q == ByAddress(D)
           N == Cardinality(D)
<1>1. IsFiniteSet(1..MaxPlugs) /\ IsFiniteSet(Devices)
  BY BoundsAssumption, FS_Interval
<1>2. IsFiniteSet((1..MaxPlugs) \X Devices)
  BY <1>1, FS_Product
<1>3. N \in Nat
  BY <1>2, FS_Subset, FS_CardinalityType
<1>4. \A k \in 1..N : q[k] \in D
  <2>1. SUFFICES ASSUME NEW k \in 1..N PROVE q[k] \in D
    OBVIOUS
  <2>2. D # {}
    BY <1>3, <2>1, FS_EmptySet
  <2>3. Addresses(D) # {}
    BY <2>2 DEF Addresses
  <2>4. Nth(Addresses(D), k) \in Addresses(D)
    BY <2>3, NthIsMember
  <2>5. \E p \in D : address[p[1]] = Nth(Addresses(D), k)
    BY <2>4 DEF Addresses
  <2>6. q[k] = CHOOSE p \in D : address[p[1]] = Nth(Addresses(D), k)
    BY DEF ByAddress
  <2> QED  BY <2>5, <2>6
<1>5. q \in [1..N -> D]
  BY <1>4 DEF ByAddress
<1> HIDE DEF q, N
<1>6. q \in Seq(D) /\ Len(q) = N
  BY <1>3, <1>5, SeqDef
<1>7. \A k \in 1..N : <<q[k][1], q[k][2]>> = q[k]
  BY <1>5
<1>8. Queued(q) \subseteq D
  BY <1>5, <1>6, <1>7 DEF Queued
<1> QED  BY <1>3, <1>6, <1>8 DEF q

(* A poll reports what was inserted and what was removed since the last one. *)
LEMMA PollStep == ASSUME IInv, NEW seen \in Seen, PollQdbDevices(seen) PROVE IInv'
<1> DEFINE inserted == {p \in seen : address[p[1]] \notin Addresses(known)}
           removed == {p \in known : address[p[1]] \notin Addresses(seen)}
           lost == {p[2] : p \in removed \cap Present}
<1>1. PICK outcome, used :
          Commit(AfterRemovals(AfterInsertions(manager, ByAddress(inserted), outcome, used),
                               ByAddress(removed)))
  BY DEF PollQdbDevices
<1>2. /\ known' = seen /\ missed' = missed \cup lost
      /\ unlisted' = unlisted \cup
            {usb.serial : usb \in
                {u \in Listed(manager) \ Listed(manager') :
                    plugged[u.serial] # None /\ u.device \notin {p[1] : p \in removed}}}
      /\ UNCHANGED busVars
  BY DEF PollQdbDevices
<1> USE DEF IInv
<1>3. /\ seen \subseteq Present /\ seen \subseteq (1..MaxPlugs) \X Devices
      /\ known \subseteq (1..MaxPlugs) \X Devices
      /\ inserted \in SUBSET ((1..MaxPlugs) \X Devices)
      /\ removed \in SUBSET ((1..MaxPlugs) \X Devices)
  <2>1. seen \subseteq Present
    BY DEF Seen
  <2> QED  BY <2>1, PresentProperties DEF BusTyped
<1>4. inserted \subseteq seen /\ removed \subseteq known
      /\ \A p \in known : p \notin removed => address[p[1]] \in Addresses(seen)
  OBVIOUS
<1> HIDE DEF inserted, removed
<1> DEFINE a == AfterInsertions(manager, ByAddress(inserted), outcome, used)
           m == AfterRemovals(a, ByAddress(removed))
<1>5. Queued(ByAddress(inserted)) \subseteq inserted /\ Len(ByAddress(inserted)) \in Nat
      /\ Len(ByAddress(removed)) \in Nat
  BY <1>3, ByAddressQueues
<1>6. /\ Consistent(a) /\ Leads(manager, a, Queued(ByAddress(inserted)))
      /\ a.infos = manager.infos /\ a.incomplete = manager.incomplete
  <2>1. Queued(ByAddress(inserted)) \subseteq (1..MaxPlugs) \X Devices
    BY <1>3, <1>5
  <2> QED  BY <1>5, <2>1, InsertionsConsistent
<1> HIDE DEF a
<1>7. Consistent(m) /\ Leads(a, m, {}) /\ Remains(a, m)
  BY <1>5, <1>6, RemovalsConsistent
<1>8. Commit(m)
  BY <1>1 DEF a
<1> HIDE DEF m
<1>9. Leads(manager, m, seen)
  BY <1>4, <1>5, <1>6, <1>7 DEF Leads
<1>10. /\ Consistent(manager') /\ Leads(manager, manager', seen)
       /\ manager'.infos = m.infos /\ manager'.incomplete = m.incomplete
       /\ inbox' \in [Devices -> Seq(Requests)]
  BY <1>7, <1>8, <1>9, CommitConsistent
<1>11. BusTyped' /\ AddressesAreUnique'
  BY <1>2, <1>3, <1>10 DEF BusTyped, AddressesAreUnique, busVars
<1>12. \A p \in seen : p[2] \in Devices /\ p[1] = plugged[p[2]] /\ p[1] # None /\ p \in Present
  BY <1>3, PresentProperties
<1>13. KnownOnce'
  <2>1. SUFFICES ASSUME NEW p \in seen, NEW q \in seen, p[2] = q[2] PROVE p = q
    BY <1>2 DEF KnownOnce
  <2>2. p \in (1..MaxPlugs) \X Devices /\ q \in (1..MaxPlugs) \X Devices /\ p[1] = q[1]
    BY <1>3, <1>12, <2>1
  <2> QED  BY <2>1, <2>2
<1>14. \A p, d : <<p, d>> \in seen => plugged[d] = p
  BY <1>12
<1>15. \A p, d : Met(p, d)' => Met(p, d)
  BY <1>2, <1>10, <1>14 DEF Met, Leads, busVars
<1>16. MetOnce'
  BY <1>2, <1>15 DEF MetOnce, busVars
<1>17. ASSUME NEW p \in 1..MaxPlugs, NEW d \in Devices, <<p, d>> \in known, plugged[d] = p,
              <<p, d>> \notin seen
       PROVE  d \in lost
  <2>1. <<p, d>> \in Present
    BY <1>17, PresentProperties DEF None
  <2>2. address[p] \notin Addresses(seen)
    <3>1. SUFFICES ASSUME NEW q \in seen, address[q[1]] = address[p] PROVE FALSE
      BY DEF Addresses
    <3>2. q[2] \in Devices /\ q[1] = plugged[q[2]] /\ plugged[q[2]] # None /\ plugged[d] # None
      BY <1>12, <1>17 DEF None
    <3>3. q[2] = d
      BY <1>17, <3>1, <3>2 DEF AddressesAreUnique
    <3>4. q = <<p, d>>
      BY <1>3, <1>17, <3>2, <3>3
    <3> QED  BY <1>17, <3>4
  <2>3. <<p, d>> \in removed
    BY <1>4, <1>17, <2>2
  <2> QED  BY <2>1, <2>3
<1>18. CurrentAreKnown'
  <2>1. SUFFICES ASSUME NEW p \in 1..MaxPlugs, NEW d \in Devices, DealsWith(manager', p, d),
                        plugged[d] = p, d \notin missed \cup lost, <<p, d>> \notin seen
                 PROVE  FALSE
    BY <1>2 DEF CurrentAreKnown, busVars
  <2>2. DealsWith(manager, p, d)
    BY <1>10, <2>1 DEF Leads
  <2>3. <<p, d>> \in known
    BY <2>1, <2>2 DEF CurrentAreKnown
  <2> QED  BY <1>17, <2>1, <2>3
<1>19. IncompleteHaveInfo'
  <2>1. SUFFICES ASSUME NEW i \in DOMAIN manager'.incomplete, NEW u,
                        u = manager'.incomplete[i], plugged[u.serial] = u.device,
                        u.serial \notin missed \cup lost, u.serial \notin unlisted',
                        ~HasInfo(manager', u.serial)
                 PROVE  FALSE
    BY <1>2 DEF IncompleteHaveInfo, busVars
  <2>2. PICK j \in DOMAIN manager.incomplete : manager.incomplete[j] = u
    BY <1>6, <1>7, <1>10, <2>1 DEF Remains
  <2>3. u \in UsbDevices /\ u.serial \in Devices /\ u.device \in 1..MaxPlugs
    BY <2>2, UsbDeviceFields DEF Consistent, Typed
  <2>4. Manages(manager, u) /\ DealsWith(manager, u.device, u.serial)
    BY <2>2, <2>3 DEF Manages, DealsWith
  <2>5. <<u.device, u.serial>> \in known
    BY <2>1, <2>3, <2>4 DEF CurrentAreKnown
  <2>6. HasInfo(manager, u.serial)
    BY <1>2, <2>1, <2>2 DEF IncompleteHaveInfo
  <2>7. PICK k \in DOMAIN manager.infos : manager.infos[k].usb.serial = u.serial
    BY <2>6 DEF HasInfo
  <2> DEFINE v == manager.infos[k].usb
  <2>8. v \in Listed(manager) /\ v.serial = u.serial
    BY <2>7 DEF Listed
  <2>9. v \notin Listed(manager')
    BY <2>1, <2>8 DEF Listed, HasInfo
  <2>10. v \in UsbDevices
    <3>1. manager.infos \in Seq(Infos)
      BY DEF Consistent, Typed
    <3>2. manager.infos[k] \in Infos
      BY <2>7, <3>1
    <3> QED  BY <3>2 DEF Infos
  <2>11. v.device \in 1..MaxPlugs /\ Manages(manager, v)
    BY <2>10, UsbDeviceFields DEF Manages
  <2> HIDE DEF v
  <2>12. plugged[v.serial] # None
    BY <2>1, <2>3, <2>8 DEF None
  <2>13. PICK p \in removed : p[1] = v.device
    <3> DEFINE dropped == {w \in Listed(manager) \ Listed(manager') :
                              plugged[w.serial] # None /\ w.device \notin {p[1] : p \in removed}}
    <3>1. {usb.serial : usb \in dropped} \subseteq unlisted'
      BY <1>2
    <3>2. SUFFICES ASSUME v.device \notin {p[1] : p \in removed} PROVE FALSE
      OBVIOUS
    <3>3. v \in dropped
      BY <2>8, <2>9, <2>12, <3>2
    <3> HIDE DEF dropped
    <3> QED  BY <2>1, <2>8, <3>1, <3>3
  <2>14. p \in known /\ p \in (1..MaxPlugs) \X Devices
    BY <1>3, <1>4
  <2>15. p = <<v.device, p[2]>> /\ p[2] \in Devices
    BY <2>13, <2>14
  <2>16. Met(v.device, p[2]) /\ Met(v.device, v.serial)
    BY <2>10, <2>11, <2>14, <2>15 DEF Met, DealsWith
  <2>17. p[2] = u.serial
    BY <2>3, <2>8, <2>11, <2>15, <2>16 DEF MetOnce
  <2>18. p = <<u.device, u.serial>>
    BY <2>5, <2>14, <2>17 DEF KnownOnce
  <2>19. p \in Present
    BY <2>1, <2>3, <2>18, PresentProperties DEF None
  <2>20. u.serial \in lost
    BY <2>17, <2>19
  <2> QED  BY <2>1, <2>20
<1> QED  BY <1>10, <1>11, <1>13, <1>16, <1>18, <1>19

-----------------------------------------------------------------------------
(* A host server that starts knows nothing. *)
LEMMA FreshConsistent ==
    /\ Consistent(Fresh) /\ Fresh.infos = <<>> /\ Fresh.incomplete = <<>>
    /\ \A p, d : ~DealsWith(Fresh, p, d)
<1>1. /\ Whole(Fresh) /\ Fresh.infos = <<>> /\ Fresh.incomplete = <<>> /\ Fresh.timers = 0
      /\ Fresh.tasks = <<>> /\ Fresh.conns = [c \in {} |-> 0]
      /\ Fresh.pool = [d \in Devices |-> None] /\ Fresh.sent = <<>>
  BY DEF Fresh, Whole
<1>2. ConnectionMap(Fresh.conns) /\ DOMAIN Fresh.conns = {}
  BY <1>1, FS_EmptySet DEF ConnectionMap
<1>3. DOMAIN Fresh.infos = {} /\ DOMAIN Fresh.incomplete = {} /\ DOMAIN Fresh.tasks = {}
  BY <1>1
<1>4. \A u : ~Manages(Fresh, u)
  BY <1>3 DEF Manages
<1>5. Typed(Fresh)
  BY <1>1, <1>2 DEF Typed, None
<1>6. PoolIsRight(Fresh) /\ TasksAreRight(Fresh) /\ Exclusive(Fresh)
  BY <1>1, <1>2, <1>3, <1>4 DEF PoolIsRight, TasksAreRight, Exclusive
<1>7. TimersSuffice(Fresh)
  BY <1>1 DEF TimersSuffice
<1>8. \A p, d : ~DealsWith(Fresh, p, d)
  BY <1>2, <1>4 DEF DealsWith
<1> QED  BY <1>1, <1>5, <1>6, <1>7, <1>8 DEF Consistent

(* A new host server starts, with nothing in its memory. *)
LEMMA HostRestartsStep == ASSUME IInv, HostRestarts PROVE IInv'
<1>1. /\ Commit(Fresh) /\ known' = {} /\ missed' = {} /\ unlisted' = {}
      /\ UNCHANGED busVars
  BY DEF HostRestarts
<1> DEFINE m == Fresh
<1>2. Consistent(m) /\ m.incomplete = <<>> /\ \A p, d : ~DealsWith(m, p, d)
  BY FreshConsistent
<1>3. Commit(m)
  BY <1>1
<1> HIDE DEF m
<1>4. Leads(manager, m, {})
  BY <1>2 DEF Leads
<1>5. /\ manager' = AtRest(m) /\ inbox' \in [Devices -> Seq(Requests)]
  BY <1>2, <1>3, CommitSettles DEF IInv
<1>6. /\ Consistent(manager') /\ Leads(m, manager', {}) /\ manager'.incomplete = <<>>
  BY <1>2, <1>5, AtRestConsistent
<1>7. \A p, d : ~DealsWith(manager', p, d)
  BY <1>2, <1>6 DEF Leads
<1>8. BusTyped' /\ AddressesAreUnique' /\ KnownOnce'
  BY <1>1, <1>5 DEF IInv, BusTyped, AddressesAreUnique, KnownOnce, busVars
<1>9. \A p, d : Met(p, d)' => Met(p, d)
  BY <1>1, <1>7 DEF Met, busVars
<1>10. MetOnce'
  BY <1>1, <1>9 DEF IInv, MetOnce, busVars
<1>11. CurrentAreKnown'
  BY <1>7 DEF CurrentAreKnown
<1>12. IncompleteHaveInfo'
  BY <1>6 DEF IncompleteHaveInfo
<1> QED  BY <1>6, <1>8, <1>10, <1>11, <1>12 DEF IInv

(* A device that is plugged in gets a number that nobody knows. *)
LEMMA PlugInStep == ASSUME IInv, PlugIn PROVE IInv'
<1>1. PICK d \in Devices, a \in 1..nextPlug :
          /\ plugged[d] = None /\ nextPlug <= MaxPlugs
          /\ plugged' = [plugged EXCEPT ![d] = nextPlug]
          /\ a \notin Addresses(Present)
          /\ address' = [address EXCEPT ![nextPlug] = a]
          /\ nextPlug' = nextPlug + 1
          /\ UNCHANGED <<config, resetDue, inbox, known, manager, missed, unlisted>>
  BY DEF PlugIn
<1> USE DEF IInv
<1>2. nextPlug \in 1..MaxPlugs /\ a \in 1..MaxPlugs /\ MaxPlugs \in Nat
  BY <1>1, BoundsAssumption DEF BusTyped
<1>3. BusTyped'
  BY <1>1, <1>2 DEF BusTyped
<1>4. \A e \in Devices : plugged[e] \in 0..MaxPlugs /\ plugged[e] < nextPlug
  <2>1. SUFFICES ASSUME NEW e \in Devices, plugged[e] # None
                 PROVE  plugged[e] \in 0..MaxPlugs /\ plugged[e] < nextPlug
    BY <1>2 DEF BusTyped, None
  <2>2. plugged[e] \in 1..MaxPlugs /\ Met(plugged[e], e)
    BY <2>1 DEF BusTyped, Met, None
  <2> QED  BY <2>2 DEF MetOnce
<1>5. /\ plugged'[d] = nextPlug /\ \A e \in Devices \ {d} : plugged'[e] = plugged[e]
      /\ address'[nextPlug] = a
      /\ \A p \in (1..MaxPlugs) \ {nextPlug} : address'[p] = address[p]
  BY <1>1, <1>2 DEF BusTyped
<1>6. AddressesAreUnique'
  <2>1. ASSUME NEW e \in Devices \ {d}, plugged[e] # None
        PROVE  address'[plugged'[e]] = address[plugged[e]] /\ address[plugged[e]] # a
    <3>1. plugged[e] \in (1..MaxPlugs) \ {nextPlug} /\ plugged'[e] = plugged[e]
      BY <1>2, <1>4, <1>5, <2>1 DEF None
    <3>2. <<plugged[e], e>> \in Present
      BY <2>1, PresentProperties
    <3>3. address[plugged[e]] \in Addresses(Present)
      BY <3>2 DEF Addresses
    <3> QED  BY <1>1, <1>5, <3>1, <3>3
  <2>2. address'[plugged'[d]] = a
    BY <1>5
  <2>3. \A e \in Devices \ {d} : plugged'[e] = plugged[e]
    BY <1>5
  <2> QED  BY <2>1, <2>2, <2>3 DEF AddressesAreUnique
<1>7. \A p \in 1..MaxPlugs, e \in Devices : Met(p, e)' => Met(p, e) \/ (p = nextPlug /\ e = d)
  BY <1>1, <1>5 DEF Met
<1>8. \A e \in Devices : ~Met(nextPlug, e)
  BY <1>2 DEF MetOnce
<1>9. MetOnce'
  <2>1. SUFFICES ASSUME NEW p \in 1..MaxPlugs, NEW e \in Devices, Met(p, e)'
                 PROVE  /\ p < nextPlug'
                        /\ plugged'[e] # None => p <= plugged'[e]
                        /\ \A f \in Devices : Met(p, f)' => f = e
    BY DEF MetOnce
  <2>2. CASE p = nextPlug
    <3>1. \A f \in Devices : Met(p, f)' => f = d
      BY <1>7, <1>8, <2>2
    <3>2. e = d
      BY <2>1, <3>1
    <3> QED  BY <1>1, <1>2, <1>5, <2>2, <3>1, <3>2
  <2>3. CASE p # nextPlug
    <3>1. Met(p, e) /\ \A f \in Devices : Met(p, f)' => Met(p, f)
      BY <1>7, <2>1, <2>3
    <3>2. p < nextPlug /\ (plugged[e] # None => p <= plugged[e])
          /\ \A f \in Devices : Met(p, f) => f = e
      BY <3>1 DEF MetOnce
    <3>3. plugged'[e] = plugged[e] \/ plugged'[e] = nextPlug
      BY <1>5
    <3> QED  BY <1>1, <1>2, <3>1, <3>2, <3>3
  <2> QED  BY <2>2, <2>3
<1>10. KnownOnce'
  BY <1>1 DEF KnownOnce
<1>11. \A p \in 1..MaxPlugs, e \in Devices : DealsWith(manager, p, e) /\ plugged'[e] = p
           => plugged[e] = p
  <2>1. SUFFICES ASSUME NEW p \in 1..MaxPlugs, NEW e \in Devices, DealsWith(manager, p, e),
                        plugged'[e] = p
                 PROVE  plugged[e] = p
    OBVIOUS
  <2>2. p # nextPlug
    BY <1>8, <2>1 DEF Met
  <2> QED  BY <1>5, <2>1, <2>2
<1>12. CurrentAreKnown'
  BY <1>1, <1>11 DEF CurrentAreKnown
<1>13. IncompleteHaveInfo'
  <2>1. SUFFICES ASSUME NEW i \in DOMAIN manager.incomplete, NEW u,
                        u = manager.incomplete[i], plugged'[u.serial] = u.device,
                        u.serial \notin missed \cup unlisted
                 PROVE  HasInfo(manager, u.serial)
    BY <1>1 DEF IncompleteHaveInfo
  <2>2. u \in UsbDevices /\ u.serial \in Devices /\ u.device \in 1..MaxPlugs
    BY <2>1, UsbDeviceFields DEF Consistent, Typed
  <2>3. DealsWith(manager, u.device, u.serial)
    BY <2>1, <2>2 DEF Manages, DealsWith
  <2> QED  BY <1>11, <2>1, <2>2, <2>3 DEF IncompleteHaveInfo
<1> QED  BY <1>1, <1>3, <1>6, <1>9, <1>10, <1>12, <1>13

(* What is unplugged is not there, whatever polls have missed. *)
LEMMA UnplugStep == ASSUME IInv, Unplug PROVE IInv'
<1>1. PICK d \in Devices :
          /\ plugged' = [plugged EXCEPT ![d] = None]
          /\ resetDue' = [resetDue EXCEPT ![d] = TRUE]
          /\ \E n \in 0..Len(inbox[d]) : inbox' = [inbox EXCEPT ![d] = SubSeq(@, 1, n)]
          /\ missed' = missed \ {d} /\ unlisted' = unlisted \ {d}
          /\ UNCHANGED <<nextPlug, address, config, known, manager>>
  BY DEF Unplug
<1> USE DEF IInv
<1>2. inbox' \in [Devices -> Seq(Requests)]
  <2>1. PICK n \in 0..Len(inbox[d]) : inbox' = [inbox EXCEPT ![d] = SubSeq(@, 1, n)]
    BY <1>1
  <2>2. inbox[d] \in Seq(Requests)
    BY DEF BusTyped
  <2>3. SubSeq(inbox[d], 1, n) \in Seq(Requests)
    BY <2>1, <2>2, SubSeqProperties
  <2> QED  BY <2>1, <2>3 DEF BusTyped
<1>3. /\ plugged' \in [Devices -> 0..MaxPlugs] /\ plugged'[d] = None
      /\ \A e \in Devices \ {d} : plugged'[e] = plugged[e]
  BY <1>1, BoundsAssumption DEF BusTyped, None
<1>4. BusTyped'
  BY <1>1, <1>2, <1>3 DEF BusTyped
<1>5. AddressesAreUnique' /\ KnownOnce'
  BY <1>1, <1>3 DEF AddressesAreUnique, KnownOnce
<1>6. \A p \in 1..MaxPlugs, e \in Devices : Met(p, e)' => Met(p, e)
  BY <1>1, <1>3 DEF Met, None
<1>7. MetOnce'
  BY <1>1, <1>3, <1>6 DEF MetOnce
<1>8. CurrentAreKnown'
  BY <1>1, <1>3 DEF CurrentAreKnown, None
<1>9. IncompleteHaveInfo'
  <2>1. SUFFICES ASSUME NEW i \in DOMAIN manager.incomplete, NEW u,
                        u = manager.incomplete[i], plugged'[u.serial] = u.device,
                        u.serial \notin (missed \cup unlisted) \ {d}
                 PROVE  HasInfo(manager, u.serial)
    BY <1>1 DEF IncompleteHaveInfo
  <2>2. u \in UsbDevices /\ u.serial \in Devices /\ u.device \in 1..MaxPlugs
    BY <2>1, UsbDeviceFields DEF Consistent, Typed
  <2>3. u.serial # d /\ plugged[u.serial] = u.device
    BY <1>3, <2>1, <2>2 DEF None
  <2> QED  BY <2>1, <2>3 DEF IncompleteHaveInfo
<1> QED  BY <1>1, <1>4, <1>5, <1>7, <1>8, <1>9

(* A device is suspended. *)
LEMMA SuspendStep == ASSUME IInv, Suspend PROVE IInv'
<1>1. /\ resetDue' \in [Devices -> BOOLEAN]
      /\ UNCHANGED <<plugged, nextPlug, address, config, inbox, known, manager, missed, unlisted>>
  BY DEF IInv, BusTyped, Suspend
<1>2. BusTyped'
  BY <1>1 DEF IInv, BusTyped
<1>3. Consistent(manager') /\ Leads(manager, manager', {}) /\ KeepsInfos(manager, manager')
  BY <1>1 DEF IInv, Leads, KeepsInfos
<1> QED  BY <1>1, <1>2, <1>3, QuietStep

(* The user resets the network configuration of a device. *)
LEMMA ResetStep == ASSUME IInv, Reset PROVE IInv'
<1>1. /\ resetDue' \in [Devices -> BOOLEAN] /\ config' \in [Devices -> Subnets \cup {None}]
      /\ UNCHANGED <<plugged, nextPlug, address, inbox, known, manager, missed, unlisted>>
  BY DEF IInv, BusTyped, Reset
<1>2. BusTyped'
  BY <1>1 DEF IInv, BusTyped
<1>3. Consistent(manager') /\ Leads(manager, manager', {}) /\ KeepsInfos(manager, manager')
  BY <1>1 DEF IInv, Leads, KeepsInfos
<1> QED  BY <1>1, <1>2, <1>3, QuietStep

(* Of a manager with one task: whether that waits for the answer to r. *)
LEMMA WaitsAlone ==
    ASSUME NEW t, NEW r
    PROVE  Waits([tasks |-> <<t>>], r) <=> t.stage = "asked" /\ t.conn = r.conn /\ t.kind = r.kind
<1>1. [tasks |-> <<t>>].tasks = <<t>> /\ DOMAIN <<t>> = {1} /\ <<t>>[1] = t
  OBVIOUS
<1> QED  BY <1>1 DEF Waits

(* The answers of a device to a request, each of the request's kind. *)
Answer(t, reply) ==
    [t EXCEPT !.stage = "answered", !.result = reply.result, !.subnet = reply.subnet]

(* A task that is answered is a task again, of the same device and connection. *)
LEMMA AnswerIsRight ==
    ASSUME NEW t \in Tasks, NEW reply, reply.subnet \in Subnets \cup {None},
           reply.result \in IF t.kind = "fetch" THEN FetchResults ELSE ConfigureResults
    PROVE  LET v == Answer(t, reply) IN
           /\ v \in Tasks /\ v.stage = "answered" /\ v.usb = t.usb /\ v.conn = t.conn
           /\ v.kind = t.kind /\ v.result = reply.result /\ v.subnet = reply.subnet
<1>1. t = [kind |-> t.kind, usb |-> t.usb, conn |-> t.conn, stage |-> t.stage,
           result |-> t.result, subnet |-> t.subnet]
  BY DEF Tasks
<1>2. Answer(t, reply) = [kind |-> t.kind, usb |-> t.usb, conn |-> t.conn,
                          stage |-> "answered", result |-> reply.result,
                          subnet |-> reply.subnet]
  <2> DEFINE a == [t EXCEPT !.stage = "answered"]
             b == [a EXCEPT !.result = reply.result]
             c == [b EXCEPT !.subnet = reply.subnet]
  <2>1. a = [kind |-> t.kind, usb |-> t.usb, conn |-> t.conn, stage |-> "answered",
             result |-> t.result, subnet |-> t.subnet]
    BY <1>1
  <2> HIDE DEF a
  <2>2. b = [kind |-> t.kind, usb |-> t.usb, conn |-> t.conn, stage |-> "answered",
             result |-> reply.result, subnet |-> t.subnet]
    BY <2>1
  <2> HIDE DEF b
  <2>3. c = [kind |-> t.kind, usb |-> t.usb, conn |-> t.conn, stage |-> "answered",
             result |-> reply.result, subnet |-> reply.subnet]
    BY <2>2
  <2> QED  BY <2>3 DEF Answer, a, b
<1>3. /\ t.kind \in {"configure", "fetch", "none"} /\ t.usb \in UsbDevices /\ t.conn \in Nat
      /\ reply.result \in FetchResults \cup ConfigureResults
  BY DEF Tasks
<1> QED  BY <1>2, <1>3 DEF Tasks

(* What the devices answer is of the type that the managers read. *)
LEMMA RepliesAreRight ==
    ASSUME BusTyped, NEW d \in Devices, NEW r \in Requests,
           NEW reply \in IF r.kind = "configure" THEN SetReplies(d, r.subnet) ELSE FetchReplies(d)
    PROVE  /\ reply.subnet \in Subnets \cup {None} /\ reply.config \in Subnets \cup {None}
           /\ reply.resetDue \in BOOLEAN
           /\ reply.result \in IF r.kind = "fetch" THEN FetchResults ELSE ConfigureResults
<1>1. /\ config[d] \in Subnets \cup {None} /\ resetDue[d] \in BOOLEAN
      /\ r.subnet \in Subnets \cup {None} /\ r.kind \in {"configure", "fetch"}
  BY DEF BusTyped, Requests
<1>2. CASE r.kind = "configure"
  <2>1. reply \in SetReplies(d, r.subnet)
    BY <1>2
  <2>2. CASE config[d] = None
    <3>1. \/ reply = [result |-> "Success", subnet |-> None, config |-> r.subnet,
                      resetDue |-> resetDue[d]]
          \/ reply = [result |-> "Failure", subnet |-> None, config |-> None,
                      resetDue |-> resetDue[d]]
      BY <2>1, <2>2 DEF SetReplies
    <3>2. /\ reply.subnet = None /\ reply.config \in {r.subnet, None}
          /\ reply.resetDue = resetDue[d] /\ reply.result \in {"Success", "Failure"}
      BY <3>1
    <3>3. r.kind # "fetch" /\ reply.result \in ConfigureResults
      BY <1>2, <3>2 DEF ConfigureResults
    <3> QED  BY <1>1, <3>2, <3>3
  <2>3. CASE config[d] # None
    <3>1. \/ reply = [result |-> "AlreadySet", subnet |-> config[d], config |-> config[d],
                      resetDue |-> resetDue[d]]
          \/ reply = [result |-> "AlreadySet", subnet |-> None, config |-> None,
                      resetDue |-> FALSE]
      BY <2>1, <2>3 DEF SetReplies
    <3>2. /\ reply.subnet \in {config[d], None} /\ reply.config \in {config[d], None}
          /\ reply.resetDue \in {resetDue[d], FALSE} /\ reply.result = "AlreadySet"
      <4>1. CASE reply = [result |-> "AlreadySet", subnet |-> config[d],
                          config |-> config[d], resetDue |-> resetDue[d]]
        <5>1. /\ reply.subnet = config[d] /\ reply.config = config[d]
              /\ reply.resetDue = resetDue[d] /\ reply.result = "AlreadySet"
          BY <4>1
        <5> QED  BY <5>1
      <4>2. CASE reply = [result |-> "AlreadySet", subnet |-> None, config |-> None,
                          resetDue |-> FALSE]
        <5>1. /\ reply.subnet = None /\ reply.config = None
              /\ ~reply.resetDue /\ reply.resetDue = FALSE /\ reply.result = "AlreadySet"
          BY <4>2
        <5> QED  BY <5>1
      <4> QED  BY <3>1, <4>1, <4>2
    <3>3. r.kind # "fetch" /\ reply.result \in ConfigureResults
      BY <1>2, <3>2 DEF ConfigureResults
    <3> QED  BY <1>1, <3>2, <3>3
  <2> QED  BY <2>2, <2>3
<1>3. CASE r.kind = "fetch"
  BY <1>1, <1>3 DEF FetchReplies, FetchResults, None
<1> QED  BY <1>1, <1>2, <1>3

(* The device answers, and the task that asked hears it, if it still can. *)
LEMMA DeviceHandlesStep == ASSUME IInv, DeviceHandles PROVE IInv'
<1> USE DEF IInv
<1>1. PICK d \in Devices :
          /\ inbox[d] # <<>>
          /\ LET r == Head(inbox[d])
                 asking == {i \in DOMAIN manager.tasks : Waits([tasks |-> <<manager.tasks[i]>>], r)}
                 heard == /\ asking # {}
                          /\ manager.conns[r.conn].usb.device = plugged[d]
             IN \E reply \in IF r.kind = "configure" THEN SetReplies(d, r.subnet)
                                                    ELSE FetchReplies(d) :
                  /\ config' = [config EXCEPT ![d] = reply.config]
                  /\ resetDue' = [resetDue EXCEPT ![d] = reply.resetDue]
                  /\ manager' = IF ~heard THEN manager
                       ELSE [manager EXCEPT !.tasks[Min(asking)] =
                               Answer(manager.tasks[Min(asking)], reply)]
          /\ inbox' = [inbox EXCEPT ![d] = Tail(@)]
          /\ UNCHANGED <<plugged, nextPlug, address, known, missed, unlisted>>
  BY Zenon DEF DeviceHandles, Answer
<1> DEFINE r == Head(inbox[d])
           asking == {i \in DOMAIN manager.tasks : Waits([tasks |-> <<manager.tasks[i]>>], r)}
           heard == /\ asking # {}
                    /\ manager.conns[r.conn].usb.device = plugged[d]
           i == Min(asking)
           t == manager.tasks[i]
<1>2. PICK reply \in IF r.kind = "configure" THEN SetReplies(d, r.subnet) ELSE FetchReplies(d) :
          /\ config' = [config EXCEPT ![d] = reply.config]
          /\ resetDue' = [resetDue EXCEPT ![d] = reply.resetDue]
          /\ manager' = IF ~heard THEN manager ELSE [manager EXCEPT !.tasks[i] = Answer(t, reply)]
  BY <1>1
<1>3. /\ inbox[d] \in Seq(Requests) /\ r \in Requests
      /\ inbox' \in [Devices -> Seq(Requests)]
  BY <1>1, HeadTailProperties DEF BusTyped
<1>4. /\ reply.subnet \in Subnets \cup {None} /\ reply.config \in Subnets \cup {None}
      /\ reply.resetDue \in BOOLEAN
      /\ reply.result \in IF r.kind = "fetch" THEN FetchResults ELSE ConfigureResults
  <2> HIDE DEF r
  <2> QED  BY <1>2, <1>3, RepliesAreRight
<1>5. BusTyped'
  BY <1>1, <1>2, <1>3, <1>4 DEF BusTyped
<1>6. ASSUME asking # {}
      PROVE  i \in DOMAIN manager.tasks /\ t.stage = "asked" /\ t.kind = r.kind
  <2>1. manager.tasks \in Seq(Tasks)
    BY DEF Consistent, Typed
  <2>2. asking \in SUBSET Nat /\ \A j \in asking :
            /\ j \in DOMAIN manager.tasks
            /\ manager.tasks[j].stage = "asked" /\ manager.tasks[j].kind = r.kind
    <3> HIDE DEF r
    <3> QED  BY <2>1, WaitsAlone
  <2> HIDE DEF asking
  <2>3. i \in asking
    BY <1>6, <2>2, SmallestNumber
  <2> QED  BY <2>2, <2>3
<1> HIDE DEF r, asking
<1>7. Consistent(manager') /\ Leads(manager, manager', {}) /\ KeepsInfos(manager, manager')
  <2>1. CASE ~heard
    <3>1. manager' = manager
      BY <1>2, <2>1
    <3> QED  BY <3>1 DEF Leads, KeepsInfos
  <2>2. CASE heard
    <3> DEFINE v == Answer(t, reply)
    <3>1. manager' = [manager EXCEPT !.tasks[i] = v]
      BY <1>2, <2>2
    <3>2. i \in DOMAIN manager.tasks /\ t.stage = "asked" /\ t.kind = r.kind
      BY <1>6, <2>2
    <3> HIDE DEF i
    <3>3. /\ t \in Tasks /\ TaskIsRight(manager, t) /\ Fits(manager, t.usb)
          /\ DealsWith(manager, t.usb.device, t.usb.serial)
      BY <3>2, TaskFields
    <3> HIDE DEF t
    <3>4. /\ v \in Tasks /\ v.stage = "answered" /\ v.usb = t.usb /\ v.conn = t.conn
          /\ v.kind = t.kind /\ v.result = reply.result
      BY <1>4, <3>2, <3>3, AnswerIsRight
    <3> HIDE DEF v
    <3>5. TaskIsRight(manager, v)
      BY <1>4, <3>2, <3>3, <3>4 DEF TaskIsRight
    <3>6. /\ Consistent(manager')
          /\ Leads(manager, manager', {<<t.usb.device, t.usb.serial>>})
          /\ manager'.infos = manager.infos /\ manager'.incomplete = manager.incomplete
      BY <3>1, <3>2, <3>3, <3>4, <3>5, TaskReplaced
    <3> QED  BY <3>3, <3>6, LeadsToNothingNew, KeepsSameInfos
  <2> QED  BY <2>1, <2>2
<1> QED  BY <1>1, <1>5, <1>7, QuietStep

-----------------------------------------------------------------------------
(* No device is known, and none is plugged in, at first. *)
LEMMA InitIInv == Init => IInv
<1> SUFFICES ASSUME Init PROVE IInv
  OBVIOUS
<1>1. /\ plugged = [d \in Devices |-> None] /\ nextPlug = 1
      /\ address = [p \in 1..MaxPlugs |-> None]
      /\ config = [d \in Devices |-> None] /\ resetDue = [d \in Devices |-> FALSE]
      /\ inbox = [d \in Devices |-> <<>>] /\ known = {} /\ manager = Fresh
  BY DEF Init
<1>2. Consistent(manager) /\ manager.incomplete = <<>> /\ \A p, d : ~DealsWith(manager, p, d)
  BY <1>1, FreshConsistent
<1>3. BusTyped
  BY <1>1, BoundsAssumption DEF BusTyped, None
<1>4. AddressesAreUnique /\ KnownOnce
  BY <1>1 DEF AddressesAreUnique, KnownOnce
<1>5. \A p \in 1..MaxPlugs, d \in Devices : ~Met(p, d)
  BY <1>1, <1>2 DEF Met, None
<1>6. MetOnce /\ CurrentAreKnown
  BY <1>2, <1>5 DEF MetOnce, CurrentAreKnown
<1>7. IncompleteHaveInfo
  BY <1>2 DEF IncompleteHaveInfo
<1> QED  BY <1>2, <1>3, <1>4, <1>6, <1>7 DEF IInv

(* The invariant of the device management: whatever is plugged in, unplugged and
   polled when, and whatever the connections and the devices' threads do. *)
THEOREM Invariance == Spec => []IInv
<1>1. IInv /\ [Next]_vars => IInv'
  <2> SUFFICES ASSUME IInv, [Next]_vars PROVE IInv'
    OBVIOUS
  <2>1. CASE UNCHANGED vars
    <3>1. UNCHANGED <<plugged, nextPlug, address, config, resetDue, inbox, known, manager,
                      missed, unlisted>>
      BY <2>1 DEF vars
    <3>2. BusTyped'
      BY <3>1 DEF IInv, BusTyped
    <3>3. Consistent(manager') /\ Leads(manager, manager', {}) /\ KeepsInfos(manager, manager')
      BY <3>1 DEF IInv, Leads, KeepsInfos
    <3> QED  BY <3>1, <3>2, <3>3, QuietStep
  <2> QED  BY <2>1, PollStep, HandleReplyStep, ConnectionLostStep, ReconnectedStep,
              TimerFiresStep, TaskDeletedStep, HostRestartsStep, PlugInStep, UnplugStep,
              SuspendStep, ResetStep, DeviceHandlesStep DEF Next
<1> QED  BY <1>1, InitIInv, PTL DEF Spec

(* Every variable keeps its type, and a task that waits has a connection. *)
THEOREM TypeCorrect == Spec => []TypeOK
<1>1. IInv => TypeOK
  <2> SUFFICES ASSUME IInv PROVE TypeOK
    OBVIOUS
  <2>1. Consistent(manager) /\ Typed(manager)
    BY DEF IInv, Consistent
  <2>2. ASSUME NEW i \in DOMAIN manager.tasks
        PROVE  LET t == manager.tasks[i] IN
               /\ t.kind \in {"configure", "fetch", "none"} /\ t.usb \in UsbDevices
               /\ t.stage \in {"asked", "answered", "done"}
               /\ t.stage # "done" => t.conn \in DOMAIN manager.conns
    BY <2>1, TaskFields DEF TaskIsRight
  <2>3. \A i \in DOMAIN manager.incomplete : manager.incomplete[i] \in UsbDevices
    BY <2>1 DEF Typed
  <2>4. \A i \in DOMAIN manager.infos : manager.infos[i].usb \in UsbDevices
    <3>1. \A i \in DOMAIN manager.infos : manager.infos[i] \in Infos
      BY <2>1 DEF Typed
    <3> QED  BY <3>1 DEF Infos
  <2> QED  BY <2>1, <2>2, <2>3, <2>4 DEF TypeOK, IInv, BusTyped, Typed
<1> QED  BY <1>1, Invariance, PTL

(* There is never more than one connection to a device (connectionpool.cpp:42). *)
THEOREM ConnectionsAreUnique == Spec => []OneConnectionPerDevice
<1>1. IInv => OneConnectionPerDevice
  BY DEF IInv, Consistent, PoolIsRight, OneConnectionPerDevice
<1> QED  BY <1>1, Invariance, PTL

(* Nobody holds a reservation of another device's subnet (subnet.cpp:96-106). *)
THEOREM SubnetsHaveOneHolder == Spec => []ReservationsAreExclusive
<1>1. IInv => ReservationsAreExclusive
  <2> SUFFICES ASSUME IInv, NEW x \in HeldBy(manager), NEW y \in HeldBy(manager),
                      x.reservation # None, x.reservation = y.reservation
               PROVE  x.serial = y.serial /\ x.device = y.device
    BY DEF ReservationsAreExclusive
  <2>1. Consistent(manager) /\ Typed(manager)
    BY DEF IInv, Consistent
  <2>2. \A u \in HeldBy(manager) : Manages(manager, u)
    BY DEF HeldBy, Manages
  <2>3. \A u : Manages(manager, u) => u \in UsbDevices
    <3>1. \A i \in DOMAIN manager.tasks : manager.tasks[i].usb \in UsbDevices
      BY <2>1, TaskFields
    <3>2. \A i \in DOMAIN manager.incomplete : manager.incomplete[i] \in UsbDevices
      BY <2>1 DEF Typed
    <3>3. \A i \in DOMAIN manager.infos : manager.infos[i].usb \in UsbDevices
      <4>1. \A i \in DOMAIN manager.infos : manager.infos[i] \in Infos
        BY <2>1 DEF Typed
      <4> QED  BY <4>1 DEF Infos
    <3> QED  BY <3>1, <3>2, <3>3 DEF Manages
  <2>4. Compatible(x, y)
    BY <2>1, <2>2, <2>3 DEF Consistent, Exclusive
  <2> QED  BY <2>4 DEF Compatible, SamePlug
<1> QED  BY <1>1, Invariance, PTL

(* Every incomplete device will be asked again, and is listed as long as nothing was
   taken off the list for another (devicemanager.cpp:115-143). *)
THEOREM IncompleteGoOn == Spec => []IncompleteAreAskedAgain
<1>1. IInv => IncompleteAreAskedAgain
  BY DEF IInv, Consistent, TimersSuffice, IncompleteHaveInfo, HasInfo, IncompleteAreAskedAgain
<1> QED  BY <1>1, Invariance, PTL

-----------------------------------------------------------------------------
(***************************************************************************)
(* A proof that a listed device uses the subnet that is reserved for it,   *)
(* or none: the promise that DeviceManager, NetworkConfigurator and the    *)
(* device keep together, over requests that outlive their senders.         *)
(*                                                                         *)
(* SubnetsAreTrue strengthens it to every stage of a configuration: the    *)
(* task that asks (AskedIsLast), the one that has the answer               *)
(* (AnsweredIsTrue), and every copy of the device that comes of it         *)
(* (ConfiguredIsTrue).  An event of the host is looked at once for all:    *)
(* Traced(m, n, g) says where the tasks of its outcome n come from, and    *)
(* TracedKeepsSubnets that this is enough.                                 *)
(***************************************************************************)
(* A configurator, or a fetcher, that still waits or has its answer. *)
Pending(t) == t.kind = "configure" /\ t.stage # "done"

Fetching(t) == t.kind = "fetch" /\ t.stage # "done"

(* The copies of a device that come of a successful configuration. *)
Configured(m, u) ==
    \/ \E i \in DOMAIN m.tasks : Fetching(m.tasks[i]) /\ m.tasks[i].usb = u
    \/ \E i \in DOMAIN m.incomplete : m.incomplete[i] = u
    \/ \E i \in DOMAIN m.infos : m.infos[i].usb = u

(* The libusb device u is plugged in, and each poll since has seen it. *)
Current(u) == plugged[u.serial] = u.device /\ u.serial \notin missed

NoConfigure(q) == \A k \in DOMAIN q : q[k].kind # "configure"

(* A device is configured by one task, and not again afterwards. *)
PendingOnce(m) ==
    \A i \in DOMAIN m.tasks : Pending(m.tasks[i]) /\ Current(m.tasks[i].usb) =>
        /\ \A j \in DOMAIN m.tasks :
              Pending(m.tasks[j]) /\ SamePlug(m.tasks[j].usb, m.tasks[i].usb) => j = i
        /\ \A v \in UsbDevices : Configured(m, v) => ~SamePlug(v, m.tasks[i].usb)

(* A request whose sender may still wait came through a connection of the device. *)
RequestsAreRight(m, boxes) ==
    \A d \in Devices : \A k \in DOMAIN boxes[d] :
        boxes[d][k].conn # None =>
            /\ boxes[d][k].conn \in DOMAIN m.conns
            /\ m.conns[boxes[d][k].conn].usb.serial = d

(* Position k of a device's inbox is the last that can set its subnet, to s. *)
SetsLast(q, k, s) ==
    /\ q[k].subnet = s
    /\ \A l \in DOMAIN q : l > k => q[l].kind # "configure"

AskedIsLast(m, boxes) ==
    \A i \in DOMAIN m.tasks :
        LET t == m.tasks[i]
            q == boxes[t.usb.serial]
        IN  Pending(t) /\ t.stage = "asked" /\ Current(t.usb)
                /\ m.conns[t.conn].usb.device = t.usb.device =>
              \A k \in DOMAIN q : q[k].kind = "configure" /\ q[k].conn = t.conn =>
                  SetsLast(q, k, t.usb.reservation)

(* The device as its task has configured it. *)
Outcome(t) ==
    IF t.result = "Success" THEN t.usb ELSE [t.usb EXCEPT !.reservation = t.subnet]

Answered(t) == Pending(t) /\ t.stage = "answered" /\ t.result # "Failure"

(* What a device that is there and has been configured as u uses. *)
Settles(u, boxes) ==
    /\ NoConfigure(boxes[u.serial])
    /\ config[u.serial] \in {None, u.reservation}

AnsweredIsTrue(m, boxes) ==
    \A i \in DOMAIN m.tasks :
        Answered(m.tasks[i]) /\ Current(m.tasks[i].usb) => Settles(Outcome(m.tasks[i]), boxes)

ConfiguredIsTrue(m, boxes) ==
    \A u \in UsbDevices : Configured(m, u) /\ Current(u) => Settles(u, boxes)

SubnetsAreTrue ==
    /\ manager.sent = <<>>
    /\ PendingOnce(manager) /\ RequestsAreRight(manager, inbox)
    /\ AskedIsLast(manager, inbox) /\ AnsweredIsTrue(manager, inbox)
    /\ ConfiguredIsTrue(manager, inbox)
-----------------------------------------------------------------------------
(* The requests that were in a device's inbox q are left at their places in b. *)
Leaves(m, q, b) ==
    /\ DOMAIN q \subseteq DOMAIN b
    /\ \A k \in DOMAIN q :
          /\ b[k].kind = q[k].kind /\ b[k].subnet = q[k].subnet
          /\ b[k].conn # None => b[k].conn = q[k].conn /\ Waits(m, q[k])

(* The others are what an event has sent to d, once each: that at k, at h[k]. *)
Adds(m, d, q, b, h) ==
    /\ \A k \in DOMAIN b \ DOMAIN q : h[k] \in Mine(m, d) /\ b[k] = m.sent[h[k]]
    /\ \A k, l \in DOMAIN b \ DOMAIN q : h[k] = h[l] => k = l

(* What Commit does to the inbox of a device. *)
LEMMA CommitFills ==
    ASSUME NEW m, Consistent(m), BusTyped, Commit(m), NEW d \in Devices
    PROVE  /\ inbox'[d] \in Seq(Requests)
           /\ Leaves(m, inbox[d], inbox'[d])
           /\ \E h : Adds(m, d, inbox[d], inbox'[d], h)
<1> DEFINE q == inbox[d]
           b == inbox'[d]
           S == Mine(m, d)
           x == Left(m, d)
           y == KeepAt(m.sent, S)
           h == [k \in Nat |-> Nth(S, k - Len(q))]
<1>1. b = x \o y /\ b \in Seq(Requests)
  BY CommitSettles
<1>2. q \in Seq(Requests) /\ m.sent \in Seq(Requests) /\ S \in SUBSET DOMAIN m.sent
  BY DEF BusTyped, Consistent, Typed, Mine
<1>3. Len(q) \in Nat /\ DOMAIN q = 1..Len(q)
  BY <1>2
<1>4. IsFiniteSet(S) /\ S \in SUBSET Nat /\ Cardinality(S) \in Nat
  <2>1. DOMAIN m.sent = 1..Len(m.sent) /\ Len(m.sent) \in Nat
    BY <1>2
  <2>2. IsFiniteSet(1..Len(m.sent))
    BY <2>1, FS_Interval
  <2> QED  BY <1>2, <2>1, <2>2, FS_Subset, FS_CardinalityType
<1>5. y \in Seq(Requests) /\ Len(y) = Cardinality(S)
      /\ \A k \in 1..Cardinality(S) : y[k] = m.sent[Nth(S, k)]
  <2>1. y \in Seq(Requests)
    BY <1>2, KeepAtKeeps
  <2>2. DOMAIN y = 1..Cardinality(S) /\ \A k \in 1..Cardinality(S) : y[k] = m.sent[Nth(S, k)]
    BY DEF KeepAt
  <2> HIDE DEF y
  <2>3. DOMAIN y = 1..Len(y) /\ Len(y) \in Nat
    BY <2>1
  <2>4. Len(y) = Cardinality(S)
    <3> DEFINE N == Cardinality(S)
    <3> HIDE DEF S
    <3>1. 1..Len(y) = 1..N /\ Len(y) \in Nat /\ N \in Nat
      BY <1>4, <2>2, <2>3
    <3> HIDE DEF N
    <3>2. Len(y) = N
      BY <3>1
    <3> QED  BY <3>2 DEF N
  <2> QED  BY <2>1, <2>2, <2>4
<1>6. \A r \in Requests : /\ [r EXCEPT !.conn = None] \in Requests
                          /\ [r EXCEPT !.conn = None].conn = None
                          /\ [r EXCEPT !.conn = None].kind = r.kind
                          /\ [r EXCEPT !.conn = None].subnet = r.subnet
  BY DEF Requests, None
<1>7. /\ x \in Seq(Requests) /\ Len(x) = Len(q)
      /\ \A k \in 1..Len(q) : x[k] = IF Waits(m, q[k]) THEN q[k] ELSE [q[k] EXCEPT !.conn = None]
  <2>1. x \in [1..Len(q) -> Requests]
    BY <1>2, <1>3, <1>6 DEF Left
  <2> QED  BY <1>3, <2>1, SeqDef DEF Left
<1> HIDE DEF q, b, x, y, S
<1>8. /\ Len(b) = Len(q) + Cardinality(S)
      /\ \A k \in 1..Len(b) : b[k] = IF k <= Len(q) THEN x[k] ELSE y[k - Len(q)]
  <2>1. x \in Seq(Requests) /\ y \in Seq(Requests)
    BY <1>5, <1>7
  <2>2. Len(x \o y) = Len(x) + Len(y)
        /\ \A k \in 1..(Len(x) + Len(y)) : (x \o y)[k] = IF k <= Len(x) THEN x[k] ELSE y[k - Len(x)]
    BY <2>1, ConcatProperties
  <2> QED  BY <1>1, <1>5, <1>7, <2>2
<1>9. DOMAIN b = 1..Len(b) /\ Len(b) \in Nat
  BY <1>1
<1>10. Leaves(m, q, b)
  <2>1. DOMAIN q \subseteq DOMAIN b
    BY <1>3, <1>4, <1>8, <1>9
  <2>2. ASSUME NEW k \in DOMAIN q
        PROVE  /\ b[k].kind = q[k].kind /\ b[k].subnet = q[k].subnet
               /\ b[k].conn # None => b[k].conn = q[k].conn /\ Waits(m, q[k])
    <3>1. q[k] \in Requests
      BY <1>2, <2>2
    <3>2. b[k] = IF Waits(m, q[k]) THEN q[k] ELSE [q[k] EXCEPT !.conn = None]
      BY <1>3, <1>7, <1>8, <1>9, <2>1
    <3> QED  BY <1>6, <3>1, <3>2
  <2> QED  BY <2>1, <2>2 DEF Leaves
<1>11. Adds(m, d, q, b, h)
  <2>1. ASSUME NEW k \in DOMAIN b \ DOMAIN q
        PROVE  /\ k \in Nat /\ k - Len(q) \in 1..Cardinality(S)
               /\ h[k] = Nth(S, k - Len(q)) /\ b[k] = y[k - Len(q)]
    BY <1>3, <1>4, <1>8, <1>9
  <2>2. ASSUME NEW k \in DOMAIN b \ DOMAIN q
        PROVE  h[k] \in S /\ b[k] = m.sent[h[k]]
    <3>1. Nth(S, k - Len(q)) \in S
      BY <1>4, <2>1, NthHasRank
    <3> QED  BY <1>5, <2>1, <3>1
  <2>3. ASSUME NEW k \in DOMAIN b \ DOMAIN q, NEW l \in DOMAIN b \ DOMAIN q, h[k] = h[l]
        PROVE  k = l
    <3> DEFINE i == k - Len(q)
               j == l - Len(q)
    <3>1. i \in 1..Cardinality(S) /\ j \in 1..Cardinality(S) /\ Nth(S, i) = Nth(S, j)
      BY <2>1, <2>3
    <3>2. k \in Nat /\ l \in Nat
      BY <2>1
    <3> HIDE DEF i, j
    <3>3. i = j
      BY <1>4, <3>1, NthIsOneToOne
    <3> QED  BY <1>3, <3>2, <3>3 DEF i, j
  <2> HIDE DEF h
  <2> QED  BY <2>2, <2>3 DEF Adds, S
<1> HIDE DEF h
<1> QED  BY <1>1, <1>10, <1>11 DEF q, b

-----------------------------------------------------------------------------
(* The manager deals with the device that is there, which no poll has missed. *)
Handled(m, d) == DealsWith(m, plugged[d], d) /\ d \notin missed

(* The task at i is new: for a device that was not dealt with, and the only one that
   asks it for anything. *)
Inserted(m, n, g, i) ==
    LET t == n.tasks[i] IN
    /\ t.stage = "asked" /\ t.usb.device = plugged[t.usb.serial]
    /\ ~Handled(m, t.usb.serial)
    /\ \A j \in DOMAIN n.tasks :
          Pending(n.tasks[j]) /\ g[j] \notin DOMAIN m.tasks
              /\ n.tasks[j].usb.serial = t.usb.serial => j = i
    /\ \A s \in DOMAIN n.sent : n.sent[s].conn = t.conn =>
          /\ n.sent[s].subnet = t.usb.reservation
          /\ \A r \in DOMAIN n.sent : n.sent[r].conn = t.conn => r = s

(* The tasks of n that configure devices are tasks of m, as they were, or new. *)
TasksTraced(m, n, g) ==
    \A i \in DOMAIN n.tasks : Pending(n.tasks[i]) =>
        IF g[i] \in DOMAIN m.tasks
        THEN /\ n.tasks[i] = m.tasks[g[i]]
             /\ \A j \in DOMAIN n.tasks : Pending(n.tasks[j]) /\ g[j] = g[i] => j = i
        ELSE Inserted(m, n, g, i)

(* A device that is configured was so before, or by a task that is done now. *)
DevicesTraced(m, n, g) ==
    \A u \in UsbDevices : Configured(n, u) =>
        \/ Configured(m, u)
        \/ \E k \in DOMAIN m.tasks :
              /\ Answered(m.tasks[k]) /\ u = Outcome(m.tasks[k])
              /\ \A i \in DOMAIN n.tasks : Pending(n.tasks[i]) => g[i] # k

(* A connection is that of the same libusb device as before. *)
ConnsTraced(m, n) ==
    \A c \in DOMAIN m.conns \cap DOMAIN n.conns : n.conns[c].usb = m.conns[c].usb

(* What is sent goes through a connection, and configures no device that was. *)
SentIsRight(m, n) ==
    \A s \in DOMAIN n.sent :
        /\ n.sent[s].conn \in DOMAIN n.conns
        /\ n.sent[s].kind = "configure" => ~Handled(m, n.conns[n.sent[s].conn].usb.serial)

Traced(m, n, g) ==
    /\ TasksTraced(m, n, g) /\ DevicesTraced(m, n, g)
    /\ ConnsTraced(m, n) /\ SentIsRight(m, n)

(* An event that leads to n, of which nothing but the host's state depends. *)
LeadsTo(n, g) ==
    /\ Consistent(n) /\ Traced(manager, n, g) /\ Commit(n)
    /\ UNCHANGED <<plugged, config>> /\ missed \subseteq missed'

(* The tasks that are spent configure nothing, and the others are left alone. *)
LEMMA SettledTasks ==
    ASSUME NEW n, Consistent(n), BusTyped, Commit(n)
    PROVE  /\ manager'.sent = <<>> /\ manager'.conns = n.conns
           /\ \A i \in DOMAIN manager'.tasks : Pending(manager'.tasks[i]) =>
                 /\ i \in DOMAIN n.tasks /\ Pending(n.tasks[i])
                 /\ manager'.tasks[i] = n.tasks[i]
           /\ \A u : Configured(manager', u) => Configured(n, u)
<1>1. manager' = AtRest(n)
  BY CommitSettles
<1>2. /\ manager'.infos = n.infos /\ manager'.incomplete = n.incomplete
      /\ manager'.conns = n.conns /\ manager'.sent = <<>>
      /\ DOMAIN manager'.tasks = DOMAIN n.tasks
      /\ \A i \in DOMAIN n.tasks :
            manager'.tasks[i] = IF n.tasks[i].stage = "done" THEN Spent(n.tasks[i]) ELSE n.tasks[i]
  BY <1>1, AtRestConsistent
<1>3. \A t : Spent(t).stage = "done"
  BY DEF Spent, Task
<1>4. \A i \in DOMAIN manager'.tasks :
         manager'.tasks[i].stage # "done" => manager'.tasks[i] = n.tasks[i]
  BY <1>2, <1>3
<1> QED  BY <1>2, <1>4 DEF Pending, Fetching, Configured

(* What holds for one copy of a device holds for the others. *)
LEMMA OutcomeIsSame ==
    ASSUME NEW t \in Tasks
    PROVE  SamePlug(Outcome(t), t.usb) /\ Outcome(t) \in UsbDevices
<1>1. t.usb \in UsbDevices /\ t.subnet \in Subnets \cup {None}
  BY DEF Tasks
<1>2. \A u \in UsbDevices, s \in Subnets \cup {None} :
         [u EXCEPT !.reservation = s] \in UsbDevices /\ SamePlug([u EXCEPT !.reservation = s], u)
  BY DEF UsbDevices, SamePlug
<1> QED  BY <1>1, <1>2 DEF Outcome, SamePlug

(* A device that is configured is one that the manager holds. *)
LEMMA ConfiguredIsHandled ==
    ASSUME NEW m, NEW u \in UsbDevices, Configured(m, u) \/ Manages(m, u), Current(u)
    PROVE  Handled(m, u.serial)
<1>1. Manages(m, u)
  BY DEF Configured, Manages
<1> QED  BY <1>1 DEF Handled, DealsWith, Current

(* No task of another time and no copy of a configured device is about the device of a
   pending task. *)
LEMMA PendingOnceKept ==
    ASSUME IInv, SubnetsAreTrue, NEW n, NEW g, LeadsTo(n, g)
    PROVE  PendingOnce(manager)'
<1> USE DEF IInv
<1>1. /\ manager'.conns = n.conns
      /\ \A i \in DOMAIN manager'.tasks : Pending(manager'.tasks[i]) =>
            /\ i \in DOMAIN n.tasks /\ Pending(n.tasks[i])
            /\ manager'.tasks[i] = n.tasks[i]
      /\ \A u : Configured(manager', u) => Configured(n, u)
  BY SettledTasks DEF LeadsTo
<1>2. \A u : Current(u)' => Current(u)
  BY DEF LeadsTo, Current
<1>3. SUFFICES ASSUME NEW i \in DOMAIN n.tasks, Pending(n.tasks[i]), Current(n.tasks[i].usb)
               PROVE  /\ \A j \in DOMAIN n.tasks :
                            Pending(n.tasks[j]) /\ SamePlug(n.tasks[j].usb, n.tasks[i].usb) => j = i
                      /\ \A v \in UsbDevices : Configured(n, v) => ~SamePlug(v, n.tasks[i].usb)
  BY <1>1, <1>2 DEF PendingOnce
<1>4. Consistent(n) /\ TasksTraced(manager, n, g) /\ DevicesTraced(manager, n, g)
  BY DEF LeadsTo, Traced
<1>5. \A j \in DOMAIN n.tasks : n.tasks[j].usb \in UsbDevices
  BY <1>4, TaskFields
<1>6. \A k \in DOMAIN manager.tasks : manager.tasks[k] \in Tasks /\ manager.tasks[k].usb \in UsbDevices
  BY TaskFields
<1>7. \A k \in DOMAIN manager.tasks : Manages(manager, manager.tasks[k].usb)
  BY DEF Manages
<1>8. \A u \in UsbDevices : SamePlug(u, n.tasks[i].usb) => Current(u)
  BY <1>3 DEF SamePlug, Current
<1>9. \A k \in DOMAIN manager.tasks :
         /\ SamePlug(Outcome(manager.tasks[k]), manager.tasks[k].usb)
         /\ Outcome(manager.tasks[k]) \in UsbDevices
  BY <1>6, OutcomeIsSame
<1>10. PendingOnce(manager)
  BY DEF SubnetsAreTrue
<1>11. ASSUME g[i] \in DOMAIN manager.tasks
       PROVE  /\ Pending(manager.tasks[g[i]]) /\ n.tasks[i] = manager.tasks[g[i]]
              /\ \A j \in DOMAIN n.tasks : Pending(n.tasks[j]) /\ g[j] = g[i] => j = i
              /\ \A k \in DOMAIN manager.tasks :
                    Pending(manager.tasks[k]) /\ SamePlug(manager.tasks[k].usb, n.tasks[i].usb) => k = g[i]
              /\ \A v \in UsbDevices : Configured(manager, v) => ~SamePlug(v, n.tasks[i].usb)
  <2>1. n.tasks[i] = manager.tasks[g[i]]
        /\ \A j \in DOMAIN n.tasks : Pending(n.tasks[j]) /\ g[j] = g[i] => j = i
    BY <1>3, <1>4, <1>11 DEF TasksTraced
  <2> QED  BY <1>3, <1>10, <1>11, <2>1 DEF PendingOnce
<1>12. ASSUME g[i] \notin DOMAIN manager.tasks
       PROVE  /\ ~Handled(manager, n.tasks[i].usb.serial)
              /\ \A j \in DOMAIN n.tasks :
                    Pending(n.tasks[j]) /\ g[j] \notin DOMAIN manager.tasks
                        /\ n.tasks[j].usb.serial = n.tasks[i].usb.serial => j = i
  BY <1>3, <1>4, <1>12 DEF TasksTraced, Inserted
<1>13. ASSUME NEW j \in DOMAIN n.tasks, Pending(n.tasks[j]), SamePlug(n.tasks[j].usb, n.tasks[i].usb)
       PROVE  j = i
  <2>1. CASE g[i] \in DOMAIN manager.tasks /\ g[j] \in DOMAIN manager.tasks
    <3>1. n.tasks[j] = manager.tasks[g[j]]
      BY <1>4, <1>13, <2>1 DEF TasksTraced
    <3> QED  BY <1>11, <1>13, <2>1, <3>1
  <2>2. CASE g[i] \in DOMAIN manager.tasks /\ g[j] \notin DOMAIN manager.tasks
    <3>1. ~Handled(manager, n.tasks[j].usb.serial)
      BY <1>4, <1>13, <2>2 DEF TasksTraced, Inserted
    <3>2. Handled(manager, n.tasks[i].usb.serial)
      BY <1>3, <1>5, <1>7, <1>11, <2>2, ConfiguredIsHandled
    <3> QED  BY <1>13, <3>1, <3>2 DEF SamePlug
  <2>3. CASE g[i] \notin DOMAIN manager.tasks /\ g[j] \in DOMAIN manager.tasks
    <3>1. n.tasks[j] = manager.tasks[g[j]]
      BY <1>4, <1>13, <2>3 DEF TasksTraced
    <3>2. Handled(manager, n.tasks[j].usb.serial)
      BY <1>5, <1>7, <1>8, <1>13, <2>3, <3>1, ConfiguredIsHandled
    <3> QED  BY <1>12, <1>13, <2>3, <3>2 DEF SamePlug
  <2>4. CASE g[i] \notin DOMAIN manager.tasks /\ g[j] \notin DOMAIN manager.tasks
    BY <1>12, <1>13, <2>4 DEF SamePlug
  <2> QED  BY <2>1, <2>2, <2>3, <2>4
<1>14. ASSUME NEW v \in UsbDevices, Configured(n, v), SamePlug(v, n.tasks[i].usb)
       PROVE  FALSE
  <2>1. Current(v)
    BY <1>8, <1>14
  <2>2. CASE Configured(manager, v)
    <3>1. Handled(manager, v.serial)
      BY <2>1, <2>2, ConfiguredIsHandled
    <3> QED  BY <1>11, <1>12, <1>14, <2>2, <3>1 DEF SamePlug
  <2>3. CASE ~Configured(manager, v)
    <3>1. PICK k \in DOMAIN manager.tasks :
              /\ Answered(manager.tasks[k]) /\ v = Outcome(manager.tasks[k])
              /\ \A j \in DOMAIN n.tasks : Pending(n.tasks[j]) => g[j] # k
      BY <1>4, <1>14, <2>3 DEF DevicesTraced
    <3>2. SamePlug(manager.tasks[k].usb, n.tasks[i].usb) /\ Pending(manager.tasks[k])
      BY <1>9, <1>14, <3>1 DEF SamePlug, Answered
    <3>3. Handled(manager, manager.tasks[k].usb.serial)
      BY <1>6, <1>7, <1>8, <3>2, ConfiguredIsHandled
    <3> QED  BY <1>3, <1>11, <1>12, <3>1, <3>2, <3>3 DEF SamePlug
  <2> QED  BY <2>2, <2>3
<1> QED  BY <1>13, <1>14

(* What is left in an inbox and still has a connection has a sender that waits. *)
LEMMA RequestsAreRightKept ==
    ASSUME IInv, SubnetsAreTrue, NEW n, NEW g, LeadsTo(n, g)
    PROVE  RequestsAreRight(manager, inbox)'
<1>1. manager'.conns = n.conns
  BY SettledTasks DEF IInv, LeadsTo
<1>2. SUFFICES ASSUME NEW d \in Devices, NEW k \in DOMAIN inbox'[d], inbox'[d][k].conn # None
               PROVE  /\ inbox'[d][k].conn \in DOMAIN n.conns
                      /\ n.conns[inbox'[d][k].conn].usb.serial = d
  BY <1>1 DEF RequestsAreRight
<1>3. Consistent(n) /\ ConnsTraced(manager, n) /\ SentIsRight(manager, n)
  BY DEF LeadsTo, Traced
<1>4. Leaves(n, inbox[d], inbox'[d])
  BY CommitFills DEF IInv, LeadsTo
<1>5. PICK h : Adds(n, d, inbox[d], inbox'[d], h)
  BY CommitFills DEF IInv, LeadsTo
<1>6. CASE k \in DOMAIN inbox[d]
  <2>1. inbox'[d][k].conn = inbox[d][k].conn /\ Waits(n, inbox[d][k])
    BY <1>2, <1>4, <1>6 DEF Leaves
  <2>2. PICK i \in DOMAIN n.tasks : n.tasks[i].stage = "asked" /\ n.tasks[i].conn = inbox[d][k].conn
    BY <2>1 DEF Waits
  <2>3. inbox[d][k].conn \in DOMAIN n.conns
    BY <1>3, <2>2, TaskFields DEF TaskIsRight
  <2>4. /\ inbox[d][k].conn \in DOMAIN manager.conns
        /\ manager.conns[inbox[d][k].conn].usb.serial = d
    BY <1>2, <1>6, <2>1 DEF SubnetsAreTrue, RequestsAreRight
  <2> QED  BY <1>3, <2>1, <2>3, <2>4 DEF ConnsTraced
<1>7. CASE k \notin DOMAIN inbox[d]
  <2>1. h[k] \in Mine(n, d) /\ inbox'[d][k] = n.sent[h[k]]
    BY <1>5, <1>7 DEF Adds
  <2> QED  BY <1>3, <2>1 DEF SentIsRight, Mine
<1> QED  BY <1>6, <1>7

(* An inbox without requests to configure the device gets none, when the host deals
   with the device. *)
LEMMA InboxSettled ==
    ASSUME IInv, NEW n, NEW g, LeadsTo(n, g), NEW d \in Devices, Handled(manager, d)
    PROVE  \A k \in DOMAIN inbox'[d] :
              \/ k \in DOMAIN inbox[d] /\ inbox'[d][k].kind = inbox[d][k].kind
              \/ k \notin DOMAIN inbox[d] /\ inbox'[d][k].kind # "configure"
<1>1. SentIsRight(manager, n)
  BY DEF LeadsTo, Traced
<1>2. Leaves(n, inbox[d], inbox'[d])
  BY CommitFills DEF IInv, LeadsTo
<1>3. PICK h : Adds(n, d, inbox[d], inbox'[d], h)
  BY CommitFills DEF IInv, LeadsTo
<1>4. ASSUME NEW k \in DOMAIN inbox'[d], k \notin DOMAIN inbox[d]
      PROVE  inbox'[d][k].kind # "configure"
  <2>1. h[k] \in Mine(n, d) /\ inbox'[d][k] = n.sent[h[k]]
    BY <1>3, <1>4 DEF Adds
  <2>2. h[k] \in DOMAIN n.sent /\ n.conns[n.sent[h[k]].conn].usb.serial = d
    BY <2>1 DEF Mine
  <2> QED  BY <1>1, <2>1, <2>2 DEF SentIsRight
<1> QED  BY <1>2, <1>4 DEF Leaves

(* What a device has been configured as, it stays. *)
LEMMA SettlesKept ==
    ASSUME IInv, NEW n, NEW g, LeadsTo(n, g), NEW u \in UsbDevices,
           Handled(manager, u.serial), Settles(u, inbox)
    PROVE  Settles(u, inbox)'
<1>1. u.serial \in Devices
  BY UsbDeviceFields
<1>2. \A k \in DOMAIN inbox'[u.serial] :
         \/ k \in DOMAIN inbox[u.serial] /\ inbox'[u.serial][k].kind = inbox[u.serial][k].kind
         \/ k \notin DOMAIN inbox[u.serial] /\ inbox'[u.serial][k].kind # "configure"
  BY <1>1, InboxSettled
<1>3. config' = config
  BY DEF LeadsTo
<1> QED  BY <1>2, <1>3 DEF Settles, NoConfigure

(* A task that has its answer, and what devices were configured as. *)
LEMMA AnsweredIsTrueKept ==
    ASSUME IInv, SubnetsAreTrue, NEW n, NEW g, LeadsTo(n, g)
    PROVE  AnsweredIsTrue(manager, inbox)'
<1>1. \A i \in DOMAIN manager'.tasks : Pending(manager'.tasks[i]) =>
            /\ i \in DOMAIN n.tasks /\ Pending(n.tasks[i])
            /\ manager'.tasks[i] = n.tasks[i]
  BY SettledTasks DEF IInv, LeadsTo
<1>2. SUFFICES ASSUME NEW i \in DOMAIN n.tasks, Answered(n.tasks[i]), Current(n.tasks[i].usb)'
               PROVE  Settles(Outcome(n.tasks[i]), inbox)'
  BY <1>1 DEF AnsweredIsTrue, Answered
<1> DEFINE t == n.tasks[i]
           u == Outcome(t)
<1>3. Current(t.usb)
  BY <1>2 DEF LeadsTo, Current
<1>4. Pending(t) /\ t.stage = "answered"
  BY <1>2 DEF Answered
<1>5. t = manager.tasks[g[i]] /\ g[i] \in DOMAIN manager.tasks
  <2>1. TasksTraced(manager, n, g)
    BY DEF LeadsTo, Traced
  <2>2. ~Inserted(manager, n, g, i)
    BY <1>4 DEF Inserted
  <2> QED  BY <1>4, <2>1, <2>2 DEF TasksTraced
<1>6. t \in Tasks /\ t.usb \in UsbDevices /\ Manages(manager, t.usb)
  BY <1>5, TaskFields DEF IInv, Manages
<1>7. Settles(u, inbox)
  BY <1>2, <1>3, <1>5 DEF SubnetsAreTrue, AnsweredIsTrue
<1>8. u \in UsbDevices /\ Handled(manager, u.serial)
  BY <1>3, <1>6, OutcomeIsSame, ConfiguredIsHandled DEF SamePlug
<1> HIDE DEF u, t
<1>9. Settles(u, inbox)'
  BY <1>7, <1>8, SettlesKept
<1> QED  BY <1>9 DEF u, t

(* A device that is configured uses its subnet. *)
LEMMA ConfiguredIsTrueKept ==
    ASSUME IInv, SubnetsAreTrue, NEW n, NEW g, LeadsTo(n, g)
    PROVE  ConfiguredIsTrue(manager, inbox)'
<1>1. \A u : Configured(manager', u) => Configured(n, u)
  BY SettledTasks DEF IInv, LeadsTo
<1>2. SUFFICES ASSUME NEW u \in UsbDevices, Configured(n, u), Current(u)'
               PROVE  Settles(u, inbox)'
  BY <1>1 DEF ConfiguredIsTrue
<1>3. Current(u)
  BY <1>2 DEF LeadsTo, Current
<1>4. CASE Configured(manager, u)
  <2>1. Settles(u, inbox)
    BY <1>3, <1>4 DEF SubnetsAreTrue, ConfiguredIsTrue
  <2> QED  BY <1>3, <1>4, <2>1, ConfiguredIsHandled, SettlesKept
<1>5. CASE ~Configured(manager, u)
  <2>1. DevicesTraced(manager, n, g)
    BY DEF LeadsTo, Traced
  <2>2. PICK k \in DOMAIN manager.tasks :
            Answered(manager.tasks[k]) /\ u = Outcome(manager.tasks[k])
    BY <1>2, <1>5, <2>1 DEF DevicesTraced
  <2>3. /\ manager.tasks[k] \in Tasks /\ manager.tasks[k].usb \in UsbDevices
        /\ Manages(manager, manager.tasks[k].usb)
    BY TaskFields DEF IInv, Manages
  <2>4. SamePlug(u, manager.tasks[k].usb)
    BY <2>2, <2>3, OutcomeIsSame
  <2>5. Current(manager.tasks[k].usb)
    BY <1>3, <2>4 DEF SamePlug, Current
  <2>6. Settles(u, inbox)
    BY <2>2, <2>5 DEF SubnetsAreTrue, AnsweredIsTrue
  <2>7. Handled(manager, u.serial)
    BY <2>3, <2>4, <2>5, ConfiguredIsHandled DEF SamePlug
  <2> QED  BY <2>6, <2>7, SettlesKept
<1> QED  BY <1>4, <1>5

(* The request of a task that waits is the last that can configure its device. *)
LEMMA AskedIsLastKept ==
    ASSUME IInv, SubnetsAreTrue, NEW n, NEW g, LeadsTo(n, g)
    PROVE  AskedIsLast(manager, inbox)'
<1>1. /\ manager'.conns = n.conns
      /\ \A i \in DOMAIN manager'.tasks : Pending(manager'.tasks[i]) =>
            /\ i \in DOMAIN n.tasks /\ Pending(n.tasks[i])
            /\ manager'.tasks[i] = n.tasks[i]
  BY SettledTasks DEF IInv, LeadsTo
<1>2. SUFFICES ASSUME NEW i \in DOMAIN n.tasks, NEW t, t = n.tasks[i], NEW d, d = t.usb.serial,
                      Pending(t), t.stage = "asked", Current(t.usb)',
                      n.conns[t.conn].usb.device = t.usb.device,
                      NEW k \in DOMAIN inbox'[d],
                      inbox'[d][k].kind = "configure", inbox'[d][k].conn = t.conn
               PROVE  SetsLast(inbox'[d], k, t.usb.reservation)
  BY <1>1 DEF AskedIsLast
<1>3. Current(t.usb)
  BY <1>2 DEF LeadsTo, Current
<1>4. /\ Consistent(n) /\ TasksTraced(manager, n, g) /\ ConnsTraced(manager, n)
      /\ SentIsRight(manager, n)
  BY DEF LeadsTo, Traced
<1>5. /\ t.usb \in UsbDevices /\ d \in Devices
      /\ t.conn \in DOMAIN n.conns /\ n.conns[t.conn].usb.serial = d /\ t.conn # None
  BY <1>2, <1>4, TaskFields, UsbDeviceFields
     DEF TaskIsRight, Pending, Consistent, Typed, ConnectionMap
<1>6. Leaves(n, inbox[d], inbox'[d])
  BY <1>5, CommitFills DEF IInv, LeadsTo
<1>7. CASE g[i] \in DOMAIN manager.tasks
  <2>1. t = manager.tasks[g[i]]
    BY <1>2, <1>4, <1>7 DEF TasksTraced
  <2>2. Manages(manager, t.usb)
    BY <1>7, <2>1 DEF Manages
  <2>3. Handled(manager, d)
    BY <1>2, <1>3, <1>5, <2>2, ConfiguredIsHandled
  <2>4. \A l \in DOMAIN inbox'[d] :
            \/ l \in DOMAIN inbox[d] /\ inbox'[d][l].kind = inbox[d][l].kind
            \/ l \notin DOMAIN inbox[d] /\ inbox'[d][l].kind # "configure"
    BY <1>5, <2>3, InboxSettled
  <2>5. k \in DOMAIN inbox[d] /\ inbox[d][k].kind = "configure"
        /\ inbox[d][k].conn = t.conn /\ inbox'[d][k].subnet = inbox[d][k].subnet
    BY <1>2, <1>5, <1>6, <2>4 DEF Leaves
  <2>6. manager.conns[t.conn].usb.device = t.usb.device
    <3>1. t.conn \in DOMAIN manager.conns
      BY <1>2, <1>7, <2>1, TaskFields DEF IInv, TaskIsRight
    <3> QED  BY <1>2, <1>4, <1>5, <3>1 DEF ConnsTraced
  <2>7. SetsLast(inbox[d], k, t.usb.reservation)
    BY <1>2, <1>3, <1>7, <2>1, <2>5, <2>6 DEF SubnetsAreTrue, AskedIsLast
  <2> QED  BY <2>4, <2>5, <2>7 DEF SetsLast
<1>8. CASE g[i] \notin DOMAIN manager.tasks
  <2>1. /\ ~Handled(manager, d) /\ t.usb.device = plugged[d]
        /\ \A s \in DOMAIN n.sent : n.sent[s].conn = t.conn =>
              /\ n.sent[s].subnet = t.usb.reservation
              /\ \A r \in DOMAIN n.sent : n.sent[r].conn = t.conn => r = s
    BY <1>2, <1>4, <1>8 DEF TasksTraced, Inserted
  <2>2. k \notin DOMAIN inbox[d]
    <3>1. SUFFICES ASSUME k \in DOMAIN inbox[d] PROVE FALSE
      OBVIOUS
    <3>2. inbox[d][k].conn = t.conn
      BY <1>2, <1>5, <1>6, <3>1 DEF Leaves
    <3>3. t.conn \in DOMAIN manager.conns /\ manager.conns[t.conn].usb.serial = d
      BY <1>5, <3>1, <3>2 DEF SubnetsAreTrue, RequestsAreRight
    <3>4. manager.conns[t.conn].usb.device = plugged[d]
      BY <1>2, <1>4, <1>5, <2>1, <3>3 DEF ConnsTraced
    <3>5. DealsWith(manager, plugged[d], d)
      BY <3>3, <3>4 DEF DealsWith
    <3> QED  BY <1>2, <1>3, <2>1, <3>5 DEF Handled, Current
  <2>3. PICK h : Adds(n, d, inbox[d], inbox'[d], h)
    BY <1>5, CommitFills DEF IInv, LeadsTo
  <2>4. \A l \in DOMAIN inbox'[d] \ DOMAIN inbox[d] :
            /\ h[l] \in DOMAIN n.sent /\ inbox'[d][l] = n.sent[h[l]]
            /\ n.conns[n.sent[h[l]].conn].usb.serial = d /\ n.sent[h[l]].conn \in DOMAIN n.conns
    BY <1>4, <2>3 DEF Adds, Mine, SentIsRight
  <2>5. n.sent[h[k]].conn = t.conn /\ inbox'[d][k].subnet = t.usb.reservation
    <3>1. h[k] \in DOMAIN n.sent /\ inbox'[d][k] = n.sent[h[k]]
      BY <1>2, <2>2, <2>4
    <3>2. n.sent[h[k]].conn = t.conn
      BY <1>2, <3>1
    <3> QED  BY <2>1, <3>1, <3>2
  <2>6. PoolIsRight(n)
    BY <1>4 DEF Consistent
  <2>7. ASSUME NEW l \in DOMAIN inbox'[d] \ DOMAIN inbox[d]
        PROVE  l = k
    <3>1. n.sent[h[l]].conn = t.conn
      BY <1>5, <2>4, <2>6, <2>7 DEF PoolIsRight
    <3>2. h[l] = h[k]
      BY <2>1, <2>2, <2>4, <2>5, <3>1
    <3> QED  BY <2>2, <2>3, <3>2 DEF Adds
  <2>8. ASSUME NEW l \in DOMAIN inbox'[d], l > k
        PROVE  inbox'[d][l].kind # "configure"
    <3> DEFINE q == inbox[d]
               b == inbox'[d]
    <3>1. q \in Seq(Requests) /\ b \in Seq(Requests)
      BY <1>5, CommitFills DEF IInv, BusTyped, LeadsTo
    <3>2. /\ DOMAIN q = 1..Len(q) /\ Len(q) \in Nat
          /\ DOMAIN b = 1..Len(b) /\ Len(b) \in Nat
          /\ k \in DOMAIN b /\ k \notin DOMAIN q
      <4>1. k \in DOMAIN b /\ k \notin DOMAIN q
        BY <1>2, <2>2
      <4> HIDE DEF q, b
      <4> QED  BY <3>1, <4>1
    <3> HIDE DEF q, b
    <3>3. l \in Nat /\ k \in Nat
      BY <2>8, <3>2 DEF b
    <3>4. l \notin DOMAIN q
      <4> DEFINE N == Len(q)
      <4>1. k > N
        BY <3>2, <3>3
      <4>2. l > N
        BY <2>8, <3>2, <3>3, <4>1
      <4> QED  BY <3>2, <3>3, <4>2
    <3>5. l = k
      BY <2>7, <2>8, <3>4 DEF q
    <3> QED  BY <2>8, <3>3, <3>5
  <2> QED  BY <2>5, <2>8 DEF SetsLast
<1> QED  BY <1>7, <1>8

(* Whatever leads to what is traced keeps the subnets true. *)
LEMMA TracedKeepsSubnets ==
    ASSUME IInv, SubnetsAreTrue, NEW n, NEW g, LeadsTo(n, g)
    PROVE  SubnetsAreTrue'
<1>1. manager'.sent = <<>>
  BY SettledTasks DEF IInv, LeadsTo
<1> QED  BY <1>1, PendingOnceKept, RequestsAreRightKept, AskedIsLastKept,
            AnsweredIsTrueKept, ConfiguredIsTrueKept DEF SubnetsAreTrue

-----------------------------------------------------------------------------
(* The connections stay, and there may be others. *)
Extends(o, n) ==
    DOMAIN o.conns \subseteq DOMAIN n.conns /\ \A c \in DOMAIN o.conns : n.conns[c] = o.conns[c]

(* ConnectionPool::connect() closes nothing. *)
LEMMA ConnectExtends ==
    ASSUME NEW m, Consistent(m), NEW usb \in UsbDevices, NEW outcome
    PROVE  Extends(m, Connect(m, usb, outcome))
<1> DEFINE n == NewConnection(m, usb, outcome)
           c == NewId(m)
           new == [usb |-> UsbDevice(usb.serial, usb.device, None), up |-> outcome = "up"]
<1>1. Connect(m, usb, outcome) \in {m, n}
  BY DEF Connect
<1>2. Extends(m, m)
  BY DEF Extends
<1>3. c \notin DOMAIN m.conns
  BY NewIdIsNew DEF Consistent, Typed
<1>4. /\ Whole(n)
      /\ n.infos = m.infos /\ n.incomplete = m.incomplete /\ n.timers = m.timers
      /\ n.tasks = m.tasks /\ n.sent = m.sent
      /\ outcome = "null" => n.conns = m.conns /\ n.pool = [m.pool EXCEPT ![usb.serial] = None]
      /\ outcome # "null" =>
            /\ n.pool = [m.pool EXCEPT ![usb.serial] = c]
            /\ n.conns = [x \in DOMAIN m.conns \cup {c} |-> IF x = c THEN new ELSE m.conns[x]]
  BY NewConnectionFields DEF Consistent
<1> HIDE DEF n, c, new
<1>5. Extends(m, n)
  BY <1>3, <1>4 DEF Extends
<1> QED  BY <1>1, <1>2, <1>5

(* What asking a device for its information adds. *)
FetchAdds(o, n, u) ==
    /\ DOMAIN o.tasks \subseteq DOMAIN n.tasks
    /\ \A i \in DOMAIN o.tasks : n.tasks[i] = o.tasks[i]
    /\ \A i \in DOMAIN n.tasks \ DOMAIN o.tasks : n.tasks[i].kind = "fetch" /\ n.tasks[i].usb = u
    /\ n.infos = o.infos /\ n.incomplete = o.incomplete
    /\ Extends(o, n)
    /\ \A s \in DOMAIN n.sent : n.sent[s].conn \in DOMAIN n.conns /\ n.sent[s].kind = "fetch"

(* fetchDeviceInformation() adds a task and a request to fetch, and forgets nothing. *)
LEMMA FetchAddsOne ==
    ASSUME NEW m, Consistent(m), m.sent = <<>>, NEW usb, Fits(m, usb), NEW outcome
    PROVE  FetchAdds(m, FetchDeviceInformation(m, usb, outcome), usb)
<1> DEFINE n == Connect(m, usb, outcome)
           ready == Usable(n, n.pool[usb.serial])
           o == FetchDeviceInformation(m, usb, outcome)
           t == Started(n, "fetch", usb, ready)
           r == Asked(n, "fetch", usb)
<1>1. usb \in UsbDevices /\ usb.serial \in Devices
  BY UsbDeviceFields DEF Fits
<1>2. /\ Consistent(n) /\ n.infos = m.infos /\ n.incomplete = m.incomplete
      /\ n.tasks = m.tasks /\ n.sent = m.sent
  BY <1>1, ConnectConsistent
<1>3. Extends(m, n)
  BY <1>1, ConnectExtends
<1>4. ready \in BOOLEAN
  BY <1>2 DEF Usable, Consistent, Typed, ConnectionMap, Connections, PoolIsRight
<1>5. ready => n.pool[usb.serial] \in DOMAIN n.conns
  BY <1>1, <1>2 DEF Usable, Consistent, PoolIsRight
<1>6. o = Start(n, "fetch", usb, ready)
  BY DEF FetchDeviceInformation
<1>7. t.kind = "fetch" /\ t.usb = usb /\ r.conn = n.pool[usb.serial] /\ r.kind = "fetch"
  BY DEF Started, Task, Asked
<1> HIDE DEF n, o, ready
<1>8. /\ o.infos = n.infos /\ o.incomplete = n.incomplete /\ o.conns = n.conns
      /\ o.tasks = Append(n.tasks, t)
      /\ o.sent = IF ready THEN Append(n.sent, r) ELSE n.sent
  <2> DEFINE x == Start(n, "fetch", usb, ready)
  <2>1. Whole(n)
    BY <1>2 DEF Consistent
  <2>2. /\ Whole(x)
        /\ x.infos = n.infos /\ x.incomplete = n.incomplete /\ x.timers = n.timers
        /\ x.conns = n.conns /\ x.pool = n.pool
        /\ x.tasks = Append(n.tasks, t)
        /\ x.sent = IF ready THEN Append(n.sent, r) ELSE n.sent
    BY <1>4, <2>1, StartFields
  <2> HIDE DEF x, t, r
  <2>3. o = x
    BY <1>6 DEF x
  <2> QED  BY <2>2, <2>3
<1> HIDE DEF t, r
<1>9. /\ DOMAIN m.tasks \subseteq DOMAIN o.tasks
      /\ \A i \in DOMAIN m.tasks : o.tasks[i] = m.tasks[i]
      /\ \A i \in DOMAIN o.tasks \ DOMAIN m.tasks : o.tasks[i] = t
  <2>1. m.tasks \in Seq(Tasks)
    BY DEF Consistent, Typed
  <2> QED  BY <1>2, <1>8, <2>1
<1>10. \A s \in DOMAIN o.sent : ready /\ o.sent[s] = r
  BY <1>2, <1>8
<1>11. \A s \in DOMAIN o.sent : o.sent[s].conn \in DOMAIN o.conns /\ o.sent[s].kind = "fetch"
  BY <1>5, <1>7, <1>8, <1>10
<1> QED  BY <1>2, <1>3, <1>7, <1>8, <1>9, <1>11 DEF FetchAdds, Extends, o

(* The tasks of n that configure devices were there at the same place, and nothing else
   has been configured. *)
Carries(m, n) ==
    /\ \A i \in DOMAIN n.tasks :
          Pending(n.tasks[i]) => i \in DOMAIN m.tasks /\ n.tasks[i] = m.tasks[i]
    /\ \A u : Configured(n, u) => Configured(m, u)
    /\ ConnsTraced(m, n)

Places(n) == [i \in DOMAIN n.tasks |-> i]

(* Whoever carries on as before is traced, each task at its place. *)
LEMMA CarriedIsTraced ==
    ASSUME NEW m, NEW n, Carries(m, n), n.sent = <<>>
    PROVE  Traced(m, n, Places(n))
<1>1. \A i \in DOMAIN n.tasks : Places(n)[i] = i
  BY DEF Places
<1>2. DOMAIN n.sent = {}
  OBVIOUS
<1>3. TasksTraced(m, n, Places(n))
  BY <1>1 DEF TasksTraced, Carries
<1>4. DevicesTraced(m, n, Places(n)) /\ ConnsTraced(m, n)
  BY DEF DevicesTraced, Carries
<1>5. SentIsRight(m, n)
  BY <1>2 DEF SentIsRight
<1> QED  BY <1>3, <1>4, <1>5 DEF Traced

(* Asking a device that was configured for its information. *)
LEMMA FetchIsTraced ==
    ASSUME NEW m, NEW o, Carries(m, o), DOMAIN m.conns \subseteq DOMAIN o.conns,
           NEW n, NEW usb, FetchAdds(o, n, usb),
           \/ Configured(m, usb)
           \/ \E k \in DOMAIN m.tasks : /\ Answered(m.tasks[k]) /\ usb = Outcome(m.tasks[k])
                                        /\ k \in DOMAIN o.tasks /\ ~Pending(o.tasks[k])
    PROVE  Traced(m, n, Places(n))
<1>1. \A i \in DOMAIN n.tasks : Places(n)[i] = i
  BY DEF Places
<1>2. \A i \in DOMAIN n.tasks : Pending(n.tasks[i]) => i \in DOMAIN o.tasks /\ n.tasks[i] = o.tasks[i]
  BY DEF FetchAdds, Pending
<1>3. TasksTraced(m, n, Places(n))
  BY <1>1, <1>2 DEF TasksTraced, Carries
<1>4. \A u : Configured(n, u) => Configured(o, u) \/ u = usb
  BY DEF FetchAdds, Configured
<1>5. DevicesTraced(m, n, Places(n))
  BY <1>1, <1>2, <1>4 DEF DevicesTraced, Carries
<1>6. ConnsTraced(m, n)
  BY DEF ConnsTraced, Carries, FetchAdds, Extends
<1>7. SentIsRight(m, n)
  BY DEF SentIsRight, FetchAdds
<1> QED  BY <1>3, <1>5, <1>6, <1>7 DEF Traced

(* A task that is done: it carries on no configuration, whatever its device. *)
LEMMA DoneCarries ==
    ASSUME NEW m, Consistent(m), NEW i \in DOMAIN m.tasks, NEW t \in Tasks,
           TaskIsRight(m, t), Fits(m, t.usb), t.stage = "done"
    PROVE  LET n == [m EXCEPT !.tasks[i] = t] IN
           /\ Consistent(n) /\ Carries(m, n)
           /\ n.conns = m.conns /\ n.sent = m.sent
           /\ n.tasks = [m.tasks EXCEPT ![i] = t]
           /\ DOMAIN n.tasks = DOMAIN m.tasks /\ n.tasks[i] = t /\ ~Pending(n.tasks[i])
<1> DEFINE n == [m EXCEPT !.tasks[i] = t]
<1>1. /\ Consistent(n) /\ Leads(m, n, {<<t.usb.device, t.usb.serial>>})
      /\ n.infos = m.infos /\ n.incomplete = m.incomplete /\ n.timers = m.timers
      /\ n.conns = m.conns /\ n.pool = m.pool /\ n.sent = m.sent
      /\ n.tasks = [m.tasks EXCEPT ![i] = t]
  BY TaskReplaced
<1> HIDE DEF n
<1>2. /\ DOMAIN n.tasks = DOMAIN m.tasks /\ n.tasks[i] = t
      /\ \A j \in DOMAIN n.tasks : n.tasks[j] = IF j = i THEN t ELSE m.tasks[j]
  BY <1>1
<1>3. Carries(m, n) /\ ~Pending(n.tasks[i])
  BY <1>1, <1>2 DEF Carries, Pending, Fetching, Configured, ConnsTraced
<1> QED  BY <1>1, <1>2, <1>3 DEF n

(* Carrying twice. *)
LEMMA CarriesOn ==
    ASSUME NEW m, NEW n, NEW o, Carries(m, n), Carries(n, o), n.conns = m.conns
    PROVE  Carries(m, o)
BY DEF Carries, ConnsTraced

(* alreadySetResponse (networkconfigurator.cpp:104-118) makes what it told the device's. *)
LEMMA HandleAlreadySetTraced ==
    ASSUME NEW m, Consistent(m), m.sent = <<>>, NEW i \in DOMAIN m.tasks,
           m.tasks[i].stage = "done", NEW outcome
    PROVE  LET n == HandleAlreadySet(m, i, outcome)
               u == [m.tasks[i].usb EXCEPT !.reservation = m.tasks[i].subnet]
           IN  \/ n = m
               \/ \E o : /\ Consistent(o) /\ Carries(m, o) /\ o.conns = m.conns
                         /\ i \in DOMAIN o.tasks /\ ~Pending(o.tasks[i])
                         /\ FetchAdds(o, n, u)
<1> DEFINE t == m.tasks[i]
           s == t.subnet
           u == [t.usb EXCEPT !.reservation = s]
           v == [t EXCEPT !.usb = u]
           o == [m EXCEPT !.tasks[i] = v]
           n == FetchDeviceInformation(o, u, outcome)
<1>1. /\ t \in Tasks /\ t.usb \in UsbDevices /\ s \in Subnets \cup {None}
      /\ TaskIsRight(m, t)
  BY TaskFields
<1>2. CASE s = None \/ s \in Reserved(m)
  BY <1>2 DEF HandleAlreadySet
<1>3. CASE ~(s = None \/ s \in Reserved(m))
  <2>1. HandleAlreadySet(m, i, outcome) = n
    BY <1>3 DEF HandleAlreadySet
  <2>2. t.stage = "done"
    OBVIOUS
  <2> HIDE DEF t
  <2>3. u \in UsbDevices /\ SamePlug(u, t.usb) /\ Fits(m, u)
    BY <1>1, <1>3, UnreservedFits
  <2> HIDE DEF u
  <2>4. v \in Tasks /\ v.usb = u /\ v.stage = t.stage
    BY <1>1, <2>3, TaskUpdate
  <2> HIDE DEF v
  <2>5. TaskIsRight(m, v) /\ v.stage = "done" /\ Fits(m, v.usb)
    BY <2>2, <2>3, <2>4 DEF TaskIsRight
  <2>6. /\ Consistent(o) /\ Carries(m, o) /\ o.conns = m.conns /\ o.sent = m.sent
        /\ DOMAIN o.tasks = DOMAIN m.tasks /\ o.tasks[i] = v /\ ~Pending(o.tasks[i])
    BY <2>4, <2>5, DoneCarries
  <2> HIDE DEF o
  <2>7. Fits(o, u) /\ i \in DOMAIN o.tasks
    BY <2>4, <2>6, TaskFields
  <2>8. FetchAdds(o, n, u)
    BY <2>6, <2>7, FetchAddsOne
  <2>9. \E x : /\ Consistent(x) /\ Carries(m, x) /\ x.conns = m.conns
               /\ i \in DOMAIN x.tasks /\ ~Pending(x.tasks[i])
               /\ FetchAdds(x, n, u)
    BY <2>6, <2>7, <2>8
  <2> QED  BY <2>1, <2>9 DEF u, t
<1> QED  BY <1>2, <1>3

(* The reply of a device. *)
LEMMA FinishTraced ==
    ASSUME NEW m, Consistent(m), m.sent = <<>>, NEW i \in DOMAIN m.tasks,
           m.tasks[i].stage = "answered", NEW outcome
    PROVE  LET n == Finish(m, i, outcome) IN Traced(m, n, Places(n))
<1> DEFINE t == m.tasks[i]
           u == t.usb
           v == [t EXCEPT !.stage = "done"]
           o == [m EXCEPT !.tasks[i] = v]
           n == Finish(m, i, outcome)
<1>1. /\ t \in Tasks /\ u = t.usb /\ t.stage = "answered"
      /\ TaskIsRight(m, t) /\ Fits(m, u)
  BY TaskFields
<1>2. [m EXCEPT !.tasks[i].stage = "done"] = o
  OBVIOUS
<1>3. t = m.tasks[i] /\ u = m.tasks[i].usb
  OBVIOUS
<1> HIDE DEF t, u
<1>4. /\ v \in Tasks /\ v.usb = u /\ v.stage = "done"
      /\ v.subnet = t.subnet /\ v.result = t.result /\ v.kind = t.kind
  BY <1>1, TaskUpdate
<1> HIDE DEF v
<1>5. TaskIsRight(m, v) /\ Fits(m, v.usb)
  BY <1>1, <1>4 DEF TaskIsRight
<1>6. /\ Consistent(o) /\ Carries(m, o)
      /\ o.conns = m.conns /\ o.sent = m.sent
      /\ o.tasks = [m.tasks EXCEPT ![i] = v]
      /\ DOMAIN o.tasks = DOMAIN m.tasks /\ o.tasks[i] = v /\ ~Pending(o.tasks[i])
  BY <1>1, <1>4, <1>5, DoneCarries
<1>7. n = CASE t.kind = "fetch" -> HandleDeviceInformation(o, u, t.result)
            [] t.kind = "configure" /\ t.result = "Success" ->
                 FetchDeviceInformation(o, u, outcome)
            [] t.kind = "configure" /\ t.result = "AlreadySet" ->
                 HandleAlreadySet(o, i, outcome)
            [] t.kind = "configure" /\ t.result = "Failure" -> o
  BY <1>2 DEF Finish, t, u
<1> HIDE DEF o, n
<1>8. Fits(o, u) /\ i \in DOMAIN o.tasks
  BY <1>4, <1>6, TaskFields
<1>9. SUFFICES Traced(m, n, Places(n))
  BY DEF n
<1>10. CASE t.kind = "fetch"
  <2> DEFINE r == t.result
             h == HandleDeviceInformation(o, u, r)
  <2>1. r \in FetchResults
    BY <1>1, <1>10 DEF TaskIsRight
  <2>2. n = h
    BY <1>7, <1>10
  <2> HIDE DEF r
  <2>3. /\ Consistent(h) /\ Leads(o, h, {<<u.device, u.serial>>})
        /\ h.tasks = o.tasks /\ h.conns = o.conns /\ h.pool = o.pool /\ h.sent = o.sent
        /\ \A d : HasInfo(o, d) => HasInfo(h, d)
        /\ FromIncomplete(o, u, h.incomplete)
        /\ r # "none" => HasInfo(h, u.serial)
        /\ r = "none" => h = o
        /\ FromInfos(o, u, h.infos)
    BY <1>6, <1>8, <2>1, HandleDeviceInformationConsistent
  <2> HIDE DEF h
  <2>4. Configured(m, u)
    BY <1>1, <1>3, <1>10 DEF Configured, Fetching
  <2>5. \A w : Configured(h, w) => Configured(o, w) \/ w = u
    BY <2>3 DEF Configured, FromIncomplete, FromInfos
  <2>6. Carries(m, h) /\ h.sent = <<>>
    BY <1>6, <2>3, <2>4, <2>5 DEF Carries, ConnsTraced
  <2> QED  BY <2>2, <2>6, CarriedIsTraced
<1>11. CASE t.kind = "configure" /\ t.result = "Success"
  <2>1. n = FetchDeviceInformation(o, u, outcome)
    BY <1>7, <1>11
  <2>2. FetchAdds(o, n, u)
    BY <1>6, <1>8, <2>1, FetchAddsOne
  <2>3. Answered(m.tasks[i]) /\ u = Outcome(m.tasks[i])
    BY <1>1, <1>3, <1>11 DEF Answered, Pending, Outcome
  <2> QED  BY <1>6, <2>2, <2>3, FetchIsTraced
<1>12. CASE t.kind = "configure" /\ t.result = "AlreadySet"
  <2> DEFINE w == [u EXCEPT !.reservation = t.subnet]
  <2>1. n = HandleAlreadySet(o, i, outcome)
    BY <1>7, <1>12
  <2>2. Answered(m.tasks[i]) /\ w = Outcome(m.tasks[i])
    BY <1>1, <1>3, <1>12 DEF Answered, Pending, Outcome
  <2>3. o.tasks[i].stage = "done" /\ w = [o.tasks[i].usb EXCEPT !.reservation = o.tasks[i].subnet]
        /\ o.sent = <<>>
    BY <1>4, <1>6
  <2> HIDE DEF w
  <2>4. \/ n = o
        \/ \E x : /\ Consistent(x) /\ Carries(o, x) /\ x.conns = o.conns
                  /\ i \in DOMAIN x.tasks /\ ~Pending(x.tasks[i])
                  /\ FetchAdds(x, n, w)
    BY <1>6, <1>8, <2>1, <2>3, HandleAlreadySetTraced
  <2>5. CASE n = o
    BY <1>6, <2>5, CarriedIsTraced
  <2>6. CASE \E x : /\ Consistent(x) /\ Carries(o, x) /\ x.conns = o.conns
                    /\ i \in DOMAIN x.tasks /\ ~Pending(x.tasks[i])
                    /\ FetchAdds(x, n, w)
    <3>1. PICK x : /\ Consistent(x) /\ Carries(o, x) /\ x.conns = o.conns
                   /\ i \in DOMAIN x.tasks /\ ~Pending(x.tasks[i])
                   /\ FetchAdds(x, n, w)
      BY <2>6
    <3>2. Carries(m, x) /\ DOMAIN m.conns \subseteq DOMAIN x.conns
      BY <1>6, <3>1, CarriesOn
    <3> QED  BY <2>2, <3>1, <3>2, FetchIsTraced
  <2> QED  BY <2>4, <2>5, <2>6
<1>13. CASE t.kind = "configure" /\ t.result = "Failure"
  <2>1. n = o
    BY <1>7, <1>13
  <2> QED  BY <1>6, <2>1, CarriedIsTraced
<1>14. \/ t.kind = "fetch"
       \/ t.kind = "configure" /\ t.result \in {"Success", "AlreadySet", "Failure"}
  BY <1>1 DEF Tasks, TaskIsRight, ConfigureResults
<1> QED  BY <1>10, <1>11, <1>12, <1>13, <1>14

(* A connection that is lost ends the tasks that wait for it. *)
LEMMA DisconnectedTraced ==
    ASSUME NEW m, Consistent(m), m.sent = <<>>, NEW c \in DOMAIN m.conns
    PROVE  LET n == Disconnected(m, c) IN Traced(m, n, Places(n))
<1> DEFINE n == Disconnected(m, c)
<1>1. /\ Consistent(n) /\ Leads(m, n, {})
      /\ n.infos = m.infos /\ n.incomplete = m.incomplete /\ n.sent = m.sent
      /\ DOMAIN n.conns = DOMAIN m.conns
      /\ \A b \in DOMAIN m.conns : n.conns[b].usb = m.conns[b].usb
      /\ DOMAIN n.tasks = DOMAIN m.tasks
      /\ \A j \in DOMAIN m.tasks :
            n.tasks[j] = IF m.tasks[j].conn = c THEN [m.tasks[j] EXCEPT !.stage = "done"]
                                                ELSE m.tasks[j]
  BY DisconnectedConsistent
<1> HIDE DEF n
<1>2. ASSUME NEW j \in DOMAIN n.tasks, n.tasks[j].stage # "done"
      PROVE  n.tasks[j] = m.tasks[j]
  <2> DEFINE t == m.tasks[j]
             v == [t EXCEPT !.stage = "done"]
  <2>1. n.tasks[j] = t \/ n.tasks[j] = v
    BY <1>1
  <2>2. t \in Tasks
    BY <1>1, TaskFields
  <2> HIDE DEF t
  <2>3. v.stage = "done"
    BY <2>2, TaskUpdate
  <2> HIDE DEF v
  <2> QED  BY <1>2, <2>1, <2>3 DEF t
<1>3. Carries(m, n)
  BY <1>1, <1>2 DEF Carries, Pending, Fetching, Configured, ConnsTraced
<1>4. n.sent = <<>>
  BY <1>1
<1> QED  BY <1>3, <1>4, CarriedIsTraced DEF n

(* A connection that is up again changes no task. *)
LEMMA ReconnectedTraced ==
    ASSUME NEW m, Consistent(m), m.sent = <<>>, NEW c \in DOMAIN m.conns
    PROVE  LET n == [m EXCEPT !.conns[c].up = TRUE] IN Traced(m, n, Places(n))
<1> DEFINE n == [m EXCEPT !.conns[c].up = TRUE]
<1>1. /\ Consistent(n) /\ Leads(m, n, {})
      /\ n.infos = m.infos /\ n.incomplete = m.incomplete
      /\ n.tasks = m.tasks /\ n.sent = m.sent
      /\ DOMAIN n.conns = DOMAIN m.conns
      /\ \A b \in DOMAIN m.conns : n.conns[b].usb = m.conns[b].usb
  BY ReconnectedConsistent
<1> HIDE DEF n
<1>2. Carries(m, n) /\ n.sent = <<>>
  BY <1>1 DEF Carries, Configured, ConnsTraced
<1> QED  BY <1>2, CarriedIsTraced DEF n

(* The timer asks a device of the queue, which was configured. *)
LEMMA FetchIncompleteTraced ==
    ASSUME NEW m, Consistent(m), m.sent = <<>>, m.timers > 0, NEW outcome
    PROVE  LET n == FetchIncomplete(m, outcome) IN Traced(m, n, Places(n))
<1> DEFINE y == m.timers - 1
           a == [m EXCEPT !.timers = y]
           x == Tail(m.incomplete)
           o == [a EXCEPT !.incomplete = x]
           u == Head(m.incomplete)
           f == FetchDeviceInformation(o, u, outcome)
<1>1. Whole(m) /\ m.incomplete \in Seq(UsbDevices) /\ m.timers \in Nat
      /\ Len(m.incomplete) <= m.timers
  BY DEF Consistent, Typed, TimersSuffice
<1>2. y \in Nat /\ y = m.timers - 1
  BY <1>1
<1> HIDE DEF y
<1>3. /\ Whole(a) /\ a.timers = y
      /\ a.infos = m.infos /\ a.incomplete = m.incomplete /\ a.tasks = m.tasks
      /\ a.conns = m.conns /\ a.pool = m.pool /\ a.sent = m.sent
  BY <1>1, TimersUpdate
<1>4. FetchIncomplete(m, outcome) = IF m.incomplete = <<>> THEN a ELSE f
  BY <1>3 DEF FetchIncomplete, y
<1> HIDE DEF a
<1>5. CASE m.incomplete = <<>>
  <2>1. Carries(m, a) /\ a.sent = <<>>
    BY <1>3 DEF Carries, Configured, ConnsTraced
  <2> QED  BY <1>4, <1>5, <2>1, CarriedIsTraced
<1>6. CASE m.incomplete # <<>>
  <2>1. /\ x \in Seq(UsbDevices) /\ Len(x) = Len(m.incomplete) - 1
        /\ \A k \in 1..Len(x) : x[k] = m.incomplete[k + 1]
        /\ u \in UsbDevices /\ u = m.incomplete[1] /\ Len(m.incomplete) \in Nat \ {0}
    BY <1>1, <1>6, HeadTailProperties
  <2> HIDE DEF x, u
  <2>2. \A k \in DOMAIN x : \E j \in DOMAIN m.incomplete : x[k] = m.incomplete[j]
    BY <1>1, <2>1
  <2>3. /\ Whole(o) /\ o.incomplete = x
        /\ o.infos = a.infos /\ o.timers = a.timers /\ o.tasks = a.tasks
        /\ o.conns = a.conns /\ o.pool = a.pool /\ o.sent = a.sent
    BY <1>3, IncompleteUpdate
  <2> HIDE DEF o
  <2>4. \A v : Manages(o, v) => Manages(m, v)
    BY <1>3, <2>2, <2>3 DEF Manages
  <2>5. Exclusive(o)
    BY <2>4, ExclusiveFewer DEF Consistent
  <2>6. Typed(o) /\ TimersSuffice(o)
    <3>1. Len(x) <= y
      BY <1>1, <1>2, <2>1
    <3> QED  BY <1>2, <1>3, <2>1, <2>3, <3>1 DEF Consistent, Typed, TimersSuffice
  <2>7. PoolIsRight(o) /\ TasksAreRight(o)
    BY <1>3, <2>3 DEF Consistent, PoolIsRight, TasksAreRight, TaskIsRight
  <2>8. Consistent(o)
    BY <2>3, <2>5, <2>6, <2>7 DEF Consistent
  <2>9. Configured(m, u) /\ Manages(m, u)
    BY <1>1, <2>1 DEF Configured, Manages
  <2>10. Fits(o, u)
    BY <2>1, <2>4, <2>9, HeldFits DEF Consistent, Fits
  <2>11. FetchAdds(o, f, u)
    BY <1>3, <2>3, <2>8, <2>10, FetchAddsOne
  <2> HIDE DEF f
  <2>12. Carries(m, o) /\ o.conns = m.conns
    BY <1>3, <2>2, <2>3 DEF Carries, Configured, ConnsTraced
  <2>13. Traced(m, f, Places(f))
    BY <2>9, <2>11, <2>12, FetchIsTraced
  <2> QED  BY <1>4, <1>6, <2>13
<1> QED  BY <1>5, <1>6

(* The tasks behind one that is deleted move up. *)
Shifted(n, i) == [k \in DOMAIN n.tasks |-> IF k < i THEN k ELSE k + 1]

(* The tasks behind the one that is deleted move up. *)
LEMMA DeleteTaskTraced ==
    ASSUME NEW m, Consistent(m), m.sent = <<>>, NEW i \in DOMAIN m.tasks
    PROVE  LET n == DeleteTask(m, i) IN Traced(m, n, Shifted(n, i))
<1> DEFINE n == DeleteTask(m, i)
           g == Shifted(n, i)
<1>1. /\ Consistent(n) /\ Leads(m, n, {})
      /\ n.infos = m.infos /\ n.incomplete = m.incomplete /\ n.sent = m.sent
      /\ n.tasks = RemoveAt(m.tasks, i)
      /\ DOMAIN n.conns \subseteq DOMAIN m.conns
      /\ \A c \in DOMAIN n.conns : n.conns[c] = m.conns[c]
  BY DeleteTaskConsistent
<1> HIDE DEF n
<1>2. m.tasks \in Seq(Tasks)
  BY DEF Consistent, Typed
<1>3. /\ n.tasks \in Seq(Tasks) /\ Len(n.tasks) = Len(m.tasks) - 1
      /\ \A k \in 1..(Len(m.tasks) - 1) : n.tasks[k] = m.tasks[IF k < i THEN k ELSE k + 1]
  <2>1. i \in 1..Len(m.tasks)
    BY <1>2
  <2>2. /\ RemoveAt(m.tasks, i) \in Seq(Tasks)
        /\ Len(RemoveAt(m.tasks, i)) = Len(m.tasks) - 1
        /\ \A k \in 1..(Len(m.tasks) - 1) :
              RemoveAt(m.tasks, i)[k] = m.tasks[IF k < i THEN k ELSE k + 1]
    BY <1>2, <2>1, RemoveAtProperties
  <2> QED  BY <1>1, <2>2
<1>4. ASSUME NEW k \in DOMAIN n.tasks
      PROVE  g[k] \in DOMAIN m.tasks /\ n.tasks[k] = m.tasks[g[k]]
  <2>1. /\ DOMAIN n.tasks = 1..(Len(m.tasks) - 1) /\ DOMAIN m.tasks = 1..Len(m.tasks)
        /\ Len(m.tasks) \in Nat
    BY <1>2, <1>3
  <2>2. g[k] = (IF k < i THEN k ELSE k + 1) /\ k \in 1..(Len(m.tasks) - 1)
    BY <1>4, <2>1 DEF Shifted
  <2> HIDE DEF g
  <2> QED  BY <1>3, <2>1, <2>2
<1>5. ASSUME NEW k \in DOMAIN n.tasks, NEW l \in DOMAIN n.tasks, g[k] = g[l]
      PROVE  l = k
  <2>1. DOMAIN n.tasks = 1..Len(n.tasks) /\ Len(n.tasks) \in Nat /\ i \in Nat
    BY <1>2, <1>3
  <2>2. k \in Nat /\ l \in Nat
    BY <2>1
  <2>3. g[k] = (IF k < i THEN k ELSE k + 1) /\ g[l] = (IF l < i THEN l ELSE l + 1)
    BY DEF Shifted
  <2>4. (IF k < i THEN k ELSE k + 1) = (IF l < i THEN l ELSE l + 1)
    BY <1>5, <2>3
  <2> QED  BY <2>1, <2>2, <2>4
<1> HIDE DEF g
<1>6. TasksTraced(m, n, g)
  BY <1>4, <1>5 DEF TasksTraced
<1>7. \A u : Configured(n, u) => Configured(m, u)
  BY <1>1, <1>4 DEF Configured
<1>8. DevicesTraced(m, n, g) /\ ConnsTraced(m, n)
  BY <1>1, <1>7 DEF DevicesTraced, ConnsTraced
<1>9. SentIsRight(m, n)
  <2>1. DOMAIN n.sent = {}
    BY <1>1
  <2> QED  BY <2>1 DEF SentIsRight
<1> QED  BY <1>6, <1>8, <1>9 DEF Traced, n, g

-----------------------------------------------------------------------------
(* The events of the host that concern devices it knows already. *)
LEMMA HandleReplySubnets == ASSUME IInv, SubnetsAreTrue, HandleReply PROVE SubnetsAreTrue'
<1>1. PICK i \in DOMAIN manager.tasks, outcome \in {"up", "down", "null"} :
          /\ manager.tasks[i].stage = "answered"
          /\ Commit(Finish(manager, i, outcome))
          /\ UNCHANGED <<busVars, known, missed, unlisted>>
  BY DEF HandleReply, Outcomes
<1> DEFINE n == Finish(manager, i, outcome)
<1>2. Consistent(manager) /\ manager.sent = <<>>
  BY DEF IInv, SubnetsAreTrue
<1>3. Consistent(n) /\ Leads(manager, n, {}) /\ KeepsInfos(manager, n)
  BY <1>1, <1>2, FinishConsistent
<1>4. Traced(manager, n, Places(n))
  BY <1>1, <1>2, FinishTraced
<1>5. Commit(n)
  BY <1>1
<1> HIDE DEF n
<1>6. LeadsTo(n, Places(n))
  BY <1>1, <1>3, <1>4, <1>5 DEF LeadsTo, busVars
<1> QED  BY <1>6, TracedKeepsSubnets

(* The services of a connection that goes down have failed. *)
LEMMA ConnectionLostSubnets ==
    ASSUME IInv, SubnetsAreTrue, ConnectionLost PROVE SubnetsAreTrue'
<1>1. PICK c \in DOMAIN manager.conns :
          /\ Commit(Disconnected(manager, c))
          /\ UNCHANGED <<busVars, known, missed, unlisted>>
  BY DEF ConnectionLost
<1> DEFINE n == Disconnected(manager, c)
<1>2. Consistent(manager) /\ manager.sent = <<>>
  BY DEF IInv, SubnetsAreTrue
<1>3. Consistent(n)
  BY <1>2, DisconnectedConsistent
<1>4. Traced(manager, n, Places(n))
  BY <1>2, DisconnectedTraced
<1>5. Commit(n)
  BY <1>1
<1> HIDE DEF n
<1>6. LeadsTo(n, Places(n))
  BY <1>1, <1>3, <1>4, <1>5 DEF LeadsTo, busVars
<1> QED  BY <1>6, TracedKeepsSubnets

(* A connection that is up again changes nothing for those who asked before. *)
LEMMA ReconnectedSubnets ==
    ASSUME IInv, SubnetsAreTrue, Reconnected PROVE SubnetsAreTrue'
<1>1. PICK c \in DOMAIN manager.conns :
          /\ Commit([manager EXCEPT !.conns[c].up = TRUE])
          /\ UNCHANGED <<busVars, known, missed, unlisted>>
  BY DEF Reconnected
<1> DEFINE n == [manager EXCEPT !.conns[c].up = TRUE]
<1>2. Consistent(manager) /\ manager.sent = <<>>
  BY DEF IInv, SubnetsAreTrue
<1>3. Consistent(n)
  BY <1>2, ReconnectedConsistent
<1>4. Traced(manager, n, Places(n))
  BY <1>2, ReconnectedTraced
<1>5. Commit(n)
  BY <1>1
<1> HIDE DEF n
<1>6. LeadsTo(n, Places(n))
  BY <1>1, <1>3, <1>4, <1>5 DEF LeadsTo, busVars
<1> QED  BY <1>6, TracedKeepsSubnets

(* A timer starts a fetcher for a device that has been configured. *)
LEMMA TimerFiresSubnets ==
    ASSUME IInv, SubnetsAreTrue, TimerFires PROVE SubnetsAreTrue'
<1>1. PICK outcome \in {"up", "down", "null"} :
          /\ manager.timers > 0
          /\ Commit(FetchIncomplete(manager, outcome))
          /\ UNCHANGED <<busVars, known, missed, unlisted>>
  BY DEF TimerFires, Outcomes
<1> DEFINE n == FetchIncomplete(manager, outcome)
<1>2. Consistent(manager) /\ manager.sent = <<>>
  BY DEF IInv, SubnetsAreTrue
<1>3. Consistent(n) /\ Leads(manager, n, {}) /\ KeepsInfos(manager, n)
  BY <1>1, <1>2, FetchIncompleteConsistent
<1>4. Traced(manager, n, Places(n))
  BY <1>1, <1>2, FetchIncompleteTraced
<1>5. Commit(n)
  BY <1>1
<1> HIDE DEF n
<1>6. LeadsTo(n, Places(n))
  BY <1>1, <1>3, <1>4, <1>5 DEF LeadsTo, busVars
<1> QED  BY <1>6, TracedKeepsSubnets

(* Deferred deletion: the task waits for nothing any more. *)
LEMMA TaskDeletedSubnets ==
    ASSUME IInv, SubnetsAreTrue, TaskDeleted PROVE SubnetsAreTrue'
<1>1. PICK i \in DOMAIN manager.tasks :
          /\ Commit(DeleteTask(manager, i))
          /\ UNCHANGED <<busVars, known, missed, unlisted>>
  BY DEF TaskDeleted
<1> DEFINE n == DeleteTask(manager, i)
<1>2. Consistent(manager) /\ manager.sent = <<>>
  BY DEF IInv, SubnetsAreTrue
<1>3. Consistent(n)
  BY <1>2, DeleteTaskConsistent
<1>4. Traced(manager, n, Shifted(n, i))
  BY <1>2, DeleteTaskTraced
<1>5. Commit(n)
  BY <1>1
<1> HIDE DEF n
<1>6. LeadsTo(n, Shifted(n, i))
  BY <1>1, <1>3, <1>4, <1>5 DEF LeadsTo, busVars
<1> QED  BY <1>6, TracedKeepsSubnets

(* A new host server knows no device, and nobody waits for an answer of before. *)
LEMMA HostRestartsSubnets ==
    ASSUME IInv, HostRestarts PROVE SubnetsAreTrue'
<1>1. Commit(Fresh)
  BY DEF HostRestarts
<1> DEFINE n == Fresh
<1>2. Consistent(n) /\ n.tasks = <<>> /\ n.sent = <<>> /\ n.infos = <<>> /\ n.incomplete = <<>>
  BY FreshConsistent DEF Fresh
<1>3. Commit(n)
  BY <1>1
<1> HIDE DEF n
<1>4. /\ manager'.sent = <<>>
      /\ \A i \in DOMAIN manager'.tasks : ~Pending(manager'.tasks[i])
      /\ \A u : ~Configured(manager', u)
  <2>1. /\ manager'.sent = <<>>
        /\ \A i \in DOMAIN manager'.tasks : Pending(manager'.tasks[i]) => i \in DOMAIN n.tasks
        /\ \A u : Configured(manager', u) => Configured(n, u)
    BY <1>2, <1>3, SettledTasks DEF IInv
  <2>2. DOMAIN n.tasks = {} /\ DOMAIN n.infos = {} /\ DOMAIN n.incomplete = {}
    BY <1>2
  <2> QED  BY <2>1, <2>2 DEF Configured
<1>5. PendingOnce(manager)' /\ AskedIsLast(manager, inbox)'
  BY <1>4 DEF PendingOnce, AskedIsLast
<1>6. AnsweredIsTrue(manager, inbox)' /\ ConfiguredIsTrue(manager, inbox)'
  BY <1>4 DEF AnsweredIsTrue, Answered, ConfiguredIsTrue
<1>7. ASSUME NEW d \in Devices, NEW k \in DOMAIN inbox'[d]
      PROVE  inbox'[d][k].conn = None
  <2>1. Leaves(n, inbox[d], inbox'[d]) /\ \E h : Adds(n, d, inbox[d], inbox'[d], h)
    BY <1>2, <1>3, CommitFills DEF IInv
  <2>2. DOMAIN n.tasks = {} /\ DOMAIN n.sent = {}
    BY <1>2
  <2>3. k \in DOMAIN inbox[d]
    BY <2>1, <2>2 DEF Adds, Mine
  <2> QED  BY <2>1, <2>2, <2>3 DEF Leaves, Waits
<1>8. RequestsAreRight(manager, inbox)'
  BY <1>7 DEF RequestsAreRight
<1> QED  BY <1>4, <1>5, <1>6, <1>8 DEF SubnetsAreTrue

(* What happens on the bus makes no device current that the manager holds, puts nothing
   into an inbox, and may take a subnet away. *)
LEMMA BusStepSubnets ==
    ASSUME IInv, SubnetsAreTrue, manager' = manager,
           \A u \in UsbDevices : Manages(manager, u) /\ Current(u)' => Current(u),
           \A d \in Devices : /\ DOMAIN inbox'[d] \subseteq DOMAIN inbox[d]
                              /\ \A k \in DOMAIN inbox'[d] : inbox'[d][k] = inbox[d][k]
                              /\ config'[d] \in {None, config[d]}
    PROVE  SubnetsAreTrue'
<1>1. \A i \in DOMAIN manager.tasks :
         /\ manager.tasks[i].usb \in UsbDevices /\ Manages(manager, manager.tasks[i].usb)
         /\ manager.tasks[i].usb.serial \in Devices
         /\ SamePlug(Outcome(manager.tasks[i]), manager.tasks[i].usb)
         /\ Outcome(manager.tasks[i]) \in UsbDevices
  BY TaskFields, OutcomeIsSame, UsbDeviceFields DEF IInv, Manages
<1>2. PendingOnce(manager)'
  BY <1>1 DEF SubnetsAreTrue, PendingOnce
<1>3. manager'.sent = <<>>
  BY DEF SubnetsAreTrue
<1>4. RequestsAreRight(manager, inbox)'
  BY DEF SubnetsAreTrue, RequestsAreRight
<1>5. AskedIsLast(manager, inbox)'
  <2>1. AskedIsLast(manager, inbox)
    BY DEF SubnetsAreTrue
  <2>2. SUFFICES ASSUME NEW i \in DOMAIN manager.tasks, NEW t, t = manager.tasks[i],
                        NEW d, d = t.usb.serial, Pending(t), t.stage = "asked", Current(t.usb)',
                        manager.conns[t.conn].usb.device = t.usb.device,
                        NEW k \in DOMAIN inbox'[d],
                        inbox'[d][k].kind = "configure", inbox'[d][k].conn = t.conn
                 PROVE  SetsLast(inbox'[d], k, t.usb.reservation)
    BY DEF AskedIsLast
  <2>3. Current(t.usb) /\ d \in Devices
    BY <1>1, <2>2
  <2>4. SetsLast(inbox[d], k, t.usb.reservation)
    BY <2>1, <2>2, <2>3 DEF AskedIsLast
  <2> QED  BY <2>2, <2>3, <2>4 DEF SetsLast
<1>6. \A u \in UsbDevices : Settles(u, inbox) => Settles(u, inbox)'
  BY UsbDeviceFields DEF Settles, NoConfigure
<1>7. AnsweredIsTrue(manager, inbox)'
  <2>1. AnsweredIsTrue(manager, inbox)
    BY DEF SubnetsAreTrue
  <2>2. SUFFICES ASSUME NEW i \in DOMAIN manager.tasks, Answered(manager.tasks[i]),
                        Current(manager.tasks[i].usb)', NEW u, u = Outcome(manager.tasks[i])
                 PROVE  Settles(u, inbox)'
    BY DEF AnsweredIsTrue
  <2>3. u \in UsbDevices /\ Current(manager.tasks[i].usb)
    BY <1>1, <2>2
  <2> QED  BY <1>6, <2>1, <2>2, <2>3 DEF AnsweredIsTrue
<1>8. ConfiguredIsTrue(manager, inbox)'
  <2>1. ConfiguredIsTrue(manager, inbox)
    BY DEF SubnetsAreTrue
  <2>2. \A u : Configured(manager, u) => Manages(manager, u)
    BY DEF Configured, Manages
  <2> QED  BY <1>6, <2>1, <2>2 DEF ConfiguredIsTrue
<1> QED  BY <1>2, <1>3, <1>4, <1>5, <1>7, <1>8 DEF SubnetsAreTrue

(* A device that is plugged in is none that the manager holds. *)
LEMMA PlugInSubnets == ASSUME IInv, SubnetsAreTrue, PlugIn PROVE SubnetsAreTrue'
<1>1. PICK d \in Devices :
          /\ plugged[d] = None /\ nextPlug <= MaxPlugs
          /\ plugged' = [plugged EXCEPT ![d] = nextPlug]
          /\ UNCHANGED <<config, inbox, manager, missed>>
  BY DEF PlugIn
<1>2. nextPlug \in 1..MaxPlugs
  BY <1>1, BoundsAssumption DEF IInv, BusTyped
<1>3. ASSUME NEW u \in UsbDevices, Manages(manager, u), Current(u)'
      PROVE  Current(u)
  <2>1. u.serial \in Devices /\ u.device \in 1..MaxPlugs
    BY UsbDeviceFields
  <2>2. Met(u.device, u.serial)
    BY <1>3 DEF Met, DealsWith
  <2>3. u.device # nextPlug
    BY <1>2, <2>1, <2>2 DEF IInv, MetOnce
  <2>4. plugged'[u.serial] = u.device /\ u.serial \notin missed
    BY <1>1, <1>3 DEF Current
  <2>5. plugged'[u.serial] \in {nextPlug, plugged[u.serial]}
    BY <1>1, <2>1 DEF IInv, BusTyped
  <2> QED  BY <2>3, <2>4, <2>5 DEF Current
<1> QED  BY <1>1, <1>3, BusStepSubnets

(* What is unplugged is not current, and reads no more. *)
LEMMA UnplugSubnets == ASSUME IInv, SubnetsAreTrue, Unplug PROVE SubnetsAreTrue'
<1>0. PICK d \in Devices :
          /\ plugged' = [plugged EXCEPT ![d] = None]
          /\ \E n \in 0..Len(inbox[d]) : inbox' = [inbox EXCEPT ![d] = SubSeq(@, 1, n)]
          /\ missed' = missed \ {d}
          /\ UNCHANGED <<config, manager>>
  BY DEF Unplug
<1>1. PICK n \in 0..Len(inbox[d]) :
          /\ plugged' = [plugged EXCEPT ![d] = None]
          /\ inbox' = [inbox EXCEPT ![d] = SubSeq(@, 1, n)]
          /\ missed' = missed \ {d}
          /\ UNCHANGED <<config, manager>>
  BY <1>0
<1>2. ASSUME NEW u \in UsbDevices, Current(u)'
      PROVE  Current(u)
  <2>1. u.serial \in Devices /\ u.device \in 1..MaxPlugs
    BY UsbDeviceFields
  <2>2. plugged'[u.serial] = u.device /\ u.serial \notin missed \ {d}
    BY <1>1, <1>2 DEF Current
  <2>3. plugged \in [Devices -> 0..MaxPlugs]
    BY DEF IInv, BusTyped
  <2>4. u.serial # d
    BY <1>1, <2>1, <2>2, <2>3 DEF None
  <2> QED  BY <1>1, <2>1, <2>2, <2>3, <2>4 DEF Current
<1>3. ASSUME NEW e \in Devices
      PROVE  /\ DOMAIN inbox'[e] \subseteq DOMAIN inbox[e]
             /\ \A k \in DOMAIN inbox'[e] : inbox'[e][k] = inbox[e][k]
  <2> DEFINE q == inbox[d]
             s == SubSeq(q, 1, n)
  <2>1. inbox \in [Devices -> Seq(Requests)] /\ q \in Seq(Requests)
    BY DEF IInv, BusTyped
  <2>2. n \in 0..Len(q)
    BY <1>1
  <2>3. s \in Seq(Requests) /\ Len(s) = n /\ \A k \in 1..n : s[k] = q[k]
    <3> HIDE DEF q
    <3> QED  BY <2>1, <2>2, SubSeqProperties
  <2>4. DOMAIN s = 1..n /\ DOMAIN q = 1..Len(q) /\ Len(q) \in Nat
    <3> HIDE DEF s, q
    <3> QED  BY <2>1, <2>3
  <2>5. DOMAIN s \subseteq DOMAIN q /\ \A k \in DOMAIN s : s[k] = q[k]
    <3> HIDE DEF s, q
    <3> QED  BY <2>2, <2>3, <2>4
  <2>6. inbox'[e] = IF e = d THEN s ELSE inbox[e]
    BY <1>1, <2>1
  <2> HIDE DEF s
  <2> QED  BY <2>5, <2>6
<1> QED  BY <1>1, <1>2, <1>3, BusStepSubnets

(* Suspending a device changes nothing of this. *)
LEMMA SuspendSubnets == ASSUME IInv, SubnetsAreTrue, Suspend PROVE SubnetsAreTrue'
<1>1. UNCHANGED <<plugged, config, inbox, manager, missed>>
  BY DEF Suspend
<1>2. \A u \in UsbDevices : Current(u)' => Current(u)
  BY <1>1 DEF Current
<1> QED  BY <1>1, <1>2, BusStepSubnets

(* A device that is reset uses no subnet. *)
LEMMA ResetSubnets == ASSUME IInv, SubnetsAreTrue, Reset PROVE SubnetsAreTrue'
<1>1. PICK d \in Devices :
          /\ config' = [config EXCEPT ![d] = None]
          /\ UNCHANGED <<plugged, inbox, manager, missed>>
  BY DEF Reset
<1>2. \A e \in Devices : config'[e] \in {None, config[e]}
  BY <1>1 DEF IInv, BusTyped
<1>3. \A u \in UsbDevices : Current(u)' => Current(u)
  BY <1>1 DEF Current
<1> QED  BY <1>1, <1>2, <1>3, BusStepSubnets

(* What a device answers a request to configure it: "Success" with the subnet that is
   asked for, or "AlreadySet" with the one it has. *)
LEMMA ConfigureReplies ==
    ASSUME NEW d, NEW s, NEW reply \in SetReplies(d, s)
    PROVE  /\ reply.result = "Success" => reply.config = s
           /\ reply.result = "AlreadySet" => reply.config = reply.subnet
           /\ reply.result \in ConfigureResults
<1>1. CASE config[d] = None
  <2>1. \/ reply = [result |-> "Success", subnet |-> None, config |-> s,
                    resetDue |-> resetDue[d]]
        \/ reply = [result |-> "Failure", subnet |-> None, config |-> None,
                    resetDue |-> resetDue[d]]
    BY <1>1 DEF SetReplies
  <2> QED  BY <2>1 DEF ConfigureResults
<1>2. CASE config[d] # None
  <2>1. \/ reply = [result |-> "AlreadySet", subnet |-> config[d], config |-> config[d],
                    resetDue |-> resetDue[d]]
        \/ reply = [result |-> "AlreadySet", subnet |-> None, config |-> None,
                    resetDue |-> FALSE]
    BY <1>2 DEF SetReplies
  <2> QED  BY <2>1 DEF ConfigureResults
<1> QED  BY <1>1, <1>2

(* What a fetched device reports leaves its configuration as it is. *)
LEMMA FetchRepliesKeep ==
    ASSUME NEW d, NEW reply \in FetchReplies(d)
    PROVE  reply.config = config[d]
BY DEF FetchReplies

(* What a request that is handled leaves in the inbox. *)
LEMMA TailLeaves ==
    ASSUME NEW q \in Seq(Requests), q # <<>>
    PROVE  /\ Head(q) = q[1] /\ 1 \in DOMAIN q
           /\ \A k \in DOMAIN Tail(q) :
                 k \in Nat /\ k + 1 \in DOMAIN q /\ k + 1 > 1 /\ Tail(q)[k] = q[k + 1]
           /\ \A k \in DOMAIN Tail(q), l \in DOMAIN Tail(q) : l > k => l + 1 > k + 1
<1>1. /\ Tail(q) \in Seq(Requests) /\ Len(Tail(q)) = Len(q) - 1
      /\ \A k \in 1..Len(Tail(q)) : Tail(q)[k] = q[k + 1]
      /\ Head(q) = q[1] /\ Len(q) \in Nat \ {0} /\ DOMAIN q = 1..Len(q)
  BY HeadTailProperties
<1>2. DOMAIN Tail(q) = 1..Len(Tail(q))
  BY <1>1
<1> QED  BY <1>1, <1>2

(* A device sets the subnet that was asked for last, and a task that hears it, and
   whose device is current, was the one that asked. *)
LEMMA DeviceHandlesSubnets ==
    ASSUME IInv, SubnetsAreTrue, DeviceHandles PROVE SubnetsAreTrue'
<1> USE DEF IInv
<1>1. PICK d \in Devices :
          /\ inbox[d] # <<>>
          /\ LET r == Head(inbox[d])
                 asking == {i \in DOMAIN manager.tasks : Waits([tasks |-> <<manager.tasks[i]>>], r)}
                 heard == /\ asking # {}
                          /\ manager.conns[r.conn].usb.device = plugged[d]
             IN \E reply \in IF r.kind = "configure" THEN SetReplies(d, r.subnet)
                                                    ELSE FetchReplies(d) :
                  /\ config' = [config EXCEPT ![d] = reply.config]
                  /\ manager' = IF ~heard THEN manager
                       ELSE [manager EXCEPT !.tasks[Min(asking)] =
                               Answer(manager.tasks[Min(asking)], reply)]
          /\ inbox' = [inbox EXCEPT ![d] = Tail(@)]
          /\ UNCHANGED <<plugged, missed>>
  BY Zenon DEF DeviceHandles, Answer
<1> DEFINE q == inbox[d]
           r == Head(q)
           asking == {j \in DOMAIN manager.tasks : Waits([tasks |-> <<manager.tasks[j]>>], r)}
           heard == /\ asking # {}
                    /\ manager.conns[r.conn].usb.device = plugged[d]
           i == Min(asking)
           t == manager.tasks[i]
<1>2. PICK reply \in IF r.kind = "configure" THEN SetReplies(d, r.subnet) ELSE FetchReplies(d) :
          /\ config' = [config EXCEPT ![d] = reply.config]
          /\ manager' = IF ~heard THEN manager ELSE [manager EXCEPT !.tasks[i] = Answer(t, reply)]
  BY <1>1
<1> DEFINE v == Answer(t, reply)
<1>3. q \in Seq(Requests) /\ q # <<>> /\ r \in Requests
  BY <1>1, HeadTailProperties DEF BusTyped
<1>4. /\ reply.subnet \in Subnets \cup {None}
      /\ reply.result \in IF r.kind = "fetch" THEN FetchResults ELSE ConfigureResults
  <2> HIDE DEF r
  <2> QED  BY <1>2, <1>3, RepliesAreRight
<1>5. /\ r = q[1] /\ 1 \in DOMAIN q
      /\ \A k \in DOMAIN Tail(q) :
            k \in Nat /\ k + 1 \in DOMAIN q /\ k + 1 > 1 /\ Tail(q)[k] = q[k + 1]
      /\ \A k \in DOMAIN Tail(q), l \in DOMAIN Tail(q) : l > k => l + 1 > k + 1
  <2> HIDE DEF q
  <2> QED  BY <1>3, TailLeaves DEF r
<1>6. inbox'[d] = Tail(q) /\ \A e \in Devices \ {d} : inbox'[e] = inbox[e]
  BY <1>1 DEF BusTyped
<1>7. config'[d] = reply.config /\ \A e \in Devices \ {d} : config'[e] = config[e]
  BY <1>2 DEF BusTyped
<1>8. ASSUME asking # {}
      PROVE  /\ i \in DOMAIN manager.tasks
             /\ t.stage = "asked" /\ t.kind = r.kind /\ t.conn = r.conn
  <2>1. manager.tasks \in Seq(Tasks)
    BY DEF Consistent, Typed
  <2>2. asking \in SUBSET Nat /\ \A j \in asking :
            /\ j \in DOMAIN manager.tasks
            /\ manager.tasks[j].stage = "asked" /\ manager.tasks[j].kind = r.kind
            /\ manager.tasks[j].conn = r.conn
    <3> HIDE DEF r
    <3> QED  BY <2>1, WaitsAlone
  <2> HIDE DEF asking
  <2>3. i \in asking
    BY <1>8, <2>2, SmallestNumber
  <2> QED  BY <2>2, <2>3
<1> HIDE DEF q, r, asking, i
<1>9. ASSUME heard
      PROVE  /\ t \in Tasks /\ t.kind # "none" /\ t.conn \in DOMAIN manager.conns
             /\ manager.conns[t.conn].usb.serial = t.usb.serial /\ t.usb.serial = d
             /\ v.stage = "answered" /\ v.usb = t.usb /\ v.conn = t.conn /\ v.kind = t.kind
             /\ v.result = reply.result /\ v.subnet = reply.subnet
  <2>1. t \in Tasks /\ TaskIsRight(manager, t)
    BY <1>8, <1>9, TaskFields
  <2>2. /\ t.kind # "none" /\ t.conn \in DOMAIN manager.conns
        /\ manager.conns[t.conn].usb.serial = t.usb.serial
    BY <1>8, <1>9, <2>1 DEF TaskIsRight
  <2>3. r.conn # None
    BY <1>8, <1>9, <2>2 DEF Consistent, Typed, ConnectionMap
  <2>4. manager.conns[r.conn].usb.serial = d
    BY <1>5, <2>3 DEF SubnetsAreTrue, RequestsAreRight, q
  <2>5. reply.result \in IF t.kind = "fetch" THEN FetchResults ELSE ConfigureResults
    BY <1>4, <1>8, <1>9
  <2>6. t.usb.serial = d
    BY <1>8, <1>9, <2>2, <2>4
  <2> HIDE DEF t
  <2>7. /\ v \in Tasks /\ v.stage = "answered" /\ v.usb = t.usb /\ v.conn = t.conn
        /\ v.kind = t.kind /\ v.result = reply.result /\ v.subnet = reply.subnet
    BY <1>4, <2>1, <2>5, AnswerIsRight
  <2> QED  BY <2>1, <2>2, <2>6, <2>7
<1>10. /\ manager'.conns = manager.conns /\ manager'.sent = <<>>
       /\ manager'.infos = manager.infos /\ manager'.incomplete = manager.incomplete
       /\ DOMAIN manager'.tasks = DOMAIN manager.tasks
       /\ \A j \in DOMAIN manager.tasks :
             manager'.tasks[j] = IF heard /\ j = i THEN v ELSE manager.tasks[j]
  <2>1. manager.sent = <<>> /\ Whole(manager) /\ manager.tasks \in Seq(Tasks)
    BY DEF SubnetsAreTrue, Consistent, Typed
  <2> DEFINE x == [manager.tasks EXCEPT ![i] = v]
             n == [manager EXCEPT !.tasks = x]
  <2>2. manager' = IF heard THEN n ELSE manager
    BY <1>2
  <2>3. DOMAIN x = DOMAIN manager.tasks
        /\ \A j \in DOMAIN manager.tasks : x[j] = IF j = i THEN v ELSE manager.tasks[j]
    BY <2>1
  <2> HIDE DEF v, x, heard
  <2>4. /\ Whole(n) /\ n.tasks = x
        /\ n.infos = manager.infos /\ n.incomplete = manager.incomplete
        /\ n.timers = manager.timers
        /\ n.conns = manager.conns /\ n.pool = manager.pool /\ n.sent = manager.sent
    BY <2>1, TasksUpdate
  <2> HIDE DEF n
  <2>5. CASE heard
    BY <2>1, <2>2, <2>3, <2>4, <2>5
  <2>6. CASE ~heard
    BY <2>1, <2>2, <2>6
  <2> QED  BY <2>5, <2>6
<1> HIDE DEF v, t
<1>11. \A j \in DOMAIN manager.tasks :
          /\ manager'.tasks[j].usb = manager.tasks[j].usb
          /\ manager'.tasks[j].conn = manager.tasks[j].conn
          /\ Pending(manager'.tasks[j]) <=> Pending(manager.tasks[j])
          /\ Fetching(manager'.tasks[j]) <=> Fetching(manager.tasks[j])
          /\ manager'.tasks[j].stage = "asked" => manager'.tasks[j] = manager.tasks[j]
  BY <1>8, <1>9, <1>10 DEF Pending, Fetching, t
<1>12. \A u : Configured(manager', u) <=> Configured(manager, u)
  BY <1>10, <1>11 DEF Configured
<1>13. \A u : Current(u)' <=> Current(u)
  BY <1>1 DEF Current
<1>14. PendingOnce(manager)'
  <2>1. PendingOnce(manager)
    BY DEF SubnetsAreTrue
  <2> QED  BY <1>10, <1>11, <1>12, <1>13, <2>1 DEF PendingOnce
<1>15. RequestsAreRight(manager, inbox)'
  <2>1. RequestsAreRight(manager, inbox)
    BY DEF SubnetsAreTrue
  <2>2. SUFFICES ASSUME NEW e \in Devices, NEW k \in DOMAIN inbox'[e], inbox'[e][k].conn # None
                 PROVE  /\ inbox'[e][k].conn \in DOMAIN manager.conns
                        /\ manager.conns[inbox'[e][k].conn].usb.serial = e
    BY <1>10 DEF RequestsAreRight
  <2>3. \E l \in DOMAIN inbox[e] : inbox'[e][k] = inbox[e][l]
    BY <1>5, <1>6, <2>2 DEF q
  <2> QED  BY <2>1, <2>2, <2>3 DEF RequestsAreRight
<1>16. AskedIsLast(manager, inbox)'
  <2>1. AskedIsLast(manager, inbox)
    BY DEF SubnetsAreTrue
  <2>2. SUFFICES ASSUME NEW j \in DOMAIN manager.tasks, NEW x, x = manager.tasks[j],
                        NEW e, e = x.usb.serial, Pending(x), x.stage = "asked", Current(x.usb),
                        manager.conns[x.conn].usb.device = x.usb.device,
                        NEW k \in DOMAIN inbox'[e],
                        inbox'[e][k].kind = "configure", inbox'[e][k].conn = x.conn
                 PROVE  SetsLast(inbox'[e], k, x.usb.reservation)
    BY <1>10, <1>11, <1>13 DEF AskedIsLast
  <2>3. e \in Devices
    BY <2>2, TaskFields, UsbDeviceFields
  <2>4. CASE e # d
    BY <1>6, <2>1, <2>2, <2>3, <2>4 DEF AskedIsLast
  <2>5. CASE e = d
    <3>1. k \in DOMAIN Tail(q) /\ Tail(q)[k].kind = "configure" /\ Tail(q)[k].conn = x.conn
      BY <1>6, <2>2, <2>5
    <3>2. k + 1 \in DOMAIN q /\ q[k + 1].kind = "configure" /\ q[k + 1].conn = x.conn
      BY <1>5, <3>1
    <3>3. SetsLast(q, k + 1, x.usb.reservation)
      BY <2>1, <2>2, <2>5, <3>2 DEF AskedIsLast, q
    <3>4. SetsLast(Tail(q), k, x.usb.reservation)
      BY <1>5, <3>1, <3>3 DEF SetsLast
    <3> QED  BY <1>6, <2>5, <3>4
  <2> QED  BY <2>4, <2>5
<1>17. ASSUME NEW u \in UsbDevices, Settles(u, inbox)
       PROVE  Settles(u, inbox)'
  <2>1. u.serial \in Devices
    BY UsbDeviceFields
  <2>2. CASE u.serial # d
    BY <1>6, <1>7, <1>17, <2>1, <2>2 DEF Settles
  <2>3. CASE u.serial = d
    <3>1. NoConfigure(q) /\ config[d] \in {None, u.reservation}
      BY <1>17, <2>3 DEF Settles, q
    <3>2. NoConfigure(Tail(q)) /\ r.kind # "configure"
      BY <1>5, <3>1 DEF NoConfigure
    <3>3. reply.config = config[d]
      BY <1>2, <3>2, FetchRepliesKeep
    <3> QED  BY <1>6, <1>7, <2>3, <3>1, <3>2, <3>3 DEF Settles
  <2> QED  BY <2>2, <2>3
<1>18. ConfiguredIsTrue(manager, inbox)'
  <2>1. ConfiguredIsTrue(manager, inbox)
    BY DEF SubnetsAreTrue
  <2> QED  BY <1>12, <1>13, <1>17, <2>1 DEF ConfiguredIsTrue
<1>19. AnsweredIsTrue(manager, inbox)'
  <2>1. SUFFICES ASSUME NEW j \in DOMAIN manager.tasks, NEW x, x = manager'.tasks[j],
                        Answered(x), Current(x.usb), NEW u, u = Outcome(x)
                 PROVE  Settles(u, inbox)'
    BY <1>10, <1>13 DEF AnsweredIsTrue
  <2>2. CASE ~(heard /\ j = i)
    <3>1. x = manager.tasks[j] /\ x \in Tasks
      BY <1>10, <2>1, <2>2, TaskFields
    <3>2. Settles(u, inbox)
      BY <2>1, <3>1 DEF SubnetsAreTrue, AnsweredIsTrue
    <3>3. u \in UsbDevices
      BY <2>1, <3>1, OutcomeIsSame
    <3> QED  BY <1>17, <3>2, <3>3
  <2>3. CASE heard /\ j = i
    <3>1. x = v /\ t = manager.tasks[j]
      BY <1>10, <2>1, <2>3 DEF t
    <3>2. /\ Pending(t) /\ t.stage = "asked" /\ Current(t.usb) /\ t.usb.serial = d
          /\ t.kind = "configure" /\ r.kind = "configure" /\ r.conn = t.conn
      BY <1>8, <1>9, <2>1, <2>3, <3>1 DEF Answered, Pending
    <3>3. manager.conns[t.conn].usb.device = t.usb.device
      BY <1>8, <2>3, <3>2 DEF Current
    <3>4. SetsLast(q, 1, t.usb.reservation)
      BY <1>5, <3>1, <3>2, <3>3 DEF SubnetsAreTrue, AskedIsLast, q
    <3>5. NoConfigure(Tail(q)) /\ r.subnet = t.usb.reservation
      BY <1>5, <3>4 DEF SetsLast, NoConfigure
    <3>6. /\ reply.result = "Success" => reply.config = t.usb.reservation
          /\ reply.result = "AlreadySet" => reply.config = reply.subnet
          /\ reply.result \in ConfigureResults
      BY <1>2, <3>2, <3>5, ConfigureReplies
    <3>7. x.result = reply.result /\ x.subnet = reply.subnet /\ x.usb = t.usb
          /\ x.result # "Failure"
      BY <1>9, <2>1, <2>3, <3>1 DEF Answered
    <3>8. t.usb \in UsbDevices
      BY <1>9, <2>3 DEF Tasks
    <3>9. u.serial = d /\ reply.config = u.reservation
      <4>1. CASE reply.result = "Success"
        BY <2>1, <3>2, <3>6, <3>7, <4>1 DEF Outcome
      <4>2. CASE reply.result = "AlreadySet"
        <5>1. u = [t.usb EXCEPT !.reservation = reply.subnet]
          BY <2>1, <3>7, <4>2 DEF Outcome
        <5>2. u.serial = t.usb.serial /\ u.reservation = reply.subnet
          BY <3>8, <5>1 DEF UsbDevices
        <5> QED  BY <3>2, <3>6, <4>2, <5>2
      <4> QED  BY <3>6, <3>7, <4>1, <4>2 DEF ConfigureResults
    <3> QED  BY <1>6, <1>7, <3>5, <3>9 DEF Settles
  <2> QED  BY <2>2, <2>3
<1> QED  BY <1>10, <1>14, <1>15, <1>16, <1>18, <1>19 DEF SubnetsAreTrue

-----------------------------------------------------------------------------
(* The request of the task t. *)
RequestOf(t) == [conn |-> t.conn, kind |-> "configure", subnet |-> t.usb.reservation]

(* One insertion: a task more, on a connection of the device, and its request. *)
Inserts(b, n, usb) ==
    \E t \in Tasks :
        /\ n.tasks = Append(b.tasks, t)
        /\ t.kind = "configure" /\ SamePlug(t.usb, usb)
        /\ t.stage \in {"asked", "done"}
        /\ n.sent = IF t.stage = "asked" THEN Append(b.sent, RequestOf(t)) ELSE b.sent
        /\ n.infos = b.infos /\ n.incomplete = b.incomplete
        /\ Extends(b, n)

(* configureDevice() does so for a device it is given without a reservation. *)
LEMMA ConfigureDeviceInserts ==
    ASSUME NEW m, Consistent(m), NEW usb \in UsbDevices, usb.reservation = None,
           NEW outcome, NEW used
    PROVE  Inserts(m, ConfigureDevice(m, usb, outcome, used), usb)
<1> DEFINE n == Connect(m, usb, outcome)
           o == ConfigureDevice(m, usb, outcome, used)
<1>1. PICK v \in UsbDevices, ready \in BOOLEAN :
          /\ o = Start(n, "configure", v, ready)
          /\ SamePlug(v, usb) /\ Fits(n, v)
          /\ ready => n.pool[usb.serial] # None
  BY ConfigureDeviceStarts
<1>2. /\ Consistent(n) /\ n.infos = m.infos /\ n.incomplete = m.incomplete
      /\ n.tasks = m.tasks /\ n.sent = m.sent
  BY ConnectConsistent
<1>3. Extends(m, n)
  BY ConnectExtends
<1> DEFINE t == Started(n, "configure", v, ready)
           r == Asked(n, "configure", v)
<1> HIDE DEF n, o
<1>4. /\ o.infos = n.infos /\ o.incomplete = n.incomplete /\ o.conns = n.conns
      /\ o.tasks = Append(n.tasks, t)
      /\ o.sent = IF ready THEN Append(n.sent, r) ELSE n.sent
  <2> DEFINE x == Start(n, "configure", v, ready)
  <2>1. Whole(n)
    BY <1>2 DEF Consistent
  <2>2. /\ Whole(x)
        /\ x.infos = n.infos /\ x.incomplete = n.incomplete /\ x.timers = n.timers
        /\ x.conns = n.conns /\ x.pool = n.pool
        /\ x.tasks = Append(n.tasks, t)
        /\ x.sent = IF ready THEN Append(n.sent, r) ELSE n.sent
    BY <2>1, StartFields
  <2> HIDE DEF x, t, r
  <2>3. o = x
    BY <1>1 DEF x
  <2> QED  BY <2>2, <2>3
<1>5. n.pool[v.serial] \in Nat
  BY <1>2, UsbDeviceFields DEF Consistent, Typed
<1>6. /\ t \in Tasks /\ t.kind = "configure" /\ t.usb = v
      /\ t.stage = IF ready THEN "asked" ELSE "done"
      /\ r = RequestOf(t)
  BY <1>5 DEF Started, Task, Tasks, FetchResults, Asked, RequestOf, None
<1> HIDE DEF t, r
<1>7. Extends(m, o)
  BY <1>3, <1>4 DEF Extends
<1>8. t.stage = "asked" <=> ready
  BY <1>6
<1>9. /\ o.tasks = Append(m.tasks, t) /\ t.stage \in {"asked", "done"}
      /\ o.sent = IF t.stage = "asked" THEN Append(m.sent, RequestOf(t)) ELSE m.sent
  BY <1>2, <1>4, <1>6, <1>8
<1>10. Inserts(m, o, usb)
  BY <1>1, <1>2, <1>4, <1>6, <1>7, <1>9 DEF Inserts
<1> QED  BY <1>10 DEF o

(* The task that the insertion at x of a poll has made. *)
TaskAt(m, n, x) == n.tasks[Len(m.tasks) + x]

(* What k insertions lead to: a task for each, and the requests of those that wait. *)
HasInserted(m, n, queue, k) ==
    /\ Consistent(n)
    /\ Len(n.tasks) = Len(m.tasks) + k
    /\ \A i \in 1..Len(m.tasks) : n.tasks[i] = m.tasks[i]
    /\ \A x \in 1..k :
          /\ TaskAt(m, n, x).kind = "configure"
          /\ TaskAt(m, n, x).stage \in {"asked", "done"}
          /\ TaskAt(m, n, x).usb.device = queue[x][1]
          /\ TaskAt(m, n, x).usb.serial = queue[x][2]
    /\ \A s \in DOMAIN n.sent : \E x \in 1..k :
          TaskAt(m, n, x).stage = "asked" /\ n.sent[s] = RequestOf(TaskAt(m, n, x))
    /\ \A r, s \in DOMAIN n.sent : n.sent[r].conn = n.sent[s].conn => r = s
    /\ n.infos = m.infos /\ n.incomplete = m.incomplete
    /\ Extends(m, n)

(* One insertion more. *)
LEMMA OneMoreInserted ==
    ASSUME NEW m, Consistent(m), NEW queue, NEW k \in Nat,
           \A x \in 1..k : queue[x][2] # queue[k + 1][2],
           NEW b, HasInserted(m, b, queue, k), NEW n, Consistent(n),
           NEW usb, usb.device = queue[k + 1][1], usb.serial = queue[k + 1][2],
           Inserts(b, n, usb)
    PROVE  HasInserted(m, n, queue, k + 1)
<1>1. PICK t \in Tasks :
        /\ n.tasks = Append(b.tasks, t)
        /\ t.kind = "configure" /\ SamePlug(t.usb, usb)
        /\ t.stage \in {"asked", "done"}
        /\ n.sent = IF t.stage = "asked" THEN Append(b.sent, RequestOf(t)) ELSE b.sent
        /\ n.infos = b.infos /\ n.incomplete = b.incomplete
        /\ Extends(b, n)
  BY DEF Inserts
<1>2. /\ b.tasks \in Seq(Tasks) /\ b.sent \in Seq(Requests) /\ m.tasks \in Seq(Tasks)
      /\ Len(b.tasks) = Len(m.tasks) + k /\ Len(m.tasks) \in Nat
  BY DEF HasInserted, Consistent, Typed
<1> DEFINE M == Len(m.tasks)
<1>3. /\ n.tasks \in Seq(Tasks) /\ Len(n.tasks) = M + (k + 1)
      /\ \A i \in 1..(M + k) : n.tasks[i] = b.tasks[i]
      /\ n.tasks[M + (k + 1)] = t
  <2>1. /\ Len(Append(b.tasks, t)) = Len(b.tasks) + 1 /\ Append(b.tasks, t) \in Seq(Tasks)
        /\ \A i \in 1..Len(b.tasks) : Append(b.tasks, t)[i] = b.tasks[i]
        /\ Append(b.tasks, t)[Len(b.tasks) + 1] = t
    <3> DEFINE q == b.tasks
    <3>1. q \in Seq(Tasks)
      BY <1>2
    <3> HIDE DEF q
    <3>2. /\ Len(Append(q, t)) = Len(q) + 1 /\ Append(q, t) \in Seq(Tasks)
          /\ \A i \in 1..Len(q) : Append(q, t)[i] = q[i]
          /\ Append(q, t)[Len(q) + 1] = t
      BY <3>1, AppendProperties
    <3> QED  BY <3>2 DEF q
  <2>2. Len(b.tasks) + 1 = M + (k + 1)
    <3> DEFINE L == Len(b.tasks)
    <3>1. L = M + k /\ M \in Nat
      BY <1>2
    <3> HIDE DEF L, M
    <3>2. L + 1 = M + (k + 1)
      BY <3>1
    <3> QED  BY <3>2 DEF L
  <2> QED  BY <1>1, <1>2, <2>1, <2>2
<1>4. \A i \in 1..M : n.tasks[i] = m.tasks[i]
  <2>1. \A i \in 1..M : i \in 1..(M + k)
    BY <1>2
  <2> QED  BY <1>3, <2>1 DEF HasInserted
<1>5. /\ \A x \in 1..k : TaskAt(m, n, x) = TaskAt(m, b, x)
      /\ TaskAt(m, n, k + 1) = t
  <2>1. \A x \in 1..k : M + x \in 1..(M + k)
    BY <1>2
  <2> QED  BY <1>3, <2>1 DEF TaskAt
<1>6. \A x \in 1..(k + 1) : x \in 1..k \/ x = k + 1
  OBVIOUS
<1>7. ASSUME NEW x \in 1..(k + 1)
      PROVE  /\ TaskAt(m, n, x).kind = "configure"
             /\ TaskAt(m, n, x).stage \in {"asked", "done"}
             /\ TaskAt(m, n, x).usb.device = queue[x][1]
             /\ TaskAt(m, n, x).usb.serial = queue[x][2]
  <2>1. CASE x \in 1..k
    BY <1>5, <2>1 DEF HasInserted
  <2>2. CASE x = k + 1
    BY <1>1, <1>5, <2>2 DEF SamePlug
  <2> QED  BY <1>6, <2>1, <2>2
<1>8. /\ DOMAIN b.sent = 1..Len(b.sent) /\ Len(b.sent) \in Nat
      /\ t.stage = "asked" =>
            /\ DOMAIN n.sent = 1..(Len(b.sent) + 1)
            /\ \A s \in 1..Len(b.sent) : n.sent[s] = b.sent[s]
            /\ n.sent[Len(b.sent) + 1] = RequestOf(t)
      /\ t.stage # "asked" => n.sent = b.sent
  <2>1. RequestOf(t) \in Requests
    BY DEF RequestOf, Requests, Tasks, UsbDevices
  <2> DEFINE r == RequestOf(t)
  <2> HIDE DEF r
  <2>2. /\ Len(Append(b.sent, r)) = Len(b.sent) + 1 /\ Append(b.sent, r) \in Seq(Requests)
        /\ \A i \in 1..Len(b.sent) : Append(b.sent, r)[i] = b.sent[i]
        /\ Append(b.sent, r)[Len(b.sent) + 1] = r
    BY <1>2, <2>1, AppendProperties DEF r
  <2>3. DOMAIN Append(b.sent, r) = 1..(Len(b.sent) + 1)
    BY <1>2, <2>2
  <2> QED  BY <1>1, <1>2, <2>2, <2>3 DEF r
<1>9. ASSUME NEW s \in DOMAIN n.sent
      PROVE  \/ s \in DOMAIN b.sent /\ n.sent[s] = b.sent[s]
             \/ s = Len(b.sent) + 1 /\ t.stage = "asked" /\ n.sent[s] = RequestOf(t)
  <2>1. \A i \in 1..(Len(b.sent) + 1) : i \in 1..Len(b.sent) \/ i = Len(b.sent) + 1
    BY <1>8
  <2> QED  BY <1>8, <2>1
<1>10. ASSUME NEW s \in DOMAIN n.sent, s \in DOMAIN b.sent, n.sent[s] = b.sent[s]
       PROVE  \E x \in 1..k :
                 TaskAt(m, n, x).stage = "asked" /\ n.sent[s] = RequestOf(TaskAt(m, n, x))
  BY <1>5, <1>10 DEF HasInserted
<1>11. ASSUME NEW s \in DOMAIN n.sent
       PROVE  \E x \in 1..(k + 1) :
                 TaskAt(m, n, x).stage = "asked" /\ n.sent[s] = RequestOf(TaskAt(m, n, x))
  <2>1. \A x \in 1..k : x \in 1..(k + 1)
    OBVIOUS
  <2>2. k + 1 \in 1..(k + 1)
    OBVIOUS
  <2> QED  BY <1>5, <1>9, <1>10, <2>1, <2>2
<1>12. \A x \in 1..(k + 1) : TaskAt(m, n, x).stage = "asked" =>
           n.conns[TaskAt(m, n, x).conn].usb.serial = queue[x][2]
  <2>1. ASSUME NEW x \in 1..(k + 1)
        PROVE  M + x \in DOMAIN n.tasks
    BY <1>2, <1>3
  <2>2. ASSUME NEW x \in 1..(k + 1), TaskAt(m, n, x).stage = "asked"
        PROVE  n.conns[TaskAt(m, n, x).conn].usb.serial = queue[x][2]
    BY <1>7, <2>1, <2>2, TaskFields DEF TaskAt, TaskIsRight
  <2> QED  BY <2>2
<1>13. ASSUME NEW r \in DOMAIN n.sent, r \in DOMAIN b.sent, n.sent[r] = b.sent[r],
              NEW s \in DOMAIN n.sent, t.stage = "asked", n.sent[s] = RequestOf(t)
       PROVE  n.sent[r].conn # n.sent[s].conn
  <2>1. PICK x \in 1..k :
            TaskAt(m, n, x).stage = "asked" /\ n.sent[r] = RequestOf(TaskAt(m, n, x))
    BY <1>10, <1>13
  <2>2. x \in 1..(k + 1) /\ k + 1 \in 1..(k + 1)
    OBVIOUS
  <2>3. n.sent[r].conn = TaskAt(m, n, x).conn /\ n.sent[s].conn = t.conn
    BY <1>13, <2>1 DEF RequestOf
  <2>4. n.conns[TaskAt(m, n, x).conn].usb.serial = queue[x][2]
        /\ n.conns[t.conn].usb.serial = queue[k + 1][2]
    BY <1>5, <1>12, <1>13, <2>1, <2>2
  <2> QED  BY <2>3, <2>4
<1>14. \A r, s \in DOMAIN n.sent : n.sent[r].conn = n.sent[s].conn => r = s
  <2>1. SUFFICES ASSUME NEW r \in DOMAIN n.sent, NEW s \in DOMAIN n.sent,
                        n.sent[r].conn = n.sent[s].conn
                 PROVE  r = s
    OBVIOUS
  <2>2. CASE r \in DOMAIN b.sent /\ n.sent[r] = b.sent[r]
             /\ s \in DOMAIN b.sent /\ n.sent[s] = b.sent[s]
    BY <2>1, <2>2 DEF HasInserted
  <2> QED  BY <1>9, <1>13, <2>1, <2>2
<1>15. n.infos = m.infos /\ n.incomplete = m.incomplete /\ Extends(m, n)
  BY <1>1 DEF HasInserted, Extends
<1> QED  BY <1>3, <1>4, <1>7, <1>11, <1>14, <1>15 DEF HasInserted

(* A device is inserted once in a poll. *)
OncePerDevice(queue) == \A x, y \in 1..Len(queue) : queue[x][2] = queue[y][2] => x = y

(* The insertions of a poll, one after the other. *)
LEMMA InsertionsTraced ==
    ASSUME NEW m, Consistent(m), m.sent = <<>>, NEW queue, Len(queue) \in Nat,
           Queued(queue) \subseteq (1..MaxPlugs) \X Devices, NEW outcome, NEW used,
           OncePerDevice(queue)
    PROVE  HasInserted(m, AfterInsertions(m, queue, outcome, used), queue, Len(queue))
<1> DEFINE N == Len(queue)
           u(k) == UsbDevice(queue[k][2], queue[k][1], None)
<1>1. PICK f : /\ DOMAIN f = 0..N /\ f[0] = m
               /\ \A k \in 1..N :
                     f[k] = ConfigureDevice(f[k - 1], u(k), outcome[queue[k][2]], used)
               /\ AfterInsertions(m, queue, outcome, used) = f[N]
  <2>1. PICK f : InsertionSteps(f, m, queue, outcome, used)
    BY InsertionsUnfold
  <2> QED  BY <2>1 DEF InsertionSteps
<1>2. ASSUME NEW k \in 1..N
      PROVE  /\ u(k) \in UsbDevices /\ u(k).reservation = None
             /\ u(k).device = queue[k][1] /\ u(k).serial = queue[k][2]
  <2>1. <<queue[k][1], queue[k][2]>> \in Queued(queue)
    BY DEF Queued
  <2>2. queue[k][1] \in 1..MaxPlugs /\ queue[k][2] \in Devices
    BY <2>1
  <2> QED  BY <2>1, <2>2 DEF UsbDevice, UsbDevices
<1>3. HasInserted(m, m, queue, 0)
  <2>1. Len(m.tasks) \in Nat /\ DOMAIN m.sent = {} /\ 1..0 = {}
    BY DEF Consistent, Typed
  <2> QED  BY <2>1 DEF HasInserted, Extends
<1>4. ASSUME NEW k \in 0..N, k < N, HasInserted(m, f[k], queue, k)
      PROVE  HasInserted(m, f[k + 1], queue, k + 1)
  <2> DEFINE v == u(k + 1)
             b == f[k]
             o == outcome[queue[k + 1][2]]
             n == ConfigureDevice(b, v, o, used)
  <2>1. k + 1 \in 1..N /\ (k + 1) - 1 = k /\ k \in Nat
    BY <1>4
  <2>2. /\ v \in UsbDevices /\ v.reservation = None
        /\ v.device = queue[k + 1][1] /\ v.serial = queue[k + 1][2]
    BY <1>2, <2>1
  <2>3. f[k + 1] = n
    BY <1>1, <2>1
  <2>4. \A x \in 1..k : queue[x][2] # queue[k + 1][2]
    <3>1. \A x \in 1..k : x \in 1..N /\ x # k + 1
      BY <2>1
    <3> QED  BY <2>1, <3>1 DEF OncePerDevice
  <2> HIDE DEF u
  <2>5. Consistent(b) /\ HasInserted(m, b, queue, k)
    BY <1>4 DEF HasInserted
  <2> HIDE DEF v, b, o
  <2>6. /\ Consistent(n) /\ Leads(b, n, {<<v.device, v.serial>>})
        /\ n.infos = b.infos /\ n.incomplete = b.incomplete
    BY <2>2, <2>5, ConfigureDeviceConsistent
  <2>7. Inserts(b, n, v)
    BY <2>2, <2>5, ConfigureDeviceInserts
  <2> HIDE DEF n
  <2>8. HasInserted(m, n, queue, k + 1)
    BY <2>1, <2>2, <2>4, <2>5, <2>6, <2>7, OneMoreInserted
  <2> QED  BY <2>3, <2>8
<1> HIDE DEF u
<1> DEFINE T == {k \in 0..N : HasInserted(m, f[k], queue, k)}
<1>5. N \in T
  <2>1. 0 \in T
    BY <1>1, <1>3
  <2>2. ASSUME NEW k \in 0..N, k < N, k \in T
        PROVE  k + 1 \in T
    <3>1. k + 1 \in 0..N
      BY <2>2
    <3> QED  BY <1>4, <2>2, <3>1
  <2> HIDE DEF T
  <2>3. \A k \in 0..N : k < N /\ k \in T => k + 1 \in T
    BY <2>2
  <2> HIDE DEF N
  <2>4. N \in Nat
    BY DEF N
  <2> QED  BY <2>1, <2>3, <2>4, SegmentInduction
<1> QED  BY <1>1, <1>5

(* Devices that have different addresses are handled once each, as they are. *)
LEMMA ByAddressOnce ==
    ASSUME NEW D \in SUBSET ((1..MaxPlugs) \X Devices),
           \A p, q \in D : address[p[1]] = address[q[1]] => p = q,
           \A p, q \in D : p[2] = q[2] => p = q, Addresses(D) \subseteq Nat
    PROVE  OncePerDevice(ByAddress(D))
<1> DEFINE q == ByAddress(D)
           N == Cardinality(D)
           A == Addresses(D)
           f == [p \in D |-> address[p[1]]]
<1>1. IsFiniteSet(1..MaxPlugs) /\ IsFiniteSet(Devices)
  BY BoundsAssumption, FS_Interval
<1>2. IsFiniteSet((1..MaxPlugs) \X Devices)
  BY <1>1, FS_Product
<1>3. IsFiniteSet(D) /\ N \in Nat
  BY <1>2, FS_Subset, FS_CardinalityType
<1>4. f \in Surjection(D, A) /\ f \in Injection(D, A)
  <2>1. f \in [D -> A] /\ \A a \in A : \E p \in D : f[p] = a
    BY DEF Addresses
  <2>2. \A p, r \in D : f[p] = f[r] => p = r
    OBVIOUS
  <2> HIDE DEF f, A
  <2> QED  BY <2>1, <2>2 DEF Surjection, Injection, IsInjective
<1>5. IsFiniteSet(A) /\ Cardinality(A) = N
  <2> HIDE DEF f, A
  <2> QED  BY <1>3, <1>4, FS_Surjection
<1>6. ASSUME NEW k \in 1..N
      PROVE  q[k] \in D /\ address[q[k][1]] = Nth(A, k)
  <2>1. Nth(A, k) \in A
    <3>1. A \in SUBSET Nat /\ k \in 1..Cardinality(A)
      BY <1>5
    <3> HIDE DEF A
    <3> QED  BY <1>5, <3>1, NthHasRank
  <2>2. \E p \in D : address[p[1]] = Nth(A, k)
    BY <2>1 DEF Addresses
  <2>3. q[k] = CHOOSE p \in D : address[p[1]] = Nth(A, k)
    BY DEF ByAddress
  <2> QED  BY <2>2, <2>3
<1>7. Len(q) = N
  <2>1. q \in [1..N -> D]
    BY <1>6 DEF ByAddress
  <2> HIDE DEF q, N
  <2> QED  BY <1>3, <2>1, SeqDef
<1>8. ASSUME NEW k \in 1..N, NEW l \in 1..N, q[k][2] = q[l][2]
      PROVE  k = l
  <2>1. q[k] = q[l]
    BY <1>6, <1>8
  <2>2. Nth(A, k) = Nth(A, l)
    BY <1>6, <2>1
  <2>3. A \in SUBSET Nat /\ k \in 1..Cardinality(A) /\ l \in 1..Cardinality(A)
    BY <1>5
  <2> HIDE DEF A
  <2> QED  BY <1>5, <2>2, <2>3, NthIsOneToOne
<1> HIDE DEF q, N
<1> QED  BY <1>7, <1>8 DEF OncePerDevice, q

(* A new task has no place among the old ones. *)
Retained(m, n) == [i \in DOMAIN n.tasks |-> IF i \in DOMAIN m.tasks THEN i ELSE 0]

(* The devices that are inserted are there, and new to the manager. *)
AreNew(m, queue) ==
    \A x \in 1..Len(queue) :
        queue[x][1] = plugged[queue[x][2]] /\ ~Handled(m, queue[x][2])

(* What insertions, of devices that are there, and removals lead to is traced. *)
LEMMA InsertedIsTraced ==
    ASSUME NEW m, Consistent(m), NEW a, NEW queue, Len(queue) \in Nat, OncePerDevice(queue),
           HasInserted(m, a, queue, Len(queue)), AreNew(m, queue), NEW n, Remains(a, n)
    PROVE  Traced(m, n, Retained(m, n))
<1> USE DEF Remains
<1> DEFINE M == Len(m.tasks)
           N == Len(queue)
           g == Retained(m, n)
<1>1. /\ n.tasks \in Seq(Tasks) /\ m.tasks \in Seq(Tasks)
      /\ Len(n.tasks) = M + N /\ M \in Nat /\ N \in Nat
  BY DEF HasInserted, Consistent, Typed
<1>2. DOMAIN m.tasks = 1..M /\ DOMAIN n.tasks = 1..(M + N)
  BY <1>1
<1>3. \A i \in DOMAIN n.tasks :
         IF i \in DOMAIN m.tasks THEN g[i] = i ELSE g[i] = 0 /\ i - M \in 1..N /\ i = M + (i - M)
  <2>1. \A i \in 1..(M + N) : i \notin 1..M => i - M \in 1..N /\ i = M + (i - M)
    BY <1>1
  <2> QED  BY <1>2, <2>1 DEF Retained
<1>4. 0 \notin DOMAIN m.tasks
  BY <1>2
<1>5. \A i \in DOMAIN m.tasks : n.tasks[i] = m.tasks[i]
  BY <1>2 DEF HasInserted
<1>6. \A x \in 1..N :
         /\ TaskAt(m, n, x).kind = "configure"
         /\ TaskAt(m, n, x).stage \in {"asked", "done"}
         /\ TaskAt(m, n, x).usb.device = queue[x][1]
         /\ TaskAt(m, n, x).usb.serial = queue[x][2]
         /\ TaskAt(m, n, x).stage = "asked" =>
               /\ TaskAt(m, n, x).conn \in DOMAIN n.conns
               /\ n.conns[TaskAt(m, n, x).conn].usb.serial = queue[x][2]
  <2>1. \A x \in 1..N : M + x \in DOMAIN n.tasks
    BY <1>1, <1>2
  <2>2. ASSUME NEW x \in 1..N
        PROVE  /\ TaskAt(m, n, x).kind = "configure"
               /\ TaskAt(m, n, x).stage \in {"asked", "done"}
               /\ TaskAt(m, n, x).usb.device = queue[x][1]
               /\ TaskAt(m, n, x).usb.serial = queue[x][2]
    BY DEF HasInserted, TaskAt
  <2>3. ASSUME NEW x \in 1..N, TaskAt(m, n, x).stage = "asked"
        PROVE  /\ TaskAt(m, n, x).conn \in DOMAIN n.conns
               /\ n.conns[TaskAt(m, n, x).conn].usb.serial = queue[x][2]
    <3>1. Consistent(a) /\ M + x \in DOMAIN a.tasks /\ a.tasks[M + x] = TaskAt(m, n, x)
      BY <2>1 DEF HasInserted, TaskAt
    <3>2. TaskIsRight(a, TaskAt(m, n, x))
      BY <3>1, TaskFields
    <3> QED  BY <2>2, <2>3, <3>2 DEF TaskIsRight
  <2> QED  BY <2>2, <2>3
<1>7. \A i \in DOMAIN n.tasks : i \notin DOMAIN m.tasks =>
         i - M \in 1..N /\ n.tasks[i] = TaskAt(m, n, i - M)
  BY <1>3 DEF TaskAt
<1>8. \A s \in DOMAIN n.sent : \E x \in 1..N :
         TaskAt(m, n, x).stage = "asked" /\ n.sent[s] = RequestOf(TaskAt(m, n, x))
  <2>1. \A x : TaskAt(m, n, x) = TaskAt(m, a, x)
    BY DEF TaskAt
  <2> QED  BY <2>1 DEF HasInserted
<1>9. \A r, s \in DOMAIN n.sent : n.sent[r].conn = n.sent[s].conn => r = s
  BY DEF HasInserted
<1> HIDE DEF g
<1>10. ASSUME NEW i \in DOMAIN n.tasks, Pending(n.tasks[i]), i \notin DOMAIN m.tasks
       PROVE  Inserted(m, n, g, i)
  <2> DEFINE t == n.tasks[i]
             y == i - M
  <2>1. y \in 1..N /\ t = TaskAt(m, n, y)
    BY <1>7, <1>10
  <2>2. /\ t.stage = "asked" /\ t.usb.device = plugged[t.usb.serial]
        /\ ~Handled(m, t.usb.serial) /\ t.usb.serial = queue[y][2]
        /\ n.conns[t.conn].usb.serial = queue[y][2]
    BY <1>6, <1>10, <2>1 DEF Pending, AreNew
  <2>3. ASSUME NEW j \in DOMAIN n.tasks, g[j] \notin DOMAIN m.tasks,
               n.tasks[j].usb.serial = t.usb.serial
        PROVE  j = i
    <3>1. j \notin DOMAIN m.tasks
      BY <1>3, <2>3
    <3>2. j - M \in 1..N /\ n.tasks[j] = TaskAt(m, n, j - M)
      BY <1>7, <3>1
    <3>3. n.tasks[j].usb.serial = queue[j - M][2]
      BY <1>6, <3>2
    <3>4. j - M = i - M
      BY <2>1, <2>2, <2>3, <3>2, <3>3 DEF OncePerDevice
    <3>5. i = M + (i - M) /\ j = M + (j - M)
      BY <1>3, <1>10, <3>1
    <3> QED  BY <3>4, <3>5
  <2>4. ASSUME NEW s \in DOMAIN n.sent, n.sent[s].conn = t.conn
        PROVE  n.sent[s].subnet = t.usb.reservation
    <3>1. PICK x \in 1..N :
              TaskAt(m, n, x).stage = "asked" /\ n.sent[s] = RequestOf(TaskAt(m, n, x))
      BY <1>8
    <3>2. TaskAt(m, n, x).conn = t.conn /\ n.sent[s].subnet = TaskAt(m, n, x).usb.reservation
      BY <2>4, <3>1 DEF RequestOf
    <3>3. queue[x][2] = queue[y][2]
      BY <1>6, <2>2, <3>1, <3>2
    <3>4. x = y
      BY <2>1, <3>3 DEF OncePerDevice
    <3> QED  BY <2>1, <3>2, <3>4
  <2> HIDE DEF t
  <2> QED  BY <1>9, <2>2, <2>3, <2>4 DEF Inserted, t
<1>11. TasksTraced(m, n, g)
  <2>1. SUFFICES ASSUME NEW i \in DOMAIN n.tasks, Pending(n.tasks[i])
                 PROVE  IF g[i] \in DOMAIN m.tasks
                        THEN /\ n.tasks[i] = m.tasks[g[i]]
                             /\ \A j \in DOMAIN n.tasks :
                                   Pending(n.tasks[j]) /\ g[j] = g[i] => j = i
                        ELSE Inserted(m, n, g, i)
    BY DEF TasksTraced
  <2>2. CASE i \in DOMAIN m.tasks
    BY <1>3, <1>4, <1>5, <2>2
  <2>3. CASE i \notin DOMAIN m.tasks
    BY <1>3, <1>4, <1>10, <2>1, <2>3
  <2> QED  BY <2>2, <2>3
<1>12. DevicesTraced(m, n, g)
  <2>1. a.infos = m.infos /\ a.incomplete = m.incomplete
    BY DEF HasInserted
  <2>2. \A i \in DOMAIN n.tasks : Fetching(n.tasks[i]) =>
            i \in DOMAIN m.tasks /\ n.tasks[i] = m.tasks[i]
    <3>1. "configure" # "fetch"
      OBVIOUS
    <3> QED  BY <1>5, <1>6, <1>7, <3>1 DEF Fetching
  <2>3. \A u : Configured(n, u) => Configured(m, u)
    BY <2>1, <2>2 DEF Configured
  <2> QED  BY <2>3 DEF DevicesTraced
<1>13. ConnsTraced(m, n)
  BY DEF HasInserted, Extends, ConnsTraced
<1>14. SentIsRight(m, n)
  <2>1. SUFFICES ASSUME NEW s \in DOMAIN n.sent
                 PROVE  /\ n.sent[s].conn \in DOMAIN n.conns
                        /\ ~Handled(m, n.conns[n.sent[s].conn].usb.serial)
    BY DEF SentIsRight
  <2>2. PICK x \in 1..N :
            TaskAt(m, n, x).stage = "asked" /\ n.sent[s] = RequestOf(TaskAt(m, n, x))
    BY <1>8
  <2>3. n.sent[s].conn = TaskAt(m, n, x).conn
    BY <2>2 DEF RequestOf
  <2> QED  BY <1>6, <2>2, <2>3 DEF AreNew
<1> QED  BY <1>11, <1>12, <1>13, <1>14 DEF Traced, g

(* A poll configures devices that are there and that the manager does not deal with,
   each once. *)
LEMMA PollSubnets ==
    ASSUME IInv, SubnetsAreTrue, NEW seen \in Seen, PollQdbDevices(seen)
    PROVE  SubnetsAreTrue'
<1> DEFINE inserted == {p \in seen : address[p[1]] \notin Addresses(known)}
           removed == {p \in known : address[p[1]] \notin Addresses(seen)}
           lost == {p[2] : p \in removed \cap Present}
<1>1. PICK outcome, used :
          Commit(AfterRemovals(AfterInsertions(manager, ByAddress(inserted), outcome, used),
                               ByAddress(removed)))
  BY DEF PollQdbDevices
<1>2. UNCHANGED <<plugged, config>> /\ missed \subseteq missed'
  BY DEF PollQdbDevices, busVars
<1>3. /\ seen \subseteq Present /\ known \subseteq (1..MaxPlugs) \X Devices
      /\ inserted \in SUBSET ((1..MaxPlugs) \X Devices) /\ inserted \subseteq Present
      /\ removed \in SUBSET ((1..MaxPlugs) \X Devices)
  <2>1. seen \subseteq Present
    BY DEF Seen
  <2> QED  BY <2>1, PresentProperties DEF IInv, BusTyped
<1>4. \A p \in inserted : address[p[1]] \notin Addresses(known)
  OBVIOUS
<1> HIDE DEF inserted, removed
<1>5. \A p \in inserted : /\ p = <<plugged[p[2]], p[2]>> /\ p[2] \in Devices
                          /\ plugged[p[2]] # None
  BY <1>3, PresentProperties DEF IInv
<1>6. OncePerDevice(ByAddress(inserted))
  <2>1. \A p, q \in inserted : address[p[1]] = address[q[1]] => p = q
    BY <1>5 DEF IInv, AddressesAreUnique
  <2>2. \A p, q \in inserted : p[2] = q[2] => p = q
    BY <1>5
  <2>3. Addresses(inserted) \subseteq Nat
    BY <1>3 DEF Addresses, IInv, BusTyped
  <2> QED  BY <1>3, <2>1, <2>2, <2>3, ByAddressOnce
<1>7. \A p \in inserted : ~Handled(manager, p[2])
  <2>1. SUFFICES ASSUME NEW p \in inserted, Handled(manager, p[2]) PROVE FALSE
    OBVIOUS
  <2>2. plugged[p[2]] \in 1..MaxPlugs
    BY <1>5 DEF IInv, BusTyped, None
  <2>3. p \in known
    BY <1>5, <2>1, <2>2 DEF Handled, IInv, CurrentAreKnown
  <2>4. address[p[1]] \in Addresses(known)
    BY <2>3 DEF Addresses
  <2> QED  BY <1>4, <2>4
<1> DEFINE queue == ByAddress(inserted)
           rest == ByAddress(removed)
           a == AfterInsertions(manager, queue, outcome, used)
           n == AfterRemovals(a, rest)
<1>8. Queued(queue) \subseteq inserted /\ Len(queue) \in Nat /\ Len(rest) \in Nat
      /\ OncePerDevice(queue)
  BY <1>3, <1>6, ByAddressQueues
<1> HIDE DEF queue, rest
<1>9. AreNew(manager, queue)
  <2>1. SUFFICES ASSUME NEW x \in 1..Len(queue)
                 PROVE  queue[x][1] = plugged[queue[x][2]] /\ ~Handled(manager, queue[x][2])
    BY DEF AreNew
  <2>2. <<queue[x][1], queue[x][2]>> \in inserted
    BY <1>8 DEF Queued
  <2>3. /\ <<queue[x][1], queue[x][2]>>[2] = queue[x][2]
        /\ <<queue[x][1], queue[x][2]>>[1] = queue[x][1]
    OBVIOUS
  <2> QED  BY <1>5, <1>7, <2>2, <2>3
<1>10. Consistent(manager) /\ manager.sent = <<>>
  BY DEF IInv, SubnetsAreTrue
<1>11. HasInserted(manager, a, queue, Len(queue))
  <2>1. Queued(queue) \subseteq (1..MaxPlugs) \X Devices
    BY <1>3, <1>8
  <2> QED  BY <1>8, <1>10, <2>1, InsertionsTraced
<1> HIDE DEF a
<1>12. Consistent(a)
  BY <1>11 DEF HasInserted
<1>13. Consistent(n) /\ Leads(a, n, {}) /\ Remains(a, n)
  BY <1>8, <1>12, RemovalsConsistent
<1>14. Commit(n)
  BY <1>1 DEF a, queue, rest
<1> HIDE DEF n
<1>15. Traced(manager, n, Retained(manager, n))
  BY <1>8, <1>9, <1>10, <1>11, <1>13, InsertedIsTraced
<1>16. LeadsTo(n, Retained(manager, n))
  BY <1>2, <1>13, <1>14, <1>15 DEF LeadsTo
<1> QED  BY <1>16, TracedKeepsSubnets
-----------------------------------------------------------------------------
(* In the beginning nobody asks for anything, and no device has a subnet. *)
LEMMA InitSubnets == Init => SubnetsAreTrue
<1> SUFFICES ASSUME Init PROVE SubnetsAreTrue
  OBVIOUS
<1>1. /\ manager.sent = <<>> /\ DOMAIN manager.tasks = {} /\ DOMAIN manager.infos = {}
      /\ DOMAIN manager.incomplete = {}
      /\ \A d \in Devices : DOMAIN inbox[d] = {}
  BY DEF Init, Fresh
<1>2. PendingOnce(manager) /\ AskedIsLast(manager, inbox) /\ AnsweredIsTrue(manager, inbox)
  BY <1>1 DEF PendingOnce, AskedIsLast, AnsweredIsTrue
<1>3. RequestsAreRight(manager, inbox)
  BY <1>1 DEF RequestsAreRight
<1>4. ConfiguredIsTrue(manager, inbox)
  BY <1>1 DEF ConfiguredIsTrue, Configured
<1> QED  BY <1>1, <1>2, <1>3, <1>4 DEF SubnetsAreTrue

(* Every step keeps the subnets true, of the host, of the devices and of the cables. *)
LEMMA StepSubnets == IInv /\ SubnetsAreTrue /\ [Next]_vars => SubnetsAreTrue'
<1> SUFFICES ASSUME IInv, SubnetsAreTrue, [Next]_vars PROVE SubnetsAreTrue'
  OBVIOUS
<1>1. CASE UNCHANGED vars
  <2>1. UNCHANGED <<plugged, config, inbox, manager, missed>>
    BY <1>1 DEF vars
  <2>2. \A u : Current(u)' <=> Current(u)
    BY <2>1 DEF Current
  <2> QED  BY <2>1, <2>2, BusStepSubnets
<1>2. ASSUME NEW seen \in Seen, PollQdbDevices(seen) PROVE SubnetsAreTrue'
  BY <1>2, PollSubnets
<1>3. CASE HandleReply
  BY <1>3, HandleReplySubnets
<1>4. CASE ConnectionLost
  BY <1>4, ConnectionLostSubnets
<1>5. CASE Reconnected
  BY <1>5, ReconnectedSubnets
<1>6. CASE TimerFires
  BY <1>6, TimerFiresSubnets
<1>7. CASE TaskDeleted
  BY <1>7, TaskDeletedSubnets
<1>8. CASE HostRestarts
  BY <1>8, HostRestartsSubnets
<1>9. CASE PlugIn
  BY <1>9, PlugInSubnets
<1>10. CASE Unplug
  BY <1>10, UnplugSubnets
<1>11. CASE Suspend
  BY <1>11, SuspendSubnets
<1>12. CASE Reset
  BY <1>12, ResetSubnets
<1>13. CASE DeviceHandles
  BY <1>13, DeviceHandlesSubnets
<1> QED  BY <1>1, <1>2, <1>3, <1>4, <1>5, <1>6, <1>7, <1>8, <1>9, <1>10, <1>11, <1>12, <1>13
         DEF Next

(* A listed device that is there, and that every poll has seen, uses the subnet that is
   reserved for it or none, however polls, replugs, restarts of the host and requests of
   tasks that are gone were interleaved (networkconfigurator.cpp:86-118). *)
THEOREM ListedSubnetsAreReserved == Spec => []ListedSubnetIsReserved
<1>1. IInv /\ SubnetsAreTrue => ListedSubnetIsReserved
  <2> SUFFICES ASSUME IInv, SubnetsAreTrue, NEW i \in DOMAIN manager.infos,
                      NEW u, u = manager.infos[i].usb, Current(u)
               PROVE  config[u.serial] \in {None, u.reservation}
    BY DEF ListedSubnetIsReserved, Current
  <2>1. manager.infos \in Seq(Infos)
    BY DEF IInv, Consistent, Typed
  <2>2. u \in UsbDevices
    <3>1. manager.infos[i] \in Infos
      BY <2>1
    <3> QED  BY <3>1 DEF Infos
  <2>3. Configured(manager, u)
    BY DEF Configured
  <2>4. Settles(u, inbox)
    BY <2>2, <2>3 DEF SubnetsAreTrue, ConfiguredIsTrue
  <2> QED  BY <2>4 DEF Settles
<1> QED  BY <1>1, InitSubnets, StepSubnets, Invariance, PTL DEF Spec
=============================================================================
