---------------------------- MODULE StreamProofs ----------------------------
(***************************************************************************)
(* Proofs about one direction of a stream, for packets of any bytes, in    *)
(* any number and cut into messages of any size.                           *)
(*                                                                         *)
(* First that the size put before a packet is the size that is read, then  *)
(* that the pieces of a packet fit together (a Chain), then that what is   *)
(* on the way is always a chain that fits what the reader waits for (IInv),*)
(* and from that the properties of module Stream, the refinement of module *)
(* PacketStream among them.                                                *)
(***************************************************************************)
EXTENDS Stream, TLAPS

(* What the integer quotient bounds. *)
LEMMA Division ==
    ASSUME NEW x \in Nat, NEW M \in Nat, M > 0
    PROVE  /\ x \div M \in Nat
           /\ (x \div M) * M <= x
           /\ x < (x \div M) * M + M
  OBVIOUS

(* The loop of write() makes as many messages as it takes for all of the data,
   the last of them with some (stream.cpp:59-64). *)
LEMMA NumberOfPiecesBounds ==
    ASSUME NEW size \in Nat, size > 0
    PROVE  LET n == NumberOfPieces(size)
           IN  /\ n \in Nat /\ n >= 1
               /\ (n - 1) * qdbMaxPayloadSize < size
               /\ size <= n * qdbMaxPayloadSize
  <1> SUFFICES ASSUME NEW M \in Nat, M >= 4, M = qdbMaxPayloadSize,
                      NEW n \in Nat, n = NumberOfPieces(size)
               PROVE  n >= 1 /\ (n - 1) * M < size /\ size <= n * M
    BY SizeAssumption, Division DEF NumberOfPieces
  <1>1. n * M <= size + M - 1 /\ size + M - 1 < n * M + M
    BY Division DEF NumberOfPieces
  <1>2. n # 0
    BY <1>1
  <1>3. (n - 1) * M = n * M - M
    OBVIOUS
  <1> QED BY <1>1, <1>2, <1>3

(* Every piece but the last is full, and lies inside of the data. *)
LEMMA Monotone ==
    ASSUME NEW M \in Nat, M > 0, NEW n \in Nat, NEW k \in 1..n - 1
    PROVE  k * M <= (n - 1) * M /\ (k - 1) * M + M = k * M /\ (k - 1) * M \in Nat /\ k * M \in Nat
  OBVIOUS

(* The last of the digits of n in base 256, and what is before it. *)
LEMMA DivideBy256 ==
    ASSUME NEW n \in Nat, NEW bound \in Nat, n < 256 * bound
    PROVE  n \div 256 \in Nat /\ n \div 256 < bound /\ n % 256 \in 0..255
           /\ n = 256 * (n \div 256) + (n % 256)
  BY SMT

(* Shifting by 16 or 24 bits is shifting by 8 bits twice or three times. *)
LEMMA DivideTwice ==
    ASSUME NEW n \in Nat
    PROVE  /\ n \div 65536 = (n \div 256) \div 256
           /\ n \div 16777216 = ((n \div 256) \div 256) \div 256
  <1> DEFINE x == n \div 256
             y == x \div 256
             z == y \div 256
  <1>1. /\ x \in Nat /\ 256 * x <= n /\ n <= 256 * x + 255
        /\ y \in Nat /\ 256 * y <= x /\ x <= 256 * y + 255
        /\ z \in Nat /\ 256 * z <= y /\ y <= 256 * z + 255
    BY SMT
  <1> HIDE DEF x, y, z
  <1>2. n \div 65536 = y
    BY <1>1, SMT
  <1>3. n \div 16777216 = z
    BY <1>1, SMT
  <1> QED BY <1>2, <1>3 DEF x, y, z

(* The four bytes of a size, the first of them below 128: the size of a
   QByteArray is never read back as a negative number. *)
LEMMA Base256 ==
    ASSUME NEW n \in Nat, n <= MaxPacketSize
    PROVE  /\ (n \div 16777216) % 256 \in 0..127
           /\ (n \div 65536) % 256 \in 0..255
           /\ (n \div 256) % 256 \in 0..255
           /\ n % 256 \in 0..255
           /\ 16777216 * ((n \div 16777216) % 256) + 65536 * ((n \div 65536) % 256)
               + 256 * ((n \div 256) % 256) + (n % 256) = n
  <1> DEFINE x == n \div 256
             y == x \div 256
             z == y \div 256
  <1>1. n \in Nat /\ n < 256 * 8388608
    BY SMT DEF MaxPacketSize
  <1>2. x \in Nat /\ x < 256 * 32768 /\ n % 256 \in 0..255 /\ n = 256 * x + (n % 256)
    BY <1>1, SMT
  <1>3. y \in Nat /\ y < 256 * 128 /\ x % 256 \in 0..255 /\ x = 256 * y + (x % 256)
    BY <1>2, SMT
  <1>4. z \in Nat /\ z < 128 /\ y % 256 \in 0..255 /\ y = 256 * z + (y % 256)
    BY <1>3, SMT
  <1>5. z % 256 = z
    BY <1>4, SMT
  <1>6. n \div 65536 = y /\ n \div 16777216 = z
    BY <1>1, DivideTwice, SMT
  <1> HIDE DEF z, y
  <1>7. (n \div 256) % 256 = x % 256
    OBVIOUS
  <1> HIDE DEF x
  <1> QED BY <1>1, <1>2, <1>3, <1>4, <1>5, <1>6, <1>7, SMT

(* The size that receiveMessage() reads is the size that wrapPacket() wrote
   (stream.cpp:36-42, 102-109). *)
LEMMA Uint32RoundTrip ==
    ASSUME NEW n \in Nat, n <= MaxPacketSize
    PROVE  /\ Uint32(n) \in Seq(Byte) /\ Len(Uint32(n)) = 4
           /\ ReadInt32(Uint32(n)) = n
  <1> DEFINE a == (n \div 16777216) % 256
             b == (n \div 65536) % 256
             c == (n \div 256) % 256
             d == n % 256
  <1>1. /\ a \in 0..127 /\ b \in 0..255 /\ c \in 0..255 /\ d \in 0..255
        /\ 16777216 * a + 65536 * b + 256 * c + d = n
    BY Base256, SMT
  <1>2. Uint32(n) = <<a, b, c, d>>
    BY SMT DEF Uint32
  <1> HIDE DEF a, b, c, d
  <1>3. Uint32(n) \in Seq(Byte) /\ Len(Uint32(n)) = 4
    BY <1>1, <1>2, SMT DEF Byte
  <1>4. ReadInt32(Uint32(n)) = n
    BY <1>1, <1>2, SMT DEF ReadInt32
  <1> QED BY <1>3, <1>4, SMT
-----------------------------------------------------------------------------
(* What two sequences put together are. *)
LEMMA Concatenation ==
    ASSUME NEW S, NEW q \in Seq(S), NEW s \in Seq(S)
    PROVE  /\ q \o s \in Seq(S) /\ Len(q \o s) = Len(q) + Len(s)
           /\ \A i \in 1..Len(q) : (q \o s)[i] = q[i]
           /\ \A i \in 1..Len(s) : (q \o s)[Len(q) + i] = s[i]
  OBVIOUS

(* WrapPacket(p) is the size of p and then p. *)
LEMMA WrapPacketIsSizeThenData ==
    ASSUME NEW p \in Packets
    PROVE  /\ p \in Seq(Byte) /\ Len(p) > 0 /\ Len(p) <= MaxPacketSize
           /\ WrapPacket(p) \in Seq(Byte)
           /\ Len(WrapPacket(p)) = Len(p) + 4
           /\ \A i \in 1..Len(p) : WrapPacket(p)[4 + i] = p[i]
           /\ \A i \in 1..4 : WrapPacket(p)[i] = Uint32(Len(p))[i]
  <1>1. p \in Seq(Byte) /\ Len(p) > 0 /\ Len(p) <= MaxPacketSize
    BY PacketsAssumption
  <1>2. Len(p) \in Nat
    BY <1>1
  <1>3. Uint32(Len(p)) \in Seq(Byte) /\ Len(Uint32(Len(p))) = 4
    BY <1>1, <1>2, Uint32RoundTrip
  <1> DEFINE u == Uint32(Len(p))
  <1>4. WrapPacket(p) = u \o p
    BY DEF WrapPacket
  <1> HIDE DEF u
  <1>5. u \in Seq(Byte) /\ Len(u) = 4
    BY <1>3 DEF u
  <1>a. u \in Seq(Byte) /\ p \in Seq(Byte)
    BY <1>1, <1>5
  <1>6. u \o p \in Seq(Byte) /\ Len(u \o p) = Len(u) + Len(p)
    BY <1>a, Concatenation
  <1>7. \A i \in 1..Len(u) : (u \o p)[i] = u[i]
    BY <1>a, Concatenation
  <1>8. \A i \in 1..Len(p) : (u \o p)[Len(u) + i] = p[i]
    BY <1>a
  <1> QED BY <1>1, <1>2, <1>4, <1>5, <1>6, <1>7, <1>8 DEF u

(* Of a Write m of a stream with the packets w: where in its packet it ends,
   and which byte of which packet comes next. *)
Whole(w, m) == WrapPacket(w[m.packet])

EndOf(m) == m.from + Len(m.data)

After(w, m) == IF EndOf(m) = Len(Whole(w, m)) THEN <<m.packet + 1, 0>>
                                              ELSE <<m.packet, EndOf(m)>>

(* A Write has the bytes it says it has, and a size that it begins is all in
   it. *)
IsPiece(w, m) ==
    /\ m.packet \in 1..Len(w)
    /\ Len(m.data) > 0
    /\ m.from = 0 => Len(m.data) >= 4
    /\ m.from > 0 => m.from >= 4
    /\ EndOf(m) <= Len(Whole(w, m))
    /\ \A i \in 1..Len(m.data) : m.data[i] = Whole(w, m)[m.from + i]

(* A message on the way: a Close, or a piece of one of the packets. *)
IsMessage(w, m) ==
    /\ m \in Message
    /\ m.command = "Write" => IsPiece(w, m)

(* m may come to a reader that waits for this byte of this packet. *)
FitsAt(position, m) ==
    IF m.command = "Write" THEN <<m.packet, m.from>> = position
    ELSE m.packet > 0 => <<m.packet + 1, 0>> = position

(* n may come after m. *)
Follows(w, m, n) == m.command = "Write" => FitsAt(After(w, m), n)

(* Messages of which each may come after the one before it. *)
Chain(w, q) ==
    /\ \A i \in 1..Len(q) : IsMessage(w, q[i])
    /\ \A i \in 1..Len(q) - 1 : Follows(w, q[i], q[i + 1])

(* What comes after q begins at this position. *)
EndsAt(w, q, position) == q[Len(q)].command = "Write" => After(w, q[Len(q)]) = position

(* A chain goes on with a message that fits its last one. *)
LEMMA ChainOfMessages ==
    ASSUME NEW w, NEW q \in Seq(Message), NEW m \in Message, Chain(w, q),
           IsMessage(w, m), q # <<>> => Follows(w, q[Len(q)], m)
    PROVE  Chain(w, Append(q, m))
  <1> DEFINE r == Append(q, m)
  <1>1. r \in Seq(Message) /\ Len(r) = Len(q) + 1 /\ Len(q) \in Nat
    OBVIOUS
  <1>2. \A i \in 1..Len(q) : r[i] = q[i]
    OBVIOUS
  <1>3. r[Len(q) + 1] = m
    OBVIOUS
  <1>4. ASSUME NEW i \in 1..Len(r) PROVE IsMessage(w, r[i])
    <2>1. CASE i \in 1..Len(q) BY <2>1, <1>2 DEF Chain
    <2>2. CASE i = Len(q) + 1 BY <2>2, <1>3
    <2> QED BY <2>1, <2>2, <1>1
  <1>5. ASSUME NEW i \in 1..Len(r) - 1 PROVE Follows(w, r[i], r[i + 1])
    <2>1. CASE i \in 1..Len(q) - 1
      <3>1. r[i] = q[i] /\ r[i + 1] = q[i + 1] BY <2>1, <1>1, <1>2
      <3> QED BY <2>1, <3>1 DEF Chain
    <2>2. CASE i = Len(q)
      <3>1. q # <<>> BY <2>2, <1>1
      <3>2. r[i] = q[Len(q)] /\ r[i + 1] = m BY <2>2, <1>1, <1>2, <1>3
      <3> QED BY <3>1, <3>2
    <2> QED BY <2>1, <2>2, <1>1
  <1> QED BY <1>4, <1>5 DEF Chain

(* Two chains make one if the second begins where the first ends. *)
LEMMA ChainOfChains ==
    ASSUME NEW w, NEW q \in Seq(Message), NEW s \in Seq(Message), Chain(w, q), Chain(w, s),
           q # <<>> /\ s # <<>> => Follows(w, q[Len(q)], s[1])
    PROVE  Chain(w, q \o s)
  <1> DEFINE r == q \o s
  <1>1. r \in Seq(Message) /\ Len(r) = Len(q) + Len(s) /\ Len(q) \in Nat /\ Len(s) \in Nat
    OBVIOUS
  <1>2. \A i \in 1..Len(q) : r[i] = q[i]
    OBVIOUS
  <1>3. \A i \in 1..Len(s) : r[Len(q) + i] = s[i]
    OBVIOUS
  <1> HIDE DEF r
  <1>4. ASSUME NEW i \in 1..Len(r) PROVE IsMessage(w, r[i])
    <2>1. CASE i \in 1..Len(q) BY <2>1, <1>2 DEF Chain
    <2>2. CASE i > Len(q)
      <3> DEFINE j == i - Len(q)
      <3>1. j \in 1..Len(s) /\ i = Len(q) + j BY <2>2, <1>1
      <3> HIDE DEF j
      <3> QED BY <3>1, <1>3 DEF Chain
    <2> QED BY <2>1, <2>2, <1>1
  <1>5. ASSUME NEW i \in 1..Len(r) - 1 PROVE Follows(w, r[i], r[i + 1])
    <2>1. CASE i \in 1..Len(q) - 1
      <3>1. r[i] = q[i] /\ r[i + 1] = q[i + 1] BY <2>1, <1>1, <1>2
      <3> QED BY <2>1, <3>1 DEF Chain
    <2>2. CASE i = Len(q)
      <3>1. q # <<>> /\ s # <<>> BY <2>2, <1>1
      <3>2. r[i] = q[Len(q)] /\ r[i + 1] = s[1] BY <2>2, <1>1, <1>2, <1>3
      <3> QED BY <3>1, <3>2
    <2>3. CASE i > Len(q)
      <3> DEFINE j == i - Len(q)
      <3>1. j \in 1..Len(s) - 1 /\ i = Len(q) + j BY <2>3, <1>1
      <3> HIDE DEF j
      <3>2. r[i] = s[j] /\ r[i + 1] = s[j + 1] BY <3>1, <1>1, <1>3
      <3> QED BY <3>1, <3>2 DEF Chain
    <2> QED BY <2>1, <2>2, <2>3, <1>1
  <1> QED BY <1>4, <1>5 DEF Chain, r

(* What is sent first of a chain is a chain. *)
LEMMA ChainPrefix ==
    ASSUME NEW w, NEW q \in Seq(Message), NEW s \in Seq(Message), Chain(w, q \o s)
    PROVE  Chain(w, q)
  <1> DEFINE r == q \o s
  <1>1. Len(r) = Len(q) + Len(s) /\ Len(q) \in Nat /\ Len(s) \in Nat
    OBVIOUS
  <1>2. \A i \in 1..Len(q) : r[i] = q[i]
    OBVIOUS
  <1>3. Chain(w, r)
    OBVIOUS
  <1> HIDE DEF r
  <1> QED BY <1>1, <1>2, <1>3 DEF Chain

(* What is left of a chain when its first message is taken is a chain. *)
LEMMA ChainTail ==
    ASSUME NEW w, NEW q \in Seq(Message), q # <<>>, Chain(w, q)
    PROVE  Chain(w, Tail(q))
  <1>1. Len(Tail(q)) = Len(q) - 1 /\ Len(q) \in Nat /\ Len(q) > 0
    OBVIOUS
  <1>2. \A i \in 1..Len(q) - 1 : Tail(q)[i] = q[i + 1]
    OBVIOUS
  <1> QED BY <1>1, <1>2 DEF Chain

(* What is known of the messages on the way stays true as packets are added. *)
LEMMA ChainStays ==
    ASSUME NEW w \in Seq(Packets), NEW p \in Packets, NEW q \in Seq(Message), Chain(w, q)
    PROVE  /\ Chain(Append(w, p), q)
           /\ \A i \in 1..Len(q) :
                 q[i].command = "Write" => After(Append(w, p), q[i]) = After(w, q[i])
  <1> DEFINE v == Append(w, p)
  <1>1. Len(v) = Len(w) + 1 /\ Len(w) \in Nat /\ \A i \in 1..Len(w) : v[i] = w[i]
    OBVIOUS
  <1> HIDE DEF v
  <1>2. ASSUME NEW m \in Message, IsMessage(w, m)
        PROVE  /\ IsMessage(v, m)
               /\ m.command = "Write" => After(v, m) = After(w, m)
    <2>1. CASE m.command # "Write" BY <2>1, <1>2 DEF IsMessage
    <2>2. CASE m.command = "Write"
      <3>1. IsPiece(w, m) BY <2>2, <1>2 DEF IsMessage
      <3>2. Whole(v, m) = Whole(w, m) BY <3>1, <1>1 DEF Whole, IsPiece
      <3>3. IsPiece(v, m) BY <3>1, <3>2, <1>1 DEF IsPiece
      <3> QED BY <3>2, <3>3, <1>2 DEF IsMessage, After
    <2> QED BY <2>1, <2>2
  <1>3. \A i \in 1..Len(q) : q[i] \in Message /\ IsMessage(w, q[i])
    BY DEF Chain
  <1>4. \A i \in 1..Len(q) - 1 : i \in 1..Len(q) /\ Follows(w, q[i], q[i + 1])
    BY DEF Chain
  <1>5. \A i \in 1..Len(q) - 1 : Follows(v, q[i], q[i + 1])
    BY <1>2, <1>3, <1>4 DEF Follows
  <1> QED BY <1>2, <1>3, <1>5 DEF Chain, v

(* Where the pieces of data of the given length begin and end. *)
AreCuts(length, n, start, end) ==
    /\ n >= 1
    /\ \A k \in 1..n : /\ start[k] < end[k] /\ end[k] <= length
                       /\ k > 1 => start[k] >= 4
                       /\ k < n => end[k] = start[k + 1] /\ end[k] < length
    /\ start[1] = 0 /\ end[1] >= 4 /\ end[n] = length

(* The pieces that write() cuts follow each other without gap or overlap, and
   the first of them has all of the size. *)
LEMMA Cuts ==
    ASSUME NEW length \in Nat, length > 4
    PROVE  \E n \in Nat : \E start \in [1..n -> Nat], end \in [1..n -> Nat] :
             /\ n = NumberOfPieces(length)
             /\ \A k \in 1..n :
                   /\ start[k] = (k - 1) * qdbMaxPayloadSize
                   /\ end[k] = IF k * qdbMaxPayloadSize <= length
                               THEN k * qdbMaxPayloadSize ELSE length
             /\ AreCuts(length, n, start, end)
  <1>1. PICK M \in Nat : M = qdbMaxPayloadSize /\ M >= 4
    BY SizeAssumption
  <1>2. PICK n \in Nat : n = NumberOfPieces(length) /\ n >= 1
                          /\ (n - 1) * M < length /\ length <= n * M
    BY <1>1, NumberOfPiecesBounds
  <1> DEFINE start == [k \in 1..n |-> (k - 1) * M]
             end == [k \in 1..n |-> IF k * M <= length THEN k * M ELSE length]
  <1>3. ASSUME NEW k \in 1..n - 1
        PROVE  /\ start[k] = (k - 1) * M /\ end[k] = k * M
               /\ start[k] \in Nat /\ end[k] \in Nat
               /\ start[k] < end[k] /\ end[k] < length /\ end[k] = start[k + 1]
    <2>1. /\ k * M <= (n - 1) * M /\ (k - 1) * M + M = k * M
          /\ (k - 1) * M \in Nat /\ k * M \in Nat /\ (n - 1) * M \in Nat
      BY <1>1, <1>2, Monotone
    <2>2. k * M < length
      BY <2>1, <1>2
    <2>3. k \in 1..n /\ k + 1 \in 1..n /\ k + 1 - 1 = k
      BY <1>2
    <2> QED BY <2>1, <2>2, <2>3, <1>1
  <1>4. start[n] = (n - 1) * M /\ start[n] \in Nat /\ end[n] = length /\ start[n] < end[n]
    <2>1. n \in 1..n /\ (n - 1) * M \in Nat /\ n * M \in Nat
      BY <1>1, <1>2
    <2> QED BY <2>1, <1>1, <1>2
  <1>5. start[1] = 0 /\ end[1] >= 4
    <2>1. 1 \in 1..n /\ (1 - 1) * M = 0 /\ 1 * M = M
      BY <1>1, <1>2
    <2> QED BY <2>1, <1>1
  <1>6. ASSUME NEW k \in 1..n, k > 1 PROVE start[k] >= 4
    <2> DEFINE j == k - 1
    <2>1. j \in Nat /\ j >= 1 BY <1>6
    <2>2. start[k] = j * M OBVIOUS
    <2> HIDE DEF j, start
    <2>3. j * M >= M BY <2>1, <1>1
    <2> QED BY <2>1, <2>2, <2>3, <1>1
  <1>7. \A k \in 1..n : /\ start[k] = (k - 1) * qdbMaxPayloadSize
                        /\ end[k] = IF k * qdbMaxPayloadSize <= length
                           THEN k * qdbMaxPayloadSize ELSE length
    BY <1>1
  <1>8. DOMAIN start = 1..n /\ DOMAIN end = 1..n
    OBVIOUS
  <1>9. start = [k \in 1..n |-> start[k]] /\ end = [k \in 1..n |-> end[k]]
    OBVIOUS
  <1> HIDE DEF start, end
  <1>10. ASSUME NEW k \in 1..n
         PROVE  /\ start[k] \in Nat /\ end[k] \in Nat
                /\ start[k] < end[k] /\ end[k] <= length
                /\ k < n => end[k] = start[k + 1] /\ end[k] < length
    <2>1. CASE k = n BY <2>1, <1>4
    <2>2. CASE k \in 1..n - 1 BY <2>2, <1>3
    <2> QED BY <2>1, <2>2, <1>2
  <1>11. start \in [1..n -> Nat] /\ end \in [1..n -> Nat]
    BY <1>9, <1>10
  <1>12. \A k \in 1..n : k > 1 => start[k] >= 4
    BY <1>6
  <1>13. AreCuts(length, n, start, end)
    BY <1>2, <1>4, <1>5, <1>10, <1>12, Zenon DEF AreCuts
  <1> QED BY <1>2, <1>7, <1>11, <1>13, Zenon

(* What QByteArray::mid() returns inside of the data. *)
LEMMA SubSequence ==
    ASSUME NEW S, NEW q \in Seq(S), NEW a \in Nat, NEW b \in Nat, a < b, b <= Len(q)
    PROVE  /\ SubSeq(q, a + 1, b) \in Seq(S) /\ Len(SubSeq(q, a + 1, b)) = b - a
           /\ \A i \in 1..b - a : SubSeq(q, a + 1, b)[i] = q[a + i]
  OBVIOUS

(* A piece of a packet, from byte a + 1 to byte b of what is put together. *)
PieceOf(data, number, a, b) == WriteMessage(SubSeq(data, a + 1, b), number, a)

(* The bytes from a + 1 to b of a packet may be a piece of it. *)
IsCut(v, data, number, a, b) ==
    /\ v \in Seq(Packets) /\ number \in 1..Len(v)
    /\ data \in Seq(Byte) /\ WrapPacket(v[number]) = data
    /\ a \in Nat /\ b \in Nat /\ a < b /\ b <= Len(data)
    /\ a = 0 => b >= 4
    /\ a > 0 => a >= 4

(* m is that piece. *)
IsCutTo(v, data, number, a, b, m) ==
    /\ m \in Message /\ m.command = "Write" /\ m.packet = number /\ m.from = a
    /\ IsMessage(v, m)
    /\ After(v, m) = IF b = Len(data) THEN <<number + 1, 0>> ELSE <<number, b>>

(* A cut of a packet is a message of its stream, and the next one begins where
   it ends. *)
LEMMA OnePiece ==
    ASSUME NEW v, NEW number, NEW data, NEW a, NEW b, IsCut(v, data, number, a, b)
    PROVE  IsCutTo(v, data, number, a, b, PieceOf(data, number, a, b))
  <1> DEFINE piece == SubSeq(data, a + 1, b)
             m == WriteMessage(piece, number, a)
  <1>0. /\ v \in Seq(Packets) /\ number \in 1..Len(v)
        /\ data \in Seq(Byte) /\ WrapPacket(v[number]) = data
        /\ a \in Nat /\ b \in Nat /\ a < b /\ b <= Len(data)
        /\ a = 0 => b >= 4
        /\ a > 0 => a >= 4
    BY DEF IsCut
  <1>1. /\ piece \in Seq(Byte) /\ Len(piece) = b - a
        /\ \A i \in 1..b - a : piece[i] = data[a + i]
    BY SubSequence, <1>0
  <1> HIDE DEF piece
  <1>2. /\ m.command = "Write" /\ m.packet = number /\ m.from = a /\ m.data = piece
    BY DEF WriteMessage
  <1>3. m \in Message
    <2>1. number \in Nat /\ a \in Nat
      BY <1>0
    <2> QED BY <1>1, <2>1 DEF WriteMessage, Message
  <1> HIDE DEF m
  <1>4. Whole(v, m) = data /\ EndOf(m) = b
    BY <1>0, <1>1, <1>2 DEF Whole, EndOf
  <1>5. IsPiece(v, m)
    BY <1>0, <1>1, <1>2, <1>4 DEF IsPiece
  <1>6. After(v, m) = IF b = Len(data) THEN <<number + 1, 0>> ELSE <<number, b>>
    BY <1>2, <1>4 DEF After
  <1>7. IsMessage(v, m)
    BY <1>2, <1>3, <1>5 DEF IsMessage
  <1>8. m = PieceOf(data, number, a, b)
    BY DEF m, piece, PieceOf
  <1>9. IsCutTo(v, data, number, a, b, m)
    BY <1>2, <1>3, <1>6, <1>7 DEF IsCutTo
  <1> QED BY <1>8, <1>9

(* The n pieces cut at these places. *)
CutPieces(data, number, n, start, end) ==
    [k \in 1..n |-> PieceOf(data, number, start[k], end[k])]

(* A chain that has all of one packet, which comes after the packets w. *)
IsPacketChain(w, v, q) ==
    /\ q \in Seq(Message) /\ q # <<>> /\ Chain(v, q)
    /\ q[1].command = "Write" /\ FitsAt(<<Len(w) + 1, 0>>, q[1])
    /\ q[Len(q)].command = "Write"
    /\ After(v, q[Len(q)]) = <<Len(v) + 1, 0>>

(* Pieces that follow each other are a chain, which has all of the packet. *)
LEMMA CutsMakeAChain ==
    ASSUME NEW w \in Seq(Packets), NEW v \in Seq(Packets), NEW data \in Seq(Byte),
           Len(v) = Len(w) + 1, WrapPacket(v[Len(w) + 1]) = data,
           NEW n \in Nat, NEW start \in [1..n -> Nat], NEW end \in [1..n -> Nat],
           AreCuts(Len(data), n, start, end)
    PROVE  IsPacketChain(w, v, CutPieces(data, Len(w) + 1, n, start, end))
  <1> DEFINE M(k) == PieceOf(data, Len(w) + 1, start[k], end[k])
             q == [k \in 1..n |-> M(k)]
  <1>1. /\ n >= 1 /\ 1 \in 1..n /\ n \in 1..n
        /\ start[1] = 0 /\ end[1] >= 4 /\ end[n] = Len(data)
    BY DEF AreCuts
  <1>2. ASSUME NEW k \in 1..n
        PROVE  /\ start[k] \in Nat /\ end[k] \in Nat /\ start[k] < end[k] /\ end[k] <= Len(data)
               /\ start[k] = 0 => end[k] >= 4
               /\ start[k] > 0 => start[k] >= 4
    <2>1. start[k] \in Nat /\ end[k] \in Nat
      OBVIOUS
    <2>2. start[k] < end[k] /\ end[k] <= Len(data) /\ (k > 1 => start[k] >= 4)
      BY Zenon DEF AreCuts
    <2>3. k = 1 \/ k > 1
      OBVIOUS
    <2> QED BY <2>1, <2>2, <2>3, <1>1
  <1>3. ASSUME NEW k \in 1..n - 1
        PROVE  /\ k \in 1..n /\ k + 1 \in 1..n
               /\ end[k] = start[k + 1] /\ end[k] < Len(data)
    <2>1. k \in 1..n /\ k + 1 \in 1..n /\ k < n
      OBVIOUS
    <2>2. end[k] = start[k + 1] /\ end[k] < Len(data)
      BY <2>1, Zenon DEF AreCuts
    <2> QED BY <2>1, <2>2
  <1>4. Len(w) + 1 \in 1..Len(v) /\ Len(w) + 1 \in Nat
    OBVIOUS
  <1>5. ASSUME NEW k \in 1..n
        PROVE  /\ M(k) \in Message /\ M(k).command = "Write"
               /\ M(k).packet = Len(w) + 1 /\ M(k).from = start[k]
               /\ IsMessage(v, M(k))
               /\ After(v, M(k)) = IF end[k] = Len(data) THEN <<Len(w) + 1 + 1, 0>>
                                                        ELSE <<Len(w) + 1, end[k]>>
    <2>1. /\ start[k] \in Nat /\ end[k] \in Nat /\ start[k] < end[k] /\ end[k] <= Len(data)
          /\ start[k] = 0 => end[k] >= 4
          /\ start[k] > 0 => start[k] >= 4
      BY <1>2
    <2>2. IsCut(v, data, Len(w) + 1, start[k], end[k])
      BY <2>1, <1>4, Zenon DEF IsCut
    <2>3. IsCutTo(v, data, Len(w) + 1, start[k], end[k], M(k))
      BY <2>2, OnePiece, Zenon
    <2> HIDE DEF M
    <2> QED BY <2>3 DEF IsCutTo
  <1> HIDE DEF M
  <1>6. /\ q \in Seq(Message) /\ Len(q) = n /\ q # <<>>
        /\ \A k \in 1..n : q[k] = M(k)
    <2>1. n >= 1 /\ \A k \in 1..n : M(k) \in Message
      BY <1>1, <1>5
    <2>2. q \in [1..n -> Message]
      BY <2>1
    <2>3. q \in Seq(Message) /\ Len(q) = n
      <3> HIDE DEF q
      <3> QED BY <2>2
    <2>4. q # <<>>
      <3> HIDE DEF q
      <3> QED BY <2>1, <2>3
    <2> QED BY <2>3, <2>4
  <1> HIDE DEF q
  <1>7. \A k \in 1..n : IsMessage(v, q[k])
    BY <1>5, <1>6
  <1>8. ASSUME NEW k \in 1..n - 1 PROVE Follows(v, q[k], q[k + 1])
    <2>1. q[k] = M(k) /\ q[k + 1] = M(k + 1)
      BY <1>3, <1>6
    <2>2. end[k] # Len(data) /\ end[k] = start[k + 1]
      <3>1. end[k] \in Nat /\ Len(data) \in Nat BY <1>2, <1>3
      <3> QED BY <3>1, <1>3
    <2>3. After(v, M(k)) = <<Len(w) + 1, end[k]>>
      BY <2>2, <1>3, <1>5
    <2>4. /\ M(k + 1).command = "Write"
          /\ M(k + 1).packet = Len(w) + 1 /\ M(k + 1).from = start[k + 1]
      BY <1>3, <1>5
    <2> QED BY <2>1, <2>2, <2>3, <2>4, Zenon DEF Follows, FitsAt
  <1>9. Chain(v, q)
    BY <1>6, <1>7, <1>8 DEF Chain
  <1>10. q[1].command = "Write" /\ FitsAt(<<Len(w) + 1, 0>>, q[1])
    <2>1. q[1] = M(1) /\ M(1).command = "Write" /\ M(1).packet = Len(w) + 1 /\ M(1).from = 0
      BY <1>1, <1>5, <1>6
    <2> QED BY <2>1, Zenon DEF FitsAt
  <1>11. q[n].command = "Write" /\ After(v, q[n]) = <<Len(v) + 1, 0>>
    BY <1>1, <1>5, <1>6
  <1>12. IsPacketChain(w, v, q)
    BY <1>6, <1>9, <1>10, <1>11 DEF IsPacketChain
  <1> QED BY <1>12 DEF q, M, CutPieces

(* write() puts a packet on the queue as a chain that has all of it. *)
LEMMA PiecesAreAChain ==
    ASSUME NEW w \in Seq(Packets), NEW p \in Packets
    PROVE  IsPacketChain(w, Append(w, p), Pieces(p, Len(w) + 1))
  <1> DEFINE data == WrapPacket(p)
             v == Append(w, p)
             q == Pieces(p, Len(w) + 1)
  <1>1. data \in Seq(Byte) /\ Len(data) \in Nat /\ Len(data) > 4
    BY WrapPacketIsSizeThenData
  <1>2. v \in Seq(Packets) /\ Len(v) = Len(w) + 1 /\ v[Len(w) + 1] = p
    OBVIOUS
  <1>3. q = [k \in 1..NumberOfPieces(Len(data)) |->
               WriteMessage(SubSeq(data, (k - 1) * qdbMaxPayloadSize + 1,
                                   IF k * qdbMaxPayloadSize <= Len(data)
                                   THEN k * qdbMaxPayloadSize ELSE Len(data)),
                            Len(w) + 1, (k - 1) * qdbMaxPayloadSize)]
    BY DEF Pieces
  <1>4. WrapPacket(v[Len(w) + 1]) = data
    BY <1>2
  <1> HIDE DEF data, v, q
  <1>5. PICK n \in Nat : \E start \in [1..n -> Nat], end \in [1..n -> Nat] :
             /\ n = NumberOfPieces(Len(data))
             /\ \A k \in 1..n :
                   /\ start[k] = (k - 1) * qdbMaxPayloadSize
                   /\ end[k] = IF k * qdbMaxPayloadSize <= Len(data)
                               THEN k * qdbMaxPayloadSize ELSE Len(data)
             /\ AreCuts(Len(data), n, start, end)
    BY <1>1, Cuts, Zenon
  <1>6. PICK start \in [1..n -> Nat], end \in [1..n -> Nat] :
             /\ n = NumberOfPieces(Len(data))
             /\ \A k \in 1..n :
                   /\ start[k] = (k - 1) * qdbMaxPayloadSize
                   /\ end[k] = IF k * qdbMaxPayloadSize <= Len(data)
                               THEN k * qdbMaxPayloadSize ELSE Len(data)
             /\ AreCuts(Len(data), n, start, end)
    BY <1>5, Zenon
  <1>7. q = CutPieces(data, Len(w) + 1, n, start, end)
    BY <1>3, <1>6, Zenon DEF PieceOf, CutPieces
  <1>8. AreCuts(Len(data), n, start, end)
    BY <1>6, Zenon
  <1>9. IsPacketChain(w, v, CutPieces(data, Len(w) + 1, n, start, end))
    BY <1>1, <1>2, <1>4, <1>8, CutsMakeAChain, Zenon
  <1> QED BY <1>7, <1>9, Zenon DEF q, v
-----------------------------------------------------------------------------
(* What the reader has of packet n. *)
IsPart(w, n, data) ==
    /\ n \in 1..Len(w)
    /\ data \in Seq(Byte) /\ Len(data) <= Len(w[n])
    /\ \A i \in 1..Len(data) : data[i] = w[n][i]

(* A part as long as its packet is the packet. *)
LEMMA WholePart ==
    ASSUME NEW w \in Seq(Packets), NEW n, NEW data, IsPart(w, n, data), Len(data) = Len(w[n])
    PROVE  data = w[n]
  <1>1. w[n] \in Packets
    BY DEF IsPart
  <1>2. w[n] \in Seq(Byte) /\ data \in Seq(Byte)
    BY <1>1, PacketsAssumption DEF IsPart
  <1>3. \A i \in 1..Len(data) : data[i] = w[n][i]
    BY DEF IsPart
  <1> QED BY <1>2, <1>3

(* The piece m goes on where the reader, with this data of its packet, is. *)
LEMMA PieceAppended ==
    ASSUME NEW w \in Seq(Packets), NEW m \in Message, IsPiece(w, m),
           NEW data, IsPart(w, m.packet, data), m.from = 4 + Len(data)
    PROVE  /\ IsPart(w, m.packet, data \o m.data)
           /\ Len(data \o m.data) = Len(data) + Len(m.data)
           /\ EndOf(m) = 4 + Len(data) + Len(m.data)
           /\ Len(Whole(w, m)) = 4 + Len(w[m.packet])
  <1> DEFINE p == w[m.packet]
             d == m.data
  <1>1. m.packet \in 1..Len(w) /\ p \in Packets
    BY DEF IsPiece
  <1>2. /\ p \in Seq(Byte) /\ Len(p) \in Nat
        /\ Len(WrapPacket(p)) = Len(p) + 4
        /\ \A i \in 1..Len(p) : WrapPacket(p)[4 + i] = p[i]
    BY <1>1, WrapPacketIsSizeThenData
  <1>3. d \in Seq(Byte) /\ Len(d) \in Nat
    BY DEF Message
  <1>4. data \in Seq(Byte) /\ Len(data) \in Nat /\ Len(data) <= Len(p)
        /\ \A i \in 1..Len(data) : data[i] = p[i]
    BY DEF IsPart
  <1>5. Whole(w, m) = WrapPacket(p)
    BY DEF Whole
  <1>6. Len(Whole(w, m)) = 4 + Len(p)
    BY <1>2, <1>5
  <1>7. EndOf(m) = 4 + Len(data) + Len(d)
    BY <1>3, <1>4 DEF EndOf
  <1>8. /\ EndOf(m) <= Len(Whole(w, m))
        /\ \A i \in 1..Len(d) : d[i] = Whole(w, m)[m.from + i]
    BY DEF IsPiece
  <1> HIDE DEF p, d
  <1>9. Len(data) + Len(d) <= Len(p)
    BY <1>2, <1>3, <1>4, <1>6, <1>7, <1>8
  <1>10. ASSUME NEW i \in 1..Len(d) PROVE d[i] = p[Len(data) + i]
    <2>1. d[i] = WrapPacket(p)[4 + Len(data) + i]
      BY <1>5, <1>8
    <2>2. Len(data) + i \in 1..Len(p) /\ 4 + Len(data) + i = 4 + (Len(data) + i)
      BY <1>2, <1>3, <1>4, <1>9
    <2>3. WrapPacket(p)[4 + (Len(data) + i)] = p[Len(data) + i]
      BY <2>2, <1>2, Zenon
    <2> QED BY <2>1, <2>2, <2>3
  <1>11. data \in Seq(Byte) /\ d \in Seq(Byte)
    BY <1>3, <1>4
  <1>12. /\ data \o d \in Seq(Byte) /\ Len(data \o d) = Len(data) + Len(d)
    BY <1>11, Concatenation
  <1>13. \A i \in 1..Len(data) : (data \o d)[i] = data[i]
    BY <1>11
  <1>14. \A i \in 1..Len(d) : (data \o d)[Len(data) + i] = d[i]
    BY <1>11
  <1>15. ASSUME NEW i \in 1..Len(data) + Len(d) PROVE (data \o d)[i] = p[i]
    <2>1. CASE i \in 1..Len(data)
      BY <2>1, <1>4, <1>13, Zenon
    <2>2. CASE i > Len(data)
      <3> DEFINE j == i - Len(data)
      <3>1. j \in 1..Len(d) /\ i = Len(data) + j
        BY <2>2, <1>3, <1>4
      <3> HIDE DEF j
      <3> QED BY <3>1, <1>10, <1>14
    <2> QED BY <2>1, <2>2, <1>3, <1>4
  <1>16. IsPart(w, m.packet, data \o d)
    BY <1>1, <1>9, <1>12, <1>15 DEF IsPart, p
  <1> QED BY <1>6, <1>7, <1>12, <1>16 DEF p, d

(* Nothing is a part of any packet. *)
LEMMA EmptyPart ==
    ASSUME NEW w \in Seq(Packets), NEW n \in 1..Len(w)
    PROVE  IsPart(w, n, <<>>)
  <1>1. w[n] \in Packets
    OBVIOUS
  <1>2. Len(w[n]) \in Nat
    BY <1>1, PacketsAssumption
  <1>3. <<>> \in Seq(Byte) /\ Len(<<>>) = 0
    OBVIOUS
  <1> QED BY <1>2, <1>3 DEF IsPart

(* What is left of a first piece when its size has been read. *)
LEMMA WithoutSize ==
    ASSUME NEW S, NEW d \in Seq(S), Len(d) >= 4
    PROVE  /\ SubSeq(d, 5, Len(d)) \in Seq(S) /\ Len(SubSeq(d, 5, Len(d))) = Len(d) - 4
           /\ \A i \in 1..Len(d) - 4 : SubSeq(d, 5, Len(d))[i] = d[4 + i]
  <1>1. CASE Len(d) > 4
    <2>1. SubSeq(d, 5, Len(d)) \in Seq(S)
      BY <1>1
    <2>2. Len(SubSeq(d, 5, Len(d))) = Len(d) - 4
      BY <1>1
    <2>3. \A i \in 1..Len(d) - 4 : SubSeq(d, 5, Len(d))[i] = d[4 + i]
      BY <1>1
    <2> QED BY <2>1, <2>2, <2>3
  <1>2. CASE Len(d) = 4
    <2>1. SubSeq(d, 5, 4) = <<>>
      OBVIOUS
    <2> QED BY <1>2, <2>1
  <1>3. Len(d) = 4 \/ Len(d) > 4
    <2>1. Len(d) \in Nat
      OBVIOUS
    <2> QED BY <2>1
  <1> QED BY <1>1, <1>2, <1>3, Zenon

(* The first piece of a packet has its size, and what follows is of it. *)
LEMMA FirstPiece ==
    ASSUME NEW w \in Seq(Packets), NEW m \in Message, IsPiece(w, m), m.from = 0
    PROVE  /\ Len(m.data) >= 4 /\ ReadInt32(m.data) = Len(w[m.packet])
           /\ IsPart(w, m.packet, SubSeq(m.data, 5, Len(m.data)))
           /\ Len(SubSeq(m.data, 5, Len(m.data))) = Len(m.data) - 4
           /\ EndOf(m) = Len(m.data)
           /\ Len(Whole(w, m)) = 4 + Len(w[m.packet])
  <1> DEFINE p == w[m.packet]
             d == m.data
             rest == SubSeq(d, 5, Len(d))
  <1>1. m.packet \in 1..Len(w) /\ p \in Packets
    BY DEF IsPiece
  <1>2. /\ p \in Seq(Byte) /\ Len(p) \in Nat /\ Len(p) <= MaxPacketSize
        /\ Len(WrapPacket(p)) = Len(p) + 4
        /\ \A i \in 1..Len(p) : WrapPacket(p)[4 + i] = p[i]
        /\ \A i \in 1..4 : WrapPacket(p)[i] = Uint32(Len(p))[i]
    <2>1. p \in Packets
      BY <1>1
    <2> HIDE DEF p
    <2>2. /\ p \in Seq(Byte) /\ Len(p) <= MaxPacketSize
          /\ Len(WrapPacket(p)) = Len(p) + 4
          /\ \A i \in 1..Len(p) : WrapPacket(p)[4 + i] = p[i]
          /\ \A i \in 1..4 : WrapPacket(p)[i] = Uint32(Len(p))[i]
      BY <2>1, WrapPacketIsSizeThenData, Zenon
    <2>3. Len(p) \in Nat
      BY <2>2
    <2> QED BY <2>2, <2>3, Zenon
  <1>3. d \in Seq(Byte) /\ Len(d) \in Nat
    BY DEF Message
  <1>4. Whole(w, m) = WrapPacket(p)
    BY DEF Whole
  <1>5. Len(Whole(w, m)) = 4 + Len(p)
    BY <1>2, <1>4
  <1>6. EndOf(m) = Len(d)
    BY <1>3 DEF EndOf
  <1>7. Len(d) >= 4 /\ EndOf(m) <= Len(Whole(w, m))
    BY DEF IsPiece
  <1>8. \A i \in 1..Len(d) : d[i] = WrapPacket(p)[0 + i]
    BY <1>4 DEF IsPiece
  <1> HIDE DEF p, d
  <1>9. \A i \in 1..Len(d) : d[i] = WrapPacket(p)[i]
    BY <1>3, <1>8
  <1>10. ReadInt32(d) = Len(p)
    <2>1. 1 \in 1..Len(d) /\ 2 \in 1..Len(d) /\ 3 \in 1..Len(d) /\ 4 \in 1..Len(d)
      BY <1>3, <1>7
    <2> DEFINE u == Uint32(Len(p))
    <2>2. ReadInt32(u) = Len(p)
      BY <1>2, Uint32RoundTrip
    <2> HIDE DEF u
    <2>3. d[1] = u[1] /\ d[2] = u[2] /\ d[3] = u[3] /\ d[4] = u[4]
      BY <2>1, <1>2, <1>9 DEF u
    <2>4. ReadInt32(d) = ReadInt32(u)
      BY <2>3, SMT DEF ReadInt32
    <2> QED BY <2>2, <2>4
  <1>11. rest \in Seq(Byte) /\ Len(rest) = Len(d) - 4
         /\ \A i \in 1..Len(d) - 4 : rest[i] = d[4 + i]
    BY <1>3, <1>7, WithoutSize, Zenon
  <1> HIDE DEF rest
  <1>12. ASSUME NEW i \in 1..Len(d) - 4 PROVE rest[i] = p[i]
    <2>1. 4 + i \in 1..Len(d) /\ i \in 1..Len(p)
      BY <1>2, <1>3, <1>5, <1>6, <1>7
    <2>2. d[4 + i] = WrapPacket(p)[4 + i]
      BY <2>1, <1>9, Zenon
    <2>3. WrapPacket(p)[4 + i] = p[i]
      BY <2>1, <1>2, Zenon
    <2> QED BY <2>2, <2>3, <1>11
  <1>13. Len(rest) <= Len(p)
    BY <1>2, <1>3, <1>5, <1>6, <1>7, <1>11
  <1>14. IsPart(w, m.packet, rest)
    BY <1>1, <1>11, <1>12, <1>13 DEF IsPart, p
  <1> QED BY <1>5, <1>6, <1>7, <1>10, <1>11, <1>14 DEF p, d, rest
-----------------------------------------------------------------------------
(* All that is on the way, as a stream of its own would have it. *)
Queue == pipe \o outgoing

(* The byte of the packet that the reader waits for. *)
Position == IF partlyReceived THEN <<Len(delivered) + 1, 4 + Len(incomingData)>>
                              ELSE <<Len(delivered) + 1, 0>>

(* Where the next packet to be written begins. *)
End == <<Len(written) + 1, 0>>

(* What the reader waits for comes next. *)
FrontFits == reader /\ Queue # <<>> => FitsAt(Position, Queue[1])

(* All that was written is on the way or has arrived. *)
BackEnds ==
    writer => IF Queue = <<>> THEN reader => Position = End
              ELSE EndsAt(written, Queue, End)

(* What has arrived is what was written first. *)
DeliveredIsPrefix ==
    /\ Len(delivered) <= Len(written)
    /\ \A i \in 1..Len(delivered) : delivered[i] = written[i]

(* What the reader keeps is of the next packet, and so is the size. *)
ReaderHasPart ==
    partlyReceived =>
        /\ IsPart(written, Len(delivered) + 1, incomingData)
        /\ incomingSize = Len(written[Len(delivered) + 1])

(* The inductive invariant.  AssertionsHold alone says nothing of what is on the
   way, and a message is only right or wrong for a reader in a certain place. *)
IInv ==
    /\ TypeOK /\ assertsHold
    /\ Chain(written, Queue)
    /\ FrontFits /\ BackEnds
    /\ DeliveredIsPrefix /\ ReaderHasPart

(* All on the way are messages. *)
LEMMA QueueIsMessages ==
    ASSUME TypeOK
    PROVE  Queue \in Seq(Message)
  BY DEF TypeOK, Queue

(* A new stream satisfies the invariant. *)
LEMMA InitInv == Init => IInv
  <1> SUFFICES ASSUME Init PROVE IInv
    OBVIOUS
  <1>1. TypeOK /\ assertsHold
    <2>1. /\ written = <<>> /\ delivered = <<>> /\ outgoing = <<>> /\ pipe = <<>>
          /\ incomingData = <<>> /\ incomingSize = 0
          /\ writer = TRUE /\ reader = TRUE /\ partlyReceived = FALSE /\ assertsHold = TRUE
      BY Zenon DEF Init
    <2>2. ASSUME NEW S PROVE <<>> \in Seq(S)
      OBVIOUS
    <2>3. 0 \in Nat
      OBVIOUS
    <2> QED BY <2>1, <2>2, <2>3, Zenon DEF TypeOK
  <1>2. Queue = <<>>
    BY DEF Init, Queue
  <1>3. Chain(written, Queue)
    BY <1>2 DEF Chain
  <1>4. FrontFits /\ BackEnds
    BY <1>2 DEF Init, FrontFits, BackEnds, Position, End
  <1>5. DeliveredIsPrefix /\ ReaderHasPart
    BY DEF Init, DeliveredIsPrefix, ReaderHasPart
  <1> QED BY <1>1, <1>3, <1>4, <1>5 DEF IInv

(* What the reader has stays part of what was written. *)
LEMMA PartStays ==
    ASSUME NEW w \in Seq(Packets), NEW p \in Packets, NEW n, NEW data, IsPart(w, n, data)
    PROVE  IsPart(Append(w, p), n, data) /\ Append(w, p)[n] = w[n]
  <1>1. n \in 1..Len(w)
    BY DEF IsPart
  <1>2. Append(w, p)[n] = w[n] /\ n \in 1..Len(Append(w, p))
    BY <1>1
  <1> QED BY <1>2 DEF IsPart

(* Writing another packet leaves alone what the reader has. *)
LEMMA ReaderStays ==
    ASSUME TypeOK, DeliveredIsPrefix, ReaderHasPart, NEW p \in Packets,
           written' = Append(written, p), UNCHANGED <<delivered, incoming>>
    PROVE  DeliveredIsPrefix' /\ ReaderHasPart'
  <1>1. written \in Seq(Packets)
    BY DEF TypeOK
  <1>2. DeliveredIsPrefix'
    BY <1>1 DEF DeliveredIsPrefix, TypeOK
  <1>3. ASSUME partlyReceived
        PROVE  /\ IsPart(written', Len(delivered) + 1, incomingData)
               /\ incomingSize = Len(written'[Len(delivered) + 1])
    BY <1>1, <1>3, PartStays DEF ReaderHasPart
  <1> QED BY <1>2, <1>3 DEF ReaderHasPart, incoming

(* The first of two queues is the first of both of them put together. *)
LEMMA FrontOfQueue ==
    ASSUME NEW q \in Seq(Message), NEW s \in Seq(Message), q # <<>>
    PROVE  (q \o s)[1] = q[1] /\ q \o s # <<>>
  OBVIOUS

(* Stream::write() keeps the invariant. *)
LEMMA WriteStep ==
    ASSUME IInv, NEW p \in Packets, Write(p)
    PROVE  IInv'
  <1> DEFINE q == Pieces(p, Len(written) + 1)
             w == written
             v == Append(written, p)
  <1>1. /\ TypeOK /\ assertsHold /\ Chain(w, Queue) /\ FrontFits /\ BackEnds
        /\ DeliveredIsPrefix /\ ReaderHasPart /\ w \in Seq(Packets)
    BY DEF IInv, TypeOK
  <1>2. /\ written' = v /\ outgoing' = outgoing \o q /\ pipe' = pipe /\ writer
        /\ UNCHANGED <<writer, reader, incoming, delivered, assertsHold>>
    BY DEF Write
  <1>3. IsPacketChain(w, v, q)
    BY <1>1, PiecesAreAChain
  <1> HIDE DEF q
  <1>4. /\ q \in Seq(Message) /\ q # <<>> /\ Chain(v, q)
        /\ q[1].command = "Write" /\ FitsAt(End, q[1])
        /\ q[Len(q)].command = "Write"
        /\ After(v, q[Len(q)]) = <<Len(v) + 1, 0>>
    BY <1>3 DEF IsPacketChain, End
  <1>5. Queue \in Seq(Message)
    BY <1>1, QueueIsMessages
  <1>6. Queue' = Queue \o q
    <2>1. pipe \in Seq(Message) /\ outgoing \in Seq(Message)
      BY <1>1 DEF TypeOK
    <2> QED BY <1>2, <1>4, <2>1 DEF Queue
  <1>7. /\ Chain(v, Queue)
        /\ \A i \in 1..Len(Queue) :
              Queue[i].command = "Write" => After(v, Queue[i]) = After(w, Queue[i])
    BY <1>1, <1>5, ChainStays
  <1>8. ASSUME Queue # <<>> PROVE Follows(v, Queue[Len(Queue)], q[1])
    <2>1. Len(Queue) \in 1..Len(Queue)
      BY <1>5, <1>8
    <2>2. EndsAt(w, Queue, End)
      BY <1>1, <1>2, <1>8 DEF BackEnds
    <2> QED BY <1>4, <1>7, <2>1, <2>2 DEF EndsAt, Follows
  <1>9. Chain(v, Queue \o q)
    BY <1>4, <1>5, <1>7, <1>8, ChainOfChains
  <1>10. Position' = Position
    BY <1>2 DEF Position, incoming
  <1>11. FrontFits'
    <2>1. CASE Queue = <<>>
      <3>1. Queue' = q
        BY <1>4, <1>6, <2>1
      <3>2. reader => Position = End
        BY <1>1, <1>2, <2>1 DEF BackEnds
      <3> QED BY <1>2, <1>4, <1>10, <3>1, <3>2 DEF FrontFits
    <2>2. CASE Queue # <<>>
      <3>1. Queue'[1] = Queue[1]
        BY <1>4, <1>5, <1>6, <2>2, FrontOfQueue
      <3>2. reader => FitsAt(Position, Queue[1])
        BY <1>1, <2>2 DEF FrontFits
      <3> QED BY <1>2, <1>10, <3>1, <3>2 DEF FrontFits
    <2> QED BY <2>1, <2>2
  <1>12. BackEnds'
    <2>1. (Queue \o q)[Len(Queue \o q)] = q[Len(q)] /\ Queue \o q # <<>>
      BY <1>4, <1>5
    <2>2. End' = <<Len(v) + 1, 0>>
      BY <1>2 DEF End
    <2> QED BY <1>2, <1>4, <1>6, <2>1, <2>2 DEF BackEnds, EndsAt
  <1>13. TypeOK'
    BY <1>1, <1>2, <1>4 DEF TypeOK, incoming
  <1>14. DeliveredIsPrefix' /\ ReaderHasPart'
    BY <1>1, <1>2, ReaderStays
  <1>15. Chain(written', Queue')
    BY <1>2, <1>6, <1>9
  <1> QED BY <1>1, <1>2, <1>11, <1>12, <1>13, <1>14, <1>15 DEF IInv

(* What Append does. *)
LEMMA Appended ==
    ASSUME NEW S, NEW s \in Seq(S), NEW e \in S
    PROVE  /\ Append(s, e) \in Seq(S) /\ Len(Append(s, e)) = Len(s) + 1
           /\ Append(s, e)[Len(s) + 1] = e
           /\ \A i \in 1..Len(s) : Append(s, e)[i] = s[i]
  OBVIOUS

(* An empty queue is a queue. *)
LEMMA NoMessages == <<>> \in Seq(Message)
  OBVIOUS

(* When the writer is gone and its queue dropped, a prefix is left. *)
LEMMA PipeIsLeft ==
    ASSUME TypeOK, FrontFits, ~writer', outgoing' = <<>>, pipe' = pipe,
           UNCHANGED <<reader, incoming, delivered>>,
           NEW w, Chain(w, Queue)
    PROVE  Chain(w, Queue') /\ FrontFits' /\ BackEnds'
  <1>1. pipe \in Seq(Message) /\ outgoing \in Seq(Message)
    BY DEF TypeOK
  <1>2. Queue' = pipe
    BY <1>1 DEF Queue
  <1>3. Chain(w, pipe)
    BY <1>1, ChainPrefix DEF Queue
  <1>4. Position' = Position
    BY DEF Position, incoming
  <1>5. ASSUME pipe # <<>> PROVE Queue[1] = pipe[1] /\ Queue # <<>>
    BY <1>1, <1>5, FrontOfQueue DEF Queue
  <1>6. FrontFits'
    BY <1>2, <1>4, <1>5 DEF FrontFits
  <1> QED BY <1>2, <1>3, <1>6 DEF BackEnds

(* A write() whose send fails keeps the invariant, unless its loop goes on. *)
LEMMA WriteFailsStep ==
    ASSUME IInv, "go on" \notin Aftermaths, NEW p \in Packets, WriteFails(p)
    PROVE  IInv'
  <1>1. /\ TypeOK /\ assertsHold /\ Chain(written, Queue) /\ FrontFits /\ BackEnds
        /\ DeliveredIsPrefix /\ ReaderHasPart /\ written \in Seq(Packets)
    BY DEF IInv, TypeOK
  <1>2. /\ written' = Append(written, p) /\ pipe' = pipe /\ writer' = FALSE
        /\ UNCHANGED <<reader, incoming, delivered, assertsHold>>
    BY DEF WriteFails
  <1>3. outgoing' = <<>>
    <2>1. PICK aftermath \in Aftermaths : aftermath = "crash" => outgoing' = <<>>
      BY Zenon DEF WriteFails
    <2> QED BY <2>1, AftermathAssumption
  <1>4. Chain(written', Queue)
    BY <1>1, <1>2, QueueIsMessages, ChainStays
  <1>5. Chain(written', Queue') /\ FrontFits' /\ BackEnds'
    BY <1>1, <1>2, <1>3, <1>4, PipeIsLeft
  <1>6. DeliveredIsPrefix' /\ ReaderHasPart'
    BY <1>1, <1>2, ReaderStays
  <1>7. TypeOK'
    <2>1. written' \in Seq(Packets)
      BY <1>1, <1>2, Appended, Zenon
    <2>2. outgoing' \in Seq(Message)
      BY <1>3, NoMessages
    <2>3. writer' \in BOOLEAN
      BY <1>2
    <2> QED BY <1>1, <1>2, <2>1, <2>2, <2>3, Zenon DEF TypeOK, incoming
  <1> QED BY <1>1, <1>2, <1>5, <1>6, <1>7 DEF IInv

(* The reader's part does not depend on what the writer's end does. *)
LEMMA ReaderUnchanged ==
    ASSUME DeliveredIsPrefix, ReaderHasPart, UNCHANGED <<written, incoming, delivered>>
    PROVE  DeliveredIsPrefix' /\ ReaderHasPart' /\ Position' = Position /\ End' = End
  BY DEF DeliveredIsPrefix, ReaderHasPart, Position, End, incoming

(* Losing the writer keeps the invariant. *)
LEMMA WriterResetStep ==
    ASSUME IInv, WriterReset
    PROVE  IInv'
  <1>1. /\ TypeOK /\ assertsHold /\ Chain(written, Queue) /\ FrontFits
        /\ DeliveredIsPrefix /\ ReaderHasPart
    BY DEF IInv
  <1>2. /\ writer' = FALSE /\ outgoing' = <<>>
        /\ UNCHANGED <<written, reader, pipe, incoming, delivered, assertsHold>>
    BY DEF WriterReset
  <1>3. Chain(written, Queue') /\ FrontFits' /\ BackEnds'
    BY <1>1, <1>2, PipeIsLeft
  <1>4. DeliveredIsPrefix' /\ ReaderHasPart'
    BY <1>1, <1>2, ReaderUnchanged
  <1>5. TypeOK'
    BY <1>1, <1>2, NoMessages DEF TypeOK, incoming
  <1> QED BY <1>1, <1>2, <1>3, <1>4, <1>5 DEF IInv

(* A Close is a message of every stream. *)
LEMMA CloseIsMessage ==
    ASSUME NEW n \in Nat, NEW w
    PROVE  /\ CloseMessage(n) \in Message /\ CloseMessage(n).command = "Close"
           /\ CloseMessage(n).packet = n /\ IsMessage(w, CloseMessage(n))
  <1>1. CloseMessage(n) \in Message
    <2>1. <<>> \in Seq(Byte) /\ 0 \in Nat
      OBVIOUS
    <2> QED BY <2>1 DEF CloseMessage, Message
  <1>2. CloseMessage(n).command = "Close" /\ CloseMessage(n).packet = n
    BY Zenon DEF CloseMessage
  <1> QED BY <1>1, <1>2 DEF IsMessage

(* What m is at the end of a queue. *)
LEMMA AtTheEnd ==
    ASSUME NEW q \in Seq(Message), NEW m \in Message
    PROVE  /\ Append(q, m) # <<>> /\ Append(q, m)[Len(Append(q, m))] = m
           /\ q # <<>> => Append(q, m)[1] = q[1]
           /\ q = <<>> => Append(q, m)[1] = m
  OBVIOUS

(* Stream::requestClose() keeps the invariant. *)
LEMMA RequestCloseStep ==
    ASSUME IInv, RequestClose
    PROVE  IInv'
  <1> DEFINE m == CloseMessage(Len(written))
  <1>1. /\ TypeOK /\ assertsHold /\ Chain(written, Queue) /\ FrontFits /\ BackEnds
        /\ DeliveredIsPrefix /\ ReaderHasPart
    BY DEF IInv
  <1>2. /\ writer /\ outgoing' = Append(outgoing, m)
        /\ UNCHANGED <<written, writer, reader, pipe, incoming, delivered, assertsHold>>
    BY DEF RequestClose
  <1>3. Len(written) \in Nat
    BY <1>1 DEF TypeOK
  <1>4. /\ m \in Message /\ m.command = "Close" /\ m.packet = Len(written)
        /\ IsMessage(written, m)
    BY <1>3, CloseIsMessage
  <1> HIDE DEF m
  <1>5. Queue \in Seq(Message)
    BY <1>1, QueueIsMessages
  <1>6. Queue' = Append(Queue, m)
    BY <1>1, <1>2, <1>4 DEF TypeOK, Queue
  <1>7. FitsAt(End, m)
    BY <1>4 DEF FitsAt, End
  <1>8. ASSUME Queue # <<>> PROVE Follows(written, Queue[Len(Queue)], m)
    BY <1>1, <1>2, <1>7, <1>8 DEF BackEnds, EndsAt, Follows
  <1>9. Chain(written, Queue')
    BY <1>1, <1>4, <1>5, <1>6, <1>8, ChainOfMessages
  <1>10. /\ Queue' # <<>> /\ Queue'[Len(Queue')] = m
         /\ Queue # <<>> => Queue'[1] = Queue[1]
         /\ Queue = <<>> => Queue'[1] = m
    BY <1>4, <1>5, <1>6, AtTheEnd
  <1>11. DeliveredIsPrefix' /\ ReaderHasPart' /\ Position' = Position
    BY <1>1, <1>2, ReaderUnchanged
  <1>12. FrontFits'
    <2>1. CASE Queue = <<>>
      BY <1>1, <1>2, <1>7, <1>10, <1>11, <2>1 DEF FrontFits, BackEnds
    <2>2. CASE Queue # <<>>
      BY <1>1, <1>2, <1>10, <1>11, <2>2 DEF FrontFits
    <2> QED BY <2>1, <2>2
  <1>13. BackEnds'
    BY <1>4, <1>10 DEF BackEnds, EndsAt
  <1>14. TypeOK'
    BY <1>1, <1>2, <1>4 DEF TypeOK, incoming
  <1>15. written' = written /\ assertsHold'
    BY <1>1, <1>2
  <1> QED BY <1>9, <1>11, <1>12, <1>13, <1>14, <1>15 DEF IInv

(* Sending the first message of the queue changes nothing of what is on the
   way. *)
LEMMA MovedAlong ==
    ASSUME NEW q \in Seq(Message), NEW s \in Seq(Message), s # <<>>
    PROVE  /\ Append(q, Head(s)) \o Tail(s) = q \o s
           /\ Append(q, Head(s)) \in Seq(Message) /\ Tail(s) \in Seq(Message)
  OBVIOUS

(* Sending keeps the invariant, for a Write and for a Close. *)
LEMMA SendStep ==
    ASSUME IInv, Send
    PROVE  IInv'
  <1>1. /\ TypeOK /\ assertsHold /\ Chain(written, Queue) /\ FrontFits /\ BackEnds
        /\ DeliveredIsPrefix /\ ReaderHasPart
    BY DEF IInv
  <1>2. /\ outgoing # <<>> /\ pipe' = Append(pipe, Head(outgoing))
        /\ UNCHANGED <<written, reader, incoming, delivered, assertsHold>>
    BY DEF Send
  <1>3. pipe \in Seq(Message) /\ outgoing \in Seq(Message)
    BY <1>1 DEF TypeOK
  <1>4. /\ pipe' \in Seq(Message) /\ Tail(outgoing) \in Seq(Message)
        /\ pipe' \o Tail(outgoing) = Queue
    BY <1>2, <1>3, MovedAlong DEF Queue
  <1>5. DeliveredIsPrefix' /\ ReaderHasPart' /\ Position' = Position /\ End' = End
    BY <1>1, <1>2, ReaderUnchanged
  <1>6. CASE writer' = writer /\ outgoing' = Tail(outgoing)
    <2>1. Queue' = Queue
      BY <1>4, <1>6 DEF Queue
    <2>2. Chain(written', Queue') /\ FrontFits' /\ BackEnds'
      BY <1>1, <1>2, <1>5, <1>6, <2>1 DEF FrontFits, BackEnds
    <2>3. TypeOK'
      BY <1>1, <1>2, <1>4, <1>6 DEF TypeOK, incoming
    <2> QED BY <1>1, <1>2, <1>5, <2>2, <2>3 DEF IInv
  <1>7. CASE writer' = FALSE /\ outgoing' = <<>>
    <2>1. Queue' = pipe'
      BY <1>4, <1>7 DEF Queue
    <2>2. Chain(written, Queue')
      BY <1>1, <1>4, <2>1, ChainPrefix
    <2>3. ASSUME Queue' # <<>> PROVE Queue'[1] = Queue[1] /\ Queue # <<>>
      BY <1>4, <2>1, <2>3, FrontOfQueue
    <2>4. FrontFits' /\ BackEnds'
      BY <1>1, <1>2, <1>5, <1>7, <2>3 DEF FrontFits, BackEnds
    <2>5. TypeOK'
      BY <1>1, <1>2, <1>4, <1>7, NoMessages DEF TypeOK, incoming
    <2> QED BY <1>1, <1>2, <1>5, <2>2, <2>4, <2>5 DEF IInv
  <1> QED BY <1>6, <1>7 DEF Send

(* Closing the connection of the writer keeps the invariant. *)
LEMMA WriterClosesStep ==
    ASSUME IInv, WriterCloses
    PROVE  IInv'
  <1> DEFINE m == CloseMessage(0)
  <1>1. /\ TypeOK /\ assertsHold /\ Chain(written, Queue) /\ FrontFits /\ BackEnds
        /\ DeliveredIsPrefix /\ ReaderHasPart
    BY DEF IInv
  <1>2. /\ writer' = FALSE /\ outgoing' = <<>> /\ pipe' = Append(pipe, m)
        /\ UNCHANGED <<written, reader, incoming, delivered, assertsHold>>
    BY DEF WriterCloses
  <1>3. m \in Message /\ m.command = "Close" /\ m.packet = 0 /\ IsMessage(written, m)
    BY CloseIsMessage
  <1> HIDE DEF m
  <1>4. pipe \in Seq(Message) /\ outgoing \in Seq(Message)
    BY <1>1 DEF TypeOK
  <1>5. Queue' = Append(pipe, m)
    BY <1>2, <1>3, <1>4 DEF Queue
  <1>6. Chain(written, pipe)
    BY <1>1, <1>4, ChainPrefix DEF Queue
  <1>7. \A position : FitsAt(position, m)
    BY <1>3 DEF FitsAt
  <1>8. Chain(written, Queue')
    BY <1>3, <1>4, <1>5, <1>6, <1>7, ChainOfMessages DEF Follows
  <1>9. DeliveredIsPrefix' /\ ReaderHasPart' /\ Position' = Position
    BY <1>1, <1>2, ReaderUnchanged
  <1>10. FrontFits'
    <2>1. CASE pipe = <<>>
      BY <1>3, <1>4, <1>5, <1>7, <2>1, AtTheEnd DEF FrontFits
    <2>2. CASE pipe # <<>>
      <3>1. Queue'[1] = Queue[1] /\ Queue # <<>>
        BY <1>3, <1>4, <1>5, <2>2, AtTheEnd, FrontOfQueue DEF Queue
      <3> QED BY <1>1, <1>2, <1>9, <3>1 DEF FrontFits
    <2> QED BY <2>1, <2>2
  <1>11. BackEnds'
    BY <1>2 DEF BackEnds
  <1>12. TypeOK'
    <2>1. pipe' \in Seq(Message)
      BY <1>2, <1>3, <1>4
    <2>2. outgoing' \in Seq(Message)
      BY <1>2, NoMessages
    <2>3. writer' \in BOOLEAN
      BY <1>2
    <2> QED BY <1>1, <1>2, <2>1, <2>2, <2>3, Zenon DEF TypeOK, incoming
  <1> QED BY <1>1, <1>2, <1>8, <1>9, <1>10, <1>11, <1>12 DEF IInv

(* Closing the reader keeps the invariant. *)
LEMMA ReaderClosesStep ==
    ASSUME IInv, ReaderCloses
    PROVE  IInv'
  <1>1. /\ TypeOK /\ assertsHold /\ Chain(written, Queue) /\ FrontFits /\ BackEnds
        /\ DeliveredIsPrefix /\ ReaderHasPart
    BY DEF IInv
  <1>2. /\ reader' = FALSE
        /\ UNCHANGED <<written, writer, outgoing, pipe, incoming, delivered, assertsHold>>
    BY DEF ReaderCloses
  <1>3. DeliveredIsPrefix' /\ ReaderHasPart' /\ Position' = Position /\ End' = End
    BY <1>1, <1>2, ReaderUnchanged
  <1>4. Queue' = Queue
    BY <1>2 DEF Queue
  <1>5. FrontFits' /\ BackEnds'
    BY <1>1, <1>2, <1>3, <1>4 DEF FrontFits, BackEnds
  <1>6. TypeOK'
    BY <1>1, <1>2 DEF TypeOK, incoming
  <1> QED BY <1>1, <1>2, <1>3, <1>4, <1>5, <1>6 DEF IInv
-----------------------------------------------------------------------------
(* The reader waits for the byte after m of the packets w. *)
ReaderAt(w, m) ==
    /\ TypeOK' /\ assertsHold'
    /\ DeliveredIsPrefix' /\ ReaderHasPart'
    /\ Position' = After(w, m)

(* A packet of which all has come is delivered. *)
LEMMA PacketDelivered ==
    ASSUME TypeOK, DeliveredIsPrefix, pipe' \in Seq(Message), assertsHold',
           UNCHANGED <<written, writer, reader, outgoing>>,
           NEW m \in Message, IsPiece(written, m), m.packet = Len(delivered) + 1,
           EndOf(m) = Len(Whole(written, m)),
           NEW data, IsPart(written, m.packet, data), Len(data) = Len(written[m.packet]),
           Available(data)
    PROVE  ReaderAt(written, m) /\ delivered' = Append(delivered, written[Len(delivered) + 1])
  <1> DEFINE n == Len(delivered)
  <1>1. written \in Seq(Packets) /\ delivered \in Seq(Seq(Byte)) /\ n \in Nat
    BY DEF TypeOK
  <1>2. data = written[n + 1]
    BY <1>1, WholePart
  <1>3. data \in Seq(Byte) /\ n + 1 \in 1..Len(written)
    BY DEF IsPart
  <1>4. /\ delivered' = Append(delivered, data)
        /\ partlyReceived' = FALSE /\ incomingSize' = 0 /\ incomingData' = <<>>
    BY DEF Available
  <1>5. /\ delivered' \in Seq(Seq(Byte)) /\ Len(delivered') = n + 1
        /\ delivered'[n + 1] = data
        /\ \A i \in 1..n : delivered'[i] = delivered[i]
    BY <1>1, <1>3, <1>4, Appended
  <1>6. TypeOK'
    <2>1. incomingData' \in Seq(Byte) /\ incomingSize' \in Nat /\ partlyReceived' \in BOOLEAN
      <3>1. <<>> \in Seq(Byte) /\ 0 \in Nat /\ FALSE \in BOOLEAN
        OBVIOUS
      <3> QED BY <1>4, <3>1, Zenon
    <2>2. assertsHold' \in BOOLEAN
      OBVIOUS
    <2> QED BY <1>5, <2>1, <2>2, Zenon DEF TypeOK
  <1>7. DeliveredIsPrefix'
    <2>1. ASSUME NEW i \in 1..n + 1 PROVE delivered'[i] = written[i]
      <3>1. CASE i \in 1..n
        BY <1>5, <3>1 DEF DeliveredIsPrefix
      <3>2. CASE i = n + 1
        BY <1>2, <1>5, <3>2
      <3> QED BY <1>1, <3>1, <3>2
    <2>2. n + 1 <= Len(written)
      BY <1>1, <1>3
    <2> QED BY <1>5, <2>1, <2>2 DEF DeliveredIsPrefix
  <1>8. ReaderHasPart'
    BY <1>4 DEF ReaderHasPart
  <1>9. Position' = After(written, m)
    BY <1>1, <1>4, <1>5 DEF Position, After
  <1> QED BY <1>2, <1>4, <1>6, <1>7, <1>8, <1>9 DEF ReaderAt

(* A packet of which some is missing is kept. *)
LEMMA PacketKept ==
    ASSUME TypeOK, DeliveredIsPrefix, pipe' \in Seq(Message), assertsHold',
           UNCHANGED <<written, writer, reader, outgoing, delivered>>,
           NEW m \in Message, IsPiece(written, m), m.packet = Len(delivered) + 1,
           NEW data, IsPart(written, m.packet, data),
           EndOf(m) = 4 + Len(data), EndOf(m) # Len(Whole(written, m)),
           partlyReceived' = TRUE, incomingData' = data,
           incomingSize' = Len(written[m.packet])
    PROVE  ReaderAt(written, m)
  <1>1. m.packet \in 1..Len(written) /\ written \in Seq(Packets)
    BY DEF IsPart, TypeOK
  <1>2. incomingSize' \in Nat
    <2>1. written[m.packet] \in Packets
      BY <1>1
    <2> QED BY <2>1, PacketsAssumption
  <1>3. TypeOK'
    <2>1. incomingData' \in Seq(Byte) /\ partlyReceived' \in BOOLEAN
      BY DEF IsPart
    <2>2. assertsHold' \in BOOLEAN
      OBVIOUS
    <2> QED BY <1>2, <2>1, <2>2, Zenon DEF TypeOK
  <1>4. DeliveredIsPrefix'
    BY DEF DeliveredIsPrefix
  <1>5. ReaderHasPart'
    BY DEF ReaderHasPart
  <1>6. Position' = After(written, m)
    BY DEF Position, After
  <1> QED BY <1>3, <1>4, <1>5, <1>6 DEF ReaderAt

(* What a message does to the reader that waits for it. *)
LEMMA PieceReceived ==
    ASSUME TypeOK, assertsHold, DeliveredIsPrefix, ReaderHasPart, pipe' \in Seq(Message),
           UNCHANGED <<written, writer, reader, outgoing>>,
           NEW m \in Message, m.command = "Write", IsPiece(written, m),
           FitsAt(Position, m), ReceiveMessage(m)
    PROVE  /\ ReaderAt(written, m)
           /\ \/ UNCHANGED delivered
              \/ delivered' = Append(delivered, written[Len(delivered) + 1])
  <1> DEFINE n == Len(delivered) + 1
             d == m.data
             p == written[n]
  <1>1. /\ written \in Seq(Packets) /\ incomingData \in Seq(Byte) /\ incomingSize \in Nat
        /\ partlyReceived \in BOOLEAN
    BY DEF TypeOK
  <1>2. <<m.packet, m.from>> = Position
    BY DEF FitsAt
  <1>3. m.packet = n
    BY <1>2 DEF Position
  <1>4. d \in Seq(Byte) /\ Len(d) \in Nat /\ Len(incomingData) \in Nat
    BY <1>1 DEF Message
  <1>5. p \in Packets /\ Len(p) \in Nat
    <2>1. n \in 1..Len(written)
      BY <1>3 DEF IsPiece
    <2>2. p \in Packets
      BY <1>1, <2>1
    <2> QED BY <2>2, PacketsAssumption
  <1> HIDE DEF n, d, p
  <1>6. CASE partlyReceived
    <2> DEFINE data == incomingData \o d
               missing == incomingSize - Len(incomingData) - Len(d)
    <2>1. m.from = 4 + Len(incomingData)
      BY <1>2, <1>6 DEF Position
    <2>2. IsPart(written, m.packet, incomingData) /\ incomingSize = Len(p)
      BY <1>3, <1>6 DEF ReaderHasPart, n, p
    <2>3. /\ IsPart(written, m.packet, data) /\ Len(data) = Len(incomingData) + Len(d)
          /\ EndOf(m) = 4 + Len(incomingData) + Len(d)
          /\ Len(Whole(written, m)) = 4 + Len(p)
      BY <1>1, <1>3, <2>1, <2>2, PieceAppended DEF d, p
    <2>4. EndOf(m) <= Len(Whole(written, m))
      BY DEF IsPiece
    <2>5. missing >= 0 /\ missing \in Int /\ (missing > 0 <=> EndOf(m) # Len(Whole(written, m)))
      BY <1>4, <1>5, <2>2, <2>3, <2>4
    <2>6. ReceiveNext(d)
      BY <1>6 DEF ReceiveMessage, d
    <2>7. /\ assertsHold'
          /\ IF missing > 0
             THEN /\ incomingData' = data
                  /\ UNCHANGED <<partlyReceived, incomingSize, delivered>>
             ELSE Available(data)
      BY <2>5, <2>6, Zenon DEF ReceiveNext
    <2> HIDE DEF data, missing
    <2>8. CASE missing > 0
      <3>1. /\ incomingData' = data
            /\ partlyReceived' = TRUE /\ incomingSize' = Len(p) /\ delivered' = delivered
        BY <1>6, <2>2, <2>7, <2>8
      <3>2. EndOf(m) = 4 + Len(data)
        BY <1>4, <2>3
      <3>3. EndOf(m) # Len(Whole(written, m))
        BY <2>5, <2>8
      <3> QED BY <1>3, <2>3, <2>7, <3>1, <3>2, <3>3, PacketKept, Zenon DEF n, p
    <2>9. CASE ~(missing > 0)
      <3>1. Available(data)
        BY <2>7, <2>9
      <3>2. EndOf(m) = Len(Whole(written, m)) /\ Len(data) = Len(p)
        BY <1>4, <1>5, <2>3, <2>5, <2>9
      <3> QED BY <1>3, <2>3, <2>7, <3>1, <3>2, PacketDelivered, Zenon DEF n, p
    <2> QED BY <2>8, <2>9
  <1>7. CASE ~partlyReceived
    <2> DEFINE rest == SubSeq(d, 5, Len(d))
               dataSize == Len(d) - 4
    <2>1. m.from = 0
      BY <1>2, <1>7 DEF Position
    <2>2. /\ Len(d) >= 4 /\ ReadInt32(d) = Len(p)
          /\ IsPart(written, m.packet, rest) /\ Len(rest) = Len(d) - 4
          /\ EndOf(m) = Len(d) /\ Len(Whole(written, m)) = 4 + Len(p)
      BY <1>1, <1>3, <2>1, FirstPiece DEF d, p
    <2>3. EndOf(m) <= Len(Whole(written, m))
      BY DEF IsPiece
    <2>4. /\ dataSize <= Len(p) /\ EndOf(m) = 4 + dataSize
          /\ (dataSize < Len(p) <=> EndOf(m) # Len(Whole(written, m)))
      BY <1>4, <1>5, <2>2, <2>3
    <2>5. ReceiveFirst(d)
      BY <1>7 DEF ReceiveMessage, d
    <2>6. /\ assertsHold'
          /\ IF dataSize < Len(p)
             THEN /\ partlyReceived' = TRUE /\ incomingSize' = Len(p)
                  /\ incomingData' = rest /\ UNCHANGED delivered
             ELSE Available(rest)
      BY <2>2, <2>4, <2>5, Zenon DEF ReceiveFirst
    <2> HIDE DEF rest
    <2>7. CASE dataSize < Len(p)
      <3>1. EndOf(m) = 4 + Len(rest) /\ EndOf(m) # Len(Whole(written, m))
        BY <1>4, <2>2, <2>4, <2>7
      <3>2. /\ partlyReceived' = TRUE /\ incomingSize' = Len(p)
            /\ incomingData' = rest /\ delivered' = delivered
        BY <2>6, <2>7
      <3> QED BY <1>3, <2>2, <2>6, <3>1, <3>2, PacketKept, Zenon DEF n, p
    <2>8. CASE ~(dataSize < Len(p))
      <3>1. Available(rest)
        BY <2>6, <2>8
      <3>2. EndOf(m) = Len(Whole(written, m)) /\ Len(rest) = Len(p)
        BY <1>4, <1>5, <2>2, <2>4, <2>8
      <3> QED BY <1>3, <2>2, <2>6, <3>1, <3>2, PacketDelivered, Zenon DEF n, p
    <2> QED BY <2>7, <2>8
  <1> QED BY <1>1, <1>6, <1>7

(* Taking the first message off a queue of two parts. *)
LEMMA FirstTaken ==
    ASSUME NEW q \in Seq(Message), NEW s \in Seq(Message), q # <<>>
    PROVE  /\ Head(q) = (q \o s)[1] /\ Head(q) \in Message /\ q \o s # <<>>
           /\ Tail(q) \in Seq(Message) /\ Tail(q) \o s = Tail(q \o s)
  <1>1. Head(q) = (q \o s)[1] /\ Head(q) \in Message /\ q \o s # <<>>
    OBVIOUS
  <1>2. Tail(q) \in Seq(Message)
    OBVIOUS
  <1>3. Tail(q) \o s = Tail(q \o s)
    OBVIOUS
  <1> QED BY <1>1, <1>2, <1>3

(* A queue is empty when its length is 0. *)
LEMMA EmptyIsShort ==
    ASSUME NEW q \in Seq(Message)
    PROVE  q = <<>> <=> Len(q) = 0
  OBVIOUS

(* The first and the last of a queue whose first message has been taken. *)
LEMMA LastAndSecond ==
    ASSUME NEW q \in Seq(Message), q # <<>>
    PROVE  /\ Tail(q) = <<>> => q[Len(q)] = q[1]
           /\ Tail(q) # <<>> => /\ Tail(q)[1] = q[2] /\ 1 \in 1..Len(q) - 1
                                /\ Tail(q)[Len(Tail(q))] = q[Len(q)]
  <1>1. Len(q) \in Nat /\ Len(q) >= 1 /\ Len(Tail(q)) = Len(q) - 1 /\ Tail(q) \in Seq(Message)
    OBVIOUS
  <1>2. \A i \in 1..Len(q) - 1 : Tail(q)[i] = q[i + 1]
    OBVIOUS
  <1>3. CASE Len(q) = 1
    <2>1. Tail(q) = <<>>
      <3>1. Len(Tail(q)) = 0
        BY <1>1, <1>3
      <3> QED BY <1>1, <3>1, EmptyIsShort, Zenon
    <2> QED BY <1>3, <2>1
  <1>4. CASE Len(q) > 1
    <2>1. Tail(q) # <<>> /\ 1 \in 1..Len(q) - 1 /\ Len(q) - 1 \in 1..Len(q) - 1
      <3>1. Len(Tail(q)) # 0
        BY <1>1, <1>4
      <3>2. Tail(q) # <<>>
        BY <1>1, <3>1, EmptyIsShort, Zenon
      <3>3. 1 \in 1..Len(q) - 1 /\ Len(q) - 1 \in 1..Len(q) - 1
        BY <1>1, <1>4
      <3> QED BY <3>2, <3>3
    <2>2. Tail(q)[1] = q[2]
      BY <1>2, <2>1
    <2>3. Tail(q)[Len(q) - 1] = q[Len(q)]
      BY <1>1, <1>2, <2>1
    <2> QED BY <1>1, <2>1, <2>2, <2>3
  <1> QED BY <1>1, <1>3, <1>4

(* Stream::receiveMessage() keeps the invariant, and if it delivers a packet
   then it is the next one that was written. *)
LEMMA ReceiveStep ==
    ASSUME IInv, Receive
    PROVE  /\ IInv'
           /\ \/ UNCHANGED delivered
              \/ /\ reader /\ reader'
                 /\ Len(delivered) < Len(written)
                 /\ delivered' = Append(delivered, written[Len(delivered) + 1])
  <1> DEFINE m == Head(pipe)
  <1>1. /\ TypeOK /\ assertsHold /\ Chain(written, Queue) /\ FrontFits /\ BackEnds
        /\ DeliveredIsPrefix /\ ReaderHasPart
    BY DEF IInv
  <1>2. pipe \in Seq(Message) /\ outgoing \in Seq(Message) /\ Queue \in Seq(Message)
        /\ pipe # <<>> /\ pipe' = Tail(pipe) /\ UNCHANGED <<written, writer, outgoing>>
    BY <1>1, QueueIsMessages DEF TypeOK, Receive
  <1>3. /\ m = Queue[1] /\ m \in Message /\ Queue # <<>>
        /\ pipe' \in Seq(Message) /\ Queue' = Tail(Queue)
    BY <1>2, FirstTaken DEF Queue
  <1>4. Chain(written', Queue')
    BY <1>1, <1>2, <1>3, ChainTail
  <1>5. /\ Queue' = <<>> => Queue[Len(Queue)] = m
        /\ Queue' # <<>> => /\ Queue'[1] = Queue[2] /\ 1 \in 1..Len(Queue) - 1
                            /\ Queue'[Len(Queue')] = Queue[Len(Queue)]
    BY <1>2, <1>3, LastAndSecond
  <1>6. End' = End
    BY <1>2 DEF End
  <1> HIDE DEF m
  <1>7. CASE reader /\ m.command = "Write"
    <2>1. ReceiveMessage(m) /\ reader' = reader
      BY <1>7 DEF Receive, m
    <2>2. IsPiece(written, m)
      <3>1. 1 \in 1..Len(Queue)
        BY <1>2, <1>3
      <3> QED BY <1>1, <1>3, <1>7, <3>1 DEF Chain, IsMessage
    <2>3. FitsAt(Position, m)
      BY <1>1, <1>3, <1>7 DEF FrontFits
    <2>4. /\ ReaderAt(written, m)
          /\ \/ UNCHANGED delivered
             \/ delivered' = Append(delivered, written[Len(delivered) + 1])
      BY <1>1, <1>2, <1>3, <1>7, <2>1, <2>2, <2>3, PieceReceived
    <2>5. m.packet = Len(delivered) + 1 /\ m.packet \in 1..Len(written)
      BY <1>7, <2>2, <2>3 DEF FitsAt, Position, IsPiece
    <2>6. Len(delivered) < Len(written)
      BY <1>1, <2>5 DEF TypeOK
    <2>7. FrontFits'
      <3>1. ASSUME Queue' # <<>> PROVE FitsAt(After(written, m), Queue'[1])
        <4>1. Follows(written, Queue[1], Queue[1 + 1])
          BY <1>1, <1>5, <3>1 DEF Chain
        <4> QED BY <1>3, <1>5, <1>7, <3>1, <4>1 DEF Follows
      <3> QED BY <2>4, <3>1 DEF FrontFits, ReaderAt
    <2>8. BackEnds'
      <3>1. ASSUME writer PROVE EndsAt(written, Queue, End)
        BY <1>1, <1>3, <3>1 DEF BackEnds
      <3>2. ASSUME writer, Queue' = <<>> PROVE After(written, m) = End
        BY <1>5, <1>7, <3>1, <3>2 DEF EndsAt
      <3>3. ASSUME writer, Queue' # <<>> PROVE EndsAt(written, Queue', End)
        BY <1>5, <3>1, <3>3 DEF EndsAt
      <3> QED BY <1>2, <1>6, <2>4, <3>2, <3>3 DEF BackEnds, ReaderAt
    <2> QED BY <1>4, <1>7, <2>1, <2>4, <2>6, <2>7, <2>8 DEF IInv, ReaderAt
  <1>8. CASE ~(reader /\ m.command = "Write")
    <2>1. /\ reader' = (reader /\ m.command # "Close")
          /\ UNCHANGED <<incoming, delivered, assertsHold>>
      BY <1>8 DEF Receive, m
    <2>2. reader' = FALSE
      BY <1>1, <1>3, <1>8, <2>1 DEF Message, TypeOK
    <2>3. DeliveredIsPrefix' /\ ReaderHasPart'
      BY <1>1, <1>2, <2>1, ReaderUnchanged
    <2>4. FrontFits'
      BY <2>2 DEF FrontFits
    <2>5. BackEnds'
      BY <1>1, <1>2, <1>3, <1>5, <1>6, <2>2 DEF BackEnds, EndsAt
    <2>6. TypeOK'
      BY <1>1, <1>2, <1>3, <2>1, <2>2 DEF TypeOK, incoming
    <2> QED BY <1>1, <1>4, <2>1, <2>3, <2>4, <2>5, <2>6 DEF IInv
  <1> QED BY <1>7, <1>8
-----------------------------------------------------------------------------
(* No Write goes on in a destroyed object. *)
NeverGoesOn == "go on" \notin Aftermaths

(* Every step keeps the invariant. *)
LEMMA NextInv ==
    ASSUME IInv, NeverGoesOn, [Next]_vars
    PROVE  IInv'
  <1>1. ASSUME NEW p \in Packets, Write(p) PROVE IInv'
    BY <1>1, WriteStep
  <1>2. ASSUME NEW p \in Packets, WriteFails(p) PROVE IInv'
    BY <1>2, WriteFailsStep DEF NeverGoesOn
  <1>3. CASE RequestClose
    BY <1>3, RequestCloseStep
  <1>4. CASE Send
    BY <1>4, SendStep
  <1>5. CASE WriterReset
    BY <1>5, WriterResetStep
  <1>6. CASE WriterCloses
    BY <1>6, WriterClosesStep
  <1>7. CASE Receive
    BY <1>7, ReceiveStep
  <1>8. CASE ReaderCloses
    BY <1>8, ReaderClosesStep
  <1>9. CASE UNCHANGED vars
    BY <1>9 DEF vars, incoming, IInv, TypeOK, Queue, FrontFits, BackEnds, Position, End,
                DeliveredIsPrefix, ReaderHasPart
  <1> QED BY <1>1, <1>2, <1>3, <1>4, <1>5, <1>6, <1>7, <1>8, <1>9 DEF Next

(* Whatever is written, in packets of any bytes and any number and for any size
   of the messages, and wherever the stream is closed or cut: all on the way fit
   together and to what the reader waits for.  It is assumed that write() does
   not go on in a destroyed object, which is undefined in C++ (stream.cpp:55-66)
   and what the run write_goes_on is about. *)
THEOREM Invariance ==
    ASSUME NeverGoesOn
    PROVE  Spec => []IInv
  <1>1. IInv /\ [Next]_vars => IInv'
    BY NextInv
  <1> QED BY InitInv, <1>1, PTL DEF Spec

(* The members of both Stream objects keep their types. *)
THEOREM TypeCorrect ==
    ASSUME NeverGoesOn
    PROVE  Spec => []TypeOK
  <1>1. IInv => TypeOK
    BY DEF IInv
  <1> QED BY Invariance, <1>1, PTL

(* No Q_ASSERT of receiveMessage() fails, whatever is written, in pieces of any
   size (stream.cpp:96, 105, 112). *)
THEOREM NoAssertionFails ==
    ASSUME NeverGoesOn
    PROVE  Spec => []AssertionsHold
  <1>1. IInv => AssertionsHold
    BY DEF IInv, AssertionsHold
  <1> QED BY Invariance, <1>1, PTL

(* The invariant puts a Close that was asked for where the reader has no part. *)
LEMMA CloseFitsTheReader ==
    ASSUME IInv
    PROVE  OrderlyClose
  <1> DEFINE m == Head(pipe)
  <1> SUFFICES ASSUME reader, pipe # <<>>, m.command = "Close", m.packet > 0
               PROVE  Len(delivered) = m.packet /\ ~partlyReceived
    BY DEF OrderlyClose
  <1>1. TypeOK /\ FrontFits
    BY DEF IInv
  <1>2. m = Queue[1] /\ m \in Message /\ Queue # <<>>
    BY <1>1, FirstTaken DEF TypeOK, Queue
  <1> HIDE DEF m
  <1>3. <<m.packet + 1, 0>> = Position
    BY <1>1, <1>2 DEF FrontFits, FitsAt
  <1>4. Len(delivered) \in Nat /\ Len(incomingData) \in Nat /\ m.packet \in Nat
    BY <1>1, <1>2 DEF TypeOK, Message
  <1>5. ~partlyReceived
    BY <1>3, <1>4 DEF Position
  <1>6. Len(delivered) + 1 = m.packet + 1
    BY <1>3, <1>5 DEF Position
  <1> QED BY <1>4, <1>5, <1>6

(* A reader that gets the Close its writer has asked for has had all packets
   and is in no packet (stream.cpp:78-81). *)
THEOREM ClosesAreOrderly ==
    ASSUME NeverGoesOn
    PROVE  Spec => []OrderlyClose
  <1>1. IInv => OrderlyClose
    BY CloseFitsTheReader
  <1> QED BY Invariance, <1>1, PTL
-----------------------------------------------------------------------------
(* A new stream has the initial state of the abstract one. *)
LEMMA InitIsAbstract == Init => Abstract!Init
  BY DEF Init, Abstract!Init, Status

(* Every step is one of the abstract stream, or none. *)
LEMMA StepIsAbstract ==
    ASSUME IInv, [Next]_vars
    PROVE  [Abstract!Next]_(Abstract!vars)
  <1> USE DEF Status
  <1>0. reader \in BOOLEAN /\ writer \in BOOLEAN
    BY DEF IInv, TypeOK
  <1>1. ASSUME NEW p \in Packets, Write(p) PROVE Abstract!Write(p)
    BY <1>1 DEF Write, Abstract!Write
  <1>2. ASSUME NEW p \in Packets, WriteFails(p) PROVE Abstract!Write(p)
    BY <1>0, <1>2 DEF WriteFails, Abstract!Write
  <1>3. CASE RequestClose
    BY <1>3 DEF RequestClose, Abstract!vars
  <1>4. CASE Send
    BY <1>0, <1>4 DEF Send, Abstract!Next, Abstract!CutOff, Abstract!vars
  <1>5. CASE WriterReset
    BY <1>0, <1>5 DEF WriterReset, Abstract!Next, Abstract!CutOff, Abstract!vars
  <1>6. CASE WriterCloses
    BY <1>0, <1>6 DEF WriterCloses, Abstract!Next, Abstract!CutOff, Abstract!vars
  <1>7. CASE Receive
    <2>1. UNCHANGED <<written, writer>> /\ (reader' => reader)
      BY <1>7 DEF Receive
    <2>2. reader' \in BOOLEAN
      BY <1>7, ReceiveStep DEF IInv, TypeOK
    <2>3. CASE UNCHANGED delivered
      BY <1>0, <2>1, <2>2, <2>3 DEF Abstract!Next, Abstract!Close, Abstract!vars
    <2>4. CASE /\ reader /\ reader'
               /\ Len(delivered) < Len(written)
               /\ delivered' = Append(delivered, written[Len(delivered) + 1])
      BY <2>1, <2>4 DEF Abstract!Next, Abstract!Deliver
    <2> QED BY <1>7, <2>3, <2>4, ReceiveStep
  <1>8. CASE ReaderCloses
    BY <1>8 DEF ReaderCloses, Abstract!Next, Abstract!Close
  <1>9. CASE UNCHANGED vars
    BY <1>9 DEF vars, Abstract!vars
  <1> QED BY <1>1, <1>2, <1>3, <1>4, <1>5, <1>6, <1>7, <1>8, <1>9 DEF Next, Abstract!Next

(* A stream of the code is an abstract stream: its packets arrive whole, once
   and in order, whatever their bytes, their lengths and the size of a message
   (stream.cpp:55-66, 88-130). *)
THEOREM PacketsArriveInOrder ==
    ASSUME NeverGoesOn
    PROVE  Spec => ImplementsPacketStream
  <1>1. IInv /\ [Next]_vars => [Abstract!Next]_(Abstract!vars)
    BY StepIsAbstract
  <1> QED BY InitIsAbstract, Invariance, <1>1, PTL
          DEF Spec, ImplementsPacketStream, Abstract!Spec
=============================================================================
