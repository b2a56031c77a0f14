---------------------------- MODULE UsbLinkProofs ----------------------------
(***************************************************************************)
(* Proofs about the USB link, in both directions.                          *)
(*                                                                         *)
(* Host to device (module UsbLink), for payloads of any sizes, any number  *)
(* of messages, connections and pulls of the cable: the two ends agree     *)
(* where a message begins whenever the host has an answer, and the link is *)
(* a MessagePipe.                                                          *)
(*                                                                         *)
(* Both rest on one argument.  UnderWay is what the host has written and   *)
(* the device has not read: the transfers of one message, or what is left  *)
(* of them.  Whatever header the device's reader still has from another    *)
(* host, the two transfers of a Connect leave it with none, as the second  *)
(* is too short to be a header.                                            *)
(*                                                                         *)
(* Device to host, packet by packet (module UsbReader), for messages,      *)
(* packets and buffers of any sizes SizesAssumption allows: a message      *)
(* shorter than a packet is lost only to a failure or to the message       *)
(* before it, and only what is left of longer messages is made up from.    *)
(* ReaderInv says why: packets arrive in the order of their messages, and  *)
(* the transfer is empty when a message begins unless the one before left  *)
(* it open, so a short message is alone in its read.  RunsInv adds what a  *)
(* read holds: packets that follow each other, all of them full but the    *)
(* last.                                                                   *)
(***************************************************************************)
EXTENDS UsbLink, UsbReader, SequenceTheorems, TLAPS

HeaderOf(m) == [part |-> "header", of |-> m]

PayloadOf(m) == [part |-> "payload", of |-> m]

(* The state of the device's reading thread, and what it has handed on. *)
Readers == [need : Messages \cup {NoHeader}, reads : Seq(Reads)]

UnderWay == out \o writing

(* What is under way is a whole message, its header alone (the host died) or
   its payload alone.  A reader that counts otherwise has a Connect before it,
   or has swallowed the header of one. *)
OneMessageUnderWay ==
    UnderWay # <<>> =>
        LET m == UnderWay[1].of IN
        \/ /\ UnderWay = TransfersOf(m) \/ UnderWay = <<HeaderOf(m)>>
           /\ need = NoHeader \/ m.size = VersionSize
        \/ /\ UnderWay = <<PayloadOf(m)>>
           /\ need = m \/ (need = NoHeader /\ m.size = VersionSize)

(* From its Connect on, the host counts like the device. *)
AlignedOnceWritten == linkUp /\ phase # "new" => Outcome.need = NoHeader

(* The inductive invariant. *)
IInv ==
    /\ TypeOK
    /\ OneMessageUnderWay
    /\ ~linkUp => out = <<>> /\ writing = <<>>
    /\ AlignedOnceWritten

-----------------------------------------------------------------------------
(* Two sequences of one element make one of two. *)
LEMMA PairIsConcat ==
    ASSUME NEW S, NEW a \in S, NEW b \in S
    PROVE  <<a>> \o <<b>> = <<a, b>>
<1>1. <<a>> \in Seq(S) /\ <<b>> \in Seq(S) /\ <<a, b>> \in Seq(S)
  OBVIOUS
<1>2. /\ <<a>> \o <<b>> \in Seq(S) /\ Len(<<a>> \o <<b>>) = 2
      /\ \A i \in 1..2 : (<<a>> \o <<b>>)[i] = <<a, b>>[i]
  BY <1>1, ConcatProperties
<1> QED  BY <1>1, <1>2, SeqEqual

(* A sequence that is neither empty nor longer than one element. *)
LEMMA SingleElement ==
    ASSUME NEW S, NEW s \in Seq(S), s # <<>>, Len(s) <= 1
    PROVE  Len(s) = 1 /\ Head(s) \in S /\ s[1] = Head(s) /\ s = <<Head(s)>>
<1>1. Len(s) \in Nat \ {0}
  BY EmptySeq
<1>2. Len(s) = 1 /\ s[1] = Head(s)
  BY <1>1
<1>3. Head(s) \in S
  BY <1>2, ElementOfSeq
<1> DEFINE t == Head(s)
<1> HIDE DEF t
<1>4. <<t>> \in Seq(S) /\ Len(<<t>>) = 1 /\ <<t>>[1] = t
  BY <1>3 DEF t
<1>5. s = <<t>>
  BY <1>2, <1>4, SeqEqual DEF t
<1> QED  BY <1>2, <1>3, <1>5 DEF t

(* Two elements in two sequences, the first of one element. *)
LEMMA SecondOfConcat ==
    ASSUME NEW S, NEW s \in Seq(S), NEW t \in Seq(S), Len(s) = 1, Len(s \o t) = 2
    PROVE  Len(t) = 1 /\ (s \o t)[2] = t[1]
<1>1. Len(t) = 1
  BY ConcatProperties, LenProperties
<1> QED  BY <1>1, ConcatProperties

(* The transfers of a message. *)
LEMMA TransfersOfMessage ==
    ASSUME NEW m \in Messages
    PROVE  /\ m.size > 0 => TransfersOf(m) = <<HeaderOf(m), PayloadOf(m)>>
           /\ ~(m.size > 0) => TransfersOf(m) = <<HeaderOf(m)>>
           /\ m.size \in Nat /\ m # NoHeader
           /\ HeaderOf(m) \in Transfers /\ PayloadOf(m) \in Transfers
<1>1. m.size \in Nat
  <2>1. m.size \in PayloadSizes \cup {4}
    BY DEF Messages, VersionSize
  <2>2. PayloadSizes \subseteq Nat
    BY LinkAssumption
  <2>3. CASE m.size \in PayloadSizes
    BY <2>2, <2>3
  <2>4. CASE m.size = 4
    BY <2>4
  <2> QED  BY <2>1, <2>3, <2>4
<1>2. m # NoHeader
  BY DEF Messages, NoHeader
<1>3. HeaderOf(m) \in Transfers /\ PayloadOf(m) \in Transfers
  BY DEF HeaderOf, PayloadOf, Transfers
<1>4. CASE m.size > 0
  <2>1. TransfersOf(m) = <<HeaderOf(m)>> \o <<PayloadOf(m)>>
    BY <1>4 DEF TransfersOf, HeaderOf, PayloadOf
  <2>2. <<HeaderOf(m)>> \o <<PayloadOf(m)>> = <<HeaderOf(m), PayloadOf(m)>>
    BY <1>3, PairIsConcat
  <2> QED  BY <1>1, <1>2, <1>3, <1>4, <2>1, <2>2
<1>5. CASE ~(m.size > 0)
  <2>1. TransfersOf(m) = <<HeaderOf(m)>> \o <<>>
    BY <1>5 DEF TransfersOf, HeaderOf
  <2>2. <<HeaderOf(m)>> \in Seq(Transfers)
    BY <1>3
  <2> QED  BY <1>1, <1>2, <1>3, <1>5, <2>1, <2>2, ConcatEmptySeq
<1> QED  BY <1>4, <1>5

(* Nothing, one transfer, two transfers read. *)
LEMMA ReadingSteps ==
    /\ \A c : ReadBoth(c, <<>>) = c
    /\ \A c, t : ReadBoth(c, <<t>>) = ReadTransfer(c, t)
    /\ \A c, t, u : ReadBoth(c, <<t, u>>) = ReadTransfer(ReadTransfer(c, t), u)
BY DEF ReadBoth, ReadNth

(* What executeRead() makes of a header and of a payload. *)
LEMMA ReadHeaderAligned ==
    ASSUME NEW r \in Seq(Reads), NEW m \in Messages
    PROVE  ReadTransfer([need |-> NoHeader, reads |-> r], HeaderOf(m)) =
               IF m.size > 0
               THEN [need |-> m, reads |-> r]
               ELSE [need |-> NoHeader,
                     reads |-> Append(r, [header |-> m, intact |-> TRUE])]
<1> DEFINE c == [need |-> NoHeader, reads |-> r]
           t == HeaderOf(m)
<1>1. c.need = NoHeader /\ c.reads = r /\ [c EXCEPT !.need = m] = [need |-> m, reads |-> r]
  OBVIOUS
<1>2. t.part = "header" /\ t.of = m /\ ~(Length(t) < qdbHeaderSize)
  BY DEF HeaderOf, Length, qdbHeaderSize
<1>3. (t.part = "header") = TRUE
  BY <1>2
<1> HIDE DEF c, t
<1>4. ReadTransfer(c, t) =
          IF m.size > 0 THEN [c EXCEPT !.need = m]
          ELSE [need |-> NoHeader,
                reads |-> Append(c.reads, [header |-> m, intact |-> t.part = "header"])]
  BY <1>1, <1>2 DEF ReadTransfer
<1> QED  BY <1>1, <1>3, <1>4 DEF c, t

(* A reader that waits for the payload of m reads it. *)
LEMMA ReadOwnPayload ==
    ASSUME NEW r \in Seq(Reads), NEW m \in Messages
    PROVE  ReadTransfer([need |-> m, reads |-> r], PayloadOf(m)) =
               [need |-> NoHeader, reads |-> Append(r, [header |-> m, intact |-> TRUE])]
<1> DEFINE c == [need |-> m, reads |-> r]
           t == PayloadOf(m)
<1>1. m # NoHeader /\ m.size \in Nat
  BY TransfersOfMessage
<1>2. c.need = m /\ c.reads = r
  OBVIOUS
<1>3. Length(t) = m.size /\ (t = [part |-> "payload", of |-> m]) = TRUE
  BY DEF PayloadOf, Length
<1> HIDE DEF c, t
<1>4. ReadTransfer(c, t) =
          [need |-> NoHeader,
           reads |-> Append(c.reads, [header |-> m,
                                      intact |-> t = [part |-> "payload", of |-> m]])]
  BY <1>1, <1>2, <1>3 DEF ReadTransfer
<1> QED  BY <1>2, <1>3, <1>4 DEF c, t

(* A reader that waits for a payload gets the header of the next message instead. *)
LEMMA ReadHeaderForPayload ==
    ASSUME NEW r \in Seq(Reads), NEW m \in Messages, NEW h \in Messages
    PROVE  ReadTransfer([need |-> h, reads |-> r], HeaderOf(m)) =
               IF qdbHeaderSize < h.size
               THEN [need |-> NoHeader, reads |-> r]
               ELSE [need |-> NoHeader,
                     reads |-> Append(r, [header |-> h, intact |-> FALSE])]
<1> DEFINE c == [need |-> h, reads |-> r]
           t == HeaderOf(m)
<1>1. h # NoHeader /\ h.size \in Nat
  BY TransfersOfMessage
<1>2. /\ c.need = h /\ c.reads = r
      /\ [c EXCEPT !.need = NoHeader] = [need |-> NoHeader, reads |-> r]
  OBVIOUS
<1>3. Length(t) = qdbHeaderSize /\ (t = [part |-> "payload", of |-> h]) = FALSE
  BY DEF HeaderOf, Length
<1> HIDE DEF c, t
<1>4. ReadTransfer(c, t) =
          IF qdbHeaderSize < h.size THEN [c EXCEPT !.need = NoHeader]
          ELSE [need |-> NoHeader,
                reads |-> Append(c.reads, [header |-> h,
                                           intact |-> t = [part |-> "payload", of |-> h]])]
  BY <1>1, <1>2, <1>3 DEF ReadTransfer
<1> QED  BY <1>2, <1>3, <1>4 DEF c, t

(* A reader that waits for a header gets the version's payload, which is too short. *)
LEMMA ReadVersionForHeader ==
    ASSUME NEW r \in Seq(Reads), NEW m \in Messages, m.size = VersionSize
    PROVE  ReadTransfer([need |-> NoHeader, reads |-> r], PayloadOf(m)) =
               [need |-> NoHeader, reads |-> r]
BY DEF ReadTransfer, PayloadOf, Length, qdbHeaderSize, VersionSize

(* A whole message, read by a reader that counts like its sender. *)
LEMMA ReadWholeAligned ==
    ASSUME NEW r \in Seq(Reads), NEW m \in Messages
    PROVE  ReadBoth([need |-> NoHeader, reads |-> r], TransfersOf(m)) =
               [need |-> NoHeader, reads |-> Append(r, [header |-> m, intact |-> TRUE])]
<1> DEFINE c == [need |-> NoHeader, reads |-> r]
           d == [need |-> m, reads |-> r]
           e == [need |-> NoHeader, reads |-> Append(r, [header |-> m, intact |-> TRUE])]
           t == HeaderOf(m)
           u == PayloadOf(m)
<1>1. CASE m.size > 0
  <2>1. ReadTransfer(c, t) = d /\ ReadTransfer(d, u) = e
    BY <1>1, ReadHeaderAligned, ReadOwnPayload
  <2>2. TransfersOf(m) = <<t, u>>
    BY <1>1, TransfersOfMessage
  <2> HIDE DEF c, d, e, t, u
  <2>3. ReadBoth(c, TransfersOf(m)) = e
    BY <2>1, <2>2, ReadingSteps
  <2> QED  BY <2>3 DEF c, e
<1>2. CASE ~(m.size > 0)
  <2>1. ReadTransfer(c, t) = e
    BY <1>2, ReadHeaderAligned
  <2>2. TransfersOf(m) = <<t>>
    BY <1>2, TransfersOfMessage
  <2> HIDE DEF c, e, t
  <2>3. ReadBoth(c, TransfersOf(m)) = e
    BY <2>1, <2>2, ReadingSteps
  <2> QED  BY <2>3 DEF c, e
<1> QED  BY <1>1, <1>2

(* A Connect, read by a reader that still has another header: the reader has
   none afterwards, and has handed on at most a forgery. *)
LEMMA ReadConnectMisaligned ==
    ASSUME NEW r \in Seq(Reads), NEW m \in Messages, m.size = VersionSize,
           NEW h \in Messages
    PROVE  ReadBoth([need |-> h, reads |-> r], TransfersOf(m)) =
               IF qdbHeaderSize < h.size
               THEN [need |-> NoHeader, reads |-> r]
               ELSE [need |-> NoHeader,
                     reads |-> Append(r, [header |-> h, intact |-> FALSE])]
<1>1. TransfersOf(m) = <<HeaderOf(m), PayloadOf(m)>>
  BY TransfersOfMessage DEF VersionSize
<1> DEFINE c == [need |-> h, reads |-> r]
           s == IF qdbHeaderSize < h.size THEN r
                ELSE Append(r, [header |-> h, intact |-> FALSE])
           d == [need |-> NoHeader, reads |-> s]
           t == HeaderOf(m)
           u == PayloadOf(m)
<1>2. s \in Seq(Reads)
  <2>1. [header |-> h, intact |-> FALSE] \in Reads
    BY DEF Reads
  <2> QED  BY <2>1, AppendProperties
<1>3. ReadTransfer(c, t) = d
  BY ReadHeaderForPayload
<1>4. ReadTransfer(d, u) = d
  <2> HIDE DEF s
  <2> QED  BY <1>2, ReadVersionForHeader
<1>5. ReadBoth(c, TransfersOf(m)) = d
  <2> HIDE DEF c, d, t, u
  <2> QED  BY <1>1, <1>3, <1>4, ReadingSteps DEF t, u
<1> QED  BY <1>5

(* What is under way while one of the two is empty. *)
LEMMA UnderWayIs ==
    ASSUME TypeOK
    PROVE  /\ UnderWay \in Seq(Transfers) /\ Len(UnderWay) = Len(out) + Len(writing)
           /\ out = <<>> => UnderWay = writing
           /\ writing = <<>> => UnderWay = out
           /\ Len(out) \in Nat /\ Len(writing) \in Nat
BY ConcatProperties, ConcatEmptySeq, LenProperties DEF TypeOK, UnderWay

(* The first transfer under way is part of some message. *)
LEMMA FirstUnderWay ==
    ASSUME TypeOK, UnderWay # <<>>
    PROVE  UnderWay[1] \in Transfers /\ UnderWay[1].of \in Messages
<1> DEFINE s == UnderWay
<1>1. s \in Seq(Transfers) /\ s # <<>>
  BY UnderWayIs
<1> HIDE DEF s
<1>2. s[1] \in Transfers
  BY <1>1, EmptySeq, ElementOfSeq
<1>3. \A t \in Transfers : t.of \in Messages
  BY DEF Transfers
<1> QED  BY <1>2, <1>3 DEF s

(* At most one message comes of what is under way. *)
LEMMA OutcomeAddsOne ==
    ASSUME TypeOK, OneMessageUnderWay
    PROVE  /\ Outcome \in Readers
           /\ \/ Outcome.reads = reads
              \/ \E x \in Reads : Outcome.reads = Append(reads, x)
<1> DEFINE c == [need |-> need, reads |-> reads]
<1>1. c \in Readers /\ reads \in Seq(Reads) /\ need \in Messages \cup {NoHeader}
  BY DEF TypeOK, Readers
<1>2. Outcome = ReadBoth(c, UnderWay)
  BY DEF Outcome, UnderWay
<1>3. SUFFICES \/ Outcome = [need |-> NoHeader, reads |-> reads]
               \/ Outcome = c
               \/ \E h \in Messages : Outcome = [need |-> h, reads |-> reads]
               \/ \E x \in Reads : Outcome = [need |-> NoHeader, reads |-> Append(reads, x)]
  <2>1. \A x \in Reads : Append(reads, x) \in Seq(Reads)
    BY <1>1, AppendProperties
  <2> QED  BY <1>1, <1>3, <2>1 DEF Readers
<1>4. CASE UnderWay = <<>>
  BY <1>2, <1>4, ReadingSteps
<1>5. CASE UnderWay # <<>>
  <2> DEFINE m == UnderWay[1].of
  <2>1. m \in Messages
    BY <1>5, FirstUnderWay
  <2>2. /\ \A h \in Messages : /\ [header |-> h, intact |-> TRUE] \in Reads
                               /\ [header |-> h, intact |-> FALSE] \in Reads
    BY DEF Reads
  <2>3. CASE /\ UnderWay = TransfersOf(m) \/ UnderWay = <<HeaderOf(m)>>
             /\ need = NoHeader \/ m.size = VersionSize
    <3> HIDE DEF m
    <3>1. CASE need = NoHeader
      <4>1. CASE UnderWay = TransfersOf(m)
        BY <1>1, <1>2, <2>1, <2>2, <3>1, <4>1, ReadWholeAligned
      <4>2. CASE UnderWay = <<HeaderOf(m)>>
        <5>1. Outcome = ReadTransfer(c, HeaderOf(m))
          BY <1>2, <4>2, ReadingSteps
        <5> QED  BY <1>1, <2>1, <2>2, <3>1, <5>1, ReadHeaderAligned
      <4> QED  BY <2>3, <4>1, <4>2
    <3>2. CASE need \in Messages
      <4>0. m.size = VersionSize
        BY <2>3, <3>2, TransfersOfMessage
      <4>1. CASE UnderWay = TransfersOf(m)
        BY <1>1, <1>2, <2>1, <2>2, <3>2, <4>0, <4>1, ReadConnectMisaligned
      <4>2. CASE UnderWay = <<HeaderOf(m)>>
        <5>1. Outcome = ReadTransfer(c, HeaderOf(m))
          BY <1>2, <4>2, ReadingSteps
        <5> QED  BY <1>1, <2>1, <2>2, <3>2, <5>1, ReadHeaderForPayload
      <4> QED  BY <2>3, <4>1, <4>2
    <3> QED  BY <1>1, <3>1, <3>2
  <2>4. CASE /\ UnderWay = <<PayloadOf(m)>>
             /\ need = m \/ (need = NoHeader /\ m.size = VersionSize)
    <3> HIDE DEF m
    <3>1. Outcome = ReadTransfer(c, PayloadOf(m))
      BY <1>2, <2>4, ReadingSteps
    <3>2. CASE need = m
      BY <1>1, <2>1, <2>2, <3>1, <3>2, ReadOwnPayload
    <3>3. CASE need = NoHeader /\ m.size = VersionSize
      BY <1>1, <2>1, <2>2, <3>1, <3>3, ReadVersionForHeader
    <3> QED  BY <2>4, <3>2, <3>3
  <2> QED  BY <1>5, <2>3, <2>4 DEF OneMessageUnderWay
<1> QED  BY <1>4, <1>5

-----------------------------------------------------------------------------
(* The steps of the pipe, or none. *)
PipeStep == [Pipe!Next]_(Pipe!vars)

(* A step that changes neither what is under way nor what the device's reader
   has made of the rest changes nothing of the pipe. *)
LEMMA OutcomeUnchanged ==
    ASSUME UnderWay' = UnderWay, need' = need, reads' = reads
    PROVE  Outcome' = Outcome
BY DEF Outcome, UnderWay

(* A step that leaves the outcome of the link alone is a stutter of the pipe. *)
LEMMA StutterStep ==
    ASSUME Outcome' = Outcome
    PROVE  PipeStep
BY DEF PipeStep, Pipe!vars

(* A message appended to the queue. *)
LEMMA AddedStep ==
    ASSUME NEW S, NEW x \in S, Outcome.reads \in Seq(Reads), x \in Reads,
           Outcome'.reads = Append(Outcome.reads, x)
    PROVE  /\ Outcome'.reads # <<>>
           /\ Outcome'.reads[Len(Outcome'.reads)] \in S
           /\ Outcome'.reads = Append(Outcome.reads, Outcome'.reads[Len(Outcome'.reads)])
<1> DEFINE q == Outcome.reads
           r == Outcome'.reads
<1>1. q \in Seq(Reads) /\ x \in Reads /\ r = Append(q, x)
  OBVIOUS
<1> HIDE DEF q, r
<1>2. r # <<>> /\ Len(r) = Len(q) + 1 /\ r[Len(q) + 1] = x
  BY <1>1, AppendProperties
<1>3. r # <<>> /\ r[Len(r)] \in S /\ r = Append(q, r[Len(r)])
  BY <1>1, <1>2
<1> QED  BY <1>3 DEF q, r

(* What was under way is gone, or part of it. *)
LEMMA CutStep ==
    ASSUME Outcome \in Readers, Outcome' \in Readers, NEW r \in Seq(Reads),
           Outcome'.reads = Outcome.reads \/ Outcome'.reads = r,
           \/ Outcome.reads = r
           \/ \E x \in Reads : Outcome.reads = Append(r, x)
    PROVE  PipeStep
<1> DEFINE q == Outcome.reads
           qq == Outcome'.reads
<1>1. CASE qq = q
  <2>1. Pipe!Cut
    BY <1>1 DEF Pipe!Cut
  <2> QED  BY <2>1 DEF PipeStep, Pipe!Next
<1>2. CASE qq = r /\ qq # q
  <2>1. PICK x \in Reads : q = Append(r, x)
    BY <1>2
  <2>2. q # <<>> /\ SubSeq(q, 1, Len(q) - 1) = r
    <3> HIDE DEF q, qq
    <3>1. q \in Seq(Reads) /\ q # <<>> /\ Len(q) = Len(r) + 1 /\ Len(r) \in Nat
          /\ \A i \in 1..Len(r) : q[i] = r[i]
      BY <2>1, AppendProperties, LenProperties
    <3> DEFINE p == SubSeq(q, 1, Len(q) - 1)
    <3>2. p \in Seq(Reads) /\ Len(p) = Len(r) /\ \A i \in 1..Len(r) : p[i] = q[i]
      <4>1. \A i \in 1..Len(q) - 1 : q[i] \in Reads
        BY <3>1, ElementOfSeq
      <4> QED  BY <3>1, <4>1, SubSeqProperties
    <3> HIDE DEF p
    <3>3. p = r
      BY <3>1, <3>2, SeqEqual
    <3> QED  BY <3>1, <3>3 DEF p
  <2>3. Pipe!Cut
    BY <1>2, <2>2 DEF Pipe!Cut
  <2> QED  BY <2>3 DEF PipeStep, Pipe!Next
<1> QED  BY <1>1, <1>2

(* A message written while nothing is under way: the pipe gains it, or it
   takes the place of the missing half. *)
LEMMA WriteStep ==
    ASSUME TypeOK, Free, NEW m \in Messages, need = NoHeader \/ m.size = VersionSize,
           out' = out, writing' = TransfersOf(m), need' = need, reads' = reads
    PROVE  /\ PipeStep /\ Outcome'.need = NoHeader /\ OneMessageUnderWay'
           /\ writing' \in Seq(Transfers) /\ Len(writing') <= 2
<1>1. reads \in Seq(Reads) /\ need \in Messages \cup {NoHeader}
  BY DEF TypeOK
<1>2. Outcome = [need |-> need, reads |-> reads]
  <2>1. UnderWay = <<>>
    BY UnderWayIs DEF Free
  <2> QED  BY <2>1, ReadingSteps DEF Outcome, UnderWay
<1>3. /\ writing' \in Seq(Transfers) /\ Len(writing') <= 2 /\ writing'[1] = HeaderOf(m)
      /\ writing' # <<>>
  <2>1. HeaderOf(m) \in Transfers /\ PayloadOf(m) \in Transfers
    BY TransfersOfMessage
  <2>2. writing' = <<HeaderOf(m), PayloadOf(m)>> \/ writing' = <<HeaderOf(m)>>
    BY TransfersOfMessage
  <2>3. CASE writing' = <<HeaderOf(m), PayloadOf(m)>>
    BY <2>1, <2>3
  <2>4. CASE writing' = <<HeaderOf(m)>>
    BY <2>1, <2>4
  <2> QED  BY <2>2, <2>3, <2>4
<1>4. UnderWay' = TransfersOf(m)
  <2>1. out' = <<>>
    BY DEF Free
  <2> QED  BY <1>3, <2>1, ConcatEmptySeq DEF UnderWay
<1>5. Outcome' = ReadBoth([need |-> need, reads |-> reads], TransfersOf(m))
  BY <1>4 DEF Outcome, UnderWay
<1>6. OneMessageUnderWay'
  <2>1. UnderWay'[1].of = m
    BY <1>3, <1>4 DEF HeaderOf
  <2> QED  BY <1>4, <2>1 DEF OneMessageUnderWay
<1>7. CASE need = NoHeader
  <2> DEFINE x == [header |-> m, intact |-> TRUE]
  <2>1. Outcome' = [need |-> NoHeader, reads |-> Append(reads, x)]
    BY <1>1, <1>5, <1>7, ReadWholeAligned
  <2>2. x \in Reads /\ x \in [header : Messages, intact : {TRUE}]
    BY DEF Reads
  <2> HIDE DEF x
  <2>3. Pipe!Put
    BY <1>1, <1>2, <1>7, <2>1, <2>2, AddedStep DEF Pipe!Put, Pipe!Added
  <2> QED  BY <1>3, <1>6, <2>1, <2>3 DEF PipeStep, Pipe!Next
<1>8. CASE need \in Messages
  <2> DEFINE x == [header |-> need, intact |-> FALSE]
  <2>1. need # NoHeader /\ m.size = VersionSize
    BY <1>8, TransfersOfMessage
  <2>2. \/ Outcome' = [need |-> NoHeader, reads |-> reads]
        \/ Outcome' = [need |-> NoHeader, reads |-> Append(reads, x)]
    BY <1>1, <1>5, <1>8, <2>1, ReadConnectMisaligned
  <2>3. x \in Reads /\ x \in [header : Messages, intact : {FALSE}]
    BY <1>8 DEF Reads
  <2> HIDE DEF x
  <2>4. ASSUME Outcome' = [need |-> NoHeader, reads |-> reads]
        PROVE  Pipe!PutAfterCut
    BY <1>2, <2>1, <2>4 DEF Pipe!PutAfterCut
  <2>5. ASSUME Outcome' = [need |-> NoHeader, reads |-> Append(reads, x)]
        PROVE  Pipe!PutAfterCut
    <3>1. Outcome.reads \in Seq(Reads) /\ Outcome'.reads = Append(Outcome.reads, x)
      BY <1>1, <1>2, <2>5
    <3>2. Pipe!Added([header : Messages, intact : {FALSE}])
      BY <2>3, <3>1, AddedStep DEF Pipe!Added
    <3>3. Outcome.need # NoHeader /\ Outcome'.need = NoHeader
      BY <1>2, <2>1, <2>5
    <3> QED  BY <3>2, <3>3 DEF Pipe!PutAfterCut
  <2>6. Pipe!PutAfterCut
    BY <2>2, <2>4, <2>5
  <2> QED  BY <1>3, <1>6, <2>2, <2>6 DEF PipeStep, Pipe!Next
<1> QED  BY <1>1, <1>7, <1>8

(* The transfer in the endpoint is the first under way; behind it there is the
   payload of the same message or nothing. *)
LEMMA OutUnderWay ==
    ASSUME TypeOK, OneMessageUnderWay, out # <<>>
    PROVE  LET t == Head(out)
               m == UnderWay[1].of
           IN  /\ out = <<t>> /\ t \in Transfers /\ UnderWay[1] = t
               /\ UnderWay # <<>> /\ m \in Messages
               /\ \/ /\ m.size > 0 /\ t = HeaderOf(m) /\ writing = <<PayloadOf(m)>>
                     /\ need = NoHeader \/ m.size = VersionSize
                  \/ writing = <<>>
<1> DEFINE t == Head(out)
           m == UnderWay[1].of
<1>1. writing \in Seq(Transfers)
  BY DEF TypeOK
<1>4. out = <<t>> /\ t \in Transfers
  <2>1. out \in Seq(Transfers) /\ out # <<>> /\ Len(out) <= 1
    BY DEF TypeOK
  <2> QED  BY <2>1, SingleElement
<1>5. UnderWay # <<>> /\ UnderWay[1] = t /\ m \in Messages
  <2>1. /\ Len(out \o writing) = 1 + Len(writing) /\ (out \o writing)[1] = t
        /\ out \o writing \in Seq(Transfers) /\ Len(writing) \in Nat
    <3>1. /\ out \in Seq(Transfers) /\ Len(out) = 1 /\ out[1] = t
      BY <1>4 DEF TypeOK
    <3> QED  BY <1>1, <3>1, ConcatProperties, LenProperties
  <2>2. UnderWay # <<>>
    BY <2>1, EmptySeq DEF UnderWay
  <2> QED  BY <2>1, <2>2, FirstUnderWay DEF UnderWay
<1>6. \/ /\ m.size > 0 /\ t = HeaderOf(m) /\ writing = <<PayloadOf(m)>>
         /\ need = NoHeader \/ m.size = VersionSize
      \/ writing = <<>>
  <2>1. CASE UnderWay = TransfersOf(m) /\ m.size > 0 /\ (need = NoHeader \/ m.size = VersionSize)
    <3>1. UnderWay = <<HeaderOf(m), PayloadOf(m)>>
      BY <1>5, <2>1, TransfersOfMessage
    <3>2. t = HeaderOf(m)
      BY <1>5, <3>1
    <3>3. Len(writing) = 1 /\ writing[1] = PayloadOf(m)
      <4>1. out \in Seq(Transfers) /\ Len(out) = 1
        BY <1>1, <1>4 DEF TypeOK
      <4>2. Len(UnderWay) = 2 /\ UnderWay[2] = PayloadOf(m)
        BY <3>1
      <4> QED  BY <1>1, <4>1, <4>2, SecondOfConcat DEF UnderWay
    <3>4. writing = <<PayloadOf(m)>>
      <4>1. PayloadOf(m) \in Transfers
        BY <1>5, TransfersOfMessage
      <4>2. <<PayloadOf(m)>> \in Seq(Transfers) /\ Len(<<PayloadOf(m)>>) = 1
        BY <4>1
      <4> QED  BY <1>1, <3>3, <4>2, SeqEqual
    <3> QED  BY <2>1, <3>2, <3>4
  <2>2. CASE \E x \in Transfers : UnderWay = <<x>>
    <3>1. Len(writing) \in Nat /\ Len(out) = 1 /\ Len(UnderWay) = 1
      BY <1>1, <1>4, <2>2, LenProperties
    <3>2. Len(writing) = 0
      BY <3>1, UnderWayIs
    <3> QED  BY <1>1, <3>2, EmptySeq
  <2>3. \/ UnderWay = TransfersOf(m) /\ m.size > 0 /\ (need = NoHeader \/ m.size = VersionSize)
        \/ \E x \in Transfers : UnderWay = <<x>>
    BY <1>5, TransfersOfMessage DEF OneMessageUnderWay
  <2> QED  BY <2>1, <2>2, <2>3
<1> QED  BY <1>4, <1>5, <1>6

(* The transfer at the head of what is under way, read. *)
LEMMA ReadStep ==
    ASSUME TypeOK, OneMessageUnderWay, DeviceReads
    PROVE  /\ Outcome' = Outcome /\ OneMessageUnderWay'
           /\ need' \in Messages \cup {NoHeader} /\ reads' \in Seq(Reads)
<1> DEFINE c == [need |-> need, reads |-> reads]
           t == Head(out)
           d == ReadTransfer(c, t)
           m == UnderWay[1].of
<1>1. reads \in Seq(Reads) /\ need \in Messages \cup {NoHeader} /\ writing \in Seq(Transfers)
  BY DEF TypeOK
<1>2. need' = d.need /\ reads' = d.reads /\ out' = <<>> /\ writing' = writing
  BY DEF DeviceReads, hostVars
<1>3. UnderWay' = writing
  BY <1>1, <1>2, ConcatEmptySeq DEF UnderWay
<1>4. out # <<>>
  BY DEF DeviceReads
<1>5. out = <<t>> /\ t \in Transfers /\ UnderWay[1] = t /\ UnderWay # <<>> /\ m \in Messages
  BY <1>4, OutUnderWay
<1>6. \/ /\ m.size > 0 /\ t = HeaderOf(m) /\ writing = <<PayloadOf(m)>>
         /\ need = NoHeader \/ m.size = VersionSize
      \/ writing = <<>>
  BY <1>4, OutUnderWay
<1>7. Outcome = ReadBoth(c, UnderWay) /\ Outcome' = ReadBoth([need |-> d.need, reads |-> d.reads], writing)
  BY <1>2, <1>3 DEF Outcome, UnderWay
<1>8. CASE writing = <<>>
  <2>1. UnderWay = <<t>>
    BY <1>5, <1>8, UnderWayIs
  <2>2. Outcome = d
    BY <1>7, <2>1, ReadingSteps
  <2>3. Outcome' = [need |-> d.need, reads |-> d.reads]
    BY <1>7, <1>8, ReadingSteps
  <2>4. d \in Readers
    BY <2>2, OutcomeAddsOne
  <2> HIDE DEF d
  <2>5. /\ d = [need |-> d.need, reads |-> d.reads]
        /\ d.need \in Messages \cup {NoHeader} /\ d.reads \in Seq(Reads)
    BY <2>4 DEF Readers
  <2>6. OneMessageUnderWay'
    BY <1>3, <1>8 DEF OneMessageUnderWay
  <2> QED  BY <1>2, <2>2, <2>3, <2>5, <2>6
<1>9. CASE /\ m.size > 0 /\ t = HeaderOf(m) /\ writing = <<PayloadOf(m)>>
           /\ need = NoHeader \/ m.size = VersionSize
  <2> HIDE DEF m
  <2>1. /\ d = [need |-> d.need, reads |-> d.reads]
        /\ d.need = m \/ (d.need = NoHeader /\ m.size = VersionSize)
        /\ d.reads \in Seq(Reads)
    <3>1. CASE need = NoHeader
      <4>1. d = [need |-> m, reads |-> reads]
        BY <1>1, <1>5, <1>9, <3>1, ReadHeaderAligned
      <4> HIDE DEF d
      <4> QED  BY <1>1, <4>1
    <3>2. CASE need \in Messages
      <4>1. m.size = VersionSize
        BY <1>9, <3>2, TransfersOfMessage
      <4>2. [header |-> need, intact |-> FALSE] \in Reads
        BY <3>2 DEF Reads
      <4>3. Append(reads, [header |-> need, intact |-> FALSE]) \in Seq(Reads)
        BY <1>1, <4>2, AppendProperties
      <4>4. \/ d = [need |-> NoHeader, reads |-> reads]
            \/ d = [need |-> NoHeader,
                    reads |-> Append(reads, [header |-> need, intact |-> FALSE])]
        BY <1>1, <1>5, <1>9, <3>2, ReadHeaderForPayload
      <4> HIDE DEF d
      <4> QED  BY <1>1, <4>1, <4>3, <4>4
    <3> QED  BY <1>1, <3>1, <3>2
  <2>2. UnderWay = <<t, PayloadOf(m)>>
    BY <1>4, <1>5, <1>9, PairIsConcat, TransfersOfMessage DEF UnderWay
  <2> HIDE DEF d
  <2>3. Outcome = ReadTransfer(d, PayloadOf(m)) /\ Outcome' = ReadTransfer(d, PayloadOf(m))
    BY <1>7, <1>9, <2>1, <2>2, ReadingSteps DEF d
  <2>4. OneMessageUnderWay'
    <3>1. UnderWay'[1].of = m
      BY <1>3, <1>9 DEF PayloadOf
    <3> QED  BY <1>2, <1>3, <1>9, <2>1, <3>1 DEF OneMessageUnderWay
  <2> QED  BY <1>2, <1>5, <2>1, <2>3, <2>4
<1> QED  BY <1>6, <1>8, <1>9

(* The reader without the first message it has handed on. *)
Popped(c) == [need |-> c.need, reads |-> Tail(c.reads)]

(* What is read next does not depend on what has been handed on. *)
LEMMA ReadTransferPopped ==
    ASSUME NEW c \in Readers, c.reads # <<>>, NEW t \in Transfers
    PROVE  /\ ReadTransfer(c, t) \in Readers /\ ReadTransfer(c, t).reads # <<>>
           /\ ReadTransfer(Popped(c), t) = Popped(ReadTransfer(c, t))
<1> DEFINE b == Popped(c)
           n == c.need
           r == c.reads
           s == Tail(c.reads)
           d == ReadTransfer(c, t)
           e == ReadTransfer(b, t)
<1>1. /\ n \in Messages \cup {NoHeader} /\ r \in Seq(Reads) /\ r # <<>>
      /\ c = [need |-> n, reads |-> r] /\ b = [need |-> n, reads |-> s]
      /\ b.need = n /\ b.reads = s /\ s = Tail(r)
  BY DEF Readers, Popped
<1>2. s \in Seq(Reads)
  BY <1>1, HeadTailProperties
<1>3. t.of \in Messages /\ t.part \in {"header", "payload"}
  BY DEF Transfers
<1>4. SUFFICES \/ \E h \in Messages \cup {NoHeader} :
                      /\ ReadTransfer(c, t) = [need |-> h, reads |-> r]
                      /\ ReadTransfer(b, t) = [need |-> h, reads |-> s]
               \/ \E x \in Reads :
                      /\ ReadTransfer(c, t) = [need |-> NoHeader, reads |-> Append(r, x)]
                      /\ ReadTransfer(b, t) = [need |-> NoHeader, reads |-> Append(s, x)]
  <2> HIDE DEF b, d, e, n, r, s
  <2>1. ASSUME NEW h \in Messages \cup {NoHeader},
               d = [need |-> h, reads |-> r], e = [need |-> h, reads |-> s]
        PROVE  d \in Readers /\ d.reads # <<>> /\ e = Popped(d)
    BY <1>1, <2>1 DEF Readers, Popped
  <2>2. ASSUME NEW x \in Reads,
               d = [need |-> NoHeader, reads |-> Append(r, x)],
               e = [need |-> NoHeader, reads |-> Append(s, x)]
        PROVE  d \in Readers /\ d.reads # <<>> /\ e = Popped(d)
    <3>1. Append(r, x) \in Seq(Reads) /\ Append(r, x) # <<>>
      BY <1>1, AppendProperties
    <3>2. Tail(Append(r, x)) = Append(s, x)
      BY <1>1, HeadTailAppend
    <3> QED  BY <2>2, <3>1, <3>2 DEF Readers, Popped
  <2> QED  BY <1>4, <2>1, <2>2 DEF b, d, e
<1> DEFINE asked == IF n = NoHeader THEN qdbHeaderSize ELSE n.size
           own == [header |-> n, intact |-> t = [part |-> "payload", of |-> n]]
           taken == [header |-> t.of, intact |-> t.part = "header"]
<1> HIDE DEF b, n, r, s
<1>5. CASE Length(t) < asked
  BY <1>1, <1>5 DEF ReadTransfer, asked
<1>6. CASE ~(Length(t) < asked) /\ n # NoHeader
  <2>1. own \in Reads
    BY <1>1, <1>6 DEF Reads
  <2>2. /\ ReadTransfer(c, t) = [need |-> NoHeader, reads |-> Append(r, own)]
        /\ ReadTransfer(b, t) = [need |-> NoHeader, reads |-> Append(s, own)]
    BY <1>1, <1>6 DEF ReadTransfer, asked, own
  <2> QED  BY <2>1, <2>2
<1>7. CASE ~(Length(t) < asked) /\ n = NoHeader /\ t.part = "header" /\ t.of.size > 0
  BY <1>1, <1>3, <1>7 DEF ReadTransfer, asked
<1>8. CASE ~(Length(t) < asked) /\ n = NoHeader /\ ~(t.part = "header" /\ t.of.size > 0)
  <2>1. taken \in Reads
    BY <1>3 DEF Reads
  <2>2. /\ ReadTransfer(c, t) = [need |-> NoHeader, reads |-> Append(r, taken)]
        /\ ReadTransfer(b, t) = [need |-> NoHeader, reads |-> Append(s, taken)]
    BY <1>1, <1>8 DEF ReadTransfer, asked, taken
  <2> QED  BY <2>1, <2>2
<1> QED  BY <1>5, <1>6, <1>7, <1>8

(* The device's Server takes the first message of the pipe. *)
LEMMA TakeStep ==
    ASSUME TypeOK, reads # <<>>, reads' = Tail(reads), UnderWay' = UnderWay, need' = need
    PROVE  /\ PipeStep /\ Outcome'.need = Outcome.need
<1> DEFINE c == [need |-> need, reads |-> reads]
           s == UnderWay
           Popping(i) == \A d \in Readers : d.reads # <<>> =>
               /\ ReadNth(d, s, i) \in Readers /\ ReadNth(d, s, i).reads # <<>>
               /\ ReadNth(Popped(d), s, i) = Popped(ReadNth(d, s, i))
<1>1. c \in Readers /\ c.reads # <<>> /\ Popped(c) = [need |-> need', reads |-> reads']
  BY DEF TypeOK, Readers, Popped
<1>2. s \in Seq(Transfers)
  BY UnderWayIs
<1>3. Outcome = ReadBoth(c, s) /\ Outcome' = ReadBoth(Popped(c), s)
  BY <1>1 DEF Outcome, UnderWay
<1> HIDE DEF c, s
<1>4. ASSUME NEW i \in 1..2
      PROVE  Popping(i)
  <2>1. CASE i <= Len(s)
    <3>1. s[i] \in Transfers
      BY <1>2, <2>1, LenProperties, ElementOfSeq
    <3> QED  BY <2>1, <3>1, ReadTransferPopped DEF ReadNth
  <2>2. CASE ~(i <= Len(s))
    BY <2>2 DEF ReadNth
  <2> QED  BY <2>1, <2>2
<1> DEFINE d == ReadNth(c, s, 1)
           e == ReadNth(d, s, 2)
<1>5. d \in Readers /\ d.reads # <<>> /\ ReadNth(Popped(c), s, 1) = Popped(d)
  <2>1. Popping(1)
    BY <1>4
  <2> QED  BY <1>1, <2>1
<1>6. e \in Readers /\ e.reads # <<>> /\ ReadNth(Popped(d), s, 2) = Popped(e)
  <2>1. Popping(2)
    BY <1>4
  <2> HIDE DEF d
  <2> QED  BY <1>5, <2>1
<1>7. Outcome = e /\ Outcome' = Popped(e)
  BY <1>3, <1>5, <1>6 DEF ReadBoth
<1> HIDE DEF e
<1>8. Pipe!Take
  BY <1>6, <1>7 DEF Pipe!Take, Popped
<1> QED  BY <1>7, <1>8 DEF PipeStep, Pipe!Next, Popped

-----------------------------------------------------------------------------
(* What a step may not change without the reader. *)
ReaderKept == UnderWay' = UnderWay /\ need' = need /\ reads' = reads

(* A step of the host or of the device that does not touch the reader. *)
LEMMA KeptStep ==
    ASSUME IInv, ReaderKept, linkUp' = linkUp, phase' = "new" => phase = "new",
           phase # "new" \/ phase' = "new" \/ ~linkUp,
           ~linkUp => out' = <<>> /\ writing' = <<>>
    PROVE  /\ PipeStep /\ OneMessageUnderWay' /\ AlignedOnceWritten'
           /\ ~linkUp' => out' = <<>> /\ writing' = <<>>
<1>1. Outcome' = Outcome
  BY OutcomeUnchanged DEF ReaderKept
<1>2. OneMessageUnderWay'
  BY DEF ReaderKept, OneMessageUnderWay, IInv
<1>3. AlignedOnceWritten'
  BY <1>1 DEF AlignedOnceWritten, IInv
<1> QED  BY <1>1, <1>2, <1>3, StutterStep

(* send(), or its failure. *)
LEMMA WritingStep ==
    ASSUME IInv, Free, NEW isConnect \in BOOLEAN, NEW size \in PayloadSizes \cup {VersionSize},
           Write(isConnect, size), linkUp => need = NoHeader \/ size = VersionSize,
           out' = out, need' = need, reads' = reads, linkUp' = linkUp
    PROVE  /\ PipeStep /\ OneMessageUnderWay' /\ AlignedOnceWritten'
           /\ ~linkUp' => out' = <<>> /\ writing' = <<>>
           /\ writing' \in Seq(Transfers) /\ Len(writing') <= 2 /\ sent' \in Nat
<1>1. CASE linkUp
  <2> DEFINE m == Message(isConnect, size)
  <2>1. m \in Messages /\ m.size = size
    BY DEF Message, Messages, IInv, TypeOK
  <2>2. writing' = TransfersOf(m) /\ sent' = sent + 1
    BY <1>1 DEF Write
  <2> HIDE DEF m
  <2>3. /\ PipeStep /\ Outcome'.need = NoHeader /\ OneMessageUnderWay'
        /\ writing' \in Seq(Transfers) /\ Len(writing') <= 2
    BY <1>1, <2>1, <2>2, WriteStep DEF IInv
  <2>4. sent' \in Nat
    BY <2>2 DEF IInv, TypeOK
  <2> QED  BY <1>1, <2>3, <2>4 DEF AlignedOnceWritten
<1>2. CASE ~linkUp
  <2>1. writing' = writing /\ sent' = sent
    BY <1>2 DEF Write
  <2>2. /\ PipeStep /\ OneMessageUnderWay'
    <3>1. ReaderKept
      BY <2>1 DEF ReaderKept, UnderWay
    <3> QED  BY <3>1, OutcomeUnchanged, StutterStep DEF ReaderKept, OneMessageUnderWay, IInv
  <2>3. AlignedOnceWritten'
    BY <1>2 DEF AlignedOnceWritten
  <2>4. out' = <<>> /\ writing' = <<>>
    BY <2>1 DEF Free
  <2> QED  BY <2>1, <2>2, <2>3, <2>4 DEF IInv, TypeOK
<1> QED  BY <1>1, <1>2

(* An aligned host has nothing under way: the device waits for a header. *)
LEMMA AlignedWhenFree ==
    ASSUME IInv, Free, linkUp, phase # "new"
    PROVE  need = NoHeader
<1>1. UnderWay = <<>>
  BY UnderWayIs DEF IInv, Free
<1>2. Outcome = [need |-> need, reads |-> reads]
  BY <1>1, ReadingSteps DEF Outcome, UnderWay
<1> QED  BY <1>2 DEF IInv, AlignedOnceWritten

(* Each step keeps the invariant, and is a step of the pipe or none. *)
LEMMA HostConnectsStep ==
    ASSUME IInv, HostConnects
    PROVE  IInv' /\ PipeStep
<1>1. /\ Free /\ Write(TRUE, VersionSize) /\ phase' = "waiting"
      /\ connection' = connection /\ hostReads' = hostReads /\ errors' = errors
      /\ linkUp' = linkUp /\ pulls' = pulls /\ out' = out /\ in' = in
      /\ need' = need /\ reads' = reads /\ toWrite' = toWrite
  BY DEF HostConnects, linkVars, deviceVars
<1>2. /\ PipeStep /\ OneMessageUnderWay' /\ AlignedOnceWritten'
      /\ ~linkUp' => out' = <<>> /\ writing' = <<>>
      /\ writing' \in Seq(Transfers) /\ Len(writing') <= 2 /\ sent' \in Nat
  BY <1>1, WritingStep
<1>3. TypeOK'
  BY <1>1, <1>2 DEF IInv, TypeOK
<1> QED  BY <1>2, <1>3 DEF IInv

(* The host writes a message once connected. *)
LEMMA HostSendsStep ==
    ASSUME IInv, HostSends
    PROVE  IInv' /\ PipeStep
<1>1. /\ Free /\ phase = "connected" /\ phase' = phase
      /\ connection' = connection /\ hostReads' = hostReads /\ errors' = errors
      /\ linkUp' = linkUp /\ pulls' = pulls /\ out' = out /\ in' = in
      /\ need' = need /\ reads' = reads /\ toWrite' = toWrite
  BY DEF HostSends, linkVars, deviceVars
<1>2. PICK size \in PayloadSizes : Write(FALSE, size)
  BY DEF HostSends
<1>3. linkUp => need = NoHeader
  BY <1>1, AlignedWhenFree
<1>4. /\ PipeStep /\ OneMessageUnderWay' /\ AlignedOnceWritten'
      /\ ~linkUp' => out' = <<>> /\ writing' = <<>>
      /\ writing' \in Seq(Transfers) /\ Len(writing') <= 2 /\ sent' \in Nat
  BY <1>1, <1>2, <1>3, WritingStep
<1>5. TypeOK'
  BY <1>1, <1>4 DEF IInv, TypeOK
<1> QED  BY <1>4, <1>5 DEF IInv

(* The connection handles a message of the device. *)
LEMMA HostReceivesStep ==
    ASSUME IInv, HostReceives
    PROVE  IInv' /\ PipeStep
<1>1. /\ Free /\ phase # "new" /\ hostReads' = Tail(hostReads)
      /\ connection' = connection /\ errors' = errors
      /\ linkUp' = linkUp /\ pulls' = pulls /\ out' = out /\ in' = in
      /\ need' = need /\ reads' = reads /\ toWrite' = toWrite
      /\ \/ Write(TRUE, VersionSize) /\ phase' = "waiting"
         \/ phase' \in {"connected", "gone"} /\ sent' = sent /\ writing' = writing
  BY DEF HostReceives, linkVars, deviceVars
<1>2. hostReads' \in Seq({"Connect", "Refuse", "Invalid"})
  <2>1. hostReads # <<>> /\ hostReads \in Seq({"Connect", "Refuse", "Invalid"})
    BY DEF HostReceives, IInv, TypeOK
  <2> QED  BY <1>1, <2>1, HeadTailProperties
<1>3. CASE Write(TRUE, VersionSize) /\ phase' = "waiting"
  <2>1. /\ PipeStep /\ OneMessageUnderWay' /\ AlignedOnceWritten'
        /\ ~linkUp' => out' = <<>> /\ writing' = <<>>
        /\ writing' \in Seq(Transfers) /\ Len(writing') <= 2 /\ sent' \in Nat
    BY <1>1, <1>3, WritingStep
  <2>2. TypeOK'
    BY <1>1, <1>2, <1>3, <2>1 DEF IInv, TypeOK
  <2> QED  BY <2>1, <2>2 DEF IInv
<1>4. CASE phase' \in {"connected", "gone"} /\ sent' = sent /\ writing' = writing
  <2>1. ReaderKept
    BY <1>1, <1>4 DEF ReaderKept, UnderWay
  <2>2. /\ PipeStep /\ OneMessageUnderWay' /\ AlignedOnceWritten'
        /\ ~linkUp' => out' = <<>> /\ writing' = <<>>
    BY <1>1, <1>4, <2>1, KeptStep DEF Free
  <2>3. TypeOK'
    BY <1>1, <1>2, <1>4 DEF IInv, TypeOK
  <2> QED  BY <2>2, <2>3 DEF IInv
<1> QED  BY <1>1, <1>3, <1>4

(* libusb takes the next transfer of the host. *)
LEMMA HostTransfersStep ==
    ASSUME IInv, HostTransfers
    PROVE  IInv' /\ PipeStep
<1> DEFINE t == Head(writing)
<1>1. /\ linkUp /\ out = <<>> /\ writing # <<>> /\ out' = <<t>> /\ writing' = Tail(writing)
      /\ phase' = phase /\ connection' = connection /\ sent' = sent
      /\ hostReads' = hostReads /\ errors' = errors
      /\ linkUp' = linkUp /\ pulls' = pulls /\ in' = in
      /\ need' = need /\ reads' = reads /\ toWrite' = toWrite
  BY DEF HostTransfers, deviceVars
<1>2. writing \in Seq(Transfers) /\ Len(writing) <= 2 /\ Len(writing) \in Nat \ {0}
  BY <1>1, EmptySeq DEF IInv, TypeOK
<1>3. t \in Transfers /\ Tail(writing) \in Seq(Transfers) /\ Len(Tail(writing)) = Len(writing) - 1
  BY <1>1, <1>2, HeadTailProperties
<1>4. <<t>> \o Tail(writing) = writing
  <2>1. /\ 1 \in 1..Len(writing) /\ Len(writing) \in 1..Len(writing)
        /\ SubSeq(writing, 1, Len(writing)) = writing
        /\ Tail(writing) = SubSeq(writing, 1 + 1, Len(writing))
        /\ writing[1] = t
    BY <1>1, <1>2, SubSeqFull, TailIsSubSeq
  <2> QED  BY <1>2, <2>1, SubSeqRecursiveFirst
<1>5. <<t>> \in Seq(Transfers) /\ Len(<<t>>) = 1
  BY <1>3
<1>6. ReaderKept
  <2>1. UnderWay = writing
    BY <1>1, UnderWayIs DEF IInv
  <2>2. UnderWay' = <<t>> \o Tail(writing)
    BY <1>1 DEF UnderWay
  <2> QED  BY <1>1, <1>4, <2>1, <2>2 DEF ReaderKept
<1> HIDE DEF t
<1>7. /\ PipeStep /\ OneMessageUnderWay' /\ AlignedOnceWritten'
      /\ ~linkUp' => out' = <<>> /\ writing' = <<>>
  <2>1. OneMessageUnderWay' /\ PipeStep
    BY <1>6, OutcomeUnchanged, StutterStep DEF ReaderKept, OneMessageUnderWay, IInv
  <2>2. AlignedOnceWritten'
    BY <1>1, <1>6, OutcomeUnchanged DEF ReaderKept, AlignedOnceWritten, IInv
  <2> QED  BY <1>1, <2>1, <2>2
<1>8. TypeOK'
  BY <1>1, <1>2, <1>3, <1>5 DEF IInv, TypeOK
<1> QED  BY <1>7, <1>8 DEF IInv

(* The reading thread of the host reads a transfer. *)
LEMMA HostReadsStep ==
    ASSUME IInv, HostReads
    PROVE  IInv' /\ PipeStep
<1>1. /\ phase' = phase /\ connection' = connection /\ sent' = sent /\ writing' = writing
      /\ linkUp' = linkUp /\ pulls' = pulls /\ out' = out
      /\ need' = need /\ reads' = reads /\ toWrite' = toWrite
      /\ \/ in' = <<>> /\ hostReads' = hostReads \o in /\ errors' = 0
         \/ /\ in' = in /\ errors < 5 /\ errors' = errors + 1
            /\ hostReads' = hostReads \/ hostReads' = Append(hostReads, "Invalid")
  BY DEF HostReads, deviceVars
<1>2. /\ hostReads' \in Seq({"Connect", "Refuse", "Invalid"})
      /\ errors' \in Errors /\ in' \in Seq({"Connect", "Refuse"}) /\ Len(in') <= 1
  <2>1. /\ hostReads \in Seq({"Connect", "Refuse", "Invalid"})
        /\ in \in Seq({"Connect", "Refuse", "Invalid"})
    BY SeqMonotonic DEF IInv, TypeOK
  <2>2. hostReads \o in \in Seq({"Connect", "Refuse", "Invalid"})
    BY <2>1, ConcatProperties
  <2>3. Append(hostReads, "Invalid") \in Seq({"Connect", "Refuse", "Invalid"})
    BY <2>1, AppendProperties
  <2>4. <<>> \in Seq({"Connect", "Refuse"}) /\ Len(<<>>) <= 1
    OBVIOUS
  <2>5. hostReads' \in Seq({"Connect", "Refuse", "Invalid"})
    BY <1>1, <2>1, <2>2, <2>3
  <2>6. errors' \in Errors
    BY <1>1 DEF IInv, TypeOK, Errors
  <2>7. in' \in Seq({"Connect", "Refuse"}) /\ Len(in') <= 1
    BY <1>1, <2>4 DEF IInv, TypeOK
  <2> QED  BY <2>5, <2>6, <2>7
<1>3. ReaderKept
  BY <1>1 DEF ReaderKept, UnderWay
<1>4. /\ PipeStep /\ OneMessageUnderWay' /\ AlignedOnceWritten'
      /\ ~linkUp' => out' = <<>> /\ writing' = <<>>
  BY <1>1, <1>3, KeptStep DEF IInv
<1>5. TypeOK'
  BY <1>1, <1>2 DEF IInv, TypeOK
<1> QED  BY <1>4, <1>5 DEF IInv

(* The reading thread of the device reads a transfer. *)
LEMMA DeviceReadsStep ==
    ASSUME IInv, DeviceReads
    PROVE  IInv' /\ PipeStep
<1>1. /\ phase' = phase /\ connection' = connection /\ sent' = sent /\ writing' = writing
      /\ hostReads' = hostReads /\ errors' = errors /\ linkUp' = linkUp /\ pulls' = pulls
      /\ out' = <<>> /\ in' = in /\ toWrite' = toWrite
  BY DEF DeviceReads, hostVars
<1>2. /\ Outcome' = Outcome /\ OneMessageUnderWay'
      /\ need' \in Messages \cup {NoHeader} /\ reads' \in Seq(Reads)
  BY ReadStep DEF IInv
<1>3. AlignedOnceWritten'
  BY <1>1, <1>2 DEF IInv, AlignedOnceWritten
<1>4. <<>> \in Seq(Transfers) /\ Len(<<>>) <= 1
  OBVIOUS
<1>5. TypeOK'
  BY <1>1, <1>2, <1>4 DEF IInv, TypeOK
<1>6. ~linkUp' => out' = <<>> /\ writing' = <<>>
  BY <1>1 DEF IInv
<1> QED  BY <1>2, <1>3, <1>5, <1>6, StutterStep DEF IInv

(* The device handles a message it read. *)
LEMMA DeviceReceivesStep ==
    ASSUME IInv, DeviceReceives
    PROVE  IInv' /\ PipeStep
<1>1. /\ phase' = phase /\ connection' = connection /\ sent' = sent /\ writing' = writing
      /\ hostReads' = hostReads /\ errors' = errors /\ linkUp' = linkUp /\ pulls' = pulls
      /\ out' = out /\ in' = in /\ need' = need
      /\ reads # <<>> /\ reads' = Tail(reads)
      /\ \/ toWrite' = toWrite
         \/ toWrite' = Append(toWrite, "Connect")
         \/ toWrite' = Append(toWrite, "Refuse")
  BY DEF DeviceReceives, hostVars, linkVars
<1>2. UnderWay' = UnderWay
  BY <1>1 DEF UnderWay
<1>3. PipeStep /\ Outcome'.need = Outcome.need
  BY <1>1, <1>2, TakeStep DEF IInv
<1>4. OneMessageUnderWay'
  BY <1>1, <1>2 DEF IInv, OneMessageUnderWay
<1>5. AlignedOnceWritten'
  BY <1>1, <1>3 DEF IInv, AlignedOnceWritten
<1>6. reads' \in Seq(Reads)
  BY <1>1, HeadTailProperties DEF IInv, TypeOK
<1>7. toWrite' \in Seq({"Connect", "Refuse"})
  BY <1>1, AppendProperties DEF IInv, TypeOK
<1>8. TypeOK'
  BY <1>1, <1>6, <1>7 DEF IInv, TypeOK
<1>9. ~linkUp' => out' = <<>> /\ writing' = <<>>
  BY <1>1 DEF IInv
<1> QED  BY <1>3, <1>4, <1>5, <1>8, <1>9 DEF IInv

(* The writing thread of the device writes an answer, or loses it without the cable. *)
LEMMA DeviceWritesStep ==
    ASSUME IInv, DeviceWrites
    PROVE  IInv' /\ PipeStep
<1>1. /\ phase' = phase /\ connection' = connection /\ sent' = sent /\ writing' = writing
      /\ hostReads' = hostReads /\ errors' = errors /\ linkUp' = linkUp /\ pulls' = pulls
      /\ out' = out /\ need' = need /\ reads' = reads
      /\ toWrite # <<>> /\ toWrite' = Tail(toWrite)
      /\ in' = <<Head(toWrite)>> \/ in' = in
  BY DEF DeviceWrites, hostVars
<1>2. /\ toWrite' \in Seq({"Connect", "Refuse"})
      /\ in' \in Seq({"Connect", "Refuse"}) /\ Len(in') <= 1
  <2>1. /\ Tail(toWrite) \in Seq({"Connect", "Refuse"}) /\ Head(toWrite) \in {"Connect", "Refuse"}
    BY <1>1, HeadTailProperties DEF IInv, TypeOK
  <2> DEFINE answer == Head(toWrite)
  <2> HIDE DEF answer
  <2>2. <<answer>> \in Seq({"Connect", "Refuse"}) /\ Len(<<answer>>) <= 1
    BY <2>1 DEF answer
  <2> QED  BY <1>1, <2>1, <2>2 DEF IInv, TypeOK, answer
<1>3. ReaderKept
  BY <1>1 DEF ReaderKept, UnderWay
<1>4. /\ PipeStep /\ OneMessageUnderWay' /\ AlignedOnceWritten'
      /\ ~linkUp' => out' = <<>> /\ writing' = <<>>
  BY <1>1, <1>3, KeptStep DEF IInv
<1>5. TypeOK'
  BY <1>1, <1>2 DEF IInv, TypeOK
<1> QED  BY <1>4, <1>5 DEF IInv

(* Nothing is under way any more: the message that was, or the one the reader
   had begun, is the one that is cut. *)
LEMMA NothingUnderWay ==
    ASSUME TypeOK, OneMessageUnderWay, TypeOK', out' = <<>>, writing' = <<>>,
           reads' = reads
    PROVE  PipeStep /\ OneMessageUnderWay'
<1>1. UnderWay' = <<>>
  BY ConcatEmptySeq DEF UnderWay
<1>2. OneMessageUnderWay'
  BY <1>1 DEF OneMessageUnderWay
<1>3. Outcome' = [need |-> need', reads |-> reads]
  BY <1>1, ReadingSteps DEF Outcome, UnderWay
<1>4. Outcome' \in Readers /\ Outcome'.reads = reads /\ reads \in Seq(Reads)
  BY <1>3 DEF Readers, TypeOK
<1>5. PipeStep
  BY <1>4, OutcomeAddsOne, CutStep
<1> QED  BY <1>2, <1>5

(* The cable is pulled: what was under way is gone. *)
LEMMA UnplugStep ==
    ASSUME IInv, Unplug
    PROVE  IInv' /\ PipeStep
<1>1. /\ phase' = phase /\ connection' = connection /\ sent' = sent /\ writing' = <<>>
      /\ hostReads' = hostReads /\ errors' = errors /\ linkUp' = FALSE
      /\ pulls < MaxPulls /\ pulls' = pulls + 1
      /\ out' = <<>> /\ in' = <<>> /\ need' \in {need, NoHeader} /\ reads' = reads
      /\ toWrite' = toWrite
  BY DEF Unplug
<1>2. pulls' \in 0..MaxPulls
  BY <1>1, LinkAssumption DEF IInv, TypeOK
<1>3. /\ <<>> \in Seq(Transfers) /\ <<>> \in Seq({"Connect", "Refuse"})
      /\ Len(<<>>) <= 1 /\ Len(<<>>) <= 2
  OBVIOUS
<1>4. TypeOK'
  BY <1>1, <1>2, <1>3 DEF IInv, TypeOK
<1>5. PipeStep /\ OneMessageUnderWay'
  BY <1>1, <1>4, NothingUnderWay DEF IInv
<1>6. AlignedOnceWritten'
  BY <1>1 DEF AlignedOnceWritten
<1> QED  BY <1>1, <1>4, <1>5, <1>6 DEF IInv

(* Another connection of the host, after an unplug or by another process. *)
LEMMA NewConnectionStep ==
    ASSUME IInv, NewConnection
    PROVE  IInv' /\ PipeStep
<1>1. /\ phase' = "new" /\ connection' = connection + 1 /\ sent' = 0 /\ writing' = <<>>
      /\ hostReads' = <<>> /\ errors' = 0 /\ linkUp' = TRUE /\ pulls' = pulls
      /\ out' = out \/ out' = <<>>
      /\ in' = in \/ in' = <<>>
      /\ need' = need /\ reads' = reads /\ toWrite' = toWrite
  BY DEF NewConnection, deviceVars
<1>2. /\ <<>> \in Seq(Transfers) /\ <<>> \in Seq({"Connect", "Refuse"})
      /\ <<>> \in Seq({"Connect", "Refuse", "Invalid"})
      /\ Len(<<>>) <= 1 /\ Len(<<>>) <= 2
  OBVIOUS
<1>3. TypeOK'
  <2>1. phase' \in {"new", "waiting", "connected", "gone"} /\ linkUp' \in BOOLEAN
    BY <1>1
  <2>2. connection' \in Nat /\ sent' \in Nat /\ errors' \in Errors /\ pulls' \in 0..MaxPulls
    BY <1>1 DEF IInv, TypeOK, Errors
  <2>3. writing' \in Seq(Transfers) /\ Len(writing') <= 2
    BY <1>1, <1>2
  <2>4. hostReads' \in Seq({"Connect", "Refuse", "Invalid"})
    BY <1>1, <1>2
  <2>5. /\ out' \in Seq(Transfers) /\ Len(out') <= 1
        /\ in' \in Seq({"Connect", "Refuse"}) /\ Len(in') <= 1
    BY <1>1, <1>2 DEF IInv, TypeOK
  <2>6. /\ need' \in Messages \cup {NoHeader} /\ reads' \in Seq(Reads)
        /\ toWrite' \in Seq({"Connect", "Refuse"})
    BY <1>1 DEF IInv, TypeOK
  <2> QED  BY <2>1, <2>2, <2>3, <2>4, <2>5, <2>6 DEF TypeOK
<1>4. AlignedOnceWritten'
  BY <1>1 DEF AlignedOnceWritten
<1>5. CASE out' = <<>>
  BY <1>1, <1>3, <1>4, <1>5, NothingUnderWay DEF IInv
<1>6. CASE out' = out /\ out # <<>>
  <2> DEFINE m == UnderWay[1].of
             c == [need |-> need, reads |-> reads]
  <2>1. /\ out = <<Head(out)>> /\ UnderWay[1] = Head(out) /\ m \in Messages
        /\ \/ /\ m.size > 0 /\ Head(out) = HeaderOf(m) /\ writing = <<PayloadOf(m)>>
              /\ need = NoHeader \/ m.size = VersionSize
           \/ writing = <<>>
    BY <1>6, OutUnderWay DEF IInv
  <2>2. UnderWay' = out
    BY <1>1, <1>6, ConcatEmptySeq DEF UnderWay, IInv, TypeOK
  <2>3. CASE writing = <<>>
    <3>1. ReaderKept
      BY <1>1, <2>2, <2>3, UnderWayIs DEF ReaderKept, IInv
    <3>2. PipeStep /\ OneMessageUnderWay'
      BY <3>1, OutcomeUnchanged, StutterStep DEF ReaderKept, OneMessageUnderWay, IInv
    <3> QED  BY <1>1, <1>3, <1>4, <3>2 DEF IInv
  <2>4. CASE /\ m.size > 0 /\ Head(out) = HeaderOf(m) /\ writing = <<PayloadOf(m)>>
             /\ need = NoHeader \/ m.size = VersionSize
    <3>1. UnderWay = TransfersOf(m) /\ UnderWay' = <<HeaderOf(m)>>
      <4>1. UnderWay = <<HeaderOf(m)>> \o <<PayloadOf(m)>>
        BY <2>1, <2>4 DEF UnderWay
      <4> QED  BY <2>1, <2>2, <2>4, <4>1, PairIsConcat, TransfersOfMessage
    <3> HIDE DEF m
    <3>2. OneMessageUnderWay'
      <4>1. UnderWay'[1].of = m
        BY <3>1 DEF HeaderOf
      <4> QED  BY <1>1, <2>4, <3>1, <4>1 DEF OneMessageUnderWay
    <3>3. reads \in Seq(Reads) /\ need \in Messages \cup {NoHeader}
      BY DEF IInv, TypeOK
    <3>4. Outcome = ReadBoth(c, TransfersOf(m)) /\ Outcome' = ReadTransfer(c, HeaderOf(m))
      <4>1. Outcome' = ReadBoth(c, <<HeaderOf(m)>>)
        BY <1>1, <3>1 DEF Outcome, UnderWay
      <4>2. Outcome = ReadBoth(c, TransfersOf(m))
        BY <3>1 DEF Outcome, UnderWay
      <4> QED  BY <4>1, <4>2, ReadingSteps
    <3>5. /\ Outcome \in Readers
          /\ \/ Outcome.reads = reads
             \/ \E x \in Reads : Outcome.reads = Append(reads, x)
      BY OutcomeAddsOne DEF IInv
    <3>6. /\ Outcome' \in Readers
          /\ Outcome'.reads = reads \/ Outcome'.reads = Outcome.reads
      <4>1. CASE need = NoHeader
        <5>1. Outcome' = [need |-> m, reads |-> reads]
          BY <2>1, <2>4, <3>3, <3>4, <4>1, ReadHeaderAligned
        <5> QED  BY <2>1, <3>3, <5>1 DEF Readers, m
      <4>2. CASE need \in Messages
        <5>1. m.size = VersionSize
          BY <2>4, <4>2, TransfersOfMessage
        <5> DEFINE d == IF qdbHeaderSize < need.size
                        THEN [need |-> NoHeader, reads |-> reads]
                        ELSE [need |-> NoHeader,
                              reads |-> Append(reads, [header |-> need, intact |-> FALSE])]
        <5>2. ReadBoth(c, TransfersOf(m)) = d
          BY <2>1, <3>3, <4>2, <5>1, ReadConnectMisaligned DEF m
        <5>3. ReadTransfer(c, HeaderOf(m)) = d
          BY <2>1, <3>3, <4>2, ReadHeaderForPayload DEF m
        <5>4. Outcome' = Outcome
          BY <3>4, <5>2, <5>3
        <5> QED  BY <3>5, <5>4
      <4> QED  BY <3>3, <4>1, <4>2
    <3>8. PipeStep
      BY <3>3, <3>5, <3>6, CutStep
    <3> QED  BY <1>1, <1>3, <1>4, <3>2, <3>8 DEF IInv
  <2> QED  BY <2>1, <2>3, <2>4
<1> QED  BY <1>1, <1>5, <1>6

(* The device server starts again. *)
LEMMA DeviceRestartsStep ==
    ASSUME IInv, DeviceRestarts
    PROVE  IInv' /\ PipeStep
<1>1. /\ phase' = phase /\ connection' = connection /\ sent' = sent /\ writing' = writing
      /\ hostReads' = hostReads /\ errors' = errors /\ ~linkUp /\ linkUp' = linkUp
      /\ pulls' = pulls /\ out' = out /\ in' = in
      /\ need' = NoHeader /\ reads' = <<>> /\ toWrite' = <<>>
  BY DEF DeviceRestarts, hostVars, linkVars
<1>2. out = <<>> /\ writing = <<>>
  BY <1>1 DEF IInv
<1>3. <<>> \in Seq(Reads) /\ <<>> \in Seq({"Connect", "Refuse"})
  OBVIOUS
<1>4. TypeOK'
  BY <1>1, <1>3 DEF IInv, TypeOK
<1>5. UnderWay' = <<>>
  BY <1>1, <1>2, ConcatEmptySeq DEF UnderWay
<1>6. Outcome' = [need |-> NoHeader, reads |-> <<>>]
  BY <1>1, <1>5, ReadingSteps DEF Outcome, UnderWay
<1>7. Pipe!Clear
  BY <1>6 DEF Pipe!Clear
<1>8. OneMessageUnderWay' /\ AlignedOnceWritten'
  BY <1>5, <1>6 DEF OneMessageUnderWay, AlignedOnceWritten
<1> QED  BY <1>1, <1>2, <1>4, <1>7, <1>8 DEF IInv, PipeStep, Pipe!Next

-----------------------------------------------------------------------------
(* Two ends that have exchanged nothing. *)
LEMMA InitIInv == Init => IInv /\ Pipe!Init
<1> SUFFICES ASSUME Init PROVE IInv /\ Pipe!Init
  OBVIOUS
<1>1. /\ phase = "new" /\ connection = 1 /\ sent = 0 /\ writing = <<>> /\ hostReads = <<>>
      /\ errors = 0 /\ linkUp = TRUE /\ pulls = 0 /\ out = <<>> /\ in = <<>>
      /\ need = NoHeader /\ reads = <<>> /\ toWrite = <<>>
  BY DEF Init
<1>2. /\ <<>> \in Seq(Transfers) /\ <<>> \in Seq({"Connect", "Refuse"})
      /\ <<>> \in Seq({"Connect", "Refuse", "Invalid"}) /\ <<>> \in Seq(Reads)
      /\ Len(<<>>) <= 1 /\ Len(<<>>) <= 2
  OBVIOUS
<1>3. TypeOK
  <2>1. phase \in {"new", "waiting", "connected", "gone"} /\ linkUp \in BOOLEAN
    BY <1>1
  <2>2. connection \in Nat /\ sent \in Nat /\ errors \in Errors /\ pulls \in 0..MaxPulls
    BY <1>1, LinkAssumption DEF Errors
  <2>3. /\ writing \in Seq(Transfers) /\ Len(writing) <= 2
        /\ hostReads \in Seq({"Connect", "Refuse", "Invalid"})
        /\ out \in Seq(Transfers) /\ Len(out) <= 1
        /\ in \in Seq({"Connect", "Refuse"}) /\ Len(in) <= 1
    BY <1>1, <1>2
  <2>4. /\ need \in Messages \cup {NoHeader} /\ reads \in Seq(Reads)
        /\ toWrite \in Seq({"Connect", "Refuse"})
    BY <1>1, <1>2
  <2> QED  BY <2>1, <2>2, <2>3, <2>4 DEF TypeOK
<1>4. UnderWay = <<>>
  BY <1>1, ConcatEmptySeq DEF UnderWay
<1>5. Outcome = [need |-> NoHeader, reads |-> <<>>]
  BY <1>1, <1>4, ReadingSteps DEF Outcome, UnderWay
<1>6. OneMessageUnderWay /\ AlignedOnceWritten
  BY <1>4, <1>5 DEF OneMessageUnderWay, AlignedOnceWritten
<1>7. Pipe!Init
  BY <1>5 DEF Pipe!Init
<1> QED  BY <1>1, <1>3, <1>6, <1>7 DEF IInv

(* Every step of either end, and of the cable. *)
LEMMA NextIInv == IInv /\ [Next]_vars => IInv' /\ PipeStep
<1> SUFFICES ASSUME IInv, [Next]_vars PROVE IInv' /\ PipeStep
  OBVIOUS
<1>1. CASE UNCHANGED vars
  <2>1. /\ phase' = phase /\ connection' = connection /\ sent' = sent /\ writing' = writing
        /\ hostReads' = hostReads /\ errors' = errors /\ linkUp' = linkUp
        /\ pulls' = pulls /\ out' = out /\ in' = in
        /\ need' = need /\ reads' = reads /\ toWrite' = toWrite
    BY <1>1 DEF vars, hostVars, linkVars, deviceVars
  <2>2. ReaderKept
    BY <2>1 DEF ReaderKept, UnderWay
  <2>3. /\ PipeStep /\ OneMessageUnderWay' /\ AlignedOnceWritten'
        /\ ~linkUp' => out' = <<>> /\ writing' = <<>>
    BY <2>1, <2>2, KeptStep DEF IInv
  <2>4. TypeOK'
    BY <2>1 DEF IInv, TypeOK
  <2> QED  BY <2>3, <2>4 DEF IInv
<1>2. CASE Next
  BY <1>2, HostConnectsStep, HostSendsStep, HostReceivesStep, HostTransfersStep,
     HostReadsStep, DeviceReadsStep, DeviceReceivesStep, DeviceWritesStep,
     UnplugStep, NewConnectionStep, DeviceRestartsStep DEF Next
<1> QED  BY <1>1, <1>2

(* The invariant holds of every reachable state, for every number of messages,
   connections and pulls of the cable. *)
THEOREM Invariance == Spec => []IInv
<1>1. Init => IInv
  BY InitIInv
<1>2. IInv /\ [Next]_vars => IInv'
  BY NextIInv
<1> QED  BY <1>1, <1>2, PTL DEF Spec

(* No end gets a state, a message or an error count it has no case for, and no
   more than one message is under way. *)
THEOREM TypeCorrect == Spec => []TypeOK
<1>1. IInv => TypeOK
  BY DEF IInv
<1> QED  BY <1>1, Invariance, PTL

(* A host that has an answer to its Connect agrees with the device where a
   message begins, although the device looks for no mark of one
   (usbgadgetreader.cpp:56-83) and the hosts before may have died anywhere. *)
THEOREM AgreementMeansAlignment == Spec => []AgreedMeansAligned
<1>1. IInv => AgreedMeansAligned
  BY DEF IInv, AlignedOnceWritten, AgreedMeansAligned
<1> QED  BY <1>1, Invariance, PTL

(* The link refines the pipe: what a host sends reaches the Server whole, in
   order and once, but for the message that a dying host or a pulled cable cut
   and the first of the next host. *)
THEOREM LinkIsMessagePipe == Spec => ImplementsMessagePipe
<1>1. Init => Pipe!Init
  BY InitIInv
<1>2. IInv /\ [Next]_vars => [Pipe!Next]_(Pipe!vars)
  BY NextIInv DEF PipeStep
<1> QED  BY <1>1, <1>2, Invariance, PTL DEF Spec, ImplementsMessagePipe, Pipe!Spec
-----------------------------------------------------------------------------
(* Device to host, packet by packet. *)

(* The messages of which the device has begun to write. *)
Begun == Len(given) - Len(signals)

(* A packet of a message: whole, and where the endpoint's packets are cut. *)
IsPacket(p) ==
    /\ p.of \in 1..Begun
    /\ p.from \in Nat /\ p.from % PacketSize = 0 /\ p.from < given[p.of]
    /\ p.size = IF given[p.of] - p.from < PacketSize THEN given[p.of] - p.from ELSE PacketSize

(* Packet q is behind p, and does not begin the message of p. *)
Past(p, q) == p.of < q.of \/ (p.of = q.of /\ q.from > 0)

(* A message shorter than a packet that nothing has hit, after one that ends its
   transfer. *)
Safe(n) == n \notin cut /\ given[n] < PacketSize /\ (n > 1 => EndsTransfer(n - 1))

(* The message that is written next, or what is left of it. *)
NextMessage == IF inWrite = NotWriting THEN Begun + 1 ELSE Begun

IsMessage(i) == received[i].as = "message"

(* Messages are written in the order they were given in. *)
WrittenInOrder ==
    /\ Begun \in Nat
    /\ \A i \in DOMAIN signals : signals[i] = Begun + i
    /\ inWrite # NotWriting =>
         /\ inWrite.of = Begun /\ Begun >= 1
         /\ inWrite.from \in Nat /\ inWrite.from % PacketSize = 0 /\ inWrite.from < given[Begun]

PacketsAreReal ==
    /\ buffer # <<>> => IsPacket(buffer[1])
    /\ \A i \in DOMAIN newReads : newReads[i] # <<>> => IsPacket(newReads[i][1])

(* The fifth error, and nothing else, is told by an empty read, the last one. *)
ErrorsAreTold ==
    /\ \A i \in DOMAIN newReads : newReads[i] = <<>> => errorCount = MaxErrors /\ i = Len(newReads)
    /\ \A i \in DOMAIN received :
         received[i].of = 0 => errorCount = MaxErrors /\ i = Len(received) /\ newReads = <<>>

(* What is on its way to the host is in the order it was written in, ... *)
TransfersInOrder ==
    /\ inWrite # NotWriting =>
         /\ buffer # <<>> => Past(buffer[1], inWrite)
         /\ \A i \in DOMAIN newReads : newReads[i] # <<>> => Past(newReads[i][1], inWrite)
    /\ \A i \in DOMAIN newReads : newReads[i] # <<>> =>
         /\ buffer # <<>> => Past(newReads[i][1], buffer[1])
         /\ \A j \in DOMAIN newReads :
              i < j /\ newReads[j] # <<>> => Past(newReads[i][1], newReads[j][1])

(* ... and behind what the host has received. *)
ReceivedInOrder ==
    \A i \in DOMAIN received : IsMessage(i) =>
        /\ inWrite # NotWriting => Past(received[i], inWrite)
        /\ buffer # <<>> => Past(received[i], buffer[1])
        /\ \A k \in DOMAIN newReads : newReads[k] # <<>> => Past(received[i], newReads[k][1])
        /\ \A j \in DOMAIN received : i < j /\ IsMessage(j) => received[i].of < received[j].of

(* What is made up is made of a message of several packets. *)
MadeOfLong ==
    \A i \in DOMAIN received :
        /\ received[i].of <= Begun
        /\ ~IsMessage(i) /\ received[i].of # 0 => given[received[i].of] > PacketSize

(* The transfer is empty when a message begins, unless the one before it left it open. *)
TransferBeginsAnew ==
    (inWrite = NotWriting \/ inWrite.from = 0) /\ buffer # <<>> =>
        NextMessage > 1 /\ ~EndsTransfer(NextMessage - 1)

(* A safe message is being written, alone in a read, or received. *)
SafeArrive ==
    \A n \in 1..Begun : Safe(n) =>
        \/ inWrite.of = n
        \/ \E i \in DOMAIN newReads : Len(newReads[i]) = 1 /\ newReads[i][1].of = n
        \/ n \in Whole

(* The inductive invariant. *)
ReaderInv ==
    /\ ReaderTypeOK
    /\ WrittenInOrder /\ PacketsAreReal /\ ErrorsAreTold
    /\ TransfersInOrder /\ ReceivedInOrder /\ MadeOfLong
    /\ TransferBeginsAnew /\ SafeArrive

(* What is left of a division: of a number below the divisor, ... *)
LEMMA MultipleBelow ==
    ASSUME NEW P \in Nat \ {0}, NEW n \in Nat, n % P = 0, n < P
    PROVE  n = 0
OBVIOUS

(* ... of a multiple of it, ... *)
LEMMA MultipleOf ==
    ASSUME NEW P \in Nat \ {0}, NEW k \in Nat
    PROVE  (k * P) % P = 0
OBVIOUS

(* ... and of the multiple after that. *)
LEMMA NextMultiple ==
    ASSUME NEW P \in Nat \ {0}, NEW n \in Nat, n % P = 0
    PROVE  (n + P) % P = 0
<1> DEFINE d == n \div P
<1>1. n = P * d /\ d \in Nat
  BY SMT
<1> HIDE DEF d
<1>2. n + P = (d + 1) * P /\ d + 1 \in Nat
  BY <1>1
<1>3. ((d + 1) * P) % P = 0
  BY <1>2, MultipleOf
<1> QED  BY <1>2, <1>3

(* What SizesAssumption says of the constants, one by one. *)
LEMMA ReaderSizes ==
    /\ HeaderSize \in Nat \ {0} /\ MessageSize \in Nat \ {0} /\ PacketSize \in Nat \ {0}
    /\ HeaderSize < PacketSize /\ MaxWrites \in Nat
    /\ \A s \in Sizes : s \in Nat /\ HeaderSize <= s /\ s <= MessageSize
BY SizesAssumption

(* The type of one thing received, ... *)
LEMMA ReceivedType ==
    ASSUME ReaderTypeOK, NEW i \in DOMAIN received
    PROVE  received[i] \in Received /\ received[i].of \in Nat
<1>1. received[i] \in Received
  BY DEF ReaderTypeOK
<1> QED  BY <1>1 DEF Received, Numbers

(* ... and of the messages given and signalled. *)
LEMMA GivenType ==
    ASSUME ReaderTypeOK
    PROVE  /\ Len(given) \in Nat /\ \A n \in 1..Len(given) : given[n] \in Sizes
           /\ Len(signals) \in Nat /\ DOMAIN signals = 1..Len(signals)
           /\ \A i \in 1..Len(signals) : signals[i] \in Numbers
BY DEF ReaderTypeOK

(* Nothing has been given, and nothing is on its way. *)
LEMMA InitReaderInv == ReaderInit => ReaderInv
<1> SUFFICES ASSUME ReaderInit PROVE ReaderInv
  OBVIOUS
<1>1. /\ given = <<>> /\ signals = <<>> /\ inWrite = NotWriting /\ buffer = <<>>
      /\ errorCount = 0 /\ newReads = <<>> /\ received = <<>> /\ cut = {}
  BY DEF ReaderInit
<1>2. Begun = 0
  BY <1>1 DEF Begun
<1>3. ReaderTypeOK
  BY <1>1, ReaderSizes DEF ReaderTypeOK, MaxErrors
<1> QED
  BY <1>1, <1>2, <1>3 DEF ReaderInv, WrittenInOrder, PacketsAreReal, ErrorsAreTold, TransfersInOrder,
     ReceivedInOrder, MadeOfLong, TransferBeginsAnew, SafeArrive

(* writeData() adds a message behind all others. *)
LEMMA WriteDataKeeps ==
    ASSUME ReaderInv, WriteData
    PROVE  ReaderInv'
<1>1. PICK size \in Sizes :
        /\ Len(given) < MaxWrites /\ given' = Append(given, size)
        /\ signals' = Append(signals, Len(given'))
        /\ UNCHANGED <<inWrite, buffer, errorCount, newReads, received, cut>>
  BY DEF WriteData
<1>2. ReaderTypeOK /\ WrittenInOrder
  BY DEF ReaderInv
<1>3. /\ Len(given') = Len(given) + 1 /\ Len(signals') = Len(signals) + 1
      /\ \A n \in 1..Len(given) : given'[n] = given[n]
      /\ \A i \in 1..Len(signals) : signals'[i] = signals[i]
      /\ signals'[Len(signals) + 1] = Len(given) + 1
  BY <1>1, <1>2 DEF ReaderTypeOK
<1>4. Begun' = Begun /\ Begun <= Len(given) /\ Begun \in Nat
  BY <1>2, <1>3 DEF Begun, WrittenInOrder, ReaderTypeOK
<1>5. ReaderTypeOK'
  <2>1. Len(given) + 1 \in Numbers /\ signals' \in Seq(Numbers)
    BY <1>1, <1>2, <1>3, ReaderSizes DEF ReaderTypeOK, Numbers
  <2> QED  BY <1>1, <1>2, <1>3, <2>1, ReaderSizes DEF ReaderTypeOK
<1>6. WrittenInOrder'
  BY <1>1, <1>2, <1>3, <1>4 DEF WrittenInOrder, Begun, ReaderTypeOK
<1>7. \A p : IsPacket(p)' <=> IsPacket(p)
  BY <1>3, <1>4 DEF IsPacket
<1>8. PacketsAreReal' /\ ErrorsAreTold' /\ TransfersInOrder'
  BY <1>1, <1>7 DEF ReaderInv, PacketsAreReal, ErrorsAreTold, TransfersInOrder, Past
<1>9. ReceivedInOrder' /\ MadeOfLong'
  <2>1. \A i \in DOMAIN received : received[i].of # 0 => given'[received[i].of] = given[received[i].of]
    <3>1. \A i \in DOMAIN received : received[i].of <= Begun /\ received[i].of \in Nat
      BY <1>2, ReceivedType DEF ReaderInv, MadeOfLong
    <3>2. ASSUME NEW i \in DOMAIN received, received[i].of # 0
          PROVE  received[i].of \in 1..Len(given)
      BY <1>2, <1>4, <3>1, <3>2, GivenType
    <3> QED  BY <1>3, <3>2
  <2>2. \A i : IsMessage(i)' <=> IsMessage(i)
    BY <1>1 DEF IsMessage
  <2>3. ReceivedInOrder'
    BY <1>1, <2>2 DEF ReaderInv, ReceivedInOrder, Past
  <2>4. MadeOfLong'
    BY <1>1, <1>4, <2>1, <2>2 DEF ReaderInv, MadeOfLong
  <2> QED  BY <2>3, <2>4
<1>10. \A n \in 1..Begun : (Safe(n)' <=> Safe(n)) /\ (EndsTransfer(n)' <=> EndsTransfer(n))
  <2>1. \A n \in 1..Begun : n - 1 \in 1..Begun \/ ~(n > 1)
    BY <1>4
  <2> QED  BY <1>1, <1>3, <1>4, <2>1 DEF Safe, EndsTransfer
<1>11. TransferBeginsAnew'
  <2>1. NextMessage' = NextMessage
    BY <1>1, <1>4 DEF NextMessage
  <2>2. NextMessage > 1 => NextMessage - 1 \in 1..Begun
    BY <1>4 DEF NextMessage
  <2> QED  BY <1>1, <1>10, <2>1, <2>2 DEF ReaderInv, TransferBeginsAnew
<1>12. SafeArrive'
  BY <1>1, <1>4, <1>10 DEF ReaderInv, SafeArrive, Whole
<1> QED  BY <1>5, <1>6, <1>8, <1>9, <1>11, <1>12 DEF ReaderInv

(* A message of which nothing is written yet is begun. *)
LEMMA BeginWriteKeeps ==
    ASSUME ReaderInv, BeginWrite
    PROVE  ReaderInv'
<1>1. /\ inWrite = NotWriting /\ signals # <<>>
      /\ inWrite' = [of |-> Head(signals), from |-> 0] /\ signals' = Tail(signals)
      /\ UNCHANGED <<given, buffer, errorCount, newReads, received, cut>>
  BY DEF BeginWrite
<1>2. ReaderTypeOK /\ WrittenInOrder
  BY DEF ReaderInv
<1>3. /\ Len(signals') = Len(signals) - 1 /\ Len(signals) >= 1 /\ Len(signals) \in Nat
      /\ Head(signals) = signals[1] /\ Head(signals) \in Numbers
      /\ signals' \in Seq(Numbers) /\ DOMAIN signals' = 1..Len(signals) - 1
      /\ \A i \in DOMAIN signals' : signals'[i] = signals[i + 1]
  BY <1>1, <1>2 DEF ReaderTypeOK
<1>4. Begun' = Begun + 1 /\ Begun \in Nat /\ Begun + 1 <= Len(given) /\ Head(signals) = Begun + 1
  <2>1. signals[1] = Begun + 1 /\ Begun \in Nat
    BY <1>2, <1>3, GivenType DEF WrittenInOrder
  <2>2. Begun = Len(given) - Len(signals) /\ Begun' = Len(given) - (Len(signals) - 1)
    BY <1>1, <1>3 DEF Begun
  <2> QED  BY <1>2, <1>3, <2>1, <2>2, GivenType
<1>5. inWrite' # NotWriting /\ inWrite'.of = Begun + 1 /\ inWrite'.from = 0
  BY <1>1, <1>4 DEF NotWriting
<1>6. ReaderTypeOK'
  <2>1. inWrite' \in [of : Numbers, from : 0..MessageSize]
    BY <1>1, <1>3, ReaderSizes
  <2> QED  BY <1>1, <1>2, <1>3, <2>1 DEF ReaderTypeOK
<1>7. WrittenInOrder'
  <2>1. \A i \in DOMAIN signals' : signals'[i] = Begun' + i
    <3>1. ASSUME NEW i \in DOMAIN signals' PROVE signals'[i] = Begun + 1 + i
      <4>1. i + 1 \in DOMAIN signals /\ signals'[i] = signals[i + 1] /\ i \in Nat
        BY <1>2, <1>3, <3>1, GivenType
      <4>2. signals[i + 1] = Begun + (i + 1)
        BY <1>2, <4>1 DEF WrittenInOrder
      <4> QED  BY <1>4, <4>1, <4>2
    <3> QED  BY <1>4, <3>1
  <2>2. given[Begun + 1] \in Sizes
    BY <1>2, <1>4 DEF ReaderTypeOK
  <2>3. 0 % PacketSize = 0 /\ 0 < given[Begun + 1]
    BY <2>2, ReaderSizes
  <2> QED  BY <1>1, <1>4, <1>5, <2>1, <2>3 DEF WrittenInOrder
<1>8. \A p : IsPacket(p) => IsPacket(p)' /\ p.of < Begun + 1 /\ p.of \in Nat
  BY <1>1, <1>4 DEF IsPacket
<1>9. PacketsAreReal' /\ ErrorsAreTold'
  BY <1>1, <1>8 DEF ReaderInv, PacketsAreReal, ErrorsAreTold
<1>10. TransfersInOrder'
  BY <1>1, <1>5, <1>8 DEF ReaderInv, TransfersInOrder, PacketsAreReal, Past
<1>11. \A i : IsMessage(i)' <=> IsMessage(i)
  BY <1>1 DEF IsMessage
<1>12. \A i \in DOMAIN received : received[i].of < Begun + 1
  BY <1>2, <1>4, ReceivedType DEF ReaderInv, MadeOfLong
<1>13. ReceivedInOrder'
  BY <1>1, <1>5, <1>11, <1>12 DEF ReaderInv, ReceivedInOrder, Past
<1>14. MadeOfLong'
  BY <1>1, <1>2, <1>4, <1>11, <1>12, ReceivedType DEF ReaderInv, MadeOfLong
<1>15. NextMessage' = NextMessage
  BY <1>1, <1>4, <1>5 DEF NextMessage
<1>16. TransferBeginsAnew'
  BY <1>1, <1>15 DEF ReaderInv, TransferBeginsAnew, EndsTransfer
<1>17. SafeArrive'
  <2>1. \A n \in 1..Begun : inWrite.of # n
    BY <1>1 DEF NotWriting
  <2>2. \A n : Safe(n)' <=> Safe(n)
    BY <1>1 DEF Safe, EndsTransfer
  <2> QED  BY <1>1, <1>4, <1>5, <2>1, <2>2 DEF ReaderInv, SafeArrive, Whole
<1> QED  BY <1>6, <1>7, <1>9, <1>10, <1>13, <1>14, <1>16, <1>17 DEF ReaderInv

(* What is hit is not safe any more, and nothing becomes so. *)
LEMMA FewerAreSafe ==
    ASSUME cut \subseteq cut', given' = given
    PROVE  \A n : (Safe(n)' => Safe(n)) /\ (EndsTransfer(n)' => EndsTransfer(n))
<1>1. \A n : EndsTransfer(n)' => EndsTransfer(n)
  BY DEF EndsTransfer
<1> QED  BY <1>1 DEF Safe

(* A write that fails leaves the transfer open, and its message is hit. *)
LEMMA WriteFailsKeeps ==
    ASSUME ReaderInv, WriteFails
    PROVE  ReaderInv'
<1>1. /\ inWrite # NotWriting /\ inWrite' = NotWriting /\ cut' = cut \cup {inWrite.of}
      /\ UNCHANGED <<given, signals, buffer, errorCount, newReads, received>>
  BY DEF WriteFails
<1>2. ReaderTypeOK /\ WrittenInOrder
  BY DEF ReaderInv
<1>3. Begun' = Begun /\ Begun \in Nat /\ inWrite.of = Begun /\ Begun >= 1
  BY <1>1, <1>2 DEF Begun, WrittenInOrder
<1>4. ReaderTypeOK'
  BY <1>1, <1>2 DEF ReaderTypeOK
<1>5. WrittenInOrder'
  BY <1>1, <1>2, <1>3 DEF WrittenInOrder
<1>6. \A p : IsPacket(p)' <=> IsPacket(p)
  BY <1>1, <1>3 DEF IsPacket
<1>7. PacketsAreReal' /\ ErrorsAreTold' /\ TransfersInOrder'
  BY <1>1, <1>6 DEF ReaderInv, PacketsAreReal, ErrorsAreTold, TransfersInOrder, Past
<1>8. \A i : IsMessage(i)' <=> IsMessage(i)
  BY <1>1 DEF IsMessage
<1>9. ReceivedInOrder' /\ MadeOfLong'
  BY <1>1, <1>3, <1>8 DEF ReaderInv, ReceivedInOrder, MadeOfLong, Past
<1>10. TransferBeginsAnew'
  BY <1>1, <1>3 DEF TransferBeginsAnew, NextMessage, EndsTransfer
<1>11. SafeArrive'
  <2>1. \A n : Safe(n)' => Safe(n)
    BY <1>1, FewerAreSafe
  <2>2. \A n : Safe(n)' => inWrite.of # n
    BY <1>1 DEF Safe
  <2> QED  BY <1>1, <1>3, <2>1, <2>2 DEF ReaderInv, SafeArrive, Whole
<1> QED  BY <1>4, <1>5, <1>7, <1>9, <1>10, <1>11 DEF ReaderInv

(* A transfer that times out is dropped; it had nothing of a safe message. *)
LEMMA TimesOutKeeps ==
    ASSUME ReaderInv, TimesOut
    PROVE  ReaderInv'
<1>1. /\ buffer' = <<>>
      /\ UNCHANGED <<given, signals, inWrite, errorCount, newReads, received, cut>>
  BY DEF TimesOut
<1>2. Begun' = Begun
  BY <1>1 DEF Begun
<1>3. \A p : IsPacket(p)' <=> IsPacket(p)
  BY <1>1, <1>2 DEF IsPacket
<1>4. \A n : (IsMessage(n)' <=> IsMessage(n)) /\ (EndsTransfer(n)' <=> EndsTransfer(n))
  BY <1>1 DEF IsMessage, EndsTransfer
<1>5. \A n : Safe(n)' <=> Safe(n)
  BY <1>1, <1>4 DEF Safe
<1>6. ReaderTypeOK' /\ WrittenInOrder' /\ PacketsAreReal' /\ ErrorsAreTold'
  BY <1>1, <1>2, <1>3 DEF ReaderInv, ReaderTypeOK, WrittenInOrder, PacketsAreReal, ErrorsAreTold
<1>7. TransfersInOrder' /\ ReceivedInOrder' /\ MadeOfLong'
  BY <1>1, <1>2, <1>4 DEF ReaderInv, TransfersInOrder, ReceivedInOrder, MadeOfLong, Past
<1>8. TransferBeginsAnew' /\ SafeArrive'
  BY <1>1, <1>2, <1>5 DEF ReaderInv, TransferBeginsAnew, SafeArrive, Whole
<1> QED  BY <1>6, <1>7, <1>8 DEF ReaderInv

(* A failed transfer is dropped, and the fifth in a row adds the empty read. *)
LEMMA TransferFailsKeeps ==
    ASSUME ReaderInv, TransferFails
    PROVE  ReaderInv'
<1>1. /\ Reading /\ buffer' = <<>> /\ errorCount' = errorCount + 1
      /\ newReads' = IF errorCount' = MaxErrors THEN Append(newReads, <<>>) ELSE newReads
      /\ cut' = cut \cup {buffer[i].of : i \in DOMAIN buffer}
      /\ UNCHANGED <<given, signals, inWrite, received>>
  BY DEF TransferFails
<1>2. ReaderTypeOK
  BY DEF ReaderInv
<1>3. Begun' = Begun
  BY <1>1 DEF Begun
<1>4. errorCount \in Nat /\ errorCount < MaxErrors /\ errorCount' \in 0..MaxErrors
  BY <1>1, <1>2 DEF ReaderTypeOK, Reading, MaxErrors
<1>5. /\ newReads' \in Seq(Seq(Packets))
      /\ DOMAIN newReads \subseteq DOMAIN newReads'
      /\ \A i \in DOMAIN newReads' :
           \/ i \in DOMAIN newReads /\ newReads'[i] = newReads[i]
           \/ newReads'[i] = <<>> /\ i = Len(newReads') /\ errorCount' = MaxErrors
      /\ \A i \in DOMAIN newReads : newReads'[i] = newReads[i]
  <2>1. <<>> \in Seq(Packets)
    OBVIOUS
  <2> QED  BY <1>1, <1>2, <2>1 DEF ReaderTypeOK
<1>6. ReaderTypeOK'
  <2>1. {buffer[i].of : i \in DOMAIN buffer} \subseteq Numbers
    <3>1. \A i \in DOMAIN buffer : buffer[i] \in Packets
      BY <1>2 DEF ReaderTypeOK
    <3> QED  BY <3>1 DEF Packets
  <2> QED  BY <1>1, <1>2, <1>4, <1>5, <2>1 DEF ReaderTypeOK
<1>7. WrittenInOrder'
  BY <1>1, <1>3 DEF ReaderInv, WrittenInOrder
<1>8. \A p : IsPacket(p)' <=> IsPacket(p)
  BY <1>1, <1>3 DEF IsPacket
<1>9. PacketsAreReal'
  BY <1>1, <1>5, <1>8 DEF ReaderInv, PacketsAreReal
<1>10. ErrorsAreTold'
  <2>1. \A i \in DOMAIN newReads : newReads[i] # <<>>
    BY <1>4 DEF ReaderInv, ErrorsAreTold
  <2>2. \A i \in DOMAIN received : received[i].of # 0
    BY <1>4 DEF ReaderInv, ErrorsAreTold
  <2> QED  BY <1>1, <1>5, <2>1, <2>2 DEF ErrorsAreTold
<1>11. TransfersInOrder'
  BY <1>1, <1>5 DEF ReaderInv, TransfersInOrder, Past
<1>12. \A i : IsMessage(i)' <=> IsMessage(i)
  BY <1>1 DEF IsMessage
<1>13. ReceivedInOrder' /\ MadeOfLong'
  BY <1>1, <1>3, <1>5, <1>12 DEF ReaderInv, ReceivedInOrder, MadeOfLong, Past
<1>14. TransferBeginsAnew'
  BY <1>1 DEF TransferBeginsAnew
<1>15. SafeArrive'
  <2>1. \A n : Safe(n)' => Safe(n)
    BY <1>1, FewerAreSafe
  <2> QED  BY <1>1, <1>3, <1>5, <2>1 DEF ReaderInv, SafeArrive, Whole
<1> QED
  BY <1>6, <1>7, <1>9, <1>10, <1>11, <1>13, <1>14, <1>15 DEF ReaderInv

(* A read of several packets is longer than one. *)
LEMMA SizeOfRead ==
    ASSUME NEW r \in Seq(Packets), r # <<>>
    PROVE  /\ r[1] \in Packets
           /\ Len(r) = 1 => Size(r) = r[1].size
           /\ Len(r) # 1 => Size(r) \in Nat /\ Size(r) > PacketSize
<1>1. Len(r) \in Nat /\ Len(r) >= 1 /\ r[1] \in Packets /\ r[Len(r)] \in Packets
  OBVIOUS
<1>2. \A p \in Packets : p.size \in Nat /\ p.size >= 1
  BY ReaderSizes DEF Packets
<1>3. ASSUME Len(r) = 1 PROVE Size(r) = r[1].size
  BY <1>1, <1>2, <1>3, ReaderSizes DEF Size
<1>4. ASSUME Len(r) # 1 PROVE Size(r) \in Nat /\ Size(r) > PacketSize
  <2>1. PICK k \in Nat : Len(r) - 1 = k + 1
    <3> DEFINE l == Len(r)
    <3>1. l \in Nat /\ l >= 1 /\ l # 1
      BY <1>1, <1>4
    <3> HIDE DEF l
    <3>2. l - 2 \in Nat /\ l - 1 = (l - 2) + 1
      BY <3>1
    <3> QED  BY <3>2 DEF l
  <2>2. (k + 1) * PacketSize = k * PacketSize + PacketSize /\ k * PacketSize \in Nat
    BY ReaderSizes
  <2>3. Size(r) = k * PacketSize + PacketSize + r[Len(r)].size
    BY <2>1, <2>2 DEF Size
  <2> HIDE DEF Size
  <2> QED  BY <1>1, <1>2, <2>2, <2>3, ReaderSizes
<1> QED  BY <1>1, <1>3, <1>4

(* A message that fits in a packet is a packet. *)
LEMMA FitsInPacket ==
    ASSUME ReaderTypeOK, NEW p, IsPacket(p), p.of \in 1..Len(given), given[p.of] <= PacketSize
    PROVE  p.from = 0 /\ p.size = given[p.of]
<1>1. given[p.of] \in Nat
  BY GivenType, ReaderSizes
<1>2. p.from = 0
  BY <1>1, ReaderSizes, MultipleBelow DEF IsPacket
<1> QED  BY <1>1, <1>2, ReaderSizes DEF IsPacket

(* What receive() makes of a read. *)
LEMMA ReceiveRead ==
    ASSUME ReaderTypeOK, NEW r \in Seq(Packets),
           r # <<>> => IsPacket(r[1]) /\ r[1].of \in 1..Len(given)
    PROVE  /\ Receive(r) \in Received
           /\ Receive(r).of = IF r = <<>> THEN 0 ELSE r[1].of
           /\ Receive(r).as = "message" => r # <<>> /\ r[1].from = 0
           /\ r # <<>> /\ Receive(r).as # "message" => given[r[1].of] > PacketSize
<1>1. CASE r = <<>>
  <2>1. Size(r) = 0 /\ 0 < HeaderSize
    BY <1>1, ReaderSizes DEF Size
  <2> QED  BY <1>1, <2>1 DEF Receive, Received
<1>2. CASE r # <<>>
  <2>1. r[1] \in Packets
    BY <1>2, SizeOfRead
  <2>2. Receive(r) \in Received /\ Receive(r).of = r[1].of
    <3>1. r[1].of \in Numbers
      BY <2>1 DEF Packets
    <3> QED  BY <1>2, <3>1 DEF Receive, Received
  <2>3. Receive(r).as = "message" => r[1].from = 0
    BY <1>2 DEF Receive, BeginsWithMessage
  <2>4. ASSUME given[r[1].of] <= PacketSize PROVE Receive(r).as = "message"
    <3>1. r[1].from = 0 /\ r[1].size = given[r[1].of]
      BY <1>2, <2>4, FitsInPacket
    <3>2. given[r[1].of] \in Nat /\ given[r[1].of] >= HeaderSize
      BY <1>2, GivenType, ReaderSizes
    <3>3. ~(Size(r) < HeaderSize)
      BY <1>2, <3>1, <3>2, SizeOfRead, ReaderSizes
    <3>4. 1 \in DOMAIN r /\ r[1].from + r[1].size = given[r[1].of]
      BY <1>2, <3>1, <3>2
    <3>5. BeginsWithMessage(r)
      BY <3>1, <3>4 DEF BeginsWithMessage
    <3> QED  BY <3>3, <3>5 DEF Receive
  <2>5. given[r[1].of] \in Nat
    BY <1>2, GivenType, ReaderSizes
  <2> QED  BY <1>2, <2>2, <2>3, <2>4, <2>5, ReaderSizes
<1> QED  BY <1>1, <1>2

(* The main thread takes the oldest read and makes one message of it. *)
LEMMA ReadyReadKeeps ==
    ASSUME ReaderInv, ReadyRead
    PROVE  ReaderInv'
<1> DEFINE r == newReads[1]
           x == Receive(r)
<1>1. /\ newReads # <<>> /\ received' = Append(received, Receive(Head(newReads)))
      /\ newReads' = Tail(newReads)
      /\ UNCHANGED <<given, signals, inWrite, buffer, errorCount, cut>>
  BY DEF ReadyRead
<1>2. ReaderTypeOK
  BY DEF ReaderInv
<1>3. /\ Head(newReads) = r /\ r \in Seq(Packets) /\ 1 \in DOMAIN newReads
      /\ newReads' \in Seq(Seq(Packets)) /\ Len(newReads') = Len(newReads) - 1
      /\ Len(newReads) \in Nat
      /\ \A i \in DOMAIN newReads' :
           i \in Nat /\ i > 0 /\ i + 1 \in DOMAIN newReads /\ newReads'[i] = newReads[i + 1]
      /\ \A i \in DOMAIN newReads : i = 1 \/ i - 1 \in DOMAIN newReads'
  BY <1>1, <1>2 DEF ReaderTypeOK
<1>4. Begun' = Begun /\ Begun \in Nat /\ Begun <= Len(given)
  <2>1. Begun' = Begun /\ Begun \in Nat /\ Begun = Len(given) - Len(signals)
    BY <1>1 DEF Begun, ReaderInv, WrittenInOrder
  <2> QED  BY <1>2, <2>1, GivenType
<1>5. r # <<>> => IsPacket(r[1]) /\ r[1].of \in 1..Begun /\ r[1].of \in 1..Len(given)
  <2>1. r # <<>> => IsPacket(r[1])
    BY <1>3 DEF ReaderInv, PacketsAreReal
  <2> QED  BY <1>4, <2>1 DEF IsPacket
<1>6. /\ x \in Received /\ x.of = IF r = <<>> THEN 0 ELSE r[1].of
      /\ x.as = "message" => r # <<>> /\ r[1].from = 0
      /\ r # <<>> /\ x.as # "message" => given[r[1].of] > PacketSize
  BY <1>2, <1>3, <1>5, ReceiveRead
<1> HIDE DEF x
<1> PICK n \in Nat : n = Len(received) + 1
  BY <1>2 DEF ReaderTypeOK
<1>7. /\ received' \in Seq(Received) /\ n \in DOMAIN received' /\ received'[n] = x
      /\ Len(received') = n
      /\ \A i \in DOMAIN received :
           i \in DOMAIN received' /\ received'[i] = received[i] /\ i \in Nat /\ i < n
      /\ \A i \in DOMAIN received' : i \in Nat /\ i <= n /\ (i = n \/ i \in DOMAIN received)
  <2>1. received \in Seq(Received) /\ received' = Append(received, x) /\ x \in Received
    BY <1>1, <1>2, <1>3, <1>6 DEF ReaderTypeOK, x
  <2> QED  BY <2>1
<1> HIDE DEF r
<1>8. ReaderTypeOK' /\ WrittenInOrder'
  BY <1>1, <1>2, <1>3, <1>4, <1>7 DEF ReaderInv, ReaderTypeOK, WrittenInOrder
<1>9. \A p : IsPacket(p)' <=> IsPacket(p)
  BY <1>1, <1>4 DEF IsPacket
<1>10. PacketsAreReal'
  BY <1>1, <1>3, <1>9 DEF ReaderInv, PacketsAreReal
<1>11. ErrorsAreTold'
  <2>1. \A i \in DOMAIN received : received[i].of # 0
    BY <1>1 DEF ReaderInv, ErrorsAreTold
  <2>2. ASSUME r = <<>> PROVE errorCount = MaxErrors /\ newReads' = <<>>
    <3>1. errorCount = MaxErrors /\ 1 = Len(newReads)
      BY <1>3, <2>2 DEF ReaderInv, ErrorsAreTold, r
    <3> DEFINE l == Len(newReads)
               k == Len(newReads')
    <3>2. k = l - 1 /\ l = 1 /\ newReads' \in Seq(Seq(Packets)) /\ k \in Nat
      <4>1. newReads' \in Seq(Seq(Packets)) /\ k = l - 1
        BY <1>3
      <4>2. k \in Nat
        BY <4>1
      <4> QED  BY <3>1, <4>1, <4>2
    <3> HIDE DEF l, k
    <3>4. k = 0
      BY <3>2
    <3>3. newReads' = <<>>
      BY <3>2, <3>4, EmptySeq DEF k
    <3> QED  BY <3>1, <3>3
  <2>3. r # <<>> => x.of # 0
    BY <1>4, <1>5, <1>6
  <2>4. \A i \in DOMAIN newReads' :
          newReads'[i] = <<>> => errorCount = MaxErrors /\ i = Len(newReads')
    BY <1>3 DEF ReaderInv, ErrorsAreTold
  <2>5. \A i \in DOMAIN received' :
          received'[i].of = 0 => errorCount = MaxErrors /\ i = Len(received') /\ newReads' = <<>>
    BY <1>7, <2>1, <2>2, <2>3
  <2> QED  BY <1>1, <2>4, <2>5 DEF ErrorsAreTold
<1>12. TransfersInOrder'
  BY <1>1, <1>3 DEF ReaderInv, TransfersInOrder, Past
<1>13. /\ \A i \in DOMAIN received : IsMessage(i)' <=> IsMessage(i)
       /\ IsMessage(n)' <=> x.as = "message"
  BY <1>7 DEF IsMessage
<1>14. ReceivedInOrder'
  <2>1. ASSUME x.as = "message"
        PROVE  /\ inWrite # NotWriting => Past(x, inWrite)
               /\ buffer # <<>> => Past(x, buffer[1])
               /\ \A k \in DOMAIN newReads' : newReads'[k] # <<>> => Past(x, newReads'[k][1])
    <3>1. r # <<>> /\ x.of = r[1].of
      BY <1>6, <2>1
    <3>2. /\ inWrite # NotWriting => Past(r[1], inWrite)
          /\ buffer # <<>> => Past(r[1], buffer[1])
      BY <1>3, <3>1 DEF ReaderInv, TransfersInOrder, r
    <3>3. \A k \in DOMAIN newReads' : newReads'[k] # <<>> => Past(r[1], newReads'[k][1])
      <4>1. \A k \in DOMAIN newReads' : 1 < k + 1
        BY <1>3
      <4> QED  BY <1>3, <3>1, <4>1 DEF ReaderInv, TransfersInOrder, r
    <3> QED  BY <3>1, <3>2, <3>3 DEF Past
  <2>2. ASSUME NEW i \in DOMAIN received, IsMessage(i)
        PROVE  /\ inWrite # NotWriting => Past(received[i], inWrite)
               /\ buffer # <<>> => Past(received[i], buffer[1])
               /\ \A k \in DOMAIN newReads' :
                    newReads'[k] # <<>> => Past(received[i], newReads'[k][1])
               /\ x.as = "message" => received[i].of < x.of
    <3>1. x.as = "message" => Past(received[i], r[1]) /\ r[1].from = 0 /\ x.of = r[1].of
      BY <1>3, <1>6, <2>2 DEF ReaderInv, ReceivedInOrder, r
    <3>2. x.as = "message" => received[i].of < x.of
      BY <3>1 DEF Past
    <3> QED  BY <1>3, <2>2, <3>2 DEF ReaderInv, ReceivedInOrder
  <2>3. \A i, j \in DOMAIN received :
          IsMessage(i) /\ IsMessage(j) /\ i < j => received[i].of < received[j].of
    BY DEF ReaderInv, ReceivedInOrder
  <2>4. \A i \in DOMAIN received' : ~(n < i)
    BY <1>7
  <2>5. /\ inWrite' = inWrite /\ buffer' = buffer
    BY <1>1
  <2>6. \A p, q : Past(p, q)' <=> Past(p, q)
    BY DEF Past
  <2>7. ASSUME NEW i \in DOMAIN received', IsMessage(i)'
        PROVE  /\ inWrite # NotWriting => Past(received'[i], inWrite)
               /\ buffer # <<>> => Past(received'[i], buffer[1])
               /\ \A k \in DOMAIN newReads' :
                    newReads'[k] # <<>> => Past(received'[i], newReads'[k][1])
               /\ \A j \in DOMAIN received' :
                    i < j /\ IsMessage(j)' => received'[i].of < received'[j].of
    <3>1. CASE i = n
      BY <1>7, <1>13, <2>1, <2>4, <2>7, <3>1
    <3>2. CASE i \in DOMAIN received
      BY <1>7, <1>13, <2>2, <2>3, <2>7, <3>2
    <3> QED  BY <1>7, <3>1, <3>2
  <2> QED  BY <2>5, <2>6, <2>7 DEF ReceivedInOrder, Past
<1>15. MadeOfLong'
  <2>1. x.of <= Begun /\ (x.as # "message" /\ x.of # 0 => given[x.of] > PacketSize)
    BY <1>4, <1>5, <1>6
  <2> QED  BY <1>1, <1>4, <1>7, <1>13, <2>1 DEF ReaderInv, MadeOfLong
<1>16. TransferBeginsAnew'
  <2>1. NextMessage' = NextMessage /\ \A k : EndsTransfer(k)' <=> EndsTransfer(k)
    BY <1>1, <1>4 DEF NextMessage, EndsTransfer
  <2> QED  BY <1>1, <2>1 DEF ReaderInv, TransferBeginsAnew
<1>17. SafeArrive'
  <2>1. \A k : Safe(k)' <=> Safe(k)
    BY <1>1 DEF Safe, EndsTransfer
  <2>2. Whole \subseteq Whole'
    BY <1>7 DEF Whole
  <2>3. x.as = "message" => x.of \in Whole'
    BY <1>7 DEF Whole
  <2>4. ASSUME NEW k \in 1..Begun, Safe(k), NEW i \in DOMAIN newReads,
               Len(newReads[i]) = 1, newReads[i][1].of = k
        PROVE  \/ \E j \in DOMAIN newReads' : Len(newReads'[j]) = 1 /\ newReads'[j][1].of = k
               \/ k \in Whole'
    <3>1. CASE i = 1
      <4>1. r # <<>> /\ r[1].of = k
        BY <1>3, <2>4, <3>1 DEF r
      <4>2. ~(given[k] > PacketSize)
        <5>1. k \in 1..Len(given)
          BY <1>4
        <5>2. given[k] \in Nat /\ given[k] < PacketSize
          BY <1>2, <2>4, <5>1, GivenType, ReaderSizes DEF Safe
        <5> QED  BY <5>2, ReaderSizes
      <4> QED  BY <1>6, <2>3, <4>1, <4>2
    <3>2. CASE i # 1
      <4>1. i - 1 \in DOMAIN newReads' /\ newReads'[i - 1] = newReads[i]
        <5>1. i - 1 \in DOMAIN newReads' /\ i \in Nat
          BY <1>2, <1>3, <3>2 DEF ReaderTypeOK
        <5>2. newReads'[i - 1] = newReads[(i - 1) + 1] /\ (i - 1) + 1 = i
          BY <1>3, <5>1
        <5> QED  BY <5>1, <5>2
      <4> QED  BY <2>4, <4>1
    <3> QED  BY <3>1, <3>2
  <2> QED  BY <1>1, <1>4, <2>1, <2>2, <2>4 DEF ReaderInv, SafeArrive
<1> QED
  BY <1>8, <1>10, <1>11, <1>12, <1>14, <1>15, <1>16, <1>17 DEF ReaderInv

(* What the next packet is, and what the write goes on with. *)
LEMMA NextPacketIsReal ==
    ASSUME ReaderTypeOK, WrittenInOrder, inWrite # NotWriting, Begun <= Len(given)
    PROVE  LET p == NextPacket
           IN  /\ IsPacket(p) /\ p \in Packets
               /\ p.of = Begun /\ p.from = inWrite.from
               /\ AfterPacket(p) \in [of : Numbers, from : 0..MessageSize] \cup {NotWriting}
               /\ p.size < PacketSize => AfterPacket(p) = NotWriting
               /\ AfterPacket(p) # NotWriting =>
                    /\ p.size = PacketSize
                    /\ AfterPacket(p).of = Begun /\ AfterPacket(p).from = p.from + PacketSize
                    /\ AfterPacket(p).from % PacketSize = 0
                    /\ AfterPacket(p).from < given[Begun] /\ AfterPacket(p).from \in Nat
               /\ AfterPacket(p) = NotWriting =>
                    p.size = given[Begun] - p.from /\ (p.size < PacketSize \/ given[Begun] % PacketSize = 0)
<1> DEFINE p == NextPacket
           g == given[Begun]
           f == inWrite.from
<1>1. /\ inWrite.of = Begun /\ Begun \in 1..Len(given) /\ Begun \in Numbers /\ Begun # 0
      /\ f \in Nat /\ f % PacketSize = 0 /\ f < g
  <2>1. /\ inWrite.of = Begun /\ Begun >= 1 /\ Begun \in Nat
        /\ f \in Nat /\ f % PacketSize = 0 /\ f < g
    BY DEF WrittenInOrder
  <2>2. Begun <= MaxWrites /\ Begun \in 1..Len(given)
    BY <2>1, GivenType, ReaderSizes DEF ReaderTypeOK
  <2> QED  BY <2>1, <2>2, ReaderSizes DEF Numbers
<1>2. g \in Nat /\ g <= MessageSize /\ PacketSize \in Nat \ {0} /\ MessageSize \in Nat
  BY <1>1, GivenType, ReaderSizes
<1>3. /\ p.of = Begun /\ p.from = f
      /\ p.size = IF g - f < PacketSize THEN g - f ELSE PacketSize
      /\ p = [of |-> p.of, from |-> p.from, size |-> p.size]
  BY <1>1 DEF NextPacket
<1> HIDE DEF p, g, f
<1>4. p.size \in 1..PacketSize /\ p.from \in 0..MessageSize
  BY <1>1, <1>2, <1>3
<1>5. IsPacket(p)
  BY <1>1, <1>3 DEF IsPacket, g
<1>6. p \in Packets
  BY <1>1, <1>3, <1>4 DEF Packets
<1>7. AfterPacket(p) = IF f + p.size = g THEN NotWriting ELSE [of |-> Begun, from |-> f + p.size]
  BY <1>3 DEF AfterPacket, g
<1>8. p.size < PacketSize => f + p.size = g
  BY <1>1, <1>2, <1>3
<1>9. ASSUME f + p.size # g
      PROVE  /\ p.size = PacketSize /\ f + PacketSize < g /\ (f + PacketSize) % PacketSize = 0
             /\ AfterPacket(p) = [of |-> Begun, from |-> f + PacketSize]
  <2>1. p.size = PacketSize /\ f + PacketSize < g
    BY <1>1, <1>2, <1>3, <1>9
  <2>2. (f + PacketSize) % PacketSize = 0
    BY <1>1, <1>2, NextMultiple
  <2> QED  BY <1>7, <1>9, <2>1, <2>2
<1>10. ASSUME f + p.size = g
       PROVE  /\ AfterPacket(p) = NotWriting /\ p.size = g - f
              /\ p.size < PacketSize \/ g % PacketSize = 0
  <2>1. AfterPacket(p) = NotWriting /\ p.size = g - f
    BY <1>1, <1>2, <1>4, <1>7, <1>10
  <2>2. CASE p.size < PacketSize
    BY <2>1, <2>2
  <2>3. CASE ~(p.size < PacketSize)
    <3>1. g = f + PacketSize
      BY <1>2, <1>3, <1>4, <1>10, <2>3
    <3> QED  BY <1>1, <1>2, <2>1, <3>1, NextMultiple
  <2> QED  BY <2>2, <2>3
<1>11. [of |-> Begun, from |-> f + PacketSize] # NotWriting
  BY <1>1 DEF NotWriting
<1>12. AfterPacket(p) # NotWriting => 
         /\ p.size = PacketSize
         /\ AfterPacket(p).of = Begun /\ AfterPacket(p).from = f + PacketSize
         /\ AfterPacket(p).from % PacketSize = 0
         /\ AfterPacket(p).from < g /\ AfterPacket(p).from \in Nat
  BY <1>1, <1>2, <1>9, <1>10
<1>13. AfterPacket(p) = NotWriting => p.size = g - f /\ (p.size < PacketSize \/ g % PacketSize = 0)
  BY <1>9, <1>10, <1>11
<1>14. AfterPacket(p) \in [of : Numbers, from : 0..MessageSize] \cup {NotWriting}
  <2>1. f + p.size # g => f + PacketSize \in 0..MessageSize
    BY <1>1, <1>2, <1>9
  <2> QED  BY <1>1, <1>9, <1>10, <2>1
<1> QED  BY <1>3, <1>5, <1>6, <1>8, <1>10, <1>12, <1>13, <1>14 DEF p, g, f

(* A packet arrives, which may end the transfer. *)
LEMMA TransferKeeps ==
    ASSUME ReaderInv, Transfer
    PROVE  ReaderInv'
<1>1. ReaderTypeOK /\ WrittenInOrder /\ Reading /\ inWrite # NotWriting
  BY DEF ReaderInv, Transfer
<1>2. PICK p : p = NextPacket
  OBVIOUS
<1>3. PICK packets : packets = Append(buffer, p)
  OBVIOUS
<1>4. /\ inWrite' = AfterPacket(p)
      /\ \/ /\ p.size < PacketSize \/ Size(packets) = MessageSize
            /\ buffer' = <<>> /\ newReads' = Append(newReads, packets) /\ errorCount' = 0
         \/ /\ ~(p.size < PacketSize)
            /\ buffer' = packets /\ newReads' = newReads /\ errorCount' = errorCount
      /\ UNCHANGED <<given, signals, received, cut>>
  BY <1>2, <1>3 DEF Transfer
<1>5. Begun' = Begun /\ Begun \in Nat /\ Begun <= Len(given) /\ Begun >= 1
  <2>1. /\ Begun' = Begun /\ Begun \in Nat /\ Begun = Len(given) - Len(signals) /\ Begun >= 1
    BY <1>1, <1>4 DEF Begun, WrittenInOrder
  <2> QED  BY <1>1, <2>1, GivenType
<1>6. /\ IsPacket(p) /\ p \in Packets
      /\ p.of = Begun /\ p.from = inWrite.from
      /\ inWrite' \in [of : Numbers, from : 0..MessageSize] \cup {NotWriting}
      /\ inWrite' # NotWriting =>
           /\ inWrite'.of = Begun /\ inWrite'.from = p.from + PacketSize
           /\ inWrite'.from % PacketSize = 0
           /\ inWrite'.from < given[Begun] /\ inWrite'.from \in Nat
      /\ inWrite' = NotWriting => p.size < PacketSize \/ given[Begun] % PacketSize = 0
  BY <1>1, <1>2, <1>4, <1>5, NextPacketIsReal
<1>7. inWrite' # NotWriting => inWrite'.from > 0
  BY <1>6, ReaderSizes DEF IsPacket
<1>8. /\ packets \in Seq(Packets) /\ packets # <<>> /\ Len(packets) = Len(buffer) + 1
      /\ buffer = <<>> => packets[1] = p
      /\ buffer # <<>> => packets[1] = buffer[1]
  <2>1. buffer \in Seq(Packets)
    BY <1>1 DEF ReaderTypeOK
  <2> QED  BY <1>3, <1>6, <2>1
<1>9. /\ newReads' \in Seq(Seq(Packets))
      /\ \A i \in DOMAIN newReads : i \in DOMAIN newReads' /\ newReads'[i] = newReads[i] /\ i \in Nat
      /\ \A i \in DOMAIN newReads' :
           i \in DOMAIN newReads \/ (newReads'[i] = packets /\ i = Len(newReads) + 1 /\ buffer' = <<>>)
      /\ \A i \in DOMAIN newReads : i <= Len(newReads)
      /\ Len(newReads) \in Nat
  <2>1. newReads \in Seq(Seq(Packets)) /\ packets \in Seq(Packets)
    BY <1>1, <1>8 DEF ReaderTypeOK
  <2>2. CASE newReads' = newReads
    BY <2>1, <2>2
  <2>3. CASE newReads' = Append(newReads, packets) /\ buffer' = <<>>
    <3>1. /\ newReads' \in Seq(Seq(Packets)) /\ Len(newReads') = Len(newReads) + 1
          /\ \A i \in 1..Len(newReads) : newReads'[i] = newReads[i]
          /\ newReads'[Len(newReads) + 1] = packets /\ Len(newReads) \in Nat
      BY <2>1, <2>3
    <3>2. DOMAIN newReads = 1..Len(newReads) /\ DOMAIN newReads' = 1..Len(newReads')
      BY <2>1, <3>1, LenProperties
    <3> QED  BY <2>3, <3>1, <3>2
  <2> QED  BY <1>4, <2>2, <2>3
<1>10. ReaderTypeOK'
  <2>1. errorCount' \in 0..MaxErrors /\ buffer' \in Seq(Packets)
    <3>1. errorCount' \in 0..MaxErrors
      BY <1>1, <1>4 DEF ReaderTypeOK, MaxErrors
    <3>2. <<>> \in Seq(Packets)
      OBVIOUS
    <3> QED  BY <1>4, <1>8, <3>1, <3>2
  <2> QED  BY <1>1, <1>4, <1>6, <1>9, <2>1 DEF ReaderTypeOK
<1>11. WrittenInOrder'
  BY <1>1, <1>4, <1>5, <1>6 DEF WrittenInOrder
<1>12. \A q : IsPacket(q)' <=> IsPacket(q)
  BY <1>4, <1>5 DEF IsPacket
<1>13. PacketsAreReal'
  <2>1. IsPacket(packets[1])
    BY <1>6, <1>8 DEF ReaderInv, PacketsAreReal
  <2>2. buffer' # <<>> => IsPacket(buffer'[1])
    BY <1>4, <2>1
  <2>3. \A i \in DOMAIN newReads' : newReads'[i] # <<>> => IsPacket(newReads'[i][1])
    BY <1>9, <2>1 DEF ReaderInv, PacketsAreReal
  <2> QED  BY <1>12, <2>2, <2>3 DEF PacketsAreReal
<1>14. ErrorsAreTold'
  <2>1. errorCount # MaxErrors
    BY <1>1 DEF ReaderTypeOK, Reading, MaxErrors
  <2>2. \A i \in DOMAIN newReads : newReads[i] # <<>>
    BY <2>1 DEF ReaderInv, ErrorsAreTold
  <2>3. \A i \in DOMAIN received : received[i].of # 0
    BY <2>1 DEF ReaderInv, ErrorsAreTold
  <2> QED  BY <1>4, <1>8, <1>9, <2>2, <2>3 DEF ErrorsAreTold
<1>15. \A x : Past(x, inWrite) => (inWrite' # NotWriting => Past(x, inWrite'))
  <2>1. inWrite.of = Begun
    BY <1>1 DEF WrittenInOrder
  <2> QED  BY <1>6, <1>7, <2>1 DEF Past
<1>16. \A x : Past(x, inWrite) /\ (buffer # <<>> => Past(x, buffer[1])) => Past(x, packets[1])
  <2>1. inWrite.of = p.of /\ inWrite.from = p.from
    BY <1>1, <1>6 DEF WrittenInOrder
  <2> QED  BY <1>8, <2>1 DEF Past
<1>17. inWrite' # NotWriting => Past(packets[1], inWrite')
  <2>1. CASE buffer = <<>>
    BY <1>6, <1>7, <1>8, <2>1 DEF Past
  <2>2. CASE buffer # <<>>
    BY <1>1, <1>8, <1>15, <2>2 DEF ReaderInv, TransfersInOrder
  <2> QED  BY <2>1, <2>2
<1>18. \A q, x : Past(q, x)' <=> Past(q, x)
  BY DEF Past
<1>19. buffer' # <<>> => buffer' = packets
  BY <1>4
<1>20. TransfersInOrder'
  <2>1. \A i \in DOMAIN newReads : newReads[i] # <<>> =>
          /\ inWrite' # NotWriting => Past(newReads[i][1], inWrite')
          /\ Past(newReads[i][1], packets[1])
    BY <1>1, <1>15, <1>16 DEF ReaderInv, TransfersInOrder
  <2>2. inWrite' # NotWriting =>
          /\ buffer' # <<>> => Past(buffer'[1], inWrite')
          /\ \A i \in DOMAIN newReads' : newReads'[i] # <<>> => Past(newReads'[i][1], inWrite')
    BY <1>9, <1>17, <1>19, <2>1
  <2>3. ASSUME NEW i \in DOMAIN newReads', newReads'[i] # <<>>
        PROVE  /\ buffer' # <<>> => Past(newReads'[i][1], buffer'[1])
               /\ \A j \in DOMAIN newReads' :
                    i < j /\ newReads'[j] # <<>> => Past(newReads'[i][1], newReads'[j][1])
    <3>1. CASE i \in DOMAIN newReads
      <4>1. newReads[i] # <<>> /\ newReads'[i] = newReads[i]
        BY <1>9, <2>3, <3>1
      <4>2. Past(newReads[i][1], packets[1])
        BY <2>1, <3>1, <4>1
      <4>3. ASSUME NEW j \in DOMAIN newReads', i < j, newReads'[j] # <<>>
            PROVE  Past(newReads[i][1], newReads'[j][1])
        <5>1. CASE j \in DOMAIN newReads
          BY <1>9, <3>1, <4>1, <4>3, <5>1 DEF ReaderInv, TransfersInOrder
        <5>2. CASE newReads'[j] = packets
          BY <4>2, <5>2
        <5> QED  BY <1>9, <5>1, <5>2
      <4> QED  BY <1>19, <4>1, <4>2, <4>3
    <3>2. CASE i = Len(newReads) + 1 /\ buffer' = <<>>
      <4>1. \A j \in DOMAIN newReads' : j \in Nat /\ j <= i
        BY <1>9, <3>2
      <4>2. \A j \in DOMAIN newReads' : ~(i < j)
        BY <1>9, <3>2, <4>1
      <4> QED  BY <3>2, <4>2
    <3> QED  BY <1>9, <3>1, <3>2
  <2> QED  BY <1>18, <2>2, <2>3 DEF TransfersInOrder
<1>21. \A i : IsMessage(i)' <=> IsMessage(i)
  BY <1>4 DEF IsMessage
<1>22. ReceivedInOrder'
  <2>1. ASSUME NEW i \in DOMAIN received, IsMessage(i)
        PROVE  /\ inWrite' # NotWriting => Past(received[i], inWrite')
               /\ buffer' # <<>> => Past(received[i], buffer'[1])
               /\ \A k \in DOMAIN newReads' :
                    newReads'[k] # <<>> => Past(received[i], newReads'[k][1])
               /\ \A j \in DOMAIN received : i < j /\ IsMessage(j) => received[i].of < received[j].of
    <3>1. /\ inWrite' # NotWriting => Past(received[i], inWrite')
          /\ Past(received[i], packets[1])
      BY <1>1, <1>15, <1>16, <2>1 DEF ReaderInv, ReceivedInOrder
    <3>2. \A k \in DOMAIN newReads' :
            newReads'[k] # <<>> => Past(received[i], newReads'[k][1])
      BY <1>9, <2>1, <3>1 DEF ReaderInv, ReceivedInOrder
    <3> QED  BY <1>19, <2>1, <3>1, <3>2 DEF ReaderInv, ReceivedInOrder
  <2> QED  BY <1>4, <1>18, <1>21, <2>1 DEF ReceivedInOrder
<1>23. MadeOfLong'
  BY <1>4, <1>5, <1>21 DEF ReaderInv, MadeOfLong
<1>24. TransferBeginsAnew'
  <2>1. SUFFICES ASSUME inWrite' = NotWriting \/ inWrite'.from = 0, buffer' # <<>>
                 PROVE  /\ NextMessage' > 1
                        /\ given'[NextMessage' - 1] % PacketSize = 0
    BY DEF TransferBeginsAnew, EndsTransfer
  <2>2. inWrite' = NotWriting /\ ~(p.size < PacketSize)
    BY <1>4, <1>7, <2>1
  <2>3. given[Begun] % PacketSize = 0
    BY <1>6, <2>2
  <2>4. NextMessage' = Begun + 1 /\ NextMessage' > 1 /\ NextMessage' - 1 = Begun
    BY <1>5, <2>2 DEF NextMessage
  <2> QED  BY <1>4, <2>3, <2>4
<1>25. SafeArrive'
  <2>1. \A n : Safe(n)' <=> Safe(n)
    BY <1>4 DEF Safe, EndsTransfer
  <2>2. ASSUME NEW n \in 1..Begun, Safe(n), inWrite.of = n
        PROVE  \E i \in DOMAIN newReads' : Len(newReads'[i]) = 1 /\ newReads'[i][1].of = n
    <3>1. n = p.of /\ n = Begun /\ given[n] < PacketSize /\ given[n] \in Nat
      BY <1>1, <1>5, <1>6, <2>2, GivenType, ReaderSizes DEF WrittenInOrder, Safe
    <3>2. p.from = 0 /\ p.size < PacketSize
      BY <1>1, <1>5, <1>6, <3>1, FitsInPacket, ReaderSizes
    <3>3. buffer = <<>>
      <4>1. inWrite.from = 0
        BY <1>6, <3>2
      <4>2. NextMessage = n
        BY <1>1, <3>1 DEF NextMessage
      <4> QED  BY <2>2, <4>1, <4>2 DEF ReaderInv, TransferBeginsAnew, Safe
    <3>4. newReads' = Append(newReads, packets) /\ Len(packets) = 1 /\ packets[1].of = n
      <4>1. Len(buffer) = 0
        BY <3>3
      <4>2. newReads' = Append(newReads, packets)
        BY <1>4, <3>2
      <4>3. Len(packets) = 1
        BY <1>8, <4>1
      <4> QED  BY <1>6, <1>8, <3>1, <3>3, <4>2, <4>3
    <3>5. Len(newReads) + 1 \in DOMAIN newReads' /\ newReads'[Len(newReads) + 1] = packets
      BY <1>1, <1>8, <3>4 DEF ReaderTypeOK
    <3> QED  BY <3>4, <3>5
  <2> QED  BY <1>4, <1>5, <1>9, <2>1, <2>2 DEF ReaderInv, SafeArrive, Whole
<1> QED
  BY <1>10, <1>11, <1>13, <1>14, <1>20, <1>22, <1>23, <1>24, <1>25 DEF ReaderInv

(* Every step of the device's and the host's threads keeps the invariant. *)
LEMMA NextReaderInv == ReaderInv /\ [ReaderNext]_readerVars => ReaderInv'
<1> SUFFICES ASSUME ReaderInv, [ReaderNext]_readerVars PROVE ReaderInv'
  OBVIOUS
<1>1. CASE WriteData
  BY <1>1, WriteDataKeeps
<1>2. CASE BeginWrite
  BY <1>2, BeginWriteKeeps
<1>3. CASE WriteFails
  BY <1>3, WriteFailsKeeps
<1>4. CASE Transfer
  BY <1>4, TransferKeeps
<1>5. CASE TimesOut
  BY <1>5, TimesOutKeeps
<1>6. CASE TransferFails
  BY <1>6, TransferFailsKeeps
<1>7. CASE ReadyRead
  BY <1>7, ReadyReadKeeps
<1>8. CASE UNCHANGED readerVars
  <2>1. UNCHANGED <<given, signals, inWrite, buffer, errorCount, newReads, received, cut>>
    BY <1>8 DEF readerVars
  <2>2. ReaderTypeOK' /\ WrittenInOrder' /\ PacketsAreReal' /\ ErrorsAreTold'
    BY <2>1 DEF ReaderInv, ReaderTypeOK, WrittenInOrder, Begun, PacketsAreReal, IsPacket, ErrorsAreTold
  <2>3. TransfersInOrder' /\ ReceivedInOrder' /\ MadeOfLong'
    BY <2>1 DEF ReaderInv, TransfersInOrder, ReceivedInOrder, MadeOfLong, Past, IsMessage, Begun
  <2>4. TransferBeginsAnew' /\ SafeArrive'
    BY <2>1 DEF ReaderInv, TransferBeginsAnew, NextMessage, EndsTransfer, SafeArrive, Safe, Whole, Begun
  <2> QED  BY <2>2, <2>3, <2>4 DEF ReaderInv
<1> QED  BY <1>1, <1>2, <1>3, <1>4, <1>5, <1>6, <1>7, <1>8 DEF ReaderNext

(* A message that is not on its way any more has been begun. *)
LEMMA GoneIsBegun ==
    ASSUME ReaderTypeOK, WrittenInOrder, NEW n \in DOMAIN given, Gone(n)
    PROVE  n \in 1..Begun
<1>1. n \in Nat /\ n >= 1 /\ n <= Len(given) /\ Begun = Len(given) - Len(signals) /\ Begun \in Nat
  BY DEF ReaderTypeOK, WrittenInOrder, Begun
<1>2. ASSUME n > Begun PROVE FALSE
  <2>1. n - Begun \in DOMAIN signals
    BY <1>1, <1>2, GivenType
  <2>2. signals[n - Begun] = Begun + (n - Begun)
    BY <2>1 DEF WrittenInOrder
  <2> QED  BY <1>1, <2>1, <2>2 DEF Gone
<1> QED  BY <1>1, <1>2

(* The invariant holds of every behaviour of the two threads, for any sizes. *)
THEOREM ReaderInvariance == ReaderSpec => []ReaderInv
<1>1. ReaderInit => ReaderInv
  BY InitReaderInv
<1>2. ReaderInv /\ [ReaderNext]_readerVars => ReaderInv'
  BY NextReaderInv
<1> QED  BY <1>1, <1>2, PTL DEF ReaderSpec

(* The queues, the write and the transfer have their types. *)
THEOREM ReaderTypeCorrect == ReaderSpec => []ReaderTypeOK
<1>1. ReaderInv => ReaderTypeOK
  BY DEF ReaderInv
<1> QED  BY <1>1, ReaderInvariance, PTL

(* A message that is shorter than a packet, that no failed write or transfer has
   hit, and that comes after one that ends its transfer, is received as it is
   (usbconnectionreader.cpp:49-75, qdbtransport.cpp:70-84). *)
THEOREM OnlyLongMessagesAreLostCorrect == ReaderSpec => []OnlyLongMessagesAreLost
<1>1. ReaderInv => OnlyLongMessagesAreLost
  <2> SUFFICES ASSUME ReaderInv, NEW n \in DOMAIN given, Gone(n),
                      n \notin cut, ~(given[n] >= PacketSize), n > 1 => EndsTransfer(n - 1)
               PROVE  n \in Whole
    BY DEF OnlyLongMessagesAreLost
  <2>1. ReaderTypeOK /\ WrittenInOrder
    BY DEF ReaderInv
  <2>2. n \in 1..Begun
    BY <2>1, GoneIsBegun
  <2>3. Safe(n)
    <3>1. given[n] \in Nat
      BY <2>1, GivenType, ReaderSizes DEF ReaderTypeOK
    <3> QED  BY <3>1, ReaderSizes DEF Safe
  <2>4. n # inWrite.of /\ \A i \in DOMAIN newReads : ~InPackets(n, newReads[i])
    BY DEF Gone
  <2>5. ASSUME NEW i \in DOMAIN newReads, Len(newReads[i]) = 1, newReads[i][1].of = n
        PROVE  FALSE
    <3>1. newReads[i] \in Seq(Packets)
      BY <2>1 DEF ReaderTypeOK
    <3>2. 1 \in DOMAIN newReads[i]
      BY <2>5, <3>1
    <3> QED  BY <2>4, <2>5, <3>2 DEF InPackets
  <2> QED  BY <2>2, <2>3, <2>4, <2>5 DEF ReaderInv, SafeArrive
<1> QED  BY <1>1, ReaderInvariance, PTL

(* The host gets the device's messages in order and none twice; what it makes up,
   or finds Invalid, it makes of what is left of a message of several packets, or
   of the empty read of the fifth error (usbconnectionreader.cpp:64). *)
THEOREM MadeUpOfLongMessagesCorrect == ReaderSpec => []MadeUpOfLongMessages
<1>1. ReaderInv => MadeUpOfLongMessages
  <2> SUFFICES ASSUME ReaderInv PROVE MadeUpOfLongMessages
    OBVIOUS
  <2>1. \A i, j \in DOMAIN received :
          i < j /\ received[i].as = "message" /\ received[j].as = "message"
            => received[i].of < received[j].of
    BY DEF ReaderInv, ReceivedInOrder, IsMessage
  <2>2. \A i \in DOMAIN received :
          received[i].as # "message" =>
            IF received[i].of = 0 THEN errorCount = MaxErrors /\ i = Len(received)
            ELSE given[received[i].of] > PacketSize
    BY DEF ReaderInv, ErrorsAreTold, MadeOfLong, IsMessage
  <2> QED  BY <2>1, <2>2 DEF MadeUpOfLongMessages
<1> QED  BY <1>1, ReaderInvariance, PTL
-----------------------------------------------------------------------------
(* What a read holds. *)

(* Where the next packet is from, whether its message is begun or not. *)
NextUp == IF inWrite = NotWriting THEN [of |-> Begun + 1, from |-> 0] ELSE inWrite

(* Packet q comes next after the full packet p: it goes on with its message, or begins
   a later one when that is over, and of those between them nothing was written. *)
Follows(p, q) ==
    \/ q.of = p.of /\ q.from = p.from + PacketSize
    \/ /\ p.of < q.of /\ q.from = 0
       /\ p.from + p.size = given[p.of] \/ p.of \in cut
       /\ \A n \in p.of + 1..q.of - 1 : n \in cut

(* Packets that have come one after the other, all of them full but perhaps the last. *)
IsRun(packets) ==
    /\ \A i \in DOMAIN packets : packets[i].of \in DOMAIN given
    /\ \A i \in DOMAIN packets : i < Len(packets) =>
         packets[i].size = PacketSize /\ Follows(packets[i], packets[i + 1])
    /\ \A i, j \in DOMAIN packets : i < j =>
         \/ packets[i].of < packets[j].of
         \/ /\ packets[i].of = packets[j].of
            /\ packets[j].from = packets[i].from + (j - i) * PacketSize

(* The transfer is not over, so its packets are full, and the next one goes on with it. *)
BufferIsOpen ==
    /\ IsRun(buffer)
    /\ buffer # <<>> =>
         buffer[Len(buffer)].size = PacketSize /\ Follows(buffer[Len(buffer)], NextUp)
    /\ Len(buffer) * PacketSize < MessageSize

ReadsAreRuns ==
    \A i \in DOMAIN newReads : IsRun(newReads[i]) /\ Size(newReads[i]) <= MessageSize

RunsInv == ReaderInv /\ BufferIsOpen /\ ReadsAreRuns

(* All the packets of one message, and in their order. *)
HasWholeMessage(read) ==
    \E k \in DOMAIN read : \A i \in 1..k :
        /\ read[i].of = read[1].of
        /\ read[i].from = (i - 1) * PacketSize
        /\ read[i].size = IF i < k THEN PacketSize ELSE given[read[1].of] - read[i].from

(* No step takes back what a run depends on. *)
LEMMA RunsStay ==
    ASSUME ReaderTypeOK, [ReaderNext]_readerVars
    PROVE  /\ \A p, q : p.of \in DOMAIN given /\ Follows(p, q) => Follows(p, q)'
           /\ \A r : IsRun(r) => IsRun(r)'
<1>1. cut \subseteq cut'
  BY DEF ReaderNext, readerVars, WriteData, BeginWrite, WriteFails, Transfer, TimesOut, TransferFails, ReadyRead
<1>2. \A n \in DOMAIN given : n \in DOMAIN given' /\ given'[n] = given[n]
  <2>1. CASE WriteData
    BY <2>1 DEF WriteData, ReaderTypeOK
  <2>2. CASE ~WriteData
    BY <2>2 DEF ReaderNext, readerVars, BeginWrite, WriteFails, Transfer, TimesOut, TransferFails, ReadyRead
  <2> QED  BY <2>1, <2>2
<1>3. ASSUME NEW p, NEW q, p.of \in DOMAIN given, Follows(p, q) PROVE Follows(p, q)'
  BY <1>1, <1>2, <1>3 DEF Follows
<1>4. ASSUME NEW r, IsRun(r) PROVE IsRun(r)'
  <2>1. \A i \in DOMAIN r : r[i].of \in DOMAIN given'
    BY <1>2, <1>4 DEF IsRun
  <2>2. \A i \in DOMAIN r : i < Len(r) => r[i].size = PacketSize /\ Follows(r[i], r[i + 1])'
    BY <1>3, <1>4 DEF IsRun
  <2>3. \A i, j \in DOMAIN r : i < j =>
          \/ r[i].of < r[j].of
          \/ r[i].of = r[j].of /\ r[j].from = r[i].from + (j - i) * PacketSize
    BY <1>4 DEF IsRun
  <2> QED  BY <2>1, <2>2, <2>3 DEF IsRun
<1> QED  BY <1>3, <1>4

(* Nothing at all is a run. *)
LEMMA EmptyRun == IsRun(<<>>) /\ Size(<<>>) <= MessageSize /\ Len(<<>>) * PacketSize < MessageSize
<1>1. IsRun(<<>>)
  BY DEF IsRun
<1>2. Size(<<>>) <= MessageSize
  BY ReaderSizes DEF Size
<1>3. Len(<<>>) * PacketSize = 0
  BY ReaderSizes
<1> QED  BY <1>1, <1>2, <1>3, ReaderSizes

(* A run goes on with a packet that follows its last one. *)
LEMMA RunGoesOn ==
    ASSUME NEW r \in Seq(Packets), IsRun(r), NEW p \in Packets, p.of \in DOMAIN given,
           r # <<>> => r[Len(r)].size = PacketSize /\ Follows(r[Len(r)], p)
    PROVE  IsRun(Append(r, p))
<1> DEFINE s == Append(r, p)
<1> PICK l \in Nat : l = Len(r)
  OBVIOUS
<1>1. /\ s \in Seq(Packets) /\ Len(s) = l + 1 /\ s[l + 1] = p
      /\ DOMAIN s = 1..l + 1 /\ DOMAIN r = 1..l /\ \A i \in 1..l : s[i] = r[i] /\ r[i] \in Packets
  OBVIOUS
<1> HIDE DEF s
<1>2. \A q \in Packets : q.of \in Nat /\ q.from \in Nat
  BY ReaderSizes DEF Packets, Numbers
<1>3. \A i \in DOMAIN s : s[i].of \in DOMAIN given
  BY <1>1 DEF IsRun
<1>4. l > 0 => r[l].size = PacketSize /\ Follows(r[l], p)
  BY <1>1
<1>5. \A i \in DOMAIN s : i < Len(s) => s[i].size = PacketSize /\ Follows(s[i], s[i + 1])
  <2> SUFFICES ASSUME NEW i \in 1..l PROVE s[i].size = PacketSize /\ Follows(s[i], s[i + 1])
    BY <1>1
  <2>1. CASE i = l
    BY <1>1, <1>4, <2>1
  <2>2. CASE i < l
    <3>1. i + 1 \in 1..l /\ i \in DOMAIN r /\ i < Len(r)
      BY <1>1, <2>2
    <3>2. r[i].size = PacketSize /\ Follows(r[i], r[i + 1])
      BY <3>1 DEF IsRun
    <3> QED  BY <1>1, <3>1, <3>2
  <2> QED  BY <2>1, <2>2
<1>6. ASSUME NEW i \in DOMAIN s, NEW j \in DOMAIN s, i < j
      PROVE  \/ s[i].of < s[j].of
             \/ s[i].of = s[j].of /\ s[j].from = s[i].from + (j - i) * PacketSize
  <2>1. CASE j <= l
    BY <1>1, <1>6, <2>1 DEF IsRun
  <2>2. CASE j = l + 1
    <3>1. i \in 1..l /\ l \in 1..l /\ s[j] = p /\ s[i] = r[i]
      BY <1>1, <1>6, <2>2
    <3>2. r[l].of < p.of \/ (r[l].of = p.of /\ p.from = r[l].from + PacketSize)
      BY <1>4, <3>1 DEF Follows
    <3>3. i = l \/ r[i].of < r[l].of \/ (r[i].of = r[l].of /\ r[l].from = r[i].from + (l - i) * PacketSize)
      BY <1>1, <3>1 DEF IsRun
    <3>4. (j - i) * PacketSize = (l - i) * PacketSize + PacketSize
      <4>1. j - i = (l - i) + 1 /\ l - i \in Nat
        BY <2>2, <3>1
      <4>2. \A d \in Nat : (d + 1) * PacketSize = d * PacketSize + PacketSize
        BY ReaderSizes
      <4> QED  BY <4>1, <4>2
    <3>5. i = l => (l - i) * PacketSize = 0
      BY <3>1, ReaderSizes
    <3>6. (l - i) * PacketSize \in Nat
      <4>1. l - i \in Nat
        BY <3>1
      <4> QED  BY <4>1, ReaderSizes
    <3>7. r[i].of \in Nat /\ r[l].of \in Nat /\ p.of \in Nat /\ r[i].from \in Nat /\ r[l].from \in Nat
      BY <1>1, <1>2, <3>1
    <3>8. CASE i = l
      BY <3>1, <3>2, <3>4, <3>5, <3>7, <3>8, ReaderSizes
    <3>9. CASE i # l
      BY <3>1, <3>2, <3>3, <3>4, <3>6, <3>7, <3>9, ReaderSizes
    <3> QED  BY <3>8, <3>9
  <2> QED  BY <1>1, <2>1, <2>2
<1> QED  BY <1>3, <1>5, <1>6 DEF IsRun, s

(* A full packet leaves room for another, or none. *)
LEMMA RoomForPacket ==
    ASSUME NEW l \in Nat, l * PacketSize < MessageSize
    PROVE  l * PacketSize + PacketSize <= MessageSize /\ (l + 1) * PacketSize = l * PacketSize + PacketSize
<1> DEFINE P == PacketSize
           M == MessageSize
           K == M \div P
<1>1. P \in Nat \ {0} /\ M \in Nat /\ M % P = 0
  BY SizesAssumption
<1> HIDE DEF P, M
<1>2. M = P * K /\ K \in Nat
  BY <1>1
<1> HIDE DEF K
<1>3. ASSUME K <= l PROVE FALSE
  <2>1. P * K <= l * P
    BY <1>1, <1>2, <1>3
  <2> QED  BY <1>1, <1>2, <2>1 DEF P, M
<1>4. (l + 1) * P <= P * K
  BY <1>1, <1>2, <1>3
<1>5. (l + 1) * P = l * P + P
  BY <1>1
<1> QED  BY <1>2, <1>4, <1>5 DEF P, M

(* What a packet of the transfer adds: it goes on, or a read is complete. *)
LEMMA TransferRuns ==
    ASSUME RunsInv, Transfer
    PROVE  BufferIsOpen' /\ ReadsAreRuns'
<1>1. ReaderTypeOK /\ WrittenInOrder /\ inWrite # NotWriting
  BY DEF RunsInv, ReaderInv, Transfer
<1>2. PICK p : p = NextPacket
  OBVIOUS
<1>3. PICK packets : packets = Append(buffer, p)
  OBVIOUS
<1>4. /\ inWrite' = AfterPacket(p)
      /\ \/ buffer' = <<>> /\ newReads' = Append(newReads, packets)
         \/ /\ ~(p.size < PacketSize) /\ Size(packets) # MessageSize
            /\ buffer' = packets /\ newReads' = newReads
      /\ UNCHANGED <<given, signals, received, cut>>
  BY <1>2, <1>3 DEF Transfer
<1>5. Begun' = Begun /\ Begun \in Nat /\ Begun <= Len(given) /\ Begun >= 1 /\ Begun \in DOMAIN given
  <2>1. /\ Begun' = Begun /\ Begun \in Nat /\ Begun = Len(given) - Len(signals) /\ Begun >= 1
    BY <1>1, <1>4 DEF Begun, WrittenInOrder
  <2>2. DOMAIN given = 1..Len(given)
    BY <1>1 DEF ReaderTypeOK
  <2> QED  BY <1>1, <2>1, <2>2, GivenType
<1>6. /\ p \in Packets /\ p.of = Begun /\ p.from = inWrite.from /\ p.size \in 1..PacketSize
      /\ inWrite' # NotWriting => inWrite'.of = Begun /\ inWrite'.from = p.from + PacketSize
      /\ inWrite' = NotWriting => p.size = given[Begun] - p.from
  <2>1. p \in Packets /\ p.of = Begun /\ p.from = inWrite.from
    BY <1>1, <1>2, <1>5, NextPacketIsReal
  <2>2. p.size \in 1..PacketSize
    BY <2>1 DEF Packets
  <2>3. /\ inWrite' # NotWriting => inWrite'.of = Begun /\ inWrite'.from = p.from + PacketSize
        /\ inWrite' = NotWriting => p.size = given[Begun] - p.from
    BY <1>1, <1>2, <1>4, <1>5, NextPacketIsReal
  <2> QED  BY <2>1, <2>2, <2>3
<1>7. \A q : Follows(q, p) <=> Follows(q, inWrite)
  <2>1. inWrite.of = p.of /\ inWrite.from = p.from
    BY <1>1, <1>6 DEF WrittenInOrder
  <2> QED  BY <2>1 DEF Follows
<1> PICK l \in Nat : l = Len(buffer)
  BY <1>1 DEF ReaderTypeOK
<1>8. /\ buffer \in Seq(Packets) /\ packets \in Seq(Packets) /\ packets # <<>>
      /\ Len(packets) = l + 1 /\ packets[l + 1] = p
  BY <1>1, <1>3, <1>6 DEF ReaderTypeOK
<1>9. IsRun(packets)
  <2>1. buffer # <<>> => buffer[l].size = PacketSize /\ Follows(buffer[l], p)
    BY <1>1, <1>7 DEF RunsInv, BufferIsOpen, NextUp
  <2> QED  BY <1>3, <1>5, <1>6, <1>8, <2>1, RunGoesOn DEF RunsInv, BufferIsOpen
<1>10. /\ l * PacketSize + PacketSize <= MessageSize
       /\ (l + 1) * PacketSize = l * PacketSize + PacketSize
       /\ l * PacketSize \in Nat
  <2>1. l * PacketSize < MessageSize
    BY DEF RunsInv, BufferIsOpen
  <2> QED  BY <2>1, RoomForPacket, ReaderSizes
<1>11. Size(packets) = l * PacketSize + p.size /\ Size(packets) <= MessageSize
  <2>1. (l + 1) - 1 = l
    OBVIOUS
  <2>2. Size(packets) = l * PacketSize + p.size
    BY <1>8, <2>1 DEF Size
  <2> QED  BY <1>6, <1>10, <2>2, ReaderSizes
<1>12. \A r : IsRun(r) => IsRun(r)'
  BY <1>1, RunsStay DEF ReaderNext
<1>13. ReadsAreRuns'
  <2>1. \A i \in DOMAIN newReads' :
           (i \in DOMAIN newReads /\ newReads'[i] = newReads[i]) \/ newReads'[i] = packets
    <3>1. newReads \in Seq(Seq(Packets))
      BY <1>1 DEF ReaderTypeOK
    <3>2. CASE newReads' = Append(newReads, packets)
      BY <1>8, <3>1, <3>2
    <3> QED  BY <1>4, <3>2
  <2>2. \A i \in DOMAIN newReads' : IsRun(newReads'[i]) /\ Size(newReads'[i]) <= MessageSize
    BY <1>9, <1>11, <2>1 DEF RunsInv, ReadsAreRuns
  <2> QED  BY <1>12, <2>2 DEF ReadsAreRuns, Size
<1>14. BufferIsOpen'
  <2>1. CASE buffer' = <<>>
    BY <1>12, <2>1, EmptyRun DEF BufferIsOpen
  <2>2. CASE /\ ~(p.size < PacketSize) /\ Size(packets) # MessageSize /\ buffer' = packets
    <3>1. p.size = PacketSize
      BY <1>6, <2>2, ReaderSizes
    <3>2. (l + 1) * PacketSize < MessageSize
      BY <1>10, <1>11, <2>2, <3>1, ReaderSizes
    <3>3. Follows(p, NextUp')
      <4>1. CASE inWrite' # NotWriting
        BY <1>6, <4>1 DEF Follows, NextUp
      <4>2. CASE inWrite' = NotWriting
        <5>1. NextUp'.of = Begun + 1 /\ NextUp'.from = 0
          BY <1>5, <4>2 DEF NextUp
        <5>2. p.from + p.size = given[p.of]
          <6>1. p.from \in Nat /\ given[Begun] \in Nat /\ p.size = given[Begun] - p.from
            BY <1>1, <1>5, <1>6, <4>2, GivenType, ReaderSizes DEF Packets
          <6>2. p.from + p.size = given[Begun]
            BY <6>1
          <6> QED  BY <1>6, <6>2
        <5>3. p.of < NextUp'.of /\ \A n \in p.of + 1..NextUp'.of - 1 : n \in cut
          BY <1>5, <1>6, <5>1
        <5> QED  BY <5>1, <5>2, <5>3 DEF Follows
      <4> QED  BY <4>1, <4>2
    <3> QED  BY <1>4, <1>8, <1>9, <1>12, <2>2, <3>1, <3>2, <3>3 DEF BufferIsOpen, Follows
  <2> QED  BY <1>4, <2>1, <2>2
<1> QED  BY <1>13, <1>14

(* The other steps of the device do not touch the transfer, and the write that
   begins is the next one. *)
LEMMA DeviceRuns ==
    ASSUME RunsInv, WriteData \/ BeginWrite \/ WriteFails
    PROVE  BufferIsOpen' /\ ReadsAreRuns'
<1>1. ReaderTypeOK /\ WrittenInOrder /\ UNCHANGED <<buffer, newReads>>
  BY DEF RunsInv, ReaderInv, WriteData, BeginWrite, WriteFails
<1>2. /\ \A p, q : p.of \in DOMAIN given /\ Follows(p, q) => Follows(p, q)'
      /\ \A r : IsRun(r) => IsRun(r)'
  BY <1>1, RunsStay DEF ReaderNext
<1>3. ReadsAreRuns'
  BY <1>1, <1>2 DEF RunsInv, ReadsAreRuns, Size
<1>4. Begun \in Nat
  BY <1>1 DEF WrittenInOrder
<1>5. CASE WriteData \/ BeginWrite
  <2>1. NextUp' = NextUp
    <3>1. CASE WriteData
      <4>1. Len(given') = Len(given) + 1 /\ Len(signals') = Len(signals) + 1 /\ inWrite' = inWrite
        BY <1>1, <3>1 DEF WriteData, ReaderTypeOK
      <4>2. Begun' = Begun
        BY <1>1, <4>1, GivenType DEF Begun
      <4> QED  BY <4>1, <4>2 DEF NextUp
    <3>2. CASE BeginWrite
      <4>1. Head(signals) = Begun + 1
        BY <1>1, <3>2 DEF BeginWrite, ReaderTypeOK, WrittenInOrder
      <4>2. inWrite = NotWriting /\ inWrite' = [of |-> Begun + 1, from |-> 0] /\ inWrite' # NotWriting
        BY <1>4, <3>2, <4>1 DEF BeginWrite, NotWriting
      <4> QED  BY <4>2 DEF NextUp
    <3> QED  BY <1>5, <3>1, <3>2
  <2>2. ASSUME buffer # <<>>
        PROVE  buffer[Len(buffer)].size = PacketSize /\ Follows(buffer[Len(buffer)], NextUp)'
    <3>1. Len(buffer) \in DOMAIN buffer
      BY <1>1, <2>2 DEF ReaderTypeOK
    <3>2. buffer[Len(buffer)].of \in DOMAIN given
      BY <3>1 DEF RunsInv, BufferIsOpen, IsRun
    <3> QED  BY <1>1, <1>2, <2>1, <2>2, <3>2 DEF RunsInv, BufferIsOpen
  <2> QED  BY <1>1, <1>2, <1>3, <2>2 DEF RunsInv, BufferIsOpen
<1>6. CASE WriteFails
  <2>1. /\ inWrite # NotWriting /\ inWrite' = NotWriting /\ cut' = cut \cup {inWrite.of}
        /\ UNCHANGED <<given, signals>>
    BY <1>6 DEF WriteFails
  <2>2. Begun' = Begun /\ inWrite.of = Begun /\ Begun >= 1
    BY <1>1, <2>1 DEF Begun, WrittenInOrder
  <2>3. NextUp = inWrite /\ NextUp' = [of |-> Begun + 1, from |-> 0]
    BY <2>1, <2>2 DEF NextUp
  <2>4. ASSUME buffer # <<>>
        PROVE  buffer[Len(buffer)].size = PacketSize /\ Follows(buffer[Len(buffer)], NextUp)'
    <3>1. PICK last : last = buffer[Len(buffer)]
      OBVIOUS
    <3>2. last.size = PacketSize /\ Follows(last, inWrite)
      BY <2>3, <2>4, <3>1 DEF RunsInv, BufferIsOpen
    <3>3. last \in Packets /\ last.of \in Nat
      <4>1. last \in Packets
        BY <1>1, <2>4, <3>1 DEF ReaderTypeOK
      <4> QED  BY <4>1 DEF Packets, Numbers
    <3>4. Follows(last, NextUp)'
      <4>1. last.of < Begun + 1 /\ (last.from + last.size = given[last.of] \/ last.of \in cut')
        BY <1>4, <2>1, <2>2, <3>2, <3>3 DEF Follows
      <4>2. \A n \in last.of + 1..Begun : n \in cut'
        BY <1>4, <2>1, <2>2, <3>2, <3>3 DEF Follows
      <4>3. (Begun + 1) - 1 = Begun
        BY <1>4
      <4> QED  BY <2>1, <2>3, <4>1, <4>2, <4>3 DEF Follows
    <3> QED  BY <1>1, <3>1, <3>2, <3>4
  <2> QED  BY <1>1, <1>2, <1>3, <2>4 DEF RunsInv, BufferIsOpen
<1> QED  BY <1>5, <1>6

(* A transfer that ends with nothing told, or with the empty read of the fifth error. *)
LEMMA DroppedRuns ==
    ASSUME RunsInv, TimesOut \/ TransferFails
    PROVE  BufferIsOpen' /\ ReadsAreRuns'
<1>1. /\ ReaderTypeOK /\ buffer' = <<>>
      /\ newReads' = newReads \/ newReads' = Append(newReads, <<>>)
  BY DEF RunsInv, ReaderInv, TimesOut, TransferFails
<1>2. \A r : IsRun(r) => IsRun(r)'
  BY <1>1, RunsStay DEF ReaderNext
<1>3. BufferIsOpen'
  BY <1>1, <1>2, EmptyRun DEF BufferIsOpen
<1>4. \A i \in DOMAIN newReads' :
         (i \in DOMAIN newReads /\ newReads'[i] = newReads[i]) \/ newReads'[i] = <<>>
  <2>1. newReads \in Seq(Seq(Packets)) /\ <<>> \in Seq(Packets)
    BY <1>1 DEF ReaderTypeOK
  <2> QED  BY <1>1, <2>1
<1>5. \A i \in DOMAIN newReads' : IsRun(newReads'[i]) /\ Size(newReads'[i]) <= MessageSize
  BY <1>4, EmptyRun DEF RunsInv, ReadsAreRuns
<1> QED  BY <1>2, <1>3, <1>5 DEF ReadsAreRuns, Size

(* The main thread takes a read away. *)
LEMMA ReadyReadRuns ==
    ASSUME RunsInv, ReadyRead
    PROVE  BufferIsOpen' /\ ReadsAreRuns'
<1>1. /\ ReaderTypeOK /\ newReads # <<>> /\ newReads' = Tail(newReads)
      /\ UNCHANGED <<given, signals, inWrite, buffer, errorCount, cut>>
  BY DEF RunsInv, ReaderInv, ReadyRead
<1>2. \A r : IsRun(r) => IsRun(r)'
  BY <1>1, RunsStay DEF ReaderNext
<1>3. \A i \in DOMAIN newReads' : i + 1 \in DOMAIN newReads /\ newReads'[i] = newReads[i + 1]
  BY <1>1 DEF ReaderTypeOK
<1>4. ReadsAreRuns'
  BY <1>2, <1>3 DEF RunsInv, ReadsAreRuns, Size
<1>5. BufferIsOpen'
  BY <1>1, <1>2 DEF RunsInv, BufferIsOpen, Follows, NextUp, Begun
<1> QED  BY <1>4, <1>5

(* Open transfers and reads are runs of packets in every reachable state. *)
THEOREM RunsInvariance == ReaderSpec => []RunsInv
<1>1. ReaderInit => RunsInv
  <2>1. ReaderInit => BufferIsOpen /\ ReadsAreRuns
    BY EmptyRun DEF ReaderInit, BufferIsOpen, ReadsAreRuns
  <2> QED  BY <2>1, InitReaderInv DEF RunsInv
<1>2. RunsInv /\ [ReaderNext]_readerVars => RunsInv'
  <2> SUFFICES ASSUME RunsInv, [ReaderNext]_readerVars PROVE BufferIsOpen' /\ ReadsAreRuns'
    BY NextReaderInv DEF RunsInv
  <2>1. CASE UNCHANGED readerVars
    <3>1. UNCHANGED <<given, signals, inWrite, buffer, errorCount, newReads, received, cut>>
      BY <2>1 DEF readerVars
    <3> QED
      BY <3>1 DEF RunsInv, BufferIsOpen, ReadsAreRuns, IsRun, Follows, NextUp, Begun, Size
  <2> QED
    BY <2>1, DeviceRuns, TransferRuns, DroppedRuns, ReadyReadRuns DEF ReaderNext
<1> QED  BY <1>1, <1>2, PTL DEF ReaderSpec

(* A read that begins with a message has all of it. *)
LEMMA RunHasWholeMessage ==
    ASSUME NEW r \in Seq(Packets), r # <<>>, IsRun(r), BeginsWithMessage(r)
    PROVE  HasWholeMessage(r)
<1>1. PICK k \in DOMAIN r : r[k].of = r[1].of /\ r[k].from + r[k].size = given[r[k].of]
  BY DEF BeginsWithMessage
<1>2. /\ r[1].from = 0 /\ k \in Nat /\ k <= Len(r) /\ 1 \in DOMAIN r /\ DOMAIN r = 1..Len(r)
      /\ Len(r) \in Nat /\ 1..k \subseteq DOMAIN r
  BY <1>1 DEF BeginsWithMessage
<1>3. \A i \in DOMAIN r : r[i].of \in Nat /\ r[i].from \in Nat /\ r[i].size \in Nat
  <2>1. \A i \in DOMAIN r : r[i] \in Packets
    OBVIOUS
  <2> QED  BY <2>1, ReaderSizes DEF Packets, Numbers
<1>4. ASSUME NEW i \in 1..k
      PROVE  /\ r[i].of = r[1].of /\ r[i].from = (i - 1) * PacketSize
             /\ r[i].size = IF i < k THEN PacketSize ELSE given[r[1].of] - r[i].from
  <2>1. i \in DOMAIN r /\ i \in Nat /\ i >= 1
    BY <1>2
  <2>2. i # 1 => r[1].of < r[i].of \/ (r[1].of = r[i].of /\ r[i].from = r[1].from + (i - 1) * PacketSize)
    BY <1>2, <2>1 DEF IsRun
  <2>3. i # k => r[i].of < r[k].of \/ r[i].of = r[k].of
    BY <1>1, <1>2, <2>1 DEF IsRun
  <2>4. r[i].of = r[1].of
    BY <1>1, <1>2, <1>3, <2>1, <2>2, <2>3
  <2>5. r[i].from = (i - 1) * PacketSize
    <3>1. CASE i = 1
      BY <1>2, <3>1, ReaderSizes
    <3>2. CASE i # 1
      <4>1. i - 1 \in Nat /\ (i - 1) * PacketSize \in Nat
        BY <2>1, ReaderSizes
      <4> QED  BY <1>2, <1>3, <2>1, <2>2, <2>4, <3>2, <4>1
    <3> QED  BY <3>1, <3>2
  <2>6. i < k => r[i].size = PacketSize
    BY <1>2, <2>1 DEF IsRun
  <2>7. i = k => r[i].size = given[r[1].of] - r[i].from
    BY <1>1, <1>3, <2>1
  <2> QED  BY <2>1, <2>4, <2>5, <2>6, <2>7
<1> QED  BY <1>1, <1>4 DEF HasWholeMessage

(* Whatever failures, timeouts and open transfers came before: a read from which
   receive() takes a message of the device has all the packets of that message, in
   their order and from its beginning (qdbtransport.cpp:74-84). *)
THEOREM TakenMessagesAreWhole ==
    ReaderSpec => [](\A i \in DOMAIN newReads :
                       Receive(newReads[i]).as = "message" => HasWholeMessage(newReads[i]))
<1>1. RunsInv => \A i \in DOMAIN newReads :
                   Receive(newReads[i]).as = "message" => HasWholeMessage(newReads[i])
  <2> SUFFICES ASSUME RunsInv, NEW i \in DOMAIN newReads, Receive(newReads[i]).as = "message"
               PROVE  HasWholeMessage(newReads[i])
    OBVIOUS
  <2>1. newReads[i] \in Seq(Packets) /\ IsRun(newReads[i])
    BY DEF RunsInv, ReaderInv, ReaderTypeOK, ReadsAreRuns
  <2>2. newReads[i] # <<>> /\ BeginsWithMessage(newReads[i])
    <3>1. ~(Size(newReads[i]) < HeaderSize) /\ BeginsWithMessage(newReads[i])
      BY DEF Receive
    <3> QED  BY <3>1, ReaderSizes DEF Size
  <2> QED  BY <2>1, <2>2, RunHasWholeMessage
<1> QED  BY <1>1, RunsInvariance, PTL

(* The device's packets never overrun the buffer of executeRead(), not when messages
   that fill their last packet are read in one transfer either: there is room for a
   whole packet in it while a transfer is open (usbconnectionreader.cpp:55-57). *)
THEOREM TransfersFitBuffer ==
    ReaderSpec => [](/\ Len(buffer) * PacketSize + PacketSize <= MessageSize
                     /\ \A i \in DOMAIN newReads : Size(newReads[i]) <= MessageSize)
<1>1. RunsInv => /\ Len(buffer) * PacketSize + PacketSize <= MessageSize
                 /\ \A i \in DOMAIN newReads : Size(newReads[i]) <= MessageSize
  <2> SUFFICES ASSUME RunsInv PROVE Len(buffer) * PacketSize + PacketSize <= MessageSize
    BY DEF RunsInv, ReadsAreRuns
  <2>1. Len(buffer) \in Nat /\ Len(buffer) * PacketSize < MessageSize
    BY DEF RunsInv, ReaderInv, ReaderTypeOK, BufferIsOpen
  <2> QED  BY <2>1, RoomForPacket
<1> QED  BY <1>1, RunsInvariance, PTL
=============================================================================
