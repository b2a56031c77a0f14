---------------------------- MODULE QueuesProofs ----------------------------
(* What the operations of Queues return, for every queue, and how a queue of
   messages looks when one is added, taken or dropped: what it holds, how often,
   and in which order. *)
EXTENDS QdbMessages, FiniteSetTheorems, SequenceTheorems, TLAPS

(* Nth picks a member of every non-empty set. *)
LEMMA NthIsMember ==
    ASSUME NEW S, S # {}, NEW k
    PROVE  Nth(S, k) \in S
<1>1. \E i \in S : (\E j \in S : Rank(S, j) = k) => Rank(S, i) = k
  <2>1. CASE \E j \in S : Rank(S, j) = k
    BY <2>1
  <2>2. CASE ~ \E j \in S : Rank(S, j) = k
    BY <2>2
  <2> QED  BY <2>1, <2>2
<1> QED  BY <1>1 DEF Nth

(* Purging a queue (connection.cpp:313-318, server.cpp:257-262) or a list
   (hostserver.cpp:122-127) leaves only members that were kept, and nothing of
   a queue of which nothing is kept. *)
LEMMA KeepAtKeeps ==
    ASSUME NEW T, NEW q \in Seq(T), NEW S \in SUBSET DOMAIN q
    PROVE  /\ KeepAt(q, S) \in Seq(T)
           /\ \A k \in DOMAIN KeepAt(q, S) : \E i \in S : KeepAt(q, S)[k] = q[i]
           /\ S = {} => KeepAt(q, S) = <<>>
<1>1. IsFiniteSet(S)
  <2>1. DOMAIN q = 1..Len(q) /\ Len(q) \in Nat
    OBVIOUS
  <2>2. IsFiniteSet(1..Len(q))
    BY <2>1, FS_Interval
  <2> QED  BY <2>1, <2>2, FS_Subset
<1>2. Cardinality(S) \in Nat
  BY <1>1, FS_CardinalityType
<1>3. Cardinality(S) = 0 <=> S = {}
  BY <1>1, FS_EmptySet
<1>4. ASSUME NEW k \in 1..Cardinality(S)
      PROVE  Nth(S, k) \in S
  BY <1>2, <1>3, NthIsMember
<1>5. KeepAt(q, S) = [k \in 1..Cardinality(S) |-> q[Nth(S, k)]]
  BY DEF KeepAt
<1>6. KeepAt(q, S) \in [1..Cardinality(S) -> T]
  BY <1>4, <1>5
<1>7. KeepAt(q, S) \in Seq(T)
  BY <1>2, <1>6
<1>8. ASSUME NEW k \in DOMAIN KeepAt(q, S)
      PROVE  \E i \in S : KeepAt(q, S)[k] = q[i]
  BY <1>4, <1>5
<1>9. S = {} => KeepAt(q, S) = <<>>
  <2>1. SUFFICES ASSUME S = {} PROVE KeepAt(q, S) = <<>>
    OBVIOUS
  <2>2. 1..Cardinality(S) = {}
    BY <2>1, <1>3
  <2>3. Len(KeepAt(q, S)) = 0
    BY <1>5, <1>7, <2>2, <1>2, <2>1, <1>3
  <2> QED  BY <2>3, <1>7
<1> QED  BY <1>7, <1>8, <1>9

(* Nth(S, k) is the member of S that k of its members do not exceed. *)
LEMMA NthHasRank ==
    ASSUME NEW S \in SUBSET Nat, IsFiniteSet(S), NEW k \in 1..Cardinality(S)
    PROVE  Nth(S, k) \in S /\ Rank(S, Nth(S, k)) = k
<1> DEFINE N == Cardinality(S)
           f == [i \in S |-> Rank(S, i)]
<1>1. N \in Nat /\ IsFiniteSet(1..N) /\ Cardinality(1..N) = N
  BY FS_CardinalityType, FS_Interval
<1>2. ASSUME NEW i \in S
      PROVE  Rank(S, i) \in 1..N
  <2> DEFINE A == {j \in S : j <= i}
  <2>1. A \in SUBSET S /\ i \in A
    OBVIOUS
  <2> HIDE DEF A
  <2>2. IsFiniteSet(A) /\ Cardinality(A) <= N /\ Cardinality(A) \in Nat
    BY <2>1, FS_Subset, FS_CardinalityType
  <2>3. Cardinality(A) # 0
    BY <2>1, <2>2, FS_EmptySet
  <2>4. Rank(S, i) = Cardinality(A)
    BY DEF Rank, A
  <2> QED  BY <1>1, <2>2, <2>3, <2>4
<1>3. ASSUME NEW i \in S, NEW j \in S, i < j
      PROVE  Rank(S, i) # Rank(S, j)
  <2> DEFINE A == {n \in S : n <= i}
             B == {n \in S : n <= j}
  <2>1. A \in SUBSET B /\ B \in SUBSET S /\ j \in B /\ j \notin A
    <3>1. i \in Nat /\ j \in Nat /\ j <= j /\ ~(j <= i)
      BY <1>3
    <3>2. \A n \in S : n \in Nat /\ (n <= i => n <= j)
      BY <1>3
    <3>3. A \subseteq B
      BY <3>2
    <3> QED  BY <3>1, <3>3
  <2> HIDE DEF A, B
  <2>2. IsFiniteSet(B)
    BY <2>1, FS_Subset
  <2>3. Cardinality(A) = Cardinality(B) => A = B
    BY <2>1, <2>2, FS_Subset
  <2>4. Rank(S, i) = Cardinality(A) /\ Rank(S, j) = Cardinality(B)
    BY DEF Rank, A, B
  <2> QED  BY <2>1, <2>3, <2>4
<1>4. f \in Injection(S, 1..N)
  <2>1. f \in [S -> 1..N]
    BY <1>2
  <2>2. \A i, j \in S : f[i] = f[j] => i = j
    <3>1. SUFFICES ASSUME NEW i \in S, NEW j \in S, i # j PROVE f[i] # f[j]
      OBVIOUS
    <3>2. i < j \/ j < i
      BY <3>1
    <3> QED  BY <1>3, <3>2
  <2> HIDE DEF f
  <2> QED  BY <2>1, <2>2 DEF Injection, IsInjective
<1> HIDE DEF f
<1>5. f \in Surjection(S, 1..N)
  BY <1>1, <1>4, FS_Injection
<1>6. \E j \in S : Rank(S, j) = k
  <2>1. PICK j \in S : f[j] = k
    BY <1>5 DEF Surjection
  <2> QED  BY <2>1 DEF f
<1> QED  BY <1>6 DEF Nth

(* No two positions of what is kept come from the same one. *)
LEMMA NthIsOneToOne ==
    ASSUME NEW S \in SUBSET Nat, IsFiniteSet(S),
           NEW k \in 1..Cardinality(S), NEW l \in 1..Cardinality(S), Nth(S, k) = Nth(S, l)
    PROVE  k = l
BY NthHasRank
-----------------------------------------------------------------------------
Holds(q, command) == \E i \in DOMAIN q : q[i].command = command

Has(q, m) == \E i \in DOMAIN q : q[i] = m

Positions(q, S) == {i \in DOMAIN q : q[i].command \in S}

Num(q, S) == Cardinality(Positions(q, S))

IsWrite(m, d) == m.command = "Write" /\ m.deviceStream = d

(* The numbers of the packets that q has for stream d of the device. *)
Data(q, d) == {q[i].data : i \in {j \in DOMAIN q : IsWrite(q[j], d)}}

Increasing(q, d) ==
    \A i, j \in DOMAIN q :
        i < j /\ IsWrite(q[i], d) /\ IsWrite(q[j], d) => q[i].data < q[j].data

Before(p, q, d) == \A a \in Data(p, d), b \in Data(q, d) : a < b

(* No Write follows a Connect. *)
Settled(q) ==
    \A i, j \in DOMAIN q : i < j /\ q[i].command = "Connect" => q[j].command # "Write"

(* What precedes a Connect is not of the streams D. *)
Passed(q, D) ==
    \A i, j \in DOMAIN q : i < j /\ q[j].command = "Connect" => q[i].deviceStream \notin D

(* No Write that precedes the first Connect is for one of the streams D. *)
Clean(q, D) ==
    \A i \in DOMAIN q :
        q[i].command = "Write" /\ (\A j \in 1..i : q[j].command # "Connect") =>
            q[i].deviceStream \notin D

-----------------------------------------------------------------------------
(* The queue with a message more. *)
LEMMA AppendParts ==
    ASSUME NEW T, NEW q \in Seq(T), NEW x \in T
    PROVE  /\ Append(q, x) \in Seq(T) /\ Len(Append(q, x)) = Len(q) + 1
           /\ Len(q) \in Nat /\ DOMAIN q = 1..Len(q)
           /\ DOMAIN Append(q, x) = 1..Len(q) + 1
           /\ \A i \in 1..Len(q) : Append(q, x)[i] = q[i]
           /\ Append(q, x)[Len(q) + 1] = x
OBVIOUS

(* The queue without its first message. *)
LEMMA TailParts ==
    ASSUME NEW T, NEW q \in Seq(T), q # <<>>
    PROVE  /\ Head(q) \in T /\ Head(q) = q[1]
           /\ Tail(q) \in Seq(T) /\ Len(q) \in Nat /\ Len(q) >= 1
           /\ DOMAIN q = 1..Len(q) /\ DOMAIN Tail(q) = 1..Len(q) - 1
           /\ \A i \in 1..Len(q) - 1 : Tail(q)[i] = q[i + 1]
OBVIOUS

(* Two queues, one after the other. *)
LEMMA ConcatParts ==
    ASSUME NEW T, NEW p \in Seq(T), NEW q \in Seq(T)
    PROVE  /\ p \o q \in Seq(T) /\ Len(p) \in Nat /\ Len(q) \in Nat
           /\ DOMAIN p = 1..Len(p) /\ DOMAIN q = 1..Len(q)
           /\ DOMAIN (p \o q) = 1..Len(p) + Len(q)
           /\ \A i \in 1..Len(p) : (p \o q)[i] = p[i]
           /\ \A i \in 1..Len(q) : (p \o q)[Len(p) + i] = q[i]
<1>1. /\ p \o q \in Seq(T) /\ Len(p \o q) = Len(p) + Len(q)
      /\ Len(p) \in Nat /\ Len(q) \in Nat
      /\ DOMAIN p = 1..Len(p) /\ DOMAIN q = 1..Len(q)
  BY ConcatProperties, LenProperties
<1>2. DOMAIN (p \o q) = 1..Len(p) + Len(q)
  BY <1>1, LenProperties
<1>3. \A i \in 1..Len(p) + Len(q) :
          (p \o q)[i] = IF i <= Len(p) THEN p[i] ELSE q[i - Len(p)]
  BY ConcatProperties
<1>4. ASSUME NEW i \in 1..Len(q) PROVE (p \o q)[Len(p) + i] = q[i]
  BY <1>1, <1>3
<1>5. ASSUME NEW i \in 1..Len(p) PROVE (p \o q)[i] = p[i]
  BY <1>1, <1>3
<1> QED  BY <1>1, <1>2, <1>4, <1>5

(* The empty queue holds nothing. *)
LEMMA EmptyHolds ==
    /\ \A command : ~Holds(<<>>, command)
    /\ \A m : ~Has(<<>>, m)
    /\ \A S : Num(<<>>, S) = 0
    /\ \A d : Data(<<>>, d) = {} /\ Increasing(<<>>, d)
    /\ Settled(<<>>)
    /\ \A D : Passed(<<>>, D) /\ Clean(<<>>, D)
<1>1. DOMAIN <<>> = {}
  OBVIOUS
<1>2. \A S : Positions(<<>>, S) = {}
  BY <1>1 DEF Positions
<1> QED  BY <1>1, <1>2, FS_EmptySet DEF Holds, Has, Num, Data, Increasing, Settled, Passed, Clean

(* What a queue with one message more holds. *)
LEMMA HoldsAppend ==
    ASSUME NEW T, NEW q \in Seq(T), NEW x \in T
    PROVE  /\ \A command : Holds(Append(q, x), command) <=> Holds(q, command) \/ x.command = command
           /\ \A m : Has(Append(q, x), m) <=> Has(q, m) \/ x = m
           /\ \A d : Data(Append(q, x), d) =
                         Data(q, d) \cup (IF IsWrite(x, d) THEN {x.data} ELSE {})
<1> DEFINE a == Append(q, x)
<1>1. /\ Len(q) \in Nat /\ DOMAIN q = 1..Len(q) /\ DOMAIN a = 1..Len(q) + 1
      /\ \A i \in 1..Len(q) : a[i] = q[i]
      /\ a[Len(q) + 1] = x
  BY AppendParts
<1>2. DOMAIN a = DOMAIN q \cup {Len(q) + 1}
  BY <1>1
<1> HIDE DEF a
<1>3. \A command : Holds(a, command) <=> Holds(q, command) \/ x.command = command
  BY <1>1, <1>2 DEF Holds
<1>4. \A m : Has(a, m) <=> Has(q, m) \/ x = m
  BY <1>1, <1>2 DEF Has
<1>5. ASSUME NEW d
      PROVE  Data(a, d) = Data(q, d) \cup (IF IsWrite(x, d) THEN {x.data} ELSE {})
  BY <1>1, <1>2 DEF Data
<1> QED  BY <1>3, <1>4, <1>5 DEF a

(* What the queue held, the first message or the others hold. *)
LEMMA HoldsTail ==
    ASSUME NEW T, NEW q \in Seq(T), q # <<>>
    PROVE  /\ \A command : Holds(q, command) <=> Holds(Tail(q), command) \/ Head(q).command = command
           /\ \A m : Has(q, m) <=> Has(Tail(q), m) \/ Head(q) = m
           /\ \A d : Data(q, d) =
                         Data(Tail(q), d) \cup (IF IsWrite(Head(q), d) THEN {Head(q).data} ELSE {})
<1> DEFINE t == Tail(q)
           x == Head(q)
           n == Len(q)
<1>1. /\ n \in Nat /\ n >= 1 /\ DOMAIN q = 1..n /\ DOMAIN t = 1..n - 1
      /\ \A i \in 1..n - 1 : t[i] = q[i + 1]
      /\ x = q[1]
  BY TailParts
<1> HIDE DEF t, x, n
<1>2. \A i \in DOMAIN q : i = 1 \/ (i - 1 \in DOMAIN t /\ t[i - 1] = q[i])
  <2>1. SUFFICES ASSUME NEW i \in DOMAIN q, i # 1 PROVE i - 1 \in DOMAIN t /\ t[i - 1] = q[i]
    OBVIOUS
  <2>2. i \in 1..n /\ i - 1 \in 1..n - 1
    BY <1>1, <2>1
  <2>3. t[i - 1] = q[(i - 1) + 1]
    BY <1>1, <2>2
  <2>4. (i - 1) + 1 = i
    BY <2>2
  <2> QED  BY <1>1, <2>2, <2>3, <2>4
<1>3. \A i \in DOMAIN t : i + 1 \in DOMAIN q /\ t[i] = q[i + 1]
  BY <1>1
<1>4. 1 \in DOMAIN q
  BY <1>1
<1>5. \A command : Holds(q, command) <=> Holds(t, command) \/ x.command = command
  BY <1>1, <1>2, <1>3, <1>4 DEF Holds
<1>6. \A m : Has(q, m) <=> Has(t, m) \/ x = m
  BY <1>1, <1>2, <1>3, <1>4 DEF Has
<1>7. ASSUME NEW d
      PROVE  Data(q, d) = Data(t, d) \cup (IF IsWrite(x, d) THEN {x.data} ELSE {})
  <2>1. Data(t, d) \subseteq Data(q, d)
    BY <1>3 DEF Data
  <2>2. IsWrite(x, d) => x.data \in Data(q, d)
    BY <1>1, <1>4 DEF Data
  <2>3. ASSUME NEW y \in Data(q, d)
        PROVE  y \in Data(t, d) \/ (IsWrite(x, d) /\ y = x.data)
    <3>1. PICK i \in DOMAIN q : IsWrite(q[i], d) /\ y = q[i].data
      BY DEF Data
    <3> QED  BY <1>1, <1>2, <3>1 DEF Data
  <2> QED  BY <2>1, <2>2, <2>3
<1> QED  BY <1>5, <1>6, <1>7 DEF t, x

(* What two queues hold, one of them does. *)
LEMMA HoldsConcat ==
    ASSUME NEW T, NEW p \in Seq(T), NEW q \in Seq(T)
    PROVE  /\ \A command : Holds(p \o q, command) <=> Holds(p, command) \/ Holds(q, command)
           /\ \A m : Has(p \o q, m) <=> Has(p, m) \/ Has(q, m)
           /\ \A d : Data(p \o q, d) = Data(p, d) \cup Data(q, d)
<1> DEFINE c == p \o q
           k == Len(p)
           n == Len(q)
<1>1. /\ k \in Nat /\ n \in Nat /\ DOMAIN p = 1..k /\ DOMAIN q = 1..n /\ DOMAIN c = 1..k + n
      /\ \A i \in 1..k : c[i] = p[i]
      /\ \A i \in 1..n : c[k + i] = q[i]
  BY ConcatParts
<1> HIDE DEF c, k, n
<1>2. \A i \in DOMAIN c :
          \/ i \in DOMAIN p /\ c[i] = p[i]
          \/ i - k \in DOMAIN q /\ c[i] = q[i - k]
  <2>1. SUFFICES ASSUME NEW i \in DOMAIN c, i \notin DOMAIN p
                 PROVE  i - k \in DOMAIN q /\ c[i] = q[i - k]
    BY <1>1
  <2>2. i \in 1..k + n /\ i - k \in 1..n /\ k + (i - k) = i
    BY <1>1, <2>1
  <2> QED  BY <1>1, <2>2
<1>3. \A i \in DOMAIN p : i \in DOMAIN c /\ c[i] = p[i]
  BY <1>1
<1>4. \A i \in DOMAIN q : k + i \in DOMAIN c /\ c[k + i] = q[i]
  BY <1>1
<1>5. \A command : Holds(c, command) <=> Holds(p, command) \/ Holds(q, command)
  BY <1>2, <1>3, <1>4 DEF Holds
<1>6. \A m : Has(c, m) <=> Has(p, m) \/ Has(q, m)
  BY <1>2, <1>3, <1>4 DEF Has
<1>7. ASSUME NEW d PROVE Data(c, d) = Data(p, d) \cup Data(q, d)
  <2>1. Data(p, d) \subseteq Data(c, d)
    BY <1>3 DEF Data
  <2>2. Data(q, d) \subseteq Data(c, d)
    BY <1>4 DEF Data
  <2>3. ASSUME NEW y \in Data(c, d) PROVE y \in Data(p, d) \cup Data(q, d)
    <3>1. PICK i \in DOMAIN c : IsWrite(c[i], d) /\ y = c[i].data
      BY DEF Data
    <3> QED  BY <1>2, <3>1 DEF Data
  <2> QED  BY <2>1, <2>2, <2>3
<1> QED  BY <1>5, <1>6, <1>7 DEF c
-----------------------------------------------------------------------------
(* A queue has finitely many messages of each kind, and none exactly when it
   holds none. *)
LEMMA NumType ==
    ASSUME NEW T, NEW q \in Seq(T), NEW S
    PROVE  /\ IsFiniteSet(Positions(q, S)) /\ Num(q, S) \in Nat
           /\ Num(q, S) = 0 <=> \A i \in DOMAIN q : q[i].command \notin S
<1>1. IsFiniteSet(DOMAIN q)
  <2>1. DOMAIN q = 1..Len(q) /\ Len(q) \in Nat
    OBVIOUS
  <2> QED  BY <2>1, FS_Interval
<1>2. Positions(q, S) \in SUBSET DOMAIN q
  BY DEF Positions
<1>3. IsFiniteSet(Positions(q, S))
  BY <1>1, <1>2, FS_Subset
<1>4. Num(q, S) = 0 <=> Positions(q, S) = {}
  BY <1>3, FS_EmptySet DEF Num
<1> QED  BY <1>3, <1>4, FS_CardinalityType DEF Num, Positions

(* A queue with a message more has one more of its kind. *)
LEMMA NumAppend ==
    ASSUME NEW T, NEW q \in Seq(T), NEW x \in T, NEW S
    PROVE  Num(Append(q, x), S) = Num(q, S) + (IF x.command \in S THEN 1 ELSE 0)
<1> DEFINE a == Append(q, x)
           n == Len(q) + 1
<1>1. /\ n \in Nat /\ DOMAIN a = DOMAIN q \cup {n} /\ n \notin DOMAIN q
      /\ \A i \in DOMAIN q : a[i] = q[i]
      /\ a[n] = x
  <2>1. /\ Len(q) \in Nat /\ DOMAIN q = 1..Len(q) /\ DOMAIN a = 1..Len(q) + 1
        /\ \A i \in 1..Len(q) : a[i] = q[i]
        /\ a[Len(q) + 1] = x
    BY AppendParts
  <2> HIDE DEF a
  <2> QED  BY <2>1
<1> HIDE DEF a, n
<1>2. IsFiniteSet(Positions(q, S))
  BY NumType
<1>3. CASE x.command \in S
  <2>1. Positions(a, S) = Positions(q, S) \cup {n}
    BY <1>1, <1>3 DEF Positions
  <2>2. n \notin Positions(q, S)
    BY <1>1 DEF Positions
  <2>3. Cardinality(Positions(a, S)) = Cardinality(Positions(q, S)) + 1
    BY <1>2, <2>1, <2>2, FS_AddElement
  <2> QED  BY <1>3, <2>3 DEF Num, a
<1>4. CASE x.command \notin S
  <2>1. Positions(a, S) = Positions(q, S)
    BY <1>1, <1>4 DEF Positions
  <2>2. Num(q, S) \in Nat
    BY NumType
  <2> QED  BY <1>4, <2>1, <2>2 DEF Num, a
<1> QED  BY <1>3, <1>4

(* Two queues have together what they have. *)
LEMMA NumConcat ==
    ASSUME NEW T, NEW p \in Seq(T), NEW q \in Seq(T), NEW S
    PROVE  Num(p \o q, S) = Num(p, S) + Num(q, S)
<1> DEFINE c == p \o q
           k == Len(p)
           A == Positions(p, S)
           B == {i \in Positions(c, S) : i > k}
           f == [i \in Positions(q, S) |-> k + i]
<1>1. /\ k \in Nat /\ Len(q) \in Nat /\ DOMAIN p = 1..k /\ DOMAIN q = 1..Len(q)
      /\ DOMAIN c = 1..k + Len(q)
      /\ \A i \in 1..k : c[i] = p[i]
      /\ \A i \in 1..Len(q) : c[k + i] = q[i]
      /\ c \in Seq(T)
  BY ConcatParts
<1> HIDE DEF c, k
<1>2. Positions(c, S) = A \cup B /\ A \cap B = {}
  <2>1. \A i \in A : i \in 1..k /\ i \in Positions(c, S)
    BY <1>1 DEF Positions
  <2>2. ASSUME NEW i \in Positions(c, S), ~(i > k) PROVE i \in A
    BY <1>1, <2>2 DEF Positions
  <2>3. \A i \in 1..k : ~(i > k)
    BY <1>1
  <2> HIDE DEF A
  <2> QED  BY <2>1, <2>2, <2>3
<1>3. IsFiniteSet(Positions(c, S)) /\ IsFiniteSet(A) /\ IsFiniteSet(Positions(q, S))
  BY <1>1, NumType
<1>4. IsFiniteSet(B)
  <2>1. B \in SUBSET Positions(c, S)
    OBVIOUS
  <2> HIDE DEF B
  <2> QED  BY <1>3, <2>1, FS_Subset
<1>5. f \in [Positions(q, S) -> B]
  <2>1. SUFFICES ASSUME NEW i \in Positions(q, S)
                 PROVE  k + i \in Positions(c, S) /\ k + i > k
    OBVIOUS
  <2>2. i \in 1..Len(q) /\ q[i].command \in S
    BY <1>1 DEF Positions
  <2>3. k + i \in 1..k + Len(q) /\ k + i > k /\ c[k + i] = q[i]
    BY <1>1, <2>2
  <2> QED  BY <1>1, <2>2, <2>3 DEF Positions
<1>6. \A i, j \in Positions(q, S) : f[i] = f[j] => i = j
  <2>1. \A i \in Positions(q, S) : i \in Nat /\ f[i] = k + i
    BY <1>1 DEF Positions
  <2> HIDE DEF f
  <2> QED  BY <1>1, <2>1
<1>7. ASSUME NEW b \in B PROVE \E i \in Positions(q, S) : f[i] = b
  <2>1. b \in 1..k + Len(q) /\ b > k /\ c[b].command \in S
    BY <1>1 DEF Positions
  <2>2. b - k \in 1..Len(q) /\ k + (b - k) = b
    BY <1>1, <2>1
  <2>3. b - k \in Positions(q, S)
    BY <1>1, <2>1, <2>2 DEF Positions
  <2> QED  BY <2>2, <2>3
<1> HIDE DEF f, A, B
<1>8. f \in Bijection(Positions(q, S), B)
  BY <1>5, <1>6, <1>7 DEF Bijection, Injection, IsInjective, Surjection
<1>9. Cardinality(B) = Cardinality(Positions(q, S))
  BY <1>3, <1>8, FS_Bijection DEF ExistsBijection
<1>10. Cardinality(A \cup B) = Cardinality(A) + Cardinality(B)
  <2>1. /\ Cardinality(A \cup B) = Cardinality(A) + Cardinality(B) - Cardinality(A \cap B)
    BY <1>3, <1>4, FS_Union
  <2>2. Cardinality(A) \in Nat /\ Cardinality(B) \in Nat
    BY <1>3, <1>4, FS_CardinalityType
  <2>3. Cardinality(A \cap B) = 0
    BY <1>2, FS_EmptySet
  <2> QED  BY <2>1, <2>2, <2>3
<1> QED  BY <1>2, <1>9, <1>10 DEF Num, A, c

(* The first message of a queue counts as one of its kind. *)
LEMMA NumTail ==
    ASSUME NEW T, NEW q \in Seq(T), q # <<>>, NEW S
    PROVE  Num(q, S) = Num(Tail(q), S) + (IF Head(q).command \in S THEN 1 ELSE 0)
<1> DEFINE h == <<Head(q)>>
           e == <<>>
<1>1. /\ Head(q) \in T /\ Tail(q) \in Seq(T) /\ h \in Seq(T) /\ e \in Seq(T)
      /\ h = Append(e, Head(q))
  BY TailParts
<1>2. q = h \o Tail(q)
  <2>1. /\ Head(q) = q[1] /\ Len(q) \in Nat /\ Len(q) >= 1
        /\ DOMAIN Tail(q) = 1..Len(q) - 1 /\ Len(Tail(q)) = Len(q) - 1
        /\ \A i \in 1..Len(q) - 1 : Tail(q)[i] = q[i + 1]
    BY TailParts, HeadTailProperties
  <2>2. h \o Tail(q) \in Seq(T) /\ Len(h \o Tail(q)) = Len(q)
    BY <1>1, <2>1, ConcatProperties
  <2>3. ASSUME NEW i \in 1..Len(q) PROVE q[i] = (h \o Tail(q))[i]
    <3>1. (h \o Tail(q))[i] = IF i <= 1 THEN h[i] ELSE Tail(q)[i - 1]
      <4> DEFINE t == Tail(q)
      <4>1. Len(h) = 1 /\ i \in 1..1 + Len(t) /\ t \in Seq(T) /\ h \in Seq(T)
        BY <1>1, <2>1
      <4> HIDE DEF h, t
      <4>2. \A j \in 1..Len(h) + Len(t) :
                (h \o t)[j] = IF j <= Len(h) THEN h[j] ELSE t[j - Len(h)]
        BY <4>1, ConcatProperties
      <4>3. (h \o t)[i] = IF i <= 1 THEN h[i] ELSE t[i - 1]
        BY <4>1, <4>2
      <4> QED  BY <4>3 DEF t
    <3>2. CASE i = 1
      BY <2>1, <3>1, <3>2
    <3>3. CASE i # 1
      <4>1. i - 1 \in 1..Len(q) - 1 /\ (i - 1) + 1 = i /\ ~(i <= 1)
        BY <2>1, <3>3
      <4> QED  BY <2>1, <3>1, <4>1
    <3> QED  BY <3>2, <3>3
  <2> HIDE DEF h
  <2> QED  BY <2>2, <2>3, SeqEqual
<1>3. Num(h, S) = Num(e, S) + (IF Head(q).command \in S THEN 1 ELSE 0)
  <2> DEFINE x == Head(q)
  <2>1. e \in Seq(T) /\ x \in T /\ h = Append(e, x)
    BY <1>1
  <2> HIDE DEF x, e, h
  <2>2. Num(Append(e, x), S) = Num(e, S) + (IF x.command \in S THEN 1 ELSE 0)
    BY <2>1, NumAppend
  <2> QED  BY <2>1, <2>2 DEF x
<1>4. Num(e, S) = 0
  BY EmptyHolds
<1>5. Num(h \o Tail(q), S) = Num(h, S) + Num(Tail(q), S)
  <2> HIDE DEF h
  <2> QED  BY <1>1, NumConcat
<1>6. Num(Tail(q), S) \in Nat
  BY <1>1, NumType
<1> DEFINE one == IF Head(q).command \in S THEN 1 ELSE 0
<1>7. one \in Nat /\ Num(h, S) = 0 + one
  BY <1>3, <1>4
<1>8. Num(q, S) = Num(h, S) + Num(Tail(q), S)
  BY <1>2, <1>5
<1> HIDE DEF h, e, one
<1>9. Num(q, S) = Num(Tail(q), S) + one
  BY <1>6, <1>7, <1>8
<1> QED  BY <1>9 DEF one
-----------------------------------------------------------------------------
(* What a message at the end of a queue has to respect. *)
LEMMA OrderAppend ==
    ASSUME NEW T, NEW q \in Seq(T), NEW x \in T
    PROVE  /\ \A d : Increasing(q, d) /\ (IsWrite(x, d) => \A a \in Data(q, d) : a < x.data) =>
                         Increasing(Append(q, x), d)
           /\ Settled(q) /\ (x.command = "Write" => ~Holds(q, "Connect")) =>
                         Settled(Append(q, x))
           /\ \A D : Passed(q, D)
                     /\ (x.command = "Connect" => \A i \in DOMAIN q : q[i].deviceStream \notin D) =>
                         Passed(Append(q, x), D)
           /\ \A D : Clean(q, D)
                     /\ (x.command = "Write" /\ ~Holds(q, "Connect") => x.deviceStream \notin D) =>
                         Clean(Append(q, x), D)
<1> DEFINE a == Append(q, x)
           n == Len(q) + 1
<1>1. /\ n \in Nat /\ n >= 1 /\ DOMAIN q = 1..n - 1 /\ DOMAIN a = 1..n
      /\ \A i \in 1..n - 1 : a[i] = q[i]
      /\ a[n] = x
  <2>1. /\ Len(q) \in Nat /\ DOMAIN q = 1..Len(q) /\ DOMAIN a = 1..Len(q) + 1
        /\ \A i \in 1..Len(q) : a[i] = q[i]
        /\ a[Len(q) + 1] = x
    BY AppendParts
  <2> HIDE DEF a
  <2> QED  BY <2>1
<1> HIDE DEF a, n
<1>2. \A i, j \in DOMAIN a :
          i < j => /\ i \in DOMAIN q /\ a[i] = q[i]
                   /\ (j \in DOMAIN q /\ a[j] = q[j]) \/ j = n
  BY <1>1
<1>3. ASSUME NEW d, Increasing(q, d), IsWrite(x, d) => \A b \in Data(q, d) : b < x.data
      PROVE  Increasing(a, d)
  <2>1. SUFFICES ASSUME NEW i \in DOMAIN a, NEW j \in DOMAIN a, i < j,
                        IsWrite(a[i], d), IsWrite(a[j], d)
                 PROVE  a[i].data < a[j].data
    BY DEF Increasing
  <2>2. i \in DOMAIN q /\ a[i] = q[i] /\ a[i].data \in Data(q, d)
    BY <1>2, <2>1 DEF Data
  <2>3. CASE j \in DOMAIN q /\ a[j] = q[j]
    BY <1>3, <2>1, <2>2, <2>3 DEF Increasing
  <2>4. CASE j = n
    BY <1>1, <1>3, <2>1, <2>2, <2>4
  <2> QED  BY <1>2, <2>1, <2>3, <2>4
<1>4. ASSUME Settled(q), x.command = "Write" => ~Holds(q, "Connect")
      PROVE  Settled(a)
  <2>1. SUFFICES ASSUME NEW i \in DOMAIN a, NEW j \in DOMAIN a, i < j,
                        a[i].command = "Connect"
                 PROVE  a[j].command # "Write"
    BY DEF Settled
  <2> QED  BY <1>1, <1>2, <1>4, <2>1 DEF Settled, Holds
<1>5. ASSUME NEW D, Passed(q, D),
             x.command = "Connect" => \A i \in DOMAIN q : q[i].deviceStream \notin D
      PROVE  Passed(a, D)
  <2>1. SUFFICES ASSUME NEW i \in DOMAIN a, NEW j \in DOMAIN a, i < j,
                        a[j].command = "Connect"
                 PROVE  a[i].deviceStream \notin D
    BY DEF Passed
  <2> QED  BY <1>1, <1>2, <1>5, <2>1 DEF Passed
<1>6. ASSUME NEW D, Clean(q, D),
             x.command = "Write" /\ ~Holds(q, "Connect") => x.deviceStream \notin D
      PROVE  Clean(a, D)
  <2>1. SUFFICES ASSUME NEW i \in DOMAIN a, a[i].command = "Write",
                        \A j \in 1..i : a[j].command # "Connect"
                 PROVE  a[i].deviceStream \notin D
    BY DEF Clean
  <2>2. CASE i \in DOMAIN q
    <3>1. a[i] = q[i] /\ \A j \in 1..i : q[j].command # "Connect"
      BY <1>1, <2>1, <2>2
    <3> QED  BY <1>6, <2>1, <2>2, <3>1 DEF Clean
  <2>3. CASE i \notin DOMAIN q
    <3>1. i = n /\ a[i] = x
      BY <1>1, <2>3
    <3>2. ~Holds(q, "Connect")
      <4>1. \A j \in DOMAIN q : j \in 1..i /\ a[j] = q[j]
        BY <1>1, <3>1
      <4> QED  BY <2>1, <4>1 DEF Holds
    <3> QED  BY <1>6, <2>1, <3>1, <3>2
  <2> QED  BY <2>2, <2>3
<1> QED  BY <1>3, <1>4, <1>5, <1>6 DEF a

(* What follows the first message is in the order it was in, and the first
   message was before it. *)
LEMMA OrderTail ==
    ASSUME NEW T, NEW q \in Seq(T), q # <<>>
    PROVE  /\ \A d : Increasing(q, d) =>
                         /\ Increasing(Tail(q), d)
                         /\ IsWrite(Head(q), d) => \A a \in Data(Tail(q), d) : Head(q).data < a
           /\ Settled(q) => /\ Settled(Tail(q))
                            /\ Head(q).command = "Connect" => ~Holds(Tail(q), "Write")
           /\ \A D : Passed(q, D) =>
                         /\ Passed(Tail(q), D)
                         /\ Holds(Tail(q), "Connect") => Head(q).deviceStream \notin D
           /\ \A D : Clean(q, D) /\ Head(q).command # "Connect" =>
                         /\ Clean(Tail(q), D)
                         /\ Head(q).command = "Write" => Head(q).deviceStream \notin D
<1> DEFINE t == Tail(q)
           x == Head(q)
           n == Len(q)
<1>1. /\ n \in Nat /\ n >= 1 /\ DOMAIN q = 1..n /\ DOMAIN t = 1..n - 1
      /\ \A i \in 1..n - 1 : t[i] = q[i + 1]
      /\ x = q[1]
  BY TailParts
<1> HIDE DEF t, x, n
<1>2. \A i \in DOMAIN t : i \in Nat /\ i + 1 \in DOMAIN q /\ t[i] = q[i + 1] /\ 1 < i + 1
  BY <1>1
<1>3. 1 \in DOMAIN q
  BY <1>1
<1>4. ASSUME NEW d, Increasing(q, d)
      PROVE  /\ Increasing(t, d)
             /\ IsWrite(x, d) => \A a \in Data(t, d) : x.data < a
  <2>1. \A i, j \in DOMAIN t : i < j => i + 1 < j + 1
    BY <1>2
  <2>2. Increasing(t, d)
    BY <1>2, <1>4, <2>1 DEF Increasing
  <2>3. ASSUME IsWrite(x, d), NEW a \in Data(t, d) PROVE x.data < a
    <3>1. PICK i \in DOMAIN t : IsWrite(t[i], d) /\ a = t[i].data
      BY DEF Data
    <3>2. i + 1 \in DOMAIN q /\ t[i] = q[i + 1] /\ 1 < i + 1
      BY <1>2, <3>1
    <3> QED  BY <1>1, <1>3, <1>4, <2>3, <3>1, <3>2 DEF Increasing
  <2> QED  BY <2>2, <2>3
<1>5. ASSUME Settled(q)
      PROVE  Settled(t) /\ (x.command = "Connect" => ~Holds(t, "Write"))
  <2>1. \A i, j \in DOMAIN t : i < j => i + 1 < j + 1
    BY <1>2
  <2>2. Settled(t)
    BY <1>2, <1>5, <2>1 DEF Settled
  <2>3. x.command = "Connect" => ~Holds(t, "Write")
    BY <1>1, <1>2, <1>3, <1>5 DEF Settled, Holds
  <2> QED  BY <2>2, <2>3
<1>6. ASSUME NEW D, Passed(q, D)
      PROVE  Passed(t, D) /\ (Holds(t, "Connect") => x.deviceStream \notin D)
  <2>1. \A i, j \in DOMAIN t : i < j => i + 1 < j + 1
    BY <1>2
  <2>2. Passed(t, D)
    BY <1>2, <1>6, <2>1 DEF Passed
  <2>3. Holds(t, "Connect") => x.deviceStream \notin D
    BY <1>1, <1>2, <1>3, <1>6 DEF Passed, Holds
  <2> QED  BY <2>2, <2>3
<1>7. ASSUME NEW D, Clean(q, D), x.command # "Connect"
      PROVE  Clean(t, D) /\ (x.command = "Write" => x.deviceStream \notin D)
  <2>1. ASSUME NEW i \in DOMAIN t, t[i].command = "Write",
               \A j \in 1..i : t[j].command # "Connect"
        PROVE  t[i].deviceStream \notin D
    <3>1. i + 1 \in DOMAIN q /\ t[i] = q[i + 1] /\ i \in 1..n - 1
      BY <1>1, <2>1
    <3>2. ASSUME NEW j \in 1..i + 1 PROVE q[j].command # "Connect"
      <4>1. CASE j = 1
        BY <1>1, <1>7, <4>1
      <4>2. CASE j # 1
        <5>1. j - 1 \in 1..i /\ j - 1 \in 1..n - 1 /\ (j - 1) + 1 = j
          BY <1>1, <3>1, <3>2, <4>2
        <5>2. t[j - 1] = q[(j - 1) + 1]
          BY <1>1, <5>1
        <5> QED  BY <2>1, <5>1, <5>2
      <4> QED  BY <4>1, <4>2
    <3> QED  BY <1>7, <2>1, <3>1, <3>2 DEF Clean
  <2>2. ASSUME x.command = "Write" PROVE x.deviceStream \notin D
    <3>1. \A j \in 1..1 : j = 1
      OBVIOUS
    <3> QED  BY <1>1, <1>3, <1>7, <2>2, <3>1 DEF Clean
  <2> QED  BY <2>1, <2>2 DEF Clean
<1> QED  BY <1>4, <1>5, <1>6, <1>7 DEF t, x

(* Two queues are in order when each is, and the one before the other. *)
LEMMA IncreasingConcat ==
    ASSUME NEW T, NEW p \in Seq(T), NEW q \in Seq(T), NEW d
    PROVE  Increasing(p \o q, d) <=> Increasing(p, d) /\ Increasing(q, d) /\ Before(p, q, d)
<1> DEFINE c == p \o q
           k == Len(p)
           n == Len(q)
<1>1. /\ k \in Nat /\ n \in Nat /\ DOMAIN p = 1..k /\ DOMAIN q = 1..n /\ DOMAIN c = 1..k + n
      /\ \A i \in 1..k : c[i] = p[i]
      /\ \A i \in 1..n : c[k + i] = q[i]
  BY ConcatParts
<1> HIDE DEF c, k, n
<1>2. \A i \in DOMAIN p : i \in DOMAIN c /\ c[i] = p[i]
  BY <1>1
<1>3. \A i \in DOMAIN q : k + i \in DOMAIN c /\ c[k + i] = q[i] /\ i \in Nat
  BY <1>1
<1>4. \A i \in DOMAIN p, j \in DOMAIN q : i < k + j
  BY <1>1
<1>5. ASSUME Increasing(c, d) PROVE Increasing(p, d) /\ Increasing(q, d) /\ Before(p, q, d)
  <2>1. Increasing(p, d)
    BY <1>2, <1>5 DEF Increasing
  <2>2. \A i, j \in DOMAIN q : i < j => k + i < k + j
    BY <1>1, <1>3
  <2>3. Increasing(q, d)
    BY <1>3, <1>5, <2>2 DEF Increasing
  <2>4. ASSUME NEW a \in Data(p, d), NEW b \in Data(q, d) PROVE a < b
    <3>1. PICK i \in DOMAIN p : IsWrite(p[i], d) /\ a = p[i].data
      BY DEF Data
    <3>2. PICK j \in DOMAIN q : IsWrite(q[j], d) /\ b = q[j].data
      BY DEF Data
    <3> QED  BY <1>2, <1>3, <1>4, <1>5, <3>1, <3>2 DEF Increasing
  <2> QED  BY <2>1, <2>3, <2>4 DEF Before
<1>6. ASSUME Increasing(p, d), Increasing(q, d), Before(p, q, d) PROVE Increasing(c, d)
  <2>1. SUFFICES ASSUME NEW i \in DOMAIN c, NEW j \in DOMAIN c, i < j,
                        IsWrite(c[i], d), IsWrite(c[j], d)
                 PROVE  c[i].data < c[j].data
    BY DEF Increasing
  <2>2. CASE i \in DOMAIN p /\ j \in DOMAIN p
    BY <1>2, <1>6, <2>1, <2>2 DEF Increasing
  <2>3. CASE i \in DOMAIN p /\ j \notin DOMAIN p
    <3>1. j - k \in DOMAIN q /\ k + (j - k) = j
      BY <1>1, <2>3
    <3>2. c[j] = q[j - k]
      BY <1>3, <3>1
    <3>3. c[i].data \in Data(p, d) /\ c[j].data \in Data(q, d)
      BY <1>2, <2>1, <2>3, <3>1, <3>2 DEF Data
    <3> QED  BY <1>6, <3>3 DEF Before
  <2>4. CASE i \notin DOMAIN p
    <3>1. /\ i - k \in DOMAIN q /\ k + (i - k) = i
          /\ j - k \in DOMAIN q /\ k + (j - k) = j
          /\ i - k < j - k
      BY <1>1, <2>1, <2>4
    <3>2. c[i] = q[i - k] /\ c[j] = q[j - k]
      BY <1>3, <3>1
    <3> QED  BY <1>6, <2>1, <3>1, <3>2 DEF Increasing
  <2> QED  BY <2>2, <2>3, <2>4
<1> QED  BY <1>5, <1>6 DEF c
-----------------------------------------------------------------------------
(* A message added to the second of two queues is added to both. *)
LEMMA AppendConcat ==
    ASSUME NEW T, NEW p \in Seq(T), NEW q \in Seq(T), NEW x \in T
    PROVE  p \o Append(q, x) = Append(p \o q, x)
<1> DEFINE a == Append(q, x)
           c == p \o q
           l == p \o a
           r == Append(c, x)
           k == Len(p)
           n == Len(q)
<1>1. a \in Seq(T) /\ Len(a) = n + 1 /\ n \in Nat /\ k \in Nat
      /\ (\A i \in 1..n : a[i] = q[i]) /\ a[n + 1] = x
  BY AppendParts, LenProperties
<1>2. /\ c \in Seq(T) /\ Len(c) = k + n
      /\ \A i \in 1..k + n : c[i] = IF i <= k THEN p[i] ELSE q[i - k]
  BY ConcatProperties
<1> HIDE DEF a, c
<1>3. /\ l \in Seq(T) /\ Len(l) = k + (n + 1)
      /\ \A i \in 1..k + (n + 1) : l[i] = IF i <= k THEN p[i] ELSE a[i - k]
  BY <1>1, ConcatProperties
<1>4. /\ r \in Seq(T) /\ Len(r) = (k + n) + 1
      /\ \A i \in 1..k + n : r[i] = c[i]
      /\ r[(k + n) + 1] = x
  BY <1>2, AppendParts
<1> HIDE DEF l, r, k, n
<1>5. Len(l) = Len(r)
  BY <1>1, <1>3, <1>4
<1>6. ASSUME NEW i \in 1..Len(l) PROVE l[i] = r[i]
  <2>1. CASE i <= k
    BY <1>1, <1>2, <1>3, <1>4, <1>6, <2>1
  <2>2. CASE i > k /\ i <= k + n
    <3>1. i - k \in 1..n /\ i \in 1..k + n /\ ~(i <= k) /\ i \in 1..k + (n + 1)
      BY <1>1, <1>3, <1>6, <2>2
    <3> QED  BY <1>1, <1>2, <1>3, <1>4, <3>1
  <2>3. CASE i > k + n
    <3>1. i = (k + n) + 1 /\ i - k = n + 1 /\ ~(i <= k) /\ i \in 1..k + (n + 1)
      BY <1>1, <1>3, <1>6, <2>3
    <3> QED  BY <1>1, <1>3, <1>4, <3>1
  <2> QED  BY <1>1, <1>6, <2>1, <2>2, <2>3
<1>7. l = r
  BY <1>3, <1>4, <1>5, <1>6, SeqEqual
<1> QED  BY <1>7 DEF l, r, a, c

(* The first message of the first queue is the first of both. *)
LEMMA TailConcat ==
    ASSUME NEW T, NEW p \in Seq(T), p # <<>>, NEW q \in Seq(T)
    PROVE  /\ p \o q # <<>> /\ Head(p \o q) = Head(p)
           /\ Tail(p \o q) = Tail(p) \o q
<1> DEFINE t == Tail(p)
           c == p \o q
           l == Tail(c)
           r == t \o q
           k == Len(p)
           n == Len(q)
<1>1. /\ t \in Seq(T) /\ Len(t) = k - 1 /\ k \in Nat /\ k >= 1 /\ n \in Nat
      /\ \A i \in 1..k - 1 : t[i] = p[i + 1]
      /\ Head(p) = p[1]
  BY TailParts, HeadTailProperties, LenProperties
<1>2. /\ c \in Seq(T) /\ Len(c) = k + n
      /\ \A i \in 1..k + n : c[i] = IF i <= k THEN p[i] ELSE q[i - k]
  BY ConcatProperties
<1> HIDE DEF t, c
<1>3. c # <<>>
  BY <1>1, <1>2
<1>4. /\ r \in Seq(T) /\ Len(r) = (k - 1) + n
      /\ \A i \in 1..(k - 1) + n : r[i] = IF i <= k - 1 THEN t[i] ELSE q[i - (k - 1)]
  <2>1. /\ r \in Seq(T) /\ Len(r) = Len(t) + Len(q)
        /\ \A i \in 1..Len(t) + Len(q) : r[i] = IF i <= Len(t) THEN t[i] ELSE q[i - Len(t)]
    BY <1>1, ConcatProperties
  <2> HIDE DEF r
  <2> QED  BY <1>1, <2>1
<1>5. /\ l \in Seq(T) /\ Len(l) = (k + n) - 1 /\ Head(c) = c[1]
      /\ \A i \in 1..(k + n) - 1 : l[i] = c[i + 1]
  BY <1>2, <1>3, TailParts, HeadTailProperties
<1> HIDE DEF l, r, k, n
<1>6. ASSUME NEW i \in 1..Len(l) PROVE l[i] = r[i]
  <2>1. i \in 1..(k + n) - 1 /\ i \in 1..(k - 1) + n /\ i + 1 \in 1..k + n
    BY <1>1, <1>5, <1>6
  <2>2. CASE i <= k - 1
    <3>1. i \in 1..k - 1 /\ i + 1 <= k
      BY <1>1, <2>1, <2>2
    <3>2. t[i] = p[i + 1] /\ r[i] = t[i]
      BY <1>1, <1>4, <2>1, <2>2, <3>1
    <3>3. l[i] = c[i + 1] /\ c[i + 1] = p[i + 1]
      BY <1>2, <1>5, <2>1, <3>1
    <3> QED  BY <3>2, <3>3
  <2>3. CASE ~(i <= k - 1)
    <3>1. ~(i + 1 <= k) /\ (i + 1) - k = i - (k - 1)
      BY <1>1, <2>1, <2>3
    <3> QED  BY <1>2, <1>4, <1>5, <2>1, <2>3, <3>1
  <2> QED  BY <2>2, <2>3
<1>7. Len(l) = Len(r)
  BY <1>1, <1>4, <1>5
<1>8. l = r
  BY <1>4, <1>5, <1>6, <1>7, SeqEqual
<1>9. Head(c) = Head(p)
  BY <1>1, <1>2, <1>5
<1> QED  BY <1>3, <1>8, <1>9 DEF l, r, t, c

(* What is in order stays so in each part of it. *)
LEMMA OrderParts ==
    ASSUME NEW T, NEW p \in Seq(T), NEW q \in Seq(T)
    PROVE  /\ Settled(p \o q) => Settled(p) /\ Settled(q)
           /\ Settled(p \o q) /\ Holds(p, "Connect") => ~Holds(q, "Write")
           /\ \A D : Passed(p \o q, D) =>
                        /\ Passed(p, D) /\ Passed(q, D)
                        /\ Holds(q, "Connect") => \A i \in DOMAIN p : p[i].deviceStream \notin D
           /\ \A D : Clean(p \o q, D) => Clean(p, D)
<1> DEFINE c == p \o q
           k == Len(p)
           n == Len(q)
<1>1. /\ k \in Nat /\ n \in Nat /\ DOMAIN p = 1..k /\ DOMAIN q = 1..n /\ DOMAIN c = 1..k + n
      /\ \A i \in 1..k : c[i] = p[i]
      /\ \A i \in 1..n : c[k + i] = q[i]
  BY ConcatParts
<1> HIDE DEF c, k, n
<1>2. \A i \in DOMAIN p : i \in DOMAIN c /\ c[i] = p[i]
  BY <1>1
<1>3. \A i \in DOMAIN q : k + i \in DOMAIN c /\ c[k + i] = q[i] /\ i \in Nat
  BY <1>1
<1>4. \A i \in DOMAIN p, j \in DOMAIN q : i < k + j
  BY <1>1
<1>5. \A i, j \in DOMAIN q : i < j => k + i < k + j
  BY <1>1, <1>3
<1>6. Settled(c) => Settled(p) /\ Settled(q)
  BY <1>2, <1>3, <1>5 DEF Settled
<1>7. Settled(c) /\ Holds(p, "Connect") => ~Holds(q, "Write")
  BY <1>2, <1>3, <1>4 DEF Settled, Holds
<1>8. ASSUME NEW D, Passed(c, D)
      PROVE  /\ Passed(p, D) /\ Passed(q, D)
             /\ Holds(q, "Connect") => \A i \in DOMAIN p : p[i].deviceStream \notin D
  <2>1. Passed(p, D)
    BY <1>2, <1>8 DEF Passed
  <2>2. Passed(q, D)
    BY <1>3, <1>5, <1>8 DEF Passed
  <2>3. Holds(q, "Connect") => \A i \in DOMAIN p : p[i].deviceStream \notin D
    BY <1>2, <1>3, <1>4, <1>8 DEF Passed, Holds
  <2> QED  BY <2>1, <2>2, <2>3
<1>9. ASSUME NEW D, Clean(c, D) PROVE Clean(p, D)
  <2>1. SUFFICES ASSUME NEW i \in DOMAIN p, p[i].command = "Write",
                        \A j \in 1..i : p[j].command # "Connect"
                 PROVE  p[i].deviceStream \notin D
    BY DEF Clean
  <2>2. \A j \in 1..i : c[j] = p[j]
    BY <1>1, <2>1
  <2> QED  BY <1>2, <1>9, <2>1, <2>2 DEF Clean
<1> QED  BY <1>6, <1>7, <1>8, <1>9 DEF c
-----------------------------------------------------------------------------
(* What is kept of a queue is what is at the positions kept, in the order it
   was in. *)
LEMMA KeepAtParts ==
    ASSUME NEW T, NEW q \in Seq(T), NEW S \in SUBSET DOMAIN q
    PROVE  /\ KeepAt(q, S) \in Seq(T)
           /\ \A k \in DOMAIN KeepAt(q, S) : Nth(S, k) \in S /\ KeepAt(q, S)[k] = q[Nth(S, k)]
           /\ \A k, l \in DOMAIN KeepAt(q, S) : k < l => Nth(S, k) < Nth(S, l)
           /\ \A i \in S : \E k \in DOMAIN KeepAt(q, S) : Nth(S, k) = i
<1> DEFINE N == Cardinality(S)
           u == KeepAt(q, S)
<1>1. IsFiniteSet(S) /\ S \in SUBSET Nat
  <2>1. DOMAIN q = 1..Len(q) /\ Len(q) \in Nat
    OBVIOUS
  <2>2. IsFiniteSet(1..Len(q))
    BY <2>1, FS_Interval
  <2> QED  BY <2>1, <2>2, FS_Subset
<1>2. N \in Nat
  BY <1>1, FS_CardinalityType
<1>3. u \in Seq(T)
  BY KeepAtKeeps
<1>4. u = [k \in 1..N |-> q[Nth(S, k)]]
  BY DEF KeepAt
<1>5. \A k \in 1..N : Nth(S, k) \in S /\ Rank(S, Nth(S, k)) = k
  BY <1>1, NthHasRank
<1>6. ASSUME NEW i \in S, NEW j \in S, j <= i
      PROVE  Rank(S, j) <= Rank(S, i)
  <2> DEFINE A == {n \in S : n <= j}
             B == {n \in S : n <= i}
  <2>1. A \in SUBSET B /\ B \in SUBSET S
    <3>1. \A n \in S : n <= j => n <= i
      BY <1>1, <1>6
    <3> QED  BY <3>1
  <2> HIDE DEF A, B
  <2>2. IsFiniteSet(B)
    BY <1>1, <2>1, FS_Subset
  <2>3. Cardinality(A) <= Cardinality(B)
    BY <2>1, <2>2, FS_Subset
  <2> QED  BY <2>3 DEF Rank, A, B
<1>7. \A i \in S : Rank(S, i) \in 1..N
  <2>1. SUFFICES ASSUME NEW i \in S PROVE Rank(S, i) \in 1..N
    OBVIOUS
  <2> DEFINE A == {j \in S : j <= i}
  <2>2. A \in SUBSET S /\ i \in A
    BY <1>1
  <2> HIDE DEF A
  <2>3. IsFiniteSet(A) /\ Cardinality(A) <= N /\ Cardinality(A) \in Nat
    BY <1>1, <2>2, FS_Subset, FS_CardinalityType
  <2>4. Cardinality(A) # 0
    BY <2>2, <2>3, FS_EmptySet
  <2>5. Rank(S, i) = Cardinality(A)
    BY DEF Rank, A
  <2> QED  BY <1>2, <2>3, <2>4, <2>5
<1> HIDE DEF N, u
<1>8. DOMAIN u = 1..N /\ \A k \in 1..N : u[k] = q[Nth(S, k)]
  BY <1>4
<1>9. ASSUME NEW k \in 1..N, NEW l \in 1..N, k < l
      PROVE  Nth(S, k) < Nth(S, l)
  <2>1. ~(Nth(S, l) <= Nth(S, k))
    <3>1. SUFFICES ASSUME Nth(S, l) <= Nth(S, k) PROVE FALSE
      OBVIOUS
    <3>2. Rank(S, Nth(S, l)) <= Rank(S, Nth(S, k))
      BY <1>5, <1>6, <3>1
    <3>3. l <= k
      BY <1>5, <3>2
    <3> QED  BY <1>2, <1>9, <3>3
  <2>2. Nth(S, l) \in Nat /\ Nth(S, k) \in Nat
    BY <1>1, <1>5
  <2> QED  BY <2>1, <2>2
<1>10. ASSUME NEW i \in S
       PROVE  \E k \in 1..N : Nth(S, k) = i
  <2> DEFINE k == Rank(S, i)
  <2>1. k \in 1..N
    BY <1>7
  <2>2. Nth(S, k) \in S /\ Rank(S, Nth(S, k)) = k
    BY <1>5, <2>1
  <2>3. Nth(S, k) = i
    <3> DEFINE j == Nth(S, k)
    <3>1. j \in Nat /\ i \in Nat /\ j \in S
      BY <1>1, <2>2
    <3>2. Rank(S, j) = Rank(S, i)
      BY <2>2
    <3>3. ASSUME NEW a \in S, NEW b \in S, a < b
          PROVE  Rank(S, a) # Rank(S, b)
      <4> DEFINE A == {n \in S : n <= a}
                 B == {n \in S : n <= b}
      <4>1. A \in SUBSET B /\ B \in SUBSET S /\ b \in B /\ b \notin A
        <5>1. a \in Nat /\ b \in Nat /\ b <= b /\ ~(b <= a)
          BY <1>1, <3>3
        <5>2. \A n \in S : n <= a => n <= b
          BY <1>1, <3>3
        <5> QED  BY <5>1, <5>2
      <4> HIDE DEF A, B
      <4>2. IsFiniteSet(B)
        BY <1>1, <4>1, FS_Subset
      <4>3. Cardinality(A) = Cardinality(B) => A = B
        BY <4>1, <4>2, FS_Subset
      <4>4. Rank(S, a) = Cardinality(A) /\ Rank(S, b) = Cardinality(B)
        BY DEF Rank, A, B
      <4> QED  BY <4>1, <4>3, <4>4
    <3> HIDE DEF j
    <3>4. ~(j < i) /\ ~(i < j)
      BY <3>1, <3>2, <3>3
    <3>5. j = i
      BY <3>1, <3>4
    <3> QED  BY <3>5 DEF j
  <2> QED  BY <2>1, <2>3
<1> QED  BY <1>3, <1>5, <1>8, <1>9, <1>10 DEF u

(* What is kept of a queue was in it, and in that order; what is wanted and
   kept is all there. *)
LEMMA HoldsKeepAt ==
    ASSUME NEW T, NEW q \in Seq(T), NEW S \in SUBSET DOMAIN q
    PROVE  /\ \A command : Holds(KeepAt(q, S), command) => Holds(q, command)
           /\ \A m : Has(KeepAt(q, S), m) => Has(q, m)
           /\ \A i \in S : Has(KeepAt(q, S), q[i])
           /\ \A d : Data(KeepAt(q, S), d) \subseteq Data(q, d)
           /\ \A d : (\A i \in DOMAIN q : IsWrite(q[i], d) => i \in S) =>
                         Data(KeepAt(q, S), d) = Data(q, d)
           /\ \A d : Increasing(q, d) => Increasing(KeepAt(q, S), d)
<1> DEFINE u == KeepAt(q, S)
<1>1. /\ \A k \in DOMAIN u : Nth(S, k) \in S /\ u[k] = q[Nth(S, k)]
      /\ \A k, l \in DOMAIN u : k < l => Nth(S, k) < Nth(S, l)
      /\ \A i \in S : \E k \in DOMAIN u : Nth(S, k) = i
  BY KeepAtParts
<1> HIDE DEF u
<1>2. \A i \in S : i \in DOMAIN q
  OBVIOUS
<1>3. \A command : Holds(u, command) => Holds(q, command)
  BY <1>1, <1>2 DEF Holds
<1>4. \A m : Has(u, m) => Has(q, m)
  BY <1>1, <1>2 DEF Has
<1>5. \A i \in S : Has(u, q[i])
  BY <1>1 DEF Has
<1>6. ASSUME NEW d PROVE Data(u, d) \subseteq Data(q, d)
  BY <1>1, <1>2 DEF Data
<1>7. ASSUME NEW d, \A i \in DOMAIN q : IsWrite(q[i], d) => i \in S
      PROVE  Data(u, d) = Data(q, d)
  <2>1. SUFFICES ASSUME NEW y \in Data(q, d) PROVE y \in Data(u, d)
    BY <1>6
  <2>2. PICK i \in DOMAIN q : IsWrite(q[i], d) /\ y = q[i].data
    BY <2>1 DEF Data
  <2>3. PICK k \in DOMAIN u : Nth(S, k) = i
    BY <1>1, <1>7, <2>2
  <2> QED  BY <1>1, <2>2, <2>3 DEF Data
<1>8. ASSUME NEW d, Increasing(q, d) PROVE Increasing(u, d)
  BY <1>1, <1>2, <1>8 DEF Increasing
<1> QED  BY <1>3, <1>4, <1>5, <1>6, <1>7, <1>8 DEF u

(* A queue has not more of a kind than before, and as many if all of that kind
   are kept. *)
LEMMA NumKeepAt ==
    ASSUME NEW T, NEW q \in Seq(T), NEW S \in SUBSET DOMAIN q, NEW C
    PROVE  /\ Num(KeepAt(q, S), C) <= Num(q, C)
           /\ Positions(q, C) \subseteq S => Num(KeepAt(q, S), C) = Num(q, C)
<1> DEFINE u == KeepAt(q, S)
           f == [k \in Positions(u, C) |-> Nth(S, k)]
<1>1. /\ \A k \in DOMAIN u : Nth(S, k) \in S /\ u[k] = q[Nth(S, k)]
      /\ \A k, l \in DOMAIN u : k < l => Nth(S, k) < Nth(S, l)
      /\ \A i \in S : \E k \in DOMAIN u : Nth(S, k) = i
      /\ u \in Seq(T)
  BY KeepAtParts
<1>2. DOMAIN u \subseteq Nat /\ S \subseteq Nat
  <2>1. DOMAIN u = 1..Len(u) /\ Len(u) \in Nat /\ DOMAIN q = 1..Len(q) /\ Len(q) \in Nat
    BY <1>1, LenProperties
  <2> HIDE DEF u
  <2> QED  BY <2>1
<1> HIDE DEF u
<1>3. IsFiniteSet(Positions(q, C))
  BY NumType
<1>4. f \in [Positions(u, C) -> Positions(q, C)]
  BY <1>1 DEF Positions
<1>5. \A k, l \in Positions(u, C) : f[k] = f[l] => k = l
  <2>1. SUFFICES ASSUME NEW k \in Positions(u, C), NEW l \in Positions(u, C), k # l
                 PROVE  Nth(S, k) # Nth(S, l)
    OBVIOUS
  <2>2. k \in DOMAIN u /\ l \in DOMAIN u /\ k \in Nat /\ l \in Nat
    BY <1>2 DEF Positions
  <2>3. Nth(S, k) \in Nat /\ Nth(S, l) \in Nat
    BY <1>1, <1>2, <2>2
  <2>4. k < l \/ l < k
    BY <2>1, <2>2
  <2> QED  BY <1>1, <2>2, <2>3, <2>4
<1>6. ASSUME Positions(q, C) \subseteq S, NEW i \in Positions(q, C)
      PROVE  \E k \in Positions(u, C) : f[k] = i
  <2>1. PICK k \in DOMAIN u : Nth(S, k) = i
    BY <1>1, <1>6
  <2>2. k \in Positions(u, C)
    BY <1>1, <2>1 DEF Positions
  <2> QED  BY <2>1, <2>2
<1> HIDE DEF f
<1>7. f \in Injection(Positions(u, C), Positions(q, C))
  BY <1>4, <1>5 DEF Injection, IsInjective
<1>8. Num(u, C) <= Num(q, C)
  BY <1>3, <1>7, FS_Injection DEF Num
<1>9. ASSUME Positions(q, C) \subseteq S PROVE Num(u, C) = Num(q, C)
  <2>1. f \in Surjection(Positions(u, C), Positions(q, C))
    BY <1>4, <1>6, <1>9 DEF Surjection
  <2> QED  BY <1>3, <1>7, <2>1, FS_Injection DEF Num
<1> QED  BY <1>8, <1>9 DEF u

(* A queue is a part of it and the rest. *)
LEMMA SplitQueue ==
    ASSUME NEW T, NEW q \in Seq(T), NEW n \in 0..Len(q)
    PROVE  /\ SubSeq(q, 1, n) \in Seq(T) /\ SubSeq(q, n + 1, Len(q)) \in Seq(T)
           /\ q = SubSeq(q, 1, n) \o SubSeq(q, n + 1, Len(q))
<1>1. Len(q) \in Nat /\ n \in Nat /\ n <= Len(q)
  OBVIOUS
<1>2. SubSeq(q, 1, n) \in Seq(T) /\ SubSeq(q, n + 1, Len(q)) \in Seq(T)
  BY <1>1
<1>3. SubSeq(q, 1, n) \o SubSeq(q, n + 1, Len(q)) = SubSeq(q, 1, Len(q))
  <2>1. 1 \in 1..Len(q) + 1 /\ n \in 1 - 1..Len(q) /\ Len(q) \in n..Len(q)
    BY <1>1
  <2> QED  BY <2>1, ConcatAdjacentSubSeq
<1>4. SubSeq(q, 1, Len(q)) = q
  BY SubSeqFull
<1> QED  BY <1>2, <1>3, <1>4
-----------------------------------------------------------------------------
(* Of any two queued Opens the streams differ. *)
OpensDiffer(q) ==
    \A i, j \in DOMAIN q :
        i < j /\ q[i].command = "Open" /\ q[j].command = "Open" =>
            q[i].hostStream # q[j].hostStream

EndsWithConnect(q) == q # <<>> /\ q[Len(q)] = ConnectMessage

NoOpen(q, h) == \A m \in Range(q) : m.command = "Open" => m.hostStream # h

(* a is q with x at its end. *)
LongerBy(q, x, a) ==
    /\ q \in Seq(Message) /\ x \in Message /\ a \in Seq(Message) /\ a # <<>>
    /\ Range(a) = Range(q) \cup {x}
    /\ \A command : Holds(a, command) <=> Holds(q, command) \/ x.command = command
    /\ \A d : Data(a, d) = Data(q, d) \cup (IF IsWrite(x, d) THEN {x.data} ELSE {})
    /\ \A S : Num(a, S) = Num(q, S) + (IF x.command \in S THEN 1 ELSE 0)
    /\ \A d : Increasing(q, d) /\ (IsWrite(x, d) => \A b \in Data(q, d) : b < x.data) =>
                  Increasing(a, d)
    /\ Settled(q) /\ (x.command = "Write" => ~Holds(q, "Connect")) => Settled(a)
    /\ \A D : Passed(q, D)
              /\ (x.command = "Connect" => \A m \in Range(q) : m.deviceStream \notin D) =>
                  Passed(a, D)
    /\ \A D : Clean(q, D)
              /\ (x.command = "Write" /\ ~Holds(q, "Connect") => x.deviceStream \notin D) =>
                  Clean(a, D)
    /\ OpensDiffer(q) /\ (x.command = "Open" => NoOpen(q, x.hostStream)) => OpensDiffer(a)
    /\ EndsWithConnect(a) <=> x = ConnectMessage
    /\ a[1] = IF q = <<>> THEN x ELSE q[1]

(* t is q without x at its front. *)
ShorterBy(q, x, t) ==
    /\ q \in Seq(Message) /\ q # <<>> /\ x \in Message /\ t \in Seq(Message)
    /\ q[1] = x
    /\ Range(q) = Range(t) \cup {x}
    /\ \A command : Holds(q, command) <=> Holds(t, command) \/ x.command = command
    /\ \A d : Data(q, d) = Data(t, d) \cup (IF IsWrite(x, d) THEN {x.data} ELSE {})
    /\ \A S : Num(q, S) = Num(t, S) + (IF x.command \in S THEN 1 ELSE 0)
    /\ \A d : Increasing(q, d) =>
                  /\ Increasing(t, d)
                  /\ IsWrite(x, d) => \A b \in Data(t, d) : x.data < b
    /\ Settled(q) => Settled(t) /\ (x.command = "Connect" => ~Holds(t, "Write"))
    /\ \A D : Passed(q, D) => Passed(t, D) /\ (Holds(t, "Connect") => x.deviceStream \notin D)
    /\ \A D : Clean(q, D) /\ x.command # "Connect" =>
                  Clean(t, D) /\ (x.command = "Write" => x.deviceStream \notin D)
    /\ OpensDiffer(q) => OpensDiffer(t) /\ (x.command = "Open" => NoOpen(t, x.hostStream))
    /\ EndsWithConnect(q) => EndsWithConnect(t) \/ (t = <<>> /\ x = ConnectMessage)

(* k is q without the messages that are not in R. *)
KeptOf(q, R, k) ==
    /\ q \in Seq(Message) /\ k \in Seq(Message)
    /\ Range(k) = Range(q) \cap R
    /\ \A S : Num(k, S) <= Num(q, S)
    /\ \A S : (\A m \in Range(q) : m.command \in S => m \in R) => Num(k, S) = Num(q, S)
    /\ \A d : Increasing(q, d) => Increasing(k, d)
    /\ OpensDiffer(q) => OpensDiffer(k)

(* What a queue holds is told by the messages in it. *)
LEMMA ByRange ==
    ASSUME NEW q
    PROVE  /\ \A command : Holds(q, command) <=> \E m \in Range(q) : m.command = command
           /\ \A d : Data(q, d) = {m.data : m \in {x \in Range(q) : IsWrite(x, d)}}
           /\ \A m : Has(q, m) <=> m \in Range(q)
<1>1. \A i \in DOMAIN q : q[i] \in Range(q)
  BY DEF Range
<1>2. \A m \in Range(q) : \E i \in DOMAIN q : q[i] = m
  BY DEF Range
<1>3. \A command : Holds(q, command) <=> \E m \in Range(q) : m.command = command
  BY <1>1, <1>2 DEF Holds
<1>4. ASSUME NEW d PROVE Data(q, d) = {m.data : m \in {x \in Range(q) : IsWrite(x, d)}}
  BY <1>1, <1>2 DEF Data
<1>5. \A m : Has(q, m) <=> m \in Range(q)
  BY <1>1, <1>2 DEF Has
<1> QED  BY <1>3, <1>4, <1>5

(* Nothing is in the empty queue. *)
LEMMA RangeEmpty == Range(<<>>) = {}
BY DEF Range

(* The queue after a message has been added. *)
LEMMA Longer ==
    ASSUME NEW q \in Seq(Message), NEW x \in Message
    PROVE  LongerBy(q, x, Append(q, x))
<1> DEFINE a == Append(q, x)
           n == Len(q) + 1
<1>1. /\ a \in Seq(Message) /\ Len(a) = n /\ n \in Nat /\ n >= 1
      /\ DOMAIN q = 1..n - 1 /\ DOMAIN a = 1..n
      /\ \A i \in 1..n - 1 : a[i] = q[i]
      /\ a[n] = x
  BY AppendParts
<1>2. Len(q) = n - 1 /\ Len(q) \in Nat
  OBVIOUS
<1>3. /\ \A command : Holds(a, command) <=> Holds(q, command) \/ x.command = command
      /\ \A m : Has(a, m) <=> Has(q, m) \/ x = m
      /\ \A d : Data(a, d) = Data(q, d) \cup (IF IsWrite(x, d) THEN {x.data} ELSE {})
  BY HoldsAppend
<1>4. \A S : Num(a, S) = Num(q, S) + (IF x.command \in S THEN 1 ELSE 0)
  BY NumAppend
<1>5. /\ \A d : Increasing(q, d) /\ (IsWrite(x, d) => \A b \in Data(q, d) : b < x.data) =>
                    Increasing(a, d)
      /\ Settled(q) /\ (x.command = "Write" => ~Holds(q, "Connect")) => Settled(a)
      /\ \A D : Passed(q, D)
                /\ (x.command = "Connect" => \A i \in DOMAIN q : q[i].deviceStream \notin D) =>
                    Passed(a, D)
      /\ \A D : Clean(q, D)
                /\ (x.command = "Write" /\ ~Holds(q, "Connect") => x.deviceStream \notin D) =>
                    Clean(a, D)
  BY OrderAppend
<1> HIDE DEF a, n
<1>6. Range(a) = Range(q) \cup {x}
  <2>1. \A m : m \in Range(a) <=> m \in Range(q) \/ x = m
    BY <1>3, ByRange
  <2> QED  BY <2>1
<1>7. \A i \in DOMAIN q : q[i] \in Range(q)
  BY DEF Range
<1>8. ASSUME OpensDiffer(q), x.command = "Open" => NoOpen(q, x.hostStream)
      PROVE  OpensDiffer(a)
  <2>1. \A i, j \in DOMAIN a : i < j => /\ i \in DOMAIN q /\ a[i] = q[i]
                                        /\ (j \in DOMAIN q /\ a[j] = q[j]) \/ a[j] = x
    BY <1>1
  <2> QED  BY <1>7, <1>8, <2>1 DEF OpensDiffer, NoOpen
<1>9. a # <<>> /\ a[Len(a)] = x
  <2>1. 1 \in DOMAIN a
    BY <1>1
  <2> QED  BY <1>1, <2>1
<1>10. a[1] = IF q = <<>> THEN x ELSE q[1]
  <2>1. CASE q = <<>>
    BY <1>1, <1>2, <2>1
  <2>2. CASE q # <<>>
    <3>1. Len(q) # 0
      BY <2>2, EmptySeq
    <3>2. 1 \in 1..n - 1
      BY <1>1, <1>2, <3>1
    <3> QED  BY <1>1, <2>2, <3>2
  <2> QED  BY <2>1, <2>2
<1>11. \A D : Passed(q, D)
              /\ (x.command = "Connect" => \A m \in Range(q) : m.deviceStream \notin D) =>
                  Passed(a, D)
  BY <1>5, <1>7
<1> QED  BY <1>1, <1>3, <1>4, <1>5, <1>6, <1>8, <1>9, <1>10, <1>11
         DEF LongerBy, EndsWithConnect, a

(* The queue after its first message has been taken. *)
LEMMA Shorter ==
    ASSUME NEW q \in Seq(Message), q # <<>>
    PROVE  ShorterBy(q, Head(q), Tail(q))
<1> DEFINE t == Tail(q)
           x == Head(q)
           n == Len(q)
<1>1. /\ x \in Message /\ x = q[1] /\ t \in Seq(Message) /\ n \in Nat /\ n >= 1
      /\ DOMAIN q = 1..n /\ DOMAIN t = 1..n - 1
      /\ \A i \in 1..n - 1 : t[i] = q[i + 1]
  BY TailParts
<1>2. /\ \A command : Holds(q, command) <=> Holds(t, command) \/ x.command = command
      /\ \A m : Has(q, m) <=> Has(t, m) \/ x = m
      /\ \A d : Data(q, d) = Data(t, d) \cup (IF IsWrite(x, d) THEN {x.data} ELSE {})
  BY HoldsTail
<1>3. \A S : Num(q, S) = Num(t, S) + (IF x.command \in S THEN 1 ELSE 0)
  BY NumTail
<1>4. /\ \A d : Increasing(q, d) =>
                    /\ Increasing(t, d)
                    /\ IsWrite(x, d) => \A b \in Data(t, d) : x.data < b
      /\ Settled(q) => Settled(t) /\ (x.command = "Connect" => ~Holds(t, "Write"))
      /\ \A D : Passed(q, D) =>
                    Passed(t, D) /\ (Holds(t, "Connect") => x.deviceStream \notin D)
      /\ \A D : Clean(q, D) /\ x.command # "Connect" =>
                    Clean(t, D) /\ (x.command = "Write" => x.deviceStream \notin D)
  BY OrderTail
<1>5. Len(t) = n - 1
  BY <1>1
<1> HIDE DEF t, x, n
<1>6. Range(q) = Range(t) \cup {x}
  <2>1. \A m : m \in Range(q) <=> m \in Range(t) \/ x = m
    BY <1>2, ByRange
  <2> QED  BY <2>1
<1>7. \A i \in DOMAIN t : i + 1 \in DOMAIN q /\ t[i] = q[i + 1] /\ i \in Nat /\ 1 < i + 1
  BY <1>1
<1>8. ASSUME OpensDiffer(q)
      PROVE  OpensDiffer(t) /\ (x.command = "Open" => NoOpen(t, x.hostStream))
  <2>1. \A i, j \in DOMAIN t : i < j => i + 1 < j + 1
    BY <1>7
  <2>2. OpensDiffer(t)
    BY <1>7, <1>8, <2>1 DEF OpensDiffer
  <2>3. ASSUME x.command = "Open", NEW m \in Range(t), m.command = "Open"
        PROVE  m.hostStream # x.hostStream
    <3>1. PICK i \in DOMAIN t : t[i] = m
      BY DEF Range
    <3>2. 1 \in DOMAIN q
      BY <1>1
    <3> QED  BY <1>1, <1>7, <1>8, <2>3, <3>1, <3>2 DEF OpensDiffer
  <2> QED  BY <2>2, <2>3 DEF NoOpen
<1>9. ASSUME EndsWithConnect(q)
      PROVE  EndsWithConnect(t) \/ (t = <<>> /\ x = ConnectMessage)
  <2>1. q[n] = ConnectMessage
    BY <1>9 DEF EndsWithConnect, n
  <2>2. CASE t = <<>>
    <3>1. n = 1
      BY <1>1, <1>5, <2>2
    <3> QED  BY <1>1, <2>1, <2>2, <3>1
  <2>3. CASE t # <<>>
    <3>1. Len(t) # 0
      BY <1>1, <2>3, EmptySeq
    <3>2. Len(t) \in DOMAIN t /\ Len(t) + 1 = n
      BY <1>1, <1>5, <3>1
    <3>3. t[Len(t)] = ConnectMessage
      BY <1>7, <2>1, <3>2
    <3> QED  BY <2>3, <3>3 DEF EndsWithConnect
  <2> QED  BY <2>2, <2>3
<1> QED  BY <1>1, <1>2, <1>3, <1>4, <1>6, <1>8, <1>9 DEF ShorterBy, t, x

(* The queue after some messages have been dropped. *)
LEMMA Kept ==
    ASSUME NEW q \in Seq(Message), NEW R
    PROVE  KeptOf(q, R, KeepAt(q, {i \in DOMAIN q : q[i] \in R}))
<1> DEFINE S == {i \in DOMAIN q : q[i] \in R}
           k == KeepAt(q, S)
<1>1. S \in SUBSET DOMAIN q /\ \A i \in DOMAIN q : i \in S <=> q[i] \in R
  OBVIOUS
<1> HIDE DEF S
<1>2. /\ k \in Seq(Message)
      /\ \A i \in DOMAIN k : Nth(S, i) \in S /\ k[i] = q[Nth(S, i)]
      /\ \A i, j \in DOMAIN k : i < j => Nth(S, i) < Nth(S, j)
      /\ \A i \in S : \E j \in DOMAIN k : Nth(S, j) = i
  BY <1>1, KeepAtParts
<1>3. /\ \A i \in S : Has(k, q[i])
      /\ \A d : Increasing(q, d) => Increasing(k, d)
  BY <1>1, HoldsKeepAt
<1>4. ASSUME NEW C
      PROVE  /\ Num(k, C) <= Num(q, C)
             /\ Positions(q, C) \subseteq S => Num(k, C) = Num(q, C)
  BY <1>1, NumKeepAt
<1> HIDE DEF k
<1>5. Range(k) = Range(q) \cap R
  <2>1. ASSUME NEW m \in Range(k) PROVE m \in Range(q) \cap R
    <3>1. PICK i \in DOMAIN k : k[i] = m
      BY DEF Range
    <3> QED  BY <1>1, <1>2, <3>1 DEF Range
  <2>2. ASSUME NEW m \in Range(q) \cap R PROVE m \in Range(k)
    <3>1. PICK i \in DOMAIN q : q[i] = m
      BY DEF Range
    <3>2. i \in S
      BY <1>1, <3>1
    <3> QED  BY <1>3, <3>1, <3>2, ByRange
  <2> QED  BY <2>1, <2>2
<1>6. ASSUME NEW C, \A m \in Range(q) : m.command \in C => m \in R
      PROVE  Num(k, C) = Num(q, C)
  <2>1. Positions(q, C) \subseteq S
    BY <1>1, <1>6 DEF Positions, Range
  <2> QED  BY <1>4, <2>1
<1>7. ASSUME OpensDiffer(q) PROVE OpensDiffer(k)
  BY <1>1, <1>2, <1>7 DEF OpensDiffer
<1> QED  BY <1>2, <1>3, <1>4, <1>5, <1>6, <1>7 DEF KeptOf, k, S
-----------------------------------------------------------------------------
(* o is p followed by q. *)
JoinOf(p, q, o) ==
    /\ p \in Seq(Message) /\ q \in Seq(Message) /\ o \in Seq(Message)
    /\ Range(o) = Range(p) \cup Range(q)
    /\ \A command : Holds(o, command) <=> Holds(p, command) \/ Holds(q, command)
    /\ \A d : Data(o, d) = Data(p, d) \cup Data(q, d)
    /\ \A S : Num(o, S) = Num(p, S) + Num(q, S)
    /\ \A d : Increasing(o, d) <=> Increasing(p, d) /\ Increasing(q, d) /\ Before(p, q, d)
    /\ Settled(o) =>
         /\ Settled(p) /\ Settled(q)
         /\ Holds(p, "Connect") => ~Holds(q, "Write")
    /\ \A D : Passed(o, D) =>
         /\ Passed(p, D) /\ Passed(q, D)
         /\ Holds(q, "Connect") => \A m \in Range(p) : m.deviceStream \notin D
    /\ ~Holds(q, "Connect") =>
         /\ Settled(p) /\ (Holds(p, "Connect") => ~Holds(q, "Write")) => Settled(o)
         /\ \A D : Passed(p, D) => Passed(o, D)
    /\ \A D : Clean(o, D) => Clean(p, D)
    /\ ~Holds(q, "Write") => \A D : Clean(p, D) => Clean(o, D)
    /\ q = <<>> => o = p
    /\ p # <<>> => o # <<>> /\ o[1] = p[1]

(* Two queues, one after the other. *)
LEMMA Joined ==
    ASSUME NEW p \in Seq(Message), NEW q \in Seq(Message)
    PROVE  JoinOf(p, q, p \o q)
<1> DEFINE o == p \o q
           k == Len(p)
           n == Len(q)
<1>1. /\ o \in Seq(Message) /\ k \in Nat /\ n \in Nat
      /\ DOMAIN p = 1..k /\ DOMAIN q = 1..n /\ DOMAIN o = 1..k + n
      /\ \A i \in 1..k : o[i] = p[i]
      /\ \A i \in 1..n : o[k + i] = q[i]
  BY ConcatParts
<1>2. /\ \A command : Holds(o, command) <=> Holds(p, command) \/ Holds(q, command)
      /\ \A m : Has(o, m) <=> Has(p, m) \/ Has(q, m)
      /\ \A d : Data(o, d) = Data(p, d) \cup Data(q, d)
  BY HoldsConcat
<1>3. \A S : Num(o, S) = Num(p, S) + Num(q, S)
  BY NumConcat
<1>4. \A d : Increasing(o, d) <=> Increasing(p, d) /\ Increasing(q, d) /\ Before(p, q, d)
  BY IncreasingConcat
<1>5. /\ Settled(o) => Settled(p) /\ Settled(q)
      /\ Settled(o) /\ Holds(p, "Connect") => ~Holds(q, "Write")
      /\ \A D : Passed(o, D) =>
                   /\ Passed(p, D) /\ Passed(q, D)
                   /\ Holds(q, "Connect") => \A i \in DOMAIN p : p[i].deviceStream \notin D
      /\ \A D : Clean(o, D) => Clean(p, D)
  BY OrderParts
<1>6. q = <<>> => o = p
  OBVIOUS
<1> HIDE DEF o, k, n
<1>7. Range(o) = Range(p) \cup Range(q)
  <2>1. \A m : m \in Range(o) <=> m \in Range(p) \/ m \in Range(q)
    BY <1>2, ByRange
  <2> QED  BY <2>1
<1>8. \A i \in DOMAIN o :
          \/ i \in DOMAIN p /\ o[i] = p[i]
          \/ i - k \in DOMAIN q /\ o[i] = q[i - k] /\ i \notin DOMAIN p
  <2>1. SUFFICES ASSUME NEW i \in DOMAIN o, i \notin DOMAIN p
                 PROVE  i - k \in DOMAIN q /\ o[i] = q[i - k]
    BY <1>1
  <2>2. i \in 1..k + n /\ i - k \in 1..n /\ k + (i - k) = i
    BY <1>1, <2>1
  <2> QED  BY <1>1, <2>2
<1>9. \A i \in DOMAIN o, j \in DOMAIN p : i < j => i \in DOMAIN p
  BY <1>1
<1>10. ASSUME ~Holds(q, "Connect")
       PROVE  /\ Settled(p) /\ (Holds(p, "Connect") => ~Holds(q, "Write")) => Settled(o)
              /\ \A D : Passed(p, D) => Passed(o, D)
  <2>1. \A i \in DOMAIN o : o[i].command = "Connect" => i \in DOMAIN p /\ o[i] = p[i]
    BY <1>8, <1>10 DEF Holds
  <2>2. ASSUME Settled(p), Holds(p, "Connect") => ~Holds(q, "Write") PROVE Settled(o)
    <3>1. SUFFICES ASSUME NEW i \in DOMAIN o, NEW j \in DOMAIN o, i < j,
                          o[i].command = "Connect"
                   PROVE  o[j].command # "Write"
      BY DEF Settled
    <3>2. i \in DOMAIN p /\ o[i] = p[i] /\ ~Holds(q, "Write")
      BY <2>1, <2>2, <3>1 DEF Holds
    <3>3. CASE j \in DOMAIN p /\ o[j] = p[j]
      BY <2>2, <3>1, <3>2, <3>3 DEF Settled
    <3>4. CASE j - k \in DOMAIN q /\ o[j] = q[j - k]
      BY <3>2, <3>4 DEF Holds
    <3> QED  BY <1>8, <3>3, <3>4
  <2>3. ASSUME NEW D, Passed(p, D) PROVE Passed(o, D)
    <3>1. SUFFICES ASSUME NEW i \in DOMAIN o, NEW j \in DOMAIN o, i < j,
                          o[j].command = "Connect"
                   PROVE  o[i].deviceStream \notin D
      BY DEF Passed
    <3>2. j \in DOMAIN p /\ o[j] = p[j] /\ i \in DOMAIN p
      BY <1>9, <2>1, <3>1
    <3>3. o[i] = p[i]
      BY <1>1, <3>2
    <3> QED  BY <2>3, <3>1, <3>2, <3>3 DEF Passed
  <2> QED  BY <2>2, <2>3
<1>11. ASSUME ~Holds(q, "Write"), NEW D, Clean(p, D) PROVE Clean(o, D)
  <2>1. SUFFICES ASSUME NEW i \in DOMAIN o, o[i].command = "Write",
                        \A j \in 1..i : o[j].command # "Connect"
                 PROVE  o[i].deviceStream \notin D
    BY DEF Clean
  <2>2. i \in DOMAIN p /\ o[i] = p[i]
    BY <1>8, <1>11, <2>1 DEF Holds
  <2>3. \A j \in 1..i : j \in DOMAIN p /\ o[j] = p[j]
    BY <1>1, <2>2
  <2> QED  BY <1>11, <2>1, <2>2, <2>3 DEF Clean
<1>12. ASSUME p # <<>> PROVE o # <<>> /\ o[1] = p[1]
  <2>1. k # 0
    BY <1>12, EmptySeq DEF k
  <2>2. 1 \in 1..k /\ 1 \in DOMAIN o
    BY <1>1, <2>1
  <2> QED  BY <1>1, <2>2
<1>13. \A i \in DOMAIN p : p[i] \in Range(p)
  BY DEF Range
<1>14. \A m \in Range(p) : \E i \in DOMAIN p : p[i] = m
  BY DEF Range
<1>15. \A D : Passed(o, D) =>
         /\ Passed(p, D) /\ Passed(q, D)
         /\ Holds(q, "Connect") => \A m \in Range(p) : m.deviceStream \notin D
  BY <1>5, <1>14
<1> QED  BY <1>1, <1>2, <1>3, <1>4, <1>5, <1>6, <1>7, <1>10, <1>11, <1>12, <1>15
         DEF JoinOf, o

(* A message added to what is on the queue is added to all that follows. *)
LEMMA LongerJoin ==
    ASSUME NEW p \in Seq(Message), NEW q \in Seq(Message), NEW x \in Message
    PROVE  LongerBy(p \o q, x, p \o Append(q, x))
<1>1. p \o Append(q, x) = Append(p \o q, x)
  BY AppendConcat
<1>2. p \o q \in Seq(Message)
  BY ConcatParts
<1> QED  BY <1>1, <1>2, Longer

(* The first message taken from the first queue is taken from both. *)
LEMMA ShorterJoin ==
    ASSUME NEW p \in Seq(Message), p # <<>>, NEW q \in Seq(Message)
    PROVE  ShorterBy(p \o q, Head(p), Tail(p) \o q)
<1>1. p \o q # <<>> /\ Head(p \o q) = Head(p) /\ Tail(p \o q) = Tail(p) \o q
  BY TailConcat
<1>2. p \o q \in Seq(Message)
  BY ConcatParts
<1> QED  BY <1>1, <1>2, Shorter

(* What a queue holds are messages. *)
LEMMA OnlyMessages ==
    ASSUME NEW q \in Seq(Message), NEW m \in Range(q)
    PROVE  /\ m \in Message
           /\ m.hostStream \in Nat /\ m.deviceStream \in Nat /\ m.data \in Nat
<1>1. m \in Message
  BY RangeOfSeq
<1> QED  BY <1>1 DEF Message, StreamId
=============================================================================
