--------------------------- MODULE TaskWireProofs ---------------------------
(* What the codec of x/taskreg does for every message.                      *)
EXTENDS TaskWire, NatOrder
LOCAL INSTANCE SequencesExt

-----------------------------------------------------------------------------
(* Buffers.                                                                 *)

LEMMA NoBytes == <<>> \in Buffer /\ Len(<<>>) = 0
BY EmptySeq DEF Buffer

LEMMA Lengths ==
    ASSUME NEW b \in Buffer
    PROVE  /\ Len(b) \in Nat
           /\ Len(b) = 0 <=> b = <<>>
           /\ b \o <<>> = b /\ <<>> \o b = b
BY EmptySeq, LenProperties, ConcatEmptySeq DEF Buffer

LEMMA OneByte ==
    ASSUME NEW v \in Byte
    PROVE  <<v>> \in Buffer /\ Len(<<v>>) = 1 /\ <<v>>[1] = v
<1>1. <<v>> \in Seq({v}) /\ {v} \subseteq Byte
    OBVIOUS
<1>2. <<v>> \in Seq(Byte)
    BY <1>1, SeqMonotonic, Zenon
<1> QED BY <1>2 DEF Buffer

LEMMA Joined ==
    ASSUME NEW a \in Buffer, NEW b \in Buffer
    PROVE  /\ a \o b \in Buffer
           /\ Len(a \o b) = Len(a) + Len(b)
           /\ a \o b = <<>> <=> a = <<>> /\ b = <<>>
BY ConcatProperties, ConcatEqualIffEmpty DEF Buffer

LEMMA Regrouped ==
    ASSUME NEW a \in Buffer, NEW b \in Buffer, NEW c \in Buffer
    PROVE  (a \o b) \o c = a \o (b \o c)
BY ConcatAssociative DEF Buffer

LEMMA FirstByte ==
    ASSUME NEW v \in Byte, NEW b \in Buffer
    PROVE  <<v>> \o b # <<>> /\ Head(<<v>> \o b) = v /\ Tail(<<v>> \o b) = b
<1>1. <<v>> \in Seq(Byte) /\ Len(<<v>>) = 1 /\ b \in Seq(Byte) /\ Len(b) \in Nat
    BY OneByte, Lengths DEF Buffer
<1> DEFINE s == <<v>> \o b
<1>2. /\ s \in Seq(Byte) /\ Len(s) = 1 + Len(b)
      /\ \A i \in 1 .. 1 + Len(b) : s[i] = IF i <= 1 THEN <<v>>[i] ELSE b[i - 1]
    BY <1>1, ConcatProperties
<1> HIDE DEF s
<1>3. s # <<>> /\ s[1] = v
    BY <1>1, <1>2
<1>4. /\ Tail(s) \in Seq(Byte) /\ Len(Tail(s)) = Len(s) - 1
      /\ \A i \in 1 .. Len(Tail(s)) : Tail(s)[i] = s[i + 1]
    BY <1>2, <1>3, HeadTailProperties, Zenon
<1>5. Len(Tail(s)) = Len(b) /\ \A i \in 1 .. Len(b) : Tail(s)[i] = b[i]
    BY <1>1, <1>2, <1>4
<1>6. Tail(s) = b
    BY <1>1, <1>4, <1>5, SeqEqual
<1> QED BY <1>3, <1>6 DEF s

\* Cutting a buffer.
LEMMA Cut ==
    ASSUME NEW b \in Buffer, NEW n \in 0 .. Len(b)
    PROVE  /\ SubSeq(b, 1, n) \in Buffer /\ Len(SubSeq(b, 1, n)) = n
           /\ Drop(b, n) \in Buffer /\ Len(Drop(b, n)) = Len(b) - n
           /\ SubSeq(b, 1, n) \o Drop(b, n) = b
<1>1. b \in Seq(Byte) /\ Len(b) \in Nat /\ \A i \in 1 .. Len(b) : b[i] \in Byte
    BY Lengths, LenProperties DEF Buffer
<1>2. SubSeq(b, 1, n) \in Seq(Byte) /\ Len(SubSeq(b, 1, n)) = n
    BY <1>1, SubSeqProperties
<1>3. SubSeq(b, n + 1, Len(b)) \in Seq(Byte) /\ Len(SubSeq(b, n + 1, Len(b))) = Len(b) - n
    BY <1>1, SubSeqProperties
<1>4. SubSeq(b, 1, n) \o SubSeq(b, n + 1, Len(b)) = SubSeq(b, 1, Len(b))
    <2>1. 1 \in 1 .. Len(b) + 1 /\ n \in (1 - 1) .. Len(b) /\ Len(b) \in n .. Len(b)
        BY <1>1
    <2> QED BY <1>1, <2>1, ConcatAdjacentSubSeq, Zenon
<1>5. SubSeq(b, 1, Len(b)) = b
    BY <1>1, SubSeqFull
<1> QED BY <1>2, <1>3, <1>4, <1>5 DEF Drop, Buffer

LEMMA Cancelled ==
    ASSUME NEW a \in Buffer, NEW b \in Buffer, NEW c \in Buffer, a \o b = a \o c
    PROVE  b = c
BY ConcatSimplifications DEF Buffer

\* The same start and the same length of it: the same rest.
LEMMA SameStart ==
    ASSUME NEW a \in Buffer, NEW b \in Buffer
    PROVE  SubSeq(a \o b, 1, Len(a)) = a /\ Drop(a \o b, Len(a)) = b
<1> DEFINE s == a \o b
<1>1. s \in Buffer /\ Len(s) = Len(a) + Len(b) /\ Len(a) \in Nat /\ Len(b) \in Nat
    BY Joined, Lengths
<1> DEFINE p == SubSeq(s, 1, Len(a))
           q == Drop(s, Len(a))
<1>2. p \in Buffer /\ Len(p) = Len(a) /\ q \in Buffer /\ p \o q = s
    <2>1. Len(a) \in 0 .. Len(s)
        BY <1>1
    <2> HIDE DEF s
    <2> QED BY <1>1, <2>1, Cut
<1>3. \A i \in 1 .. Len(a) : s[i] = a[i]
    BY <1>1, ConcatProperties DEF Buffer
<1>4. \A i \in 1 .. Len(a) : (p \o q)[i] = p[i]
    <2> HIDE DEF p, q
    <2>1. Len(q) \in Nat
        BY <1>2, Lengths
    <2> QED BY <1>1, <1>2, <2>1, ConcatProperties DEF Buffer
<1> HIDE DEF p, q
<1>5. p = a
    BY <1>2, <1>3, <1>4, SeqEqual DEF Buffer
<1>6. q = b
    BY <1>2, <1>5, Cancelled
<1> QED BY <1>5, <1>6 DEF p, q

-----------------------------------------------------------------------------
(* Varints.                                                                 *)

\* The first byte of a long varint, and what is left for the others.
Small(v) == v < 128
Byte1(v) == 128 + (v % 128)
Left(v)  == v \div 128

\* The value of a varint's first byte and of the rest.
Put(x, v) == x - 128 + 128 * v

LEMMA Base128 ==
    ASSUME NEW v \in Nat
    PROVE  /\ Left(v) \in Nat /\ Byte1(v) \in Byte
           /\ ~Small(Byte1(v)) /\ Put(Byte1(v), Left(v)) = v
           /\ ~Small(v) => Left(v) > 0 /\ Left(v) < v
           /\ Small(v) => v \in Byte
BY DEF Byte, Small, Byte1, Left, Put

LEMMA AppendVarintIs ==
    ASSUME NEW v \in Nat
    PROVE  /\ AppendVarint[v] \in Buffer
           /\ Small(v) => AppendVarint[v] = <<v>>
           /\ ~Small(v) => AppendVarint[v] = <<Byte1(v)>> \o AppendVarint[Left(v)]
<1> DEFINE rank == [w \in Nat |-> w]
           stop == {w \in Nat : Small(w)}
           base == [w \in Nat |-> IF Small(w) THEN <<w>> ELSE <<>>]
           next == [w \in Nat |-> Left(w)]
           step == [p \in Nat \X Buffer |-> <<Byte1(p[1])>> \o p[2]]
<1>1. rank \in [Nat -> Nat] /\ next \in [Nat -> Nat]
    BY Base128
<1>2. base \in [Nat -> Buffer]
    BY NoBytes, OneByte, Base128
<1>3. step \in [(Nat \X Buffer) -> Buffer]
    BY OneByte, Base128, Joined
<1>4. \A w \in Nat : w \notin stop => rank[next[w]] < rank[w]
    BY Base128
<1>5. PICK g \in [Nat -> Buffer] :
          g = [w \in Nat |-> IF w \in stop THEN base[w] ELSE step[<<w, g[next[w]]>>]]
    <2> HIDE DEF rank, stop, base, next, step
    <2>1. Descends(Nat, Buffer, rank, stop, base, next, step)
        BY <1>1, <1>2, <1>3, <1>4 DEF Descends
    <2> QED BY <2>1, Recursion
<1> DEFINE Eq(f) == f = [w \in Nat |-> IF Small(w) THEN <<w>> ELSE <<Byte1(w)>> \o f[Left(w)]]
<1>6. Eq(g)
    <2>1. ASSUME NEW w \in Nat
          PROVE  g[w] = IF Small(w) THEN <<w>> ELSE <<Byte1(w)>> \o g[Left(w)]
        <3>1. g[w] = IF w \in stop THEN base[w] ELSE step[<<w, g[next[w]]>>]
            <4> HIDE DEF stop, base, next, step
            <4> QED BY <1>5
        <3>2. next[w] = Left(w) /\ g[next[w]] \in Buffer
            BY Base128
        <3>3. step[<<w, g[next[w]]>>] = <<Byte1(w)>> \o g[Left(w)]
            BY <3>2
        <3> QED BY <3>1, <3>3
    <2>2. g = [w \in Nat |-> g[w]]
        OBVIOUS
    <2> QED BY <2>1, <2>2
<1>7. Eq(AppendVarint)
    BY <1>6, Zenon DEF AppendVarint, Small, Byte1, Left
<1>8. ASSUME NEW w \in Nat
      PROVE  AppendVarint[w] = IF Small(w) THEN <<w>> ELSE <<Byte1(w)>> \o AppendVarint[Left(w)]
    BY <1>7, Zenon
<1>9. Nat \subseteq {w \in Nat : AppendVarint[w] \in Buffer}
    <2> DEFINE P == {w \in Nat : AppendVarint[w] \in Buffer}
    <2>1. ASSUME NEW w \in Nat, \A x \in Nat : rank[x] < rank[w] => x \in P PROVE w \in P
        <3>1. CASE Small(w)
            <4>1. <<w>> \in Buffer
                BY <3>1, OneByte, Base128
            <4> QED BY <1>8, <3>1, <4>1, Zenon
        <3>2. CASE ~Small(w)
            <4>1. Left(w) \in P
                BY <2>1, <3>2, Base128
            <4>2. <<Byte1(w)>> \in Buffer /\ AppendVarint[Left(w)] \in Buffer
                BY <4>1, OneByte, Base128
            <4>3. <<Byte1(w)>> \o AppendVarint[Left(w)] \in Buffer
                <5> HIDE DEF P
                <5> QED BY <4>2, Joined, Zenon
            <4> QED BY <1>8, <3>2, <4>3, Zenon
        <3> QED BY <3>1, <3>2
    <2>2. rank \in [Nat -> Nat]
        OBVIOUS
    <2> HIDE DEF P, rank
    <2>3. Nat \subseteq P
        BY <2>1, <2>2, RankSteps
    <2> QED BY <2>3 DEF P
<1> QED BY <1>8, <1>9

LEMMA SizeVarintIs ==
    ASSUME NEW v \in Nat
    PROVE  SizeVarint[v] = IF Small(v) THEN 1 ELSE 1 + SizeVarint[Left(v)]
<1> DEFINE rank == [w \in Nat |-> w]
           stop == {w \in Nat : Small(w)}
           base == [w \in Nat |-> 1]
           next == [w \in Nat |-> Left(w)]
           step == [p \in Nat \X Nat |-> 1 + p[2]]
<1>1. rank \in [Nat -> Nat] /\ next \in [Nat -> Nat] /\ base \in [Nat -> Nat]
    BY Base128
<1>3. step \in [(Nat \X Nat) -> Nat]
    OBVIOUS
<1>4. \A w \in Nat : w \notin stop => rank[next[w]] < rank[w]
    BY Base128
<1>5. PICK g \in [Nat -> Nat] :
          g = [w \in Nat |-> IF w \in stop THEN base[w] ELSE step[<<w, g[next[w]]>>]]
    <2> HIDE DEF rank, stop, base, next, step
    <2>1. Descends(Nat, Nat, rank, stop, base, next, step)
        BY <1>1, <1>3, <1>4 DEF Descends
    <2> QED BY <2>1, Recursion
<1> DEFINE Eq(f) == f = [w \in Nat |-> IF Small(w) THEN 1 ELSE 1 + f[Left(w)]]
<1>6. Eq(g)
    <2>1. ASSUME NEW w \in Nat
          PROVE  g[w] = IF Small(w) THEN 1 ELSE 1 + g[Left(w)]
        <3>1. g[w] = IF w \in stop THEN base[w] ELSE step[<<w, g[next[w]]>>]
            <4> HIDE DEF stop, base, next, step
            <4> QED BY <1>5
        <3>2. next[w] = Left(w) /\ g[next[w]] \in Nat
            BY Base128
        <3> QED BY <3>1, <3>2
    <2>2. g = [w \in Nat |-> g[w]]
        OBVIOUS
    <2> QED BY <2>1, <2>2
<1>7. Eq(SizeVarint)
    BY <1>6, Zenon DEF SizeVarint, Small, Left
<1> QED BY <1>7, Zenon

\* SizeVarint counts the bytes that AppendVarint writes.
LEMMA VarintSize ==
    ASSUME NEW v \in Nat
    PROVE  /\ AppendVarint[v] \in Buffer
           /\ Len(AppendVarint[v]) = SizeVarint[v] /\ SizeVarint[v] \in Nat \ {0}
<1> DEFINE rank == [w \in Nat |-> w]
           P == {w \in Nat : /\ SizeVarint[w] \in Nat \ {0}
                             /\ Len(AppendVarint[w]) = SizeVarint[w]}
<1>1. ASSUME NEW w \in Nat, \A x \in Nat : rank[x] < rank[w] => x \in P PROVE w \in P
    <2>1. CASE Small(w)
        <3>1. AppendVarint[w] = <<w>> /\ SizeVarint[w] = 1
            BY <2>1, AppendVarintIs, SizeVarintIs
        <3>2. Len(<<w>>) = 1
            BY <2>1, OneByte, Base128
        <3>3. Len(AppendVarint[w]) = SizeVarint[w]
            BY <3>1, <3>2, Zenon
        <3>4. SizeVarint[w] \in Nat \ {0}
            BY <3>1
        <3> QED BY <3>3, <3>4, Zenon
    <2>2. CASE ~Small(w)
        <3>1. Left(w) \in P
            BY <1>1, <2>2, Base128
        <3>2. AppendVarint[w] = <<Byte1(w)>> \o AppendVarint[Left(w)]
            BY <2>2, AppendVarintIs
        <3>3. Len(AppendVarint[w]) = 1 + Len(AppendVarint[Left(w)])
            BY <3>2, AppendVarintIs, OneByte, Base128, Joined
        <3>4. SizeVarint[w] = 1 + SizeVarint[Left(w)]
            BY <2>2, SizeVarintIs
        <3> QED BY <3>1, <3>3, <3>4
    <2> QED BY <2>1, <2>2
<1>2. Nat \subseteq P
    <2>1. rank \in [Nat -> Nat]
        OBVIOUS
    <2> HIDE DEF P, rank
    <2> QED BY <1>1, <2>1, RankSteps
<1> QED BY <1>2, AppendVarintIs

-----------------------------------------------------------------------------
(* Sizes.                                                                   *)

\* No message has a field number above 15: a tag is one byte.
FieldNumber == 1 .. 15
WireTypes   == 0 .. 7

LEMMA FieldNumbers ==
    /\ 1 \in FieldNumber /\ 2 \in FieldNumber /\ 3 \in FieldNumber
    /\ 4 \in FieldNumber /\ 5 \in FieldNumber /\ 6 \in FieldNumber
BY DEF FieldNumber

LEMMA KnownWireTypes == VarintType \in WireTypes /\ BytesType \in WireTypes
BY DEF VarintType, BytesType, WireTypes

LEMMA Tag ==
    ASSUME NEW num \in FieldNumber, NEW typ \in WireTypes
    PROVE  /\ AppendTag(num, typ) = <<8 * num + typ>> /\ 8 * num + typ \in Byte
           /\ AppendTag(num, typ) \in Buffer /\ Len(AppendTag(num, typ)) = 1
           /\ SizeTag(num) = 1
<1>1. /\ 8 * num + typ \in Nat /\ Small(8 * num + typ)
      /\ 8 * num \in Nat /\ Small(8 * num)
    BY DEF Small, FieldNumber, WireTypes
<1>2. AppendVarint[8 * num + typ] = <<8 * num + typ>>
    BY <1>1, AppendVarintIs
<1>3. 8 * num + typ \in Byte
    BY <1>1, Base128
<1>4. SizeVarint[8 * num] = 1
    BY <1>1, SizeVarintIs
<1>5. <<8 * num + typ>> \in Buffer /\ Len(<<8 * num + typ>>) = 1
    BY <1>3, OneByte
<1> QED BY <1>2, <1>3, <1>4, <1>5, Zenon DEF AppendTag, SizeTag

LEMMA BytesSize ==
    ASSUME NEW s \in Buffer
    PROVE  /\ AppendBytes(s) \in Buffer
           /\ Len(AppendBytes(s)) = SizeBytes(Len(s)) /\ SizeBytes(Len(s)) \in Nat
<1>1. Len(s) \in Nat
    BY Lengths
<1>2. /\ AppendVarint[Len(s)] \in Buffer
      /\ Len(AppendVarint[Len(s)]) = SizeVarint[Len(s)] /\ SizeVarint[Len(s)] \in Nat
    BY <1>1, VarintSize
<1> QED BY <1>1, <1>2, Joined DEF AppendBytes, SizeBytes

LEMMA StringSize ==
    ASSUME NEW num \in FieldNumber, NEW s \in Buffer
    PROVE  /\ appendString(num, s) \in Buffer /\ sizeString(num, s) \in Nat
           /\ Len(appendString(num, s)) = sizeString(num, s)
<1>1. CASE s = <<>>
    BY <1>1, NoBytes DEF appendString, sizeString
<1>2. CASE s # <<>>
    <2>1. /\ AppendTag(num, BytesType) \in Buffer /\ Len(AppendTag(num, BytesType)) = 1
          /\ SizeTag(num) = 1
        BY Tag, KnownWireTypes
    <2>2. AppendBytes(s) \in Buffer /\ Len(AppendBytes(s)) = SizeBytes(Len(s))
        BY BytesSize
    <2>3. /\ AppendTag(num, BytesType) \o AppendBytes(s) \in Buffer
          /\ Len(AppendTag(num, BytesType) \o AppendBytes(s)) = 1 + SizeBytes(Len(s))
        BY <2>1, <2>2, Joined
    <2>4. SizeBytes(Len(s)) \in Nat
        BY BytesSize
    <2>5. appendString(num, s) = AppendTag(num, BytesType) \o AppendBytes(s)
        BY <1>2 DEF appendString
    <2>6. sizeString(num, s) = 1 + SizeBytes(Len(s))
        BY <1>2, <2>1 DEF sizeString
    <2> QED BY <2>3, <2>4, <2>5, <2>6
<1> QED BY <1>1, <1>2

LEMMA Uint64Size ==
    ASSUME NEW num \in FieldNumber, NEW v \in Nat
    PROVE  /\ appendUint64(num, v) \in Buffer /\ sizeUint64(num, v) \in Nat
           /\ Len(appendUint64(num, v)) = sizeUint64(num, v)
<1>1. CASE v = 0
    BY <1>1, NoBytes DEF appendUint64, sizeUint64
<1>2. CASE v # 0
    <2>1. /\ AppendTag(num, VarintType) \in Buffer /\ Len(AppendTag(num, VarintType)) = 1
          /\ SizeTag(num) = 1
        BY Tag, KnownWireTypes
    <2>2. /\ AppendVarint[v] \in Buffer /\ Len(AppendVarint[v]) = SizeVarint[v]
          /\ SizeVarint[v] \in Nat
        BY VarintSize
    <2>3. /\ AppendTag(num, VarintType) \o AppendVarint[v] \in Buffer
          /\ Len(AppendTag(num, VarintType) \o AppendVarint[v]) = 1 + SizeVarint[v]
        BY <2>1, <2>2, Joined
    <2>4. appendUint64(num, v) = AppendTag(num, VarintType) \o AppendVarint[v]
        BY <1>2 DEF appendUint64
    <2>5. sizeUint64(num, v) = 1 + SizeVarint[v]
        BY <1>2, <2>1 DEF sizeUint64
    <2> QED BY <2>2, <2>3, <2>4, <2>5
<1> QED BY <1>1, <1>2

LEMMA MessageSize ==
    ASSUME NEW num \in FieldNumber, NEW bz \in Buffer
    PROVE  /\ appendMessage(num, bz) \in Buffer /\ sizeMessage(num, Len(bz)) \in Nat
           /\ Len(appendMessage(num, bz)) = sizeMessage(num, Len(bz))
<1>1. /\ AppendTag(num, BytesType) \in Buffer /\ Len(AppendTag(num, BytesType)) = 1
      /\ SizeTag(num) = 1
    BY Tag, KnownWireTypes
<1>2. /\ AppendBytes(bz) \in Buffer /\ Len(AppendBytes(bz)) = SizeBytes(Len(bz))
      /\ SizeBytes(Len(bz)) \in Nat
    BY BytesSize
<1>3. /\ AppendTag(num, BytesType) \o AppendBytes(bz) \in Buffer
      /\ Len(AppendTag(num, BytesType) \o AppendBytes(bz)) = 1 + SizeBytes(Len(bz))
    BY <1>1, <1>2, Joined
<1>4. sizeMessage(num, Len(bz)) = 1 + SizeBytes(Len(bz))
    BY <1>1 DEF sizeMessage
<1> QED BY <1>2, <1>3, <1>4 DEF appendMessage

LEMMA TaskSize ==
    ASSUME NEW m \in Task
    PROVE  /\ MarshalTask(m) \in Buffer /\ SizeTask(m) \in Nat
           /\ Len(MarshalTask(m)) = SizeTask(m)
<1> DEFINE a == appendUint64(1, m.id)          b == appendString(2, m.title)
           c == appendString(3, m.description) d == appendString(4, m.creator)
           e == appendString(5, m.assignee)    f == appendUint64(6, m.status)
<1>0. /\ m.id \in Nat /\ m.title \in Buffer /\ m.description \in Buffer
      /\ m.creator \in Buffer /\ m.assignee \in Buffer /\ m.status \in Nat
    BY DEF Task
<1>1. /\ a \in Buffer /\ b \in Buffer /\ c \in Buffer
      /\ d \in Buffer /\ e \in Buffer /\ f \in Buffer
    BY <1>0, FieldNumbers, StringSize, Uint64Size
<1>2. /\ Len(a) = sizeUint64(1, m.id) /\ Len(b) = sizeString(2, m.title)
      /\ Len(c) = sizeString(3, m.description) /\ Len(d) = sizeString(4, m.creator)
      /\ Len(e) = sizeString(5, m.assignee) /\ Len(f) = sizeUint64(6, m.status)
    BY <1>0, FieldNumbers, StringSize, Uint64Size
<1>3. MarshalTask(m) = a \o b \o c \o d \o e \o f
    BY DEF MarshalTask
<1> HIDE DEF a, b, c, d, e, f
<1>4. /\ a \o b \in Buffer /\ Len(a \o b) = Len(a) + Len(b)
      /\ a \o b \o c \in Buffer /\ Len(a \o b \o c) = Len(a) + Len(b) + Len(c)
      /\ a \o b \o c \o d \in Buffer
      /\ Len(a \o b \o c \o d) = Len(a) + Len(b) + Len(c) + Len(d)
    BY <1>1, Joined
<1>5. /\ a \o b \o c \o d \o e \in Buffer
      /\ Len(a \o b \o c \o d \o e) = Len(a) + Len(b) + Len(c) + Len(d) + Len(e)
    BY <1>1, <1>4, Joined
<1>6. /\ a \o b \o c \o d \o e \o f \in Buffer
      /\ Len(a \o b \o c \o d \o e \o f)
         = Len(a) + Len(b) + Len(c) + Len(d) + Len(e) + Len(f)
    BY <1>1, <1>5, Joined
<1>7. Len(MarshalTask(m)) = SizeTask(m)
    BY <1>2, <1>3, <1>6 DEF SizeTask
<1> QED BY <1>3, <1>6, <1>7, Lengths

\* The bytes of the first i tasks, and their number.
TaskBytes(b, num, tasks) ==
    b = [i \in 0 .. Len(tasks) |->
            IF i = 0 THEN <<>> ELSE b[i - 1] \o appendMessage(num, MarshalTask(tasks[i]))]

TaskSizes(n, num, tasks) ==
    n = [i \in 0 .. Len(tasks) |->
            IF i = 0 THEN 0 ELSE n[i - 1] + sizeMessage(num, SizeTask(tasks[i]))]

LEMMA TaskBytesIs ==
    ASSUME NEW num \in FieldNumber, NEW tasks \in Seq(Task)
    PROVE  \E b \in [0 .. Len(tasks) -> Buffer] :
               TaskBytes(b, num, tasks) /\ appendTasks(num, tasks) = b[Len(tasks)]
<1> DEFINE D == 0 .. Len(tasks)
           rank == [i \in D |-> i]
           stop == {0}
           base == [i \in D |-> <<>>]
           next == [i \in D |-> IF i = 0 THEN 0 ELSE i - 1]
           piece(i) == appendMessage(num, MarshalTask(tasks[i]))
           step == [p \in D \X Buffer |-> IF p[1] = 0 THEN <<>> ELSE p[2] \o piece(p[1])]
<1>1. Len(tasks) \in Nat /\ \A i \in D : i \in Nat /\ (i # 0 => i - 1 \in D /\ tasks[i] \in Task)
    BY LenProperties
<1>2. \A i \in D : i # 0 => piece(i) \in Buffer
    BY <1>1, TaskSize, MessageSize
<1>3. Descends(D, Buffer, rank, stop, base, next, step)
    <2>1. rank \in [D -> Nat] /\ next \in [D -> D]
        BY <1>1
    <2>2. base \in [D -> Buffer]
        BY NoBytes
    <2>3. step \in [(D \X Buffer) -> Buffer]
        <3>1. ASSUME NEW p \in D \X Buffer
              PROVE  (IF p[1] = 0 THEN <<>> ELSE p[2] \o piece(p[1])) \in Buffer
            <4> HIDE DEF piece, D
            <4>1. p[1] \in D /\ p[2] \in Buffer
                OBVIOUS
            <4>2. CASE p[1] = 0
                BY <4>2, NoBytes
            <4>3. CASE p[1] # 0
                BY <1>2, <4>1, <4>3, Joined
            <4> QED BY <4>2, <4>3
        <3> HIDE DEF D
        <3> QED BY <3>1
    <2>4. \A i \in D : i \notin stop => rank[next[i]] < rank[i]
        BY <1>1
    <2> HIDE DEF D, rank, stop, base, next, step
    <2> QED BY <2>1, <2>2, <2>3, <2>4 DEF Descends
<1>4. PICK g \in [D -> Buffer] :
          g = [i \in D |-> IF i \in stop THEN base[i] ELSE step[<<i, g[next[i]]>>]]
    <2> HIDE DEF D, rank, stop, base, next, step
    <2> QED BY <1>3, Recursion
<1>5. TaskBytes(g, num, tasks)
    <2>1. ASSUME NEW i \in D
          PROVE  g[i] = IF i = 0 THEN <<>> ELSE g[i - 1] \o piece(i)
        <3>1. g[i] = IF i \in stop THEN base[i] ELSE step[<<i, g[next[i]]>>]
            <4> HIDE DEF D, stop, base, next, step
            <4> QED BY <1>4
        <3>2. CASE i = 0
            BY <3>1, <3>2
        <3>3. CASE i # 0
            <4>1. next[i] = i - 1 /\ g[i - 1] \in Buffer
                BY <1>1, <3>3
            <4>2. step[<<i, g[i - 1]>>] = g[i - 1] \o piece(i)
                <5> HIDE DEF D, piece
                <5> QED BY <3>3, <4>1
            <4> QED BY <3>1, <3>3, <4>1, <4>2
        <3> QED BY <3>2, <3>3
    <2>2. g = [i \in D |-> g[i]]
        OBVIOUS
    <2> QED BY <2>1, <2>2, Zenon DEF TaskBytes
<1> DEFINE h == CHOOSE b : TaskBytes(b, num, tasks)
<1>6. TaskBytes(h, num, tasks)
    BY <1>5, Zenon
<1>7. appendTasks(num, tasks) = h[Len(tasks)]
    BY Zenon DEF appendTasks, TaskBytes
<1> HIDE DEF h
<1>8. \A i \in D : h[i] = IF i = 0 THEN <<>> ELSE h[i - 1] \o piece(i)
    BY <1>6, Zenon DEF TaskBytes
<1>9. D \subseteq {i \in D : h[i] \in Buffer}
    <2> DEFINE P == {i \in D : h[i] \in Buffer}
    <2>1. ASSUME NEW i \in D, \A j \in D : rank[j] < rank[i] => j \in P PROVE i \in P
        <3>1. CASE i = 0
            BY <1>8, <3>1, NoBytes
        <3>2. CASE i # 0
            <4>1. i - 1 \in D /\ rank[i - 1] < rank[i]
                BY <1>1, <3>2
            <4>2. h[i - 1] \in Buffer /\ piece(i) \in Buffer
                <5> HIDE DEF piece, rank
                <5> QED BY <1>2, <2>1, <3>2, <4>1
            <4> HIDE DEF piece
            <4> QED BY <1>8, <3>2, <4>2, Joined
        <3> QED BY <3>1, <3>2
    <2>2. rank \in [D -> Nat]
        BY <1>1
    <2> HIDE DEF P, rank, D
    <2>3. D \subseteq P
        BY <2>1, <2>2, RankSteps
    <2> QED BY <2>3 DEF P
<1>10. h \in [D -> Buffer]
    <2>1. h = [i \in D |-> h[i]]
        BY <1>6, Zenon DEF TaskBytes
    <2> HIDE DEF D
    <2> QED BY <1>9, <2>1
<1> QED BY <1>6, <1>7, <1>10, Zenon

LEMMA TasksSize ==
    ASSUME NEW num \in FieldNumber, NEW tasks \in Seq(Task)
    PROVE  /\ appendTasks(num, tasks) \in Buffer /\ sizeTasks(num, tasks) \in Nat
           /\ Len(appendTasks(num, tasks)) = sizeTasks(num, tasks)
<1> DEFINE D == 0 .. Len(tasks)
           piece(i) == appendMessage(num, MarshalTask(tasks[i]))
           size(i) == sizeMessage(num, SizeTask(tasks[i]))
<1>1. Len(tasks) \in Nat /\ \A i \in D : i \in Nat /\ (i # 0 => i - 1 \in D /\ tasks[i] \in Task)
    BY LenProperties
<1>2. \A i \in D : i # 0 => piece(i) \in Buffer /\ Len(piece(i)) = size(i) /\ size(i) \in Nat
    BY <1>1, TaskSize, MessageSize
<1>3. PICK b \in [D -> Buffer] :
          TaskBytes(b, num, tasks) /\ appendTasks(num, tasks) = b[Len(tasks)]
    BY TaskBytesIs, Zenon
<1>4. \A i \in D : b[i] = IF i = 0 THEN <<>> ELSE b[i - 1] \o piece(i)
    BY <1>3, Zenon DEF TaskBytes
<1>5. ASSUME NEW i \in D
      PROVE  Len(b[i]) = IF i = 0 THEN 0 ELSE Len(b[i - 1]) + size(i)
    <2>1. CASE i = 0
        BY <1>4, <2>1, NoBytes
    <2>2. CASE i # 0
        <3>1. b[i - 1] \in Buffer /\ piece(i) \in Buffer /\ Len(piece(i)) = size(i)
            <4> HIDE DEF piece, size
            <4> QED BY <1>1, <1>2, <1>3, <2>2
        <3> HIDE DEF piece, size
        <3> QED BY <1>4, <2>2, <3>1, Joined
    <2> QED BY <2>1, <2>2
<1> DEFINE n == CHOOSE f : TaskSizes(f, num, tasks)
<1>6. TaskSizes(n, num, tasks)
    <2> DEFINE g == [i \in D |-> Len(b[i])]
    <2>1. ASSUME NEW i \in D PROVE g[i] = IF i = 0 THEN 0 ELSE g[i - 1] + size(i)
        <3>1. i # 0 => i - 1 \in D
            BY <1>1
        <3> HIDE DEF D, size
        <3> QED BY <1>5, <3>1
    <2>2. g = [i \in D |-> g[i]]
        OBVIOUS
    <2>3. TaskSizes(g, num, tasks)
        BY <2>1, <2>2, Zenon DEF TaskSizes
    <2> QED BY <2>3, Zenon
<1>7. sizeTasks(num, tasks) = n[Len(tasks)]
    BY Zenon DEF sizeTasks, TaskSizes
<1> HIDE DEF n
<1>8. \A i \in D : n[i] = IF i = 0 THEN 0 ELSE n[i - 1] + size(i)
    BY <1>6, Zenon DEF TaskSizes
<1>9. ASSUME NEW i \in Nat, i \in D => n[i] = Len(b[i]) /\ n[i] \in Nat
      PROVE  i + 1 \in D => n[i + 1] = Len(b[i + 1]) /\ n[i + 1] \in Nat
    <2> SUFFICES ASSUME i + 1 \in D PROVE n[i + 1] = Len(b[i + 1]) /\ n[i + 1] \in Nat
        OBVIOUS
    <2>1. i \in D /\ i + 1 # 0 /\ (i + 1) - 1 = i
        BY <1>1
    <2>2. n[i + 1] = n[i] + size(i + 1) /\ Len(b[i + 1]) = Len(b[i]) + size(i + 1)
        <3> HIDE DEF D, size
        <3> QED BY <1>5, <1>8, <2>1
    <2>3. size(i + 1) \in Nat
        <3> HIDE DEF D, size
        <3> QED BY <1>2, <2>1
    <2> HIDE DEF D, size
    <2> QED BY <1>9, <2>1, <2>2, <2>3
<1>10. n[Len(tasks)] = Len(b[Len(tasks)]) /\ n[Len(tasks)] \in Nat
    <2> DEFINE P == {i \in Nat : i \in D => n[i] = Len(b[i]) /\ n[i] \in Nat}
    <2>1. 0 \in P
        BY <1>1, <1>8, <1>4, NoBytes
    <2>2. Nat \subseteq P
        <3>1. \A i \in Nat : i \in P => i + 1 \in P
            BY <1>9
        <3> HIDE DEF P
        <3> QED BY <2>1, <3>1, NatSteps
    <2> QED BY <1>1, <2>2
<1> QED BY <1>1, <1>3, <1>7, <1>10

-----------------------------------------------------------------------------
(* Size and Marshal of every message.                                       *)

\* What Size counts is what Marshal writes.
Fits(t, m) ==
    Marshal(t, m) \in Buffer /\ Size(t, m) \in Nat /\ Len(Marshal(t, m)) = Size(t, m)

LEMMA JoinedSize ==
    ASSUME NEW a \in Buffer, NEW b \in Buffer, NEW i \in Nat, NEW j \in Nat,
           Len(a) = i, Len(b) = j
    PROVE  a \o b \in Buffer /\ Len(a \o b) = i + j /\ i + j \in Nat
BY Joined

LEMMA PageSizes ==
    /\ \A m \in PageRequest : MarshalPageRequest(m) \in Buffer
    /\ \A m \in PageResponse : MarshalPageResponse(m) \in Buffer
<1>1. ASSUME NEW m \in PageRequest PROVE MarshalPageRequest(m) \in Buffer
    <2>1. m.key \in Buffer /\ m.offset \in Nat /\ m.limit \in Nat
        BY DEF PageRequest
    <2>2. /\ appendString(1, m.key) \in Buffer /\ appendUint64(2, m.offset) \in Buffer
          /\ appendUint64(3, m.limit) \in Buffer
        BY <2>1, FieldNumbers, StringSize, Uint64Size
    <2> QED BY <2>2, Joined DEF MarshalPageRequest
<1>2. ASSUME NEW m \in PageResponse PROVE MarshalPageResponse(m) \in Buffer
    <2>1. m.next_key \in Buffer /\ m.total \in Nat
        BY DEF PageResponse
    <2>2. appendString(1, m.next_key) \in Buffer /\ appendUint64(2, m.total) \in Buffer
        BY <2>1, FieldNumbers, StringSize, Uint64Size
    <2> QED BY <2>2, Joined DEF MarshalPageResponse
<1> QED BY <1>1, <1>2

LEMMA PageSize ==
    ASSUME NEW num \in FieldNumber, NEW bz \in Buffer
    PROVE  /\ appendPage(num, bz) \in Buffer /\ sizePage(num, bz) \in Nat
           /\ Len(appendPage(num, bz)) = sizePage(num, bz)
BY NoBytes, MessageSize DEF appendPage, sizePage

LEMMA PageBz ==
    /\ \A p \in Optional(PageRequest) : PageRequestBz(p) \in Buffer
    /\ \A p \in Optional(PageResponse) : PageResponseBz(p) \in Buffer
<1>1. ASSUME NEW S, NEW p \in Optional(S) PROVE p = <<>> \/ p[1] \in S
    <2>1. p \in Seq(S)
        BY DEF Optional
    <2>2. p # <<>> => 1 \in 1 .. Len(p)
        BY <2>1, EmptySeq
    <2> QED BY <2>1, <2>2, ElementOfSeq
<1> QED BY <1>1, PageSizes, NoBytes DEF PageRequestBz, PageResponseBz

LEMMA MessagesFit ==
    ASSUME NEW t \in DOMAIN Struct \ {"PageRequest", "PageResponse"}, NEW m \in Struct[t]
    PROVE  Fits(t, m)
<1> USE FieldNumbers
<1>1. CASE t = "Task"
    <2>1. m \in Task
        BY <1>1 DEF Struct
    <2>2. Marshal(t, m) = MarshalTask(m) /\ Size(t, m) = SizeTask(m)
        BY <1>1 DEF Marshal, Size, Empty
    <2> QED BY <2>1, <2>2, TaskSize DEF Fits
<1>2. CASE t = "MsgCreateTask"
    <2>1. m \in MsgCreateTask
        BY <1>2 DEF Struct
    <2>2. Marshal(t, m) = MarshalMsgCreateTask(m) /\ Size(t, m) = SizeMsgCreateTask(m)
        BY <1>2 DEF Marshal, Size, Empty
    <2>3. m.creator \in Buffer /\ m.title \in Buffer /\ m.description \in Buffer
        BY <2>1 DEF MsgCreateTask
    <2> DEFINE a == appendString(1, m.creator)     i == sizeString(1, m.creator)
               b == appendString(2, m.title)       j == sizeString(2, m.title)
               c == appendString(3, m.description) k == sizeString(3, m.description)
    <2>4. /\ a \in Buffer /\ i \in Nat /\ Len(a) = i
          /\ b \in Buffer /\ j \in Nat /\ Len(b) = j
          /\ c \in Buffer /\ k \in Nat /\ Len(c) = k
        BY <2>3, StringSize
    <2>5. MarshalMsgCreateTask(m) = a \o b \o c /\ SizeMsgCreateTask(m) = i + j + k
        BY DEF MarshalMsgCreateTask, SizeMsgCreateTask
    <2> HIDE DEF a, b, c, i, j, k
    <2>6. a \o b \in Buffer /\ Len(a \o b) = i + j /\ i + j \in Nat
        BY <2>4, JoinedSize
    <2>7. a \o b \o c \in Buffer /\ Len(a \o b \o c) = i + j + k
        BY <2>4, <2>6, Joined
    <2> QED BY <2>2, <2>4, <2>5, <2>7 DEF Fits
<1>3. CASE t = "MsgCreateTaskResponse"
    <2>1. m.id \in Nat
        BY <1>3 DEF Struct, MsgCreateTaskResponse
    <2>2. Marshal(t, m) = appendUint64(1, m.id) /\ Size(t, m) = sizeUint64(1, m.id)
        BY <1>3 DEF Marshal, Size, Empty, MarshalMsgCreateTaskResponse, SizeMsgCreateTaskResponse
    <2> QED BY <2>1, <2>2, Uint64Size DEF Fits
<1>4. CASE t = "MsgAssignTask"
    <2>1. m.creator \in Buffer /\ m.task_id \in Nat /\ m.assignee \in Buffer
        BY <1>4 DEF Struct, MsgAssignTask
    <2>2. Marshal(t, m) = MarshalMsgAssignTask(m) /\ Size(t, m) = SizeMsgAssignTask(m)
        BY <1>4 DEF Marshal, Size, Empty
    <2> DEFINE a == appendString(1, m.creator)  i == sizeString(1, m.creator)
               b == appendUint64(2, m.task_id)  j == sizeUint64(2, m.task_id)
               c == appendString(3, m.assignee) k == sizeString(3, m.assignee)
    <2>4. /\ a \in Buffer /\ i \in Nat /\ Len(a) = i
          /\ b \in Buffer /\ j \in Nat /\ Len(b) = j
          /\ c \in Buffer /\ k \in Nat /\ Len(c) = k
        BY <2>1, StringSize, Uint64Size
    <2>5. MarshalMsgAssignTask(m) = a \o b \o c /\ SizeMsgAssignTask(m) = i + j + k
        BY DEF MarshalMsgAssignTask, SizeMsgAssignTask
    <2> HIDE DEF a, b, c, i, j, k
    <2>6. a \o b \in Buffer /\ Len(a \o b) = i + j /\ i + j \in Nat
        BY <2>4, JoinedSize
    <2>7. a \o b \o c \in Buffer /\ Len(a \o b \o c) = i + j + k
        BY <2>4, <2>6, Joined
    <2> QED BY <2>2, <2>4, <2>5, <2>7 DEF Fits
<1>5. CASE t = "MsgCompleteTask"
    <2>1. m.assignee \in Buffer /\ m.task_id \in Nat
        BY <1>5 DEF Struct, MsgCompleteTask
    <2>2. Marshal(t, m) = MarshalMsgCompleteTask(m) /\ Size(t, m) = SizeMsgCompleteTask(m)
        BY <1>5 DEF Marshal, Size, Empty
    <2> DEFINE a == appendString(1, m.assignee) i == sizeString(1, m.assignee)
               b == appendUint64(2, m.task_id)  j == sizeUint64(2, m.task_id)
    <2>4. /\ a \in Buffer /\ i \in Nat /\ Len(a) = i
          /\ b \in Buffer /\ j \in Nat /\ Len(b) = j
        BY <2>1, StringSize, Uint64Size
    <2>5. MarshalMsgCompleteTask(m) = a \o b /\ SizeMsgCompleteTask(m) = i + j
        BY DEF MarshalMsgCompleteTask, SizeMsgCompleteTask
    <2> HIDE DEF a, b, i, j
    <2> QED BY <2>2, <2>4, <2>5, JoinedSize DEF Fits
<1>6. CASE t \in Empty
    <2>1. Marshal(t, m) = <<>> /\ Size(t, m) = 0
        BY <1>6 DEF Marshal, Size, Empty
    <2> QED BY <2>1, NoBytes DEF Fits
<1>7. CASE t = "QueryTaskRequest"
    <2>1. m.id \in Nat
        BY <1>7 DEF Struct, QueryTaskRequest
    <2>2. Marshal(t, m) = appendUint64(1, m.id) /\ Size(t, m) = sizeUint64(1, m.id)
        BY <1>7 DEF Marshal, Size, Empty, MarshalQueryTaskRequest, SizeQueryTaskRequest
    <2> QED BY <2>1, <2>2, Uint64Size DEF Fits
<1>8. CASE t = "QueryTaskResponse"
    <2>1. m.task \in Task
        BY <1>8 DEF Struct, QueryTaskResponse
    <2> DEFINE a == MarshalTask(m.task)
               i == SizeTask(m.task)
    <2>2. a \in Buffer /\ i \in Nat /\ Len(a) = i /\ (a = <<>> <=> i = 0)
        BY <2>1, TaskSize, Lengths
    <2>3. /\ Marshal(t, m) = IF a = <<>> THEN <<>> ELSE appendMessage(1, a)
          /\ Size(t, m) = IF i = 0 THEN 0 ELSE sizeMessage(1, i)
        BY <1>8 DEF Marshal, Size, Empty, MarshalQueryTaskResponse, SizeQueryTaskResponse
    <2> HIDE DEF a, i
    <2>4. appendMessage(1, a) \in Buffer /\ Len(appendMessage(1, a)) = sizeMessage(1, i)
          /\ sizeMessage(1, i) \in Nat
        BY <2>2, MessageSize
    <2> QED BY <2>2, <2>3, <2>4, NoBytes DEF Fits
<1>9. CASE t = "QueryListTasksRequest"
    <2>1. PageRequestBz(m.pagination) \in Buffer
        BY <1>9, PageBz DEF Struct, QueryListTasksRequest
    <2>2. /\ Marshal(t, m) = appendPage(1, PageRequestBz(m.pagination))
          /\ Size(t, m) = sizePage(1, PageRequestBz(m.pagination))
        BY <1>9 DEF Marshal, Size, Empty, MarshalQueryListTasksRequest, SizeQueryListTasksRequest
    <2> QED BY <2>1, <2>2, PageSize DEF Fits
<1>10. CASE t = "QueryListTasksResponse"
    <2>1. m.tasks \in Seq(Task) /\ PageResponseBz(m.pagination) \in Buffer
        BY <1>10, PageBz DEF Struct, QueryListTasksResponse
    <2>2. Marshal(t, m) = MarshalQueryListTasksResponse(m) /\ Size(t, m) = SizeQueryListTasksResponse(m)
        BY <1>10 DEF Marshal, Size, Empty
    <2> DEFINE a == appendTasks(1, m.tasks) i == sizeTasks(1, m.tasks)
               b == appendPage(2, PageResponseBz(m.pagination))
               j == sizePage(2, PageResponseBz(m.pagination))
    <2>4. /\ a \in Buffer /\ i \in Nat /\ Len(a) = i
          /\ b \in Buffer /\ j \in Nat /\ Len(b) = j
        BY <2>1, TasksSize, PageSize
    <2>5. MarshalQueryListTasksResponse(m) = a \o b /\ SizeQueryListTasksResponse(m) = i + j
        BY DEF MarshalQueryListTasksResponse, SizeQueryListTasksResponse
    <2> HIDE DEF a, b, i, j
    <2> QED BY <2>2, <2>4, <2>5, JoinedSize DEF Fits
<1>11. CASE t = "GenesisState"
    <2>1. m.tasks \in Seq(Task) /\ m.next_task_id \in Nat
        BY <1>11 DEF Struct, GenesisState
    <2>2. Marshal(t, m) = MarshalGenesisState(m) /\ Size(t, m) = SizeGenesisState(m)
        BY <1>11 DEF Marshal, Size, Empty
    <2> DEFINE a == appendTasks(1, m.tasks) i == sizeTasks(1, m.tasks)
               b == appendUint64(2, m.next_task_id) j == sizeUint64(2, m.next_task_id)
    <2>4. /\ a \in Buffer /\ i \in Nat /\ Len(a) = i
          /\ b \in Buffer /\ j \in Nat /\ Len(b) = j
        BY <2>1, TasksSize, Uint64Size
    <2>5. MarshalGenesisState(m) = a \o b /\ SizeGenesisState(m) = i + j
        BY DEF MarshalGenesisState, SizeGenesisState
    <2> HIDE DEF a, b, i, j
    <2> QED BY <2>2, <2>4, <2>5, JoinedSize DEF Fits
<1> QED
    <2>1. t \in {"Task", "MsgCreateTask", "MsgCreateTaskResponse", "MsgAssignTask",
                 "MsgCompleteTask", "QueryTaskRequest", "QueryTaskResponse",
                 "QueryListTasksRequest", "QueryListTasksResponse", "GenesisState"} \cup Empty
        BY DEF Struct, Empty
    <2> QED BY <1>1, <1>2, <1>3, <1>4, <1>5, <1>6, <1>7, <1>8, <1>9, <1>10, <1>11, <2>1

-----------------------------------------------------------------------------
(* What is sent.                                                            *)

\* A message of the type that the call is about.
SentTyped == type \in DOMAIN Message /\ sent \in Struct[type]

LEMMA MethodTypes ==
    \A name \in DOMAIN Methods :
        Methods[name].request \in DOMAIN Message /\ Methods[name].response \in DOMAIN Message
BY MessageAssumption DEF Methods, Both, MsgMethods, QueryMethods, Struct

\* Every call is of a method of the services.
Calling == phase = "request" => method \in DOMAIN Methods

SentInv == SentTyped /\ Calling

LEMMA SendTyped ==
    ASSUME NEW t \in DOMAIN Message, NEW m \in Message[t], NEW ph, Send(t, m, ph)
    PROVE  SentTyped'
BY MessageAssumption DEF Send, SentTyped

LEMMA SentStep ==
    ASSUME SentInv, [Next]_vars
    PROVE  SentInv'
<1> USE DEF SentInv, Calling
<1>1. CASE UNCHANGED vars
    BY <1>1 DEF vars, SentTyped
<1>2. ASSUME NEW name \in DOMAIN Methods, NEW in \in Message[Methods[name].request],
             Invoke(name, in)
      PROVE  SentInv'
    <2>1. Methods[name].request \in DOMAIN Message /\ method' = name
        BY <1>2, MethodTypes DEF Invoke
    <2>2. Send(Methods[name].request, in, "request")
        BY <1>2 DEF Invoke
    <2> QED BY <2>1, <2>2, SendTyped
<1>3. ASSUME NEW t \in Saved, NEW m \in Message[t], Save(t, m) PROVE SentInv'
    <2>1. t \in DOMAIN Message
        BY MessageAssumption DEF Saved, Struct
    <2>2. Send(t, m, "saved") /\ phase' = "saved"
        BY <1>3 DEF Save, Send
    <2> QED BY <2>1, <2>2, SendTyped
<1>4. CASE Decode
    <2>1. type' = type /\ sent' = sent /\ method' = method /\ phase' \in {phase, "done"}
        BY <1>4 DEF Decode
    <2> QED BY <2>1 DEF SentTyped
<1>5. ASSUME phase = "request", NEW out \in Message[Methods[method].response], Handle(out)
      PROVE  SentInv'
    <2>1. Methods[method].response \in DOMAIN Message
        BY <1>5, MethodTypes
    <2>2. Send(Methods[method].response, out, "response") /\ phase' = "response"
        BY <1>5 DEF Handle, Send
    <2> QED BY <1>5, <2>1, <2>2, SendTyped
<1>6. CASE HandlerFails
    BY <1>6 DEF HandlerFails, SentTyped
<1>7. CASE Return
    BY <1>7 DEF Return, SentTyped
<1> QED BY <1>1, <1>2, <1>3, <1>4, <1>5, <1>6, <1>7 DEF Next, Answer

LEMMA SentInit == Init => SentInv
<1> SUFFICES ASSUME Init PROVE SentInv
    OBVIOUS
<1>1. NewTask \in Task
    BY NoBytes DEF NewTask, Task
<1> QED BY <1>1, MessageAssumption DEF Init, SentInv, SentTyped, Calling, Struct

\* What is sent is always a message of its type.
THEOREM AlwaysSentTyped == Spec => []SentInv
<1>1. SentInv /\ [Next]_vars => SentInv'
    BY SentStep
<1> QED BY SentInit, <1>1, PTL DEF Spec

\* Size counts exactly the bytes that Marshal writes, for every message of every
\* type: so the buffers of MarshalTo and MarshalToSizedBuffer, which the caller
\* makes Size bytes long, are filled exactly (tx.pb.go, query.pb.go, types.pb.go,
\* genesis.pb.go).
THEOREM SizesFit == Spec => []SizeFits
<1>1. SentInv => SizeFits
    <2>1. SentInv => type \in DOMAIN Struct \ {"PageRequest", "PageResponse"} /\ sent \in Struct[type]
        BY MessageAssumption DEF SentInv, SentTyped
    <2> QED BY <2>1, MessagesFit DEF Fits, SizeFits
<1> QED BY <1>1, AlwaysSentTyped, PTL

-----------------------------------------------------------------------------
(* Reading varints.                                                         *)

Value == [v : Nat, n : Int]

LEMMA PutType == \A x \in Byte, v \in Nat : ~Small(x) => Put(x, v) \in Nat
BY DEF Byte, Small, Put

LEMMA BytesLeft ==
    ASSUME NEW b \in Buffer, b # <<>>
    PROVE  /\ Head(b) \in Byte /\ Head(b) \in Nat
           /\ Tail(b) \in Buffer /\ Len(Tail(b)) = Len(b) - 1 /\ Len(Tail(b)) < Len(b)
<1>1. b \in Seq(Byte) /\ Len(b) \in Nat
    BY Lengths DEF Buffer
<1>2. Head(b) \in Byte /\ Tail(b) \in Seq(Byte) /\ Len(Tail(b)) = Len(b) - 1
    BY <1>1, HeadTailProperties
<1>3. \A x \in Byte : x \in Nat
    BY DEF Byte
<1>4. Head(b) \in Nat
    BY <1>2, <1>3, Zenon
<1> QED BY <1>1, <1>2, <1>4 DEF Buffer

LEMMA FirstAndRest ==
    ASSUME NEW b \in Buffer, b # <<>>
    PROVE  b = <<Head(b)>> \o Tail(b)
<1>1. b \in Seq(Byte)
    BY DEF Buffer
<1>3. b = <<b[1]>> \o SubSeq(b, 1 + 1, Len(b)) /\ Tail(b) = SubSeq(b, 2, Len(b))
    <2>1. 1 \in 1 .. Len(b) /\ Len(b) \in 1 .. Len(b)
        BY <1>1, EmptySeq
    <2>2. SubSeq(b, 1, Len(b)) = b
        BY <1>1, SubSeqFull
    <2>3. SubSeq(b, 1, Len(b)) = <<b[1]>> \o SubSeq(b, 1 + 1, Len(b))
        BY <1>1, <2>1, SubSeqRecursiveFirst, Zenon
    <2> QED BY <1>1, <2>2, <2>3, TailIsSubSeq
<1>4. Head(b) = b[1] /\ 1 + 1 = 2
    OBVIOUS
<1> QED BY <1>3, <1>4

\* Decoding one byte of a varint, given what the rest decodes to.
VarintStep(b, more) ==
    IF b = <<>> THEN BadValue
    ELSE IF Small(Head(b)) THEN [v |-> Head(b), n |-> 1]
    ELSE IF more.n < 0 THEN BadValue
    ELSE [v |-> Put(Head(b), more.v), n |-> more.n + 1]

LEMMA VarintStepType ==
    ASSUME NEW b \in Buffer, NEW more \in Value
    PROVE  VarintStep(b, more) \in Value
<1>1. BadValue \in Value
    BY DEF BadValue, Value
<1>2. CASE b = <<>>
    BY <1>1, <1>2 DEF VarintStep
<1>3. CASE b # <<>>
    <2>1. Head(b) \in Byte /\ Head(b) \in Nat
        BY <1>3, BytesLeft
    <2>2. more.v \in Nat /\ more.n \in Int
        BY DEF Value
    <2>3. CASE Small(Head(b))
        BY <1>3, <2>1, <2>3 DEF VarintStep, Value
    <2>4. CASE ~Small(Head(b))
        BY <1>1, <1>3, <2>1, <2>2, <2>4, PutType DEF VarintStep, Value
    <2> QED BY <2>3, <2>4
<1> QED BY <1>2, <1>3

LEMMA ConsumeVarintIs ==
    ASSUME NEW b \in Buffer
    PROVE  /\ b = <<>> => ConsumeVarint[b] = BadValue
           /\ b # <<>> => ConsumeVarint[b] = VarintStep(b, ConsumeVarint[Tail(b)])
<1> DEFINE rank == [s \in Buffer |-> Len(s)]
           stop == {<<>>}
           base == [s \in Buffer |-> BadValue]
           next == [s \in Buffer |-> IF s = <<>> THEN <<>> ELSE Tail(s)]
           step == [p \in Buffer \X Value |-> VarintStep(p[1], p[2])]
<1>1. Descends(Buffer, Value, rank, stop, base, next, step)
    <2>1. rank \in [Buffer -> Nat] /\ next \in [Buffer -> Buffer]
        BY Lengths, BytesLeft, NoBytes
    <2>2. base \in [Buffer -> Value]
        BY DEF BadValue, Value
    <2>3. step \in [(Buffer \X Value) -> Value]
        BY VarintStepType
    <2>4. \A s \in Buffer : s \notin stop => rank[next[s]] < rank[s]
        BY BytesLeft, Lengths
    <2> HIDE DEF rank, stop, base, next, step
    <2> QED BY <2>1, <2>2, <2>3, <2>4 DEF Descends
<1>2. PICK g \in [Buffer -> Value] :
          g = [s \in Buffer |-> IF s \in stop THEN base[s] ELSE step[<<s, g[next[s]]>>]]
    <2> HIDE DEF rank, stop, base, next, step
    <2> QED BY <1>1, Recursion
<1> DEFINE Eq(f) == f = [s \in Buffer |-> VarintStep(s, f[Tail(s)])]
<1>3. Eq(g)
    <2>1. ASSUME NEW s \in Buffer PROVE g[s] = VarintStep(s, g[Tail(s)])
        <3>1. g[s] = IF s \in stop THEN base[s] ELSE step[<<s, g[next[s]]>>]
            <4> HIDE DEF stop, base, next, step
            <4> QED BY <1>2
        <3>2. CASE s = <<>>
            BY <3>1, <3>2 DEF VarintStep
        <3>3. CASE s # <<>>
            <4>1. next[s] = Tail(s) /\ g[Tail(s)] \in Value
                BY <3>3, BytesLeft
            <4>2. step[<<s, g[Tail(s)]>>] = VarintStep(s, g[Tail(s)])
                BY <4>1
            <4> QED BY <3>1, <3>3, <4>1, <4>2
        <3> QED BY <3>2, <3>3
    <2>2. g = [s \in Buffer |-> g[s]]
        OBVIOUS
    <2> QED BY <2>1, <2>2
<1>4. Eq(ConsumeVarint)
    BY <1>3, Zenon DEF ConsumeVarint, VarintStep, Small, Put
<1>5. ConsumeVarint[b] = VarintStep(b, ConsumeVarint[Tail(b)])
    BY <1>4, Zenon
<1> QED BY <1>5 DEF VarintStep

LEMMA ConsumeVarintType ==
    ASSUME NEW b \in Buffer
    PROVE  ConsumeVarint[b] \in Value /\ ConsumeVarint[b].n \in {-1} \cup 1 .. Len(b)
<1> DEFINE rank == [s \in Buffer |-> Len(s)]
           P == {s \in Buffer : /\ ConsumeVarint[s] \in Value
                                /\ ConsumeVarint[s].n \in {-1} \cup 1 .. Len(s)}
<1>1. ASSUME NEW s \in Buffer, \A x \in Buffer : rank[x] < rank[s] => x \in P PROVE s \in P
    <2>1. CASE s = <<>>
        BY <2>1, ConsumeVarintIs DEF BadValue, Value
    <2>2. CASE s # <<>>
        <3>1. Tail(s) \in P
            BY <1>1, <2>2, BytesLeft, Lengths
        <3>2. ConsumeVarint[s] = VarintStep(s, ConsumeVarint[Tail(s)])
            BY <2>2, ConsumeVarintIs
        <3>3. ConsumeVarint[s] \in Value
            BY <3>1, <3>2, VarintStepType
        <3>4. /\ ConsumeVarint[Tail(s)].n \in {-1} \cup 1 .. Len(Tail(s))
              /\ Len(Tail(s)) = Len(s) - 1 /\ Len(s) \in Nat /\ Len(s) # 0
            BY <2>2, <3>1, BytesLeft, Lengths
        <3>5. ConsumeVarint[s].n \in {-1} \cup 1 .. Len(s)
            BY <2>2, <3>2, <3>4 DEF VarintStep, BadValue
        <3> QED BY <3>3, <3>5
    <2> QED BY <2>1, <2>2
<1>2. rank \in [Buffer -> Nat]
    BY Lengths
<1>3. Buffer \subseteq P
    <2> HIDE DEF rank, P
    <2> QED BY <1>1, <1>2, RankSteps
<1> QED BY <1>3

LEMMA JoinedHead ==
    ASSUME NEW b \in Buffer, b # <<>>, NEW r \in Buffer
    PROVE  b \o r # <<>> /\ Head(b \o r) = Head(b) /\ Tail(b \o r) = Tail(b) \o r
<1> DEFINE h == Head(b)
           t == Tail(b)
<1>1. h \in Byte /\ t \in Buffer /\ b = <<h>> \o t
    BY BytesLeft, FirstAndRest
<1> HIDE DEF h, t
<1>2. <<h>> \in Buffer
    BY <1>1, OneByte
<1>3. b \o r = <<h>> \o (t \o r) /\ t \o r \in Buffer
    BY <1>1, <1>2, Joined, Regrouped
<1>4. <<h>> \o (t \o r) # <<>> /\ Head(<<h>> \o (t \o r)) = h /\ Tail(<<h>> \o (t \o r)) = t \o r
    BY <1>1, <1>3, FirstByte
<1> QED BY <1>3, <1>4, Zenon DEF h, t

\* More bytes after a varint do not change what is read.
LEMMA VarintLocal ==
    ASSUME NEW b \in Buffer, NEW r \in Buffer, ConsumeVarint[b].n >= 0
    PROVE  ConsumeVarint[b \o r] = ConsumeVarint[b]
<1> DEFINE rank == [s \in Buffer |-> Len(s)]
           P == {s \in Buffer : ConsumeVarint[s].n >= 0 => ConsumeVarint[s \o r] = ConsumeVarint[s]}
<1>1. ASSUME NEW s \in Buffer, \A x \in Buffer : rank[x] < rank[s] => x \in P PROVE s \in P
    <2> SUFFICES ASSUME ConsumeVarint[s].n >= 0 PROVE ConsumeVarint[s \o r] = ConsumeVarint[s]
        OBVIOUS
    <2>1. s # <<>>
        BY ConsumeVarintIs DEF BadValue
    <2>2. /\ s \o r \in Buffer /\ s \o r # <<>> /\ Head(s \o r) = Head(s)
          /\ Tail(s \o r) = Tail(s) \o r
        BY <2>1, Joined, JoinedHead
    <2>3. /\ ConsumeVarint[s] = VarintStep(s, ConsumeVarint[Tail(s)])
          /\ ConsumeVarint[s \o r] = VarintStep(s \o r, ConsumeVarint[Tail(s) \o r])
        BY <2>1, <2>2, ConsumeVarintIs
    <2>4. CASE Small(Head(s))
        BY <2>1, <2>2, <2>3, <2>4 DEF VarintStep
    <2>5. CASE ~Small(Head(s))
        <3>1. Tail(s) \in P
            BY <1>1, <2>1, BytesLeft
        <3>2. ~(ConsumeVarint[Tail(s)].n < 0)
            BY <2>1, <2>3, <2>5 DEF VarintStep, BadValue
        <3>3. ConsumeVarint[Tail(s)].n >= 0
            BY <2>1, <3>2, BytesLeft, ConsumeVarintType DEF Value
        <3>4. ConsumeVarint[Tail(s) \o r] = ConsumeVarint[Tail(s)]
            BY <3>1, <3>3
        <3> QED BY <2>1, <2>2, <2>3, <3>4 DEF VarintStep
    <2> QED BY <2>4, <2>5
<1>2. rank \in [Buffer -> Nat]
    BY Lengths
<1>3. Buffer \subseteq P
    <2> HIDE DEF rank, P
    <2> QED BY <1>1, <1>2, RankSteps
<1> QED BY <1>3

\* A varint that was written is read.
LEMMA VarintRead ==
    ASSUME NEW v \in Nat
    PROVE  ConsumeVarint[AppendVarint[v]] = [v |-> v, n |-> Len(AppendVarint[v])]
<1> DEFINE rank == [w \in Nat |-> w]
           P == {w \in Nat : ConsumeVarint[AppendVarint[w]] = [v |-> w, n |-> Len(AppendVarint[w])]}
<1>1. ASSUME NEW w \in Nat, \A x \in Nat : rank[x] < rank[w] => x \in P PROVE w \in P
    <2>1. CASE Small(w)
        <3>1. w \in Byte /\ AppendVarint[w] = <<w>> /\ <<w>> \in Buffer /\ Len(<<w>>) = 1
            BY <2>1, Base128, AppendVarintIs, OneByte
        <3>2. <<w>> # <<>> /\ Head(<<w>>) = w
            OBVIOUS
        <3>3. ConsumeVarint[<<w>>] = VarintStep(<<w>>, ConsumeVarint[Tail(<<w>>)])
            BY <3>1, <3>2, ConsumeVarintIs
        <3>4. ConsumeVarint[<<w>>] = [v |-> w, n |-> 1]
            BY <2>1, <3>2, <3>3, Zenon DEF VarintStep
        <3> QED BY <3>1, <3>4, Zenon
    <2>2. CASE ~Small(w)
        <3> DEFINE x == Byte1(w)
                   y == Left(w)
                   s == AppendVarint[y]
        <3>1. /\ x \in Byte /\ ~Small(x) /\ y \in Nat /\ Put(x, y) = w /\ y \in P /\ s \in Buffer
              /\ AppendVarint[w] = <<x>> \o s
            <4>1. x \in Byte /\ ~Small(x) /\ y \in Nat /\ Put(x, y) = w
                BY Base128
            <4>2. y \in P
                BY <1>1, <2>2, Base128
            <4>3. s \in Buffer
                BY Base128, AppendVarintIs
            <4>4. AppendVarint[w] = <<x>> \o s
                BY <2>2, AppendVarintIs
            <4> QED BY <4>1, <4>2, <4>3, <4>4
        <3>2. ConsumeVarint[s] = [v |-> y, n |-> Len(s)] /\ Len(s) \in Nat
            BY <3>1, Lengths
        <3> HIDE DEF x, y, s
        <3>3. /\ <<x>> \o s \in Buffer /\ <<x>> \o s # <<>> /\ Len(<<x>> \o s) = 1 + Len(s)
              /\ Head(<<x>> \o s) = x /\ Tail(<<x>> \o s) = s
            BY <3>1, OneByte, Joined, FirstByte
        <3>4. ConsumeVarint[<<x>> \o s] = VarintStep(<<x>> \o s, ConsumeVarint[s])
            BY <3>3, ConsumeVarintIs
        <3>5. ConsumeVarint[<<x>> \o s] = [v |-> Put(x, y), n |-> Len(s) + 1]
            BY <3>1, <3>2, <3>3, <3>4 DEF VarintStep
        <3>6. Len(s) + 1 = Len(<<x>> \o s)
            BY <3>2, <3>3
        <3> QED BY <3>1, <3>5, <3>6, Zenon
    <2> QED BY <2>1, <2>2
<1>2. rank \in [Nat -> Nat]
    OBVIOUS
<1>3. Nat \subseteq P
    <2> HIDE DEF rank, P
    <2> QED BY <1>1, <1>2, RankSteps
<1> QED BY <1>3

-----------------------------------------------------------------------------
(* Reading fields.                                                          *)

LEMMA DropJoined ==
    ASSUME NEW b \in Buffer, NEW r \in Buffer, NEW n \in 0 .. Len(b)
    PROVE  Drop(b \o r, n) = Drop(b, n) \o r
<1> DEFINE p == SubSeq(b, 1, n)
           d == Drop(b, n)
<1>1. p \in Buffer /\ Len(p) = n /\ d \in Buffer /\ p \o d = b
    BY Cut
<1> HIDE DEF p, d
<1>2. b \o r = p \o (d \o r) /\ d \o r \in Buffer
    <2>1. d \o r \in Buffer
        BY <1>1, Joined
    <2>2. (p \o d) \o r = p \o (d \o r)
        BY <1>1, Regrouped
    <2> QED BY <1>1, <2>1, <2>2
<1>3. Drop(p \o (d \o r), Len(p)) = d \o r
    BY <1>1, <1>2, SameStart
<1> QED BY <1>1, <1>2, <1>3, Zenon DEF d

LEMMA Middle ==
    ASSUME NEW b \in Buffer, NEW r \in Buffer, NEW n \in Nat, NEW k \in Nat, n + k <= Len(b)
    PROVE  /\ SubSeq(b \o r, n + 1, n + k) = SubSeq(b, n + 1, n + k)
           /\ SubSeq(b, n + 1, n + k) \in Buffer
<1>1. b \in Seq(Byte) /\ r \in Seq(Byte) /\ Len(b) \in Nat /\ n + 1 \in Int /\ n + k \in Int
    BY Lengths DEF Buffer
<1>2. \A i \in n + 1 .. n + k : b[i] \in Byte
    BY <1>1, ElementOfSeq
<1>3. SubSeq(b, n + 1, n + k) \in Seq(Byte)
    BY <1>1, <1>2, SubSeqProperties
<1>4. CASE k = 0
    <2>1. n + k < n + 1
        BY <1>4
    <2> QED BY <1>1, <1>3, <2>1, SubSeqEmpty DEF Buffer
<1>5. CASE k # 0
    <2>1. n + 1 \in 1 .. Len(b) /\ n + k \in 1 .. Len(b)
        BY <1>1, <1>5
    <2> QED BY <1>1, <1>3, <2>1, SubSeqOfConcat1 DEF Buffer
<1> QED BY <1>4, <1>5

\* A reading of a buffer of length len: a value of type V, or an error.
Reading(x, V, len) == x.n >= 0 => x.v \in V /\ x.n \in 0 .. len

LEMMA BytesLocal ==
    ASSUME NEW b \in Buffer
    PROVE  /\ ConsumeBytes(b).n \in Int
           /\ Reading(ConsumeBytes(b), Buffer, Len(b))
           /\ \A r \in Buffer : ConsumeBytes(b).n >= 0 => ConsumeBytes(b \o r) = ConsumeBytes(b)
<1> DEFINE size == ConsumeVarint[b]
           ok   == ~(size.n < 0 \/ size.v > Len(b) - size.n)
<1>1. size.n \in {-1} \cup 1 .. Len(b) /\ size.v \in Nat /\ Len(b) \in Nat /\ size.n \in Int
    BY ConsumeVarintType, Lengths DEF Value
<1>2. ~ok => ConsumeBytes(b) = BadValue
    BY Zenon DEF ConsumeBytes
<1>3. ok => ConsumeBytes(b) = [v |-> SubSeq(b, size.n + 1, size.n + size.v), n |-> size.n + size.v]
    BY Zenon DEF ConsumeBytes
<1>4. CASE ~ok
    BY <1>2, <1>4 DEF BadValue, Reading
<1>5. CASE ok
    <2>1. size.n \in Nat /\ size.n + size.v <= Len(b) /\ size.n >= 0
        BY <1>1, <1>5
    <2>2. SubSeq(b, size.n + 1, size.n + size.v) \in Buffer
        <3> HIDE DEF size
        <3> QED BY <1>1, <2>1, NoBytes, Middle
    <2>3. size.n + size.v \in 0 .. Len(b) /\ size.n + size.v \in Int
        BY <1>1, <2>1
    <2>4. Reading(ConsumeBytes(b), Buffer, Len(b)) /\ ConsumeBytes(b).n \in Int
        <3> DEFINE val == SubSeq(b, size.n + 1, size.n + size.v)
                   len == size.n + size.v
                   x   == ConsumeBytes(b)
        <3>1. x = [v |-> val, n |-> len]
            BY <1>3, <1>5
        <3>2. val \in Buffer /\ len \in 0 .. Len(b) /\ len \in Int
            BY <2>2, <2>3
        <3> HIDE DEF val, len, x
        <3>3. x.v = val /\ x.n = len
            BY <3>1
        <3>4. Reading(x, Buffer, Len(b)) /\ x.n \in Int
            BY <3>2, <3>3 DEF Reading
        <3> QED BY <3>4 DEF x
    <2>5. ASSUME NEW r \in Buffer PROVE ConsumeBytes(b \o r) = ConsumeBytes(b)
        <3>1. ConsumeVarint[b \o r] = size
            BY <2>1, VarintLocal
        <3>2. Len(b \o r) = Len(b) + Len(r) /\ Len(r) \in Nat
            BY Joined, Lengths
        <3>3. ~(size.n < 0 \/ size.v > Len(b \o r) - size.n)
            <4> HIDE DEF size
            <4> QED BY <1>1, <2>1, <3>2
        <3>4. ConsumeBytes(b \o r)
              = [v |-> SubSeq(b \o r, size.n + 1, size.n + size.v), n |-> size.n + size.v]
            <4> HIDE DEF size
            <4> QED BY <3>1, <3>3, Zenon DEF ConsumeBytes
        <3>5. SubSeq(b \o r, size.n + 1, size.n + size.v) = SubSeq(b, size.n + 1, size.n + size.v)
            <4> HIDE DEF size
            <4> QED BY <1>1, <2>1, Middle
        <3> HIDE DEF size, ok
        <3> QED BY <1>3, <1>5, <3>4, <3>5, Zenon
    <2> QED BY <2>4, <2>5
<1> QED BY <1>4, <1>5

LEMMA BytesRead ==
    ASSUME NEW s \in Buffer
    PROVE  ConsumeBytes(AppendBytes(s)) = [v |-> s, n |-> Len(AppendBytes(s))]
<1> DEFINE a == AppendVarint[Len(s)]
           b == a \o s
<1>1. Len(s) \in Nat /\ a \in Buffer /\ Len(a) \in Nat
    BY Lengths, VarintSize
<1>2. ConsumeVarint[a] = [v |-> Len(s), n |-> Len(a)]
    BY <1>1, VarintRead
<1> HIDE DEF a
<1>3. ConsumeVarint[b] = [v |-> Len(s), n |-> Len(a)]
    BY <1>1, <1>2, VarintLocal
<1>4. Len(b) = Len(a) + Len(s)
    BY <1>1, Joined
<1>5. SubSeq(b, Len(a) + 1, Len(a) + Len(s)) = s
    BY <1>1, <1>4, SameStart DEF Drop
<1> DEFINE size == ConsumeVarint[b]
<1>6. size.v = Len(s) /\ size.n = Len(a) /\ ~(size.n < 0 \/ size.v > Len(b) - size.n)
    BY <1>1, <1>3, <1>4
<1>7. ConsumeBytes(b) = [v |-> SubSeq(b, size.n + 1, size.n + size.v), n |-> size.n + size.v]
    <2> HIDE DEF b
    <2> QED BY <1>6, Zenon DEF ConsumeBytes
<1>8. AppendBytes(s) = b
    BY DEF AppendBytes, a
<1> HIDE DEF b, size
<1> QED BY <1>4, <1>5, <1>6, <1>7, <1>8, Zenon

LEMMA TagParts ==
    /\ \A v \in Nat : v >= 8 => v \div 8 \in Nat /\ v % 8 \in 0 .. 7 /\ v \div 8 > 0
    /\ \A num \in FieldNumber, typ \in 0 .. 7 :
           /\ 8 * num + typ \in Nat /\ 8 * num + typ >= 8
           /\ (8 * num + typ) \div 8 = num /\ (8 * num + typ) % 8 = typ
BY DEF FieldNumber

LEMMA TagLocal ==
    ASSUME NEW b \in Buffer
    PROVE  /\ ConsumeTag(b).n \in Int
           /\ ConsumeTag(b).n >= 0 =>
                  /\ ConsumeTag(b).n \in 1 .. Len(b)
                  /\ ConsumeTag(b).num \in Nat \ {0} /\ ConsumeTag(b).typ \in 0 .. 7
                  /\ \A r \in Buffer : ConsumeTag(b \o r) = ConsumeTag(b)
<1> DEFINE tag == ConsumeVarint[b]
           x   == ConsumeTag(b)
<1>1. tag.n \in {-1} \cup 1 .. Len(b) /\ tag.v \in Nat /\ Len(b) \in Nat
    BY ConsumeVarintType, Lengths DEF Value
<1>2. /\ x.num = tag.v \div 8 /\ x.typ = tag.v % 8
      /\ x.n = IF tag.v < 8 THEN -1 ELSE tag.n
    BY DEF ConsumeTag
<1>3. ASSUME x.n >= 0
      PROVE  /\ x.n \in 1 .. Len(b) /\ x.num \in Nat \ {0} /\ x.typ \in 0 .. 7
             /\ \A r \in Buffer : ConsumeTag(b \o r) = x
    <2>1. tag.n >= 0 /\ tag.v >= 8
        <3> HIDE DEF tag, x
        <3> QED BY <1>1, <1>2, <1>3
    <2>2. x.n \in 1 .. Len(b) /\ x.num \in Nat \ {0} /\ x.typ \in 0 .. 7
        <3> HIDE DEF tag, x
        <3> QED BY <1>1, <1>2, <2>1, TagParts
    <2>3. ASSUME NEW r \in Buffer PROVE ConsumeTag(b \o r) = x
        <3>1. ConsumeVarint[b \o r] = tag
            BY <2>1, VarintLocal
        <3> HIDE DEF tag
        <3> DEFINE y == [num |-> tag.v \div 8, typ |-> tag.v % 8,
                         n |-> IF tag.v < 8 THEN -1 ELSE tag.n]
        <3>2. ConsumeTag(b \o r) = y
            BY <3>1, Zenon DEF ConsumeTag
        <3>3. x = y
            BY Zenon DEF ConsumeTag, tag
        <3> HIDE DEF x, y
        <3> QED BY <3>2, <3>3, Zenon
    <2> QED BY <2>2, <2>3
<1>4. x.n \in Int
    <2> HIDE DEF tag, x
    <2> QED BY <1>1, <1>2
<1> QED BY <1>3, <1>4

LEMMA TagRead ==
    ASSUME NEW num \in FieldNumber, NEW typ \in WireTypes
    PROVE  ConsumeTag(AppendTag(num, typ)) = [num |-> num, typ |-> typ, n |-> 1]
<1> DEFINE v == 8 * num + typ
           b == AppendVarint[v]
<1>1. v \in Nat /\ v >= 8 /\ v \div 8 = num /\ v % 8 = typ
    BY TagParts DEF WireTypes
<1>2. ConsumeVarint[b] = [v |-> v, n |-> Len(b)]
    <2> HIDE DEF v
    <2> QED BY <1>1, VarintRead
<1>3. AppendTag(num, typ) = b /\ Len(b) = 1
    BY Tag DEF AppendTag
<1> HIDE DEF v, b
<1>4. ConsumeVarint[b].v = v /\ ConsumeVarint[b].n = 1 /\ ~(v < 8)
    BY <1>1, <1>2, <1>3
<1> QED BY <1>1, <1>3, <1>4, Zenon DEF ConsumeTag

LEMMA SkipLocal ==
    ASSUME NEW b \in Buffer, NEW typ
    PROVE  /\ skipField(typ, b).n \in Int
           /\ skipField(typ, b).n >= 0 =>
                  /\ skipField(typ, b).n \in 0 .. Len(b)
                  /\ \A r \in Buffer : skipField(typ, b \o r) = skipField(typ, b)
<1>1. \A c : skipField(typ, c) = [v |-> <<>>, n |-> ConsumeFieldValue(typ, c)]
    BY DEF skipField
<1>2. \A r \in Buffer : Len(b \o r) = Len(b) + Len(r) /\ Len(r) \in Nat /\ Len(b) \in Nat
    BY Joined, Lengths
<1>3. Len(b) \in Nat
    BY Lengths
<1> SUFFICES /\ ConsumeFieldValue(typ, b) \in Int
             /\ ConsumeFieldValue(typ, b) >= 0 =>
                    /\ ConsumeFieldValue(typ, b) \in 0 .. Len(b)
                    /\ \A r \in Buffer : ConsumeFieldValue(typ, b \o r) = ConsumeFieldValue(typ, b)
    BY <1>1
<1>4. CASE typ = VarintType
    <2>1. \A c : ConsumeFieldValue(typ, c) = ConsumeVarint[c].n
        BY <1>4 DEF ConsumeFieldValue, VarintType, BytesType, Fixed32Type, Fixed64Type
    <2> QED BY <1>3, <2>1, ConsumeVarintType, VarintLocal DEF Value
<1>5. CASE typ = BytesType
    <2>1. \A c : ConsumeFieldValue(typ, c) = ConsumeBytes(c).n
        BY <1>5 DEF ConsumeFieldValue, VarintType, BytesType, Fixed32Type, Fixed64Type
    <2> QED BY <1>3, <2>1, BytesLocal DEF Reading
<1>6. CASE typ = Fixed32Type
    <2>1. \A c : ConsumeFieldValue(typ, c) = IF Len(c) < 4 THEN -1 ELSE 4
        BY <1>6 DEF ConsumeFieldValue, FixedSize, VarintType, BytesType, Fixed32Type, Fixed64Type
    <2>2. CASE Len(b) < 4
        BY <2>1, <2>2
    <2>3. CASE ~(Len(b) < 4)
        <3>1. ConsumeFieldValue(typ, b) = 4 /\ 4 \in 0 .. Len(b)
            BY <1>3, <2>1, <2>3
        <3>2. ASSUME NEW r \in Buffer PROVE ConsumeFieldValue(typ, b \o r) = 4
            <4>1. ~(Len(b \o r) < 4)
                BY <1>2, <2>3
            <4> QED BY <2>1, <4>1
        <3> HIDE DEF ConsumeFieldValue
        <3> QED BY <3>1, <3>2
    <2> QED BY <2>2, <2>3
<1>7. CASE typ = Fixed64Type
    <2>1. \A c : ConsumeFieldValue(typ, c) = IF Len(c) < 8 THEN -1 ELSE 8
        BY <1>7 DEF ConsumeFieldValue, FixedSize, VarintType, BytesType, Fixed32Type, Fixed64Type
    <2>2. CASE Len(b) < 8
        BY <2>1, <2>2
    <2>3. CASE ~(Len(b) < 8)
        <3>1. ConsumeFieldValue(typ, b) = 8 /\ 8 \in 0 .. Len(b)
            BY <1>3, <2>1, <2>3
        <3>2. ASSUME NEW r \in Buffer PROVE ConsumeFieldValue(typ, b \o r) = 8
            <4>1. ~(Len(b \o r) < 8)
                BY <1>2, <2>3
            <4> QED BY <2>1, <4>1
        <3> HIDE DEF ConsumeFieldValue
        <3> QED BY <3>1, <3>2
    <2> QED BY <2>2, <2>3
<1>8. CASE typ \notin {VarintType, BytesType, Fixed32Type, Fixed64Type}
    <2>1. \A c : ConsumeFieldValue(typ, c) = -1
        BY <1>8 DEF ConsumeFieldValue
    <2> QED BY <2>1
<1> QED BY <1>4, <1>5, <1>6, <1>7, <1>8

\* How Unmarshal of type t reads the value of a field.
FieldValue(t, num, typ, b) ==
    IF num \notin DOMAIN Cases[t] THEN skipField(typ, b)
    ELSE IF Cases[t][num].kind = "varint" THEN ConsumeVarint[b]
    ELSE ConsumeBytes(b)

\* The values that a case takes.
ValueType(t, num) ==
    IF num \notin DOMAIN Cases[t] THEN {<<>>}
    ELSE IF Cases[t][num].kind = "varint" THEN Nat
    ELSE Buffer

LEMMA FieldIs ==
    ASSUME NEW t, NEW b, NEW tag, tag = ConsumeTag(b),
           NEW val, val = FieldValue(t, tag.num, tag.typ, Drop(b, tag.n))
    PROVE  Field(t, b) = IF tag.n < 0 THEN NoField
                         ELSE IF val.n < 0 THEN NoField
                         ELSE [num |-> tag.num, v |-> val.v, n |-> tag.n + val.n]
BY Zenon DEF Field, FieldValue

LEMMA FieldValueLocal ==
    ASSUME NEW t, NEW num, NEW typ, NEW b \in Buffer
    PROVE  /\ FieldValue(t, num, typ, b).n \in Int
           /\ FieldValue(t, num, typ, b).n >= 0 =>
                  /\ FieldValue(t, num, typ, b).n \in 0 .. Len(b)
                  /\ FieldValue(t, num, typ, b).v \in ValueType(t, num)
                  /\ \A r \in Buffer : FieldValue(t, num, typ, b \o r) = FieldValue(t, num, typ, b)
<1>0. Len(b) \in Nat
    BY Lengths
<1>1. CASE num \notin DOMAIN Cases[t]
    <2>1. \A c : FieldValue(t, num, typ, c) = skipField(typ, c)
        BY <1>1 DEF FieldValue
    <2>2. skipField(typ, b).v = <<>> /\ ValueType(t, num) = {<<>>}
        BY <1>1 DEF skipField, ValueType
    <2> QED BY <2>1, <2>2, SkipLocal
<1>2. CASE num \in DOMAIN Cases[t] /\ Cases[t][num].kind = "varint"
    <2>1. \A c : FieldValue(t, num, typ, c) = ConsumeVarint[c]
        BY <1>2 DEF FieldValue
    <2>2. ValueType(t, num) = Nat
        BY <1>2 DEF ValueType
    <2> QED BY <1>0, <2>1, <2>2, ConsumeVarintType, VarintLocal DEF Value
<1>3. CASE num \in DOMAIN Cases[t] /\ Cases[t][num].kind # "varint"
    <2>1. \A c : FieldValue(t, num, typ, c) = ConsumeBytes(c)
        BY <1>3 DEF FieldValue
    <2>2. ValueType(t, num) = Buffer
        BY <1>3 DEF ValueType
    <2> QED BY <1>0, <2>1, <2>2, BytesLocal DEF Reading
<1> QED BY <1>1, <1>2, <1>3

\* Reading a field looks at its own bytes only.
LEMMA FieldLocal ==
    ASSUME NEW t, NEW b \in Buffer
    PROVE  /\ Field(t, b).n \in Int
           /\ Field(t, b).n >= 0 =>
                  /\ Field(t, b).n \in 1 .. Len(b)
                  /\ Field(t, b).v \in ValueType(t, Field(t, b).num)
                  /\ \A r \in Buffer : Field(t, b \o r) = Field(t, b)
<1> DEFINE tag  == ConsumeTag(b)
           rest == Drop(b, tag.n)
           val  == FieldValue(t, tag.num, tag.typ, rest)
           x    == [num |-> tag.num, v |-> val.v, n |-> tag.n + val.n]
<1>1. tag.n \in Int /\ Len(b) \in Nat
    BY TagLocal, Lengths
<1>2. Field(t, b) = IF tag.n < 0 THEN NoField ELSE IF val.n < 0 THEN NoField ELSE x
    <2> HIDE DEF tag
    <2> QED BY FieldIs DEF tag
<1>3. CASE tag.n < 0
    BY <1>2, <1>3 DEF NoField
<1>4. CASE tag.n >= 0
    <2>1. tag.n \in 1 .. Len(b) /\ rest \in Buffer /\ Len(rest) = Len(b) - tag.n
        BY <1>4, TagLocal, Cut
    <2>2. /\ val.n \in Int
          /\ val.n >= 0 =>
                 val.n \in 0 .. Len(rest) /\ val.v \in ValueType(t, tag.num)
        <3> HIDE DEF tag, rest
        <3> QED BY <2>1, FieldValueLocal
    <2>3. CASE val.n < 0
        <3> HIDE DEF tag, val
        <3> QED BY <1>1, <1>2, <1>4, <2>3 DEF NoField
    <2>4. CASE val.n >= 0
        <3>1. Field(t, b) = x
            <4> HIDE DEF tag, val, x
            <4> QED BY <1>1, <1>2, <1>4, <2>2, <2>4
        <3>2. x.n \in 1 .. Len(b) /\ x.v \in ValueType(t, x.num) /\ x.n \in Int
            <4> HIDE DEF tag, rest, val
            <4> QED BY <1>1, <2>1, <2>2, <2>4
        <3>3. ASSUME NEW r \in Buffer PROVE Field(t, b \o r) = x
            <4>1. ConsumeTag(b \o r) = tag
                BY <1>4, TagLocal
            <4>2. Drop(b \o r, tag.n) = rest \o r
                <5> HIDE DEF tag
                <5>1. tag.n \in 0 .. Len(b)
                    BY <1>1, <2>1
                <5> QED BY <5>1, DropJoined
            <4>3. FieldValue(t, tag.num, tag.typ, rest \o r) = val
                <5> HIDE DEF tag, rest
                <5> QED BY <2>1, <2>4, FieldValueLocal
            <4> HIDE DEF tag, rest, val
            <4>4. Field(t, b \o r) = IF tag.n < 0 THEN NoField ELSE IF val.n < 0 THEN NoField
                                     ELSE x
                <5>1. FieldValue(t, tag.num, tag.typ, Drop(b \o r, tag.n)) = val
                    BY <4>2, <4>3
                <5> QED BY <4>1, <5>1, FieldIs
            <4> HIDE DEF x
            <4> QED BY <1>1, <1>4, <2>2, <2>4, <4>4
        <3> HIDE DEF x
        <3> QED BY <3>1, <3>2, <3>3
    <2> QED BY <2>2, <2>3, <2>4
<1> QED BY <1>1, <1>3, <1>4

\* What is read back from a tag and a value.
LEMMA PieceRead ==
    ASSUME NEW t, NEW num \in FieldNumber, NEW typ \in WireTypes, NEW s \in Buffer, NEW v,
           FieldValue(t, num, typ, s) = [v |-> v, n |-> Len(s)]
    PROVE  /\ AppendTag(num, typ) \o s \in Buffer /\ AppendTag(num, typ) \o s # <<>>
           /\ Field(t, AppendTag(num, typ) \o s)
              = [num |-> num, v |-> v, n |-> Len(AppendTag(num, typ) \o s)]
<1> DEFINE a == AppendTag(num, typ)
           b == a \o s
<1>1. a \in Buffer /\ Len(a) = 1 /\ ConsumeTag(a) = [num |-> num, typ |-> typ, n |-> 1]
    BY Tag, TagRead
<1> HIDE DEF a
<1>2. b \in Buffer /\ Len(b) = 1 + Len(s) /\ Len(s) \in Nat /\ Drop(b, 1) = s
    BY <1>1, Joined, Lengths, SameStart
<1>3. ConsumeTag(b) = [num |-> num, typ |-> typ, n |-> 1]
    BY <1>1, TagLocal
<1> HIDE DEF b
<1> DEFINE tag == ConsumeTag(b)
           val == FieldValue(t, tag.num, tag.typ, Drop(b, tag.n))
<1>4. tag.num = num /\ tag.typ = typ /\ tag.n = 1
    BY <1>3
<1>5. val = [v |-> v, n |-> Len(s)]
    BY <1>2, <1>4
<1>6. Field(t, b) = IF tag.n < 0 THEN NoField ELSE IF val.n < 0 THEN NoField
                    ELSE [num |-> tag.num, v |-> val.v, n |-> tag.n + val.n]
    <2> HIDE DEF tag
    <2> QED BY FieldIs DEF tag
<1>7. val.v = v /\ val.n = Len(s) /\ ~(tag.n < 0) /\ ~(val.n < 0) /\ tag.n + val.n = Len(b)
    BY <1>2, <1>4, <1>5
<1>8. Field(t, b) = [num |-> num, v |-> v, n |-> Len(b)]
    <2> HIDE DEF tag, val
    <2> QED BY <1>4, <1>6, <1>7
<1>9. b # <<>>
    BY <1>2, NoBytes
<1> QED BY <1>2, <1>8, <1>9 DEF a, b

LEMMA Uint64Read ==
    ASSUME NEW t, NEW num \in FieldNumber, num \in DOMAIN Cases[t],
           Cases[t][num].kind = "varint", NEW v \in Nat, v # 0
    PROVE  /\ appendUint64(num, v) # <<>>
           /\ Field(t, appendUint64(num, v)) = [num |-> num, v |-> v, n |-> Len(appendUint64(num, v))]
<1> DEFINE s == AppendVarint[v]
<1>1. s \in Buffer /\ VarintType \in WireTypes
    BY VarintSize, KnownWireTypes
<1>2. FieldValue(t, num, VarintType, s) = [v |-> v, n |-> Len(s)]
    BY VarintRead DEF FieldValue
<1>3. appendUint64(num, v) = AppendTag(num, VarintType) \o s
    BY DEF appendUint64
<1> HIDE DEF s
<1>4. /\ AppendTag(num, VarintType) \o s # <<>>
      /\ Field(t, AppendTag(num, VarintType) \o s)
         = [num |-> num, v |-> v, n |-> Len(AppendTag(num, VarintType) \o s)]
    BY <1>1, <1>2, PieceRead
<1> QED BY <1>3, <1>4, Zenon

LEMMA MessageRead ==
    ASSUME NEW t, NEW num \in FieldNumber, num \in DOMAIN Cases[t],
           Cases[t][num].kind # "varint", NEW bz \in Buffer
    PROVE  /\ appendMessage(num, bz) # <<>>
           /\ Field(t, appendMessage(num, bz))
              = [num |-> num, v |-> bz, n |-> Len(appendMessage(num, bz))]
<1> DEFINE s == AppendBytes(bz)
<1>1. s \in Buffer /\ BytesType \in WireTypes
    BY BytesSize, KnownWireTypes
<1>2. FieldValue(t, num, BytesType, s) = [v |-> bz, n |-> Len(s)]
    BY BytesRead DEF FieldValue
<1>3. appendMessage(num, bz) = AppendTag(num, BytesType) \o s
    BY DEF appendMessage
<1> HIDE DEF s
<1>4. /\ AppendTag(num, BytesType) \o s # <<>>
      /\ Field(t, AppendTag(num, BytesType) \o s)
         = [num |-> num, v |-> bz, n |-> Len(AppendTag(num, BytesType) \o s)]
    BY <1>1, <1>2, PieceRead
<1> QED BY <1>3, <1>4, Zenon

-----------------------------------------------------------------------------
(* Decoding, field by field.                                                *)

Encoded(t, m) ==
    IF t = "PageRequest" THEN MarshalPageRequest(m)
    ELSE IF t = "PageResponse" THEN MarshalPageResponse(m)
    ELSE Marshal(t, m)

\* With the bytes p, what has been decoded of a message grows from m to more.
Link(t, m, p, more) ==
    /\ p \in Buffer /\ m \in Struct[t] /\ more \in Struct[t]
    /\ Encoded(t, m) \in Buffer /\ Encoded(t, more) = Encoded(t, m) \o p
    /\ p = <<>> => more = m
    /\ p # <<>> => /\ Field(t, p).n = Len(p)
                   /\ SetField(t, m, Field(t, p)) = [m |-> more, err |-> "none"]

\* In C, pairs of what is decoded and what is left, each leads on until end is
\* decoded and nothing is left.
Trail(t, C, end) ==
    \A m, b : <<m, b>> \in C =>
        \/ b = <<>> /\ m = end
        \/ \E p, more, r : /\ Link(t, m, p, more) /\ p # <<>>
                           /\ r \in Buffer /\ b = p \o r /\ <<more, r>> \in C

Leads(t, m, b, end) == \E C : Trail(t, C, end) /\ <<m, b>> \in C

LEMMA LeadsEnd == \A t, m : Leads(t, m, <<>>, m)
<1> TAKE t, m
<1>1. Trail(t, {<<m, <<>>>>}, m)
    BY DEF Trail
<1> QED BY <1>1 DEF Leads

LEMMA LeadsOn ==
    ASSUME NEW t, NEW m, NEW p, NEW more, NEW r \in Buffer, NEW end,
           Link(t, m, p, more), Leads(t, more, r, end)
    PROVE  Leads(t, m, p \o r, end)
<1>1. PICK C : Trail(t, C, end) /\ <<more, r>> \in C
    BY DEF Leads
<1>2. CASE p = <<>>
    <2>1. more = m /\ p \o r = r
        BY <1>2, Lengths DEF Link
    <2> QED BY <1>1, <2>1 DEF Leads
<1>3. CASE p # <<>>
    <2> DEFINE D == C \cup {<<m, p \o r>>}
    <2>1. Trail(t, D, end)
        <3> SUFFICES ASSUME NEW n, NEW b, <<n, b>> \in D
                     PROVE  \/ b = <<>> /\ n = end
                            \/ \E q, then, s : /\ Link(t, n, q, then) /\ q # <<>>
                                               /\ s \in Buffer /\ b = q \o s /\ <<then, s>> \in D
            BY Zenon DEF Trail
        <3>1. CASE <<n, b>> \in C
            <4>1. \A x : x \in C => x \in D
                OBVIOUS
            <4>2. \/ b = <<>> /\ n = end
                  \/ \E q, then, s : /\ Link(t, n, q, then) /\ q # <<>>
                                     /\ s \in Buffer /\ b = q \o s /\ <<then, s>> \in C
                BY <1>1, <3>1, Zenon DEF Trail
            <4> HIDE DEF D
            <4> QED BY <4>1, <4>2, Zenon
        <3>2. CASE n = m /\ b = p \o r
            <4>1. <<more, r>> \in D
                BY <1>1
            <4> HIDE DEF D
            <4> QED BY <1>3, <3>2, <4>1, Zenon
        <3> QED BY <3>1, <3>2
    <2>2. <<m, p \o r>> \in D
        OBVIOUS
    <2> QED BY <2>1, <2>2, Zenon DEF Leads
<1> QED BY <1>2, <1>3

LEMMA LeadsWhere ==
    ASSUME NEW t, NEW m, NEW b, NEW end, Leads(t, m, b, end)
    PROVE  /\ b = <<>> => m = end
           /\ b # <<>> => \E p, more, r : /\ Link(t, m, p, more) /\ p # <<>> /\ r \in Buffer
                                          /\ b = p \o r /\ Leads(t, more, r, end)
<1>1. PICK C : Trail(t, C, end) /\ <<m, b>> \in C
    BY DEF Leads
<1>2. \/ b = <<>> /\ m = end
      \/ \E p, more, r : /\ Link(t, m, p, more) /\ p # <<>>
                         /\ r \in Buffer /\ b = p \o r /\ <<more, r>> \in C
    BY <1>1, Zenon DEF Trail
<1>3. CASE b = <<>> /\ m = end
    BY <1>3
<1>4. ASSUME NEW p, NEW more, NEW r, Link(t, m, p, more), p # <<>>,
             r \in Buffer, b = p \o r, <<more, r>> \in C
      PROVE  b # <<>> /\ Leads(t, more, r, end)
    <2>1. p \in Buffer
        BY <1>4 DEF Link
    <2> QED BY <1>1, <1>4, <2>1, Joined DEF Leads
<1> QED BY <1>2, <1>3, <1>4, Zenon

\* One round of the loop, with enough bytes and with too few.
LEMMA RoundReads ==
    ASSUME NEW t, NEW m, NEW p, NEW more, NEW r \in Buffer, Link(t, m, p, more), p # <<>>
    PROVE  UnmarshalField(t, m, p \o r) = [m |-> more, b |-> r, err |-> "none"]
<1>1. /\ p \in Buffer /\ Field(t, p).n = Len(p)
      /\ SetField(t, m, Field(t, p)) = [m |-> more, err |-> "none"]
    BY DEF Link
<1>2. Len(p) \in Nat
    BY <1>1, Lengths
<1>3. Field(t, p \o r) = Field(t, p)
    BY <1>1, <1>2, FieldLocal
<1> DEFINE field == Field(t, p \o r)
           set   == SetField(t, m, field)
<1>4. ~(field.n < 0) /\ set.m = more /\ set.err = "none" /\ Drop(p \o r, field.n) = r
    BY <1>1, <1>2, <1>3, SameStart
<1>5. UnmarshalField(t, m, p \o r)
      = IF field.n < 0 THEN Failed(m, p \o r)
        ELSE IF set.err # "none" THEN Failed(m, p \o r)
        ELSE [m |-> set.m, b |-> Drop(p \o r, field.n), err |-> "none"]
    BY Zenon DEF UnmarshalField
<1> HIDE DEF field, set
<1> QED BY <1>4, <1>5, Zenon

LEMMA RoundFails ==
    ASSUME NEW t, NEW m, NEW more, NEW b \in Buffer, NEW rest \in Buffer, rest # <<>>,
           Link(t, m, b \o rest, more)
    PROVE  UnmarshalField(t, m, b) = Failed(m, b)
<1>1. b \o rest # <<>> /\ Len(b \o rest) = Len(b) + Len(rest)
    BY Joined
<1>2. Field(t, b \o rest).n = Len(b) + Len(rest)
    BY <1>1 DEF Link
<1>3. Len(b) \in Nat /\ Len(rest) \in Nat /\ Len(rest) # 0
    BY Lengths
<1>4. Field(t, b).n < 0
    <2> SUFFICES ASSUME Field(t, b).n >= 0 PROVE FALSE
        BY FieldLocal
    <2>1. Field(t, b).n <= Len(b) /\ Field(t, b \o rest) = Field(t, b)
        BY <1>3, FieldLocal
    <2> QED BY <1>2, <1>3, <2>1
<1> QED BY <1>4 DEF UnmarshalField

-----------------------------------------------------------------------------
(* Messages whose fields are numbers and strings.                           *)

FieldName(t, i) == Cases[t][i].field

\* The bytes of the field with number i.
Piece(t, m, i) ==
    IF i \notin DOMAIN Cases[t] THEN <<>>
    ELSE IF Cases[t][i].kind = "varint" THEN appendUint64(i, m[FieldName(t, i)])
    ELSE appendString(i, m[FieldName(t, i)])

Zero(t, i) == IF Cases[t][i].kind = "varint" THEN 0 ELSE <<>>

\* d is m but for field i, which is v.
Differs(t, m, i, v, d) ==
    /\ d \in Struct[t] /\ d[FieldName(t, i)] = v
    /\ \A j \in DOMAIN Cases[t] : j # i => d[FieldName(t, j)] = m[FieldName(t, j)]

\* Marshal writes the fields in the order of their numbers, each as Unmarshal's
\* case for the number reads it, and there is nothing else in the message.
FlatMessage(t, m) ==
    /\ Encoded(t, m) = Piece(t, m, 1) \o Piece(t, m, 2) \o Piece(t, m, 3)
                       \o Piece(t, m, 4) \o Piece(t, m, 5) \o Piece(t, m, 6)
    /\ \A i \in DOMAIN Cases[t] :
           /\ m[FieldName(t, i)] \in ValueType(t, i)
           /\ \A v \in ValueType(t, i) :
                  Differs(t, m, i, v, [m EXCEPT ![FieldName(t, i)] = v])
    /\ \A d \in Struct[t] :
           (\A i \in DOMAIN Cases[t] : m[FieldName(t, i)] = d[FieldName(t, i)]) => m = d

Flat(t) ==
    /\ DOMAIN Cases[t] \subseteq 1 .. 6
    /\ \A i \in DOMAIN Cases[t] : Cases[t][i].kind \in {"varint", "string"}
    /\ New[t] \in Struct[t] /\ \A i \in DOMAIN Cases[t] : New[t][FieldName(t, i)] = Zero(t, i)
    /\ \A m \in Struct[t] : FlatMessage(t, m)

LEMMA TaskFlat == Flat("Task")
<1> DEFINE t == "Task"
           D == DOMAIN Cases[t]
<1>1. /\ D = 1 .. 6 /\ Struct[t] = Task /\ New[t] = NewTask
      /\ Cases[t][1] = Varint("id") /\ Cases[t][2] = String("title")
      /\ Cases[t][3] = String("description") /\ Cases[t][4] = String("creator")
      /\ Cases[t][5] = String("assignee") /\ Cases[t][6] = Varint("status")
    BY DEF Cases, UnmarshalTask, Struct, New
<1>2. /\ FieldName(t, 1) = "id" /\ FieldName(t, 2) = "title" /\ FieldName(t, 3) = "description"
      /\ FieldName(t, 4) = "creator" /\ FieldName(t, 5) = "assignee"
      /\ FieldName(t, 6) = "status"
      /\ \A i \in D : Cases[t][i].kind = IF i \in {1, 6} THEN "varint" ELSE "string"
    BY <1>1 DEF FieldName, Varint, String
<1>3. \A i \in D : ValueType(t, i) = IF i \in {1, 6} THEN Nat ELSE Buffer
    BY <1>2 DEF ValueType
<1>4. ASSUME NEW m \in Task PROVE FlatMessage(t, m)
    <2>1. Encoded(t, m) = Piece(t, m, 1) \o Piece(t, m, 2) \o Piece(t, m, 3)
                          \o Piece(t, m, 4) \o Piece(t, m, 5) \o Piece(t, m, 6)
        <3>1. /\ Piece(t, m, 1) = appendUint64(1, m.id) /\ Piece(t, m, 2) = appendString(2, m.title)
              /\ Piece(t, m, 3) = appendString(3, m.description)
              /\ Piece(t, m, 4) = appendString(4, m.creator)
              /\ Piece(t, m, 5) = appendString(5, m.assignee)
              /\ Piece(t, m, 6) = appendUint64(6, m.status)
            BY <1>1, <1>2 DEF Piece
        <3>2. Encoded(t, m) = MarshalTask(m)
            BY DEF Encoded, Marshal, Empty
        <3> QED BY <3>1, <3>2 DEF MarshalTask
    <2>2. ASSUME NEW i \in D, NEW v \in ValueType(t, i)
          PROVE  Differs(t, m, i, v, [m EXCEPT ![FieldName(t, i)] = v])
        BY <1>1, <1>2, <1>3 DEF Differs, Task
    <2>3. \A i \in D : m[FieldName(t, i)] \in ValueType(t, i)
        BY <1>1, <1>2, <1>3 DEF Task
    <2>4. ASSUME NEW d \in Task, \A i \in D : m[FieldName(t, i)] = d[FieldName(t, i)]
          PROVE  m = d
        <3>1. /\ m.id = d.id /\ m.title = d.title /\ m.description = d.description
              /\ m.creator = d.creator /\ m.assignee = d.assignee /\ m.status = d.status
            BY <1>1, <1>2, <2>4
        <3> QED BY <3>1 DEF Task
    <2> QED BY <1>1, <2>1, <2>2, <2>3, <2>4 DEF FlatMessage
<1>5. NewTask \in Task /\ \A i \in D : NewTask[FieldName(t, i)] = Zero(t, i)
    BY <1>1, <1>2, NoBytes DEF NewTask, Task, Zero
<1> HIDE DEF t
<1>6. Flat(t)
    BY <1>1, <1>2, <1>4, <1>5 DEF Flat
<1> QED BY <1>6 DEF t

LEMMA MsgCreateTaskFlat == Flat("MsgCreateTask")
<1> DEFINE t == "MsgCreateTask"
           D == DOMAIN Cases[t]
<1>1. /\  /\ D = 1 .. 3 /\ Struct[t] = MsgCreateTask /\ New[t] = NewMsgCreateTask
      /\ Cases[t][1] = String("creator") /\ Cases[t][2] = String("title")
      /\ Cases[t][3] = String("description")
    BY DEF Cases, UnmarshalMsgCreateTask, Struct, New
<1>2. /\  /\ FieldName(t, 1) = "creator" /\ FieldName(t, 2) = "title"
      /\ FieldName(t, 3) = "description" /\ \A i \in D : Cases[t][i].kind = "string"
    BY <1>1 DEF FieldName, String
<1>3. \A i \in D : ValueType(t, i) = Buffer
    BY <1>2 DEF ValueType
<1>4. ASSUME NEW m \in MsgCreateTask PROVE FlatMessage(t, m)
    <2>1. /\  /\ Piece(t, m, 1) = appendString(1, m.creator)
          /\ Piece(t, m, 2) = appendString(2, m.title)
          /\ Piece(t, m, 3) = appendString(3, m.description) /\ Piece(t, m, 4) = <<>>
          /\ Piece(t, m, 5) = <<>> /\ Piece(t, m, 6) = <<>>
        BY <1>1, <1>2 DEF Piece
    <2>2. Encoded(t, m) = MarshalMsgCreateTask(m) /\ Encoded(t, m) \in Buffer
        <3>1. Fits(t, m)
            BY <1>1, MessagesFit DEF Struct
        <3> QED BY <3>1 DEF Encoded, Marshal, Empty, Fits
    <2>3. Encoded(t, m) = Piece(t, m, 1) \o Piece(t, m, 2) \o Piece(t, m, 3)
        BY <2>1, <2>2 DEF MarshalMsgCreateTask
    <2>4. Encoded(t, m) = Piece(t, m, 1) \o Piece(t, m, 2) \o Piece(t, m, 3)
                          \o Piece(t, m, 4) \o Piece(t, m, 5) \o Piece(t, m, 6)
        BY <2>1, <2>2, <2>3, Lengths
    <2>5. ASSUME NEW i \in D, NEW v \in ValueType(t, i)
          PROVE  Differs(t, m, i, v, [m EXCEPT ![FieldName(t, i)] = v])
        BY <1>1, <1>2, <1>3 DEF Differs, MsgCreateTask
    <2>6. \A i \in D : m[FieldName(t, i)] \in ValueType(t, i)
        BY <1>1, <1>2, <1>3 DEF MsgCreateTask
    <2>7. ASSUME NEW d \in MsgCreateTask, \A i \in D : m[FieldName(t, i)] = d[FieldName(t, i)]
          PROVE  m = d
        <3>1. m.creator = d.creator /\ m.title = d.title /\ m.description = d.description
            BY <1>1, <1>2, <2>7
        <3> QED BY <3>1 DEF MsgCreateTask
    <2> QED BY <1>1, <2>4, <2>5, <2>6, <2>7 DEF FlatMessage
<1>5. NewMsgCreateTask \in MsgCreateTask /\ \A i \in D : NewMsgCreateTask[FieldName(t, i)] = Zero(t, i)
    BY <1>1, <1>2, NoBytes DEF NewMsgCreateTask, MsgCreateTask, Zero
<1> HIDE DEF t
<1>6. Flat(t)
    BY <1>1, <1>2, <1>4, <1>5 DEF Flat
<1> QED BY <1>6 DEF t

LEMMA MsgCreateTaskResponseFlat == Flat("MsgCreateTaskResponse")
<1> DEFINE t == "MsgCreateTaskResponse"
           D == DOMAIN Cases[t]
<1>1. /\  /\ D = 1 .. 1 /\ Struct[t] = MsgCreateTaskResponse
      /\ New[t] = NewMsgCreateTaskResponse /\ Cases[t][1] = Varint("id")
    BY DEF Cases, UnmarshalMsgCreateTaskResponse, Struct, New
<1>2. /\  /\ FieldName(t, 1) = "id" /\ Cases[t][1].kind = "varint"
    BY <1>1 DEF FieldName, Varint
<1>3. ValueType(t, 1) = Nat
    BY <1>1, <1>2 DEF ValueType
<1>4. ASSUME NEW m \in MsgCreateTaskResponse PROVE FlatMessage(t, m)
    <2>1. /\  /\ Piece(t, m, 1) = appendUint64(1, m.id) /\ Piece(t, m, 2) = <<>>
          /\ Piece(t, m, 3) = <<>> /\ Piece(t, m, 4) = <<>> /\ Piece(t, m, 5) = <<>>
          /\ Piece(t, m, 6) = <<>>
        BY <1>1, <1>2 DEF Piece
    <2>2. Encoded(t, m) = MarshalMsgCreateTaskResponse(m) /\ Encoded(t, m) \in Buffer
        <3>1. Fits(t, m)
            BY <1>1, MessagesFit DEF Struct
        <3> QED BY <3>1 DEF Encoded, Marshal, Empty, Fits
    <2>3. Encoded(t, m) = Piece(t, m, 1)
        BY <2>1, <2>2 DEF MarshalMsgCreateTaskResponse
    <2>4. Encoded(t, m) = Piece(t, m, 1) \o Piece(t, m, 2) \o Piece(t, m, 3)
                          \o Piece(t, m, 4) \o Piece(t, m, 5) \o Piece(t, m, 6)
        BY <2>1, <2>2, <2>3, Lengths
    <2>5. ASSUME NEW i \in D, NEW v \in ValueType(t, i)
          PROVE  Differs(t, m, i, v, [m EXCEPT ![FieldName(t, i)] = v])
        BY <1>1, <1>2, <1>3 DEF Differs, MsgCreateTaskResponse
    <2>6. \A i \in D : m[FieldName(t, i)] \in ValueType(t, i)
        BY <1>1, <1>2, <1>3 DEF MsgCreateTaskResponse
    <2>7. ASSUME NEW d \in MsgCreateTaskResponse, \A i \in D : m[FieldName(t, i)] = d[FieldName(t, i)]
          PROVE  m = d
        <3>1. m.id = d.id
            BY <1>1, <1>2, <2>7
        <3> QED BY <3>1 DEF MsgCreateTaskResponse
    <2> QED BY <1>1, <2>4, <2>5, <2>6, <2>7 DEF FlatMessage
<1>5. NewMsgCreateTaskResponse \in MsgCreateTaskResponse /\ \A i \in D : NewMsgCreateTaskResponse[FieldName(t, i)] = Zero(t, i)
    BY <1>1, <1>2, NoBytes DEF NewMsgCreateTaskResponse, MsgCreateTaskResponse, Zero
<1> HIDE DEF t
<1>6. Flat(t)
    BY <1>1, <1>2, <1>4, <1>5 DEF Flat
<1> QED BY <1>6 DEF t

LEMMA MsgAssignTaskFlat == Flat("MsgAssignTask")
<1> DEFINE t == "MsgAssignTask"
           D == DOMAIN Cases[t]
<1>1. /\  /\ D = 1 .. 3 /\ Struct[t] = MsgAssignTask /\ New[t] = NewMsgAssignTask
      /\ Cases[t][1] = String("creator") /\ Cases[t][2] = Varint("task_id")
      /\ Cases[t][3] = String("assignee")
    BY DEF Cases, UnmarshalMsgAssignTask, Struct, New
<1>2. /\  /\ FieldName(t, 1) = "creator" /\ FieldName(t, 2) = "task_id"
      /\ FieldName(t, 3) = "assignee"
      /\ \A i \in D : Cases[t][i].kind = IF i \in {2} THEN "varint" ELSE "string"
    BY <1>1 DEF FieldName, String, Varint
<1>3. \A i \in D : ValueType(t, i) = IF i \in {2} THEN Nat ELSE Buffer
    BY <1>2 DEF ValueType
<1>4. ASSUME NEW m \in MsgAssignTask PROVE FlatMessage(t, m)
    <2>1. /\  /\ Piece(t, m, 1) = appendString(1, m.creator)
          /\ Piece(t, m, 2) = appendUint64(2, m.task_id)
          /\ Piece(t, m, 3) = appendString(3, m.assignee) /\ Piece(t, m, 4) = <<>>
          /\ Piece(t, m, 5) = <<>> /\ Piece(t, m, 6) = <<>>
        BY <1>1, <1>2 DEF Piece
    <2>2. Encoded(t, m) = MarshalMsgAssignTask(m) /\ Encoded(t, m) \in Buffer
        <3>1. Fits(t, m)
            BY <1>1, MessagesFit DEF Struct
        <3> QED BY <3>1 DEF Encoded, Marshal, Empty, Fits
    <2>3. Encoded(t, m) = Piece(t, m, 1) \o Piece(t, m, 2) \o Piece(t, m, 3)
        BY <2>1, <2>2 DEF MarshalMsgAssignTask
    <2>4. Encoded(t, m) = Piece(t, m, 1) \o Piece(t, m, 2) \o Piece(t, m, 3)
                          \o Piece(t, m, 4) \o Piece(t, m, 5) \o Piece(t, m, 6)
        BY <2>1, <2>2, <2>3, Lengths
    <2>5. ASSUME NEW i \in D, NEW v \in ValueType(t, i)
          PROVE  Differs(t, m, i, v, [m EXCEPT ![FieldName(t, i)] = v])
        BY <1>1, <1>2, <1>3 DEF Differs, MsgAssignTask
    <2>6. \A i \in D : m[FieldName(t, i)] \in ValueType(t, i)
        BY <1>1, <1>2, <1>3 DEF MsgAssignTask
    <2>7. ASSUME NEW d \in MsgAssignTask, \A i \in D : m[FieldName(t, i)] = d[FieldName(t, i)]
          PROVE  m = d
        <3>1. m.creator = d.creator /\ m.task_id = d.task_id /\ m.assignee = d.assignee
            BY <1>1, <1>2, <2>7
        <3> QED BY <3>1 DEF MsgAssignTask
    <2> QED BY <1>1, <2>4, <2>5, <2>6, <2>7 DEF FlatMessage
<1>5. NewMsgAssignTask \in MsgAssignTask /\ \A i \in D : NewMsgAssignTask[FieldName(t, i)] = Zero(t, i)
    BY <1>1, <1>2, NoBytes DEF NewMsgAssignTask, MsgAssignTask, Zero
<1> HIDE DEF t
<1>6. Flat(t)
    BY <1>1, <1>2, <1>4, <1>5 DEF Flat
<1> QED BY <1>6 DEF t

LEMMA MsgCompleteTaskFlat == Flat("MsgCompleteTask")
<1> DEFINE t == "MsgCompleteTask"
           D == DOMAIN Cases[t]
<1>1. /\  /\ D = 1 .. 2 /\ Struct[t] = MsgCompleteTask /\ New[t] = NewMsgCompleteTask
      /\ Cases[t][1] = String("assignee") /\ Cases[t][2] = Varint("task_id")
    BY DEF Cases, UnmarshalMsgCompleteTask, Struct, New
<1>2. /\  /\ FieldName(t, 1) = "assignee" /\ FieldName(t, 2) = "task_id"
      /\ \A i \in D : Cases[t][i].kind = IF i \in {2} THEN "varint" ELSE "string"
    BY <1>1 DEF FieldName, String, Varint
<1>3. \A i \in D : ValueType(t, i) = IF i \in {2} THEN Nat ELSE Buffer
    BY <1>2 DEF ValueType
<1>4. ASSUME NEW m \in MsgCompleteTask PROVE FlatMessage(t, m)
    <2>1. /\  /\ Piece(t, m, 1) = appendString(1, m.assignee)
          /\ Piece(t, m, 2) = appendUint64(2, m.task_id) /\ Piece(t, m, 3) = <<>>
          /\ Piece(t, m, 4) = <<>> /\ Piece(t, m, 5) = <<>> /\ Piece(t, m, 6) = <<>>
        BY <1>1, <1>2 DEF Piece
    <2>2. Encoded(t, m) = MarshalMsgCompleteTask(m) /\ Encoded(t, m) \in Buffer
        <3>1. Fits(t, m)
            BY <1>1, MessagesFit DEF Struct
        <3> QED BY <3>1 DEF Encoded, Marshal, Empty, Fits
    <2>3. Encoded(t, m) = Piece(t, m, 1) \o Piece(t, m, 2)
        BY <2>1, <2>2 DEF MarshalMsgCompleteTask
    <2>4. Encoded(t, m) = Piece(t, m, 1) \o Piece(t, m, 2) \o Piece(t, m, 3)
                          \o Piece(t, m, 4) \o Piece(t, m, 5) \o Piece(t, m, 6)
        BY <2>1, <2>2, <2>3, Lengths
    <2>5. ASSUME NEW i \in D, NEW v \in ValueType(t, i)
          PROVE  Differs(t, m, i, v, [m EXCEPT ![FieldName(t, i)] = v])
        BY <1>1, <1>2, <1>3 DEF Differs, MsgCompleteTask
    <2>6. \A i \in D : m[FieldName(t, i)] \in ValueType(t, i)
        BY <1>1, <1>2, <1>3 DEF MsgCompleteTask
    <2>7. ASSUME NEW d \in MsgCompleteTask, \A i \in D : m[FieldName(t, i)] = d[FieldName(t, i)]
          PROVE  m = d
        <3>1. m.assignee = d.assignee /\ m.task_id = d.task_id
            BY <1>1, <1>2, <2>7
        <3> QED BY <3>1 DEF MsgCompleteTask
    <2> QED BY <1>1, <2>4, <2>5, <2>6, <2>7 DEF FlatMessage
<1>5. NewMsgCompleteTask \in MsgCompleteTask /\ \A i \in D : NewMsgCompleteTask[FieldName(t, i)] = Zero(t, i)
    BY <1>1, <1>2, NoBytes DEF NewMsgCompleteTask, MsgCompleteTask, Zero
<1> HIDE DEF t
<1>6. Flat(t)
    BY <1>1, <1>2, <1>4, <1>5 DEF Flat
<1> QED BY <1>6 DEF t

LEMMA QueryTaskRequestFlat == Flat("QueryTaskRequest")
<1> DEFINE t == "QueryTaskRequest"
           D == DOMAIN Cases[t]
<1>1. /\  /\ D = 1 .. 1 /\ Struct[t] = QueryTaskRequest /\ New[t] = NewQueryTaskRequest
      /\ Cases[t][1] = Varint("id")
    BY DEF Cases, UnmarshalQueryTaskRequest, Struct, New
<1>2. /\  /\ FieldName(t, 1) = "id" /\ Cases[t][1].kind = "varint"
    BY <1>1 DEF FieldName, Varint
<1>3. ValueType(t, 1) = Nat
    BY <1>1, <1>2 DEF ValueType
<1>4. ASSUME NEW m \in QueryTaskRequest PROVE FlatMessage(t, m)
    <2>1. /\  /\ Piece(t, m, 1) = appendUint64(1, m.id) /\ Piece(t, m, 2) = <<>>
          /\ Piece(t, m, 3) = <<>> /\ Piece(t, m, 4) = <<>> /\ Piece(t, m, 5) = <<>>
          /\ Piece(t, m, 6) = <<>>
        BY <1>1, <1>2 DEF Piece
    <2>2. Encoded(t, m) = MarshalQueryTaskRequest(m) /\ Encoded(t, m) \in Buffer
        <3>1. Fits(t, m)
            BY <1>1, MessagesFit DEF Struct
        <3> QED BY <3>1 DEF Encoded, Marshal, Empty, Fits
    <2>3. Encoded(t, m) = Piece(t, m, 1)
        BY <2>1, <2>2 DEF MarshalQueryTaskRequest
    <2>4. Encoded(t, m) = Piece(t, m, 1) \o Piece(t, m, 2) \o Piece(t, m, 3)
                          \o Piece(t, m, 4) \o Piece(t, m, 5) \o Piece(t, m, 6)
        BY <2>1, <2>2, <2>3, Lengths
    <2>5. ASSUME NEW i \in D, NEW v \in ValueType(t, i)
          PROVE  Differs(t, m, i, v, [m EXCEPT ![FieldName(t, i)] = v])
        BY <1>1, <1>2, <1>3 DEF Differs, QueryTaskRequest
    <2>6. \A i \in D : m[FieldName(t, i)] \in ValueType(t, i)
        BY <1>1, <1>2, <1>3 DEF QueryTaskRequest
    <2>7. ASSUME NEW d \in QueryTaskRequest, \A i \in D : m[FieldName(t, i)] = d[FieldName(t, i)]
          PROVE  m = d
        <3>1. m.id = d.id
            BY <1>1, <1>2, <2>7
        <3> QED BY <3>1 DEF QueryTaskRequest
    <2> QED BY <1>1, <2>4, <2>5, <2>6, <2>7 DEF FlatMessage
<1>5. NewQueryTaskRequest \in QueryTaskRequest /\ \A i \in D : NewQueryTaskRequest[FieldName(t, i)] = Zero(t, i)
    BY <1>1, <1>2, NoBytes DEF NewQueryTaskRequest, QueryTaskRequest, Zero
<1> HIDE DEF t
<1>6. Flat(t)
    BY <1>1, <1>2, <1>4, <1>5 DEF Flat
<1> QED BY <1>6 DEF t

LEMMA PageRequestFlat == Flat("PageRequest")
<1> DEFINE t == "PageRequest"
           D == DOMAIN Cases[t]
<1>1. /\  /\ D = 1 .. 3 /\ Struct[t] = PageRequest /\ New[t] = NewPageRequest
      /\ Cases[t][1] = String("key") /\ Cases[t][2] = Varint("offset")
      /\ Cases[t][3] = Varint("limit")
    BY DEF Cases, UnmarshalPageRequest, Struct, New
<1>2. /\  /\ FieldName(t, 1) = "key" /\ FieldName(t, 2) = "offset" /\ FieldName(t, 3) = "limit"
      /\ \A i \in D : Cases[t][i].kind = IF i \in {2, 3} THEN "varint" ELSE "string"
    BY <1>1 DEF FieldName, String, Varint
<1>3. \A i \in D : ValueType(t, i) = IF i \in {2, 3} THEN Nat ELSE Buffer
    BY <1>2 DEF ValueType
<1>4. ASSUME NEW m \in PageRequest PROVE FlatMessage(t, m)
    <2>1. /\  /\ Piece(t, m, 1) = appendString(1, m.key)
          /\ Piece(t, m, 2) = appendUint64(2, m.offset)
          /\ Piece(t, m, 3) = appendUint64(3, m.limit) /\ Piece(t, m, 4) = <<>>
          /\ Piece(t, m, 5) = <<>> /\ Piece(t, m, 6) = <<>>
        BY <1>1, <1>2 DEF Piece
    <2>2. Encoded(t, m) = MarshalPageRequest(m) /\ Encoded(t, m) \in Buffer
        BY PageSizes DEF Encoded
    <2>3. Encoded(t, m) = Piece(t, m, 1) \o Piece(t, m, 2) \o Piece(t, m, 3)
        BY <2>1, <2>2 DEF MarshalPageRequest
    <2>4. Encoded(t, m) = Piece(t, m, 1) \o Piece(t, m, 2) \o Piece(t, m, 3)
                          \o Piece(t, m, 4) \o Piece(t, m, 5) \o Piece(t, m, 6)
        BY <2>1, <2>2, <2>3, Lengths
    <2>5. ASSUME NEW i \in D, NEW v \in ValueType(t, i)
          PROVE  Differs(t, m, i, v, [m EXCEPT ![FieldName(t, i)] = v])
        BY <1>1, <1>2, <1>3 DEF Differs, PageRequest
    <2>6. \A i \in D : m[FieldName(t, i)] \in ValueType(t, i)
        BY <1>1, <1>2, <1>3 DEF PageRequest
    <2>7. ASSUME NEW d \in PageRequest, \A i \in D : m[FieldName(t, i)] = d[FieldName(t, i)]
          PROVE  m = d
        <3>1. m.key = d.key /\ m.offset = d.offset /\ m.limit = d.limit
            BY <1>1, <1>2, <2>7
        <3> QED BY <3>1 DEF PageRequest
    <2> QED BY <1>1, <2>4, <2>5, <2>6, <2>7 DEF FlatMessage
<1>5. NewPageRequest \in PageRequest /\ \A i \in D : NewPageRequest[FieldName(t, i)] = Zero(t, i)
    BY <1>1, <1>2, NoBytes DEF NewPageRequest, PageRequest, Zero
<1> HIDE DEF t
<1>6. Flat(t)
    BY <1>1, <1>2, <1>4, <1>5 DEF Flat
<1> QED BY <1>6 DEF t

LEMMA PageResponseFlat == Flat("PageResponse")
<1> DEFINE t == "PageResponse"
           D == DOMAIN Cases[t]
<1>1. /\  /\ D = 1 .. 2 /\ Struct[t] = PageResponse /\ New[t] = NewPageResponse
      /\ Cases[t][1] = String("next_key") /\ Cases[t][2] = Varint("total")
    BY DEF Cases, UnmarshalPageResponse, Struct, New
<1>2. /\  /\ FieldName(t, 1) = "next_key" /\ FieldName(t, 2) = "total"
      /\ \A i \in D : Cases[t][i].kind = IF i \in {2} THEN "varint" ELSE "string"
    BY <1>1 DEF FieldName, String, Varint
<1>3. \A i \in D : ValueType(t, i) = IF i \in {2} THEN Nat ELSE Buffer
    BY <1>2 DEF ValueType
<1>4. ASSUME NEW m \in PageResponse PROVE FlatMessage(t, m)
    <2>1. /\  /\ Piece(t, m, 1) = appendString(1, m.next_key)
          /\ Piece(t, m, 2) = appendUint64(2, m.total) /\ Piece(t, m, 3) = <<>>
          /\ Piece(t, m, 4) = <<>> /\ Piece(t, m, 5) = <<>> /\ Piece(t, m, 6) = <<>>
        BY <1>1, <1>2 DEF Piece
    <2>2. Encoded(t, m) = MarshalPageResponse(m) /\ Encoded(t, m) \in Buffer
        BY PageSizes DEF Encoded
    <2>3. Encoded(t, m) = Piece(t, m, 1) \o Piece(t, m, 2)
        BY <2>1, <2>2 DEF MarshalPageResponse
    <2>4. Encoded(t, m) = Piece(t, m, 1) \o Piece(t, m, 2) \o Piece(t, m, 3)
                          \o Piece(t, m, 4) \o Piece(t, m, 5) \o Piece(t, m, 6)
        BY <2>1, <2>2, <2>3, Lengths
    <2>5. ASSUME NEW i \in D, NEW v \in ValueType(t, i)
          PROVE  Differs(t, m, i, v, [m EXCEPT ![FieldName(t, i)] = v])
        BY <1>1, <1>2, <1>3 DEF Differs, PageResponse
    <2>6. \A i \in D : m[FieldName(t, i)] \in ValueType(t, i)
        BY <1>1, <1>2, <1>3 DEF PageResponse
    <2>7. ASSUME NEW d \in PageResponse, \A i \in D : m[FieldName(t, i)] = d[FieldName(t, i)]
          PROVE  m = d
        <3>1. m.next_key = d.next_key /\ m.total = d.total
            BY <1>1, <1>2, <2>7
        <3> QED BY <3>1 DEF PageResponse
    <2> QED BY <1>1, <2>4, <2>5, <2>6, <2>7 DEF FlatMessage
<1>5. NewPageResponse \in PageResponse /\ \A i \in D : NewPageResponse[FieldName(t, i)] = Zero(t, i)
    BY <1>1, <1>2, NoBytes DEF NewPageResponse, PageResponse, Zero
<1> HIDE DEF t
<1>6. Flat(t)
    BY <1>1, <1>2, <1>4, <1>5 DEF Flat
<1> QED BY <1>6 DEF t

-----------------------------------------------------------------------------
(* What was written leads back to the message.                              *)

LEMMA LeadsThen ==
    ASSUME NEW t, NEW m \in Struct[t], NEW b \in Buffer, NEW mid, Leads(t, m, b, mid),
           NEW c \in Buffer, NEW end, Leads(t, mid, c, end)
    PROVE  Leads(t, m, b \o c, end)
<1> DEFINE P == {d \in Buffer : \A n \in Struct[t] : Leads(t, n, d, mid) => Leads(t, n, d \o c, end)}
           rank == [d \in Buffer |-> Len(d)]
<1>1. ASSUME NEW d \in Buffer, \A x \in Buffer : rank[x] < rank[d] => x \in P PROVE d \in P
    <2> SUFFICES ASSUME NEW n \in Struct[t], Leads(t, n, d, mid) PROVE Leads(t, n, d \o c, end)
        OBVIOUS
    <2>1. CASE d = <<>>
        <3>1. n = mid /\ d \o c = c
            BY <2>1, LeadsWhere, Lengths
        <3> QED BY <3>1
    <2>2. CASE d # <<>>
        <3>1. PICK p, more, r : /\ Link(t, n, p, more) /\ p # <<>> /\ r \in Buffer
                                /\ d = p \o r /\ Leads(t, more, r, mid)
            BY <2>2, LeadsWhere
        <3>2. p \in Buffer /\ more \in Struct[t]
            BY <3>1 DEF Link
        <3>3. Len(p) \in Nat /\ Len(r) \in Nat /\ Len(p) # 0 /\ Len(d) = Len(p) + Len(r)
            BY <3>1, <3>2, Lengths, Joined
        <3>4. r \in P
            <4>1. rank[r] < rank[d]
                BY <3>1, <3>3
            <4> HIDE DEF P, rank
            <4> QED BY <1>1, <3>1, <4>1
        <3>5. Leads(t, more, r \o c, end)
            BY <3>1, <3>2, <3>4
        <3>6. d \o c = p \o (r \o c) /\ r \o c \in Buffer
            BY <3>1, <3>2, Regrouped, Joined
        <3> QED BY <3>1, <3>5, <3>6, LeadsOn
    <2> QED BY <2>1, <2>2
<1>2. Buffer \subseteq P
    <2>1. rank \in [Buffer -> Nat]
        BY Lengths
    <2> HIDE DEF P, rank
    <2> QED BY <1>1, <2>1, RankSteps
<1> QED BY <1>2

LEMMA LeadsLink ==
    ASSUME NEW t, NEW m, NEW p, NEW more, Link(t, m, p, more)
    PROVE  Leads(t, m, p, more)
<1>1. p \in Buffer /\ p \o <<>> = p
    BY Lengths DEF Link
<1>2. Leads(t, m, p \o <<>>, more)
    BY LeadsEnd, LeadsOn, NoBytes
<1> QED BY <1>1, <1>2

\* m with the field that a case sets, and its bytes added.
Grows(t, m, name, v, p, more) ==
    /\ m \in Struct[t] /\ more \in Struct[t] /\ more = [m EXCEPT ![name] = v]
    /\ p \in Buffer /\ Encoded(t, m) \in Buffer /\ Encoded(t, more) = Encoded(t, m) \o p

LEMMA Uint64Leads ==
    ASSUME NEW t, NEW num \in FieldNumber, num \in DOMAIN Cases[t],
           Cases[t][num].kind = "varint", NEW v \in Nat, NEW m, NEW more,
           Grows(t, m, Cases[t][num].field, v, appendUint64(num, v), more), v = 0 => more = m
    PROVE  Leads(t, m, appendUint64(num, v), more)
<1> DEFINE p == appendUint64(num, v)
           field == Field(t, p)
           name  == Cases[t][num].field
<1>1. /\ m \in Struct[t] /\ more \in Struct[t] /\ more = [m EXCEPT ![name] = v]
      /\ p \in Buffer /\ Encoded(t, m) \in Buffer /\ Encoded(t, more) = Encoded(t, m) \o p
    BY DEF Grows
<1>2. Cases[t][num].kind \notin {"embedded", "pointer", "repeated"}
    OBVIOUS
<1>3. CASE v = 0
    <2>1. p = <<>>
        BY <1>3 DEF appendUint64
    <2> QED BY <1>1, <1>3, <2>1, LeadsLink DEF Link
<1>4. CASE v # 0
    <2>1. p # <<>> /\ field = [num |-> num, v |-> v, n |-> Len(p)]
        BY <1>2, <1>4, Uint64Read
    <2>2. field.num = num /\ field.v = v /\ field.n = Len(p)
        BY <2>1
    <2> HIDE DEF field
    <2>3. SetField(t, m, field) = [m |-> more, err |-> "none"]
        BY <1>1, <1>2, <2>2 DEF SetField, SetScalar
    <2>4. Link(t, m, p, more)
        BY <1>1, <2>1, <2>2, <2>3 DEF Link, field
    <2> QED BY <2>4, LeadsLink
<1> QED BY <1>3, <1>4

LEMMA StringLeads ==
    ASSUME NEW t, NEW num \in FieldNumber, num \in DOMAIN Cases[t],
           Cases[t][num].kind = "string", NEW s \in Buffer, NEW m, NEW more,
           Grows(t, m, Cases[t][num].field, s, appendString(num, s), more), s = <<>> => more = m
    PROVE  Leads(t, m, appendString(num, s), more)
<1> DEFINE p == appendString(num, s)
           field == Field(t, p)
           name  == Cases[t][num].field
<1>1. /\ m \in Struct[t] /\ more \in Struct[t] /\ more = [m EXCEPT ![name] = s]
      /\ p \in Buffer /\ Encoded(t, m) \in Buffer /\ Encoded(t, more) = Encoded(t, m) \o p
    BY DEF Grows
<1>2. Cases[t][num].kind \notin {"embedded", "pointer", "repeated"}
    OBVIOUS
<1>3. CASE s = <<>>
    <2>1. p = <<>>
        BY <1>3 DEF appendString
    <2> QED BY <1>1, <1>3, <2>1, LeadsLink DEF Link
<1>4. CASE s # <<>>
    <2>0. p = appendMessage(num, s)
        BY <1>4 DEF appendString, appendMessage
    <2>1. p # <<>> /\ field = [num |-> num, v |-> s, n |-> Len(p)]
        BY <1>2, <2>0, MessageRead
    <2>2. field.num = num /\ field.v = s /\ field.n = Len(p)
        BY <2>1
    <2> HIDE DEF field
    <2>3. SetField(t, m, field) = [m |-> more, err |-> "none"]
        BY <1>1, <1>2, <2>2 DEF SetField, SetScalar
    <2>4. Link(t, m, p, more)
        BY <1>1, <2>1, <2>2, <2>3 DEF Link, field
    <2> QED BY <2>4, LeadsLink
<1> QED BY <1>3, <1>4

-----------------------------------------------------------------------------
(* Numbers and strings are decoded to what was encoded.                     *)

FlatTypes == {"Task", "MsgCreateTask", "MsgCreateTaskResponse", "MsgAssignTask",
              "MsgCompleteTask", "QueryTaskRequest", "PageRequest", "PageResponse"}

LEMMA AllFlat == \A t \in FlatTypes : Flat(t)
BY TaskFlat, MsgCreateTaskFlat, MsgCreateTaskResponseFlat, MsgAssignTaskFlat,
   MsgCompleteTaskFlat, QueryTaskRequestFlat, PageRequestFlat, PageResponseFlat DEF FlatTypes

\* a has the first k fields of m.
Upto(t, m, k, a) ==
    /\ a \in Struct[t]
    /\ \A i \in DOMAIN Cases[t] :
           a[FieldName(t, i)] = IF i <= k THEN m[FieldName(t, i)] ELSE Zero(t, i)

\* The bytes of the first k fields.
Prefix(t, m, k) ==
    IF k = 0 THEN <<>>
    ELSE IF k = 1 THEN Piece(t, m, 1)
    ELSE IF k = 2 THEN Piece(t, m, 1) \o Piece(t, m, 2)
    ELSE IF k = 3 THEN Piece(t, m, 1) \o Piece(t, m, 2) \o Piece(t, m, 3)
    ELSE IF k = 4 THEN Piece(t, m, 1) \o Piece(t, m, 2) \o Piece(t, m, 3) \o Piece(t, m, 4)
    ELSE IF k = 5 THEN Piece(t, m, 1) \o Piece(t, m, 2) \o Piece(t, m, 3) \o Piece(t, m, 4)
                       \o Piece(t, m, 5)
    ELSE Piece(t, m, 1) \o Piece(t, m, 2) \o Piece(t, m, 3) \o Piece(t, m, 4)
         \o Piece(t, m, 5) \o Piece(t, m, 6)

LEMMA FlatParts ==
    ASSUME NEW t, Flat(t), NEW m \in Struct[t]
    PROVE  FlatMessage(t, m)
BY DEF Flat

LEMMA PieceTyped ==
    ASSUME NEW t, Flat(t), NEW m \in Struct[t], NEW i \in 1 .. 6
    PROVE  Piece(t, m, i) \in Buffer
<1>0. i \in FieldNumber
    BY DEF FieldNumber
<1>1. CASE i \notin DOMAIN Cases[t]
    BY <1>1, NoBytes DEF Piece
<1>2. CASE i \in DOMAIN Cases[t]
    <2>1. m[FieldName(t, i)] \in ValueType(t, i)
        BY <1>2, FlatParts DEF FlatMessage
    <2>2. CASE Cases[t][i].kind = "varint"
        BY <1>0, <1>2, <2>1, <2>2, Uint64Size DEF Piece, ValueType
    <2>3. CASE Cases[t][i].kind # "varint"
        BY <1>0, <1>2, <2>1, <2>3, StringSize DEF Piece, ValueType
    <2> QED BY <2>2, <2>3
<1> QED BY <1>1, <1>2

LEMMA PrefixGrows ==
    ASSUME NEW t, Flat(t), NEW m \in Struct[t], NEW k \in 0 .. 5
    PROVE  /\ Prefix(t, m, k) \in Buffer
           /\ Prefix(t, m, k + 1) = Prefix(t, m, k) \o Piece(t, m, k + 1)
<1>1. /\ Piece(t, m, 1) \in Buffer /\ Piece(t, m, 2) \in Buffer /\ Piece(t, m, 3) \in Buffer
      /\ Piece(t, m, 4) \in Buffer /\ Piece(t, m, 5) \in Buffer
    BY PieceTyped
<1>2. CASE k = 0
    BY <1>1, <1>2, NoBytes, Lengths DEF Prefix
<1>3. CASE k = 1
    BY <1>1, <1>3 DEF Prefix
<1>4. CASE k = 2
    BY <1>1, <1>4, Joined DEF Prefix
<1>5. CASE k = 3
    BY <1>1, <1>5, Joined DEF Prefix
<1>6. CASE k = 4
    BY <1>1, <1>6, Joined DEF Prefix
<1>7. CASE k = 5
    BY <1>1, <1>7, Joined DEF Prefix
<1> QED BY <1>2, <1>3, <1>4, <1>5, <1>6, <1>7

LEMMA UptoPieces ==
    ASSUME NEW t, Flat(t), NEW m \in Struct[t], NEW k \in 0 .. 6, NEW a, Upto(t, m, k, a),
           NEW i \in 1 .. 6
    PROVE  Piece(t, a, i) = IF i <= k THEN Piece(t, m, i) ELSE <<>>
<1>1. CASE i \notin DOMAIN Cases[t]
    BY <1>1 DEF Piece
<1>2. CASE i \in DOMAIN Cases[t] /\ i <= k
    BY <1>2 DEF Piece, Upto
<1>3. CASE i \in DOMAIN Cases[t] /\ ~(i <= k)
    <2>1. a[FieldName(t, i)] = Zero(t, i)
        BY <1>3 DEF Upto
    <2>2. CASE Cases[t][i].kind = "varint"
        BY <1>3, <2>1, <2>2 DEF Piece, Zero, appendUint64
    <2>3. CASE Cases[t][i].kind # "varint"
        BY <1>3, <2>1, <2>3 DEF Piece, Zero, appendString
    <2> QED BY <1>3, <2>2, <2>3
<1> QED BY <1>1, <1>2, <1>3

LEMMA UptoEncoded ==
    ASSUME NEW t, Flat(t), NEW m \in Struct[t], NEW k \in 0 .. 6, NEW a, Upto(t, m, k, a)
    PROVE  Encoded(t, a) = Prefix(t, m, k)
<1>0. a \in Struct[t]
    BY DEF Upto
<1> DEFINE P(i) == Piece(t, m, i)
           A(i) == Piece(t, a, i)
<1>1. Encoded(t, a) = A(1) \o A(2) \o A(3) \o A(4) \o A(5) \o A(6)
    BY <1>0, FlatParts DEF FlatMessage
<1>2. /\ P(1) \in Buffer /\ P(2) \in Buffer /\ P(3) \in Buffer
      /\ P(4) \in Buffer /\ P(5) \in Buffer /\ P(6) \in Buffer
    BY PieceTyped
<1>3. \A i \in 1 .. 6 : A(i) = IF i <= k THEN P(i) ELSE <<>>
    BY UptoPieces
<1>4. /\ P(1) \o P(2) \in Buffer /\ P(1) \o P(2) \o P(3) \in Buffer
      /\ P(1) \o P(2) \o P(3) \o P(4) \in Buffer
      /\ P(1) \o P(2) \o P(3) \o P(4) \o P(5) \in Buffer
    BY <1>2, Joined
<1>5. Prefix(t, m, k) =
          IF k = 0 THEN <<>>
          ELSE IF k = 1 THEN P(1)
          ELSE IF k = 2 THEN P(1) \o P(2)
          ELSE IF k = 3 THEN P(1) \o P(2) \o P(3)
          ELSE IF k = 4 THEN P(1) \o P(2) \o P(3) \o P(4)
          ELSE IF k = 5 THEN P(1) \o P(2) \o P(3) \o P(4) \o P(5)
          ELSE P(1) \o P(2) \o P(3) \o P(4) \o P(5) \o P(6)
    BY DEF Prefix
<1>6. \A b \in Buffer : b \o <<>> = b
    BY Lengths
<1> HIDE DEF P, A
<1>7. CASE k = 0
    <2>1. /\ A(1) = <<>> /\ A(2) = <<>> /\ A(3) = <<>>
          /\ A(4) = <<>> /\ A(5) = <<>> /\ A(6) = <<>>
        BY <1>3, <1>7
    <2>2. Prefix(t, m, k) = <<>>
        BY <1>5, <1>7
    <2>3. P(1) \o <<>> = P(1)
        BY <1>2, <1>6
    <2> QED BY <1>1, <2>1, <2>2, <2>3
<1>8. CASE k = 1
    <2>1. /\ A(1) = P(1) /\ A(2) = <<>> /\ A(3) = <<>>
          /\ A(4) = <<>> /\ A(5) = <<>> /\ A(6) = <<>>
        BY <1>3, <1>8
    <2>2. Prefix(t, m, k) = P(1)
        BY <1>5, <1>8
    <2> QED BY <1>1, <1>2, <1>4, <1>6, <2>1, <2>2, NoBytes, Zenon
<1>9. CASE k = 2
    <2>1. /\ A(1) = P(1) /\ A(2) = P(2) /\ A(3) = <<>>
          /\ A(4) = <<>> /\ A(5) = <<>> /\ A(6) = <<>>
        BY <1>3, <1>9
    <2>2. Prefix(t, m, k) = P(1) \o P(2)
        BY <1>5, <1>9
    <2> QED BY <1>1, <1>2, <1>4, <1>6, <2>1, <2>2, NoBytes, Zenon
<1>10. CASE k = 3
    <2>1. /\ A(1) = P(1) /\ A(2) = P(2) /\ A(3) = P(3)
          /\ A(4) = <<>> /\ A(5) = <<>> /\ A(6) = <<>>
        BY <1>3, <1>10
    <2>2. Prefix(t, m, k) = P(1) \o P(2) \o P(3)
        BY <1>5, <1>10
    <2> QED BY <1>1, <1>2, <1>4, <1>6, <2>1, <2>2, NoBytes, Zenon
<1>11. CASE k = 4
    <2>1. /\ A(1) = P(1) /\ A(2) = P(2) /\ A(3) = P(3)
          /\ A(4) = P(4) /\ A(5) = <<>> /\ A(6) = <<>>
        BY <1>3, <1>11
    <2>2. Prefix(t, m, k) = P(1) \o P(2) \o P(3) \o P(4)
        BY <1>5, <1>11
    <2> QED BY <1>1, <1>2, <1>4, <1>6, <2>1, <2>2, NoBytes, Zenon
<1>12. CASE k = 5
    <2>1. /\ A(1) = P(1) /\ A(2) = P(2) /\ A(3) = P(3)
          /\ A(4) = P(4) /\ A(5) = P(5) /\ A(6) = <<>>
        BY <1>3, <1>12
    <2>2. Prefix(t, m, k) = P(1) \o P(2) \o P(3) \o P(4) \o P(5)
        BY <1>5, <1>12
    <2> QED BY <1>1, <1>2, <1>4, <1>6, <2>1, <2>2, NoBytes, Zenon
<1>13. CASE k = 6
    <2>1. /\ A(1) = P(1) /\ A(2) = P(2) /\ A(3) = P(3)
          /\ A(4) = P(4) /\ A(5) = P(5) /\ A(6) = P(6)
        BY <1>3, <1>13
    <2>2. Prefix(t, m, k) = P(1) \o P(2) \o P(3) \o P(4) \o P(5) \o P(6)
        BY <1>5, <1>13
    <2> QED BY <1>1, <1>2, <1>4, <1>6, <2>1, <2>2, NoBytes, Zenon
<1> QED BY <1>7, <1>8, <1>9, <1>10, <1>11, <1>12, <1>13

\* One more field.
LEMMA FlatStep ==
    ASSUME NEW t, Flat(t), NEW m \in Struct[t], NEW k \in 0 .. 5, NEW a, Upto(t, m, k, a)
    PROVE  \E more : Upto(t, m, k + 1, more) /\ Leads(t, a, Piece(t, m, k + 1), more)
<1> DEFINE i == k + 1
           p == Piece(t, m, i)
<1>0. i \in 1 .. 6 /\ i \in FieldNumber /\ a \in Struct[t]
    BY DEF FieldNumber, Upto
<1>1. CASE i \notin DOMAIN Cases[t]
    <2>1. p = <<>>
        BY <1>1 DEF Piece
    <2>2. Upto(t, m, i, a)
        BY <1>1 DEF Upto, Flat
    <2> QED BY <2>1, <2>2, LeadsEnd
<1>2. CASE i \in DOMAIN Cases[t]
    <2> DEFINE f == FieldName(t, i)
               v == m[f]
               more == [a EXCEPT ![f] = v]
    <2>1. v \in ValueType(t, i)
        BY <1>2, FlatParts DEF FlatMessage
    <2>2. Differs(t, a, i, v, more)
        BY <1>0, <1>2, <2>1, FlatParts DEF FlatMessage
    <2>3. Upto(t, m, i, more)
        <3>1. ASSUME NEW j \in DOMAIN Cases[t]
              PROVE  more[FieldName(t, j)] = IF j <= i THEN m[FieldName(t, j)] ELSE Zero(t, j)
            <4>1. CASE j = i
                BY <2>2, <4>1 DEF Differs
            <4>2. CASE j # i
                <5>1. more[FieldName(t, j)] = a[FieldName(t, j)]
                    BY <2>2, <4>2 DEF Differs
                <5>2. j \in 1 .. 6 /\ (j <= i <=> j <= k)
                    BY <4>2 DEF Flat
                <5> QED BY <5>1, <5>2 DEF Upto
            <4> QED BY <4>1, <4>2
        <3> HIDE DEF more, i
        <3> QED BY <2>2, <3>1 DEF Upto, Differs
    <2>4. v = Zero(t, i) => more = a
        <3> SUFFICES ASSUME v = Zero(t, i) PROVE more = a
            OBVIOUS
        <3>1. a[f] = Zero(t, i)
            BY <1>2 DEF Upto
        <3>2. \A j \in DOMAIN Cases[t] : a[FieldName(t, j)] = more[FieldName(t, j)]
            BY <2>2, <3>1 DEF Differs
        <3> HIDE DEF more
        <3>3. more \in Struct[t]
            BY <2>2 DEF Differs
        <3> QED BY <1>0, <3>2, <3>3, FlatParts DEF FlatMessage
    <2>5. /\ Encoded(t, a) = Prefix(t, m, k) /\ Encoded(t, more) = Prefix(t, m, i)
          /\ Prefix(t, m, k) \in Buffer /\ Prefix(t, m, i) = Prefix(t, m, k) \o p
        <3>1. k \in 0 .. 6 /\ i \in 0 .. 6
            OBVIOUS
        <3>2. Encoded(t, a) = Prefix(t, m, k)
            BY <3>1, UptoEncoded
        <3>3. Encoded(t, more) = Prefix(t, m, i)
            <4> HIDE DEF more, i
            <4> QED BY <2>3, <3>1, UptoEncoded
        <3>4. Prefix(t, m, k) \in Buffer /\ Prefix(t, m, i) = Prefix(t, m, k) \o p
            BY PrefixGrows
        <3> QED BY <3>2, <3>3, <3>4
    <2>6. p \in Buffer
        BY <1>0, PieceTyped
    <2>7. Grows(t, a, Cases[t][i].field, v, p, more)
        <3>1. more \in Struct[t]
            BY <2>2 DEF Differs
        <3> HIDE DEF i, p, v
        <3>2. more = [a EXCEPT ![Cases[t][i].field] = v]
            BY DEF FieldName
        <3> HIDE DEF more
        <3> QED BY <1>0, <2>5, <2>6, <3>1, <3>2 DEF Grows
    <2> HIDE DEF more
    <2>8. CASE Cases[t][i].kind = "varint"
        <3>1. v \in Nat /\ Zero(t, i) = 0 /\ p = appendUint64(i, v)
            BY <1>2, <2>1, <2>8 DEF ValueType, Zero, Piece
        <3>2. Leads(t, a, appendUint64(i, v), more)
            <4> HIDE DEF i, p, v
            <4> QED BY <1>0, <1>2, <2>4, <2>7, <2>8, <3>1, Uint64Leads
        <3> QED BY <2>3, <3>1, <3>2
    <2>9. CASE Cases[t][i].kind # "varint"
        <3>1. v \in Buffer /\ Zero(t, i) = <<>> /\ p = appendString(i, v)
            BY <1>2, <2>1, <2>9 DEF ValueType, Zero, Piece
        <3>2. Cases[t][i].kind = "string"
            BY <1>2, <2>9 DEF Flat
        <3>3. Leads(t, a, appendString(i, v), more)
            <4> HIDE DEF i, p, v
            <4> QED BY <1>0, <1>2, <2>4, <2>7, <3>1, <3>2, StringLeads
        <3> QED BY <2>3, <3>1, <3>3
    <2> QED BY <2>8, <2>9
<1> QED BY <1>1, <1>2

LEMMA FlatLeads ==
    ASSUME NEW t, Flat(t), NEW m \in Struct[t]
    PROVE  Leads(t, New[t], Encoded(t, m), m)
<1> DEFINE Part(k) == \E a : Upto(t, m, k, a) /\ Leads(t, New[t], Prefix(t, m, k), a)
<1>0. New[t] \in Struct[t]
    BY DEF Flat
<1>1. Part(0)
    <2>1. Upto(t, m, 0, New[t])
        BY <1>0 DEF Upto, Flat
    <2>2. Prefix(t, m, 0) = <<>>
        BY DEF Prefix
    <2> QED BY <2>1, <2>2, LeadsEnd
<1>2. ASSUME NEW k \in 0 .. 5, Part(k) PROVE Part(k + 1)
    <2>1. PICK a : Upto(t, m, k, a) /\ Leads(t, New[t], Prefix(t, m, k), a)
        BY <1>2
    <2>2. PICK more : Upto(t, m, k + 1, more) /\ Leads(t, a, Piece(t, m, k + 1), more)
        BY <2>1, FlatStep
    <2>3. /\ Prefix(t, m, k) \in Buffer /\ Piece(t, m, k + 1) \in Buffer
          /\ Prefix(t, m, k + 1) = Prefix(t, m, k) \o Piece(t, m, k + 1)
        <3>1. k + 1 \in 1 .. 6
            OBVIOUS
        <3> QED BY <3>1, PrefixGrows, PieceTyped
    <2>4. Leads(t, New[t], Prefix(t, m, k) \o Piece(t, m, k + 1), more)
        BY <1>0, <2>1, <2>2, <2>3, LeadsThen
    <2> QED BY <2>2, <2>3, <2>4
<1>3. Part(6)
    <2> HIDE DEF Part
    <2> QED BY <1>1, <1>2
<1>4. PICK a : Upto(t, m, 6, a) /\ Leads(t, New[t], Prefix(t, m, 6), a)
    BY <1>3
<1>5. a = m
    <2>1. \A i \in DOMAIN Cases[t] : a[FieldName(t, i)] = m[FieldName(t, i)]
        BY <1>4 DEF Upto, Flat
    <2>2. a \in Struct[t]
        BY <1>4 DEF Upto
    <2> QED BY <2>1, <2>2, FlatParts DEF FlatMessage
<1>6. Encoded(t, a) = Prefix(t, m, 6)
    BY <1>4, UptoEncoded
<1> QED BY <1>4, <1>5, <1>6

-----------------------------------------------------------------------------
(* The loop for nested messages.                                            *)

States(t) == [m : Struct[t], b : Buffer, err : {"none", "decode"}]

Stopped(s) == s.b = <<>> \/ s.err # "none"

Round(t, s) ==
    IF Field(t, s.b).n < 0 THEN [s EXCEPT !.err = "decode"]
    ELSE [s EXCEPT !.m = SetScalar(t, @, Field(t, s.b)), !.b = Drop(@, Field(t, s.b).n)]

LEMMA ScalarTyped ==
    ASSUME NEW t, Flat(t), NEW m \in Struct[t], NEW field, field.v \in ValueType(t, field.num)
    PROVE  SetScalar(t, m, field) \in Struct[t]
<1>1. CASE field.num \notin DOMAIN Cases[t]
    BY <1>1 DEF SetScalar
<1>2. CASE field.num \in DOMAIN Cases[t]
    BY <1>2, FlatParts DEF FlatMessage, Differs, SetScalar, FieldName
<1> QED BY <1>1, <1>2

LEMMA RoundTyped ==
    ASSUME NEW t, Flat(t), NEW s \in States(t)
    PROVE  /\ Round(t, s) \in States(t)
           /\ ~Stopped(s) => Round(t, s).err = "decode" \/ Len(Round(t, s).b) < Len(s.b)
<1> DEFINE field == Field(t, s.b)
<1>1. s.m \in Struct[t] /\ s.b \in Buffer /\ s.err \in {"none", "decode"}
    BY DEF States
<1>2. CASE field.n < 0
    <2>1. Round(t, s) = [s EXCEPT !.err = "decode"]
        BY <1>2 DEF Round
    <2> QED BY <1>1, <2>1 DEF States
<1>3. CASE ~(field.n < 0)
    <2>1. field.n \in 1 .. Len(s.b) /\ field.v \in ValueType(t, field.num) /\ Len(s.b) \in Nat
        BY <1>1, <1>3, FieldLocal, Lengths
    <2>2. Round(t, s) = [s EXCEPT !.m = SetScalar(t, @, field), !.b = Drop(@, field.n)]
        BY <1>3 DEF Round
    <2> HIDE DEF field
    <2>3. SetScalar(t, s.m, field) \in Struct[t]
        BY <1>1, <2>1, ScalarTyped
    <2>4. Drop(s.b, field.n) \in Buffer /\ Len(Drop(s.b, field.n)) < Len(s.b)
        BY <1>1, <2>1, Cut
    <2> QED BY <1>1, <2>2, <2>3, <2>4 DEF States
<1> QED BY <1>2, <1>3

\* What the loop ends with.
Loop(f, t) == f = [s \in States(t) |-> IF Stopped(s) THEN s ELSE f[Round(t, s)]]

LEMMA LoopIs ==
    ASSUME NEW t, Flat(t)
    PROVE  \E f : /\ f \in [States(t) -> States(t)] /\ Loop(f, t)
                  /\ \A m, b : UnmarshalNested(t, m, b) = f[[m |-> m, b |-> b, err |-> "none"]]
<1> DEFINE S == States(t)
           rank == [s \in S |-> IF s.err = "none" THEN Len(s.b) ELSE 0]
           stop == {s \in S : Stopped(s)}
           base == [s \in S |-> s]
           next == [s \in S |-> Round(t, s)]
           step == [p \in S \X S |-> p[2]]
<1>1. \A s \in S : Len(s.b) \in Nat /\ (~Stopped(s) => Len(s.b) > 0)
    BY Lengths DEF States, Stopped
<1>2. Descends(S, S, rank, stop, base, next, step)
    <2>1. rank \in [S -> Nat] /\ base \in [S -> S] /\ step \in [(S \X S) -> S]
        <3> HIDE DEF S
        <3> QED BY <1>1
    <2>2. next \in [S -> S]
        BY RoundTyped
    <2>3. ASSUME NEW s \in S, s \notin stop PROVE rank[next[s]] < rank[s]
        <3>1. ~Stopped(s) /\ s.err = "none" /\ Len(s.b) > 0 /\ next[s] \in S /\ next[s] = Round(t, s)
            BY <1>1, <2>2, <2>3 DEF Stopped
        <3>2. Round(t, s).err = "decode" \/ Len(Round(t, s).b) < Len(s.b)
            BY <3>1, RoundTyped
        <3>3. rank[s] = Len(s.b)
            BY <3>1
        <3>4. rank[next[s]] = IF Round(t, s).err = "none" THEN Len(Round(t, s).b) ELSE 0
            BY <3>1
        <3> HIDE DEF rank, next, S
        <3> QED BY <3>1, <3>2, <3>3, <3>4
    <2> HIDE DEF S, rank, stop, base, next, step
    <2> QED BY <2>1, <2>2, <2>3 DEF Descends
<1>3. PICK g \in [S -> S] :
          g = [s \in S |-> IF s \in stop THEN base[s] ELSE step[<<s, g[next[s]]>>]]
    <2> HIDE DEF S, rank, stop, base, next, step
    <2> QED BY <1>2, Recursion
<1>4. Loop(g, t)
    <2>1. ASSUME NEW s \in S PROVE g[s] = IF Stopped(s) THEN s ELSE g[Round(t, s)]
        <3>1. g[s] = IF s \in stop THEN base[s] ELSE step[<<s, g[next[s]]>>]
            <4> HIDE DEF S, stop, base, next, step
            <4> QED BY <1>3
        <3>2. next[s] = Round(t, s) /\ Round(t, s) \in S /\ g[next[s]] \in S
            BY RoundTyped
        <3> HIDE DEF S
        <3>3. step[<<s, g[next[s]]>>] = g[Round(t, s)]
            BY <3>2
        <3> QED BY <3>1, <3>3
    <2>2. g = [s \in S |-> g[s]]
        OBVIOUS
    <2> QED BY <2>1, <2>2, Zenon DEF Loop
<1> DEFINE h == CHOOSE f : Loop(f, t)
<1>5. Loop(h, t)
    BY <1>4, Zenon
<1>6. \A m, b : UnmarshalNested(t, m, b) = h[[m |-> m, b |-> b, err |-> "none"]]
    BY Zenon DEF UnmarshalNested, Loop, States, Stopped, Round
<1> HIDE DEF h
<1>7. \A s \in S : h[s] = IF Stopped(s) THEN s ELSE h[Round(t, s)]
    BY <1>5, Zenon DEF Loop
<1>8. S \subseteq {s \in S : h[s] \in S}
    <2> DEFINE P == {s \in S : h[s] \in S}
    <2>1. ASSUME NEW s \in S, \A x \in S : rank[x] < rank[s] => x \in P PROVE s \in P
        <3>1. CASE Stopped(s)
            <4> HIDE DEF S
            <4> QED BY <1>7, <3>1
        <3>2. CASE ~Stopped(s)
            <4>1. next[s] \in S /\ next[s] = Round(t, s) /\ s \notin stop
                BY <3>2, RoundTyped
            <4>2. rank[next[s]] < rank[s]
                <5> HIDE DEF S, rank, stop, base, next, step
                <5> QED BY <1>2, <4>1 DEF Descends
            <4>3. next[s] \in P
                <5> HIDE DEF S, rank, next, P
                <5> QED BY <2>1, <4>1, <4>2
            <4> HIDE DEF S, next
            <4> QED BY <1>7, <3>2, <4>1, <4>3
        <3> QED BY <3>1, <3>2
    <2>2. rank \in [S -> Nat]
        <3> HIDE DEF S, rank, stop, base, next, step
        <3> QED BY <1>2 DEF Descends
    <2> HIDE DEF S, P, rank
    <2>3. S \subseteq P
        BY <2>1, <2>2, RankSteps
    <2> QED BY <2>3 DEF P
<1>9. h \in [S -> S]
    <2>1. h = [s \in S |-> h[s]]
        BY <1>5, Zenon DEF Loop
    <2> HIDE DEF S
    <2> QED BY <1>8, <2>1
<1> QED BY <1>5, <1>6, <1>9, Zenon

LEMMA NestedReads ==
    ASSUME NEW t, Flat(t), NEW m \in Struct[t], NEW b \in Buffer, NEW end, Leads(t, m, b, end)
    PROVE  UnmarshalNested(t, m, b) = [m |-> end, b |-> <<>>, err |-> "none"]
<1>1. PICK f : /\ Loop(f, t)
               /\ \A n, c : UnmarshalNested(t, n, c) = f[[m |-> n, b |-> c, err |-> "none"]]
    BY LoopIs, Zenon
<1>2. \A s \in States(t) : f[s] = IF Stopped(s) THEN s ELSE f[Round(t, s)]
    BY <1>1, Zenon DEF Loop
<1> DEFINE At(n, c) == [m |-> n, b |-> c, err |-> "none"]
           done == At(end, <<>>)
           P == {c \in Buffer : \A n \in Struct[t] : Leads(t, n, c, end) => f[At(n, c)] = done}
           rank == [c \in Buffer |-> Len(c)]
<1>3. ASSUME NEW c \in Buffer, \A d \in Buffer : rank[d] < rank[c] => d \in P PROVE c \in P
    <2> SUFFICES ASSUME NEW n \in Struct[t], Leads(t, n, c, end) PROVE f[At(n, c)] = done
        OBVIOUS
    <2>1. At(n, c) \in States(t)
        BY DEF States
    <2>2. CASE c = <<>>
        <3>1. n = end /\ Stopped(At(n, c))
            BY <2>2, LeadsWhere DEF Stopped
        <3>2. f[At(n, c)] = At(n, c)
            <4> HIDE DEF At
            <4> QED BY <1>2, <2>1, <3>1
        <3> QED BY <2>2, <3>1, <3>2
    <2>3. CASE c # <<>>
        <3>1. PICK p, more, r : /\ Link(t, n, p, more) /\ p # <<>> /\ r \in Buffer
                                /\ c = p \o r /\ Leads(t, more, r, end)
            BY <2>3, LeadsWhere
        <3>2. p \in Buffer /\ more \in Struct[t] /\ Field(t, p).n = Len(p)
              /\ SetField(t, n, Field(t, p)) = [m |-> more, err |-> "none"]
            BY <3>1 DEF Link
        <3>3. Len(p) \in Nat /\ Len(r) \in Nat /\ Len(p) # 0 /\ Len(c) = Len(p) + Len(r)
            BY <3>1, <3>2, Lengths, Joined
        <3> DEFINE field == Field(t, c)
        <3>4. field = Field(t, p)
            BY <3>1, <3>2, <3>3, FieldLocal
        <3> HIDE DEF field
        <3>5. SetField(t, n, field) = [m |-> SetScalar(t, n, field), err |-> "none"]
            <4>1. ~(/\ field.num \in DOMAIN Cases[t]
                    /\ Cases[t][field.num].kind \in {"embedded", "pointer", "repeated"})
                BY DEF Flat
            <4> QED BY <4>1, Zenon DEF SetField
        <3>6. SetScalar(t, n, field) = more
            BY <3>2, <3>4, <3>5
        <3>7. Drop(c, field.n) = r
            BY <3>1, <3>2, <3>4, SameStart
        <3>8. Round(t, At(n, c)) = At(more, r)
            <4>1. ~(field.n < 0)
                BY <3>2, <3>3, <3>4
            <4>2. /\ At(n, c).b = c /\ At(n, c).m = n
                OBVIOUS
            <4>3. Round(t, At(n, c))
                  = [At(n, c) EXCEPT !.m = SetScalar(t, @, field), !.b = Drop(@, field.n)]
                <5> HIDE DEF At
                <5> QED BY <4>1, <4>2 DEF Round, field
            <4> QED BY <3>6, <3>7, <4>3
        <3>9. f[At(n, c)] = f[At(more, r)]
            <4>1. ~Stopped(At(n, c))
                BY <2>3 DEF Stopped
            <4> HIDE DEF At
            <4> QED BY <1>2, <2>1, <3>8, <4>1
        <3>10. r \in P
            <4>1. rank[r] < rank[c]
                BY <3>1, <3>3
            <4> HIDE DEF P, rank
            <4> QED BY <1>3, <3>1, <4>1
        <3> QED BY <3>1, <3>2, <3>9, <3>10
    <2> QED BY <2>2, <2>3
<1>4. Buffer \subseteq P
    <2>1. rank \in [Buffer -> Nat]
        BY Lengths
    <2> HIDE DEF P, rank
    <2> QED BY <1>3, <2>1, RankSteps
<1>5. f[At(m, b)] = done
    BY <1>4
<1> QED BY <1>1, <1>5, Zenon

-----------------------------------------------------------------------------
(* Nested messages are decoded to what was encoded.                         *)

LEMMA NewIsEmpty ==
    ASSUME NEW t, Flat(t)
    PROVE  New[t] \in Struct[t] /\ Encoded(t, New[t]) = <<>>
<1>1. New[t] \in Struct[t] /\ Upto(t, New[t], 0, New[t])
    BY DEF Flat, Upto
<1>2. Encoded(t, New[t]) = Prefix(t, New[t], 0)
    BY <1>1, UptoEncoded
<1> QED BY <1>1, <1>2 DEF Prefix

LEMMA EmptyIsNew ==
    ASSUME NEW t, Flat(t), NEW m \in Struct[t], Encoded(t, m) = <<>>
    PROVE  m = New[t]
BY FlatLeads, LeadsWhere

\* What a case makes of the field that it sets, old, and a decoded message.
NestedValue(kind, old, x) ==
    CASE kind = "embedded" -> x
      [] kind = "pointer"  -> <<x>>
      [] kind = "repeated" -> Append(old, x)

\* With x's bytes, case number num turns m into more.
Nests(t, num, m, x, more) ==
    /\ num \in FieldNumber /\ num \in DOMAIN Cases[t]
    /\ Cases[t][num].kind \in {"embedded", "pointer", "repeated"}
    /\ Target(m, Cases[t][num]) = New[Cases[t][num].of]
    /\ m \in Struct[t] /\ more \in Struct[t]
    /\ more = [m EXCEPT ![Cases[t][num].field] = NestedValue(Cases[t][num].kind, @, x)]

LEMMA NestedLink ==
    ASSUME NEW t, NEW num, NEW of, of = Cases[t][num].of, Flat(of), NEW x \in Struct[of],
           NEW m, NEW more, Nests(t, num, m, x, more), NEW bz \in Buffer, bz = Encoded(of, x),
           Encoded(t, m) \in Buffer,
           Encoded(t, more) = Encoded(t, m) \o appendMessage(num, bz)
    PROVE  Link(t, m, appendMessage(num, bz), more)
<1> DEFINE p == appendMessage(num, bz)
           case == Cases[t][num]
           field == Field(t, p)
<1>1. /\ num \in FieldNumber /\ num \in DOMAIN Cases[t] /\ case.of = of
      /\ case.kind \in {"embedded", "pointer", "repeated"} /\ Target(m, case) = New[of]
      /\ m \in Struct[t] /\ more \in Struct[t]
      /\ more = [m EXCEPT ![case.field] = NestedValue(case.kind, @, x)]
    BY DEF Nests
<1>2. p # <<>> /\ field = [num |-> num, v |-> bz, n |-> Len(p)]
    BY <1>1, MessageRead
<1>3. p \in Buffer
    BY <1>1, MessageSize
<1>4. field.num = num /\ field.v = bz /\ field.n = Len(p)
    BY <1>2
<1>5. UnmarshalNested(of, New[of], bz) = [m |-> x, b |-> <<>>, err |-> "none"]
    <2>1. New[of] \in Struct[of] /\ Leads(of, New[of], bz, x)
        BY NewIsEmpty, FlatLeads
    <2> QED BY <2>1, NestedReads
<1> HIDE DEF field
<1>6. SetField(t, m, field) = SetNested(m, case, bz)
    BY <1>1, <1>4 DEF SetField
<1>7. SetNested(m, case, bz) = [m |-> more, err |-> "none"]
    <2> DEFINE inner == UnmarshalNested(case.of, Target(m, case), bz)
    <2>1. inner.m = x /\ inner.err = "none"
        BY <1>1, <1>5
    <2>2. SetNested(m, case, bz)
          = [m   |-> [m EXCEPT ![case.field] = NestedValue(case.kind, @, inner.m)],
             err |-> inner.err]
        BY Zenon DEF SetNested, NestedValue
    <2> HIDE DEF inner, case
    <2> QED BY <1>1, <2>1, <2>2
<1> HIDE DEF case
<1> QED BY <1>1, <1>2, <1>3, <1>4, <1>6, <1>7, Zenon DEF Link, field

\* The bytes of a list and of one entry more.
LEMMA TasksGrow ==
    ASSUME NEW num \in FieldNumber, NEW ts \in Seq(Task), NEW x \in Task
    PROVE  appendTasks(num, Append(ts, x))
           = appendTasks(num, ts) \o appendMessage(num, MarshalTask(x))
<1> DEFINE us == Append(ts, x)
           n == Len(ts)
           piece(i) == appendMessage(num, MarshalTask(us[i]))
<1>1. /\ us \in Seq(Task) /\ n \in Nat /\ Len(us) = n + 1 /\ us[n + 1] = x
      /\ \A i \in 1 .. n : us[i] = ts[i]
    BY LenProperties, AppendProperties
<1> HIDE DEF us
<1>2. PICK b \in [0 .. n -> Buffer] : TaskBytes(b, num, ts) /\ appendTasks(num, ts) = b[n]
    BY TaskBytesIs, Zenon
<1>3. PICK c \in [0 .. Len(us) -> Buffer] :
          TaskBytes(c, num, us) /\ appendTasks(num, us) = c[Len(us)]
    BY <1>1, TaskBytesIs, Zenon
<1>4. \A i \in 0 .. n : b[i] = IF i = 0 THEN <<>>
                               ELSE b[i - 1] \o appendMessage(num, MarshalTask(ts[i]))
    BY <1>2, Zenon DEF TaskBytes
<1>5. \A i \in 0 .. Len(us) : c[i] = IF i = 0 THEN <<>> ELSE c[i - 1] \o piece(i)
    BY <1>3, Zenon DEF TaskBytes
<1>6. ASSUME NEW i \in 0 .. n PROVE b[i] = IF i = 0 THEN <<>> ELSE b[i - 1] \o piece(i)
    <2>1. i # 0 => us[i] = ts[i]
        BY <1>1
    <2> QED BY <1>4, <2>1, Zenon
<1> HIDE DEF piece
<1>7. c[n] = b[n]
    <2> DEFINE P == {i \in Nat : i <= n => c[i] = b[i]}
    <2>1. 0 \in P
        <3>1. 0 \in 0 .. Len(us) /\ 0 \in 0 .. n
            BY <1>1
        <3> QED BY <1>5, <1>6, <3>1
    <2>2. ASSUME NEW i \in Nat, i \in P PROVE i + 1 \in P
        <3> SUFFICES ASSUME i + 1 <= n PROVE c[i + 1] = b[i + 1]
            OBVIOUS
        <3>1. i + 1 \in 0 .. n /\ i + 1 \in 0 .. Len(us) /\ i + 1 # 0 /\ (i + 1) - 1 = i
            BY <1>1
        <3>2. c[i] = b[i]
            BY <1>1, <2>2
        <3> QED BY <1>5, <1>6, <3>1, <3>2
    <2> HIDE DEF P
    <2>3. Nat \subseteq P
        BY <2>1, <2>2, NatSteps
    <2> QED BY <1>1, <2>3 DEF P
<1>8. c[n + 1] = c[n] \o piece(n + 1)
    <2>1. n + 1 \in 0 .. Len(us) /\ n + 1 # 0 /\ (n + 1) - 1 = n
        BY <1>1
    <2> QED BY <1>5, <2>1
<1>9. piece(n + 1) = appendMessage(num, MarshalTask(x))
    BY <1>1 DEF piece
<1>10. appendTasks(num, us) = c[n + 1]
    BY <1>1, <1>3
<1> QED BY <1>2, <1>7, <1>8, <1>9, <1>10 DEF us

LEMMA NoTasks == \A num \in FieldNumber : appendTasks(num, <<>>) = <<>>
<1> TAKE num \in FieldNumber
<1>1. <<>> \in Seq(Task) /\ Len(<<>>) = 0
    BY EmptySeq
<1>2. PICK b \in [0 .. Len(<<>>) -> Buffer] :
          TaskBytes(b, num, <<>>) /\ appendTasks(num, <<>>) = b[Len(<<>>)]
    BY <1>1, TaskBytesIs, Zenon
<1>3. b[0] = <<>>
    BY <1>1, <1>2 DEF TaskBytes
<1> QED BY <1>1, <1>2, <1>3

\* The message that is decoded: an empty page has become an absent one.
RoundTrip(t, m) ==
    \E end \in Struct[t] : /\ Leads(t, New[t], Marshal(t, m), end)
                           /\ Meaning(t, end) = Meaning(t, m)

LEMMA FlatRoundTrip ==
    ASSUME NEW t \in FlatTypes \ {"PageRequest", "PageResponse"}, NEW m \in Struct[t]
    PROVE  RoundTrip(t, m)
<1>1. Leads(t, New[t], Encoded(t, m), m)
    BY AllFlat, FlatLeads
<1> QED BY <1>1 DEF RoundTrip, Encoded

LEMMA QueryTaskResponseRoundTrip ==
    ASSUME NEW m \in QueryTaskResponse
    PROVE  RoundTrip("QueryTaskResponse", m)
<1> DEFINE t == "QueryTaskResponse"
           bz == MarshalTask(m.task)
<1>1. /\ Struct[t] = QueryTaskResponse /\ New[t] = NewQueryTaskResponse
      /\ Struct["Task"] = Task /\ New["Task"] = NewTask /\ Flat("Task")
    BY TaskFlat DEF Struct, New
<1>2. m.task \in Task /\ m = [task |-> m.task] /\ \A x \in Task : [task |-> x] \in QueryTaskResponse
    BY DEF QueryTaskResponse
<1>3. \A x : Encoded("Task", x) = MarshalTask(x)
    BY DEF Encoded, Marshal, Empty
<1>4. /\ NewTask \in Task /\ MarshalTask(NewTask) = <<>>
      /\ bz = <<>> => m.task = NewTask
    BY <1>1, <1>2, <1>3, NewIsEmpty, EmptyIsNew
<1>5. \A x : Marshal(t, x) = IF MarshalTask(x.task) = <<>> THEN <<>>
                             ELSE appendMessage(1, MarshalTask(x.task))
    BY DEF Marshal, Empty, MarshalQueryTaskResponse
<1>6. Marshal(t, New[t]) = <<>> /\ New[t] \in Struct[t]
    BY <1>1, <1>2, <1>4, <1>5 DEF NewQueryTaskResponse
<1>7. CASE bz = <<>>
    <2>1. m = New[t] /\ Marshal(t, m) = <<>>
        BY <1>1, <1>2, <1>4, <1>5, <1>7 DEF NewQueryTaskResponse
    <2> QED BY <1>1, <2>1, LeadsEnd DEF RoundTrip
<1>8. CASE bz # <<>>
    <2>1. Marshal(t, m) = appendMessage(1, bz)
        BY <1>5, <1>8
    <2>2. bz \in Buffer /\ appendMessage(1, bz) \in Buffer
        BY <1>2, TaskSize, MessageSize, FieldNumbers
    <2>3. 1 \in DOMAIN Cases[t] /\ Cases[t][1] = Embedded("task", "Task")
        BY DEF Cases, UnmarshalQueryTaskResponse
    <2>4. Nests(t, 1, New[t], m.task, m)
        <3>1. Cases[t][1].kind = "embedded" /\ Cases[t][1].field = "task" /\ Cases[t][1].of = "Task"
            BY <2>3 DEF Embedded
        <3>2. Target(New[t], Cases[t][1]) = NewTask
            BY <1>1, <3>1 DEF Target, NewQueryTaskResponse
        <3>3. m = [New[t] EXCEPT !["task"] = m.task]
            BY <1>1, <1>2 DEF NewQueryTaskResponse
        <3> QED BY <1>1, <1>6, <2>3, <3>1, <3>2, <3>3, FieldNumbers DEF Nests, NestedValue
    <2>5. Encoded(t, New[t]) = <<>> /\ Encoded(t, m) = <<>> \o appendMessage(1, bz)
        BY <1>6, <2>1, <2>2, Lengths DEF Encoded
    <2>6. Cases[t][1].of = "Task"
        BY <2>3 DEF Embedded
    <2> HIDE DEF t, bz
    <2>7. Link(t, New[t], appendMessage(1, bz), m)
        BY <1>1, <1>2, <1>3, <2>2, <2>4, <2>5, <2>6, NestedLink, NoBytes DEF bz
    <2> QED BY <1>1, <2>1, <2>7, LeadsLink DEF RoundTrip, t
<1> QED BY <1>7, <1>8

LEMMA OptionalIs ==
    ASSUME NEW S, NEW p \in Optional(S)
    PROVE  p = <<>> \/ (p[1] \in S /\ p = <<p[1]>>)
<1>1. p \in Seq(S) /\ Len(p) <= 1
    BY DEF Optional
<1>2. CASE p # <<>>
    <2>1. Len(p) = 1
        <3>1. Len(p) \in Nat \ {0}
            BY <1>1, <1>2, EmptySeq
        <3>2. \A n \in Nat \ {0} : n <= 1 => n = 1
            OBVIOUS
        <3> QED BY <1>1, <3>1, <3>2, Zenon
    <2>2. p[1] \in S
        BY <1>1, <2>1, ElementOfSeq
    <2>3. <<p[1]>> \in Seq(S) /\ Len(<<p[1]>>) = 1 /\ <<p[1]>>[1] = p[1]
        <3>1. p[1] \in S
            BY <2>2
        <3> QED BY <3>1
    <2>4. \A i \in 1 .. Len(p) : p[i] = <<p[1]>>[i]
        <3>1. \A i \in 1 .. 1 : i = 1
            OBVIOUS
        <3> QED BY <2>1, <2>3, <3>1
    <2>5. p = <<p[1]>>
        BY <1>1, <2>1, <2>3, <2>4, SeqEqual
    <2> QED BY <2>2, <2>5
<1>3. CASE p = <<>>
    BY <1>3
<1> QED BY <1>2, <1>3

LEMMA NoPage == \A S : <<>> \in Optional(S) /\ \A x \in S : <<x>> \in Optional(S)
<1> TAKE S
<1>1. <<>> \in Seq(S) /\ Len(<<>>) = 0
    BY EmptySeq
<1>2. \A x \in S : <<x>> \in Seq(S) /\ Len(<<x>>) = 1
    OBVIOUS
<1> QED BY <1>1, <1>2 DEF Optional

LEMMA QueryListTasksRequestRoundTrip ==
    ASSUME NEW m \in QueryListTasksRequest
    PROVE  RoundTrip("QueryListTasksRequest", m)
<1> DEFINE t == "QueryListTasksRequest"
           page == m.pagination
           bz == PageRequestBz(page)
<1>1. /\ Struct[t] = QueryListTasksRequest /\ New[t] = NewQueryListTasksRequest
      /\ Struct["PageRequest"] = PageRequest /\ New["PageRequest"] = NewPageRequest
      /\ Flat("PageRequest")
    BY PageRequestFlat DEF Struct, New
<1>2. /\ page \in Optional(PageRequest) /\ m = [pagination |-> page]
      /\ \A p \in Optional(PageRequest) : [pagination |-> p] \in QueryListTasksRequest
    BY DEF QueryListTasksRequest
<1>3. \A x : Encoded("PageRequest", x) = MarshalPageRequest(x)
    BY DEF Encoded
<1>4. \A x : Marshal(t, x) = appendPage(1, PageRequestBz(x.pagination))
    BY DEF Marshal, Empty, MarshalQueryListTasksRequest
<1>5. Marshal(t, New[t]) = <<>> /\ New[t] \in Struct[t]
    <2>1. New[t] = [pagination |-> <<>>]
        BY <1>1 DEF NewQueryListTasksRequest
    <2> QED BY <1>1, <1>2, <1>4, <2>1, NoPage DEF PageRequestBz, appendPage
<1>6. bz \in Buffer
    BY <1>2, PageBz
<1>7. CASE bz = <<>>
    <2>1. Marshal(t, m) = <<>>
        BY <1>4, <1>7 DEF appendPage
    <2>2. page = <<>> \/ page[1] = NewPageRequest
        BY <1>1, <1>2, <1>3, <1>7, OptionalIs, EmptyIsNew DEF PageRequestBz
    <2>3. /\ Meaning(t, m) = [pagination |-> IF page # <<>> THEN page[1] ELSE NewPageRequest]
          /\ Meaning(t, New[t]) = [pagination |-> NewPageRequest]
        BY <1>1, <1>2 DEF Meaning, NewQueryListTasksRequest
    <2>4. Meaning(t, New[t]) = Meaning(t, m)
        BY <2>2, <2>3
    <2> QED BY <1>5, <2>1, <2>4, LeadsEnd DEF RoundTrip
<1>8. CASE bz # <<>>
    <2>1. Marshal(t, m) = appendMessage(1, bz)
        BY <1>4, <1>8 DEF appendPage
    <2>2. appendMessage(1, bz) \in Buffer
        BY <1>6, MessageSize, FieldNumbers
    <2>3. page[1] \in PageRequest /\ page = <<page[1]>> /\ bz = MarshalPageRequest(page[1])
        BY <1>2, <1>8, OptionalIs DEF PageRequestBz
    <2>4. /\ 1 \in DOMAIN Cases[t] /\ Cases[t][1].kind = "pointer"
          /\ Cases[t][1].field = "pagination" /\ Cases[t][1].of = "PageRequest"
        BY DEF Cases, UnmarshalQueryListTasksRequest, Pointer
    <2>5. Nests(t, 1, New[t], page[1], m)
        <3>1. Target(New[t], Cases[t][1]) = NewPageRequest
            BY <1>1, <2>4 DEF Target
        <3>2. m = [New[t] EXCEPT !["pagination"] = <<page[1]>>]
            <4>1. m = [pagination |-> <<page[1]>>]
                <5> HIDE DEF page
                <5> QED BY <1>2, <2>3
            <4> QED BY <1>1, <4>1 DEF NewQueryListTasksRequest
        <3> HIDE DEF page
        <3> QED BY <1>1, <1>5, <2>4, <3>1, <3>2, FieldNumbers DEF Nests, NestedValue
    <2>6. Encoded(t, New[t]) = <<>> /\ Encoded(t, m) = <<>> \o appendMessage(1, bz)
        BY <1>5, <2>1, <2>2, Lengths DEF Encoded
    <2> HIDE DEF t, bz, page
    <2>7. Link(t, New[t], appendMessage(1, bz), m)
        BY <1>1, <1>3, <1>6, <2>3, <2>4, <2>5, <2>6, NestedLink, NoBytes
    <2> QED BY <1>1, <2>1, <2>7, LeadsLink DEF RoundTrip, t
<1> QED BY <1>7, <1>8

\* The lists of tasks of query responses and genesis states, entry by entry.
Listing(t) ==
    /\ t \in {"QueryListTasksResponse", "GenesisState"}
    /\ Cases[t][1] = Repeated("tasks", "Task") /\ 1 \in DOMAIN Cases[t]
    /\ New[t] \in Struct[t] /\ [New[t] EXCEPT !.tasks = <<>>] = New[t]
    /\ \A m \in Struct[t], ts \in Seq(Task) :
           /\ [m EXCEPT !.tasks = ts] \in Struct[t]
           /\ [m EXCEPT !.tasks = ts].tasks = ts
           /\ Marshal(t, [New[t] EXCEPT !.tasks = ts]) = appendTasks(1, ts)

LEMMA ListingLeads ==
    ASSUME NEW t, Listing(t), NEW ts \in Seq(Task)
    PROVE  Leads(t, New[t], appendTasks(1, ts), [New[t] EXCEPT !.tasks = ts])
<1> DEFINE With(us) == [New[t] EXCEPT !.tasks = us]
           n == Len(ts)
           First(i) == SubSeq(ts, 1, i)
           P == {i \in Nat : i <= n => Leads(t, New[t], appendTasks(1, First(i)), With(First(i)))}
<1>1. n \in Nat /\ First(n) = ts /\ First(0) = <<>>
    BY LenProperties, SubSeqFull, SubSeqEmpty
<1>2. ASSUME NEW i \in 0 .. n PROVE First(i) \in Seq(Task) /\ Len(First(i)) = i
    <2>1. i \in Int /\ 1 \in Int /\ \A j \in 1 .. i : ts[j] \in Task
        BY <1>1, ElementOfSeq
    <2> QED BY <2>1, SubSeqProperties
<1>3. 0 \in P
    <2>1. With(<<>>) = New[t] /\ appendTasks(1, <<>>) = <<>>
        BY NoTasks, FieldNumbers DEF Listing
    <2>2. Leads(t, New[t], appendTasks(1, First(0)), With(First(0)))
        <3> HIDE DEF With, First
        <3> QED BY <1>1, <2>1, LeadsEnd
    <2> QED BY <2>2
<1>4. ASSUME NEW i \in Nat, i \in P PROVE i + 1 \in P
    <2> SUFFICES ASSUME i + 1 <= n
                 PROVE  Leads(t, New[t], appendTasks(1, First(i + 1)), With(First(i + 1)))
        OBVIOUS
    <2> DEFINE us == First(i)
               x == ts[i + 1]
               bz == MarshalTask(x)
               p == appendMessage(1, bz)
    <2>1. us \in Seq(Task) /\ x \in Task /\ Leads(t, New[t], appendTasks(1, us), With(us))
        <3>1. i \in 0 .. n /\ i + 1 \in 1 .. n
            BY <1>1
        <3>2. x \in Task
            BY <3>1, ElementOfSeq
        <3>3. us \in Seq(Task)
            BY <3>1, <1>2
        <3>4. Leads(t, New[t], appendTasks(1, us), With(us))
            BY <1>1, <1>4
        <3> QED BY <3>2, <3>3, <3>4
    <2>2. First(i + 1) = Append(us, x)
        <3>1. i + 1 \in 1 .. Len(ts) /\ 1 \in 1 .. Len(ts) /\ (i + 1) - 1 = i
              /\ i + 1 \in 1 .. Len(ts)
            BY <1>1
        <3>2. First(i + 1) = SubSeq(ts, 1, (i + 1) - 1) \o <<ts[i + 1]>>
            <4>1. i + 1 \in 1 .. Len(ts)
                BY <3>1
            <4> QED BY <3>1, <4>1, SubSeqRecursiveSecond, Zenon
        <3>3. Append(us, x) = us \o <<x>>
            BY <2>1, AppendIsConcat
        <3> QED BY <3>1, <3>2, <3>3
    <2>3. Append(us, x) \in Seq(Task)
        BY <2>1, AppendProperties
    <2> HIDE DEF First, us, x
    <2>4. bz \in Buffer /\ p \in Buffer /\ appendTasks(1, us) \in Buffer
        BY <2>1, TaskSize, MessageSize, TasksSize, FieldNumbers
    <2>5. appendTasks(1, Append(us, x)) = appendTasks(1, us) \o p
        BY <2>1, TasksGrow, FieldNumbers
    <2> DEFINE m == With(us)
               more == With(Append(us, x))
    <2>6. /\ m \in Struct[t] /\ more \in Struct[t] /\ m.tasks = us
          /\ Marshal(t, m) = appendTasks(1, us) /\ Marshal(t, more) = appendTasks(1, Append(us, x))
        BY <2>1, <2>3 DEF Listing
    <2>7. /\ Cases[t][1].kind = "repeated" /\ Cases[t][1].field = "tasks"
          /\ Cases[t][1].of = "Task" /\ 1 \in DOMAIN Cases[t]
        BY DEF Listing, Repeated
    <2>8. more = [m EXCEPT !["tasks"] = Append(m["tasks"], x)]
        BY <2>6
    <2> HIDE DEF m, more
    <2>9. Nests(t, 1, m, x, more)
        BY <2>6, <2>7, <2>8, FieldNumbers DEF Nests, NestedValue, Target
    <2>10. t # "PageRequest" /\ t # "PageResponse"
        BY DEF Listing
    <2>11. Encoded(t, m) \in Buffer /\ Encoded(t, more) = Encoded(t, m) \o p
        BY <2>4, <2>5, <2>6, <2>10 DEF Encoded
    <2>12. Flat("Task") /\ x \in Struct["Task"] /\ bz = Encoded("Task", x)
        BY <2>1, TaskFlat DEF Struct, Encoded, Marshal, Empty
    <2> HIDE DEF bz
    <2>13. Link(t, m, p, more)
        BY <2>4, <2>7, <2>9, <2>11, <2>12, NestedLink
    <2> HIDE DEF p
    <2>14. Leads(t, m, p, more)
        BY <2>13, LeadsLink
    <2>15. Leads(t, New[t], appendTasks(1, us) \o p, more)
        <3>1. New[t] \in Struct[t] /\ Leads(t, New[t], appendTasks(1, us), m)
            BY <2>1 DEF Listing, m
        <3> QED BY <2>4, <2>14, <3>1, LeadsThen
    <2> HIDE DEF With
    <2> QED BY <2>2, <2>5, <2>15 DEF more
<1>5. Nat \subseteq P
    <2> HIDE DEF P
    <2> QED BY <1>3, <1>4, NatSteps
<1>6. Leads(t, New[t], appendTasks(1, First(n)), With(First(n)))
    <2> HIDE DEF With, First
    <2> QED BY <1>1, <1>5
<1> QED BY <1>1, <1>6

LEMMA ListTasksListing == Listing("QueryListTasksResponse")
<1> DEFINE t == "QueryListTasksResponse"
<1>1. Struct[t] = QueryListTasksResponse /\ New[t] = [tasks |-> <<>>, pagination |-> <<>>]
    BY DEF Struct, New, NewQueryListTasksResponse
<1>2. Cases[t][1] = Repeated("tasks", "Task") /\ 1 \in DOMAIN Cases[t]
    BY DEF Cases, UnmarshalQueryListTasksResponse
<1>3. <<>> \in Seq(Task) /\ <<>> \in Optional(PageResponse)
    BY EmptySeq, NoPage
<1>4. New[t] \in Struct[t] /\ [New[t] EXCEPT !.tasks = <<>>] = New[t]
    BY <1>1, <1>3 DEF QueryListTasksResponse
<1>5. ASSUME NEW m \in Struct[t], NEW ts \in Seq(Task)
      PROVE  [m EXCEPT !.tasks = ts] \in Struct[t] /\ [m EXCEPT !.tasks = ts].tasks = ts
    BY <1>1 DEF QueryListTasksResponse
<1>6. ASSUME NEW ts \in Seq(Task)
      PROVE  Marshal(t, [New[t] EXCEPT !.tasks = ts]) = appendTasks(1, ts)
    <2>1. [New[t] EXCEPT !.tasks = ts] = [tasks |-> ts, pagination |-> <<>>]
        BY <1>1
    <2>2. Marshal(t, [tasks |-> ts, pagination |-> <<>>]) = appendTasks(1, ts) \o <<>>
        BY DEF Marshal, Empty, MarshalQueryListTasksResponse, PageResponseBz, appendPage
    <2>3. appendTasks(1, ts) \in Buffer
        BY TasksSize, FieldNumbers
    <2> QED BY <2>1, <2>2, <2>3, Lengths
<1> QED BY <1>2, <1>4, <1>5, <1>6 DEF Listing

LEMMA GenesisListing == Listing("GenesisState")
<1> DEFINE t == "GenesisState"
<1>1. Struct[t] = GenesisState /\ New[t] = [tasks |-> <<>>, next_task_id |-> 0]
    BY DEF Struct, New, NewGenesisState
<1>2. Cases[t][1] = Repeated("tasks", "Task") /\ 1 \in DOMAIN Cases[t]
    BY DEF Cases, UnmarshalGenesisState
<1>3. <<>> \in Seq(Task)
    BY EmptySeq
<1>4. New[t] \in Struct[t] /\ [New[t] EXCEPT !.tasks = <<>>] = New[t]
    BY <1>1, <1>3 DEF GenesisState
<1>5. ASSUME NEW m \in Struct[t], NEW ts \in Seq(Task)
      PROVE  [m EXCEPT !.tasks = ts] \in Struct[t] /\ [m EXCEPT !.tasks = ts].tasks = ts
    BY <1>1 DEF GenesisState
<1>6. ASSUME NEW ts \in Seq(Task)
      PROVE  Marshal(t, [New[t] EXCEPT !.tasks = ts]) = appendTasks(1, ts)
    <2>1. [New[t] EXCEPT !.tasks = ts] = [tasks |-> ts, next_task_id |-> 0]
        BY <1>1
    <2>2. Marshal(t, [tasks |-> ts, next_task_id |-> 0]) = appendTasks(1, ts) \o <<>>
        BY DEF Marshal, Empty, MarshalGenesisState, appendUint64
    <2>3. appendTasks(1, ts) \in Buffer
        BY TasksSize, FieldNumbers
    <2> QED BY <2>1, <2>2, <2>3, Lengths
<1> QED BY <1>2, <1>4, <1>5, <1>6 DEF Listing

LEMMA GenesisRoundTrip ==
    ASSUME NEW m \in GenesisState
    PROVE  RoundTrip("GenesisState", m)
<1> DEFINE t == "GenesisState"
           ts == m.tasks
           v == m.next_task_id
           a == appendTasks(1, ts)
           p == appendUint64(2, v)
           part == [New[t] EXCEPT !.tasks = ts]
<1>1. Struct[t] = GenesisState /\ New[t] = [tasks |-> <<>>, next_task_id |-> 0]
    BY DEF Struct, New, NewGenesisState
<1>2. /\ ts \in Seq(Task) /\ v \in Nat /\ m = [tasks |-> ts, next_task_id |-> v]
      /\ part = [tasks |-> ts, next_task_id |-> 0] /\ part \in Struct[t]
    BY <1>1 DEF GenesisState
<1>3. a \in Buffer /\ p \in Buffer
    BY <1>2, TasksSize, Uint64Size, FieldNumbers
<1>4. Leads(t, New[t], a, part) /\ Marshal(t, part) = a /\ New[t] \in Struct[t]
    <2>1. Listing(t)
        BY GenesisListing
    <2> QED BY <1>2, <2>1, ListingLeads DEF Listing
<1>5. Marshal(t, m) = a \o p
    BY DEF Marshal, Empty, MarshalGenesisState
<1>6. /\ 2 \in DOMAIN Cases[t] /\ Cases[t][2].kind = "varint"
      /\ Cases[t][2].field = "next_task_id"
    BY DEF Cases, UnmarshalGenesisState, Varint
<1>7. Grows(t, part, Cases[t][2].field, v, p, m)
    <2>1. m = [part EXCEPT !["next_task_id"] = v] /\ m \in Struct[t]
        BY <1>1, <1>2
    <2>2. \A x : Encoded(t, x) = Marshal(t, x)
        BY DEF Encoded
    <2> HIDE DEF t, a, p, v, part
    <2> QED BY <1>2, <1>3, <1>4, <1>5, <1>6, <2>1, <2>2 DEF Grows
<1>8. v = 0 => m = part
    BY <1>2
<1> HIDE DEF t, a, v, part
<1>9. Leads(t, part, p, m)
    BY <1>2, <1>6, <1>7, <1>8, Uint64Leads, FieldNumbers
<1>10. Leads(t, New[t], a \o p, m)
    <2> HIDE DEF p
    <2> QED BY <1>3, <1>4, <1>9, LeadsThen
<1> QED BY <1>1, <1>5, <1>10 DEF RoundTrip, t

LEMMA ListTasksRoundTrip ==
    ASSUME NEW m \in QueryListTasksResponse
    PROVE  RoundTrip("QueryListTasksResponse", m)
<1> DEFINE t == "QueryListTasksResponse"
           ts == m.tasks
           page == m.pagination
           bz == PageResponseBz(page)
           a == appendTasks(1, ts)
           part == [New[t] EXCEPT !.tasks = ts]
<1>1. /\ Struct[t] = QueryListTasksResponse /\ New[t] = [tasks |-> <<>>, pagination |-> <<>>]
      /\ Struct["PageResponse"] = PageResponse /\ New["PageResponse"] = NewPageResponse
      /\ Flat("PageResponse") /\ \A x : Encoded("PageResponse", x) = MarshalPageResponse(x)
    BY PageResponseFlat DEF Struct, New, NewQueryListTasksResponse, Encoded
<1>2. /\ ts \in Seq(Task) /\ page \in Optional(PageResponse)
      /\ m = [tasks |-> ts, pagination |-> page]
      /\ part = [tasks |-> ts, pagination |-> <<>>] /\ part \in Struct[t]
    BY <1>1, NoPage DEF QueryListTasksResponse
<1>3. a \in Buffer /\ bz \in Buffer
    BY <1>2, TasksSize, PageBz, FieldNumbers
<1>4. Leads(t, New[t], a, part) /\ Marshal(t, part) = a /\ New[t] \in Struct[t]
    <2>1. Listing(t)
        BY ListTasksListing
    <2> QED BY <1>2, <2>1, ListingLeads DEF Listing
<1>5. Marshal(t, m) = a \o appendPage(2, bz)
    BY DEF Marshal, Empty, MarshalQueryListTasksResponse
<1>6. CASE bz = <<>>
    <2>1. Marshal(t, m) = a
        BY <1>3, <1>5, <1>6, Lengths DEF appendPage
    <2>2. page = <<>> \/ page[1] = NewPageResponse
        BY <1>1, <1>2, <1>6, OptionalIs, EmptyIsNew DEF PageResponseBz
    <2>3. /\ Meaning(t, m) = [tasks |-> ts,
                              pagination |-> IF page # <<>> THEN page[1] ELSE NewPageResponse]
          /\ Meaning(t, part) = [tasks |-> ts, pagination |-> NewPageResponse]
        BY <1>1, <1>2 DEF Meaning
    <2>4. Meaning(t, part) = Meaning(t, m)
        BY <2>2, <2>3
    <2> QED BY <1>2, <1>4, <2>1, <2>4 DEF RoundTrip
<1>7. CASE bz # <<>>
    <2> DEFINE p == appendMessage(2, bz)
    <2>1. Marshal(t, m) = a \o p
        BY <1>5, <1>7 DEF appendPage
    <2>2. p \in Buffer
        BY <1>3, MessageSize, FieldNumbers
    <2>3. page[1] \in PageResponse /\ page = <<page[1]>> /\ bz = MarshalPageResponse(page[1])
        BY <1>2, <1>7, OptionalIs DEF PageResponseBz
    <2>4. /\ 2 \in DOMAIN Cases[t] /\ Cases[t][2].kind = "pointer"
          /\ Cases[t][2].field = "pagination" /\ Cases[t][2].of = "PageResponse"
        BY DEF Cases, UnmarshalQueryListTasksResponse, Pointer
    <2>5. Nests(t, 2, part, page[1], m)
        <3>1. Target(part, Cases[t][2]) = NewPageResponse
            BY <1>1, <2>4 DEF Target
        <3>2. m = [part EXCEPT !["pagination"] = <<page[1]>>]
            <4> HIDE DEF page, part
            <4>1. m = [tasks |-> ts, pagination |-> <<page[1]>>]
                BY <1>2, <2>3
            <4> QED BY <1>2, <4>1
        <3> HIDE DEF page, part
        <3> QED BY <1>1, <1>2, <2>4, <3>1, <3>2, FieldNumbers DEF Nests, NestedValue
    <2>6. Encoded(t, part) = a /\ Encoded(t, m) = a \o p
        BY <1>4, <2>1 DEF Encoded
    <2>7. m \in Struct[t]
        BY <1>1
    <2> HIDE DEF t, bz, page, a, part
    <2>8. Link(t, part, p, m)
        BY <1>1, <1>3, <2>2, <2>3, <2>4, <2>5, <2>6, NestedLink
    <2> HIDE DEF p
    <2>9. Leads(t, New[t], a \o p, m)
        BY <1>3, <1>4, <2>2, <2>8, LeadsLink, LeadsThen
    <2> QED BY <2>1, <2>7, <2>9 DEF RoundTrip, t
<1> QED BY <1>6, <1>7

\* What Marshal writes is decoded by Unmarshal to a message of the same meaning.
LEMMA AllRoundTrip ==
    ASSUME NEW t \in DOMAIN Struct \ (Empty \cup {"PageRequest", "PageResponse"}),
           NEW m \in Struct[t]
    PROVE  RoundTrip(t, m)
<1>1. /\ Struct["QueryTaskResponse"] = QueryTaskResponse
      /\ Struct["QueryListTasksRequest"] = QueryListTasksRequest
      /\ Struct["QueryListTasksResponse"] = QueryListTasksResponse
      /\ Struct["GenesisState"] = GenesisState
    BY DEF Struct
<1>2. t \in (FlatTypes \ {"PageRequest", "PageResponse"})
           \cup {"QueryTaskResponse", "QueryListTasksRequest", "QueryListTasksResponse",
                 "GenesisState"}
    BY DEF Struct, Empty, FlatTypes
<1> QED BY <1>1, <1>2, FlatRoundTrip, QueryTaskResponseRoundTrip, QueryListTasksRequestRoundTrip,
           ListTasksRoundTrip, GenesisRoundTrip

-----------------------------------------------------------------------------
(* Where Unmarshal is in what was sent.                                     *)

Coded == DOMAIN Struct \ (Empty \cup {"PageRequest", "PageResponse"})

\* The bytes r complete what has been decoded, m, to the message s that was sent.
Ahead(t, m, s, r) == \E end : Leads(t, m, r, end) /\ Meaning(t, end) = Meaning(t, s)

\* An unknown field, or none.
Padding == Unknown \cup {<<>>}

\* After m of what was sent, s, and arrived, w, was decoded, b is left.
Place(t, s, m, w, b, f) ==
    /\ f # "unknown" => w = Marshal(t, m) \o b
    /\ f = "none" => Ahead(t, m, s, b)
    /\ f = "cut" => \E c \in Buffer : Ahead(t, m, s, b \o c)
    /\ f = "unknown" =>
           \E a \in Padding, z \in Padding, r \in Buffer : b = (a \o r) \o z /\ Ahead(t, m, s, r)

LEMMA PaddingTyped == \A a \in Padding : a \in Buffer
BY UnknownAssumption, NoBytes DEF Padding

LEMMA CasesOfCoded == \A t \in Coded : t \in DOMAIN Cases
BY DEF Coded, Struct, Empty, Cases

\* A buffer cut in two, and in two.
Same(a, b, c, d) ==
    /\ a \in Buffer /\ b \in Buffer /\ c \in Buffer /\ d \in Buffer
    /\ a \o b = c \o d

\* The second of them was cut earlier.
Earlier(c, d, e, g) == \E q \in Buffer : c = e \o q /\ g = q \o d

LEMMA FirstCut ==
    ASSUME NEW c, NEW d, NEW e, NEW g, Same(c, d, e, g), Len(e) <= Len(c)
    PROVE  Earlier(c, d, e, g)
<1> DEFINE n == Len(e)
           h == SubSeq(c, 1, n)
           q == Drop(c, n)
<1>0. c \in Buffer /\ d \in Buffer /\ e \in Buffer /\ g \in Buffer /\ c \o d = e \o g
    BY DEF Same
<1>1. h \in Buffer /\ Len(h) = n /\ q \in Buffer /\ h \o q = c
    <2>1. n \in 0 .. Len(c)
        BY <1>0, Lengths
    <2> HIDE DEF n
    <2> QED BY <1>0, <2>1, Cut
<1> HIDE DEF h, q
<1>2. q \o d \in Buffer
    BY <1>0, <1>1, Joined
<1>3. h \o (q \o d) = e \o g
    <2>1. (h \o q) \o d = h \o (q \o d)
        <3>1. h \in Buffer /\ q \in Buffer /\ d \in Buffer
            BY <1>0, <1>1
        <3> QED BY <3>1, Regrouped
    <2> QED BY <1>0, <1>1, <2>1, Zenon
<1>4. SubSeq(h \o (q \o d), 1, Len(h)) = h /\ Drop(h \o (q \o d), Len(h)) = q \o d
    BY <1>1, <1>2, SameStart, Zenon
<1>5. SubSeq(e \o g, 1, n) = e /\ Drop(e \o g, n) = g
    BY <1>0, SameStart
<1> HIDE DEF n
<1>6. h = e /\ q \o d = g
    BY <1>1, <1>3, <1>4, <1>5, Zenon
<1> QED BY <1>1, <1>6 DEF Earlier

Longer(p, a) == \E q \in Buffer : q # <<>> /\ p = a \o q

LEMMA TwoCuts ==
    ASSUME NEW a, NEW b, NEW p, NEW r, Same(a, b, p, r)
    PROVE  Earlier(a, b, p, r) \/ Longer(p, a)
<1>1. Len(a) \in Nat /\ Len(p) \in Nat /\ a \in Buffer
    BY Lengths DEF Same
<1>2. CASE Len(p) <= Len(a)
    BY <1>2, FirstCut
<1>3. CASE ~(Len(p) <= Len(a))
    <2>1. Len(a) <= Len(p) /\ Len(a) # Len(p)
        BY <1>1, <1>3
    <2>2. Same(p, r, a, b)
        BY DEF Same
    <2>3. Len(a) <= Len(p)
        BY <2>1
    <2>4. Earlier(p, r, a, b)
        BY <2>2, <2>3, FirstCut, Zenon
    <2>5. PICK q \in Buffer : p = a \o q /\ b = q \o r
        BY <2>4 DEF Earlier
    <2>6. q # <<>>
        BY <1>1, <2>1, <2>5, Lengths
    <2> QED BY <2>5, <2>6 DEF Longer
<1> QED BY <1>2, <1>3

\* One round of the loop with a field that the type does not have.
LEMMA RoundSkips ==
    ASSUME NEW t \in Coded, NEW m, NEW u \in Unknown, NEW r \in Buffer
    PROVE  u # <<>> /\ UnmarshalField(t, m, u \o r) = [m |-> m, b |-> r, err |-> "none"]
<1> DEFINE field == Field(t, u \o r)
           set   == SetField(t, m, field)
<1>1. /\ u \in Buffer /\ Field(t, u).n = Len(u) /\ Field(t, u).num \notin DOMAIN Cases[t]
      /\ Len(u) \in Nat
    BY UnknownAssumption, UnknownIsAField, CasesOfCoded, Lengths
<1>2. Field(t, u \o r) = Field(t, u) /\ Len(u) \in 1 .. Len(u)
    BY <1>1, FieldLocal
<1>3. u # <<>>
    BY <1>2, NoBytes
<1>4. field.n = Len(u) /\ field.num \notin DOMAIN Cases[t]
    BY <1>1, <1>2
<1>5. set = [m |-> m, err |-> "none"]
    <2> HIDE DEF field
    <2> QED BY <1>4 DEF SetField, SetScalar
<1>6. UnmarshalField(t, m, u \o r)
      = IF field.n < 0 THEN Failed(m, u \o r)
        ELSE IF set.err # "none" THEN Failed(m, u \o r)
        ELSE [m |-> set.m, b |-> Drop(u \o r, field.n), err |-> "none"]
    BY Zenon DEF UnmarshalField
<1>7. Drop(u \o r, field.n) = r /\ ~(field.n < 0)
    BY <1>1, <1>4, SameStart
<1>8. set.m = m /\ set.err = "none"
    BY <1>5
<1> HIDE DEF field, set
<1> QED BY <1>3, <1>6, <1>7, <1>8, Zenon

\* The next field that leads on.
First(t, m, b, end) ==
    \E p, more, r : /\ Link(t, m, p, more) /\ p # <<>> /\ r \in Buffer
                    /\ b = p \o r /\ Leads(t, more, r, end)

LEMMA LeadsFirst == \A t, m, b, end : Leads(t, m, b, end) /\ b # <<>> => First(t, m, b, end)
<1> SUFFICES ASSUME NEW t, NEW m, NEW b, NEW end, Leads(t, m, b, end), b # <<>>
             PROVE  First(t, m, b, end)
    OBVIOUS
<1> QED BY LeadsWhere DEF First

LEMMA Moves ==
    ASSUME NEW t \in Coded, NEW s, NEW m, NEW w, NEW b \in Buffer, b # <<>>,
           NEW f \in {"none", "cut", "unknown"}, Place(t, s, m, w, b, f), m \in Struct[t],
           NEW next, next = UnmarshalField(t, m, b)
    PROVE  \/ /\ next.err = "none" /\ next.m \in Struct[t] /\ next.b \in Buffer
              /\ Place(t, s, next.m, w, next.b, f)
           \/ next.err = "decode" /\ f = "cut" /\ next.m = m /\ next.b = b
<1> DEFINE Goal == \/ /\ next.err = "none" /\ next.m \in Struct[t] /\ next.b \in Buffer
                      /\ Place(t, s, next.m, w, next.b, f)
                   \/ next.err = "decode" /\ f = "cut" /\ next.m = m /\ next.b = b
<1> SUFFICES Goal
    OBVIOUS
<1>1. \A x : Encoded(t, x) = Marshal(t, x)
    BY DEF Encoded, Coded
<1>2. ASSUME NEW p, NEW more, NEW r \in Buffer, Link(t, m, p, more), p # <<>>, b = p \o r,
             f # "unknown"
      PROVE  /\ next = [m |-> more, b |-> r, err |-> "none"] /\ more \in Struct[t]
             /\ w = Marshal(t, more) \o r
    <2>1. next = [m |-> more, b |-> r, err |-> "none"]
        BY <1>2, RoundReads
    <2>2. /\ w = Marshal(t, m) \o (p \o r) /\ Marshal(t, m) \in Buffer /\ p \in Buffer
          /\ Marshal(t, more) = Marshal(t, m) \o p /\ more \in Struct[t]
        BY <1>1, <1>2 DEF Link, Place
    <2> QED BY <2>1, <2>2, Regrouped
<1>3. CASE f = "none"
    <2>1. PICK end : Leads(t, m, b, end) /\ Meaning(t, end) = Meaning(t, s)
        BY <1>3 DEF Place, Ahead
    <2>2. PICK p, more, r : /\ Link(t, m, p, more) /\ p # <<>> /\ r \in Buffer
                            /\ b = p \o r /\ Leads(t, more, r, end)
        BY <2>1, LeadsFirst DEF First
    <2>3. /\ next = [m |-> more, b |-> r, err |-> "none"] /\ more \in Struct[t]
          /\ w = Marshal(t, more) \o r
        BY <1>2, <1>3, <2>2
    <2>4. Place(t, s, more, w, r, f)
        BY <1>3, <2>1, <2>2, <2>3 DEF Place, Ahead
    <2> QED BY <2>2, <2>3, <2>4
<1>4. CASE f = "cut"
    <2>0. PICK c \in Buffer : Ahead(t, m, s, b \o c)
        BY <1>4 DEF Place
    <2>1. PICK end : Leads(t, m, b \o c, end) /\ Meaning(t, end) = Meaning(t, s)
        BY <2>0 DEF Ahead
    <2>2. b \o c # <<>>
        BY Joined
    <2>3. PICK p, more, r : /\ Link(t, m, p, more) /\ p # <<>> /\ r \in Buffer
                            /\ b \o c = p \o r /\ Leads(t, more, r, end)
        BY <2>1, <2>2, LeadsFirst DEF First
    <2>4. p \in Buffer
        BY <2>3 DEF Link
    <2>5. ASSUME NEW q \in Buffer, b = p \o q, r = q \o c PROVE Goal
        <3>1. /\ next = [m |-> more, b |-> q, err |-> "none"] /\ more \in Struct[t]
              /\ w = Marshal(t, more) \o q
            BY <1>2, <1>4, <2>3, <2>5
        <3>2. Place(t, s, more, w, q, f)
            BY <1>4, <2>1, <2>3, <2>5, <3>1 DEF Place, Ahead
        <3> QED BY <3>1, <3>2
    <2>6. ASSUME NEW q \in Buffer, q # <<>>, p = b \o q PROVE Goal
        <3>1. next = Failed(m, b)
            BY <2>3, <2>6, RoundFails
        <3> QED BY <1>4, <3>1 DEF Failed
    <2>7. \/ \E q \in Buffer : b = p \o q /\ r = q \o c
          \/ \E q \in Buffer : q # <<>> /\ p = b \o q
        <3>1. Same(b, c, p, r)
            BY <2>3, <2>4 DEF Same
        <3>2. Earlier(b, c, p, r) \/ Longer(p, b)
            BY <3>1, TwoCuts, Zenon
        <3> QED BY <3>2, Zenon DEF Earlier, Longer
    <2> HIDE DEF Goal
    <2> QED BY <2>5, <2>6, <2>7, Zenon
<1>5. CASE f = "unknown"
    <2>0. PICK a \in Padding, z \in Padding, r \in Buffer :
              b = (a \o r) \o z /\ Ahead(t, m, s, r)
        BY <1>5 DEF Place
    <2>1. PICK end :
              b = (a \o r) \o z /\ Leads(t, m, r, end) /\ Meaning(t, end) = Meaning(t, s)
        BY <2>0 DEF Ahead
    <2>2. a \in Buffer /\ z \in Buffer /\ <<>> \in Padding
        BY PaddingTyped DEF Padding
    <2>3. CASE a # <<>>
        <3>1. b = a \o (r \o z) /\ r \o z \in Buffer /\ a \in Unknown
            <4>1. (a \o r) \o z = a \o (r \o z) /\ r \o z \in Buffer
                BY <2>2, Regrouped, Joined
            <4>2. a \in Unknown
                BY <2>3 DEF Padding
            <4> QED BY <2>1, <4>1, <4>2, Zenon
        <3>2. next = [m |-> m, b |-> r \o z, err |-> "none"]
            BY <3>1, RoundSkips
        <3>3. r \o z = (<<>> \o r) \o z
            BY Lengths
        <3>4. Place(t, s, m, w, r \o z, f)
            BY <1>5, <2>1, <2>2, <3>3 DEF Place, Ahead
        <3>5. next.m = m /\ next.b = r \o z /\ next.err = "none"
            BY <3>2
        <3> QED BY <3>1, <3>4, <3>5, Zenon
    <2>4. CASE a = <<>> /\ r # <<>>
        <3>1. PICK p, more, q : /\ Link(t, m, p, more) /\ p # <<>> /\ q \in Buffer
                                /\ r = p \o q /\ Leads(t, more, q, end)
            BY <2>1, <2>4, LeadsFirst DEF First
        <3>2. p \in Buffer /\ more \in Struct[t]
            BY <3>1 DEF Link
        <3>3. b = p \o (q \o z) /\ q \o z \in Buffer
            <4>1. a \o r = p \o q
                BY <2>4, <3>1, Lengths
            <4>2. (p \o q) \o z = p \o (q \o z) /\ q \o z \in Buffer
                BY <2>2, <3>1, <3>2, Regrouped, Joined
            <4> QED BY <2>1, <4>1, <4>2, Zenon
        <3>4. next = [m |-> more, b |-> q \o z, err |-> "none"]
            <4>1. PICK d \in Buffer : d = q \o z
                BY <3>3
            <4>2. UnmarshalField(t, m, p \o d) = [m |-> more, b |-> d, err |-> "none"]
                BY <3>1, <4>1, RoundReads
            <4> QED BY <3>3, <4>1, <4>2
        <3>5. q \o z = (<<>> \o q) \o z
            BY <3>1, Lengths
        <3>6. Place(t, s, more, w, q \o z, f)
            BY <1>5, <2>1, <2>2, <3>1, <3>5 DEF Place, Ahead
        <3>7. next.m = more /\ next.b = q \o z /\ next.err = "none"
            BY <3>4
        <3> QED BY <3>2, <3>3, <3>6, <3>7, Zenon
    <2>5. CASE a = <<>> /\ r = <<>>
        <3>1. b = z /\ z \in Unknown
            <4>1. (a \o r) \o z = z
                BY <2>2, <2>5, NoBytes, Lengths
            <4> QED BY <2>1, <4>1 DEF Padding
        <3>2. next = [m |-> m, b |-> <<>>, err |-> "none"]
            <4>1. b = z \o <<>> /\ <<>> \in Buffer
                BY <2>2, <3>1, NoBytes, Lengths
            <4> QED BY <3>1, <4>1, RoundSkips
        <3>3. <<>> = (<<>> \o <<>>) \o <<>> /\ <<>> \in Buffer
            BY NoBytes, Lengths
        <3>4. Place(t, s, m, w, <<>>, f)
            BY <1>5, <2>1, <2>2, <2>5, <3>3 DEF Place, Ahead
        <3> QED BY <3>2, <3>3, <3>4
    <2> QED BY <2>3, <2>4, <2>5
<1> QED BY <1>3, <1>4, <1>5

-----------------------------------------------------------------------------
(* What arrives.                                                            *)

LEMMA NewWritesNothing ==
    ASSUME NEW t \in Coded
    PROVE  New[t] \in Struct[t] /\ Marshal(t, New[t]) = <<>>
<1>1. CASE t \in FlatTypes
    <2>1. Encoded(t, New[t]) = Marshal(t, New[t])
        BY DEF Encoded, Coded
    <2> QED BY <1>1, <2>1, AllFlat, NewIsEmpty
<1>2. /\ NewTask \in Task /\ MarshalTask(NewTask) = <<>>
      /\ 1 \in FieldNumber /\ 2 \in FieldNumber
    <2>1. /\ New["Task"] = NewTask /\ Struct["Task"] = Task
          /\ Encoded("Task", NewTask) = MarshalTask(NewTask)
        BY DEF New, Struct, Encoded, Marshal, Empty
    <2> QED BY <2>1, TaskFlat, NewIsEmpty, FieldNumbers
<1>3. CASE t = "QueryTaskResponse"
    <2>1. /\ New[t] = [task |-> NewTask] /\ Struct[t] = QueryTaskResponse
          /\ Marshal(t, New[t]) = MarshalQueryTaskResponse(New[t])
        BY <1>3 DEF New, NewQueryTaskResponse, Struct, Marshal, Empty
    <2> QED BY <1>2, <2>1 DEF QueryTaskResponse, MarshalQueryTaskResponse
<1>4. CASE t = "QueryListTasksRequest"
    <2>1. /\ New[t] = [pagination |-> <<>>] /\ Struct[t] = QueryListTasksRequest
          /\ Marshal(t, New[t]) = MarshalQueryListTasksRequest(New[t])
        BY <1>4 DEF New, NewQueryListTasksRequest, Struct, Marshal, Empty
    <2>2. New[t] \in Struct[t]
        BY <2>1, NoPage DEF QueryListTasksRequest
    <2> QED BY <2>1, <2>2 DEF MarshalQueryListTasksRequest, PageRequestBz, appendPage
<1>5. CASE t = "QueryListTasksResponse"
    <2>1. /\ New[t] = [tasks |-> <<>>, pagination |-> <<>>]
          /\ Struct[t] = QueryListTasksResponse
          /\ Marshal(t, New[t]) = MarshalQueryListTasksResponse(New[t])
        BY <1>5 DEF New, NewQueryListTasksResponse, Struct, Marshal, Empty
    <2>2. New[t] \in Struct[t]
        BY <2>1, NoPage, EmptySeq DEF QueryListTasksResponse
    <2>3. appendPage(2, PageResponseBz(<<>>)) = <<>> /\ appendTasks(1, <<>>) = <<>>
        BY <1>2, NoTasks DEF PageResponseBz, appendPage
    <2>4. Marshal(t, New[t]) = <<>> \o <<>>
        BY <2>1, <2>3 DEF MarshalQueryListTasksResponse
    <2> QED BY <2>2, <2>4, NoBytes, Lengths
<1>6. CASE t = "GenesisState"
    <2>1. /\ New[t] = [tasks |-> <<>>, next_task_id |-> 0] /\ Struct[t] = GenesisState
          /\ Marshal(t, New[t]) = MarshalGenesisState(New[t])
        BY <1>6 DEF New, NewGenesisState, Struct, Marshal, Empty
    <2>2. New[t] \in Struct[t]
        BY <2>1, EmptySeq DEF GenesisState
    <2>3. appendUint64(2, 0) = <<>> /\ appendTasks(1, <<>>) = <<>>
        BY <1>2, NoTasks DEF appendUint64
    <2>4. Marshal(t, New[t]) = <<>> \o <<>>
        BY <2>1, <2>3 DEF MarshalGenesisState
    <2> QED BY <2>2, <2>4, NoBytes, Lengths
<1>7. t \in FlatTypes \cup {"QueryTaskResponse", "QueryListTasksRequest",
                            "QueryListTasksResponse", "GenesisState"}
    BY DEF Coded, Struct, Empty, FlatTypes
<1> QED BY <1>1, <1>3, <1>4, <1>5, <1>6, <1>7

\* MarshalTo and MarshalToSizedBuffer return what Marshal does.
LEMMA WrittenIs ==
    ASSUME NEW t \in DOMAIN Struct \ {"PageRequest", "PageResponse"}, NEW m \in Struct[t],
           NEW bz \in Written(t, m)
    PROVE  bz = Marshal(t, m) /\ bz \in Buffer
<1> DEFINE full == Marshal(t, m)
           zero == [i \in 1 .. Size(t, m) - Len(full) |-> 0]
<1>1. full \in Buffer /\ Size(t, m) = Len(full) /\ Len(full) \in Nat
    BY MessagesFit, Lengths DEF Fits
<1>2. bz \in {full, SubSeq(full \o zero, 1, Len(full)), zero \o full}
    BY <1>1 DEF Written
<1>3. zero = <<>>
    <2>1. 1 .. Size(t, m) - Len(full) = {}
        BY <1>1
    <2> QED BY <2>1
<1>4. full \o <<>> = full /\ <<>> \o full = full /\ SubSeq(full \o <<>>, 1, Len(full)) = full
    BY <1>1, NoBytes, Lengths, SameStart
<1>5. bz \in {full, SubSeq(full \o <<>>, 1, Len(full)), <<>> \o full}
    <2> HIDE DEF full, zero
    <2> QED BY <1>2, <1>3, Zenon
<1> QED BY <1>1, <1>4, <1>5, Zenon

Faults == {"none", "cut", "unknown"}

LEMMA Arrived ==
    ASSUME NEW t \in Coded, NEW m \in Struct[t], NEW a \in Arrivals(Marshal(t, m))
    PROVE  a.b \in Buffer /\ a.fault \in Faults /\ Place(t, m, New[t], a.b, a.b, a.fault)
<1> DEFINE b == Marshal(t, m)
<1>1. b \in Buffer /\ Len(b) \in Nat
    BY MessagesFit, Lengths DEF Fits, Coded, Empty
<1>2. Ahead(t, New[t], m, b)
    BY AllRoundTrip DEF RoundTrip, Ahead, Coded
<1>3. \A x \in Buffer : x = Marshal(t, New[t]) \o x
    BY NewWritesNothing, Lengths
<1>4. CASE a = [b |-> b, fault |-> "none"]
    BY <1>1, <1>2, <1>3, <1>4 DEF Place, Faults
<1>5. ASSUME NEW n \in 0 .. Len(b) - 1, a = [b |-> SubSeq(b, 1, n), fault |-> "cut"]
      PROVE  a.b \in Buffer /\ a.fault \in Faults /\ Place(t, m, New[t], a.b, a.b, a.fault)
    <2>1. SubSeq(b, 1, n) \in Buffer /\ Drop(b, n) \in Buffer /\ b = SubSeq(b, 1, n) \o Drop(b, n)
        <3>1. n \in 0 .. Len(b)
            BY <1>1
        <3> HIDE DEF b
        <3> QED BY <1>1, <3>1, Cut
    <2>2. a.b = SubSeq(b, 1, n) /\ a.fault = "cut"
        BY <1>5
    <2> HIDE DEF b
    <2>3. Ahead(t, New[t], m, a.b \o Drop(b, n))
        BY <1>2, <2>1, <2>2, Zenon
    <2> QED BY <1>3, <2>1, <2>2, <2>3 DEF Place, Faults
<1>6. ASSUME NEW u \in Unknown, a = [b |-> u \o b, fault |-> "unknown"]
      PROVE  a.b \in Buffer /\ a.fault \in Faults /\ Place(t, m, New[t], a.b, a.b, a.fault)
    <2>1. u \in Buffer /\ u \in Padding /\ <<>> \in Padding
        BY UnknownAssumption DEF Padding
    <2>2. u \o b \in Buffer /\ u \o b = (u \o b) \o <<>>
        BY <1>1, <2>1, Joined, Lengths
    <2> HIDE DEF b
    <2> QED BY <1>1, <1>2, <1>6, <2>1, <2>2 DEF Place, Faults
<1>7. ASSUME NEW u \in Unknown, a = [b |-> b \o u, fault |-> "unknown"]
      PROVE  a.b \in Buffer /\ a.fault \in Faults /\ Place(t, m, New[t], a.b, a.b, a.fault)
    <2>1. u \in Buffer /\ u \in Padding /\ <<>> \in Padding
        BY UnknownAssumption DEF Padding
    <2>2. b \o u \in Buffer /\ b \o u = (<<>> \o b) \o u
        BY <1>1, <2>1, Joined, Lengths
    <2> HIDE DEF b
    <2> QED BY <1>1, <1>2, <1>7, <2>1, <2>2 DEF Place, Faults
<1>8. \/ a = [b |-> b, fault |-> "none"]
      \/ \E n \in 0 .. Len(b) - 1 : a = [b |-> SubSeq(b, 1, n), fault |-> "cut"]
      \/ \E u \in Unknown : \/ a = [b |-> u \o b, fault |-> "unknown"]
                            \/ a = [b |-> b \o u, fault |-> "unknown"]
    <2>1. \/ a \in {[b |-> b, fault |-> "none"]}
          \/ a \in {[b |-> SubSeq(b, 1, n), fault |-> "cut"] :
                       n \in IF MayBeCut THEN 0 .. Len(b) - 1 ELSE {}}
          \/ \E u \in Unknown : a \in {[b |-> u \o b, fault |-> "unknown"],
                                       [b |-> b \o u, fault |-> "unknown"]}
        BY Zenon DEF Arrivals
    <2>2. ASSUME a \in {[b |-> SubSeq(b, 1, n), fault |-> "cut"] :
                           n \in IF MayBeCut THEN 0 .. Len(b) - 1 ELSE {}}
          PROVE  \E n \in 0 .. Len(b) - 1 : a = [b |-> SubSeq(b, 1, n), fault |-> "cut"]
        BY <2>2
    <2> QED BY <2>1, <2>2
<1> QED BY <1>4, <1>5, <1>6, <1>7, <1>8

-----------------------------------------------------------------------------
(* Every message is where Unmarshal has to find it.                         *)

\* Bytes that are refused were cut.
Refused == err = "decode" => phase = "done" /\ fault = "cut"

\* An empty message: Unmarshal does not look at what arrived.
Absent(s, m, w, b, f) == s = m /\ (f # "unknown" => w = <<>> /\ b = <<>>)

Arriving(t, s, m, w, b, f) ==
    /\ b \in Buffer /\ f \in Faults
    /\ t \in Empty  => Absent(s, m, w, b, f)
    /\ t \notin Empty => m \in Struct[t] /\ Place(t, s, m, w, b, f)

\* While nothing is refused, the buffer is where the message decoded so far says.
ReadInv ==
    /\ SentInv
    /\ Refused
    /\ err # "decode" => Arriving(type, sent, msg, wire, buf, fault)

LEMMA CodedOrEmpty == \A t \in DOMAIN Message : t \in Coded \/ t \in Empty
BY MessageAssumption DEF Coded

LEMMA SendArrives ==
    ASSUME NEW t \in DOMAIN Message, NEW m \in Message[t], NEW ph, Send(t, m, ph)
    PROVE  Arriving(type, sent, msg, wire, buf, fault)'
<1>1. m \in Struct[t] /\ t \in DOMAIN Struct \ {"PageRequest", "PageResponse"}
    BY MessageAssumption
<1>2. PICK bz \in Written(t, m) :
          \E a \in Arrivals(bz) : wire' = a.b /\ fault' = a.fault /\ buf' = a.b
    BY DEF Send
<1>3. PICK a \in Arrivals(bz) : wire' = a.b /\ fault' = a.fault /\ buf' = a.b
    BY <1>2
<1>4. bz = Marshal(t, m) /\ bz \in Buffer
    BY <1>1, WrittenIs
<1>5. type' = t /\ sent' = m /\ msg' = New[t]
    BY DEF Send
<1>6. CASE t \in Coded
    <2>1. a.b \in Buffer /\ a.fault \in Faults /\ Place(t, m, New[t], a.b, a.b, a.fault)
        BY <1>1, <1>4, <1>6, Arrived
    <2>2. New[t] \in Struct[t] /\ t \notin Empty
        BY <1>6, NewWritesNothing DEF Coded
    <2> QED BY <1>3, <1>5, <2>1, <2>2 DEF Arriving
<1>7. CASE t \in Empty
    <2>1. m = <<>> /\ New[t] = <<>>
        BY <1>1, <1>7
        DEF Empty, Struct, New, NewMsgAssignTaskResponse, NewMsgCompleteTaskResponse
    <2>2. bz = <<>>
        BY <1>4, <1>7 DEF Marshal, Empty
    <2>3. a = [b |-> <<>>, fault |-> "none"] \/ \E u \in Unknown :
              a = [b |-> u \o <<>>, fault |-> "unknown"] \/ a = [b |-> <<>> \o u, fault |-> "unknown"]
        <3>1. 0 .. Len(<<>>) - 1 = {}
            BY NoBytes
        <3> QED BY <2>2, <3>1 DEF Arrivals
    <2>4. a.b \in Buffer /\ a.fault \in Faults /\ (a.fault # "unknown" => a.b = <<>>)
        BY <2>3, UnknownAssumption, NoBytes, Joined DEF Faults
    <2> QED BY <1>3, <1>5, <1>7, <2>1, <2>4 DEF Arriving, Absent
<1> QED BY <1>6, <1>7, CodedOrEmpty

LEMMA ReadInit == Init => ReadInv
<1> SUFFICES ASSUME Init PROVE ReadInv
    OBVIOUS
<1>1. /\ "Task" \in Coded /\ "Task" \notin Empty /\ New["Task"] = NewTask
    BY DEF Coded, Struct, Empty, New
<1>2. NewTask \in Struct["Task"] /\ Marshal("Task", NewTask) = <<>>
    BY <1>1, NewWritesNothing, Zenon
<1>3. Ahead("Task", NewTask, NewTask, <<>>) /\ <<>> \o <<>> = <<>>
    BY LeadsEnd, NoBytes, Lengths DEF Ahead
<1>4. Place("Task", NewTask, NewTask, <<>>, <<>>, "none")
    BY <1>2, <1>3 DEF Place
<1>5. Arriving("Task", NewTask, NewTask, <<>>, <<>>, "none")
    BY <1>1, <1>2, <1>4, NoBytes DEF Arriving, Faults
<1> QED BY <1>5, SentInit DEF Init, ReadInv, Refused

LEMMA DecodeArrives ==
    ASSUME ReadInv, Decode
    PROVE  Refused' /\ (err' # "decode" => Arriving(type, sent, msg, wire, buf, fault)')
<1>1. PICK next \in {IF type \in Empty THEN [m |-> msg, b |-> <<>>, err |-> "none"]
                     ELSE UnmarshalField(type, msg, buf)} :
          /\ msg' = next.m /\ buf' = next.b /\ err' = next.err
          /\ phase' = IF next.err = "none" THEN phase ELSE "done"
    BY DEF Decode
<1>2. /\ phase \in {"request", "response", "saved"} /\ buf # <<>>
      /\ type' = type /\ sent' = sent /\ wire' = wire /\ fault' = fault
    BY DEF Decode
<1>3. Arriving(type, sent, msg, wire, buf, fault)
    BY <1>2 DEF ReadInv, Refused
<1>4. CASE type \in Empty
    <2>1. next.m = msg /\ next.b = <<>> /\ next.err = "none"
        BY <1>1, <1>4
    <2>2. fault = "unknown" /\ sent = msg /\ fault \in Faults
        BY <1>2, <1>3, <1>4 DEF Arriving, Absent
    <2> QED BY <1>1, <1>2, <1>4, <2>1, <2>2, NoBytes DEF Refused, Arriving, Absent
<1>5. CASE type \notin Empty
    <2>1. type \in Coded
        BY <1>5, CodedOrEmpty DEF ReadInv, SentInv, SentTyped
    <2>2. /\ buf \in Buffer /\ fault \in {"none", "cut", "unknown"} /\ msg \in Struct[type]
          /\ Place(type, sent, msg, wire, buf, fault)
        BY <1>3, <1>5 DEF Arriving, Faults
    <2>3. next = UnmarshalField(type, msg, buf)
        BY <1>1, <1>5
    <2>4. \/ /\ next.err = "none" /\ next.m \in Struct[type] /\ next.b \in Buffer
             /\ Place(type, sent, next.m, wire, next.b, fault)
          \/ next.err = "decode" /\ fault = "cut" /\ next.m = msg /\ next.b = buf
        BY <1>2, <2>1, <2>2, <2>3, Moves
    <2> QED BY <1>1, <1>2, <1>3, <1>5, <2>4 DEF Refused, Arriving
<1> QED BY <1>4, <1>5

LEMMA ReadStep ==
    ASSUME ReadInv, [Next]_vars
    PROVE  ReadInv'
<1>1. SentInv'
    BY SentStep DEF ReadInv
<1>2. CASE UNCHANGED vars
    BY <1>1, <1>2 DEF vars, ReadInv, Refused
<1>3. ASSUME NEW name \in DOMAIN Methods, NEW in \in Message[Methods[name].request],
             Invoke(name, in)
      PROVE  ReadInv'
    <2>1. Methods[name].request \in DOMAIN Message /\ err' = "none"
        BY <1>3, MethodTypes DEF Invoke
    <2>2. Send(Methods[name].request, in, "request")
        BY <1>3 DEF Invoke
    <2>3. Arriving(type, sent, msg, wire, buf, fault)'
        BY <2>1, <2>2, SendArrives
    <2> QED BY <1>1, <2>1, <2>3 DEF ReadInv, Refused
<1>4. ASSUME NEW t \in Saved, NEW m \in Message[t], Save(t, m) PROVE ReadInv'
    <2>1. t \in DOMAIN Message /\ err' = "none" /\ Send(t, m, "saved")
        BY <1>4, MessageAssumption DEF Saved, Struct, Save
    <2>2. Arriving(type, sent, msg, wire, buf, fault)'
        BY <2>1, SendArrives
    <2> QED BY <1>1, <2>1, <2>2 DEF ReadInv, Refused
<1>5. CASE Decode
    BY <1>1, <1>5, DecodeArrives DEF ReadInv
<1>6. ASSUME phase = "request", NEW out \in Message[Methods[method].response], Handle(out)
      PROVE  ReadInv'
    <2>1. Methods[method].response \in DOMAIN Message
        BY <1>6, MethodTypes DEF ReadInv, SentInv, Calling
    <2>2. Send(Methods[method].response, out, "response") /\ err' = err /\ err # "decode"
        BY <1>6 DEF Handle, ReadInv, Refused
    <2>3. Arriving(type, sent, msg, wire, buf, fault)'
        BY <2>1, <2>2, SendArrives
    <2> QED BY <1>1, <2>2, <2>3 DEF ReadInv, Refused
<1>7. CASE HandlerFails
    BY <1>1, <1>7 DEF HandlerFails, ReadInv, Refused
<1>8. CASE Return
    BY <1>1, <1>8 DEF Return, ReadInv, Refused
<1> QED BY <1>2, <1>3, <1>4, <1>5, <1>6, <1>7, <1>8 DEF Next, Answer

LEMMA AlwaysRead == Spec => []ReadInv
<1>1. ReadInv /\ [Next]_vars => ReadInv'
    BY ReadStep
<1> QED BY ReadInit, <1>1, PTL DEF Spec

\* Whatever arrives, cut short or not, Unmarshal is at any time where encoding what
\* it has decoded would be: the fields that it has set are the first ones of what
\* was sent, whatever else the loop has yet to read (types.pb.go, tx.pb.go,
\* query.pb.go, genesis.pb.go).
THEOREM NothingInvented == Spec => []ConsumedIsDecoded
<1>1. ReadInv => ConsumedIsDecoded
    <2> SUFFICES ASSUME ReadInv, fault # "unknown", err # "decode"
                 PROVE  wire = Marshal(type, msg) \o buf
        BY DEF ConsumedIsDecoded
    <2>1. Arriving(type, sent, msg, wire, buf, fault)
        BY DEF ReadInv
    <2>2. CASE type \in Empty
        <3>1. Marshal(type, msg) = <<>> /\ wire = <<>> /\ buf = <<>>
            BY <2>1, <2>2 DEF Marshal, Empty, Arriving, Absent
        <3> QED BY <3>1, NoBytes, Lengths
    <2>3. CASE type \notin Empty
        BY <2>1, <2>3 DEF Arriving, Place
    <2> QED BY <2>2, <2>3
<1> QED BY <1>1, AlwaysRead, PTL

LEMMA ReadIsSent ==
    ASSUME ReadInv
    PROVE  DecodedIsSent
<1> SUFFICES ASSUME Decoded, fault # "cut"
             PROVE  Meaning(type, msg) = Meaning(type, sent)
    BY DEF DecodedIsSent, ReadInv, Refused
<1>1. Arriving(type, sent, msg, wire, buf, fault) /\ buf = <<>>
    BY DEF ReadInv, Decoded
<1>2. CASE type \in Empty
    BY <1>1, <1>2 DEF Arriving, Absent
<1>3. CASE type \notin Empty
    <2>1. Ahead(type, msg, sent, <<>>)
        <3>1. Place(type, sent, msg, wire, <<>>, fault) /\ fault \in {"none", "unknown"}
            BY <1>1, <1>3 DEF Arriving, Faults
        <3>2. CASE fault = "none"
            BY <3>1, <3>2 DEF Place
        <3>3. CASE fault = "unknown"
            <4>1. PICK a \in Padding, z \in Padding, r \in Buffer :
                      <<>> = (a \o r) \o z /\ Ahead(type, msg, sent, r)
                BY <3>1, <3>3 DEF Place
            <4>2. a \o r \in Buffer /\ z \in Buffer /\ a \in Buffer
                BY PaddingTyped, Joined
            <4>3. a \o r = <<>>
                BY <4>1, <4>2, Joined
            <4>4. r = <<>>
                BY <4>2, <4>3, Joined
            <4> QED BY <4>1, <4>4
        <3> QED BY <3>1, <3>2, <3>3
    <2>2. PICK end : Leads(type, msg, <<>>, end) /\ Meaning(type, end) = Meaning(type, sent)
        BY <2>1 DEF Ahead
    <2>3. msg = end
        BY <2>2, LeadsWhere
    <2> QED BY <2>2, <2>3
<1> QED BY <1>2, <1>3

\* Every message that is sent arrives with its meaning, whatever its type, its zero
\* values, its empty entries and the unknown fields around it, and only bytes that
\* were cut are refused.
THEOREM DecodingReturnsSent == Spec => []DecodedIsSent
<1>1. ReadInv => DecodedIsSent
    BY ReadIsSent
<1> QED BY <1>1, AlwaysRead, PTL

-----------------------------------------------------------------------------
(* Decoding by descriptor.                                                  *)

\* Values of numbers, strings and nested messages.
Texts == Nat \cup Buffer

\* How a value is read by its wire type.
AnyValue(typ, b) ==
    IF typ = VarintType THEN ConsumeVarint[b]
    ELSE IF typ = BytesType THEN ConsumeBytes(b) ELSE skipField(typ, b)

LEMMA AnyFieldIs ==
    ASSUME NEW b, NEW tag, tag = ConsumeTag(b),
           NEW val, val = AnyValue(tag.typ, Drop(b, tag.n))
    PROVE  AnyField(b) = IF tag.n < 0 THEN NothingRead
                         ELSE IF val.n < 0 THEN NothingRead
                         ELSE [num |-> tag.num, typ |-> tag.typ, v |-> val.v, n |-> tag.n + val.n]
BY Zenon DEF AnyField, AnyValue

LEMMA AnyValueLocal ==
    ASSUME NEW typ, NEW b \in Buffer
    PROVE  /\ AnyValue(typ, b).n \in Int /\ AnyValue(typ, b).n = skipField(typ, b).n
           /\ AnyValue(typ, b).n >= 0 =>
                  /\ AnyValue(typ, b).n \in 0 .. Len(b) /\ AnyValue(typ, b).v \in Texts
                  /\ \A r \in Buffer : AnyValue(typ, b \o r) = AnyValue(typ, b)
<1>0. Len(b) \in Nat
    BY Lengths
<1>1. skipField(typ, b).n = ConsumeFieldValue(typ, b) /\ skipField(typ, b).v = <<>>
    BY DEF skipField
<1>2. CASE typ = VarintType
    <2>1. \A c : AnyValue(typ, c) = ConsumeVarint[c]
        BY <1>2 DEF AnyValue
    <2>2. ConsumeFieldValue(typ, b) = ConsumeVarint[b].n
        BY <1>2 DEF ConsumeFieldValue, VarintType, BytesType, Fixed32Type, Fixed64Type
    <2>3. ConsumeVarint[b].v \in Texts
        BY ConsumeVarintType DEF Value, Texts
    <2> QED BY <1>0, <1>1, <2>1, <2>2, <2>3, ConsumeVarintType, VarintLocal DEF Value
<1>3. CASE typ = BytesType
    <2>1. \A c : AnyValue(typ, c) = ConsumeBytes(c)
        BY <1>3 DEF AnyValue, VarintType, BytesType
    <2>2. ConsumeFieldValue(typ, b) = ConsumeBytes(b).n
        BY <1>3 DEF ConsumeFieldValue, VarintType, BytesType, Fixed32Type, Fixed64Type
    <2>3. ConsumeBytes(b).n >= 0 => ConsumeBytes(b).v \in Texts
        BY BytesLocal DEF Reading, Texts
    <2> QED BY <1>0, <1>1, <2>1, <2>2, <2>3, BytesLocal DEF Reading
<1>4. CASE typ # VarintType /\ typ # BytesType
    <2>1. \A c : AnyValue(typ, c) = skipField(typ, c)
        BY <1>4 DEF AnyValue
    <2>2. <<>> \in Texts
        BY NoBytes DEF Texts
    <2> QED BY <1>1, <2>1, <2>2, SkipLocal
<1> QED BY <1>2, <1>3, <1>4

\* Reading a field by its wire type looks at its own bytes only.
LEMMA AnyFieldLocal ==
    ASSUME NEW b \in Buffer
    PROVE  /\ AnyField(b).n \in Int
           /\ AnyField(b).n >= 0 =>
                  /\ AnyField(b).n \in 1 .. Len(b) /\ AnyField(b).v \in Texts
                  /\ \A r \in Buffer : AnyField(b \o r) = AnyField(b)
<1> DEFINE tag  == ConsumeTag(b)
           rest == Drop(b, tag.n)
           val  == AnyValue(tag.typ, rest)
           x    == [num |-> tag.num, typ |-> tag.typ, v |-> val.v, n |-> tag.n + val.n]
<1>1. tag.n \in Int /\ Len(b) \in Nat
    BY TagLocal, Lengths
<1>2. AnyField(b) = IF tag.n < 0 THEN NothingRead ELSE IF val.n < 0 THEN NothingRead ELSE x
    <2> HIDE DEF tag
    <2> QED BY AnyFieldIs DEF tag
<1>3. CASE tag.n < 0
    BY <1>2, <1>3 DEF NothingRead
<1>4. CASE tag.n >= 0
    <2>1. tag.n \in 1 .. Len(b) /\ rest \in Buffer /\ Len(rest) = Len(b) - tag.n
        BY <1>4, TagLocal, Cut
    <2>2. /\ val.n \in Int
          /\ val.n >= 0 => val.n \in 0 .. Len(rest) /\ val.v \in Texts
        <3> HIDE DEF tag, rest
        <3> QED BY <2>1, AnyValueLocal
    <2>3. CASE val.n < 0
        <3> HIDE DEF tag, val
        <3> QED BY <1>1, <1>2, <1>4, <2>3 DEF NothingRead
    <2>4. CASE val.n >= 0
        <3>1. AnyField(b) = x
            <4> HIDE DEF tag, val, x
            <4> QED BY <1>1, <1>2, <1>4, <2>2, <2>4
        <3>2. x.n \in 1 .. Len(b) /\ x.v \in Texts /\ x.n \in Int
            <4> HIDE DEF tag, rest, val
            <4> QED BY <1>1, <2>1, <2>2, <2>4
        <3>3. ASSUME NEW r \in Buffer PROVE AnyField(b \o r) = x
            <4>1. ConsumeTag(b \o r) = tag
                BY <1>4, TagLocal
            <4>2. Drop(b \o r, tag.n) = rest \o r
                <5> HIDE DEF tag
                <5>1. tag.n \in 0 .. Len(b)
                    BY <1>1, <2>1
                <5> QED BY <5>1, DropJoined
            <4>3. AnyValue(tag.typ, rest \o r) = val
                <5> HIDE DEF tag, rest
                <5> QED BY <2>1, <2>4, AnyValueLocal
            <4> HIDE DEF tag, rest, val
            <4>4. AnyField(b \o r) = IF tag.n < 0 THEN NothingRead
                                     ELSE IF val.n < 0 THEN NothingRead ELSE x
                <5>1. AnyValue(tag.typ, Drop(b \o r, tag.n)) = val
                    BY <4>2, <4>3
                <5> QED BY <4>1, <5>1, AnyFieldIs
            <4> HIDE DEF x
            <4> QED BY <1>1, <1>4, <2>2, <2>4, <4>4
        <3> HIDE DEF x
        <3> QED BY <3>1, <3>2, <3>3
    <2> QED BY <2>2, <2>3, <2>4
<1> QED BY <1>1, <1>3, <1>4

\* A field that Unmarshal skips.
LEMMA AnyFieldSkipped ==
    ASSUME NEW t \in Coded, NEW u \in Unknown
    PROVE  AnyField(u).n = Len(u) /\ AnyField(u).num \notin DOMAIN Cases[t]
<1> DEFINE tag  == ConsumeTag(u)
           rest == Drop(u, tag.n)
           val  == AnyValue(tag.typ, rest)
           skip == FieldValue(t, tag.num, tag.typ, rest)
<1>1. /\ u \in Buffer /\ Len(u) \in Nat /\ Field(t, u).n = Len(u)
      /\ Field(t, u).num \notin DOMAIN Cases[t]
    BY UnknownAssumption, UnknownIsAField, CasesOfCoded, Lengths
<1>2. Field(t, u) = IF tag.n < 0 THEN NoField ELSE IF skip.n < 0 THEN NoField
                    ELSE [num |-> tag.num, v |-> skip.v, n |-> tag.n + skip.n]
    <2> HIDE DEF tag
    <2> QED BY FieldIs DEF tag
<1>3. AnyField(u) = IF tag.n < 0 THEN NothingRead ELSE IF val.n < 0 THEN NothingRead
                    ELSE [num |-> tag.num, typ |-> tag.typ, v |-> val.v, n |-> tag.n + val.n]
    <2> HIDE DEF tag
    <2> QED BY AnyFieldIs DEF tag
<1>4. tag.n \in Int
    BY <1>1, TagLocal
<1>5. ~(tag.n < 0)
    <2> HIDE DEF tag, skip
    <2> QED BY <1>1, <1>2 DEF NoField
<1>6. rest \in Buffer
    <2>1. tag.n \in 1 .. Len(u)
        BY <1>1, <1>4, <1>5, TagLocal
    <2> HIDE DEF tag
    <2>2. tag.n \in 0 .. Len(u)
        BY <2>1
    <2> QED BY <1>1, <2>2, Cut
<1>7. ~(skip.n < 0) /\ Len(u) = tag.n + skip.n /\ tag.num \notin DOMAIN Cases[t]
    <2> HIDE DEF tag, skip
    <2> QED BY <1>1, <1>2, <1>5 DEF NoField
<1>8. val.n = skip.n
    <2>1. skip = skipField(tag.typ, rest)
        BY <1>7 DEF FieldValue
    <2> HIDE DEF tag, rest
    <2> QED BY <1>6, <2>1, AnyValueLocal
<1> HIDE DEF tag, val, skip
<1> QED BY <1>3, <1>5, <1>7, <1>8

\* What is read back from a tag and a value.
LEMMA AnyPieceRead ==
    ASSUME NEW num \in FieldNumber, NEW typ \in WireTypes, NEW s \in Buffer, NEW v,
           AnyValue(typ, s) = [v |-> v, n |-> Len(s)]
    PROVE  /\ AppendTag(num, typ) \o s \in Buffer
           /\ AnyField(AppendTag(num, typ) \o s)
              = [num |-> num, typ |-> typ, v |-> v, n |-> Len(AppendTag(num, typ) \o s)]
<1> DEFINE a == AppendTag(num, typ)
           b == a \o s
<1>1. a \in Buffer /\ Len(a) = 1 /\ ConsumeTag(a) = [num |-> num, typ |-> typ, n |-> 1]
    BY Tag, TagRead
<1> HIDE DEF a
<1>2. b \in Buffer /\ Len(b) = 1 + Len(s) /\ Len(s) \in Nat /\ Drop(b, 1) = s
    BY <1>1, Joined, Lengths, SameStart
<1>3. ConsumeTag(b) = [num |-> num, typ |-> typ, n |-> 1]
    BY <1>1, TagLocal
<1> HIDE DEF b
<1> DEFINE tag == ConsumeTag(b)
           val == AnyValue(tag.typ, Drop(b, tag.n))
<1>4. tag.num = num /\ tag.typ = typ /\ tag.n = 1
    BY <1>3
<1>5. val = [v |-> v, n |-> Len(s)]
    BY <1>2, <1>4
<1>6. AnyField(b) = IF tag.n < 0 THEN NothingRead ELSE IF val.n < 0 THEN NothingRead
                    ELSE [num |-> tag.num, typ |-> tag.typ, v |-> val.v, n |-> tag.n + val.n]
    <2> HIDE DEF tag
    <2> QED BY AnyFieldIs DEF tag
<1>7. val.v = v /\ val.n = Len(s) /\ ~(tag.n < 0) /\ ~(val.n < 0) /\ tag.n + val.n = Len(b)
    BY <1>2, <1>4, <1>5
<1>8. AnyField(b) = [num |-> num, typ |-> typ, v |-> v, n |-> Len(b)]
    <2> HIDE DEF tag, val
    <2> QED BY <1>4, <1>6, <1>7
<1> QED BY <1>2, <1>8 DEF a, b

Giving(g, f) ==
    g = [r \in Buffer |-> IF AnyField(r).n < 0 THEN <<>>
                          ELSE Own(f, AnyField(r)) \o g[Drop(r, AnyField(r).n)]]

LEMMA OwnTyped ==
    ASSUME NEW f, NEW b \in Buffer, AnyField(b).n >= 0
    PROVE  Own(f, AnyField(b)) \in Seq(Texts)
<1>1. AnyField(b).v \in Texts
    BY AnyFieldLocal
<1>2. <<>> \in Seq(Texts) /\ <<AnyField(b).v>> \in Seq(Texts)
    BY <1>1, EmptySeq
<1> QED BY <1>2 DEF Own

LEMMA GivenIs ==
    ASSUME NEW f
    PROVE  \E g \in [Buffer -> Seq(Texts)] : Giving(g, f) /\ \A b : Given(f, b) = g[b]
<1> DEFINE S == Seq(Texts)
           rank == [s \in Buffer |-> Len(s)]
           stop == {s \in Buffer : AnyField(s).n < 0}
           base == [s \in Buffer |-> <<>>]
           next == [s \in Buffer |-> IF AnyField(s).n < 0 THEN s ELSE Drop(s, AnyField(s).n)]
           step == [p \in Buffer \X S |-> IF AnyField(p[1]).n < 0 THEN <<>>
                                          ELSE Own(f, AnyField(p[1])) \o p[2]]
<1>0. <<>> \in S
    BY EmptySeq
<1>1. ASSUME NEW s \in Buffer, ~(AnyField(s).n < 0)
      PROVE  /\ Drop(s, AnyField(s).n) \in Buffer
             /\ Len(Drop(s, AnyField(s).n)) < Len(s)
             /\ \A g \in S : Own(f, AnyField(s)) \o g \in S
    <2>1. AnyField(s).n \in 1 .. Len(s) /\ AnyField(s).n >= 0 /\ Len(s) \in Nat
        BY <1>1, AnyFieldLocal, Lengths
    <2>2. /\ Drop(s, AnyField(s).n) \in Buffer
          /\ Len(Drop(s, AnyField(s).n)) = Len(s) - AnyField(s).n
        <3> DEFINE n == AnyField(s).n
        <3>1. n \in 0 .. Len(s)
            BY <2>1
        <3> HIDE DEF n
        <3>2. Drop(s, n) \in Buffer /\ Len(Drop(s, n)) = Len(s) - n
            BY <3>1, Cut
        <3> QED BY <3>2 DEF n
    <2>3. \A g \in S : Own(f, AnyField(s)) \o g \in S
        BY <2>1, OwnTyped, ConcatProperties
    <2> QED BY <2>1, <2>2, <2>3
<1>2. Descends(Buffer, S, rank, stop, base, next, step)
    <2>1. rank \in [Buffer -> Nat] /\ base \in [Buffer -> S]
        BY <1>0, Lengths
    <2>2. next \in [Buffer -> Buffer]
        <3>1. \A s \in Buffer : (IF AnyField(s).n < 0 THEN s ELSE Drop(s, AnyField(s).n)) \in Buffer
            BY <1>1
        <3> QED BY <3>1
    <2>3. step \in [(Buffer \X S) -> S]
        <3>1. \A p \in Buffer \X S :
                  (IF AnyField(p[1]).n < 0 THEN <<>> ELSE Own(f, AnyField(p[1])) \o p[2]) \in S
            <4> SUFFICES ASSUME NEW p \in Buffer \X S
                         PROVE  (IF AnyField(p[1]).n < 0 THEN <<>>
                                 ELSE Own(f, AnyField(p[1])) \o p[2]) \in S
                OBVIOUS
            <4>1. p[1] \in Buffer /\ p[2] \in S
                OBVIOUS
            <4> QED BY <1>0, <1>1, <4>1
        <3> QED BY <3>1
    <2>4. \A s \in Buffer : s \notin stop => rank[next[s]] < rank[s]
        <3> SUFFICES ASSUME NEW s \in Buffer, s \notin stop PROVE rank[next[s]] < rank[s]
            OBVIOUS
        <3>1. ~(AnyField(s).n < 0)
            OBVIOUS
        <3>2. next[s] = Drop(s, AnyField(s).n)
            BY <3>1
        <3>3. Drop(s, AnyField(s).n) \in Buffer /\ Len(Drop(s, AnyField(s).n)) < Len(s)
            BY <1>1, <3>1
        <3>4. \A x \in Buffer : rank[x] = Len(x)
            OBVIOUS
        <3> HIDE DEF rank, next, stop
        <3> QED BY <3>2, <3>3, <3>4, Zenon
    <2> HIDE DEF S, rank, stop, base, next, step
    <2> QED BY <2>1, <2>2, <2>3, <2>4 DEF Descends
<1>3. PICK g \in [Buffer -> S] :
          g = [s \in Buffer |-> IF s \in stop THEN base[s] ELSE step[<<s, g[next[s]]>>]]
    <2> HIDE DEF S, rank, stop, base, next, step
    <2> QED BY <1>2, Recursion
<1>4. Giving(g, f)
    <2>1. ASSUME NEW s \in Buffer
          PROVE  g[s] = IF AnyField(s).n < 0 THEN <<>>
                        ELSE Own(f, AnyField(s)) \o g[Drop(s, AnyField(s).n)]
        <3>1. g[s] = IF s \in stop THEN base[s] ELSE step[<<s, g[next[s]]>>]
            <4> HIDE DEF S, stop, base, next, step
            <4> QED BY <1>3
        <3>2. CASE AnyField(s).n < 0
            BY <3>1, <3>2
        <3>3. CASE ~(AnyField(s).n < 0)
            <4>1. next[s] = Drop(s, AnyField(s).n) /\ s \notin stop
                BY <3>3
            <4>2. g[Drop(s, AnyField(s).n)] \in S
                BY <1>1, <3>3
            <4>3. step[<<s, g[Drop(s, AnyField(s).n)]>>]
                  = Own(f, AnyField(s)) \o g[Drop(s, AnyField(s).n)]
                BY <3>3, <4>2
            <4> HIDE DEF S, stop, base, next, step
            <4> QED BY <3>1, <3>3, <4>1, <4>3
        <3> QED BY <3>2, <3>3
    <2>2. g = [s \in Buffer |-> g[s]]
        OBVIOUS
    <2> QED BY <2>1, <2>2 DEF Giving
<1> DEFINE h == CHOOSE x : Giving(x, f)
<1>5. Giving(h, f)
    BY <1>4
<1>6. \A b : Given(f, b) = h[b]
    BY Zenon DEF Given, Giving
<1>7. h \in [Buffer -> S]
    <2> HIDE DEF h
    <2> DEFINE P == {s \in Buffer : h[s] \in S}
    <2>1. ASSUME NEW s \in Buffer, \A x \in Buffer : rank[x] < rank[s] => x \in P PROVE s \in P
        <3>1. h[s] = IF AnyField(s).n < 0 THEN <<>>
                     ELSE Own(f, AnyField(s)) \o h[Drop(s, AnyField(s).n)]
            BY <1>5 DEF Giving
        <3>2. CASE AnyField(s).n < 0
            BY <1>0, <3>1, <3>2
        <3>3. CASE ~(AnyField(s).n < 0)
            <4>1. /\ Drop(s, AnyField(s).n) \in Buffer
                  /\ Len(Drop(s, AnyField(s).n)) < Len(s)
                BY <1>1, <3>3
            <4>2. h[Drop(s, AnyField(s).n)] \in S
                BY <2>1, <4>1
            <4> HIDE DEF S
            <4> QED BY <1>1, <3>1, <3>3, <4>2
        <3> QED BY <3>2, <3>3
    <2>2. rank \in [Buffer -> Nat]
        BY Lengths
    <2>3. Buffer \subseteq P
        <3> HIDE DEF rank, P
        <3> QED BY <2>1, <2>2, RankSteps
    <2>4. h = [s \in Buffer |-> h[s]]
        BY <1>5, Zenon DEF Giving
    <2> HIDE DEF S
    <2> QED BY <2>3, <2>4
<1> QED BY <1>5, <1>6, <1>7

LEMMA GivenStep ==
    ASSUME NEW f, NEW b \in Buffer
    PROVE  /\ Given(f, b) \in Seq(Texts)
           /\ AnyField(b).n < 0 => Given(f, b) = <<>>
           /\ ~(AnyField(b).n < 0) =>
                  Given(f, b) = Own(f, AnyField(b)) \o Given(f, Drop(b, AnyField(b).n))
<1>1. PICK g \in [Buffer -> Seq(Texts)] : Giving(g, f) /\ \A c : Given(f, c) = g[c]
    BY GivenIs
<1>2. g[b] = IF AnyField(b).n < 0 THEN <<>>
             ELSE Own(f, AnyField(b)) \o g[Drop(b, AnyField(b).n)]
    BY <1>1 DEF Giving
<1> QED BY <1>1, <1>2

\* The bytes a are whole fields, and give the values g of f.
Gives(f, a, g) ==
    /\ a \in Buffer /\ g \in Seq(Texts)
    /\ \A r \in Buffer : Given(f, a \o r) = g \o Given(f, r)

LEMMA GivesNothing ==
    ASSUME NEW f
    PROVE  Gives(f, <<>>, <<>>) /\ Given(f, <<>>) = <<>>
<1>1. \A r \in Buffer : <<>> \o r = r /\ <<>> \o Given(f, r) = Given(f, r)
    BY Lengths, GivenStep, ConcatEmptySeq
<1>2. AnyField(<<>>).n < 0
    <2>1. AnyField(<<>>).n \in Int /\ ~(AnyField(<<>>).n \in 1 .. Len(<<>>))
        BY NoBytes, AnyFieldLocal
    <2> QED BY <2>1, NoBytes, AnyFieldLocal
<1> QED BY <1>1, <1>2, NoBytes, EmptySeq, GivenStep DEF Gives

LEMMA GivesJoined ==
    ASSUME NEW f, NEW a, NEW g, NEW b, NEW h, Gives(f, a, g), Gives(f, b, h)
    PROVE  Gives(f, a \o b, g \o h)
<1>1. /\ a \in Buffer /\ b \in Buffer /\ g \in Seq(Texts) /\ h \in Seq(Texts)
      /\ \A r \in Buffer : Given(f, a \o r) = g \o Given(f, r)
      /\ \A r \in Buffer : Given(f, b \o r) = h \o Given(f, r)
    BY DEF Gives
<1>2. a \o b \in Buffer /\ g \o h \in Seq(Texts)
    BY <1>1, Joined, ConcatProperties
<1>3. ASSUME NEW r \in Buffer PROVE Given(f, (a \o b) \o r) = (g \o h) \o Given(f, r)
    <2>1. (a \o b) \o r = a \o (b \o r) /\ b \o r \in Buffer
        <3>1. a \in Buffer /\ b \in Buffer
            BY <1>1
        <3> QED BY <3>1, Regrouped, Joined
    <2>2. Given(f, a \o (b \o r)) = g \o (h \o Given(f, r))
        BY <1>1, <2>1
    <2>3. (g \o h) \o Given(f, r) = g \o (h \o Given(f, r))
        <3>1. g \in Seq(Texts) /\ h \in Seq(Texts) /\ Given(f, r) \in Seq(Texts)
            BY <1>1, GivenStep
        <3> QED BY <3>1, ConcatAssociative
    <2> QED BY <2>1, <2>2, <2>3
<1> QED BY <1>2, <1>3 DEF Gives

LEMMA GivesAll ==
    ASSUME NEW f, NEW a, NEW g, Gives(f, a, g)
    PROVE  Given(f, a) = g
<1>1. a \in Buffer /\ g \in Seq(Texts) /\ a \o <<>> = a /\ g \o <<>> = g
    BY Lengths, ConcatEmptySeq DEF Gives
<1>2. Given(f, a \o <<>>) = g \o Given(f, <<>>)
    BY NoBytes DEF Gives
<1> QED BY <1>1, <1>2, GivesNothing

LEMMA GivesField ==
    ASSUME NEW f, NEW a \in Buffer, AnyField(a).n = Len(a)
    PROVE  Gives(f, a, Own(f, AnyField(a)))
<1>1. AnyField(a).n >= 0
    BY Lengths
<1>2. ASSUME NEW r \in Buffer
      PROVE  Given(f, a \o r) = Own(f, AnyField(a)) \o Given(f, r)
    <2>1. AnyField(a \o r) = AnyField(a)
        BY <1>1, AnyFieldLocal
    <2>2. Drop(a \o r, AnyField(a \o r).n) = r
        BY <2>1, SameStart
    <2>3. ~(AnyField(a \o r).n < 0) /\ a \o r \in Buffer
        BY <1>1, <2>1, Joined, Lengths
    <2>4. Given(f, a \o r) = Own(f, AnyField(a \o r)) \o Given(f, Drop(a \o r, AnyField(a \o r).n))
        BY <2>3, GivenStep
    <2> QED BY <2>1, <2>2, <2>4, Zenon
<1>3. Own(f, AnyField(a)) \in Seq(Texts)
    BY <1>1, OwnTyped
<1> QED BY <1>2, <1>3 DEF Gives

LEMMA UnknownGives ==
    ASSUME NEW t \in Coded, NEW f, f.num \in DOMAIN Cases[t], NEW u \in Padding
    PROVE  Gives(f, u, <<>>)
<1>1. CASE u = <<>>
    BY <1>1, GivesNothing
<1>2. CASE u \in Unknown
    <2>1. u \in Buffer /\ AnyField(u).n = Len(u) /\ AnyField(u).num # f.num
        BY <1>2, PaddingTyped, AnyFieldSkipped
    <2>2. Own(f, AnyField(u)) = <<>>
        BY <2>1 DEF Own
    <2>3. Gives(f, u, Own(f, AnyField(u)))
        BY <2>1, GivesField
    <2> QED BY <2>2, <2>3
<1> QED BY <1>1, <1>2 DEF Padding

\* What a field with this number, wire type and value gives.
OwnValue(f, num, typ, v) == IF num = f.num /\ typ = WireType(f.typ) THEN <<v>> ELSE <<>>

LEMMA AnyPieceGives ==
    ASSUME NEW f, NEW num \in FieldNumber, NEW typ \in WireTypes, NEW s \in Buffer, NEW v,
           AnyValue(typ, s) = [v |-> v, n |-> Len(s)]
    PROVE  Gives(f, AppendTag(num, typ) \o s, OwnValue(f, num, typ, v))
<1> DEFINE a == AppendTag(num, typ) \o s
<1>1. /\ a \in Buffer
      /\ AnyField(a) = [num |-> num, typ |-> typ, v |-> v, n |-> Len(a)]
    BY AnyPieceRead
<1>2. Own(f, AnyField(a)) = OwnValue(f, num, typ, v) /\ AnyField(a).n = Len(a)
    <2> HIDE DEF a
    <2> QED BY <1>1 DEF Own, OwnValue
<1>3. Gives(f, a, Own(f, AnyField(a)))
    <2> HIDE DEF a
    <2> QED BY <1>1, <1>2, GivesField
<1> QED BY <1>2, <1>3

LEMMA Uint64Gives ==
    ASSUME NEW f, NEW num \in FieldNumber, NEW v \in Nat
    PROVE  Gives(f, appendUint64(num, v), IF v = 0 THEN <<>> ELSE OwnValue(f, num, VarintType, v))
<1>1. CASE v = 0
    BY <1>1, GivesNothing DEF appendUint64
<1>2. CASE v # 0
    <2> DEFINE s == AppendVarint[v]
    <2>1. s \in Buffer /\ VarintType \in WireTypes
        BY VarintSize, KnownWireTypes
    <2>2. AnyValue(VarintType, s) = [v |-> v, n |-> Len(s)]
        BY VarintRead DEF AnyValue
    <2>3. appendUint64(num, v) = AppendTag(num, VarintType) \o s
        BY <1>2 DEF appendUint64
    <2> HIDE DEF s
    <2>4. Gives(f, AppendTag(num, VarintType) \o s, OwnValue(f, num, VarintType, v))
        BY <2>1, <2>2, AnyPieceGives
    <2> QED BY <1>2, <2>3, <2>4
<1> QED BY <1>1, <1>2

LEMMA MessageGives ==
    ASSUME NEW f, NEW num \in FieldNumber, NEW bz \in Buffer
    PROVE  Gives(f, appendMessage(num, bz), OwnValue(f, num, BytesType, bz))
<1> DEFINE s == AppendBytes(bz)
<1>1. s \in Buffer /\ BytesType \in WireTypes
    BY BytesSize, KnownWireTypes
<1>2. AnyValue(BytesType, s) = [v |-> bz, n |-> Len(s)]
    BY BytesRead DEF AnyValue, BytesType, VarintType
<1>3. appendMessage(num, bz) = AppendTag(num, BytesType) \o s
    BY DEF appendMessage
<1> HIDE DEF s
<1>4. Gives(f, AppendTag(num, BytesType) \o s, OwnValue(f, num, BytesType, bz))
    BY <1>1, <1>2, AnyPieceGives
<1> QED BY <1>3, <1>4

LEMMA StringGives ==
    ASSUME NEW f, NEW num \in FieldNumber, NEW s \in Buffer
    PROVE  Gives(f, appendString(num, s), IF s = <<>> THEN <<>> ELSE OwnValue(f, num, BytesType, s))
<1>1. CASE s = <<>>
    BY <1>1, GivesNothing DEF appendString
<1>2. CASE s # <<>>
    <2>1. appendString(num, s) = appendMessage(num, s)
        BY <1>2 DEF appendString, appendMessage
    <2> QED BY <1>2, <2>1, MessageGives
<1> QED BY <1>1, <1>2

\* A nested message is left out when nothing is written of it.
LEMMA PageGives ==
    ASSUME NEW f, NEW num \in FieldNumber, NEW bz \in Buffer
    PROVE  Gives(f, appendPage(num, bz), IF bz = <<>> THEN <<>> ELSE OwnValue(f, num, BytesType, bz))
<1>1. CASE bz = <<>>
    BY <1>1, GivesNothing DEF appendPage
<1>2. CASE bz # <<>>
    BY <1>2, MessageGives DEF appendPage
<1> QED BY <1>1, <1>2

\* The descriptor of t has the fields of Unmarshal's cases, under their numbers and
\* of their wire types, and no others.
Describes(t) ==
    /\ \A f \in Descriptor[t] :
           /\ f.num \in DOMAIN Cases[t] /\ f.name = FieldName(t, f.num)
           /\ WireType(f.typ) = IF Cases[t][f.num].kind = "varint" THEN VarintType ELSE BytesType
           /\ ~f.many /\ f.typ \notin DOMAIN Descriptor
    /\ \A m \in Struct[t] : m = [name \in {f.name : f \in Descriptor[t]} |-> m[name]]

LEMMA FileDescriptors ==
    /\ DOMAIN TxFileDescriptor = {"MsgCreateTask", "MsgCreateTaskResponse", "MsgAssignTask",
           "MsgAssignTaskResponse", "MsgCompleteTask", "MsgCompleteTaskResponse"}
    /\ DOMAIN TypesFileDescriptor = {"Task"}
    /\ DOMAIN QueryFileDescriptor = {"QueryTaskRequest", "QueryTaskResponse",
           "QueryListTasksRequest", "QueryListTasksResponse"}
    /\ DOMAIN GenesisFileDescriptor = {"GenesisState"}
    /\ DOMAIN PageDescriptor = {"PageRequest", "PageResponse"}
BY DEF TxFileDescriptor, TypesFileDescriptor, QueryFileDescriptor, GenesisFileDescriptor,
   PageDescriptor

LEMMA DescriptorOf ==
    /\ Descriptor["Task"] = TypesFileDescriptor["Task"]
    /\ Descriptor["MsgCreateTask"] = TxFileDescriptor["MsgCreateTask"]
    /\ Descriptor["MsgCreateTaskResponse"] = TxFileDescriptor["MsgCreateTaskResponse"]
    /\ Descriptor["MsgAssignTask"] = TxFileDescriptor["MsgAssignTask"]
    /\ Descriptor["MsgAssignTaskResponse"] = TxFileDescriptor["MsgAssignTaskResponse"]
    /\ Descriptor["MsgCompleteTask"] = TxFileDescriptor["MsgCompleteTask"]
    /\ Descriptor["MsgCompleteTaskResponse"] = TxFileDescriptor["MsgCompleteTaskResponse"]
    /\ Descriptor["QueryTaskRequest"] = QueryFileDescriptor["QueryTaskRequest"]
    /\ Descriptor["QueryTaskResponse"] = QueryFileDescriptor["QueryTaskResponse"]
    /\ Descriptor["QueryListTasksRequest"] = QueryFileDescriptor["QueryListTasksRequest"]
    /\ Descriptor["QueryListTasksResponse"] = QueryFileDescriptor["QueryListTasksResponse"]
    /\ Descriptor["GenesisState"] = GenesisFileDescriptor["GenesisState"]
    /\ Descriptor["PageRequest"] = PageDescriptor["PageRequest"]
    /\ Descriptor["PageResponse"] = PageDescriptor["PageResponse"]
BY FileDescriptors DEF Descriptor, Both

LEMMA DescribedTypes ==
    DOMAIN Descriptor
    = {"Task", "MsgCreateTask", "MsgCreateTaskResponse", "MsgAssignTask",
       "MsgAssignTaskResponse", "MsgCompleteTask", "MsgCompleteTaskResponse", "QueryTaskRequest",
       "QueryTaskResponse", "QueryListTasksRequest", "QueryListTasksResponse", "GenesisState",
       "PageRequest", "PageResponse"}
BY FileDescriptors DEF Descriptor, Both

\* The types of numbers and strings are not messages.
LEMMA PlainTypes ==
    /\ WireType("uint64") = VarintType /\ WireType("enum") = VarintType
    /\ WireType("string") = BytesType
    /\ "uint64" \notin DOMAIN Descriptor /\ "enum" \notin DOMAIN Descriptor
    /\ "string" \notin DOMAIN Descriptor
BY DescribedTypes DEF WireType

LEMMA TaskDescribed == Describes("Task")
<1> DEFINE t == "Task"
<1>1. Descriptor[t] =
          {uint64Field("id", 1), strField("title", 2), strField("description", 3),
           strField("creator", 4), strField("assignee", 5), enumField("status", 6)}
    BY DescriptorOf DEF TypesFileDescriptor
<1>2. /\ DOMAIN Cases[t] = 1 .. 6 /\ Struct[t] = Task
      /\ Cases[t][1] = Varint("id") /\ Cases[t][2] = String("title")
      /\ Cases[t][3] = String("description") /\ Cases[t][4] = String("creator")
      /\ Cases[t][5] = String("assignee") /\ Cases[t][6] = Varint("status")
    BY DEF Cases, UnmarshalTask, Struct
<1>3. {f.name : f \in Descriptor[t]}
      = {"id", "title", "description", "creator", "assignee", "status"}
    BY <1>1 DEF strField, uint64Field, enumField, FieldOf
<1>4. \A m \in Task : m = [name \in {f.name : f \in Descriptor[t]} |-> m[name]]
    BY <1>3 DEF Task
<1>5. ASSUME NEW f \in Descriptor[t]
      PROVE  /\ f.num \in DOMAIN Cases[t] /\ f.name = FieldName(t, f.num)
             /\ WireType(f.typ)
                = IF Cases[t][f.num].kind = "varint" THEN VarintType ELSE BytesType
             /\ ~f.many /\ f.typ \notin DOMAIN Descriptor
    BY <1>1, <1>2, <1>5, PlainTypes
    DEF strField, uint64Field, enumField, FieldOf, FieldName, Varint, String
<1> QED BY <1>2, <1>4, <1>5 DEF Describes

LEMMA MsgCreateTaskDescribed == Describes("MsgCreateTask")
<1> DEFINE t == "MsgCreateTask"
<1>1. Descriptor[t] = {strField("creator", 1), strField("title", 2), strField("description", 3)}
    BY DescriptorOf DEF TxFileDescriptor
<1>2. /\ DOMAIN Cases[t] = 1 .. 3 /\ Struct[t] = MsgCreateTask
      /\ Cases[t][1] = String("creator") /\ Cases[t][2] = String("title")
      /\ Cases[t][3] = String("description")
    BY DEF Cases, UnmarshalMsgCreateTask, Struct
<1>3. {f.name : f \in Descriptor[t]} = {"creator", "title", "description"}
    BY <1>1 DEF strField, uint64Field, FieldOf
<1>4. \A m \in MsgCreateTask : m = [name \in {f.name : f \in Descriptor[t]} |-> m[name]]
    BY <1>3 DEF MsgCreateTask
<1>5. ASSUME NEW f \in Descriptor[t]
      PROVE  /\ f.num \in DOMAIN Cases[t] /\ f.name = FieldName(t, f.num)
             /\ WireType(f.typ)
                = IF Cases[t][f.num].kind = "varint" THEN VarintType ELSE BytesType
             /\ ~f.many /\ f.typ \notin DOMAIN Descriptor
    BY <1>1, <1>2, <1>5, PlainTypes DEF strField, uint64Field, FieldOf, FieldName, Varint, String
<1> QED BY <1>2, <1>4, <1>5 DEF Describes

LEMMA MsgCreateTaskResponseDescribed == Describes("MsgCreateTaskResponse")
<1> DEFINE t == "MsgCreateTaskResponse"
<1>1. Descriptor[t] = {uint64Field("id", 1)}
    BY DescriptorOf DEF TxFileDescriptor
<1>2. /\ DOMAIN Cases[t] = {1} /\ Struct[t] = MsgCreateTaskResponse
      /\ Cases[t][1] = Varint("id")
    BY DEF Cases, UnmarshalMsgCreateTaskResponse, Struct
<1>3. {f.name : f \in Descriptor[t]} = {"id"}
    BY <1>1 DEF strField, uint64Field, FieldOf
<1>4. \A m \in MsgCreateTaskResponse : m = [name \in {f.name : f \in Descriptor[t]} |-> m[name]]
    BY <1>3 DEF MsgCreateTaskResponse
<1>5. ASSUME NEW f \in Descriptor[t]
      PROVE  /\ f.num \in DOMAIN Cases[t] /\ f.name = FieldName(t, f.num)
             /\ WireType(f.typ)
                = IF Cases[t][f.num].kind = "varint" THEN VarintType ELSE BytesType
             /\ ~f.many /\ f.typ \notin DOMAIN Descriptor
    BY <1>1, <1>2, <1>5, PlainTypes DEF strField, uint64Field, FieldOf, FieldName, Varint, String
<1> QED BY <1>2, <1>4, <1>5 DEF Describes

LEMMA MsgAssignTaskDescribed == Describes("MsgAssignTask")
<1> DEFINE t == "MsgAssignTask"
<1>1. Descriptor[t] = {strField("creator", 1), uint64Field("task_id", 2), strField("assignee", 3)}
    BY DescriptorOf DEF TxFileDescriptor
<1>2. /\ DOMAIN Cases[t] = 1 .. 3 /\ Struct[t] = MsgAssignTask
      /\ Cases[t][1] = String("creator") /\ Cases[t][2] = Varint("task_id")
      /\ Cases[t][3] = String("assignee")
    BY DEF Cases, UnmarshalMsgAssignTask, Struct
<1>3. {f.name : f \in Descriptor[t]} = {"creator", "task_id", "assignee"}
    BY <1>1 DEF strField, uint64Field, FieldOf
<1>4. \A m \in MsgAssignTask : m = [name \in {f.name : f \in Descriptor[t]} |-> m[name]]
    BY <1>3 DEF MsgAssignTask
<1>5. ASSUME NEW f \in Descriptor[t]
      PROVE  /\ f.num \in DOMAIN Cases[t] /\ f.name = FieldName(t, f.num)
             /\ WireType(f.typ)
                = IF Cases[t][f.num].kind = "varint" THEN VarintType ELSE BytesType
             /\ ~f.many /\ f.typ \notin DOMAIN Descriptor
    BY <1>1, <1>2, <1>5, PlainTypes DEF strField, uint64Field, FieldOf, FieldName, Varint, String
<1> QED BY <1>2, <1>4, <1>5 DEF Describes

LEMMA MsgCompleteTaskDescribed == Describes("MsgCompleteTask")
<1> DEFINE t == "MsgCompleteTask"
<1>1. Descriptor[t] = {strField("assignee", 1), uint64Field("task_id", 2)}
    BY DescriptorOf DEF TxFileDescriptor
<1>2. /\ DOMAIN Cases[t] = 1 .. 2 /\ Struct[t] = MsgCompleteTask
      /\ Cases[t][1] = String("assignee") /\ Cases[t][2] = Varint("task_id")
    BY DEF Cases, UnmarshalMsgCompleteTask, Struct
<1>3. {f.name : f \in Descriptor[t]} = {"assignee", "task_id"}
    BY <1>1 DEF strField, uint64Field, FieldOf
<1>4. \A m \in MsgCompleteTask : m = [name \in {f.name : f \in Descriptor[t]} |-> m[name]]
    BY <1>3 DEF MsgCompleteTask
<1>5. ASSUME NEW f \in Descriptor[t]
      PROVE  /\ f.num \in DOMAIN Cases[t] /\ f.name = FieldName(t, f.num)
             /\ WireType(f.typ)
                = IF Cases[t][f.num].kind = "varint" THEN VarintType ELSE BytesType
             /\ ~f.many /\ f.typ \notin DOMAIN Descriptor
    BY <1>1, <1>2, <1>5, PlainTypes DEF strField, uint64Field, FieldOf, FieldName, Varint, String
<1> QED BY <1>2, <1>4, <1>5 DEF Describes

LEMMA QueryTaskRequestDescribed == Describes("QueryTaskRequest")
<1> DEFINE t == "QueryTaskRequest"
<1>1. Descriptor[t] = {uint64Field("id", 1)}
    BY DescriptorOf DEF QueryFileDescriptor
<1>2. /\ DOMAIN Cases[t] = {1} /\ Struct[t] = QueryTaskRequest
      /\ Cases[t][1] = Varint("id")
    BY DEF Cases, UnmarshalQueryTaskRequest, Struct
<1>3. {f.name : f \in Descriptor[t]} = {"id"}
    BY <1>1 DEF strField, uint64Field, FieldOf
<1>4. \A m \in QueryTaskRequest : m = [name \in {f.name : f \in Descriptor[t]} |-> m[name]]
    BY <1>3 DEF QueryTaskRequest
<1>5. ASSUME NEW f \in Descriptor[t]
      PROVE  /\ f.num \in DOMAIN Cases[t] /\ f.name = FieldName(t, f.num)
             /\ WireType(f.typ)
                = IF Cases[t][f.num].kind = "varint" THEN VarintType ELSE BytesType
             /\ ~f.many /\ f.typ \notin DOMAIN Descriptor
    BY <1>1, <1>2, <1>5, PlainTypes DEF strField, uint64Field, FieldOf, FieldName, Varint, String
<1> QED BY <1>2, <1>4, <1>5 DEF Describes

LEMMA PageRequestDescribed == Describes("PageRequest")
<1> DEFINE t == "PageRequest"
<1>1. Descriptor[t] = {strField("key", 1), uint64Field("offset", 2), uint64Field("limit", 3)}
    BY DescriptorOf DEF PageDescriptor
<1>2. /\ DOMAIN Cases[t] = 1 .. 3 /\ Struct[t] = PageRequest
      /\ Cases[t][1] = String("key") /\ Cases[t][2] = Varint("offset")
      /\ Cases[t][3] = Varint("limit")
    BY DEF Cases, UnmarshalPageRequest, Struct
<1>3. {f.name : f \in Descriptor[t]} = {"key", "offset", "limit"}
    BY <1>1 DEF strField, uint64Field, FieldOf
<1>4. \A m \in PageRequest : m = [name \in {f.name : f \in Descriptor[t]} |-> m[name]]
    BY <1>3 DEF PageRequest
<1>5. ASSUME NEW f \in Descriptor[t]
      PROVE  /\ f.num \in DOMAIN Cases[t] /\ f.name = FieldName(t, f.num)
             /\ WireType(f.typ)
                = IF Cases[t][f.num].kind = "varint" THEN VarintType ELSE BytesType
             /\ ~f.many /\ f.typ \notin DOMAIN Descriptor
    BY <1>1, <1>2, <1>5, PlainTypes DEF strField, uint64Field, FieldOf, FieldName, Varint, String
<1> QED BY <1>2, <1>4, <1>5 DEF Describes

LEMMA PageResponseDescribed == Describes("PageResponse")
<1> DEFINE t == "PageResponse"
<1>1. Descriptor[t] = {strField("next_key", 1), uint64Field("total", 2)}
    BY DescriptorOf DEF PageDescriptor
<1>2. /\ DOMAIN Cases[t] = 1 .. 2 /\ Struct[t] = PageResponse
      /\ Cases[t][1] = String("next_key") /\ Cases[t][2] = Varint("total")
    BY DEF Cases, UnmarshalPageResponse, Struct
<1>3. {f.name : f \in Descriptor[t]} = {"next_key", "total"}
    BY <1>1 DEF strField, uint64Field, FieldOf
<1>4. \A m \in PageResponse : m = [name \in {f.name : f \in Descriptor[t]} |-> m[name]]
    BY <1>3 DEF PageResponse
<1>5. ASSUME NEW f \in Descriptor[t]
      PROVE  /\ f.num \in DOMAIN Cases[t] /\ f.name = FieldName(t, f.num)
             /\ WireType(f.typ)
                = IF Cases[t][f.num].kind = "varint" THEN VarintType ELSE BytesType
             /\ ~f.many /\ f.typ \notin DOMAIN Descriptor
    BY <1>1, <1>2, <1>5, PlainTypes DEF strField, uint64Field, FieldOf, FieldName, Varint, String
<1> QED BY <1>2, <1>4, <1>5 DEF Describes

LEMMA FlatDescribed == \A t \in FlatTypes : Describes(t)
BY TaskDescribed, MsgCreateTaskDescribed, MsgCreateTaskResponseDescribed, MsgAssignTaskDescribed,
   MsgCompleteTaskDescribed, QueryTaskRequestDescribed, PageRequestDescribed,
   PageResponseDescribed DEF FlatTypes

LEMMA GivesOn ==
    ASSUME NEW f, NEW j \in Nat, NEW k \in Nat, NEW x, NEW a, NEW p,
           Gives(f, a, IF j <= k THEN x ELSE <<>>), Gives(f, p, IF j = k + 1 THEN x ELSE <<>>)
    PROVE  Gives(f, a \o p, IF j <= k + 1 THEN x ELSE <<>>)
<1> DEFINE g == IF j <= k THEN x ELSE <<>>
           h == IF j = k + 1 THEN x ELSE <<>>
<1>1. Gives(f, a \o p, g \o h)
    <2> HIDE DEF g, h
    <2>1. Gives(f, a, g) /\ Gives(f, p, h)
        BY DEF g, h
    <2> QED BY <2>1, GivesJoined
<1>2. g \in Seq(Texts) /\ h \in Seq(Texts)
    BY DEF Gives
<1>3. CASE j <= k
    <2>1. g = x /\ h = <<>> /\ j <= k + 1
        BY <1>3
    <2>2. x \o <<>> = x
        BY <1>2, <2>1, ConcatEmptySeq
    <2> HIDE DEF g, h
    <2> QED BY <1>1, <2>1, <2>2
<1>4. CASE ~(j <= k)
    <2>1. g = <<>> /\ h = IF j <= k + 1 THEN x ELSE <<>>
        BY <1>4
    <2>2. <<>> \o h = h
        BY <1>2, ConcatEmptySeq
    <2> HIDE DEF g, h
    <2> QED BY <1>1, <2>1, <2>2
<1> QED BY <1>3, <1>4

\* A message of numbers and strings gives each field once, or not if it is zero.
LEMMA FlatGives ==
    ASSUME NEW t, Flat(t), Describes(t), NEW m \in Struct[t], NEW f \in Descriptor[t]
    PROVE  Gives(f, Encoded(t, m), IF m[f.name] = Zero(t, f.num) THEN <<>> ELSE <<m[f.name]>>)
<1> DEFINE P(i) == Piece(t, m, i)
           j == f.num
           x == IF m[f.name] = Zero(t, j) THEN <<>> ELSE <<m[f.name]>>
<1>1. /\ j \in DOMAIN Cases[t] /\ f.name = FieldName(t, j)
      /\ WireType(f.typ) = IF Cases[t][j].kind = "varint" THEN VarintType ELSE BytesType
    BY DEF Describes
<1>2. j \in 1 .. 6
    BY <1>1 DEF Flat
<1>3. ASSUME NEW i \in 1 .. 6 PROVE Gives(f, P(i), IF j = i THEN x ELSE <<>>)
    <2>0. i \in FieldNumber
        BY DEF FieldNumber
    <2>1. CASE i \notin DOMAIN Cases[t]
        BY <1>1, <2>1, GivesNothing DEF Piece
    <2>2. CASE i \in DOMAIN Cases[t]
        <3> DEFINE v == m[FieldName(t, i)]
        <3>1. v \in ValueType(t, i)
            BY <2>2, FlatParts DEF FlatMessage
        <3>2. CASE Cases[t][i].kind = "varint"
            <4>1. v \in Nat /\ P(i) = appendUint64(i, v) /\ Zero(t, i) = 0
                BY <2>2, <3>1, <3>2 DEF ValueType, Piece, Zero
            <4>2. (IF v = 0 THEN <<>> ELSE OwnValue(f, i, VarintType, v))
                  = IF j = i THEN x ELSE <<>>
                BY <1>1, <3>2, <4>1 DEF OwnValue
            <4>3. Gives(f, appendUint64(i, v), IF v = 0 THEN <<>> ELSE OwnValue(f, i, VarintType, v))
                <5> HIDE DEF v
                <5> QED BY <2>0, <4>1, Uint64Gives
            <4> QED BY <4>1, <4>2, <4>3, Zenon
        <3>3. CASE Cases[t][i].kind # "varint"
            <4>1. v \in Buffer /\ P(i) = appendString(i, v) /\ Zero(t, i) = <<>>
                BY <2>2, <3>1, <3>3 DEF ValueType, Piece, Zero
            <4>2. (IF v = <<>> THEN <<>> ELSE OwnValue(f, i, BytesType, v))
                  = IF j = i THEN x ELSE <<>>
                BY <1>1, <3>3, <4>1 DEF OwnValue
            <4>3. Gives(f, appendString(i, v), IF v = <<>> THEN <<>> ELSE OwnValue(f, i, BytesType, v))
                <5> HIDE DEF v
                <5> QED BY <2>0, <4>1, StringGives
            <4> QED BY <4>1, <4>2, <4>3, Zenon
        <3> QED BY <3>2, <3>3
    <2> QED BY <2>1, <2>2
<1> HIDE DEF j, x
<1> DEFINE Y(k) == IF j <= k THEN x ELSE <<>>
<1>4. Gives(f, P(1), Y(1))
    <2>1. j = 1 <=> j <= 1
        BY <1>2
    <2> QED BY <1>3, <2>1
<1>5. Gives(f, P(1) \o P(2), Y(2))
    <2>1. Gives(f, P(2), IF j = 1 + 1 THEN x ELSE <<>>) /\ j \in Nat /\ 1 + 1 = 2
        BY <1>2, <1>3
    <2>2. Gives(f, P(1) \o P(2), Y(1 + 1))
        <3> HIDE DEF P
        <3> QED BY <1>4, <2>1, GivesOn
    <2> QED BY <2>1, <2>2
<1>6. Gives(f, P(1) \o P(2) \o P(3), Y(3))
    <2>1. Gives(f, P(3), IF j = 2 + 1 THEN x ELSE <<>>) /\ j \in Nat /\ 2 + 1 = 3
        BY <1>2, <1>3
    <2>2. Gives(f, P(1) \o P(2) \o P(3), Y(2 + 1))
        <3> HIDE DEF P
        <3> QED BY <1>5, <2>1, GivesOn
    <2> QED BY <2>1, <2>2
<1>7. Gives(f, P(1) \o P(2) \o P(3) \o P(4), Y(4))
    <2>1. Gives(f, P(4), IF j = 3 + 1 THEN x ELSE <<>>) /\ j \in Nat /\ 3 + 1 = 4
        BY <1>2, <1>3
    <2> DEFINE a == P(1) \o P(2) \o P(3)
    <2>2. Gives(f, a, Y(3))
        BY <1>6
    <2>3. Gives(f, a \o P(4), Y(3 + 1))
        <3> HIDE DEF P, a
        <3> QED BY <2>1, <2>2, GivesOn
    <2> QED BY <2>1, <2>3
<1>8. Gives(f, P(1) \o P(2) \o P(3) \o P(4) \o P(5), Y(5))
    <2>1. Gives(f, P(5), IF j = 4 + 1 THEN x ELSE <<>>) /\ j \in Nat /\ 4 + 1 = 5
        BY <1>2, <1>3
    <2> DEFINE a == P(1) \o P(2) \o P(3) \o P(4)
    <2>2. Gives(f, a, Y(4))
        BY <1>7
    <2>3. Gives(f, a \o P(5), Y(4 + 1))
        <3> HIDE DEF P, a
        <3> QED BY <2>1, <2>2, GivesOn
    <2> QED BY <2>1, <2>3
<1>9. Gives(f, P(1) \o P(2) \o P(3) \o P(4) \o P(5) \o P(6), Y(6))
    <2>1. Gives(f, P(6), IF j = 5 + 1 THEN x ELSE <<>>) /\ j \in Nat /\ 5 + 1 = 6
        BY <1>2, <1>3
    <2> DEFINE a == P(1) \o P(2) \o P(3) \o P(4) \o P(5)
    <2>2. Gives(f, a, Y(5))
        BY <1>8
    <2>3. Gives(f, a \o P(6), Y(5 + 1))
        <3> HIDE DEF P, a
        <3> QED BY <2>1, <2>2, GivesOn
    <2> QED BY <2>1, <2>3
<1>10. Y(6) = x /\ Encoded(t, m) = P(1) \o P(2) \o P(3) \o P(4) \o P(5) \o P(6)
    BY <1>2, FlatParts DEF FlatMessage
<1>11. Gives(f, Encoded(t, m), x)
    <2> HIDE DEF P, Y
    <2> QED BY <1>9, <1>10
<1> QED BY <1>11 DEF x, j

LEMMA DescribedIs ==
    ASSUME NEW t, NEW name \in {f.name : f \in Descriptor[t]}
    PROVE  Described(t, name) \in Descriptor[t] /\ Described(t, name).name = name
BY DEF Described

LEMMA ScalarIs ==
    ASSUME NEW t, Flat(t), Describes(t), NEW m \in Struct[t], NEW f \in Descriptor[t]
    PROVE  Scalar(t, f, Encoded(t, m)) = m[f.name]
<1> DEFINE given == Given(f, Encoded(t, m))
<1>1. given = IF m[f.name] = Zero(t, f.num) THEN <<>> ELSE <<m[f.name]>>
    BY FlatGives, GivesAll
<1>2. New[t][f.name] = Zero(t, f.num)
    BY DEF Flat, Describes
<1>3. Scalar(t, f, Encoded(t, m)) = IF given = <<>> THEN New[t][f.name] ELSE Last(given)
    BY Zenon DEF Scalar
<1>4. Last(<<m[f.name]>>) = m[f.name] /\ <<m[f.name]>> # <<>>
    BY DEF Last
<1> HIDE DEF given
<1> QED BY <1>1, <1>2, <1>3, <1>4

LEMMA ReflectNestedIs ==
    ASSUME NEW t \in FlatTypes, NEW m \in Struct[t]
    PROVE  ReflectNested(t, Encoded(t, m)) = m
<1>1. Flat(t) /\ Describes(t)
    BY AllFlat, FlatDescribed
<1> DEFINE N == {f.name : f \in Descriptor[t]}
<1>2. ReflectNested(t, Encoded(t, m)) = [name \in N |-> Scalar(t, Described(t, name), Encoded(t, m))]
    BY Zenon DEF ReflectNested
<1>3. ASSUME NEW name \in N PROVE Scalar(t, Described(t, name), Encoded(t, m)) = m[name]
    BY <1>1, DescribedIs, ScalarIs
<1>4. m = [name \in N |-> m[name]]
    BY <1>1, Zenon DEF Describes
<1> HIDE DEF N
<1>5. [name \in N |-> Scalar(t, Described(t, name), Encoded(t, m))] = [name \in N |-> m[name]]
    BY <1>3
<1> QED BY <1>2, <1>4, <1>5, Zenon

\* What Reflect makes of one field.
ReflectField(t, f, b) ==
    CASE f.many -> [i \in DOMAIN Given(f, b) |-> ReflectNested(f.typ, Given(f, b)[i])]
      [] ~f.many /\ f.typ \in DOMAIN Descriptor -> ReflectNested(f.typ, FlattenSeq(Given(f, b)))
      [] OTHER -> Scalar(t, f, b)

LEMMA ReflectIs ==
    ASSUME NEW t, NEW b
    PROVE  Reflect(t, b) = [name \in {f.name : f \in Descriptor[t]} |->
                               ReflectField(t, Described(t, name), b)]
BY Zenon DEF Reflect, ReflectField

LEMMA FlatReflect ==
    ASSUME NEW t \in FlatTypes, NEW m \in Struct[t]
    PROVE  Reflect(t, Encoded(t, m)) = m
<1>1. Flat(t) /\ Describes(t)
    BY AllFlat, FlatDescribed
<1> DEFINE N == {f.name : f \in Descriptor[t]}
           b == Encoded(t, m)
<1>2. Reflect(t, b) = [name \in N |-> ReflectField(t, Described(t, name), b)]
    BY ReflectIs
<1>3. ASSUME NEW name \in N PROVE ReflectField(t, Described(t, name), b) = m[name]
    <2> DEFINE f == Described(t, name)
    <2>1. f \in Descriptor[t] /\ f.name = name
        BY DescribedIs
    <2>2. ~f.many /\ f.typ \notin DOMAIN Descriptor
        <3> HIDE DEF f
        <3> QED BY <1>1, <2>1 DEF Describes
    <2>3. Scalar(t, f, b) = m[name]
        <3> HIDE DEF f
        <3> QED BY <1>1, <2>1, ScalarIs
    <2> HIDE DEF f, b
    <2>4. ReflectField(t, f, b) = Scalar(t, f, b)
        BY <2>2 DEF ReflectField
    <2> QED BY <2>3, <2>4 DEF f
<1>4. m = [name \in N |-> m[name]]
    BY <1>1, Zenon DEF Describes
<1> HIDE DEF N, b
<1>5. [name \in N |-> ReflectField(t, Described(t, name), b)] = [name \in N |-> m[name]]
    BY <1>3
<1> QED BY <1>2, <1>4, <1>5, Zenon DEF b

\* At most one nested message: decoded from its bytes, or from none.
LEMMA FlattenOne ==
    ASSUME NEW bz \in Buffer
    PROVE  FlattenSeq(IF bz = <<>> THEN <<>> ELSE <<bz>>) = bz
<1>1. CASE bz = <<>>
    <2>1. FlattenSeq(<<>>) = <<>>
        BY NoBytes DEF FlattenSeq
    <2> QED BY <1>1, <2>1
<1>2. CASE bz # <<>>
    <2> DEFINE s == <<bz>>
               F(g) == g = [i \in 1 .. Len(s) |-> IF i = 1 THEN s[i] ELSE g[i - 1] \o s[i]]
               h == CHOOSE g : F(g)
    <2>1. Len(s) = 1 /\ s[1] = bz /\ 1 .. Len(s) = {1}
        OBVIOUS
    <2>2. FlattenSeq(s) = h[Len(s)]
        <3>1. ~(Len(s) = 0)
            BY <2>1
        <3> HIDE DEF s
        <3> QED BY <3>1, Zenon DEF FlattenSeq
    <2> HIDE DEF s
    <2>3. F([i \in {1} |-> bz])
        BY <2>1
    <2>4. F(h)
        <3> HIDE DEF F
        <3> QED BY <2>3
    <2>5. h[1] = bz
        <3> HIDE DEF h
        <3> QED BY <2>1, <2>4
    <2> HIDE DEF h
    <2>6. FlattenSeq(s) = bz
        BY <2>1, <2>2, <2>5
    <2> QED BY <1>2, <2>6 DEF s
<1> QED BY <1>1, <1>2

\* The bytes of each task of a list.
TaskBzs(tasks) == [i \in DOMAIN tasks |-> MarshalTask(tasks[i])]

LEMMA TasksGive ==
    ASSUME NEW f, NEW num \in FieldNumber, NEW tasks \in Seq(Task)
    PROVE  Gives(f, appendTasks(num, tasks),
                 IF num = f.num /\ BytesType = WireType(f.typ) THEN TaskBzs(tasks) ELSE <<>>)
<1> DEFINE n == Len(tasks)
           bz(i) == MarshalTask(tasks[i])
           own == num = f.num /\ BytesType = WireType(f.typ)
           G(k) == IF own THEN [i \in 1 .. k |-> bz(i)] ELSE <<>>
<1>1. PICK b \in [0 .. n -> Buffer] : TaskBytes(b, num, tasks) /\ appendTasks(num, tasks) = b[n]
    BY TaskBytesIs
<1>2. /\ n \in Nat /\ DOMAIN tasks = 1 .. n
      /\ \A i \in 1 .. n : tasks[i] \in Task /\ bz(i) \in Buffer /\ bz(i) \in Texts
    <2>1. n \in Nat /\ DOMAIN tasks = 1 .. n /\ \A i \in 1 .. n : tasks[i] \in Task
        BY LenProperties
    <2>2. \A x \in Task : MarshalTask(x) \in Buffer
        BY TaskSize
    <2> QED BY <2>1, <2>2 DEF Texts
<1> HIDE DEF n
<1> DEFINE T == {k \in Nat : k <= n => Gives(f, b[k], G(k))}
<1>3. 0 \in T
    <2>1. b[0] = <<>>
        BY <1>1, <1>2 DEF TaskBytes, n
    <2>2. G(0) = <<>>
        OBVIOUS
    <2>3. Gives(f, b[0], G(0))
        <3> HIDE DEF G
        <3> QED BY <2>1, <2>2, GivesNothing
    <2> QED BY <2>3
<1>4. ASSUME NEW k \in Nat, k \in T PROVE k + 1 \in T
    <2> SUFFICES ASSUME k + 1 <= n PROVE Gives(f, b[k + 1], G(k + 1))
        OBVIOUS
    <2>1. k + 1 \in 1 .. n /\ k + 1 \in 0 .. n /\ k + 1 # 0 /\ (k + 1) - 1 = k /\ k <= n
        BY <1>2
    <2>2. Gives(f, b[k], G(k))
        BY <1>4, <2>1
    <2>3. b[k + 1] = b[k] \o appendMessage(num, bz(k + 1))
        BY <1>1, <2>1 DEF TaskBytes, n
    <2>4. Gives(f, appendMessage(num, bz(k + 1)), OwnValue(f, num, BytesType, bz(k + 1)))
        BY <1>2, <2>1, MessageGives
    <2>5. Gives(f, b[k + 1], G(k) \o OwnValue(f, num, BytesType, bz(k + 1)))
        <3> HIDE DEF G, bz
        <3> QED BY <2>2, <2>3, <2>4, GivesJoined
    <2>6. G(k) \o OwnValue(f, num, BytesType, bz(k + 1)) = G(k + 1)
        <3>1. CASE own
            <4> DEFINE a == [i \in 1 .. k |-> bz(i)]
                       c == [i \in 1 .. k + 1 |-> bz(i)]
            <4>1. G(k) = a /\ G(k + 1) = c /\ OwnValue(f, num, BytesType, bz(k + 1)) = <<bz(k + 1)>>
                BY <3>1 DEF OwnValue
            <4>2. a \o <<bz(k + 1)>> = c
                <5>1. \A i \in 1 .. k + 1 : bz(i) \in Texts
                    BY <1>2, <2>1
                <5> HIDE DEF bz
                <5>2. a \in Seq(Texts) /\ Len(a) = k /\ c \in Seq(Texts) /\ Len(c) = k + 1
                    BY <5>1
                <5> QED BY <5>1, <5>2
            <4> HIDE DEF G
            <4> QED BY <4>1, <4>2
        <3>2. CASE ~own
            BY <3>2, EmptySeq, ConcatEmptySeq DEF OwnValue
        <3> QED BY <3>1, <3>2
    <2> QED BY <2>5, <2>6
<1>5. n \in T
    <2> HIDE DEF T
    <2> QED BY <1>2, <1>3, <1>4, NatSteps
<1>6. G(n) = IF own THEN TaskBzs(tasks) ELSE <<>>
    BY <1>2 DEF TaskBzs
<1> HIDE DEF G
<1> QED BY <1>1, <1>2, <1>5, <1>6 DEF n

LEMMA EncodedTyped ==
    ASSUME NEW t, Flat(t), NEW m \in Struct[t]
    PROVE  Encoded(t, m) \in Buffer
<1> DEFINE P(i) == Piece(t, m, i)
<1>1. /\ P(1) \in Buffer /\ P(2) \in Buffer /\ P(3) \in Buffer
      /\ P(4) \in Buffer /\ P(5) \in Buffer /\ P(6) \in Buffer
    BY PieceTyped
<1>2. Encoded(t, m) = P(1) \o P(2) \o P(3) \o P(4) \o P(5) \o P(6)
    BY FlatParts DEF FlatMessage
<1> HIDE DEF P
<1> QED BY <1>1, <1>2, Joined

\* A field that is one nested message of type of with the value x.
LEMMA NestedFieldIs ==
    ASSUME NEW t, NEW of \in FlatTypes, NEW f, ~f.many, f.typ = of, of \in DOMAIN Descriptor,
           NEW x \in Struct[of], NEW b,
           Given(f, b) = IF Encoded(of, x) = <<>> THEN <<>> ELSE <<Encoded(of, x)>>
    PROVE  ReflectField(t, f, b) = x
<1>1. Encoded(of, x) \in Buffer
    BY AllFlat, EncodedTyped
<1>2. FlattenSeq(Given(f, b)) = Encoded(of, x)
    BY <1>1, FlattenOne
<1>3. ReflectField(t, f, b) = ReflectNested(of, FlattenSeq(Given(f, b)))
    BY Zenon DEF ReflectField
<1> QED BY <1>2, <1>3, ReflectNestedIs

LEMMA TaskListIs ==
    ASSUME NEW t, NEW f, f.many, f.typ = "Task", NEW b, NEW tasks \in Seq(Task),
           Given(f, b) = TaskBzs(tasks)
    PROVE  ReflectField(t, f, b) = tasks
<1>1. DOMAIN TaskBzs(tasks) = DOMAIN tasks /\ \A i \in DOMAIN tasks : tasks[i] \in Task
    BY LenProperties DEF TaskBzs
<1>2. /\ \A x : Encoded("Task", x) = MarshalTask(x)
      /\ Struct["Task"] = Task /\ "Task" \in FlatTypes
    BY DEF Encoded, Marshal, Empty, Struct, FlatTypes
<1>3. ASSUME NEW i \in DOMAIN tasks PROVE ReflectNested("Task", TaskBzs(tasks)[i]) = tasks[i]
    <2>1. TaskBzs(tasks)[i] = Encoded("Task", tasks[i])
        BY <1>2 DEF TaskBzs
    <2>2. tasks[i] \in Struct["Task"]
        BY <1>1, <1>2
    <2> QED BY <1>2, <2>1, <2>2, ReflectNestedIs
<1>4. ReflectField(t, f, b)
      = [i \in DOMAIN Given(f, b) |-> ReflectNested("Task", Given(f, b)[i])]
    BY Zenon DEF ReflectField
<1>5. ReflectField(t, f, b) = [i \in DOMAIN tasks |-> ReflectNested("Task", TaskBzs(tasks)[i])]
    BY <1>1, <1>4
<1>6. ReflectField(t, f, b) = [i \in DOMAIN tasks |-> tasks[i]]
    BY <1>3, <1>5
<1> QED BY <1>6

\* Decoding by descriptor what Marshal writes.
Reflects(t, m) == Reflect(t, Marshal(t, m)) = Meaning(t, m)

LEMMA FlatReflects ==
    ASSUME NEW t \in FlatTypes \ {"PageRequest", "PageResponse"}, NEW m \in Struct[t]
    PROVE  Reflects(t, m)
<1>1. Encoded(t, m) = Marshal(t, m)
    BY DEF Encoded
<1>2. "pagination" \notin DOMAIN m
    <2>1. CASE t = "Task"
        BY <2>1 DEF Struct, Task
    <2>2. CASE t = "MsgCreateTask"
        BY <2>2 DEF Struct, MsgCreateTask
    <2>3. CASE t = "MsgCreateTaskResponse"
        BY <2>3 DEF Struct, MsgCreateTaskResponse
    <2>4. CASE t = "MsgAssignTask"
        BY <2>4 DEF Struct, MsgAssignTask
    <2>5. CASE t = "MsgCompleteTask"
        BY <2>5 DEF Struct, MsgCompleteTask
    <2>6. CASE t = "QueryTaskRequest"
        BY <2>6 DEF Struct, QueryTaskRequest
    <2> QED BY <2>1, <2>2, <2>3, <2>4, <2>5, <2>6 DEF FlatTypes
<1>3. Meaning(t, m) = m
    BY <1>2 DEF Meaning
<1> QED BY <1>1, <1>3, FlatReflect DEF Reflects

LEMMA QueryTaskResponseReflects ==
    ASSUME NEW m \in QueryTaskResponse
    PROVE  Reflects("QueryTaskResponse", m)
<1> DEFINE t == "QueryTaskResponse"
           f == msgField("task", 1, "Task")
           b == Marshal(t, m)
           bz == Encoded("Task", m.task)
<1>1. /\ Descriptor[t] = {f} /\ "Task" \in DOMAIN Descriptor /\ Struct["Task"] = Task
      /\ "Task" \in FlatTypes /\ 1 \in FieldNumber
    BY DescriptorOf, DescribedTypes, FieldNumbers DEF QueryFileDescriptor, Struct, FlatTypes
<1>2. m.task \in Task /\ m = [task |-> m.task]
    BY DEF QueryTaskResponse
<1>3. ~f.many /\ f.typ = "Task" /\ f.num = 1 /\ f.name = "task" /\ WireType(f.typ) = BytesType
    BY DEF msgField, FieldOf, WireType
<1> HIDE DEF f
<1>4. bz \in Buffer
    BY <1>1, <1>2, AllFlat, EncodedTyped
<1>5. b = appendPage(1, bz)
    BY DEF Encoded, Marshal, Empty, MarshalQueryTaskResponse, appendPage
<1>6. Given(f, b) = IF bz = <<>> THEN <<>> ELSE <<bz>>
    <2> HIDE DEF bz, b
    <2>1. OwnValue(f, 1, BytesType, bz) = <<bz>>
        BY <1>3 DEF OwnValue
    <2>2. Gives(f, b, IF bz = <<>> THEN <<>> ELSE <<bz>>)
        BY <1>1, <1>4, <1>5, <2>1, PageGives
    <2> QED BY <2>2, GivesAll
<1>7. ReflectField(t, f, b) = m.task
    <2> HIDE DEF b
    <2> QED BY <1>1, <1>2, <1>3, <1>6, NestedFieldIs
<1>8. Reflect(t, b) = [name \in {"task"} |-> ReflectField(t, Described(t, name), b)]
    <2>1. {g.name : g \in Descriptor[t]} = {"task"}
        BY <1>1, <1>3
    <2> QED BY <2>1, ReflectIs, Zenon
<1>9. Described(t, "task") = f
    BY <1>1, <1>3 DEF Described
<1>10. Meaning(t, m) = m
    BY <1>2 DEF Meaning
<1> HIDE DEF b
<1>11. Reflect(t, b) = m
    BY <1>2, <1>7, <1>8, <1>9
<1> QED BY <1>10, <1>11 DEF Reflects, b

LEMMA QueryListTasksRequestReflects ==
    ASSUME NEW m \in QueryListTasksRequest
    PROVE  Reflects("QueryListTasksRequest", m)
<1> DEFINE t == "QueryListTasksRequest"
           of == "PageRequest"
           f == msgField("pagination", 1, of)
           b == Marshal(t, m)
           page == IF m.pagination = <<>> THEN NewPageRequest ELSE m.pagination[1]
           bz == PageRequestBz(m.pagination)
<1>1. /\ Descriptor[t] = {f} /\ of \in DOMAIN Descriptor /\ Struct[of] = PageRequest
      /\ of \in FlatTypes /\ 1 \in FieldNumber /\ New[of] = NewPageRequest
    BY DescriptorOf, DescribedTypes, FieldNumbers DEF QueryFileDescriptor, Struct, New, FlatTypes
<1>2. m.pagination \in Optional(PageRequest) /\ m = [pagination |-> m.pagination]
    BY DEF QueryListTasksRequest
<1>3. ~f.many /\ f.typ = of /\ f.num = 1 /\ f.name = "pagination" /\ WireType(f.typ) = BytesType
    BY DEF msgField, FieldOf, WireType
<1> HIDE DEF f
<1>4. page \in Struct[of] /\ bz = Encoded(of, page)
    <2>1. NewPageRequest \in PageRequest /\ Encoded(of, NewPageRequest) = <<>>
        BY <1>1, AllFlat, NewIsEmpty
    <2> QED BY <1>1, <1>2, <2>1, OptionalIs DEF PageRequestBz, Encoded
<1>5. b = appendPage(1, bz) /\ bz \in Buffer
    BY <1>1, <1>4, AllFlat, EncodedTyped DEF Marshal, Empty, MarshalQueryListTasksRequest
<1>6. Given(f, b) = IF bz = <<>> THEN <<>> ELSE <<bz>>
    <2> HIDE DEF bz, b
    <2>1. OwnValue(f, 1, BytesType, bz) = <<bz>>
        BY <1>3 DEF OwnValue
    <2>2. Gives(f, b, IF bz = <<>> THEN <<>> ELSE <<bz>>)
        BY <1>1, <1>5, <2>1, PageGives
    <2> QED BY <2>2, GivesAll
<1>7. ReflectField(t, f, b) = page
    <2> HIDE DEF b, bz, page
    <2> QED BY <1>1, <1>3, <1>4, <1>6, NestedFieldIs
<1>8. Reflect(t, b) = [name \in {"pagination"} |-> ReflectField(t, Described(t, name), b)]
    <2>1. {g.name : g \in Descriptor[t]} = {"pagination"}
        BY <1>1, <1>3
    <2> QED BY <2>1, ReflectIs, Zenon
<1>9. Described(t, "pagination") = f
    BY <1>1, <1>3 DEF Described
<1>10. Meaning(t, m) = [pagination |-> page]
    BY <1>2 DEF Meaning
<1> HIDE DEF b, page
<1>11. Reflect(t, b) = [pagination |-> page]
    BY <1>7, <1>8, <1>9
<1> QED BY <1>10, <1>11 DEF Reflects, b

LEMMA QueryListTasksResponseReflects ==
    ASSUME NEW m \in QueryListTasksResponse
    PROVE  Reflects("QueryListTasksResponse", m)
<1> DEFINE t == "QueryListTasksResponse"
           of == "PageResponse"
           f == repeatedMsgField("tasks", 1, "Task")
           g == msgField("pagination", 2, of)
           b == Marshal(t, m)
           list == appendTasks(1, m.tasks)
           page == IF m.pagination = <<>> THEN NewPageResponse ELSE m.pagination[1]
           bz == PageResponseBz(m.pagination)
<1>1. /\ Descriptor[t] = {f, g} /\ of \in DOMAIN Descriptor /\ Struct[of] = PageResponse
      /\ of \in FlatTypes /\ 1 \in FieldNumber /\ 2 \in FieldNumber
      /\ New[of] = NewPageResponse
    BY DescriptorOf, DescribedTypes, FieldNumbers DEF QueryFileDescriptor, Struct, New, FlatTypes
<1>2. /\ m.pagination \in Optional(PageResponse) /\ m.tasks \in Seq(Task)
      /\ m = [tasks |-> m.tasks, pagination |-> m.pagination]
    BY DEF QueryListTasksResponse
<1>3. /\ f.many /\ f.typ = "Task" /\ f.num = 1 /\ f.name = "tasks" /\ WireType(f.typ) = BytesType
      /\ ~g.many /\ g.typ = of /\ g.num = 2 /\ g.name = "pagination"
      /\ WireType(g.typ) = BytesType
    BY DEF msgField, repeatedMsgField, FieldOf, WireType
<1> HIDE DEF f, g
<1>4. page \in Struct[of] /\ bz = Encoded(of, page)
    <2>1. NewPageResponse \in PageResponse /\ Encoded(of, NewPageResponse) = <<>>
        BY <1>1, AllFlat, NewIsEmpty
    <2> QED BY <1>1, <1>2, <2>1, OptionalIs DEF PageResponseBz, Encoded
<1>5. b = list \o appendPage(2, bz) /\ bz \in Buffer
    BY <1>1, <1>4, AllFlat, EncodedTyped DEF Marshal, Empty, MarshalQueryListTasksResponse
<1>6. Given(f, b) = TaskBzs(m.tasks)
    <2>1. Gives(f, list, TaskBzs(m.tasks))
        BY <1>1, <1>2, <1>3, TasksGive
    <2> HIDE DEF bz, b, list
    <2>2. Gives(f, appendPage(2, bz), <<>>)
        <3>1. OwnValue(f, 2, BytesType, bz) = <<>>
            BY <1>3 DEF OwnValue
        <3> QED BY <1>1, <1>5, <3>1, PageGives
    <2>3. Gives(f, b, TaskBzs(m.tasks) \o <<>>)
        BY <1>5, <2>1, <2>2, GivesJoined
    <2>4. TaskBzs(m.tasks) \o <<>> = TaskBzs(m.tasks)
        BY <2>1, ConcatEmptySeq DEF Gives
    <2> QED BY <2>3, <2>4, GivesAll
<1>7. Given(g, b) = IF bz = <<>> THEN <<>> ELSE <<bz>>
    <2> DEFINE x == IF bz = <<>> THEN <<>> ELSE <<bz>>
    <2>1. Gives(g, list, <<>>)
        BY <1>1, <1>2, <1>3, TasksGive
    <2> HIDE DEF bz, b, list
    <2>2. Gives(g, appendPage(2, bz), x)
        <3>1. OwnValue(g, 2, BytesType, bz) = <<bz>>
            BY <1>3 DEF OwnValue
        <3> QED BY <1>1, <1>5, <3>1, PageGives
    <2> HIDE DEF x
    <2>3. Gives(g, b, <<>> \o x)
        BY <1>5, <2>1, <2>2, GivesJoined
    <2>4. <<>> \o x = x
        BY <2>2, ConcatEmptySeq DEF Gives
    <2>5. Given(g, b) = x
        BY <2>3, <2>4, GivesAll
    <2> QED BY <2>5 DEF x
<1>8. ReflectField(t, f, b) = m.tasks
    <2> HIDE DEF b
    <2> QED BY <1>2, <1>3, <1>6, TaskListIs
<1>9. ReflectField(t, g, b) = page
    <2> HIDE DEF b, bz, page
    <2> QED BY <1>1, <1>3, <1>4, <1>7, NestedFieldIs
<1>10. Reflect(t, b)
       = [name \in {"tasks", "pagination"} |-> ReflectField(t, Described(t, name), b)]
    <2>1. {h.name : h \in Descriptor[t]} = {"tasks", "pagination"}
        BY <1>1, <1>3
    <2> QED BY <2>1, ReflectIs, Zenon
<1>11. Described(t, "tasks") = f /\ Described(t, "pagination") = g
    BY <1>1, <1>3 DEF Described
<1>12. Meaning(t, m) = [tasks |-> m.tasks, pagination |-> page]
    BY <1>2 DEF Meaning
<1> HIDE DEF b, page
<1>13. Reflect(t, b) = [tasks |-> m.tasks, pagination |-> page]
    BY <1>8, <1>9, <1>10, <1>11
<1> QED BY <1>12, <1>13 DEF Reflects, b

LEMMA GenesisStateReflects ==
    ASSUME NEW m \in GenesisState
    PROVE  Reflects("GenesisState", m)
<1> DEFINE t == "GenesisState"
           f == repeatedMsgField("tasks", 1, "Task")
           g == uint64Field("next_task_id", 2)
           b == Marshal(t, m)
           list == appendTasks(1, m.tasks)
           id == m.next_task_id
<1>1. /\ Descriptor[t] = {f, g} /\ 1 \in FieldNumber /\ 2 \in FieldNumber
      /\ New[t] = NewGenesisState
    BY DescriptorOf, FieldNumbers DEF GenesisFileDescriptor, New
<1>2. /\ id \in Nat /\ m.tasks \in Seq(Task)
      /\ m = [tasks |-> m.tasks, next_task_id |-> id]
    BY DEF GenesisState
<1>3. /\ f.many /\ f.typ = "Task" /\ f.num = 1 /\ f.name = "tasks" /\ WireType(f.typ) = BytesType
      /\ ~g.many /\ g.typ = "uint64" /\ g.num = 2 /\ g.name = "next_task_id"
      /\ WireType(g.typ) = VarintType /\ VarintType # BytesType
    BY DEF uint64Field, repeatedMsgField, FieldOf, WireType, VarintType, BytesType
<1> HIDE DEF f, g
<1>5. b = list \o appendUint64(2, id)
    BY DEF Marshal, Empty, MarshalGenesisState
<1>6. Given(f, b) = TaskBzs(m.tasks)
    <2>1. Gives(f, list, TaskBzs(m.tasks))
        BY <1>1, <1>2, <1>3, TasksGive
    <2> HIDE DEF id, b, list
    <2>2. Gives(f, appendUint64(2, id), <<>>)
        <3>1. OwnValue(f, 2, VarintType, id) = <<>>
            BY <1>3 DEF OwnValue
        <3> QED BY <1>1, <1>2, <3>1, Uint64Gives
    <2>3. Gives(f, b, TaskBzs(m.tasks) \o <<>>)
        BY <1>5, <2>1, <2>2, GivesJoined
    <2>4. TaskBzs(m.tasks) \o <<>> = TaskBzs(m.tasks)
        BY <2>1, ConcatEmptySeq DEF Gives
    <2> QED BY <2>3, <2>4, GivesAll
<1>7. Given(g, b) = IF id = 0 THEN <<>> ELSE <<id>>
    <2> DEFINE x == IF id = 0 THEN <<>> ELSE <<id>>
    <2>1. Gives(g, list, <<>>)
        BY <1>1, <1>2, <1>3, TasksGive
    <2> HIDE DEF id, b, list
    <2>2. Gives(g, appendUint64(2, id), x)
        <3>1. OwnValue(g, 2, VarintType, id) = <<id>>
            BY <1>3 DEF OwnValue
        <3> QED BY <1>1, <1>2, <3>1, Uint64Gives
    <2> HIDE DEF x
    <2>3. Gives(g, b, <<>> \o x)
        BY <1>5, <2>1, <2>2, GivesJoined
    <2>4. <<>> \o x = x
        BY <2>2, ConcatEmptySeq DEF Gives
    <2>5. Given(g, b) = x
        BY <2>3, <2>4, GivesAll
    <2> QED BY <2>5 DEF x
<1>8. ReflectField(t, f, b) = m.tasks
    <2> HIDE DEF b
    <2> QED BY <1>2, <1>3, <1>6, TaskListIs
<1>9. ReflectField(t, g, b) = id
    <2>1. ReflectField(t, g, b) = Scalar(t, g, b)
        <3>1. g.typ \notin DOMAIN Descriptor
            BY <1>3, PlainTypes
        <3> HIDE DEF b
        <3> QED BY <1>3, <3>1 DEF ReflectField
    <2>2. Scalar(t, g, b) = IF Given(g, b) = <<>> THEN New[t][g.name] ELSE Last(Given(g, b))
        BY Zenon DEF Scalar
    <2>3. New[t][g.name] = 0 /\ Last(<<id>>) = id /\ <<id>> # <<>>
        BY <1>1, <1>3 DEF NewGenesisState, Last
    <2> HIDE DEF b, id
    <2> QED BY <1>7, <2>1, <2>2, <2>3
<1>10. Reflect(t, b)
       = [name \in {"tasks", "next_task_id"} |-> ReflectField(t, Described(t, name), b)]
    <2>1. {h.name : h \in Descriptor[t]} = {"tasks", "next_task_id"}
        BY <1>1, <1>3
    <2> QED BY <2>1, ReflectIs, Zenon
<1>11. Described(t, "tasks") = f /\ Described(t, "next_task_id") = g
    BY <1>1, <1>3 DEF Described
<1>12. Meaning(t, m) = m
    BY <1>2 DEF Meaning
<1> HIDE DEF b, id
<1>13. Reflect(t, b) = m
    BY <1>2, <1>8, <1>9, <1>10, <1>11
<1> QED BY <1>12, <1>13 DEF Reflects, b

LEMMA AllReflect ==
    ASSUME NEW t \in Coded, NEW m \in Struct[t]
    PROVE  Reflects(t, m)
<1>1. /\ Struct["QueryTaskResponse"] = QueryTaskResponse
      /\ Struct["QueryListTasksRequest"] = QueryListTasksRequest
      /\ Struct["QueryListTasksResponse"] = QueryListTasksResponse
      /\ Struct["GenesisState"] = GenesisState
    BY DEF Struct
<1>2. t \in (FlatTypes \ {"PageRequest", "PageResponse"})
           \cup {"QueryTaskResponse", "QueryListTasksRequest", "QueryListTasksResponse",
                 "GenesisState"}
    BY DEF Coded, Struct, Empty, FlatTypes
<1> QED BY <1>1, <1>2, FlatReflects, QueryTaskResponseReflects, QueryListTasksRequestReflects,
           QueryListTasksResponseReflects, GenesisStateReflects

\* Whatever Marshal writes is whole fields.
LEMMA MarshalGives ==
    ASSUME NEW t \in Coded, NEW m \in Struct[t], NEW f \in Descriptor[t]
    PROVE  f.num \in DOMAIN Cases[t] /\ \E g : Gives(f, Marshal(t, m), g)
<1>0. 1 \in FieldNumber /\ 2 \in FieldNumber
    BY FieldNumbers
<1>1. CASE t \in FlatTypes
    <2>1. Flat(t) /\ Describes(t) /\ Encoded(t, m) = Marshal(t, m)
        BY <1>1, AllFlat, FlatDescribed DEF Encoded, Coded
    <2>2. \E g : Gives(f, Encoded(t, m), g)
        BY <2>1, FlatGives
    <2> QED BY <2>1, <2>2 DEF Describes
<1>2. CASE t = "QueryTaskResponse"
    <2>1. m.task \in Task /\ f.num = 1 /\ DOMAIN Cases[t] = {1}
        BY <1>2, DescriptorOf DEF Struct, QueryTaskResponse, QueryFileDescriptor, msgField,
           FieldOf, Cases, UnmarshalQueryTaskResponse
    <2>2. Marshal(t, m) = appendPage(1, MarshalTask(m.task)) /\ MarshalTask(m.task) \in Buffer
        BY <1>2, <2>1, TaskSize DEF Marshal, Empty, MarshalQueryTaskResponse, appendPage
    <2>3. \E g : Gives(f, appendPage(1, MarshalTask(m.task)), g)
        BY <1>0, <2>2, PageGives
    <2> QED BY <2>1, <2>2, <2>3
<1>3. CASE t = "QueryListTasksRequest"
    <2>1. m.pagination \in Optional(PageRequest) /\ f.num = 1 /\ DOMAIN Cases[t] = {1}
        BY <1>3, DescriptorOf DEF Struct, QueryListTasksRequest, QueryFileDescriptor, msgField,
           FieldOf, Cases, UnmarshalQueryListTasksRequest
    <2> DEFINE bz == PageRequestBz(m.pagination)
    <2>2. Marshal(t, m) = appendPage(1, bz) /\ bz \in Buffer
        BY <1>3, <2>1, PageBz DEF Marshal, Empty, MarshalQueryListTasksRequest
    <2>3. \E g : Gives(f, appendPage(1, bz), g)
        <3> HIDE DEF bz
        <3> QED BY <1>0, <2>2, PageGives
    <2> QED BY <2>1, <2>2, <2>3
<1>4. CASE t = "QueryListTasksResponse"
    <2>1. m.pagination \in Optional(PageResponse) /\ m.tasks \in Seq(Task)
        BY <1>4 DEF Struct, QueryListTasksResponse
    <2>2. f.num \in {1, 2} /\ DOMAIN Cases[t] = {1, 2}
        BY <1>4, DescriptorOf DEF QueryFileDescriptor, msgField, repeatedMsgField, FieldOf,
           Cases, UnmarshalQueryListTasksResponse
    <2> DEFINE bz == PageResponseBz(m.pagination)
               list == appendTasks(1, m.tasks)
    <2>3. Marshal(t, m) = list \o appendPage(2, bz) /\ bz \in Buffer
        BY <1>4, <2>1, PageBz DEF Marshal, Empty, MarshalQueryListTasksResponse
    <2>4. (\E g : Gives(f, list, g)) /\ \E g : Gives(f, appendPage(2, bz), g)
        <3>1. \E g : Gives(f, list, g)
            BY <1>0, <2>1, TasksGive
        <3> HIDE DEF bz
        <3> QED BY <1>0, <2>3, <3>1, PageGives
    <2>5. PICK g, h : Gives(f, list, g) /\ Gives(f, appendPage(2, bz), h)
        BY <2>4
    <2> HIDE DEF list, bz
    <2>6. Gives(f, list \o appendPage(2, bz), g \o h)
        BY <2>5, GivesJoined
    <2> QED BY <2>2, <2>3, <2>6
<1>5. CASE t = "GenesisState"
    <2>1. m.next_task_id \in Nat /\ m.tasks \in Seq(Task)
        BY <1>5 DEF Struct, GenesisState
    <2>2. f.num \in {1, 2} /\ DOMAIN Cases[t] = {1, 2}
        BY <1>5, DescriptorOf DEF GenesisFileDescriptor, uint64Field, repeatedMsgField, FieldOf,
           Cases, UnmarshalGenesisState
    <2> DEFINE id == m.next_task_id
               list == appendTasks(1, m.tasks)
    <2>3. Marshal(t, m) = list \o appendUint64(2, id)
        BY <1>5 DEF Marshal, Empty, MarshalGenesisState
    <2>4. (\E g : Gives(f, list, g)) /\ \E g : Gives(f, appendUint64(2, id), g)
        BY <1>0, <2>1, TasksGive, Uint64Gives
    <2>5. PICK g, h : Gives(f, list, g) /\ Gives(f, appendUint64(2, id), h)
        BY <2>4
    <2> HIDE DEF list, id
    <2>6. Gives(f, list \o appendUint64(2, id), g \o h)
        BY <2>5, GivesJoined
    <2> QED BY <2>2, <2>3, <2>6
<1>6. t \in FlatTypes \cup {"QueryTaskResponse", "QueryListTasksRequest",
                            "QueryListTasksResponse", "GenesisState"}
    BY DEF Coded, Struct, Empty, FlatTypes
<1> QED BY <1>1, <1>2, <1>3, <1>4, <1>5, <1>6

\* Buffers that give the same for each field mean the same.
LEMMA AlikeReflect ==
    ASSUME NEW t, NEW a, NEW b, \A f \in Descriptor[t] : Given(f, a) = Given(f, b)
    PROVE  Reflect(t, a) = Reflect(t, b)
<1> DEFINE N == {f.name : f \in Descriptor[t]}
<1>1. ASSUME NEW name \in N
      PROVE  ReflectField(t, Described(t, name), a) = ReflectField(t, Described(t, name), b)
    <2>1. Given(Described(t, name), a) = Given(Described(t, name), b)
        BY DescribedIs
    <2> QED BY <2>1, Zenon DEF ReflectField, Scalar
<1>2. /\ Reflect(t, a) = [name \in N |-> ReflectField(t, Described(t, name), a)]
      /\ Reflect(t, b) = [name \in N |-> ReflectField(t, Described(t, name), b)]
    BY ReflectIs
<1> HIDE DEF N
<1> QED BY <1>1, <1>2

LEMMA PaddedReflect ==
    ASSUME NEW t \in Coded, NEW m \in Struct[t], NEW a \in Padding, NEW z \in Padding
    PROVE  Reflect(t, (a \o Marshal(t, m)) \o z) = Reflect(t, Marshal(t, m))
<1> DEFINE b == Marshal(t, m)
<1>1. ASSUME NEW f \in Descriptor[t] PROVE Given(f, (a \o b) \o z) = Given(f, b)
    <2>1. f.num \in DOMAIN Cases[t]
        BY MarshalGives
    <2>2. PICK g : Gives(f, b, g)
        BY MarshalGives
    <2>3. Gives(f, a, <<>>) /\ Gives(f, z, <<>>)
        BY <2>1, UnknownGives
    <2> HIDE DEF b
    <2>4. Gives(f, a \o b, <<>> \o g)
        BY <2>2, <2>3, GivesJoined
    <2>5. Gives(f, (a \o b) \o z, (<<>> \o g) \o <<>>)
        BY <2>3, <2>4, GivesJoined
    <2>6. <<>> \o g = g /\ g \o <<>> = g
        BY <2>2, ConcatEmptySeq DEF Gives
    <2>7. Gives(f, (a \o b) \o z, g)
        BY <2>5, <2>6
    <2> QED BY <2>2, <2>7, GivesAll
<1> HIDE DEF b
<1>2. Reflect(t, (a \o b) \o z) = Reflect(t, b)
    BY <1>1, AlikeReflect
<1> QED BY <1>2 DEF b

LEMMA EmptyReflect ==
    ASSUME NEW t \in Empty, NEW b
    PROVE  Reflect(t, b) = <<>> /\ Meaning(t, <<>>) = <<>>
<1>1. Descriptor[t] = {}
    BY DescriptorOf DEF Empty, TxFileDescriptor
<1>2. Reflect(t, b) = [name \in {} |-> ReflectField(t, Described(t, name), b)]
    <2>1. {f.name : f \in Descriptor[t]} = {}
        BY <1>1
    <2> QED BY <2>1, ReflectIs, Zenon
<1>3. DOMAIN <<>> = {}
    OBVIOUS
<1>4. \A g : DOMAIN g = {} /\ g = [x \in {} |-> g[x]] => g = <<>>
    BY <1>3
<1> QED BY <1>2, <1>3 DEF Meaning

-----------------------------------------------------------------------------
(* Descriptors, codec and signers.                                          *)

\* Around what was sent there are unknown fields.
Carried ==
    type \notin Empty /\ fault = "unknown" =>
        \E a \in Padding, z \in Padding : wire = (a \o Marshal(type, sent)) \o z

LEMMA SendCarries ==
    ASSUME NEW t \in DOMAIN Message, NEW m \in Message[t], NEW ph, Send(t, m, ph)
    PROVE  Carried'
<1> SUFFICES ASSUME t \notin Empty, fault' = "unknown"
             PROVE  \E a \in Padding, z \in Padding : wire' = (a \o Marshal(t, m)) \o z
    BY DEF Carried, Send
<1>1. m \in Struct[t] /\ t \in DOMAIN Struct \ {"PageRequest", "PageResponse"}
    BY MessageAssumption
<1>2. PICK bz \in Written(t, m) : \E a \in Arrivals(bz) : wire' = a.b /\ fault' = a.fault
    BY DEF Send
<1>3. PICK a \in Arrivals(bz) : wire' = a.b /\ fault' = a.fault
    BY <1>2
<1>4. bz = Marshal(t, m) /\ bz \in Buffer
    BY <1>1, WrittenIs
<1>5. PICK u \in Unknown : a.b = u \o bz \/ a.b = bz \o u
    BY <1>3 DEF Arrivals
<1>6. u \in Buffer /\ u \in Padding /\ <<>> \in Padding
    BY UnknownAssumption DEF Padding
<1>7. u \o bz = (u \o bz) \o <<>> /\ bz \o u = (<<>> \o bz) \o u
    BY <1>4, <1>6, Joined, Lengths
<1> QED BY <1>3, <1>4, <1>5, <1>6, <1>7

LEMMA CarriedStep ==
    ASSUME SentInv, Carried, [Next]_vars
    PROVE  Carried'
<1>1. CASE UNCHANGED <<type, sent, wire, fault>>
    BY <1>1 DEF Carried
<1>2. ASSUME NEW name \in DOMAIN Methods, NEW in \in Message[Methods[name].request],
             Invoke(name, in)
      PROVE  Carried'
    <2>1. Methods[name].request \in DOMAIN Message /\ Send(Methods[name].request, in, "request")
        BY <1>2, MethodTypes DEF Invoke
    <2> QED BY <2>1, SendCarries
<1>3. ASSUME NEW t \in Saved, NEW m \in Message[t], Save(t, m) PROVE Carried'
    <2>1. t \in DOMAIN Message /\ Send(t, m, "saved")
        BY <1>3, MessageAssumption DEF Saved, Struct, Save
    <2> QED BY <2>1, SendCarries
<1>4. ASSUME phase = "request", NEW out \in Message[Methods[method].response], Handle(out)
      PROVE  Carried'
    <2>1. Methods[method].response \in DOMAIN Message
        BY <1>4, MethodTypes DEF SentInv, Calling
    <2>2. Send(Methods[method].response, out, "response")
        BY <1>4 DEF Handle
    <2> QED BY <2>1, <2>2, SendCarries
<1> QED BY <1>1, <1>2, <1>3, <1>4 DEF Next, Answer, Decode, HandlerFails, Return, vars

LEMMA AlwaysCarried == Spec => []Carried
<1>1. Init => Carried
    BY DEF Init, Carried
<1>2. SentInv /\ Carried /\ [Next]_vars => Carried'
    BY CarriedStep
<1> QED BY <1>1, <1>2, AlwaysSentTyped, PTL DEF Spec

LEMMA AgreeWhenRead ==
    ASSUME ReadInv, Carried
    PROVE  DescriptorsAgree
<1> SUFFICES ASSUME Decoded PROVE Reflect(type, wire) = Meaning(type, msg)
    BY DEF DescriptorsAgree
<1>1. /\ Arriving(type, sent, msg, wire, buf, fault) /\ buf = <<>>
      /\ type \in DOMAIN Message /\ sent \in Struct[type]
    BY DEF ReadInv, SentInv, SentTyped, Decoded
<1>2. CASE type \in Empty
    <2>1. msg = <<>>
        BY <1>1, <1>2 DEF Arriving, Absent, Struct, Empty
    <2> QED BY <1>2, <2>1, EmptyReflect
<1>3. CASE type \notin Empty
    <2>1. type \in Coded /\ msg \in Struct[type] /\ Place(type, sent, msg, wire, <<>>, fault)
        BY <1>1, <1>3, CodedOrEmpty DEF Arriving
    <2>2. CASE fault # "unknown"
        <3>1. wire = Marshal(type, msg) \o <<>> /\ Marshal(type, msg) \in Buffer
            BY <2>1, <2>2, MessagesFit DEF Place, Fits, Coded, Empty
        <3>2. wire = Marshal(type, msg)
            BY <3>1, Lengths
        <3> QED BY <2>1, <3>2, AllReflect DEF Reflects
    <2>3. CASE fault = "unknown"
        <3>1. PICK a \in Padding, z \in Padding : wire = (a \o Marshal(type, sent)) \o z
            BY <1>3, <2>3 DEF Carried
        <3>2. Reflect(type, wire) = Meaning(type, sent)
            BY <1>1, <2>1, <3>1, PaddedReflect, AllReflect DEF Reflects
        <3>3. Meaning(type, msg) = Meaning(type, sent)
            BY <2>3, ReadIsSent DEF DecodedIsSent
        <3> QED BY <3>2, <3>3
    <2> QED BY <2>2, <2>3
<1> QED BY <1>2, <1>3

\* The descriptors of proto_descriptor.go, from which the SDK decodes, read every
\* buffer that the codec decodes as the codec does: cut at the end of a field and
\* among unknown fields too.
THEOREM DescriptorsAlwaysAgree == Spec => []DescriptorsAgree
<1>1. ReadInv /\ Carried => DescriptorsAgree
    BY AgreeWhenRead
<1> QED BY <1>1, AlwaysRead, AlwaysCarried, PTL

\* Whoever the SDK takes for the signer of a message by its descriptor
\* (proto_descriptor.go, signerOpts) is the account in whose name the handlers of
\* msg_server.go act on the message that the codec decoded.
THEOREM SignersAct == Spec => []SignerIsActor
<1>1. ReadInv /\ DescriptorsAgree => SignerIsActor
    <2> SUFFICES ASSUME ReadInv, DescriptorsAgree, Decoded, type \in DOMAIN SignerField
                 PROVE  Reflect(type, wire)[SignerField[type]] = Actor(type, msg)
        BY DEF SignerIsActor
    <2>1. Reflect(type, wire) = Meaning(type, msg)
        BY DEF DescriptorsAgree
    <2>2. type \in {"MsgCreateTask", "MsgAssignTask", "MsgCompleteTask"}
        BY DEF SignerField
    <2>3. msg \in Struct[type]
        BY <2>2 DEF ReadInv, Decoded, Arriving, Empty
    <2>4. CASE type = "MsgCreateTask"
        <3>1. msg \in MsgCreateTask /\ SignerField[type] = "creator" /\ Actor(type, msg) = msg.creator
            BY <2>3, <2>4 DEF Struct, SignerField, Actor
        <3>2. Meaning(type, msg) = msg
            BY <3>1 DEF Meaning, MsgCreateTask
        <3> QED BY <2>1, <3>1, <3>2
    <2>5. CASE type = "MsgAssignTask"
        <3>1. msg \in MsgAssignTask /\ SignerField[type] = "creator" /\ Actor(type, msg) = msg.creator
            BY <2>3, <2>5 DEF Struct, SignerField, Actor
        <3>2. Meaning(type, msg) = msg
            BY <3>1 DEF Meaning, MsgAssignTask
        <3> QED BY <2>1, <3>1, <3>2
    <2>6. CASE type = "MsgCompleteTask"
        <3>1. /\ msg \in MsgCompleteTask /\ SignerField[type] = "assignee"
              /\ Actor(type, msg) = msg.assignee
            BY <2>3, <2>6 DEF Struct, SignerField, Actor
        <3>2. Meaning(type, msg) = msg
            BY <3>1 DEF Meaning, MsgCompleteTask
        <3> QED BY <2>1, <3>1, <3>2
    <2> QED BY <2>2, <2>4, <2>5, <2>6
<1> QED BY <1>1, AlwaysRead, DescriptorsAlwaysAgree, PTL

=============================================================================
