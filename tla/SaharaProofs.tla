---------------------------- MODULE SaharaProofs ----------------------------
(***************************************************************************)
(* What holds of the handshake for every loader, every number of requests  *)
(* and tries: the reads take whole words of packets that are there, the    *)
(* handshake is skipped for Firehose only unless a read has gone astray,   *)
(* and the chunks of a first try are the ones the device asked for.        *)
(***************************************************************************)
EXTENDS SaharaSession, NatRecursion, SequenceTheorems

-----------------------------------------------------------------------------
(* The words of a sequence of packets *)

\* f holds the words of the first packets of s.
Counts(s, f) ==
  /\ f \in [0..Len(s) -> Nat] /\ f[0] = 0
  /\ \A k \in 1..Len(s) : f[k] = f[k - 1] + Size(s[k])

LEMMA SizeType ==
  ASSUME NEW p \in Packet PROVE Size(p) \in Nat /\ Size(p) >= 2
<1>1. p.n \in Nat /\ TextWords \in Nat /\ TextWords >= 12
  BY SaharaAssumption DEF Packet
<1> QED  BY <1>1 DEF Size

LEMMA CountsExist ==
  ASSUME NEW s \in Seq(Packet) PROVE \E f : Counts(s, f)
<1> DEFINE n == Len(s)
           g == [x \in (1..n) \X Nat |-> x[2] + Size(s[x[1]])]
<1>1. n \in Nat
  BY LenProperties
<1>2. \A k \in 1..n : Size(s[k]) \in Nat
  BY SizeType, ElementOfSeq
<1>3. ASSUME NEW k \in 1..n, NEW w \in Nat PROVE w + Size(s[k]) \in Nat
  <2>1. ASSUME NEW x \in Nat, NEW y \in Nat PROVE x + y \in Nat
    OBVIOUS
  <2> QED  BY <1>2, <2>1
<1>4. g \in [(1..n) \X Nat -> Nat]
  BY <1>3
<1>5. \A k \in 1..n, w \in Nat : g[<<k, w>>] = w + Size(s[k])
  OBVIOUS
<1>6. Goes(Nat, 0, n, g)
  <2> HIDE DEF g, n
  <2> QED  BY <1>1, <1>4, Recursion
<1>7. PICK f \in [0..n -> Nat] : f[0] = 0 /\ \A k \in 1..n : f[k] = g[<<k, f[k - 1]>>]
  BY <1>6 DEF Goes
<1>8. ASSUME NEW k \in 1..n PROVE f[k] = f[k - 1] + Size(s[k])
  <2>1. k - 1 \in 0..n
    BY <1>1
  <2>2. f[k - 1] \in Nat
    BY <1>7, <2>1
  <2> QED  BY <1>5, <1>7, <2>2
<1>9. Counts(s, f)
  <2> HIDE DEF g
  <2> QED  BY <1>7, <1>8 DEF Counts
<1> QED  BY <1>9

\* Words is what any such count ends with.
LEMMA WordsAreCounted ==
  ASSUME NEW s \in Seq(Packet), NEW f, Counts(s, f) PROVE Words(s) = f[Len(s)]
<1> DEFINE n == Len(s)
           Eq(h) == h = [k \in 0..n |-> IF k = 0 THEN 0 ELSE h[k - 1] + Size(s[k])]
           c == CHOOSE h : Eq(h)
<1>1. n \in Nat
  BY LenProperties
<1>2. \A k \in 0..n : k # 0 => k \in 1..n
  BY <1>1
<1>3. f = [k \in 0..n |-> IF k = 0 THEN 0 ELSE f[k - 1] + Size(s[k])]
  <2>1. f = [k \in 0..n |-> f[k]]
    BY DEF Counts
  <2>2. \A k \in 0..n : f[k] = IF k = 0 THEN 0 ELSE f[k - 1] + Size(s[k])
    BY <1>2 DEF Counts
  <2> QED  BY <2>1, <2>2
<1>4. Eq(c)
  <2>1. \E h : Eq(h)
    BY <1>3
  <2> QED  BY <2>1
<1>5. Words(s) = c[n]
  BY DEF Words
<1> DEFINE S == {k \in Nat : k \in 0..n => c[k] = f[k]}
<1>6. 0 \in S
  <2>1. 0 \in 0..n
    BY <1>1
  <2>2. c[0] = 0
    <3> HIDE DEF c, n
    <3> QED  BY <1>4, <2>1
  <2> HIDE DEF c, n
  <2> QED  BY <2>2 DEF Counts
<1>7. ASSUME NEW k \in Nat, k \in S PROVE k + 1 \in S
  <2> SUFFICES ASSUME k + 1 \in 0..n PROVE c[k + 1] = f[k + 1]
    OBVIOUS
  <2>1. k \in 0..n /\ k + 1 \in 1..n /\ k + 1 # 0 /\ (k + 1) - 1 = k
    BY <1>1
  <2>2. c[k] = f[k]
    BY <1>7, <2>1
  <2>3. c[k + 1] = c[k] + Size(s[k + 1])
    <3> HIDE DEF c, n
    <3>1. c[k + 1] = IF k + 1 = 0 THEN 0 ELSE c[(k + 1) - 1] + Size(s[k + 1])
      BY <1>4
    <3> QED  BY <2>1, <3>1
  <2>4. f[k + 1] = f[k] + Size(s[k + 1])
    <3>1. f[k + 1] = f[(k + 1) - 1] + Size(s[k + 1])
      BY <2>1 DEF Counts
    <3> QED  BY <2>1, <3>1
  <2> HIDE DEF c, n
  <2> QED  BY <2>2, <2>3, <2>4
<1>8. n \in S
  <2> HIDE DEF S
  <2> QED  BY <1>1, <1>6, <1>7, Induction
<1>9. n \in 0..n
  BY <1>1
<1> QED  BY <1>5, <1>8, <1>9

\* The words of the first k packets.
LEMMA PrefixWords ==
  ASSUME NEW s \in Seq(Packet), NEW f, Counts(s, f), NEW k \in 0..Len(s)
  PROVE  Words(SubSeq(s, 1, k)) = f[k]
<1> DEFINE t == SubSeq(s, 1, k)
           h == [j \in 0..k |-> f[j]]
<1>1. Len(s) \in Nat /\ k \in Nat
  BY LenProperties
<1>2. t \in Seq(Packet) /\ Len(t) = k /\ \A j \in 1..k : t[j] = s[j]
  <2>1. 1 \in 1..(Len(s) + 1) /\ k \in 0..Len(s)
    BY <1>1
  <2>2. Len(t) = IF 1 <= k THEN k - 1 + 1 ELSE 0
    BY <1>1, SubSeqProperties
  <2>3. Len(t) = k
    BY <1>1, <2>2
  <2>4. t \in Seq(Packet)
    BY <1>1, SubSeqProperties
  <2>5. ASSUME NEW j \in 1..k PROVE t[j] = s[j]
    <3>1. j \in 1..(k - 1 + 1) /\ 1 + j - 1 = j /\ 1 <= k
      BY <1>1
    <3>2. t[j] = s[1 + j - 1]
      BY <1>1, <3>1, SubSeqProperties
    <3> QED  BY <3>1, <3>2
  <2> QED  BY <2>3, <2>4, <2>5
<1>3. Counts(t, h)
  <2>1. ASSUME NEW j \in 1..k PROVE h[j] = h[j - 1] + Size(t[j])
    <3>1. j \in 0..k /\ j - 1 \in 0..k /\ j \in 1..Len(s)
      BY <1>1
    <3>2. f[j] = f[j - 1] + Size(s[j])
      BY <3>1 DEF Counts
    <3> QED  BY <1>2, <3>1, <3>2
  <2>2. h \in [0..k -> Nat] /\ h[0] = 0
    <3>1. 0 \in 0..k /\ \A j \in 0..k : j \in 0..Len(s)
      BY <1>1
    <3> QED  BY <3>1 DEF Counts
  <2> HIDE DEF h, t
  <2> QED  BY <1>2, <2>1, <2>2 DEF Counts
<1>4. k \in 0..k
  BY <1>1
<1>5. Words(t) = h[k]
  <2> HIDE DEF h, t
  <2> QED  BY <1>2, <1>3, WordsAreCounted
<1> QED  BY <1>4, <1>5

LEMMA WordsType ==
  ASSUME NEW s \in Seq(Packet)
  PROVE  Words(s) \in Nat /\ (s = <<>> => Words(s) = 0)
<1>1. PICK f : Counts(s, f)
  BY CountsExist
<1>2. Len(s) \in Nat /\ Len(s) \in 0..Len(s)
  BY LenProperties
<1>3. Words(s) = f[Len(s)]
  BY <1>1, WordsAreCounted
<1>4. s = <<>> => Len(s) = 0
  OBVIOUS
<1> QED  BY <1>1, <1>2, <1>3, <1>4 DEF Counts

LEMMA HeadFits ==
  ASSUME NEW s \in Seq(Packet), s # <<>> PROVE Size(Head(s)) <= Words(s)
<1>1. PICK f : Counts(s, f)
  BY CountsExist
<1>2. Len(s) \in Nat /\ 1 \in 1..Len(s) /\ Head(s) = s[1]
  BY LenProperties, EmptySeq
<1>3. \A k \in 1..Len(s) : Size(s[k]) \in Nat
  BY SizeType, ElementOfSeq
<1>4. f[1] = Size(s[1])
  <2>1. f[1] = f[1 - 1] + Size(s[1])
    BY <1>1, <1>2 DEF Counts
  <2>2. f[0] = 0 /\ 1 - 1 = 0
    BY <1>1 DEF Counts
  <2> QED  BY <1>2, <1>3, <2>1, <2>2
<1> DEFINE S == {k \in Nat : k + 1 \in 1..Len(s) => f[k + 1] >= f[1]}
<1>5. 0 \in S
  <2>1. f[1] \in Nat
    BY <1>2, <1>3, <1>4
  <2> QED  BY <2>1
<1>6. ASSUME NEW k \in Nat, k \in S PROVE k + 1 \in S
  <2> SUFFICES ASSUME k + 2 \in 1..Len(s) PROVE f[k + 2] >= f[1]
    OBVIOUS
  <2>1. k + 1 \in 1..Len(s) /\ k + 1 \in 0..Len(s) /\ 1 \in 0..Len(s) /\ (k + 2) - 1 = k + 1
    BY <1>2
  <2>2. f[k + 1] >= f[1]
    BY <1>6, <2>1
  <2>3. f[k + 2] = f[(k + 2) - 1] + Size(s[k + 2])
    BY <1>1 DEF Counts
  <2>4. f[k + 1] \in Nat /\ f[1] \in Nat /\ Size(s[k + 2]) \in Nat
    BY <1>1, <1>3, <2>1 DEF Counts
  <2>5. ASSUME NEW x \in Nat, NEW y \in Nat, NEW z \in Nat, x >= y PROVE x + z >= y
    BY <2>5
  <2> QED  BY <2>1, <2>2, <2>3, <2>4, <2>5
<1>7. Len(s) - 1 \in S
  <2>1. Len(s) - 1 \in Nat
    BY <1>2
  <2> HIDE DEF S
  <2> QED  BY <1>5, <1>6, <2>1, Induction
<1>8. f[Len(s)] >= f[1]
  BY <1>2, <1>7
<1>9. Words(s) = f[Len(s)]
  BY <1>1, WordsAreCounted
<1>10. f[Len(s)] \in Nat /\ f[1] \in Nat
  <2>1. Len(s) \in 0..Len(s) /\ 1 \in 0..Len(s)
    BY <1>2
  <2> QED  BY <1>1, <2>1 DEF Counts
<1> QED  BY <1>2, <1>4, <1>8, <1>9, <1>10

\* The words of one packet.
LEMMA OnePacket ==
  ASSUME NEW s \in Seq(Packet), Len(s) = 1 PROVE Words(s) = Size(Head(s))
<1>1. PICK f : Counts(s, f)
  BY CountsExist
<1>2. 1 \in 1..Len(s) /\ Head(s) = s[1] /\ 1 - 1 = 0 /\ s # <<>>
  BY EmptySeq
<1>3. f[1] = f[1 - 1] + Size(s[1]) /\ f[0] = 0
  BY <1>1, <1>2 DEF Counts
<1>4. Size(s[1]) \in Nat
  BY <1>2, SizeType, ElementOfSeq
<1>5. Words(s) = f[1]
  BY <1>1, WordsAreCounted
<1> QED  BY <1>2, <1>3, <1>4, <1>5

-----------------------------------------------------------------------------
(* What a read leaves *)

PortOK(s, o) ==
  /\ s \in Seq(Packet) /\ o \in Nat
  /\ s = <<>> => o = 0
  /\ s # <<>> => o < Size(Head(s))

InputOK ==
  /\ rx \in Seq(Packet) /\ off \in Nat
  /\ rx = <<>> => off = 0
  /\ rx # <<>> => off < Size(Head(rx))

\* What has been read is taken from the front.
FromFront == \A j \in 1..Len(rx') : \E i \in 1..Len(rx) : rx'[j] = rx[i]

\* The port after a read of n words that are there.
LEMMA TakeLeaves ==
  ASSUME InputOK, NEW n \in Nat, n <= Avail, Take(n) PROVE InputOK' /\ FromFront
<1>1. PICK k \in 0..Len(rx) :
        LET w == Words(SubSeq(rx, 1, k)) IN
        /\ w <= off + n
        /\ k < Len(rx) => off + n < w + Size(rx[k + 1])
        /\ rx' = SubSeq(rx, k + 1, Len(rx))
        /\ off' = off + n - w
  BY DEF Take
<1>2. rx \in Seq(Packet) /\ off \in Nat /\ Len(rx) \in Nat
  BY LenProperties DEF InputOK
<1>3. PICK f : Counts(rx, f)
  BY <1>2, CountsExist
<1> DEFINE w == Words(SubSeq(rx, 1, k))
<1>4. w = f[k] /\ f[k] \in Nat /\ Words(rx) = f[Len(rx)]
  BY <1>2, <1>3, PrefixWords, WordsAreCounted DEF Counts
<1>5. w \in Nat /\ w <= off + n /\ off' = off + n - w
  BY <1>1, <1>4
<1>6. off' \in Nat
  BY <1>2, <1>5
<1>7. /\ rx' \in Seq(Packet) /\ Len(rx') = Len(rx) - k
      /\ \A j \in 1..Len(rx') : rx'[j] = rx[k + j]
  <2>1. rx' = SubSeq(rx, k + 1, Len(rx)) /\ k + 1 \in 1..(Len(rx) + 1) /\ Len(rx) \in 0..Len(rx)
    BY <1>1, <1>2
  <2>2. /\ rx' \in Seq(Packet)
        /\ Len(rx') = IF k + 1 <= Len(rx) THEN Len(rx) - (k + 1) + 1 ELSE 0
        /\ \A j \in 1..(Len(rx) - (k + 1) + 1) : rx'[j] = rx[(k + 1) + j - 1]
    BY <1>2, <2>1, SubSeqProperties
  <2>3. Len(rx') = Len(rx) - k /\ Len(rx) - (k + 1) + 1 = Len(rx) - k
    BY <1>2, <2>2
  <2>4. ASSUME NEW j \in 1..Len(rx') PROVE rx'[j] = rx[k + j]
    <3>1. (k + 1) + j - 1 = k + j
      BY <1>2, <2>3
    <3> QED  BY <2>2, <2>3, <3>1
  <2> QED  BY <2>2, <2>3, <2>4
<1>8. FromFront
  <2> SUFFICES ASSUME NEW j \in 1..Len(rx') PROVE \E i \in 1..Len(rx) : rx'[j] = rx[i]
    BY DEF FromFront
  <2>1. k + j \in 1..Len(rx)
    BY <1>2, <1>7
  <2> QED  BY <1>7, <2>1
<1>9. CASE k = Len(rx)
  <2>1. off + n <= w
    <3>1. n <= f[Len(rx)] - off
      BY <1>4 DEF Avail
    <3> HIDE DEF w
    <3> QED  BY <1>2, <1>4, <1>9, <3>1
  <2>2. off' = 0
    <3> HIDE DEF w
    <3> QED  BY <1>2, <1>5, <2>1
  <2>3. rx' = <<>>
    BY <1>2, <1>7, <1>9, EmptySeq
  <2> QED  BY <1>6, <1>7, <1>8, <2>2, <2>3 DEF InputOK
<1>10. CASE k < Len(rx)
  <2>1. Len(rx') > 0 /\ 1 \in 1..Len(rx') /\ rx' # <<>>
    <3>1. Len(rx') > 0
      BY <1>2, <1>7, <1>10
    <3>2. Len(rx') \in Nat
      BY <1>7, LenProperties
    <3> QED  BY <3>1, <3>2
  <2>2. Head(rx') = rx[k + 1]
    BY <1>7, <2>1
  <2>3. k + 1 \in 1..Len(rx) /\ Size(rx[k + 1]) \in Nat
    <3>1. k + 1 \in 1..Len(rx)
      BY <1>2, <1>10
    <3> QED  BY <1>2, <3>1, SizeType, ElementOfSeq
  <2>4. off + n < w + Size(rx[k + 1])
    BY <1>1, <1>10
  <2>5. off' < Size(rx[k + 1])
    <3> HIDE DEF w
    <3> QED  BY <1>2, <1>5, <2>3, <2>4
  <2> QED  BY <1>6, <1>7, <1>8, <2>1, <2>2, <2>5 DEF InputOK
<1> QED  BY <1>2, <1>9, <1>10

\* A packet that is alone and of which nothing has been read is read whole.
LEMMA TakeWhole ==
  ASSUME InputOK, Len(rx) = 1, off = 0, Take(Size(Head(rx))) PROVE rx' = <<>> /\ off' = 0
<1>1. PICK k \in 0..Len(rx) :
        LET w == Words(SubSeq(rx, 1, k)) IN
        /\ w <= off + Size(Head(rx))
        /\ k < Len(rx) => off + Size(Head(rx)) < w + Size(rx[k + 1])
        /\ rx' = SubSeq(rx, k + 1, Len(rx))
        /\ off' = off + Size(Head(rx)) - w
  BY DEF Take
<1>2. rx \in Seq(Packet) /\ rx # <<>> /\ Head(rx) = rx[1] /\ Head(rx) \in Packet
  <2>1. rx \in Seq(Packet)
    BY DEF InputOK
  <2>2. rx # <<>>
    BY EmptySeq
  <2> QED  BY <2>1, <2>2, ElementOfSeq
<1>3. Size(Head(rx)) \in Nat /\ Words(rx) = Size(Head(rx))
  BY <1>2, SizeType, OnePacket
<1>4. PICK f : Counts(rx, f)
  BY <1>2, CountsExist
<1>5. CASE k = 0
  <2>1. Words(SubSeq(rx, 1, k)) = 0
    BY <1>2, <1>4, <1>5, PrefixWords DEF Counts
  <2>2. off + Size(Head(rx)) < Words(SubSeq(rx, 1, k)) + Size(rx[1])
    BY <1>1, <1>5
  <2>3. FALSE
    BY <1>2, <1>3, <2>1, <2>2
  <2> QED  BY <2>3
<1>6. CASE k = 1
  <2>1. Words(SubSeq(rx, 1, k)) = Size(Head(rx))
    <3>1. Words(SubSeq(rx, 1, k)) = f[k]
      BY <1>2, <1>4, PrefixWords
    <3>2. Words(rx) = f[Len(rx)]
      BY <1>2, <1>4, WordsAreCounted
    <3> QED  BY <1>3, <1>6, <3>1, <3>2
  <2>2. off' = 0
    BY <1>1, <1>3, <2>1
  <2>3. rx' = SubSeq(rx, 2, 1)
    BY <1>1, <1>6
  <2>4. rx' = <<>>
    <3>1. Len(SubSeq(rx, 2, 1)) = 0 /\ SubSeq(rx, 2, 1) \in Seq(Packet)
      BY <1>2, SubSeqProperties
    <3> QED  BY <2>3, <3>1, EmptySeq
  <2> QED  BY <2>2, <2>4
<1> QED  BY <1>5, <1>6

LEMMA TakeAllLeaves ==
  ASSUME InputOK, TakeAll PROVE InputOK' /\ FromFront
<1>1. rx' = <<>> /\ off' = 0 /\ <<>> \in Seq(Packet) /\ Len(<<>>) = 0
  BY DEF TakeAll
<1> QED  BY <1>1 DEF InputOK, FromFront

LEMMA NothingRead ==
  ASSUME InputOK, UNCHANGED input PROVE InputOK' /\ FromFront
<1> QED  BY DEF InputOK, FromFront, input

LEMMA PacketType ==
  ASSUME NEW k \in PacketKinds, NEW a \in Nat, NEW n \in Nat
  PROVE  Pkt(k, a, n) \in Packet
<1> QED  BY DEF Pkt, Packet

\* A packet that is sent goes behind those in the port.
LEMMA AppendLeaves ==
  ASSUME NEW s, NEW o, PortOK(s, o), NEW p \in Packet
  PROVE  /\ PortOK(Append(s, p), o)
         /\ Len(Append(s, p)) = Len(s) + 1
         /\ \A j \in 1..(Len(s) + 1) : Append(s, p)[j] = IF j = Len(s) + 1 THEN p ELSE s[j]
<1> DEFINE t == Append(s, p)
<1>1. s \in Seq(Packet) /\ o \in Nat /\ Len(s) \in Nat
  BY LenProperties DEF PortOK
<1>2. t \in Seq(Packet) /\ Len(t) = Len(s) + 1
  BY <1>1, AppendProperties
<1>3. \A j \in 1..(Len(s) + 1) : t[j] = IF j = Len(s) + 1 THEN p ELSE s[j]
  BY <1>1, AppendProperties
<1>4. t # <<>> /\ Head(t) = t[1]
  BY <1>1, <1>2
<1>5. CASE s = <<>>
  <2>1. Len(s) = 0 /\ o = 0
    BY <1>5 DEF PortOK
  <2>2. Head(t) = p
    BY <1>3, <1>4, <2>1
  <2>3. o < Size(Head(t))
    BY <2>1, <2>2, SizeType
  <2> HIDE DEF t
  <2>4. PortOK(t, o)
    BY <1>1, <1>2, <1>4, <2>3 DEF PortOK
  <2> QED  BY <1>2, <1>3, <2>4 DEF t
<1>6. CASE s # <<>>
  <2>1. 1 \in 1..Len(s)
    BY <1>1, <1>6, EmptySeq
  <2>2. Head(t) = Head(s)
    BY <1>1, <1>3, <1>4, <1>6, <2>1
  <2> HIDE DEF t
  <2>3. PortOK(t, o)
    BY <1>1, <1>2, <1>4, <1>6, <2>2 DEF PortOK
  <2> QED  BY <1>2, <1>3, <2>3 DEF t
<1> QED  BY <1>5, <1>6

\* A text is only sent by a device in Firehose.
FromDevice ==
  \A j \in 1..Len(rx') :
    (rx'[j].k \in Texts => dev'.st = "fire") \/ \E i \in 1..Len(rx) : rx'[j] = rx[i]

LEMMA SayAdds ==
  ASSUME InputOK, NEW p \in Packet, Say(p), p.k \in Texts => dev'.st = "fire"
  PROVE  InputOK' /\ FromDevice
<1>1. rx' = Append(rx, p) /\ off' = off /\ PortOK(rx, off)
  BY DEF InputOK, PortOK, Say
<1>2. /\ PortOK(rx', off') /\ Len(rx') = Len(rx) + 1
      /\ \A j \in 1..(Len(rx) + 1) : rx'[j] = IF j = Len(rx) + 1 THEN p ELSE rx[j]
  BY <1>1, AppendLeaves
<1>3. Len(rx) \in Nat
  BY LenProperties DEF InputOK
<1>4. ASSUME NEW j \in 1..Len(rx') PROVE rx'[j] = p \/ \E i \in 1..Len(rx) : rx'[j] = rx[i]
  <2>1. CASE j = Len(rx) + 1
    BY <1>2, <2>1
  <2>2. CASE j # Len(rx) + 1
    <3>1. j \in 1..Len(rx)
      BY <1>2, <1>3, <2>2
    <3> QED  BY <1>2, <2>2, <3>1
  <2> QED  BY <2>1, <2>2
<1> QED  BY <1>2, <1>4 DEF InputOK, PortOK, FromDevice

-----------------------------------------------------------------------------
(* Types *)

ClientOK ==
  /\ loader \in BOOLEAN /\ cmdmode \in BOOLEAN /\ plain \in BOOLEAN
  /\ pc \in {"hello1", "nop", "nopread", "hack", "hackread", "hello2", "hresp", "exec",
             "execread", "upload", "done", "doneread", "end"}
  /\ state \in States /\ result \in Results
  /\ query \in 0..2 /\ tries \in 1..(MaxTries + 1)

DeviceOK == dev \in [st : {"boot", "hello", "cmd", "want", "ended", "refused", "fire"},
                     at : Nat, n : Nat]

LEMMA TypeParts == TypeOK <=> ClientOK /\ InputOK /\ tx \in Seq(Item) /\ DeviceOK
<1> QED  BY DEF TypeOK, ClientOK, InputOK, DeviceOK

LEMMA ItemType ==
  ASSUME tx \in Seq(Item), NEW k \in ItemKinds, NEW a \in Nat, NEW n \in Nat,
         tx' = Append(tx, [k |-> k, at |-> a, n |-> n])
  PROVE  tx' \in Seq(Item)
<1>1. [k |-> k, at |-> a, n |-> n] \in Item
  BY DEF Item
<1> QED  BY <1>1, AppendProperties

LEMMA PutType ==
  ASSUME tx \in Seq(Item), NEW k \in ItemKinds, Put(k) PROVE tx' \in Seq(Item)
<1>1. tx' = Append(tx, [k |-> k, at |-> 0, n |-> 0])
  BY DEF Put
<1> QED  BY <1>1, ItemType

\* The packet at the head of a nonempty port.
LEMMA HeadOfInput ==
  ASSUME InputOK, NEW n \in Nat, Avail >= n, n > 0
  PROVE  rx # <<>> /\ Head(rx) \in Packet /\ Words(rx) \in Nat
<1>1. rx \in Seq(Packet) /\ off \in Nat
  BY DEF InputOK
<1>2. Words(rx) \in Nat /\ (rx = <<>> => Words(rx) = 0)
  BY <1>1, WordsType
<1>3. rx # <<>>
  BY <1>1, <1>2 DEF Avail
<1>4. 1 \in 1..Len(rx) /\ Head(rx) = rx[1]
  BY <1>1, <1>3, EmptySeq, LenProperties
<1> QED  BY <1>1, <1>2, <1>3, <1>4, ElementOfSeq

\* A packet whose command is seen is there as a whole.
LEMMA CommandFits ==
  ASSUME InputOK, Avail >= 2, Command # "none" 
  PROVE  off = 0 /\ Command = Head(rx).k /\ Size(Head(rx)) \in Nat /\ Size(Head(rx)) <= Avail
<1>1. off = 0 /\ Command = Head(rx).k
  BY DEF Command
<1>2. rx # <<>> /\ Head(rx) \in Packet /\ Words(rx) \in Nat
  BY HeadOfInput
<1>3. Size(Head(rx)) \in Nat /\ Size(Head(rx)) <= Words(rx)
  BY <1>2, SizeType, HeadFits DEF InputOK
<1> QED  BY <1>1, <1>2, <1>3 DEF Avail

\* Every read of the client leaves the port in order.
LEMMA ClientReads ==
  ASSUME InputOK, Client PROVE InputOK' /\ FromFront
<1> DEFINE Good == InputOK' /\ FromFront
<1>1. ASSUME NEW n \in Nat, Avail >= n, Take(n) PROVE Good
  BY <1>1, TakeLeaves
<1>2. ASSUME UNCHANGED input PROVE Good
  BY <1>2, NothingRead
<1>3. ASSUME TakeAll PROVE Good
  BY <1>3, TakeAllLeaves
<1>4. ASSUME Avail >= 2, Command # "none", Take(Size(Head(rx))) PROVE Good
  BY <1>1, <1>4, CommandFits
<1>5. CASE HelloText \/ HelloUnexpected \/ HelloReceived \/ HelloMisread
  <2>1. Avail >= 12 /\ Take(12)
    BY <1>5 DEF HelloText, HelloUnexpected, HelloReceived, HelloMisread
  <2> QED  BY <1>1, <2>1
<1>6. CASE HelloTimeout \/ NopRead \/ ExecTimeout \/ UploadTimeout
  <2>1. TakeAll
    BY <1>6 DEF HelloTimeout, NopRead, ExecTimeout, UploadTimeout
  <2> QED  BY <1>3, <2>1
<1>7. CASE \/ NopWrite \/ NopWriteFails \/ NopTimeout \/ HackWrite \/ HelloRespond \/ ExecWrite
           \/ ExecWriteFails \/ DoneWrite \/ Fails
  <2>1. UNCHANGED input
    BY <1>7 DEF NopWrite, NopWriteFails, NopTimeout, HackWrite, HelloRespond, ExecWrite,
                ExecWriteFails, DoneWrite, Fails
  <2> QED  BY <1>2, <2>1
<1>8. CASE HackRead
  <2>1. IF Avail >= 4 THEN Take(4) ELSE TakeAll
    BY <1>8 DEF HackRead
  <2> QED  BY <1>1, <1>3, <2>1
<1>9. CASE ExecRead
  <2>1. Avail >= 4 /\ IF Command = "exec" THEN Take(4 + Head(rx).n) ELSE Take(4)
    BY <1>9 DEF ExecRead
  <2>2. CASE Command = "exec"
    <3>1. Avail \in Int
      BY HeadOfInput, <2>1 DEF Avail, InputOK
    <3>2. Avail >= 2
      BY <2>1, <3>1
    <3>3. Command = Head(rx).k
      BY <2>2, <3>2, CommandFits
    <3>4. Size(Head(rx)) = 4 + Head(rx).n
      BY <2>2, <3>3 DEF Size
    <3> QED  BY <1>4, <2>1, <2>2, <3>2, <3>4
  <2>3. CASE Command # "exec"
    BY <1>1, <2>1, <2>3
  <2> QED  BY <2>2, <2>3
<1>10. CASE UploadChunk \/ ChunkFails
  <2>1. Avail >= 2 /\ Command \in {"read", "read64"} /\ Take(Size(Head(rx)))
    BY <1>10 DEF UploadChunk, ChunkFails, Requested
  <2> QED  BY <1>4, <2>1
<1>11. CASE UploadEnd \/ UploadSkip
  <2>1. Avail >= 2 /\ Take(2)
    BY <1>11 DEF UploadEnd, UploadSkip
  <2> QED  BY <1>1, <2>1
<1>12. CASE DoneRead
  <2>1. IF Avail <= DoneLimit THEN TakeAll ELSE Take(DoneLimit)
    BY <1>12 DEF DoneRead
  <2>2. CASE Avail <= DoneLimit
    BY <1>3, <2>1, <2>2
  <2>3. CASE ~(Avail <= DoneLimit)
    <3>1. rx \in Seq(Packet) /\ off \in Nat /\ DoneLimit \in Nat
      BY SaharaAssumption DEF InputOK
    <3>2. Avail \in Int
      BY <3>1, WordsType DEF Avail
    <3>3. Avail >= DoneLimit
      BY <2>3, <3>1, <3>2
    <3> QED  BY <1>1, <2>1, <2>3, <3>1, <3>3
  <2> QED  BY <2>2, <2>3
<1>13. CASE ExecMisread
  <2>1. Avail >= 4 /\ ((\E m \in 0..(Avail - 4) : Take(4 + m)) \/ TakeAll)
    BY <1>13 DEF ExecMisread
  <2>2. ASSUME NEW m \in 0..(Avail - 4), Take(4 + m) PROVE Good
    <3>1. Avail \in Int
      BY HeadOfInput, <2>1 DEF Avail, InputOK
    <3>2. 4 + m \in Nat /\ Avail >= 4 + m
      BY <3>1
    <3> QED  BY <1>1, <2>2, <3>2
  <2> QED  BY <1>3, <2>1, <2>2
<1>14. CASE ChunkMisread
  <2>1. PICK w \in {Size(Pkt("read", 0, 0)), Size(Pkt("read64", 0, 0))} :
          (Avail >= w /\ Take(w)) \/ TakeAll
    BY <1>14 DEF ChunkMisread
  <2>2. w \in {5, 8}
    BY <2>1 DEF Size, Pkt
  <2>3. w \in Nat
    BY <2>2
  <2> QED  BY <1>1, <1>3, <2>1, <2>3
<1> QED  BY <1>5, <1>6, <1>7, <1>8, <1>9, <1>10, <1>11, <1>12, <1>13, <1>14 DEF Client

\* What the client writes are items.
LEMMA ClientWrites ==
  ASSUME InputOK, tx \in Seq(Item), Client PROVE tx' \in Seq(Item)
<1>1. CASE \/ HelloText \/ HelloUnexpected \/ HelloReceived \/ HelloMisread \/ HelloTimeout
           \/ NopWriteFails \/ NopRead \/ NopTimeout
           \/ ExecWriteFails \/ ExecRead \/ ExecMisread \/ ExecTimeout
           \/ ChunkFails \/ UploadEnd \/ UploadSkip \/ UploadTimeout \/ DoneRead \/ Fails
  <2>1. tx' = tx
    BY <1>1 DEF HelloText, HelloUnexpected, HelloReceived, HelloMisread, HelloTimeout,
                NopWriteFails, NopRead, NopTimeout, ExecWriteFails, ExecRead, ExecMisread,
                ExecTimeout, ChunkFails, UploadEnd, UploadSkip, UploadTimeout, DoneRead, Fails
  <2> QED  BY <2>1
<1>2. CASE NopWrite
  BY <1>2, PutType DEF NopWrite, ItemKinds
<1>3. CASE HackWrite
  BY <1>3, PutType DEF HackWrite, ItemKinds
<1>4. CASE HackRead
  <2>1. Put("switch") \/ tx' = tx
    BY <1>4 DEF HackRead
  <2> QED  BY <2>1, PutType DEF ItemKinds
<1>5. CASE HelloRespond
  BY <1>5, PutType DEF HelloRespond, ItemKinds
<1>6. CASE ExecWrite
  BY <1>6, PutType DEF ExecWrite, ItemKinds
<1>7. CASE DoneWrite
  BY <1>7, PutType DEF DoneWrite, ItemKinds
<1>8. CASE UploadChunk
  <2>1. Avail >= 2 /\ tx' = Append(tx, [k |-> "data", at |-> Head(rx).at, n |-> Head(rx).n])
    BY <1>8 DEF UploadChunk, Requested
  <2>2. Head(rx) \in Packet
    BY <2>1, HeadOfInput
  <2>3. Head(rx).at \in Nat /\ Head(rx).n \in Nat /\ "data" \in ItemKinds
    BY <2>2 DEF Packet, ItemKinds
  <2> QED  BY <2>1, <2>3, ItemType
<1>9. CASE ChunkMisread
  <2>1. PICK at \in 0..LoaderLen, n \in 0..LoaderLen :
          tx' = tx \/ tx' = Append(tx, [k |-> "data", at |-> at, n |-> n])
    BY <1>9, SaharaAssumption DEF ChunkMisread
  <2>2. at \in Nat /\ n \in Nat /\ "data" \in ItemKinds
    BY SaharaAssumption DEF ItemKinds
  <2> QED  BY <2>1, <2>2, ItemType
<1> QED  BY <1>1, <1>2, <1>3, <1>4, <1>5, <1>6, <1>7, <1>8, <1>9 DEF Client

LEMMA ClientTypes ==
  ASSUME ClientOK, Client PROVE ClientOK' /\ UNCHANGED dev
<1> USE DEF ClientOK, States, Results, GoTo, Return, host
<1>1. CASE HelloText
  BY <1>1 DEF HelloText
<1>2. CASE HelloUnexpected
  BY <1>2 DEF HelloUnexpected
<1>3. CASE HelloReceived
  BY <1>3 DEF HelloReceived
<1>4. CASE HelloTimeout
  BY <1>4 DEF HelloTimeout
<1>5. CASE NopWrite
  BY <1>5 DEF NopWrite
<1>6. CASE NopWriteFails
  BY <1>6 DEF NopWriteFails, NoFirehose
<1>7. CASE NopRead
  BY <1>7 DEF NopRead, NoFirehose
<1>8. CASE NopTimeout
  BY <1>8 DEF NopTimeout, NoFirehose
<1>9. CASE HackWrite
  BY <1>9 DEF HackWrite
<1>10. CASE HackRead
  BY <1>10 DEF HackRead
<1>11. CASE HelloRespond
  BY <1>11 DEF HelloRespond, ToUpload
<1>12. CASE ExecWrite
  BY <1>12 DEF ExecWrite
<1>13. CASE ExecWriteFails
  BY <1>13 DEF ExecWriteFails, NextQuery, ToUpload
<1>14. CASE ExecRead
  BY <1>14 DEF ExecRead, NextQuery, ToUpload
<1>15. CASE ExecTimeout
  BY <1>15 DEF ExecTimeout, NextQuery, ToUpload
<1>16. CASE UploadChunk
  BY <1>16 DEF UploadChunk
<1>17. CASE ChunkFails
  BY <1>17 DEF ChunkFails
<1>18. CASE UploadEnd
  BY <1>18 DEF UploadEnd
<1>19. CASE UploadSkip
  BY <1>19 DEF UploadSkip
<1>20. CASE UploadTimeout
  BY <1>20 DEF UploadTimeout
<1>21. CASE DoneWrite
  BY <1>21 DEF DoneWrite
<1>22. CASE DoneRead
  BY <1>22 DEF DoneRead
<1>23. CASE Fails
  BY <1>23 DEF Fails
<1>24. CASE HelloMisread
  BY <1>24 DEF HelloMisread
<1>25. CASE ExecMisread
  BY <1>25 DEF ExecMisread, NextQuery, ToUpload
<1>26. CASE ChunkMisread
  BY <1>26 DEF ChunkMisread
<1> QED  BY <1>1, <1>2, <1>3, <1>4, <1>5, <1>6, <1>7, <1>8, <1>9, <1>10, <1>11, <1>12, <1>13,
            <1>14, <1>15, <1>16, <1>17, <1>18, <1>19, <1>20, <1>21, <1>22, <1>23, <1>24, <1>25,
            <1>26 DEF Client

\* The two packets a device that starts Firehose may send at once.
LEMMA TwoSent ==
  ASSUME InputOK, NEW p \in Packet, NEW q \in Packet, rx' = rx \o <<p, q>>, off' = off,
         dev'.st = "fire"
  PROVE  InputOK' /\ FromDevice
<1> DEFINE t == <<p, q>>
<1>1. rx \in Seq(Packet) /\ Len(rx) \in Nat /\ t \in Seq(Packet) /\ Len(t) = 2 /\ t[1] = p
  BY LenProperties DEF InputOK
<1>2. rx' \in Seq(Packet) /\ Len(rx') = Len(rx) + 2
  BY <1>1, ConcatProperties
<1>3. rx' # <<>> /\ Head(rx') = rx'[1]
  BY <1>1, <1>2
<1>4. CASE rx = <<>>
  <2>1. Len(rx) = 0 /\ off = 0
    BY <1>4 DEF InputOK
  <2>2. rx'[1] = p
    <3>1. 1 \in 1..(Len(rx) + Len(t)) /\ ~(1 <= Len(rx)) /\ 1 - Len(rx) = 1
      BY <1>1, <2>1
    <3> HIDE DEF t
    <3>2. (rx \o t)[1] = t[1 - Len(rx)]
      BY <1>1, <3>1, ConcatProperties
    <3> QED  BY <1>1, <3>1, <3>2 DEF t
  <2>3. off' < Size(Head(rx'))
    BY <1>3, <2>1, <2>2, SizeType
  <2> QED  BY <1>1, <1>2, <1>3, <2>1, <2>3 DEF InputOK, FromDevice
<1>5. CASE rx # <<>>
  <2>1. 1 \in 1..Len(rx) /\ Head(rx) = rx[1]
    BY <1>1, <1>5, EmptySeq
  <2>2. rx'[1] = rx[1]
    <3>1. 1 \in 1..(Len(rx) + Len(t)) /\ 1 <= Len(rx)
      BY <1>1, <2>1
    <3> HIDE DEF t
    <3>2. (rx \o t)[1] = rx[1]
      BY <1>1, <3>1, ConcatProperties
    <3> QED  BY <3>2 DEF t
  <2> QED  BY <1>1, <1>2, <1>3, <1>5, <2>1, <2>2 DEF InputOK, FromDevice
<1> QED  BY <1>4, <1>5

LEMMA DeviceStep ==
  ASSUME InputOK, DeviceOK, DevBoot \/ DevTake \/ DevRepeat
  PROVE  InputOK' /\ DeviceOK' /\ FromDevice /\ (dev.st = "fire" => dev'.st = "fire")
<1> DEFINE Good == InputOK' /\ DeviceOK' /\ FromDevice /\ (dev.st = "fire" => dev'.st = "fire")
<1>1. /\ dev.st \in {"boot", "hello", "cmd", "want", "ended", "refused", "fire"}
      /\ dev.at \in Nat /\ dev.n \in Nat /\ LoaderLen \in Nat
  BY SaharaAssumption DEF DeviceOK
<1>2. ASSUME NEW k \in PacketKinds, NEW a \in Nat, NEW n \in Nat, Say(Pkt(k, a, n)),
             k \in Texts => dev'.st = "fire"
      PROVE  InputOK' /\ FromDevice
  <2>1. Pkt(k, a, n) \in Packet /\ Pkt(k, a, n).k = k
    BY PacketType DEF Pkt
  <2> QED  BY <1>2, <2>1, SayAdds
<1>3. \A k \in {"hello", "read", "read64", "end", "cmdready", "done", "exec"} :
        k \in PacketKinds /\ k \notin Texts
  BY DEF PacketKinds, Texts
<1>4. ASSUME UNCHANGED input PROVE InputOK' /\ FromDevice
  BY <1>4 DEF input, InputOK, FromDevice
<1>5. ASSUME NEW m \in {0, 1}, DevHello(m), dev.st # "fire" PROVE Good
  <2>1. Say(Pkt("hello", 0, m)) /\ dev' = [dev EXCEPT !.st = "hello", !.n = m]
    BY <1>5 DEF DevHello
  <2>2. DeviceOK'
    <3>1. m \in Nat
      OBVIOUS
    <3>2. dev' \in [st : {"boot", "hello", "cmd", "want", "ended", "refused", "fire"},
                    at : Nat, n : Nat]
      BY <2>1, <3>1 DEF DeviceOK
    <3> QED  BY <3>2 DEF DeviceOK
  <2> QED  BY <1>2, <1>3, <1>5, <2>1, <2>2
<1>6. ASSUME Ask, dev.st # "fire" PROVE Good
  <2>1. PICK k \in {"read", "read64"}, a \in 0..LoaderLen, n \in {1, 2} :
          Say(Pkt(k, a, n)) /\ dev' = Device("want", a, n)
    BY <1>6 DEF Ask
  <2>2. a \in Nat /\ n \in Nat
    BY <1>1
  <2>3. DeviceOK'
    BY <2>1, <2>2 DEF DeviceOK, Device
  <2> QED  BY <1>2, <1>3, <1>6, <2>1, <2>2, <2>3
<1>7. ASSUME NEW x \in {0, 1}, EndTransfer(x), dev.st # "fire" PROVE Good
  <2>1. /\ Say(Pkt("end", 0, x))
        /\ dev' = [dev EXCEPT !.st = IF x = 0 THEN "ended" ELSE "refused"]
    BY <1>7 DEF EndTransfer
  <2>2. DeviceOK'
    BY <1>1, <2>1 DEF DeviceOK
  <2> QED  BY <1>2, <1>3, <1>7, <2>1, <2>2
<1>8. ASSUME UNCHANGED dev, InputOK' /\ FromDevice PROVE Good
  BY <1>8 DEF DeviceOK
<1>9. CASE DevBoot
  <2>1. dev.st = "boot" /\ \E m \in {0, 1} : DevHello(m)
    BY <1>9 DEF DevBoot
  <2> QED  BY <1>5, <2>1
<1>10. CASE DevTake
  <2> DEFINE i == Head(tx)
  <2>1. CASE dev.st = "hello" /\ i.k = "hresp"
    <3>1. IF dev.n = 1
          THEN /\ Say(Pkt("cmdready", 0, 0)) \/ UNCHANGED input
               /\ dev' = [dev EXCEPT !.st = "cmd"]
          ELSE Ask \/ EndTransfer(1)
      BY <1>10, <2>1 DEF DevTake
    <3>2. CASE dev.n = 1
      <4>1. DeviceOK' /\ dev'.st = "cmd"
        BY <1>1, <3>1, <3>2 DEF DeviceOK
      <4>2. InputOK' /\ FromDevice
        BY <1>2, <1>3, <1>4, <3>1, <3>2
      <4> QED  BY <2>1, <4>1, <4>2
    <3>3. CASE dev.n # 1
      BY <1>6, <1>7, <2>1, <3>1, <3>3
    <3> QED  BY <3>2, <3>3
  <2>2. CASE dev.st = "cmd" /\ i.k = "exec"
    <3>1. \/ \E n \in 0..2 : Say(Pkt("exec", 0, n)) /\ UNCHANGED dev
          \/ EndTransfer(1) \/ Ask
      BY <1>10, <2>2 DEF DevTake
    <3>2. CASE \E n \in 0..2 : Say(Pkt("exec", 0, n)) /\ UNCHANGED dev
      <4>1. PICK n \in 0..2 : Say(Pkt("exec", 0, n)) /\ UNCHANGED dev
        BY <3>2
      <4> QED  BY <1>2, <1>3, <1>8, <4>1
    <3> QED  BY <1>6, <1>7, <2>2, <3>1, <3>2
  <2>3. CASE dev.st = "want"
    <3>1. Ask \/ EndTransfer(0) \/ EndTransfer(1)
      BY <1>10, <2>3 DEF DevTake
    <3> QED  BY <1>6, <1>7, <2>3, <3>1
  <2>4. CASE dev.st \in {"hello", "cmd", "refused"} /\ i.k = "switch"
    <3>1. DevHello(0)
      BY <1>10, <2>4 DEF DevTake
    <3> QED  BY <1>5, <2>4, <3>1
  <2>5. CASE dev.st = "ended" /\ i.k = "done"
    <3>1. /\ \/ Say(Pkt("done", 0, 0))
             \/ rx' = rx \o <<Pkt("done", 0, 0), Pkt("log", 0, 0)>> /\ UNCHANGED off
          /\ dev' = [dev EXCEPT !.st = "fire"]
      BY <1>10, <2>5 DEF DevTake
    <3>2. DeviceOK' /\ dev'.st = "fire"
      BY <1>1, <3>1 DEF DeviceOK
    <3>3. Pkt("done", 0, 0) \in Packet /\ Pkt("log", 0, 0) \in Packet
      BY PacketType DEF PacketKinds, Texts
    <3>4. InputOK' /\ FromDevice
      BY <1>2, <1>3, <3>1, <3>2, <3>3, TwoSent
    <3> QED  BY <3>2, <3>4
  <2>6. CASE dev.st = "fire" /\ i.k = "nop"
    <3>1. Say(Pkt("ack", 0, 0)) /\ UNCHANGED dev /\ "ack" \in PacketKinds
      BY <1>10, <2>6 DEF DevTake, PacketKinds, Texts
    <3> QED  BY <1>2, <1>8, <2>6, <3>1
  <2>7. CASE dev.st = "fire" /\ i.k # "nop"
    <3>1. (Say(Pkt("nak", 0, 0)) /\ UNCHANGED dev) \/ Ignore
      BY <1>10, <2>7 DEF DevTake
    <3>2. "nak" \in PacketKinds
      BY DEF PacketKinds, Texts
    <3> QED  BY <1>2, <1>4, <1>8, <2>7, <3>1, <3>2 DEF Ignore
  <2>8. CASE /\ ~(dev.st = "hello" /\ i.k = "hresp") /\ ~(dev.st = "cmd" /\ i.k = "exec")
             /\ dev.st # "want" /\ ~(dev.st \in {"hello", "cmd", "refused"} /\ i.k = "switch")
             /\ ~(dev.st = "ended" /\ i.k = "done") /\ dev.st # "fire"
    <3>1. Ignore
      BY <1>10, <2>8 DEF DevTake
    <3> QED  BY <1>4, <1>8, <3>1 DEF Ignore
  <2> QED  BY <2>1, <2>2, <2>3, <2>4, <2>5, <2>6, <2>7, <2>8
<1>11. CASE DevRepeat
  <2>1. /\ UNCHANGED dev
        /\ \E k \in {"read", "read64", "cmdready"}, a \in Nat, n \in Nat : Say(Pkt(k, a, n))
    BY <1>1, <1>11 DEF DevRepeat
  <2> QED  BY <1>2, <1>3, <1>8, <2>1
<1> QED  BY <1>9, <1>10, <1>11

\* A new handshake begins with what is left in the port, or with nothing.
LEMMA RetryReads ==
  ASSUME InputOK, Retry PROVE InputOK' /\ FromFront
<1>1. TakeAll \/ UNCHANGED input
  BY DEF Retry
<1> QED  BY <1>1, TakeAllLeaves, NothingRead

LEMMA InitType == Init => TypeOK
<1> SUFFICES ASSUME Init PROVE TypeOK
  OBVIOUS
<1>1. ClientOK /\ tx \in Seq(Item)
  <2>1. loader \in BOOLEAN /\ cmdmode \in BOOLEAN /\ plain \in BOOLEAN
    BY DEF Init
  <2>2. tries \in 1..(MaxTries + 1) /\ query \in 0..2 /\ tx \in Seq(Item)
    BY SaharaAssumption DEF Init
  <2>3. pc = "hello1" /\ state \in States /\ result \in Results
    BY DEF Init, States, Results
  <2> QED  BY <2>1, <2>2, <2>3 DEF ClientOK
<1>2. off = 0
  BY DEF Init
<1>3. PICK p \in Packet : rx = <<>> \/ rx = <<p>>
  <2>1. Pkt("read", 0, 1) \in Packet /\ Pkt("log", 0, 0) \in Packet
    BY PacketType DEF PacketKinds, Texts
  <2> QED  BY <2>1 DEF Init
<1>4. InputOK
  <2>1. CASE rx = <<>>
    BY <1>2, <2>1 DEF InputOK
  <2>2. CASE rx = <<p>>
    BY <1>2, <2>2, SizeType DEF InputOK
  <2> QED  BY <1>3, <2>1, <2>2
<1>5. DeviceOK
  <2>1. \A s \in {"boot", "hello", "fire"} : Device(s, 0, 0) \in
          [st : {"boot", "hello", "cmd", "want", "ended", "refused", "fire"},
           at : Nat, n : Nat]
    BY <1>2 DEF Device
  <2>2. Device("want", 0, 1) \in
          [st : {"boot", "hello", "cmd", "want", "ended", "refused", "fire"},
           at : Nat, n : Nat]
    BY <1>2 DEF Device
  <2> QED  BY <2>1, <2>2 DEF Init, DeviceOK
<1> QED  BY <1>1, <1>4, <1>5, TypeParts

LEMMA NextType == TypeOK /\ [Next]_vars => TypeOK'
<1> SUFFICES ASSUME TypeOK, [Next]_vars PROVE TypeOK'
  OBVIOUS
<1>1. ClientOK /\ InputOK /\ tx \in Seq(Item) /\ DeviceOK
  BY TypeParts
<1>2. ASSUME ClientOK', InputOK', (tx \in Seq(Item))', DeviceOK' PROVE TypeOK'
  BY <1>2 DEF TypeOK, ClientOK, InputOK, DeviceOK
<1>3. CASE DevBoot \/ DevTake \/ DevRepeat
  <2>1. UNCHANGED <<host, pc, state, result, plain>> /\ (tx' = tx \/ (tx # <<>> /\ tx' = Tail(tx)))
    BY <1>3 DEF DevBoot, DevTake, DevRepeat
  <2>2. ClientOK'
    BY <1>1, <2>1 DEF ClientOK, host
  <2>3. (tx \in Seq(Item))'
    BY <1>1, <2>1, HeadTailProperties
  <2> QED  BY <1>1, <1>2, <1>3, <2>2, <2>3, DeviceStep
<1>4. CASE Client
  <2>1. DeviceOK'
    BY <1>1, <1>4, ClientTypes DEF DeviceOK
  <2> QED  BY <1>1, <1>2, <1>4, <2>1, ClientReads, ClientWrites, ClientTypes
<1>5. CASE Retry
  <2>1. tries \in Nat /\ tries < MaxTries /\ MaxTries \in Nat /\ tries + 1 \in 1..(MaxTries + 1)
    BY <1>1, <1>5, SaharaAssumption DEF Retry, ClientOK
  <2>2. ClientOK'
    <3>1. loader' \in BOOLEAN /\ cmdmode' \in BOOLEAN /\ plain' \in BOOLEAN
      BY <1>1, <1>5 DEF Retry, ClientOK
    <3>2. tries' \in 1..(MaxTries + 1) /\ query' \in 0..2
      BY <1>5, <2>1 DEF Retry
    <3>3. pc' = "hello1" /\ state' \in States /\ result' \in Results
      BY <1>5 DEF Retry, States, Results
    <3> QED  BY <3>1, <3>2, <3>3 DEF ClientOK
  <2>3. (tx \in Seq(Item))' /\ DeviceOK'
    BY <1>1, <1>5 DEF Retry, DeviceOK
  <2> QED  BY <1>1, <1>2, <1>5, <2>2, <2>3, RetryReads
<1>6. CASE UNCHANGED vars
  BY <1>1, <1>2, <1>6 DEF vars, host, input, ClientOK, InputOK, DeviceOK
<1> QED  BY <1>3, <1>4, <1>5, <1>6 DEF Next

\* Every read takes words that are there, and leaves the port at a packet that
\* is not over (read_exact and read of the transport, as session.rs uses them).
THEOREM TypeCorrect == Spec => []TypeOK
<1> QED  BY InitType, NextType, PTL DEF Spec

-----------------------------------------------------------------------------
(* Skipping *)

\* Texts come from a device in Firehose, and the first read of the first
\* handshake begins with a packet.
TextsFromFirehose ==
  /\ \A j \in 1..Len(rx) : rx[j].k \in Texts => dev.st = "fire"
  /\ tries = 1 /\ pc = "hello1" => off = 0

LEMMA TextsInit == Init => TextsFromFirehose
<1> SUFFICES ASSUME Init PROVE TextsFromFirehose
  OBVIOUS
<1>1. CASE rx = <<>>
  BY <1>1 DEF Init, TextsFromFirehose
<1>2. CASE rx = <<Pkt("read", 0, 1)>>
  BY <1>2 DEF Init, TextsFromFirehose, Pkt, Texts
<1>3. CASE rx = <<Pkt("log", 0, 0)>>
  <2>1. dev.st = "fire"
    BY <1>3 DEF Init, Device, Pkt
  <2> QED  BY <2>1 DEF Init, TextsFromFirehose
<1> QED  BY <1>1, <1>2, <1>3 DEF Init

\* No action of the client but Retry leads to the first read.
LEMMA ClientGoesOn ==
  ASSUME Client PROVE pc' # "hello1"
<1> USE DEF GoTo, Return
<1>1. CASE HelloText \/ HelloUnexpected \/ HelloReceived \/ HelloMisread \/ HelloTimeout
  BY <1>1 DEF HelloText, HelloUnexpected, HelloReceived, HelloMisread, HelloTimeout
<1>2. CASE NopWrite \/ NopWriteFails \/ NopRead \/ NopTimeout \/ HackWrite \/ HackRead
  BY <1>2 DEF NopWrite, NopWriteFails, NopRead, NopTimeout, HackWrite, HackRead, NoFirehose
<1>3. CASE \/ HelloRespond \/ ExecWrite \/ ExecWriteFails \/ ExecRead \/ ExecMisread
           \/ ExecTimeout
  BY <1>3 DEF HelloRespond, ExecWrite, ExecWriteFails, ExecRead, ExecMisread, ExecTimeout,
              NextQuery, ToUpload
<1>4. CASE UploadChunk \/ ChunkFails \/ ChunkMisread \/ UploadEnd \/ UploadSkip \/ UploadTimeout
  BY <1>4 DEF UploadChunk, ChunkFails, ChunkMisread, UploadEnd, UploadSkip, UploadTimeout
<1>5. CASE DoneWrite \/ DoneRead \/ Fails
  BY <1>5 DEF DoneWrite, DoneRead, Fails
<1> QED  BY <1>1, <1>2, <1>3, <1>4, <1>5 DEF Client

LEMMA TextsNext == TypeOK /\ TextsFromFirehose /\ [Next]_vars => TextsFromFirehose'
<1> SUFFICES ASSUME TypeOK, TextsFromFirehose, [Next]_vars PROVE TextsFromFirehose'
  OBVIOUS
<1>1. ClientOK /\ InputOK /\ DeviceOK
  BY TypeParts
<1>2. ASSUME FromFront, UNCHANGED dev
      PROVE  \A j \in 1..Len(rx') : rx'[j].k \in Texts => dev'.st = "fire"
  BY <1>2 DEF FromFront, TextsFromFirehose
<1>3. CASE DevBoot \/ DevTake \/ DevRepeat
  <2>1. FromDevice /\ (dev.st = "fire" => dev'.st = "fire")
    BY <1>1, <1>3, DeviceStep
  <2>2. \A j \in 1..Len(rx') : rx'[j].k \in Texts => dev'.st = "fire"
    BY <2>1 DEF FromDevice, TextsFromFirehose
  <2>3. tries' = 1 /\ pc' = "hello1" => off' = 0
    <3>1. SUFFICES ASSUME tries' = 1, pc' = "hello1" PROVE off' = 0
      OBVIOUS
    <3>2. tries' = tries /\ pc' = pc /\ off = 0
      BY <1>3, <3>1 DEF DevBoot, DevTake, DevRepeat, host, TextsFromFirehose
    <3>3. off' = off
      BY <1>3 DEF DevBoot, DevHello, DevTake, DevRepeat, Ask, EndTransfer, Ignore, DevHello, Say, input
    <3> QED  BY <3>2, <3>3
  <2> QED  BY <2>2, <2>3 DEF TextsFromFirehose
<1>4. CASE Client
  <2>1. FromFront /\ UNCHANGED dev /\ pc' # "hello1"
    BY <1>1, <1>4, ClientReads, ClientTypes, ClientGoesOn
  <2> QED  BY <1>2, <2>1 DEF TextsFromFirehose
<1>5. CASE Retry
  <2>1. FromFront /\ UNCHANGED dev
    BY <1>1, <1>5, RetryReads DEF Retry
  <2>2. tries' # 1
    BY <1>1, <1>5 DEF Retry, ClientOK
  <2> QED  BY <1>2, <2>1, <2>2 DEF TextsFromFirehose
<1>6. CASE UNCHANGED vars
  BY <1>6 DEF vars, host, input, TextsFromFirehose
<1> QED  BY <1>3, <1>4, <1>5, <1>6 DEF Next

\* Only these actions skip the handshake.
LEMMA SkippedBy ==
  ASSUME Next, result # "already", result' = "already" PROVE HelloText \/ NopRead
<1> USE DEF GoTo, Return
<1>1. CASE DevBoot \/ DevTake \/ DevRepeat \/ Retry
  BY <1>1 DEF DevBoot, DevTake, DevRepeat, Retry
<1>2. CASE HelloUnexpected \/ HelloReceived \/ HelloMisread \/ HelloTimeout
  BY <1>2 DEF HelloUnexpected, HelloReceived, HelloMisread, HelloTimeout
<1>3. CASE NopWrite \/ NopWriteFails \/ NopTimeout \/ HackWrite \/ HackRead
  BY <1>3 DEF NopWrite, NopWriteFails, NopTimeout, HackWrite, HackRead, NoFirehose
<1>4. CASE \/ HelloRespond \/ ExecWrite \/ ExecWriteFails \/ ExecRead \/ ExecMisread
           \/ ExecTimeout
  BY <1>4 DEF HelloRespond, ExecWrite, ExecWriteFails, ExecRead, ExecMisread, ExecTimeout,
              NextQuery, ToUpload
<1>5. CASE UploadChunk \/ ChunkFails \/ ChunkMisread \/ UploadEnd \/ UploadSkip \/ UploadTimeout
  BY <1>5 DEF UploadChunk, ChunkFails, ChunkMisread, UploadEnd, UploadSkip, UploadTimeout
<1>6. CASE DoneWrite \/ DoneRead \/ Fails
  BY <1>6 DEF DoneWrite, DoneRead, Fails
<1> QED  BY <1>1, <1>2, <1>3, <1>4, <1>5, <1>6 DEF Next, Client

LEMMA SkipStep ==
  ASSUME TypeOK, TextsFromFirehose, [Next]_vars, result # "already", result' = "already"
  PROVE  dev.st = "fire" \/ Astray
<1>1. ClientOK /\ InputOK /\ DeviceOK
  BY TypeParts
<1>2. Next
  <2>1. result' # result
    OBVIOUS
  <2> QED  BY <2>1 DEF vars
<1>3. CASE HelloText
  <2>1. AtHello /\ Avail >= 12 /\ TRUE \in FirstIsAscii
    BY <1>3 DEF HelloText
  <2>2. rx # <<>> /\ Head(rx) \in Packet
    BY <1>1, <2>1, HeadOfInput
  <2>3. off \in Nat /\ rx \in Seq(Packet) /\ 1 \in 1..Len(rx) /\ Head(rx) = rx[1]
    BY <1>1, <2>2, EmptySeq, LenProperties DEF InputOK
  <2>4. CASE Head(rx).k \in Texts
    BY <2>3, <2>4 DEF TextsFromFirehose
  <2>5. CASE Head(rx).k \notin Texts
    <3>1. DOMAIN Free = {"read", "read64", "exec", "hello"} /\ \A k \in DOMAIN Free : Free[k] >= 3
      BY DEF Free
    <3>2. \/ off = 1
          \/ Head(rx).k \in DOMAIN Free /\ off >= Free[Head(rx).k]
      BY <2>1, <2>5 DEF FirstIsAscii
    <3>3. Head(rx).k \in DOMAIN Free => Free[Head(rx).k] \in Nat /\ Free[Head(rx).k] >= 3
      BY <3>1 DEF Free
    <3>4. off > 0
      BY <2>3, <3>2, <3>3
    <3>5. pc = "hello1" => tries > 1
      BY <1>1, <3>4 DEF ClientOK, TextsFromFirehose
    <3> QED  BY <2>1, <2>5, <3>4, <3>5 DEF Astray
  <2> QED  BY <2>4, <2>5
<1>4. CASE NopRead
  <2>1. \E j \in 1..Len(rx) : rx[j].k = "ack"
    BY <1>4 DEF NopRead, NoFirehose, GoTo, Return
  <2> QED  BY <2>1 DEF TextsFromFirehose, Texts
<1> QED  BY <1>2, <1>3, <1>4, SkippedBy

\* The handshake is skipped for a device in Firehose only, unless the read of
\* a Hello has begun within a packet (read_hello, try_firehose_nop).
THEOREM SkipsAreSound == Spec => SkipSound
<1>1. TypeOK /\ TextsFromFirehose /\ [Next]_vars =>
        [result # "already" /\ result' = "already" => dev.st = "fire" \/ Astray]_vars
  BY SkipStep
<1> QED  BY <1>1, InitType, NextType, TextsInit, TextsNext, PTL DEF Spec, SkipSound

-----------------------------------------------------------------------------
(* Chunks *)

\* The range of a packet or an item is the one the device waits for.
Wanted(x) == dev.st = "want" /\ x.at = dev.at /\ x.n = dev.n

\* What is said after a question of the client that is no answer is not known
\* here, so none of these steps has been taken.
Quiet ==
  /\ pc \notin {"nopread", "hackread", "hello2", "execread"}
  /\ pc \in {"hello1", "nop", "hack", "hresp", "done"} => tx = <<>>

FirstRead ==
  pc = "hello1" =>
    /\ off = 0 /\ Len(rx) <= 1
    /\ dev.st = "boot" => rx = <<>>
    /\ rx # <<>> /\ Head(rx).k = "hello" => dev.st = "hello"

Answering == pc = "hresp" => rx = <<>> /\ dev.st = "hello"

\* While the loader is sent either the client or the device has something to
\* take, never both.
Transfer ==
  pc \in {"exec", "upload"} =>
    /\ dev.st # "boot" /\ off = 0 /\ Len(rx) <= 1
    /\ tx # <<>> => rx = <<>>
    /\ rx # <<>> => Head(rx).k \in {"cmdready", "read", "read64", "end"}
    /\ rx # <<>> /\ Head(rx).k \in {"read", "read64"} => Wanted(Head(rx))
    /\ tx # <<>> /\ Head(tx).k # "data" => Head(tx).k = "hresp" /\ dev.st = "hello"

OneItem ==
  /\ Len(tx) <= 1
  /\ tx # <<>> /\ Head(tx).k = "data" => Wanted(Head(tx))

InTurn == plain => Quiet /\ FirstRead /\ Answering /\ Transfer /\ OneItem

LEMMA InTurnInit == Init => InTurn
<1> SUFFICES ASSUME Init PROVE InTurn
  OBVIOUS
<1>1. pc = "hello1" /\ tx = <<>> /\ off = 0
  BY DEF Init
<1>2. \/ rx = <<>>
      \/ dev.st = "want" /\ rx = <<Pkt("read", 0, 1)>>
      \/ dev.st = "fire" /\ rx = <<Pkt("log", 0, 0)>>
  BY DEF Init, Device
<1>3. FirstRead
  <2>1. ASSUME NEW p, rx = <<p>>, p.k # "hello", dev.st # "boot" PROVE FirstRead
    <3>1. Len(rx) = 1 /\ Head(rx) = p
      BY <2>1
    <3> QED  BY <1>1, <2>1, <3>1 DEF FirstRead
  <2>2. CASE rx = <<>>
    BY <1>1, <2>2 DEF FirstRead
  <2>3. Pkt("read", 0, 1).k # "hello" /\ Pkt("log", 0, 0).k # "hello"
    BY DEF Pkt
  <2> QED  BY <1>2, <2>1, <2>2, <2>3
<1> QED  BY <1>1, <1>3 DEF InTurn, Quiet, Answering, Transfer, OneItem

LEMMA InTurnImplies == InTurn => ChunkAnswersRequest
<1> QED  BY DEF InTurn, OneItem, Wanted, ChunkAnswersRequest

\* At the end only what has been sent matters.
LEMMA InTurnEnd ==
  ASSUME InTurn, pc' \in {"end", "nop", "hack", "done", "doneread"}, plain' => plain,
         UNCHANGED <<tx, dev>>, pc' \in {"nop", "hack", "done"} /\ plain => tx = <<>>
  PROVE  InTurn'
<1> SUFFICES ASSUME plain' PROVE (Quiet /\ FirstRead /\ Answering /\ Transfer /\ OneItem)'
  BY DEF InTurn
<1>1. OneItem
  BY DEF InTurn
<1> QED  BY <1>1 DEF Quiet, FirstRead, Answering, Transfer, OneItem, Wanted

\* What the device does in turn.
LEMMA InTurnDevice ==
  ASSUME TypeOK, InTurn, DevBoot \/ DevTake \/ DevRepeat PROVE InTurn'
<1> SUFFICES ASSUME plain' PROVE (Quiet /\ FirstRead /\ Answering /\ Transfer /\ OneItem)'
  BY DEF InTurn
<1>1. InputOK /\ tx \in Seq(Item) /\ DeviceOK
  BY TypeParts
<1>2. pc' = pc /\ plain
  BY DEF DevBoot, DevTake, DevRepeat
<1>3. Quiet /\ FirstRead /\ Answering /\ Transfer /\ OneItem
  BY <1>2 DEF InTurn
<1>4. ASSUME NEW p, Say(p), rx = <<>>, off = 0
      PROVE  off' = 0 /\ Len(rx') = 1 /\ Head(rx') = p /\ rx' # <<>>
  BY <1>4 DEF Say
<1>5. CASE DevBoot
  <2>1. PICK m \in {0, 1} : Say(Pkt("hello", 0, m)) /\ dev'.st = "hello"
    BY <1>1, <1>5 DEF DevBoot, DevHello, DeviceOK
  <2>2. dev.st = "boot" /\ tx' = tx
    BY <1>5 DEF DevBoot
  <2>3. pc \notin {"hresp", "exec", "upload"}
    BY <1>3, <2>2 DEF Answering, Transfer
  <2>4. FirstRead'
    <3>1. SUFFICES ASSUME pc = "hello1" PROVE FirstRead'
      BY <1>2 DEF FirstRead
    <3>2. off' = 0 /\ Len(rx') = 1
      BY <1>3, <1>4, <2>1, <2>2, <3>1 DEF FirstRead
    <3> QED  BY <2>1, <3>2 DEF FirstRead
  <2>5. OneItem'
    BY <1>3, <2>2 DEF OneItem, Wanted
  <2> QED  BY <1>2, <1>3, <2>2, <2>3, <2>4, <2>5 DEF Quiet, Answering, Transfer
<1>6. CASE DevTake
  <2> DEFINE i == Head(tx)
  <2>1. tx # <<>> /\ tx' = Tail(tx)
    BY <1>6 DEF DevTake
  <2>2. tx' = <<>> /\ Len(tx') = 0
    <3>1. Len(tx) <= 1 /\ tx \in Seq(Item)
      BY <1>1, <1>3 DEF OneItem
    <3>2. Tail(tx) \in Seq(Item) /\ Len(Tail(tx)) = Len(tx) - 1 /\ Len(tx) \in Nat
      BY <1>1, <2>1, HeadTailProperties, LenProperties
    <3>3. Len(Tail(tx)) \in Nat
      BY <3>2, LenProperties
    <3>4. Len(Tail(tx)) = 0
      BY <3>1, <3>2, <3>3
    <3> QED  BY <2>1, <3>2, <3>4, EmptySeq
  <2>3. pc \notin {"hello1", "nop", "hack", "hresp", "done"}
    BY <1>3, <2>1 DEF Quiet
  <2>4. Transfer'
    <3>1. SUFFICES ASSUME pc \in {"exec", "upload"} PROVE Transfer'
      BY <1>2 DEF Transfer
    <3>2. rx = <<>> /\ off = 0 /\ dev.st # "boot"
      BY <1>3, <2>1, <3>1 DEF Transfer
    <3>3. \/ i.k = "data" /\ dev.st = "want"
          \/ i.k = "hresp" /\ dev.st = "hello"
      BY <1>3, <2>1, <3>1 DEF Transfer, OneItem, Wanted
    <3>4. ASSUME rx' = <<>>, off' = 0, dev'.st # "boot" PROVE Transfer'
      BY <2>2, <3>4 DEF Transfer
    <3>5. ASSUME NEW p, Say(p), p.k \in {"cmdready", "end"}, dev'.st # "boot" PROVE Transfer'
      <4>1. off' = 0 /\ Len(rx') = 1 /\ Head(rx') = p
        BY <1>4, <3>2, <3>5
      <4> QED  BY <2>2, <3>5, <4>1 DEF Transfer
    <3>6. ASSUME Ask PROVE Transfer'
      <4>1. PICK k \in {"read", "read64"}, a \in 0..LoaderLen, n \in {1, 2} :
              Say(Pkt(k, a, n)) /\ dev' = Device("want", a, n)
        BY <3>6 DEF Ask
      <4>2. off' = 0 /\ Len(rx') = 1 /\ Head(rx') = Pkt(k, a, n)
        BY <1>4, <3>2, <4>1
      <4>3. Head(rx').k = k /\ Head(rx').at = a /\ Head(rx').n = n
        BY <4>2 DEF Pkt
      <4>4. dev'.st = "want" /\ dev'.at = a /\ dev'.n = n
        BY <4>1 DEF Device
      <4> QED  BY <2>2, <4>1, <4>2, <4>3, <4>4 DEF Transfer, Wanted
    <3>7. ASSUME NEW x \in {0, 1}, EndTransfer(x) PROVE Transfer'
      <4>1. Say(Pkt("end", 0, x)) /\ dev'.st # "boot" /\ Pkt("end", 0, x).k = "end"
        BY <1>1, <3>7 DEF EndTransfer, DeviceOK, Pkt
      <4> QED  BY <3>5, <4>1
    <3>8. CASE i.k = "data" /\ dev.st = "want"
      <4>1. Ask \/ EndTransfer(0) \/ EndTransfer(1)
        BY <1>6, <3>8 DEF DevTake
      <4> QED  BY <3>6, <3>7, <4>1
    <3>9. CASE i.k = "hresp" /\ dev.st = "hello"
      <4>1. IF dev.n = 1
            THEN /\ Say(Pkt("cmdready", 0, 0)) \/ UNCHANGED input
                 /\ dev' = [dev EXCEPT !.st = "cmd"]
            ELSE Ask \/ EndTransfer(1)
        BY <1>6, <3>9 DEF DevTake
      <4>2. CASE dev.n = 1
        <5>1. dev'.st = "cmd" /\ Pkt("cmdready", 0, 0).k = "cmdready"
          BY <1>1, <4>1, <4>2 DEF DeviceOK, Pkt
        <5>2. CASE Say(Pkt("cmdready", 0, 0))
          BY <3>5, <5>1, <5>2
        <5>3. CASE UNCHANGED input
          BY <3>2, <3>4, <5>1, <5>3 DEF input
        <5> QED  BY <4>1, <4>2, <5>2, <5>3
      <4>3. CASE dev.n # 1
        BY <3>6, <3>7, <4>1, <4>3
      <4> QED  BY <4>2, <4>3
    <3> QED  BY <3>3, <3>8, <3>9
  <2> QED  BY <1>2, <1>3, <2>2, <2>3, <2>4 DEF Quiet, FirstRead, Answering, OneItem
<1>7. CASE DevRepeat
  <2>1. rx = <<>> /\ off = 0 /\ tx = <<>> /\ UNCHANGED <<tx, dev>> /\ dev.st \in {"want", "cmd"}
    BY <1>1, <1>7 DEF DevRepeat, InputOK
  <2>2. PICK p : /\ Say(p) /\ p.k \in {"cmdready", "read", "read64"}
                 /\ p.k \in {"read", "read64"} => Wanted(p)
    BY <1>7 DEF DevRepeat, Pkt, Wanted
  <2>3. off' = 0 /\ Len(rx') = 1 /\ Head(rx') = p
    BY <1>4, <2>1, <2>2
  <2>4. FirstRead'
    BY <2>2, <2>3, <2>1 DEF FirstRead
  <2>5. Transfer'
    BY <1>2, <2>1, <2>2, <2>3 DEF Transfer, Wanted
  <2>6. Answering'
    BY <1>2, <1>3, <2>1 DEF Answering
  <2>7. OneItem' /\ Quiet'
    BY <1>2, <1>3, <2>1 DEF OneItem, Quiet
  <2> QED  BY <2>4, <2>5, <2>6, <2>7
<1> QED  BY <1>5, <1>6, <1>7

\* A packet that is the only one is read whole.
LEMMA ReadsTheOne ==
  ASSUME InputOK, Len(rx) <= 1, off = 0, Avail >= 2, NEW n, n = Size(Head(rx)), Take(n)
  PROVE  rx' = <<>> /\ off' = 0
<1>1. rx # <<>> /\ rx \in Seq(Packet)
  BY HeadOfInput DEF InputOK
<1>2. Len(rx) = 1
  <2>1. Len(rx) \in Nat /\ Len(rx) # 0
    BY <1>1, LenProperties, EmptySeq
  <2> QED  BY <2>1
<1> QED  BY <1>2, TakeWhole

LEMMA InTurnClient ==
  ASSUME TypeOK, InTurn, Client PROVE InTurn'
<1> SUFFICES ASSUME plain' PROVE InTurn'
  BY DEF InTurn
<1>1. InputOK /\ tx \in Seq(Item) /\ ClientOK
  BY TypeParts
<1>2. plain
  BY DEF Client, HelloText, HelloUnexpected, HelloReceived, HelloMisread, HelloTimeout,
         NopWrite, NopWriteFails, NopRead, NopTimeout, HackWrite, HackRead, HelloRespond,
         ExecWrite, ExecWriteFails, ExecRead, ExecMisread, ExecTimeout, UploadChunk, ChunkFails,
         ChunkMisread, UploadEnd, UploadSkip, UploadTimeout, DoneWrite, DoneRead, Fails
<1>3. Quiet /\ FirstRead /\ Answering /\ Transfer /\ OneItem
  BY <1>2 DEF InTurn
<1>4. UNCHANGED dev
  BY <1>1, ClientTypes
<1>5. CASE HelloText \/ HelloUnexpected \/ ChunkFails \/ UploadTimeout \/ DoneRead \/ Fails
  <2>1. pc' = "end" /\ tx' = tx
    BY <1>5 DEF HelloText, HelloUnexpected, ChunkFails, UploadTimeout, DoneRead, Fails, Return
  <2> QED  BY <1>2, <1>4, <2>1, InTurnEnd
<1>6. CASE HelloReceived
  <2>1. AtHello /\ Avail >= 12 /\ Command = "hello" /\ Take(12) /\ pc' = "hresp" /\ tx' = tx
    BY <1>6 DEF HelloReceived
  <2>2. pc = "hello1"
    BY <1>3, <2>1 DEF AtHello, Quiet
  <2>3. Avail >= 2
    BY <1>1, <2>1, HeadOfInput DEF Avail, InputOK
  <2>4. Head(rx).k = "hello" /\ rx # <<>> /\ off = 0
    BY <1>1, <2>1, <2>3, CommandFits, HeadOfInput
  <2>5. rx' = <<>> /\ off' = 0
    <3>1. Size(Head(rx)) = 12 /\ Len(rx) <= 1
      BY <1>3, <2>2, <2>4 DEF Size, FirstRead
    <3> QED  BY <1>1, <2>1, <2>3, <2>4, <3>1, ReadsTheOne
  <2>6. tx = <<>> /\ dev.st = "hello"
    BY <1>3, <2>2, <2>4 DEF Quiet, FirstRead
  <2> QED  BY <1>4, <2>1, <2>5, <2>6 DEF InTurn, Quiet, FirstRead, Answering, Transfer, OneItem
<1>7. CASE HelloTimeout
  <2>1. AtHello /\ pc' \in {"nop", "end"} /\ tx' = tx
    BY <1>7 DEF HelloTimeout, GoTo, Return
  <2>2. tx = <<>>
    BY <1>3, <2>1 DEF AtHello, Quiet
  <2> QED  BY <1>2, <1>4, <2>1, <2>2, InTurnEnd
<1>8. CASE NopWriteFails
  <2>1. pc = "nop" /\ pc' \in {"hack", "end"} /\ tx' = tx
    BY <1>8 DEF NopWriteFails, NoFirehose, GoTo, Return
  <2>2. tx = <<>>
    BY <1>3, <2>1 DEF Quiet
  <2> QED  BY <1>2, <1>4, <2>1, <2>2, InTurnEnd
<1>9. CASE NopWrite \/ HackWrite \/ ExecWrite
  BY <1>9 DEF NopWrite, HackWrite, ExecWrite
<1>10. CASE NopRead \/ NopTimeout \/ HackRead \/ ExecRead \/ ExecMisread \/ ExecTimeout
  BY <1>3, <1>10 DEF NopRead, NopTimeout, HackRead, ExecRead, ExecMisread, ExecTimeout, Quiet
<1>11. CASE HelloRespond
  <2>1. pc = "hresp" /\ Put("hresp") /\ pc' \in {"exec", "upload", "end"} /\ UNCHANGED input
    BY <1>11 DEF HelloRespond, ToUpload, GoTo, Return
  <2>2. rx = <<>> /\ dev.st = "hello" /\ tx = <<>> /\ off = 0
    BY <1>1, <1>3, <2>1 DEF Answering, Quiet, InputOK
  <2>3. tx' = <<[k |-> "hresp", at |-> 0, n |-> 0]>>
    BY <2>1, <2>2 DEF Put
  <2>4. Len(tx') = 1 /\ Head(tx').k = "hresp"
    BY <2>3
  <2>5. rx' = <<>> /\ off' = 0 /\ dev'.st = "hello"
    BY <1>4, <2>1, <2>2 DEF input
  <2>6. Len(rx') = 0
    BY <2>5
  <2> QED  BY <2>1, <2>4, <2>5, <2>6 DEF InTurn, Quiet, FirstRead, Answering, Transfer, OneItem
<1>12. CASE ExecWriteFails
  <2>1. pc = "exec" /\ pc' \in {"exec", "upload", "end"} /\ UNCHANGED <<input, tx>>
    BY <1>12 DEF ExecWriteFails, NextQuery, ToUpload, GoTo, Return
  <2>2. Transfer' /\ OneItem'
    BY <1>3, <1>4, <2>1 DEF Transfer, OneItem, Wanted, input
  <2> QED  BY <2>1, <2>2 DEF InTurn, Quiet, FirstRead, Answering
<1>13. CASE UploadChunk
  <2>1. /\ pc = "upload" /\ Avail >= 2 /\ Command \in {"read", "read64"}
        /\ Take(Size(Head(rx))) /\ pc' = "upload"
        /\ tx' = Append(tx, [k |-> "data", at |-> Head(rx).at, n |-> Head(rx).n])
    BY <1>13 DEF UploadChunk, Requested
  <2>2. rx # <<>> /\ Head(rx).k \in {"read", "read64"}
    BY <1>1, <2>1, CommandFits, HeadOfInput
  <2>3. tx = <<>> /\ off = 0 /\ Len(rx) <= 1 /\ Wanted(Head(rx)) /\ dev.st # "boot"
    BY <1>3, <2>1, <2>2 DEF Transfer
  <2>4. rx' = <<>> /\ off' = 0
    BY <1>1, <2>1, <2>3, ReadsTheOne
  <2>5. tx' = <<[k |-> "data", at |-> Head(rx).at, n |-> Head(rx).n]>>
    BY <2>1, <2>3
  <2>6. Len(tx') = 1 /\ Head(tx') = [k |-> "data", at |-> Head(rx).at, n |-> Head(rx).n]
    BY <2>5
  <2>7. OneItem' /\ Head(tx').k = "data"
    BY <1>4, <2>3, <2>6 DEF OneItem, Wanted
  <2>8. Len(rx') = 0
    BY <2>4
  <2> QED  BY <1>4, <2>1, <2>3, <2>4, <2>7, <2>8 DEF InTurn, Quiet, FirstRead, Answering, Transfer
<1>14. CASE UploadEnd
  <2>1. pc = "upload" /\ Avail >= 2 /\ pc' = "done" /\ tx' = tx
    BY <1>14 DEF UploadEnd, GoTo
  <2>2. tx = <<>>
    BY <1>1, <1>3, <2>1, HeadOfInput DEF Transfer
  <2> QED  BY <1>2, <1>4, <2>1, <2>2, InTurnEnd
<1>15. CASE UploadSkip
  <2>1. /\ pc = "upload" /\ Avail >= 2 /\ Command \notin {"read", "read64", "end", "done"}
        /\ Take(2) /\ pc' = "upload" /\ tx' = tx
    BY <1>15 DEF UploadSkip, GoTo
  <2>2. rx # <<>>
    BY <1>1, <2>1, HeadOfInput
  <2>3. off = 0 /\ Len(rx) <= 1 /\ tx = <<>> /\ dev.st # "boot" /\ Head(rx).k = "cmdready"
    BY <1>3, <2>1, <2>2 DEF Transfer, Command
  <2>4. rx' = <<>> /\ off' = 0
    <3>1. Size(Head(rx)) = 2
      BY <2>3 DEF Size
    <3> QED  BY <1>1, <2>1, <2>3, <3>1, ReadsTheOne
  <2>5. Len(rx') = 0 /\ Len(tx') = 0
    BY <2>1, <2>3, <2>4
  <2> QED  BY <1>4, <2>1, <2>3, <2>4, <2>5
           DEF InTurn, Quiet, FirstRead, Answering, Transfer, OneItem
<1>16. CASE DoneWrite
  <2>1. pc = "done" /\ Put("done") /\ pc' = "doneread"
    BY <1>16 DEF DoneWrite, GoTo
  <2>2. tx' = <<[k |-> "done", at |-> 0, n |-> 0]>>
    BY <1>3, <2>1 DEF Quiet, Put
  <2>3. Len(tx') = 1 /\ Head(tx').k = "done"
    BY <2>2
  <2> QED  BY <2>1, <2>3 DEF InTurn, Quiet, FirstRead, Answering, Transfer, OneItem
<1>17. CASE HelloMisread \/ ChunkMisread
  <2>1. Stray /\ off >= 2 /\ pc \in {"hello1", "hello2", "upload"}
    BY <1>17 DEF HelloMisread, ChunkMisread, Stray, AtHello
  <2>2. off = 0
    BY <1>3, <2>1 DEF Quiet, FirstRead, Transfer
  <2> QED  BY <2>1, <2>2
<1> QED  BY <1>5, <1>6, <1>7, <1>8, <1>9, <1>10, <1>11, <1>12, <1>13, <1>14, <1>15, <1>16, <1>17
         DEF Client

LEMMA InTurnNext == TypeOK /\ InTurn /\ [Next]_vars => InTurn'
<1> SUFFICES ASSUME TypeOK, InTurn, [Next]_vars PROVE InTurn'
  OBVIOUS
<1>1. CASE Retry
  BY <1>1 DEF Retry, InTurn
<1>2. CASE UNCHANGED vars
  BY <1>2 DEF vars, host, input, InTurn, Quiet, FirstRead, Answering, Transfer, OneItem, Wanted
<1> QED  BY <1>1, <1>2, InTurnDevice, InTurnClient DEF Next

\* What is sent in the place of a chunk is the chunk the device waits for, in
\* every first try in which only answers are sent (upload_loader and
\* send_loader_chunk).
THEOREM ChunksAnswerRequests == Spec => []ChunkAnswersRequest
<1> QED  BY InitType, NextType, InTurnInit, InTurnNext, InTurnImplies, PTL DEF Spec
=============================================================================
