--------------------------- MODULE ConnectProofs ---------------------------
(***************************************************************************)
(* What DeviceConnect, UsbPorts and DiagFraming are proved to do, for any  *)
(* number of phones and ports and any waiting time.  First the packet,     *)
(* for every command and payload: the register that crc16_ccitt shifts to  *)
(* the right mirrors the one the receiver divides with, and what is glued  *)
(* together from escaped bytes is read back byte by byte.  Then what list, *)
(* list_all and the selections answer for phones that hold distinct ports. *)
(* Last the invariant of connect, one lemma for every action.              *)
(***************************************************************************)
EXTENDS DeviceConnect, NatRecursion, FiniteSetTheorems, FunctionTheorems, SequenceTheorems, TLAPS

-----------------------------------------------------------------------------
(* Recursion along 0..n, by its own equation *)

\* f is what begins with a and goes on by g.
Runs(f, a, n, g) == f = [k \in 0..n |-> IF k = 0 THEN a ELSE g[<<k, f[k - 1]>>]]

LEMMA RunsExist ==
  ASSUME NEW V, NEW a \in V, NEW n \in Nat, NEW g \in [(1..n) \X V -> V]
  PROVE  \E f \in [0..n -> V] : Runs(f, a, n, g)
<1>0. Goes(V, a, n, g)
  BY Recursion
<1>1. PICK f \in [0..n -> V] : f[0] = a /\ \A k \in 1..n : f[k] = g[<<k, f[k - 1]>>]
  BY <1>0 DEF Goes
<1>2. ASSUME NEW k \in 0..n PROVE f[k] = IF k = 0 THEN a ELSE g[<<k, f[k - 1]>>]
  <2>1. k # 0 => k \in 1..n
    OBVIOUS
  <2> QED  BY <1>1, <2>1
<1>3. f = [k \in 0..n |-> IF k = 0 THEN a ELSE g[<<k, f[k - 1]>>]]
  BY <1>2
<1> QED  BY <1>3 DEF Runs

-----------------------------------------------------------------------------
(* The checksum *)

Word == SUBSET Ones

LEMMA WordTypes ==
  ASSUME NEW c \in Word, NEW d \in Word, NEW n \in Nat
  PROVE  /\ Xor(c, d) \in Word /\ Shift(c, n) \in Word /\ CrcShift(c) \in Word
         /\ Ones \in Word /\ Byte \subseteq Word
<1>1. Shift(c, n) \in Word /\ Shift(c, 1) \in Word
  BY DEF Word, Ones, Shift
<1>2. Xor(c, d) \in Word /\ Xor(Shift(c, 1), {3, 10, 15}) \in Word
  BY <1>1 DEF Word, Ones, Xor
<1> QED  BY <1>1, <1>2 DEF Word, Ones, Byte, CrcShift

\* The register while one byte is taken.
ByteRun(f, crc, byte) ==
  /\ f \in [0..8 -> Word] /\ f[0] = Xor(crc, byte)
  /\ \A n \in 1..8 : f[n] = CrcShift(f[n - 1])

LEMMA CrcByteRuns ==
  ASSUME NEW crc \in Word, NEW byte \in Byte
  PROVE  \E f : ByteRun(f, crc, byte) /\ CrcByte(crc, byte) = f[8]
<1> DEFINE a == Xor(crc, byte)
           g == [p \in (1..8) \X Word |-> CrcShift(p[2])]
           Body(f) == [n \in 0..8 |-> IF n = 0 THEN a ELSE CrcShift(f[n - 1])]
<1>1. a \in Word /\ g \in [(1..8) \X Word -> Word]
  BY WordTypes
<1>2. PICK h \in [0..8 -> Word] : Runs(h, a, 8, g)
  <2> HIDE DEF a, g
  <2> QED  BY <1>1, RunsExist
<1>3. h = Body(h)
  <2>1. ASSUME NEW n \in 1..8 PROVE g[<<n, h[n - 1]>>] = CrcShift(h[n - 1])
    <3>1. n - 1 \in 0..8
      OBVIOUS
    <3>2. h[n - 1] \in Word
      BY <3>1
    <3> QED  BY <3>2
  <2>2. \A n \in 0..8 : h[n] = IF n = 0 THEN a ELSE g[<<n, h[n - 1]>>]
    BY <1>2 DEF Runs
  <2>3. \A n \in 0..8 : n # 0 => n \in 1..8
    OBVIOUS
  <2> HIDE DEF g, a
  <2>4. \A n \in 0..8 : h[n] = IF n = 0 THEN a ELSE CrcShift(h[n - 1])
    BY <2>1, <2>2, <2>3
  <2> QED  BY <2>4
<1> DEFINE f == CHOOSE f : f = Body(f)
<1>4. f = Body(f)
  BY <1>3
<1>5. CrcByte(crc, byte) = f[8]
  BY DEF CrcByte
<1> HIDE DEF f
<1>6. f[0] = a /\ \A n \in 1..8 : f[n] = CrcShift(f[n - 1])
  <2>1. 0 \in 0..8 /\ \A n \in 1..8 : n \in 0..8 /\ n # 0
    OBVIOUS
  <2> QED  BY <1>4, <2>1
<1>7. f \in [0..8 -> Word]
  <2> DEFINE S == {n \in Nat : n <= 8 => f[n] \in Word}
  <2>1. 0 \in S
    BY <1>1, <1>6
  <2>2. ASSUME NEW n \in Nat, n \in S PROVE n + 1 \in S
    <3>1. n + 1 <= 8 => n + 1 \in 1..8 /\ (n + 1) - 1 = n /\ f[n] \in Word
      BY <2>2
    <3>2. SUFFICES ASSUME n + 1 <= 8 PROVE f[n + 1] \in Word
      OBVIOUS
    <3>3. f[n + 1] = CrcShift(f[n]) /\ f[n] \in Word
      BY <1>6, <3>1, <3>2
    <3> QED  BY <3>3, WordTypes
  <2>3. Nat \subseteq S
    <3> HIDE DEF S
    <3> QED  BY <2>1, <2>2, Induction
  <2>4. \A n \in 0..8 : f[n] \in Word
    BY <2>3
  <2>5. DOMAIN f = 0..8
    BY <1>4
  <2> QED  BY <1>4, <2>4, <2>5
<1> QED  BY <1>5, <1>6, <1>7 DEF ByteRun

\* The register while the bytes of a packet are taken.
CrcRun(f, data) ==
  /\ f \in [0..Len(data) -> Word] /\ f[0] = Ones
  /\ \A n \in 1..Len(data) : f[n] = CrcByte(f[n - 1], data[n])

LEMMA CrcByteType ==
  ASSUME NEW crc \in Word, NEW byte \in Byte
  PROVE  CrcByte(crc, byte) \in Word
<1>1. PICK f : ByteRun(f, crc, byte) /\ CrcByte(crc, byte) = f[8]
  BY CrcByteRuns
<1>2. 8 \in 0..8
  OBVIOUS
<1> QED  BY <1>1, <1>2 DEF ByteRun

LEMMA Crc16Runs ==
  ASSUME NEW data \in Seq(Byte)
  PROVE  \E f : CrcRun(f, data) /\ Crc16(data) = Xor(f[Len(data)], Ones)
<1> DEFINE N == Len(data)
           g == [p \in (1..N) \X Word |-> CrcByte(p[2], data[p[1]])]
           Body(f) == [n \in 0..N |-> IF n = 0 THEN Ones ELSE CrcByte(f[n - 1], data[n])]
<1>0. N \in Nat /\ (\A n \in 1..N : data[n] \in Byte) /\ Ones \in Word
  BY LenProperties, ElementOfSeq DEF Word
<1>1. g \in [(1..N) \X Word -> Word]
  BY <1>0, CrcByteType
<1>2. PICK h \in [0..N -> Word] : Runs(h, Ones, N, g)
  <2> HIDE DEF g, N
  <2> QED  BY <1>0, <1>1, RunsExist
<1>3. h = Body(h)
  <2>1. ASSUME NEW n \in 1..N PROVE g[<<n, h[n - 1]>>] = CrcByte(h[n - 1], data[n])
    <3>1. n - 1 \in 0..N
      BY <1>0
    <3>2. h[n - 1] \in Word
      BY <3>1
    <3> QED  BY <3>2
  <2>2. \A n \in 0..N : h[n] = IF n = 0 THEN Ones ELSE g[<<n, h[n - 1]>>]
    BY <1>2 DEF Runs
  <2>3. \A n \in 0..N : n # 0 => n \in 1..N
    BY <1>0
  <2> HIDE DEF g
  <2>4. \A n \in 0..N : h[n] = IF n = 0 THEN Ones ELSE CrcByte(h[n - 1], data[n])
    BY <2>1, <2>2, <2>3
  <2> QED  BY <2>4
<1> DEFINE f == CHOOSE f : f = Body(f)
<1>4. f = Body(f)
  BY <1>3
<1>5. Crc16(data) = Xor(f[N], Ones)
  BY DEF Crc16
<1> HIDE DEF f
<1>6. f[0] = Ones /\ \A n \in 1..N : f[n] = CrcByte(f[n - 1], data[n])
  <2>1. 0 \in 0..N /\ \A n \in 1..N : n \in 0..N /\ n # 0
    BY <1>0
  <2> QED  BY <1>4, <2>1
<1>7. f \in [0..N -> Word]
  <2> DEFINE S == {n \in Nat : n <= N => f[n] \in Word}
  <2>1. 0 \in S
    BY <1>0, <1>6
  <2>2. ASSUME NEW n \in Nat, n \in S PROVE n + 1 \in S
    <3>1. n + 1 <= N => n + 1 \in 1..N /\ (n + 1) - 1 = n /\ f[n] \in Word
      BY <1>0, <2>2
    <3> QED  BY <1>0, <1>6, <3>1, CrcByteType
  <2>3. Nat \subseteq S
    <3> HIDE DEF S
    <3> QED  BY <2>1, <2>2, Induction
  <2>4. \A n \in 0..N : f[n] \in Word
    BY <1>0, <2>3
  <2>5. DOMAIN f = 0..N
    BY <1>4
  <2> QED  BY <1>4, <2>4, <2>5
<1> QED  BY <1>5, <1>6, <1>7 DEF CrcRun

\* The register of the receiver while the bits of a packet are taken.
DivisionRun(f, data) ==
  /\ f \in [0..8 * Len(data) -> Word] /\ f[0] = Ones
  /\ \A n \in 1..8 * Len(data) : f[n] = Divide(f[n - 1], BitOf(data, n))

LEMMA DivideType ==
  ASSUME NEW r \in Word, NEW bit
  PROVE  Divide(r, bit) \in Word
  BY DEF Divide, Word, Ones, Xor

LEMMA RemainderRuns ==
  ASSUME NEW data \in Seq(Byte)
  PROVE  \E f : DivisionRun(f, data) /\ Remainder(data) = f[8 * Len(data)]
<1> DEFINE N == 8 * Len(data)
           g == [p \in (1..N) \X Word |-> Divide(p[2], BitOf(data, p[1]))]
           Body(f) == [n \in 0..N |-> IF n = 0 THEN Ones ELSE Divide(f[n - 1], BitOf(data, n))]
<1>0. N \in Nat /\ Ones \in Word
  BY LenProperties DEF Word
<1>1. g \in [(1..N) \X Word -> Word]
  BY DivideType
<1>2. PICK h \in [0..N -> Word] : Runs(h, Ones, N, g)
  <2> HIDE DEF g, N
  <2> QED  BY <1>0, <1>1, RunsExist
<1>3. h = Body(h)
  <2> HIDE DEF N
  <2>1. ASSUME NEW n \in 1..N PROVE g[<<n, h[n - 1]>>] = Divide(h[n - 1], BitOf(data, n))
    <3>1. n - 1 \in 0..N
      BY <1>0
    <3>2. h[n - 1] \in Word
      BY <3>1
    <3> QED  BY <3>2
  <2>2. \A n \in 0..N : h[n] = IF n = 0 THEN Ones ELSE g[<<n, h[n - 1]>>]
    BY <1>2 DEF Runs
  <2>3. \A n \in 0..N : n # 0 => n \in 1..N
    BY <1>0
  <2> HIDE DEF g
  <2>4. \A n \in 0..N : h[n] = IF n = 0 THEN Ones ELSE Divide(h[n - 1], BitOf(data, n))
    BY <2>1, <2>2, <2>3
  <2> QED  BY <2>4
<1> DEFINE f == CHOOSE f : f = Body(f)
<1>4. f = Body(f)
  BY <1>3
<1>5. Remainder(data) = f[N]
  BY DEF Remainder
<1> HIDE DEF f
<1>6. f[0] = Ones /\ \A n \in 1..N : f[n] = Divide(f[n - 1], BitOf(data, n))
  <2>1. 0 \in 0..N /\ \A n \in 1..N : n \in 0..N /\ n # 0
    BY <1>0
  <2> QED  BY <1>4, <2>1
<1>7. f \in [0..N -> Word]
  <2> HIDE DEF N
  <2> DEFINE S == {n \in Nat : n <= N => f[n] \in Word}
  <2>1. 0 \in S
    BY <1>0, <1>6
  <2>2. ASSUME NEW n \in Nat, n \in S PROVE n + 1 \in S
    <3>1. n + 1 <= N => n + 1 \in 1..N /\ (n + 1) - 1 = n /\ f[n] \in Word
      BY <1>0, <2>2
    <3> QED  BY <1>0, <1>6, <3>1, DivideType
  <2>3. Nat \subseteq S
    <3> HIDE DEF S
    <3> QED  BY <2>1, <2>2, Induction
  <2>4. \A n \in 0..N : f[n] \in Word
    BY <1>0, <2>3
  <2>5. DOMAIN f = 0..N
    BY <1>4
  <2> QED  BY <1>4, <2>4, <2>5
<1> QED  BY <1>5, <1>6, <1>7 DEF DivisionRun

\* One bit at a time, on the side of the sender, and the same seen from the
\* other end of the register.
Fed(c, bit) == IF (0 \in c) # bit THEN Xor(Shift(c, 1), {3, 10, 15}) ELSE Shift(c, 1)
Mirror(c)   == {15 - i : i \in c}

LEMMA MirrorFed ==
  ASSUME NEW c \in Word, NEW bit \in BOOLEAN
  PROVE  Divide(Mirror(c), bit) = Mirror(Fed(c, bit))
<1> DEFINE m == Mirror(c)
           up == {i + 1 : i \in m \ {15}}
<1>1. 15 \in m <=> 0 \in c
  BY DEF Mirror, Word, Ones
<1>2. up = Mirror(Shift(c, 1))
  <2>1. ASSUME NEW i \in up PROVE i \in Mirror(Shift(c, 1))
    <3>1. PICK j \in c : i = (15 - j) + 1 /\ 15 - j # 15
      BY DEF Mirror
    <3>2. j \in Ones /\ j >= 1
      BY <3>1 DEF Word, Ones
    <3>3. j - 1 \in Shift(c, 1) /\ i = 15 - (j - 1)
      BY <3>1, <3>2 DEF Shift, Ones
    <3> QED  BY <3>3 DEF Mirror
  <2>2. ASSUME NEW i \in Mirror(Shift(c, 1)) PROVE i \in up
    <3>1. PICK j \in c : j >= 1 /\ i = 15 - (j - 1)
      BY DEF Mirror, Shift
    <3>2. j \in Ones /\ 15 - j \in m /\ 15 - j # 15 /\ i = (15 - j) + 1
      BY <3>1 DEF Word, Ones, Mirror
    <3> QED  BY <3>2
  <2> QED  BY <2>1, <2>2
<1>3. ASSUME NEW d \in Word PROVE Mirror(Xor(d, {3, 10, 15})) = Xor(Mirror(d), {0, 5, 12})
  BY DEF Mirror, Xor, Word, Ones
<1>4. Shift(c, 1) \in Word
  BY WordTypes
<1> QED  BY <1>1, <1>2, <1>3, <1>4 DEF Divide, Fed

LEMMA MirrorOnes == Mirror(Ones) = Ones
<1>1. ASSUME NEW i \in Ones PROVE i \in Mirror(Ones)
  <2>1. 15 - i \in Ones /\ i = 15 - (15 - i)
    BY DEF Ones
  <2> QED  BY <2>1 DEF Mirror
<1> QED  BY <1>1 DEF Mirror, Ones

\* A byte taken at once is the byte taken bit by bit.
LEMMA ShiftOn ==
  ASSUME NEW c \in Word, NEW b \in Byte, NEW n \in 0..7
  PROVE  CrcShift(Xor(c, Shift(b, n))) = Xor(Fed(c, n \in b), Shift(b, n + 1))
<1> DEFINE d == Shift(b, n)
<1>1. d \in Word /\ Shift(b, n + 1) \in Word /\ Shift(c, 1) \in Word
  BY WordTypes
<1>2. 0 \in d <=> n \in b
  BY DEF Shift, Byte
<1>3. Shift(d, 1) = Shift(b, n + 1)
  <2>1. ASSUME NEW i \in Shift(d, 1) PROVE i \in Shift(b, n + 1)
    <3>1. PICK j \in b : j >= n /\ j - n >= 1 /\ i = (j - n) - 1
      BY DEF Shift
    <3>2. j \in 0..7 /\ j >= n + 1 /\ i = j - (n + 1)
      BY <3>1 DEF Byte
    <3> QED  BY <3>2 DEF Shift
  <2>2. ASSUME NEW i \in Shift(b, n + 1) PROVE i \in Shift(d, 1)
    <3>1. PICK j \in b : j >= n + 1 /\ i = j - (n + 1)
      BY DEF Shift
    <3>2. j \in 0..7 /\ j >= n /\ j - n >= 1 /\ i = (j - n) - 1
      BY <3>1 DEF Byte
    <3> QED  BY <3>2 DEF Shift
  <2> QED  BY <2>1, <2>2
<1> HIDE DEF d
<1>4. Shift(Xor(c, d), 1) = Xor(Shift(c, 1), Shift(d, 1))
  <2>1. ASSUME NEW x \in Word, NEW i \in Int PROVE i \in Shift(x, 1) <=> i >= 0 /\ i + 1 \in x
    BY DEF Shift, Word, Ones
  <2>2. Xor(c, d) \in Word /\ Shift(d, 1) \in Word /\ Shift(Xor(c, d), 1) \in Word
        /\ Xor(Shift(c, 1), Shift(d, 1)) \in Word
    BY <1>1, WordTypes
  <2>3. ASSUME NEW i \in Int
        PROVE  i \in Shift(Xor(c, d), 1) <=> i \in Xor(Shift(c, 1), Shift(d, 1))
    BY <1>1, <2>1, <2>2 DEF Xor
  <2> QED  BY <2>2, <2>3 DEF Word, Ones
<1>5. 0 \in Xor(c, d) <=> (0 \in c) # (0 \in d)
  BY DEF Xor
<1>6. ASSUME NEW x, NEW y, NEW z PROVE Xor(Xor(x, y), z) = Xor(Xor(x, z), y)
  BY DEF Xor
<1> DEFINE e == Shift(b, n + 1)
           P == {3, 10, 15}
<1>7. CrcShift(Xor(c, d)) = IF (0 \in c) # (n \in b) THEN Xor(Xor(Shift(c, 1), e), P)
                            ELSE Xor(Shift(c, 1), e)
  BY <1>2, <1>3, <1>4, <1>5 DEF CrcShift
<1>8. Fed(c, n \in b) = IF (0 \in c) # (n \in b) THEN Xor(Shift(c, 1), P) ELSE Shift(c, 1)
  BY DEF Fed
<1> HIDE DEF e, P
<1>9. CrcShift(Xor(c, d)) = Xor(Fed(c, n \in b), e)
  <2>1. CASE (0 \in c) # (n \in b)
    BY <1>6, <1>7, <1>8, <2>1
  <2>2. CASE ~((0 \in c) # (n \in b))
    BY <1>7, <1>8, <2>2
  <2> QED  BY <2>1, <2>2
<1> QED  BY <1>9 DEF d, e

LEMMA ShiftWhole ==
  ASSUME NEW b \in Byte
  PROVE  Shift(b, 0) = b /\ Shift(b, 8) = {}
<1>1. \A j \in b : j \in 0..7 /\ j - 0 = j
  BY DEF Byte
<1> QED  BY <1>1 DEF Shift

\* The register before a byte, and after each of its bits.
BitRun(g, c, b) == g[0] = c /\ \A n \in 1..8 : g[n] = Fed(g[n - 1], n - 1 \in b)

LEMMA FedType ==
  ASSUME NEW c \in Word, NEW bit PROVE Fed(c, bit) \in Word
<1>1. {3, 10, 15} \in Word
  BY DEF Word, Ones
<1>3. Shift(c, 1) \in Word
  BY WordTypes
<1>2. Xor(Shift(c, 1), {3, 10, 15}) \in Word
  BY <1>1, <1>3, WordTypes
<1> QED  BY <1>2, <1>3 DEF Fed

LEMMA ByteByBits ==
  ASSUME NEW c \in Word, NEW b \in Byte, NEW g, BitRun(g, c, b)
  PROVE  CrcByte(c, b) = g[8]
<1>1. PICK f : ByteRun(f, c, b) /\ CrcByte(c, b) = f[8]
  BY CrcByteRuns
<1> DEFINE S == {n \in Nat : n <= 8 => g[n] \in Word /\ f[n] = Xor(g[n], Shift(b, n))}
<1>2. 0 \in S
  BY <1>1, ShiftWhole DEF ByteRun, BitRun
<1>3. ASSUME NEW n \in Nat, n \in S PROVE n + 1 \in S
  <2> SUFFICES ASSUME n + 1 <= 8 PROVE g[n + 1] \in Word /\ f[n + 1] = Xor(g[n + 1], Shift(b, n + 1))
    BY DEF S
  <2>1. n + 1 \in 1..8 /\ (n + 1) - 1 = n /\ n \in 0..7 /\ n <= 8
    OBVIOUS
  <2>2. g[n + 1] = Fed(g[n], n \in b) /\ f[n + 1] = CrcShift(f[n])
    BY <1>1, <2>1 DEF ByteRun, BitRun
  <2>3. g[n] \in Word /\ f[n] = Xor(g[n], Shift(b, n))
    BY <1>3, <2>1
  <2> QED  BY <2>1, <2>2, <2>3, ShiftOn, FedType
<1>4. 8 \in S
  <2> HIDE DEF S
  <2> QED  BY <1>2, <1>3, Induction
<1>5. f[8] = Xor(g[8], {})
  BY <1>4, ShiftWhole
<1>6. Xor(g[8], {}) = g[8]
  BY DEF Xor
<1> QED  BY <1>1, <1>5, <1>6

LEMMA MirrorTwice ==
  ASSUME NEW c \in Word PROVE Mirror(c) \in Word /\ Mirror(Mirror(c)) = c
<1>1. Mirror(c) \in Word
  BY DEF Mirror, Word, Ones
<1>2. ASSUME NEW i \in c PROVE i \in Mirror(Mirror(c))
  <2>1. 15 - i \in Mirror(c) /\ i = 15 - (15 - i)
    BY DEF Mirror, Word, Ones
  <2> QED  BY <2>1 DEF Mirror
<1>3. ASSUME NEW i \in Mirror(Mirror(c)) PROVE i \in c
  <2>1. PICK j \in c : i = 15 - (15 - j)
    BY DEF Mirror
  <2>2. j \in Int
    BY DEF Word, Ones
  <2> QED  BY <2>1, <2>2
<1> QED  BY <1>1, <1>2, <1>3

LEMMA BitPlace ==
  ASSUME NEW k \in Nat, NEW n \in 1..8
  PROVE  ((8 * k + n) - 1) % 8 = n - 1 /\ ((8 * k + n) - 1) \div 8 = k
  OBVIOUS

\* After every byte the registers of the two ends are the mirror of each other.
LEMMA EndsAgree ==
  ASSUME NEW data \in Seq(Byte), NEW r, DivisionRun(r, data), NEW f, CrcRun(f, data)
  PROVE  \A k \in 0..Len(data) : r[8 * k] = Mirror(f[k])
<1> DEFINE N == Len(data)
           S == {k \in Nat : k <= N => r[8 * k] = Mirror(f[k])}
<1>0. N \in Nat /\ (\A k \in 1..N : data[k] \in Byte) /\ f \in [0..N -> Word]
  BY LenProperties, ElementOfSeq DEF CrcRun
<1>1. 0 \in S
  <2>1. r[0] = Ones /\ f[0] = Ones /\ 8 * 0 = 0
    BY DEF DivisionRun, CrcRun
  <2> QED  BY <2>1, MirrorOnes
<1>2. ASSUME NEW k \in Nat, k \in S PROVE k + 1 \in S
  <2> SUFFICES ASSUME k + 1 <= N PROVE r[8 * (k + 1)] = Mirror(f[k + 1])
    BY DEF S
  <2> DEFINE g == [n \in 0..8 |-> Mirror(r[8 * k + n])]
             b == data[k + 1]
  <2>1. k \in 0..N /\ k + 1 \in 1..N /\ (k + 1) - 1 = k /\ b \in Byte /\ k <= N
    BY <1>0
  <2>2. r[8 * k] = Mirror(f[k]) /\ f[k] \in Word
    BY <1>0, <1>2, <2>1
  <2>3. \A n \in 0..8 : r[8 * k + n] \in Word
    <3>1. \A n \in 0..8 : 8 * k + n \in 0..8 * N
      BY <1>0, <2>1
    <3> QED  BY <3>1 DEF DivisionRun
  <2>4. g[0] = f[k]
    <3>1. 8 * k + 0 = 8 * k
      OBVIOUS
    <3> QED  BY <2>2, <3>1, MirrorTwice
  <2>5. ASSUME NEW n \in 1..8 PROVE g[n] = Fed(g[n - 1], n - 1 \in b)
    <3> DEFINE q == r[8 * k + (n - 1)]
    <3>1. n - 1 \in 0..8 /\ n \in 0..8 /\ 8 * k + n \in 1..8 * N /\ (8 * k + n) - 1 = 8 * k + (n - 1)
      BY <1>0, <2>1
    <3>2. BitOf(data, 8 * k + n) = (n - 1 \in b) /\ (n - 1 \in b) \in BOOLEAN
      <4>1. ((8 * k + n) - 1) % 8 = n - 1 /\ ((8 * k + n) - 1) \div 8 = k
        BY BitPlace
      <4>2. BitOf(data, 8 * k + n) = (((8 * k + n) - 1) % 8 \in data[(((8 * k + n) - 1) \div 8) + 1])
        BY Zenon DEF BitOf
      <4>3. BitOf(data, 8 * k + n) = (n - 1 \in data[k + 1])
        BY <4>1, <4>2, Zenon
      <4>4. (n - 1 \in b) \in BOOLEAN
        OBVIOUS
      <4> QED  BY <4>3, <4>4
    <3> DEFINE bit == n - 1 \in b
    <3>3. r[8 * k + n] = Divide(q, BitOf(data, 8 * k + n))
      BY <3>1 DEF DivisionRun
    <3>4. q \in Word
      BY <2>3, <3>1
    <3> HIDE DEF q, bit
    <3>5. Mirror(q) \in Word /\ q = Mirror(Mirror(q))
      BY <3>4, MirrorTwice
    <3>6. r[8 * k + n] = Divide(Mirror(Mirror(q)), bit)
      BY <3>2, <3>3, <3>5 DEF bit
    <3>7. Divide(Mirror(Mirror(q)), bit) = Mirror(Fed(Mirror(q), bit))
      <4>1. bit \in BOOLEAN
        BY <3>2 DEF bit
      <4> QED  BY <3>5, <4>1, MirrorFed
    <3>8. g[n] = Mirror(Mirror(Fed(Mirror(q), bit)))
      BY <3>1, <3>6, <3>7
    <3>9. Fed(Mirror(q), bit) \in Word
      BY <3>5, FedType
    <3>10. g[n - 1] = Mirror(q)
      BY <3>1 DEF q
    <3> QED  BY <3>8, <3>9, <3>10, MirrorTwice DEF bit
  <2> HIDE DEF g, b
  <2>6. CrcByte(f[k], b) = g[8]
    <3>1. BitRun(g, f[k], b)
      BY <2>4, <2>5 DEF BitRun
    <3> QED  BY <2>1, <2>2, <3>1, ByteByBits
  <2>7. f[k + 1] = CrcByte(f[k], b)
    BY <2>1 DEF CrcRun, b
  <2>8. g[8] = Mirror(r[8 * (k + 1)]) /\ r[8 * (k + 1)] \in Word
    <3>1. 8 * k + 8 = 8 * (k + 1) /\ 8 \in 0..8
      OBVIOUS
    <3> QED  BY <2>3, <3>1 DEF g
  <2> QED  BY <2>6, <2>7, <2>8, MirrorTwice
<1>3. Nat \subseteq S
  <2> HIDE DEF S
  <2> QED  BY <1>1, <1>2, Induction
<1> QED  BY <1>0, <1>3

-----------------------------------------------------------------------------
(* The check sequence *)

\* What the check sequence makes of the register does not depend on it: the low
\* byte turns the low half into ones, the high byte does so with the rest.
Rest(c) == c \cap (8..15)

LEMMA RestShifts ==
  ASSUME NEW c \in Word, NEW n \in 0..7
  PROVE  /\ 0 \notin Shift(Rest(c), n) /\ Shift(Rest(c), n) \in Word
         /\ Shift(Shift(Rest(c), n), 1) = Shift(Rest(c), n + 1)
<1>1. Rest(c) \in Word /\ \A j \in Rest(c) : j \in 8..15
  BY DEF Rest, Word, Ones
<1>2. Shift(Rest(c), n) \in Word
  BY <1>1, WordTypes
<1>3. 0 \notin Shift(Rest(c), n)
  BY <1>1 DEF Shift
<1>4. ASSUME NEW i \in Shift(Shift(Rest(c), n), 1) PROVE i \in Shift(Rest(c), n + 1)
  <2>1. PICK j \in Rest(c) : j >= n /\ j - n >= 1 /\ i = (j - n) - 1
    BY DEF Shift
  <2>2. j \in 8..15 /\ j >= n + 1 /\ i = j - (n + 1)
    BY <1>1, <2>1
  <2> QED  BY <2>2 DEF Shift
<1>5. ASSUME NEW i \in Shift(Rest(c), n + 1) PROVE i \in Shift(Shift(Rest(c), n), 1)
  <2>1. PICK j \in Rest(c) : j >= n + 1 /\ i = j - (n + 1)
    BY DEF Shift
  <2>2. j \in 8..15 /\ j >= n /\ j - n >= 1 /\ i = (j - n) - 1
    BY <1>1, <2>1
  <2> QED  BY <2>2 DEF Shift
<1> QED  BY <1>2, <1>3, <1>4, <1>5

LEMMA ShiftApart ==
  ASSUME NEW k \in Word, NEW c \in Word, NEW n \in 0..7
  PROVE  CrcShift(Xor(k, Shift(Rest(c), n))) = Xor(CrcShift(k), Shift(Rest(c), n + 1))
<1> DEFINE d == Shift(Rest(c), n)
           e == Shift(Rest(c), n + 1)
           P == {3, 10, 15}
<1>1. 0 \notin d /\ d \in Word /\ Shift(d, 1) = e
  BY RestShifts
<1> HIDE DEF d, e
<1>2. Shift(Xor(k, d), 1) = Xor(Shift(k, 1), e)
  <2>1. ASSUME NEW x \in Word, NEW i \in Int PROVE i \in Shift(x, 1) <=> i >= 0 /\ i + 1 \in x
    BY DEF Shift, Word, Ones
  <2>2. Xor(k, d) \in Word
    BY <1>1, WordTypes
  <2>3. ASSUME NEW i \in Int PROVE i \in Shift(Xor(k, d), 1) <=> i \in Xor(Shift(k, 1), Shift(d, 1))
    BY <1>1, <2>1, <2>2 DEF Xor
  <2>4. Shift(Xor(k, d), 1) \in Word /\ Shift(k, 1) \in Word /\ Shift(d, 1) \in Word
    BY <1>1, <2>2, WordTypes
  <2>5. Xor(Shift(k, 1), Shift(d, 1)) \in Word
    BY <2>4, WordTypes
  <2> QED  BY <1>1, <2>3, <2>4, <2>5 DEF Word, Ones
<1>3. 0 \in Xor(k, d) <=> 0 \in k
  BY <1>1 DEF Xor
<1>4. ASSUME NEW x, NEW y, NEW z PROVE Xor(Xor(x, y), z) = Xor(Xor(x, z), y)
  BY DEF Xor
<1>5. CrcShift(Xor(k, d)) = IF 0 \in k THEN Xor(Xor(Shift(k, 1), e), P) ELSE Xor(Shift(k, 1), e)
  BY <1>2, <1>3 DEF CrcShift
<1>6. CrcShift(k) = IF 0 \in k THEN Xor(Shift(k, 1), P) ELSE Shift(k, 1)
  BY DEF CrcShift
<1> HIDE DEF P
<1>7. CrcShift(Xor(k, d)) = Xor(CrcShift(k), e)
  <2>1. CASE 0 \in k
    BY <1>4, <1>5, <1>6, <2>1
  <2>2. CASE 0 \notin k
    BY <1>5, <1>6, <2>2
  <2> QED  BY <2>1, <2>2
<1> QED  BY <1>7 DEF d, e

LEMMA ShiftMember ==
  ASSUME NEW c \in Word, NEW n \in Nat, NEW i \in Int
  PROVE  i \in Shift(c, n) <=> i >= 0 /\ i + n \in c
<1>1. ASSUME i \in Shift(c, n) PROVE i >= 0 /\ i + n \in c
  <2>1. PICK j \in c : j >= n /\ i = j - n
    BY <1>1 DEF Shift
  <2>2. j \in Int
    BY DEF Word, Ones
  <2>3. i + n = j
    BY <2>1, <2>2
  <2> QED  BY <2>1, <2>2, <2>3
<1>2. ASSUME i >= 0, i + n \in c PROVE i \in Shift(c, n)
  <2>1. i + n >= n /\ i = (i + n) - n
    BY <1>2
  <2> QED  BY <1>2, <2>1 DEF Shift
<1> QED  BY <1>1, <1>2

\* The low byte of the check sequence, bit by bit.
LEMMA LowByte ==
  ASSUME NEW c \in Word
  PROVE  CrcByte(c, Xor(c, Ones) \cap (0..7)) = Xor({3, 4, 5, 6, 8, 9, 10, 11}, Shift(Rest(c), 8))
<1> DEFINE byte == Xor(c, Ones) \cap (0..7)
           R(n) == Shift(Rest(c), n)
<1>1. byte \in Byte
  BY DEF Byte
<1>2. PICK f : ByteRun(f, c, byte) /\ CrcByte(c, byte) = f[8]
  <2> HIDE DEF byte
  <2> QED  BY <1>1, CrcByteRuns
<1>3. Rest(c) \in Word /\ R(0) = Rest(c)
  <2>1. \A i \in Rest(c) : i \in Nat /\ i - 0 = i
    BY DEF Rest
  <2> QED  BY <2>1 DEF Rest, Word, Shift
<1>4. f[0] = Xor({0, 1, 2, 3, 4, 5, 6, 7}, R(0))
  <2>1. f[0] = Xor(c, byte)
    BY <1>2 DEF ByteRun
  <2>2. Xor(c, byte) = Xor({0, 1, 2, 3, 4, 5, 6, 7}, Rest(c))
    <3>1. ASSUME NEW i \in Ones
          PROVE  i \in Xor(c, byte) <=> i \in Xor({0, 1, 2, 3, 4, 5, 6, 7}, Rest(c))
      <4>1. CASE i \in 0..7
        <5>1. i \notin 8..15 /\ i \in {0, 1, 2, 3, 4, 5, 6, 7} /\ i \in Ones
          BY <4>1
        <5> QED  BY <4>1, <5>1 DEF Xor, Rest
      <4>2. CASE i \notin 0..7
        <5>1. i \in 8..15 /\ i \notin {0, 1, 2, 3, 4, 5, 6, 7}
          BY <4>2 DEF Ones
        <5> QED  BY <4>2, <5>1 DEF Xor, Rest
      <4> QED  BY <4>1, <4>2
    <3>2. Xor(c, byte) \subseteq Ones
      BY DEF Xor, Word, Ones
    <3>3. Xor({0, 1, 2, 3, 4, 5, 6, 7}, Rest(c)) \subseteq Ones
      BY DEF Xor, Rest, Word, Ones
    <3> QED  BY <3>1, <3>2, <3>3
  <2> QED  BY <1>3, <2>1, <2>2
<1>5. f[1] = Xor({0, 1, 2, 4, 5, 6, 10, 15}, R(1))
  <2> DEFINE k == {0, 1, 2, 3, 4, 5, 6, 7}
  <2>1. 0 \in 0..7 /\ 1 \in 1..8 /\ 1 - 1 = 0 /\ 0 + 1 = 1
    OBVIOUS
  <2>2. k \in Word
    BY DEF Word, Ones
  <2>3. CrcShift(k) = {0, 1, 2, 4, 5, 6, 10, 15}
    BY DEF CrcShift, Shift, Xor
  <2> HIDE DEF k
  <2>4. CrcShift(Xor(k, R(0))) = Xor(CrcShift(k), R(1))
    BY <2>1, <2>2, ShiftApart
  <2>5. f[1] = CrcShift(f[0])
    BY <1>2, <2>1 DEF ByteRun
  <2> QED  BY <1>4, <2>3, <2>4, <2>5 DEF k
<1>6. f[2] = Xor({0, 1, 4, 5, 9, 10, 14, 15}, R(2))
  <2> DEFINE k == {0, 1, 2, 4, 5, 6, 10, 15}
  <2>1. 1 \in 0..7 /\ 2 \in 1..8 /\ 2 - 1 = 1 /\ 1 + 1 = 2
    OBVIOUS
  <2>2. k \in Word
    BY DEF Word, Ones
  <2>3. CrcShift(k) = {0, 1, 4, 5, 9, 10, 14, 15}
    BY DEF CrcShift, Shift, Xor
  <2> HIDE DEF k
  <2>4. CrcShift(Xor(k, R(1))) = Xor(CrcShift(k), R(2))
    BY <2>1, <2>2, ShiftApart
  <2>5. f[2] = CrcShift(f[1])
    BY <1>2, <2>1 DEF ByteRun
  <2> QED  BY <1>5, <2>3, <2>4, <2>5 DEF k
<1>7. f[3] = Xor({0, 4, 8, 9, 10, 13, 14, 15}, R(3))
  <2> DEFINE k == {0, 1, 4, 5, 9, 10, 14, 15}
  <2>1. 2 \in 0..7 /\ 3 \in 1..8 /\ 3 - 1 = 2 /\ 2 + 1 = 3
    OBVIOUS
  <2>2. k \in Word
    BY DEF Word, Ones
  <2>3. CrcShift(k) = {0, 4, 8, 9, 10, 13, 14, 15}
    BY DEF CrcShift, Shift, Xor
  <2> HIDE DEF k
  <2>4. CrcShift(Xor(k, R(2))) = Xor(CrcShift(k), R(3))
    BY <2>1, <2>2, ShiftApart
  <2>5. f[3] = CrcShift(f[2])
    BY <1>2, <2>1 DEF ByteRun
  <2> QED  BY <1>6, <2>3, <2>4, <2>5 DEF k
<1>8. f[4] = Xor({7, 8, 9, 10, 12, 13, 14, 15}, R(4))
  <2> DEFINE k == {0, 4, 8, 9, 10, 13, 14, 15}
  <2>1. 3 \in 0..7 /\ 4 \in 1..8 /\ 4 - 1 = 3 /\ 3 + 1 = 4
    OBVIOUS
  <2>2. k \in Word
    BY DEF Word, Ones
  <2>3. CrcShift(k) = {7, 8, 9, 10, 12, 13, 14, 15}
    BY DEF CrcShift, Shift, Xor
  <2> HIDE DEF k
  <2>4. CrcShift(Xor(k, R(3))) = Xor(CrcShift(k), R(4))
    BY <2>1, <2>2, ShiftApart
  <2>5. f[4] = CrcShift(f[3])
    BY <1>2, <2>1 DEF ByteRun
  <2> QED  BY <1>7, <2>3, <2>4, <2>5 DEF k
<1>9. f[5] = Xor({6, 7, 8, 9, 11, 12, 13, 14}, R(5))
  <2> DEFINE k == {7, 8, 9, 10, 12, 13, 14, 15}
  <2>1. 4 \in 0..7 /\ 5 \in 1..8 /\ 5 - 1 = 4 /\ 4 + 1 = 5
    OBVIOUS
  <2>2. k \in Word
    BY DEF Word, Ones
  <2>3. CrcShift(k) = {6, 7, 8, 9, 11, 12, 13, 14}
    BY DEF CrcShift, Shift, Xor
  <2> HIDE DEF k
  <2>4. CrcShift(Xor(k, R(4))) = Xor(CrcShift(k), R(5))
    BY <2>1, <2>2, ShiftApart
  <2>5. f[5] = CrcShift(f[4])
    BY <1>2, <2>1 DEF ByteRun
  <2> QED  BY <1>8, <2>3, <2>4, <2>5 DEF k
<1>10. f[6] = Xor({5, 6, 7, 8, 10, 11, 12, 13}, R(6))
  <2> DEFINE k == {6, 7, 8, 9, 11, 12, 13, 14}
  <2>1. 5 \in 0..7 /\ 6 \in 1..8 /\ 6 - 1 = 5 /\ 5 + 1 = 6
    OBVIOUS
  <2>2. k \in Word
    BY DEF Word, Ones
  <2>3. CrcShift(k) = {5, 6, 7, 8, 10, 11, 12, 13}
    BY DEF CrcShift, Shift, Xor
  <2> HIDE DEF k
  <2>4. CrcShift(Xor(k, R(5))) = Xor(CrcShift(k), R(6))
    BY <2>1, <2>2, ShiftApart
  <2>5. f[6] = CrcShift(f[5])
    BY <1>2, <2>1 DEF ByteRun
  <2> QED  BY <1>9, <2>3, <2>4, <2>5 DEF k
<1>11. f[7] = Xor({4, 5, 6, 7, 9, 10, 11, 12}, R(7))
  <2> DEFINE k == {5, 6, 7, 8, 10, 11, 12, 13}
  <2>1. 6 \in 0..7 /\ 7 \in 1..8 /\ 7 - 1 = 6 /\ 6 + 1 = 7
    OBVIOUS
  <2>2. k \in Word
    BY DEF Word, Ones
  <2>3. CrcShift(k) = {4, 5, 6, 7, 9, 10, 11, 12}
    BY DEF CrcShift, Shift, Xor
  <2> HIDE DEF k
  <2>4. CrcShift(Xor(k, R(6))) = Xor(CrcShift(k), R(7))
    BY <2>1, <2>2, ShiftApart
  <2>5. f[7] = CrcShift(f[6])
    BY <1>2, <2>1 DEF ByteRun
  <2> QED  BY <1>10, <2>3, <2>4, <2>5 DEF k
<1>12. f[8] = Xor({3, 4, 5, 6, 8, 9, 10, 11}, R(8))
  <2> DEFINE k == {4, 5, 6, 7, 9, 10, 11, 12}
  <2>1. 7 \in 0..7 /\ 8 \in 1..8 /\ 8 - 1 = 7 /\ 7 + 1 = 8
    OBVIOUS
  <2>2. k \in Word
    BY DEF Word, Ones
  <2>3. CrcShift(k) = {3, 4, 5, 6, 8, 9, 10, 11}
    BY DEF CrcShift, Shift, Xor
  <2> HIDE DEF k
  <2>4. CrcShift(Xor(k, R(7))) = Xor(CrcShift(k), R(8))
    BY <2>1, <2>2, ShiftApart
  <2>5. f[8] = CrcShift(f[7])
    BY <1>2, <2>1 DEF ByteRun
  <2> QED  BY <1>11, <2>3, <2>4, <2>5 DEF k
<1> QED  BY <1>2, <1>12

\* The high byte: what is left is the same whatever was sent.
LEMMA HighByte ==
  ASSUME NEW c \in Word
  PROVE  CrcByte(Xor({3, 4, 5, 6, 8, 9, 10, 11}, Shift(Rest(c), 8)), Shift(Xor(c, Ones), 8)) = {3, 4, 5, 7, 12, 13, 14, 15}
<1> DEFINE d == Xor({3, 4, 5, 6, 8, 9, 10, 11}, Shift(Rest(c), 8))
           byte == Shift(Xor(c, Ones), 8)
<1>0. ASSUME NEW i \in Int
      PROVE  /\ i \in Shift(Rest(c), 8) <=> i \in 0..7 /\ i + 8 \in c
             /\ i \in byte <=> i \in 0..7 /\ i + 8 \notin c
  <2>1. Rest(c) \in Word /\ Xor(c, Ones) \in Word
    BY DEF Rest, Xor, Word, Ones
  <2>2. i \in Shift(Rest(c), 8) <=> i >= 0 /\ i + 8 \in Rest(c)
    BY <2>1, ShiftMember
  <2>3. i \in byte <=> i >= 0 /\ i + 8 \in Xor(c, Ones)
    BY <2>1, ShiftMember
  <2>4. i + 8 \in Rest(c) <=> i + 8 \in c /\ i + 8 \in 8..15
    BY DEF Rest
  <2>5. i + 8 \in Xor(c, Ones) <=> i + 8 \notin c /\ i + 8 \in 0..15
    BY DEF Xor, Word, Ones
  <2> HIDE DEF byte
  <2>6. i \in 0..7 <=> i >= 0 /\ i + 8 \in 8..15
    OBVIOUS
  <2>7. i >= 0 /\ i + 8 \in 0..15 <=> i >= 0 /\ i + 8 \in 8..15
    OBVIOUS
  <2> QED  BY <2>2, <2>3, <2>4, <2>5, <2>6, <2>7
<1>1. byte \in Byte /\ d \in Word /\ Shift(Rest(c), 8) \subseteq 0..7 /\ byte \subseteq 0..7
  <2>0. byte \subseteq Int /\ Shift(Rest(c), 8) \subseteq Int
    <3>1. Rest(c) \in Word /\ Xor(c, Ones) \in Word
      BY DEF Rest, Xor, Word, Ones
    <3>2. byte \in Word /\ Shift(Rest(c), 8) \in Word
      BY <3>1, WordTypes
    <3> QED  BY <3>2 DEF Word, Ones
  <2>1. byte \subseteq 0..7 /\ Shift(Rest(c), 8) \subseteq 0..7
    <3> HIDE DEF byte
    <3> QED  BY <1>0, <2>0
  <2> QED  BY <2>1 DEF Byte, Word, Ones, Xor
<1>2. PICK f : ByteRun(f, d, byte) /\ CrcByte(d, byte) = f[8]
  <2> HIDE DEF byte, d
  <2> QED  BY <1>1, CrcByteRuns
<1>3. f[0] = {0, 1, 2, 7, 8, 9, 10, 11}
  <2>1. f[0] = Xor(d, byte)
    BY <1>2 DEF ByteRun
  <2>2. ASSUME NEW i \in 0..7 PROVE i \in Shift(Rest(c), 8) <=> i \notin byte
    <3> HIDE DEF byte
    <3>1. i \in Int
      OBVIOUS
    <3> QED  BY <1>0, <3>1
  <2> DEFINE s == Shift(Rest(c), 8)
  <2> HIDE DEF byte, s
  <2>3. s \subseteq 0..7 /\ byte \subseteq 0..7 /\ \A i \in 0..7 : i \in s <=> i \notin byte
    BY <1>1, <2>2 DEF s
  <2>4. ASSUME NEW x PROVE x \in Xor(Xor({3, 4, 5, 6, 8, 9, 10, 11}, s), byte) <=> x \in {0, 1, 2, 7, 8, 9, 10, 11}
    <3>1. CASE x \in 0..7
      <4>1. x \in s <=> x \notin byte
        BY <2>3, <3>1
      <4>2. x \in {3, 4, 5, 6} <=> x \notin {0, 1, 2, 7}
        BY <3>1
      <4>3. x \notin {8, 9, 10, 11}
        BY <3>1
      <4> QED  BY <4>1, <4>2, <4>3 DEF Xor
    <3>2. CASE x \notin 0..7
      <4>1. x \notin s /\ x \notin byte
        BY <2>3, <3>2, Zenon
      <4>2. x \notin {0, 1, 2, 3, 4, 5, 6, 7}
        BY <3>2
      <4> QED  BY <4>1, <4>2 DEF Xor
    <3> QED  BY <3>1, <3>2
  <2> QED  BY <2>1, <2>4 DEF s
<1>4. f[1] = {0, 1, 3, 6, 7, 8, 9, 15}
  <2>1. 1 \in 1..8 /\ 1 - 1 = 0
    OBVIOUS
  <2>2. f[1] = CrcShift(f[0])
    BY <1>2, <2>1 DEF ByteRun
  <2>3. CrcShift({0, 1, 2, 7, 8, 9, 10, 11}) = {0, 1, 3, 6, 7, 8, 9, 15}
    BY DEF CrcShift, Shift, Xor
  <2> QED  BY <1>3, <2>2, <2>3
<1>5. f[2] = {0, 2, 3, 5, 6, 7, 8, 10, 14, 15}
  <2>1. 2 \in 1..8 /\ 2 - 1 = 1
    OBVIOUS
  <2>2. f[2] = CrcShift(f[1])
    BY <1>2, <2>1 DEF ByteRun
  <2>3. CrcShift({0, 1, 3, 6, 7, 8, 9, 15}) = {0, 2, 3, 5, 6, 7, 8, 10, 14, 15}
    BY DEF CrcShift, Shift, Xor
  <2> QED  BY <1>4, <2>2, <2>3
<1>6. f[3] = {1, 2, 3, 4, 5, 6, 7, 9, 10, 13, 14, 15}
  <2>1. 3 \in 1..8 /\ 3 - 1 = 2
    OBVIOUS
  <2>2. f[3] = CrcShift(f[2])
    BY <1>2, <2>1 DEF ByteRun
  <2>3. CrcShift({0, 2, 3, 5, 6, 7, 8, 10, 14, 15}) = {1, 2, 3, 4, 5, 6, 7, 9, 10, 13, 14, 15}
    BY DEF CrcShift, Shift, Xor
  <2> QED  BY <1>5, <2>2, <2>3
<1>7. f[4] = {0, 1, 2, 3, 4, 5, 6, 8, 9, 12, 13, 14}
  <2>1. 4 \in 1..8 /\ 4 - 1 = 3
    OBVIOUS
  <2>2. f[4] = CrcShift(f[3])
    BY <1>2, <2>1 DEF ByteRun
  <2>3. CrcShift({1, 2, 3, 4, 5, 6, 7, 9, 10, 13, 14, 15}) = {0, 1, 2, 3, 4, 5, 6, 8, 9, 12, 13, 14}
    BY DEF CrcShift, Shift, Xor
  <2> QED  BY <1>6, <2>2, <2>3
<1>8. f[5] = {0, 1, 2, 4, 5, 7, 8, 10, 11, 12, 13, 15}
  <2>1. 5 \in 1..8 /\ 5 - 1 = 4
    OBVIOUS
  <2>2. f[5] = CrcShift(f[4])
    BY <1>2, <2>1 DEF ByteRun
  <2>3. CrcShift({0, 1, 2, 3, 4, 5, 6, 8, 9, 12, 13, 14}) = {0, 1, 2, 4, 5, 7, 8, 10, 11, 12, 13, 15}
    BY DEF CrcShift, Shift, Xor
  <2> QED  BY <1>7, <2>2, <2>3
<1>9. f[6] = {0, 1, 4, 6, 7, 9, 11, 12, 14, 15}
  <2>1. 6 \in 1..8 /\ 6 - 1 = 5
    OBVIOUS
  <2>2. f[6] = CrcShift(f[5])
    BY <1>2, <2>1 DEF ByteRun
  <2>3. CrcShift({0, 1, 2, 4, 5, 7, 8, 10, 11, 12, 13, 15}) = {0, 1, 4, 6, 7, 9, 11, 12, 14, 15}
    BY DEF CrcShift, Shift, Xor
  <2> QED  BY <1>8, <2>2, <2>3
<1>10. f[7] = {0, 5, 6, 8, 11, 13, 14, 15}
  <2>1. 7 \in 1..8 /\ 7 - 1 = 6
    OBVIOUS
  <2>2. f[7] = CrcShift(f[6])
    BY <1>2, <2>1 DEF ByteRun
  <2>3. CrcShift({0, 1, 4, 6, 7, 9, 11, 12, 14, 15}) = {0, 5, 6, 8, 11, 13, 14, 15}
    BY DEF CrcShift, Shift, Xor
  <2> QED  BY <1>9, <2>2, <2>3
<1>11. f[8] = {3, 4, 5, 7, 12, 13, 14, 15}
  <2>1. 8 \in 1..8 /\ 8 - 1 = 7
    OBVIOUS
  <2>2. f[8] = CrcShift(f[7])
    BY <1>2, <2>1 DEF ByteRun
  <2>3. CrcShift({0, 5, 6, 8, 11, 13, 14, 15}) = {3, 4, 5, 7, 12, 13, 14, 15}
    BY DEF CrcShift, Shift, Xor
  <2> QED  BY <1>10, <2>2, <2>3
<1> QED  BY <1>2, <1>11

LEMMA CrcBytesType ==
  ASSUME NEW c \in Word
  PROVE  CrcBytes(c) \in Seq(Byte) /\ Len(CrcBytes(c)) = 2
         /\ CrcBytes(c)[1] = c \cap (0..7) /\ CrcBytes(c)[2] = Shift(c, 8)
<1>1. c \cap (0..7) \in Byte
  BY DEF Byte
<1>2. Shift(c, 8) \in Byte
  <2>1. Shift(c, 8) \in Word
    BY WordTypes
  <2>2. ASSUME NEW i \in Shift(c, 8) PROVE i \in 0..7
    <3>1. i \in Int /\ i >= 0 /\ i + 8 \in c
      BY <2>1, ShiftMember DEF Word, Ones
    <3>2. i + 8 \in 0..15
      BY <3>1 DEF Word, Ones
    <3> QED  BY <3>1, <3>2
  <2> QED  BY <2>2 DEF Byte
<1> QED  BY <1>1, <1>2 DEF CrcBytes

\* The register over a packet is the one over its beginning.
LEMMA SameBeginning ==
  ASSUME NEW s \in Seq(Byte), NEW t \in Seq(Byte), NEW f, CrcRun(f, s), NEW g, CrcRun(g, s \o t)
  PROVE  g[Len(s)] = f[Len(s)]
<1> DEFINE S == {n \in Nat : n <= Len(s) => g[n] = f[n]}
<1>1. /\ Len(s) \in Nat /\ Len(t) \in Nat /\ Len(s \o t) = Len(s) + Len(t)
      /\ \A n \in 1..Len(s) : (s \o t)[n] = s[n]
  <2>1. Len(s) \in Nat /\ Len(t) \in Nat
    BY LenProperties
  <2>2. \A n \in 1..Len(s) : n \in 1..(Len(s) + Len(t)) /\ n <= Len(s)
    BY <2>1
  <2> QED  BY <2>1, <2>2, ConcatProperties
<1>2. 0 \in S
  BY DEF CrcRun
<1>3. ASSUME NEW n \in Nat, n \in S PROVE n + 1 \in S
  <2>1. n + 1 <= Len(s) => /\ n + 1 \in 1..Len(s) /\ (n + 1) - 1 = n /\ n <= Len(s)
                           /\ n + 1 \in 1..(Len(s) + Len(t))
    BY <1>1
  <2> QED  BY <1>1, <1>3, <2>1 DEF CrcRun
<1>4. Nat \subseteq S
  <2> HIDE DEF S
  <2> QED  BY <1>2, <1>3, Induction
<1> QED  BY <1>1, <1>4

\* Whatever was sent, data and check sequence leave the remainder of X.25.
LEMMA RemainderGood ==
  ASSUME NEW data \in Seq(Byte)
  PROVE  Remainder(data \o CrcBytes(Crc16(data))) = Good
<1> DEFINE N == Len(data)
<1>1. PICK f : CrcRun(f, data) /\ Crc16(data) = Xor(f[N], Ones)
  BY Crc16Runs
<1> DEFINE c == f[N]
           t == CrcBytes(Xor(c, Ones))
           d == data \o t
<1>2. N \in Nat /\ c \in Word /\ Xor(c, Ones) \in Word
  <2>1. N \in Nat
    BY LenProperties
  <2>2. c \in Word /\ Ones \in Word
    BY <1>1, <2>1 DEF CrcRun, Word
  <2> QED  BY <2>1, <2>2, WordTypes
<1>3. /\ t \in Seq(Byte) /\ Len(t) = 2
      /\ t[1] = Xor(c, Ones) \cap (0..7) /\ t[2] = Shift(Xor(c, Ones), 8)
  <2> HIDE DEF c
  <2> QED  BY <1>2, CrcBytesType
<1> HIDE DEF c, t
<1>4. d \in Seq(Byte) /\ Len(d) = N + 2 /\ d[N + 1] = t[1] /\ d[N + 2] = t[2]
  <2>1. N + 1 \in 1..(N + 2) /\ N + 2 \in 1..(N + 2) /\ ~(N + 1 <= N) /\ ~(N + 2 <= N)
        /\ (N + 1) - N = 1 /\ (N + 2) - N = 2
    BY <1>2
  <2>2. d \in Seq(Byte) /\ Len(d) = Len(data) + Len(t)
        /\ \A i \in 1..(Len(data) + Len(t)) : d[i] = IF i <= Len(data) THEN data[i] ELSE t[i - Len(data)]
    <3>1. t \in Seq(Byte)
      BY <1>3
    <3> QED  BY <3>1, ConcatProperties
  <2>3. Len(d) = N + 2 /\ \A i \in 1..(N + 2) : d[i] = IF i <= N THEN data[i] ELSE t[i - N]
    BY <1>3, <2>2
  <2> HIDE DEF N, d
  <2> QED  BY <2>1, <2>2, <2>3
<1>5. PICK g : CrcRun(g, d)
  <2> HIDE DEF d
  <2> QED  BY <1>4, Crc16Runs
<1>6. g[N] = c
  BY <1>1, <1>3, <1>5, SameBeginning DEF c
<1>7. g[N + 1] = CrcByte(c, t[1]) /\ g[N + 2] = CrcByte(g[N + 1], t[2])
  <2>1. N + 1 \in 1..(N + 2) /\ (N + 1) - 1 = N /\ N + 2 \in 1..(N + 2) /\ (N + 2) - 1 = N + 1
    BY <1>2
  <2> HIDE DEF d
  <2> QED  BY <1>4, <1>5, <1>6, <2>1 DEF CrcRun
<1>8. g[N + 2] = {3, 4, 5, 7, 12, 13, 14, 15}
  BY <1>2, <1>3, <1>7, LowByte, HighByte
<1>9. PICK r : DivisionRun(r, d) /\ Remainder(d) = r[8 * Len(d)]
  <2> HIDE DEF d
  <2> QED  BY <1>4, RemainderRuns
<1>10. r[8 * Len(d)] = Mirror(g[Len(d)])
  <2>1. Len(d) \in 0..Len(d)
    BY <1>2, <1>4
  <2> HIDE DEF d
  <2> QED  BY <1>4, <1>5, <1>9, <2>1, EndsAgree
<1>11. Mirror({3, 4, 5, 7, 12, 13, 14, 15}) = Good
  BY DEF Mirror, Good
<1> QED  BY <1>1, <1>4, <1>8, <1>9, <1>10, <1>11 DEF t, c

-----------------------------------------------------------------------------
(* Escapes *)

\* A sequence of bytes, piece by piece.
Glued(f, n, piece) ==
  /\ f \in [0..n -> Seq(Byte)] /\ f[0] = <<>>
  /\ \A k \in 1..n : f[k] = f[k - 1] \o piece[k]

LEMMA GluedExists ==
  ASSUME NEW n \in Nat, NEW piece \in [1..n -> Seq(Byte)]
  PROVE  \E f \in [0..n -> Seq(Byte)] : f = [k \in 0..n |-> IF k = 0 THEN <<>> ELSE f[k - 1] \o piece[k]]
<1> DEFINE g == [p \in (1..n) \X Seq(Byte) |-> p[2] \o piece[p[1]]]
<1>1. <<>> \in Seq(Byte) /\ g \in [(1..n) \X Seq(Byte) -> Seq(Byte)]
  <2>1. ASSUME NEW k \in 1..n, NEW s \in Seq(Byte) PROVE s \o piece[k] \in Seq(Byte)
    BY ConcatProperties
  <2>2. \A p \in (1..n) \X Seq(Byte) : p[1] \in 1..n /\ p[2] \in Seq(Byte)
    OBVIOUS
  <2>3. <<>> \in Seq(Byte)
    BY EmptySeq
  <2> QED  BY <2>1, <2>2, <2>3
<1>2. PICK h \in [0..n -> Seq(Byte)] : Runs(h, <<>>, n, g)
  <2> HIDE DEF g
  <2> QED  BY <1>1, RunsExist
<1>3. ASSUME NEW k \in 1..n PROVE g[<<k, h[k - 1]>>] = h[k - 1] \o piece[k]
  <2>1. k - 1 \in 0..n
    OBVIOUS
  <2>2. h[k - 1] \in Seq(Byte)
    BY <2>1
  <2> QED  BY <2>2
<1>4. \A k \in 0..n : h[k] = IF k = 0 THEN <<>> ELSE g[<<k, h[k - 1]>>]
  BY <1>2 DEF Runs
<1>5. \A k \in 0..n : k # 0 => k \in 1..n
  OBVIOUS
<1> HIDE DEF g
<1>6. \A k \in 0..n : h[k] = IF k = 0 THEN <<>> ELSE h[k - 1] \o piece[k]
  BY <1>3, <1>4, <1>5
<1> QED  BY <1>6

LEMMA GluedFrom ==
  ASSUME NEW n \in Nat, NEW piece \in [1..n -> Seq(Byte)], NEW f,
         f = [k \in 0..n |-> IF k = 0 THEN <<>> ELSE f[k - 1] \o piece[k]]
  PROVE  Glued(f, n, piece)
<1>1. f[0] = <<>> /\ \A k \in 1..n : f[k] = f[k - 1] \o piece[k]
  <2>1. 0 \in 0..n /\ \A k \in 1..n : k \in 0..n /\ k # 0
    OBVIOUS
  <2> QED  BY <2>1
<1>2. f \in [0..n -> Seq(Byte)]
  <2> DEFINE S == {k \in Nat : k <= n => f[k] \in Seq(Byte)}
  <2>1. 0 \in S
    BY <1>1, EmptySeq
  <2>2. ASSUME NEW k \in Nat, k \in S PROVE k + 1 \in S
    <3>1. k + 1 <= n => k + 1 \in 1..n /\ (k + 1) - 1 = k /\ f[k] \in Seq(Byte)
      BY <2>2
    <3>2. SUFFICES ASSUME k + 1 <= n PROVE f[k + 1] \in Seq(Byte)
      OBVIOUS
    <3>3. f[k + 1] = f[k] \o piece[k + 1] /\ f[k] \in Seq(Byte) /\ piece[k + 1] \in Seq(Byte)
      BY <1>1, <3>1, <3>2
    <3> QED  BY <3>3, ConcatProperties
  <2>3. Nat \subseteq S
    <3> HIDE DEF S
    <3> QED  BY <2>1, <2>2, Induction
  <2>4. \A k \in 0..n : f[k] \in Seq(Byte)
    <3>1. ASSUME NEW k \in 0..n PROVE k \in S
      <4> HIDE DEF S
      <4>1. k \in Nat
        OBVIOUS
      <4> QED  BY <2>3, <4>1
    <3>2. ASSUME NEW k \in 0..n PROVE f[k] \in Seq(Byte)
      BY <3>1
    <3> QED  BY <3>2
  <2>5. DOMAIN f = 0..n
    OBVIOUS
  <2> QED  BY <2>4, <2>5
<1> QED  BY <1>1, <1>2 DEF Glued

\* What one byte becomes.
LEMMA EscapedTypes ==
  ASSUME NEW b \in Byte
  PROVE  /\ Escaped(b) \in Seq(Byte)
         /\ b \in {Flag, Escape} =>
              \E x \in Byte : Escaped(b) = <<Escape, x>> /\ x \notin {Flag, Escape} /\ Xor(x, {5}) = b
         /\ b \notin {Flag, Escape} => Escaped(b) = <<b>>
<1>0. Flag # Escape
  <2>1. 1 \in Flag /\ 1 \notin Escape
    BY DEF Flag, Escape
  <2> QED  BY <2>1
<1>1. CASE b = Flag
  <2>1. Escaped(b) = <<Escape, {1, 2, 3, 4, 6}>>
    BY <1>0, <1>1 DEF Escaped
  <2>2. {1, 2, 3, 4, 6} \in Byte /\ Escape \in Byte
    BY DEF Byte, Escape
  <2>3. {1, 2, 3, 4, 6} \notin {Flag, Escape} /\ Xor({1, 2, 3, 4, 6}, {5}) = Flag
    BY DEF Flag, Escape, Xor
  <2> QED  BY <1>1, <2>1, <2>2, <2>3
<1>2. CASE b = Escape
  <2>1. Escaped(b) = <<Escape, {0, 2, 3, 4, 6}>>
    BY <1>0, <1>2 DEF Escaped
  <2>2. {0, 2, 3, 4, 6} \in Byte /\ Escape \in Byte
    BY DEF Byte, Escape
  <2>3. {0, 2, 3, 4, 6} \notin {Flag, Escape} /\ Xor({0, 2, 3, 4, 6}, {5}) = Escape
    BY DEF Flag, Escape, Xor
  <2> QED  BY <1>2, <2>1, <2>2, <2>3
<1>3. CASE b \notin {Flag, Escape}
  <2>1. Escaped(b) = <<b>>
    BY <1>3 DEF Escaped
  <2> QED  BY <1>3, <2>1
<1> QED  BY <1>1, <1>2, <1>3

LEMMA HdlcEscapeRuns ==
  ASSUME NEW data \in Seq(Byte)
  PROVE  \E f : /\ Glued(f, Len(data), [n \in 1..Len(data) |-> Escaped(data[n])])
                /\ HdlcEscape(data) = f[Len(data)]
<1> DEFINE N == Len(data)
           piece == [n \in 1..N |-> Escaped(data[n])]
           Body(f) == [n \in 0..N |-> IF n = 0 THEN <<>> ELSE f[n - 1] \o Escaped(data[n])]
           Glue(f) == [n \in 0..N |-> IF n = 0 THEN <<>> ELSE f[n - 1] \o piece[n]]
<1>0. N \in Nat /\ \A n \in 1..N : data[n] \in Byte
  BY LenProperties, ElementOfSeq
<1>1. piece \in [1..N -> Seq(Byte)]
  BY <1>0, EscapedTypes
<1>2. ASSUME NEW f PROVE Body(f) = Glue(f)
  <2>1. \A n \in 0..N : n # 0 => n \in 1..N
    BY <1>0
  <2> QED  BY <2>1
<1>3. \E f : f = Glue(f)
  <2> HIDE DEF N, piece
  <2> QED  BY <1>0, <1>1, GluedExists
<1> DEFINE f == CHOOSE f : f = Body(f)
<1>4. f = Body(f)
  <2>1. \E h : h = Body(h)
    <3> HIDE DEF Body, Glue
    <3> QED  BY <1>2, <1>3
  <2> QED  BY <2>1
<1>5. HdlcEscape(data) = f[N]
  BY DEF HdlcEscape
<1>6. f = Glue(f)
  <2> HIDE DEF f, Glue, Body
  <2> QED  BY <1>2, <1>4
<1> HIDE DEF f
<1>7. Glued(f, N, piece)
  <2> HIDE DEF N, piece
  <2> QED  BY <1>0, <1>1, <1>6, GluedFrom
<1> QED  BY <1>5, <1>7

LEMMA PlainType ==
  ASSUME NEW s \in Seq(Byte), NEW n \in 1..Len(s)
  PROVE  Plain(s, n) \in Seq(Byte)
<1>1. s[n] \in Byte
  BY ElementOfSeq
<1>2. Xor(s[n], {5}) \in Byte
  BY <1>1 DEF Xor, Byte
<1>3. <<>> \in Seq(Byte) /\ <<s[n]>> \in Seq(Byte) /\ <<Xor(s[n], {5})>> \in Seq(Byte)
  BY <1>1, <1>2
<1> QED  BY <1>3 DEF Plain

LEMMA UnescapeRuns ==
  ASSUME NEW s \in Seq(Byte)
  PROVE  \E f : /\ Glued(f, Len(s), [n \in 1..Len(s) |-> Plain(s, n)])
                /\ Unescape(s) = f[Len(s)]
<1> DEFINE N == Len(s)
           piece == [n \in 1..N |-> Plain(s, n)]
           Body(f) == [n \in 0..N |-> IF n = 0 THEN <<>> ELSE f[n - 1] \o Plain(s, n)]
           Glue(f) == [n \in 0..N |-> IF n = 0 THEN <<>> ELSE f[n - 1] \o piece[n]]
<1>0. N \in Nat
  BY LenProperties
<1>1. piece \in [1..N -> Seq(Byte)]
  BY PlainType
<1>2. ASSUME NEW f PROVE Body(f) = Glue(f)
  <2>1. \A n \in 0..N : n # 0 => n \in 1..N
    BY <1>0
  <2> QED  BY <2>1
<1>3. \E f : f = Glue(f)
  <2> HIDE DEF N, piece
  <2> QED  BY <1>0, <1>1, GluedExists
<1> DEFINE f == CHOOSE f : f = Body(f)
<1>4. f = Body(f)
  <2>1. \E h : h = Body(h)
    <3> HIDE DEF Body, Glue
    <3> QED  BY <1>2, <1>3
  <2> QED  BY <2>1
<1>5. Unescape(s) = f[N]
  BY DEF Unescape
<1>6. f = Glue(f)
  <2> HIDE DEF f, Glue, Body
  <2> QED  BY <1>2, <1>4
<1> HIDE DEF f
<1>7. Glued(f, N, piece)
  <2> HIDE DEF N, piece
  <2> QED  BY <1>0, <1>1, <1>6, GluedFrom
<1> QED  BY <1>5, <1>7

\* s is free of flags, does not end in the middle of an escape, and reads t.
Reads(s, t) ==
  /\ s \in Seq(Byte) /\ t \in Seq(Byte) /\ Unescape(s) = t
  /\ \A n \in 1..Len(s) : s[n] # Flag
  /\ Len(s) > 0 => s[Len(s)] # Escape

\* The receiver reads the beginning of a packet as it reads that alone.
LEMMA SameReading ==
  ASSUME NEW s \in Seq(Byte), NEW t \in Seq(Byte), NEW f, NEW g,
         Glued(f, Len(s), [n \in 1..Len(s) |-> Plain(s, n)]),
         Glued(g, Len(s \o t), [n \in 1..Len(s \o t) |-> Plain(s \o t, n)])
  PROVE  g[Len(s)] = f[Len(s)]
<1> DEFINE S == {n \in Nat : n <= Len(s) => g[n] = f[n]}
           u == s \o t
<1>1. /\ Len(s) \in Nat /\ Len(t) \in Nat /\ Len(u) = Len(s) + Len(t)
      /\ \A n \in 1..Len(s) : u[n] = s[n]
  <2>1. Len(s) \in Nat /\ Len(t) \in Nat
    BY LenProperties
  <2>2. \A n \in 1..Len(s) : n \in 1..(Len(s) + Len(t)) /\ n <= Len(s)
    BY <2>1
  <2> QED  BY <2>1, <2>2, ConcatProperties
<1> HIDE DEF u
<1>2. 0 \in S
  BY DEF Glued
<1>3. ASSUME NEW n \in Nat, n \in S PROVE n + 1 \in S
  <2>1. ASSUME n + 1 <= Len(s)
        PROVE  /\ n + 1 \in 1..Len(s) /\ (n + 1) - 1 = n /\ n <= Len(s) /\ n + 1 \in 1..Len(u)
               /\ n + 1 > 1 => n \in 1..Len(s)
    BY <1>1, <2>1
  <2>2. ASSUME n + 1 <= Len(s) PROVE Plain(u, n + 1) = Plain(s, n + 1)
    BY <1>1, <2>1, <2>2 DEF Plain
  <2>3. ASSUME n + 1 <= Len(s)
        PROVE  f[n + 1] = f[n] \o Plain(s, n + 1) /\ g[n + 1] = g[n] \o Plain(u, n + 1)
    BY <2>1, <2>3 DEF Glued, u
  <2>4. ASSUME n + 1 <= Len(s) PROVE g[n + 1] = f[n + 1]
    <3>1. g[n] = f[n]
      BY <1>3, <2>1, <2>4
    <3> QED  BY <2>2, <2>3, <2>4, <3>1
  <2> QED  BY <2>4
<1>4. Nat \subseteq S
  <2> HIDE DEF S
  <2> QED  BY <1>2, <1>3, Induction
<1> QED  BY <1>1, <1>4

\* One more byte is escaped, and read.
LEMMA ReadsOneMore ==
  ASSUME NEW s, NEW t, Reads(s, t), NEW b \in Byte
  PROVE  Reads(s \o Escaped(b), t \o <<b>>)
<1> DEFINE e == Escaped(b)
           u == s \o e
           L == Len(s)
<1>1. s \in Seq(Byte) /\ t \in Seq(Byte) /\ e \in Seq(Byte) /\ L \in Nat /\ Len(e) \in Nat /\ <<b>> \in Seq(Byte)
  BY EscapedTypes, LenProperties DEF Reads
<1>2. /\ u \in Seq(Byte) /\ Len(u) = L + Len(e)
      /\ \A n \in 1..(L + Len(e)) : u[n] = IF n <= L THEN s[n] ELSE e[n - L]
  <2> HIDE DEF e
  <2> QED  BY <1>1, ConcatProperties
<1>3. t \o <<b>> \in Seq(Byte)
  BY <1>1, ConcatProperties
<1>4. PICK f : Glued(f, L, [n \in 1..L |-> Plain(s, n)]) /\ Unescape(s) = f[L]
  BY <1>1, UnescapeRuns
<1>5. PICK g : Glued(g, Len(u), [n \in 1..Len(u) |-> Plain(u, n)]) /\ Unescape(u) = g[Len(u)]
  <2> HIDE DEF u
  <2> QED  BY <1>2, UnescapeRuns
<1>6. g[L] = t
  <2>1. g[L] = f[L]
    <3> HIDE DEF e
    <3> QED  BY <1>1, <1>4, <1>5, SameReading
  <2> QED  BY <1>4, <2>1 DEF Reads
<1> HIDE DEF e, u, L
<1>7. \A n \in 1..Len(u) : g[n] = g[n - 1] \o Plain(u, n)
  BY <1>5 DEF Glued
<1>8. CASE b \notin {Flag, Escape}
  <2>1. e = <<b>> /\ Len(e) = 1 /\ e[1] = b
    BY <1>8, EscapedTypes DEF e
  <2>2. L + 1 \in 1..(L + 1) /\ (L + 1) - L = 1 /\ ~(L + 1 <= L) /\ (L + 1) - 1 = L
        /\ (L + 1 > 1 => L \in 1..(L + 1) /\ L <= L /\ L > 0)
    BY <1>1
  <2>3. Len(u) = L + 1 /\ u[L + 1] = b /\ (L + 1 > 1 => u[L] # Escape)
    BY <1>2, <2>1, <2>2 DEF Reads, L
  <2>4. Plain(u, L + 1) = <<b>>
    BY <1>8, <2>2, <2>3 DEF Plain
  <2>5. g[L + 1] = t \o <<b>>
    BY <1>6, <1>7, <2>2, <2>3, <2>4
  <2>6. ASSUME NEW n \in 1..(L + 1) PROVE u[n] # Flag
    <3>1. n = L + 1 \/ (n \in 1..L /\ n <= L)
      BY <1>1
    <3> QED  BY <1>2, <1>8, <2>1, <2>3, <3>1 DEF Reads, L
  <2> QED  BY <1>2, <1>3, <1>5, <1>8, <2>3, <2>5, <2>6 DEF Reads, u, e
<1>9. CASE b \in {Flag, Escape}
  <2>1. PICK x \in Byte : e = <<Escape, x>> /\ x \notin {Flag, Escape} /\ Xor(x, {5}) = b
    BY <1>9, EscapedTypes DEF e
  <2>2. Len(e) = 2 /\ e[1] = Escape /\ e[2] = x
    BY <2>1
  <2>3. /\ L + 1 \in 1..(L + 2) /\ (L + 1) - L = 1 /\ ~(L + 1 <= L) /\ (L + 1) - 1 = L
        /\ L + 2 \in 1..(L + 2) /\ (L + 2) - L = 2 /\ ~(L + 2 <= L) /\ (L + 2) - 1 = L + 1 /\ L + 2 > 1
    BY <1>1
  <2>4. Len(u) = L + 2 /\ u[L + 1] = Escape /\ u[L + 2] = x
    BY <1>2, <2>2, <2>3
  <2>5. Plain(u, L + 1) = <<>>
    BY <2>4 DEF Plain
  <2>6. Plain(u, L + 2) = <<b>>
    BY <2>1, <2>3, <2>4 DEF Plain
  <2>7. g[L + 1] = t
    BY <1>1, <1>6, <1>7, <2>3, <2>4, <2>5, ConcatEmptySeq
  <2>8. g[L + 2] = t \o <<b>>
    BY <1>7, <2>3, <2>4, <2>6, <2>7
  <2>9. Escape # Flag
    <3>1. 1 \in Flag /\ 1 \notin Escape
      BY DEF Flag, Escape
    <3> QED  BY <3>1
  <2>10. ASSUME NEW n \in 1..(L + 2) PROVE u[n] # Flag
    <3>1. n = L + 1 \/ n = L + 2 \/ (n \in 1..L /\ n <= L)
      BY <1>1
    <3> QED  BY <1>2, <2>1, <2>2, <2>4, <2>9, <3>1 DEF Reads, L
  <2> QED  BY <1>2, <1>3, <1>5, <2>1, <2>4, <2>8, <2>10 DEF Reads, u, e
<1> QED  BY <1>8, <1>9

\* What is escaped is read as it was, and holds no flag.
LEMMA EscapeIsRead ==
  ASSUME NEW data \in Seq(Byte)
  PROVE  Reads(HdlcEscape(data), data)
<1> DEFINE N == Len(data)
           piece == [n \in 1..N |-> Escaped(data[n])]
<1>1. PICK f : Glued(f, N, piece) /\ HdlcEscape(data) = f[N]
  BY HdlcEscapeRuns
<1>2. N \in Nat /\ \A n \in 1..N : data[n] \in Byte
  BY LenProperties, ElementOfSeq
<1> DEFINE S == {n \in Nat : n <= N => Reads(f[n], SubSeq(data, 1, n))}
<1>3. 0 \in S
  <2>1. PICK g : Glued(g, 0, [n \in 1..0 |-> Plain(<<>>, n)]) /\ Unescape(<<>>) = g[0]
    <3>1. <<>> \in Seq(Byte) /\ Len(<<>>) = 0
      BY EmptySeq
    <3> QED  BY <3>1, UnescapeRuns
  <2>2. Unescape(<<>>) = <<>>
    BY <2>1 DEF Glued
  <2>3. SubSeq(data, 1, 0) = <<>>
    BY SubSeqEmpty
  <2>4. f[0] = <<>>
    BY <1>1 DEF Glued
  <2>5. Reads(<<>>, <<>>)
    BY <2>2, EmptySeq DEF Reads
  <2> QED  BY <2>3, <2>4, <2>5
<1>4. ASSUME NEW n \in Nat, n \in S PROVE n + 1 \in S
  <2>1. SUFFICES ASSUME n + 1 <= N PROVE Reads(f[n + 1], SubSeq(data, 1, n + 1))
    OBVIOUS
  <2>2. n + 1 \in 1..N /\ (n + 1) - 1 = n /\ 1 \in 1..N /\ n <= N
    BY <1>2, <2>1
  <2>3. Reads(f[n], SubSeq(data, 1, n)) /\ data[n + 1] \in Byte
    BY <1>2, <1>4, <2>2
  <2>4. f[n + 1] = f[n] \o Escaped(data[n + 1])
    BY <1>1, <2>2 DEF Glued
  <2>5. SubSeq(data, 1, n + 1) = SubSeq(data, 1, n) \o <<data[n + 1]>>
    BY <2>2, SubSeqRecursiveSecond
  <2> QED  BY <2>3, <2>4, <2>5, ReadsOneMore
<1>5. N \in S
  <2> HIDE DEF S, N
  <2> QED  BY <1>2, <1>3, <1>4, Induction
<1>6. SubSeq(data, 1, N) = data
  BY SubSeqFull
<1>7. Reads(f[N], SubSeq(data, 1, N))
  <2> HIDE DEF piece
  <2>1. N <= N
    BY <1>2
  <2> QED  BY <1>5, <2>1
<1> QED  BY <1>1, <1>6, <1>7

LEMMA Crc16Type ==
  ASSUME NEW data \in Seq(Byte)
  PROVE  Crc16(data) \in Word
<1>1. PICK f : CrcRun(f, data) /\ Crc16(data) = Xor(f[Len(data)], Ones)
  BY Crc16Runs
<1>2. Len(data) \in 0..Len(data) /\ Ones \in Word
  BY LenProperties DEF Word
<1>3. f[Len(data)] \in Word
  BY <1>1, <1>2 DEF CrcRun
<1> QED  BY <1>1, <1>2, <1>3, WordTypes

\* Every packet of DIAG framing, whatever its command and payload: the
\* receiver finds in it the command and the payload, and no flag stands
\* between the two at its ends (diag_frame, hdlc_escape, crc16_ccitt).
THEOREM FramesAreRead ==
  ASSUME NEW cmd \in Byte, NEW payload \in Seq(Byte)
  PROVE  /\ Unframe(DiagFrame(cmd, payload)) = <<cmd>> \o payload
         /\ \A n \in 2..Len(DiagFrame(cmd, payload)) - 1 : DiagFrame(cmd, payload)[n] # Flag
<1> DEFINE data == <<cmd>> \o payload
           crc == CrcBytes(Crc16(data))
           whole == data \o crc
           e == HdlcEscape(whole)
           frame == <<Flag>> \o e \o <<Flag>>
<1>1. data \in Seq(Byte) /\ Len(data) \in Nat
  <2>1. <<cmd>> \in Seq(Byte)
    OBVIOUS
  <2>2. data \in Seq(Byte)
    BY <2>1, ConcatProperties
  <2> QED  BY <2>2, LenProperties
<1>2. crc \in Seq(Byte) /\ Len(crc) = 2
  <2> HIDE DEF data
  <2> QED  BY <1>1, Crc16Type, CrcBytesType
<1>3. Remainder(whole) = Good
  <2> HIDE DEF data
  <2> QED  BY <1>1, RemainderGood
<1>4. DiagFrame(cmd, payload) = frame
  BY DEF DiagFrame
<1> HIDE DEF data, crc
<1>5. whole \in Seq(Byte) /\ Len(whole) = Len(data) + 2
  <2>1. whole \in Seq(Byte) /\ Len(whole) = Len(data) + Len(crc)
    BY <1>1, <1>2, ConcatProperties
  <2> QED  BY <1>2, <2>1
<1>6. Len(whole) - 2 = Len(data)
  BY <1>1, <1>5
<1>7. SubSeq(whole, 1, Len(data)) = data
  <2>1. 1 \in 1..Len(data) /\ Len(data) \in 1..Len(data)
    <3>1. Len(data) = Len(<<cmd>>) + Len(payload)
      <4>1. <<cmd>> \in Seq(Byte)
        OBVIOUS
      <4> QED  BY <4>1, ConcatProperties DEF data
    <3>2. Len(<<cmd>>) = 1 /\ Len(payload) \in Nat
      BY LenProperties
    <3> QED  BY <1>1, <3>1, <3>2
  <2>2. SubSeq(data \o crc, 1, Len(data)) = SubSeq(data, 1, Len(data))
    BY <1>1, <1>2, <2>1, SubSeqOfConcat1
  <2> QED  BY <1>1, <2>2, SubSeqFull
<1>8. Reads(e, whole)
  <2> HIDE DEF whole
  <2> QED  BY <1>5, EscapeIsRead
<1> HIDE DEF whole, e
<1>9. e \in Seq(Byte) /\ Len(e) \in Nat
  BY <1>8, LenProperties DEF Reads
<1>10. /\ frame \in Seq(Byte) /\ Len(frame) = Len(e) + 2 /\ frame[1] = Flag /\ frame[Len(e) + 2] = Flag
       /\ \A n \in 1..Len(e) : frame[n + 1] = e[n]
  <2> DEFINE o == <<Flag>>
             a == o \o e
  <2>1. o \in Seq(Byte) /\ Len(o) = 1 /\ o[1] = Flag
    BY DEF Flag, Byte
  <2> HIDE DEF o
  <2>2. a \in Seq(Byte) /\ Len(a) = Len(o) + Len(e)
        /\ \A i \in 1..Len(o) + Len(e) : a[i] = IF i <= Len(o) THEN o[i] ELSE e[i - Len(o)]
    BY <1>9, <2>1, ConcatProperties
  <2> HIDE DEF a
  <2>3. a \o o \in Seq(Byte) /\ Len(a \o o) = Len(a) + Len(o)
        /\ \A i \in 1..Len(a) + Len(o) : (a \o o)[i] = IF i <= Len(a) THEN a[i] ELSE o[i - Len(a)]
    <3>1. a \in Seq(Byte) /\ o \in Seq(Byte)
      BY <2>1, <2>2
    <3> HIDE DEF frame, whole
    <3> QED  BY <3>1, ConcatProperties
  <2>4. frame = a \o o
    BY DEF a, o
  <2>5. /\ Len(a) = Len(e) + 1 /\ (Len(e) + 1) + 1 = Len(e) + 2
        /\ 1 \in 1..Len(e) + 1 /\ 1 \in 1..Len(e) + 2 /\ 1 <= Len(e) + 1
        /\ Len(e) + 2 \in 1..Len(e) + 2 /\ ~(Len(e) + 2 <= Len(e) + 1) /\ (Len(e) + 2) - (Len(e) + 1) = 1
    BY <1>9, <2>1, <2>2
  <2>6. frame \in Seq(Byte) /\ Len(frame) = Len(e) + 2
        /\ \A i \in 1..Len(e) + 2 : frame[i] = IF i <= Len(e) + 1 THEN a[i] ELSE o[i - (Len(e) + 1)]
    <3> HIDE DEF frame
    <3> QED  BY <2>1, <2>3, <2>4, <2>5
  <2>7. \A i \in 1..Len(e) + 1 : a[i] = IF i <= 1 THEN o[i] ELSE e[i - 1]
    BY <1>9, <2>1, <2>2
  <2> HIDE DEF frame
  <2>8. frame[1] = Flag /\ frame[Len(e) + 2] = Flag
    BY <2>1, <2>5, <2>6, <2>7
  <2>9. ASSUME NEW n \in 1..Len(e) PROVE frame[n + 1] = e[n]
    <3>1. n + 1 \in 1..Len(e) + 2 /\ n + 1 \in 1..Len(e) + 1 /\ n + 1 <= Len(e) + 1
          /\ ~(n + 1 <= 1) /\ (n + 1) - 1 = n
      BY <1>9
    <3> QED  BY <2>6, <2>7, <3>1
  <2> QED  BY <2>6, <2>8, <2>9
<1> HIDE DEF frame
<1>11. SubSeq(frame, 2, Len(frame) - 1) = e
  <2> DEFINE s == SubSeq(frame, 2, Len(frame) - 1)
  <2>1. Len(frame) - 1 = Len(e) + 1
    BY <1>9, <1>10
  <2>2. \A i \in 2..Len(e) + 1 : frame[i] \in Byte
    BY <1>9, <1>10, ElementOfSeq
  <2>3. s \in Seq(Byte) /\ Len(s) = (IF 2 <= Len(e) + 1 THEN (Len(e) + 1) - 2 + 1 ELSE 0)
        /\ \A i \in 1..(Len(e) + 1) - 2 + 1 : s[i] = frame[2 + i - 1]
    <3>1. 2 \in Int /\ Len(e) + 1 \in Int
      BY <1>9
    <3> QED  BY <2>1, <2>2, <3>1, SubSeqProperties
  <2> HIDE DEF s
  <2>4. Len(s) = Len(e)
    BY <1>9, <2>3
  <2>5. ASSUME NEW i \in 1..Len(s) PROVE s[i] = e[i]
    <3>1. i \in 1..Len(e) /\ i \in 1..(Len(e) + 1) - 2 + 1 /\ 2 + i - 1 = i + 1
      BY <1>9, <2>4
    <3> QED  BY <1>10, <2>3, <3>1
  <2>6. s = e
    BY <1>9, <2>3, <2>4, <2>5, SeqEqual
  <2> QED  BY <2>6 DEF s
<1>12. Unescape(e) = whole
  BY <1>8 DEF Reads
<1>13. Unframe(frame) = data
  <2>1. Unframe(frame) = SubSeq(whole, 1, Len(whole) - 2)
    BY <1>3, <1>10, <1>11, <1>12 DEF Unframe
  <2> QED  BY <1>6, <1>7, <2>1
<1>14. ASSUME NEW n \in 2..Len(frame) - 1 PROVE frame[n] # Flag
  <2>1. n - 1 \in 1..Len(e) /\ (n - 1) + 1 = n
    BY <1>9, <1>10
  <2>2. frame[n] = e[n - 1]
    BY <1>10, <2>1
  <2> QED  BY <1>8, <2>1, <2>2 DEF Reads
<1> QED  BY <1>4, <1>13, <1>14 DEF data

-----------------------------------------------------------------------------
(* Order *)

\* R lists S, each member once.
Lists(R, S) ==
  /\ Cardinality(S) \in Nat
  /\ R \in [1..Cardinality(S) -> S]
  /\ \A x \in S : \E k \in 1..Cardinality(S) : R[k] = x
  /\ \A i, j \in 1..Cardinality(S) : R[i] = R[j] => i = j

\* How many members stand below one, when no two share a rank.
LEMMA Below ==
  ASSUME NEW S, IsFiniteSet(S), NEW rank, \A x \in S : rank[x] \in Nat,
         \A x, y \in S : rank[x] = rank[y] => x = y,
         NEW x \in S, NEW y \in S
  PROVE  /\ Cardinality({z \in S : rank[z] < rank[x]}) \in 0..Cardinality(S) - 1
         /\ rank[x] < rank[y] => Cardinality({z \in S : rank[z] < rank[x]}) < Cardinality({z \in S : rank[z] < rank[y]})
<1> DEFINE A == {z \in S : rank[z] < rank[x]}
           B == {z \in S : rank[z] < rank[y]}
<1>1. A \in SUBSET S /\ B \in SUBSET S /\ x \notin A
  OBVIOUS
<1> HIDE DEF A, B
<1>2. /\ IsFiniteSet(A) /\ IsFiniteSet(B) /\ Cardinality(A) <= Cardinality(S)
      /\ (Cardinality(S) = Cardinality(A) => S = A)
  BY <1>1, FS_Subset
<1>3. Cardinality(A) \in Nat /\ Cardinality(S) \in Nat /\ Cardinality(B) \in Nat
  BY <1>2, FS_CardinalityType
<1>4. Cardinality(A) # Cardinality(S)
  BY <1>1, <1>2
<1>5. Cardinality(A) \in 0..Cardinality(S) - 1
  BY <1>2, <1>3, <1>4
<1>6. ASSUME rank[x] < rank[y] PROVE Cardinality(A) < Cardinality(B)
  <2>1. A \in SUBSET B /\ x \in B
    BY <1>6 DEF A, B
  <2>2. Cardinality(A) <= Cardinality(B) /\ (Cardinality(B) = Cardinality(A) => B = A)
    BY <1>2, <2>1, FS_Subset
  <2> QED  BY <1>1, <1>3, <2>1, <2>2
<1> QED  BY <1>5, <1>6 DEF A, B

\* The members of a finite set are listed by their rank.
LEMMA RankedLists ==
  ASSUME NEW S, IsFiniteSet(S), NEW rank, \A x \in S : rank[x] \in Nat,
         \A x, y \in S : rank[x] = rank[y] => x = y
  PROVE  Lists(Ranked(S, rank), S)
<1> DEFINE n == Cardinality(S)
           c == [x \in S |-> Cardinality({z \in S : rank[z] < rank[x]})]
           R == Ranked(S, rank)
<1>1. n \in Nat
  BY FS_CardinalityType
<1>2. c \in [S -> 0..n - 1]
  <2>1. ASSUME NEW x \in S PROVE Cardinality({z \in S : rank[z] < rank[x]}) \in 0..n - 1
    BY Below
  <2> QED  BY <2>1
<1>3. ASSUME NEW x \in S, NEW y \in S, c[x] = c[y] PROVE x = y
  <2>1. ~(rank[x] < rank[y]) /\ ~(rank[y] < rank[x])
    <3>1. c[x] \in Nat /\ c[y] \in Nat
      BY <1>1, <1>2
    <3>2. rank[x] < rank[y] => c[x] < c[y]
      BY Below
    <3>3. rank[y] < rank[x] => c[y] < c[x]
      BY Below
    <3> HIDE DEF c
    <3> QED  BY <1>3, <3>1, <3>2, <3>3
  <2> QED  BY <2>1
<1>4. \A k \in 0..n - 1 : \E x \in S : c[x] = k
  <2> HIDE DEF c
  <2>1. c \in Injection(S, 0..n - 1)
    BY <1>2, <1>3, Fun_IsInj
  <2>2. IsFiniteSet(0..n - 1) /\ Cardinality(0..n - 1) = n
    <3>1. 0 \in Int /\ n - 1 \in Int
      BY <1>1
    <3>2. IsFiniteSet(0..n - 1) /\ Cardinality(0..n - 1) = IF 0 > n - 1 THEN 0 ELSE (n - 1) - 0 + 1
      BY <3>1, FS_Interval
    <3>3. (IF 0 > n - 1 THEN 0 ELSE (n - 1) - 0 + 1) = n
      BY <1>1
    <3> QED  BY <3>2, <3>3
  <2>3. c \in Surjection(S, 0..n - 1)
    BY <2>1, <2>2, FS_Injection
  <2> QED  BY <2>3, Fun_SurjectionProperties
<1> DEFINE Place(k) == CHOOSE x \in S : Cardinality({y \in S : rank[y] < rank[x]}) = k - 1
<1>5. R = [k \in 1..n |-> Place(k)]
  BY DEF Ranked
<1>6. \A k \in 1..n : R[k] \in S /\ c[R[k]] = k - 1
  <2>1. ASSUME NEW k \in 1..n PROVE Place(k) \in S /\ c[Place(k)] = k - 1
    <3>1. k - 1 \in 0..n - 1
      BY <1>1
    <3>2. \E x \in S : Cardinality({y \in S : rank[y] < rank[x]}) = k - 1
      BY <1>4, <3>1
    <3>3. Place(k) \in S /\ Cardinality({y \in S : rank[y] < rank[Place(k)]}) = k - 1
      BY <3>2
    <3> HIDE DEF Place
    <3> QED  BY <3>3
  <2> HIDE DEF Place, c, R
  <2> QED  BY <1>5, <2>1
<1> HIDE DEF Place, c, R
<1>7. R \in [1..n -> S]
  BY <1>5, <1>6
<1>8. ASSUME NEW x \in S PROVE \E k \in 1..n : R[k] = x
  <2>1. c[x] + 1 \in 1..n /\ (c[x] + 1) - 1 = c[x]
    BY <1>1, <1>2
  <2> QED  BY <1>3, <1>6, <2>1
<1>9. ASSUME NEW i \in 1..n, NEW j \in 1..n, R[i] = R[j] PROVE i = j
  <2>1. i - 1 = j - 1
    BY <1>6, <1>9
  <2> QED  BY <1>1, <2>1
<1> QED  BY <1>1, <1>7, <1>8, <1>9 DEF Lists, R

-----------------------------------------------------------------------------
(* The bus *)

Phoned(k, f) == k \in Kinds /\ f \in [Devices -> Places] /\ Apart(f)

\* b is the bus of the phones k at f, and o says whose its devices are.
OnBus(b, o, k, f) ==
  /\ Len(b) \in Nat /\ DOMAIN b = 1..Len(b)
  /\ \A i \in DOMAIN b : /\ o[i] \in Devices /\ f[o[i]].mode # "off"
                         /\ b[i] = Descriptor(k[o[i]], f[o[i]])
  /\ \A i, j \in DOMAIN b : o[i] = o[j] => i = j
  /\ \A d \in Devices : f[d].mode # "off" => \E i \in DOMAIN b : o[i] = d

LEMMA BusIs ==
  ASSUME NEW k, NEW f, Phoned(k, f)
  PROVE  \E o : OnBus(BusOf(k, f), o, k, f)
<1> DEFINE S == {d \in Devices : f[d].mode # "off"}
           rank == [d \in Devices |-> d]
           o == Ranked(S, rank)
           n == Cardinality(S)
           b == BusOf(k, f)
<1>1. IsFiniteSet(S)
  BY ConnectAssumption, FS_Subset
<1>2. Lists(o, S)
  <2>1. (\A x \in S : rank[x] \in Nat) /\ \A x, y \in S : rank[x] = rank[y] => x = y
    BY ConnectAssumption
  <2> HIDE DEF rank, S
  <2> QED  BY <1>1, <2>1, RankedLists
<1>3. b = [i \in DOMAIN o |-> Descriptor(k[o[i]], f[o[i]])]
  BY DEF BusOf
<1>4. S \subseteq Devices /\ \A d \in Devices : d \in S <=> f[d].mode # "off"
  OBVIOUS
<1> HIDE DEF b, o, S, n
<1>5. n \in Nat /\ DOMAIN o = 1..n
  BY <1>2 DEF Lists, n
<1>6. DOMAIN b = 1..n /\ Len(b) = n /\ \A i \in 1..n : b[i] = Descriptor(k[o[i]], f[o[i]])
  BY <1>3, <1>5
<1>7. \A i \in 1..n : o[i] \in S
  BY <1>2 DEF Lists, n
<1>8. \A i, j \in 1..n : o[i] = o[j] => i = j
  BY <1>2 DEF Lists, n
<1>9. \A d \in S : \E i \in 1..n : o[i] = d
  BY <1>2 DEF Lists, n
<1>10. OnBus(b, o, k, f)
  <2>1. Len(b) \in Nat /\ DOMAIN b = 1..Len(b)
    BY <1>5, <1>6
  <2>2. \A i \in DOMAIN b : o[i] \in Devices /\ f[o[i]].mode # "off" /\ b[i] = Descriptor(k[o[i]], f[o[i]])
    BY <1>4, <1>6, <1>7
  <2>3. \A i, j \in DOMAIN b : o[i] = o[j] => i = j
    BY <1>6, <1>8
  <2>4. \A d \in Devices : f[d].mode # "off" => \E i \in DOMAIN b : o[i] = d
    BY <1>4, <1>6, <1>9
  <2> QED  BY <2>1, <2>2, <2>3, <2>4 DEF OnBus
<1> QED  BY <1>10 DEF b

LEMMA PlaceCases ==
  ASSUME NEW p \in Places
  PROVE  \/ p = Off /\ p.mode = "off" /\ p.ports = <<>>
         \/ p.mode = "edl" /\ \E x \in Ports : p.ports = <<x>>
         \/ p.mode = "diag" /\ \E x, y \in Ports : p.ports = <<x, y>>
  BY DEF Places, Off

LEMMA DescriptorIs ==
  ASSUME NEW kd, NEW p \in Places, p.mode # "off"
  PROVE  /\ Descriptor(kd, p).qc = TRUE /\ Descriptor(kd, p).serial = Serial(kd, p.mode)
         /\ Descriptor(kd, p).opens = kd.opens
         /\ p.mode = "edl" =>
              /\ Descriptor(kd, p).pid = "9008"
              /\ Descriptor(kd, p).ifaces = <<Iface(kd, p.ports, 1, "vendor_ff", "QDLoader", "9008")>>
         /\ p.mode = "diag" =>
              /\ Descriptor(kd, p).pid = "90B8"
              /\ Descriptor(kd, p).ifaces = <<Iface(kd, p.ports, 1, "vendor", "Diagnostics", "90B8"),
                                              Iface(kd, p.ports, 2, "vendor", "NMEA", "90B8")>>
         /\ p.mode \in {"edl", "diag"}
<1>1. p.mode \in {"edl", "diag"}
  BY PlaceCases
<1> QED  BY <1>1 DEF Descriptor

LEMMA EdlDescriptor ==
  ASSUME NEW kd, NEW p, p.mode = "edl"
  PROVE  Descriptor(kd, p).pid = "9008" /\ Descriptor(kd, p).serial = Serial(kd, "edl")
  BY DEF Descriptor

LEMMA DiagDescriptor ==
  ASSUME NEW kd, NEW p, p.mode = "diag"
  PROVE  /\ Descriptor(kd, p).pid = "90B8" /\ Descriptor(kd, p).serial = Serial(kd, "diag")
         /\ Descriptor(kd, p).ifaces = <<Iface(kd, p.ports, 1, "vendor", "Diagnostics", "90B8"),
                                         Iface(kd, p.ports, 2, "vendor", "NMEA", "90B8")>>
  BY DEF Descriptor

\* What the interfaces of a product id say of themselves.
Says9008(m) == Len(m) = 1 /\ DOMAIN m = 1..1 /\ m[1].mode = "Edl"
Says90B8(m) ==
  /\ Len(m) = 2 /\ DOMAIN m = 1..2 /\ m[1].mode = "Diag" /\ m[2].mode \in {"Diag", "Nmea"}
  /\ m[2].str \in {None, <<"NMEA">>}
Answered(pid, m) ==
  \/ m = <<>>
  \/ pid = "9008" /\ Says9008(m)
  \/ pid = "90B8" /\ Says90B8(m)

LEMMA IfaceModes ==
  ASSUME NEW s
  PROVE  /\ IfaceMode("9008", "vendor_ff", s) = "Edl"
         /\ IfaceMode("90B8", "vendor", s) \in {"Diag", "Nmea"}
         /\ s \in {None, <<"Diagnostics">>} => IfaceMode("90B8", "vendor", s) = "Diag"
<1>1. ToSet(<<"Diagnostics">>) = {"Diagnostics"}
  BY DEF ToSet
<1>2. IfaceMode("9008", "vendor_ff", s) = "Edl"
  BY DEF IfaceMode, EdlPids
<1>3. IfaceMode("90B8", "vendor", s) = IF s # None /\ "NMEA" \in ToSet(s) THEN "Nmea" ELSE "Diag"
  BY DEF IfaceMode
<1>4. s = <<"Diagnostics">> => "NMEA" \notin ToSet(s)
  BY <1>1
<1> QED  BY <1>2, <1>3, <1>4

LEMMA FirstIsMember ==
  ASSUME NEW S \in SUBSET Nat, S # {}
  PROVE  Min(S) \in S /\ \A y \in S : Min(S) <= y
  BY HasLeast DEF Min

\* One device answers the query with the modes of its interfaces.
Modes1(d) ==
  [i \in DOMAIN d.ifaces |->
     [mode |-> IfaceMode(d.pid, d.ifaces[i].class, IF d.opens THEN d.ifaces[i].str ELSE None),
      str |-> IF d.opens THEN d.ifaces[i].str ELSE None]]

LEMMA DescriptorAnswers ==
  ASSUME NEW kd, NEW p \in Places, p.mode # "off"
  PROVE  Answered(Descriptor(kd, p).pid, Modes1(Descriptor(kd, p)))
<1> DEFINE d == Descriptor(kd, p)
           s(i) == IF d.opens THEN d.ifaces[i].str ELSE None
           m == Modes1(d)
<1>1. CASE p.mode = "edl"
  <2>1. d.pid = "9008" /\ d.ifaces = <<Iface(kd, p.ports, 1, "vendor_ff", "QDLoader", "9008")>>
    BY <1>1, DescriptorIs
  <2>2. DOMAIN d.ifaces = 1..1 /\ d.ifaces[1].class = "vendor_ff"
    BY <2>1 DEF Iface
  <2>3. m = [i \in 1..1 |-> [mode |-> IfaceMode(d.pid, d.ifaces[i].class, s(i)), str |-> s(i)]]
    BY <2>2 DEF Modes1
  <2>4. 1 \in 1..1
    OBVIOUS
  <2>5. DOMAIN m = 1..1 /\ Len(m) = 1
    BY <2>3
  <2>6. m[1].mode = IfaceMode("9008", "vendor_ff", s(1))
    BY <2>1, <2>2, <2>3, <2>4
  <2> HIDE DEF m, d
  <2> QED  BY <2>1, <2>5, <2>6, IfaceModes DEF Answered, Says9008, m, d
<1>2. CASE p.mode = "diag"
  <2> DEFINE a == Iface(kd, p.ports, 1, "vendor", "Diagnostics", "90B8")
             b == Iface(kd, p.ports, 2, "vendor", "NMEA", "90B8")
  <2>1. d.pid = "90B8" /\ d.ifaces = <<a, b>>
    BY <1>2, DescriptorIs
  <2>2. /\ DOMAIN d.ifaces = 1..2 /\ d.ifaces[1].class = "vendor" /\ d.ifaces[2].class = "vendor"
        /\ d.ifaces[1].str \in {None, <<"Diagnostics">>} /\ d.ifaces[2].str \in {None, <<"NMEA">>}
    BY <2>1 DEF Iface
  <2>3. m = [i \in 1..2 |-> [mode |-> IfaceMode(d.pid, d.ifaces[i].class, s(i)), str |-> s(i)]]
    BY <2>2 DEF Modes1
  <2>4. 1 \in 1..2 /\ 2 \in 1..2
    OBVIOUS
  <2>5. DOMAIN m = 1..2 /\ Len(m) = 2
    BY <2>3
  <2>6. s(1) \in {None, <<"Diagnostics">>} /\ s(2) \in {None, <<"NMEA">>}
    BY <2>2
  <2>7. m[1].mode = IfaceMode("90B8", "vendor", s(1)) /\ m[2].mode = IfaceMode("90B8", "vendor", s(2))
        /\ m[2].str = s(2)
    BY <2>1, <2>2, <2>3, <2>4
  <2> HIDE DEF m, d, s
  <2>8. m[1].mode = "Diag" /\ m[2].mode \in {"Diag", "Nmea"}
    BY <2>6, <2>7, IfaceModes
  <2> QED  BY <2>1, <2>5, <2>6, <2>7, <2>8 DEF Answered, Says90B8, m, d
<1> QED  BY <1>1, <1>2, PlaceCases DEF Modes1

LEMMA QueriedIs ==
  ASSUME NEW k, NEW f, Phoned(k, f), NEW b, NEW o, OnBus(b, o, k, f), NEW key
  PROVE  Answered(key.pid, Queried(b, key))
<1> DEFINE fits(d) == /\ d.qc /\ d.readable /\ d.pid = key.pid
                      /\ key.serial # None /\ d.opens /\ d.serial # None => d.serial = key.serial
           I == {i \in 1..Len(b) : fits(b[i])}
           at == SelectInSeq(b, fits)
<1>1. Queried(b, key) = IF at = 0 THEN <<>> ELSE Modes1(b[at])
  BY DEF Queried, Modes1
<1>2. at = IF I # {} THEN Min(I) ELSE 0
  BY DEF SelectInSeq
<1>3. I # {} => Min(I) \in I
  <2>1. I \in SUBSET Nat
    BY DEF OnBus
  <2> HIDE DEF I
  <2> QED  BY <2>1, FirstIsMember
<1>4. CASE at = 0
  <2>1. Queried(b, key) = <<>>
    BY <1>1, <1>4
  <2> QED  BY <2>1 DEF Answered
<1>5. CASE at # 0
  <2>1. at \in I
    <3> HIDE DEF I
    <3> QED  BY <1>2, <1>3, <1>5
  <2>2. at \in DOMAIN b /\ b[at].pid = key.pid
    <3>1. at \in 1..Len(b) /\ fits(b[at])
      <4> HIDE DEF at
      <4> QED  BY <2>1
    <3> QED  BY <3>1 DEF OnBus
  <2> HIDE DEF at
  <2>3. o[at] \in Devices /\ f[o[at]].mode # "off" /\ b[at] = Descriptor(k[o[at]], f[o[at]])
    BY <2>2 DEF OnBus
  <2>4. f[o[at]] \in Places
    BY <2>3 DEF Phoned
  <2>5. Answered(b[at].pid, Modes1(b[at]))
    BY <2>3, <2>4, DescriptorAnswers
  <2>6. Queried(b, key) = Modes1(b[at])
    BY <1>1, <1>5 DEF at
  <2> QED  BY <2>2, <2>5, <2>6
<1> QED  BY <1>4, <1>5

\* A port of the bus is one of the phone its device is.
PortFacts(p, b, o, k, f) ==
  /\ p.dev \in DOMAIN b /\ p.iface \in DOMAIN b[p.dev].ifaces
  /\ p.port = b[p.dev].ifaces[p.iface].port
  /\ p = [dev |-> p.dev, iface |-> p.iface, port |-> p.port]
  /\ p.iface \in DOMAIN f[o[p.dev]].ports /\ p.port = f[o[p.dev]].ports[p.iface]
  /\ p.iface \in 1..2 /\ p.port \in Ports

LEMMA IfacesOf ==
  ASSUME NEW kd, NEW p \in Places, p.mode # "off"
  PROVE  /\ DOMAIN Descriptor(kd, p).ifaces = DOMAIN p.ports /\ DOMAIN p.ports \subseteq 1..2 /\ 1 \in DOMAIN p.ports
         /\ \A i \in DOMAIN p.ports : /\ Descriptor(kd, p).ifaces[i].port = p.ports[i] /\ p.ports[i] \in Ports
<1> DEFINE d == Descriptor(kd, p)
<1>1. CASE p.mode = "edl"
  <2>1. PICK x \in Ports : p.ports = <<x>>
    BY <1>1, PlaceCases
  <2>2. d.ifaces = <<Iface(kd, p.ports, 1, "vendor_ff", "QDLoader", "9008")>>
    BY <1>1, DescriptorIs
  <2>3. DOMAIN d.ifaces = {1} /\ DOMAIN p.ports = {1} /\ d.ifaces[1].port = p.ports[1] /\ p.ports[1] = x
    BY <2>1, <2>2 DEF Iface
  <2> QED  BY <2>3
<1>2. CASE p.mode = "diag"
  <2>1. PICK x, y \in Ports : p.ports = <<x, y>>
    BY <1>2, PlaceCases
  <2>2. d.ifaces = <<Iface(kd, p.ports, 1, "vendor", "Diagnostics", "90B8"),
                     Iface(kd, p.ports, 2, "vendor", "NMEA", "90B8")>>
    BY <1>2, DescriptorIs
  <2>3. DOMAIN d.ifaces = 1..2 /\ DOMAIN p.ports = 1..2
        /\ d.ifaces[1].port = p.ports[1] /\ p.ports[1] = x /\ d.ifaces[2].port = p.ports[2] /\ p.ports[2] = y
    BY <2>1, <2>2 DEF Iface
  <2>4. \A i \in 1..2 : i = 1 \/ i = 2
    OBVIOUS
  <2>5. 1 \in 1..2
    OBVIOUS
  <2> HIDE DEF d
  <2> QED  BY <2>3, <2>4, <2>5 DEF d
<1> QED  BY <1>1, <1>2, PlaceCases

LEMMA PortIs ==
  ASSUME NEW k, NEW f, Phoned(k, f), NEW b, NEW o, OnBus(b, o, k, f), NEW p \in PortsOf(b)
  PROVE  PortFacts(p, b, o, k, f)
<1>0. PICK d \in DOMAIN b : \E i \in DOMAIN b[d].ifaces : p = [dev |-> d, iface |-> i, port |-> b[d].ifaces[i].port]
  BY DEF PortsOf
<1>1. PICK i \in DOMAIN b[d].ifaces : p = [dev |-> d, iface |-> i, port |-> b[d].ifaces[i].port]
  BY <1>0
<1>2. p.dev = d /\ p.iface = i /\ p.port = b[d].ifaces[i].port
  BY <1>1
<1>3. o[d] \in Devices /\ f[o[d]].mode # "off" /\ b[d] = Descriptor(k[o[d]], f[o[d]])
  BY DEF OnBus
<1>4. f[o[d]] \in Places
  BY <1>3 DEF Phoned
<1>5. i \in DOMAIN f[o[d]].ports /\ i \in 1..2 /\ b[d].ifaces[i].port = f[o[d]].ports[i] /\ f[o[d]].ports[i] \in Ports
  BY <1>3, <1>4, IfacesOf
<1> QED  BY <1>1, <1>2, <1>5 DEF PortFacts

LEMMA IsPort ==
  ASSUME NEW b, NEW d \in DOMAIN b, NEW i \in DOMAIN b[d].ifaces
  PROVE  [dev |-> d, iface |-> i, port |-> b[d].ifaces[i].port] \in PortsOf(b)
<1> DEFINE T(e) == {[dev |-> e, iface |-> j, port |-> b[e].ifaces[j].port] : j \in DOMAIN b[e].ifaces}
<1>1. [dev |-> d, iface |-> i, port |-> b[d].ifaces[i].port] \in T(d)
  OBVIOUS
<1>2. T(d) \in {T(e) : e \in DOMAIN b}
  OBVIOUS
<1>3. PortsOf(b) = UNION {T(e) : e \in DOMAIN b}
  BY DEF PortsOf
<1> QED  BY <1>1, <1>2, <1>3

\* No two ports of the bus have the same number.
LEMMA PortsDiffer ==
  ASSUME NEW k, NEW f, Phoned(k, f), NEW b, NEW o, OnBus(b, o, k, f),
         NEW p \in PortsOf(b), NEW q \in PortsOf(b), p.port = q.port \/ (p.dev = q.dev /\ p.iface = q.iface)
  PROVE  p = q
<1>1. PortFacts(p, b, o, k, f) /\ PortFacts(q, b, o, k, f)
  BY PortIs
<1>2. CASE p.dev = q.dev /\ p.iface = q.iface
  <2>1. p.port = q.port
    BY <1>1, <1>2 DEF PortFacts
  <2>2. p = [dev |-> p.dev, iface |-> p.iface, port |-> p.port]
    BY <1>1 DEF PortFacts
  <2>3. q = [dev |-> q.dev, iface |-> q.iface, port |-> q.port]
    BY <1>1 DEF PortFacts
  <2>4. [dev |-> p.dev, iface |-> p.iface, port |-> p.port] = [dev |-> q.dev, iface |-> q.iface, port |-> q.port]
    BY <1>2, <2>1
  <2> QED  BY <2>2, <2>3, <2>4
<1>3. CASE p.port = q.port
  <2>1. p.dev \in DOMAIN b /\ q.dev \in DOMAIN b
    BY <1>1 DEF PortFacts
  <2>2. o[p.dev] \in Devices /\ o[q.dev] \in Devices
    BY <2>1 DEF OnBus
  <2>0. /\ p.iface \in DOMAIN f[o[p.dev]].ports /\ q.iface \in DOMAIN f[o[q.dev]].ports
        /\ f[o[p.dev]].ports[p.iface] = f[o[q.dev]].ports[q.iface]
    BY <1>1, <1>3 DEF PortFacts
  <2>3. o[p.dev] = o[q.dev] /\ p.iface = q.iface
    BY <2>0, <2>2 DEF Phoned, Apart
  <2>4. p.dev = q.dev
    BY <2>1, <2>3 DEF OnBus
  <2> QED  BY <1>2, <2>3, <2>4
<1> QED  BY <1>2, <1>3

LEMMA FinitePairs ==
  ASSUME NEW n \in Nat
  PROVE  IsFiniteSet((1..n) \X (1..2))
<1>0. 1 \in Int /\ 2 \in Int /\ n \in Int
  OBVIOUS
<1>1. IsFiniteSet(1..n) /\ IsFiniteSet(1..2)
  BY <1>0, FS_Interval, Zenon
<1> QED  BY <1>1, FS_Product

LEMMA PortsListed ==
  ASSUME NEW k, NEW f, Phoned(k, f), NEW b, NEW o, OnBus(b, o, k, f)
  PROVE  Lists(AvailablePorts(PortsOf(b)), PortsOf(b))
<1> DEFINE P == PortsOf(b)
           T == (DOMAIN b) \X (1..2)
           g == [p \in P |-> <<p.dev, p.iface>>]
           rank == [p \in P |-> p.port]
<1>1. IsFiniteSet(T)
  <2>1. Len(b) \in Nat /\ DOMAIN b = 1..Len(b)
    BY DEF OnBus
  <2>2. IsFiniteSet((1..Len(b)) \X (1..2))
    BY <2>1, FinitePairs
  <2> QED  BY <2>1, <2>2, Zenon
<1>2. ASSUME NEW p \in P PROVE PortFacts(p, b, o, k, f) /\ <<p.dev, p.iface>> \in T
  <2>1. PortFacts(p, b, o, k, f)
    BY PortIs
  <2>2. p.dev \in DOMAIN b /\ p.iface \in 1..2
    BY <2>1 DEF PortFacts
  <2>3. <<p.dev, p.iface>> \in T
    <3> HIDE DEF P, g, rank
    <3> QED  BY <2>2
  <2> QED  BY <2>1, <2>3
<1>3. IsFiniteSet(P)
  <2>1. g \in [P -> T]
    <3> HIDE DEF P, T
    <3> QED  BY <1>2
  <2>2. ASSUME NEW p \in P, NEW q \in P, g[p] = g[q] PROVE p = q
    <3>1. p.dev = q.dev /\ p.iface = q.iface
      <4> HIDE DEF P
      <4> QED  BY <2>2
    <3> QED  BY <3>1, PortsDiffer
  <2> HIDE DEF g, P, T
  <2>3. g \in Injection(P, T)
    BY <2>1, <2>2, Fun_IsInj
  <2> QED  BY <1>1, <2>3, FS_Injection
<1>4. \A p \in P : rank[p] \in Nat
  BY <1>2, ConnectAssumption DEF PortFacts
<1>5. \A p, q \in P : rank[p] = rank[q] => p = q
  BY PortsDiffer
<1>6. AvailablePorts(P) = Ranked(P, rank)
  BY DEF AvailablePorts
<1> HIDE DEF P, rank
<1> QED  BY <1>3, <1>4, <1>5, <1>6, RankedLists DEF P

-----------------------------------------------------------------------------
(* The listings *)

\* A line of a listing shows a phone.
Shows(k, f, l, d) ==
  /\ d \in Devices /\ f[d].mode # "off" /\ l \in DeviceInfos
  /\ l.port \in ToSet(f[d].ports) /\ l.serial = Serial(k[d], f[d].mode)
  /\ f[d].mode = "edl" => l.pid = "9008" /\ l.mode \in {"Edl", "Unknown"}
  /\ f[d].mode = "diag" => l.pid = "90B8" /\ l.mode \in {"Diag", "Nmea", "Unknown"}

Sound(l, k, f) ==
  /\ Len(l) \in Nat /\ DOMAIN l = 1..Len(l)
  /\ \A i \in DOMAIN l : \E d \in Devices : Shows(k, f, l[i], d)

\* The modes a port of a product id may be given.
Allowed(pid, mode) ==
  /\ mode \in {"Edl", "Diag", "Nmea", "Unknown"}
  /\ pid = "9008" => mode \in {"Edl", "Unknown"}
  /\ pid = "90B8" => mode \in {"Diag", "Nmea", "Unknown"}

LEMMA AnswersAllowed ==
  ASSUME NEW pid \in {"9008", "90B8"}, NEW m, Answered(pid, m)
  PROVE  Len(m) \in Nat /\ (\A n \in 1..Len(m) : Allowed(pid, m[n].mode)) /\ Allowed(pid, "Unknown")
<1>1. CASE m = <<>>
  BY <1>1 DEF Allowed
<1>2. CASE pid = "9008" /\ Says9008(m)
  <2>1. \A n \in 1..1 : n = 1
    OBVIOUS
  <2> QED  BY <1>2, <2>1 DEF Allowed, Says9008
<1>3. CASE pid = "90B8" /\ Says90B8(m)
  <2>1. \A n \in 1..2 : n = 1 \/ n = 2
    OBVIOUS
  <2> QED  BY <1>3, <2>1 DEF Allowed, Says90B8
<1> QED  BY <1>1, <1>2, <1>3 DEF Answered

\* One line of the bus is a phone's.
IsOf(dev, d, k, f) ==
  /\ d \in Devices /\ f[d] \in Places /\ f[d].mode \in {"edl", "diag"} /\ dev = Descriptor(k[d], f[d])
  /\ dev.pid \in {"9008", "90B8"} /\ dev.qc = TRUE
  /\ dev.pid = "9008" <=> f[d].mode = "edl"

LEMMA PidIs ==
  ASSUME NEW k, NEW f, Phoned(k, f), NEW b, NEW o, OnBus(b, o, k, f), NEW p \in PortsOf(b)
  PROVE  IsOf(b[p.dev], o[p.dev], k, f)
<1> DEFINE d == o[p.dev]
           dev == b[p.dev]
<1>1. p.dev \in DOMAIN b
  BY PortIs DEF PortFacts
<1>2. d \in Devices /\ f[d].mode # "off" /\ dev = Descriptor(k[d], f[d])
  BY <1>1 DEF OnBus
<1> HIDE DEF d, dev
<1>3. f[d] \in Places
  BY <1>2 DEF Phoned
<1>4. /\ dev.qc = TRUE /\ f[d].mode \in {"edl", "diag"}
      /\ f[d].mode = "edl" => dev.pid = "9008"
      /\ f[d].mode = "diag" => dev.pid = "90B8"
  BY <1>2, <1>3, DescriptorIs
<1> QED  BY <1>2, <1>3, <1>4 DEF IsOf, d, dev

LEMMA SerialKnown ==
  ASSUME NEW k \in Kinds, NEW d \in Devices, NEW mode
  PROVE  Serial(k[d], mode) \in SerialNumbers
<1> DEFINE T(g, e) == {g[e].serial, g[e].edlSerial}
<1>1. Serial(k[d], mode) \in T(k, d)
  BY DEF Serial
<1>2. T(k, d) \in {T(g, e) : g \in Kinds, e \in Devices}
  OBVIOUS
<1>3. SerialNumbers = UNION {T(g, e) : g \in Kinds, e \in Devices}
  BY DEF SerialNumbers
<1> DEFINE all == {T(g, e) : g \in Kinds, e \in Devices}
<1>4. T(k, d) \in all /\ SerialNumbers = UNION all
  BY <1>2, <1>3
<1> HIDE DEF T, all
<1> QED  BY <1>1, <1>4

LEMMA InfoShows ==
  ASSUME NEW k, NEW f, Phoned(k, f), NEW b, NEW o, OnBus(b, o, k, f), NEW p \in PortsOf(b),
         NEW mode, Allowed(b[p.dev].pid, mode)
  PROVE  Shows(k, f, Info(b, p, mode), o[p.dev])
<1> DEFINE d == o[p.dev]
           l == Info(b, p, mode)
           dev == b[p.dev]
<1>2. /\ dev.pid \in {"9008", "90B8"} /\ dev.qc = TRUE /\ d \in Devices /\ f[d] \in Places
      /\ f[d].mode \in {"edl", "diag"} /\ dev = Descriptor(k[d], f[d])
      /\ dev.pid = "9008" <=> f[d].mode = "edl"
  <2>1. IsOf(dev, d, k, f)
    BY PidIs
  <2> HIDE DEF dev, d
  <2> QED  BY <2>1 DEF IsOf
<1>0. PortFacts(p, b, o, k, f)
  BY PortIs
<1>1. /\ p.iface \in DOMAIN dev.ifaces /\ p.port \in Ports
      /\ p.iface \in DOMAIN f[d].ports /\ p.port = f[d].ports[p.iface]
  BY <1>0 DEF PortFacts
<1>6. l = [port |-> p.port, serial |-> dev.serial, pid |-> dev.pid, qc |-> dev.qc,
           desc |-> dev.ifaces[p.iface].product, mode |-> mode]
  BY DEF Info
<1> HIDE DEF dev, d, l
<1>3. dev.serial = Serial(k[d], f[d].mode)
  BY <1>2, DescriptorIs
<1>4. dev.serial \in SerialNumbers
  <2>1. k \in Kinds
    BY DEF Phoned
  <2> QED  BY <1>2, <1>3, <2>1, SerialKnown
<1>5. dev.ifaces[p.iface].product \in {None, <<"QDLoader", "9008">>, <<"Diagnostics", "90B8">>, <<"NMEA", "90B8">>}
  <2>1. p.iface \in DOMAIN dev.ifaces
    BY <1>1
  <2>2. CASE f[d].mode = "edl"
    <3>1. dev.ifaces = <<Iface(k[d], f[d].ports, 1, "vendor_ff", "QDLoader", "9008")>>
      BY <1>2, <2>2, DescriptorIs
    <3>2. p.iface = 1
      BY <2>1, <3>1
    <3> QED  BY <3>1, <3>2 DEF Iface
  <2>3. CASE f[d].mode = "diag"
    <3>1. dev.ifaces = <<Iface(k[d], f[d].ports, 1, "vendor", "Diagnostics", "90B8"),
                         Iface(k[d], f[d].ports, 2, "vendor", "NMEA", "90B8")>>
      BY <1>2, <2>3, DescriptorIs
    <3>2. p.iface = 1 \/ p.iface = 2
      BY <2>1, <3>1
    <3>3. \/ dev.ifaces[p.iface] = Iface(k[d], f[d].ports, 1, "vendor", "Diagnostics", "90B8")
          \/ dev.ifaces[p.iface] = Iface(k[d], f[d].ports, 2, "vendor", "NMEA", "90B8")
      BY <3>1, <3>2
    <3> QED  BY <3>3 DEF Iface
  <2> QED  BY <1>2, <2>2, <2>3
<1>7. mode \in Modes /\ p.port \in Ports /\ p.port \in ToSet(f[d].ports)
  BY <1>1 DEF Allowed, Modes, ToSet
<1>8. l \in DeviceInfos
  BY <1>2, <1>4, <1>5, <1>6, <1>7 DEF DeviceInfos
<1>9. /\ l.port = p.port /\ l.serial = dev.serial /\ l.pid = dev.pid /\ l.mode = mode
  BY <1>6
<1>10. Allowed(dev.pid, mode)
  BY DEF dev
<1> QED  BY <1>2, <1>3, <1>7, <1>8, <1>9, <1>10 DEF Shows, Allowed, d, l

LEMMA PlaceAllowed ==
  ASSUME NEW pid \in {"9008", "90B8"}, NEW m, Answered(pid, m), NEW n \in Nat, NEW counted \in SUBSET (1..n),
         NEW b, NEW ports, NEW j
  PROVE  Allowed(pid, ModeByPlace(b, ports, j, m, counted))
<1> DEFINE before == {i \in counted : i < j /\ KeyOf(b, ports[i]) = KeyOf(b, ports[j])}
           place == 1 + Cardinality(before)
<1>1. Cardinality(before) \in Nat
  <2>1. 1 \in Int /\ n \in Int
    OBVIOUS
  <2>2. IsFiniteSet(1..n)
    BY <2>1, FS_Interval, Zenon
  <2>3. before \in SUBSET (1..n)
    OBVIOUS
  <2> HIDE DEF before
  <2>4. IsFiniteSet(before)
    BY <2>2, <2>3, FS_Subset
  <2> QED  BY <2>4, FS_CardinalityType
<1>2. ModeByPlace(b, ports, j, m, counted) = IF place <= Len(m) THEN m[place].mode ELSE "Unknown"
  BY DEF ModeByPlace
<1> HIDE DEF before
<1>3. Len(m) \in Nat /\ (\A i \in 1..Len(m) : Allowed(pid, m[i].mode)) /\ Allowed(pid, "Unknown")
  BY AnswersAllowed
<1>4. place <= Len(m) => place \in 1..Len(m)
  BY <1>1, <1>3
<1> QED  BY <1>2, <1>3, <1>4

\* The mode list gives the j-th port, and list_all.
PortsAll(b)  == AvailablePorts(PortsOf(b))
Nameless(b)  == {j \in DOMAIN PortsAll(b) : NameMatch(b, PortsAll(b)[j]) = 0}
Answer(b, j) == Queried(b, KeyOf(b, PortsAll(b)[j]))
ListMode(b, j) ==
  IF j \in Nameless(b) THEN ModeByPlace(b, PortsAll(b), j, Answer(b, j), Nameless(b))
  ELSE Answer(b, j)[NameMatch(b, PortsAll(b)[j])].mode
AllMode(b, j) == ModeByPlace(b, PortsAll(b), j, Answer(b, j), DOMAIN PortsAll(b))

\* The ports of the bus and what the query answers for each of them.
PortsAt(b, o, k, f) ==
  /\ Cardinality(PortsOf(b)) \in Nat /\ DOMAIN PortsAll(b) = 1..Cardinality(PortsOf(b))
  /\ \A j \in DOMAIN PortsAll(b) :
       /\ PortsAll(b)[j] \in PortsOf(b)
       /\ b[PortsAll(b)[j].dev].qc = TRUE
       /\ b[PortsAll(b)[j].dev].pid \in {"9008", "90B8"}
       /\ Answered(b[PortsAll(b)[j].dev].pid, Answer(b, j))
       /\ KeyOf(b, PortsAll(b)[j]) = [pid |-> b[PortsAll(b)[j].dev].pid, serial |-> b[PortsAll(b)[j].dev].serial]
  /\ \A p \in PortsOf(b) : \E j \in DOMAIN PortsAll(b) : PortsAll(b)[j] = p

LEMMA PortsAreAt ==
  ASSUME NEW k, NEW f, Phoned(k, f), NEW b, NEW o, OnBus(b, o, k, f)
  PROVE  PortsAt(b, o, k, f)
<1>1. Lists(PortsAll(b), PortsOf(b))
  BY PortsListed DEF PortsAll
<1>2. /\ Cardinality(PortsOf(b)) \in Nat /\ DOMAIN PortsAll(b) = 1..Cardinality(PortsOf(b))
      /\ \A j \in DOMAIN PortsAll(b) : PortsAll(b)[j] \in PortsOf(b)
      /\ \A p \in PortsOf(b) : \E j \in DOMAIN PortsAll(b) : PortsAll(b)[j] = p
  BY <1>1 DEF Lists
<1>3. ASSUME NEW j \in DOMAIN PortsAll(b)
      PROVE  /\ b[PortsAll(b)[j].dev].qc = TRUE
             /\ b[PortsAll(b)[j].dev].pid \in {"9008", "90B8"}
             /\ Answered(b[PortsAll(b)[j].dev].pid, Answer(b, j))
             /\ KeyOf(b, PortsAll(b)[j]) = [pid |-> b[PortsAll(b)[j].dev].pid, serial |-> b[PortsAll(b)[j].dev].serial]
  <2> DEFINE p == PortsAll(b)[j]
  <2>1. p \in PortsOf(b)
    BY <1>2
  <2>2. KeyOf(b, p) = [pid |-> b[p.dev].pid, serial |-> b[p.dev].serial]
    BY DEF KeyOf
  <2>3. KeyOf(b, p).pid = b[p.dev].pid
    BY <2>2
  <2>4. Answered(KeyOf(b, p).pid, Queried(b, KeyOf(b, p)))
    BY QueriedIs
  <2> HIDE DEF p
  <2>5. IsOf(b[p.dev], o[p.dev], k, f)
    BY <2>1, PidIs
  <2> QED  BY <2>2, <2>3, <2>4, <2>5 DEF IsOf, Answer, p
<1> QED  BY <1>2, <1>3 DEF PortsAt

LEMMA ListBody ==
  ASSUME NEW k, NEW f, Phoned(k, f), NEW b, NEW o, OnBus(b, o, k, f)
  PROVE  /\ List(b) = [j \in DOMAIN PortsAll(b) |-> Info(b, PortsAll(b)[j], ListMode(b, j))]
         /\ ListAll(b) = [j \in DOMAIN PortsAll(b) |-> Info(b, PortsAll(b)[j], AllMode(b, j))]
<1>1. {p \in PortsOf(b) : b[p.dev].qc} = PortsOf(b)
  <2>1. ASSUME NEW p \in PortsOf(b) PROVE b[p.dev].qc
    <3>1. IsOf(b[p.dev], o[p.dev], k, f)
      BY PidIs
    <3> QED  BY <3>1 DEF IsOf
  <2> QED  BY <2>1
<1>2. PortsAt(b, o, k, f)
  BY PortsAreAt
<1>3. List(b) = [j \in DOMAIN PortsAll(b) |-> Info(b, PortsAll(b)[j], ListMode(b, j))]
  BY <1>1 DEF List, PortsAll, ListMode, Nameless, Answer
<1>4. ListAll(b) = [j \in DOMAIN PortsAll(b) |-> Info(b, PortsAll(b)[j], AllMode(b, j))]
  <2> DEFINE modes(p) == IF b[p.dev].qc THEN Queried(b, KeyOf(b, p)) ELSE <<>>
  <2>1. ASSUME NEW j \in DOMAIN PortsAll(b) PROVE modes(PortsAll(b)[j]) = Answer(b, j)
    BY <1>2 DEF PortsAt, Answer
  <2>2. ListAll(b) = [j \in DOMAIN PortsAll(b) |->
          Info(b, PortsAll(b)[j],
               ModeByPlace(b, PortsAll(b), j, modes(PortsAll(b)[j]), DOMAIN PortsAll(b)))]
    BY DEF ListAll, PortsAll
  <2> HIDE DEF modes
  <2> QED  BY <2>1, <2>2 DEF AllMode
<1> QED  BY <1>3, <1>4

\* The match by name is one of the interfaces, or none.
LEMMA NameMatchIs ==
  ASSUME NEW b, NEW p, Len(Queried(b, KeyOf(b, p))) \in Nat
  PROVE  /\ NameMatch(b, p) \in 0..Len(Queried(b, KeyOf(b, p)))
         /\ NameMatch(b, p) # 0 =>
              /\ b[p.dev].ifaces[p.iface].product # None
              /\ Queried(b, KeyOf(b, p))[NameMatch(b, p)].str # None
              /\ IsPrefix(Queried(b, KeyOf(b, p))[NameMatch(b, p)].str, b[p.dev].ifaces[p.iface].product)
<1> DEFINE modes == Queried(b, KeyOf(b, p))
           product == b[p.dev].ifaces[p.iface].product
           I == {i \in 1..Len(modes) : modes[i].str # None /\ IsPrefix(modes[i].str, product)}
<1>1. NameMatch(b, p) = IF product = None THEN 0 ELSE IF I # {} THEN Min(I) ELSE 0
  BY DEF NameMatch, SelectInSeq
<1>2. I # {} => Min(I) \in I
  <2>1. I \in SUBSET Nat
    OBVIOUS
  <2> HIDE DEF I
  <2> QED  BY <2>1, FirstIsMember
<1>3. CASE NameMatch(b, p) = 0
  BY <1>3
<1>4. CASE NameMatch(b, p) # 0
  <2>1. NameMatch(b, p) \in I
    <3> HIDE DEF I
    <3> QED  BY <1>1, <1>2, <1>4
  <2>2. product # None
    <3> HIDE DEF I
    <3> QED  BY <1>1, <1>4
  <2> QED  BY <2>1, <2>2
<1> QED  BY <1>3, <1>4

\* Each listing gives a port a mode its product id allows.
LEMMA ModesAllowed ==
  ASSUME NEW k, NEW f, Phoned(k, f), NEW b, NEW o, OnBus(b, o, k, f), NEW j \in DOMAIN PortsAll(b)
  PROVE  /\ Allowed(b[PortsAll(b)[j].dev].pid, ListMode(b, j))
         /\ Allowed(b[PortsAll(b)[j].dev].pid, AllMode(b, j))
<1> DEFINE p == PortsAll(b)[j]
           pid == b[p.dev].pid
           m == Answer(b, j)
           n == Cardinality(PortsOf(b))
<1>1. PortsAt(b, o, k, f)
  BY PortsAreAt
<1>2. n \in Nat /\ DOMAIN PortsAll(b) = 1..n /\ pid \in {"9008", "90B8"} /\ Answered(pid, m)
  BY <1>1 DEF PortsAt
<1>3. Nameless(b) \in SUBSET (1..n) /\ DOMAIN PortsAll(b) \in SUBSET (1..n)
  BY <1>2 DEF Nameless
<1>4. m = Queried(b, KeyOf(b, p))
  BY DEF Answer
<1> HIDE DEF pid, m, n, p
<1>5. Len(m) \in Nat /\ (\A i \in 1..Len(m) : Allowed(pid, m[i].mode)) /\ Allowed(pid, "Unknown")
  BY <1>2, AnswersAllowed
<1>6. NameMatch(b, p) \in 0..Len(m)
  BY <1>4, <1>5, NameMatchIs
<1>7. /\ Allowed(pid, ModeByPlace(b, PortsAll(b), j, m, Nameless(b)))
      /\ Allowed(pid, ModeByPlace(b, PortsAll(b), j, m, DOMAIN PortsAll(b)))
  BY <1>2, <1>3, PlaceAllowed
<1>8. ASSUME j \notin Nameless(b) PROVE Allowed(pid, m[NameMatch(b, p)].mode)
  <2>1. NameMatch(b, p) # 0
    BY <1>8 DEF Nameless, p
  <2>2. NameMatch(b, p) \in 1..Len(m)
    BY <1>5, <1>6, <2>1
  <2> QED  BY <1>5, <2>2
<1>9. Allowed(pid, ListMode(b, j))
  BY <1>7, <1>8 DEF ListMode, m, p
<1>10. Allowed(pid, AllMode(b, j))
  BY <1>7 DEF AllMode, m, p
<1> QED  BY <1>9, <1>10 DEF pid, p

\* Every line of list and of list_all shows a port of an attached phone, with its
\* serial and its product id, and in a mode that this product id can have: the
\* place counters and the name matches never take a port in EDL mode for one in
\* DIAG mode or the other way round.
THEOREM ListingsSound ==
  ASSUME NEW k, NEW f, Phoned(k, f)
  PROVE  Sound(List(BusOf(k, f)), k, f) /\ Sound(ListAll(BusOf(k, f)), k, f)
<1> DEFINE b == BusOf(k, f)
           P == PortsAll(b)
           n == Cardinality(PortsOf(b))
<1>1. PICK o : OnBus(b, o, k, f)
  BY BusIs
<1> HIDE DEF b
<1>2. PortsAt(b, o, k, f)
  BY <1>1, PortsAreAt
<1>3. n \in Nat /\ DOMAIN P = 1..n /\ \A j \in 1..n : P[j] \in PortsOf(b)
  BY <1>2 DEF PortsAt
<1>4. /\ List(b) = [j \in DOMAIN P |-> Info(b, P[j], ListMode(b, j))]
      /\ ListAll(b) = [j \in DOMAIN P |-> Info(b, P[j], AllMode(b, j))]
  BY <1>1, ListBody
<1>5. ASSUME NEW j \in 1..n
      PROVE  /\ Shows(k, f, Info(b, P[j], ListMode(b, j)), o[P[j].dev])
             /\ Shows(k, f, Info(b, P[j], AllMode(b, j)), o[P[j].dev])
  <2>1. j \in DOMAIN PortsAll(b)
    BY <1>3
  <2>2. /\ Allowed(b[P[j].dev].pid, ListMode(b, j))
        /\ Allowed(b[P[j].dev].pid, AllMode(b, j))
    BY <1>1, <2>1, ModesAllowed
  <2>3. P[j] \in PortsOf(b)
    BY <1>3
  <2> HIDE DEF P
  <2> QED  BY <1>1, <2>2, <2>3, InfoShows
<1> HIDE DEF P, n
<1>6. /\ DOMAIN List(b) = 1..n /\ Len(List(b)) = n
      /\ DOMAIN ListAll(b) = 1..n /\ Len(ListAll(b)) = n
  BY <1>3, <1>4
<1>7. ASSUME NEW j \in 1..n
      PROVE  /\ \E d \in Devices : Shows(k, f, List(b)[j], d)
             /\ \E d \in Devices : Shows(k, f, ListAll(b)[j], d)
  <2>1. o[P[j].dev] \in Devices
    BY <1>5 DEF Shows
  <2>2. List(b)[j] = Info(b, P[j], ListMode(b, j)) /\ ListAll(b)[j] = Info(b, P[j], AllMode(b, j))
    BY <1>3, <1>4
  <2> QED  BY <1>5, <2>1, <2>2
<1>8. Sound(List(b), k, f)
  BY <1>3, <1>6, <1>7 DEF Sound
<1>9. Sound(ListAll(b), k, f)
  BY <1>3, <1>6, <1>7 DEF Sound
<1> QED  BY <1>8, <1>9 DEF b

\* The line of a phone's first port.
LEMMA FirstPortListed ==
  ASSUME NEW k, NEW f, Phoned(k, f), NEW b, NEW o, OnBus(b, o, k, f), NEW d \in Devices, f[d].mode # "off"
  PROVE  \E j \in DOMAIN PortsAll(b) :
            /\ o[PortsAll(b)[j].dev] = d /\ PortsAll(b)[j].iface = 1
            /\ PortsAll(b)[j].port = f[d].ports[1]
            /\ PortsAll(b)[j].dev \in DOMAIN b
            /\ b[PortsAll(b)[j].dev] = Descriptor(k[d], f[d])
<1>1. PICK i \in DOMAIN b : o[i] = d
  BY DEF OnBus
<1>2. b[i] = Descriptor(k[d], f[d]) /\ f[d] \in Places
  BY <1>1 DEF OnBus, Phoned
<1>3. 1 \in DOMAIN b[i].ifaces /\ b[i].ifaces[1].port = f[d].ports[1]
  BY <1>2, IfacesOf
<1> DEFINE p == [dev |-> i, iface |-> 1, port |-> b[i].ifaces[1].port]
<1>4. p \in PortsOf(b)
  BY <1>3, IsPort
<1>5. p.dev = i /\ p.iface = 1 /\ p.port = f[d].ports[1]
  BY <1>3
<1> HIDE DEF p
<1>6. PortsAt(b, o, k, f)
  BY PortsAreAt
<1>7. PICK j \in DOMAIN PortsAll(b) : PortsAll(b)[j] = p
  BY <1>4, <1>6 DEF PortsAt
<1> QED  BY <1>1, <1>2, <1>5, <1>7

\* What the j-th line of list says.
LineIs(b, j) ==
  /\ j \in DOMAIN List(b)
  /\ List(b)[j].port = PortsAll(b)[j].port /\ List(b)[j].mode = ListMode(b, j) /\ List(b)[j].qc = TRUE
  /\ List(b)[j].pid = b[PortsAll(b)[j].dev].pid /\ List(b)[j].serial = b[PortsAll(b)[j].dev].serial

LEMMA ListLine ==
  ASSUME NEW k, NEW f, Phoned(k, f), NEW b, NEW o, OnBus(b, o, k, f), NEW j \in DOMAIN PortsAll(b)
  PROVE  LineIs(b, j)
<1>1. List(b) = [i \in DOMAIN PortsAll(b) |-> Info(b, PortsAll(b)[i], ListMode(b, i))]
  BY ListBody
<1>2. PortsAt(b, o, k, f)
  BY PortsAreAt
<1>3. b[PortsAll(b)[j].dev].qc = TRUE
  BY <1>2 DEF PortsAt
<1>4. j \in DOMAIN List(b) /\ List(b)[j] = Info(b, PortsAll(b)[j], ListMode(b, j))
  BY <1>1
<1> QED  BY <1>3, <1>4 DEF LineIs, Info

\* Every phone in EDL mode has a line that says so.
LEMMA EdlListed ==
  ASSUME NEW k, NEW f, Phoned(k, f), NEW d \in Devices, f[d].mode = "edl"
  PROVE  \E i \in DOMAIN List(BusOf(k, f)) :
            /\ List(BusOf(k, f))[i].port = f[d].ports[1]
            /\ List(BusOf(k, f))[i].serial = Serial(k[d], "edl")
            /\ Is9008(List(BusOf(k, f))[i])
<1> DEFINE b == BusOf(k, f)
<1>1. PICK o : OnBus(b, o, k, f)
  BY BusIs
<1> HIDE DEF b
<1>2. PICK j \in DOMAIN PortsAll(b) :
         PortsAll(b)[j].port = f[d].ports[1] /\ b[PortsAll(b)[j].dev] = Descriptor(k[d], f[d])
  BY <1>1, FirstPortListed
<1>3. Descriptor(k[d], f[d]).pid = "9008" /\ Descriptor(k[d], f[d]).serial = Serial(k[d], "edl")
  BY EdlDescriptor
<1>4. Allowed("9008", ListMode(b, j))
  BY <1>1, <1>2, <1>3, ModesAllowed
<1>5. /\ j \in DOMAIN List(b)
      /\ List(b)[j].port = f[d].ports[1] /\ List(b)[j].mode = ListMode(b, j) /\ List(b)[j].qc = TRUE
      /\ List(b)[j].pid = "9008" /\ List(b)[j].serial = Serial(k[d], "edl")
  <2>1. LineIs(b, j)
    BY <1>1, <1>2, ListLine
  <2> QED  BY <1>2, <1>3, <2>1 DEF LineIs
<1>6. Is9008(List(b)[j])
  <2>1. ListMode(b, j) \in {"Edl", "Unknown"}
    BY <1>4 DEF Allowed
  <2>2. List(b)[j].mode \in {"Edl", "Unknown"} /\ List(b)[j].qc = TRUE /\ List(b)[j].pid \in EdlPids
    BY <1>5, <2>1 DEF EdlPids
  <2> QED  BY <2>2 DEF Is9008
<1> QED  BY <1>5, <1>6 DEF b

\* The name of an NMEA port does not begin that of a diagnostics port.
LEMMA NotNmea ==
  ~IsPrefix(<<"NMEA">>, <<"Diagnostics", "90B8">>)
<1>1. SUFFICES ASSUME SubSeq(<<"NMEA">>, 1, 1) = SubSeq(<<"Diagnostics", "90B8">>, 1, 1) PROVE FALSE
  BY DEF IsPrefix
<1>2. SubSeq(<<"NMEA">>, 1, 1)[1] = "NMEA" /\ SubSeq(<<"Diagnostics", "90B8">>, 1, 1)[1] = "Diagnostics"
  OBVIOUS
<1> QED  BY <1>1, <1>2

\* The first port of a phone in DIAG mode, matched by its name.
LEMMA NamedDiag ==
  ASSUME NEW m, Says90B8(m), NEW n \in 1..2, m[n].str # None,
         NEW product \in {None, <<"Diagnostics", "90B8">>}, product # None, IsPrefix(m[n].str, product)
  PROVE  m[n].mode = "Diag"
<1>1. product = <<"Diagnostics", "90B8">>
  OBVIOUS
<1>2. n # 2
  <2>1. n = 2 => m[2].str = <<"NMEA">>
    BY DEF Says90B8
  <2> QED  BY <1>1, <2>1, NotNmea
<1>3. n = 1
  BY <1>2
<1> QED  BY <1>3 DEF Says90B8

\* The first of the nameless ports with one key takes the first place.
LEMMA FirstPlace ==
  ASSUME NEW k, NEW f, Phoned(k, f), NEW b, NEW o, OnBus(b, o, k, f), NEW j \in Nameless(b),
         b[PortsAll(b)[j].dev].pid = "90B8"
  PROVE  \E i \in DOMAIN PortsAll(b) :
            /\ b[PortsAll(b)[i].dev].pid = "90B8"
            /\ b[PortsAll(b)[i].dev].serial = b[PortsAll(b)[j].dev].serial
            /\ ListMode(b, i) \in {"Diag", "Unknown"}
<1> DEFINE P == PortsAll(b)
           U == {i \in Nameless(b) : KeyOf(b, P[i]) = KeyOf(b, P[j])}
           i == Min(U)
           before == {h \in Nameless(b) : h < i /\ KeyOf(b, P[h]) = KeyOf(b, P[i])}
<1>1. PortsAt(b, o, k, f)
  BY PortsAreAt
<1>2. U \in SUBSET Nat /\ j \in U /\ \A h \in U : h \in DOMAIN P
  BY <1>1 DEF Nameless, PortsAt
<1>3. i \in U /\ \A h \in U : i <= h
  <2> HIDE DEF U
  <2> QED  BY <1>2, FirstIsMember
<1>4. i \in Nat /\ i \in Nameless(b) /\ KeyOf(b, P[i]) = KeyOf(b, P[j]) /\ i \in DOMAIN P
  BY <1>2, <1>3
<1>5. before = {}
  <2>1. ASSUME NEW h \in before PROVE FALSE
    <3>1. h \in U /\ h < i
      <4> HIDE DEF i
      <4> QED  BY <1>4
    <3>2. h \in Nat /\ i <= h
      <4> HIDE DEF i, U
      <4> QED  BY <1>2, <1>3, <3>1
    <3> HIDE DEF i, U
    <3> QED  BY <1>4, <3>1, <3>2
  <2> HIDE DEF before
  <2> QED  BY <2>1
<1> DEFINE m == Answer(b, i)
<1> HIDE DEF U, i
<1>6. ListMode(b, i) = IF 1 <= Len(m) THEN m[1].mode ELSE "Unknown"
  <2>1. ListMode(b, i) = ModeByPlace(b, P, i, m, Nameless(b))
    BY <1>4 DEF ListMode
  <2>2. ModeByPlace(b, P, i, m, Nameless(b))
          = IF 1 + Cardinality(before) <= Len(m) THEN m[1 + Cardinality(before)].mode ELSE "Unknown"
    BY DEF ModeByPlace
  <2>3. Cardinality(before) = 0
    BY <1>5, FS_EmptySet
  <2> HIDE DEF before, m, P
  <2> QED  BY <2>1, <2>2, <2>3
<1>7. /\ KeyOf(b, P[i]) = [pid |-> b[P[i].dev].pid, serial |-> b[P[i].dev].serial]
      /\ KeyOf(b, P[j]) = [pid |-> b[P[j].dev].pid, serial |-> b[P[j].dev].serial]
      /\ Answered(b[P[i].dev].pid, m)
  BY <1>1, <1>2, <1>4 DEF PortsAt
<1>8. b[P[i].dev].pid = "90B8" /\ b[P[i].dev].serial = b[P[j].dev].serial
  <2> HIDE DEF P
  <2>1. KeyOf(b, P[i]).pid = KeyOf(b, P[j]).pid /\ KeyOf(b, P[i]).serial = KeyOf(b, P[j]).serial
    BY <1>4
  <2> QED  BY <1>7, <2>1 DEF P
<1>9. m = <<>> \/ Says90B8(m)
  <2> HIDE DEF m, P
  <2> QED  BY <1>7, <1>8 DEF Answered
<1>10. ListMode(b, i) \in {"Diag", "Unknown"}
  <2> HIDE DEF m
  <2> QED  BY <1>6, <1>9 DEF Says90B8
<1> QED  BY <1>4, <1>8, <1>10

\* Every phone in DIAG mode has a line that says so.
LEMMA DiagListed ==
  ASSUME NEW k, NEW f, Phoned(k, f), NEW d \in Devices, f[d].mode = "diag"
  PROVE  \E i \in DOMAIN List(BusOf(k, f)) :
            IsDiag(List(BusOf(k, f))[i]) /\ List(BusOf(k, f))[i].serial = k[d].serial
<1> DEFINE b == BusOf(k, f)
           dev == Descriptor(k[d], f[d])
<1>1. PICK o : OnBus(b, o, k, f)
  BY BusIs
<1> HIDE DEF b
<1>2. PICK j \in DOMAIN PortsAll(b) : PortsAll(b)[j].iface = 1 /\ b[PortsAll(b)[j].dev] = dev
  BY <1>1, FirstPortListed
<1>3. /\ dev.pid = "90B8" /\ dev.serial = Serial(k[d], "diag")
      /\ dev.ifaces = <<Iface(k[d], f[d].ports, 1, "vendor", "Diagnostics", "90B8"),
                        Iface(k[d], f[d].ports, 2, "vendor", "NMEA", "90B8")>>
  BY DiagDescriptor
<1>4. dev.serial = k[d].serial
  BY <1>3 DEF Serial
<1>5. dev.ifaces[1].product \in {None, <<"Diagnostics", "90B8">>}
  BY <1>3 DEF Iface
<1> HIDE DEF dev
<1>6. \E i \in DOMAIN PortsAll(b) :
         /\ b[PortsAll(b)[i].dev].pid = "90B8" /\ b[PortsAll(b)[i].dev].serial = k[d].serial
         /\ ListMode(b, i) \in {"Diag", "Unknown"}
  <2>1. CASE j \in Nameless(b)
    BY <1>1, <1>2, <1>3, <1>4, <2>1, FirstPlace
  <2>2. CASE j \notin Nameless(b)
    <3> DEFINE p == PortsAll(b)[j]
               m == Answer(b, j)
               n == NameMatch(b, p)
    <3>1. PortsAt(b, o, k, f)
      BY <1>1, PortsAreAt
    <3>2. Answered("90B8", m) /\ m = Queried(b, KeyOf(b, p))
      BY <1>2, <1>3, <3>1 DEF PortsAt, Answer
    <3>3. Len(m) \in Nat
      BY <3>2, AnswersAllowed
    <3>4. n # 0 /\ ListMode(b, j) = m[n].mode
      BY <2>2 DEF Nameless, ListMode
    <3>5. b[p.dev].ifaces[p.iface].product \in {None, <<"Diagnostics", "90B8">>}
      BY <1>2, <1>5
    <3> DEFINE product == b[p.dev].ifaces[p.iface].product
    <3> HIDE DEF m, p
    <3>6. /\ n \in 0..Len(m) /\ product # None
          /\ m[n].str # None /\ IsPrefix(m[n].str, product)
      BY <3>2, <3>3, <3>4, NameMatchIs
    <3> HIDE DEF n, product
    <3>7. n \in 1..Len(m)
      BY <3>3, <3>4, <3>6
    <3>8. Says90B8(m)
      <4>1. m # <<>>
        BY <3>7
      <4> QED  BY <3>2, <4>1 DEF Answered
    <3>9. n \in 1..2
      BY <3>7, <3>8 DEF Says90B8
    <3>10. m[n].mode = "Diag"
      BY <3>5, <3>6, <3>8, <3>9, NamedDiag DEF product
    <3> QED  BY <1>2, <1>3, <1>4, <3>4, <3>10
  <2> QED  BY <2>1, <2>2
<1>7. PICK i \in DOMAIN PortsAll(b) :
         /\ b[PortsAll(b)[i].dev].pid = "90B8" /\ b[PortsAll(b)[i].dev].serial = k[d].serial
         /\ ListMode(b, i) \in {"Diag", "Unknown"}
  BY <1>6
<1>8. LineIs(b, i)
  BY <1>1, ListLine
<1>9. IsDiag(List(b)[i])
  BY <1>7, <1>8 DEF LineIs, IsDiag, DiagPids
<1> QED  BY <1>7, <1>8, <1>9 DEF LineIs, b

-----------------------------------------------------------------------------
(* Selection *)

\* Answers are told from the absence of one.
LEMMA ErrorsDiffer ==
  /\ "InvalidPort" # None /\ "NotFound" # None /\ "MultipleFound" # None
  /\ \A l \in DeviceInfos : l # None
  BY PhonesAssumption DEF Answers

LEMMA FirstOfIs ==
  ASSUME NEW l, NEW at \in SUBSET Nat, NEW err, err # None
  PROVE  /\ FirstOf(l, at, err).err \in {None, err}
         /\ FirstOf(l, at, err).err = None => \E i \in at : FirstOf(l, at, err).dev = l[i]
<1>1. CASE at = {}
  BY <1>1 DEF FirstOf, Failed
<1>2. CASE at # {}
  <2>1. Min(at) \in at
    BY <1>2, FirstIsMember
  <2> QED  BY <1>2, <2>1 DEF FirstOf, Found
<1> QED  BY <1>1, <1>2

\* An answer by port shows the phone whose port it is.
LEMMA ByPort ==
  ASSUME NEW k, NEW f, NEW l, Sound(l, k, f), NEW port
  PROVE  /\ FindByPort(l, port).err \in {None, "InvalidPort"}
         /\ FindByPort(l, port).err = None =>
              /\ FindByPort(l, port).dev.port = port
              /\ \E d \in Devices : Shows(k, f, FindByPort(l, port).dev, d)
<1> DEFINE at == {i \in DOMAIN l : l[i].port = port}
           a == FindByPort(l, port)
<1>1. at \in SUBSET Nat
  BY DEF Sound
<1>2. a = FirstOf(l, at, "InvalidPort")
  BY DEF FindByPort
<1> HIDE DEF a
<1>3. a.err \in {None, "InvalidPort"} /\ (a.err = None => \E i \in at : a.dev = l[i])
  <2> HIDE DEF at
  <2> QED  BY <1>1, <1>2, ErrorsDiffer, FirstOfIs
<1>4. a.err = None => a.dev.port = port /\ \E d \in Devices : Shows(k, f, a.dev, d)
  BY <1>3 DEF Sound
<1> QED  BY <1>3, <1>4 DEF a

\* An answer by serial shows a phone that has it.
LEMMA BySerial ==
  ASSUME NEW k, NEW f, NEW l, Sound(l, k, f), NEW serial
  PROVE  /\ FindBySerial(l, serial).err \in {None, "NotFound"}
         /\ FindBySerial(l, serial).err = None =>
              /\ FindBySerial(l, serial).dev.serial = serial
              /\ \E d \in Devices : Shows(k, f, FindBySerial(l, serial).dev, d)
<1> DEFINE at == {i \in DOMAIN l : l[i].serial = serial}
           a == FindBySerial(l, serial)
<1>1. at \in SUBSET Nat
  BY DEF Sound
<1>2. a = FirstOf(l, at, "NotFound")
  BY DEF FindBySerial
<1> HIDE DEF a
<1>3. a.err \in {None, "NotFound"} /\ (a.err = None => \E i \in at : a.dev = l[i])
  <2> HIDE DEF at
  <2> QED  BY <1>1, <1>2, ErrorsDiffer, FirstOfIs
<1>4. a.err = None => a.dev.serial = serial /\ \E d \in Devices : Shows(k, f, a.dev, d)
  BY <1>3 DEF Sound
<1> QED  BY <1>3, <1>4 DEF a

\* The lines of the ports in EDL mode, in DIAG mode, and those that count.
EdlLines(l)  == {i \in DOMAIN l : Is9008(l[i])}
DiagLines(l) == {i \in DOMAIN l : IsDiag(l[i])}
Apiece(l)    == {i \in EdlLines(l) : \/ l[i].serial = None
                                     \/ \A j \in EdlLines(l) : j < i => l[j].serial # l[i].serial}
DiagSerials(l) == {l[i].serial : i \in DiagLines(l)}

LEMMA LinesFinite ==
  ASSUME NEW l, Len(l) \in Nat, DOMAIN l = 1..Len(l)
  PROVE  /\ EdlLines(l) \in SUBSET Nat /\ DiagLines(l) \in SUBSET Nat
         /\ IsFiniteSet(Apiece(l)) /\ Cardinality(Apiece(l)) \in Nat
         /\ IsFiniteSet(DiagSerials(l)) /\ Cardinality(DiagSerials(l)) \in Nat
<1>1. EdlLines(l) \in SUBSET (1..Len(l)) /\ DiagLines(l) \in SUBSET (1..Len(l)) /\ Apiece(l) \in SUBSET (1..Len(l))
  BY DEF EdlLines, DiagLines, Apiece
<1>2. IsFiniteSet(1..Len(l))
  <2>1. 1 \in Int /\ Len(l) \in Int
    OBVIOUS
  <2> QED  BY <2>1, FS_Interval, Zenon
<1>3. IsFiniteSet(Apiece(l)) /\ IsFiniteSet(DiagLines(l))
  BY <1>1, <1>2, FS_Subset
<1>4. IsFiniteSet(DiagSerials(l))
  <2> DEFINE g == [i \in DiagLines(l) |-> l[i].serial]
  <2>1. g \in [DiagLines(l) -> DiagSerials(l)] /\ \A s \in DiagSerials(l) : \E i \in DiagLines(l) : g[i] = s
    BY DEF DiagSerials
  <2> HIDE DEF g
  <2>2. g \in Surjection(DiagLines(l), DiagSerials(l))
    BY <2>1, Fun_IsSurj
  <2> QED  BY <1>3, <2>2, FS_Surjection
<1>5. Cardinality(Apiece(l)) \in Nat /\ Cardinality(DiagSerials(l)) \in Nat
  BY <1>3, <1>4, FS_CardinalityType
<1> QED  BY <1>1, <1>3, <1>4, <1>5

\* The port chosen is one of those to choose from.
LEMMA SelectedIs ==
  ASSUME NEW l, NEW group \in SUBSET Nat, group # {}
  PROVE  \E i \in group : SelectDiagPort(l, group) = l[i]
<1> DEFINE preferred == <<<<"MSM", "Diagnostics">>, <<"Diagnostics">>, <<"MDM", "Diagnostics">>>>
           having(words) == {i \in group : Says(l[i], words)}
           I == {n \in 1..Len(preferred) : having(preferred[n]) # {}}
           best == IF I # {} THEN Min(I) ELSE 0
           among == IF best = 0 THEN group ELSE having(preferred[best])
<1>1. SelectDiagPort(l, group) = l[Min(among)]
  BY DEF SelectDiagPort, SelectInSeq
<1>2. I # {} => Min(I) \in I
  <2>1. I \in SUBSET Nat
    OBVIOUS
  <2> HIDE DEF I
  <2> QED  BY <2>1, FirstIsMember
<1>3. best = 0 \/ having(preferred[best]) # {}
  <2> HIDE DEF having, preferred
  <2>1. CASE I = {}
    BY <2>1
  <2>2. CASE I # {}
    <3>1. best \in I
      <4> HIDE DEF I
      <4> QED  BY <1>2, <2>2
    <3> HIDE DEF best
    <3> QED  BY <3>1
  <2> QED  BY <2>1, <2>2
<1>4. among # {} /\ among \subseteq group
  <2> HIDE DEF best, preferred
  <2> QED  BY <1>3
<1> HIDE DEF among
<1>5. Min(among) \in among
  BY <1>4, FirstIsMember
<1> QED  BY <1>1, <1>4, <1>5

\* One line counts for every serial, and every line without one.
LEMMA CountedFor ==
  ASSUME NEW l, Len(l) \in Nat, DOMAIN l = 1..Len(l), NEW i \in EdlLines(l)
  PROVE  \E c \in Apiece(l) : l[c].serial = l[i].serial /\ (l[i].serial = None => c = i)
<1> DEFINE S == {j \in EdlLines(l) : l[j].serial = l[i].serial}
           c == Min(S)
<1>1. CASE l[i].serial = None
  BY <1>1 DEF Apiece
<1>2. CASE l[i].serial # None
  <2>1. S \in SUBSET Nat /\ i \in S
    BY LinesFinite
  <2>2. c \in S /\ \A j \in S : c <= j
    <3> HIDE DEF S
    <3> QED  BY <2>1, FirstIsMember
  <2>3. c \in EdlLines(l) /\ l[c].serial = l[i].serial
    BY <2>2
  <2>4. ASSUME NEW j \in EdlLines(l), j < c PROVE l[j].serial # l[c].serial
    <3>1. SUFFICES ASSUME l[j].serial = l[c].serial PROVE FALSE
      OBVIOUS
    <3>2. j \in S
      BY <2>3, <3>1
    <3> HIDE DEF S, c
    <3>3. c <= j /\ c \in Nat /\ j \in Nat
      BY <2>1, <2>2, <3>2
    <3> QED  BY <2>4, <3>3
  <2> HIDE DEF S, c
  <2>5. c \in Apiece(l)
    BY <2>3, <2>4 DEF Apiece
  <2> QED  BY <1>2, <2>3, <2>5
<1> QED  BY <1>1, <1>2

\* What auto_select answers.
AutoIs(l) ==
  /\ AutoSelect(l).err \in {None, "MultipleFound", "NotFound"}
  /\ AutoSelect(l).err = None =>
       \/ /\ Cardinality(Apiece(l)) = 1
          /\ \E i \in EdlLines(l) : AutoSelect(l).dev = l[i]
       \/ /\ EdlLines(l) = {} /\ Cardinality(DiagSerials(l)) = 1
          /\ \E i \in DiagLines(l) : AutoSelect(l).dev = l[i]

LEMMA AutoSelects ==
  ASSUME NEW l, Len(l) \in Nat, DOMAIN l = 1..Len(l)
  PROVE  AutoIs(l)
<1> DEFINE edls == Cardinality(Apiece(l))
           diags == Cardinality(DiagSerials(l))
<1>1. AutoSelect(l) =
        IF edls = 1 THEN Found(l[Min(EdlLines(l))])
        ELSE IF edls > 1 \/ diags > 1 THEN Failed("MultipleFound")
        ELSE IF diags = 0 THEN Failed("NotFound") ELSE Found(SelectDiagPort(l, DiagLines(l)))
  BY DEF AutoSelect, EdlCount, EdlLines, DiagLines, Apiece, DiagSerials
<1>2. /\ EdlLines(l) \in SUBSET Nat /\ DiagLines(l) \in SUBSET Nat
      /\ IsFiniteSet(Apiece(l)) /\ edls \in Nat /\ IsFiniteSet(DiagSerials(l)) /\ diags \in Nat
  BY LinesFinite
<1>3. edls = 0 => EdlLines(l) = {}
  <2>1. edls = 0 => Apiece(l) = {}
    BY <1>2, FS_EmptySet
  <2> QED  BY <2>1, CountedFor
<1>4. edls = 1 => EdlLines(l) # {}
  <2>1. EdlLines(l) = {} => Apiece(l) = {}
    BY DEF Apiece
  <2> QED  BY <2>1, FS_EmptySet
<1>5. diags = 1 => DiagLines(l) # {}
  <2>1. DiagLines(l) = {} => DiagSerials(l) = {}
    BY DEF DiagSerials
  <2> QED  BY <2>1, FS_EmptySet
<1> HIDE DEF edls, diags
<1>6. CASE edls = 1
  <2>1. Min(EdlLines(l)) \in EdlLines(l)
    BY <1>2, <1>4, <1>6, FirstIsMember
  <2> QED  BY <1>1, <1>6, <2>1 DEF AutoIs, Found, edls
<1>7. CASE edls # 1 /\ (edls > 1 \/ diags > 1)
  BY <1>1, <1>7, ErrorsDiffer DEF AutoIs, Failed
<1>8. CASE edls # 1 /\ ~(edls > 1 \/ diags > 1) /\ diags = 0
  BY <1>1, <1>8, ErrorsDiffer DEF AutoIs, Failed
<1>9. CASE edls # 1 /\ ~(edls > 1 \/ diags > 1) /\ diags # 0
  <2>1. edls = 0 /\ diags = 1
    BY <1>2, <1>9
  <2>2. PICK i \in DiagLines(l) : SelectDiagPort(l, DiagLines(l)) = l[i]
    BY <1>2, <1>5, <2>1, SelectedIs
  <2> QED  BY <1>1, <1>3, <1>9, <2>1, <2>2 DEF AutoIs, Found, diags
<1> QED  BY <1>6, <1>7, <1>8, <1>9

\* A line in EDL mode shows a phone in EDL mode, and so for DIAG mode.
LEMMA LineMode ==
  ASSUME NEW k, NEW f, Phoned(k, f), NEW l, NEW d, Shows(k, f, l, d)
  PROVE  /\ f[d].mode \in {"edl", "diag"}
         /\ Is9008(l) => f[d].mode = "edl"
         /\ IsDiag(l) => f[d].mode = "diag"
<1>1. f[d] \in Places /\ f[d].mode # "off"
  BY DEF Shows, Phoned
<1>2. f[d].mode \in {"edl", "diag"}
  BY <1>1, PlaceCases
<1> QED  BY <1>2 DEF Shows, Is9008, IsDiag, EdlPids, DiagPids

\* One line that counts leaves one phone in EDL mode.
LEMMA OneEdl ==
  ASSUME NEW k, NEW f, Phoned(k, f), Cardinality(Apiece(List(BusOf(k, f)))) = 1,
         NEW d \in Devices, NEW e \in Devices, f[d].mode = "edl", f[e].mode = "edl"
  PROVE  d = e
<1> DEFINE l == List(BusOf(k, f))
<1>1. Len(l) \in Nat /\ DOMAIN l = 1..Len(l)
  BY ListingsSound DEF Sound
<1>2. PICK i \in DOMAIN l : l[i].port = f[d].ports[1] /\ l[i].serial = Serial(k[d], "edl") /\ Is9008(l[i])
  BY EdlListed
<1>3. PICK j \in DOMAIN l : l[j].port = f[e].ports[1] /\ l[j].serial = Serial(k[e], "edl") /\ Is9008(l[j])
  BY EdlListed
<1>4. Cardinality(Apiece(l)) = 1
  OBVIOUS
<1> HIDE DEF l
<1>5. PICK x : Apiece(l) = {x}
  <2>1. IsFiniteSet(Apiece(l))
    BY <1>1, LinesFinite
  <2> QED  BY <1>4, <2>1, FS_Singleton
<1>6. i \in EdlLines(l) /\ j \in EdlLines(l)
  BY <1>2, <1>3 DEF EdlLines
<1>7. /\ l[x].serial = l[i].serial /\ (l[i].serial = None => x = i)
      /\ l[x].serial = l[j].serial /\ (l[j].serial = None => x = j)
  BY <1>1, <1>5, <1>6, CountedFor
<1>8. k[d].edlSerial = k[e].edlSerial
  BY <1>2, <1>3, <1>7 DEF Serial
<1>9. CASE k[d].edlSerial # None
  BY <1>8, <1>9, PhonesAssumption DEF Phoned
<1>10. CASE k[d].edlSerial = None
  <2>1. i = j
    BY <1>2, <1>3, <1>7, <1>8, <1>10 DEF Serial
  <2>2. f[d].ports[1] = f[e].ports[1]
    BY <1>2, <1>3, <2>1
  <2>3. 1 \in DOMAIN f[d].ports /\ 1 \in DOMAIN f[e].ports
    <3>1. f[d] \in Places /\ f[e] \in Places /\ f[d].mode # "off" /\ f[e].mode # "off"
      BY DEF Phoned
    <3> QED  BY <3>1, IfacesOf
  <2> QED  BY <2>2, <2>3 DEF Phoned, Apart
<1> QED  BY <1>9, <1>10

\* One serial leaves one phone in DIAG mode, when each of them has one.
LEMMA OneDiag ==
  ASSUME NEW k, NEW f, Phoned(k, f), Cardinality(DiagSerials(List(BusOf(k, f)))) = 1,
         NEW d \in Devices, NEW e \in Devices, f[d].mode = "diag", f[e].mode = "diag",
         k[d].serial # None
  PROVE  d = e
<1> DEFINE l == List(BusOf(k, f))
<1>1. Len(l) \in Nat /\ DOMAIN l = 1..Len(l)
  BY ListingsSound DEF Sound
<1>2. PICK i \in DOMAIN l : IsDiag(l[i]) /\ l[i].serial = k[d].serial
  BY DiagListed
<1>3. PICK j \in DOMAIN l : IsDiag(l[j]) /\ l[j].serial = k[e].serial
  BY DiagListed
<1>4. Cardinality(DiagSerials(l)) = 1
  OBVIOUS
<1> HIDE DEF l
<1>5. PICK x : DiagSerials(l) = {x}
  <2>1. IsFiniteSet(DiagSerials(l))
    BY <1>1, LinesFinite
  <2> QED  BY <1>4, <2>1, FS_Singleton
<1>6. k[d].serial \in DiagSerials(l) /\ k[e].serial \in DiagSerials(l)
  BY <1>2, <1>3 DEF DiagLines, DiagSerials
<1> QED  BY <1>5, <1>6, PhonesAssumption DEF Phoned

\* The phone auto_select stands for: one in EDL mode before one in DIAG mode,
\* and the only one in EDL mode, or in DIAG mode when serials tell.
Chosen(k, f, d) ==
  /\ \/ f[d].mode = "edl"
     \/ f[d].mode = "diag" /\ \A e \in Devices : f[e].mode # "edl"
  /\ f[d].mode = "edl" => \A e \in Devices : f[e].mode = "edl" => e = d
  /\ f[d].mode = "diag" /\ (\A e \in Devices : f[e].mode = "diag" => k[e].serial # None)
       => \A e \in Devices : f[e].mode = "diag" => e = d

\* auto_select answers a port of the phone it must: one in EDL mode if there is
\* any, and then there is no other; else one in DIAG mode, and no other as far
\* as serials tell (auto_select, group_by_serial, select_diag_port).
THEOREM Automatic ==
  ASSUME NEW k, NEW f, Phoned(k, f)
  PROVE  /\ AutoSelect(List(BusOf(k, f))).err \in {None, "MultipleFound", "NotFound"}
         /\ AutoSelect(List(BusOf(k, f))).err = None =>
              \E d \in Devices : Shows(k, f, AutoSelect(List(BusOf(k, f))).dev, d) /\ Chosen(k, f, d)
<1> DEFINE l == List(BusOf(k, f))
           a == AutoSelect(l)
<1>1. Sound(l, k, f)
  BY ListingsSound
<1>2. ASSUME Cardinality(Apiece(l)) = 1
      PROVE  \A d, e \in Devices : f[d].mode = "edl" /\ f[e].mode = "edl" => d = e
  BY <1>2, OneEdl
<1>3. ASSUME Cardinality(DiagSerials(l)) = 1
      PROVE  \A d, e \in Devices : f[d].mode = "diag" /\ f[e].mode = "diag" /\ k[d].serial # None => d = e
  BY <1>3, OneDiag
<1>4. ASSUME EdlLines(l) = {} PROVE \A d \in Devices : f[d].mode # "edl"
  <2>1. ASSUME NEW d \in Devices, f[d].mode = "edl" PROVE FALSE
    <3>1. \E i \in DOMAIN l : Is9008(l[i])
      BY <2>1, EdlListed
    <3> HIDE DEF l
    <3> QED  BY <1>4, <3>1 DEF EdlLines
  <2> QED  BY <2>1
<1> HIDE DEF l
<1>5. AutoIs(l)
  BY <1>1, AutoSelects DEF Sound
<1> HIDE DEF a
<1>6. ASSUME a.err = None PROVE \E d \in Devices : Shows(k, f, a.dev, d) /\ Chosen(k, f, d)
  <2>1. CASE Cardinality(Apiece(l)) = 1 /\ \E i \in EdlLines(l) : a.dev = l[i]
    <3>1. PICK i \in EdlLines(l) : a.dev = l[i]
      BY <2>1
    <3>2. i \in DOMAIN l /\ Is9008(l[i])
      BY <3>1 DEF EdlLines
    <3>3. PICK d \in Devices : Shows(k, f, l[i], d)
      BY <1>1, <3>2 DEF Sound
    <3>4. f[d].mode = "edl"
      BY <3>2, <3>3, LineMode
    <3>5. Chosen(k, f, d)
      BY <1>2, <2>1, <3>4 DEF Chosen
    <3> QED  BY <3>1, <3>3, <3>5
  <2>2. CASE EdlLines(l) = {} /\ Cardinality(DiagSerials(l)) = 1 /\ \E i \in DiagLines(l) : a.dev = l[i]
    <3>1. PICK i \in DiagLines(l) : a.dev = l[i]
      BY <2>2
    <3>2. i \in DOMAIN l /\ IsDiag(l[i])
      BY <3>1 DEF DiagLines
    <3>3. PICK d \in Devices : Shows(k, f, l[i], d)
      BY <1>1, <3>2 DEF Sound
    <3>4. f[d].mode = "diag"
      BY <3>2, <3>3, LineMode
    <3>5. Chosen(k, f, d)
      BY <1>3, <1>4, <2>2, <3>4 DEF Chosen
    <3> QED  BY <3>1, <3>3, <3>5
  <2> QED  BY <1>5, <1>6, <2>1, <2>2 DEF AutoIs, a
<1>7. a.err \in {None, "MultipleFound", "NotFound"}
  BY <1>5 DEF AutoIs, a
<1> QED  BY <1>6, <1>7 DEF a, l

\* A port that a line shows belongs to the phone it shows, and to no other.
LEMMA OnlyOwner ==
  ASSUME NEW k, NEW f, Phoned(k, f), NEW l, NEW d, Shows(k, f, l, d),
         NEW e \in Devices, l.port \in ToSet(f[e].ports)
  PROVE  e = d
<1>1. PICK i \in DOMAIN f[d].ports : l.port = f[d].ports[i]
  BY DEF Shows, ToSet
<1>2. PICK j \in DOMAIN f[e].ports : l.port = f[e].ports[j]
  BY DEF ToSet
<1>3. d \in Devices /\ Apart(f)
  BY DEF Phoned, Shows
<1> QED  BY <1>1, <1>2, <1>3 DEF Apart

LEMMA OwnerIs ==
  ASSUME Phoned(kind, phys), NEW l, NEW d, Shows(kind, phys, l, d)
  PROVE  Owner(l.port) = d
<1>1. d \in Attached /\ l.port \in ToSet(phys[d].ports)
  BY DEF Shows, Attached
<1>2. \A e \in Attached : l.port \in ToSet(phys[e].ports) => e = d
  BY OnlyOwner DEF Attached
<1> QED  BY <1>1, <1>2 DEF Owner

\* The ports that are 9008 are those of the phones in EDL mode.
LEMMA EdlPorts ==
  ASSUME Phoned(kind, phys), listed = Listed(kind, phys)
  PROVE  /\ Edl9008 \subseteq Ports
         /\ \A d \in InMode("edl") : phys[d].ports[1] \in Edl9008
         /\ \A p \in Edl9008 : \E d \in InMode("edl") : p = phys[d].ports[1]
<1> DEFINE l == listed.list
<1>1. l = List(BusOf(kind, phys))
  BY DEF Listed
<1>2. Sound(l, kind, phys)
  BY <1>1, ListingsSound
<1>3. Edl9008 = {l[i].port : i \in {j \in DOMAIN l : Is9008(l[j])}}
  BY DEF Edl9008, ToSet
<1>4. ASSUME NEW d \in InMode("edl") PROVE phys[d].ports[1] \in Edl9008
  <2>1. \E i \in DOMAIN l : l[i].port = phys[d].ports[1] /\ Is9008(l[i])
    BY <1>1, EdlListed DEF InMode
  <2> HIDE DEF l
  <2> QED  BY <1>3, <2>1
<1>5. ASSUME NEW p \in Edl9008 PROVE p \in Ports /\ \E d \in InMode("edl") : p = phys[d].ports[1]
  <2> HIDE DEF l
  <2>1. PICK i \in DOMAIN l : p = l[i].port /\ Is9008(l[i])
    BY <1>3
  <2>2. PICK d \in Devices : Shows(kind, phys, l[i], d)
    BY <1>2, <2>1 DEF Sound
  <2>3. phys[d].mode = "edl"
    BY <2>1, <2>2, LineMode
  <2>4. phys[d] \in Places
    BY <2>2 DEF Phoned
  <2>5. PICK x \in Ports : phys[d].ports = <<x>>
    BY <2>3, <2>4, PlaceCases
  <2>6. p \in ToSet(phys[d].ports)
    BY <2>1, <2>2 DEF Shows
  <2>7. p = x /\ phys[d].ports[1] = x
    BY <2>5, <2>6 DEF ToSet
  <2> QED  BY <2>3, <2>7 DEF InMode
<1> QED  BY <1>4, <1>5

-----------------------------------------------------------------------------
(* The inductive invariant *)

Histories ==
  [first : Devices \cup {None}, meant : SUBSET Devices, known : BOOLEAN,
   got : Devices \cup {None}, mode : {None, "off", "edl", "diag"}, plugs : Nat, blind : BOOLEAN]

\* Nothing is found, and nobody asked, before the program has looked.
Waiting == pc \in {"wait", "find"} => asked = {} /\ history.first = None

\* Nothing is recorded or answered before connect comes back.
NotDone == pc # "done" => history.got = None /\ outcome = None

\* While it switches a phone, no other phone has the port it works with, and
\* no other was asked to restart.
OnItsWay ==
  pc \in {"open", "snapshot", "poll", "reselect"} =>
    /\ history.first \in Devices /\ target \in DeviceInfos
    /\ setting.port # None => target.port = setting.port
    /\ history.plugs = 0 =>
         /\ asked \subseteq {history.first}
         /\ \A d \in Devices : target.port \in ToSet(phys[d].ports) => d = history.first

\* The snapshot has the ports of the other phones in EDL mode, and so a port
\* that is not in it is the one of the phone that was switched.
OthersKnown ==
  Calm /\ pc \in {"poll", "reselect"} =>
    \A d \in InMode("edl") : d = history.first \/ phys[d].ports[1] \in preexisting
Switched == Calm /\ pc = "reselect" => phys[history.first].mode = "edl"

Inv ==
  /\ TypeOK /\ history \in Histories /\ Waiting /\ NotDone /\ OnItsWay /\ OthersKnown /\ Switched
  /\ FoundIsMeant /\ ConnectsToFound /\ SessionIsTrue

\* What the phones are and where they are.
WorldOK ==
  Phoned(kind, phys) /\ listed = Listed(kind, phys) /\ asked \subseteq Devices
ClientOK ==
  /\ setting \in Settings
  /\ pc \in {"wait", "find", "open", "snapshot", "poll", "reselect", "done"}
  /\ target \in DeviceInfos \cup {None} /\ baud \in 1..3
  /\ preexisting \subseteq Ports /\ polls \in 0..MaxPolls
  /\ self.device \in DeviceInfos \cup {None}
  /\ self.state = "Disconnected" <=> self.device = None
  /\ outcome \in Answers \cup {None}

LEMMA TypeParts == TypeOK <=> WorldOK /\ ClientOK
  BY DEF TypeOK, WorldOK, ClientOK, Phoned

LEMMA WorldStays ==
  ASSUME WorldOK, UNCHANGED <<kind, phys, listed>>, asked' \subseteq Devices
  PROVE  WorldOK'
  BY DEF WorldOK

-----------------------------------------------------------------------------
(* The steps *)

\* connect comes back empty-handed.
LEMMA FailStep ==
  ASSUME Inv, NEW answer \in Answers \ {"ok"}, Fail(answer)
  PROVE  Inv'
<1>0. /\ UNCHANGED <<kind, phys, listed, asked>> /\ UNCHANGED <<setting, target, baud, preexisting, polls>>
      /\ UNCHANGED <<self, history>> /\ pc' = "done" /\ outcome' = answer
  BY DEF Fail, Return, world
<1>1. TypeOK /\ WorldOK /\ ClientOK
  BY TypeParts DEF Inv
<1>2. WorldOK'
  BY <1>0, <1>1, WorldStays DEF WorldOK
<1>3. ClientOK'
  BY <1>0, <1>1 DEF ClientOK
<1>4. TypeOK'
  BY <1>2, <1>3, TypeParts DEF TypeOK, WorldOK, ClientOK, Phoned
<1>5. (history \in Histories)' /\ Waiting' /\ NotDone' /\ OnItsWay' /\ OthersKnown' /\ Switched'
  BY <1>0 DEF Inv, Histories, Waiting, NotDone, OnItsWay, OthersKnown, Switched
<1>6. FoundIsMeant' /\ ConnectsToFound' /\ SessionIsTrue'
  BY <1>0 DEF Inv, FoundIsMeant, ConnectsToFound, SessionIsTrue, Calm
<1> QED  BY <1>4, <1>5, <1>6 DEF Inv

\* A phone that takes free ports leaves the phones apart.
LEMMA MoveApart ==
  ASSUME Phoned(kind, phys), NEW d \in Devices, NEW p \in Places,
         ToSet(p.ports) \subseteq FreePorts, IsInjective(p.ports)
  PROVE  Phoned(kind, [phys EXCEPT ![d] = p])
<1> DEFINE f == [phys EXCEPT ![d] = p]
<1>1. phys \in [Devices -> Places] /\ kind \in Kinds /\ Apart(phys)
  BY DEF Phoned
<1>2. f \in [Devices -> Places] /\ f[d] = p /\ \A e \in Devices : e # d => f[e] = phys[e]
  BY <1>1
<1>3. ASSUME NEW e \in Devices, NEW i \in DOMAIN p.ports, NEW j \in DOMAIN phys[e].ports
      PROVE  p.ports[i] # phys[e].ports[j]
  <2>1. p.ports[i] \in FreePorts
    BY DEF ToSet
  <2>2. phys[e].ports[j] \in ToSet(phys[e].ports)
    BY DEF ToSet
  <2>3. phys[e].ports[j] \in UNION {ToSet(phys[x].ports) : x \in Devices}
    BY <2>2
  <2> QED  BY <2>1, <2>3 DEF FreePorts
<1>4. \A i, j \in DOMAIN p.ports : p.ports[i] = p.ports[j] => i = j
  BY DEF IsInjective
<1> HIDE DEF f
<1>5. ASSUME NEW x \in Devices, NEW y \in Devices, NEW i \in DOMAIN f[x].ports, NEW j \in DOMAIN f[y].ports,
             f[x].ports[i] = f[y].ports[j]
      PROVE  x = y /\ i = j
  <2>1. CASE x = d /\ y = d
    BY <1>2, <1>4, <1>5, <2>1
  <2>2. CASE x = d /\ y # d
    <3>1. f[x] = p /\ f[y] = phys[y]
      BY <1>2, <2>2
    <3> QED  BY <1>3, <1>5, <3>1
  <2>3. CASE x # d /\ y = d
    <3>1. f[x] = phys[x] /\ f[y] = p
      BY <1>2, <2>3
    <3> QED  BY <1>3, <1>5, <3>1
  <2>4. CASE x # d /\ y # d
    <3>1. f[x] = phys[x] /\ f[y] = phys[y]
      BY <1>2, <2>4
    <3> QED  BY <1>1, <1>5, <3>1 DEF Apart
  <2> QED  BY <2>1, <2>2, <2>3, <2>4
<1>6. Apart(f)
  BY <1>5 DEF Apart
<1> QED  BY <1>1, <1>2, <1>6 DEF Phoned, f

\* A phone moves: one that was asked, on its way to EDL mode, or any by hand.
Moved(d) ==
  \/ history' = history /\ d \in asked /\ phys[d].mode # "edl"
  \/ history' = [history EXCEPT !.plugs = @ + 1]

LEMMA MoveStep ==
  ASSUME Inv, NEW d \in Devices, NEW p \in Places,
         ToSet(p.ports) \subseteq FreePorts, IsInjective(p.ports),
         Becomes([phys EXCEPT ![d] = p]), UNCHANGED <<kind, asked, client>>, Moved(d)
  PROVE  Inv'
<1>0. /\ phys' = [phys EXCEPT ![d] = p] /\ listed' = Listed(kind, [phys EXCEPT ![d] = p])
      /\ UNCHANGED <<kind, asked>> /\ UNCHANGED <<setting, pc, target, baud, preexisting, polls>>
      /\ UNCHANGED <<self, outcome>>
  BY DEF Becomes, client
<1>1. TypeOK /\ WorldOK /\ ClientOK
  BY TypeParts DEF Inv
<1>2. Phoned(kind, [phys EXCEPT ![d] = p]) /\ asked \subseteq Devices /\ phys \in [Devices -> Places]
  BY <1>1, MoveApart DEF WorldOK, Phoned
<1>3. WorldOK'
  BY <1>0, <1>2 DEF WorldOK
<1>4. ClientOK'
  BY <1>0, <1>1 DEF ClientOK
<1>5. TypeOK'
  BY <1>3, <1>4, TypeParts DEF TypeOK, WorldOK, ClientOK, Phoned
<1>6. \A e \in Devices : e # d => phys'[e] = phys[e]
  BY <1>0, <1>2
<1>7. CASE history' = history /\ d \in asked /\ phys[d].mode # "edl"
  <2>1. (history \in Histories)' /\ Waiting' /\ NotDone'
    BY <1>0, <1>7 DEF Inv, Waiting, NotDone, Histories
  <2>2. FoundIsMeant' /\ ConnectsToFound' /\ SessionIsTrue'
    BY <1>0, <1>7 DEF Inv, FoundIsMeant, ConnectsToFound, SessionIsTrue, Calm
  <2>3. pc \in {"open", "snapshot", "poll", "reselect"} /\ history.plugs = 0 => d = history.first
    BY <1>7 DEF Inv, OnItsWay
  <2>4. OnItsWay'
    BY <1>0, <1>6, <1>7, <2>3 DEF Inv, OnItsWay
  <2>5. OthersKnown'
    BY <1>0, <1>6, <1>7, <2>3 DEF Inv, OthersKnown, Calm, InMode
  <2>6. ~(Calm /\ pc = "reselect")
    BY <1>7, <2>3 DEF Inv, Switched, Calm
  <2>7. Switched'
    BY <1>0, <1>7, <2>6 DEF Switched, Calm
  <2> QED  BY <1>5, <2>1, <2>2, <2>4, <2>5, <2>7 DEF Inv
<1>8. CASE history' = [history EXCEPT !.plugs = @ + 1]
  <2>1. history \in Histories
    BY DEF Inv
  <2>2. history' \in Histories /\ history'.plugs # 0
        /\ history'.first = history.first /\ history'.meant = history.meant /\ history'.known = history.known
        /\ history'.got = history.got
    BY <1>8, <2>1 DEF Histories
  <2>3. ~Calm'
    BY <2>2 DEF Calm
  <2>4. (history \in Histories)' /\ Waiting' /\ NotDone'
    BY <1>0, <2>2 DEF Inv, Waiting, NotDone
  <2>5. FoundIsMeant' /\ ConnectsToFound' /\ SessionIsTrue' /\ OthersKnown' /\ Switched'
    BY <1>0, <2>2, <2>3 DEF Inv, FoundIsMeant, ConnectsToFound, SessionIsTrue, OthersKnown, Switched
  <2>6. OnItsWay'
    BY <1>0, <2>2 DEF Inv, OnItsWay
  <2> QED  BY <1>5, <2>4, <2>5, <2>6 DEF Inv
<1> QED  BY <1>7, <1>8 DEF Moved

LEMMA OffIsFree ==
  Off \in Places /\ ToSet(Off.ports) \subseteq FreePorts /\ IsInjective(Off.ports)
  BY DEF Off, Places, ToSet, IsInjective

LEMMA RestartStep ==
  ASSUME Inv, NEW d \in Devices, Restart(d)
  PROVE  Inv'
<1>1. UNCHANGED <<kind, asked, client>> /\ Becomes([phys EXCEPT ![d] = Off]) /\ Moved(d)
  BY DEF Restart, Moved
<1> QED  BY <1>1, OffIsFree, MoveStep

LEMMA ComeBackStep ==
  ASSUME Inv, NEW d \in Devices, ComeBack(d)
  PROVE  Inv'
<1>1. UNCHANGED <<kind, asked, client>> /\ Moved(d) /\ Appear(d, "edl")
  BY DEF ComeBack, Moved
<1>2. PICK p \in Places : /\ ToSet(p.ports) \subseteq FreePorts /\ IsInjective(p.ports)
                          /\ Becomes([phys EXCEPT ![d] = p])
  BY <1>1 DEF Appear
<1> QED  BY <1>1, <1>2, MoveStep

LEMMA ByHandStep ==
  ASSUME Inv, NEW d \in Devices, ByHand(d)
  PROVE  Inv'
<1>1. UNCHANGED <<kind, asked, client>> /\ Moved(d)
  BY DEF ByHand, Moved
<1>2. CASE Becomes([phys EXCEPT ![d] = Off])
  BY <1>1, <1>2, OffIsFree, MoveStep
<1>3. CASE \E mode \in {"diag", "edl"} : Appear(d, mode)
  <2>1. PICK p \in Places : /\ ToSet(p.ports) \subseteq FreePorts /\ IsInjective(p.ports)
                            /\ Becomes([phys EXCEPT ![d] = p])
    BY <1>3 DEF Appear
  <2> QED  BY <1>1, <2>1, MoveStep
<1> QED  BY <1>2, <1>3 DEF ByHand

LEMMA ListFailsStep ==
  ASSUME Inv, ListFails
  PROVE  Inv'
<1>1. Fail("Io") /\ "Io" \in Answers \ {"ok"}
  BY DEF ListFails, Answers
<1> QED  BY <1>1, FailStep

LEMMA NeverSentStep ==
  ASSUME Inv, NeverSent
  PROVE  Inv'
<1>1. Fail("Io") /\ "Io" \in Answers \ {"ok"}
  BY DEF NeverSent, Answers
<1> QED  BY <1>1, FailStep

\* A look that finds nothing leaves all but the number of looks.
LEMMA LookStep ==
  ASSUME Inv, pc \in {"wait", "poll"}, NEW hit, NEW bounded \in BOOLEAN, Look(hit, bounded)
  PROVE  Inv'
<1>1. CASE Fail("NotFound")
  <2>1. "NotFound" \in Answers \ {"ok"}
    BY DEF Answers
  <2> QED  BY <1>1, <2>1, FailStep
<1>2. CASE ~Late(bounded) /\ polls' = Counted(bounded) /\ Goto(pc) /\ UNCHANGED <<target, baud, preexisting, history>>
  <2>0. UNCHANGED <<kind, phys, listed, asked>> /\ UNCHANGED <<setting, pc, target, baud, preexisting>>
        /\ UNCHANGED <<self, outcome, history>> /\ polls' = Counted(bounded)
    BY <1>2 DEF Goto, world
  <2>1. TypeOK /\ WorldOK /\ ClientOK
    BY TypeParts DEF Inv
  <2>2. WorldOK'
    BY <2>0, <2>1, WorldStays DEF WorldOK
  <2>3. polls' \in 0..MaxPolls
    BY <1>2, <2>0, <2>1, ConnectAssumption DEF ClientOK, Counted, Late
  <2>4. ClientOK'
    BY <2>0, <2>1, <2>3 DEF ClientOK
  <2>5. TypeOK'
    BY <2>2, <2>4, TypeParts DEF TypeOK, WorldOK, ClientOK, Phoned
  <2>6. (history \in Histories)' /\ Waiting' /\ NotDone' /\ OnItsWay' /\ OthersKnown' /\ Switched'
    BY <2>0 DEF Inv, Histories, Waiting, NotDone, OnItsWay, OthersKnown, Switched, Calm, InMode
  <2>7. FoundIsMeant' /\ ConnectsToFound' /\ SessionIsTrue'
    BY <2>0 DEF Inv, FoundIsMeant, ConnectsToFound, SessionIsTrue, Calm
  <2> QED  BY <2>5, <2>6, <2>7 DEF Inv
<1> QED  BY <1>1, <1>2 DEF Look

LEMMA WaitForStep ==
  ASSUME Inv, WaitFor
  PROVE  Inv'
<1>1. PICK hit \in BOOLEAN : \/ Look(hit, setting.wait = "bounded")
                             \/ /\ hit /\ Goto("find") /\ polls' = 0
                                /\ UNCHANGED <<target, baud, preexisting, history>>
  BY DEF WaitFor
<1>2. pc = "wait" /\ (setting.wait = "bounded") \in BOOLEAN
  BY DEF WaitFor
<1>3. CASE Look(hit, setting.wait = "bounded")
  BY <1>2, <1>3, LookStep
<1>4. CASE Goto("find") /\ polls' = 0 /\ UNCHANGED <<target, baud, preexisting, history>>
  <2>0. UNCHANGED <<kind, phys, listed, asked>> /\ UNCHANGED <<setting, target, baud, preexisting>>
        /\ UNCHANGED <<self, outcome, history>> /\ polls' = 0 /\ pc' = "find"
    BY <1>4 DEF Goto, world
  <2>1. TypeOK /\ WorldOK /\ ClientOK
    BY TypeParts DEF Inv
  <2>2. WorldOK'
    BY <2>0, <2>1, WorldStays DEF WorldOK
  <2>4. ClientOK'
    BY <2>0, <2>1, ConnectAssumption DEF ClientOK
  <2>5. TypeOK'
    BY <2>2, <2>4, TypeParts DEF TypeOK, WorldOK, ClientOK, Phoned
  <2>6. (history \in Histories)' /\ Waiting' /\ NotDone' /\ OnItsWay' /\ OthersKnown' /\ Switched'
    BY <1>2, <2>0 DEF Inv, Histories, Waiting, NotDone, OnItsWay, OthersKnown, Switched
  <2>7. FoundIsMeant' /\ ConnectsToFound' /\ SessionIsTrue'
    BY <2>0 DEF Inv, FoundIsMeant, ConnectsToFound, SessionIsTrue, Calm
  <2> QED  BY <2>5, <2>6, <2>7 DEF Inv
<1> QED  BY <1>1, <1>3, <1>4

\* What connect selects shows a phone its filters allow, and the only one when
\* it selects by itself and the phones can be told apart.
Fitting(d) ==
  /\ d \in Meant
  /\ setting.port = None /\ setting.serial = None /\ Known => Meant = {d}

LEMMA Selects ==
  ASSUME Phoned(kind, phys), listed = Listed(kind, phys)
  PROVE  /\ Select.err \in {None, "InvalidPort", "NotFound", "MultipleFound"}
         /\ Select.err = None =>
              /\ setting.port # None => Select.dev.port = setting.port
              /\ \E d \in Devices : Shows(kind, phys, Select.dev, d) /\ Fitting(d)
<1> DEFINE a == Select
<1>1. listed.list = List(BusOf(kind, phys)) /\ listed.all = ListAll(BusOf(kind, phys))
  BY DEF Listed
<1>2. Sound(listed.list, kind, phys) /\ Sound(listed.all, kind, phys)
  BY <1>1, ListingsSound
<1>3. CASE setting.port # None
  <2>1. a = FindByPort(listed.all, setting.port)
    BY <1>3 DEF Select
  <2>2. /\ FindByPort(listed.all, setting.port).err \in {None, "InvalidPort"}
        /\ FindByPort(listed.all, setting.port).err = None =>
              /\ FindByPort(listed.all, setting.port).dev.port = setting.port
              /\ \E d \in Devices : Shows(kind, phys, FindByPort(listed.all, setting.port).dev, d)
    BY <1>2, ByPort
  <2> HIDE DEF a
  <2>3. ASSUME a.err = None PROVE \E d \in Devices : Shows(kind, phys, a.dev, d) /\ Fitting(d)
    <3>1. a.dev.port = setting.port
      BY <2>1, <2>2, <2>3
    <3>2. PICK d \in Devices : Shows(kind, phys, a.dev, d)
      BY <2>1, <2>2, <2>3
    <3>3. Fitting(d)
      BY <1>3, <3>1, <3>2 DEF Fitting, Meant, Attached, Shows
    <3> QED  BY <3>2, <3>3
  <2>4. a.err \in {None, "InvalidPort"} /\ (a.err = None => a.dev.port = setting.port)
    BY <2>1, <2>2
  <2> QED  BY <2>3, <2>4 DEF a
<1>4. CASE setting.port = None /\ setting.serial # None
  <2>1. a = FindBySerial(listed.list, setting.serial)
    BY <1>4 DEF Select
  <2>2. /\ FindBySerial(listed.list, setting.serial).err \in {None, "NotFound"}
        /\ FindBySerial(listed.list, setting.serial).err = None =>
              /\ FindBySerial(listed.list, setting.serial).dev.serial = setting.serial
              /\ \E d \in Devices : Shows(kind, phys, FindBySerial(listed.list, setting.serial).dev, d)
    BY <1>2, BySerial
  <2> HIDE DEF a
  <2>3. ASSUME a.err = None PROVE \E d \in Devices : Shows(kind, phys, a.dev, d) /\ Fitting(d)
    <3>1. a.dev.serial = setting.serial
      BY <2>1, <2>2, <2>3
    <3>2. PICK d \in Devices : Shows(kind, phys, a.dev, d)
      BY <2>1, <2>2, <2>3
    <3>3. Fitting(d)
      BY <1>4, <3>1, <3>2 DEF Fitting, Meant, Attached, Shows
    <3> QED  BY <3>2, <3>3
  <2>4. a.err \in {None, "NotFound"}
    BY <2>1, <2>2
  <2> QED  BY <1>4, <2>3, <2>4 DEF a
<1>5. CASE setting.port = None /\ setting.serial = None
  <2>1. a = AutoSelect(List(BusOf(kind, phys)))
    BY <1>1, <1>5 DEF Select
  <2>2. /\ AutoSelect(List(BusOf(kind, phys))).err \in {None, "MultipleFound", "NotFound"}
        /\ AutoSelect(List(BusOf(kind, phys))).err = None =>
             \E d \in Devices : Shows(kind, phys, AutoSelect(List(BusOf(kind, phys))).dev, d) /\ Chosen(kind, phys, d)
    BY Automatic
  <2> HIDE DEF a
  <2>3. ASSUME a.err = None PROVE \E d \in Devices : Shows(kind, phys, a.dev, d) /\ Fitting(d)
    <3>1. PICK d \in Devices : Shows(kind, phys, a.dev, d) /\ Chosen(kind, phys, d)
      BY <2>1, <2>2, <2>3
    <3>2. Meant = IF InMode("edl") # {} THEN InMode("edl") ELSE InMode("diag")
      BY <1>5 DEF Meant
    <3>3. CASE phys[d].mode = "edl"
      <4>1. InMode("edl") = {d}
        BY <3>1, <3>3 DEF Chosen, InMode
      <4> QED  BY <3>1, <3>2, <4>1 DEF Fitting
    <3>4. CASE phys[d].mode = "diag" /\ \A e \in Devices : phys[e].mode # "edl"
      <4>1. InMode("edl") = {} /\ d \in InMode("diag")
        BY <3>4 DEF InMode
      <4>2. Known => InMode("diag") = {d}
        BY <3>1, <3>4, <4>1 DEF Chosen, InMode, Known
      <4> QED  BY <3>1, <3>2, <4>1, <4>2 DEF Fitting
    <3> QED  BY <3>1, <3>3, <3>4 DEF Chosen
  <2>4. a.err \in {None, "MultipleFound", "NotFound"}
    BY <2>1, <2>2
  <2> QED  BY <1>5, <2>3, <2>4 DEF a
<1> QED  BY <1>3, <1>4, <1>5

\* connect comes back with a device.
Recorded(w, mode, note) ==
  /\ note \in Histories
  /\ note.first # None =>
       /\ note.first \in note.meant
       /\ setting.port = None /\ setting.serial = None /\ note.known => note.meant = {note.first}
  /\ note.plugs = 0 /\ ~note.blind =>
       /\ w = note.first
       /\ setting.force = "Auto" /\ mode = "Edl" => phys[w].mode = "edl"

LEMMA ReturnStep ==
  ASSUME Inv, NEW d, NEW w, Shows(kind, phys, d, w), NEW mode, NEW note, Recorded(w, mode, note),
         Return("ok", d, mode, note)
  PROVE  Inv'
<1>1. TypeOK /\ WorldOK /\ ClientOK
  BY TypeParts DEF Inv
<1>2. Owner(d.port) = w
  BY <1>1, OwnerIs DEF WorldOK
<1>3. d \in DeviceInfos /\ d # None /\ w \in Devices
  BY ErrorsDiffer DEF Shows
<1>0. /\ UNCHANGED <<kind, phys, listed, asked>> /\ UNCHANGED <<setting, target, baud, preexisting, polls>>
      /\ pc' = "done" /\ outcome' = "ok"
      /\ self' = [device |-> d, state |-> "Connected", session |-> mode]
      /\ history' = [note EXCEPT !.got = w, !.mode = phys[w].mode]
  BY <1>2, <1>3 DEF Return, world
<1>4. WorldOK'
  BY <1>0, <1>1, WorldStays DEF WorldOK
<1>5. self'.device = d /\ self'.state = "Connected" /\ self'.session = mode
  BY <1>0
<1>6. ClientOK'
  BY <1>0, <1>1, <1>3, <1>5 DEF ClientOK, Answers
<1>7. TypeOK'
  BY <1>4, <1>6, TypeParts DEF TypeOK, WorldOK, ClientOK, Phoned
<1>8. phys[w].mode \in {"off", "edl", "diag"}
  <2>1. phys[w] \in Places
    BY <1>1, <1>3 DEF WorldOK, Phoned
  <2> QED  BY <2>1, PlaceCases
<1>9. /\ history' \in Histories /\ history'.first = note.first /\ history'.meant = note.meant
      /\ history'.known = note.known /\ history'.plugs = note.plugs /\ history'.blind = note.blind
      /\ history'.got = w /\ history'.mode = phys[w].mode
  BY <1>0, <1>3, <1>8 DEF Recorded, Histories
<1>10. (history \in Histories)' /\ Waiting' /\ NotDone' /\ OnItsWay' /\ OthersKnown' /\ Switched'
  BY <1>0, <1>9 DEF Waiting, NotDone, OnItsWay, OthersKnown, Switched
<1>11. FoundIsMeant'
  BY <1>0, <1>9 DEF FoundIsMeant, Recorded
<1>12. ConnectsToFound'
  BY <1>9 DEF ConnectsToFound, Recorded, Calm
<1>13. SessionIsTrue'
  BY <1>0, <1>5, <1>9 DEF SessionIsTrue, Recorded, Calm
<1> QED  BY <1>7, <1>10, <1>11, <1>12, <1>13 DEF Inv

\* connect looks: it fails, takes the device, or goes on to switch it.
LEMMA FindStep ==
  ASSUME Inv, Find
  PROVE  Inv'
<1> DEFINE d == Select.dev
           note == [history EXCEPT !.first = Owner(d.port), !.meant = Meant, !.known = Known]
           session == IF setting.force = "Edl" THEN "Edl" ELSE d.mode
<1>1. TypeOK /\ WorldOK /\ ClientOK /\ pc = "find" /\ asked = {} /\ history \in Histories
  BY TypeParts DEF Inv, Find, Waiting
<1>2. /\ Select.err \in {None, "InvalidPort", "NotFound", "MultipleFound"}
      /\ Select.err = None =>
           /\ setting.port # None => Select.dev.port = setting.port
           /\ \E w \in Devices : Shows(kind, phys, Select.dev, w) /\ Fitting(w)
  BY <1>1, Selects DEF WorldOK
<1>3. \/ Select.err # None /\ Fail(Select.err)
      \/ Fail("PreconditionFailed")
      \/ /\ Select.err = None /\ (setting.force = "Auto" => ~IsDiag(d))
         /\ Return("ok", d, session, note)
      \/ /\ Select.err = None
         /\ Goto("open") /\ target' = d /\ history' = note
         /\ UNCHANGED <<baud, preexisting, polls>>
  BY DEF Find
<1>4. CASE Select.err # None /\ Fail(Select.err)
  <2>1. Select.err \in Answers \ {"ok"}
    BY <1>2, <1>4 DEF Answers
  <2> QED  BY <1>4, <2>1, FailStep
<1>5. CASE Fail("PreconditionFailed")
  <2>1. "PreconditionFailed" \in Answers \ {"ok"}
    BY DEF Answers
  <2> QED  BY <1>5, <2>1, FailStep
<1>6. ASSUME Select.err = None
      PROVE  \E w \in Devices : /\ Shows(kind, phys, d, w) /\ Fitting(w) /\ Owner(d.port) = w
                                /\ setting.port # None => d.port = setting.port
  <2>1. PICK w \in Devices : Shows(kind, phys, d, w) /\ Fitting(w)
    BY <1>2, <1>6
  <2>2. Owner(d.port) = w
    BY <1>1, <2>1, OwnerIs DEF WorldOK
  <2> QED  BY <1>2, <1>6, <2>1, <2>2
<1> HIDE DEF d
<1>7. ASSUME NEW w \in Devices, Owner(d.port) = w
      PROVE  note = [history EXCEPT !.first = w, !.meant = Meant, !.known = Known]
  BY <1>7
<1>8. Meant \in SUBSET Devices /\ Known \in BOOLEAN
  BY DEF Meant, Known, Attached, InMode
<1> HIDE DEF note
<1>9. ASSUME NEW w \in Devices, Owner(d.port) = w
      PROVE  /\ note \in Histories /\ note.first = w /\ note.meant = Meant /\ note.known = Known
             /\ note.got = history.got /\ note.plugs = history.plugs /\ note.blind = history.blind
  <2> DEFINE m == Meant
             k == Known
  <2>1. history \in Histories /\ m \in SUBSET Devices /\ k \in BOOLEAN
    BY <1>1, <1>8
  <2>2. note = [history EXCEPT !.first = w, !.meant = m, !.known = k]
    BY <1>7, <1>9
  <2> HIDE DEF m, k
  <2>3. /\ note \in Histories /\ note.first = w /\ note.meant = m /\ note.known = k
        /\ note.got = history.got /\ note.plugs = history.plugs /\ note.blind = history.blind
    BY <2>1, <2>2 DEF Histories
  <2> QED  BY <2>3 DEF m, k
<1>10. CASE Select.err = None /\ (setting.force = "Auto" => ~IsDiag(d)) /\ Return("ok", d, session, note)
  <2>1. PICK w \in Devices : Shows(kind, phys, d, w) /\ Fitting(w) /\ Owner(d.port) = w
    BY <1>6, <1>10
  <2>2. setting.force = "Auto" /\ session = "Edl" => phys[w].mode = "edl"
    <3>1. phys[w].mode \in {"edl", "diag"}
      BY <1>1, <2>1, LineMode DEF WorldOK
    <3> QED  BY <2>1, <3>1 DEF Shows
  <2> HIDE DEF session
  <2>3. Recorded(w, session, note)
    BY <1>9, <2>1, <2>2 DEF Recorded, Fitting
  <2> QED  BY <1>10, <2>1, <2>3, ReturnStep
<1>11. CASE /\ Select.err = None
            /\ Goto("open") /\ target' = d /\ history' = note
            /\ UNCHANGED <<baud, preexisting, polls>>
  <2>1. PICK w \in Devices : /\ Shows(kind, phys, d, w) /\ Fitting(w) /\ Owner(d.port) = w
                             /\ setting.port # None => d.port = setting.port
    BY <1>6, <1>11
  <2>0. /\ UNCHANGED <<kind, phys, listed, asked>> /\ UNCHANGED <<setting, baud, preexisting, polls>>
        /\ UNCHANGED <<self, outcome>> /\ target' = d /\ pc' = "open" /\ history' = note
    BY <1>11 DEF Goto, world
  <2>2. WorldOK'
    BY <1>1, <2>0, WorldStays DEF WorldOK
  <2>3. d \in DeviceInfos
    BY <2>1 DEF Shows
  <2>4. ClientOK'
    BY <1>1, <2>0, <2>3 DEF ClientOK
  <2>5. TypeOK'
    BY <2>2, <2>4, TypeParts DEF TypeOK, WorldOK, ClientOK, Phoned
  <2>6. /\ note \in Histories /\ note.first = w /\ note.meant = Meant /\ note.known = Known
        /\ note.got = history.got /\ note.plugs = history.plugs
    BY <1>9, <2>1
  <2>7. (history \in Histories)' /\ Waiting' /\ NotDone' /\ OthersKnown' /\ Switched'
    BY <1>1, <2>0, <2>6 DEF Inv, Waiting, NotDone, OthersKnown, Switched
  <2>8. \A e \in Devices : d.port \in ToSet(phys[e].ports) => e = w
    BY <1>1, <2>1, OnlyOwner DEF WorldOK
  <2>9. OnItsWay'
    BY <1>1, <2>0, <2>1, <2>3, <2>6, <2>8 DEF OnItsWay
  <2>10. FoundIsMeant'
    BY <2>0, <2>1, <2>6 DEF FoundIsMeant, Fitting
  <2>11. ConnectsToFound' /\ SessionIsTrue'
    <3>1. history.got = None /\ outcome = None /\ "ok" # None
      BY <1>1, PhonesAssumption DEF Inv, NotDone, Answers
    <3>2. history'.got = None /\ outcome' # "ok"
      BY <2>0, <2>6, <3>1
    <3> QED  BY <3>2 DEF ConnectsToFound, SessionIsTrue
  <2> QED  BY <2>5, <2>7, <2>9, <2>10, <2>11 DEF Inv
<1> QED  BY <1>3, <1>4, <1>5, <1>10, <1>11

\* One attempt to write the packet.
LEMMA AttemptStep ==
  ASSUME Inv, pc = "open", baud <= 2, NEW ok, Attempt(ok), asked' \subseteq Devices,
         history.plugs = 0 => asked' \subseteq {history.first}
  PROVE  Inv'
<1>0. /\ UNCHANGED <<kind, phys, listed, setting, target, preexisting, polls, self, outcome, history>>
      /\ pc' \in {"open", "snapshot"} /\ baud' = baud + 1
  BY DEF Attempt
<1>1. TypeOK /\ WorldOK /\ ClientOK
  BY TypeParts DEF Inv
<1>2. WorldOK'
  BY <1>0, <1>1, WorldStays
<1>3. baud' \in 1..3
  BY <1>0, <1>1 DEF ClientOK
<1>4. ClientOK'
  BY <1>0, <1>1, <1>3 DEF ClientOK
<1>5. TypeOK'
  BY <1>2, <1>4, TypeParts DEF TypeOK, WorldOK, ClientOK, Phoned
<1>6. (history \in Histories)' /\ Waiting' /\ NotDone' /\ OnItsWay' /\ OthersKnown' /\ Switched'
  BY <1>0 DEF Inv, Histories, Waiting, NotDone, OnItsWay, OthersKnown, Switched
<1>7. FoundIsMeant' /\ ConnectsToFound' /\ SessionIsTrue'
  BY <1>0 DEF Inv, FoundIsMeant, ConnectsToFound, SessionIsTrue, Calm
<1> QED  BY <1>5, <1>6, <1>7 DEF Inv

LEMMA OpenFailsStep ==
  ASSUME Inv, OpenFails
  PROVE  Inv'
<1>1. pc = "open" /\ baud <= 2 /\ asked' = asked /\ Attempt(FALSE)
  BY DEF OpenFails
<1>2. asked \subseteq Devices /\ (history.plugs = 0 => asked \subseteq {history.first})
  BY <1>1 DEF Inv, TypeOK, OnItsWay
<1>3. asked' \subseteq Devices /\ (history.plugs = 0 => asked' \subseteq {history.first})
  BY <1>1, <1>2
<1> QED  BY <1>1, <1>3, AttemptStep

LEMMA SendSwitchStep ==
  ASSUME Inv, SendSwitch
  PROVE  Inv'
<1>1. pc = "open" /\ baud <= 2 /\ Written
  BY DEF SendSwitch
<1>2. PICK ok \in BOOLEAN : Attempt(ok)
  BY DEF SendSwitch
<1>3. asked \subseteq Devices /\ (history.plugs = 0 => asked \subseteq {history.first})
  BY <1>1 DEF Inv, TypeOK, OnItsWay
<1>4. ASSUME NEW d \in Taken(target.port) PROVE d \in Devices /\ target.port \in ToSet(phys[d].ports)
  <2>1. d \in Devices /\ phys[d].mode = "diag" /\ phys[d].ports[1] = target.port
    BY DEF Taken, InMode
  <2>2. phys[d] \in Places
    BY <2>1 DEF Inv, TypeOK
  <2>3. 1 \in DOMAIN phys[d].ports
    BY <2>1, <2>2, IfacesOf
  <2> QED  BY <2>1, <2>3 DEF ToSet
<1>5. \A d \in Taken(target.port) : d \in Devices /\ (history.plugs = 0 => d = history.first)
  BY <1>1, <1>4 DEF Inv, OnItsWay
<1>6. asked' \subseteq Devices /\ (history.plugs = 0 => asked' \subseteq {history.first})
  <2>1. asked' \subseteq asked \cup Taken(target.port)
    BY <1>1 DEF Written
  <2> QED  BY <1>3, <1>5, <2>1
<1> QED  BY <1>1, <1>2, <1>6, AttemptStep

\* The snapshot has every port in EDL mode, unless the listing failed.
LEMMA SnapshotStep ==
  ASSUME Inv, Snapshot
  PROVE  Inv'
<1>1. PICK blind \in BOOLEAN : preexisting' = Before(blind) /\ history' = [history EXCEPT !.blind = blind]
  BY DEF Snapshot
<1>2. TypeOK /\ WorldOK /\ ClientOK /\ pc = "snapshot" /\ history \in Histories
  BY TypeParts DEF Inv, Snapshot
<1>0. /\ UNCHANGED <<kind, phys, listed, asked>> /\ UNCHANGED <<setting, target, baud, polls>>
      /\ UNCHANGED <<self, outcome>> /\ pc' = "poll"
  BY DEF Snapshot, Goto, world
<1>3. Edl9008 \subseteq Ports /\ \A d \in InMode("edl") : phys[d].ports[1] \in Edl9008
  BY <1>2, EdlPorts DEF WorldOK
<1>4. /\ history' \in Histories /\ history'.first = history.first /\ history'.meant = history.meant
      /\ history'.known = history.known /\ history'.got = history.got
      /\ history'.plugs = history.plugs /\ history'.blind = blind
  BY <1>1, <1>2 DEF Histories
<1>5. WorldOK'
  BY <1>0, <1>2, WorldStays DEF WorldOK
<1>6. preexisting' \subseteq Ports
  BY <1>1, <1>3 DEF Before
<1>7. ClientOK'
  BY <1>0, <1>2, <1>6 DEF ClientOK
<1>8. TypeOK'
  BY <1>5, <1>7, TypeParts DEF TypeOK, WorldOK, ClientOK, Phoned
<1>9. (history \in Histories)' /\ Waiting' /\ NotDone'
  BY <1>0, <1>2, <1>4 DEF Inv, Waiting, NotDone
<1>10. OnItsWay'
  BY <1>0, <1>2, <1>4 DEF Inv, OnItsWay
<1>11. OthersKnown'
  BY <1>0, <1>1, <1>3, <1>4 DEF OthersKnown, Calm, Before, InMode
<1>12. Switched'
  BY <1>0 DEF Switched
<1>13. FoundIsMeant'
  BY <1>0, <1>4 DEF Inv, FoundIsMeant
<1>14. history'.got = None /\ outcome' = None /\ "ok" # None
  BY <1>0, <1>2, <1>4, PhonesAssumption DEF Inv, NotDone, Answers
<1>15. ConnectsToFound' /\ SessionIsTrue'
  BY <1>14 DEF ConnectsToFound, SessionIsTrue
<1> QED  BY <1>8, <1>9, <1>10, <1>11, <1>12, <1>13, <1>15 DEF Inv

\* A port in EDL mode that the snapshot does not have is that of the phone that
\* was switched.
LEMMA PollStep ==
  ASSUME Inv, Poll
  PROVE  Inv'
<1>1. TypeOK /\ WorldOK /\ ClientOK /\ pc = "poll" /\ history \in Histories
  BY TypeParts DEF Inv, Poll
<1>2. PICK hit \in {NewEdl} :
        \/ Look(hit, TRUE)
        \/ setting.force = "Diag" /\ Return("ok", None, None, history)
        \/ /\ hit /\ Goto("reselect") /\ UNCHANGED <<target, baud, preexisting, polls, history>>
  BY DEF Poll
<1>3. CASE Look(hit, TRUE)
  BY <1>1, <1>3, LookStep
<1>4. CASE setting.force = "Diag" /\ Return("ok", None, None, history)
  <2>0. /\ UNCHANGED <<kind, phys, listed, asked>> /\ UNCHANGED <<setting, target, baud, preexisting, polls>>
        /\ UNCHANGED <<self, history>> /\ pc' = "done" /\ outcome' = "ok"
    BY <1>4 DEF Return, world
  <2>1. WorldOK'
    BY <1>1, <2>0, WorldStays DEF WorldOK
  <2>2. ClientOK'
    BY <1>1, <2>0 DEF ClientOK, Answers
  <2>3. TypeOK'
    BY <2>1, <2>2, TypeParts DEF TypeOK, WorldOK, ClientOK, Phoned
  <2>4. (history \in Histories)' /\ Waiting' /\ NotDone' /\ OnItsWay' /\ OthersKnown' /\ Switched'
    BY <2>0 DEF Inv, Histories, Waiting, NotDone, OnItsWay, OthersKnown, Switched
  <2>5. FoundIsMeant' /\ ConnectsToFound' /\ SessionIsTrue'
    BY <1>4, <2>0 DEF Inv, FoundIsMeant, ConnectsToFound, SessionIsTrue, Calm
  <2> QED  BY <2>3, <2>4, <2>5 DEF Inv
<1>5. CASE hit /\ Goto("reselect") /\ UNCHANGED <<target, baud, preexisting, polls, history>>
  <2>0. /\ UNCHANGED <<kind, phys, listed, asked>> /\ UNCHANGED <<setting, target, baud, preexisting, polls>>
        /\ UNCHANGED <<self, outcome, history>> /\ pc' = "reselect"
    BY <1>5 DEF Goto, world
  <2>1. WorldOK'
    BY <1>1, <2>0, WorldStays DEF WorldOK
  <2>2. ClientOK'
    BY <1>1, <2>0 DEF ClientOK
  <2>3. TypeOK'
    BY <2>1, <2>2, TypeParts DEF TypeOK, WorldOK, ClientOK, Phoned
  <2>4. PICK p \in Edl9008 : p \notin preexisting
    BY <1>2, <1>5 DEF NewEdl
  <2>5. PICK d \in InMode("edl") : p = phys[d].ports[1]
    BY <1>1, <2>4, EdlPorts DEF WorldOK
  <2>6. Calm => phys[history.first].mode = "edl"
    BY <1>1, <2>4, <2>5 DEF Inv, OthersKnown, InMode
  <2>7. Switched'
    BY <2>0, <2>6 DEF Switched, Calm
  <2>8. (history \in Histories)' /\ Waiting' /\ NotDone' /\ OnItsWay' /\ OthersKnown'
    BY <1>1, <2>0 DEF Inv, Histories, Waiting, NotDone, OnItsWay, OthersKnown, Calm, InMode
  <2>9. FoundIsMeant' /\ ConnectsToFound' /\ SessionIsTrue'
    BY <2>0 DEF Inv, FoundIsMeant, ConnectsToFound, SessionIsTrue, Calm
  <2> QED  BY <2>3, <2>7, <2>8, <2>9 DEF Inv
<1> QED  BY <1>2, <1>3, <1>4, <1>5

\* Looked up again, the device is the one that was switched.
LEMMA ReselectStep ==
  ASSUME Inv, Reselect
  PROVE  Inv'
<1> DEFINE a == IF setting.port # None THEN FindByPort(listed.all, setting.port) ELSE AutoSelect(listed.list)
<1>1. TypeOK /\ WorldOK /\ ClientOK /\ pc = "reselect" /\ history \in Histories
  BY TypeParts DEF Inv, Reselect
<1>2. \/ a.err # None /\ Fail(a.err)
      \/ a.err = None /\ Return("ok", a.dev, "Edl", history)
  BY DEF Reselect
<1>3. listed.list = List(BusOf(kind, phys)) /\ listed.all = ListAll(BusOf(kind, phys)) /\ Phoned(kind, phys)
  BY <1>1 DEF WorldOK, Listed
<1>4. Calm => phys[history.first].mode = "edl" /\ history.first \in Devices
  BY <1>1 DEF Inv, Switched, OnItsWay
<1>5. a.err \in {None, "InvalidPort", "NotFound", "MultipleFound"}
      /\ (a.err = None => \E w \in Devices : Shows(kind, phys, a.dev, w) /\ (Calm => w = history.first))
  <2>1. CASE setting.port # None
    <3>1. a = FindByPort(listed.all, setting.port)
      BY <2>1
    <3>2. Sound(listed.all, kind, phys)
      BY <1>3, ListingsSound
    <3>3. /\ FindByPort(listed.all, setting.port).err \in {None, "InvalidPort"}
          /\ FindByPort(listed.all, setting.port).err = None =>
                /\ FindByPort(listed.all, setting.port).dev.port = setting.port
                /\ \E w \in Devices : Shows(kind, phys, FindByPort(listed.all, setting.port).dev, w)
      BY <3>2, ByPort
    <3> HIDE DEF a
    <3>4. ASSUME a.err = None
          PROVE  \E w \in Devices : Shows(kind, phys, a.dev, w) /\ (Calm => w = history.first)
      <4>1. PICK w \in Devices : Shows(kind, phys, a.dev, w)
        BY <3>1, <3>3, <3>4
      <4>2. a.dev.port = target.port
        BY <1>1, <2>1, <3>1, <3>3, <3>4 DEF Inv, OnItsWay
      <4>3. target.port \in ToSet(phys[w].ports)
        BY <4>1, <4>2 DEF Shows
      <4> QED  BY <1>1, <4>1, <4>3 DEF Inv, OnItsWay, Calm
    <3> QED  BY <3>1, <3>3, <3>4
  <2>2. CASE setting.port = None
    <3>1. a = AutoSelect(List(BusOf(kind, phys)))
      BY <1>3, <2>2
    <3>2. /\ AutoSelect(List(BusOf(kind, phys))).err \in {None, "MultipleFound", "NotFound"}
          /\ AutoSelect(List(BusOf(kind, phys))).err = None =>
               \E w \in Devices : Shows(kind, phys, AutoSelect(List(BusOf(kind, phys))).dev, w) /\ Chosen(kind, phys, w)
      BY <1>3, Automatic
    <3> HIDE DEF a
    <3>3. ASSUME a.err = None
          PROVE  \E w \in Devices : Shows(kind, phys, a.dev, w) /\ (Calm => w = history.first)
      <4>1. PICK w \in Devices : Shows(kind, phys, a.dev, w) /\ Chosen(kind, phys, w)
        BY <3>1, <3>2, <3>3
      <4>2. Calm => w = history.first
        BY <1>4, <4>1 DEF Chosen
      <4> QED  BY <4>1, <4>2
    <3> QED  BY <3>1, <3>2, <3>3
  <2> QED  BY <2>1, <2>2
<1> HIDE DEF a
<1>6. CASE a.err # None /\ Fail(a.err)
  <2>1. a.err \in Answers \ {"ok"}
    BY <1>5, <1>6 DEF Answers
  <2> QED  BY <1>6, <2>1, FailStep
<1>7. CASE a.err = None /\ Return("ok", a.dev, "Edl", history)
  <2>1. PICK w \in Devices : Shows(kind, phys, a.dev, w) /\ (Calm => w = history.first)
    BY <1>5, <1>7
  <2>2. Recorded(w, "Edl", history)
    BY <1>1, <1>4, <2>1 DEF Inv, FoundIsMeant, Recorded, Calm
  <2> QED  BY <1>7, <2>1, <2>2, ReturnStep
<1> QED  BY <1>2, <1>6, <1>7

LEMMA InitInv == Init => Inv
<1> SUFFICES ASSUME Init PROVE Inv
  OBVIOUS
<1>1. kind \in Kinds /\ phys \in Layouts /\ setting \in Settings /\ listed = Listed(kind, phys) /\ asked = {}
  BY DEF Init
<1>2. WorldOK
  BY <1>1, PhonesAssumption DEF WorldOK, Phoned
<1>3. ClientOK
  BY <1>1, ConnectAssumption DEF Init, ClientOK
<1>4. TypeOK
  BY <1>2, <1>3, TypeParts DEF TypeOK, WorldOK, ClientOK, Phoned
<1>5. /\ history = [first |-> None, meant |-> {}, known |-> FALSE, got |-> None, mode |-> None,
                    plugs |-> 0, blind |-> FALSE]
      /\ pc \in {"find", "wait"} /\ outcome = None
  BY DEF Init
<1>6. history \in Histories /\ Waiting /\ NotDone /\ OnItsWay /\ OthersKnown /\ Switched
  BY <1>1, <1>5 DEF Histories, Waiting, NotDone, OnItsWay, OthersKnown, Switched
<1>7. "ok" # None
  BY PhonesAssumption DEF Answers
<1>8. FoundIsMeant /\ ConnectsToFound /\ SessionIsTrue
  BY <1>5, <1>7 DEF FoundIsMeant, ConnectsToFound, SessionIsTrue
<1> QED  BY <1>4, <1>6, <1>8 DEF Inv

\* Every step of the program, and of the phones, keeps the invariant.
LEMMA NextInv == Inv /\ [Next]_vars => Inv'
<1> SUFFICES ASSUME Inv, [Next]_vars PROVE Inv'
  OBVIOUS
<1>1. CASE UNCHANGED vars
  <2>1. /\ UNCHANGED <<kind, phys, listed, asked>> /\ UNCHANGED <<setting, pc, target, baud, preexisting, polls>>
        /\ UNCHANGED <<self, outcome, history>>
    BY <1>1 DEF vars, world, client
  <2>2. TypeOK /\ WorldOK /\ ClientOK
    BY TypeParts DEF Inv
  <2>3. WorldOK'
    BY <2>1, <2>2, WorldStays DEF WorldOK
  <2>4. ClientOK'
    BY <2>1, <2>2 DEF ClientOK
  <2>5. TypeOK'
    BY <2>3, <2>4, TypeParts DEF TypeOK, WorldOK, ClientOK, Phoned
  <2>6. (history \in Histories)' /\ Waiting' /\ NotDone' /\ OnItsWay' /\ OthersKnown' /\ Switched'
    BY <2>1 DEF Inv, Histories, Waiting, NotDone, OnItsWay, OthersKnown, Switched, Calm, InMode
  <2>7. FoundIsMeant' /\ ConnectsToFound' /\ SessionIsTrue'
    BY <2>1 DEF Inv, FoundIsMeant, ConnectsToFound, SessionIsTrue, Calm
  <2> QED  BY <2>5, <2>6, <2>7 DEF Inv
<1>2. CASE WaitFor
  BY <1>2, WaitForStep
<1>3. CASE Find
  BY <1>3, FindStep
<1>4. CASE SendSwitch
  BY <1>4, SendSwitchStep
<1>5. CASE OpenFails
  BY <1>5, OpenFailsStep
<1>6. CASE NeverSent
  BY <1>6, NeverSentStep
<1>7. CASE Snapshot
  BY <1>7, SnapshotStep
<1>8. CASE Poll
  BY <1>8, PollStep
<1>9. CASE Reselect
  BY <1>9, ReselectStep
<1>10. CASE ListFails
  BY <1>10, ListFailsStep
<1>11. ASSUME NEW d \in Devices, Restart(d) \/ ComeBack(d) \/ ByHand(d) PROVE Inv'
  BY <1>11, RestartStep, ComeBackStep, ByHandStep
<1> QED
  BY <1>1, <1>2, <1>3, <1>4, <1>5, <1>6, <1>7, <1>8, <1>9, <1>10, <1>11 DEF Next, Program

LEMMA InvIsInvariant == Spec => []Inv
<1>1. Init => Inv
  BY InitInv
<1>2. Inv /\ [Next]_vars => Inv'
  BY NextInv
<1> QED  BY <1>1, <1>2, PTL DEF Spec

-----------------------------------------------------------------------------
(* The theorems *)

\* The state stays what the program and the phones can be in: no port is held
\* by two phones, and what list and list_all answer is made of these phones.
THEOREM TypeInvariant == Spec => []TypeOK
<1>1. Inv => TypeOK
  BY DEF Inv
<1> QED  BY <1>1, InvIsInvariant, PTL

\* connect works on a phone its filters allow, whatever the phones do, whatever
\* their ports, serials and strings, and however many they are; by itself it
\* only takes one when no other could have been meant (find_by_port,
\* find_by_serial, auto_select).
THEOREM WorksOnMeant == Spec => []FoundIsMeant
<1>1. Inv => FoundIsMeant
  BY DEF Inv
<1> QED  BY <1>1, InvIsInvariant, PTL

\* The device recorded after a switch is the one that was switched, while nobody
\* plugs anything and the snapshot was taken (switch_diag_to_edl, connect).
THEOREM RecordsTheSwitched == Spec => []ConnectsToFound
<1>1. Inv => ConnectsToFound
  BY DEF Inv
<1> QED  BY <1>1, InvIsInvariant, PTL

\* And that device is in EDL mode when the session says so (connect).
THEOREM SessionsAreTrue == Spec => []SessionIsTrue
<1>1. Inv => SessionIsTrue
  BY DEF Inv
<1> QED  BY <1>1, InvIsInvariant, PTL

\* A receiver finds the order to restart in the packet that carries it
\* (diag_frame, switch_diag_to_edl).
THEOREM SwitchIsRead == IsSwitch
<1>1. SubsysCmd \in Byte /\ ToEdl \in Seq(Byte)
  <2>1. {0, 2, 5, 6} \in Byte /\ {0} \in Byte /\ {} \in Byte
    BY DEF Byte
  <2>2. ToEdl \in Seq(Byte)
    BY <2>1 DEF ToEdl
  <2> QED  BY <2>2 DEF SubsysCmd, Byte
<1> QED  BY <1>1, FramesAreRead DEF IsSwitch, SwitchFrame

LEMMA FourJoined ==
  ASSUME NEW S, NEW w \in S, NEW x \in S, NEW y \in S, NEW z \in S
  PROVE  <<w>> \o <<x, y, z>> = <<w, x, y, z>>
<1> DEFINE s == <<w>>
           t == <<x, y, z>>
           u == <<w, x, y, z>>
<1>1. s \in Seq(S) /\ t \in Seq(S) /\ u \in Seq(S) /\ Len(s) = 1 /\ Len(t) = 3 /\ Len(u) = 4
  OBVIOUS
<1>2. s[1] = w /\ t[1] = x /\ t[2] = y /\ t[3] = z /\ u[1] = w /\ u[2] = x /\ u[3] = y /\ u[4] = z
  OBVIOUS
<1> HIDE DEF s, t, u
<1>3. /\ s \o t \in Seq(S) /\ Len(s \o t) = Len(s) + Len(t)
      /\ \A i \in 1..Len(s) + Len(t) : (s \o t)[i] = IF i <= Len(s) THEN s[i] ELSE t[i - Len(s)]
  BY <1>1, ConcatProperties
<1>4. (s \o t)[1] = u[1] /\ (s \o t)[2] = u[2] /\ (s \o t)[3] = u[3] /\ (s \o t)[4] = u[4]
  BY <1>1, <1>2, <1>3
<1>5. \A i \in 1..4 : i = 1 \/ i = 2 \/ i = 3 \/ i = 4
  OBVIOUS
<1>6. \A i \in 1..4 : (s \o t)[i] = u[i]
  BY <1>4, <1>5
<1>7. Len(s \o t) = 4 /\ Len(u) = 4 /\ s \o t \in Seq(S) /\ u \in Seq(S)
  BY <1>1, <1>3
<1>8. Len(s \o t) = Len(u) /\ \A i \in 1..Len(s \o t) : (s \o t)[i] = u[i]
  BY <1>6, <1>7
<1>9. s \o t = u
  BY <1>7, <1>8, SeqEqual
<1> QED  BY <1>9 DEF s, t, u

\* The packets the run looks at are among those FramesAreRead is about.
THEOREM FramesRoundTrip == Spec => []FrameRoundTrip
<1>1. ASSUME NEW cmd \in {SubsysCmd, Flag, Escape}, NEW a \in {{}, {0}, 0..7, Escape},
             NEW b \in {{}, {2, 5}, Flag, Escape}
      PROVE  Unframe(DiagFrame(cmd, <<a, b, {}>>)) = <<cmd, a, b, {}>>
  <2>1. cmd \in Byte /\ a \in Byte /\ b \in Byte /\ {} \in Byte
    BY DEF SubsysCmd, Flag, Escape, Byte
  <2>2. <<a, b, {}>> \in Seq(Byte)
    BY <2>1
  <2>3. Unframe(DiagFrame(cmd, <<a, b, {}>>)) = <<cmd>> \o <<a, b, {}>>
    BY <2>1, <2>2, FramesAreRead
  <2>4. <<cmd>> \o <<a, b, {}>> = <<cmd, a, b, {}>>
    BY <2>1, FourJoined
  <2> QED  BY <2>3, <2>4
<1>2. FrameRoundTrip
  BY <1>1 DEF FrameRoundTrip, FramesRead
<1> QED  BY <1>2, PTL
=============================================================================
