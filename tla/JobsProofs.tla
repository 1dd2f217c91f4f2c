----------------------------- MODULE JobsProofs -----------------------------
(***************************************************************************)
(* Theorems about Jobs, for every geometry, partition, payload, image and  *)
(* number of jobs, and every point at which a call fails or the program    *)
(* is killed.                                                              *)
(***************************************************************************)
EXTENDS Jobs, SequenceTheorems, TLAPS

-----------------------------------------------------------------------------
(* Sectors and bytes *)

LEMMA Scale ==
  ASSUME NEW a \in Int, NEW b \in Int, NEW d \in Nat
  PROVE  /\ a * d \in Int /\ (a + b) * d = a * d + b * d /\ (a - b) * d = a * d - b * d
         /\ (a <= b => a * d <= b * d) /\ (a \in Nat => a * d \in Nat)
  OBVIOUS

LEMMA Whole ==
  ASSUME NEW a \in Nat, NEW d \in Nat, d >= 1
  PROVE  /\ a \div d \in Nat /\ a % d \in 0..(d - 1)
         /\ (a \div d) * d <= a /\ a < (a \div d + 1) * d
         /\ a = (a \div d) * d + (a % d)
  OBVIOUS

LEMMA BelowScaled ==
  ASSUME NEW a \in Nat, NEW b \in Nat, NEW d \in Nat, d >= 1, a * d < b * d
  PROVE  a < b
  OBVIOUS

\* The sectors an image fills hold it, and no fewer would.
LEMMA SectorsForFacts ==
  ASSUME NEW len \in Nat
  PROVE  /\ SectorsFor(len) \in Nat /\ len <= SectorsFor(len) * SectorBytes
         /\ (len <= PartSectors * SectorBytes => SectorsFor(len) <= PartSectors)
<1> DEFINE d == SectorBytes   q == SectorsFor(len)   m == len + d - 1
<1>1. d \in Nat /\ d >= 1 /\ PartSectors \in Nat
  BY JobsAssumption DEF PartSectors
<1>2. m \in Nat /\ q = m \div d
  BY <1>1 DEF SectorsFor
<1> HIDE DEF d, q
<1>3. q \in Nat /\ q * d <= m /\ m < (q + 1) * d
  BY <1>1, <1>2, Whole
<1>4. (q + 1) * d = q * d + d
  BY <1>1, <1>3, Scale
<1>5. len <= q * d
  BY <1>1, <1>3, <1>4
<1>6. ASSUME len <= PartSectors * d PROVE q <= PartSectors
  <2>1. (PartSectors + 1) * d = PartSectors * d + d
    BY <1>1, Scale
  <2>2. q * d < (PartSectors + 1) * d
    BY <1>1, <1>3, <1>6, <2>1, Scale
  <2>3. q < PartSectors + 1
    BY <1>1, <1>3, <2>2, BelowScaled
  <2> QED  BY <1>1, <1>3, <2>3
<1> QED  BY <1>3, <1>5, <1>6 DEF d, q

\* A chunk is no longer than what is left, and longer than nothing.
LEMMA ChunkFacts ==
  ASSUME TypeOK, left > 0
  PROVE  /\ Chunk \in Nat /\ 1 <= Chunk /\ Chunk <= left
         /\ EraseChunkSectors \in Nat /\ 1 <= EraseChunkSectors /\ EraseChunkSectors <= left
<1>1. payload \in Nat /\ left \in Nat /\ SectorBytes \in Nat /\ SectorBytes >= 1 /\ ZeroBuf \in Nat
  BY JobsAssumption DEF TypeOK
<1>2. payload \div SectorBytes \in Nat /\ AtLeast(payload, ZeroBuf) \div SectorBytes \in Nat
  BY <1>1, Whole DEF AtLeast
<1> QED  BY <1>1, <1>2 DEF Chunk, PerChunk, EraseChunkSectors, AtLeast, AtMost

LEMMA FunctionIsSeq ==
  ASSUME NEW S, NEW n \in Nat, NEW f \in [1..n -> S]
  PROVE  f \in Seq(S) /\ Len(f) = n
<1>1. f \in Seq(S)
  BY SeqDef
<1>2. DOMAIN f = 1..Len(f) /\ Len(f) \in Nat
  BY <1>1, LenProperties
<1>3. DOMAIN f = 1..n
  OBVIOUS
<1> QED  BY <1>1, <1>2, <1>3

\* The sectors of a run inside the partition are bytes of the disk.
LEMMA RunInside ==
  ASSUME NEW s \in Nat, NEW n \in Nat, First <= s, s + n <= Last + 1
  PROVE  /\ s * SectorBytes \in Nat /\ n * SectorBytes \in Nat
         /\ (s + n) * SectorBytes = s * SectorBytes + n * SectorBytes
         /\ First * SectorBytes \in Nat /\ First * SectorBytes <= s * SectorBytes
         /\ (s + n) * SectorBytes <= (Last + 1) * SectorBytes
         /\ (Last + 1) * SectorBytes <= NSectors * SectorBytes
         /\ NSectors * SectorBytes \in Nat
         /\ (s - First) * SectorBytes = s * SectorBytes - First * SectorBytes
  BY JobsAssumption, Scale

LEMMA BytesFacts ==
  ASSUME disk \in [Addrs -> Byte], NEW s \in Nat, NEW n \in Nat, First <= s, s + n <= Last + 1
  PROVE  /\ Bytes(s, n) \in Seq(Byte) /\ Len(Bytes(s, n)) = n * SectorBytes
         /\ \A i \in 1..(n * SectorBytes) : Bytes(s, n)[i] = disk[s * SectorBytes + i - 1]
<1> DEFINE lo == s * SectorBytes   m == n * SectorBytes
           hi == (s + n) * SectorBytes   end == (Last + 1) * SectorBytes
           size == NSectors * SectorBytes
<1>1. /\ lo \in Nat /\ m \in Nat /\ hi = lo + m /\ hi <= end /\ end <= size
      /\ end \in Nat /\ size \in Nat
  BY RunInside, JobsAssumption, Scale
<1>2. \A i \in 1..m : lo + i - 1 \in 0..(size - 1)
  <2> HIDE DEF lo, m, hi, end, size
  <2> QED  BY <1>1
<1>3. Bytes(s, n) \in [1..(n * SectorBytes) -> Byte]
  BY <1>2 DEF Bytes, Addrs
<1> QED  BY <1>1, <1>3, FunctionIsSeq DEF Bytes

LEMMA FromSourceType ==
  ASSUME src \in Seq(Byte), at \in Nat, First <= at, NEW n \in Nat
  PROVE  FromSource(n) \in [1..(n * SectorBytes) -> Byte]
<1>1. (at - First) * SectorBytes \in Nat /\ n * SectorBytes \in Nat /\ Len(src) \in Nat
  BY JobsAssumption, Scale, LenProperties
<1>2. \A i \in 1..Len(src) : src[i] \in Byte
  BY ElementOfSeq
<1> QED  BY <1>1, <1>2 DEF FromSource, Byte

LEMMA ZerosType == \A n \in Nat : Zeros(n) \in [1..(n * SectorBytes) -> Byte]
  BY JobsAssumption, Scale DEF Zeros, Byte

-----------------------------------------------------------------------------
(* What a write leaves on the disk *)

LEMMA PutFacts ==
  ASSUME disk \in [Addrs -> Byte], fresh \in BOOLEAN,
         NEW s \in Nat, NEW n \in Nat, NEW b \in [1..(n * SectorBytes) -> Byte], Put(s, n, b)
  PROVE  /\ disk' \in [Addrs -> Byte] /\ fresh' \in BOOLEAN /\ (fresh' => fresh /\ disk' = disk)
         /\ \A a \in Addrs : IF a >= s * SectorBytes /\ a < (s + n) * SectorBytes
                             THEN disk'[a] = b[a - s * SectorBytes + 1] ELSE disk'[a] = disk[a]
<1>1. (s + n) * SectorBytes = s * SectorBytes + n * SectorBytes /\ s * SectorBytes \in Nat
      /\ n * SectorBytes \in Nat
  BY JobsAssumption, Scale
<1>2. \A a \in Addrs : a >= s * SectorBytes /\ a < (s + n) * SectorBytes
                         => a - s * SectorBytes + 1 \in 1..(n * SectorBytes)
  BY <1>1 DEF Addrs
<1> QED  BY <1>2 DEF Put

LEMMA PutSomeFacts ==
  ASSUME disk \in [Addrs -> Byte], fresh \in BOOLEAN,
         NEW s \in Nat, NEW n \in Nat, NEW b \in [1..(n * SectorBytes) -> Byte], PutSome(s, n, b)
  PROVE  /\ disk' \in [Addrs -> Byte] /\ fresh' \in BOOLEAN /\ (fresh' => fresh /\ disk' = disk)
         /\ \A a \in Addrs : ~(a >= s * SectorBytes /\ a < (s + n) * SectorBytes)
                               => disk'[a] = disk[a]
<1>1. PICK done \in SUBSET (s..(s + n - 1)) :
        disk' = [a \in Addrs |->
          IF a \div SectorBytes \in done THEN b[a - s * SectorBytes + 1] ELSE disk[a]]
  BY DEF PutSome
<1>2. SectorBytes \in Nat /\ SectorBytes >= 1
  BY JobsAssumption
<1>3. (s + n) * SectorBytes = s * SectorBytes + n * SectorBytes /\ s * SectorBytes \in Nat
      /\ n * SectorBytes \in Nat
  BY <1>2, Scale
<1>4. ASSUME NEW a \in Addrs, a \div SectorBytes \in done
      PROVE  a >= s * SectorBytes /\ a < (s + n) * SectorBytes
  <2> DEFINE q == a \div SectorBytes
  <2>1. a \in Nat
    BY DEF Addrs
  <2>2. q \in Nat /\ q * SectorBytes <= a /\ a < (q + 1) * SectorBytes
    BY <1>2, <2>1, Whole
  <2>3. s <= q /\ q + 1 <= s + n
    BY <1>4, <2>2
  <2> HIDE DEF q
  <2>4. s * SectorBytes <= q * SectorBytes /\ (q + 1) * SectorBytes <= (s + n) * SectorBytes
    BY <1>2, <2>2, <2>3, Scale
  <2> QED  BY <1>2, <1>3, <2>1, <2>2, <2>4, Scale
<1>5. \A a \in Addrs : a \div SectorBytes \in done => a - s * SectorBytes + 1 \in 1..(n * SectorBytes)
  BY <1>3, <1>4 DEF Addrs
<1>6. disk' \in [Addrs -> Byte]
  BY <1>1, <1>5
<1>7. fresh' = (fresh /\ disk' = disk)
  BY DEF PutSome
<1> QED  BY <1>1, <1>4, <1>6, <1>7

-----------------------------------------------------------------------------
(* The inductive invariant *)

\* Where the loop of a job is: inside the partition, with what is left of its
\* run before it; nothing has been returned yet.
Shape ==
  /\ pc # "idle" => result = NoResult
  /\ pc \in Loops => First <= at
  /\ pc \in {"dump", "zero", "native"} => at + left = Last + 1
  /\ pc = "write" => /\ src = img.bytes /\ Len(src) <= PartSectors * SectorBytes
                     /\ at + left = First + SectorsFor(Len(src))

\* What the loops of WriteJob and EraseJob have done behind them.
Written ==
  pc = "write" =>
    \A a \in (First * SectorBytes)..(at * SectorBytes - 1) :
      disk[a] = IF a - First * SectorBytes + 1 <= Len(src)
                THEN src[a - First * SectorBytes + 1] ELSE 0
Erased ==
  pc \in {"zero", "native"} =>
    \A a \in (First * SectorBytes)..(at * SectorBytes - 1) : disk[a] = 0

Done == Written /\ Erased /\ WriteExact /\ EraseExact

IInv == TypeOK /\ Shape /\ Done

LEMMA NoImageType == NoImage \in Image
  BY EmptySeq DEF NoImage, Image

\* Whatever begins with the bytes WriteJob looks for is no sparse image, so
\* that what it writes is the file itself.
LEMMA WritesTheFile ==
  ASSUME NEW i \in Image, Expands(i, WriteMagic)
  PROVE  Contents(i, WriteMagic) = i.bytes
<1>1. ASSUME StartsWith(i.bytes, WriteMagic) PROVE FALSE
  <2>1. SubSeq(i.bytes, 1, 4) = WriteMagic
    BY <1>1 DEF StartsWith, WriteMagic
  <2>2. WriteMagic # SparseMagic
    BY DEF WriteMagic, SparseMagic
  <2>3. ~IsSparse(i.bytes)
    BY <2>1, <2>2 DEF IsSparse
  <2>4. Expand(i.bytes) = Bad
    BY <2>3 DEF Expand
  <2> QED  BY <1>1, <2>4 DEF Expands, Bad
<1> QED  BY <1>1 DEF Contents

LEMMA InitIInv == Init => IInv
<1> SUFFICES ASSUME Init PROVE IInv
  OBVIOUS
<1>1. TypeOK
  <2>1. <<>> \in Seq(Byte)
    BY EmptySeq
  <2>2. disk \in [Addrs -> Byte] /\ First \in Nat /\ 0 \in 0..MaxJobs
    BY JobsAssumption, DataAssumption DEF Init
  <2>3. result \in [job : {"none", "dump", "write", "erase", "verify", "flash"},
                    st : {"none", "ok", "error", "panic", "verified", "mismatch"}, img : Image]
    BY NoImageType DEF Init, NoResult
  <2>4. file \in [exists : BOOLEAN, bytes : Seq(Byte)]
    BY <2>1 DEF Init, NoFile
  <2> QED  BY <2>1, <2>2, <2>3, <2>4, NoImageType DEF Init, TypeOK, Loops
<1>2. Shape /\ Done
  BY DEF Init, Shape, Done, Written, Erased, WriteExact, EraseExact, Loops, NoResult
<1> QED  BY <1>1, <1>2 DEF IInv

-----------------------------------------------------------------------------
(* Beginning, going on and returning *)

DataTyped == disk \in [Addrs -> Byte] /\ file \in [exists : BOOLEAN, bytes : Seq(Byte)]
             /\ fresh \in BOOLEAN

JobNames == {"dump", "write", "erase", "verify", "flash"}
Verdicts == {"ok", "error", "panic", "verified", "mismatch"}

LEMMA BeginIInv ==
  ASSUME TypeOK, NEW name \in Loops, NEW i \in Image, NEW bytes \in Seq(Byte),
         NEW s \in Nat, NEW n \in Nat, Begin(name, i, bytes, s, n),
         njobs' \in 0..MaxJobs, payload' = payload, DataTyped',
         First <= s, s + n <= Last + 1, name # "write" => s + n = Last + 1,
         name \in {"write", "zero", "native"} => s = First,
         name = "write" => /\ bytes = i.bytes /\ Len(bytes) <= PartSectors * SectorBytes
                           /\ n = SectorsFor(Len(bytes))
  PROVE  IInv'
<1>1. result' \in [job : {"none", "dump", "write", "erase", "verify", "flash"},
                   st : {"none", "ok", "error", "panic", "verified", "mismatch"}, img : Image]
  BY NoImageType DEF Begin, NoResult
<1>2. TypeOK'
  BY <1>1 DEF TypeOK, Begin, DataTyped
<1>3. Shape'
  BY DEF Shape, Begin, Loops
<1>4. Written' /\ Erased'
  <2>1. First * SectorBytes \in Nat
    BY JobsAssumption, Scale
  <2>2. pc' \in {"write", "zero", "native"} => at' = First
    BY DEF Begin
  <2> QED  BY <2>1, <2>2 DEF Written, Erased
<1>5. WriteExact' /\ EraseExact'
  BY DEF Begin, NoResult, WriteExact, EraseExact
<1> QED  BY <1>2, <1>3, <1>4, <1>5 DEF IInv, Done

LEMMA ReturnIInv ==
  ASSUME TypeOK, NEW name \in JobNames, NEW st \in Verdicts, NEW i \in Image,
         Return(name, st, i), njobs' \in 0..MaxJobs, payload' = payload, DataTyped',
         WriteExact', EraseExact'
  PROVE  IInv'
<1>1. TypeOK'
  <2>1. result' \in [job : {"none", "dump", "write", "erase", "verify", "flash"},
                     st : {"none", "ok", "error", "panic", "verified", "mismatch"}, img : Image]
    BY DEF Return, JobNames, Verdicts
  <2> QED  BY <2>1 DEF TypeOK, Return, DataTyped, Loops
<1>2. Shape' /\ Written' /\ Erased'
  BY DEF Return, Shape, Written, Erased, Loops
<1> QED  BY <1>1, <1>2 DEF IInv, Done

LEMMA FailsIInv ==
  ASSUME TypeOK, NEW name \in JobNames, NEW st \in Verdicts, NEW i \in Image,
         Return(name, st, i), njobs' \in 0..MaxJobs, payload' = payload, DataTyped',
         st # "ok" \/ name \in {"dump", "verify", "flash"}
  PROVE  IInv'
<1>1. WriteExact' /\ EraseExact'
  BY DEF Return, WriteExact, EraseExact
<1> QED  BY <1>1, ReturnIInv

LEMMA AdvanceIInv ==
  ASSUME IInv, pc \in Loops, NEW n \in Nat, n <= left, Advance(n),
         UNCHANGED <<payload, njobs>>, DataTyped', Written', Erased'
  PROVE  IInv'
<1>1. at' = at + n /\ left' = left - n /\ at \in Nat /\ left \in Nat /\ First \in Nat
  BY JobsAssumption DEF IInv, TypeOK, Advance
<1>2. result' = NoResult
  BY DEF IInv, Shape, Advance, Loops
<1>3. TypeOK'
  BY <1>1 DEF IInv, TypeOK, Advance, DataTyped
<1>4. Shape'
  <2>1. SectorsFor(Len(src)) \in Nat
    BY SectorsForFacts, LenProperties DEF IInv, TypeOK
  <2> QED  BY <1>1, <1>2, <2>1 DEF IInv, Shape, Advance
<1>5. WriteExact' /\ EraseExact'
  BY <1>2 DEF NoResult, WriteExact, EraseExact
<1> QED  BY <1>3, <1>4, <1>5 DEF IInv, Done

LEMMA NewJobFacts == ASSUME TypeOK, NewJob PROVE njobs' \in 0..MaxJobs
  BY JobsAssumption DEF TypeOK, NewJob

LEMMA Typed == TypeOK => DataTyped
  BY DEF TypeOK, DataTyped

-----------------------------------------------------------------------------
(* The actions *)

\* A dump goes on behind the whole sectors of its file, inside the partition.
LEMMA ResumedFacts ==
  ASSUME TypeOK, Len(file.bytes) < PartSectors * SectorBytes
  PROVE  Resumed \in Nat /\ First <= Resumed /\ Resumed < Last + 1
<1> DEFINE len == Len(file.bytes)   q == len \div SectorBytes
<1>1. len \in Nat /\ SectorBytes \in Nat /\ SectorBytes >= 1 /\ PartSectors \in Nat /\ First \in Nat
      /\ PartSectors = Last + 1 - First /\ Last \in Nat
  BY JobsAssumption, LenProperties DEF TypeOK, PartSectors
<1>2. q \in Nat /\ q * SectorBytes <= len
  BY <1>1, Whole
<1>3. Resumed = First + q
  BY DEF Resumed
<1> HIDE DEF len, q
<1>4. q * SectorBytes < PartSectors * SectorBytes
  BY <1>1, <1>2, Scale DEF len
<1>5. q < PartSectors
  BY <1>1, <1>2, <1>4, BelowScaled
<1> QED  BY <1>1, <1>2, <1>3, <1>5

LEMMA DumpStartIInv ==
  ASSUME IInv, NEW resume \in BOOLEAN, DumpStart(resume) PROVE IInv'
<1> DEFINE total == PartSectors * SectorBytes
           again == resume /\ file.exists
           start == IF again THEN Resumed ELSE First
<1>1. TypeOK /\ NewJob /\ payload' = payload /\ disk' = disk
  BY DEF IInv, DumpStart
<1>2. njobs' \in 0..MaxJobs
  BY <1>1, NewJobFacts
<1>3. total \in Nat /\ Len(file.bytes) \in Nat /\ <<>> \in Seq(Byte)
  BY <1>1, JobsAssumption, Scale, LenProperties, EmptySeq DEF TypeOK, PartSectors
<1>4. CASE again /\ Len(file.bytes) >= total
  <2>1. Return("dump", "ok", NoImage) /\ UNCHANGED <<file, fresh>>
    BY <1>4 DEF DumpStart
  <2>2. DataTyped'
    BY <1>1, <2>1 DEF TypeOK, DataTyped
  <2> QED  BY <1>1, <1>2, <2>1, <2>2, NoImageType, FailsIInv DEF JobNames, Verdicts
<1>5. CASE ~(again /\ Len(file.bytes) >= total)
  <2>1. /\ Begin("dump", NoImage, <<>>, start, PartSectors - (start - First))
        /\ file' = [exists |-> TRUE, bytes |-> IF resume THEN file.bytes ELSE <<>>]
        /\ fresh' = (fresh \/ ~again)
    BY <1>5 DEF DumpStart
  <2>2. start \in Nat /\ First <= start /\ start <= Last + 1
    BY <1>1, <1>3, <1>5, ResumedFacts, JobsAssumption
  <2>3. PartSectors - (start - First) \in Nat
        /\ start + (PartSectors - (start - First)) = Last + 1
    BY <2>2, JobsAssumption DEF PartSectors
  <2>4. DataTyped'
    BY <1>1, <1>3, <2>1 DEF TypeOK, DataTyped
  <2> DEFINE n == PartSectors - (start - First)
  <2>5. /\ n \in Nat /\ start + n = Last + 1 /\ start + n <= Last + 1
        /\ Begin("dump", NoImage, <<>>, start, n)
    BY <2>1, <2>3, JobsAssumption
  <2>6. "dump" \in Loops /\ "dump" \notin {"write", "zero", "native"}
    BY DEF Loops
  <2> HIDE DEF start, n
  <2> QED  BY <1>1, <1>2, <1>3, <2>2, <2>4, <2>5, <2>6, NoImageType, BeginIInv
<1> QED  BY <1>4, <1>5

LEMMA LoopFacts ==
  ASSUME IInv, pc \in Loops
  PROVE  /\ TypeOK /\ DataTyped /\ at \in Nat /\ left \in Nat /\ First <= at
         /\ at + left <= Last + 1
         /\ disk \in [Addrs -> Byte] /\ fresh \in BOOLEAN /\ src \in Seq(Byte)
  BY DEF IInv, TypeOK, Shape, DataTyped

LEMMA DumpChunkIInv == ASSUME IInv, DumpChunk PROVE IInv'
<1>1. pc = "dump" /\ pc \in Loops /\ left > 0
  BY DEF DumpChunk, Loops
<1>2. Chunk \in Nat /\ Chunk <= left
  BY <1>1, LoopFacts, ChunkFacts
<1>3. DataTyped'
  <2>1. Bytes(at, Chunk) \in Seq(Byte)
    <3>1. /\ disk \in [Addrs -> Byte] /\ at \in Nat /\ left \in Nat /\ First <= at
          /\ at + left <= Last + 1
      BY <1>1, LoopFacts
    <3>2. at + Chunk <= Last + 1
      BY <1>2, <3>1, JobsAssumption
    <3> QED  BY <1>2, <3>1, <3>2, BytesFacts
  <2>2. file.bytes \o Bytes(at, Chunk) \in Seq(Byte)
    BY <1>1, <2>1, LoopFacts, ConcatProperties DEF DataTyped
  <2> QED  BY <1>1, <2>2, LoopFacts DEF DumpChunk, DataTyped
<1>4. Written' /\ Erased'
  BY <1>1 DEF DumpChunk, Advance, Written, Erased
<1> QED  BY <1>1, <1>2, <1>3, <1>4, AdvanceIInv DEF DumpChunk

LEMMA DumpStopsIInv == ASSUME IInv, DumpStops PROVE IInv'
<1>1. pc = "dump" /\ pc \in Loops /\ left > 0 /\ UNCHANGED <<payload, njobs, disk, fresh>>
      /\ Return("dump", "error", NoImage)
  BY DEF DumpStops, Loops
<1>2. PICK k \in 0..(Chunk * SectorBytes) :
        file' = [file EXCEPT !.bytes = @ \o SubSeq(Bytes(at, Chunk), 1, k)]
  BY DEF DumpStops
<1>3. DataTyped'
  <2>1. Chunk \in Nat /\ Chunk <= left
    BY <1>1, LoopFacts, ChunkFacts
  <2>2. Bytes(at, Chunk) \in Seq(Byte) /\ Len(Bytes(at, Chunk)) = Chunk * SectorBytes
    <3>1. /\ disk \in [Addrs -> Byte] /\ at \in Nat /\ left \in Nat /\ First <= at
          /\ at + left <= Last + 1
      BY <1>1, LoopFacts
    <3>2. at + Chunk <= Last + 1
      BY <2>1, <3>1, JobsAssumption
    <3> QED  BY <2>1, <3>1, <3>2, BytesFacts
  <2>3. \A i \in 1..k : Bytes(at, Chunk)[i] \in Byte
    BY <2>2, ElementOfSeq
  <2>4. SubSeq(Bytes(at, Chunk), 1, k) \in Seq(Byte)
    BY <2>3, SubSeqProperties
  <2>5. file.bytes \o SubSeq(Bytes(at, Chunk), 1, k) \in Seq(Byte)
    BY <1>1, <2>4, LoopFacts, ConcatProperties DEF DataTyped
  <2> QED  BY <1>1, <1>2, <2>5, LoopFacts DEF DataTyped
<1>4. njobs' \in 0..MaxJobs
  BY <1>1 DEF IInv, TypeOK
<1> QED  BY <1>1, <1>3, <1>4, LoopFacts, FailsIInv, NoImageType DEF JobNames, Verdicts

LEMMA WriteStartIInv ==
  ASSUME IInv, NEW i \in Images, WriteStart(i) PROVE IInv'
<1> DEFINE bytes == Contents(i, WriteMagic)
<1>1. TypeOK /\ NewJob /\ UNCHANGED <<payload, disk, file, fresh>> /\ i \in Image
  BY DataAssumption DEF IInv, WriteStart
<1>2. njobs' \in 0..MaxJobs /\ DataTyped'
  BY <1>1, NewJobFacts DEF TypeOK, DataTyped
<1>3. CASE ~Expands(i, WriteMagic) \/ TooLarge(Len(bytes))
  BY <1>1, <1>2, <1>3, FailsIInv DEF WriteStart, JobNames, Verdicts
<1>4. CASE Expands(i, WriteMagic) /\ ~TooLarge(Len(bytes))
  <2>1. Begin("write", i, bytes, First, SectorsFor(Len(bytes)))
    BY <1>4 DEF WriteStart
  <2>2. bytes = i.bytes
    BY <1>1, <1>4, WritesTheFile
  <2> HIDE DEF bytes
  <2>3. bytes \in Seq(Byte) /\ Len(bytes) \in Nat
    BY <1>1, <2>2, LenProperties DEF Image
  <2>4. PartSectors * SectorBytes \in Nat
    BY JobsAssumption, Scale DEF PartSectors
  <2>5. Len(bytes) <= PartSectors * SectorBytes
    BY <1>4, <2>3, <2>4 DEF TooLarge, bytes
  <2>6. SectorsFor(Len(bytes)) \in Nat /\ First + SectorsFor(Len(bytes)) <= Last + 1
    BY <2>3, <2>5, SectorsForFacts, JobsAssumption DEF PartSectors
  <2> QED  BY <1>1, <1>2, <2>1, <2>2, <2>3, <2>5, <2>6, BeginIInv, JobsAssumption DEF Loops
<1> QED  BY <1>3, <1>4

\* What was done before a chunk stays, and the chunk is what comes next.
LEMMA WriteChunkIInv == ASSUME IInv, WriteChunk PROVE IInv'
<1>1. pc = "write" /\ pc \in Loops /\ left > 0 /\ Advance(Chunk) /\ UNCHANGED <<payload, njobs, file>>
      /\ Put(at, Chunk, FromSource(Chunk))
  BY DEF WriteChunk, Loops
<1>2. Chunk \in Nat /\ Chunk <= left
  BY <1>1, LoopFacts, ChunkFacts
<1>3. FromSource(Chunk) \in [1..(Chunk * SectorBytes) -> Byte]
  BY <1>1, <1>2, LoopFacts, FromSourceType
<1>4. /\ DataTyped'
      /\ \A a \in Addrs : IF a >= at * SectorBytes /\ a < (at + Chunk) * SectorBytes
                          THEN disk'[a] = FromSource(Chunk)[a - at * SectorBytes + 1]
                          ELSE disk'[a] = disk[a]
  BY <1>1, <1>2, <1>3, LoopFacts, PutFacts DEF DataTyped
<1>5. Written'
  <2> DEFINE lo == at * SectorBytes   m == Chunk * SectorBytes   base == First * SectorBytes
             hi == (at + Chunk) * SectorBytes   size == NSectors * SectorBytes
  <2>1. /\ lo \in Nat /\ m \in Nat /\ base \in Nat /\ size \in Nat /\ base <= lo
        /\ hi = lo + m /\ hi <= size /\ (at - First) * SectorBytes = lo - base
    <3>1. at \in Nat /\ First <= at /\ at + Chunk <= Last + 1
      BY <1>1, <1>2, LoopFacts, JobsAssumption
    <3>2. (Last + 1) * SectorBytes \in Nat
      BY JobsAssumption, Scale
    <3>3. hi \in Nat
      BY <1>2, <3>1, JobsAssumption, Scale
    <3> HIDE DEF lo, m, base, hi, size
    <3> QED  BY <1>2, <3>1, <3>2, <3>3, RunInside DEF lo, m, base, hi, size
  <2>2. at' = at + Chunk /\ src' = src /\ pc' = pc
    BY <1>1 DEF Advance
  <2>3. Len(src) \in Nat
    BY <1>1, LoopFacts, LenProperties
  <2>4. ASSUME NEW a \in base..(hi - 1)
        PROVE  disk'[a] = IF a - base + 1 <= Len(src) THEN src[a - base + 1] ELSE 0
    <3>1. a \in Addrs
      BY <2>1, <2>4 DEF Addrs
    <3>2. CASE a < lo
      <4>1. disk'[a] = disk[a]
        BY <1>4, <2>1, <2>4, <3>1, <3>2
      <4>2. a \in base..(lo - 1)
        BY <2>1, <2>4, <3>2
      <4> QED  BY <1>1, <4>1, <4>2 DEF IInv, Done, Written
    <3>3. CASE a >= lo
      <4>1. disk'[a] = FromSource(Chunk)[a - lo + 1]
        BY <1>4, <2>1, <2>4, <3>1, <3>3
      <4>2. a - lo + 1 \in 1..m
        BY <2>1, <2>4, <3>3
      <4>3. FromSource(Chunk)[a - lo + 1] =
              IF lo - base + (a - lo + 1) <= Len(src) THEN src[lo - base + (a - lo + 1)] ELSE 0
        BY <2>1, <4>2 DEF FromSource
      <4>4. lo - base + (a - lo + 1) = a - base + 1
        BY <2>1, <2>4
      <4> QED  BY <4>1, <4>3, <4>4
    <3> QED  BY <2>1, <2>4, <3>2, <3>3
  <2> QED  BY <2>2, <2>4 DEF Written
<1>6. Erased'
  BY <1>1 DEF Advance, Erased
<1> QED  BY <1>1, <1>2, <1>4, <1>5, <1>6, AdvanceIInv

LEMMA WriteStopsIInv == ASSUME IInv, WriteStops PROVE IInv'
<1>1. pc = "write" /\ pc \in Loops /\ left > 0 /\ UNCHANGED <<payload, njobs, file>>
      /\ PutSome(at, Chunk, FromSource(Chunk)) /\ Return("write", "error", img)
  BY DEF WriteStops, Loops
<1>2. Chunk \in Nat /\ Chunk <= left
  BY <1>1, LoopFacts, ChunkFacts
<1>3. FromSource(Chunk) \in [1..(Chunk * SectorBytes) -> Byte]
  BY <1>1, <1>2, LoopFacts, FromSourceType
<1>4. DataTyped'
  BY <1>1, <1>2, <1>3, LoopFacts, PutSomeFacts DEF DataTyped
<1>5. njobs' \in 0..MaxJobs /\ img \in Image
  BY <1>1 DEF IInv, TypeOK
<1> QED  BY <1>1, <1>4, <1>5, LoopFacts, FailsIInv DEF JobNames, Verdicts

LEMMA EraseStartIInv ==
  ASSUME IInv, NEW method \in {"zero", "native"}, EraseStart(method) PROVE IInv'
<1>1. /\ TypeOK /\ NewJob /\ UNCHANGED <<payload, disk, file, fresh>>
      /\ Begin(method, NoImage, <<>>, First, PartSectors)
  BY DEF IInv, EraseStart
<1>2. njobs' \in 0..MaxJobs /\ DataTyped' /\ <<>> \in Seq(Byte)
  BY <1>1, NewJobFacts, EmptySeq DEF TypeOK, DataTyped
<1>3. /\ First \in Nat /\ First <= First /\ PartSectors \in Nat
      /\ First + PartSectors = Last + 1 /\ First + PartSectors <= Last + 1
  BY JobsAssumption DEF PartSectors
<1>4. method \in Loops /\ ~(method = "write")
  BY DEF Loops
<1> QED  BY <1>1, <1>2, <1>3, <1>4, NoImageType, BeginIInv

\* One piece of an erase: n sectors of zeros behind what is zeros already.
LEMMA ZerosIInv ==
  ASSUME IInv, pc \in {"zero", "native"}, NEW n \in Nat, n <= left,
         Put(at, n, Zeros(n)), Advance(n), UNCHANGED <<payload, njobs, file>>
  PROVE  IInv'
<1>1. pc \in Loops
  BY DEF Loops
<1>2. /\ DataTyped'
      /\ \A a \in Addrs : IF a >= at * SectorBytes /\ a < (at + n) * SectorBytes
                          THEN disk'[a] = Zeros(n)[a - at * SectorBytes + 1]
                          ELSE disk'[a] = disk[a]
  BY <1>1, LoopFacts, ZerosType, PutFacts DEF DataTyped
<1>3. Erased'
  <2> DEFINE lo == at * SectorBytes   m == n * SectorBytes   base == First * SectorBytes
             hi == (at + n) * SectorBytes   size == NSectors * SectorBytes
  <2>1. /\ lo \in Nat /\ m \in Nat /\ base \in Nat /\ size \in Nat /\ base <= lo
        /\ hi = lo + m /\ hi <= size
    <3>1. at \in Nat /\ First <= at /\ at + n <= Last + 1
      BY <1>1, LoopFacts, JobsAssumption
    <3>2. (Last + 1) * SectorBytes \in Nat
      BY JobsAssumption, Scale
    <3>3. hi \in Nat
      BY <3>1, JobsAssumption, Scale
    <3> HIDE DEF lo, m, base, hi, size
    <3> QED  BY <3>1, <3>2, <3>3, RunInside DEF lo, m, base, hi, size
  <2>2. ASSUME NEW a \in base..(hi - 1) PROVE disk'[a] = 0
    <3>1. a \in Addrs
      BY <2>1, <2>2 DEF Addrs
    <3>2. CASE a < lo
      <4>1. disk'[a] = disk[a] /\ a \in base..(lo - 1)
        BY <1>2, <2>1, <2>2, <3>1, <3>2
      <4> QED  BY <4>1 DEF IInv, Done, Erased
    <3>3. CASE a >= lo
      <4>1. disk'[a] = Zeros(n)[a - lo + 1] /\ a - lo + 1 \in 1..m
        BY <1>2, <2>1, <2>2, <3>1, <3>3
      <4> QED  BY <4>1 DEF Zeros
    <3> QED  BY <2>1, <2>2, <3>2, <3>3
  <2> QED  BY <2>2 DEF Erased, Advance
<1>4. Written'
  BY DEF Advance, Written
<1> QED  BY <1>1, <1>2, <1>3, <1>4, AdvanceIInv

LEMMA EraseChunkIInv == ASSUME IInv, EraseChunk PROVE IInv'
<1>1. pc = "zero" /\ pc \in Loops /\ left > 0
  BY DEF EraseChunk, Loops
<1>2. EraseChunkSectors \in Nat /\ EraseChunkSectors <= left
  BY <1>1, LoopFacts, ChunkFacts
<1> QED  BY <1>1, <1>2, ZerosIInv DEF EraseChunk, EraseAdvance

LEMMA EraseNativeIInv == ASSUME IInv, EraseNative PROVE IInv'
<1>1. pc = "native" /\ left \in Nat /\ left <= left
  BY DEF EraseNative, IInv, TypeOK
<1> QED  BY <1>1, ZerosIInv DEF EraseNative

LEMMA ErasePanicsIInv == ASSUME IInv, ErasePanics PROVE IInv'
<1>1. TypeOK /\ UNCHANGED <<payload, njobs, disk, file, fresh>> /\ Return("erase", "panic", NoImage)
  BY DEF IInv, ErasePanics
<1>2. njobs' \in 0..MaxJobs /\ DataTyped'
  BY <1>1 DEF TypeOK, DataTyped
<1> QED  BY <1>1, <1>2, NoImageType, FailsIInv DEF JobNames, Verdicts

LEMMA EraseStopsFacts ==
  ASSUME IInv, EraseStops
  PROVE  /\ pc \in Loops /\ Return("erase", "error", NoImage) /\ UNCHANGED <<payload, njobs, file>>
         /\ \E n \in Nat : n <= left /\ PutSome(at, n, Zeros(n))
<1>1. pc \in {"zero", "native"} /\ pc \in Loops /\ left > 0
  BY DEF EraseStops, Loops
<1>2. EraseChunkSectors \in Nat /\ EraseChunkSectors <= left /\ left \in Nat
  BY <1>1, LoopFacts, ChunkFacts
<1> QED  BY <1>1, <1>2 DEF EraseStops

LEMMA EraseStopsIInv == ASSUME IInv, EraseStops PROVE IInv'
<1>1. PICK n \in Nat : n <= left /\ PutSome(at, n, Zeros(n))
  BY EraseStopsFacts
<1>2. pc \in Loops /\ Return("erase", "error", NoImage) /\ UNCHANGED <<payload, njobs, file>>
  BY EraseStopsFacts
<1>3. DataTyped'
  BY <1>1, <1>2, LoopFacts, ZerosType, PutSomeFacts DEF DataTyped
<1>4. njobs' \in 0..MaxJobs
  BY <1>2 DEF IInv, TypeOK
<1> QED  BY <1>2, <1>3, <1>4, LoopFacts, NoImageType, FailsIInv DEF JobNames, Verdicts

\* At its end the loop has been over all of its run.
LEMMA FinishIInv == ASSUME IInv, Finish PROVE IInv'
<1> DEFINE name == IF pc \in {"zero", "native"} THEN "erase" ELSE pc
<1>1. /\ TypeOK /\ UNCHANGED <<payload, njobs, disk, file, fresh>> /\ Return(name, "ok", img)
      /\ pc \in Loops /\ left = 0 /\ at \in Nat
  BY DEF IInv, Finish, TypeOK
<1>2. njobs' \in 0..MaxJobs /\ DataTyped' /\ img \in Image
  BY <1>1 DEF TypeOK, DataTyped
<1>3. name \in JobNames
  BY <1>1 DEF Loops, JobNames
<1> DEFINE base == First * SectorBytes
<1>4. base \in Nat /\ at * SectorBytes \in Nat
  BY <1>1, JobsAssumption, Scale
<1>5. WriteExact'
  <2> SUFFICES ASSUME pc = "write", NEW k \in 1..(SectorsFor(Len(img.bytes)) * SectorBytes)
               PROVE  disk[base + k - 1] = IF k <= Len(img.bytes) THEN img.bytes[k] ELSE 0
    BY <1>1 DEF WriteExact, Return
  <2> DEFINE q == SectorsFor(Len(img.bytes))
  <2>1. src = img.bytes /\ at = First + q /\ q \in Nat
    <3>1. src = img.bytes /\ at + left = First + q /\ Len(img.bytes) \in Nat
      BY <1>2, LenProperties DEF IInv, Shape, Image
    <3>2. q \in Nat
      BY <3>1, SectorsForFacts
    <3> HIDE DEF q
    <3> QED  BY <1>1, <3>1, <3>2, JobsAssumption
  <2>2. at * SectorBytes = base + q * SectorBytes /\ q * SectorBytes \in Nat
    BY <2>1, JobsAssumption, Scale
  <2> HIDE DEF base, q
  <2>3. base + k - 1 \in base..(at * SectorBytes - 1) /\ (base + k - 1) - base + 1 = k
    BY <1>4, <2>2 DEF q
  <2>4. disk[base + k - 1] = IF (base + k - 1) - base + 1 <= Len(src)
                             THEN src[(base + k - 1) - base + 1] ELSE 0
    BY <2>3 DEF IInv, Done, Written, base
  <2> QED  BY <2>1, <2>3, <2>4
<1>6. EraseExact'
  <2> SUFFICES ASSUME pc \in {"zero", "native"}, NEW a \in Partition PROVE disk[a] = 0
    BY <1>1 DEF EraseExact, Return, Loops
  <2>1. at = Last + 1
    BY <1>1 DEF IInv, Shape
  <2>2. a \in base..(at * SectorBytes - 1)
    BY <2>1 DEF Partition
  <2> QED  BY <2>2 DEF IInv, Done, Erased
<1> HIDE DEF name
<1>7. "ok" \in Verdicts
  BY DEF Verdicts
<1> QED  BY <1>1, <1>2, <1>3, <1>5, <1>6, <1>7, ReturnIInv

LEMMA VerifyIInv == ASSUME IInv, NEW i \in Images, Verify(i) PROVE IInv'
<1>1. TypeOK /\ NewJob /\ UNCHANGED <<payload, disk, file, fresh>> /\ i \in Image
  BY DataAssumption DEF IInv, Verify
<1>2. njobs' \in 0..MaxJobs /\ DataTyped'
  BY <1>1, NewJobFacts DEF TypeOK, DataTyped
<1>3. PICK st \in {"verified", "mismatch", "error"} : Return("verify", st, i)
  BY DEF Verify
<1> QED  BY <1>1, <1>2, <1>3, FailsIInv DEF JobNames, Verdicts

LEMMA NextIInv == ASSUME IInv, [Next]_vars PROVE IInv'
<1>1. CASE \E resume \in BOOLEAN : DumpStart(resume)
  BY <1>1, DumpStartIInv
<1>2. CASE \E i \in Images : WriteStart(i) \/ Verify(i)
  BY <1>2, WriteStartIInv, VerifyIInv
<1>3. CASE \E method \in {"zero", "native"} : EraseStart(method)
  BY <1>3, EraseStartIInv
<1>4. CASE Works
  BY <1>4, DumpChunkIInv, WriteChunkIInv, EraseChunkIInv, ErasePanicsIInv, EraseNativeIInv,
     FinishIInv DEF Works
<1>5. CASE Stops
  BY <1>5, DumpStopsIInv, WriteStopsIInv, EraseStopsIInv DEF Stops
<1>6. CASE UNCHANGED vars
  BY <1>6 DEF vars, job, IInv, TypeOK, Shape, Done, Written, Erased, WriteExact, EraseExact
<1> QED  BY <1>1, <1>2, <1>3, <1>4, <1>5, <1>6 DEF Next

(***************************************************************************)
(* The inductive invariant: with the types, where the loop of a job is and *)
(* what it has left behind it on the disk.                                 *)
(***************************************************************************)
THEOREM JobsInductive == Spec => []IInv
  BY InitIInv, NextIInv, PTL DEF Spec

(***************************************************************************)
(* The types of everything the jobs keep, and that no loop is ever past    *)
(* the end of the partition, however it was begun or resumed.              *)
(***************************************************************************)
THEOREM TypeCorrect == Spec => []TypeOK
<1>1. IInv => TypeOK
  BY DEF IInv
<1> QED  BY <1>1, JobsInductive, PTL

(***************************************************************************)
(* A WriteJob that returns Ok has left the image in the partition, and     *)
(* zeros in the rest of its last sector: for every payload, also one       *)
(* smaller than a sector, and every length of the image.                   *)
(***************************************************************************)
THEOREM WritesAreExact == Spec => []WriteExact
<1>1. IInv => WriteExact
  BY DEF IInv, Done
<1> QED  BY <1>1, JobsInductive, PTL

(***************************************************************************)
(* An EraseJob that returns Ok, by either method, has left nothing of the  *)
(* partition.                                                              *)
(***************************************************************************)
THEOREM ErasesAreExact == Spec => []EraseExact
<1>1. IInv => EraseExact
  BY DEF IInv, Done
<1> QED  BY <1>1, JobsInductive, PTL

-----------------------------------------------------------------------------
(* Nothing outside the partition *)

LEMMA RunContained ==
  ASSUME NEW s \in Nat, NEW n \in Nat, First <= s, s + n <= Last + 1,
         NEW a \in Addrs \ Partition
  PROVE  ~(a >= s * SectorBytes /\ a < (s + n) * SectorBytes)
<1> DEFINE lo == s * SectorBytes   hi == (s + n) * SectorBytes
           base == First * SectorBytes   end == (Last + 1) * SectorBytes
<1>1. lo \in Nat /\ base \in Nat /\ base <= lo /\ hi <= end /\ end \in Nat /\ hi \in Nat
  BY RunInside, JobsAssumption, Scale
<1>2. a \in Nat /\ ~(a \in base..(end - 1))
  BY DEF Addrs, Partition
<1>3. ~(a >= lo /\ a < hi)
  <2> HIDE DEF lo, hi, base, end
  <2> QED  BY <1>1, <1>2
<1> QED  BY <1>3

LEMMA NextContained ==
  ASSUME IInv, [Next]_vars, NEW a \in Addrs \ Partition PROVE disk'[a] = disk[a]
<1>1. CASE disk' = disk
  BY <1>1
<1>2. CASE disk' # disk
  <2>1. PICK n \in Nat : /\ pc \in Loops /\ n <= left
                         /\ \E b \in [1..(n * SectorBytes) -> Byte] : Put(at, n, b) \/ PutSome(at, n, b)
    <3>1. WriteChunk \/ EraseChunk \/ EraseNative \/ WriteStops \/ EraseStops
      BY <1>2 DEF Next, Works, Stops, DumpStart, WriteStart, Verify, EraseStart, DumpChunk,
                  ErasePanics, Finish, DumpStops, vars
    <3>2. CASE EraseStops
      BY <3>2, EraseStopsFacts, ZerosType
    <3>3. CASE WriteChunk \/ EraseChunk \/ EraseNative \/ WriteStops
      <4>1. pc \in Loops /\ left > 0
        BY <3>3 DEF WriteChunk, EraseChunk, EraseNative, WriteStops, Loops
      <4>2. /\ Chunk \in Nat /\ Chunk <= left /\ EraseChunkSectors \in Nat
            /\ EraseChunkSectors <= left /\ left \in Nat /\ left <= left
        BY <4>1, LoopFacts, ChunkFacts
      <4>3. FromSource(Chunk) \in [1..(Chunk * SectorBytes) -> Byte]
        BY <4>1, <4>2, LoopFacts, FromSourceType
      <4> QED  BY <3>3, <4>1, <4>2, <4>3, ZerosType DEF WriteChunk, EraseChunk, EraseNative, WriteStops
    <3> QED  BY <3>1, <3>2, <3>3
  <2>2. PICK b \in [1..(n * SectorBytes) -> Byte] : Put(at, n, b) \/ PutSome(at, n, b)
    BY <2>1
  <2>3. disk \in [Addrs -> Byte] /\ fresh \in BOOLEAN /\ at \in Nat /\ First <= at
        /\ at + n <= Last + 1
    BY <2>1, LoopFacts, JobsAssumption
  <2>4. ~(a >= at * SectorBytes /\ a < (at + n) * SectorBytes)
    BY <2>3, RunContained
  <2> QED  BY <2>2, <2>3, <2>4, PutFacts, PutSomeFacts
<1> QED  BY <1>1, <1>2

(***************************************************************************)
(* No dump, write, erase or verify changes a byte outside the partition,   *)
(* whether it succeeds, fails in the middle or is killed.                  *)
(***************************************************************************)
THEOREM NothingOutside == Spec => OutsideUntouched
<1>1. IInv /\ [Next]_vars => [pc \notin FlashLoops => \A a \in Addrs \ Partition : disk'[a] = disk[a]]_vars
  BY NextContained
<1> QED  BY <1>1, InitIInv, NextIInv, PTL DEF Spec, OutsideUntouched

-----------------------------------------------------------------------------
(* Dumps *)

\* The dump file holds whole sectors, as many as the loop of a dump is past;
\* while it is fresh, those of the partition.
DumpSoFar ==
  /\ Len(file.bytes) <= PartSectors * SectorBytes
  /\ \E q \in Nat : Len(file.bytes) = q * SectorBytes
  /\ ~file.exists => file.bytes = <<>>
  /\ pc = "dump" => file.exists /\ Len(file.bytes) = (at - First) * SectorBytes
  /\ fresh => \A k \in 1..Len(file.bytes) : file.bytes[k] = disk[First * SectorBytes + k - 1]
  /\ result.job = "dump" /\ result.st = "ok" => Len(file.bytes) = PartSectors * SectorBytes

LEMMA InitDumpSoFar == Init => DumpSoFar
<1> SUFFICES ASSUME Init PROVE DumpSoFar
  OBVIOUS
<1>1. file.bytes = <<>> /\ Len(file.bytes) = 0 /\ ~file.exists /\ ~fresh /\ pc = "idle"
      /\ result.job = "none"
  BY DEF Init, NoFile, NoResult
<1>2. PartSectors * SectorBytes \in Nat /\ 0 = 0 * SectorBytes
  BY JobsAssumption, Scale DEF PartSectors
<1> QED  BY <1>1, <1>2 DEF DumpSoFar

LEMMA DumpArithmetic ==
  ASSUME NEW s \in Nat, NEW l \in Nat, NEW n \in Nat, First <= s, s + l = Last + 1, n <= l
  PROVE  /\ s + n - First \in Nat /\ s - First \in Nat
         /\ (s + n - First) * SectorBytes <= PartSectors * SectorBytes
         /\ (s + n - First) * SectorBytes = (s - First) * SectorBytes + n * SectorBytes
         /\ s * SectorBytes = First * SectorBytes + (s - First) * SectorBytes
         /\ n * SectorBytes \in Nat /\ First * SectorBytes \in Nat
         /\ (s - First) * SectorBytes \in Nat
<1> DEFINE q == s + n - First   r == s - First
<1>1. /\ First \in Nat /\ Last \in Nat /\ SectorBytes \in Nat /\ PartSectors \in Nat
      /\ PartSectors = Last + 1 - First
  BY JobsAssumption DEF PartSectors
<1>2. q \in Nat /\ r \in Nat /\ q <= PartSectors /\ q = r + n /\ s = First + r
  BY <1>1
<1> HIDE DEF q, r
<1>3. q * SectorBytes <= PartSectors * SectorBytes
  BY <1>1, <1>2, Scale
<1>4. (r + n) * SectorBytes = r * SectorBytes + n * SectorBytes
      /\ (First + r) * SectorBytes = First * SectorBytes + r * SectorBytes
  BY <1>1, <1>2, Scale
<1>5. n * SectorBytes \in Nat /\ First * SectorBytes \in Nat /\ r * SectorBytes \in Nat
  BY <1>1, <1>2, Scale
<1> QED  BY <1>2, <1>3, <1>4, <1>5 DEF q, r

\* The n sectors from at, put behind what the file of a dump holds.
LEMMA Appended ==
  ASSUME IInv, DumpSoFar, pc = "dump", NEW n \in Nat, n <= left, NEW b \in Seq(Byte),
         Len(b) = n * SectorBytes,
         \A i \in 1..(n * SectorBytes) : b[i] = disk[at * SectorBytes + i - 1],
         file' = [file EXCEPT !.bytes = @ \o b], UNCHANGED <<disk, fresh>>
  PROVE  /\ Len(file'.bytes) = (at + n - First) * SectorBytes
         /\ Len(file'.bytes) <= PartSectors * SectorBytes
         /\ \E q \in Nat : Len(file'.bytes) = q * SectorBytes
         /\ ~file'.exists => file'.bytes = <<>>
         /\ fresh' => \A k \in 1..Len(file'.bytes) : file'.bytes[k] = disk'[First * SectorBytes + k - 1]
<1> DEFINE f == file.bytes   m == n * SectorBytes   skip == (at - First) * SectorBytes
           base == First * SectorBytes
<1>1. /\ at \in Nat /\ left \in Nat /\ First \in Nat /\ First <= at /\ at + left = Last + 1
      /\ Last \in Nat /\ SectorBytes \in Nat
      /\ file \in [exists : BOOLEAN, bytes : Seq(Byte)] /\ f \in Seq(Byte)
  <2>1. pc \in Loops
    BY DEF Loops
  <2> HIDE DEF f
  <2>2. /\ at \in Nat /\ left \in Nat /\ First <= at /\ at + left = Last + 1
        /\ file \in [exists : BOOLEAN, bytes : Seq(Byte)]
    BY <2>1 DEF IInv, TypeOK, Shape
  <2>3. f \in Seq(Byte)
    BY <2>2 DEF f
  <2> QED  BY <2>2, <2>3, JobsAssumption
<1>2. Len(f) = skip /\ Len(f) \in Nat
  BY <1>1, LenProperties DEF DumpSoFar
<1>3. /\ m \in Nat /\ base \in Nat /\ at * SectorBytes = base + skip
      /\ (at + n - First) * SectorBytes = skip + m
      /\ at + n - First \in Nat
      /\ (at + n - First) * SectorBytes <= PartSectors * SectorBytes
  BY <1>1, DumpArithmetic
<1>4. file'.bytes = f \o b /\ file'.exists = file.exists
  BY <1>1
<1>5. /\ Len(f \o b) = skip + m
      /\ \A k \in 1..(skip + m) : (f \o b)[k] = IF k <= skip THEN f[k] ELSE b[k - skip]
  <2>1. f \in Seq(Byte) /\ Len(f) = skip /\ Len(b) = m
      BY <1>1, <1>2
  <2> HIDE DEF f, m, skip
  <2> QED  BY <2>1, ConcatProperties
<1>6. Len(file'.bytes) = (at + n - First) * SectorBytes
  BY <1>3, <1>4, <1>5
<1>7. Len(file'.bytes) <= PartSectors * SectorBytes
  BY <1>3, <1>6
<1>8. \E q \in Nat : Len(file'.bytes) = q * SectorBytes
  BY <1>3, <1>6
<1>9. ASSUME fresh', NEW k \in 1..Len(file'.bytes)
      PROVE  file'.bytes[k] = disk'[base + k - 1]
  <2>1. k \in 1..(skip + m)
    BY <1>4, <1>5, <1>9
  <2>2. CASE k <= skip
    <3>1. k \in 1..Len(f)
      BY <1>2, <2>1, <2>2
    <3> QED  BY <1>4, <1>5, <1>9, <2>1, <2>2, <3>1 DEF DumpSoFar
  <2>3. CASE k > skip
    <3>1. k - skip \in 1..m /\ at * SectorBytes + (k - skip) - 1 = base + k - 1
      <4>1. skip \in Nat /\ m \in Nat /\ base \in Nat /\ at * SectorBytes = base + skip
        BY <1>2, <1>3
      <4> HIDE DEF skip, m, base
      <4> QED  BY <2>1, <2>3, <4>1
    <3>2. b[k - skip] = disk[at * SectorBytes + (k - skip) - 1]
      BY <3>1
    <3>3. file'.bytes[k] = b[k - skip]
      BY <1>2, <1>4, <1>5, <2>1, <2>3
    <3> QED  BY <3>1, <3>2, <3>3
  <2> QED  BY <1>2, <2>1, <2>2, <2>3
<1>10. file'.exists
  BY <1>4 DEF DumpSoFar
<1> QED  BY <1>6, <1>7, <1>8, <1>9, <1>10

\* A dump that takes up a file goes on where the file ends.
LEMMA ResumedWhole ==
  ASSUME TypeOK, DumpSoFar, Len(file.bytes) < PartSectors * SectorBytes
  PROVE  (Resumed - First) * SectorBytes = Len(file.bytes)
<1>1. PICK q \in Nat : Len(file.bytes) = q * SectorBytes
  BY DEF DumpSoFar
<1>2. SectorBytes \in Nat /\ SectorBytes >= 1 /\ First \in Nat
  BY JobsAssumption
<1>3. (q * SectorBytes) \div SectorBytes = q
  BY <1>2
<1>4. Resumed = First + q
  BY <1>1, <1>3 DEF Resumed
<1> QED  BY <1>1, <1>2, <1>4

LEMMA DumpStartSoFar ==
  ASSUME IInv, DumpSoFar, NEW resume \in BOOLEAN, DumpStart(resume) PROVE DumpSoFar'
<1> DEFINE total == PartSectors * SectorBytes
           again == resume /\ file.exists
           start == IF again THEN Resumed ELSE First
<1>1. TypeOK /\ disk' = disk
  BY DEF IInv, DumpStart
<1>2. total \in Nat /\ Len(file.bytes) \in Nat /\ Len(<<>>) = 0 /\ 0 * SectorBytes = 0
      /\ First - First = 0
  BY <1>1, JobsAssumption, Scale, LenProperties DEF TypeOK, PartSectors
<1>3. CASE again /\ Len(file.bytes) >= total
  <2>1. UNCHANGED <<file, fresh>> /\ pc' = "idle"
    BY <1>3 DEF DumpStart, Return
  <2> QED  BY <1>1, <1>2, <1>3, <2>1 DEF DumpSoFar
<1>4. CASE ~(again /\ Len(file.bytes) >= total)
  <2>1. /\ pc' = "dump" /\ at' = start /\ result' = NoResult
        /\ file' = [exists |-> TRUE, bytes |-> IF resume THEN file.bytes ELSE <<>>]
        /\ fresh' = (fresh \/ ~again)
    BY <1>4 DEF DumpStart, Begin
  <2>2. CASE again
    <3>1. file'.bytes = file.bytes /\ fresh' = fresh /\ file'.exists
      BY <1>1, <2>1, <2>2 DEF TypeOK
    <3>2. (at' - First) * SectorBytes = Len(file.bytes)
      BY <1>1, <1>2, <1>4, <2>1, <2>2, ResumedWhole
    <3> QED  BY <1>1, <2>1, <3>1, <3>2 DEF DumpSoFar, NoResult
  <2>3. CASE ~again
    <3>1. file'.bytes = <<>> /\ file'.exists
      BY <2>1, <2>3 DEF DumpSoFar
    <3>2. (at' - First) * SectorBytes = 0
      BY <1>2, <2>1, <2>3
    <3> QED  BY <1>1, <1>2, <2>1, <3>1, <3>2 DEF DumpSoFar, NoResult
  <2> QED  BY <2>2, <2>3
<1> QED  BY <1>3, <1>4

LEMMA ChunkRead ==
  ASSUME IInv, pc \in Loops, NEW n \in Nat, n <= left
  PROVE  /\ Bytes(at, n) \in Seq(Byte) /\ Len(Bytes(at, n)) = n * SectorBytes
         /\ \A i \in 1..(n * SectorBytes) : Bytes(at, n)[i] = disk[at * SectorBytes + i - 1]
<1>1. disk \in [Addrs -> Byte] /\ at \in Nat /\ First <= at /\ at + n <= Last + 1
  BY LoopFacts, JobsAssumption
<1> QED  BY <1>1, BytesFacts

LEMMA DumpChunkSoFar == ASSUME IInv, DumpSoFar, DumpChunk PROVE DumpSoFar'
<1>1. pc = "dump" /\ pc \in Loops /\ left > 0 /\ result = NoResult
  BY DEF DumpChunk, Loops, IInv, Shape
<1>2. Chunk \in Nat /\ Chunk <= left
  BY <1>1, LoopFacts, ChunkFacts
<1>3. /\ Bytes(at, Chunk) \in Seq(Byte) /\ Len(Bytes(at, Chunk)) = Chunk * SectorBytes
      /\ \A i \in 1..(Chunk * SectorBytes) : Bytes(at, Chunk)[i] = disk[at * SectorBytes + i - 1]
  BY <1>1, <1>2, ChunkRead
<1>4. /\ file' = [file EXCEPT !.bytes = @ \o Bytes(at, Chunk)] /\ UNCHANGED <<disk, fresh, pc, result>>
      /\ at' = at + Chunk
  BY DEF DumpChunk, Advance
<1>5. /\ Len(file'.bytes) = (at + Chunk - First) * SectorBytes
      /\ Len(file'.bytes) <= PartSectors * SectorBytes
      /\ \E q \in Nat : Len(file'.bytes) = q * SectorBytes
      /\ fresh' => \A k \in 1..Len(file'.bytes) : file'.bytes[k] = disk'[First * SectorBytes + k - 1]
  BY <1>1, <1>2, <1>3, <1>4, Appended
<1>6. file'.exists
  BY <1>1, <1>4 DEF DumpSoFar, IInv, TypeOK
<1>7. Len(file'.bytes) = (at' - First) * SectorBytes
  <2>1. at' = at + Chunk
    BY <1>4
  <2>2. Len(file'.bytes) = (at + Chunk - First) * SectorBytes
    BY <1>5
  <2> QED  BY <1>2, <2>1, <2>2, LoopFacts, <1>1, JobsAssumption
<1>8. result'.job # "dump"
  BY <1>1, <1>4 DEF NoResult
<1> QED  BY <1>5, <1>6, <1>7, <1>8 DEF DumpSoFar

\* Of an interrupted write of the file whole sectors have arrived.
LEMMA DumpStopsSoFar ==
  ASSUME ~TornWrites, IInv, DumpSoFar, DumpStops PROVE DumpSoFar'
<1>1. pc = "dump" /\ pc \in Loops /\ left > 0 /\ UNCHANGED <<disk, fresh>> /\ pc' = "idle"
      /\ result'.st = "error"
  BY DEF DumpStops, Loops, Return
<1>2. Chunk \in Nat /\ Chunk <= left /\ at \in Nat /\ left \in Nat
  BY <1>1, LoopFacts, ChunkFacts
<1>3. /\ Bytes(at, Chunk) \in Seq(Byte) /\ Len(Bytes(at, Chunk)) = Chunk * SectorBytes
      /\ \A i \in 1..(Chunk * SectorBytes) : Bytes(at, Chunk)[i] = disk[at * SectorBytes + i - 1]
  BY <1>1, <1>2, ChunkRead
<1>4. PICK k \in 0..(Chunk * SectorBytes) :
        k % SectorBytes = 0 /\ file' = [file EXCEPT !.bytes = @ \o SubSeq(Bytes(at, Chunk), 1, k)]
  BY DEF DumpStops
<1> DEFINE b == SubSeq(Bytes(at, Chunk), 1, k)   n == k \div SectorBytes
<1>5. SectorBytes \in Nat /\ SectorBytes >= 1 /\ Chunk * SectorBytes \in Nat
  BY <1>2, JobsAssumption, Scale
<1>6. n \in Nat /\ k = n * SectorBytes /\ n <= left
  <2>1. n \in Nat /\ k = n * SectorBytes
    BY <1>4, <1>5, Whole
  <2> HIDE DEF n
  <2>2. n * SectorBytes < (Chunk + 1) * SectorBytes
    BY <1>2, <1>5, <2>1, Scale
  <2>3. n < Chunk + 1
    BY <1>2, <1>5, <2>1, <2>2, BelowScaled
  <2> QED  BY <1>2, <2>1, <2>3
<1>7. /\ b \in Seq(Byte) /\ Len(b) = n * SectorBytes
      /\ \A i \in 1..(n * SectorBytes) : b[i] = disk[at * SectorBytes + i - 1]
  <2>1. \A i \in 1..k : Bytes(at, Chunk)[i] \in Byte
    BY <1>3, ElementOfSeq
  <2>2. b \in Seq(Byte) /\ Len(b) = k /\ \A i \in 1..k : b[i] = Bytes(at, Chunk)[1 + i - 1]
    BY <1>5, <2>1, SubSeqProperties
  <2> HIDE DEF b, n
  <2> QED  BY <1>3, <1>5, <1>6, <2>2
<1> HIDE DEF b, n
<1>8. file' = [file EXCEPT !.bytes = @ \o b]
  BY <1>4 DEF b
<1>9. /\ Len(file'.bytes) <= PartSectors * SectorBytes
      /\ \E q \in Nat : Len(file'.bytes) = q * SectorBytes
      /\ ~file'.exists => file'.bytes = <<>>
      /\ fresh' => \A j \in 1..Len(file'.bytes) : file'.bytes[j] = disk'[First * SectorBytes + j - 1]
  BY <1>1, <1>6, <1>7, <1>8, Appended
<1> QED  BY <1>1, <1>9 DEF DumpSoFar

\* The other jobs leave the file, and are told by fresh if they change the disk.
LEMMA OthersSoFar ==
  ASSUME IInv, DumpSoFar, file' = file, fresh' => fresh /\ disk' = disk, pc' # "dump",
         result'.job # "dump" \/ result'.st # "ok"
  PROVE  DumpSoFar'
  BY DEF DumpSoFar

LEMMA FinishSoFar == ASSUME IInv, DumpSoFar, Finish PROVE DumpSoFar'
<1>1. /\ UNCHANGED <<disk, file, fresh>> /\ pc' = "idle" /\ left = 0 /\ pc \in Loops
      /\ result'.job = IF pc \in {"zero", "native"} THEN "erase" ELSE pc
  BY DEF Finish, Return
<1>2. CASE pc = "dump"
  <2>1. at = Last + 1
    BY <1>1, <1>2 DEF IInv, TypeOK, Shape
  <2>2. Len(file.bytes) = PartSectors * SectorBytes
    BY <1>2, <2>1, JobsAssumption DEF DumpSoFar, PartSectors
  <2> QED  BY <1>1, <2>2 DEF DumpSoFar
<1>3. CASE pc # "dump"
  BY <1>1, <1>3, OthersSoFar DEF Loops
<1> QED  BY <1>2, <1>3

LEMMA NextSoFar ==
  ASSUME ~TornWrites, IInv, DumpSoFar, [Next]_vars PROVE DumpSoFar'
<1>1. CASE \E resume \in BOOLEAN : DumpStart(resume)
  BY <1>1, DumpStartSoFar
<1>2. CASE (\E i \in Images : WriteStart(i) \/ Verify(i)) \/ \E m \in {"zero", "native"} : EraseStart(m)
  <2>1. UNCHANGED <<disk, file, fresh>> /\ pc' # "dump" /\ result'.job # "dump"
    BY <1>2 DEF WriteStart, Verify, EraseStart, Begin, Return, NoResult
  <2> QED  BY <2>1, OthersSoFar
<1>3. CASE DumpChunk \/ DumpStops \/ Finish
  BY <1>3, DumpChunkSoFar, DumpStopsSoFar, FinishSoFar
<1>4. CASE WriteChunk \/ EraseChunk \/ ErasePanics \/ EraseNative \/ WriteStops \/ EraseStops
  <2>1. file' = file /\ (fresh' => fresh /\ disk' = disk)
    <3>1. CASE ErasePanics
      BY <3>1 DEF ErasePanics
    <3>2. CASE WriteChunk \/ EraseChunk \/ EraseNative
      BY <3>2 DEF WriteChunk, EraseChunk, EraseNative, Put
    <3>3. CASE WriteStops
      BY <3>3 DEF WriteStops, PutSome
    <3>4. CASE EraseStops
      BY <3>4 DEF EraseStops, PutSome
    <3> QED  BY <1>4, <3>1, <3>2, <3>3, <3>4
  <2>2. pc' # "dump"
    BY <1>4 DEF WriteChunk, EraseChunk, ErasePanics, EraseNative, WriteStops, EraseStops, Return,
                Advance, EraseAdvance
  <2>3. result'.job # "dump" \/ result'.st # "ok"
    <3>1. pc # "idle"
      BY <1>4 DEF WriteChunk, EraseChunk, ErasePanics, EraseNative, WriteStops, EraseStops
    <3>2. result = NoResult
      BY <3>1 DEF IInv, Shape
    <3> QED  BY <1>4, <3>2 DEF WriteChunk, EraseChunk, ErasePanics, EraseNative, WriteStops,
                               EraseStops, Return, Advance, EraseAdvance, NoResult
  <2> QED  BY <2>1, <2>2, <2>3, OthersSoFar
<1>5. CASE UNCHANGED vars
  BY <1>5 DEF vars, job, DumpSoFar
<1> QED  BY <1>1, <1>2, <1>3, <1>4, <1>5 DEF Next, Works, Stops

LEMMA SoFarExact == ASSUME IInv, DumpSoFar PROVE DumpExact
<1> SUFFICES ASSUME result.job = "dump", result.st = "ok", fresh
             PROVE  file.bytes = Bytes(First, PartSectors)
  BY DEF DumpExact
<1>1. /\ Bytes(First, PartSectors) \in Seq(Byte)
      /\ Len(Bytes(First, PartSectors)) = PartSectors * SectorBytes
      /\ \A i \in 1..(PartSectors * SectorBytes) :
           Bytes(First, PartSectors)[i] = disk[First * SectorBytes + i - 1]
  <2>1. disk \in [Addrs -> Byte] /\ First \in Nat /\ PartSectors \in Nat /\ First <= First
        /\ First + PartSectors <= Last + 1
    BY JobsAssumption DEF IInv, TypeOK, PartSectors
  <2> QED  BY <2>1, BytesFacts
<1>2. /\ file.bytes \in Seq(Byte) /\ Len(file.bytes) = PartSectors * SectorBytes
      /\ \A k \in 1..Len(file.bytes) : file.bytes[k] = disk[First * SectorBytes + k - 1]
  BY DEF DumpSoFar, IInv, TypeOK
<1> QED  BY <1>1, <1>2, SeqEqual

(***************************************************************************)
(* A DumpJob that returns Ok, however often and wherever the dumps before  *)
(* it were interrupted and resumed, has left the partition in the file, if *)
(* file writes stop at whole sectors and the partition was not changed     *)
(* since the file was begun.                                               *)
(***************************************************************************)
THEOREM DumpsAreExact == ASSUME ~TornWrites PROVE Spec => []DumpExact
<1>1. Init => IInv /\ DumpSoFar
  BY InitIInv, InitDumpSoFar
<1>2. IInv /\ DumpSoFar /\ [Next]_vars => (IInv /\ DumpSoFar)'
  BY NextIInv, NextSoFar
<1>3. IInv /\ DumpSoFar => DumpExact
  BY SoFarExact
<1> QED  BY <1>1, <1>2, <1>3, PTL DEF Spec
=============================================================================
