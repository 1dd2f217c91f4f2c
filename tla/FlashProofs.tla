---------------------------- MODULE FlashProofs ----------------------------
(***************************************************************************)
(* Theorems about FlashSpec: the jobs of Jobs with a FlashJob among them,  *)
(* for every plan, geometry, payload and image.                            *)
(***************************************************************************)
EXTENDS Flash, JobsProofs, NatRecursion

-----------------------------------------------------------------------------
(* Sparse images: what Expand yields, for every file, is bytes.  Expand is *)
(* defined by a recursion along the chunks of a file; that there is a      *)
(* function with that recursion is shown by building it up from the end of *)
(* the file.                                                               *)

Data   == Seq(0..255)
Result == [ok : BOOLEAN, out : Data]

LEMMA Le16Type ==
  ASSUME NEW b \in Data, NEW k \in Nat, k + 2 <= Len(b) PROVE Le16(b, k) \in Nat
<1>1. k + 1 \in 1..Len(b) /\ k + 2 \in 1..Len(b)
  BY LenProperties DEF Data
<1>2. b[k + 1] \in 0..255 /\ b[k + 2] \in 0..255
  BY <1>1, ElementOfSeq DEF Data
<1>3. ASSUME NEW x \in 0..255, NEW y \in 0..255 PROVE x + 256 * y \in Nat
  OBVIOUS
<1> QED  BY <1>2, <1>3 DEF Le16

LEMMA Le32Type ==
  ASSUME NEW b \in Data, NEW k \in Nat, k + 4 <= Len(b) PROVE Le32(b, k) \in Nat
<1>1. Len(b) \in Nat
  BY LenProperties DEF Data
<1>2. Le16(b, k) \in Nat /\ Le16(b, k + 2) \in Nat
  BY <1>1, Le16Type
<1> QED  BY <1>2 DEF Le32

LEMMA HeaderType ==
  ASSUME NEW b \in Data, IsSparse(b)
  PROVE  /\ Len(b) \in Nat /\ FileHeader(b) \in Nat /\ ChunkHeader(b) \in Nat
         /\ BlockSize(b) \in Nat
<1>1. Len(b) \in Nat /\ Len(b) >= 28
  BY LenProperties DEF Data, IsSparse, HeaderSize
<1> QED  BY <1>1, Le16Type, Le32Type DEF FileHeader, ChunkHeader, BlockSize

LEMMA DataOf ==
  ASSUME NEW n \in Nat, NEW f \in [1..n -> 0..255] PROVE f \in Data
  BY SeqDef DEF Data

LEMMA RepeatType ==
  ASSUME NEW w \in Data, Len(w) = 4, NEW n \in Nat PROVE Repeat(w, n) \in Data
<1>1. ASSUME NEW i \in 1..n PROVE w[((i - 1) % Len(w)) + 1] \in 0..255
  <2>1. i - 1 \in Nat
    OBVIOUS
  <2>2. ASSUME NEW j \in Nat PROVE (j % 4) + 1 \in 1..4
    OBVIOUS
  <2>3. ((i - 1) % 4) + 1 \in 1..4
    BY <2>1, <2>2
  <2> QED  BY <2>3, ElementOfSeq DEF Data
<1>2. Repeat(w, n) \in [1..n -> 0..255]
  BY <1>1 DEF Repeat
<1> QED  BY <1>2, DataOf

\* Where a chunk stands there is its header, and where it is whole also what
\* it stores.
HeadAt(b, pos) ==
  /\ pos + ChunkHeader(b) <= Len(b) /\ ChunkHeader(b) >= ChunkHeaderSize
  /\ TypeAt(b, pos) # "none"
WholeAt(b, pos) == HeadAt(b, pos) /\ Behind(b, pos) <= Len(b)

LEMMA ChunkHead ==
  ASSUME NEW b \in Data, IsSparse(b), NEW pos \in Nat, HeadAt(b, pos)
  PROVE  /\ SizeAt(b, pos) \in Nat /\ Behind(b, pos) \in Nat /\ Behind(b, pos) > pos
         /\ TypeAt(b, pos) \in {"raw", "fill", "hole", "crc"}
         /\ Stored(TypeAt(b, pos), SizeAt(b, pos)) \in Nat
<1> DEFINE hdr == ChunkHeader(b)   size == SizeAt(b, pos)   type == TypeAt(b, pos)
<1>1. Len(b) \in Nat /\ hdr \in Nat /\ hdr >= 12 /\ pos + hdr <= Len(b)
  BY HeaderType DEF HeadAt, ChunkHeaderSize
<1>2. size \in Nat
  BY <1>1, Le32Type DEF SizeAt
<1>3. type \in {"raw", "fill", "hole", "crc"}
  BY DEF HeadAt, TypeAt, ChunkType
<1>4. Stored(type, size) \in Nat
  BY <1>2, <1>3 DEF Stored
<1>5. Behind(b, pos) = pos + hdr + Stored(type, size)
  BY DEF Behind
<1> HIDE DEF hdr, size, type
<1>6. Behind(b, pos) \in Nat /\ Behind(b, pos) > pos
  BY <1>1, <1>4, <1>5
<1> QED  BY <1>2, <1>3, <1>4, <1>6 DEF size, type

LEMMA WholeChunk ==
  ASSUME NEW b \in Data, IsSparse(b), NEW pos \in Nat, WholeAt(b, pos)
  PROVE  Body(TypeAt(b, pos), b, pos + ChunkHeader(b), SizeAt(b, pos)) \in Data
<1> DEFINE hdr == ChunkHeader(b)   size == SizeAt(b, pos)   type == TypeAt(b, pos)
<1>1. Len(b) \in Nat /\ hdr \in Nat /\ hdr >= 12 /\ pos + hdr <= Len(b) /\ BlockSize(b) \in Nat
  BY HeaderType DEF WholeAt, HeadAt, ChunkHeaderSize
<1>2. size \in Nat /\ Stored(type, size) \in Nat
  BY ChunkHead DEF WholeAt
<1>3. type \in {"raw", "fill", "hole", "crc"}
  BY ChunkHead DEF WholeAt
<1>5. Behind(b, pos) = pos + hdr + Stored(type, size)
  BY DEF Behind
<1>6. pos + hdr + Stored(type, size) <= Len(b)
  BY <1>5 DEF WholeAt
<1> HIDE DEF hdr, size, type
<1>7. Body(type, b, pos + hdr, size) \in Data
  <2>1. CASE type = "raw"
    <3>1. Stored(type, size) = size
      BY <2>1 DEF Stored
    <3>2. pos + hdr + 1 \in Int /\ pos + hdr + size \in Int /\ pos + hdr + size <= Len(b)
      BY <1>1, <1>2, <1>6, <3>1
    <3>3. ASSUME NEW i \in pos + hdr + 1 .. pos + hdr + size PROVE b[i] \in 0..255
      <4>1. i \in 1..Len(b)
        BY <1>1, <1>2, <3>2
      <4> QED  BY <4>1, ElementOfSeq DEF Data
    <3>4. SubSeq(b, pos + hdr + 1, pos + hdr + size) \in Seq(0..255)
      BY <3>2, <3>3, SubSeqProperties
    <3> QED  BY <2>1, <3>4 DEF Body, Data
  <2>2. CASE type = "fill"
    <3>1. Stored(type, size) = 4
      BY <2>2 DEF Stored
    <3>2. pos + hdr + 1 \in Int /\ pos + hdr + 4 \in Int /\ pos + hdr + 4 <= Len(b)
      BY <1>1, <1>2, <1>6, <3>1
    <3>3. ASSUME NEW i \in pos + hdr + 1 .. pos + hdr + 4 PROVE b[i] \in 0..255
      <4>1. i \in 1..Len(b)
        BY <1>1, <1>2, <3>2
      <4> QED  BY <4>1, ElementOfSeq DEF Data
    <3>4. /\ SubSeq(b, pos + hdr + 1, pos + hdr + 4) \in Seq(0..255)
          /\ Len(SubSeq(b, pos + hdr + 1, pos + hdr + 4)) = 4
      <4>1. PICK lo \in Int, hi \in Int :
              lo = pos + hdr + 1 /\ hi = pos + hdr + 4 /\ lo <= hi /\ hi - lo + 1 = 4
        BY <1>1, <1>2, <3>2
      <4>2. \A i \in lo..hi : b[i] \in 0..255
        BY <3>3, <4>1
      <4>3. SubSeq(b, lo, hi) \in Seq(0..255)
            /\ Len(SubSeq(b, lo, hi)) = IF lo <= hi THEN hi - lo + 1 ELSE 0
        BY <4>2, SubSeqProperties
      <4> QED  BY <4>1, <4>3
    <3>5. (size \div 4) * BlockSize(b) \in Nat
      BY <1>1, <1>2
    <3>6. Repeat(SubSeq(b, pos + hdr + 1, pos + hdr + 4), (size \div 4) * BlockSize(b)) \in Data
      BY <3>4, <3>5, RepeatType DEF Data
    <3> QED  BY <2>2, <3>6 DEF Body
  <2>3. CASE type = "hole"
    <3>1. Zero(size) \in Data
      BY <1>2, DataOf DEF Zero
    <3> QED  BY <2>3, <3>1 DEF Body
  <2>4. CASE type = "crc"
    BY <2>4, EmptySeq DEF Body, Data
  <2> QED  BY <1>3, <2>1, <2>2, <2>3, <2>4
<1> QED  BY <1>7 DEF hdr, size, type

LEMMA FromChunkType ==
  ASSUME NEW b \in Data, IsSparse(b), NEW pos \in Nat, NEW rest,
         WholeAt(b, pos) => rest \in Result
  PROVE  FromChunk(b, pos, rest) \in Result
<1>1. Nothing \in Result /\ Bad \in Result
  BY EmptySeq DEF Nothing, Bad, Result, Data
<1>2. Len(b) \in Nat /\ ChunkHeader(b) \in Nat
  BY HeaderType
<1>3. CASE WholeAt(b, pos)
  <2>1. /\ Body(TypeAt(b, pos), b, pos + ChunkHeader(b), SizeAt(b, pos)) \in Data
        /\ rest \in Result /\ Behind(b, pos) \in Nat
    BY <1>3, WholeChunk, ChunkHead DEF WholeAt
  <2>2. Body(TypeAt(b, pos), b, pos + ChunkHeader(b), SizeAt(b, pos)) \o rest.out \in Data
    BY <2>1, ConcatProperties DEF Result, Data
  <2>3. FromChunk(b, pos, rest) =
          IF ~rest.ok THEN Bad
          ELSE [ok  |-> TRUE,
                out |-> Body(TypeAt(b, pos), b, pos + ChunkHeader(b), SizeAt(b, pos)) \o rest.out]
    BY <1>2, <1>3, <2>1 DEF FromChunk, WholeAt, HeadAt, ChunkHeaderSize
  <2> QED  BY <1>1, <2>2, <2>3 DEF Result
<1>4. CASE ~WholeAt(b, pos)
  <2>1. CASE HeadAt(b, pos)
    <3>1. Behind(b, pos) \in Nat
      BY <2>1, ChunkHead
    <3>2. Behind(b, pos) > Len(b)
      BY <1>2, <1>4, <2>1, <3>1 DEF WholeAt
    <3> QED  BY <1>1, <1>2, <2>1, <3>2 DEF FromChunk, HeadAt, ChunkHeaderSize
  <2>2. CASE ~HeadAt(b, pos)
    BY <1>1, <1>2, <2>2 DEF FromChunk, HeadAt, ChunkHeaderSize
  <2> QED  BY <2>1, <2>2
<1> QED  BY <1>3, <1>4

-----------------------------------------------------------------------------
(* All chunks *)

\* The recursion of Expand.
Recurs(b, f) == f = [pos \in Nat |-> FromChunk(b, pos, f[Behind(b, pos)])]

\* For pos in the last m bytes or behind them it holds of some function.
FromEnd(b, m, f) ==
  \A pos \in Nat : pos + m > Len(b) => f[pos] = FromChunk(b, pos, f[Behind(b, pos)])

\* No chunk depends on what is in front of it.
LEMMA OnlyBehind ==
  ASSUME NEW b \in Data, IsSparse(b), NEW pos \in Nat, NEW f, NEW g,
         \A q \in Nat : q > pos => f[q] = g[q]
  PROVE  FromChunk(b, pos, f[Behind(b, pos)]) = FromChunk(b, pos, g[Behind(b, pos)])
<1>1. Len(b) \in Nat /\ ChunkHeader(b) \in Nat
  BY HeaderType
<1>2. CASE HeadAt(b, pos)
  <2>1. Behind(b, pos) \in Nat /\ Behind(b, pos) > pos
    BY <1>2, ChunkHead
  <2> QED  BY <2>1
<1>3. CASE ~HeadAt(b, pos)
  BY <1>1, <1>3 DEF FromChunk, HeadAt, ChunkHeaderSize
<1> QED  BY <1>2, <1>3

\* What is read behind the end of the file.
AtEnd(b) == IF ChunkHeader(b) > 0 THEN Nothing ELSE Bad

LEMMA BehindTheEnd ==
  ASSUME NEW b \in Data, IsSparse(b), NEW pos \in Nat, pos > Len(b), NEW rest
  PROVE  FromChunk(b, pos, rest) = AtEnd(b) /\ AtEnd(b) \in Result
<1>1. Len(b) \in Nat /\ ChunkHeader(b) \in Nat
  BY HeaderType
<1>2. pos + ChunkHeader(b) > Len(b)
  BY <1>1
<1>3. AtEnd(b) \in Result
  BY EmptySeq DEF AtEnd, Nothing, Bad, Result, Data
<1> QED  BY <1>1, <1>2, <1>3 DEF FromChunk, AtEnd, ChunkHeaderSize

LEMMA RecursionExists ==
  ASSUME NEW b \in Data, IsSparse(b)
  PROVE  \E f : Recurs(b, f)
<1> DEFINE S == {m \in Nat : \E f \in [Nat -> Result] : FromEnd(b, m, f)}
<1>1. Len(b) \in Nat /\ ChunkHeader(b) \in Nat
  BY HeaderType
<1>2. 0 \in S
  <2> DEFINE f == [pos \in Nat |-> AtEnd(b)]
  <2>1. f \in [Nat -> Result]
    <3>1. Len(b) + 1 \in Nat /\ Len(b) + 1 > Len(b)
      BY <1>1
    <3> QED  BY <3>1, BehindTheEnd
  <2>2. FromEnd(b, 0, f)
    <3>1. ASSUME NEW pos \in Nat, pos + 0 > Len(b)
          PROVE  f[pos] = FromChunk(b, pos, f[Behind(b, pos)])
      <4>1. pos > Len(b)
        BY <1>1, <3>1
      <4> QED  BY <4>1, BehindTheEnd
    <3> QED  BY <3>1 DEF FromEnd
  <2> HIDE DEF f
  <2> QED  BY <2>1, <2>2
<1>3. ASSUME NEW m \in Nat, m \in S PROVE m + 1 \in S
  <2>1. PICK f \in [Nat -> Result] : FromEnd(b, m, f)
    BY <1>3
  <2>2. CASE m > Len(b)
    <3>1. FromEnd(b, m + 1, f)
      BY <1>1, <2>1, <2>2 DEF FromEnd
    <3> QED  BY <3>1
  <2>3. CASE m <= Len(b)
    <3>1. PICK p \in Nat : p = Len(b) - m
      BY <1>1, <2>3
    <3> DEFINE v == FromChunk(b, p, f[Behind(b, p)])
               g == [f EXCEPT ![p] = v]
    <3>2. v \in Result
      <4>1. WholeAt(b, p) => f[Behind(b, p)] \in Result
        BY ChunkHead DEF WholeAt
      <4> QED  BY <4>1, FromChunkType
    <3> HIDE DEF v
    <3>3. g \in [Nat -> Result] /\ g[p] = v /\ \A q \in Nat : q # p => g[q] = f[q]
      BY <3>2
    <3> HIDE DEF g
    <3>4. ASSUME NEW pos \in Nat, pos + (m + 1) > Len(b)
          PROVE  g[pos] = FromChunk(b, pos, g[Behind(b, pos)])
      <4>1. pos >= p /\ \A q \in Nat : q > pos => q # p
        BY <1>1, <3>1, <3>4
      <4>2. FromChunk(b, pos, f[Behind(b, pos)]) = FromChunk(b, pos, g[Behind(b, pos)])
        BY <3>3, <4>1, OnlyBehind
      <4>3. CASE pos = p
        BY <3>3, <4>2, <4>3 DEF v
      <4>4. CASE pos # p
        <5>1. pos + m > Len(b)
          BY <1>1, <3>1, <4>1, <4>4
        <5> QED  BY <2>1, <3>3, <4>2, <4>4, <5>1 DEF FromEnd
      <4> QED  BY <4>3, <4>4
    <3>5. FromEnd(b, m + 1, g)
      BY <3>4 DEF FromEnd
    <3> QED  BY <3>3, <3>5
  <2> QED  BY <1>1, <2>2, <2>3
<1>4. Len(b) + 1 \in S
  <2> HIDE DEF S
  <2>1. Nat \subseteq S
    BY <1>2, <1>3, Induction
  <2> QED  BY <1>1, <2>1
<1>5. PICK f \in [Nat -> Result] : FromEnd(b, Len(b) + 1, f)
  BY <1>4
<1>6. \A pos \in Nat : f[pos] = FromChunk(b, pos, f[Behind(b, pos)])
  BY <1>1, <1>5 DEF FromEnd
<1>7. Recurs(b, f)
  BY <1>6 DEF Recurs
<1> QED  BY <1>7

LEMMA RecursionType ==
  ASSUME NEW b \in Data, IsSparse(b), NEW f, Recurs(b, f)
  PROVE  f \in [Nat -> Result]
<1> DEFINE S == {m \in Nat : \A pos \in Nat : pos + m > Len(b) => f[pos] \in Result}
<1>1. Len(b) \in Nat /\ ChunkHeader(b) \in Nat
  BY HeaderType
<1>2. \A pos \in Nat : f[pos] = FromChunk(b, pos, f[Behind(b, pos)])
  BY DEF Recurs
<1>3. 0 \in S
  <2>1. ASSUME NEW pos \in Nat, pos + 0 > Len(b) PROVE f[pos] \in Result
    <3>1. pos > Len(b)
      BY <1>1, <2>1
    <3> QED  BY <1>2, <3>1, BehindTheEnd
  <2> QED  BY <2>1
<1>4. ASSUME NEW m \in Nat, m \in S PROVE m + 1 \in S
  <2>1. ASSUME NEW pos \in Nat, pos + (m + 1) > Len(b) PROVE f[pos] \in Result
    <3>1. WholeAt(b, pos) => f[Behind(b, pos)] \in Result
      <4> SUFFICES ASSUME WholeAt(b, pos) PROVE f[Behind(b, pos)] \in Result
        OBVIOUS
      <4>1. Behind(b, pos) \in Nat /\ Behind(b, pos) > pos
        BY ChunkHead DEF WholeAt
      <4>2. Behind(b, pos) + m > Len(b)
        BY <1>1, <2>1, <4>1
      <4> QED  BY <1>4, <4>1, <4>2
    <3>2. FromChunk(b, pos, f[Behind(b, pos)]) \in Result
      BY <3>1, FromChunkType
    <3> QED  BY <1>2, <3>2
  <2> QED  BY <2>1
<1>5. Len(b) + 1 \in S
  <2> HIDE DEF S
  <2>1. Nat \subseteq S
    BY <1>3, <1>4, Induction
  <2> QED  BY <1>1, <2>1
<1>6. \A pos \in Nat : f[pos] \in Result
  BY <1>1, <1>5
<1>7. DOMAIN f = Nat
  BY DEF Recurs
<1>8. f = [pos \in Nat |-> f[pos]]
  BY <1>7 DEF Recurs
<1> QED  BY <1>6, <1>8

(***************************************************************************)
(* Whatever a file holds, expanding it (expand_to_vec) either fails or     *)
(* puts out bytes, also where its last chunk is cut short or the sizes in  *)
(* its header are nonsense.                                                *)
(***************************************************************************)
THEOREM ExpandsToBytes ==
  ASSUME NEW b \in Seq(0..255) PROVE Expand(b) \in [ok : BOOLEAN, out : Seq(0..255)]
<1> DEFINE F == CHOOSE f : f = [pos \in Nat |-> FromChunk(b, pos, f[Behind(b, pos)])]
<1>1. Expand(b) = IF IsSparse(b) THEN F[FileHeader(b)] ELSE Bad
  BY DEF Expand
<1>2. b \in Data /\ Result = [ok : BOOLEAN, out : Seq(0..255)]
  BY DEF Data, Result
<1>3. CASE IsSparse(b)
  <2>1. \E f : f = [pos \in Nat |-> FromChunk(b, pos, f[Behind(b, pos)])]
    BY <1>2, <1>3, RecursionExists DEF Recurs
  <2>2. F = [pos \in Nat |-> FromChunk(b, pos, F[Behind(b, pos)])]
    BY <2>1
  <2>3. F \in [Nat -> Result]
    <3> HIDE DEF F
    <3>1. Recurs(b, F)
      BY <2>2 DEF Recurs
    <3> QED  BY <1>2, <1>3, <3>1, RecursionType
  <2>4. FileHeader(b) \in Nat
    BY <1>2, <1>3, HeaderType
  <2> HIDE DEF F
  <2> QED  BY <1>1, <1>2, <1>3, <2>3, <2>4
<1>4. CASE ~IsSparse(b)
  BY <1>1, <1>4, EmptySeq DEF Bad
<1> QED  BY <1>3, <1>4

-----------------------------------------------------------------------------
(* The inductive invariant *)

\* The tasks and patches of the plan, and how many of them have been taken up.
All     == Parsed(flash.plan.tasks)
Patches == Parsed(flash.plan.patches)
Taken   == Len(All) - Len(flash.tasks)
Tried   == Len(Patches) - Len(flash.patches)
Cur     == All[Taken]

InTask == FlashLoops \ {"flash"}

FlashTyped ==
  flash \in [plan : FlashPlan, tasks : Seq(Task), patches : Seq(PatchEntry), origin : Nat,
             base : [Addrs -> Byte], skipped : BOOLEAN]

\* What the job has before it are the last of the tasks and of the patches; no
\* patch is tried before the last task is done.
Ahead ==
  pc \in FlashLoops =>
    /\ Len(flash.tasks) <= Len(All) /\ Len(flash.patches) <= Len(Patches)
    /\ \A k \in 1..Len(flash.tasks) : flash.tasks[k] = All[Taken + k]
    /\ \A k \in 1..Len(flash.patches) : flash.patches[k] = Patches[Tried + k]
    /\ pc \in InTask \/ flash.tasks # <<>> \/ flash.plan.patch # "good" => Tried = 0

\* Where the loop of a task is in the run of the task.
Within ==
  pc \in InTask =>
    /\ Taken >= 1 /\ flash.origin = Cur.start
    /\ Cur.start <= at /\ at + left = Cur.start + TaskSectors(Cur)
    /\ IF pc = "flash write"
       THEN Cur.kind = "program" /\ Cur.file = "there" /\ src = Source(Cur)
       ELSE Cur.kind = "erase"

\* v is what the first n tasks, and after them the first m patches, say of a.
ByTasks(tasks, n, base, a, v) ==
  \/ \E k \in 1..n : /\ a \in TaskSpan(tasks[k]) /\ v = TaskByte(tasks[k], a)
                     /\ \A j \in (k + 1)..n : a \notin TaskSpan(tasks[j])
  \/ (\A j \in 1..n : a \notin TaskSpan(tasks[j])) /\ v = base[a]
ByPatches(patches, m, tasks, n, base, a, v) ==
  \/ \E k \in 1..m : /\ a \in PatchSpan(patches[k]) /\ v = PatchByte(patches[k], a)
                     /\ \A j \in (k + 1)..m : a \notin PatchSpan(patches[j])
  \/ (\A j \in 1..m : a \notin PatchSpan(patches[j])) /\ ByTasks(tasks, n, base, a, v)

\* The disk is what the tasks and patches taken up so far have made of it, the
\* current one as far as its loop has come.
Made ==
  /\ pc = "flash" /\ ~flash.skipped =>
       \A a \in Addrs : ByPatches(Patches, Tried, All, Taken, flash.base, a, disk[a])
  /\ pc \in InTask /\ ~flash.skipped =>
       \A a \in Addrs : IF a >= Cur.start * SectorBytes /\ a < at * SectorBytes
                        THEN disk[a] = TaskByte(Cur, a)
                        ELSE ByTasks(All, Taken - 1, flash.base, a, disk[a])

FInv == IInv /\ FlashTyped /\ Ahead /\ Within /\ Made /\ FlashExact

-----------------------------------------------------------------------------
(* The entries of a plan *)

\* What the files of a plan say are entries of them, in their types.
LEMMA ParsedFacts ==
  ASSUME NEW E, NEW e \in Seq(E)
  PROVE  /\ Parsed(e) \in Seq(E)
         /\ \A k \in 1..Len(Parsed(e)) : \E j \in DOMAIN e : Parsed(e)[k] = e[j]
<1> DEFINE R == {e[j] : j \in DOMAIN e}
           n == Len(e)
           V == Seq(R)
           F == CHOOSE f : f = [k \in 0..n |->
                  IF k = 0 THEN <<>>
                  ELSE IF e[k].parses THEN Append(f[k - 1], e[k]) ELSE f[k - 1]]
<1>1. n \in Nat /\ DOMAIN e = 1..n /\ R \subseteq E /\ \A k \in 1..n : e[k] \in R
  BY LenProperties, ElementOfSeq
<1>2. Parsed(e) = F[n]
  BY DEF Parsed
<1> HIDE DEF R
<1>3. \A v \in V, x \in R : Append(v, x) \in V
  BY AppendProperties
<1>4. <<>> \in V
  BY EmptySeq
<1>5. \E f : f = [k \in 0..n |->
                  IF k = 0 THEN <<>>
                  ELSE IF e[k].parses THEN Append(f[k - 1], e[k]) ELSE f[k - 1]]
  <2> DEFINE g == [x \in (1..n) \X V |-> IF e[x[1]].parses THEN Append(x[2], e[x[1]]) ELSE x[2]]
  <2>1. g \in [(1..n) \X V -> V]
    <3>1. \A x \in (1..n) \X V : x[1] \in 1..n /\ x[2] \in V
      OBVIOUS
    <3> HIDE DEF V, n
    <3> QED  BY <1>1, <1>3, <3>1
  <2>2. \A k \in 1..n, v \in V : g[<<k, v>>] = IF e[k].parses THEN Append(v, e[k]) ELSE v
    OBVIOUS
  <2> HIDE DEF g, V
  <2>3. PICK f \in [0..n -> V] : f[0] = <<>> /\ \A k \in 1..n : f[k] = g[<<k, f[k - 1]>>]
    <3>1. n \in Nat
      BY <1>1
    <3> HIDE DEF n
    <3>2. Goes(V, <<>>, n, g)
      BY <1>4, <2>1, <3>1, Recursion
    <3> QED  BY <3>2 DEF Goes
  <2>4. ASSUME NEW k \in 0..n
        PROVE  f[k] = IF k = 0 THEN <<>>
                      ELSE IF e[k].parses THEN Append(f[k - 1], e[k]) ELSE f[k - 1]
    <3>1. CASE k = 0
      BY <2>3, <3>1
    <3>2. CASE k # 0
      <4>1. k \in 1..n /\ k - 1 \in 0..n
        BY <1>1, <3>2
      <4> QED  BY <2>2, <2>3, <3>2, <4>1
    <3> QED  BY <3>1, <3>2
  <2>5. f = [k \in 0..n |->
                  IF k = 0 THEN <<>>
                  ELSE IF e[k].parses THEN Append(f[k - 1], e[k]) ELSE f[k - 1]]
    BY <2>4
  <2> QED  BY <2>5
<1>6. F = [k \in 0..n |->
                  IF k = 0 THEN <<>>
                  ELSE IF e[k].parses THEN Append(F[k - 1], e[k]) ELSE F[k - 1]]
  BY <1>5
<1> HIDE DEF F, V
<1> DEFINE S == {k \in Nat : k <= n => F[k] \in V}
<1>7. 0 \in S
  BY <1>1, <1>4, <1>6
<1>8. ASSUME NEW k \in Nat, k \in S PROVE k + 1 \in S
  <2> SUFFICES ASSUME k + 1 <= n PROVE F[k + 1] \in V
    OBVIOUS
  <2>1. F[k] \in V /\ k + 1 \in 1..n /\ k + 1 \in 0..n /\ (k + 1) - 1 = k /\ k + 1 # 0
    BY <1>1, <1>8
  <2>2. F[k + 1] = IF e[k + 1].parses THEN Append(F[k], e[k + 1]) ELSE F[k]
    BY <1>6, <2>1
  <2> QED  BY <1>1, <1>3, <2>1, <2>2
<1>9. F[n] \in V
  <2>1. Nat \subseteq S
    <3> HIDE DEF S
    <3> QED  BY <1>7, <1>8, Induction
  <2> QED  BY <1>1, <2>1
<1>10. ASSUME NEW k \in 1..Len(F[n]) PROVE F[n][k] \in R
  BY <1>9, ElementOfSeq DEF V
<1>11. F[n] \in Seq(E)
  <2>1. Seq(R) \subseteq Seq(E)
    BY <1>1, SeqDef
  <2> QED  BY <1>9, <2>1 DEF V
<1> QED  BY <1>2, <1>10, <1>11 DEF R

LEMMA PlanTypes == Plans \subseteq FlashPlan /\ NoPlan \in FlashPlan
  BY FlashAssumption, EmptySeq DEF FlashPlan, NoPlan

\* The bytes of a patch.
LEMMA PatchBytesType ==
  ASSUME NEW p \in PatchEntry, Resolves(p), p.size <= 8
  PROVE  \A i \in 1..p.size : PatchBytes(p)[i] \in Byte
<1> DEFINE v == PatchValue(p.value)
           F == CHOOSE f : f = [k \in 0..7 |-> IF k = 0 THEN v ELSE f[k - 1] \div 256]
<1>1. v \in Nat
  <2>1. Last \in Nat /\ SectorBytes \in Nat
    BY JobsAssumption
  <2>2. Last * SectorBytes \in Nat
    BY <2>1, Scale
  <2>3. Last + 1 \in Nat /\ Last * SectorBytes + SectorBytes \in Nat
    BY <2>1, <2>2
  <2> HIDE DEF F
  <2> QED  BY <2>3 DEF PatchValue
<1>2. PatchBytes(p) = [i \in 1..p.size |-> F[i - 1] % 256]
  BY DEF PatchBytes
<1> HIDE DEF v
<1>3. ASSUME NEW w \in Nat PROVE w \div 256 \in Nat /\ w % 256 \in 0..255
  OBVIOUS
<1>4. \E f : f = [k \in 0..7 |-> IF k = 0 THEN v ELSE f[k - 1] \div 256]
  <2> DEFINE g == [x \in (1..7) \X Nat |-> x[2] \div 256]
  <2>1. g \in [(1..7) \X Nat -> Nat]
    BY <1>3
  <2>2. \A k \in 1..7, w \in Nat : g[<<k, w>>] = w \div 256
    OBVIOUS
  <2> HIDE DEF g
  <2>3. Goes(Nat, v, 7, g)
    BY <1>1, <2>1, Recursion
  <2>4. PICK f \in [0..7 -> Nat] : f[0] = v /\ \A k \in 1..7 : f[k] = g[<<k, f[k - 1]>>]
    BY <2>3 DEF Goes
  <2>5. ASSUME NEW k \in 0..7 PROVE f[k] = IF k = 0 THEN v ELSE f[k - 1] \div 256
    <3>1. CASE k # 0
      <4>1. k \in 1..7 /\ k - 1 \in 0..7
        BY <3>1
      <4> QED  BY <2>2, <2>4, <3>1, <4>1
    <3> QED  BY <2>4, <3>1
  <2>6. f = [k \in 0..7 |-> IF k = 0 THEN v ELSE f[k - 1] \div 256]
    BY <2>5
  <2> QED  BY <2>6
<1>5. F = [k \in 0..7 |-> IF k = 0 THEN v ELSE F[k - 1] \div 256]
  BY <1>4
<1> HIDE DEF F
<1> DEFINE S == {k \in Nat : k <= 7 => F[k] \in Nat}
<1>6. 0 \in S
  BY <1>1, <1>5
<1>7. ASSUME NEW k \in Nat, k \in S PROVE k + 1 \in S
  <2> SUFFICES ASSUME k + 1 <= 7 PROVE F[k + 1] \in Nat
    OBVIOUS
  <2>1. F[k] \in Nat /\ k + 1 \in 0..7 /\ (k + 1) - 1 = k /\ k + 1 # 0
    BY <1>7
  <2>2. F[k + 1] = F[k] \div 256
    BY <1>5, <2>1
  <2> QED  BY <1>3, <2>1, <2>2
<1>8. Nat \subseteq S
  <2> HIDE DEF S
  <2> QED  BY <1>6, <1>7, Induction
<1>9. ASSUME NEW i \in 1..p.size PROVE F[i - 1] % 256 \in Byte
  <2>1. p.size \in Nat
    BY DEF PatchEntry
  <2>2. i - 1 \in Nat /\ i - 1 <= 7
    BY <2>1
  <2>3. F[i - 1] \in Nat
    BY <1>8, <2>2
  <2> QED  BY <1>3, <2>3 DEF Byte
<1> QED  BY <1>2, <1>9

LEMMA SourceFacts ==
  ASSUME NEW t \in Task, Readable(t)
  PROVE  Source(t) \in Seq(Byte) /\ TaskSectors(t) \in Nat
<1>1. t.img.bytes \in Seq(Byte) /\ t.n \in Nat
  BY DEF Task, Image
<1>2. Source(t) \in Seq(Byte)
  BY <1>1, ExpandsToBytes DEF Source, Byte
<1> QED  BY <1>1, <1>2, SectorsForFacts, LenProperties DEF TaskSectors

-----------------------------------------------------------------------------
(* What a write changes, wherever on the disk it is *)

\* a is in the n sectors from s.
Touches(s, n, a) == a >= s * SectorBytes /\ a < (s + n) * SectorBytes

LEMMA PutEffect ==
  ASSUME disk \in [Addrs -> Byte], fresh \in BOOLEAN, NEW s \in Nat, NEW n \in Nat, NEW b,
         \A a \in Addrs : Touches(s, n, a) => b[a - s * SectorBytes + 1] \in Byte, Put(s, n, b)
  PROVE  /\ disk' \in [Addrs -> Byte] /\ fresh' \in BOOLEAN /\ (fresh' => fresh /\ disk' = disk)
         /\ \A a \in Addrs :
              disk'[a] = IF Touches(s, n, a) THEN b[a - s * SectorBytes + 1] ELSE disk[a]
  BY DEF Put, Touches

LEMMA SectorOf ==
  ASSUME NEW a \in Nat, NEW s \in Nat
  PROVE  /\ Touches(s, 1, a) <=> a \div SectorBytes = s
         /\ Touches(s, 1, a) => a - s * SectorBytes = a % SectorBytes
         /\ a \div SectorBytes \in Nat /\ a % SectorBytes \in 0..(SectorBytes - 1)
<1> DEFINE d == SectorBytes   q == a \div SectorBytes   r == a % SectorBytes
<1>1. d \in Nat /\ d >= 1
  BY JobsAssumption
<1>2. q \in Nat /\ r \in 0..(d - 1) /\ q * d <= a /\ a < (q + 1) * d /\ a = q * d + r
  BY <1>1, Whole
<1>3. Touches(s, 1, a) <=> a >= s * d /\ a < (s + 1) * d
  BY DEF Touches
<1> HIDE DEF q, d, r
<1>4. s * d \in Nat /\ (s + 1) * d \in Nat /\ q * d \in Nat /\ (q + 1) * d \in Nat
  BY <1>1, <1>2, Scale
<1>5. ASSUME Touches(s, 1, a) PROVE q = s
  <2>1. s * d < (q + 1) * d /\ q * d < (s + 1) * d
    BY <1>2, <1>3, <1>4, <1>5
  <2>2. s < q + 1 /\ q < s + 1
    BY <1>1, <1>2, <2>1, BelowScaled
  <2> QED  BY <1>2, <2>2
<1>6. q = s => Touches(s, 1, a) /\ a - s * d = r
  BY <1>2, <1>3, <1>4
<1> QED  BY <1>2, <1>5, <1>6 DEF q, d, r

LEMMA PutSomeEffect ==
  ASSUME disk \in [Addrs -> Byte], fresh \in BOOLEAN, NEW s \in Nat, NEW n \in Nat, NEW b,
         \A a \in Addrs : Touches(s, n, a) => b[a - s * SectorBytes + 1] \in Byte, PutSome(s, n, b)
  PROVE  /\ disk' \in [Addrs -> Byte] /\ fresh' \in BOOLEAN /\ (fresh' => fresh /\ disk' = disk)
         /\ \A a \in Addrs : \/ disk'[a] = disk[a]
                             \/ Touches(s, n, a) /\ disk'[a] = b[a - s * SectorBytes + 1]
<1>1. PICK done \in SUBSET (s..(s + n - 1)) :
        disk' = [a \in Addrs |->
          IF a \div SectorBytes \in done THEN b[a - s * SectorBytes + 1] ELSE disk[a]]
  BY DEF PutSome
<1>2. SectorBytes \in Nat /\ SectorBytes >= 1
  BY JobsAssumption
<1>3. ASSUME NEW a \in Addrs, a \div SectorBytes \in done PROVE Touches(s, n, a)
  <2> DEFINE q == a \div SectorBytes
  <2>1. a \in Nat
    BY DEF Addrs
  <2>2. q \in Nat /\ q * SectorBytes <= a /\ a < (q + 1) * SectorBytes
    BY <1>2, <2>1, Whole
  <2>3. s <= q /\ q + 1 <= s + n
    BY <1>3, <2>2
  <2> HIDE DEF q
  <2>4. s * SectorBytes <= q * SectorBytes /\ (q + 1) * SectorBytes <= (s + n) * SectorBytes
        /\ s * SectorBytes \in Nat /\ (s + n) * SectorBytes \in Nat
        /\ q * SectorBytes \in Nat /\ (q + 1) * SectorBytes \in Nat
    BY <1>2, <2>2, <2>3, Scale
  <2> QED  BY <2>1, <2>2, <2>4 DEF Touches
<1>4. disk' \in [Addrs -> Byte]
  BY <1>1, <1>3
<1>5. fresh' = (fresh /\ disk' = disk)
  BY DEF PutSome
<1> QED  BY <1>1, <1>3, <1>4, <1>5

-----------------------------------------------------------------------------
(* Steps of the flash and the invariant of the other jobs *)

FlashResult == {[job |-> "flash", st |-> st, img |-> i] : st \in Verdicts, i \in Image}

LEMMA FlashStepIInv ==
  ASSUME TypeOK, UNCHANGED <<payload, file>>, njobs' \in 0..MaxJobs,
         disk' \in [Addrs -> Byte], fresh' \in BOOLEAN,
         img' \in Image, src' \in Seq(Byte), at' \in Nat, left' \in Nat,
         pc' \in FlashLoops \cup {"idle"}, pc' \in FlashLoops => result' = NoResult,
         result' = NoResult \/ result' \in FlashResult
  PROVE  IInv'
<1>1. pc' \notin Loops
  BY DEF FlashLoops, Loops
<1>2. result' \in [job : {"none", "dump", "write", "erase", "verify", "flash"},
                   st : {"none", "ok", "error", "panic", "verified", "mismatch"}, img : Image]
  BY NoImageType DEF NoResult, FlashResult, Verdicts
<1>3. TypeOK'
  BY <1>1, <1>2 DEF TypeOK
<1>4. Shape' /\ Written' /\ Erased'
  BY <1>1 DEF Shape, Written, Erased, FlashLoops, Loops
<1>5. WriteExact' /\ EraseExact'
  BY DEF WriteExact, EraseExact, NoResult, FlashResult
<1> QED  BY <1>3, <1>4, <1>5 DEF IInv, Done

LEMMA FlashReturnIInv ==
  ASSUME TypeOK, UNCHANGED <<payload, file>>, njobs' \in 0..MaxJobs,
         disk' \in [Addrs -> Byte], fresh' \in BOOLEAN,
         NEW st \in Verdicts, NEW i \in Image, Return("flash", st, i)
  PROVE  IInv' /\ pc' = "idle" /\ result' = [job |-> "flash", st |-> st, img |-> i]
<1>1. result' = [job |-> "flash", st |-> st, img |-> i] /\ result' \in FlashResult /\ pc' = "idle"
  BY DEF Return, FlashResult
<1>2. pc' \notin FlashLoops
  BY <1>1 DEF FlashLoops
<1>3. img' \in Image /\ src' \in Seq(Byte) /\ at' \in Nat /\ left' \in Nat
  BY DEF Return, TypeOK
<1> QED  BY <1>1, <1>2, <1>3, FlashStepIInv

\* The other jobs never enter its loops, and say nothing in its name.
LEMMA NextIsNoFlash ==
  ASSUME IInv, Next
  PROVE  pc \notin FlashLoops /\ pc' \notin FlashLoops /\ result'.job # "flash"
<1> DEFINE Elsewhere == pc' \in Loops \cup {"idle"} /\ result'.job # "flash"
<1>1. ASSUME NEW name \in Loops, NEW i, NEW bytes, NEW s, NEW n, Begin(name, i, bytes, s, n)
      PROVE  Elsewhere
  BY <1>1 DEF Begin, NoResult
<1>2. ASSUME NEW name, NEW st, NEW i, name # "flash", Return(name, st, i) PROVE Elsewhere
  BY <1>2 DEF Return
<1>3. ASSUME pc \in Loops, NEW n, Advance(n) PROVE Elsewhere
  BY <1>3 DEF Advance, IInv, Shape, NoResult, Loops
<1> HIDE DEF Elsewhere
<1>4. ASSUME NEW resume \in BOOLEAN, DumpStart(resume) PROVE Elsewhere /\ pc = "idle"
  <2>1. pc = "idle"
    BY <1>4 DEF DumpStart, NewJob
  <2>2. \/ Return("dump", "ok", NoImage)
        \/ \E s, n : Begin("dump", NoImage, <<>>, s, n)
    BY <1>4 DEF DumpStart
  <2> QED  BY <1>1, <1>2, <2>1, <2>2 DEF Loops
<1>5. ASSUME NEW i \in Images, WriteStart(i) PROVE Elsewhere /\ pc = "idle"
  <2>1. pc = "idle"
    BY <1>5 DEF WriteStart, NewJob
  <2>2. Return("write", "error", i) \/ \E bytes, s, n : Begin("write", i, bytes, s, n)
    BY <1>5 DEF WriteStart
  <2> QED  BY <1>1, <1>2, <2>1, <2>2 DEF Loops
<1>6. ASSUME NEW i \in Images, Verify(i) PROVE Elsewhere /\ pc = "idle"
  <2>1. pc = "idle"
    BY <1>6 DEF Verify, NewJob
  <2>2. \E st : Return("verify", st, i)
    BY <1>6 DEF Verify
  <2> QED  BY <1>2, <2>1, <2>2
<1>7. ASSUME NEW m \in {"zero", "native"}, EraseStart(m) PROVE Elsewhere /\ pc = "idle"
  <2>1. pc = "idle" /\ Begin(m, NoImage, <<>>, First, PartSectors) /\ m \in Loops
    BY <1>7 DEF EraseStart, NewJob, Loops
  <2> QED  BY <1>1, <2>1
<1>8. CASE Works
  <2>1. ASSUME DumpChunk PROVE Elsewhere
    BY <1>3, <2>1 DEF DumpChunk, Loops
  <2>2. ASSUME WriteChunk PROVE Elsewhere
    BY <1>3, <2>2 DEF WriteChunk, Loops
  <2>3. ASSUME EraseChunk PROVE Elsewhere
    BY <1>3, <2>3 DEF EraseChunk, EraseAdvance, Loops
  <2>4. ASSUME EraseNative PROVE Elsewhere
    BY <1>3, <2>4 DEF EraseNative, Loops
  <2>5. ASSUME ErasePanics PROVE Elsewhere
    BY <1>2, <2>5 DEF ErasePanics
  <2>6. ASSUME Finish PROVE Elsewhere
    <3>1. pc \in Loops /\ \E name, st, i : name # "flash" /\ Return(name, st, i)
      BY <2>6 DEF Finish, Loops
    <3> QED  BY <1>2, <3>1
  <2>7. Elsewhere
    BY <1>8, <2>1, <2>2, <2>3, <2>4, <2>5, <2>6 DEF Works
  <2>8. pc \in Loops
    BY <1>8 DEF Works, DumpChunk, WriteChunk, EraseChunk, EraseNative, ErasePanics, Finish, Loops
  <2> QED  BY <2>7, <2>8 DEF Elsewhere, Loops, FlashLoops
<1>9. CASE Stops
  <2>1. ASSUME DumpStops PROVE Elsewhere
    BY <1>2, <2>1 DEF DumpStops
  <2>2. ASSUME WriteStops PROVE Elsewhere
    BY <1>2, <2>2 DEF WriteStops
  <2>3. ASSUME EraseStops PROVE Elsewhere
    BY <1>2, <2>3 DEF EraseStops
  <2>4. Elsewhere
    BY <1>9, <2>1, <2>2, <2>3 DEF Stops
  <2>5. pc \in Loops
    BY <1>9 DEF Stops, DumpStops, WriteStops, EraseStops, Loops
  <2> QED  BY <2>4, <2>5 DEF Elsewhere, Loops, FlashLoops
<1>10. CASE pc = "idle" /\ Elsewhere
  BY <1>10 DEF Elsewhere, Loops, FlashLoops
<1> QED  BY <1>4, <1>5, <1>6, <1>7, <1>8, <1>9, <1>10 DEF Next

\* Without a flash there is nothing to say of one.
LEMMA NoFlashFacts ==
  ASSUME flash = NoFlash, pc \notin FlashLoops, result.job # "flash"
  PROVE  FlashTyped /\ Ahead /\ Within /\ Made /\ FlashExact
<1>1. FlashTyped
  <2>1. NoPlan \in FlashPlan /\ <<>> \in Seq(Task) /\ <<>> \in Seq(PatchEntry)
        /\ [a \in Addrs |-> 0] \in [Addrs -> Byte]
    BY PlanTypes, EmptySeq DEF Byte
  <2> QED  BY <2>1 DEF FlashTyped, NoFlash
<1>2. pc \notin InTask /\ pc # "flash"
  BY DEF InTask, FlashLoops
<1> QED  BY <1>1, <1>2 DEF Ahead, Within, Made, FlashExact

LEMMA FlashInitFInv == FlashInit => FInv
<1> SUFFICES ASSUME FlashInit PROVE FInv
  OBVIOUS
<1>1. IInv /\ flash = NoFlash
  BY InitIInv DEF FlashInit
<1>2. pc \notin FlashLoops /\ result.job # "flash"
  BY DEF FlashInit, Init, FlashLoops, NoResult
<1> QED  BY <1>1, <1>2, NoFlashFacts DEF FInv

LEMMA OthersFInv ==
  ASSUME FInv, Next, flash' = NoFlash PROVE FInv'
<1>1. IInv'
  BY NextIInv DEF FInv
<1>2. pc' \notin FlashLoops /\ result'.job # "flash"
  BY NextIsNoFlash DEF FInv
<1>3. (FlashTyped /\ Ahead /\ Within /\ Made /\ FlashExact)'
  <2>1. FlashTyped'
    <3>1. NoPlan \in FlashPlan /\ <<>> \in Seq(Task) /\ <<>> \in Seq(PatchEntry)
          /\ [a \in Addrs |-> 0] \in [Addrs -> Byte]
      BY PlanTypes, EmptySeq DEF Byte
    <3> QED  BY <3>1 DEF FlashTyped, NoFlash
  <2>2. pc' \notin InTask /\ pc' # "flash"
    BY <1>2 DEF InTask, FlashLoops
  <2> QED  BY <1>2, <2>1, <2>2 DEF Ahead, Within, Made, FlashExact
<1> QED  BY <1>1, <1>3 DEF FInv

LEMMA StutterFInv ==
  ASSUME FInv, UNCHANGED flashVars PROVE FInv'
<1>1. IInv'
  BY NextIInv DEF FInv, flashVars
<1>2. flash' = flash /\ UNCHANGED <<pc, at, left, src, result, disk>>
  BY DEF flashVars, vars, job
<1>3. All' = All /\ Patches' = Patches /\ Taken' = Taken /\ Tried' = Tried /\ Cur' = Cur
  BY <1>2 DEF All, Patches, Taken, Tried, Cur
<1>4. FlashTyped' /\ Ahead' /\ Within' /\ Made' /\ FlashExact'
  BY <1>2, <1>3 DEF FInv, FlashTyped, Ahead, Within, Made, FlashExact
<1> QED  BY <1>1, <1>4 DEF FInv

-----------------------------------------------------------------------------
(* What the entries say of a byte, as they are taken up one by one *)

LEMMA TasksPass ==
  ASSUME NEW tasks, NEW n \in Nat, NEW base, NEW a, NEW v,
         ByTasks(tasks, n, base, a, v), a \notin TaskSpan(tasks[n + 1])
  PROVE  ByTasks(tasks, n + 1, base, a, v)
<1>1. \A j \in 1..(n + 1) : j \in 1..n \/ j = n + 1
  OBVIOUS
<1>2. CASE (\A j \in 1..n : a \notin TaskSpan(tasks[j])) /\ v = base[a]
  BY <1>1, <1>2 DEF ByTasks
<1>3. CASE \E k \in 1..n : /\ a \in TaskSpan(tasks[k]) /\ v = TaskByte(tasks[k], a)
                           /\ \A j \in (k + 1)..n : a \notin TaskSpan(tasks[j])
  <2>1. PICK k \in 1..n : /\ a \in TaskSpan(tasks[k]) /\ v = TaskByte(tasks[k], a)
                          /\ \A j \in (k + 1)..n : a \notin TaskSpan(tasks[j])
    BY <1>3
  <2>2. k \in 1..(n + 1) /\ \A j \in (k + 1)..(n + 1) : j \in (k + 1)..n \/ j = n + 1
    OBVIOUS
  <2>3. \A j \in (k + 1)..(n + 1) : a \notin TaskSpan(tasks[j])
    BY <2>1, <2>2
  <2> QED  BY <2>1, <2>2, <2>3 DEF ByTasks
<1> QED  BY <1>2, <1>3 DEF ByTasks

LEMMA TasksTake ==
  ASSUME NEW tasks, NEW n \in Nat, NEW base, NEW a, a \in TaskSpan(tasks[n + 1])
  PROVE  ByTasks(tasks, n + 1, base, a, TaskByte(tasks[n + 1], a))
<1>1. n + 1 \in 1..(n + 1) /\ \A j \in (n + 1 + 1)..(n + 1) : FALSE
  OBVIOUS
<1> QED  BY <1>1 DEF ByTasks

LEMMA PatchesPass ==
  ASSUME NEW patches, NEW m \in Nat, NEW tasks, NEW n, NEW base, NEW a, NEW v,
         ByPatches(patches, m, tasks, n, base, a, v), a \notin PatchSpan(patches[m + 1])
  PROVE  ByPatches(patches, m + 1, tasks, n, base, a, v)
<1>1. \A j \in 1..(m + 1) : j \in 1..m \/ j = m + 1
  OBVIOUS
<1>2. CASE (\A j \in 1..m : a \notin PatchSpan(patches[j])) /\ ByTasks(tasks, n, base, a, v)
  BY <1>1, <1>2 DEF ByPatches
<1>3. CASE \E k \in 1..m : /\ a \in PatchSpan(patches[k]) /\ v = PatchByte(patches[k], a)
                           /\ \A j \in (k + 1)..m : a \notin PatchSpan(patches[j])
  <2>1. PICK k \in 1..m : /\ a \in PatchSpan(patches[k]) /\ v = PatchByte(patches[k], a)
                          /\ \A j \in (k + 1)..m : a \notin PatchSpan(patches[j])
    BY <1>3
  <2>2. k \in 1..(m + 1) /\ \A j \in (k + 1)..(m + 1) : j \in (k + 1)..m \/ j = m + 1
    OBVIOUS
  <2>3. \A j \in (k + 1)..(m + 1) : a \notin PatchSpan(patches[j])
    BY <2>1, <2>2
  <2> QED  BY <2>1, <2>2, <2>3 DEF ByPatches
<1> QED  BY <1>2, <1>3 DEF ByPatches

LEMMA PatchesTake ==
  ASSUME NEW patches, NEW m \in Nat, NEW tasks, NEW n, NEW base, NEW a,
         a \in PatchSpan(patches[m + 1])
  PROVE  ByPatches(patches, m + 1, tasks, n, base, a, PatchByte(patches[m + 1], a))
<1>1. m + 1 \in 1..(m + 1) /\ \A j \in (m + 1 + 1)..(m + 1) : FALSE
  OBVIOUS
<1> QED  BY <1>1 DEF ByPatches

LEMMA NoPatches ==
  ASSUME NEW patches, NEW tasks, NEW n, NEW base, NEW a, NEW v
  PROVE  ByPatches(patches, 0, tasks, n, base, a, v) <=> ByTasks(tasks, n, base, a, v)
<1>1. \A k \in 1..0 : FALSE
  OBVIOUS
<1> QED  BY <1>1 DEF ByPatches

LEMMA NoTasks ==
  ASSUME NEW tasks, NEW base, NEW a PROVE ByTasks(tasks, 0, base, a, base[a])
<1>1. \A k \in 1..0 : FALSE
  OBVIOUS
<1> QED  BY <1>1 DEF ByTasks

-----------------------------------------------------------------------------
(* The steps of the flash *)

LEMMA FlashFacts ==
  ASSUME FInv
  PROVE  /\ TypeOK /\ disk \in [Addrs -> Byte] /\ fresh \in BOOLEAN /\ njobs \in 0..MaxJobs
         /\ at \in Nat /\ left \in Nat /\ img \in Image /\ src \in Seq(Byte)
         /\ flash.plan \in FlashPlan /\ flash.tasks \in Seq(Task)
         /\ flash.patches \in Seq(PatchEntry) /\ flash.base \in [Addrs -> Byte]
         /\ flash.plan.method \in {"zero", "native"} /\ flash.plan.patch \in {"none", "bad", "good"}
         /\ flash.skipped \in BOOLEAN
         /\ All \in Seq(Task) /\ Patches \in Seq(PatchEntry)
         /\ Len(All) \in Nat /\ Len(Patches) \in Nat
         /\ Len(flash.tasks) \in Nat /\ Len(flash.patches) \in Nat
<1>1. /\ flash.plan \in FlashPlan /\ flash.tasks \in Seq(Task) /\ flash.patches \in Seq(PatchEntry)
      /\ flash.base \in [Addrs -> Byte] /\ flash.skipped \in BOOLEAN
  BY DEF FInv, FlashTyped
<1>2. /\ flash.plan.tasks \in Seq(Task) /\ flash.plan.patches \in Seq(PatchEntry)
      /\ flash.plan.method \in {"zero", "native"} /\ flash.plan.patch \in {"none", "bad", "good"}
  BY <1>1 DEF FlashPlan
<1>3. All \in Seq(Task)
  BY <1>2, ParsedFacts DEF All
<1>4. Patches \in Seq(PatchEntry)
  BY <1>2, ParsedFacts DEF Patches
<1>5. /\ TypeOK /\ disk \in [Addrs -> Byte] /\ fresh \in BOOLEAN /\ njobs \in 0..MaxJobs
      /\ at \in Nat /\ left \in Nat /\ img \in Image /\ src \in Seq(Byte)
  BY DEF FInv, IInv, TypeOK
<1> QED  BY <1>1, <1>2, <1>3, <1>4, <1>5, LenProperties

LEMMA FlashStartFInv ==
  ASSUME FInv, NEW plan \in Plans, FlashStart(plan) PROVE FInv'
<1> DEFINE tasks == Parsed(plan.tasks)
<1>1. /\ TypeOK /\ NewJob /\ UNCHANGED <<payload, disk, file, fresh>>
      /\ disk \in [Addrs -> Byte] /\ fresh \in BOOLEAN /\ njobs' \in 0..MaxJobs
  BY FlashFacts, NewJobFacts DEF FlashStart
<1>2. plan \in FlashPlan /\ plan.tasks \in Seq(Task) /\ plan.patches \in Seq(PatchEntry)
  BY PlanTypes DEF FlashPlan
<1>3. tasks \in Seq(Task) /\ Parsed(plan.patches) \in Seq(PatchEntry)
  BY <1>2, ParsedFacts
<1>4. Len(tasks) \in Nat /\ Len(Parsed(plan.patches)) \in Nat
  BY <1>3, LenProperties
<1>5. CASE FilesThere(tasks)
  <2>1. /\ Begin("flash", NoImage, <<>>, 0, 0)
        /\ flash' = [NoFlash EXCEPT !.plan = plan, !.tasks = tasks,
                                    !.patches = Parsed(plan.patches), !.base = disk]
    BY <1>5 DEF FlashStart
  <2>2. IInv'
    BY <1>1, <2>1, FlashStepIInv, NoImageType, EmptySeq DEF Begin, FlashLoops
  <2>3. /\ flash'.plan = plan /\ flash'.tasks = tasks /\ flash'.patches = Parsed(plan.patches)
        /\ flash'.base = disk /\ flash'.origin = 0 /\ flash'.skipped = FALSE
    BY <2>1 DEF NoFlash
  <2>4. All' = tasks /\ Patches' = Parsed(plan.patches) /\ Taken' = 0 /\ Tried' = 0
    BY <1>4, <2>3 DEF All, Patches, Taken, Tried
  <2>5. FlashTyped'
    BY <1>1, <1>2, <1>3, <2>1 DEF FlashTyped, NoFlash
  <2>6. Ahead'
    BY <1>4, <2>3, <2>4 DEF Ahead
  <2>7. pc' = "flash" /\ pc' \notin InTask /\ result' = NoResult /\ disk' = disk
    BY <1>1, <2>1 DEF Begin, InTask
  <2>8. Within' /\ FlashExact'
    BY <2>7 DEF Within, FlashExact, NoResult
  <2>9. ASSUME NEW a \in Addrs
        PROVE  ByPatches(Patches', 0, All', 0, disk, a, disk[a])
    BY NoPatches, NoTasks
  <2>10. Made'
    BY <2>3, <2>4, <2>7, <2>9 DEF Made
  <2> QED  BY <2>2, <2>5, <2>6, <2>8, <2>10 DEF FInv
<1>6. CASE ~FilesThere(tasks)
  <2>1. Return("flash", "error", NoImage) /\ flash' = NoFlash
    BY <1>6 DEF FlashStart
  <2>2. IInv' /\ pc' = "idle" /\ result' = [job |-> "flash", st |-> "error", img |-> NoImage]
    BY <1>1, <2>1, FlashReturnIInv, NoImageType DEF Verdicts
  <2>3. FlashTyped'
    <3>1. NoPlan \in FlashPlan /\ <<>> \in Seq(Task) /\ <<>> \in Seq(PatchEntry)
          /\ [a \in Addrs |-> 0] \in [Addrs -> Byte]
      BY PlanTypes, EmptySeq DEF Byte
    <3> QED  BY <2>1, <3>1 DEF FlashTyped, NoFlash
  <2>4. pc' \notin FlashLoops /\ pc' \notin InTask /\ pc' # "flash"
    BY <2>2 DEF FlashLoops, InTask
  <2>5. Ahead' /\ Within' /\ Made' /\ FlashExact'
    BY <2>2, <2>4 DEF Ahead, Within, Made, FlashExact
  <2> QED  BY <2>2, <2>3, <2>5 DEF FInv
<1> QED  BY <1>5, <1>6

\* A step that ends the job.
LEMMA FlashEnds ==
  ASSUME FInv, UNCHANGED <<payload, file, njobs>>, disk' \in [Addrs -> Byte], fresh' \in BOOLEAN,
         NEW st \in Verdicts \ {"ok"}, NEW i \in Image, Return("flash", st, i), FlashTyped'
  PROVE  FInv'
<1>1. IInv' /\ pc' = "idle" /\ result' = [job |-> "flash", st |-> st, img |-> i]
  BY FlashFacts, FlashReturnIInv
<1>2. pc' \notin FlashLoops /\ pc' \notin InTask /\ pc' # "flash"
  BY <1>1 DEF FlashLoops, InTask
<1>3. Ahead' /\ Within' /\ Made' /\ FlashExact'
  BY <1>1, <1>2 DEF Ahead, Within, Made, FlashExact
<1> QED  BY <1>1, <1>3 DEF FInv

\* Taking up a task.
LEMMA TaskTaken ==
  ASSUME FInv, pc = "flash", flash.tasks # <<>>,
         flash' = [flash EXCEPT !.tasks = Tail(@), !.origin = Head(flash.tasks).start]
  PROVE  /\ Head(flash.tasks) \in Task /\ All' = All /\ Taken \in Nat /\ Taken' = Taken + 1
         /\ Head(flash.tasks) = All[Taken + 1] /\ Cur' = Head(flash.tasks)
         /\ Tried = 0 /\ Tried' = 0 /\ Patches' = Patches
         /\ FlashTyped' /\ Ahead'
<1> DEFINE t == Head(flash.tasks)
<1>1. t \in Task /\ Tail(flash.tasks) \in Seq(Task) /\ Len(Tail(flash.tasks)) = Len(flash.tasks) - 1
      /\ \A k \in 1..Len(Tail(flash.tasks)) : Tail(flash.tasks)[k] = flash.tasks[k + 1]
  BY FlashFacts, HeadTailProperties
<1>2. Len(flash.tasks) \in Nat /\ Len(flash.tasks) >= 1 /\ t = flash.tasks[1] /\ Len(All) \in Nat
      /\ Len(Patches) \in Nat /\ Len(flash.patches) \in Nat
  BY FlashFacts, EmptySeq
<1>3. /\ Len(flash.tasks) <= Len(All) /\ Len(flash.patches) <= Len(Patches)
      /\ \A k \in 1..Len(flash.tasks) : flash.tasks[k] = All[Taken + k]
      /\ \A k \in 1..Len(flash.patches) : flash.patches[k] = Patches[Tried + k]
      /\ Tried = 0
  BY DEF FInv, Ahead, FlashLoops
<1>4. Taken \in Nat /\ t = All[Taken + 1]
  <2>1. Taken = Len(All) - Len(flash.tasks)
    BY DEF Taken
  <2>2. Len(flash.tasks) <= Len(All) /\ 1 \in 1..Len(flash.tasks)
    BY <1>2, <1>3
  <2>3. Len(flash.tasks) \in Nat /\ Len(All) \in Nat
    BY <1>2
  <2>4. Taken \in Nat
    BY <2>1, <2>2, <2>3
  <2> QED  BY <1>2, <1>3, <2>2, <2>4
<1>5. t.start \in Nat
  BY <1>1 DEF Task
<1>6. FlashTyped'
  BY <1>1, <1>5 DEF FInv, FlashTyped
<1>7. /\ flash'.plan = flash.plan /\ flash'.tasks = Tail(flash.tasks)
      /\ flash'.patches = flash.patches
  BY DEF FInv, FlashTyped
<1>8. All' = All /\ Patches' = Patches /\ Tried' = 0
  BY <1>3, <1>7 DEF All, Patches, Tried
<1>9. Taken' = Taken + 1
  <2>1. Taken' = Len(All') - Len(flash'.tasks)
    BY DEF Taken
  <2>2. Len(flash'.tasks) = Len(flash.tasks) - 1 /\ Taken = Len(All) - Len(flash.tasks)
    BY <1>1, <1>7 DEF Taken
  <2>3. Taken' = Len(All) - (Len(flash.tasks) - 1)
    BY <1>8, <2>1, <2>2
  <2>4. Len(flash.tasks) \in Nat /\ Len(All) \in Nat
    BY <1>2
  <2> QED  BY <2>2, <2>3, <2>4
<1>10. Cur' = t
  BY <1>4, <1>8, <1>9 DEF Cur
<1>11. Ahead'
  <2>1. Len(flash'.tasks) <= Len(All)
    BY <1>1, <1>2, <1>3, <1>7
  <2>2. ASSUME NEW k \in 1..Len(flash'.tasks) PROVE flash'.tasks[k] = All[Taken' + k]
    <3>1. k + 1 \in 1..Len(flash.tasks) /\ flash'.tasks[k] = flash.tasks[k + 1]
      BY <1>1, <1>2, <1>7, <2>2
    <3>2. Taken + (k + 1) = Taken' + k
      BY <1>4, <1>9
    <3> QED  BY <1>3, <3>1, <3>2
  <2>3. \A k \in 1..Len(flash'.patches) : flash'.patches[k] = Patches[0 + k]
    BY <1>3, <1>7
  <2> QED  BY <1>3, <1>7, <1>8, <2>1, <2>2, <2>3 DEF Ahead
<1> QED  BY <1>1, <1>3, <1>4, <1>6, <1>8, <1>9, <1>10, <1>11

LEMMA FlashTaskFInv == ASSUME FInv, FlashTask PROVE FInv'
<1> DEFINE t == Head(flash.tasks)
<1>1. /\ pc = "flash" /\ flash.tasks # <<>> /\ UNCHANGED <<payload, njobs, disk, file, fresh>>
      /\ flash' = [flash EXCEPT !.tasks = Tail(@), !.origin = t.start]
  BY DEF FlashTask
<1>2. /\ t \in Task /\ All' = All /\ Taken \in Nat /\ Taken' = Taken + 1
      /\ t = All[Taken + 1] /\ Cur' = t
      /\ Tried = 0 /\ Tried' = 0 /\ Patches' = Patches
      /\ FlashTyped' /\ Ahead'
  BY <1>1, TaskTaken
<1>3. /\ TypeOK /\ disk \in [Addrs -> Byte] /\ fresh \in BOOLEAN /\ njobs \in 0..MaxJobs
      /\ at \in Nat /\ left \in Nat /\ img \in Image /\ src \in Seq(Byte)
      /\ flash.plan.method \in {"zero", "native"}
  BY FlashFacts
<1>4. t.start \in Nat /\ t.n \in Nat /\ t.img \in Image
  BY <1>2 DEF Task
<1>5. /\ flash'.origin = t.start /\ flash'.base = flash.base /\ flash'.skipped = flash.skipped
  BY <1>1 DEF FInv, FlashTyped
<1>6. ASSUME ~flash.skipped, NEW a \in Addrs
      PROVE  ByTasks(All, Taken, flash.base, a, disk[a])
  <2>1. ByPatches(Patches, 0, All, Taken, flash.base, a, disk[a])
    BY <1>1, <1>2, <1>6 DEF FInv, Made
  <2> QED  BY <2>1, NoPatches
<1> HIDE DEF t
<1>7. ASSUME NEW name \in InTask, NEW i \in Image, NEW bytes \in Seq(Byte), TaskSectors(t) \in Nat,
             Begin(name, i, bytes, t.start, TaskSectors(t)),
             IF name = "flash write"
             THEN t.kind = "program" /\ t.file = "there" /\ bytes = Source(t) ELSE t.kind = "erase"
      PROVE  FInv'
  <2>1. /\ pc' = name /\ img' = i /\ src' = bytes /\ at' = t.start /\ left' = TaskSectors(t)
        /\ result' = NoResult /\ pc' \in FlashLoops /\ pc' # "flash"
    BY <1>7 DEF Begin, InTask
  <2>2. IInv'
    BY <1>1, <1>3, <1>4, <1>7, <2>1, FlashStepIInv
  <2>3. Within'
    <3>1. Taken' >= 1
      BY <1>2
    <3>2. t.start <= at' /\ at' + left' = t.start + TaskSectors(t)
      BY <1>4, <2>1
    <3> QED  BY <1>2, <1>5, <1>7, <2>1, <3>1, <3>2 DEF Within
  <2>4. FlashExact'
    BY <2>1 DEF FlashExact, NoResult
  <2>5. Made'
    <3>1. Taken' - 1 = Taken
      BY <1>2
    <3>2. ASSUME NEW a \in Addrs PROVE ~(a >= t.start * SectorBytes /\ a < at' * SectorBytes)
      <4>1. t.start * SectorBytes \in Nat /\ a \in Nat
        BY <1>4, JobsAssumption, Scale DEF Addrs
      <4> QED  BY <2>1, <4>1
    <3>3. ~flash'.skipped => \A a \in Addrs : ByTasks(All', Taken' - 1, flash'.base, a, disk'[a])
      BY <1>1, <1>2, <1>5, <1>6, <3>1
    <3> QED  BY <1>2, <2>1, <3>2, <3>3 DEF Made
  <2> QED  BY <1>2, <2>2, <2>3, <2>4, <2>5 DEF FInv
<1>8. CASE t.kind = "erase" /\ Begin(Eraser[flash.plan.method], NoImage, <<>>, t.start, TaskSectors(t))
  <2>1. Eraser[flash.plan.method] \in InTask /\ Eraser[flash.plan.method] # "flash write"
    <3>1. Eraser["zero"] = "flash zero" /\ Eraser["native"] = "flash native"
      BY DEF Eraser
    <3>2. Eraser[flash.plan.method] \in {"flash zero", "flash native"}
      BY <1>3, <3>1
    <3> QED  BY <3>2 DEF InTask, FlashLoops
  <2>2. TaskSectors(t) \in Nat
    BY <1>4, <1>8 DEF TaskSectors
  <2> QED  BY <1>7, <1>8, <2>1, <2>2, NoImageType, EmptySeq
<1>9. CASE t.kind = "program" /\ t.file = "none" /\ UNCHANGED <<job, result>>
  <2>1. pc' = "flash" /\ pc' \notin InTask /\ UNCHANGED <<img, src, at, left, result>>
        /\ pc' \in FlashLoops
    BY <1>1, <1>9 DEF job, InTask, FlashLoops
  <2>2. result' = NoResult
    BY <1>1, <2>1 DEF FInv, IInv, Shape
  <2>3. IInv'
    BY <1>1, <1>3, <2>1, <2>2, FlashStepIInv
  <2>4. Within' /\ FlashExact'
    BY <2>1, <2>2 DEF Within, FlashExact, NoResult
  <2>5. TaskSpan(t) = {}
    BY <1>9 DEF TaskSpan
  <2>6. ASSUME ~flash.skipped, NEW a \in Addrs
        PROVE  ByPatches(Patches, 0, All, Taken + 1, flash.base, a, disk[a])
    <3>1. ByTasks(All, Taken + 1, flash.base, a, disk[a])
      BY <1>2, <1>6, <2>5, <2>6, TasksPass
    <3> QED  BY <3>1, NoPatches
  <2>7. Made'
    BY <1>1, <1>2, <1>5, <2>1, <2>6 DEF Made
  <2> QED  BY <1>2, <2>3, <2>4, <2>7 DEF FInv
<1>10. CASE /\ t.kind = "program" /\ t.file = "there" /\ Readable(t)
            /\ Begin("flash write", t.img, Source(t), t.start, TaskSectors(t))
  <2>1. Source(t) \in Seq(Byte) /\ TaskSectors(t) \in Nat
    BY <1>2, <1>10, SourceFacts
  <2>2. "flash write" \in InTask
    BY DEF InTask, FlashLoops
  <2> QED  BY <1>4, <1>7, <1>10, <2>1, <2>2
<1>11. CASE Return("flash", "error", t.img)
  <2>1. "error" \in Verdicts \ {"ok"}
    BY DEF Verdicts
  <2> QED  BY <1>1, <1>2, <1>3, <1>4, <1>11, <2>1, FlashEnds
<1>12. \/ t.kind = "erase" /\ Begin(Eraser[flash.plan.method], NoImage, <<>>, t.start, TaskSectors(t))
       \/ t.kind = "program" /\ t.file = "none" /\ UNCHANGED <<job, result>>
       \/ /\ t.kind = "program" /\ t.file = "there" /\ Readable(t)
          /\ Begin("flash write", t.img, Source(t), t.start, TaskSectors(t))
       \/ Return("flash", "error", t.img)
  BY DEF FlashTask, t
<1> QED  BY <1>8, <1>9, <1>10, <1>11, <1>12

\* The current task, and the bytes it is about.
LEMMA CurFacts ==
  ASSUME FInv, pc \in InTask
  PROVE  /\ pc \in FlashLoops /\ pc # "flash" /\ result = NoResult
         /\ Taken \in Nat /\ Taken >= 1 /\ Tried = 0 /\ Taken <= Len(All)
         /\ Cur \in Task /\ Cur.start \in Nat /\ TaskSectors(Cur) \in Nat
         /\ flash.origin = Cur.start /\ Cur.start <= at /\ at + left = Cur.start + TaskSectors(Cur)
         /\ IF pc = "flash write"
            THEN Cur.kind = "program" /\ Cur.file = "there" /\ src = Source(Cur)
            ELSE Cur.kind = "erase"
         /\ TaskSpan(Cur) = {a \in Addrs : Touches(Cur.start, TaskSectors(Cur), a)}
<1>1. pc \in FlashLoops /\ pc # "flash"
  BY DEF InTask
<1>2. /\ Taken >= 1 /\ flash.origin = Cur.start
      /\ Cur.start <= at /\ at + left = Cur.start + TaskSectors(Cur)
      /\ IF pc = "flash write"
         THEN Cur.kind = "program" /\ Cur.file = "there" /\ src = Source(Cur)
         ELSE Cur.kind = "erase"
  BY DEF FInv, Within
<1>3. /\ All \in Seq(Task) /\ Len(All) \in Nat /\ Len(flash.tasks) \in Nat /\ src \in Seq(Byte)
  BY FlashFacts
<1>4. Tried = 0 /\ Len(flash.tasks) <= Len(All)
  BY <1>1 DEF FInv, Ahead
<1>5. Taken \in Nat /\ Taken \in 1..Len(All)
  <2>1. Taken = Len(All) - Len(flash.tasks)
    BY DEF Taken
  <2>2. Taken >= 1 /\ Len(All) \in Nat /\ Len(flash.tasks) \in Nat
    BY <1>2, <1>3
  <2> QED  BY <2>1, <2>2
<1>6. Cur \in Task
  BY <1>3, <1>5, ElementOfSeq DEF Cur
<1>7. Cur.start \in Nat /\ Cur.n \in Nat /\ Cur.kind \in {"erase", "program"}
  BY <1>6 DEF Task
<1>8. TaskSectors(Cur) \in Nat
  <2>1. Len(src) \in Nat /\ SectorsFor(Len(src)) \in Nat
    BY <1>3, SectorsForFacts, LenProperties
  <2> QED  BY <1>2, <1>7, <2>1 DEF TaskSectors
<1>9. TaskSpan(Cur) = {a \in Addrs : Touches(Cur.start, TaskSectors(Cur), a)}
  <2>1. ~(Cur.kind = "program" /\ Cur.file = "none")
    BY <1>2
  <2> QED  BY <2>1 DEF TaskSpan, TaskSectors, Touches
<1>10. result = NoResult
  BY <1>1 DEF FInv, IInv, Shape, FlashLoops
<1>11. Taken <= Len(All)
  BY <1>3, <1>5
<1> QED  BY <1>1, <1>2, <1>4, <1>5, <1>6, <1>7, <1>8, <1>9, <1>10, <1>11

\* A piece of n sectors at x, in a run of m sectors from c of which l are left.
LEMMA PieceInRun ==
  ASSUME NEW x \in Nat, NEW c \in Nat, NEW n \in Nat, NEW m \in Nat, NEW l \in Nat, NEW d \in Nat,
         c <= x, x + l = c + m, n <= l
  PROVE  /\ x * d \in Nat /\ c * d \in Nat /\ n * d \in Nat /\ c * d <= x * d
         /\ (x + n) * d = x * d + n * d /\ (x - c) * d = x * d - c * d
         /\ (c + m) * d \in Nat /\ (x + n) * d <= (c + m) * d
<1>1. x + n <= c + m /\ x + n \in Nat /\ c + m \in Nat
  OBVIOUS
<1>2. x * d \in Nat /\ c * d \in Nat /\ n * d \in Nat /\ (c + m) * d \in Nat
  BY <1>1, Scale
<1>3. c * d <= x * d
  BY Scale
<1>4. (x + n) * d = x * d + n * d
  BY Scale
<1>5. (x - c) * d = x * d - c * d
  BY Scale
<1>6. (x + n) * d <= (c + m) * d
  BY <1>1, Scale
<1> QED  BY <1>2, <1>3, <1>4, <1>5, <1>6

LEMMA PieceFacts ==
  ASSUME FInv, pc \in InTask, left > 0
  PROVE  /\ Piece \in Nat /\ Piece <= left
         /\ \A a \in Addrs : Touches(at, Piece, a) =>
              /\ a \in TaskSpan(Cur) /\ TaskByte(Cur, a) \in Byte
              /\ PieceBytes[a - at * SectorBytes + 1] = TaskByte(Cur, a)
<1> DEFINE c == Cur.start   d == SectorBytes   n == Piece   m == TaskSectors(Cur)
<1>1. /\ TypeOK /\ at \in Nat /\ left \in Nat /\ src \in Seq(Byte)
  BY FlashFacts
<1>2. /\ c \in Nat /\ m \in Nat /\ flash.origin = c /\ c <= at /\ at + left = c + m
      /\ TaskSpan(Cur) = {a \in Addrs : Touches(c, m, a)}
      /\ IF pc = "flash write"
         THEN Cur.kind = "program" /\ src = Source(Cur) ELSE Cur.kind = "erase"
  BY CurFacts
<1>3. n \in Nat /\ n <= left
  <2>1. Chunk \in Nat /\ Chunk <= left /\ EraseChunkSectors \in Nat /\ EraseChunkSectors <= left
    BY <1>1, ChunkFacts
  <2>2. left \in Nat /\ pc \in {"flash write", "flash zero", "flash native"}
    BY <1>1 DEF InTask, FlashLoops
  <2>3. Piece = Chunk \/ Piece = EraseChunkSectors \/ Piece = left
    BY <2>2 DEF Piece
  <2>4. left \in Nat
    BY <1>1
  <2>5. CASE Piece = left
    BY <2>4, <2>5
  <2> QED  BY <2>1, <2>3, <2>5
<1>4. d \in Nat /\ d >= 1
  BY JobsAssumption
<1>5. at * d \in Nat /\ c * d \in Nat /\ n * d \in Nat /\ c * d <= at * d
      /\ (at + n) * d = at * d + n * d /\ (at - c) * d = at * d - c * d
      /\ (c + m) * d \in Nat /\ (at + n) * d <= (c + m) * d
  <2>1. at \in Nat /\ left \in Nat /\ c \in Nat /\ m \in Nat /\ n \in Nat /\ d \in Nat
        /\ c <= at /\ at + left = c + m /\ n <= left
    BY <1>1, <1>2, <1>3, <1>4
  <2> HIDE DEF n, m, c, d
  <2> QED  BY <2>1, PieceInRun
<1> HIDE DEF n, m, c, d
<1>6. ASSUME NEW a \in Addrs, Touches(at, n, a) PROVE a \in TaskSpan(Cur)
  <2>1. a \in Nat /\ a >= at * d /\ a < (at + n) * d
    BY <1>6 DEF Touches, Addrs, d
  <2>2. a >= c * d /\ a < (c + m) * d
    BY <1>4, <1>5, <2>1
  <2> QED  BY <1>2, <2>2 DEF Touches, d
<1>7. ASSUME NEW a \in Addrs, Touches(at, n, a)
      PROVE  TaskByte(Cur, a) \in Byte /\ PieceBytes[a - at * d + 1] = TaskByte(Cur, a)
  <2>1. a \in Nat /\ a >= at * d /\ a < (at + n) * d
    BY <1>7 DEF Touches, Addrs, d
  <2>2. PICK i \in 1..(n * d) : i = a - at * d + 1
    BY <1>5, <2>1
  <2>3. PICK j \in Nat : j = a - c * d + 1
    BY <1>5, <2>1
  <2>4. j >= 1 /\ (at - c) * d + i = j
    BY <1>5, <2>1, <2>2, <2>3
  <2>5. CASE pc = "flash write"
    <3>1. PieceBytes[i] = IF j <= Len(src) THEN src[j] ELSE 0
      BY <1>2, <2>2, <2>4, <2>5 DEF PieceBytes, FromTask, n, d
    <3>2. TaskByte(Cur, a) = IF j <= Len(src) THEN src[j] ELSE 0
      BY <1>2, <2>3, <2>5 DEF TaskByte, c, d
    <3>3. Len(src) \in Nat /\ (j <= Len(src) => src[j] \in Byte)
      BY <1>1, <2>4, ElementOfSeq, LenProperties
    <3>4. TaskByte(Cur, a) \in Byte
      BY <3>2, <3>3 DEF Byte
    <3> QED  BY <2>2, <3>1, <3>2, <3>4
  <2>6. CASE pc # "flash write"
    <3>1. PieceBytes[i] = 0
      BY <2>2, <2>6 DEF PieceBytes, Zeros, n, d
    <3>2. TaskByte(Cur, a) = 0
      BY <1>2, <2>6 DEF TaskByte
    <3> QED  BY <2>2, <3>1, <3>2 DEF Byte
  <2> QED  BY <2>5, <2>6
<1> QED  BY <1>3, <1>6, <1>7 DEF n, d

\* A step that leaves the job's locals alone leaves what is counted of them.
LEMMA SameFlash ==
  ASSUME flash' = flash
  PROVE  /\ All' = All /\ Patches' = Patches /\ Taken' = Taken /\ Tried' = Tried /\ Cur' = Cur
         /\ FlashTyped' <=> FlashTyped
  BY DEF All, Patches, Taken, Tried, Cur, FlashTyped

LEMMA FlashPieceFInv == ASSUME FInv, FlashPiece PROVE FInv'
<1>1. /\ pc \in InTask /\ left > 0 /\ Put(at, Piece, PieceBytes)
      /\ at' = at + Piece /\ left' = left - Piece
      /\ UNCHANGED <<pc, img, src, result, payload, njobs, file, flash>>
  BY DEF FlashPiece, InTask, Advance
<1>2. /\ TypeOK /\ disk \in [Addrs -> Byte] /\ fresh \in BOOLEAN /\ njobs \in 0..MaxJobs
      /\ at \in Nat /\ left \in Nat /\ img \in Image /\ src \in Seq(Byte)
  BY FlashFacts
<1>3. /\ Piece \in Nat /\ Piece <= left
      /\ \A a \in Addrs : Touches(at, Piece, a) =>
           /\ a \in TaskSpan(Cur) /\ TaskByte(Cur, a) \in Byte
           /\ PieceBytes[a - at * SectorBytes + 1] = TaskByte(Cur, a)
  BY <1>1, PieceFacts
<1>4. /\ pc \in FlashLoops /\ pc # "flash" /\ result = NoResult
      /\ Cur.start \in Nat /\ TaskSectors(Cur) \in Nat
      /\ Cur.start <= at /\ at + left = Cur.start + TaskSectors(Cur)
  BY <1>1, CurFacts
<1>5. \A a \in Addrs : Touches(at, Piece, a) => PieceBytes[a - at * SectorBytes + 1] \in Byte
  BY <1>3
<1>6. /\ disk' \in [Addrs -> Byte] /\ fresh' \in BOOLEAN
      /\ \A a \in Addrs : disk'[a] = IF Touches(at, Piece, a)
                                     THEN PieceBytes[a - at * SectorBytes + 1] ELSE disk[a]
  BY <1>1, <1>2, <1>3, <1>5, PutEffect
<1>7. PICK n \in Nat : n = Piece
  BY <1>3
<1>8. at' \in Nat /\ left' \in Nat /\ at' = at + n /\ at' + left' = at + left
  BY <1>1, <1>2, <1>3, <1>7
<1>9. IInv'
  BY <1>1, <1>2, <1>4, <1>6, <1>8, FlashStepIInv
<1>10. All' = All /\ Patches' = Patches /\ Taken' = Taken /\ Tried' = Tried /\ Cur' = Cur
       /\ FlashTyped'
  BY <1>1, SameFlash DEF FInv
<1>11. Ahead' /\ FlashExact'
  BY <1>1, <1>4, <1>10 DEF FInv, Ahead, FlashExact, NoResult
<1>12. Within'
  <2>1. Cur.start <= at'
    BY <1>2, <1>4, <1>7, <1>8
  <2> QED  BY <1>1, <1>4, <1>8, <1>10, <2>1 DEF FInv, Within
<1>13. Made'
  <2>1. pc' \in InTask /\ pc' # "flash"
    BY <1>1, <1>4
  <2>2. ASSUME ~flash.skipped, NEW a \in Addrs
        PROVE  IF a >= Cur.start * SectorBytes /\ a < at' * SectorBytes
               THEN disk'[a] = TaskByte(Cur, a)
               ELSE ByTasks(All, Taken - 1, flash.base, a, disk'[a])
    <3> DEFINE Past(x) == a >= Cur.start * SectorBytes /\ a < x * SectorBytes
    <3>1. IF Past(at) THEN disk[a] = TaskByte(Cur, a)
          ELSE ByTasks(All, Taken - 1, flash.base, a, disk[a])
      BY <1>1, <2>2 DEF FInv, Made
    <3>2. Past(at + n) <=> Past(at) \/ Touches(at, n, a)
      <4> DEFINE lo == Cur.start * SectorBytes   x == at * SectorBytes
                 y == (at + n) * SectorBytes
      <4>1. Cur.start \in Nat /\ at \in Nat /\ Cur.start <= at /\ SectorBytes \in Nat
        BY <1>2, <1>4, JobsAssumption
      <4>2. lo \in Nat /\ x \in Nat /\ lo <= x
        BY <4>1, Scale
      <4>3. at + n \in Nat /\ at <= at + n
        BY <4>1, <1>7
      <4>4. y \in Nat /\ x <= y
        BY <4>1, <4>3, Scale
      <4>5. a \in Nat
        BY DEF Addrs
      <4>6. Touches(at, n, a) <=> a >= x /\ a < y
        BY DEF Touches
      <4> HIDE DEF lo, x, y
      <4>7. (a >= lo /\ a < y) <=> (a >= lo /\ a < x) \/ (a >= x /\ a < y)
        BY <4>2, <4>4, <4>5
      <4> QED  BY <4>6, <4>7 DEF lo, x, y
    <3>3. disk'[a] = IF Touches(at, n, a) THEN TaskByte(Cur, a) ELSE disk[a]
      BY <1>3, <1>6, <1>7
    <3> HIDE DEF Past
    <3>4. IF Past(at + n) THEN disk'[a] = TaskByte(Cur, a)
          ELSE ByTasks(All, Taken - 1, flash.base, a, disk'[a])
      BY <3>1, <3>2, <3>3
    <3> QED  BY <1>8, <3>4 DEF Past
  <2> QED  BY <1>1, <1>10, <2>1, <2>2 DEF Made
<1> QED  BY <1>9, <1>10, <1>11, <1>12, <1>13 DEF FInv

LEMMA FlashPanicsFInv == ASSUME FInv, FlashPanics PROVE FInv'
<1>1. "panic" \in Verdicts \ {"ok"}
  BY DEF Verdicts
<1>2. disk' \in [Addrs -> Byte] /\ fresh' \in BOOLEAN /\ FlashTyped'
  BY FlashFacts, SameFlash DEF FlashPanics, FInv
<1> QED  BY <1>1, <1>2, FlashEnds, NoImageType DEF FlashPanics

LEMMA FlashPatchPanicsFInv == ASSUME FInv, FlashPatchPanics PROVE FInv'
<1>1. "panic" \in Verdicts \ {"ok"}
  BY DEF Verdicts
<1>2. disk' \in [Addrs -> Byte] /\ fresh' \in BOOLEAN /\ FlashTyped'
  BY FlashFacts, SameFlash DEF FlashPatchPanics, FInv
<1> QED  BY <1>1, <1>2, FlashEnds, NoImageType DEF FlashPatchPanics

LEMMA FlashStopsFInv == ASSUME FInv, FlashStops PROVE FInv'
<1>1. /\ pc \in InTask /\ left > 0 /\ PutSome(at, Piece, PieceBytes)
      /\ Return("flash", "error", img) /\ UNCHANGED <<payload, njobs, file, flash>>
  BY DEF FlashStops, InTask
<1>2. disk \in [Addrs -> Byte] /\ fresh \in BOOLEAN /\ at \in Nat /\ img \in Image
  BY FlashFacts
<1>3. /\ Piece \in Nat
      /\ \A a \in Addrs : Touches(at, Piece, a) => PieceBytes[a - at * SectorBytes + 1] \in Byte
  BY <1>1, PieceFacts
<1>4. disk' \in [Addrs -> Byte] /\ fresh' \in BOOLEAN
  BY <1>1, <1>2, <1>3, PutSomeEffect
<1>5. "error" \in Verdicts \ {"ok"} /\ FlashTyped'
  BY <1>1, SameFlash DEF Verdicts, FInv
<1> QED  BY <1>1, <1>2, <1>4, <1>5, FlashEnds

LEMMA FlashTaskDoneFInv == ASSUME FInv, FlashTaskDone PROVE FInv'
<1>1. /\ pc \in InTask /\ left = 0 /\ pc' = "flash" /\ pc' \in FlashLoops /\ pc' \notin InTask
      /\ UNCHANGED <<img, src, at, left, result, payload, njobs, disk, file, fresh, flash>>
  BY DEF FlashTaskDone, InTask, FlashLoops
<1>2. /\ TypeOK /\ disk \in [Addrs -> Byte] /\ fresh \in BOOLEAN /\ njobs \in 0..MaxJobs
      /\ at \in Nat /\ left \in Nat /\ img \in Image /\ src \in Seq(Byte)
  BY FlashFacts
<1>3. /\ pc \in FlashLoops /\ result = NoResult /\ Taken \in Nat /\ Taken >= 1 /\ Tried = 0
      /\ Cur.start \in Nat /\ TaskSectors(Cur) \in Nat /\ at + left = Cur.start + TaskSectors(Cur)
      /\ TaskSpan(Cur) = {a \in Addrs : Touches(Cur.start, TaskSectors(Cur), a)}
  BY <1>1, CurFacts
<1>4. IInv'
  BY <1>1, <1>2, <1>3, FlashStepIInv
<1>5. All' = All /\ Patches' = Patches /\ Taken' = Taken /\ Tried' = Tried /\ FlashTyped'
  BY <1>1, SameFlash DEF FInv
<1>6. Ahead' /\ Within' /\ FlashExact'
  BY <1>1, <1>3, <1>5 DEF FInv, Ahead, Within, FlashExact, NoResult
<1>7. PICK n \in Nat : n + 1 = Taken
  <2>1. Taken - 1 \in Nat /\ (Taken - 1) + 1 = Taken
    BY <1>3
  <2> QED  BY <2>1
<1>8. Cur = All[n + 1] /\ Taken - 1 = n
  BY <1>7 DEF Cur
<1>9. at = Cur.start + TaskSectors(Cur)
  BY <1>1, <1>2, <1>3
<1>10. ASSUME ~flash.skipped, NEW a \in Addrs
       PROVE  ByPatches(Patches, 0, All, Taken, flash.base, a, disk[a])
  <2>1. IF a >= Cur.start * SectorBytes /\ a < at * SectorBytes
        THEN disk[a] = TaskByte(Cur, a)
        ELSE ByTasks(All, n, flash.base, a, disk[a])
    BY <1>1, <1>8, <1>10 DEF FInv, Made
  <2>2. a \in TaskSpan(Cur) <=> a >= Cur.start * SectorBytes /\ a < at * SectorBytes
    BY <1>3, <1>9 DEF Touches
  <2>3. ByTasks(All, n + 1, flash.base, a, disk[a])
    <3>1. CASE a \in TaskSpan(Cur)
      <4>1. disk[a] = TaskByte(All[n + 1], a)
        BY <1>8, <2>1, <2>2, <3>1
      <4> QED  BY <1>8, <3>1, <4>1, TasksTake
    <3>2. CASE a \notin TaskSpan(Cur)
      <4>1. ByTasks(All, n, flash.base, a, disk[a])
        BY <2>1, <2>2, <3>2
      <4> QED  BY <1>8, <3>2, <4>1, TasksPass
    <3> QED  BY <3>1, <3>2
  <2> QED  BY <1>7, <2>3, NoPatches
<1>11. Made'
  BY <1>1, <1>3, <1>5, <1>10 DEF Made
<1> QED  BY <1>4, <1>5, <1>6, <1>11 DEF FInv

-----------------------------------------------------------------------------
(* The patches *)

\* What the sector of a patch is with the patch in it.
LEMMA PatchedFacts ==
  ASSUME disk \in [Addrs -> Byte], NEW p \in PatchEntry, Resolves(p), p.size <= 8, NEW a \in Addrs
  PROVE  /\ a \in PatchSpan(p) => Touches(p.sector, 1, a) /\ PatchByte(p, a) \in Byte
         /\ Touches(p.sector, 1, a) =>
              /\ Patched(p)[a - p.sector * SectorBytes + 1]
                   = IF a \in PatchSpan(p) THEN PatchByte(p, a) ELSE disk[a]
              /\ Patched(p)[a - p.sector * SectorBytes + 1] \in Byte
<1>1. p.sector \in Nat /\ p.offset \in Nat /\ p.size \in Nat
  BY DEF PatchEntry
<1>2. a \in Nat /\ SectorBytes \in Nat /\ SectorBytes >= 1 /\ p.sector * SectorBytes \in Nat
  BY <1>1, JobsAssumption, Scale DEF Addrs
<1>3. /\ Touches(p.sector, 1, a) <=> a \div SectorBytes = p.sector
      /\ Touches(p.sector, 1, a) => a - p.sector * SectorBytes = a % SectorBytes
      /\ a % SectorBytes \in 0..(SectorBytes - 1)
  BY <1>1, <1>2, SectorOf
<1>4. PICK i \in 0..(SectorBytes - 1) : i = a % SectorBytes
  BY <1>3
<1>5. a \in PatchSpan(p) <=> Touches(p.sector, 1, a) /\ i >= p.offset /\ i < p.offset + p.size
  BY <1>3, <1>4 DEF PatchSpan
<1>6. PatchByte(p, a) = PatchBytes(p)[(i - p.offset) + 1]
  BY <1>4 DEF PatchByte
<1>7. ASSUME i >= p.offset, i < p.offset + p.size PROVE PatchByte(p, a) \in Byte
  <2>1. (i - p.offset) + 1 \in 1..p.size
    BY <1>1, <1>4, <1>7
  <2> QED  BY <1>6, <2>1, PatchBytesType
<1>8. ASSUME Touches(p.sector, 1, a)
      PROVE  /\ Patched(p)[a - p.sector * SectorBytes + 1]
                  = IF a \in PatchSpan(p) THEN PatchByte(p, a) ELSE disk[a]
             /\ Patched(p)[a - p.sector * SectorBytes + 1] \in Byte
  <2>1. a - p.sector * SectorBytes + 1 = i + 1
    BY <1>3, <1>4, <1>8
  <2>2. PICK j \in 1..SectorBytes : j = i + 1
    BY <1>2, <1>4
  <2>3. Patched(p)[j] = IF j > p.offset /\ j <= p.offset + p.size THEN PatchBytes(p)[j - p.offset]
                        ELSE Bytes(p.sector, 1)[j]
    BY DEF Patched
  <2>4. j - p.offset = (i - p.offset) + 1
        /\ (j > p.offset /\ j <= p.offset + p.size <=> i >= p.offset /\ i < p.offset + p.size)
    BY <1>1, <1>4, <2>2
  <2>5. Bytes(p.sector, 1)[j] = disk[a]
    <3>1. 1 * SectorBytes = SectorBytes
      BY <1>2
    <3>2. Bytes(p.sector, 1)[j] = disk[p.sector * SectorBytes + j - 1]
      BY <3>1 DEF Bytes
    <3>3. p.sector * SectorBytes + j - 1 = a
      BY <1>2, <1>4, <2>1, <2>2
    <3> QED  BY <3>2, <3>3
  <2>6. Patched(p)[j] = IF a \in PatchSpan(p) THEN PatchByte(p, a) ELSE disk[a]
    BY <1>5, <1>6, <1>8, <2>3, <2>4, <2>5
  <2>7. disk[a] \in Byte
    OBVIOUS
  <2> QED  BY <1>5, <1>7, <2>1, <2>2, <2>6, <2>7
<1> QED  BY <1>5, <1>7, <1>8

\* Taking up a patch.
LEMMA PatchTaken ==
  ASSUME FInv, pc = "flash", pc' = "flash", flash.tasks = <<>>, flash.plan.patch = "good",
         flash.patches # <<>>, NEW skipped \in BOOLEAN, NextPatch(skipped)
  PROVE  /\ Head(flash.patches) \in PatchEntry /\ Head(flash.patches) = Patches[Tried + 1]
         /\ All' = All /\ Patches' = Patches /\ Taken' = Taken
         /\ Tried \in Nat /\ Tried' = Tried + 1
         /\ flash'.base = flash.base /\ flash'.skipped = (flash.skipped \/ skipped)
         /\ FlashTyped' /\ Ahead'
<1> DEFINE p == Head(flash.patches)
<1>1. p \in PatchEntry /\ Tail(flash.patches) \in Seq(PatchEntry)
      /\ Len(Tail(flash.patches)) = Len(flash.patches) - 1
      /\ \A k \in 1..Len(Tail(flash.patches)) : Tail(flash.patches)[k] = flash.patches[k + 1]
  BY FlashFacts, HeadTailProperties
<1>2. Len(flash.patches) \in Nat /\ Len(flash.patches) >= 1 /\ p = flash.patches[1]
      /\ Len(Patches) \in Nat
  BY FlashFacts, EmptySeq
<1>3. /\ Len(flash.tasks) <= Len(All) /\ Len(flash.patches) <= Len(Patches)
      /\ \A k \in 1..Len(flash.tasks) : flash.tasks[k] = All[Taken + k]
      /\ \A k \in 1..Len(flash.patches) : flash.patches[k] = Patches[Tried + k]
  BY DEF FInv, Ahead, FlashLoops
<1>4. Tried \in Nat /\ p = Patches[Tried + 1]
  <2>1. Tried = Len(Patches) - Len(flash.patches)
    BY DEF Tried
  <2>2. Len(flash.patches) <= Len(Patches) /\ 1 \in 1..Len(flash.patches)
    BY <1>2, <1>3
  <2>3. Len(flash.patches) \in Nat /\ Len(Patches) \in Nat
    BY <1>2
  <2>4. Tried \in Nat
    BY <2>1, <2>2, <2>3
  <2> QED  BY <1>2, <1>3, <2>2, <2>4
<1>5. flash' = [flash EXCEPT !.patches = Tail(@), !.skipped = @ \/ skipped]
  BY DEF NextPatch
<1>6. FlashTyped' /\ flash'.plan = flash.plan /\ flash'.tasks = flash.tasks
      /\ flash'.patches = Tail(flash.patches)
      /\ flash'.base = flash.base /\ flash'.skipped = (flash.skipped \/ skipped)
  BY <1>1, <1>5 DEF FInv, FlashTyped
<1>7. All' = All /\ Patches' = Patches /\ Taken' = Taken
  BY <1>6 DEF All, Patches, Taken
<1>8. Tried' = Tried + 1
  <2>1. Tried' = Len(Patches') - Len(flash'.patches)
    BY DEF Tried
  <2>2. Len(flash'.patches) = Len(flash.patches) - 1 /\ Tried = Len(Patches) - Len(flash.patches)
    BY <1>1, <1>6 DEF Tried
  <2>3. Tried' = Len(Patches) - (Len(flash.patches) - 1)
    BY <1>7, <2>1, <2>2
  <2>4. Len(flash.patches) \in Nat /\ Len(Patches) \in Nat
    BY <1>2
  <2> QED  BY <2>2, <2>3, <2>4
<1>9. Ahead'
  <2>1. Len(flash'.patches) <= Len(Patches)
    BY <1>1, <1>2, <1>3, <1>6
  <2>2. ASSUME NEW k \in 1..Len(flash'.patches) PROVE flash'.patches[k] = Patches[Tried' + k]
    <3>1. k + 1 \in 1..Len(flash.patches) /\ flash'.patches[k] = flash.patches[k + 1]
      BY <1>1, <1>2, <1>6, <2>2
    <3>2. Tried + (k + 1) = Tried' + k
      BY <1>4, <1>8
    <3> QED  BY <1>3, <3>1, <3>2
  <2>3. pc' \notin InTask
    BY DEF InTask
  <2> QED  BY <1>3, <1>6, <1>7, <2>1, <2>2, <2>3 DEF Ahead
<1> QED  BY <1>1, <1>4, <1>6, <1>7, <1>8, <1>9

LEMMA FlashPatchFInv == ASSUME FInv, FlashPatch PROVE FInv'
<1> DEFINE p == Head(flash.patches)
<1>1. /\ pc = "flash" /\ flash.tasks = <<>> /\ flash.plan.patch = "good" /\ flash.patches # <<>>
      /\ Resolves(p) /\ p.size <= 8 /\ Put(p.sector, 1, Patched(p)) /\ NextPatch(FALSE)
      /\ UNCHANGED <<pc, img, src, at, left, result, payload, njobs, file>>
  BY DEF FlashPatch, job
<1>2. /\ TypeOK /\ disk \in [Addrs -> Byte] /\ fresh \in BOOLEAN /\ njobs \in 0..MaxJobs
      /\ at \in Nat /\ left \in Nat /\ img \in Image /\ src \in Seq(Byte)
      /\ flash.skipped \in BOOLEAN
  BY FlashFacts
<1>3. /\ p \in PatchEntry /\ p = Patches[Tried + 1]
      /\ All' = All /\ Patches' = Patches /\ Taken' = Taken
      /\ Tried \in Nat /\ Tried' = Tried + 1
      /\ flash'.base = flash.base /\ flash'.skipped = (flash.skipped \/ FALSE)
      /\ FlashTyped' /\ Ahead'
  BY <1>1, PatchTaken
<1> HIDE DEF p
<1>4. p.sector \in Nat
  BY <1>3 DEF PatchEntry
<1>5. ASSUME NEW a \in Addrs
      PROVE  /\ a \in PatchSpan(p) => Touches(p.sector, 1, a)
             /\ Touches(p.sector, 1, a) =>
                  /\ Patched(p)[a - p.sector * SectorBytes + 1]
                       = IF a \in PatchSpan(p) THEN PatchByte(p, a) ELSE disk[a]
                  /\ Patched(p)[a - p.sector * SectorBytes + 1] \in Byte
  BY <1>1, <1>2, <1>3, PatchedFacts
<1>6. \A a \in Addrs : Touches(p.sector, 1, a) => Patched(p)[a - p.sector * SectorBytes + 1] \in Byte
  BY <1>5
<1>7. /\ disk' \in [Addrs -> Byte] /\ fresh' \in BOOLEAN
      /\ \A a \in Addrs : disk'[a] = IF Touches(p.sector, 1, a)
                                     THEN Patched(p)[a - p.sector * SectorBytes + 1] ELSE disk[a]
  BY <1>1, <1>2, <1>4, <1>6, PutEffect
<1>8. \A a \in Addrs : disk'[a] = IF a \in PatchSpan(p) THEN PatchByte(p, a) ELSE disk[a]
  BY <1>5, <1>7
<1>9. pc' = "flash" /\ pc' \in FlashLoops /\ pc' \notin InTask /\ result' = NoResult
  <2>1. result = NoResult
    BY <1>1 DEF FInv, IInv, Shape
  <2> QED  BY <1>1, <2>1 DEF FlashLoops, InTask
<1>10. IInv'
  BY <1>1, <1>2, <1>7, <1>9, FlashStepIInv
<1>11. Within' /\ FlashExact'
  BY <1>9 DEF Within, FlashExact, NoResult
<1>12. ASSUME ~flash.skipped, NEW a \in Addrs
       PROVE  ByPatches(Patches, Tried + 1, All, Taken, flash.base, a, disk'[a])
  <2>1. ByPatches(Patches, Tried, All, Taken, flash.base, a, disk[a])
    BY <1>1, <1>12 DEF FInv, Made
  <2>2. CASE a \in PatchSpan(p)
    <3>1. disk'[a] = PatchByte(Patches[Tried + 1], a)
      BY <1>3, <1>8, <2>2
    <3> QED  BY <1>3, <2>2, <3>1, PatchesTake
  <2>3. CASE a \notin PatchSpan(p)
    <3>1. disk'[a] = disk[a]
      BY <1>8, <2>3
    <3> QED  BY <1>3, <2>1, <2>3, <3>1, PatchesPass
  <2> QED  BY <2>2, <2>3
<1>13. Made'
  BY <1>3, <1>9, <1>12 DEF Made
<1> QED  BY <1>3, <1>10, <1>11, <1>13 DEF FInv

\* What skipping a patch does to the disk.
LEMMA SkippedFacts ==
  ASSUME FInv, FlashPatchSkipped
  PROVE  /\ pc = "flash" /\ flash.tasks = <<>> /\ flash.plan.patch = "good" /\ flash.patches # <<>>
         /\ NextPatch(TRUE)
         /\ UNCHANGED <<pc, img, src, at, left, result, payload, njobs, file>>
         /\ disk' \in [Addrs -> Byte] /\ fresh' \in BOOLEAN /\ (fresh' => fresh /\ disk' = disk)
         /\ \A a \in Addrs : disk'[a] = disk[a] \/ a \in PatchSpan(Head(flash.patches))
<1> DEFINE p == Head(flash.patches)
<1>1. /\ pc = "flash" /\ flash.tasks = <<>> /\ flash.plan.patch = "good" /\ flash.patches # <<>>
      /\ NextPatch(TRUE)
      /\ UNCHANGED <<pc, img, src, at, left, result, payload, njobs, file>>
      /\ \/ UNCHANGED <<disk, fresh>>
         \/ Resolves(p) /\ p.size <= 8 /\ PutSome(p.sector, 1, Patched(p))
  BY DEF FlashPatchSkipped, job
<1>2. disk \in [Addrs -> Byte] /\ fresh \in BOOLEAN /\ flash.patches \in Seq(PatchEntry)
  BY FlashFacts
<1>3. p \in PatchEntry
  BY <1>1, <1>2, HeadTailProperties
<1> HIDE DEF p
<1>4. p.sector \in Nat
  BY <1>3 DEF PatchEntry
<1>5. CASE UNCHANGED <<disk, fresh>>
  BY <1>1, <1>2, <1>5
<1>6. CASE Resolves(p) /\ p.size <= 8 /\ PutSome(p.sector, 1, Patched(p))
  <2>1. ASSUME NEW a \in Addrs, Touches(p.sector, 1, a)
        PROVE  /\ Patched(p)[a - p.sector * SectorBytes + 1]
                    = IF a \in PatchSpan(p) THEN PatchByte(p, a) ELSE disk[a]
               /\ Patched(p)[a - p.sector * SectorBytes + 1] \in Byte
    BY <1>2, <1>3, <1>6, <2>1, PatchedFacts
  <2>2. \A a \in Addrs : Touches(p.sector, 1, a) => Patched(p)[a - p.sector * SectorBytes + 1] \in Byte
    BY <2>1
  <2>3. /\ disk' \in [Addrs -> Byte] /\ fresh' \in BOOLEAN /\ (fresh' => fresh /\ disk' = disk)
        /\ \A a \in Addrs :
             \/ disk'[a] = disk[a]
             \/ /\ Touches(p.sector, 1, a)
                /\ disk'[a] = Patched(p)[a - p.sector * SectorBytes + 1]
    BY <1>2, <1>4, <1>6, <2>2, PutSomeEffect
  <2>4. \A a \in Addrs : disk'[a] = disk[a] \/ a \in PatchSpan(p)
    BY <2>1, <2>3
  <2> QED  BY <1>1, <2>3, <2>4 DEF p
<1> QED  BY <1>1, <1>5, <1>6

LEMMA FlashPatchSkippedFInv == ASSUME FInv, FlashPatchSkipped PROVE FInv'
<1>1. /\ pc = "flash" /\ flash.tasks = <<>> /\ flash.plan.patch = "good" /\ flash.patches # <<>>
      /\ NextPatch(TRUE)
      /\ UNCHANGED <<pc, img, src, at, left, result, payload, njobs, file>>
      /\ disk' \in [Addrs -> Byte] /\ fresh' \in BOOLEAN
  BY SkippedFacts
<1>2. /\ TypeOK /\ njobs \in 0..MaxJobs
      /\ at \in Nat /\ left \in Nat /\ img \in Image /\ src \in Seq(Byte)
  BY FlashFacts
<1>3. FlashTyped' /\ Ahead' /\ flash'.skipped = (flash.skipped \/ TRUE)
  BY <1>1, PatchTaken
<1>4. pc' = "flash" /\ pc' \in FlashLoops /\ pc' \notin InTask /\ result' = NoResult
  <2>1. result = NoResult
    BY <1>1 DEF FInv, IInv, Shape
  <2> QED  BY <1>1, <2>1 DEF FlashLoops, InTask
<1>5. IInv'
  BY <1>1, <1>2, <1>4, FlashStepIInv
<1>6. Within' /\ FlashExact' /\ Made'
  BY <1>3, <1>4 DEF Within, FlashExact, Made, NoResult
<1> QED  BY <1>3, <1>5, <1>6 DEF FInv

-----------------------------------------------------------------------------
(* The end of a flash *)

LEMMA LastFound ==
  ASSUME NEW n \in Nat, NEW spans, DOMAIN spans = 1..n, NEW a, NEW k \in 1..n, a \in spans[k],
         \A j \in (k + 1)..n : a \notin spans[j]
  PROVE  LastOf(spans, a) # {} /\ (CHOOSE j \in LastOf(spans, a) : TRUE) = k
<1>1. \A j \in 1..n : j > k => j \in (k + 1)..n
  OBVIOUS
<1>2. k \in LastOf(spans, a)
  BY <1>1 DEF LastOf
<1>3. ASSUME NEW j \in LastOf(spans, a) PROVE j = k
  <2>1. j \in 1..n /\ a \in spans[j] /\ (k > j => a \notin spans[k])
    BY DEF LastOf
  <2>2. ~(j > k) /\ ~(k > j)
    BY <1>1, <2>1
  <2> QED  BY <2>1, <2>2
<1> QED  BY <1>2, <1>3

LEMMA NoneFound ==
  ASSUME NEW n \in Nat, NEW spans, DOMAIN spans = 1..n, NEW a, \A j \in 1..n : a \notin spans[j]
  PROVE  LastOf(spans, a) = {}
  BY DEF LastOf

\* The patches that are applied at all.
Used(plan) == IF plan.patch = "good" THEN Parsed(plan.patches) ELSE <<>>

\* What is left when the last task and the last patch have been taken up.
LEMMA FlashedByte ==
  ASSUME NEW plan \in FlashPlan, NEW base \in [Addrs -> Byte], NEW a \in Addrs, NEW v,
         ByPatches(Used(plan), Len(Used(plan)), Parsed(plan.tasks), Len(Parsed(plan.tasks)),
                   base, a, v)
  PROVE  Flashed(plan, base)[a] = v
<1> DEFINE tasks == Parsed(plan.tasks)   patches == Used(plan)
           ts == [k \in DOMAIN tasks |-> TaskSpan(tasks[k])]
           ps == [k \in DOMAIN patches |-> PatchSpan(patches[k])]
<1>1. tasks \in Seq(Task) /\ patches \in Seq(PatchEntry)
  BY ParsedFacts, EmptySeq DEF FlashPlan, Used
<1>2. PICK n \in Nat : n = Len(tasks)
  BY <1>1, LenProperties
<1>3. PICK m \in Nat : m = Len(patches)
  BY <1>1, LenProperties
<1>4. DOMAIN tasks = 1..n /\ DOMAIN patches = 1..m
  BY <1>1, <1>2, <1>3, LenProperties
<1>5. /\ DOMAIN ts = 1..n /\ (\A k \in 1..n : ts[k] = TaskSpan(tasks[k]))
      /\ DOMAIN ps = 1..m /\ (\A k \in 1..m : ps[k] = PatchSpan(patches[k]))
  BY <1>4
<1>6. Flashed(plan, base)[a] =
        IF LastOf(ps, a) # {} THEN PatchByte(patches[CHOOSE k \in LastOf(ps, a) : TRUE], a)
        ELSE IF LastOf(ts, a) # {} THEN TaskByte(tasks[CHOOSE k \in LastOf(ts, a) : TRUE], a)
        ELSE base[a]
  BY DEF Flashed, Used
<1> HIDE DEF ts, ps
<1>7. ByPatches(patches, m, tasks, n, base, a, v)
  BY <1>2, <1>3
<1>8. CASE \E k \in 1..m : /\ a \in PatchSpan(patches[k]) /\ v = PatchByte(patches[k], a)
                           /\ \A j \in (k + 1)..m : a \notin PatchSpan(patches[j])
  <2>1. PICK k \in 1..m : /\ a \in PatchSpan(patches[k]) /\ v = PatchByte(patches[k], a)
                          /\ \A j \in (k + 1)..m : a \notin PatchSpan(patches[j])
    BY <1>8
  <2>2. \A j \in (k + 1)..m : j \in 1..m
    OBVIOUS
  <2>3. a \in ps[k] /\ \A j \in (k + 1)..m : a \notin ps[j]
    BY <1>5, <2>1, <2>2
  <2>4. LastOf(ps, a) # {} /\ (CHOOSE j \in LastOf(ps, a) : TRUE) = k
    BY <1>5, <2>3, LastFound
  <2> QED  BY <1>6, <2>1, <2>4
<1>9. CASE (\A j \in 1..m : a \notin PatchSpan(patches[j])) /\ ByTasks(tasks, n, base, a, v)
  <2>1. LastOf(ps, a) = {}
    <3>1. \A j \in 1..m : a \notin ps[j]
      BY <1>5, <1>9
    <3> QED  BY <1>5, <3>1, NoneFound
  <2>2. CASE \E k \in 1..n : /\ a \in TaskSpan(tasks[k]) /\ v = TaskByte(tasks[k], a)
                             /\ \A j \in (k + 1)..n : a \notin TaskSpan(tasks[j])
    <3>1. PICK k \in 1..n : /\ a \in TaskSpan(tasks[k]) /\ v = TaskByte(tasks[k], a)
                            /\ \A j \in (k + 1)..n : a \notin TaskSpan(tasks[j])
      BY <2>2
    <3>2. \A j \in (k + 1)..n : j \in 1..n
      OBVIOUS
    <3>3. a \in ts[k] /\ \A j \in (k + 1)..n : a \notin ts[j]
      BY <1>5, <3>1, <3>2
    <3>4. LastOf(ts, a) # {} /\ (CHOOSE j \in LastOf(ts, a) : TRUE) = k
      BY <1>5, <3>3, LastFound
    <3> QED  BY <1>6, <2>1, <3>1, <3>4
  <2>3. CASE (\A j \in 1..n : a \notin TaskSpan(tasks[j])) /\ v = base[a]
    <3>1. \A j \in 1..n : a \notin ts[j]
      BY <1>5, <2>3
    <3>2. LastOf(ts, a) = {}
      BY <1>5, <3>1, NoneFound
    <3> QED  BY <1>6, <2>1, <2>3, <3>2
  <2> QED  BY <1>9, <2>2, <2>3 DEF ByTasks
<1> QED  BY <1>7, <1>8, <1>9 DEF ByPatches

LEMMA FlashFinishFInv == ASSUME FInv, FlashFinish PROVE FInv'
<1> DEFINE st == IF flash.plan.patch = "bad" THEN "error" ELSE "ok"
           used == Used(flash.plan)
<1>1. /\ pc = "flash" /\ flash.tasks = <<>> /\ (flash.plan.patch = "good" => flash.patches = <<>>)
      /\ Return("flash", st, NoImage)
      /\ UNCHANGED <<payload, njobs, disk, file, fresh, flash>>
  BY DEF FlashFinish
<1>2. /\ TypeOK /\ disk \in [Addrs -> Byte] /\ fresh \in BOOLEAN /\ njobs \in 0..MaxJobs
      /\ flash.plan \in FlashPlan /\ flash.base \in [Addrs -> Byte]
      /\ flash.plan.patch \in {"none", "bad", "good"}
      /\ Len(All) \in Nat /\ Len(Patches) \in Nat
  BY FlashFacts
<1>3. st \in Verdicts
  BY DEF Verdicts
<1>4. IInv' /\ pc' = "idle" /\ result' = [job |-> "flash", st |-> st, img |-> NoImage]
  BY <1>1, <1>2, <1>3, FlashReturnIInv, NoImageType
<1>5. FlashTyped'
  BY <1>1, SameFlash DEF FInv
<1>6. pc' \notin FlashLoops /\ pc' \notin InTask /\ pc' # "flash"
  BY <1>4 DEF FlashLoops, InTask
<1>7. Ahead' /\ Within' /\ Made'
  BY <1>6 DEF Ahead, Within, Made
<1>8. ASSUME st = "ok", ~flash.skipped PROVE disk = Flashed(flash.plan, flash.base)
  <2>1. Taken = Len(All)
    <3>1. Taken = Len(All) - Len(<<>>)
      BY <1>1 DEF Taken
    <3>2. Len(<<>>) = 0
      BY EmptySeq
    <3> QED  BY <1>2, <3>1, <3>2
  <2>2. \A a \in Addrs : ByPatches(Patches, Tried, All, Taken, flash.base, a, disk[a])
    BY <1>1, <1>8 DEF FInv, Made
  <2>3. ASSUME NEW a \in Addrs
        PROVE  ByPatches(used, Len(used), All, Len(All), flash.base, a, disk[a])
    <3>1. ByPatches(Patches, Tried, All, Len(All), flash.base, a, disk[a])
      BY <2>1, <2>2
    <3>2. CASE flash.plan.patch = "good"
      <4>1. used = Patches
        BY <3>2 DEF Patches, Used
      <4>2. Tried = Len(Patches)
        <5>1. Tried = Len(Patches) - Len(<<>>) /\ Len(<<>>) = 0
          BY <1>1, <3>2, EmptySeq DEF Tried
        <5> QED  BY <1>2, <5>1
      <4> QED  BY <3>1, <4>1, <4>2
    <3>3. CASE flash.plan.patch # "good"
      <4>1. used = <<>> /\ Len(used) = 0
        BY <3>3, EmptySeq DEF Used
      <4>2. Tried = 0
        BY <1>1, <3>3 DEF FInv, Ahead, FlashLoops
      <4>3. ByTasks(All, Len(All), flash.base, a, disk[a])
        BY <3>1, <4>2, NoPatches
      <4> HIDE DEF used
      <4>4. ByPatches(used, 0, All, Len(All), flash.base, a, disk[a])
        BY <4>3, NoPatches
      <4> QED  BY <4>1, <4>4
    <3> QED  BY <3>2, <3>3
  <2>4. ASSUME NEW a \in Addrs PROVE Flashed(flash.plan, flash.base)[a] = disk[a]
    BY <1>2, <2>3, FlashedByte DEF All
  <2>5. Flashed(flash.plan, flash.base) = [a \in Addrs |-> Flashed(flash.plan, flash.base)[a]]
    BY DEF Flashed
  <2>6. disk = [a \in Addrs |-> disk[a]]
    BY <1>2
  <2> QED  BY <2>4, <2>5, <2>6
<1>9. FlashExact'
  BY <1>1, <1>4, <1>8 DEF FlashExact
<1> QED  BY <1>4, <1>5, <1>7, <1>9 DEF FInv

LEMMA FlashNextFInv == ASSUME FInv, [FlashNext]_flashVars PROVE FInv'
<1>1. CASE Next /\ flash' = NoFlash
  BY <1>1, OthersFInv
<1>2. CASE \E plan \in Plans : FlashStart(plan)
  BY <1>2, FlashStartFInv
<1>3. CASE FlashTask \/ FlashPiece \/ FlashPanics \/ FlashTaskDone
  BY <1>3, FlashTaskFInv, FlashPieceFInv, FlashPanicsFInv, FlashTaskDoneFInv
<1>4. CASE FlashPatch \/ FlashPatchSkipped \/ FlashPatchPanics \/ FlashFinish
  BY <1>4, FlashPatchFInv, FlashPatchSkippedFInv, FlashPatchPanicsFInv, FlashFinishFInv
<1>5. CASE FlashStops
  BY <1>5, FlashStopsFInv
<1>6. CASE UNCHANGED flashVars
  BY <1>6, StutterFInv
<1> QED  BY <1>1, <1>2, <1>3, <1>4, <1>5, <1>6 DEF FlashNext, FlashWorks

-----------------------------------------------------------------------------
(***************************************************************************)
(* The inductive invariant: that of the other jobs, what the job has       *)
(* before it, where it is in its task, and what the disk has become of the *)
(* entries it is past.                                                     *)
(***************************************************************************)
THEOREM FlashInductive == FlashSpec => []FInv
  BY FlashInitFInv, FlashNextFInv, PTL DEF FlashSpec

(***************************************************************************)
(* A FlashJob that returns Ok, and skipped no patch, has left every byte   *)
(* as the last patch about it says, or else the last task, and every other *)
(* byte as it was: for every plan, also one whose entries overlap, or that *)
(* names the same sectors again, and every payload.                        *)
(***************************************************************************)
THEOREM FlashesAreExact == FlashSpec => []FlashExact
<1>1. FInv => FlashExact
  BY DEF FInv
<1> QED  BY <1>1, FlashInductive, PTL

(***************************************************************************)
(* With flashes among them, the jobs on a partition keep what is proved of *)
(* them without: their types, and that a write or an erase that returns Ok *)
(* has left what it should.                                                *)
(***************************************************************************)
THEOREM JobsAmongFlashes == FlashSpec => [](TypeOK /\ WriteExact /\ EraseExact)
<1>1. FInv => TypeOK /\ WriteExact /\ EraseExact
  BY DEF FInv, IInv, Done
<1> QED  BY <1>1, FlashInductive, PTL

-----------------------------------------------------------------------------
(* What no step of a flash changes *)

\* The entries a flash goes by are those of its plan.
LEMMA TasksNamed ==
  ASSUME FInv, pc \in InTask PROVE TaskSpan(Cur) \subseteq Named(flash.plan)
<1>1. Taken \in 1..Len(All)
  <2>1. Taken \in Nat /\ Taken >= 1 /\ Taken <= Len(All) /\ Len(All) \in Nat
    BY CurFacts, FlashFacts
  <2> QED  BY <2>1
<1>2. flash.plan.tasks \in Seq(Task)
  BY FlashFacts DEF FlashPlan
<1>3. PICK k \in DOMAIN flash.plan.tasks : Cur = flash.plan.tasks[k]
  BY <1>1, <1>2, ParsedFacts DEF Cur, All
<1> QED  BY <1>3 DEF Named

LEMMA PatchesNamed ==
  ASSUME FInv, pc = "flash", flash.patches # <<>>
  PROVE  PatchSpan(Head(flash.patches)) \subseteq Named(flash.plan)
<1>1. flash.patches \in Seq(PatchEntry) /\ flash.plan.patches \in Seq(PatchEntry)
  BY FlashFacts DEF FlashPlan
<1>2. Len(flash.patches) \in Nat /\ Len(flash.patches) >= 1 /\ Len(Patches) \in Nat
      /\ Head(flash.patches) = flash.patches[1]
  BY <1>1, FlashFacts, EmptySeq
<1>3. Len(flash.patches) <= Len(Patches)
      /\ \A k \in 1..Len(flash.patches) : flash.patches[k] = Patches[Tried + k]
  BY DEF FInv, Ahead, FlashLoops
<1>4. Tried + 1 \in 1..Len(Patches)
  <2>1. Tried = Len(Patches) - Len(flash.patches)
    BY DEF Tried
  <2> QED  BY <1>2, <1>3, <2>1
<1>5. Head(flash.patches) = Patches[Tried + 1]
  <2>1. 1 \in 1..Len(flash.patches)
    BY <1>2
  <2> QED  BY <1>2, <1>3, <2>1
<1>6. PICK k \in DOMAIN flash.plan.patches : Head(flash.patches) = flash.plan.patches[k]
  BY <1>1, <1>4, <1>5, ParsedFacts DEF Patches
<1> QED  BY <1>6 DEF Named

LEMMA FlashNextContained ==
  ASSUME FInv, [FlashNext]_flashVars, pc \in FlashLoops, NEW a \in Addrs \ Named(flash.plan)
  PROVE  disk'[a] = disk[a]
<1>1. disk \in [Addrs -> Byte] /\ fresh \in BOOLEAN /\ at \in Nat
  BY FlashFacts
<1>2. CASE disk' = disk
  BY <1>2
<1>3. CASE FlashPiece \/ FlashStops
  <2>1. pc \in InTask /\ left > 0 /\ (Put(at, Piece, PieceBytes) \/ PutSome(at, Piece, PieceBytes))
    BY <1>3 DEF FlashPiece, FlashStops, InTask
  <2>2. /\ Piece \in Nat
        /\ \A x \in Addrs : Touches(at, Piece, x) =>
             x \in TaskSpan(Cur) /\ PieceBytes[x - at * SectorBytes + 1] \in Byte
    BY <2>1, PieceFacts
  <2>3. \A x \in Addrs : Touches(at, Piece, x) => PieceBytes[x - at * SectorBytes + 1] \in Byte
    BY <2>2
  <2>4. ~Touches(at, Piece, a)
    BY <2>1, <2>2, TasksNamed
  <2>5. CASE Put(at, Piece, PieceBytes)
    BY <1>1, <2>2, <2>3, <2>4, <2>5, PutEffect
  <2>6. CASE PutSome(at, Piece, PieceBytes)
    BY <1>1, <2>2, <2>3, <2>4, <2>6, PutSomeEffect
  <2> QED  BY <2>1, <2>5, <2>6
<1>4. CASE FlashPatch
  <2> DEFINE p == Head(flash.patches)
  <2>1. /\ pc = "flash" /\ flash.patches # <<>>
        /\ Resolves(p) /\ p.size <= 8 /\ Put(p.sector, 1, Patched(p))
    BY <1>4 DEF FlashPatch
  <2>2. p \in PatchEntry /\ a \notin PatchSpan(p)
    BY <2>1, FlashFacts, HeadTailProperties, PatchesNamed
  <2> HIDE DEF p
  <2>3. p.sector \in Nat
    BY <2>2 DEF PatchEntry
  <2>4. ASSUME NEW x \in Addrs, Touches(p.sector, 1, x)
        PROVE  /\ Patched(p)[x - p.sector * SectorBytes + 1]
                    = IF x \in PatchSpan(p) THEN PatchByte(p, x) ELSE disk[x]
               /\ Patched(p)[x - p.sector * SectorBytes + 1] \in Byte
    BY <1>1, <2>1, <2>2, <2>4, PatchedFacts
  <2>5. \A x \in Addrs : Touches(p.sector, 1, x) => Patched(p)[x - p.sector * SectorBytes + 1] \in Byte
    BY <2>4
  <2>6. \A x \in Addrs : disk'[x] = IF Touches(p.sector, 1, x)
                                    THEN Patched(p)[x - p.sector * SectorBytes + 1] ELSE disk[x]
    BY <1>1, <2>1, <2>3, <2>5, PutEffect
  <2> QED  BY <2>2, <2>4, <2>6
<1>5. CASE FlashPatchSkipped
  BY <1>5, SkippedFacts, PatchesNamed
<1>6. \/ disk' = disk \/ FlashPiece \/ FlashStops \/ FlashPatch \/ FlashPatchSkipped
  <2>1. CASE Next /\ flash' = NoFlash
    BY <2>1, NextIsNoFlash DEF FInv
  <2>2. CASE FlashNext /\ ~Next
    BY <2>2 DEF FlashNext, FlashWorks, FlashStart, FlashTask, FlashPanics, FlashTaskDone,
                FlashPatchPanics, FlashFinish
  <2>3. CASE UNCHANGED flashVars
    BY <2>3 DEF flashVars, vars
  <2>4. (Next /\ flash' = NoFlash) \/ (FlashNext /\ ~Next) \/ UNCHANGED flashVars \/ Next
    OBVIOUS
  <2>5. CASE Next
    BY <2>5, NextIsNoFlash DEF FInv
  <2> QED  BY <2>1, <2>2, <2>3, <2>4, <2>5
<1> QED  BY <1>2, <1>3, <1>4, <1>5, <1>6

(***************************************************************************)
(* Failed, killed or not, a flash changes no byte that no entry of its     *)
(* plan is about.                                                          *)
(***************************************************************************)
THEOREM FlashesStayInPlan == FlashSpec => FlashContained
<1>1. FInv /\ [FlashNext]_flashVars
        => [(pc \in FlashLoops /\ disk' # disk) =>
              \A a \in Addrs \ Named(flash.plan) : disk'[a] = disk[a]]_flashVars
  BY FlashNextContained
<1> QED  BY <1>1, FlashInitFInv, FlashNextFInv, PTL DEF FlashSpec, FlashContained

(***************************************************************************)
(* With flashes among them, no other job changes a byte outside the        *)
(* partition.                                                              *)
(***************************************************************************)
THEOREM OthersStayInside == FlashSpec => OutsideUntouched
<1>1. ASSUME FInv, [FlashNext]_flashVars, pc \notin FlashLoops, NEW a \in Addrs \ Partition
      PROVE  disk'[a] = disk[a]
  <2>1. CASE Next
    BY <2>1, <1>1, NextContained DEF FInv
  <2>2. CASE disk' = disk
    BY <2>2
  <2>3. Next \/ disk' = disk
    BY <1>1 DEF FlashNext, FlashWorks, FlashStart, FlashTask, FlashPiece, FlashPanics, FlashTaskDone,
                FlashStops, FlashPatch, FlashPatchSkipped, FlashPatchPanics, FlashFinish, FlashLoops,
                flashVars, vars
  <2> QED  BY <2>1, <2>2, <2>3
<1>2. FInv /\ [FlashNext]_flashVars
        => [pc \notin FlashLoops => \A a \in Addrs \ Partition : disk'[a] = disk[a]]_vars
  BY <1>1
<1> QED  BY <1>2, FlashInitFInv, FlashNextFInv, PTL DEF FlashSpec, OutsideUntouched

\* A flash leaves the dump file, and is told by fresh if it changes the disk.
LEMMA FlashNextSoFar ==
  ASSUME ~TornWrites, FInv, DumpSoFar, [FlashNext]_flashVars PROVE DumpSoFar'
<1>1. IInv
  BY DEF FInv
<1>2. CASE Next \/ UNCHANGED flashVars
  BY <1>1, <1>2, NextSoFar DEF flashVars
<1>3. CASE (\E plan \in Plans : FlashStart(plan)) \/ FlashWorks \/ FlashStops
  <2>1. file' = file
    BY <1>3 DEF FlashWorks, FlashStart, FlashTask, FlashPiece, FlashPanics, FlashTaskDone,
                FlashStops, FlashPatch, FlashPatchSkipped, FlashPatchPanics, FlashFinish
  <2>2. fresh' => fresh /\ disk' = disk
    <3>1. UNCHANGED <<disk, fresh>> \/ FlashPiece \/ FlashStops \/ FlashPatch \/ FlashPatchSkipped
      BY <1>3 DEF FlashWorks, FlashStart, FlashTask, FlashPanics, FlashTaskDone, FlashPatchPanics,
                  FlashFinish
    <3>2. CASE FlashPatchSkipped
      BY <3>2, SkippedFacts
    <3> QED  BY <3>1, <3>2 DEF FlashPiece, FlashStops, FlashPatch, Put, PutSome
  <2>3. pc' # "dump" /\ (result'.job # "dump" \/ result'.st # "ok")
    <3>1. CASE \E plan \in Plans : FlashStart(plan)
      BY <3>1 DEF FlashStart, Begin, Return, NoResult
    <3>2. CASE FlashPanics \/ FlashStops \/ FlashPatchPanics \/ FlashFinish
      BY <3>2 DEF FlashPanics, FlashStops, FlashPatchPanics, FlashFinish, Return
    <3>3. CASE FlashTask \/ FlashPiece \/ FlashTaskDone \/ FlashPatch \/ FlashPatchSkipped
      <4>1. pc \in FlashLoops
        BY <3>3 DEF FlashTask, FlashPiece, FlashTaskDone, FlashPatch, FlashPatchSkipped, FlashLoops
      <4>2. result = NoResult
        BY <4>1 DEF FInv, IInv, Shape, FlashLoops
      <4>3. CASE FlashTask
        <5>1. /\ flash.plan.method \in {"zero", "native"}
              /\ Eraser["zero"] = "flash zero" /\ Eraser["native"] = "flash native"
          BY FlashFacts DEF Eraser
        <5>2. Eraser[flash.plan.method] # "dump"
          BY <5>1
        <5>3. pc = "flash"
          BY <4>3 DEF FlashTask
        <5> DEFINE t == Head(flash.tasks)
        <5>4. \/ Begin(Eraser[flash.plan.method], NoImage, <<>>, t.start, TaskSectors(t))
              \/ UNCHANGED <<job, result>>
              \/ Begin("flash write", t.img, Source(t), t.start, TaskSectors(t))
              \/ Return("flash", "error", t.img)
          BY <4>3 DEF FlashTask
        <5> HIDE DEF t
        <5>5. NoResult.st # "ok"
          BY DEF NoResult
        <5>6. CASE Begin(Eraser[flash.plan.method], NoImage, <<>>, t.start, TaskSectors(t))
          BY <5>2, <5>5, <5>6 DEF Begin
        <5>7. CASE UNCHANGED <<job, result>>
          BY <4>2, <5>3, <5>5, <5>7 DEF job
        <5>8. CASE Begin("flash write", t.img, Source(t), t.start, TaskSectors(t))
          BY <5>5, <5>8 DEF Begin
        <5>9. CASE Return("flash", "error", t.img)
          BY <5>9 DEF Return
        <5> QED  BY <5>4, <5>6, <5>7, <5>8, <5>9
      <4>4. CASE FlashPiece \/ FlashTaskDone \/ FlashPatch \/ FlashPatchSkipped
        <5>1. (pc' = pc \/ pc' = "flash") /\ result' = result
          BY <4>4 DEF FlashPiece, FlashTaskDone, FlashPatch, FlashPatchSkipped, Advance, job
        <5> QED  BY <4>1, <4>2, <5>1 DEF NoResult, FlashLoops
      <4> QED  BY <3>3, <4>3, <4>4
    <3> QED  BY <1>3, <3>1, <3>2, <3>3 DEF FlashWorks
  <2> QED  BY <1>1, <2>1, <2>2, <2>3, OthersSoFar
<1> QED  BY <1>2, <1>3 DEF FlashNext

(***************************************************************************)
(* With flashes among them, before or between its interruptions, a DumpJob *)
(* that returns Ok has left the partition in the file, unless it was       *)
(* changed since the file was begun.                                       *)
(***************************************************************************)
THEOREM DumpsAmongFlashes == ASSUME ~TornWrites PROVE FlashSpec => []DumpExact
<1>1. FlashInit => FInv /\ DumpSoFar
  BY FlashInitFInv, InitDumpSoFar DEF FlashInit
<1>2. FInv /\ DumpSoFar /\ [FlashNext]_flashVars => (FInv /\ DumpSoFar)'
  BY FlashNextFInv, FlashNextSoFar
<1>3. FInv /\ DumpSoFar => DumpExact
  BY SoFarExact DEF FInv
<1> QED  BY <1>1, <1>2, <1>3, PTL DEF FlashSpec
=============================================================================
