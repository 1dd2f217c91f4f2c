-------------------------------- MODULE Jobs --------------------------------
(***************************************************************************)
(* The jobs that move data between a partition and a file (DumpJob,        *)
(* WriteJob, EraseJob, VerifyJob of qedl-job/src/jobs.rs) over a           *)
(* JobContext that reads and writes runs of sectors, each of which may     *)
(* fail, and a program that may be killed between any two of them.         *)
(*                                                                         *)
(* The disk is an array of bytes, SectorBytes to a sector.  A call that    *)
(* fails has written some of its sectors (see FlashService); a file write  *)
(* that is interrupted has written some of its bytes.                      *)
(***************************************************************************)
EXTENDS Sparse

CONSTANTS
  SectorBytes, NSectors,   \* geometry; sectors are 0..NSectors-1
  First, Last,             \* the partition
  Payloads,                \* what max_payload_size may have been negotiated to
  ZeroBuf,                 \* length of ZERO_BUF
  Images,                  \* image files: [bytes, sparse]
  InitDisks,               \* what the disk may hold at first
  MaxJobs,                 \* bound: jobs in a behaviour
  TornWrites               \* whether a file write may stop inside a sector

ASSUME JobsAssumption ==
  /\ SectorBytes \in Nat \ {0} /\ NSectors \in Nat /\ First \in Nat /\ Last \in Nat
  /\ First <= Last /\ Last < NSectors
  /\ Payloads \subseteq Nat /\ ZeroBuf \in Nat \ {0} /\ ZeroBuf % SectorBytes = 0
  /\ MaxJobs \in Nat /\ TornWrites \in BOOLEAN

VARIABLES
  payload,    \* max_payload_size of this device
  pc,         \* which job's loop runs
  img, src,   \* the image file of the job, and the bytes to write
  at, left,   \* sector and remaining of the loop
  result,     \* what the last job returned, with its image
  njobs,
  disk,
  file,       \* the dump file: absent (<<>> and FALSE) or its bytes
  fresh       \* history: the partition is as it was when the dump file was begun

job  == <<pc, img, src, at, left>>
vars == <<payload, job, result, njobs, disk, file, fresh>>

Byte == 0..255
Addrs == 0..(NSectors * SectorBytes - 1)
Partition == (First * SectorBytes)..((Last + 1) * SectorBytes - 1)
PartSectors == Last + 1 - First

\* An image file, and whether it is a sparse image.
Image == [bytes : Seq(Byte), sparse : BOOLEAN]

ASSUME DataAssumption == Images \subseteq Image /\ InitDisks \subseteq [Addrs -> Byte]

AtLeast(x, y) == IF x < y THEN y ELSE x
AtMost(x, y) == IF x < y THEN x ELSE y

\* n sectors from s, as bytes.
Bytes(s, n) == [i \in 1..(n * SectorBytes) |-> disk[s * SectorBytes + i - 1]]

SectorsFor(len) == (len + SectorBytes - 1) \div SectorBytes     \* div_ceil

StartsWith(s, magic) == Len(s) >= Len(magic) /\ SubSeq(s, 1, Len(magic)) = magic

\* The bytes WriteJob and VerifyJob compare the head of a file with; a sparse
\* image has those of SparseMagic.
WriteMagic  == <<237, 38, 255, 54>>
VerifyMagic == <<80, 83, 65, 82>>

\* What is written or digested of a file: expanded if its head says sparse,
\* which fails if it is not.
Contents(i, magic) == IF StartsWith(i.bytes, magic) THEN Expand(i.bytes).out ELSE i.bytes
Expands(i, magic)  == StartsWith(i.bytes, magic) => Expand(i.bytes).ok

-----------------------------------------------------------------------------
\* The loops of the jobs, by what pc says; those of FlashJob are in Flash.
Loops      == {"dump", "write", "zero", "native"}
FlashLoops == {"flash", "flash write", "flash zero", "flash native"}

NoImage == [bytes |-> <<>>, sparse |-> FALSE]
NoFile == [exists |-> FALSE, bytes |-> <<>>]
NoResult == [job |-> "none", st |-> "none", img |-> NoImage]

Init ==
  /\ payload \in Payloads
  /\ pc = "idle" /\ img = NoImage /\ src = <<>> /\ at = First /\ left = 0
  /\ result = NoResult /\ njobs = 0
  /\ disk \in InitDisks
  /\ file = NoFile /\ fresh = FALSE

NewJob == pc = "idle" /\ njobs < MaxJobs /\ njobs' = njobs + 1

\* The job starts its loop over n sectors from s ...
Begin(name, i, bytes, s, n) ==
  /\ pc' = name /\ img' = i /\ src' = bytes /\ at' = s /\ left' = n
  /\ result' = NoResult

\* ... or returns before that, or at last.
Return(name, st, i) ==
  /\ pc' = "idle"
  /\ result' = [job |-> name, st |-> st, img |-> i]
  /\ UNCHANGED <<img, src, at, left>>

\* The loop goes on behind a chunk of n sectors.
Advance(n) == at' = at + n /\ left' = left - n /\ UNCHANGED <<pc, img, src, result>>

\* At least one sector, even if the payload is smaller than one.
PerChunkUnguarded == payload \div SectorBytes      \* faulty: may be none
PerChunk == AtLeast(payload \div SectorBytes, 1)
Chunk == AtMost(left, PerChunk)

-----------------------------------------------------------------------------
(* DumpJob *)

\* Where a dump resumes: behind the whole sectors there are in the file.
ResumedPast == First + Len(file.bytes) \div SectorBytes + 1   \* faulty: skips one
Resumed == First + Len(file.bytes) \div SectorBytes

DumpStart(resume) ==
  /\ NewJob
  /\ LET total == PartSectors * SectorBytes
         again == resume /\ file.exists
         start == IF again THEN Resumed ELSE First
     IN IF again /\ Len(file.bytes) >= total
        THEN Return("dump", "ok", NoImage) /\ UNCHANGED <<file, fresh>>
        ELSE /\ Begin("dump", NoImage, <<>>, start, PartSectors - (start - First))
             /\ file' = [exists |-> TRUE, bytes |-> IF resume THEN file.bytes ELSE <<>>]
             /\ fresh' = (fresh \/ ~again)
  /\ UNCHANGED <<payload, disk>>

DumpChunk ==
  /\ pc = "dump" /\ left > 0
  /\ file' = [file EXCEPT !.bytes = @ \o Bytes(at, Chunk)]
  /\ Advance(Chunk)
  /\ UNCHANGED <<payload, njobs, disk, fresh>>

\* The read fails, the write fails, or the program is killed.
DumpStops ==
  /\ pc = "dump" /\ left > 0
  /\ \E k \in 0..(Chunk * SectorBytes) :
       /\ TornWrites \/ k % SectorBytes = 0
       /\ file' = [file EXCEPT !.bytes = @ \o SubSeq(Bytes(at, Chunk), 1, k)]
  /\ Return("dump", "error", NoImage)
  /\ UNCHANGED <<payload, njobs, disk, fresh>>

-----------------------------------------------------------------------------
(* Writing a run of sectors *)

\* The n sectors from s get the bytes b, all of them ...
Put(s, n, b) ==
  /\ disk' = [a \in Addrs |->
       IF a >= s * SectorBytes /\ a < (s + n) * SectorBytes
       THEN b[a - s * SectorBytes + 1] ELSE disk[a]]
  /\ fresh' = (fresh /\ disk' = disk)

\* ... or some.
PutSome(s, n, b) ==
  /\ \E done \in SUBSET (s..(s + n - 1)) :
       disk' = [a \in Addrs |->
         IF a \div SectorBytes \in done THEN b[a - s * SectorBytes + 1] ELSE disk[a]]
  /\ fresh' = (fresh /\ disk' = disk)

(* WriteJob *)

\* Faulty: the rest of the buffer keeps what the chunk before put there.
FromSourceStale(n) ==
  LET skip == (at - First) * SectorBytes
      back == AtMost(skip, PerChunk * SectorBytes)
  IN [i \in 1..(n * SectorBytes) |->
        IF skip + i <= Len(src) THEN src[skip + i]
        ELSE IF back > 0 THEN src[skip + i - back] ELSE 0]

\* The next n sectors of the source, the last one filled up with zeros.
FromSource(n) ==
  LET skip == (at - First) * SectorBytes IN
  [i \in 1..(n * SectorBytes) |-> IF skip + i <= Len(src) THEN src[skip + i] ELSE 0]

\* Whether the image is larger than the partition.
TooLargeInSectors(len) == len \div SectorBytes > PartSectors   \* faulty: rounds down
TooLarge(len) == len > PartSectors * SectorBytes

WriteStart(i) ==
  /\ NewJob
  /\ LET bytes == Contents(i, WriteMagic) IN
       IF ~Expands(i, WriteMagic) \/ TooLarge(Len(bytes)) THEN Return("write", "error", i)
       ELSE Begin("write", i, bytes, First, SectorsFor(Len(bytes)))
  /\ UNCHANGED <<payload, disk, file, fresh>>

WriteChunk ==
  /\ pc = "write" /\ left > 0
  /\ Put(at, Chunk, FromSource(Chunk))
  /\ Advance(Chunk)
  /\ UNCHANGED <<payload, njobs, file>>

WriteStops ==
  /\ pc = "write" /\ left > 0
  /\ PutSome(at, Chunk, FromSource(Chunk))
  /\ Return("write", "error", img)
  /\ UNCHANGED <<payload, njobs, file>>

-----------------------------------------------------------------------------
(* EraseJob: by writing zeros (JobContext::erase_sectors), or natively *)

EraseStart(method) ==
  /\ NewJob
  /\ Begin(method, NoImage, <<>>, First, PartSectors)
  /\ UNCHANGED <<payload, disk, file, fresh>>

Zeros(n) == [i \in 1..(n * SectorBytes) |-> 0]

\* Sectors written at a time: never fewer than ZERO_BUF has.
EraseChunkSectors == AtMost(left, AtLeast(AtLeast(payload, ZeroBuf) \div SectorBytes, 1))

\* Faulty: counts one sector too many as done.
EraseAdvanceTwo(n) ==
  /\ at' = at + n /\ left' = left - AtMost(left, n + 1)
  /\ UNCHANGED <<pc, img, src, result>>
EraseAdvance(n) == Advance(n)

EraseChunk ==
  /\ pc = "zero" /\ left > 0 /\ EraseChunkSectors * SectorBytes <= ZeroBuf
  /\ Put(at, EraseChunkSectors, Zeros(EraseChunkSectors))
  /\ EraseAdvance(EraseChunkSectors)
  /\ UNCHANGED <<payload, njobs, file>>

\* The slice of ZERO_BUF is longer than ZERO_BUF.
ErasePanics ==
  /\ pc = "zero" /\ left > 0 /\ EraseChunkSectors * SectorBytes > ZeroBuf
  /\ Return("erase", "panic", NoImage)
  /\ UNCHANGED <<payload, njobs, disk, file, fresh>>

EraseNative ==
  /\ pc = "native" /\ left > 0
  /\ Put(at, left, Zeros(left))
  /\ Advance(left)
  /\ UNCHANGED <<payload, njobs, file>>

EraseStops ==
  /\ pc \in {"zero", "native"} /\ left > 0
  /\ LET n == IF pc = "native" THEN left ELSE EraseChunkSectors IN
       /\ n * SectorBytes <= ZeroBuf \/ pc = "native"
       /\ PutSome(at, n, Zeros(n))
  /\ Return("erase", "error", NoImage)
  /\ UNCHANGED <<payload, njobs, file>>

\* The loop of a job is over.
Finish ==
  /\ pc \in Loops /\ left = 0
  /\ Return(IF pc \in {"zero", "native"} THEN "erase" ELSE pc, "ok", img)
  /\ UNCHANGED <<payload, njobs, disk, file, fresh>>

(* VerifyJob: the device's digest of whole sectors against the file's *)
Verify(i) ==
  /\ NewJob
  /\ LET bytes == Contents(i, VerifyMagic)
         n     == SectorsFor(Len(bytes))
         verdict == IF Bytes(First, n) = bytes THEN "verified" ELSE "mismatch"
     IN \/ Expands(i, VerifyMagic) /\ Return("verify", verdict, i)
        \/ Return("verify", "error", i)
  /\ UNCHANGED <<payload, disk, file, fresh>>

-----------------------------------------------------------------------------
\* A step of the loop of the job that runs ...
Works == DumpChunk \/ WriteChunk \/ EraseChunk \/ ErasePanics \/ EraseNative \/ Finish

\* ... or its end, by an error or because the program is killed.
Stops == DumpStops \/ WriteStops \/ EraseStops

Next ==
  \/ \E resume \in BOOLEAN : DumpStart(resume)
  \/ \E i \in Images : WriteStart(i) \/ Verify(i)
  \/ \E method \in {"zero", "native"} : EraseStart(method)
  \/ Works \/ Stops

Spec == Init /\ [][Next]_vars

\* The loop of a job is run as long as it can go on; nothing need ever stop it.
FairSpec == Spec /\ WF_vars(Works)

-----------------------------------------------------------------------------
(* Properties *)

\* Types, and how far the loop is: never past the end of the partition.
TypeOK ==
  /\ payload \in Payloads /\ njobs \in 0..MaxJobs
  /\ pc \in {"idle"} \cup Loops \cup FlashLoops
  /\ img \in Image /\ src \in Seq(Byte)
  /\ at \in Nat /\ left \in Nat /\ (pc \in Loops => at + left <= Last + 1)
  /\ result \in [job : {"none", "dump", "write", "erase", "verify", "flash"},
                 st : {"none", "ok", "error", "panic", "verified", "mismatch"}, img : Image]
  /\ disk \in [Addrs -> Byte]
  /\ file \in [exists : BOOLEAN, bytes : Seq(Byte)] /\ fresh \in BOOLEAN

\* A dump that returns Ok, however often it was interrupted and resumed, has
\* left the partition in the file, unless the partition was changed meanwhile.
DumpExact ==
  result.job = "dump" /\ result.st = "ok" /\ fresh => file.bytes = Bytes(First, PartSectors)

\* A write that returns Ok has left the image in the partition, the rest of
\* its last sector filled with zeros, whatever the payload.
WriteExact ==
  result.job = "write" /\ result.st = "ok" /\ ~result.img.sparse =>
    \A k \in 1..(SectorsFor(Len(result.img.bytes)) * SectorBytes) :
      disk[First * SectorBytes + k - 1] =
        IF k <= Len(result.img.bytes) THEN result.img.bytes[k] ELSE 0

\* An erase that returns Ok has left nothing of the partition.
EraseExact ==
  result.job = "erase" /\ result.st = "ok" => \A a \in Partition : disk[a] = 0

\* No job on a partition, failed or not, changes a byte outside it.
OutsideUntouched ==
  [][pc \notin FlashLoops => \A a \in Addrs \ Partition : disk'[a] = disk[a]]_vars

\* Every job returns, even if no call of it ever fails: with every chunk the
\* loop comes nearer to its end, whatever the payload.
JobReturns == pc # "idle" ~> pc = "idle"

\* "Use slices from the static zero buffer": an erase that is not refused by
\* the device succeeds.
EraseDoesNotPanic == result.st # "panic"
=============================================================================
