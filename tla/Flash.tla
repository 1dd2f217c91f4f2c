-------------------------------- MODULE Flash --------------------------------
(***************************************************************************)
(* FlashJob (qedl-job/src/jobs.rs) with the rawprogram and patch files it  *)
(* goes by (qedl-image): a list of erase and program tasks anywhere on the *)
(* disk, and patches of single sectors after them.  It runs among the jobs *)
(* of Jobs, with their disk and payload, and stops or is killed as they    *)
(* are.                                                                    *)
(*                                                                         *)
(* A plan is [tasks, method, patch, patches]: the entries of the two       *)
(* files, how erase tasks erase, and whether there is a patch file and it  *)
(* can be read.  A task is [kind, parses, start, n, file, sparse, img],    *)
(* where parses tells whether all of its numbers are numbers, and file     *)
(* whether an image is named and exists: none, blank, gone, there; a patch *)
(* is                                                                      *)
(* [parses, sector, offset, size, value].                                  *)
(***************************************************************************)
EXTENDS Jobs, FiniteSets

CONSTANT Plans

Task == [kind : {"erase", "program"}, parses : BOOLEAN, start : Nat, n : Nat,
         file : {"none", "blank", "gone", "there"}, sparse : BOOLEAN, img : Image]
PatchEntry ==
  [parses : BOOLEAN, sector : Nat, offset : Nat, size : Nat, value : STRING]
FlashPlan == [tasks : Seq(Task), method : {"zero", "native"},
              patch : {"none", "bad", "good"}, patches : Seq(PatchEntry)]

ASSUME FlashAssumption == Plans \subseteq FlashPlan

VARIABLE flash     \* the job's locals: [plan, tasks, patches, origin], and of history base, skipped

flashVars == <<vars, flash>>

NoPlan == [tasks |-> <<>>, method |-> "zero", patch |-> "none", patches |-> <<>>]
NoFlash ==
  [plan |-> NoPlan, tasks |-> <<>>, patches |-> <<>>, origin |-> 0,
   base |-> [a \in Addrs |-> 0],     \* the disk when the job was begun
   skipped |-> FALSE]                \* a patch was not applied
FlashInit == Init /\ flash = NoFlash

\* TaskList and PatchSet::from_str leave out what they cannot parse.
Parsed(entries) ==
  LET upTo[k \in 0..Len(entries)] ==
        IF k = 0 THEN <<>>
        ELSE IF entries[k].parses THEN Append(upTo[k - 1], entries[k]) ELSE upTo[k - 1]
  IN upTo[Len(entries)]

\* TaskList::validate_files
FilesThere(tasks) == \A k \in DOMAIN tasks : tasks[k].file # "gone"

FlashStart(plan) ==
  /\ NewJob
  /\ LET tasks == Parsed(plan.tasks) IN
       IF FilesThere(tasks)
       THEN /\ Begin("flash", NoImage, <<>>, 0, 0)
            /\ flash' = [NoFlash EXCEPT !.plan = plan, !.tasks = tasks,
                                        !.patches = Parsed(plan.patches), !.base = disk]
       ELSE Return("flash", "error", NoImage) /\ flash' = NoFlash
  /\ UNCHANGED <<payload, disk, file, fresh>>

-----------------------------------------------------------------------------
(* The tasks, in order.  A program task writes as many sectors as its      *)
(* image fills, whatever the number in the entry; one that names no file   *)
(* is passed over, but an empty name is that of the directory of the       *)
(* images, which is there and cannot be read.                              *)
Source(t)   == IF t.sparse THEN Expand(t.img.bytes).out ELSE t.img.bytes
Readable(t) == t.sparse => Expand(t.img.bytes).ok

TaskSectorsOver(t) == IF t.kind = "erase" THEN t.n + 1 ELSE SectorsFor(Len(Source(t)))   \* faulty
TaskSectors(t)     == IF t.kind = "erase" THEN t.n ELSE SectorsFor(Len(Source(t)))

Eraser == [zero |-> "flash zero", native |-> "flash native"]

FlashTask ==
  /\ pc = "flash" /\ flash.tasks # <<>>
  /\ LET t == Head(flash.tasks) IN
       /\ flash' = [flash EXCEPT !.tasks = Tail(@), !.origin = t.start]
       /\ \/ t.kind = "erase" /\ Begin(Eraser[flash.plan.method], NoImage, <<>>, t.start, TaskSectors(t))
          \/ t.kind = "program" /\ t.file = "none" /\ UNCHANGED <<job, result>>
          \/ /\ t.kind = "program" /\ t.file = "there" /\ Readable(t)
             /\ Begin("flash write", t.img, Source(t), t.start, TaskSectors(t))
          \/ /\ t.kind = "program"
             /\ t.file = "blank" \/ (t.file = "there" /\ ~Readable(t))
             /\ Return("flash", "error", t.img)
  /\ UNCHANGED <<payload, njobs, disk, file, fresh>>

\* The next n sectors of the task's source, filled up with zeros.
FromStart(n) ==                                              \* faulty: the same ones again
  [i \in 1..(n * SectorBytes) |-> IF i <= Len(src) THEN src[i] ELSE 0]
FromTask(n) ==
  LET skip == (at - flash.origin) * SectorBytes IN
  [i \in 1..(n * SectorBytes) |-> IF skip + i <= Len(src) THEN src[skip + i] ELSE 0]

\* What the loop of the current task writes next.
Piece ==
  CASE pc = "flash write"  -> Chunk
    [] pc = "flash zero"   -> EraseChunkSectors
    [] pc = "flash native" -> left
PieceBytes == IF pc = "flash write" THEN FromTask(Piece) ELSE Zeros(Piece)
TooLong    == pc = "flash zero" /\ EraseChunkSectors * SectorBytes > ZeroBuf

FlashPiece ==
  /\ pc \in FlashLoops \ {"flash"} /\ left > 0 /\ ~TooLong
  /\ Put(at, Piece, PieceBytes)
  /\ Advance(Piece)
  /\ UNCHANGED <<payload, njobs, file, flash>>
FlashPanics ==
  /\ pc \in FlashLoops \ {"flash"} /\ left > 0 /\ TooLong
  /\ Return("flash", "panic", NoImage)
  /\ UNCHANGED <<payload, njobs, disk, file, fresh, flash>>
FlashTaskDone ==
  /\ pc \in FlashLoops \ {"flash"} /\ left = 0
  /\ pc' = "flash"
  /\ UNCHANGED <<img, src, at, left, result, payload, njobs, disk, file, fresh, flash>>

FlashStops ==
  /\ pc \in FlashLoops \ {"flash"} /\ left > 0 /\ ~TooLong
  /\ PutSome(at, Piece, PieceBytes)
  /\ Return("flash", "error", img)
  /\ UNCHANGED <<payload, njobs, file, flash>>

-----------------------------------------------------------------------------
(* The patches.  A value is a number, or the name of a variable it begins  *)
(* with; both variables go by the partition that is listed last.           *)
PatchValue(v) ==
  CASE v = "NUM_DISK_SECTORS"   -> Last + 1
    [] v = "LAST_PARTITION_END" -> Last * SectorBytes + SectorBytes
    [] OTHER -> 513                                          \* a number, of two bytes
Resolves(p) == p.value # "CRC32"

\* The first of the eight bytes of the value, the lowest first.
PatchBytes(p) ==
  LET rest[k \in 0..7] == IF k = 0 THEN PatchValue(p.value) ELSE rest[k - 1] \div 256
  IN [i \in 1..p.size |-> rest[i - 1] % 256]

\* The sector with the patch in it, as far as it fits.
PatchShifted(p) ==                                           \* faulty: one byte too far
  [i \in 1..SectorBytes |->
     IF i > p.offset + 1 /\ i <= p.offset + 1 + p.size THEN PatchBytes(p)[i - p.offset - 1]
     ELSE Bytes(p.sector, 1)[i]]
Patched(p) ==
  [i \in 1..SectorBytes |->
     IF i > p.offset /\ i <= p.offset + p.size THEN PatchBytes(p)[i - p.offset]
     ELSE Bytes(p.sector, 1)[i]]

NextPatch(skipped) == flash' = [flash EXCEPT !.patches = Tail(@), !.skipped = @ \/ skipped]

FlashPatch ==
  /\ pc = "flash" /\ flash.tasks = <<>> /\ flash.plan.patch = "good" /\ flash.patches # <<>>
  /\ LET p == Head(flash.patches) IN
       /\ Resolves(p) /\ p.size <= 8 /\ p.offset <= SectorBytes
       /\ Put(p.sector, 1, Patched(p)) /\ NextPatch(FALSE)
  /\ UNCHANGED <<job, result, payload, njobs, file>>

\* Its value cannot be resolved, or the sector not read: the job goes on.
FlashPatchSkipped ==
  /\ pc = "flash" /\ flash.tasks = <<>> /\ flash.plan.patch = "good" /\ flash.patches # <<>>
  /\ NextPatch(TRUE)
  /\ LET p == Head(flash.patches) IN
       \/ (Resolves(p) => p.size <= 8) /\ UNCHANGED <<disk, fresh>>
       \* ... or the write fails, which may have been done.
       \/ Resolves(p) /\ p.size <= 8 /\ p.offset <= SectorBytes /\ PutSome(p.sector, 1, Patched(p))
  /\ UNCHANGED <<job, result, payload, njobs, file>>

\* Slices beyond the number, or the sector.
FlashPatchPanics ==
  /\ pc = "flash" /\ flash.tasks = <<>> /\ flash.plan.patch = "good" /\ flash.patches # <<>>
  /\ LET p == Head(flash.patches) IN Resolves(p) /\ (p.size > 8 \/ p.offset > SectorBytes)
  /\ Return("flash", "panic", NoImage)
  /\ UNCHANGED <<payload, njobs, disk, file, fresh, flash>>

FlashFinish ==
  /\ pc = "flash" /\ flash.tasks = <<>> /\ (flash.plan.patch = "good" => flash.patches = <<>>)
  /\ Return("flash", IF flash.plan.patch = "bad" THEN "error" ELSE "ok", NoImage)
  /\ UNCHANGED <<payload, njobs, disk, file, fresh, flash>>

-----------------------------------------------------------------------------
FlashWorks ==
  \/ FlashTask \/ FlashPiece \/ FlashPanics \/ FlashTaskDone
  \/ FlashPatch \/ FlashPatchSkipped \/ FlashPatchPanics \/ FlashFinish

FlashNext ==
  \/ Next /\ flash' = NoFlash
  \/ \E plan \in Plans : FlashStart(plan)
  \/ FlashWorks \/ FlashStops

(* As in Jobs: the loop of a job is run as long as it can go on.           *)
FlashSpec ==
  FlashInit /\ [][FlashNext]_flashVars /\ WF_flashVars((Works /\ flash' = NoFlash) \/ FlashWorks)

-----------------------------------------------------------------------------
(* The bytes a task or a patch is about, and what it says of one of them.  *)
TaskSpan(t) ==
  LET n == IF t.kind = "erase" THEN t.n ELSE SectorsFor(Len(Source(t)))
  IN IF t.kind = "program" /\ t.file = "none" THEN {}
     ELSE {a \in Addrs : a >= t.start * SectorBytes /\ a < (t.start + n) * SectorBytes}
TaskByte(t, a) ==
  LET i     == a - t.start * SectorBytes + 1
      bytes == Source(t)
  IN IF t.kind = "program" /\ i <= Len(bytes) THEN bytes[i] ELSE 0

PatchSpan(p) ==
  {a \in Addrs : LET i == a % SectorBytes
                 IN a \div SectorBytes = p.sector /\ i >= p.offset /\ i < p.offset + p.size}
PatchByte(p, a) == PatchBytes(p)[((a % SectorBytes) - p.offset) + 1]

\* The last of the spans a is in, as a set of none or one.
LastOf(spans, a) ==
  {k \in DOMAIN spans : a \in spans[k] /\ \A j \in DOMAIN spans : j > k => a \notin spans[j]}

Flashed(plan, base) ==
  LET tasks   == Parsed(plan.tasks)
      patches == IF plan.patch = "good" THEN Parsed(plan.patches) ELSE <<>>
      taskSpans  == [k \in DOMAIN tasks |-> TaskSpan(tasks[k])]
      patchSpans == [k \in DOMAIN patches |-> PatchSpan(patches[k])]
  IN [a \in Addrs |->
        IF LastOf(patchSpans, a) # {} THEN LET k == CHOOSE k \in LastOf(patchSpans, a) : TRUE
                                           IN PatchByte(patches[k], a)
        ELSE IF LastOf(taskSpans, a) # {} THEN LET k == CHOOSE k \in LastOf(taskSpans, a) : TRUE
                                               IN TaskByte(tasks[k], a)
        ELSE base[a]]

(* A flash that returns Ok, and skipped no patch, has left every byte as   *)
(* the last patch or else the last task about it says, and all others as   *)
(* they were, whatever the payload (FlashJob::execute).                    *)
FlashExact ==
  result.job = "flash" /\ result.st = "ok" /\ ~flash.skipped => disk = Flashed(flash.plan, flash.base)

\* The bytes the entries of a plan are about.
Named(plan) ==
  (UNION {TaskSpan(plan.tasks[k]) : k \in DOMAIN plan.tasks})
    \cup (UNION {PatchSpan(plan.patches[k]) : k \in DOMAIN plan.patches})

(* Failed, killed or not, a flash changes no byte no entry is about.       *)
FlashContained ==
  [][(pc \in FlashLoops /\ disk' # disk) =>
       \A a \in Addrs \ Named(flash.plan) : disk'[a] = disk[a]]_flashVars
=============================================================================
