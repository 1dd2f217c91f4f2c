------------------------------ MODULE MCFlash ------------------------------
(* Plans for a disk of five sectors of two bytes, with the images of MCJobs. *)
EXTENDS Flash

Raw(bytes) == [bytes |-> bytes, sparse |-> FALSE]
MCInitDisks == {[a \in Addrs |-> 10 + a]}
MCImages == {Raw(<<1, 2, 3>>), Raw(<<1, 2, 3, 4, 5>>), Raw(<<1, 2, 3, 4, 5, 6, 7>>),
             Raw(WriteMagic)}
MCPayloads == {1, 4, 8}

(* A sparse image of blocks of four bytes: raw bytes, a hole, a checksum,   *)
(* and a fill chunk, each of the given size; one whose header is cut off.   *)
Chunk4(low, size, data) == <<low, 202, 0, 0, size, 0, 0, 0, 0, 0, 0, 0>> \o data
SparseFile(chunks) ==
  [bytes |-> SparseMagic
               \o <<1, 0, 0, 0, 28, 0, 12, 0, 4, 0, 0, 0, 2, 0, 0, 0, 3, 0, 0, 0, 0, 0, 0, 0>> \o chunks,
   sparse |-> TRUE]
SparseMixed == SparseFile(Chunk4(193, 2, <<21, 22>>) \o Chunk4(195, 1, <<>>)
                          \o Chunk4(196, 4, <<9, 9, 9, 9>>)
                          \o Chunk4(194, 4, <<31, 32, 33, 34>>) \o <<7, 7>>)
SparseBroken == SparseFile(Chunk4(193, 1, <<21, 22, 23, 24>> \o Chunk4(195, 1, <<>>)))

Program(start, n, i) ==
  [kind |-> "program", parses |-> TRUE, start |-> start, n |-> n,
   file |-> "there", sparse |-> i.sparse, img |-> i]
Unnamed(start, n) == [Program(start, n, NoImage) EXCEPT !.file = "none"]
Erase(start, n) == [Program(start, n, NoImage) EXCEPT !.kind = "erase", !.file = "none"]
Patch(sector, offset, size, value) ==
  [parses |-> TRUE, sector |-> sector, offset |-> offset, size |-> size, value |-> value]
Plan(tasks, method, patch, patches) ==
  [tasks |-> tasks, method |-> method, patch |-> patch, patches |-> patches]

MCPlans ==
  {Plan(<<Erase(0, 3), Program(1, 1, Raw(<<1, 2, 3, 4, 5, 6, 7>>)), Unnamed(0, 1)>>, "native", "good",
        <<Patch(1, 0, 2, "513"), Patch(1, 1, 1, "NUM_DISK_SECTORS"), Patch(4, 1, 4, "513")>>),
   Plan(<<Program(1, 1, Raw(<<1, 2, 3>>)), Erase(0, 3),
          [Program(0, 1, Raw(<<9>>)) EXCEPT !.parses = FALSE]>>, "zero", "bad", <<>>),
   Plan(<<Program(0, 1, SparseMixed)>>, "zero", "good",
        <<Patch(0, 2, 2, "LAST_PARTITION_END"), Patch(3, 0, 4, "CRC32"), Patch(4, 0, 9, "513")>>),
   Plan(<<Program(4, 1, Raw(<<8, 8>>)), Program(1, 1, SparseBroken)>>, "zero", "none", <<>>),
   Plan(<<Program(4, 1, Raw(<<8>>)), [Unnamed(0, 1) EXCEPT !.file = "blank"]>>, "zero", "none", <<>>),
   Plan(<<[Program(0, 1, Raw(<<1>>)) EXCEPT !.file = "gone"]>>, "zero", "none", <<>>)}
=============================================================================
