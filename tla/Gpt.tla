--------------------------------- MODULE Gpt ---------------------------------
(***************************************************************************)
(* Partition tables: the GPT of one LUN as it lies on a disk, what         *)
(* read_gpt_for_lun (qedl-job/src/executor.rs) and GptTable::parse         *)
(* (qedl-storage/src/gpt.rs) make of it, and the lookup of a partition by  *)
(* name in the tables of all LUNs (PartitionMap, JobContext).              *)
(*                                                                         *)
(* A LUN is [ss, total, prim, back]: sector size, sectors, and two copies  *)
(* [head, slots] of the table, the primary one from LBA 1 on, the backup   *)
(* one before the last LBA, where its header is.  head says that the       *)
(* header has its signature and CRC; a slot is None or                     *)
(* [name, first, last].  A name is [word, style], the style telling it     *)
(* from the same word in capitals or with blanks around it.                *)
(***************************************************************************)
EXTENDS Integers, Sequences, SequencesExt

CONSTANT None      \* the absent option

(* What lies on a disk.                                                    *)
PartName  == [word : STRING, style : {"plain", "upper", "padded"}]
Entry     == [name : PartName, first : Nat, last : Nat]
TableCopy == [head : BOOLEAN, slots : Seq(Entry \cup {None})]
Disk      == [ss : Nat \ {0}, total : Nat, prim : TableCopy, back : TableCopy]

EntrySize == 128

DivCeil(a, b) == (a + b - 1) \div b
Lowest(a, b)  == IF a < b THEN a ELSE b

Area(lun, copy) == DivCeil(Len(copy.slots) * EntrySize, lun.ss)

(* The two copies, each with its header, lie apart behind LBA 0.           *)
Apart(lun) == 3 + Area(lun, lun.prim) + Area(lun, lun.back) < lun.total

(* The header at an LBA: where its entries begin, how many there are, and  *)
(* the LBA of the other header.                                            *)
HeaderAt(lun, lba) ==
  CASE lba = 1 /\ lun.prim.head ->
         [start |-> 2, num |-> Len(lun.prim.slots), other |-> lun.total - 1]
    [] lba = lun.total - 1 /\ lun.back.head ->
         [start |-> lun.total - 1 - Area(lun, lun.back), num |-> Len(lun.back.slots), other |-> 1]
    [] OTHER -> None

(* The slots on n sectors from start: of the copy that lies there.         *)
SlotsAt(lun, start, n) ==
  LET copy == IF start = 2 THEN lun.prim ELSE lun.back
  IN SubSeq(copy.slots, 1, Lowest(Len(copy.slots), (n * lun.ss) \div EntrySize))

(* GptTable::parse: entries of type zero are empty.                        *)
Used(slots) == FlattenSeq([i \in DOMAIN slots |-> IF slots[i] = None THEN <<>> ELSE <<slots[i]>>])
Parse(h, slots) == Used(SubSeq(slots, 1, Lowest(h.num, Len(slots))))

BackupPastEnd(total) == total                                \* faulty: off by one
BackupLba(total)     == total - 1

FixedEntryLba(h) == 2                                        \* faulty: the primary's
EntryLba(h)      == h.start

EntrySectors(h, ss) == DivCeil(h.num * EntrySize, ss)

NoTable == [header |-> None, entries |-> <<>>]

(* read_gpt_for_lun, of a LUN that answers every read: the primary header, *)
(* or the backup one at the end of a disk of `total' sectors if that is    *)
(* known, and the entries where the header says.  Their CRC is only        *)
(* reported.  A device refuses reads in sectors of another size.           *)
ReadGpt(lun, ss, total) ==
  LET prim == HeaderAt(lun, 1)
      h    == IF prim # None \/ total = 0 THEN prim ELSE HeaderAt(lun, BackupLba(total))
  IN IF h = None \/ ss # lun.ss THEN NoTable
     ELSE [header |-> h, entries |-> Parse(h, SlotsAt(lun, EntryLba(h), EntrySectors(h, ss)))]

-----------------------------------------------------------------------------
(* A loaded table is [lun, entries]; all_entries lists those of all tables *)
(* with the LUN of each.                                                   *)
InfoByPlace(t, e, k) ==                                      \* faulty: the table's place for its LUN
  [name |-> e.name, first |-> e.first, last |-> e.last, lun |-> k - 1]
Info(t, e, k)        == [name |-> e.name, first |-> e.first, last |-> e.last, lun |-> t.lun]

InfosOf(tables) ==
  FlattenSeq([k \in DOMAIN tables |->
    [i \in DOMAIN tables[k].entries |-> Info(tables[k], tables[k].entries[i], k)]])

Trim(name)  == IF name.style = "padded" THEN [name EXCEPT !.style = "plain"] ELSE name
Lower(name) == IF name.style = "upper" THEN [name EXCEPT !.style = "plain"] ELSE name

FirstIn(infos, Want(_)) ==
  LET at == SelectInSeq(infos, LAMBDA p : Want(p.name)) IN IF at = 0 THEN None ELSE infos[at]

(* JobContext::find_partition: the name as it is.                          *)
FindInfo(infos, name) == FirstIn(infos, LAMBDA n : n = name)

(* PartitionMap::find_partition: name_index keeps the first partition of   *)
(* each trimmed name; a name it does not have is looked for table by table *)
(* without regard to case.                                                 *)
IndexLast(infos, name) ==                                    \* faulty: insert, not or_insert
  LET at == SelectLastInSeq(infos, LAMBDA p : Trim(p.name) = name)
  IN IF at = 0 THEN None ELSE infos[at]
Index(infos, name) == FirstIn(infos, LAMBDA n : Trim(n) = name)

FindInMap(infos, name) ==
  LET hit == Index(infos, name)
  IN IF hit # None THEN hit ELSE FirstIn(infos, LAMBDA n : Lower(Trim(n)) = Lower(Trim(name)))
=============================================================================
