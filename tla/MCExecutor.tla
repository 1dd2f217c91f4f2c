----------------------------- MODULE MCExecutor -----------------------------
(* A small instance of Executor: an eMMC phone of one LUN and a UFS phone   *)
(* of three, two ports.                                                     *)
EXTENDS Executor

Name(word, style) == [word |-> word, style |-> style]
Boot == Name("boot", "plain")
Data == Name("data", "plain")
Slot(name, first, last) == [name |-> name, first |-> first, last |-> last]

Copy(head, slots) == [head |-> head, slots |-> slots]
Lun(ss, total, prim, back) == [ss |-> ss, total |-> total, prim |-> prim, back |-> back]
Good(ss, total, slots) == Lun(ss, total, Copy(TRUE, slots), Copy(TRUE, slots))

(* Five slots fill two sectors of 512 bytes.                                *)
SlotsA == <<Slot(Boot, 6, 7), None, Slot(Name("boot", "upper"), 8, 8), None, Slot(Data, 9, 11)>>
SlotsB == <<Slot(Data, 6, 8), Slot(Boot, 9, 11), None, None>>
SlotsC == <<Slot(Boot, 6, 9)>>

MCLayouts ==
  [d \in {"emmc", "ufs"} |->
     IF d = "emmc"
     THEN {<<Good(512, 20, SlotsA)>>,
           <<Lun(512, 20, Copy(FALSE, SlotsB), Copy(TRUE, SlotsA))>>,
           <<Lun(512, 20, Copy(FALSE, SlotsA), Copy(FALSE, SlotsA))>>}
     ELSE {<<Good(4096, 20, SlotsC), Good(4096, 16, <<>>), Good(4096, 16, SlotsB)>>,
           <<Good(4096, 20, SlotsB), Lun(4096, 16, Copy(FALSE, SlotsC), Copy(FALSE, SlotsC)),
             Lun(4096, 20, Copy(FALSE, SlotsC), Copy(TRUE, SlotsC))>>}]

MCHardware ==
  [d \in {"emmc", "ufs"} |->
     IF d = "emmc" THEN [memory |-> "eMMC", ss |-> 512, conf |-> {"memory", "ss"}, info |-> {"total"}]
     ELSE [memory |-> "UFS", ss |-> 4096, conf |-> {"memory"}, info |-> {"memory", "ss", "total"}]]

MCSettings == {[port |-> None, force |-> "Auto"], [port |-> 2, force |-> "Auto"],
               [port |-> None, force |-> "Diag"]}
MCNames == {Boot, Data}
=============================================================================
