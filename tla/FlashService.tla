---------------------------- MODULE FlashService ----------------------------
(***************************************************************************)
(* What FirehoseClient promises its callers (the jobs of qedl-job): one    *)
(* call at a time, each carried out by the device before it returns Ok.    *)
(*                                                                         *)
(*   - a read that returns Ok returns the sectors as they are on the       *)
(*     device;                                                             *)
(*   - a program or an erase that returns Ok has been carried out on every *)
(*     sector of its range, and only sectors of the open call's range ever *)
(*     change, to what the call asked for.                                 *)
(*                                                                         *)
(* The promise lasts while the link is clean.  A call that ends in anything *)
(* but a verdict of the device (a timeout, an I/O error, an unreadable     *)
(* response) may leave the link unclean, and so does a peek, which may     *)
(* stop before its own response; from then on this module promises nothing. *)
(***************************************************************************)
EXTENDS FirehoseTypes

VARIABLES
  disk,    \* contents of the device's sectors
  call,    \* the open call, or the last one
  open,    \* whether the call has yet to return
  result,  \* what the last call returned
  clean    \* whether the promise still holds

vars == <<disk, call, open, result, clean>>

Init ==
  /\ disk \in [Sectors -> Vals \cup {Zero}]
  /\ call = NoCall
  /\ open = TRUE              \* client construction drains the boot messages
  /\ result = NoResult
  /\ clean = TRUE

\* A caller starts a call.
Begin ==
  /\ ~open
  /\ call'.id = call.id + 1
  /\ open' = TRUE
  /\ result' = NoResult
  /\ clean' = (call'.op # "peek")
  /\ UNCHANGED disk

\* The contents a call wants on sector s.
Wanted(c, s) == IF c.op = "erase" THEN Zero ELSE c.data[s - c.at + 1]

\* The device carries out some of the open call's effect.
Effect ==
  /\ open
  /\ call.op \in {"erase", "program"}
  /\ \E S \in SUBSET Span(call) :
       disk' = [s \in Sectors |-> IF s \in S THEN Wanted(call, s) ELSE disk[s]]
  /\ UNCHANGED <<call, open, result, clean>>

\* What Ok says about the device and the bytes returned.
Done(c, d, bytes) ==
  /\ c.op = "read" => bytes = [i \in 1..c.n |-> d[c.at + i - 1]]
  /\ c.op \in {"erase", "program"} => \A s \in Span(c) : d[s] = Wanted(c, s)

\* The call returns the device's verdict on this very call.
Return ==
  /\ open
  /\ open' = FALSE
  /\ result'.st \in {"none", "ok", "nak"}
  /\ result'.st # "none" => result'.id = call.id
  /\ result'.st = "ok" => Done(call, disk, result'.data)
  /\ UNCHANGED <<disk, call, clean>>

\* The call returns another error, perhaps at once, and the promise ends.
Fail ==
  /\ open' = FALSE
  /\ clean' = FALSE
  /\ UNCHANGED disk

Next ==
  \/ clean /\ (Begin \/ Effect \/ Return \/ Fail)
  \/ ~clean /\ ~clean'

Spec == Init /\ [][Next]_vars
=============================================================================
