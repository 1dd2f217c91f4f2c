--------------------------- MODULE FirehoseTypes ---------------------------
(***************************************************************************)
(* The vocabulary shared by the abstract flash service and the Firehose    *)
(* link: commands (qedl-firehose/src/command.rs) and sector contents.      *)
(*                                                                         *)
(* One sector is one unit of data.  Zero is what an erased sector holds;   *)
(* Junk stands for bytes that are not sector contents at all (XML taken    *)
(* for data, or the reverse).                                              *)
(***************************************************************************)
EXTENDS Naturals, Sequences

CONSTANTS
  NSectors,  \* sectors 1..NSectors of the device
  Vals,      \* sector contents a caller may write
  Zero,      \* contents of an erased sector
  Junk       \* bytes that are not sector contents

ASSUME NSectorsAssumption == NSectors \in Nat \ {0}
ASSUME ValsAssumption == Zero \notin Vals /\ Junk \notin Vals /\ Zero # Junk

Sectors == 1..NSectors
Data == Vals \cup {Zero, Junk}

\* Commands by the way they use the link.  "query" stands for every command
\* answered by a single response and without effect on the sectors: configure,
\* getstorageinfo, getsha256digest, poke, power and raw XML.
Ops == {"query", "erase", "read", "program", "peek"}

\* A call of the client: its number, and the n sectors from `at' it is about.
\* data is what program has to write.
Call == {c \in [op : Ops, id : Nat, at : Sectors, n : Nat, data : Seq(Data)] :
           /\ c.at + c.n <= NSectors + 1
           /\ c.op = "program" => c.n >= 1 /\ Len(c.data) = c.n}
NoCall == [op |-> "query", id |-> 0, at |-> 1, n |-> 0, data |-> <<>>]

\* The sectors a call is about.
Span(c) == {c.at + i - 1 : i \in 1..c.n}

\* What a call returned: Ok with the bytes read, or one of the errors of
\* qedl-firehose/src/error.rs.  id is the command the device answered with
\* the response the verdict was read from (0 when there was none).
Verdicts == {"none", "ok", "nak", "timeout", "invalid", "io"}
Result == [st : Verdicts, id : Nat, data : Seq(Data)]
NoResult == [st |-> "none", id |-> 0, data |-> <<>>]
=============================================================================
