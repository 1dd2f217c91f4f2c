---------------------------- MODULE FirehoseLink ----------------------------
(***************************************************************************)
(* FirehoseClient (qedl-firehose/src/client.rs) at work over a serial      *)
(* transport: the commands it sends, the byte stream the device answers    *)
(* on, and the buffer of bytes read but not yet used.                      *)
(*                                                                         *)
(* The device's bytes are a sequence of tokens.  A response document is    *)
(* head (`<response value=..'), end (`/>') and close (`</data>'); a log    *)
(* line is one token, as is a sector of raw data and the close of a        *)
(* document.  `stream' is everything the device has put out that the       *)
(* client has not used yet, and two cut points divide it:                  *)
(*                                                                         *)
(*     1..fetched          read from the port: the accumulator and the     *)
(*                         leftover buffer of the client, which are one    *)
(*                         after the other (read_response starts with the  *)
(*                         leftover)                                       *)
(*     fetched+1..arrived  in the port's receive buffer                    *)
(*     arrived+1..         still on its way                                *)
(*                                                                         *)
(* Transport::flush waits for the transmit side only and so changes        *)
(* nothing here.                                                           *)
(***************************************************************************)
EXTENDS FirehoseTypes, FiniteSets

CONSTANTS
  MaxCalls,     \* bound: calls made in a behaviour
  MaxUnclean,   \* bound: calls made before one on an unclean link
  MaxN,         \* bound: sectors in one call
  MaxEmpty,     \* empty reads read_response tolerates (10 in the code)
  MaxAttempts,  \* attempts of drain_initial_messages (6 in the code)
  MaxBuf,       \* tokens accumulated before a response is "too large"
  Styles,       \* the <<wraps, hexlogs>> a device may have
  InitDisks,    \* what the sectors may hold at first
  SplitClose    \* whether a read may end just before a close token

ASSUME LinkAssumption ==
  /\ {MaxCalls, MaxUnclean, MaxN, MaxEmpty, MaxBuf} \subseteq Nat
  /\ MaxAttempts \in Nat \ {0}
  /\ SplitClose \in BOOLEAN
  /\ Styles \subseteq BOOLEAN \X BOOLEAN
  /\ InitDisks \subseteq [Sectors -> Vals \cup {Zero}]

VARIABLES
  wraps, hexlogs,            \* how this device formats its answers
  pc, call, got, empties, result,          \* the client
  stream, fetched, arrived,                \* device -> host
  tx,                                      \* host -> device
  dev, disk,                               \* the device
  clean                                    \* history: see FlashService

style == <<wraps, hexlogs>>
host  == <<pc, call, got, empties, result>>
rx    == <<stream, fetched, arrived>>
vars  == <<style, host, rx, tx, dev, disk, clean>>

-----------------------------------------------------------------------------
(* Tokens and documents *)

Kinds == {"log", "hex", "head", "end", "close", "raw"}
Token == [k : Kinds, id : Nat, ok : BOOLEAN, v : Data]
Tok(k, id, ok, v) == [k |-> k, id |-> id, ok |-> ok, v |-> v]

\* Some devices wrap every document in <data>..</data>, some do not.
Doc(id, toks) == IF wraps THEN Append(toks, Tok("close", id, TRUE, Junk)) ELSE toks

LogDoc(id) == Doc(id, <<Tok("log", id, TRUE, Junk)>>)
RespDoc(id, ok) == Doc(id, <<Tok("head", id, ok, Junk), Tok("end", id, ok, Junk)>>)

\* The contents of a call's sectors, as raw data and as hex log lines.
RawData(c, k) == [i \in 1..c.n |-> Tok(k, c.id, TRUE, disk[c.at + i - 1])]

\* A device's answer to a command: ok is the first verdict, ok2 the one
\* that completes a read, lg whether a log line comes first.
Answer(c, ok, ok2, lg) ==
  LET logs == IF lg THEN LogDoc(c.id) ELSE <<>> IN
  CASE c.op = "read" /\ ok /\ ~hexlogs ->
         logs \o RespDoc(c.id, TRUE) \o RawData(c, "raw") \o RespDoc(c.id, ok2)
    [] c.op = "read" /\ ok /\ hexlogs ->
         logs \o Doc(c.id, RawData(c, "hex")) \o RespDoc(c.id, TRUE) \o RespDoc(c.id, ok2)
    [] c.op = "peek" /\ ok ->
         logs \o Doc(c.id, RawData(c, "hex")) \o RespDoc(c.id, TRUE)
    [] OTHER -> logs \o RespDoc(c.id, ok)

\* Host -> device items: a command, or one sector of data.
Cmd(c) == [cmd |-> TRUE, c |-> c, v |-> Junk]
Scrap(c) == [cmd |-> FALSE, c |-> c, v |-> Junk]      \* part of a command
Payload(c) == [i \in 1..c.n |-> [cmd |-> FALSE, c |-> c, v |-> c.data[i]]]

-----------------------------------------------------------------------------
(* The client's view of what it has read: f tokens, the first of stream *)

\* `/>', which ends a response and any other line.
Slash(j) == stream[j].k \in {"log", "hex", "end"}

\* The first response among the first f tokens: `<response ' at i and the
\* first `/>' behind it at r, its own end or, should that be lost, another's.
ResponseAt(i, r, f) ==
  /\ i < r /\ r <= f
  /\ stream[i].k = "head" /\ \A j \in 1..(i-1) : stream[j].k # "head"
  /\ Slash(r) /\ \A j \in (i+1)..(r-1) : ~Slash(j)

HasResponse(f) == \E i, r \in 1..f : ResponseAt(i, r, f)

\* The text of a response that ends at r ends at e: at the first close behind
\* it if that has been read too, and otherwise where the response does.
EndsAtResponse(r, f, e) == e = r        \* faulty: leaves the close behind
TextEnd(r, f, e) ==
  LET closes == {j \in (r+1)..f : stream[j].k = "close"}
  IN  IF closes = {} THEN e = r
      ELSE e \in closes /\ \A j \in closes : e <= j

\* The parser meets an end tag whose document was never opened.
Unmatched(e) ==
  \E j \in 1..e :
    /\ stream[j].k = "close"
    /\ \A m \in 1..(j-1) : stream[m].k \in {"log", "hex", "head"} =>
         \E q \in (m+1)..(j-1) : stream[q].k = "close"

\* A response without its own end.
Torn(j) == stream[j].k = "head" /\ stream[j + 1].k # "end"

\* Whether from_xml accepts the first e tokens: raw bytes in front of the
\* response may or may not look like markup, and so may a torn response.
Parses(e) ==
  IF Unmatched(e) THEN {FALSE}
  ELSE IF \E j \in 1..e : stream[j].k = "raw" \/ Torn(j) THEN BOOLEAN ELSE {TRUE}

\* The bytes in the "0x.." log lines among the tokens lo..hi, in order: the
\* r-th comes from the hex token that has r-1 others in front of it.
HexBytes(lo, hi) ==
  LET hex == {j \in lo..hi : stream[j].k = "hex"}
      Before(j) == Cardinality({m \in hex : m < j})
  IN  [r \in 1..Cardinality(hex) |->
         CHOOSE v \in Data : \A j \in hex : Before(j) = r - 1 => stream[j].v = v]

\* A token taken for sector data: only raw tokens are.
Taken(t) == IF t.k = "raw" THEN t.v ELSE Junk

\* The client is done with the first e of the f tokens read.
\* Faulty: what has arrived is not counted down.
UseKeepingArrived(e, f) ==
  /\ stream' = SubSeq(stream, e + 1, Len(stream))
  /\ fetched' = f - e
  /\ arrived' = arrived

Use(e, f) ==
  /\ stream' = SubSeq(stream, e + 1, Len(stream))
  /\ fetched' = f - e
  /\ arrived' = arrived - e

Smaller(a, b) == IF a < b THEN a ELSE b

\* The call returns.
Return(st, id, bytes) ==
  /\ pc' = "idle"
  /\ result' = [st |-> st, id |-> id, data |-> bytes]
  /\ got' = <<>>
  /\ empties' = 0
  /\ UNCHANGED call

-----------------------------------------------------------------------------
Init ==
  /\ \E s \in Styles : wraps = s[1] /\ hexlogs = s[2]
  /\ pc = "drain" /\ call = NoCall /\ got = <<>> /\ empties = 0 /\ result = NoResult
  /\ stream \in {<<>>, LogDoc(0), LogDoc(0) \o LogDoc(0)}
  /\ fetched = 0 /\ arrived = 0
  /\ tx = <<>>
  /\ dev = [st |-> "idle", c |-> NoCall, done |-> 0]
  /\ disk \in InitDisks
  /\ clean = TRUE

(* The device and the wire *)

\* Where a read may find the stream to end.
Cuts == {m \in (arrived + 1)..Len(stream) :
           SplitClose \/ m = Len(stream) \/ stream[m + 1].k # "close"}

\* More of what the device has put out reaches the port.
Deliver ==
  /\ \E m \in Cuts : arrived' = m
  /\ UNCHANGED <<style, host, stream, fetched, tx, dev, disk, clean>>

DevErase(c, ok) ==
  disk' = IF c.op = "erase" /\ ok
          THEN [s \in Sectors |-> IF s \in Span(c) THEN Zero ELSE disk[s]]
          ELSE disk

\* The device takes a command and carries it out, or refuses it.  Of a
\* program it has only accepted the command: the data comes next.
DevExecute ==
  /\ dev.st = "idle" /\ tx # <<>> /\ Head(tx).cmd
  /\ \E ok, ok2, lg \in BOOLEAN :
       LET c == Head(tx).c IN
       /\ stream' = stream \o Answer(c, ok, ok2, lg)
       /\ DevErase(c, ok)
       /\ dev' = IF c.op = "program" /\ ok THEN [st |-> "data", c |-> c, done |-> 0] ELSE dev
  /\ tx' = Tail(tx)
  /\ UNCHANGED <<style, host, fetched, arrived, clean>>

\* The device, waiting for the data of a program, takes whatever comes for
\* the next sector, and answers again after the last one.
DevStore ==
  /\ dev.st = "data" /\ tx # <<>>
  /\ disk' = [disk EXCEPT ![dev.c.at + dev.done] = Head(tx).v]
  /\ IF dev.done + 1 = dev.c.n
     THEN /\ \E ok \in BOOLEAN : stream' = stream \o RespDoc(dev.c.id, ok)
          /\ dev' = [st |-> "idle", c |-> NoCall, done |-> 0]
     ELSE dev' = [dev EXCEPT !.done = @ + 1] /\ UNCHANGED stream
  /\ tx' = Tail(tx)
  /\ UNCHANGED <<style, host, fetched, arrived, clean>>

\* Data nobody asked for is not a command.
DevIgnore ==
  /\ dev.st = "idle" /\ tx # <<>> /\ ~Head(tx).cmd
  /\ tx' = Tail(tx)
  /\ UNCHANGED <<style, host, rx, dev, disk, clean>>

-----------------------------------------------------------------------------
(* Sending a command *)

Payloads == UNION {[1..n -> Vals] : n \in 1..MaxN}

Calls ==
  LET new == call.id + 1 IN
  {[NoCall EXCEPT !.id = new]} \cup
  {c \in [op : Ops \ {"query"}, id : {new}, at : Sectors, n : 1..MaxN,
          data : Payloads \cup {<<>>}] :
     /\ c.at + c.n <= NSectors + 1
     /\ IF c.op = "program" THEN c.data \in [1..c.n -> Vals] ELSE c.data = <<>>}

MayCall == call.id < IF clean THEN MaxCalls ELSE MaxUnclean

\* execute_command and send_xml: flush, write, and on to the answer.
Send ==
  /\ pc = "idle" /\ MayCall
  /\ \E c \in Calls :
       /\ call' = c
       /\ tx' = Append(tx, Cmd(c))
       /\ pc' = IF c.op = "peek" THEN "peek" ELSE "resp"
       /\ clean' = (clean /\ c.op # "peek")
  /\ result' = NoResult
  /\ UNCHANGED <<style, got, empties, rx, dev, disk>>

\* The write itself fails, and the call with it.  The device may have none of
\* the command, part of it, or enough to carry it out.
SendFails ==
  /\ pc = "idle" /\ MayCall
  /\ \E c \in Calls :
       /\ call' = c
       /\ tx' \in {tx, Append(tx, Scrap(c)), Append(tx, Cmd(c))}
  /\ result' = [st |-> "io", id |-> 0, data |-> <<>>]
  /\ clean' = FALSE
  /\ UNCHANGED <<style, pc, got, empties, rx, dev, disk>>

-----------------------------------------------------------------------------
(* read_response: waiting for the next response *)

Reading == pc \in {"resp", "final"}

\* Bytes come that do not complete a response; the loop goes on.
Accumulate ==
  /\ Reading /\ arrived > fetched /\ ~HasResponse(arrived) /\ arrived <= MaxBuf
  /\ fetched' = arrived
  /\ empties' = 0
  /\ UNCHANGED <<style, pc, call, got, result, stream, arrived, tx, dev, disk, clean>>

\* The test made after an empty read, before it is counted: `<response '
\* somewhere and `/>' somewhere, not necessarily behind it.
LooksNonEmpty == fetched > 0            \* faulty: any bytes will do
LooksComplete ==
  /\ \E j \in 1..fetched : stream[j].k = "head"
  /\ \E j \in 1..fetched : Slash(j)

\* Bytes came, or none came behind bytes that look complete, and there are too
\* many: everything accumulated is dropped with the error.
TooLarge ==
  /\ Reading /\ ~HasResponse(arrived) /\ arrived > MaxBuf
  /\ arrived > fetched \/ LooksComplete
  /\ Use(arrived, arrived)
  /\ Return("invalid", 0, <<>>)
  /\ clean' = FALSE
  /\ UNCHANGED <<style, tx, dev, disk>>

\* The read times out.  The count starts again when the bytes look complete.
EmptyRead ==
  /\ Reading /\ arrived = fetched /\ ~HasResponse(fetched)
  /\ IF LooksComplete THEN arrived <= MaxBuf ELSE empties < MaxEmpty
  /\ empties' = IF LooksComplete THEN 0 ELSE empties + 1
  /\ UNCHANGED <<style, pc, call, got, result, rx, tx, dev, disk, clean>>

\* One empty read too many: everything accumulated is dropped with the error.
GiveUp ==
  /\ Reading /\ arrived = fetched /\ ~HasResponse(fetched)
  /\ ~LooksComplete /\ empties = MaxEmpty
  /\ Use(fetched, fetched)
  /\ Return("timeout", 0, <<>>)
  /\ clean' = FALSE
  /\ UNCHANGED <<style, tx, dev, disk>>

\* The text of the first response in the bytes read ends at e, and parses or
\* does not.  Its verdict is the last one in it, which i gives (from_xml goes
\* on to the end).  The rest is the leftover.
Reply(i, e, parses) ==
  /\ Reading
  /\ i <= e /\ stream[i].k = "head" /\ \A j \in (i+1)..e : stream[j].k # "head"
  /\ \E first \in 1..i, r \in 1..e : ResponseAt(first, r, arrived) /\ TextEnd(r, arrived, e)
  /\ parses \in Parses(e)

Unreadable ==
  /\ \E i, e \in 1..arrived : Reply(i, e, FALSE) /\ Use(e, arrived)
  /\ Return("invalid", 0, <<>>)
  /\ clean' = FALSE
  /\ UNCHANGED <<style, tx, dev, disk>>

\* A refusal, of the command or of its completion.
Nak ==
  /\ \E i, e \in 1..arrived :
       /\ Reply(i, e, TRUE) /\ ~stream[i].ok
       /\ Use(e, arrived)
       /\ Return("nak", stream[i].id, <<>>)
  /\ UNCHANGED <<style, tx, dev, disk, clean>>

\* Faulty: the first ACK ends a program too, and its data is never sent.
AckEndsProgram ==
  /\ pc = "final" \/ call.op \in {"query", "erase", "program"}
  /\ \E i, e \in 1..arrived :
       /\ Reply(i, e, TRUE) /\ stream[i].ok
       /\ Use(e, arrived)
       /\ Return("ok", stream[i].id, got)
  /\ UNCHANGED <<style, tx, dev, disk, clean>>

\* The ACK that ends a call: the only one of a simple command, the completion
\* response of a transfer.
Ack ==
  /\ pc = "final" \/ call.op \in {"query", "erase"}
  /\ \E i, e \in 1..arrived :
       /\ Reply(i, e, TRUE) /\ stream[i].ok
       /\ Use(e, arrived)
       /\ Return("ok", stream[i].id, got)
  /\ UNCHANGED <<style, tx, dev, disk, clean>>

-----------------------------------------------------------------------------
(* program_sectors: send the data on the first ACK *)

ProgramGo ==
  /\ pc = "resp" /\ call.op = "program"
  /\ \E i, e \in 1..arrived :
       /\ Reply(i, e, TRUE) /\ stream[i].ok
       /\ Use(e, arrived)
  /\ tx' = tx \o Payload(call)
  /\ pc' = "final" /\ empties' = 0
  /\ UNCHANGED <<style, call, got, result, dev, disk, clean>>

\* The write of the data fails, behind some of it.
ProgramFails ==
  /\ pc = "resp" /\ call.op = "program"
  /\ \E i, e \in 1..arrived :
       /\ Reply(i, e, TRUE) /\ stream[i].ok
       /\ Use(e, arrived)
  /\ \E k \in 0..(call.n - 1) : tx' = tx \o SubSeq(Payload(call), 1, k)
  /\ Return("io", 0, <<>>)
  /\ clean' = FALSE
  /\ UNCHANGED <<style, dev, disk>>

(* read_sectors: bytes from the log lines of the first ACK, then from the   *)
(* leftover, then from the port, until there are n sectors                  *)

ReadGo ==
  /\ pc = "resp" /\ call.op = "read"
  /\ \E i, e \in 1..arrived :
       LET hex  == HexBytes(1, e)
           h    == Smaller(Len(hex), call.n)
           m    == Smaller(arrived - e, call.n - h)
       IN /\ Reply(i, e, TRUE) /\ stream[i].ok
          /\ Use(e + m, arrived)
          /\ got' = [j \in 1..h |-> hex[j]] \o [j \in 1..m |-> Taken(stream[e + j])]
          /\ pc' = IF h + m = call.n THEN "final" ELSE "raw"
  /\ empties' = 0
  /\ UNCHANGED <<style, call, result, tx, dev, disk, clean>>

\* Faulty: the read ends with its data, the completion response unread.
ReadRawNoCompletion ==
  /\ pc = "raw" /\ arrived > fetched
  /\ LET m == Smaller(arrived, call.n - Len(got))
          bytes == got \o [j \in 1..m |-> Taken(stream[j])] IN
       /\ Use(m, m)
       /\ IF Len(bytes) = call.n THEN Return("ok", call.id, bytes)
          ELSE got' = bytes /\ UNCHANGED <<pc, call, empties, result>>
  /\ UNCHANGED <<style, tx, dev, disk, clean>>

\* Faulty: one read from the port is taken for all the data.
ReadRawOnce ==
  /\ pc = "raw" /\ arrived > fetched
  /\ LET m == Smaller(arrived, call.n - Len(got)) IN
       /\ Use(m, m)
       /\ got' = got \o [j \in 1..m |-> Taken(stream[j])]
  /\ pc' = "final"
  /\ UNCHANGED <<style, call, empties, result, tx, dev, disk, clean>>

\* The leftover is used up here, so the port's bytes are next.
ReadRaw ==
  /\ pc = "raw" /\ arrived > fetched
  /\ LET m == Smaller(arrived, call.n - Len(got)) IN
       /\ Use(m, m)
       /\ got' = got \o [j \in 1..m |-> Taken(stream[j])]
       /\ pc' = IF Len(got) + m = call.n THEN "final" ELSE "raw"
  /\ UNCHANGED <<style, call, empties, result, tx, dev, disk, clean>>

\* A timeout (or the end of the port) in the middle of the data.
ReadRawFails ==
  /\ pc = "raw" /\ arrived = fetched
  /\ \E st \in {"io", "timeout"} : Return(st, 0, <<>>)
  /\ clean' = FALSE
  /\ UNCHANGED <<style, rx, tx, dev, disk>>

-----------------------------------------------------------------------------
(* peek and drain_initial_messages read the port themselves, past whatever  *)
(* is in the leftover, and drop what they have read                         *)

DropChunk ==
  /\ stream' = SubSeq(stream, 1, fetched) \o SubSeq(stream, arrived + 1, Len(stream))
  /\ arrived' = fetched
  /\ UNCHANGED fetched

ChunkHas(kinds) == \E j \in (fetched+1)..arrived : stream[j].k \in kinds

Refused == \E j \in (fetched+1)..arrived : stream[j].k = "head" /\ ~stream[j].ok

\* peek collects hex log lines until the chunk that closes a document.
PeekRead ==
  /\ pc = "peek" /\ arrived > fetched
  /\ DropChunk
  /\ LET bytes == got \o HexBytes(fetched + 1, arrived) IN
       IF Refused THEN Return("nak", 0, <<>>)
       ELSE IF ChunkHas({"close", "head"}) THEN Return("ok", 0, bytes)
       ELSE got' = bytes /\ UNCHANGED <<pc, call, empties, result>>
  /\ UNCHANGED <<style, tx, dev, disk, clean>>

\* Nothing comes: what there is will do, except nothing (unless the port
\* reports its end rather than a timeout).
PeekEmpty ==
  /\ pc = "peek" /\ arrived = fetched
  /\ \E eof \in BOOLEAN :
       Return(IF got = <<>> /\ ~eof THEN "io" ELSE "ok", 0, got)
  /\ UNCHANGED <<style, rx, tx, dev, disk, clean>>

DrainRead ==
  /\ pc \in {"drain", "drainmore"} /\ arrived > fetched
  /\ DropChunk
  /\ pc' = IF ChunkHas({"close", "head"}) THEN "idle" ELSE "drainmore"
  /\ empties' = 0
  /\ UNCHANGED <<style, call, got, result, tx, dev, disk, clean>>

\* The loader gets MaxAttempts reads to come up; once it has said something
\* the first silence ends the drain.
DrainEmpty ==
  /\ pc \in {"drain", "drainmore"} /\ arrived = fetched
  /\ IF pc = "drain" /\ empties + 1 < MaxAttempts
     THEN pc' = pc /\ empties' = empties + 1
     ELSE pc' = "idle" /\ empties' = 0
  /\ UNCHANGED <<style, call, got, result, rx, tx, dev, disk, clean>>

-----------------------------------------------------------------------------
Device == DevExecute \/ DevStore \/ DevIgnore

Client ==
  \/ Accumulate \/ TooLarge \/ EmptyRead \/ GiveUp
  \/ Unreadable \/ Nak \/ Ack
  \/ ProgramGo \/ ProgramFails \/ ReadGo \/ ReadRaw \/ ReadRawFails
  \/ PeekRead \/ PeekEmpty \/ DrainRead \/ DrainEmpty

Next == Deliver \/ Device \/ Send \/ SendFails \/ Client

Spec == Init /\ [][Next]_vars

\* A call, once made, is run to its end (it is one async function, awaited by
\* its caller).  Nothing is assumed of the device or of callers.
HostFairSpec == Spec /\ WF_vars(Client)

-----------------------------------------------------------------------------
(* Properties *)

\* Types, and the order of the two cut points of the stream.
Item == [cmd : BOOLEAN, c : Call, v : Data]

ClientOK ==
  /\ pc \in {"drain", "drainmore", "idle", "resp", "raw", "final", "peek"}
  /\ call \in Call /\ got \in Seq(Data) /\ empties \in Nat /\ result \in Result

StreamOK ==
  /\ stream \in Seq(Token)
  /\ fetched \in Nat /\ arrived \in Nat /\ fetched <= arrived /\ arrived <= Len(stream)

DeviceOK ==
  /\ tx \in Seq(Item)
  /\ dev \in [st : {"idle", "data"}, c : Call, done : Nat]
  /\ dev.st = "data" => dev.done < dev.c.n
  /\ disk \in [Sectors -> Data]

TypeOK ==
  /\ wraps \in BOOLEAN /\ hexlogs \in BOOLEAN /\ clean \in BOOLEAN
  /\ ClientOK /\ StreamOK /\ DeviceOK

\* Between two calls of a clean link nothing of the earlier one is left over:
\* no item on its way to the device, no response, data or half a document on
\* its way back (read_sectors: "we MUST read the final completion response").
Drained ==
  clean /\ pc = "idle" =>
    /\ tx = <<>> /\ dev.st = "idle"
    /\ \A j \in 1..Len(stream) : stream[j].k \in {"log", "close"}
    /\ stream # <<>> => stream[1].k = "log"

\* The verdict of a call on a clean link is read from the response to that
\* very call, never from an older one still in the stream.
AnswersOwn ==
  clean /\ result.st \in {"ok", "nak"} => result.id = call.id

\* While the link is clean the device never takes the bytes of a command for
\* the contents of a sector.
DiskUnspoiled == clean => \A s \in Sectors : disk[s] # Junk

\* A read never returns Ok with fewer or more sectors than asked for, however
\* far out of step the link is.
ReadLength ==
  result.st = "ok" /\ call.op = "read" => Len(result.data) = call.n

\* How far a transfer has come at each point of the client; with TypeOK this
\* makes ReadLength inductive.
Progress ==
  /\ pc = "raw" => call.op = "read" /\ Len(got) <= call.n /\ fetched = 0
  /\ pc = "final" => \/ call.op = "program"
                     \/ call.op = "read" /\ Len(got) = call.n
  /\ pc = "peek" => call.op = "peek"

\* On a clean link a read that returns Ok returns the sectors of the device:
\* read_response keeps raw data that came with the XML, so none is lost, and
\* nothing else is taken for raw data.  Fails when a read from the port may
\* end between a response and the close of its document (SplitClose).
ReadExact ==
  clean /\ result.st = "ok" /\ call.op = "read" =>
    result.data = [i \in 1..call.n |-> disk[call.at + i - 1]]

\* Every call returns.  Fails: see HalfRead.
CallReturns == pc # "idle" ~> pc = "idle"

\* The client has read a whole line and, behind it, half a response.
HalfRead ==
  /\ Reading /\ arrived = fetched
  /\ \E i \in 1..fetched :
       /\ stream[i].k = "head" /\ \A j \in (i+1)..fetched : ~Slash(j)
       /\ \E j \in 1..(i-1) : Slash(j)

\* A call returns whatever the device does, be it silent from any point on, and
\* whatever earlier calls have left in the buffer, but for one case: half a
\* response behind a whole line, of which no more ever comes (read_response:
\* the count of empty reads starts again and again).
CallEnds == []<>(pc = "idle") \/ <>[]HalfRead

\* The link implements the flash service: see FlashService.
Service == INSTANCE FlashService WITH open <- (pc # "idle")
ImplementsService == Service!Spec
=============================================================================
