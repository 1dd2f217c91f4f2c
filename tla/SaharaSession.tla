--------------------------- MODULE SaharaSession ---------------------------
(***************************************************************************)
(* The Sahara handshake (qedl-sahara/src/session.rs): how SaharaSession    *)
(* finds out what the device is doing, gets it to ask for the loader,      *)
(* sends it and starts it.                                                 *)
(*                                                                         *)
(* What matters is which bytes a read takes, so packets have sizes, in     *)
(* words of four bytes.  `rx' holds the packets in the port, of which the  *)
(* first `off' words have been read already; a packet is in the port as    *)
(* soon as the device sends it (one USB transfer, faster than the shortest *)
(* of the timeouts), but the device may take any time to send it.  A read  *)
(* that times out has taken whatever there was.                            *)
(***************************************************************************)
EXTENDS Naturals, Sequences

CONSTANTS
  LoaderLen,   \* length of the loader file, in units a device asks for
  MaxTries,    \* bound: handshakes in a behaviour
  MaxQueued,   \* bound: packets in the port when the device takes its next item,
               \*        and items on the way when a misread request is served
  TextWords,   \* words of a Firehose document
  DoneLimit    \* words send_done reads at most (8 in the code)

ASSUME SaharaAssumption ==
  /\ {LoaderLen, MaxTries, MaxQueued} \subseteq Nat
  /\ TextWords \in Nat /\ TextWords >= 12     \* none is under 48 bytes
  /\ DoneLimit \in Nat \ {0}

VARIABLES
  loader,          \* whether a loader file was given (loader_path is Some)
  pc, state, query, cmdmode, result, tries,   \* the client
  rx, off,                                    \* device -> host
  tx,                                         \* host -> device
  dev,                                        \* the device
  plain     \* history: the client has only answered what the device sent

host  == <<loader, query, cmdmode, tries>>
input == <<rx, off>>
vars  == <<host, pc, state, result, input, tx, dev, plain>>

-----------------------------------------------------------------------------
(* Packets and their sizes *)

\* n is the mode of a Hello (1: command mode), the status of an EndTransfer
\* (0: success), the words of data in an ExecuteResponse, and, with at, the
\* range a ReadData asks for.
Texts == {"log", "ack", "nak"}
PacketKinds == Texts \cup {"hello", "read", "read64", "end", "cmdready", "done", "exec"}
Packet == [k : PacketKinds, at : Nat, n : Nat]
Pkt(k, at, n) == [k |-> k, at |-> at, n |-> n]

Size(p) ==
  CASE p.k = "hello"    -> 12
    [] p.k = "read"     -> 5
    [] p.k = "read64"   -> 8
    [] p.k = "end"      -> 4
    [] p.k = "cmdready" -> 2
    [] p.k = "done"     -> 3
    [] p.k = "exec"     -> 4 + p.n
    [] OTHER            -> TextWords

Words(s) ==
  LET upTo[k \in 0..Len(s)] == IF k = 0 THEN 0 ELSE upTo[k - 1] + Size(s[k])
  IN upTo[Len(s)]

Device(st, at, n) == [st |-> st, at |-> at, n |-> n]

\* Host -> device.
ItemKinds == {"hresp", "nop", "switch", "exec", "data", "done"}
Item == [k : ItemKinds, at : Nat, n : Nat]

-----------------------------------------------------------------------------
(* Reading *)

Avail == Words(rx) - off

\* Faulty: a packet read to its end stays.
TakeAndStay(n) ==
  \E k \in 0..Len(rx) :
    LET w == Words(SubSeq(rx, 1, k)) IN
    /\ w <= off + n
    /\ k < Len(rx) => off + n <= w + Size(rx[k + 1])
    /\ rx' = SubSeq(rx, k + 1, Len(rx))
    /\ off' = off + n - w

\* n words are read, n at most Avail.
Take(n) ==
  \E k \in 0..Len(rx) :
    LET w == Words(SubSeq(rx, 1, k)) IN
    /\ w <= off + n
    /\ k < Len(rx) => off + n < w + Size(rx[k + 1])
    /\ rx' = SubSeq(rx, k + 1, Len(rx))
    /\ off' = off + n - w

TakeAll == rx' = <<>> /\ off' = 0

\* The command a read begins with, if it begins with a packet.
Command == IF off = 0 THEN Head(rx).k ELSE "none"

\* Behind the command and the length of a packet any word may be found, also
\* one that equals a command.
Stray == rx # <<>> /\ off >= 2 /\ Head(rx).k \notin Texts

\* What the test "first byte >= 0x20" can give: yes for text, and for the length
\* of a packet of 48 or 32 bytes; anything for the words of a Hello behind its
\* versions, for the range of a ReadData and for exec data.
Free == [read |-> 3, read64 |-> 4, exec |-> 4, hello |-> 4]
FirstIsNotHello == {Command # "hello"}      \* faulty: anything but a Hello
FirstIsAscii ==
  LET k == Head(rx).k IN
  IF k \in Texts \/ (off = 1 /\ k \in {"hello", "read64"}) THEN {TRUE}
  ELSE IF k \in DOMAIN Free /\ off >= Free[k] THEN BOOLEAN
  ELSE {FALSE}

-----------------------------------------------------------------------------
(* The client's writes and returns *)

Put(k) == tx' = Append(tx, [k |-> k, at |-> 0, n |-> 0])

\* The client goes on to its next read or write ...
GoTo(next) == pc' = next /\ UNCHANGED <<state, result>>

\* ... or the handshake returns.
Return(r) == pc' = "end" /\ result' = r /\ UNCHANGED state

Init ==
  /\ loader \in BOOLEAN
  /\ pc = "hello1" /\ state = "WaitingHello" /\ result = "none"
  /\ query = 0 /\ cmdmode = FALSE /\ tries = 1
  /\ tx = <<>> /\ off = 0 /\ plain = TRUE
  /\ \/ dev = Device("boot", 0, 0) /\ rx = <<>>
     \/ dev = Device("hello", 0, 0) /\ rx = <<>>       \* its Hello is lost
     \/ dev = Device("want", 0, 1) /\ rx = <<Pkt("read", 0, 1)>>
     \/ dev = Device("fire", 0, 0) /\ rx \in {<<>>, <<Pkt("log", 0, 0)>>}

-----------------------------------------------------------------------------
(* The device *)

Say(p) == rx' = Append(rx, p) /\ UNCHANGED off

DevHello(m) == Say(Pkt("hello", 0, m)) /\ dev' = [dev EXCEPT !.st = "hello", !.n = m]

\* It starts up and says Hello, in image transfer or in command mode.
DevBoot ==
  /\ dev.st = "boot"
  /\ \E m \in {0, 1} : DevHello(m)
  /\ UNCHANGED <<host, pc, state, result, tx, plain>>

\* It asks for some part of the loader, perhaps more than there is.
Ask ==
  \E k \in {"read", "read64"}, at \in 0..LoaderLen, n \in {1, 2} :
    /\ Say(Pkt(k, at, n))
    /\ dev' = Device("want", at, n)

EndTransfer(status) ==
  /\ Say(Pkt("end", 0, status))
  /\ dev' = [dev EXCEPT !.st = IF status = 0 THEN "ended" ELSE "refused"]

Ignore == UNCHANGED <<input, dev>>

\* How it takes the next item, in each of its states.
DevTake ==
  /\ tx # <<>> /\ tx' = Tail(tx) /\ Len(rx) < MaxQueued
  /\ LET i == Head(tx) IN
     CASE dev.st = "hello" /\ i.k = "hresp" ->
            IF dev.n = 1
            THEN /\ \/ Say(Pkt("cmdready", 0, 0)) \/ UNCHANGED input
                 /\ dev' = [dev EXCEPT !.st = "cmd"]
            ELSE Ask \/ EndTransfer(1)
       [] dev.st = "cmd" /\ i.k = "exec" ->
            (\E n \in 0..2 : Say(Pkt("exec", 0, n)) /\ UNCHANGED dev) \/ EndTransfer(1) \/ Ask
       [] dev.st = "want" ->
            IF i.k = "data" /\ i.at = dev.at /\ i.n = dev.n
            THEN Ask \/ EndTransfer(0) \/ EndTransfer(1)
            ELSE EndTransfer(1)        \* whatever it is, it is not the image
       [] dev.st \in {"hello", "cmd", "refused"} /\ i.k = "switch" -> DevHello(0)
       [] dev.st = "ended" /\ i.k = "done" ->
            /\ \/ Say(Pkt("done", 0, 0))
               \/ rx' = rx \o <<Pkt("done", 0, 0), Pkt("log", 0, 0)>> /\ UNCHANGED off
            /\ dev' = [dev EXCEPT !.st = "fire"]
       [] dev.st = "fire" /\ i.k = "nop" -> Say(Pkt("ack", 0, 0)) /\ UNCHANGED dev
       [] dev.st = "fire" /\ i.k # "nop" -> (Say(Pkt("nak", 0, 0)) /\ UNCHANGED dev) \/ Ignore
       [] OTHER -> Ignore
  /\ UNCHANGED <<host, pc, state, result, plain>>

\* Waiting, it may say what it has said before.
DevRepeat ==
  /\ rx = <<>> /\ tx = <<>>
  /\ \/ dev.st = "want" /\ \E k \in {"read", "read64"} : Say(Pkt(k, dev.at, dev.n))
     \/ dev.st = "cmd" /\ Say(Pkt("cmdready", 0, 0))
  /\ UNCHANGED <<host, pc, state, result, tx, dev, plain>>

-----------------------------------------------------------------------------
(* read_hello *)

AtHello == pc \in {"hello1", "hello2"}

\* 48 bytes of text: there is no need for a handshake.
HelloText ==
  /\ AtHello /\ Avail >= 12 /\ TRUE \in FirstIsAscii
  /\ Take(12)
  /\ Return("already")
  /\ UNCHANGED <<host, tx, dev, plain>>

HelloUnexpected ==
  /\ AtHello /\ Avail >= 12 /\ FALSE \in FirstIsAscii /\ Command # "hello"
  /\ Take(12)
  /\ Return("unexpected")
  /\ UNCHANGED <<host, tx, dev, plain>>

\* A Hello: answer it with a HelloResponse for image transfer.  Info is
\* queried from a device that says it is in command mode.
HelloReceived ==
  /\ AtHello /\ Avail >= 12 /\ Command = "hello"
  /\ Take(12)
  /\ cmdmode' = (Head(rx).n = 1)
  /\ pc' = "hresp" /\ state' = "HelloReceived"
  /\ UNCHANGED <<loader, query, tries, result, tx, dev, plain>>

\* What is taken for a Hello is none.
HelloMisread ==
  /\ AtHello /\ Avail >= 12 /\ Stray
  /\ Take(12)
  /\ cmdmode' \in BOOLEAN
  /\ pc' = "hresp" /\ state' = "HelloReceived"
  /\ UNCHANGED <<loader, query, tries, result, tx, dev, plain>>

\* Nothing, or less than a Hello, which is lost.
HelloTimeout ==
  /\ AtHello /\ Avail < 12
  /\ TakeAll
  /\ IF pc = "hello1" THEN GoTo("nop") ELSE Return("helloFailed")
  /\ UNCHANGED <<host, tx, dev, plain>>

-----------------------------------------------------------------------------
(* try_firehose_nop and pbl_hack *)

NopWrite ==
  /\ pc = "nop"
  /\ Put("nop") /\ GoTo("nopread")
  /\ UNCHANGED <<host, input, dev>>
  /\ plain' = FALSE

\* Without an ACK the handshake goes on, if there is a loader to upload.
NoFirehose == IF loader THEN GoTo("hack") ELSE Return("notInFirehose")

NopWriteFails ==
  /\ pc = "nop"
  /\ NoFirehose
  /\ UNCHANGED <<host, input, tx, dev, plain>>

NopRead ==
  /\ pc = "nopread" /\ Avail > 0
  /\ TakeAll
  /\ IF \E j \in 1..Len(rx) : rx[j].k = "ack" THEN Return("already") ELSE NoFirehose
  /\ UNCHANGED <<host, tx, dev, plain>>

NopTimeout ==
  /\ pc = "nopread" /\ Avail = 0
  /\ NoFirehose
  /\ UNCHANGED <<host, input, tx, dev, plain>>

HackWrite ==
  /\ pc = "hack"
  /\ Put("hresp") /\ GoTo("hackread")
  /\ UNCHANGED <<host, input, dev>>
  /\ plain' = FALSE

\* The answer is read, when it comes within 10 ms, and has no consequence;
\* either way a SwitchMode follows, unless it cannot be written.
HackRead ==
  /\ pc = "hackread"
  /\ IF Avail >= 4 THEN Take(4) ELSE TakeAll
  /\ \/ Put("switch") /\ pc' = "hello2" /\ state' = "WaitingHello" /\ UNCHANGED result
     \/ Return("io") /\ UNCHANGED tx
  /\ UNCHANGED <<host, dev, plain>>

-----------------------------------------------------------------------------
(* handshake, from the Hello to the upload *)

\* handshake unwraps loader_path: it panics if there is none.  The file may
\* not be readable.
ToUpload ==
  \/ loader /\ pc' = "upload" /\ state' = "WaitingDataRequest" /\ UNCHANGED result
  \/ loader /\ Return("transfer")
  \/ ~loader /\ Return("unwrap")

HelloRespond ==
  /\ pc = "hresp"
  /\ Put("hresp")
  /\ IF cmdmode THEN GoTo("exec") /\ query' = 1 ELSE ToUpload /\ UNCHANGED query
  /\ UNCHANGED <<loader, cmdmode, tries, input, dev, plain>>

\* exec_cmd, for the hardware id and then for the serial number.
ExecWrite ==
  /\ pc = "exec"
  /\ Put("exec") /\ GoTo("execread")
  /\ UNCHANGED <<host, input, dev>>
  /\ plain' = FALSE

\* An info query never fails the handshake.
NextQuery ==
  IF query = 1 THEN GoTo("exec") /\ query' = 2 ELSE ToUpload /\ query' = 0

ExecWriteFails ==
  /\ pc = "exec"
  /\ NextQuery
  /\ UNCHANGED <<loader, cmdmode, tries, input, tx, dev, plain>>

\* The header is there, and if it is an ExecuteResponse its data too.  A
\* serial number of less than eight bytes is sliced all the same.
ExecRead ==
  /\ pc = "execread" /\ Avail >= 4
  /\ IF Command = "exec" THEN Take(4 + Head(rx).n) ELSE Take(4)
  /\ IF Command = "exec" /\ query = 2 /\ Head(rx).n = 1
     THEN Return("panic") /\ UNCHANGED query
     ELSE NextQuery
  /\ UNCHANGED <<loader, cmdmode, tries, tx, dev, plain>>

\* What is taken for an ExecuteResponse is none, nor is its length one: there
\* may be as many words, or not.
ExecMisread ==
  /\ pc = "execread" /\ Avail >= 4 /\ Stray
  /\ \/ \E m \in 0..(Avail - 4) :
          /\ Take(4 + m)
          /\ IF query = 2 /\ m = 1 THEN Return("panic") /\ UNCHANGED query ELSE NextQuery
     \/ TakeAll /\ NextQuery
  /\ UNCHANGED <<loader, cmdmode, tries, tx, dev, plain>>

ExecTimeout ==
  /\ pc = "execread" /\ Avail < 4
  /\ TakeAll
  /\ NextQuery
  /\ UNCHANGED <<loader, cmdmode, tries, tx, dev, plain>>

-----------------------------------------------------------------------------
(* upload_loader and send_loader_chunk *)

Requested == pc = "upload" /\ Avail >= 2 /\ Command \in {"read", "read64"}

\* Faulty: the longer body of a 64-bit request is not read to its end, and
\* its first half is taken for the range.
UploadChunk64Short ==
  /\ Requested /\ Head(rx).at + Head(rx).n <= LoaderLen
  /\ Take(5)
  /\ tx' = Append(tx, [k |-> "data", at |-> IF Head(rx).k = "read" THEN Head(rx).at ELSE 0,
                       n |-> Head(rx).n])
  /\ pc' = "upload" /\ state' = "Transferring"
  /\ UNCHANGED <<host, result, dev, plain>>

UploadChunk ==
  /\ Requested /\ Head(rx).at + Head(rx).n <= LoaderLen
  /\ Take(Size(Head(rx)))
  /\ tx' = Append(tx, [k |-> "data", at |-> Head(rx).at, n |-> Head(rx).n])
  /\ pc' = "upload" /\ state' = "Transferring"
  /\ UNCHANGED <<host, result, dev, plain>>

\* The range is not within the file, or the write fails.
ChunkFails ==
  /\ Requested
  /\ Take(Size(Head(rx)))
  /\ pc' = "end"
  /\ IF Head(rx).at + Head(rx).n > LoaderLen
     THEN result' = "transfer" /\ UNCHANGED state
     ELSE result' = "io" /\ state' = "Transferring"
  /\ UNCHANGED <<host, tx, dev, plain>>

\* What is taken for a request is none: the range is any, if there is one to
\* read at all, and the end of a 64-bit one may overflow.
ChunkMisread ==
  /\ pc = "upload" /\ Avail >= 2 /\ Stray
  /\ \E w \in {Size(Pkt("read", 0, 0)), Size(Pkt("read64", 0, 0))} :
       \/ /\ Avail >= w /\ Take(w)
          /\ \/ \E at, n \in 0..LoaderLen :
                  /\ at + n <= LoaderLen /\ Len(tx) < MaxQueued
                  /\ tx' = IF n = 0 THEN tx ELSE Append(tx, [k |-> "data", at |-> at, n |-> n])
                  /\ pc' = "upload" /\ state' = "Transferring" /\ UNCHANGED result
             \/ \E r \in {"transfer", "io", "panic"} : Return(r) /\ UNCHANGED tx
       \/ /\ Avail < w /\ TakeAll
          /\ Return("io") /\ UNCHANGED tx
  /\ UNCHANGED <<host, dev, plain>>

\* EndTransfer: the header alone ends the upload; image and status stay
\* unread.
UploadEnd ==
  /\ pc = "upload" /\ Avail >= 2 /\ (Command \in {"end", "done"} \/ Stray)
  /\ Take(2)
  /\ GoTo("done")
  /\ UNCHANGED <<host, tx, dev, plain>>

\* Anything else is skipped, eight bytes at a time.
UploadSkip ==
  /\ pc = "upload" /\ Avail >= 2 /\ Command \notin {"read", "read64", "end", "done"}
  /\ Take(2)
  /\ GoTo("upload")
  /\ UNCHANGED <<host, tx, dev, plain>>

\* Faulty: the silence is waited out for ever.
UploadWaits ==
  /\ pc = "upload" /\ Avail < 2
  /\ TakeAll
  /\ GoTo("upload")
  /\ UNCHANGED <<host, tx, dev, plain>>

UploadTimeout ==
  /\ pc = "upload" /\ Avail < 2
  /\ TakeAll
  /\ Return("transfer")
  /\ UNCHANGED <<host, tx, dev, plain>>

-----------------------------------------------------------------------------
(* send_done *)

DoneWrite ==
  /\ pc = "done"
  /\ Put("done") /\ GoTo("doneread")
  /\ UNCHANGED <<host, input, dev, plain>>

\* One read, of at most DoneLimit words, whatever they are and if there are
\* any: a port at its end is as good.
DoneRead ==
  /\ pc = "doneread"
  /\ IF Avail <= DoneLimit THEN TakeAll ELSE Take(DoneLimit)
  /\ pc' = "end" /\ result' = "ok" /\ state' = "Done"
  /\ UNCHANGED <<host, tx, dev, plain>>

-----------------------------------------------------------------------------
\* A write other than those above or the read of send_done fails.
Fails ==
  /\ pc \in {"hack", "hresp", "done", "doneread"}
  /\ Return("io")
  /\ UNCHANGED <<host, input, tx, dev, plain>>

\* After a failure the executor may open the port and try again; what was in
\* the port may be gone.
Retry ==
  /\ pc = "end" /\ result \notin {"ok", "already", "unwrap", "panic"} /\ tries < MaxTries
  /\ tries' = tries + 1
  /\ pc' = "hello1" /\ state' = "WaitingHello" /\ result' = "none"
  /\ query' = 0 /\ cmdmode' = FALSE /\ plain' = FALSE
  /\ \/ TakeAll
     \/ UNCHANGED input
  /\ UNCHANGED <<loader, tx, dev>>

Client ==
  \/ HelloText \/ HelloUnexpected \/ HelloReceived \/ HelloMisread \/ HelloTimeout
  \/ NopWrite \/ NopWriteFails \/ NopRead \/ NopTimeout \/ HackWrite \/ HackRead
  \/ HelloRespond \/ ExecWrite \/ ExecWriteFails \/ ExecRead \/ ExecMisread \/ ExecTimeout
  \/ UploadChunk \/ ChunkFails \/ ChunkMisread \/ UploadEnd \/ UploadSkip \/ UploadTimeout
  \/ DoneWrite \/ DoneRead \/ Fails

Next == DevBoot \/ DevTake \/ DevRepeat \/ Client \/ Retry

Spec == Init /\ [][Next]_vars

\* The handshake is one async function: once called it is run to its end.
FairSpec == Spec /\ WF_vars(Client)

-----------------------------------------------------------------------------
(* Properties *)

States == {"WaitingHello", "HelloReceived", "WaitingDataRequest", "Transferring", "Done"}
Results == {"none", "ok", "already", "unexpected", "helloFailed", "notInFirehose",
            "transfer", "io", "unwrap", "panic"}

\* Types; a packet that has been read to its end is gone.
TypeOK ==
  /\ loader \in BOOLEAN /\ cmdmode \in BOOLEAN /\ plain \in BOOLEAN
  /\ pc \in {"hello1", "nop", "nopread", "hack", "hackread", "hello2", "hresp", "exec",
             "execread", "upload", "done", "doneread", "end"}
  /\ state \in States /\ result \in Results
  /\ query \in 0..2 /\ tries \in 1..(MaxTries + 1)
  /\ rx \in Seq(Packet) /\ tx \in Seq(Item)
  /\ off \in Nat /\ (rx = <<>> => off = 0) /\ (rx # <<>> => off < Size(Head(rx)))
  /\ dev \in [st : {"boot", "hello", "cmd", "want", "ended", "refused", "fire"},
              at : Nat, n : Nat]

\* The handshake is skipped only if the device does run Firehose, unless the
\* read for a Hello has begun in the middle of a Sahara packet, which the first
\* one of the first handshake never does.
Astray ==
  AtHello /\ off > 0 /\ Head(rx).k \notin Texts /\ (pc = "hello1" => tries > 1)
SkipSound ==
  [][result # "already" /\ result' = "already" => dev.st = "fire" \/ Astray]_vars

\* Every chunk the device takes is the chunk it is waiting for, not one for an
\* earlier request or one cut out of a misread packet, as long as nothing but
\* answers has been sent to it (no NOP, PblHack, info query or second try).
ChunkAnswersRequest ==
  plain /\ tx # <<>> /\ Head(tx).k = "data" =>
    dev.st = "want" /\ Head(tx).at = dev.at /\ Head(tx).n = dev.n

\* A handshake returns, unless the device talks for ever: upload_loader serves
\* every request and skips every packet it does not know, without a bound, and
\* is over as soon as the device falls silent.
HandshakeReturns == []<>(pc = "end") \/ []<><<Len(rx') > Len(rx)>>_vars

\* handshake: "loader_path is guaranteed Some here (None returns early above)".
\* It is not when the Hello comes at once.
LoaderGuaranteed == result # "unwrap"
=============================================================================
