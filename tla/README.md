# TLA+ models of qedl-rs

qedl-rs talks to a Qualcomm device in Emergency Download mode over a serial
port: Sahara to get a loader into it, then Firehose (XML commands and raw data)
to read, write and erase its storage. This directory holds TLA+ models of it,
the TLC configurations that check them, and theorems about them that TLAPS
checks. Line numbers are those of the repository at the commit modelled.

## 1. The system

| Part | State it keeps | Operations | Talks to | Makes it correct |
|---|---|---|---|---|
| Firehose client (`qedl-firehose`) | `leftover` buffer, read buffer, negotiated parameters | `configure`, `read_sectors`, `program_sectors`, `erase_sectors`, `peek`, `poke`, `reboot`, `get_*`, `raw_xml`, `drain_initial_messages` | Transport; called by the executor | every verdict is of the command it is returned for; reads return the sectors; a command's exchange is over when it returns |
| Sahara session (`qedl-sahara`) | `SaharaState`, protocol parameters | `handshake` and what it calls | Transport; called by the executor | loader sent as asked for, skipped only in Firehose, returns unless the device talks for ever |
| Jobs (`qedl-job/jobs.rs`, `context.rs`, `reader.rs`) | loop counters, the file | dump, write, erase, verify, flash, info, gpt, reboot, xml | `JobContext`, files | Ok means the whole partition; nothing outside it changes; interrupted dumps resume |
| Executor (`qedl-job/executor.rs`) | device, transport, client, partitions, `DeviceState`, `Session` | `connect`, `handshake`, `init_firehose`, `load_gpt`, `execute`, `reboot`, `init_firehose_only` | all of the above | no job without a transport and a partition table of the device it is connected to |
| State machine, session, types, events (`qedl-core`) | `DeviceState`, `Session` | `transition`, `update_from_firehose` | executor | the session reports what was negotiated |
| Transport (`qedl-transport`: `port.rs`, `serial.rs`) | port, timeout | read, write, flush, `read_exact` | the device | - |
| Enumeration, DIAG switch (`device.rs`) | none: the ports of the system | `list`, `auto_select`, `find_by_*`, `wait_for_device`, `switch_diag_to_edl` | the operating system | the device selected is the one meant and, after a switch, the one switched; waits end |
| GPT and partition map (`qedl-storage`) | tables per LUN | parse, find | executor | the table of the copy that is intact, of its own LUN; both look-ups agree |
| Images (`qedl-image`) | none | sparse expansion, rawprogram, patch, checksum | jobs | expansion as the format says |
| Facade and command line (`qedl`, `qedl-cli`) | options | an initialisation of several executor calls, then one job | executor | - |

**What is concurrent.** The host is one chain of awaited async functions;
nothing of it runs in parallel. What interleaves with it is the device (it
answers when it likes and its bytes arrive in pieces of any length), the
operating system's ports, and the end of the program itself, which may be
killed between any two calls and leaves a file or a disk half written.

**What is hard.** (1) Framing: Firehose has no lengths, so the client decides
from the text where a response ends and raw data begins, and keeps what is left
for the next call. (2) Attribution: a command may have one response or two
(before and after raw data), and after a timeout the answer still comes.
(3) Sahara has binary packets with lengths the code does not always use; what a
read takes depends on where in a packet it starts, and the handshake must work
out what a device found in any state is doing. (4) Jobs must hold their promise
for every payload, image length and point of failure. (5) Devices restart, and
appear under other port numbers, between two looks at the ports; what tells
them apart (serials, names, order) may be missing. (6) The executor lives
longer than a connection: state, session, transport, geometry and tables are
each replaced at another step, and every step may fail.
`PROJECT.json` lists the hazards at their lines with the properties about them.

## 2. The modules

```
FirehoseTypes            commands, sector contents, results
  FlashService           what the client promises (abstract)
  FirehoseLink           the client, the byte stream, the device
    MCFirehoseLink       values for TLC
    FirehoseLinkProofs   theorems: types, lengths
      FirehoseServiceProofs  theorems: clean links, and the refinement
SaharaSession            the handshake, the packets, the device
  SaharaProofs           theorems
NatRecursion             lemmas: induction and recursion on numbers
UsbPorts                 listing and selecting ports (pure)
DiagFraming              the DIAG packet and a receiver of it (pure)
  DeviceConnect          wait, connect, switch, against restarting phones
    MCDeviceConnect
    ConnectProofs        theorems, with NatRecursion
Gpt                      partition tables and their look-ups (pure)
  Executor               the executor's life over many calls
    MCExecutor
    ExecutorProofs       theorems, with NatRecursion
Sparse                   expansion of sparse images (pure)
  Jobs                   dump, write, erase, verify over failing sector calls
    MCJobs
    JobsProofs           theorems
    Flash                rawprogram and patch files, among the jobs of Jobs
      MCFlash
      FlashProofs        theorems, with JobsProofs and NatRecursion
```

The modules meet where one calls the other. Jobs and FirehoseLink meet at
FlashService: a job sees a call that has its effect and returns Ok, or fails
with some of its sectors written. That is what FlashService says of the client,
and what `Put` and `PutSome` of Jobs take for granted. Executor sees a connect,
a handshake or a Firehose exchange as one step that succeeds or fails, with
what it leaves behind in either case; DeviceConnect, SaharaSession and
FirehoseLink show what happens inside.

### FirehoseLink

The stream of the device's bytes is a sequence of tokens: the head, end and
`</data>` of a response, log lines, hex log lines, sectors of raw data. Two cut
points divide it: `fetched` (what the client has read and not used, that is its
accumulator or `leftover`) and `arrived` (what the port holds). One sector is
one unit of data.

| Model | Code (`qedl-firehose/src/client.rs`) |
|---|---|
| `pc`: `drain`, `drainmore`, `idle`, `resp`, `raw`, `final`, `peek` | which read the current call is in |
| `Send`, `SendFails` | flush and write of `execute_command` and `send_xml`; a write that fails may have sent part of it |
| `Accumulate`, `TooLarge`, `EmptyRead`, `GiveUp` | the loop of `read_response` |
| `Reply`, `TextEnd`, `Parses`, `Use` | where the response ends, `from_xml`, `split_off` into `leftover` |
| `Ack`, `Nak`, `Unreadable` | the verdict; end of every simple command and of transfers |
| `ReadGo`, `ReadRaw`, `ReadRawFails` | `read_sectors`: log bytes, then leftover, then the port, then the completion response |
| `ProgramGo`, `ProgramFails` | `program_sectors`: the data on the first ACK |
| `PeekRead`, `PeekEmpty`, `DrainRead`, `DrainEmpty` | `peek`, `drain_initial_messages`, which read past the leftover |
| `Deliver` | bytes reach the port, in pieces |
| `DevExecute`, `DevStore`, `DevIgnore` | the device (external): acknowledges or refuses, with or without a log line, wraps documents or not, sends data raw or as hex logs |

"query" stands for the commands with one response and no effect on sectors
(configure, getstorageinfo, getsha256digest, poke, power, raw XML): they use the
link in the same way. `clean` is a history variable: it is lost by a call that
ends without the device's verdict, and by a peek, which may stop early. What is
promised of a clean link is FlashService; of an unclean one only `ReadLength`
and `CallEnds`, since the code does nothing to get back in step. There a response
may have lost its end, so that the end of another line passes for it, and the
text of a response may hold several; `Reply`, `Torn` and `Parses` follow what
`find` and `from_xml` make of it.

### SaharaSession

Packets have sizes in words, because what matters is which bytes a read takes.
`rx` and `off` are the packets in the port and how many words of the first have
been read; `pc` is the read or write the handshake is at; `plain` is a history
variable (only answers have been sent to the device so far). Actions are named
for the function and the outcome (`Hello*` for `read_hello`, `Nop*` for
`try_firehose_nop`, `Hack*` for `pbl_hack` and `mode_switch`, `Exec*` for
`exec_cmd`, `Upload*` and `Chunk*` for `upload_loader` and `send_loader_chunk`,
`Done*` for `send_done`). `Retry` is a second `JobExecutor::handshake`. The
device may be found booting, waiting after a lost Hello, in the middle of a
transfer, or in Firehose, and may repeat what it waits with (`DevRepeat`).
Behind the command and length of a packet any word may be found, so a read that
begins there may take it for any command (`Stray`, and the actions named
`*Misread`).

### Jobs

The disk and the files are sequences of bytes, sectors are `SectorBytes` long.
`pc` says which job's loop runs, `at` and `left` are its `sector` and
`remaining`. `DumpStart` models `execute` up to the loop, with resumption and
the opening of the file (truncate or append); `*Chunk` one turn of a loop;
`*Stops` a failing call or the end of the program, after which some sectors of
the call have been written, or some of the bytes of the file. `fresh` is a
history variable: the partition has not changed since the dump file was begun.
`Contents` and `Expands` compare with the magic numbers as the code has them;
what is written of a file they take for sparse is `Expand` of Sparse.

### Flash

FlashJob is a job of the same disk. A plan is the content of its two files, as
entries. `FlashStart` parses them (entries with a number missing are dropped)
and checks that the files are there; `FlashTask` takes the next task and begins
its loop, or fails or passes it over; `FlashPiece` is one call of a loop, with
the chunk and the bytes of each kind of task; `FlashPatch*` one patch, applied,
skipped or out of bounds; `FlashStops` a failure or the end of the program.
`flash.base` (the disk at the start) and `flash.skipped` are history.

### UsbPorts, DiagFraming and DeviceConnect

UsbPorts is what `device.rs` computes from one view of the bus, as operators
over a sequence of USB devices: `Queried` (`query_per_interface_modes`),
`List`, `ListAll`, `AutoSelect`, `FindBy*`, `WaitMatch`. Strings are sequences
of words, and ports are numbers, which is all their comparisons tell apart.
DiagFraming is `diag_frame` with `crc16_ccitt` and `hdlc_escape`, down to bits:
a byte is the set of its one bits, so that exclusive or is the symmetric
difference and a shift moves the members.

| Model (DeviceConnect) | Code |
|---|---|
| `phys`, `Restart`, `ComeBack`, `ByHand` | the phones and where they are (external) |
| `listed` | what `list` and `list_all` answer now, a function of `phys` kept as a variable |
| `WaitFor` | `--wait-device` of the command line, one look of `wait_for_device` |
| `Find` | `connect` up to the switch: selection, forced modes, refusal |
| `SendSwitch`, `OpenFails`, `NeverSent` | the two baud rates of `switch_diag_to_edl`; a write that fails may have arrived |
| `Snapshot`, `Poll` | its snapshot and its polls |
| `Reselect` | `connect` after the switch |
| `ListFails` | a listing that fails anywhere else |

`target` is the device found, `self` what the executor then records, `history`
what the properties compare with: which phone was found, which could have been
meant, which was recorded, how many were moved by hand. The receiver in
`Unframe` is not the code's: it undoes the escapes and checks the frame by the
remainder of polynomial division, in a register that shifts the other way and
takes one bit at a time, so that `FrameRoundTrip` compares two independent
definitions. A phone takes the order to restart if `Unframe` finds it in the
packet (`IsSwitch`, `Taken`).

### Gpt and Executor

Gpt is a disk's two copies of a table and what the code makes of them. Executor
has the fields of `JobExecutor` as variables, two ports, and phones with their
own hardware and tables. A facade call is a sequence of steps in `todo`, run
until one fails, with phones coming and going between them.

| Model (Executor) | Code (`executor.rs`) |
|---|---|
| `state`, `device`, `session`, `transport`, `client`, `tables`, `infos` | the fields of `JobExecutor` |
| `Programs` | the facade's calls (`qedl/src/client.rs`) |
| `Connect`, `Handshake`, `InitFirehose`, `LoadGpt`, `Reboot` | the methods of these names |
| `Direct`, `Storage` | `init_firehose_only` after its connect, and its getstorageinfo |
| `WriteJob` | any job by a partition's name: `find_partition`, then writes |
| `FlashJob` | a job that may replace the partition table |
| `InfoJob` | `refresh_storage_info` |
| `Configured`, `Stored`, `Told` | which reports change which of the three copies of the geometry |

`told`, `seen` and `wrote` are history: whether the session was given the
client's sector size and memory type since, what the last load met, and what the last write by
name went to.

## 3. The runs

| Run | Bounds | Shows |
|---|---|---|
| `firehose_link` | 3 calls, 2 sectors, 1 call on an unclean link, every device style | `TypeOK`; `Drained`: between calls of a clean link nothing of an earlier one is left; `AnswersOwn`: verdicts are of their own command; `DiskUnspoiled`: no command is stored as data; `ReadLength`; `ImplementsService` |
| `firehose_unclean` | 2 calls, 1 sector, each also on an unclean link | `CallEnds`: a call returns whatever the device does and whatever is left over, except behind half a response behind a whole line |
| `sahara` | loader of 2 units, 3 handshakes, 2 packets queued in the port (requests are not counted) | `TypeOK`; `SkipSound`: the handshake is skipped for a device in Firehose, or by a read that has gone astray; `ChunkAnswersRequest`; `HandshakeReturns` |
| `jobs` | 3 jobs, partition of 3 sectors of 2 bytes among 5, payloads of 1, 4, 8 bytes with a ZERO_BUF of 4, four images, six plans of a flash | `TypeOK`; `DumpExact`; `WriteExact`; `EraseExact`; `FlashExact`: the disk is what tasks and patches say, byte for byte; `OutsideUntouched` and `FlashContained`: nothing else changes, also on failure; `JobReturns` |
| `connect` | 2 phones, 4 ports, 3 looks in a bounded wait, 1 phone moved by hand | `TypeOK`; `FrameRoundTrip`; `FoundIsMeant`; `ConnectsToFound`, `SessionIsTrue`: after a switch the device recorded is the one switched, and in EDL mode; `ConnectReturns`, `WaitEnds` |
| `executor` | an eMMC phone of 1 LUN, a UFS phone of 3, 2 ports, 3 calls, 2 phones plugged or unplugged | `TypeOK`; `ReadyIsWired`; `LoadedTrue`, `LoadVerdict`: tables are those of the copy that is intact, and fail only without one; `WritesInside`; `FindsAgree`; `SessionTold` |

The bounds are chosen by what can differ. Three calls: one that leaves
something behind, one that meets it, one that shows it lasts; two sectors are
the least that can be exchanged or half done. A response buffer of six tokens
is over-full with two documents of another call; one tolerated empty read has
both sides of the limit. `CallEnds` is about what may be in the buffer, which
two calls fill in every way that matters: cut off anywhere, answered late, or
half read by a peek. Three handshakes: the second meets what the first
left, the third what a read that began in the middle of a packet left.
Payloads are smaller than a sector, smaller than the partition with a
remainder, and larger than ZERO_BUF; images end inside the second and third
sector and one byte behind the partition, and one begins with the bytes
WriteJob takes for sparse. Three jobs: for example dump, interrupted; dump,
interrupted; dump to the end. The plans erase and program overlapping runs, in
both orders and by both methods, patch a sector twice, beyond its end, with
both variables, with a CRC and with too many bytes, program a sparse image with
all kinds of chunks and one that is cut short, and name files that are not
there or no file at all.

Two phones: the one that is meant and one that is mistaken for it. They have
every mix of a serial, none, and one in DIAG mode only, readable and unreadable
descriptors, names and none; ports are in the order of the interfaces or not;
four ports leave room for a phone to come back somewhere else. One phone moved
by hand, at any moment, is one more than the switch itself moves. The tables
have both copies good, either or neither; five entries fill two sectors of 512
bytes and one of 4096; names recur on several LUNs and in capitals. Three calls
of the executor: connect to one phone, to another, and use it; or load, flash,
load.

`CHECK_DEADLOCK FALSE` is set because all these systems stop: a link after its
last call, a handshake or a connect that has returned, jobs and facade calls
when there are no more.

Ten statements of the repository do not hold of the code. Six have a run that
TLC ends with a counterexample:

| Run | What is said | What happens |
|---|---|---|
| `firehose_split` | the leftover buffer loses no data where XML and raw data are mixed | a read that ends between a response and its `</data>` makes the `</data>` sector data |
| `sahara_loader` | `loader_path` is `Some` at the upload | it may be `None` when the Hello comes at once |
| `firehose_spin` | a response found after an empty read is returned | the test for one passes for half a response behind a log line, none is found, and the count of empty reads starts again: if no more comes the loop never ends |
| `jobs_torn` | dumps resume where they broke off | a torn sector stays in the file |
| `jobs_erase` | erase uses slices of the zero buffer | the slice is longer than the buffer if the payload is |
| `executor_reload` | `load_gpt` loads the partition table from the device | a second load is put behind the first, whose partitions go on being found |

Four more are plain from the text of the code, which the models follow, and
have no run:

- sparse images are expanded (`qedl-job/README.md:24`): `WriteJob` compares with
  a magic number that sparse images do not have (`jobs.rs:200`);
- Android sparse images are expanded (`qedl-image/README.md:21`): the size of a
  chunk, which counts blocks, is taken for bytes (`sparse.rs:200`);
- the session holds all device state (`qedl-core/src/session.rs:4`): where no
  total of sectors was reported, `load_gpt` sets the client's and not the
  session's (`executor.rs:517`);
- the DoneResponse must be read (`qedl-sahara/src/session.rs:486`): the body of
  the EndTransfer, which nobody has read, is there first and is read for it.

`SplitClose` and `TornWrites` are the switches behind `firehose_split` and `jobs_torn`:
the passing runs hold with reads that never end in front of a `</data>`
(a device that sends each document in one transfer) and files written by
whole sectors. So `ImplementsService` and `DumpExact` are conditional on them;
the violation runs show that the conditions are needed.

## 4. Fairness

*FirehoseLink*: weak fairness of the client's steps (a call is one async
function its caller awaits). Nothing is assumed of the device or of `Deliver`:
the device may fall silent, or be unplugged, between any two tokens. That is
why `CallReturns` fails: the test after an empty read sets the count of empty
reads back when `<response ` and `/>` occur anywhere, so with half a response
behind a log line the client's own steps go round for ever. `CallEnds` is what
is true instead: a call that never returns stays in that one place
(`<>[]HalfRead`). The bytes need not come from a device that fails in the
middle of an answer: one call times out, the next takes its late answer and
leaves a log line and half of another in `leftover`, and a peek, which reads past
`leftover`, drops the rest; the call after it, on a silent device, spins.
*SaharaSession*: weak fairness of the client; every read has a timeout. The
upload has no bound on requests or packets skipped, so `HandshakeReturns`
excepts a device that goes on sending for ever; one that is silent from any
point on, wherever in a packet the reads then begin, does not hold it.
*Jobs* and *Flash*: weak fairness of the loops' own steps (`Works`,
`FlashWorks`), none of failures.
*DeviceConnect*: weak fairness of the program's steps: it polls by itself, and
nothing it does waits for a phone. Phones need never come back. A wait with a
limit counts its looks, which stands for the clock; one without a limit ends
only if a phone that fits stays, which `WaitEnds` assumes.
*Executor* states no fairness: its properties are safety properties.

## 5. What is proved

`FirehoseLinkProofs` proves, for any number of sectors, calls, retries and any
buffer size:

- `TypeCorrect`: `Spec => []TypeOK`, with the order of the two cut points of
  the stream (`fetched <= arrived <= Len(stream)`), without which the client
  would use bytes it has not read;
- `ReadsAreFull`: `Spec => []ReadLength`, a read that returns Ok has as many
  sectors as asked for, on any link, clean or not.

Assumptions: those on the constants in FirehoseTypes and FirehoseLink.

`ReadLength` is not inductive: a step that returns Ok from `final` returns
`got`, of which `ReadLength` says nothing. `Progress` says it: in `raw` the
call is a read with at most `n` sectors collected and nothing left over, in
`final` a read has exactly `n`. `IInv == TypeOK /\ Progress /\ ReadLength` is
inductive (`Inductive`): one lemma per action, under it one step per conjunct
the action disturbs; lemmas about the vocabulary (`Doc`, `Answer`, `HexBytes`,
`Use`, `DropChunk`) say what the helpers return.

`FirehoseServiceProofs` proves, of every link on which no read ends just in
front of a `</data>` (`~SplitClose`; the run `firehose_split` shows that all of
it fails otherwise):

- `NothingLeftOver`: `Spec => []Drained`;
- `VerdictsAreOwn`: `Spec => []AnswersOwn`;
- `CommandsAreNotData`: `Spec => []DiskUnspoiled`;
- `ReadsAreExact`: `Spec => []ReadExact`, a read returns the device's sectors;
- `LinkImplementsService`: `Spec => ImplementsService`, the link implements
  FlashService for as long as it is clean.

None of the first four is inductive: what a call returns depends on all that is
on the wire. `CleanInv` (`CleanLink`) says it, under `clean`: at each `pc`,
where the device is in the current command, which bytes it has still to be
sent, and which responses and sectors stand between the client and the end of
the stream (`WireShape`, from `Silent`, `Sent`, `Answered`, `Storing`,
`CompletesAt`); where the cut points may be (`CutShape`); what the call is
(`CallShape`); and what has been collected of a read. TLC checked it as an
invariant of `firehose_link` before it was proved. Each action has its lemma;
a step that uses up a document moves the rest of the stream, which the lemmas
on `Use` and on sequences of tokens account for. The refinement is a step
simulation with the mapping of FirehoseLink: a call begins at `Send`, has its
effect at `DevExecute` or at the storing of the last sector, returns at the
verdict, fails at every end without one, and all other steps are stutters, or,
behind the loss of `clean`, not looked at (`ServiceStep`, with a lemma for each
of these cases).

`JobsProofs` proves, for any geometry, partition, payload, images and disk:

- `TypeCorrect`: `Spec => []TypeOK`, with `at + left <= Last + 1` in all loops;
- `WritesAreExact`, `ErasesAreExact`: `Spec => []WriteExact` and
  `Spec => []EraseExact`;
- `NothingOutside`: `Spec => OutsideUntouched`;
- `DumpsAreExact`: `Spec => []DumpExact` where `~TornWrites` (the run
  `jobs_torn` shows that it fails otherwise).

They assume what Jobs says of its constants, `JobsAssumption` and
`DataAssumption`. What a finished job has done says nothing of one that is
still at it, so `IInv` (`JobsInductive`) adds where a loop of each job is
(`Shape`) and what it has behind it (`Written`, `Erased`); on top of it,
`DumpSoFar` says that the file holds whole sectors, as many as the loop is past,
also between jobs, since the next one resumes from there. The arithmetic of
bytes and sectors (`Whole`, `BelowScaled`, `SectorsForFacts`, `RunInside`) and
the effect of a whole or partial call (`PutFacts`, `PutSomeFacts`) are lemmas.

`FlashProofs` proves, for any plan besides, of a behaviour in which FlashJobs
run among the other jobs:

- `FlashesAreExact`: `FlashSpec => []FlashExact`;
- `FlashesStayInPlan`: `FlashSpec => FlashContained`;
- `JobsAmongFlashes`, `OthersStayInside`, `DumpsAmongFlashes`: what JobsProofs
  proves of `Spec` holds of `FlashSpec` too.

`FlashExact` compares the disk with what the whole plan says once the job has
returned, so `FInv` (`FlashInductive`) says what it is on the way: what the job
has before it is a tail of the entries that parse (`Ahead`), its loop is inside
the run of the current task (`Within`), and every byte is what the last patch or
task taken up so far says of it, in the current task up to where its loop is
(`Made`). Each entry taken up moves that on by one (`TasksTake`, `TasksPass`,
`PatchesTake`, `PatchesPass`), and at the end the last of the spans is the one
`Flashed` chooses (`FlashedByte`). TLC checked `FInv` as an invariant of `jobs`
before it was proved. `FlashAssumption` (plans are lists of typed entries) is the
one assumption more. What `Expand`, `Parsed` and `PatchBytes` return is defined
by recursion on numbers: that there is such a function, and what type its values
have, is proved from the lemmas of NatRecursion. `ExpandsToBytes` says that the expansion of any bytes whatever ends with a verdict and bytes.

`SaharaProofs` proves, for any loader, any requests, number of tries, length
of texts and limit of the last read:

- `TypeCorrect`: `Spec => []TypeOK`;
- `SkipsAreSound`: `Spec => SkipSound`;
- `ChunksAnswerRequests`: `Spec => []ChunkAnswersRequest`.

They assume `SaharaAssumption` only. `Words`, the length of what is in the port,
is defined by recursion; that its prefixes are sums of sizes (`PrefixWords`) is
proved with NatRecursion, and from it what a read leaves (`TakeLeaves`,
`TakeWhole`). `SkipSound` needs `TextsFromFirehose`: texts in the port mean a
device in Firehose, and the first read of all begins with a packet.
`ChunkAnswersRequest` needs `InTurn`: as long as only answers have been sent,
client and device take turns, so that at most one packet or item is on its way,
and a request that is there is the one the device waits for. TLC checked both
as invariants of `sahara` before they were proved.

The exception in `SkipSound` is needed: `pbl_hack` reads 16 bytes of a Hello that
comes late, `read_hello` goes on in the middle of it, and a word there whose low
byte is 0x20 or more passes for text. TLC shows it with one handshake.

`ExecutorProofs` proves, for any ports, phones, tables and number of calls:

- `ReadyMeansWired`: `Spec => []ReadyIsWired`, an executor that says Ready holds
  the port of the device it reports, and its chip ids are those of the phone
  the port was opened to;
- `SessionShowsGeometry`: `Spec => []SessionTold`, the sector size and memory
  type the session was told stay those jobs are run with, until
  `refresh_storage_info`, which tells it nothing (of the total of sectors this
  is not so: see section 3);
- `TypeCorrect`: `Spec => []TypeOK`;
- `LoadsAreTrue`: `Spec => []LoadedTrue`, a load that succeeds has added the
  intact copy of each table it found and missed no LUN with a good primary
  header that could be read;
- `FailuresAreTrue`: `Spec => []LoadVerdict`, one that fails over a readable
  LUN 0 had neither copy, or no place to look for the backup;
- `WritesStayInside`: `Spec => []WritesInside`, a job that goes by a partition's
  name works on that partition, while the tables are the phone's;
- `LookupsAreOne`: `Spec => []FindsAgree`.

They assume what Executor says of its constants: the absent option is none of
the values it stands for the absence of (`ExecutorAssumption`,
`NoneAssumption`), and disks are as a partitioning tool writes them, all LUNs of
a phone in sectors of one size and the two copies of a table apart
(`PhoneAssumption`); neither is checked by the code, which finds the tables of
other disks wrongly or not at all.

The first two are not inductive. `init_firehose_only` opens
the port without asking for chip ids: the session must then be a fresh one and
not yet told, so the invariants say that "direct" comes only behind "connect"
in what a call has still to do (`Ordered`), and what holds at its turn
(`FreshTurn`, the last part of `TellOK`). `IInv` (`ExecutorInductive`) and, on
top of it, `TellOK` are inductive, with one lemma per action.

For the tables, `TypesOK` (`TypesInductive`) has the types of all fields, which
`TypeOK` leaves out: the client's and the session's are needed to tell a session
from none. `LoadOK` (`LoadInductive`) says that the partitions listed are those
of the tables, and that a table loaded is of a LUN the phone had, with both
verdicts on the load. `ReadFacts` says what one read of a LUN returns: the
sectors the header counts hold all entries it counts (`SlotsCovered`), so all
slots of the copy are parsed. Slots that are used, partitions of all tables and
tables of all LUNs are sequences put together: `FlattenFacts` says of such a
sequence that it holds what its parts hold, and nothing else, by induction on
the number of parts. `FoundInside` follows a name from the list through its
table to a slot on the disk. TLC checked `TypesOK` and `LoadOK` as invariants of
`executor` before they were proved.

`ConnectProofs` proves, for any number of phones and ports, any serials, names
and access to their descriptors, and waits of any length:

- `TypeInvariant`: `Spec => []TypeOK`, no two phones hold one port, and the
  listings are those of the phones;
- `WorksOnMeant`: `Spec => []FoundIsMeant`;
- `RecordsTheSwitched`: `Spec => []ConnectsToFound`;
- `SessionsAreTrue`: `Spec => []SessionIsTrue`;
- `FramesRoundTrip`: `Spec => []FrameRoundTrip`, as instances of
  `FramesAreRead`, which is about every command and every payload;
- `SwitchIsRead`: the packet the program writes is read as the order it is;
- `ListingsSound` and `Automatic`: what `list`, `list_all` and `auto_select`
  answer.

They assume `ConnectAssumption` (finitely many phones, numbers for ports) and
`PhonesAssumption`: what phones, places and settings are made of, and that no
two phones share a serial number, in either mode. `auto_select` takes ports that
share a serial for one device, so without this it could take one of two. Phones
whose serial is absent are covered.

The packet. `crc16_ccitt` shifts its register to the right a byte at a time, the
receiver divides from the left bit by bit. `Fed` is one bit of the former;
`MirrorFed` says that mirrored it is one step of the division, `ByteByBits` that
eight of them are one byte of the checksum, and `EndsAgree` that the registers
stay each other's mirror along any data. Fed with its own complement, low byte
first, the register ends in a constant (`LowByte`, `HighByte`), whose mirror is
the `Good` remainder (`RemainderGood`). For the escapes, `Reads` says of what is
on the line that it is free of flags, does not end in the middle of an escape,
and is read as what was sent; `ReadsOneMore` adds a byte. All of it is
induction along sequences, with NatRecursion.

The listings. The ports the operating system returns are the members of a set
ranked by their number; that they list the set, each once, is `RankedLists`.
Then `Queried` answers the interfaces of some phone of that product id, or
nothing (`QueriedIs`); each mode that a name or a place picks from it is one the
product id allows (`ModesAllowed`); and the first port of a phone in EDL mode is
listed as EDL (`EdlListed`). In DIAG mode the first port may take a later
interface by its place, but then an earlier port of the same product and serial
has taken the first, so that every serial in DIAG mode has a line that says DIAG
(`FirstPlace`, `DiagListed`). This is what `auto_select` needs in order to count
right (`OneEdl`, `OneDiag`).

The run. `ConnectsToFound` looks at the end only, so `Inv` says what holds on the
way: `OnItsWay`, no phone but the first one found has the port connect works
with, and none but it was asked to restart, as long as nobody plugs anything;
`OthersKnown`, the other phones in EDL mode have their ports in the snapshot, so
that a port that is not in it is the switched phone's; `Switched`, that phone is
in EDL mode once the polls are over. `Waiting` and `NotDone` say that nothing is
asked or recorded early. TLC checked `Inv` as an invariant of `connect` before
it was proved; each action has its lemma.

Only model-checked: everything under fairness (`CallEnds`,
`HandshakeReturns`, `JobReturns`, `ConnectReturns`, `WaitEnds`), which is out
of the prover's reach. Every invariant and action property of a passing run is
stated by a theorem. Some need a condition on a constant, which their run's
configuration meets and which the runs `firehose_split` and `jobs_torn` show to
be needed.

## 6. What is not modelled

- The payload `configure` negotiates is a constant of a behaviour in Jobs, and
  Executor has only the memory, the sector size and the total. The other
  parameters are shown and not used. `enter_command_mode` is never called. The
  wording of XML and logs; a log line with a `0x` word in it that is not data.
- The bytes of a GPT header and entry: their CRCs, GUIDs and UTF-16 names, and
  arithmetic on numbers of the disk that overflows (a product of 32 bits, a
  backup before the start). The layouts of the model are ones a partitioning
  tool writes.
- Sparse images whose block size is zero or not a multiple of four, and a file
  header that says it is shorter than 28 bytes, on which a debug build panics.
- `physical_partition` of rawprogram entries: a flash goes to one LUN. The entry
  CRC of a GPT, over which the code only warns ("intact" is said of headers), and
  the read of the backup that verifies a good primary, whose outcome is logged.
- The clock: a bounded wait has as many looks as `MaxPolls` says, where in the
  code their number depends on how long each takes. A timeout of zero, one look,
  is a `MaxPolls` of 0, which the theorems cover and the run does not take. `list` takes the ports from the operating system and
  the descriptors from libusb: two looks, one view in the model.
- Sahara packets of lengths that are not whole words, and words split by a read.
- DIAG ports that another program holds open, drivers that rename ports while
  they are listed, and the libusb error of a device that goes away inside one
  listing: a listing is one step.
- The transition table of DeviceState and `can_execute`: only their tests call
  them. `dry_run`: `execute` then does nothing.
- GptJob, XmlJob, peek, poke, digests: one call and its formatting.
  `dump-partitions` and `gen-xml` of the command line are loops over the other
  calls. Events, progress, spinners: output only.
- Opening ports and USB: I/O. Mock transport: a test double.

## 7. Plan

1. Done: Firehose link, Sahara handshake, jobs and flash, discovery and the
   DIAG switch, the executor's life, partition tables.
2. Done: the theorems on FirehoseLink, its refinement, and on Jobs, Flash and
   SaharaSession.
3. Done: the theorems on Executor, types, tables and look-ups by name included.
4. Done: the theorems on DeviceConnect, its listings and its packets.
