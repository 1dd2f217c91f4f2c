------------------------------ MODULE Executor ------------------------------
(***************************************************************************)
(* JobExecutor (qedl-job/src/executor.rs) behind its facade QedlClient: a  *)
(* long-lived object that connects, uploads the loader, configures         *)
(* Firehose, reads the partition tables and runs jobs, against phones that *)
(* are plugged, unplugged, rebooted and repartitioned between any two of   *)
(* its calls.  The longer calls (init, init_firehose_only) are made of the *)
(* shorter ones, and phones may come and go between these too.  What       *)
(* happens inside connect is in DeviceConnect, inside a handshake in       *)
(* SaharaSession, inside a Firehose command in FirehoseLink: here each of  *)
(* them succeeds or fails.                                                 *)
(***************************************************************************)
EXTENDS Gpt

CONSTANTS
  Ports, Phones,
  Hardware,    \* per phone: [memory, ss, conf, info], what configure and getstorageinfo report
  Layouts,     \* per phone: what its LUNs may hold, sequences of LUNs (see Gpt)
  Settings,    \* the executor's configuration: [port, force]
  Names,       \* partition names jobs are asked for
  MaxCalls,    \* bound: calls of the facade
  MaxPlugs     \* bound: phones plugged in or unplugged

ASSUME ExecutorAssumption ==
  /\ None \notin Ports /\ None \notin Phones /\ MaxCalls \in Nat /\ MaxPlugs \in Nat
  /\ Settings \subseteq [port : Ports \cup {None}, force : {"Auto", "Diag"}]
  /\ \A p \in Ports, d \in Phones, n \in 0..MaxPlugs : None # [port |-> p, phone |-> d, since |-> n]

(* What a phone is, and what its disks may hold: LUNs of one sector size,  *)
(* on which the two copies of the table do not overlap.                    *)
ASSUME PhoneAssumption ==
  /\ Hardware \in [Phones -> [memory : {"eMMC", "UFS"}, ss : Nat \ {0},
                             conf : SUBSET {"memory", "ss", "total"},
                             info : SUBSET {"memory", "ss", "total"}]]
  /\ \A d \in Phones : \A luns \in Layouts[d] :
       /\ luns \in Seq(Disk) /\ luns # <<>>
       /\ \A k \in DOMAIN luns : luns[k].ss = luns[1].ss /\ Apart(luns[k])

(* The absent option is none of the values it stands for the absence of.   *)
ASSUME NoneAssumption ==
  /\ None \notin Entry \cup [start : Int, num : Int, other : Int]
  /\ None \notin [name : PartName, first : Nat, last : Nat, lun : 0..3]
  /\ None \notin [port : Ports, phone : Phones]
  /\ None \notin [phone : Phones, ids : Phones \cup {None}, memory : {"eMMC", "UFS"}, ss : Nat, total : Nat]

VARIABLES
  plugged,     \* the phone at each port
  since,       \* the count at which it came there
  plugs,       \* phones plugged in or unplugged so far
  mode,        \* per phone: what it speaks
  gpt,         \* per phone: its LUNs
  setting,
  state, device, session, transport,     \* the executor's fields
  client,      \* its FirehoseClient: [memory, ss, total]
  tables, infos,                         \* PartitionMap and partition_infos
  todo,        \* steps the call under way still has to make
  calls,
  told, seen, wrote                      \* history, see Init

world    == <<plugged, since, plugs, mode, gpt>>
identity == <<state, device, session, transport>>
maps     == <<tables, infos>>
history  == <<told, seen, wrote>>
vars == <<world, setting, identity, client, maps, todo, calls, history>>

DefaultClient == [memory |-> "eMMC", ss |-> 512, total |-> 0]
SessionKept(phone) == session                               \* faulty: not a new one
NewSession(phone) == [phone |-> phone, ids |-> None, memory |-> "eMMC", ss |-> 512, total |-> 0]

Init ==
  /\ plugged \in [Ports -> {None}] /\ since = [p \in Ports |-> 0] /\ plugs = 0
  /\ mode = [d \in Phones |-> "sahara"]
  /\ gpt \in {f \in [Phones -> UNION {Layouts[d] : d \in Phones}] : \A d \in Phones : f[d] \in Layouts[d]}
  /\ setting \in Settings
  /\ state = "Disconnected" /\ device = None /\ session = None /\ transport = None
  /\ client = DefaultClient /\ tables = <<>> /\ infos = <<>>
  /\ todo = <<>> /\ calls = 0
  /\ told = FALSE      \* the session has been told what the client knows
  /\ seen = None       \* the last load: [ok, at, phone, luns, tried, unread, total, ss]
  /\ wrote = None      \* the last write by name, and whether the tables were true then

-----------------------------------------------------------------------------
(* The phones.  A phone that is plugged in is in Sahara mode.              *)
Plug(p, d) ==
  /\ plugs < MaxPlugs /\ plugged[p] = None /\ \A q \in Ports : plugged[q] # d
  /\ plugs' = plugs + 1
  /\ plugged' = [plugged EXCEPT ![p] = d] /\ since' = [since EXCEPT ![p] = plugs']
  /\ mode' = [mode EXCEPT ![d] = "sahara"]
  /\ UNCHANGED <<gpt, setting, identity, client, maps, todo, calls, history>>
Unplug(p) ==
  /\ plugs < MaxPlugs /\ plugged[p] # None
  /\ plugs' = plugs + 1 /\ plugged' = [plugged EXCEPT ![p] = None]
  /\ UNCHANGED <<since, mode, gpt, setting, identity, client, maps, todo, calls, history>>

(* An open port reaches the phone it was opened to, as long as that stays. *)
OpenedTo(p) == [port |-> p, phone |-> plugged[p], since |-> since[p]]
Talks ==
  /\ transport # None /\ OpenedTo(transport.port) = transport
  /\ mode[transport.phone] = "firehose"

-----------------------------------------------------------------------------
(* The calls of the facade are sequences of steps, run until one fails.    *)
(* "write" is any job that goes by a partition's name, "flash" one that    *)
(* does not, and "info" one that asks the device for its storage.          *)
InitSteps     == <<"connect", "handshake", "init_firehose", "load_gpt">>
InitOnlySteps == <<"connect", "direct">>
SingleSteps   == {"connect", "handshake", "init_firehose", "load_gpt", "reboot"}
JobSteps      == {"write", "flash", "info"}
Programs == {InitSteps, InitOnlySteps} \cup {<<step>> : step \in SingleSteps \cup JobSteps}

Call(program) ==
  /\ todo = <<>> /\ calls < MaxCalls
  /\ todo' = program /\ calls' = calls + 1 /\ wrote' = None
  /\ UNCHANGED <<world, setting, identity, client, maps, told, seen>>

Turn(step) == todo # <<>> /\ Head(todo) = step
Succeed == todo' = Tail(todo)
GiveUp  == todo' = <<>>

(* connect: any phone its settings allow, or none; with the mode forced to *)
(* DIAG it asks for a restart and records nothing.                         *)
StateKept      == state                                      \* faulty: not reset
StateConnected == "Connected"

Connect ==
  /\ Turn("connect")
  /\ \/ \E p \in Ports :
          /\ setting.force = "Auto" /\ setting.port \in {None, p} /\ plugged[p] # None
          /\ device' = [port |-> p, phone |-> plugged[p]]
          /\ state' = StateConnected /\ session' = NewSession(plugged[p])
          /\ told' = FALSE /\ Succeed
     \/ setting.force = "Diag" /\ Succeed /\ UNCHANGED <<device, state, session, told>>
     \/ GiveUp /\ UNCHANGED <<device, state, session, told>>
  /\ UNCHANGED <<world, setting, transport, client, maps, calls, seen, wrote>>

(* handshake: opens the port of the device, whatever is there now, and     *)
(* uploads the loader, unless it is found running or taken for it: then    *)
(* the phone stays as it is, and no ids are asked for.                     *)
There == device # None /\ plugged[device.port] # None

Handshake ==
  /\ Turn("handshake")
  /\ \/ /\ There
        /\ LET phone == plugged[device.port] IN
             \/ /\ mode' = [mode EXCEPT ![phone] = "firehose"]
                /\ \E ids \in {None} \cup (IF mode[phone] = "sahara" THEN {phone} ELSE {}) :
                     session' = [session EXCEPT !.ids = ids]
             \/ mode' = mode /\ session' = [session EXCEPT !.ids = None]
             /\ transport' = OpenedTo(device.port) /\ state' = "Ready" /\ Succeed
     \/ /\ GiveUp /\ UNCHANGED <<session, transport, state>>
        /\ \/ mode' = mode
           \/ There /\ mode' = [mode EXCEPT ![plugged[device.port]] = "firehose"]
  /\ UNCHANGED <<plugged, since, plugs, gpt, setting, device, client, maps, calls, history>>

(* FirehoseClient::configure and update_from_storage_info take over what   *)
(* the device reports and keep the rest.                                   *)
TotalOf(d) == gpt[d][1].total
Reported(d, fields, c) ==
  [memory |-> IF "memory" \in fields THEN Hardware[d].memory ELSE c.memory,
   ss     |-> IF "ss" \in fields THEN Hardware[d].ss ELSE c.ss,
   total  |-> IF "total" \in fields THEN TotalOf(d) ELSE c.total]
Configured(d, c) == Reported(d, Hardware[d].conf, c)
Stored(d, c)     == Reported(d, Hardware[d].info \ {"memory"}, c)

Told(s, c) == [s EXCEPT !.memory = c.memory, !.ss = c.ss, !.total = c.total]
ToldBefore(new, old) == Told(session, old)                   \* faulty: before getstorageinfo
ToldAfter(new, old)  == Told(session, new)

(* init_firehose: configure, getstorageinfo, and the session is told; only *)
(* a failed getstorageinfo is passed over.                                 *)
InitFirehose ==
  /\ Turn("init_firehose")
  /\ \/ /\ Talks
        /\ LET d == transport.phone
               c == Configured(d, client)
           IN client' \in {c, Stored(d, c)} /\ session' = ToldAfter(client', c)
        /\ told' = TRUE /\ Succeed
     \/ GiveUp /\ UNCHANGED <<client, session, told>>
  /\ UNCHANGED <<world, setting, state, device, transport, maps, calls, seen, wrote>>

(* init_firehose_only after connect: configure is tried on the port as it  *)
(* is, and if that fails the loader is uploaded after all.                 *)
Direct ==
  /\ Turn("direct")
  /\ \/ /\ There /\ mode[plugged[device.port]] = "firehose"
        /\ client' = Configured(plugged[device.port], client)
        /\ transport' = OpenedTo(device.port) /\ state' = "Ready"
        /\ todo' = <<"storage">>
     \/ /\ There /\ todo' = <<"handshake", "init_firehose">>
        /\ UNCHANGED <<client, transport, state>>
     \/ GiveUp /\ UNCHANGED <<client, transport, state>>
  /\ UNCHANGED <<world, setting, device, session, maps, calls, history>>

(* There the session is told only if getstorageinfo is answered, but also  *)
(* by an answer that reports nothing.                                      *)
Storage ==
  /\ Turn("storage")
  /\ \/ /\ Talks /\ client' \in {client, Stored(transport.phone, client)}
        /\ session' = ToldAfter(client', client) /\ told' = TRUE
     \/ UNCHANGED <<client, session, told>>
  /\ Succeed
  /\ UNCHANGED <<world, setting, state, device, transport, maps, calls, seen, wrote>>

-----------------------------------------------------------------------------
(* load_gpt: LUN 0, or 0 to 3 of a UFS device, each with the total known   *)
(* at the start.  Without LUN 0 it fails; other LUNs without a table are   *)
(* passed over.  What it finds is added to what is there.                  *)
Luns == IF client.memory = "UFS" THEN 0..3 ELSE {0}

InOrder(found, table) ==
  FlattenSeq([k \in 1..4 |-> IF k - 1 \in found THEN <<[lun |-> k - 1, entries |-> table[k - 1].entries]>>
                             ELSE <<>>])

LoadGpt ==
  /\ Turn("load_gpt")
  /\ \/ /\ Talks
        /\ LET d == transport.phone IN
           \E unread \in SUBSET {l \in Luns : l < Len(gpt[d])} :
             LET table == [l \in Luns |-> IF l \in unread \/ l >= Len(gpt[d]) THEN NoTable
                                          ELSE ReadGpt(gpt[d][l + 1], client.ss, client.total)]
                 found == {l \in Luns : table[l].header # None}
                 note(ok) == [ok |-> ok, at |-> Len(tables), phone |-> d, luns |-> gpt[d], tried |-> Luns,
                              unread |-> unread, total |-> client.total, ss |-> client.ss]
             IN IF 0 \in found
                THEN /\ tables' = tables \o InOrder(found, table)
                     /\ infos' = InfosOf(tables')
                     /\ client' = [client EXCEPT !.total = IF @ = 0 THEN table[0].header.other + 1 ELSE @]
                     /\ seen' = note(TRUE) /\ Succeed
                ELSE seen' = note(FALSE) /\ GiveUp /\ UNCHANGED <<maps, client>>
     \/ GiveUp /\ UNCHANGED <<maps, client, seen>>
  /\ UNCHANGED <<world, setting, identity, calls, told, wrote>>

-----------------------------------------------------------------------------
(* Jobs go by the transport alone.  WriteJob, of a partition by its name,  *)
(* may fail before or after it has written.                                *)
Sound(lun) == lun.prim.slots = lun.back.slots /\ (lun.prim.head \/ lun.back.head)
TablesTrue(d) ==       \* loaded once, of this phone, as it is
  /\ seen # None /\ seen.ok /\ seen.at = 0 /\ Len(tables) > 0
  /\ seen.phone = d /\ seen.luns = gpt[d] /\ \A k \in DOMAIN gpt[d] : Sound(gpt[d][k])

WriteJob ==
  /\ Turn("write")
  /\ \/ \E name \in Names :
          LET p == FindInfo(infos, name) IN
          /\ Talks /\ p # None
          /\ wrote' = [name |-> name, on |-> p,
                       luns |-> gpt[transport.phone], sure |-> TablesTrue(transport.phone)]
          /\ Succeed \/ GiveUp
     \/ GiveUp /\ UNCHANGED wrote
  /\ UNCHANGED <<world, setting, identity, client, maps, calls, told, seen>>

(* FlashJob, of another partition table; the tables it loaded stay.        *)
FlashJob ==
  /\ Turn("flash")
  /\ \/ /\ Talks
        /\ \E luns \in Layouts[transport.phone] : gpt' = [gpt EXCEPT ![transport.phone] = luns]
        /\ Succeed \/ GiveUp
     \/ GiveUp /\ UNCHANGED gpt
  /\ UNCHANGED <<plugged, since, plugs, mode, setting, identity, client, maps, calls, history>>

(* InfoJob: refresh_storage_info, which does not tell the session.         *)
InfoJob ==
  /\ Turn("info")
  /\ \/ /\ Talks
        /\ client' = Reported(transport.phone, Hardware[transport.phone].info, client)
        /\ told' = FALSE /\ Succeed
     \/ transport # None /\ Succeed /\ UNCHANGED <<client, told>>
     \/ transport = None /\ GiveUp /\ UNCHANGED <<client, told>>
  /\ UNCHANGED <<world, setting, identity, maps, calls, seen, wrote>>

(* reboot: the phone leaves the bus, even if its answer is lost.           *)
Reboot ==
  /\ Turn("reboot")
  /\ \/ /\ Talks
        /\ plugged' = [plugged EXCEPT ![transport.port] = None]
        /\ \/ state' = "Resetting" /\ Succeed
           \/ GiveUp /\ UNCHANGED state
     \/ GiveUp /\ UNCHANGED <<plugged, state>>
  /\ UNCHANGED <<since, plugs, mode, gpt, setting, device, session, transport>>
  /\ UNCHANGED <<client, maps, calls, history>>

Step ==
  \/ Connect \/ Handshake \/ InitFirehose \/ Direct \/ Storage \/ LoadGpt
  \/ WriteJob \/ FlashJob \/ InfoJob \/ Reboot
Next ==
  \/ \E program \in Programs : Call(program)
  \/ Step
  \/ \E p \in Ports : Unplug(p) \/ \E d \in Phones : Plug(p, d)

Spec == Init /\ [][Next]_vars

-----------------------------------------------------------------------------
TypeOK ==
  /\ plugged \in [Ports -> Phones \cup {None}]
  /\ plugs \in 0..MaxPlugs /\ since \in [Ports -> 0..plugs]
  /\ mode \in [Phones -> {"sahara", "firehose"}] /\ \A d \in Phones : gpt[d] \in Layouts[d]
  /\ setting \in Settings /\ calls \in 0..MaxCalls
  /\ state \in {"Disconnected", "Connected", "Ready", "Resetting"}
  /\ (device = None) = (session = None)
  /\ device # None => device.port \in Ports /\ device.phone \in Phones
  /\ transport # None => transport.port \in Ports /\ transport.phone \in Phones

(* An executor that says Ready holds a port, the one of the device it      *)
(* reports, and the chip ids in its session are those of the phone at the  *)
(* other end, however often it was connected before (connect, handshake).  *)
ReadyIsWired ==
  state = "Ready" => /\ transport # None /\ transport.port = device.port
                     /\ session.ids \in {None, transport.phone}

(* What a reader that tries both copies finds in a LUN.                    *)
Readable(lun)  == lun.prim.head \/ lun.back.head
Reference(lun) == Used(IF lun.prim.head THEN lun.prim.slots ELSE lun.back.slots)

Loaded == SubSeq(tables, seen.at + 1, Len(tables))

(* A load that succeeds has added, LUN by LUN, the table of the copy that  *)
(* is intact, the backup's from where the backup has it, and has missed no *)
(* LUN whose primary header is good and can be read (read_gpt_for_lun).    *)
LoadedTrue ==
  seen # None /\ seen.ok =>
    /\ \A k \in DOMAIN Loaded : LET lun == seen.luns[Loaded[k].lun + 1] IN
         Readable(lun) /\ Loaded[k].entries = Reference(lun)
    /\ \A l \in DOMAIN seen.luns :
         seen.luns[l].prim.head /\ l - 1 \in seen.tried \ seen.unread =>
           \E k \in DOMAIN Loaded : Loaded[k].lun = l - 1

(* It only fails over LUN 0, on a phone that answers in its sector size,   *)
(* when neither copy could be had: the primary is bad, and the backup too  *)
(* or its place is not known.                                              *)
LoadVerdict ==
  seen # None /\ ~seen.ok /\ 0 \notin seen.unread /\ seen.ss = seen.luns[1].ss =>
    /\ ~seen.luns[1].prim.head
    /\ seen.total = seen.luns[1].total => ~seen.luns[1].back.head

(* A job that goes by a partition's name works on sectors of a partition   *)
(* of that name, on the LUN it is on, while the tables loaded are those of *)
(* the phone at the other end (find_partition, load_gpt).                  *)
WritesInside ==
  wrote # None /\ wrote.sure =>
    \E k \in DOMAIN wrote.luns : LET lun == wrote.luns[k] IN
      /\ wrote.on.lun = k - 1
      /\ [name |-> wrote.name, first |-> wrote.on.first, last |-> wrote.on.last]
           \in ToSet(lun.prim.slots)

(* The two lookups agree: what a job finds by an exact name, the partition *)
(* map finds too, unless names differ by blanks only (name_index).         *)
FindsAgree ==
  \A k \in DOMAIN infos :
    (\A j \in DOMAIN infos : infos[j].name.style # "padded") =>
       FindInMap(infos, infos[k].name) = FindInfo(infos, infos[k].name)

(* A session that was told of the client's sector size and storage type    *)
(* goes on showing those jobs are run with, whatever phone the executor    *)
(* was used for before, until refresh_storage_info (init_firehose,         *)
(* init_firehose_only).                                                    *)
SessionTold == told => session.ss = client.ss /\ session.memory = client.memory

(* "Loads the GPT partition table from the device": after a load that      *)
(* succeeded a partition found by name is one the phone has.               *)
FindFresh ==
  /\ seen # None /\ seen.ok /\ seen.luns = gpt[seen.phone]
  /\ \A k \in DOMAIN seen.luns : Sound(seen.luns[k])
  => \A name \in Names : FindInfo(infos, name) # None =>
       \E k \in DOMAIN seen.luns : \E s \in ToSet(Used(seen.luns[k].prim.slots)) :
          /\ s.name = name /\ FindInfo(infos, name) = Info([lun |-> k - 1], s, k)
=============================================================================
