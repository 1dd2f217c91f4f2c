---------------------------- MODULE DeviceConnect ----------------------------
(***************************************************************************)
(* JobExecutor::connect and the discovery calls it makes, against devices  *)
(* that leave and come back while it runs: the command line may first wait *)
(* for a device, connect then looks for one by port, by serial or by       *)
(* itself, and a device in DIAG mode is told to restart in EDL mode and    *)
(* waited for (switch_diag_to_edl).  Every look at the ports is one step;  *)
(* between two of them devices restart, appear and are unplugged.          *)
(***************************************************************************)
EXTENDS UsbPorts, DiagFraming

CONSTANTS
  Devices,     \* the phones, a set of numbers: libusb returns them in this order
  Ports,       \* the port numbers the operating system may hand out
  Kinds,       \* what the phones may be: functions to [serial, edlSerial, readable, opens, named]
  Layouts,     \* where the phones may be at the start: functions like phys
  Settings,    \* what connect may be asked: [port, serial, force, switch, wait]
  MaxPolls,    \* looks a bounded wait takes before its last one
  MaxPlugs     \* devices plugged or unplugged by hand during one run

ASSUME ConnectAssumption ==
  /\ Devices \subseteq Nat /\ IsFiniteSet(Devices) /\ Ports \subseteq Nat
  /\ {MaxPolls, MaxPlugs} \subseteq Nat

VARIABLES
  kind,        \* what each phone is
  phys,        \* per phone: its mode and the ports of its interfaces
  listed,      \* what list and list_all answer for these phones
  asked,       \* the phones that took the order to restart in EDL mode
  setting,     \* configuration of this run
  pc,          \* where the program is
  target,      \* the DeviceInfo it works with
  baud,        \* next of the two rates switch_diag_to_edl tries
  preexisting, \* the 9008 ports its snapshot found
  polls,       \* looks taken in the current wait
  self,        \* device, state and session of the executor
  outcome,     \* what connect, or the wait before it, answered
  history      \* what the properties compare with: see Init

world  == <<kind, phys, listed, asked>>
client == <<setting, pc, target, baud, preexisting, polls, self, outcome>>
vars   == <<world, client, history>>

-----------------------------------------------------------------------------
(* The phones.  In DIAG mode one shows a diagnostics and an NMEA port, in  *)
(* EDL mode a single one.                                                  *)
Iface(k, ports, i, class, name, id) ==
  [class |-> class, str |-> IF k.named THEN <<name>> ELSE None,
   product |-> IF k.named THEN <<name, id>> ELSE None, port |-> ports[i]]

Serial(k, mode) == IF mode = "edl" THEN k.edlSerial ELSE k.serial
Descriptor(k, p) ==
  [qc |-> TRUE, pid |-> IF p.mode = "edl" THEN "9008" ELSE "90B8",
   serial |-> Serial(k, p.mode), readable |-> k.readable, opens |-> k.opens,
   ifaces |-> IF p.mode = "edl" THEN <<Iface(k, p.ports, 1, "vendor_ff", "QDLoader", "9008")>>
              ELSE <<Iface(k, p.ports, 1, "vendor", "Diagnostics", "90B8"),
                     Iface(k, p.ports, 2, "vendor", "NMEA", "90B8")>>]

Off    == [mode |-> "off", ports |-> <<>>]
Places == {Off} \cup [mode : {"edl"}, ports : {<<p>> : p \in Ports}]
                \cup [mode : {"diag"}, ports : {<<p, q>> : p, q \in Ports}]
Apart(f) ==       \* no port is used twice
  \A d, e \in Devices : \A i \in DOMAIN f[d].ports, j \in DOMAIN f[e].ports :
     f[d].ports[i] = f[e].ports[j] => d = e /\ i = j

SerialNumbers == UNION {{k[d].serial, k[d].edlSerial} : k \in Kinds, d \in Devices}
Phones == [serial : SerialNumbers, edlSerial : SerialNumbers,
           readable : BOOLEAN, opens : BOOLEAN, named : BOOLEAN]
DeviceInfos ==    \* what a listing of phones can say of one port
  [port : Ports, serial : SerialNumbers, pid : {"9008", "90B8"}, qc : {TRUE}, mode : Modes,
   desc : {None, <<"QDLoader", "9008">>, <<"Diagnostics", "90B8">>, <<"NMEA", "90B8">>}]
Answers == {"ok", "Io", "NotFound", "InvalidPort", "MultipleFound", "PreconditionFailed"}

(* Serial numbers are unique: no two phones share one, in either mode.     *)
ASSUME PhonesAssumption ==
  /\ Kinds \subseteq [Devices -> Phones]
  /\ \A k \in Kinds : \A d, e \in Devices :
        d # e => /\ k[d].serial # None => k[d].serial # k[e].serial
                 /\ k[d].edlSerial # None => k[d].edlSerial # k[e].edlSerial
  /\ \A f \in Layouts : f \in [Devices -> Places] /\ Apart(f)
  /\ \A s \in Settings :
        s \in [port : Nat \cup {None}, serial : SerialNumbers, force : {"Auto", "Edl", "Diag"},
              switch : BOOLEAN, wait : {"no", "bounded", "forever"}]
  /\ None \notin Answers \cup DeviceInfos

BusOf(k, f) ==
  LET order == Ranked({d \in Devices : f[d].mode # "off"}, [d \in Devices |-> d])
  IN [i \in DOMAIN order |-> Descriptor(k[order[i]], f[order[i]])]

Listed(k, f) == [list |-> List(BusOf(k, f)), all |-> ListAll(BusOf(k, f))]
Becomes(f)   == phys' = f /\ listed' = Listed(kind, f)

Attached  == {d \in Devices : phys[d].mode # "off"}
InMode(m) == {d \in Devices : phys[d].mode = m}
Owner(p)  == CHOOSE d \in Attached : p \in ToSet(phys[d].ports)
FreePorts == Ports \ UNION {ToSet(phys[d].ports) : d \in Devices}

Appear(d, mode) ==
  \E p \in Places :
     /\ p.mode = mode /\ ToSet(p.ports) \subseteq FreePorts /\ IsInjective(p.ports)
     /\ Becomes([phys EXCEPT ![d] = p])

(* A phone that took the order restarts, and comes back in EDL mode on any *)
(* free port, the old one included.                                        *)
Restart(d) ==
  /\ d \in asked /\ phys[d].mode = "diag"
  /\ Becomes([phys EXCEPT ![d] = Off])
  /\ UNCHANGED <<kind, asked, client, history>>
ComeBack(d) ==
  /\ d \in asked /\ phys[d].mode = "off"
  /\ Appear(d, "edl")
  /\ UNCHANGED <<kind, asked, client, history>>

(* Somebody unplugs a phone, or plugs one in, in either mode.              *)
ByHand(d) ==
  /\ history.plugs < MaxPlugs /\ d \notin asked /\ pc # "done"
  /\ \/ d \in Attached /\ Becomes([phys EXCEPT ![d] = Off])
     \/ d \notin Attached /\ \E mode \in {"diag", "edl"} : Appear(d, mode)
  /\ history' = [history EXCEPT !.plugs = @ + 1]
  /\ UNCHANGED <<kind, asked, client>>

(* The phone whose port it is finds the order in the packet, in DIAG mode.  *)
IsSwitch == Unframe(SwitchFrame) = <<SubsysCmd>> \o ToEdl
Taken(port) == {d \in InMode("diag") : IsSwitch /\ phys[d].ports[1] = port}

-----------------------------------------------------------------------------
(* connect returns; d is recorded with its session unless it is None.      *)
Return(answer, d, mode, note) ==
  /\ pc' = "done" /\ outcome' = answer
  /\ self' = IF d = None THEN self ELSE [device |-> d, state |-> "Connected", session |-> mode]
  /\ history' = IF d = None THEN note
                ELSE [note EXCEPT !.got = Owner(d.port), !.mode = phys[Owner(d.port)].mode]
  /\ UNCHANGED <<world, setting, target, baud, preexisting, polls>>
Fail(answer) == Return(answer, None, None, history)

Goto(label)  == pc' = label /\ UNCHANGED <<world, setting, self, outcome>>

Init ==
  /\ kind \in Kinds /\ phys \in Layouts /\ asked = {}
  /\ listed = Listed(kind, phys)
  /\ setting \in Settings
  /\ pc = IF setting.wait = "no" THEN "find" ELSE "wait"
  /\ target = None /\ baud = 1 /\ preexisting = {} /\ polls = 0
  /\ self = [device |-> None, state |-> "Disconnected", session |-> None]
  /\ outcome = None
  /\ history = [first |-> None,     \* the phone connect found first
                meant |-> {},       \* the phones its filters allowed then
                known |-> FALSE,    \* whether their ports tell them apart
                got |-> None, mode |-> None,   \* the phone it recorded, and its mode then
                plugs |-> 0,        \* phones moved by hand
                blind |-> FALSE]    \* the listing of the snapshot failed

(* Asking the operating system for its ports may fail; only the snapshot   *)
(* of switch_diag_to_edl goes on without.                                  *)
ListFails ==
  /\ pc \in {"wait", "find", "poll", "reselect"}
  /\ Fail("Io")

(* A wait ends with the first look that finds something, or when its time  *)
(* is over.                                                                *)
NotCounted(bounded) == polls                                 \* faulty: time stands still
Counted(bounded) == IF bounded THEN polls + 1 ELSE polls
LateOver(bounded) == bounded /\ polls > MaxPolls             \* faulty: one look too many
Late(bounded) == bounded /\ polls = MaxPolls

Look(hit, bounded) ==
  \/ ~hit /\ Late(bounded) /\ Fail("NotFound")
  \/ /\ ~hit /\ ~Late(bounded)
     /\ polls' = Counted(bounded)
     /\ Goto(pc) /\ UNCHANGED <<target, baud, preexisting, history>>

(* --wait-device of the command line.                                      *)
WaitFor ==
  /\ pc = "wait"
  /\ \E hit \in {WaitMatch(listed.all, setting.port, setting.serial).err = None} :
        \/ Look(hit, setting.wait = "bounded")
        \/ hit /\ Goto("find") /\ polls' = 0 /\ UNCHANGED <<target, baud, preexisting, history>>

Meant ==
  IF setting.port # None THEN {d \in Attached : setting.port \in ToSet(phys[d].ports)}
  ELSE IF setting.serial # None
       THEN {d \in Attached : Serial(kind[d], phys[d].mode) = setting.serial}
  ELSE IF InMode("edl") # {} THEN InMode("edl") ELSE InMode("diag")

(* connect: find a device, then take it, refuse it or switch it.           *)
(* Ports in DIAG mode are told apart by serial, those in EDL mode anyway.  *)
Known == InMode("edl") # {} \/ \A d \in InMode("diag") : kind[d].serial # None

Select ==
  IF setting.port # None THEN FindByPort(listed.all, setting.port)
  ELSE IF setting.serial # None THEN FindBySerial(listed.list, setting.serial)
  ELSE AutoSelect(listed.list)

Find ==
  /\ pc = "find"
  /\ \E answer \in {Select} :
       LET d    == answer.dev
           diag == setting.force = "Diag" \/ (setting.force = "Auto" /\ IsDiag(d))
           may  == setting.switch \/ setting.force = "Diag"
           note == [history EXCEPT !.first = Owner(d.port), !.meant = Meant, !.known = Known]
       IN \/ answer.err # None /\ Fail(answer.err)
          \/ answer.err = None /\ diag /\ ~may /\ Fail("PreconditionFailed")
          \/ /\ answer.err = None /\ ~diag
             /\ Return("ok", d, IF setting.force = "Edl" THEN "Edl" ELSE d.mode, note)
          \/ /\ answer.err = None /\ diag /\ may
             /\ Goto("open") /\ target' = d /\ history' = note
             /\ UNCHANGED <<baud, preexisting, polls>>

(* switch_diag_to_edl: open the port and write the packet, at one rate and *)
(* then the other.  The device may take the packet or ignore it; a write   *)
(* or flush that reports an error may have delivered it.                   *)
Attempt(ok) ==
  /\ pc' = (IF ok THEN "snapshot" ELSE "open") /\ baud' = baud + 1
  /\ UNCHANGED <<kind, phys, listed, setting, target, preexisting, polls, self, outcome, history>>
Written == asked' = asked \/ asked' = asked \cup Taken(target.port)

SendSwitch ==
  /\ pc = "open" /\ baud <= 2
  /\ \E d \in Attached : target.port \in ToSet(phys[d].ports)
  /\ Written /\ \E ok \in BOOLEAN : Attempt(ok)
OpenFails ==
  /\ pc = "open" /\ baud <= 2
  /\ asked' = asked /\ Attempt(FALSE)
NeverSent ==
  /\ pc = "open" /\ baud = 3
  /\ Fail("Io")

(* The answer, if any, has been read and dropped, up to two seconds later; *)
(* the ports that are 9008 now are the ones not to wait for.               *)
Edl9008 == {d.port : d \in {e \in ToSet(listed.list) : Is9008(e)}}
NoneBefore(blind) == {}                                      \* faulty: no snapshot
Before(blind) == IF blind THEN {} ELSE Edl9008

Snapshot ==
  /\ pc = "snapshot"
  /\ \E blind \in BOOLEAN :
        /\ preexisting' = Before(blind)
        /\ history' = [history EXCEPT !.blind = blind]
  /\ Goto("poll") /\ UNCHANGED <<target, baud, polls>>

AnyEdl == Edl9008 # {}                                       \* faulty: forgets the snapshot
NewEdl == Edl9008 \ preexisting # {}

Poll ==
  /\ pc = "poll"
  /\ \E hit \in {NewEdl} :
       \/ Look(hit, TRUE)
       \/ hit /\ setting.force = "Diag" /\ Return("ok", None, None, history)
       \/ /\ hit /\ setting.force = "Auto" /\ Goto("reselect")
          /\ UNCHANGED <<target, baud, preexisting, polls, history>>

(* Back in connect: the device is looked up again, by port or by itself,   *)
(* and recorded as an EDL device.                                          *)
Reselect ==
  /\ pc = "reselect"
  /\ \E answer \in {IF setting.port # None THEN FindByPort(listed.all, setting.port)
                    ELSE AutoSelect(listed.list)} :
       \/ answer.err # None /\ Fail(answer.err)
       \/ answer.err = None /\ Return("ok", answer.dev, "Edl", history)

Program == WaitFor \/ Find \/ SendSwitch \/ OpenFails \/ NeverSent \/ Snapshot \/ Poll \/ Reselect
Next == Program \/ ListFails \/ \E d \in Devices : Restart(d) \/ ComeBack(d) \/ ByHand(d)

(* The program goes on by itself: its steps wait for nothing but the time  *)
(* the polls count.  No listing has to fail.                               *)
Spec == Init /\ [][Next]_vars /\ WF_vars(Program)

-----------------------------------------------------------------------------
TypeOK ==
  /\ kind \in Kinds /\ phys \in [Devices -> Places] /\ Apart(phys)
  /\ listed = Listed(kind, phys) /\ asked \subseteq Devices /\ setting \in Settings
  /\ pc \in {"wait", "find", "open", "snapshot", "poll", "reselect", "done"}
  /\ target \in DeviceInfos \cup {None} /\ baud \in 1..3
  /\ preexisting \subseteq Ports /\ polls \in 0..MaxPolls
  /\ self.device \in DeviceInfos \cup {None}
  /\ self.state = "Disconnected" <=> self.device = None
  /\ outcome \in Answers \cup {None}

Calm == history.plugs = 0 /\ ~history.blind

FramesRead ==
  \A cmd \in {SubsysCmd, Flag, Escape}, a \in {{}, {0}, 0..7, Escape}, b \in {{}, {2, 5}, Flag, Escape} :
     Unframe(DiagFrame(cmd, <<a, b, {}>>)) = <<cmd, a, b, {}>>
(* The packet of DIAG framing is one an independent receiver of HDLC       *)
(* accepts, and it finds in it what was sent, with bytes that must be      *)
(* escaped too (diag_frame, hdlc_escape, crc16_ccitt).                     *)
FrameRoundTrip == pc = "open" => FramesRead

(* connect works on a device its filters allow, and by itself it only      *)
(* takes one when no other could have been meant, as far as the devices    *)
(* can be told apart: those in EDL mode always, those in DIAG mode by      *)
(* their serials (find_by_port, find_by_serial, auto_select).              *)
FoundIsMeant ==
  history.first # None =>
     /\ history.first \in history.meant
     /\ setting.port = None /\ setting.serial = None /\ history.known
          => history.meant = {history.first}

(* The device recorded after a switch is the one that was switched, and it *)
(* is in EDL mode as the session says: other devices in EDL mode, whatever *)
(* their ports and serials, are not mistaken for it while nobody plugs     *)
(* anything and the snapshot was taken (switch_diag_to_edl, connect).      *)
ConnectsToFound == Calm /\ history.got # None => history.got = history.first
SessionIsTrue ==
  Calm /\ outcome = "ok" /\ setting.force = "Auto" /\ self.session = "Edl" => history.mode = "edl"

(* connect comes back, whatever the devices do: every wait in it ends.     *)
ConnectReturns == (pc \notin {"wait", "done"}) ~> (pc = "done")

(* Waiting without a limit ends once a device that fits the filters stays  *)
(* attached (wait_for_device).  A port that is not the first among those   *)
(* of its product and serial may be taken for another interface by its     *)
(* place, and then the wait goes on: list_all has no better way.           *)
Alike(d) ==
  {e \in Attached : /\ phys[e].mode = phys[d].mode
                    /\ Serial(kind[e], phys[e].mode) = Serial(kind[d], phys[d].mode)}
Fits(d) ==
  /\ d \in Attached
  /\ setting.port # None =>
        /\ setting.port = phys[d].ports[1]
        /\ \A e \in Alike(d) : \A i \in DOMAIN phys[e].ports : setting.port <= phys[e].ports[i]
  /\ setting.serial # None => Serial(kind[d], phys[d].mode) = setting.serial
WaitEnds == (<>[](\E d \in Devices : Fits(d))) => <>(pc # "wait")
=============================================================================
