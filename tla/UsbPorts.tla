------------------------------- MODULE UsbPorts -------------------------------
(***************************************************************************)
(* Device discovery of qedl-transport (device.rs): how serial ports and    *)
(* USB interface descriptors become a list of DeviceInfo, how one of them  *)
(* is selected.                                                            *)
(*                                                                         *)
(* A bus is the sequence of attached USB devices in the order libusb       *)
(* returns them; a device is                                               *)
(*   [qc, pid, serial, readable, opens, ifaces]                            *)
(* where qc says that the vendor is Qualcomm, readable that libusb lists   *)
(* it with its configuration, and opens that libusb may open it (without   *)
(* that its serial and strings cannot be read), and an interface is        *)
(*   [class, str, product, port].                                          *)
(* Strings are sequences of words, so that "starts with" is IsPrefix;      *)
(* ports are numbers and the operating system lists them in ascending      *)
(* order, whatever interface or device they belong to.                     *)
(***************************************************************************)
EXTENDS Integers, Sequences, FiniteSets, SequencesExt

CONSTANT None      \* the absent option

EdlPids  == {"9008", "900E", "900D"}
DiagPids == {"90B8", "9091", "90E8"}
Modes    == {"Edl", "Diag", "Modem", "Nmea", "Adb", "Unknown"}

(* The mode of one interface, from its descriptor: protocol 0xFF is EDL    *)
(* only under an EDL product id, and NMEA is told from DIAG by its name,   *)
(* which may say GPS as well.                                              *)
IfaceMode(pid, class, str) ==
  CASE class = "vendor_ff" /\ pid \in EdlPids -> "Edl"
    [] class = "adb" -> "Adb"
    [] class = "cdc" -> "Modem"
    [] class = "vendor" \/ (class = "vendor_ff" /\ pid \notin EdlPids) ->
         IF str # None /\ "NMEA" \in ToSet(str) THEN "Nmea" ELSE "Diag"
    [] OTHER -> "Unknown"

(* query_per_interface_modes: the first device with this product id whose  *)
(* serial does not contradict the expected one.                            *)
Queried(bus, key) ==
  LET fits(d) == /\ d.qc /\ d.readable /\ d.pid = key.pid
                 /\ key.serial # None /\ d.opens /\ d.serial # None => d.serial = key.serial
      at == SelectInSeq(bus, fits)
  IN IF at = 0 THEN <<>>
     ELSE LET d == bus[at]
              str(i) == IF d.opens THEN d.ifaces[i].str ELSE None
          IN [i \in DOMAIN d.ifaces |->
                [mode |-> IfaceMode(d.pid, d.ifaces[i].class, str(i)), str |-> str(i)]]

-----------------------------------------------------------------------------
(* The members of a set by their rank, which no two of them share, and the *)
(* ports of a bus as the operating system lists them.                      *)
Ranked(S, rank) ==
  [k \in 1..Cardinality(S) |-> CHOOSE x \in S : Cardinality({y \in S : rank[y] < rank[x]}) = k - 1]

PortsOf(bus) ==
  UNION {{[dev |-> d, iface |-> i, port |-> bus[d].ifaces[i].port] : i \in DOMAIN bus[d].ifaces} :
           d \in DOMAIN bus}
AvailablePorts(ports) == Ranked(ports, [p \in ports |-> p.port])

Info(bus, p, mode) ==
  LET d == bus[p.dev] IN
  [port |-> p.port, serial |-> d.serial, pid |-> d.pid, qc |-> d.qc,
   desc |-> d.ifaces[p.iface].product, mode |-> mode]

KeyOf(bus, p) == [pid |-> bus[p.dev].pid, serial |-> bus[p.dev].serial]

(* The mode at the place of the k-th port among the counted ports that     *)
(* have its product and serial (the counters port_index).                  *)
ModeByPlace(bus, ports, k, modes, counted) ==
  LET before == {j \in counted : j < k /\ KeyOf(bus, ports[j]) = KeyOf(bus, ports[k])}
      place  == 1 + Cardinality(before)
  IN IF place <= Len(modes) THEN modes[place].mode ELSE "Unknown"

(* list: Qualcomm ports only.  An interface whose string begins the port's *)
(* product name gives the mode; a port without one takes the next          *)
(* interface not yet given to such a port of the same product and serial.  *)
NameMatch(bus, p) ==
  LET modes == Queried(bus, KeyOf(bus, p))
      product == bus[p.dev].ifaces[p.iface].product
  IN IF product = None THEN 0
     ELSE SelectInSeq(modes, LAMBDA m : m.str # None /\ IsPrefix(m.str, product))

List(bus) ==
  LET ports   == AvailablePorts({p \in PortsOf(bus) : bus[p.dev].qc})
      unnamed == {k \in DOMAIN ports : NameMatch(bus, ports[k]) = 0}
  IN [k \in DOMAIN ports |->
        LET modes == Queried(bus, KeyOf(bus, ports[k]))
        IN Info(bus, ports[k],
                IF k \in unnamed THEN ModeByPlace(bus, ports, k, modes, unnamed)
                ELSE modes[NameMatch(bus, ports[k])].mode)]

(* list_all: every port, and the mode by place alone.                      *)
ListAll(bus) ==
  LET ports == AvailablePorts(PortsOf(bus))
      modes(p) == IF bus[p.dev].qc THEN Queried(bus, KeyOf(bus, p)) ELSE <<>>
  IN [k \in DOMAIN ports |->
        Info(bus, ports[k], ModeByPlace(bus, ports, k, modes(ports[k]), DOMAIN ports))]

(* DeviceInfo::is_9008 and is_diag: the interface decides, and the product *)
(* id only when the interface said nothing.                                *)
Is9008(d) == d.mode = "Edl" \/ (d.mode = "Unknown" /\ d.qc /\ d.pid \in EdlPids)
IsDiag(d) == d.mode = "Diag" \/ (d.mode = "Unknown" /\ d.qc /\ d.pid \in DiagPids)

-----------------------------------------------------------------------------
(* Selection, from the answer of list or list_all.  An answer is           *)
(* [err |-> None, dev |-> info] or the error.                              *)
Found(d)  == [err |-> None, dev |-> d]
Failed(e) == [err |-> e, dev |-> None]

FirstOf(list, at, err) == IF at = {} THEN Failed(err) ELSE Found(list[Min(at)])

FindByPort(all, port)      == FirstOf(all, {i \in DOMAIN all : all[i].port = port}, "InvalidPort")
FindBySerial(list, serial) == FirstOf(list, {i \in DOMAIN list : list[i].serial = serial}, "NotFound")

(* The first of the preferred names some port of the group has; the first  *)
(* port of the group if it has none of them.                               *)
Says(d, words) == d.desc # None /\ \E i, j \in DOMAIN d.desc : SubSeq(d.desc, i, j) = words
SelectDiagPort(list, group) ==
  LET preferred == <<<<"MSM", "Diagnostics">>, <<"Diagnostics">>, <<"MDM", "Diagnostics">>>>
      having(words) == {i \in group : Says(list[i], words)}
      best == SelectInSeq(preferred, LAMBDA words : having(words) # {})
  IN list[Min(IF best = 0 THEN group ELSE having(preferred[best]))]

EdlCountCollapsed(list, edl) ==                              \* faulty: no serial is a serial
  Cardinality({list[i].serial : i \in edl})
EdlCount(list, edl) ==
  Cardinality({i \in edl : \/ list[i].serial = None
                           \/ \A j \in edl : j < i => list[j].serial # list[i].serial})

(* auto_select: EDL before DIAG; ports that share a serial are one device, *)
(* and DIAG ports without a serial are one device too.                     *)
AutoSelect(list) ==
  LET edl   == {i \in DOMAIN list : Is9008(list[i])}
      diag  == {i \in DOMAIN list : IsDiag(list[i])}
      edls  == EdlCount(list, edl)
      diags == Cardinality({list[i].serial : i \in diag})
  IN IF edls = 1 THEN Found(list[Min(edl)])
     ELSE IF edls > 1 \/ diags > 1 THEN Failed("MultipleFound")
     ELSE IF diags = 0 THEN Failed("NotFound") ELSE Found(SelectDiagPort(list, diag))

IsQualcommEdl(d)  == d.qc /\ Is9008(d)                      \* faulty: waits for EDL only
IsQualcommPort(d) == d.qc /\ (Is9008(d) \/ IsDiag(d))

(* wait_for_device: the first port that passes the filters and is a        *)
(* Qualcomm EDL or DIAG port.                                              *)
WaitMatch(all, port, serial) ==
  FirstOf(all,
          {i \in DOMAIN all : /\ port # None => all[i].port = port
                              /\ serial # None => all[i].serial = serial
                              /\ IsQualcommPort(all[i])},
          "NotFound")
=============================================================================
