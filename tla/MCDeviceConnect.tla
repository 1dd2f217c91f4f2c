--------------------------- MODULE MCDeviceConnect ---------------------------
(* A small instance of DeviceConnect: two phones and five port numbers.     *)
EXTENDS DeviceConnect

Kind(serial, edlSerial, usb, named) ==
  [serial |-> serial, edlSerial |-> edlSerial, readable |-> usb, opens |-> usb, named |-> named]
(* Serial numbers are unique; one is kept in EDL mode, one lost there.      *)
MCKinds ==
  {(1 :> a) @@ (2 :> b) : a \in {Kind("S1", "S1", TRUE, TRUE), Kind(None, None, FALSE, FALSE)},
                          b \in {Kind("S2", None, TRUE, FALSE), Kind(None, None, TRUE, TRUE)}}

At(mode, ports) == [mode |-> mode, ports |-> ports]
MCLayouts ==
  {(1 :> a) @@ (2 :> b) : a \in {At("diag", <<1, 2>>), At("diag", <<2, 1>>), At("edl", <<1>>)},
                          b \in {Off, At("edl", <<3>>), At("diag", <<4, 3>>)}}

Ask(port, serial, force, switch, wait) ==
  [port |-> port, serial |-> serial, force |-> force, switch |-> switch, wait |-> wait]
MCSettings ==
  {Ask(None, None, "Auto", TRUE, "no"), Ask(None, None, "Auto", FALSE, "bounded"),
   Ask(None, "S1", "Auto", TRUE, "no"), Ask(None, "S1", "Auto", TRUE, "forever"),
   Ask(1, None, "Auto", TRUE, "no"), Ask(2, None, "Auto", TRUE, "forever"),
   Ask(1, None, "Diag", FALSE, "no"), Ask(3, None, "Edl", TRUE, "no")}
=============================================================================
