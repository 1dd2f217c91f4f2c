----------------------------- MODULE DiagFraming -----------------------------
(***************************************************************************)
(* The DIAG packet of qedl-transport (device.rs): a command and its        *)
(* payload, the CRC-16/CCITT of both with the low byte first, HDLC         *)
(* escapes, and a flag on either side; and a receiver of such packets.     *)
(*                                                                         *)
(* A byte is the set of its one bits, and so is a register of 16 bits, so  *)
(* that exclusive or is the symmetric difference.                          *)
(***************************************************************************)
EXTENDS Integers, Sequences

Byte == SUBSET (0..7)
Ones == 0..15                                                \* 0xFFFF

Xor(a, b)   == (a \ b) \cup (b \ a)
Shift(r, n) == {i - n : i \in {j \in r : j >= n}}            \* to the right

Flag       == {1, 2, 3, 4, 5, 6}                             \* 0x7E
Escape     == {0, 2, 3, 4, 5, 6}                             \* 0x7D
SubsysCmd  == {0, 1, 3, 6}                                   \* 0x4B
ToEdl      == <<{0, 2, 5, 6}, {0}, {}>>                      \* 0x65 0x01 0x00

(* One shift of the register, by the reflected polynomial 0x8408.          *)
CrcShift(crc) == IF 0 \in crc THEN Xor(Shift(crc, 1), {3, 10, 15}) ELSE Shift(crc, 1)
CrcByte(crc, byte) ==
  LET shift[n \in 0..8] == IF n = 0 THEN Xor(crc, byte) ELSE CrcShift(shift[n - 1])
  IN shift[8]
Crc16(data) ==
  LET crc[n \in 0..Len(data)] == IF n = 0 THEN Ones ELSE CrcByte(crc[n - 1], data[n])
  IN Xor(crc[Len(data)], Ones)

Escaped(byte) == CASE byte = Flag   -> <<Escape, {1, 2, 3, 4, 6}>>     \* 0x5E
                   [] byte = Escape -> <<Escape, {0, 2, 3, 4, 6}>>     \* 0x5D
                   [] OTHER         -> <<byte>>
HdlcEscape(data) ==
  LET out[n \in 0..Len(data)] == IF n = 0 THEN <<>> ELSE out[n - 1] \o Escaped(data[n])
  IN out[Len(data)]

CrcHighFirst(crc) == <<Shift(crc, 8), crc \cap (0..7)>>      \* faulty: byte order
CrcBytes(crc)     == <<crc \cap (0..7), Shift(crc, 8)>>
DiagFrame(cmd, payload) ==
  LET data == <<cmd>> \o payload
  IN <<Flag>> \o HdlcEscape(data \o CrcBytes(Crc16(data))) \o <<Flag>>

SwitchFrame == DiagFrame(SubsysCmd, ToEdl)

-----------------------------------------------------------------------------
(* The receiver: a byte behind an escape is the one with bit 5 turned; the *)
(* frame check of X.25 divides data and check sequence, lowest bit first,  *)
(* by the polynomial 0x1021, and the remainder is the constant 0x1D0F.     *)
Plain(s, n) ==
  IF s[n] = Escape THEN <<>> ELSE IF n > 1 /\ s[n - 1] = Escape THEN <<Xor(s[n], {5})>> ELSE <<s[n]>>
Unescape(s) ==
  LET data[n \in 0..Len(s)] == IF n = 0 THEN <<>> ELSE data[n - 1] \o Plain(s, n) IN data[Len(s)]

Divide(r, bit) ==
  LET shifted == {i + 1 : i \in r \ {15}}
  IN IF (15 \in r) # bit THEN Xor(shifted, {0, 5, 12}) ELSE shifted
BitOf(data, n) == (n - 1) % 8 \in data[((n - 1) \div 8) + 1]
Remainder(data) ==
  LET reg[n \in 0..8 * Len(data)] == IF n = 0 THEN Ones ELSE Divide(reg[n - 1], BitOf(data, n))
  IN reg[8 * Len(data)]
Good == {0, 1, 2, 3, 8, 10, 11, 12}                          \* 0x1D0F

Unframe(frame) ==
  LET data == Unescape(SubSeq(frame, 2, Len(frame) - 1))
  IN IF frame[1] = Flag /\ frame[Len(frame)] = Flag /\ Remainder(data) = Good
     THEN SubSeq(data, 1, Len(data) - 2) ELSE <<>>
=============================================================================
