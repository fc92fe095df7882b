------------------------------ MODULE Status6502 ------------------------------
(***************************************************************************)
(* The status register and 16-bit addresses of src/cpu/cpu6502.cpp, as     *)
(* pure operators.  The status register, a std::bitset<8> in the code, is  *)
(* the set of its raised bits.                                             *)
(***************************************************************************)
EXTENDS Alu

(* The bits by the names of the flag setters; U is the unused bit 5.       *)
StatusBit == {"C", "Z", "I", "D", "B", "U", "V", "N"}

Weight(bit) ==
    CASE bit = "C" -> 1  [] bit = "Z" -> 2  [] bit = "I" -> 4  [] bit = "D" -> 8
      [] bit = "B" -> 16 [] bit = "U" -> 32 [] bit = "V" -> 64 [] bit = "N" -> 128

(* P() and P(val): the status register as a byte and back.                 *)
Raised(status, bit) == IF bit \in status THEN Weight(bit) ELSE 0
StatusByte(status) ==
    Raised(status, "C") + Raised(status, "Z") + Raised(status, "I") + Raised(status, "D")
      + Raised(status, "B") + Raised(status, "U") + Raised(status, "V") + Raised(status, "N")
StatusOf(byte) == {bit \in StatusBit : Bit(byte, Weight(bit)) = 1}

(* Each bit of "changed" set to whether it is in "raised", others kept.    *)
SetBits(status, changed, raised) == (status \ changed) \cup (changed \cap raised)
If(cond, bit) == IF cond THEN {bit} ELSE {}
ZeroNegative(d) == If(AluZero(d), "Z") \cup If(AluNegative(d), "N")

-----------------------------------------------------------------------------
LowByte(w) == w % 256
HighByte(w) == w \div 256
Page(w) == w - LowByte(w)
Next16(w) == (w + 1) % 65536

(* w |= byte << 8 and (w & 0xFF) | (byte << 8).                            *)
OrHigh(w, byte) == 256 * Or(HighByte(w), byte) + LowByte(w)
SetHigh(w, byte) == 256 * byte + LowByte(w)

(* indexedAddress and relativeAddress, and the page-crossing test both     *)
(* make.                                                                   *)
Indexed(base, index) == (base + index) % 65536
Relative(base, off) == (base + off) % 65536
PageCrossed(base, target) == HighByte(base) # HighByte(target)

ResetVector == \hFFFC
BRKVector == \hFFFE
=============================================================================
