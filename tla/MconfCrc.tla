------------------------------ MODULE MconfCrc ------------------------------
(***************************************************************************)
(* The checksum of a payload: mconf_crc32 and the functions it is made of, *)
(* and CRC-32 as it is defined elsewhere.  A register of 32 bits and a     *)
(* byte are the sets of their bits that are 1.                             *)
(***************************************************************************)
EXTENDS Integers, SequencesExt

Xor(x, y)  == SymDiff(x, y)
Shifted(x) == {i - 1 : i \in x \ {0}}      \* x >> 1
AllOnes    == 0 .. 31                      \* 0xFFFFFFFF
Polynomial == {31, 30, 29, 27, 26, 24, 23, 21, 20, 19, 15, 9, 8, 5}  \* 0xEDB88320

(* Mutant: the polynomial is never added.                                  *)
BitStep_ShiftOnly(value) == Shifted(value)

(* One turn of the loop over the bits.                                     *)
BitStep(value) == IF 0 \in value THEN Xor(Shifted(value), Polynomial) ELSE Shifted(value)

(* Values[k]: value after k turns.                                         *)
Values(crc, byte) ==
  LET value[k \in 0 .. 8] == IF k = 0 THEN Xor(crc, byte) ELSE BitStep(value[k - 1])
  IN  value

(* Mutant: the loop leaves out a bit.                                      *)
mconf_crc32_update_byte_Short(crc, byte) == Values(crc, byte)[7]

mconf_crc32_update_byte(crc, byte) == Values(crc, byte)[8]

mconf_crc32_finalize(crc) == Xor(crc, AllOnes)

(* Registers[i]: the register after i of the bytes.                        *)
Registers(crc, bytes) ==
  LET register[i \in 0 .. Len(bytes)] ==
        IF i = 0 THEN crc ELSE mconf_crc32_update_byte(register[i - 1], bytes[i])
  IN  register

mconf_crc32(bytes) == mconf_crc32_finalize(Registers(AllOnes, bytes)[Len(bytes)])

-----------------------------------------------------------------------------
(* Reference: CRC-32 is the remainder of a division of polynomials with    *)
(* coefficients 0 and 1, kept as the sets of their exponents.  The highest *)
(* coefficient is the lowest bit of the first byte, the first 32           *)
(* coefficients and the remainder are complemented.                        *)
Generator == {32, 26, 23, 22, 16, 12, 11, 10, 8, 7, 5, 4, 2, 1, 0}

(* The exponents of bits whose lowest one has the exponent d.              *)
Powers(bits, d) == {d - k : k \in bits}

Message(bytes) ==
  LET n == Len(bytes) IN
  Xor(UNION {Powers(bytes[i], 8 * (n - i) + 39) : i \in 1 .. n}, 8 * n .. 8 * n + 31)

(* Long division: one turn for each exponent from top down to 32.          *)
DivStep(r, d) == IF d \in r THEN Xor(r, {e + d - 32 : e \in Generator}) ELSE r

Rests(poly, top) ==
  LET rest[k \in 0 .. top - 31] ==
        IF k = 0 THEN poly ELSE DivStep(rest[k - 1], top + 1 - k)
  IN  rest

Remainder(poly, top) == Rests(poly, top)[top - 31]

Crc32(bytes) ==
  Xor(Powers(Remainder(Message(bytes), 8 * Len(bytes) + 31), 31), AllOnes)
=============================================================================
