---------------------------- MODULE CRCGenerate ----------------------------
(***************************************************************************)
(* CRCGenerate.c: the CRC32 that guards every frame.  An unsigned int is   *)
(* the set of its bits that are 1, so xor is symmetric difference; a byte  *)
(* is a number.  The 256 entries of CRC32Table are written down in the     *)
(* code and computed here: each is its index divided bit by bit by the     *)
(* reflected polynomial 0xEDB88320.                                        *)
(***************************************************************************)
EXTENDS Integers, Sequences, FiniteSetsExt

Byte == 0..255
Ones == 0..31                           \* 0xFFFFFFFF
Polynomial == {5, 8, 9, 15, 19, 20, 21, 23, 24, 26, 27, 29, 30, 31}

BitsOf == [b \in Byte |-> {k \in 0..7 : (b \div 2 ^ k) % 2 = 1}]

Xor(v, w) == (v \ w) \cup (w \ v)

ShiftRight(w, n) == {k - n : k \in {j \in w : j >= n}}

ByteOf == [bits \in SUBSET (0..7) |-> CHOOSE b \in Byte : BitsOf[b] = bits]

ByteAt(w, n) == ByteOf[ShiftRight(w, n) \cap 0..7]      \* (w >> n) & 0xFF

DividedBit(w) ==
  IF 0 \in w THEN Xor(ShiftRight(w, 1), Polynomial) ELSE ShiftRight(w, 1)

CRC32Table ==                           \* indexed by the bits of the index
  [bits \in SUBSET (0..7) |->
     LET divided[n \in 0..8] == IF n = 0 THEN bits ELSE DividedBit(divided[n - 1])
     IN  divided[8]]

Taking(w, byte) ==                      \* the loop's body
  Xor(CRC32Table[Xor(w, BitsOf[byte]) \cap 0..7], ShiftRight(w, 8))

CRCAfter(bytes) ==                      \* the CRC before and after each byte
  LET crc[n \in 0..Len(bytes)] == IF n = 0 THEN Ones ELSE Taking(crc[n - 1], bytes[n])
  IN  crc

CRC32Generate(bytes) == Xor(CRCAfter(bytes)[Len(bytes)], Ones)

BigEndian(w) == <<ByteAt(w, 24), ByteAt(w, 16), ByteAt(w, 8), ByteAt(w, 0)>>

(* Eight bits are a byte, and each byte is its own bits. *)
ASSUME BitsAssumption ==
  /\ \A bits \in SUBSET (0..7) : ByteOf[bits] \in Byte /\ BitsOf[ByteOf[bits]] = bits
  /\ \A b \in Byte : ByteOf[BitsOf[b]] = b

(* No two entries of the table have the same highest byte. *)
ASSUME TableAssumption ==
  /\ \A bits \in SUBSET (0..7) : CRC32Table[bits] \subseteq Ones
  /\ \A v, w \in SUBSET (0..7) :
       CRC32Table[v] \cap 24..31 = CRC32Table[w] \cap 24..31 => v = w

(* The published check value of CRC-32: that of "123456789" is 0xCBF43926. *)
ASSUME CheckValueAssumption ==
  BigEndian(CRC32Generate([k \in 1..9 |-> 48 + k])) = <<203, 244, 57, 38>>
=============================================================================
