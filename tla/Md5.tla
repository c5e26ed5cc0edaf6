-------------------------------- MODULE Md5 --------------------------------
(***************************************************************************)
(* md5.c as operators on the context MD5_CTX_T: which bytes reach the      *)
(* compression function, in which blocks, whatever the pieces in which     *)
(* they were handed over.                                                  *)
(*                                                                         *)
(* The compression function itself is data: the field State is the         *)
(* sequence of all bytes that have been given to it, so two digests are    *)
(* equal when the blocks behind them are.  The sizes are parameters: the   *)
(* code has Base = 256, ByteBits = 8, Half = 4 and Block = 64.             *)
(***************************************************************************)
EXTENDS Integers, Sequences

CONSTANTS
  Base,       \* values of a byte
  ByteBits,   \* bits in a byte
  Half,       \* bytes in a word of Total
  Block       \* bytes in a block

WordMax == Base ^ Half      \* Total[0] and Total[1] are uint32_t

ASSUME Md5Assumption ==
  /\ {Base, ByteBits, Half, Block} \subseteq Nat \ {0}
  /\ Base = 2 ^ ByteBits
  /\ Block > 2 * Half
  /\ WordMax % Block = 0 /\ WordMax % ByteBits = 0

(* What the proofs use of powers: true of every Base and Half. *)
ASSUME PowersAssumption ==
  /\ WordMax \in Nat \ {0}
  /\ \A k \in 0..(Half - 1) :
       /\ Base ^ k \in Nat \ {0} /\ Base ^ (Half - 1 - k) \in Nat \ {0}
       /\ WordMax = Base ^ k * (Base * Base ^ (Half - 1 - k))
       /\ Base ^ (Half + k) = WordMax * Base ^ k

Zeros(n) == [k \in 1..n |-> 0]

Pad == Base \div 2          \* 0x80

(* memcpy(buf + at, bytes, Len(bytes)) *)
CopyTo(buf, at, bytes) ==
  [k \in DOMAIN buf |-> IF k - at \in DOMAIN bytes THEN bytes[k - at] ELSE buf[k]]

(* PUT_UINT32_LE *)
LittleEndian(n) == [k \in 1..Half |-> (n \div (Base ^ (k - 1))) % Base]

MD5Start == [Total |-> <<0, 0>>, State |-> << >>, Buffer |-> Zeros(Block)]

Counted(ctx, n) ==
  LET low == (ctx.Total[1] + n) % WordMax IN
  [ctx EXCEPT !.Total = <<low, IF low < n THEN (@[2] + 1) % WordMax ELSE @[2]>>]

Fills(left, n) == left > 0 /\ n >= Block - left

(* Mutant of KeptAt: Left is not reset after the block has been completed. *)
KeptAtLeft(left, n) == left

KeptAt(left, n) == IF Fills(left, n) THEN 0 ELSE left

(* Complete the buffered block, hash the whole blocks of the data, keep the
   rest.  Nothing happens for no bytes: the call fails. *)
MD5Update(ctx, data) ==
  LET left == ctx.Total[1] % Block
      fill == IF Fills(left, Len(data)) THEN Block - left ELSE 0
      kept == (Len(data) - fill) % Block
      whole == Len(data) - kept
      full == CopyTo(ctx.Buffer, left, SubSeq(data, 1, fill))
  IN  IF data = << >> THEN ctx
      ELSE [Counted(ctx, Len(data)) EXCEPT
              !.State = @ \o (IF fill > 0 THEN full ELSE << >>)
                          \o SubSeq(data, fill + 1, whole),
              !.Buffer = CopyTo(full, KeptAt(left, Len(data)),
                                SubSeq(data, whole + 1, Len(data)))]

(* Mutant of LengthFits: off by one. *)
LengthFitsBarely(used) == used <= Block - 2 * Half + 1

LengthFits(used) == used <= Block - 2 * Half

(* The length in bits: Total shifted by three over both words. *)
LengthField(total) ==
  LET low == (total[1] * ByteBits) % WordMax
      high == (total[1] \div (WordMax \div ByteBits)) + ((total[2] * ByteBits) % WordMax)
  IN  LittleEndian(low) \o LittleEndian(high)

(* The padding, in the buffered block when the length fits behind it and in
   one more block when it does not. *)
MD5Finish(ctx) ==
  LET used == (ctx.Total[1] % Block) + 1
      padded == CopyTo(CopyTo(ctx.Buffer, used - 1, <<Pad>>), used, Zeros(Block - used))
      length == LengthField(ctx.Total)
      last(buf) == CopyTo(buf, Block - 2 * Half, length)
  IN  IF LengthFits(used)
        THEN [ctx EXCEPT !.Buffer = last(padded), !.State = @ \o last(padded)]
        ELSE LET zeroed == CopyTo(padded, 0, Zeros(Block - 2 * Half))
             IN  [ctx EXCEPT !.Buffer = last(zeroed), !.State = @ \o padded \o last(zeroed)]

Digest(ctx) == ctx.State    \* what the sixteen bytes are computed from
-----------------------------------------------------------------------------
(* The reference: RFC 1321 pads the whole message with one bit, zeros up to a
   block less the length field, and the length. *)
Padded(message) ==
  LET n == Len(message)
      zeros == (Block - 2 * Half - 1 - n) % Block
      bits(k) == ((n * ByteBits) \div (Base ^ (k - 1))) % Base
  IN  message \o <<Pad>> \o Zeros(zeros) \o [k \in 1..(2 * Half) |-> bits(k)]
=============================================================================
