----------------------------- MODULE MCUpgrade -----------------------------
(***************************************************************************)
(* Values of the constants of Upgrade for TLC.  The packages name none,    *)
(* one or both of two partitions, which are empty, of a length around a    *)
(* block less the length field, or damaged.                                *)
(***************************************************************************)
EXTENDS Upgrade, TLC

Option(k, n) == [key |-> k, value |-> n]

Options == {Option("b", 9600), Option("b", 57600), Option("t", 2048), Option("t", 9600),
            Option("h", 0), Option("?", 0)}

UpToTwoOptions == {<< >>} \cup {<<o>> : o \in Options} \cup (Options \X Options)

Firmware(n) == LET data == [k \in 1..n |-> 100 + k] IN [data |-> data, MD5 |-> Padded(data)]

Damaged(n) == [Firmware(n) EXCEPT !.data[n] = 7]

Slots == {Firmware(0), Firmware(3), Firmware(4), Damaged(4)}

Package(fw, dev, part) == [FWNum |-> fw, DevNum |-> dev, part |-> part]

MCPackages ==
  {Package(n[1], n[2], t) :
     n \in {c \in (0..2) \X (0..2) : c[1] + c[2] <= 2}, t \in Slots \X Slots}

OtherPackages ==
  {Package(1, 1, <<Firmware(3), Firmware(4)>>), Package(0, 1, <<Damaged(4), Damaged(4)>>)}
=============================================================================
