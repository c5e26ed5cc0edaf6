--------------------------- MODULE UpgradeSession ---------------------------
(***************************************************************************)
(* What a firmware upgrade promises, without the line: the module receives *)
(* the file behind its header piece by piece, in order, every byte once,   *)
(* and the host's verdict is OK only when all of it is there.  A failed    *)
(* session may still deliver what was on its way; a successful one ends.   *)
(***************************************************************************)
EXTENDS Integers, Sequences

CONSTANTS First,      \* offset of the first byte the module asks for
          FileSize

VARIABLES image,      \* the pieces received so far
          outcome     \* "NONE", "OK" or "FAILED"

vars == <<image, outcome>>

Received ==
  IF image = << >> THEN First ELSE image[Len(image)].at + image[Len(image)].size

Init == image = << >> /\ outcome = "NONE"

Deliver ==
  /\ outcome # "OK"
  /\ Len(image') = Len(image) + 1
  /\ LET piece == image'[Len(image) + 1]
     IN  /\ image' = Append(image, piece)
         /\ piece.at = Received
         /\ piece.size > 0
         /\ piece.at + piece.size <= FileSize
  /\ UNCHANGED outcome

Succeed ==
  /\ outcome = "NONE"
  /\ Received = FileSize
  /\ outcome' = "OK"
  /\ UNCHANGED image

Fail ==
  /\ outcome = "NONE"
  /\ outcome' = "FAILED"
  /\ UNCHANGED image

Next == Deliver \/ Succeed \/ Fail

Spec == Init /\ [][Next]_vars
=============================================================================
