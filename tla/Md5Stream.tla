----------------------------- MODULE Md5Stream -----------------------------
(***************************************************************************)
(* A context of md5.c in use: a message is handed to MD5Update in pieces   *)
(* of any length below 2^32 and of none, MD5Finish closes it, and          *)
(* MD5Start makes the same context, whatever it holds, ready for the next. *)
(***************************************************************************)
EXTENDS Md5

CONSTANTS
  File,       \* the bytes that are hashed, from the first on
  Stale       \* contexts nobody has initialised

ASSUME FileAssumption == File \in Seq(Nat)

VARIABLES
  ctx,        \* MD5_CTX_T
  fed,        \* bytes of File handed over since MD5Start
  phase       \* "raw", "hashing" or "finished"

vars == <<ctx, fed, phase>>

Init == ctx \in Stale /\ fed = 0 /\ phase = "raw"

Start ==
  /\ ctx' = MD5Start
  /\ fed' = 0
  /\ phase' = "hashing"

Update ==
  /\ phase = "hashing"
  /\ \E n \in 0..(Len(File) - fed) :
       /\ n < WordMax
       /\ ctx' = MD5Update(ctx, SubSeq(File, fed + 1, fed + n))
       /\ fed' = fed + n
  /\ UNCHANGED phase

Finish ==
  /\ phase = "hashing"
  /\ ctx' = MD5Finish(ctx)
  /\ phase' = "finished"
  /\ UNCHANGED fed

Next == Start \/ Update \/ Finish

Spec == Init /\ [][Next]_vars
-----------------------------------------------------------------------------
(* Between two calls the context holds the message handed over so far and
   nothing else: whole blocks hashed, the rest in front of Buffer, the length
   in Total with its carry (md5.c:183-241). *)
Buffered == SubSeq(ctx.Buffer, 1, ctx.Total[1] % Block)

HoldsMessage ==
  phase = "hashing" =>
    /\ ctx.State \o Buffered = SubSeq(File, 1, fed)
    /\ ctx.Total[1] + WordMax * ctx.Total[2] = fed % (WordMax * WordMax)

(* However the message was cut, the digest is computed from the message as
   RFC 1321 pads it: nothing of the pieces' borders and nothing the context
   held before shows in it (md5.c:163-289). *)
DigestRight == phase = "finished" => Digest(ctx) = Padded(SubSeq(File, 1, fed))
=============================================================================
