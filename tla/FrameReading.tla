---------------------------- MODULE FrameReading ----------------------------
(***************************************************************************)
(* What one read of the serial port makes of the frames that have arrived, *)
(* frame by frame: UpgradeFrameCacheAndDecode with pRemainLen = NULL, then *)
(* UpgradeFrameCleanCache.  FrameDecoder shows that the decoder, which     *)
(* works byte by byte, keeps to it.                                        *)
(*                                                                         *)
(* A read reports at most one frame and drops what came with it: the rest  *)
(* of the read, a frame it cuts in two included.  A damaged frame may take *)
(* undamaged ones with it: its length may run over them, and a CRC error   *)
(* makes the read drop the frame it ends in.                               *)
(***************************************************************************)
EXTENDS Naturals, Sequences

FirstGood(frames, i) == frames[i].crc /\ (i = 1 \/ ~frames[1].crc)

NothingGood(frames, n) == n > 0 => ~frames[1].crc

Unread(frames, n) == SubSeq(frames, n + 1, Len(frames))
=============================================================================
