---------------------------- MODULE FrameDecoder ----------------------------
(***************************************************************************)
(* UpgradeFrameCacheAndDecode, the byte-level frame decoder, called on one *)
(* read after the other by UpgradeFrameCacheAndFilter, which cleans the    *)
(* cache after every verdict but FRAME_RESPONSE_FRAME_DECODING.            *)
(*                                                                         *)
(* One action is one turn of the decoder's loop.  The pointers into the    *)
(* read buffer become positions in the stream of all bytes that arrive, so *)
(* pTempBuf[Index] is stream.bytes[index + 1] and TempLen - Index is       *)
(* read - index.  The length field is one byte of the model.  The branch   *)
(* for pBuf = NULL is left out: nothing calls the decoder without a        *)
(* buffer.                                                                 *)
(***************************************************************************)
EXTENDS Integers, Sequences, FiniteSets

CONSTANTS
  Header,       \* the two bytes that start a frame: D5 A5
  HeadLen,      \* length of header, version, frame number and length (6)
  MinLen,       \* UPGRADE_PROTOCOL_FILED_LEN
  LengthMax,    \* UPGRADE_PROTOCOL_LENGTH_MAX
  ReadMax,      \* sizeof(ReadBuf)
  CRC(_),       \* CRC32Generate, over a frame without header and CRC
  Streams       \* what may arrive: bytes, and where the frames in them lie

ASSUME HeaderAssumption == Header \in Nat \X Nat
ASSUME LengthsAssumption ==
  /\ HeadLen \in Nat /\ MinLen \in Nat /\ LengthMax \in Nat /\ ReadMax \in Nat
  /\ 2 < HeadLen /\ HeadLen < MinLen /\ MinLen <= LengthMax /\ 0 < ReadMax

Span == [at : Nat, end : Nat, crc : BOOLEAN]     \* positions of the first and last byte

(* UpgradeFrameSearch *)
FrameSearch(f) == f[Len(f)] = CRC(SubSeq(f, 4, Len(f) - 1))

(* All that the loop and UpgradeFrameSearch compare in a frame. *)
IsFrame(f) ==
  /\ Len(f) \in MinLen..LengthMax
  /\ f[1] = Header[1] /\ f[2] = Header[2]
  /\ f[HeadLen] = Len(f)
  /\ FrameSearch(f)

(* The frames, damaged or not, divide the stream between them. *)
ASSUME StreamsAssumption ==
  \A s \in Streams :
    /\ s.bytes \in Seq(Nat)
    /\ s.frames \in Seq(Span)
    /\ \A k \in DOMAIN s.frames :
         /\ 1 <= s.frames[k].at /\ s.frames[k].at <= s.frames[k].end
         /\ s.frames[k].end <= Len(s.bytes)
         /\ s.frames[k].crc => IsFrame(SubSeq(s.bytes, s.frames[k].at, s.frames[k].end))
    /\ \A j, k \in DOMAIN s.frames : j < k => s.frames[j].end < s.frames[k].at
    /\ \A p \in DOMAIN s.bytes :
         \E k \in DOMAIN s.frames : s.frames[k].at <= p /\ p <= s.frames[k].end

(* What a decoder that has lost its place can go by: no header is found inside
   an undamaged frame or across its end, and no frame begins in a damaged one.
   SeparateFramesReported does without it. *)
HeadersMarkFrames ==
  \A s \in Streams : \A k \in DOMAIN s.frames :
    IF s.frames[k].crc
      THEN \A p \in (s.frames[k].at + 1)..s.frames[k].end :
             s.bytes[p] = Header[1] => p < s.frames[k].end /\ s.bytes[p + 1] # Header[2]
      ELSE \A p \in s.frames[k].at..s.frames[k].end, q \in DOMAIN s.bytes :
             p <= q => ~IsFrame(SubSeq(s.bytes, p, q))

VARIABLES
  stream,     \* the bytes that arrive, and the frames they were sent as
  read,       \* how many of them have been read
  index,      \* how many of them the decoder is through with
  pc,         \* "read" between two calls of the decoder, "decode" in its loop
  find,       \* HeaderFind
  recv,       \* RecvData up to RecvDataLen
  length,     \* FrameRecv.Length
  result,     \* Result
  at,         \* ghost: position of the first header byte that was found
  reported,   \* ghost: the spans of the frames reported FRAME_RESPONSE_OK
  gone,       \* ghost: how many of the frames can no longer be reported
  alone       \* ghost: no read so far held bytes of two frames

cache == <<find, recv, length>>
ghosts == <<at, reported, gone, alone>>
vars == <<stream, read, index, pc, find, recv, length, result, at, reported, gone,
          alone>>

Init ==
  /\ stream \in Streams
  /\ read = 0
  /\ index = 0
  /\ pc = "read"
  /\ find = 0
  /\ recv = << >>
  /\ length = 0
  /\ result = "ERROR"
  /\ at = 0
  /\ reported = << >>
  /\ gone = 0
  /\ alone = TRUE

Byte == stream.bytes[index + 1]

Decoding == pc = "decode" /\ index < read /\ result # "OK"

Read ==                                   \* read() returned bytes
  /\ pc = "read"
  /\ \E n \in 1..ReadMax :
       /\ read + n <= Len(stream.bytes)
       /\ read' = read + n
       /\ alone' = (alone /\ \A k \in DOMAIN stream.frames :
                               stream.frames[k].at \notin (read + 2)..(read + n))
  /\ index' = read
  /\ pc' = "decode"
  /\ result' = "ERROR"
  /\ UNCHANGED <<stream, cache, at, reported, gone>>

FindHeader ==
  /\ Decoding
  /\ find < 2
  /\ Byte = Header[find + 1]
  /\ find' = find + 1
  /\ recv' = IF find' = 2 THEN Header ELSE recv
  /\ at' = IF find = 0 THEN index + 1 ELSE at
  /\ index' = index + 1
  /\ UNCHANGED <<stream, read, pc, length, result, reported, gone, alone>>

(* The byte is not tried as the first byte of a header in its turn. *)
MissHeader ==
  /\ Decoding
  /\ find < 2
  /\ Byte # Header[find + 1]
  /\ find' = 0
  /\ index' = index + 1
  /\ UNCHANGED <<stream, read, pc, recv, length, result, ghosts>>

HeadByte == Decoding /\ find = 2 /\ Len(recv) < HeadLen

(* Mutant of LengthRight: a long frame is not refused. *)
LengthRightUnbounded(len) == len >= MinLen

(* UpgradeFrameCheckHead *)
LengthRight(len) == len \in MinLen..LengthMax

TakeHeadByte ==
  /\ HeadByte
  /\ Len(recv) + 1 = HeadLen => LengthRight(Byte)
  /\ recv' = Append(recv, Byte)
  /\ length' = IF Len(recv) + 1 = HeadLen THEN Byte ELSE length
  /\ index' = index + 1
  /\ UNCHANGED <<stream, read, pc, find, result, ghosts>>

(* Mutant of RejectLength: the search for a header is not restarted. *)
RejectLengthKeepsHeader ==
  /\ HeadByte
  /\ Len(recv) + 1 = HeadLen
  /\ ~LengthRight(Byte)
  /\ recv' = Header
  /\ length' = 0
  /\ UNCHANGED <<stream, read, index, pc, find, result, ghosts>>

(* The byte is looked at again, as a header byte. *)
RejectLength ==
  /\ HeadByte
  /\ Len(recv) + 1 = HeadLen
  /\ ~LengthRight(Byte)
  /\ find' = 0
  /\ recv' = << >>
  /\ length' = 0
  /\ UNCHANGED <<stream, read, index, pc, result, ghosts>>

BodyBytes == Decoding /\ find = 2 /\ Len(recv) >= HeadLen

Missing == length - Len(recv)

(* Mutant of Enough: off by one. *)
EnoughAndMore == read - index > Missing

Enough == read - index >= Missing

Frame == recv \o SubSeq(stream.bytes, index + 1, index + Missing)

(* Mutant of FrameDone: the CRC is not compared. *)
FrameDoneUnchecked ==
  /\ BodyBytes
  /\ Enough
  /\ result' = "OK"
  /\ find' = 0
  /\ recv' = << >>
  /\ UNCHANGED <<stream, read, index, pc, length, ghosts>>

FrameDone ==
  /\ BodyBytes
  /\ Enough
  /\ FrameSearch(Frame)
  /\ result' = "OK"
  /\ find' = 0
  /\ recv' = << >>
  /\ UNCHANGED <<stream, read, index, pc, length, ghosts>>

(* Mutant of FrameDamaged: RecvData is kept. *)
FrameDamagedKept ==
  /\ BodyBytes
  /\ Enough
  /\ ~FrameSearch(Frame)
  /\ result' = "CRC_ERROR"
  /\ UNCHANGED <<stream, read, index, pc, cache, ghosts>>

(* What this read holds of the damaged frame is searched for a header. *)
FrameDamaged ==
  /\ BodyBytes
  /\ Enough
  /\ ~FrameSearch(Frame)
  /\ result' = "CRC_ERROR"
  /\ find' = 0
  /\ recv' = << >>
  /\ UNCHANGED <<stream, read, index, pc, length, ghosts>>

(* Mutant of FramePart: all that is missing counts as read. *)
FramePartAsWhole ==
  /\ BodyBytes
  /\ ~Enough
  /\ recv' = recv \o SubSeq(stream.bytes, index + 1, read)
  /\ index' = index + Missing
  /\ UNCHANGED <<stream, read, pc, find, length, result, ghosts>>

FramePart ==
  /\ BodyBytes
  /\ ~Enough
  /\ recv' = recv \o SubSeq(stream.bytes, index + 1, read)
  /\ index' = read
  /\ UNCHANGED <<stream, read, pc, find, length, result, ghosts>>

(* How many of the frames are past being reported, or past doing harm, once
   no byte up to p is looked at again: the rest of a damaged frame may still
   look like a header. *)
OverBy(p) ==
  Cardinality({k \in DOMAIN stream.frames :
                 IF stream.frames[k].crc THEN stream.frames[k].at <= p
                                         ELSE stream.frames[k].end <= p})

AtLeast(m, n) == IF m <= n THEN n ELSE m

Return ==                                 \* and what the filter does then
  /\ pc = "decode"
  /\ ~Decoding
  /\ pc' = "read"
  /\ reported' = IF result = "OK"
                   THEN Append(reported, [at |-> at, end |-> at + length - 1, crc |-> TRUE])
                   ELSE reported
  /\ IF result = "ERROR" /\ find > 0      \* FRAME_RESPONSE_FRAME_DECODING
       THEN /\ gone' = AtLeast(gone, OverBy(at - 1))
            /\ UNCHANGED cache
       ELSE /\ gone' = AtLeast(gone, OverBy(read))
            /\ find' = 0
            /\ recv' = << >>
            /\ length' = 0
  /\ UNCHANGED <<stream, read, index, result, at, alone>>

Decode ==
  \/ FindHeader \/ MissHeader \/ TakeHeadByte \/ RejectLength
  \/ FrameDone \/ FrameDamaged \/ FramePart \/ Return

Next == Read \/ Decode

Spec == Init /\ [][Next]_vars

FairSpec == Spec /\ WF_vars(Decode)
-----------------------------------------------------------------------------
TypeOK ==
  /\ stream.bytes \in Seq(Nat) /\ stream.frames \in Seq(Span)
  /\ read \in 0..Len(stream.bytes)
  /\ index \in 0..read
  /\ pc \in {"read", "decode"}
  /\ find \in 0..2
  /\ recv \in Seq(Nat)
  /\ length \in Nat
  /\ result \in {"OK", "ERROR", "CRC_ERROR"}
  /\ at \in 0..read
  /\ reported \in Seq(Span)
  /\ gone \in 0..Len(stream.frames)
  /\ alone \in BOOLEAN

(* Whatever bytes arrive and however they are cut into reads, what is kept in
   RecvData never outgrows the frame it is for, which never outgrows RecvData,
   and the number of bytes still missing, computed without a sign, is never
   negative (UpgradeProtocol.c:397-422). *)
CacheFits ==
  /\ find < 2 => recv = << >>
  /\ find = 2 => Len(recv) >= 2
  /\ Len(recv) >= HeadLen => Len(recv) < length /\ length <= LengthMax

(* RecvData holds consecutive bytes of the stream: none is skipped or stored
   twice where a frame is put together from several reads, or where a byte is
   looked at again after a bad length or a CRC error
   (UpgradeProtocol.c:363-423). *)
Contiguous ==
  /\ recv = SubSeq(stream.bytes, at, at + Len(recv) - 1)
  /\ recv # << >> => at + Len(recv) - 1 = index

(* A frame that has been read whole is not left in the cache: if it is the
   first one not dealt with and undamaged, the read that ended it reported it
   or dropped it. *)
NoStall ==
  pc = "read" /\ gone < Len(stream.frames) /\ stream.frames[gone + 1].crc =>
    stream.frames[gone + 1].end > read

(* As long as nothing is damaged and no read holds bytes of two frames, every
   frame is reported, however it is cut into reads. *)
SeparateFramesReported ==
  pc = "read" /\ alone =>
    \A k \in DOMAIN stream.frames :
      /\ stream.frames[k].end <= read
      /\ \A j \in 1..k : stream.frames[j].crc
      => k <= Len(reported) /\ reported[k] = stream.frames[k]

(* The decoder is a FrameReader: it reports undamaged frames only, in order
   and at most once, and loses one only together with an earlier one. *)
Reader == INSTANCE FrameReader WITH
  frames <- SubSeq(stream.frames, gone + 1, Len(stream.frames))

ReadsFrames == Reader!Spec

(* The loop ends: after a bad length or a CRC error it goes on with the byte
   it has already seen, but not for ever (UpgradeProtocol.c:391, 406). *)
DecodeReturns == pc = "decode" ~> pc = "read"
=============================================================================
