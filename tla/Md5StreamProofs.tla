-------------------------- MODULE Md5StreamProofs --------------------------
(***************************************************************************)
(* That a context of md5.c in use always holds the message handed over,    *)
(* and that its digest is that of the padded message, for every file, any  *)
(* pieces and every size of byte, word and block.                          *)
(***************************************************************************)
EXTENDS Md5Stream, Md5Proofs

Message == SubSeq(File, 1, fed)

StreamInv ==
  /\ fed \in 0..Len(File)
  /\ phase = "hashing" => Holds(ctx, Message)
  /\ DigestRight

LEMMA MessageBytes ==
  ASSUME NEW n \in 0..Len(File)
  PROVE  /\ SubSeq(File, 1, n) \in Bytes /\ Len(SubSeq(File, 1, n)) = n
         /\ Len(File) \in Nat
BY FileAssumption, CutFront DEF Bytes

LEMMA StreamInit == Init => StreamInv
BY FileAssumption DEF Init, StreamInv, DigestRight

LEMMA StreamStep == StreamInv /\ [Next]_vars => StreamInv'
<1> SUFFICES ASSUME StreamInv, [Next]_vars
             PROVE  StreamInv'
  OBVIOUS
<1>1. fed \in 0..Len(File) /\ Len(File) \in Nat
  BY MessageBytes DEF StreamInv
<1>2. CASE Start
  <2>1. fed' = 0 /\ phase' = "hashing" /\ ctx' = MD5Start
    BY <1>2 DEF Start
  <2>2. SubSeq(File, 1, 0) = << >>
    BY FileAssumption, CutWhole
  <2>3. Holds(ctx', Message')
    BY <2>1, <2>2, StartHolds DEF Message
  <2>4. QED
    BY <1>1, <2>1, <2>3 DEF StreamInv, DigestRight
<1>3. CASE Update
  <2>1. PICK n \in 0..(Len(File) - fed) :
          /\ n < WordMax
          /\ ctx' = MD5Update(ctx, SubSeq(File, fed + 1, fed + n))
          /\ fed' = fed + n
    BY <1>3 DEF Update
  <2>2. phase = "hashing" /\ phase' = "hashing"
    BY <1>3 DEF Update
  <2>3. fed + n \in fed..Len(File) /\ fed + n \in 0..Len(File) /\ (fed + n) - fed = n
    BY <1>1, <2>1
  <2>4. PICK d \in Bytes : d = SubSeq(File, fed + 1, fed + n) /\ Len(d) = n
    <3>1. /\ SubSeq(File, fed + 1, fed + n) \in Seq(Nat)
          /\ Len(SubSeq(File, fed + 1, fed + n)) = (fed + n) - fed
      BY <1>1, <2>3, FileAssumption, CutAt
    <3>2. QED
      BY <2>3, <3>1 DEF Bytes
  <2>5. Holds(ctx', Message \o d)
    <3>1. Holds(ctx, Message) /\ Message \in Bytes
      BY <1>1, <2>2, MessageBytes DEF StreamInv, Message
    <3>2. QED
      BY <2>1, <2>4, <3>1, UpdateHolds
  <2>6. Message \o d = SubSeq(File, 1, fed + n)
    BY <1>1, <2>3, <2>4, FileAssumption, CutTwice DEF Message
  <2>7. Message' = SubSeq(File, 1, fed + n)
    BY <2>1 DEF Message
  <2>8. QED
    BY <2>1, <2>2, <2>3, <2>5, <2>6, <2>7 DEF StreamInv, DigestRight
<1>4. CASE Finish
  <2>1. /\ phase = "hashing" /\ phase' = "finished" /\ fed' = fed
        /\ ctx' = MD5Finish(ctx)
    BY <1>4 DEF Finish
  <2>2. Holds(ctx, Message) /\ Message \in Bytes
    BY <1>1, <2>1, MessageBytes DEF StreamInv, Message
  <2>3. Digest(ctx') = Padded(Message)
    BY <2>1, <2>2, FinishPads
  <2>4. Message' = Message
    BY <2>1 DEF Message
  <2>5. QED
    BY <1>1, <2>1, <2>3, <2>4 DEF StreamInv, DigestRight, Message
<1>5. CASE UNCHANGED vars
  BY <1>5 DEF vars, StreamInv, DigestRight, Message
<1>6. QED
  BY <1>2, <1>3, <1>4, <1>5 DEF Next

LEMMA StreamInvariant == Spec => []StreamInv
BY StreamInit, StreamStep, PTL DEF Spec

(* Between two calls the context holds the message handed over so far and
   nothing else, for every file and any pieces (md5.c:183-241). *)
THEOREM NothingIsLost == Spec => []HoldsMessage
<1>1. StreamInv => HoldsMessage
  <2>1. SUFFICES ASSUME StreamInv, phase = "hashing"
                 PROVE  HoldsMessage
    BY DEF HoldsMessage
  <2>2. Holds(ctx, Message) /\ Len(Message) = fed
    BY <2>1, MessageBytes DEF StreamInv, Message
  <2>3. /\ ctx.State \o Buffered = Message
        /\ ctx.Total[1] + (WordMax * ctx.Total[2]) = fed % (WordMax * WordMax)
    BY <2>2 DEF Holds, Rest, Buffered
  <2>4. QED
    BY <2>3 DEF HoldsMessage, Message
<1>2. QED
  BY <1>1, StreamInvariant, PTL

(* However the message was cut and whatever the context held before, the
   digest is that of the message as RFC 1321 pads it (md5.c:163-289). *)
THEOREM CutsDoNotShow == Spec => []DigestRight
BY StreamInvariant, PTL DEF StreamInv
=============================================================================
