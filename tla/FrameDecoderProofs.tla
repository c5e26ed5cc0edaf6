------------------------- MODULE FrameDecoderProofs -------------------------
(***************************************************************************)
(* Proofs about FrameDecoder for every header, every limit on lengths and  *)
(* reads, every CRC and every stream of bytes.                             *)
(*                                                                         *)
(* What is in the cache is told by the position where its header was       *)
(* found: it is the stream from there up to the byte that is next.  The    *)
(* only moment at which this says nothing is when a frame has been put     *)
(* together, or found damaged, and the cache is empty.                     *)
(***************************************************************************)
EXTENDS FrameDecoder, FiniteSetTheorems, SequenceTheorems, TLAPS

(* What is found of a header, and of the length behind it. *)
HeaderInv ==
  /\ recv # << >> => find = 2
  /\ find = 1 => at = index /\ at >= 1 /\ stream.bytes[at] = Header[1]
  /\ find = 2 => at >= 1 /\ recv[1] = Header[1] /\ recv[2] = Header[2]
  /\ Len(recv) >= HeadLen => recv[HeadLen] = length /\ length >= MinLen

(* What is waited for between two reads, and what is returned. *)
ResultInv ==
  /\ pc = "read" /\ find > 0 => index = read
  /\ pc = "decode" /\ result = "OK" =>
       /\ find = 0
       /\ length \in MinLen..LengthMax
       /\ at >= 1 /\ at + length - 1 <= read

CacheInv == TypeOK /\ CacheFits /\ Contiguous /\ HeaderInv /\ ResultInv

-----------------------------------------------------------------------------
LEMMA HeaderType ==
  /\ Header \in Seq(Nat) /\ Len(Header) = 2 /\ Header # << >>
  /\ Header[1] \in Nat /\ Header[2] \in Nat
  /\ Header = <<Header[1], Header[2]>>
<1>1. PICK a \in Nat, b \in Nat : Header = <<a, b>>
  BY HeaderAssumption
<1>2. QED
  BY <1>1

LEMMA PairsEqual ==
  ASSUME NEW s \in Seq(Nat), NEW t \in Seq(Nat), Len(s) = 2, Len(t) = 2, s[1] = t[1], s[2] = t[2]
  PROVE  s = t
<1>1. \A i \in 1..2 : s[i] = t[i]
  BY \A i \in 1..2 : i = 1 \/ i = 2
<1>2. QED
  BY <1>1, SeqEqual

LEMMA ByteType ==
  ASSUME TypeOK, index < read
  PROVE  /\ Byte \in Nat /\ index + 1 \in 1..Len(stream.bytes) /\ Byte = stream.bytes[index + 1]
         /\ index + 1 \in 0..read
<1>1. stream.bytes \in Seq(Nat) /\ read \in 0..Len(stream.bytes) /\ index \in 0..read
  BY DEF TypeOK
<1>2. Len(stream.bytes) \in Nat
  BY <1>1
<1>3. index + 1 \in 1..Len(stream.bytes) /\ index + 1 \in 0..read
  BY <1>1, <1>2
<1>4. QED
  BY <1>1, <1>3 DEF Byte

LEMMA CountType ==
  ASSUME stream.frames \in Seq(Span), NEW p
  PROVE  OverBy(p) \in 0..Len(stream.frames)
<1>1. Len(stream.frames) \in Nat /\ DOMAIN stream.frames = 1..Len(stream.frames)
  OBVIOUS
<1>2. IsFiniteSet(1..Len(stream.frames)) /\ Cardinality(1..Len(stream.frames)) = Len(stream.frames)
  BY <1>1, FS_Interval
<1>3. ASSUME NEW T \in SUBSET (1..Len(stream.frames))
      PROVE  Cardinality(T) \in 0..Len(stream.frames)
  <2>1. IsFiniteSet(T) /\ Cardinality(T) <= Len(stream.frames)
    BY <1>2, FS_Subset
  <2>2. QED
    BY <1>1, <2>1, FS_CardinalityType
<1>4. QED
  BY <1>1, <1>3 DEF OverBy

(* What the branch for the body of a frame finds. *)
LEMMA BodyFacts ==
  ASSUME CacheInv, BodyBytes
  PROVE  /\ pc = "decode" /\ index < read /\ result # "OK" /\ find = 2
         /\ Len(recv) \in Nat /\ Len(recv) >= HeadLen /\ Len(recv) < length
         /\ length \in MinLen..LengthMax
         /\ at >= 1 /\ at + Len(recv) - 1 = index
         /\ Missing = length - Len(recv) /\ Missing \in Nat \ {0}
         /\ at + length - 1 = index + Missing
<1> USE LengthsAssumption
<1>1. /\ pc = "decode" /\ index < read /\ result # "OK" /\ find = 2
      /\ Len(recv) >= HeadLen
  BY DEF BodyBytes, Decoding
<1>2. recv \in Seq(Nat) /\ Len(recv) \in Nat /\ length \in Nat /\ at \in Nat /\ index \in Nat
  <2>1. recv \in Seq(Nat) /\ length \in Nat /\ at \in 0..read /\ read \in 0..Len(stream.bytes) /\ index \in 0..read
        /\ stream.bytes \in Seq(Nat)
    BY DEF CacheInv, TypeOK
  <2>2. Len(stream.bytes) \in Nat /\ Len(recv) \in Nat
    BY <2>1
  <2>3. QED
    BY <2>1, <2>2
<1>3. Len(recv) < length /\ length <= LengthMax /\ length >= MinLen /\ at >= 1
  BY <1>1 DEF CacheInv, CacheFits, HeaderInv
<1>4. recv # << >>
  BY <1>1, <1>2
<1>5. at + Len(recv) - 1 = index
  BY <1>4 DEF CacheInv, Contiguous
<1>6. QED
  BY <1>1, <1>2, <1>3, <1>5 DEF Missing

(* Putting the next bytes of the stream behind what is in the cache. *)
LEMMA CacheGrows ==
  ASSUME TypeOK, Contiguous, recv # << >>, at >= 1,
         NEW n \in Nat, n >= index, n <= Len(stream.bytes)
  PROVE  /\ recv \o SubSeq(stream.bytes, index + 1, n) = SubSeq(stream.bytes, at, n)
         /\ Len(recv \o SubSeq(stream.bytes, index + 1, n)) = Len(recv) + (n - index)
         /\ Len(recv) + (n - index) = n - at + 1
         /\ recv \o SubSeq(stream.bytes, index + 1, n) \in Seq(Nat)
         /\ \A i \in 1..Len(recv) : (recv \o SubSeq(stream.bytes, index + 1, n))[i] = recv[i]
<1>1. /\ stream.bytes \in Seq(Nat) /\ recv \in Seq(Nat)
      /\ index \in 0..read /\ at \in 0..read /\ read \in 0..Len(stream.bytes)
  BY DEF TypeOK
<1>2. Len(stream.bytes) \in Nat /\ Len(recv) \in Nat /\ Len(recv) > 0 /\ index \in Nat /\ at \in Nat
  BY <1>1
<1>3. at + Len(recv) - 1 = index /\ recv = SubSeq(stream.bytes, at, index)
  BY DEF Contiguous
<1>4. SubSeq(stream.bytes, index + 1, n) \in Seq(Nat)
      /\ Len(SubSeq(stream.bytes, index + 1, n)) = n - index
  BY <1>1, <1>2, SubSeqProperties
<1>5. recv \o SubSeq(stream.bytes, index + 1, n) = SubSeq(stream.bytes, at, n)
  <2>1. at \in 1..Len(stream.bytes) + 1 /\ index \in at-1..n /\ n \in at-1..Len(stream.bytes)
    BY <1>2, <1>3
  <2>2. QED
    BY <1>1, <1>2, <1>3, <2>1, ConcatAdjacentSubSeq
<1>6. QED
  BY <1>1, <1>2, <1>3, <1>4, <1>5

LEMMA EmptyCache ==
  ASSUME NEW s, NEW p \in Nat
  PROVE  << >> = SubSeq(s, p, p + Len(<< >>) - 1)
<1>1. p + Len(<< >>) - 1 \in Int /\ p + Len(<< >>) - 1 < p
  OBVIOUS
<1>2. QED
  BY <1>1, SubSeqEmpty

(* Emptying the cache and looking for a header again. *)
LEMMA Emptied ==
  ASSUME TypeOK, recv' = << >>, find' = 0, stream' = stream, at' = at
  PROVE  CacheFits' /\ Contiguous' /\ HeaderInv'
<1>1. at \in Nat
  BY DEF TypeOK
<1>2. Contiguous'
  BY <1>1, EmptyCache DEF Contiguous
<1>3. Len(recv') = 0 /\ ~(0 >= HeadLen)
  BY LengthsAssumption
<1>4. QED
  BY <1>2, <1>3 DEF CacheFits, HeaderInv

LEMMA ReadCache ==
  ASSUME CacheInv, Read
  PROVE  CacheInv'
<1> USE DEF CacheInv
<1>1. PICK n \in 1..ReadMax :
        /\ pc = "read" /\ read + n <= Len(stream.bytes) /\ read' = read + n
        /\ index' = read /\ pc' = "decode" /\ result' = "ERROR" /\ alone' \in BOOLEAN
        /\ UNCHANGED <<stream, find, recv, length, at, reported, gone>>
  BY DEF Read, cache
<1>2. stream.bytes \in Seq(Nat) /\ Len(stream.bytes) \in Nat /\ read \in Nat /\ n \in Nat
      /\ index \in 0..read
  BY <1>1, LengthsAssumption DEF TypeOK
<1>3. read' \in 0..Len(stream.bytes) /\ index' \in 0..read' /\ \A p \in 0..read : p \in 0..read'
  BY <1>1, <1>2
<1>4. TypeOK'
  BY <1>1, <1>3 DEF TypeOK
<1>5. find > 0 => index' = index
  BY <1>1 DEF ResultInv
<1>6. recv # << >> => find > 0
  BY DEF HeaderInv
<1>7. find = 1 => find > 0
  OBVIOUS
<1>8. CacheFits' /\ Contiguous' /\ HeaderInv'
  BY <1>1, <1>5, <1>6, <1>7 DEF CacheFits, Contiguous, HeaderInv
<1>9. ResultInv'
  BY <1>1 DEF ResultInv
<1>10. QED
  BY <1>4, <1>8, <1>9

LEMMA FindHeaderCache ==
  ASSUME CacheInv, FindHeader
  PROVE  CacheInv'
<1> USE DEF CacheInv
<1>1. /\ pc = "decode" /\ index < read /\ result # "OK" /\ find < 2 /\ Byte = Header[find + 1]
      /\ find' = find + 1 /\ index' = index + 1
      /\ recv' = IF find' = 2 THEN Header ELSE recv
      /\ at' = IF find = 0 THEN index + 1 ELSE at
      /\ UNCHANGED <<stream, read, pc, length, result, reported, gone, alone>>
  BY DEF FindHeader, Decoding
<1>2. /\ stream.bytes \in Seq(Nat) /\ index \in Nat /\ find \in {0, 1} /\ recv = << >>
      /\ index + 1 \in 0..read /\ Byte = stream.bytes[index + 1] /\ index + 1 \in 1..Len(stream.bytes)
  BY <1>1, ByteType DEF TypeOK, CacheFits
<1>3. TypeOK'
  <2>1. find' \in 0..2 /\ index' \in 0..read /\ pc = "decode"
    BY <1>1, <1>2
  <2>2. recv' \in Seq(Nat)
    BY <1>1, <1>2, HeaderType
  <2>3. at' \in 0..read
    BY <1>1, <1>2 DEF TypeOK
  <2>4. /\ stream' = stream /\ read' = read /\ pc' = pc /\ length' = length
        /\ result' = result /\ reported' = reported /\ gone' = gone /\ alone' = alone
    BY <1>1
  <2>5. QED
    BY <2>1, <2>2, <2>3, <2>4 DEF TypeOK
<1>4. ResultInv'
  BY <1>1 DEF ResultInv
<1>5. CASE find = 0
  <2>1. find' = 1 /\ recv' = << >> /\ at' = index + 1 /\ index' = index + 1 /\ stream' = stream
    BY <1>1, <1>2, <1>5
  <2>2. Contiguous'
    BY <1>2, <2>1, EmptyCache DEF Contiguous
  <2>3. Len(recv') = 0 /\ ~(0 >= HeadLen)
    BY <2>1, LengthsAssumption
  <2>4. at' >= 1 /\ stream'.bytes[at'] = Header[1]
    <3>1. Byte = Header[1]
      BY <1>1, <1>5
    <3>2. QED
      BY <1>2, <2>1, <3>1
  <2>5. CacheFits' /\ HeaderInv'
    BY <2>1, <2>3, <2>4 DEF CacheFits, HeaderInv
  <2>6. QED
    BY <1>3, <1>4, <2>2, <2>5
<1>6. CASE find = 1
  <2>1. find' = 2 /\ recv' = Header /\ at' = at /\ index' = index + 1 /\ stream' = stream
    BY <1>1, <1>6
  <2>2. at = index /\ at >= 1 /\ stream.bytes[at] = Header[1] /\ stream.bytes[at + 1] = Header[2]
    <3>1. Byte = Header[2]
      BY <1>1, <1>6
    <3>2. QED
      BY <1>2, <1>6, <3>1 DEF HeaderInv
  <2>3. Len(recv') = 2 /\ at + Len(recv') - 1 = index' /\ at + Len(recv') - 1 = at + 1 /\ ~(2 >= HeadLen)
    BY <1>2, <2>1, <2>2, HeaderType, LengthsAssumption
  <2>4. Header = SubSeq(stream.bytes, at, at + 1)
    <3>1. /\ SubSeq(stream.bytes, at, at + 1) \in Seq(Nat)
          /\ Len(SubSeq(stream.bytes, at, at + 1)) = 2
          /\ SubSeq(stream.bytes, at, at + 1)[1] = stream.bytes[at]
          /\ SubSeq(stream.bytes, at, at + 1)[2] = stream.bytes[at + 1]
      <4>1. at \in Int /\ at + 1 \in Int /\ \A i \in at..(at + 1) : stream.bytes[i] \in Nat
        BY <1>2, <2>2
      <4>2. at <= at + 1 /\ (at + 1) - at + 1 = 2 /\ 1 \in 1..((at + 1) - at + 1)
            /\ 2 \in 1..((at + 1) - at + 1) /\ at + 1 - 1 = at /\ at + 2 - 1 = at + 1
        BY <4>1
      <4>3. QED
        BY <4>1, <4>2, SubSeqProperties
    <3>2. QED
      BY <2>2, <3>1, HeaderType, PairsEqual
  <2>5. Contiguous'
    BY <2>1, <2>3, <2>4 DEF Contiguous
  <2>6. CacheFits' /\ HeaderInv'
    BY <2>1, <2>2, <2>3, HeaderType DEF CacheFits, HeaderInv
  <2>7. QED
    BY <1>3, <1>4, <2>5, <2>6
<1>7. QED
  BY <1>2, <1>5, <1>6

LEMMA MissHeaderCache ==
  ASSUME CacheInv, MissHeader
  PROVE  CacheInv'
<1> USE DEF CacheInv
<1>1. /\ pc = "decode" /\ index < read /\ result # "OK" /\ find < 2
      /\ find' = 0 /\ index' = index + 1
      /\ UNCHANGED <<stream, read, pc, recv, length, result, at, reported, gone, alone>>
  BY DEF MissHeader, Decoding, ghosts
<1>2. index' \in 0..read
  BY <1>1, ByteType
<1>3. recv' = << >>
  BY <1>1 DEF CacheFits
<1>4. TypeOK'
  BY <1>1, <1>2 DEF TypeOK
<1>5. ResultInv'
  BY <1>1 DEF ResultInv
<1>6. QED
  BY <1>1, <1>3, <1>4, <1>5, Emptied

LEMMA CacheGrowsByOne ==
  ASSUME TypeOK, Contiguous, recv # << >>, at >= 1, index < read
  PROVE  /\ Append(recv, Byte) = SubSeq(stream.bytes, at, index + 1)
         /\ Append(recv, Byte) \in Seq(Nat)
         /\ Len(Append(recv, Byte)) = Len(recv) + 1 /\ Len(recv) \in Nat
         /\ at + (Len(recv) + 1) - 1 = index + 1
         /\ Append(recv, Byte)[Len(recv) + 1] = Byte
         /\ \A i \in 1..Len(recv) : Append(recv, Byte)[i] = recv[i]
<1>1. recv \in Seq(Nat) /\ at \in Nat /\ stream.bytes \in Seq(Nat) /\ index \in Nat /\ Byte \in Nat
      /\ index + 1 \in 1..Len(stream.bytes) /\ Byte = stream.bytes[index + 1]
  BY ByteType DEF TypeOK
<1>2. Len(recv) \in Nat /\ Len(recv) > 0 /\ at + Len(recv) - 1 = index
      /\ recv = SubSeq(stream.bytes, at, index)
  BY <1>1 DEF Contiguous
<1>3. Append(recv, Byte) = SubSeq(stream.bytes, at, index + 1)
  <2>1. at \in 1..Len(stream.bytes) /\ index + 1 \in at..Len(stream.bytes) /\ (index + 1) - 1 = index
    BY <1>1, <1>2
  <2>2. SubSeq(stream.bytes, at, index + 1) = SubSeq(stream.bytes, at, index) \o <<stream.bytes[index + 1]>>
    BY <1>1, <2>1, SubSeqRecursiveSecond
  <2>3. Append(recv, Byte) = recv \o <<Byte>>
    BY <1>1, AppendIsConcat
  <2>4. QED
    BY <1>1, <1>2, <2>2, <2>3
<1>4. QED
  BY <1>1, <1>2, <1>3

LEMMA TakeHeadByteCache ==
  ASSUME CacheInv, TakeHeadByte
  PROVE  CacheInv'
<1> USE DEF CacheInv
<1>1. /\ pc = "decode" /\ index < read /\ result # "OK" /\ find = 2 /\ Len(recv) < HeadLen
      /\ Len(recv) + 1 = HeadLen => LengthRight(Byte)
      /\ recv' = Append(recv, Byte)
      /\ length' = IF Len(recv) + 1 = HeadLen THEN Byte ELSE length
      /\ index' = index + 1
      /\ UNCHANGED <<stream, read, pc, find, result, at, reported, gone, alone>>
  BY DEF TakeHeadByte, HeadByte, Decoding, ghosts
<1>2. recv \in Seq(Nat) /\ Len(recv) >= 2 /\ at >= 1 /\ recv # << >>
  BY <1>1 DEF TypeOK, CacheFits, HeaderInv
<1>3. /\ recv' = SubSeq(stream.bytes, at, index + 1) /\ recv' \in Seq(Nat)
      /\ Len(recv') = Len(recv) + 1 /\ Len(recv) \in Nat
      /\ at + Len(recv') - 1 = index + 1
      /\ recv'[Len(recv) + 1] = Byte
      /\ \A i \in 1..Len(recv) : recv'[i] = recv[i]
  BY <1>1, <1>2, CacheGrowsByOne
<1>4. Byte \in Nat /\ index + 1 \in 0..read
  BY <1>1, ByteType
<1>5. TypeOK'
  BY <1>1, <1>3, <1>4 DEF TypeOK
<1>6. Contiguous'
  BY <1>1, <1>3 DEF Contiguous
<1>7. recv'[1] = Header[1] /\ recv'[2] = Header[2]
  <2>1. 1 \in 1..Len(recv) /\ 2 \in 1..Len(recv)
    BY <1>2, <1>3
  <2>2. QED
    BY <1>1, <1>3, <2>1 DEF HeaderInv
<1>8. Len(recv') >= HeadLen =>
        /\ Len(recv') = HeadLen /\ recv'[HeadLen] = Byte /\ length' = Byte
        /\ MinLen <= Byte /\ Byte <= LengthMax /\ HeadLen < MinLen
  BY <1>1, <1>3, <1>4, LengthsAssumption DEF LengthRight
<1>9. CacheFits' /\ HeaderInv'
  <2>1. Len(recv') >= HeadLen => Len(recv') < length' /\ length' <= LengthMax
    BY <1>4, <1>8, LengthsAssumption
  <2>2. Len(recv') >= HeadLen => recv'[HeadLen] = length' /\ length' >= MinLen
    BY <1>4, <1>8, LengthsAssumption
  <2>3. Len(recv') >= 2 /\ find' = 2
    BY <1>1, <1>2, <1>3
  <2>4. CacheFits'
    BY <2>1, <2>3 DEF CacheFits
  <2>5. find' # 1 /\ at' >= 1
    BY <1>1, <1>2
  <2>7. HeaderInv'
    BY <1>7, <2>2, <2>3, <2>5 DEF HeaderInv
  <2>6. QED
    BY <2>4, <2>7
<1>10. ResultInv'
  BY <1>1 DEF ResultInv
<1>11. QED
  BY <1>5, <1>6, <1>9, <1>10

LEMMA RejectLengthCache ==
  ASSUME CacheInv, RejectLength
  PROVE  CacheInv'
<1> USE DEF CacheInv
<1>1. /\ pc = "decode" /\ result # "OK" /\ find' = 0 /\ recv' = << >> /\ length' = 0
      /\ UNCHANGED <<stream, read, index, pc, result, at, reported, gone, alone>>
  BY DEF RejectLength, HeadByte, Decoding, ghosts
<1>2. TypeOK'
  BY <1>1 DEF TypeOK
<1>3. ResultInv'
  BY <1>1 DEF ResultInv
<1>4. QED
  BY <1>1, <1>2, <1>3, Emptied

LEMMA FrameDoneCache ==
  ASSUME CacheInv, FrameDone
  PROVE  CacheInv'
<1>1. /\ BodyBytes /\ read - index >= Missing
      /\ result' = "OK" /\ find' = 0 /\ recv' = << >>
      /\ UNCHANGED <<stream, read, index, pc, length, at, reported, gone, alone>>
  BY DEF FrameDone, Enough, ghosts
<1>2. /\ pc = "decode" /\ length \in MinLen..LengthMax /\ at >= 1
      /\ Missing \in Nat \ {0} /\ at + length - 1 = index + Missing
  BY <1>1, BodyFacts
<1>3. TypeOK'
  BY <1>1 DEF CacheInv, TypeOK
<1>4. index \in Nat /\ read \in Nat
  BY DEF CacheInv, TypeOK
<1>5. at + length - 1 <= read
  BY <1>1, <1>2, <1>4
<1>6. ResultInv'
  BY <1>1, <1>2, <1>5 DEF ResultInv
<1>7. QED
  BY <1>1, <1>3, <1>6, Emptied DEF CacheInv

LEMMA FrameDamagedCache ==
  ASSUME CacheInv, FrameDamaged
  PROVE  CacheInv'
<1> USE DEF CacheInv
<1>1. /\ pc = "decode" /\ result' = "CRC_ERROR" /\ find' = 0 /\ recv' = << >>
      /\ UNCHANGED <<stream, read, index, pc, length, at, reported, gone, alone>>
  BY DEF FrameDamaged, BodyBytes, Decoding, ghosts
<1>2. TypeOK'
  BY <1>1 DEF TypeOK
<1>3. ResultInv'
  BY <1>1 DEF ResultInv
<1>4. QED
  BY <1>1, <1>2, <1>3, Emptied

LEMMA FramePartCache ==
  ASSUME CacheInv, FramePart
  PROVE  CacheInv'
<1>1. /\ BodyBytes /\ ~(read - index >= Missing)
      /\ recv' = recv \o SubSeq(stream.bytes, index + 1, read)
      /\ index' = read
      /\ UNCHANGED <<stream, read, pc, find, length, result, at, reported, gone, alone>>
  BY DEF FramePart, Enough, ghosts
<1>2. /\ pc = "decode" /\ index < read /\ result # "OK" /\ find = 2
      /\ Len(recv) \in Nat /\ Len(recv) >= HeadLen /\ length \in MinLen..LengthMax
      /\ at >= 1 /\ Missing = length - Len(recv)
  BY <1>1, BodyFacts
<1>3. /\ index \in Nat /\ read \in Nat /\ read \in 0..Len(stream.bytes) /\ read <= Len(stream.bytes)
      /\ read >= index /\ recv # << >>
  <2>1. stream.bytes \in Seq(Nat) /\ read \in 0..Len(stream.bytes) /\ index \in 0..read
    BY DEF CacheInv, TypeOK
  <2>2. Len(stream.bytes) \in Nat
    BY <2>1
  <2>3. Len(recv) > 0
    BY <1>2, LengthsAssumption
  <2>4. QED
    BY <2>1, <2>2, <2>3
<1>4. /\ recv' = SubSeq(stream.bytes, at, read) /\ Len(recv') = Len(recv) + (read - index)
      /\ Len(recv) + (read - index) = read - at + 1
      /\ recv' \in Seq(Nat)
      /\ \A i \in 1..Len(recv) : recv'[i] = recv[i]
  BY <1>1, <1>2, <1>3, CacheGrows DEF CacheInv
<1>5. TypeOK'
  BY <1>1, <1>3, <1>4 DEF CacheInv, TypeOK
<1>6. at \in Nat
  BY DEF CacheInv, TypeOK
<1>7. at + Len(recv') - 1 = read
  BY <1>3, <1>4, <1>6
<1>8. Contiguous'
  BY <1>1, <1>4, <1>7 DEF Contiguous
<1>9. HeadLen \in 1..Len(recv) /\ 1 \in 1..Len(recv) /\ 2 \in 1..Len(recv)
  BY <1>2, LengthsAssumption
<1>10. recv'[1] = Header[1] /\ recv'[2] = Header[2] /\ recv'[HeadLen] = length /\ length >= MinLen
  BY <1>2, <1>4, <1>9 DEF CacheInv, HeaderInv
<1>11. Len(recv') < length /\ Len(recv') >= 2 /\ length <= LengthMax
  BY <1>1, <1>2, <1>3, <1>4, LengthsAssumption
<1>12. CacheFits' /\ HeaderInv'
  <2>1. find' = 2 /\ at' >= 1 /\ length' = length
    BY <1>1, <1>2
  <2>2. CacheFits'
    BY <1>11, <2>1 DEF CacheFits
  <2>3. HeaderInv'
    BY <1>10, <2>1 DEF HeaderInv
  <2>4. QED
    BY <2>2, <2>3
<1>13. ResultInv'
  BY <1>1, <1>2 DEF ResultInv
<1>14. QED
  BY <1>5, <1>8, <1>12, <1>13 DEF CacheInv

LEMMA ReturnCache ==
  ASSUME CacheInv, Return
  PROVE  CacheInv'
<1> USE DEF CacheInv
<1>1. /\ pc = "decode" /\ pc' = "read" /\ (index < read => result = "OK")
      /\ reported' = IF result = "OK"
                       THEN Append(reported, [at |-> at, end |-> at + length - 1, crc |-> TRUE])
                       ELSE reported
      /\ UNCHANGED <<stream, read, index, result, at, alone>>
  BY DEF Return, Decoding
<1>2. reported' \in Seq(Span)
  <2>1. reported \in Seq(Span) /\ at \in Nat /\ length \in Nat
    BY DEF TypeOK
  <2>2. CASE result = "OK"
    <3>1. at + length - 1 \in Nat
      BY <1>1, <2>1, <2>2, LengthsAssumption DEF ResultInv
    <3>2. [at |-> at, end |-> at + length - 1, crc |-> TRUE] \in Span
      BY <2>1, <3>1 DEF Span
    <3>3. QED
      BY <1>1, <2>1, <2>2, <3>2
  <2>3. CASE result # "OK"
    BY <1>1, <2>1, <2>3
  <2>4. QED
    BY <2>2, <2>3
<1>3. gone' \in 0..Len(stream.frames)
  <2>1. stream.frames \in Seq(Span) /\ gone \in 0..Len(stream.frames)
    BY DEF TypeOK
  <2>2. gone' \in {gone, OverBy(at - 1), OverBy(read)}
    BY DEF Return, AtLeast
  <2>3. QED
    BY <2>1, <2>2, CountType
<1>4. CASE result = "ERROR" /\ find > 0
  <2>1. UNCHANGED <<find, recv, length>> /\ index = read
    <3>1. ~(index < read) /\ UNCHANGED <<find, recv, length>>
      BY <1>1, <1>4 DEF Return, cache
    <3>2. QED
      BY <3>1 DEF TypeOK
  <2>2. TypeOK'
    BY <1>1, <1>2, <1>3, <2>1 DEF TypeOK
  <2>3. CacheFits' /\ Contiguous' /\ HeaderInv'
    BY <1>1, <2>1 DEF CacheFits, Contiguous, HeaderInv
  <2>4. ResultInv'
    BY <1>1, <2>1 DEF ResultInv
  <2>5. QED
    BY <2>2, <2>3, <2>4
<1>5. CASE ~(result = "ERROR" /\ find > 0)
  <2>1. find' = 0 /\ recv' = << >> /\ length' = 0
    BY <1>5 DEF Return
  <2>2. TypeOK'
    BY <1>1, <1>2, <1>3, <2>1 DEF TypeOK
  <2>3. ResultInv'
    BY <1>1, <2>1 DEF ResultInv
  <2>4. QED
    BY <1>1, <2>1, <2>2, <2>3, Emptied
<1>6. QED
  BY <1>4, <1>5

LEMMA CacheInit == Init => CacheInv
<1> SUFFICES ASSUME Init
             PROVE  CacheInv
  OBVIOUS
<1>1. stream.bytes \in Seq(Nat) /\ stream.frames \in Seq(Span)
  BY StreamsAssumption DEF Init
<1>2. Len(stream.bytes) \in Nat /\ Len(stream.frames) \in Nat
  BY <1>1
<1>3. TypeOK
  BY <1>1, <1>2 DEF Init, TypeOK
<1>4. Contiguous
  BY EmptyCache DEF Init, Contiguous
<1>5. Len(recv) = 0 /\ ~(0 >= HeadLen)
  BY LengthsAssumption DEF Init
<1>6. CacheFits /\ HeaderInv /\ ResultInv
  BY <1>5 DEF Init, CacheFits, HeaderInv, ResultInv
<1>7. QED
  BY <1>3, <1>4, <1>6 DEF CacheInv

LEMMA CacheNext == CacheInv /\ [Next]_vars => CacheInv'
<1>1. ASSUME CacheInv, Next
      PROVE  CacheInv'
  BY <1>1, ReadCache, FindHeaderCache, MissHeaderCache, TakeHeadByteCache, RejectLengthCache,
     FrameDoneCache, FrameDamagedCache, FramePartCache, ReturnCache DEF Next, Decode
<1>2. CacheInv /\ UNCHANGED vars => CacheInv'
  BY DEF vars, cache, CacheInv, TypeOK, CacheFits, Contiguous, HeaderInv, ResultInv
<1>3. QED
  BY <1>1, <1>2

LEMMA CacheInvariant == Spec => []CacheInv
BY CacheInit, CacheNext, PTL DEF Spec

(* Reads and positions stay within the stream, the cache holds bytes, and
   nothing is reported that is no span of it (UpgradeProtocol.c:333-440). *)
THEOREM DecoderTypeCorrect == Spec => []TypeOK
BY CacheInvariant, PTL DEF CacheInv

(* RecvData never outgrows the frame it is for, nor the frame RecvData, and
   the unsigned number of bytes still missing never wraps, whatever bytes
   arrive and however they are cut (UpgradeProtocol.c:397-422). *)
THEOREM CacheAlwaysFits == Spec => []CacheFits
BY CacheInvariant, PTL DEF CacheInv

(* RecvData is one piece of the stream, across reads, bad lengths and CRC
   errors (UpgradeProtocol.c:363-423). *)
THEOREM CacheIsContiguous == Spec => []Contiguous
BY CacheInvariant, PTL DEF CacheInv

-----------------------------------------------------------------------------
(* What is reported. *)

(* Every report is of a frame that is in the stream as it is reported, byte
   for byte, and no byte of the stream is in two of them: remains of a damaged
   frame, or of one already reported, are in the cache again when the search
   for a header is restarted, but never make a frame together with bytes that
   did not follow them (UpgradeProtocol.c:363-430). *)
OnlyFramesReported ==
  /\ \A k \in DOMAIN reported :
       /\ reported[k].at >= 1 /\ reported[k].end <= read
       /\ IsFrame(SubSeq(stream.bytes, reported[k].at, reported[k].end))
  /\ \A j, k \in DOMAIN reported : j < k => reported[j].end < reported[k].at

(* The first byte that may belong to a frame reported from now on. *)
From ==
  IF find > 0 \/ (pc = "decode" /\ result = "OK") THEN at
  ELSE IF pc = "read" THEN read + 1 ELSE index + 1

ReportsInv ==
  /\ OnlyFramesReported
  /\ \A k \in DOMAIN reported : reported[k].end < From
  /\ pc = "decode" /\ result = "OK" => IsFrame(SubSeq(stream.bytes, at, at + length - 1))

(* A step that reports nothing and does not go back. *)
LEMMA NothingReported ==
  ASSUME TypeOK, ReportsInv, UNCHANGED <<stream, reported>>, read' \in Nat, read' >= read,
         From' \in Nat, From' >= From, ~(pc' = "decode" /\ result' = "OK")
  PROVE  ReportsInv'
<1>1. read \in Nat /\ reported \in Seq(Span) /\ \A k \in DOMAIN reported : reported[k].end \in Nat
  <2>1. stream.bytes \in Seq(Nat) /\ reported \in Seq(Span) /\ read \in 0..Len(stream.bytes)
    BY DEF TypeOK
  <2>2. \A k \in DOMAIN reported : reported[k] \in Span
    BY <2>1
  <2>3. QED
    BY <2>1, <2>2 DEF Span
<1>2. From \in Nat
  BY DEF From, TypeOK
<1>3. \A k \in DOMAIN reported : reported[k].end <= read' /\ reported[k].end < From'
  BY <1>1, <1>2 DEF ReportsInv, OnlyFramesReported
<1>4. OnlyFramesReported'
  BY <1>3 DEF ReportsInv, OnlyFramesReported
<1>5. QED
  BY <1>3, <1>4 DEF ReportsInv

(* Where From is. *)
LEMMA FromFacts ==
  ASSUME CacheInv
  PROVE  /\ index \in Nat /\ read \in Nat /\ at \in Nat /\ index <= read
         /\ find > 0 => at <= index
         /\ find = 1 => at = index
         /\ find \in 0..2
<1>1. /\ index \in 0..read /\ read \in 0..Len(stream.bytes) /\ at \in 0..read /\ find \in 0..2
      /\ recv \in Seq(Nat) /\ stream.bytes \in Seq(Nat)
  BY DEF CacheInv, TypeOK
<1>2. Len(stream.bytes) \in Nat /\ Len(recv) \in Nat
  BY <1>1
<1>3. find = 1 => at = index
  BY DEF CacheInv, HeaderInv
<1>4. find = 2 => Len(recv) >= 2 /\ recv # << >>
  BY <1>1, LengthsAssumption DEF CacheInv, CacheFits
<1>5. find = 2 => at <= index
  BY <1>1, <1>2, <1>4 DEF CacheInv, Contiguous
<1>6. QED
  BY <1>1, <1>2, <1>3, <1>5

(* What has been put together is in the stream where it would be reported. *)
LEMMA FrameIs ==
  ASSUME CacheInv, BodyBytes, Enough
  PROVE  /\ Frame = SubSeq(stream.bytes, at, at + length - 1) /\ Len(Frame) = length
         /\ Frame[1] = Header[1] /\ Frame[2] = Header[2] /\ Frame[HeadLen] = length
         /\ length \in MinLen..LengthMax
<1>1. /\ Len(recv) \in Nat /\ Len(recv) >= HeadLen /\ length \in MinLen..LengthMax
      /\ at >= 1 /\ at + Len(recv) - 1 = index /\ find = 2
      /\ Missing = length - Len(recv) /\ Missing \in Nat \ {0}
      /\ at + length - 1 = index + Missing
  BY BodyFacts
<1>2. index \in Nat /\ read \in Nat /\ at \in Nat /\ Len(stream.bytes) \in Nat /\ read <= Len(stream.bytes)
  <2>1. stream.bytes \in Seq(Nat) /\ read \in 0..Len(stream.bytes)
    BY DEF CacheInv, TypeOK
  <2>2. QED
    BY <2>1, FromFacts
<1>3. PICK n \in Nat : n = index + Missing
  <2>1. \A m \in Nat \ {0} : index + m \in Nat
    BY <1>2
  <2>2. QED
    BY <1>1, <2>1
<1>4. n >= index /\ n <= Len(stream.bytes) /\ at + length - 1 = n
  BY <1>1, <1>2, <1>3 DEF Enough
<1>5. recv # << >>
  BY <1>1, LengthsAssumption
<1>6. /\ Frame = SubSeq(stream.bytes, at, n) /\ Len(Frame) = Len(recv) + (n - index)
      /\ \A i \in 1..Len(recv) : Frame[i] = recv[i]
  BY <1>1, <1>3, <1>4, <1>5, CacheGrows DEF CacheInv, Frame
<1>7. Len(Frame) = length
  BY <1>1, <1>2, <1>3, <1>6
<1>8. HeadLen \in 1..Len(recv) /\ 1 \in 1..Len(recv) /\ 2 \in 1..Len(recv)
  BY <1>1, LengthsAssumption
<1>9. Frame[1] = Header[1] /\ Frame[2] = Header[2] /\ Frame[HeadLen] = length
  BY <1>1, <1>6, <1>8 DEF CacheInv, HeaderInv
<1>10. QED
  BY <1>1, <1>4, <1>6, <1>7, <1>9

LEMMA FrameInStream ==
  ASSUME CacheInv, BodyBytes, Enough, FrameSearch(Frame)
  PROVE  IsFrame(SubSeq(stream.bytes, at, at + length - 1))
BY FrameIs DEF IsFrame

LEMMA TurnReports ==
  ASSUME CacheInv, ReportsInv, Decode, ~Return
  PROVE  ReportsInv'
<1>1. /\ pc = "decode" /\ pc' = "decode" /\ index < read /\ result # "OK"
      /\ UNCHANGED <<stream, read, reported>>
  BY DEF Decode, FindHeader, MissHeader, TakeHeadByte, RejectLength, FrameDone, FrameDamaged,
         FramePart, HeadByte, BodyBytes, Decoding, ghosts
<1>2. /\ index \in Nat /\ read \in Nat /\ at \in Nat /\ index <= read /\ find \in 0..2
      /\ find > 0 => at <= index
      /\ find = 1 => at = index
  BY FromFacts
<1>3. TypeOK
  BY DEF CacheInv
<1>4. CASE FindHeader
  <2>1. /\ index' = index + 1 /\ result' = result /\ find' = find + 1
        /\ at' = IF find = 0 THEN index + 1 ELSE at
    BY <1>4 DEF FindHeader
  <2>2. From' \in Nat /\ From' >= From
    BY <1>1, <1>2, <2>1 DEF From
  <2>3. QED
    BY <1>1, <1>2, <1>3, <2>1, <2>2, NothingReported
<1>5. CASE MissHeader
  <2>1. index' = index + 1 /\ result' = result /\ find' = 0
    BY <1>5 DEF MissHeader
  <2>2. From' \in Nat /\ From' >= From
    BY <1>1, <1>2, <2>1 DEF From
  <2>3. QED
    BY <1>1, <1>2, <1>3, <2>1, <2>2, NothingReported
<1>6. CASE TakeHeadByte \/ FramePart
  <2>1. find > 0 /\ find' = find /\ at' = at /\ result' = result
    BY <1>6 DEF TakeHeadByte, FramePart, HeadByte, BodyBytes, ghosts
  <2>2. From' = From /\ From \in Nat
    BY <1>2, <2>1 DEF From
  <2>3. QED
    BY <1>1, <1>2, <1>3, <2>1, <2>2, NothingReported
<1>7. CASE RejectLength \/ FrameDamaged
  <2>1. find > 0 /\ find' = 0 /\ index' = index /\ result' # "OK"
    BY <1>1, <1>7 DEF RejectLength, FrameDamaged, HeadByte, BodyBytes
  <2>2. From' \in Nat /\ From' >= From
    BY <1>1, <1>2, <2>1 DEF From
  <2>3. QED
    BY <1>1, <1>2, <1>3, <2>1, <2>2, NothingReported
<1>8. CASE FrameDone
  <2>1. find > 0 /\ result' = "OK" /\ at' = at /\ length' = length
    BY <1>8 DEF FrameDone, BodyBytes, ghosts
  <2>2. From' = From
    BY <1>1, <2>1 DEF From
  <2>3. IsFrame(SubSeq(stream.bytes, at, at + length - 1))
    BY <1>8, FrameInStream DEF FrameDone
  <2>4. QED
    BY <1>1, <2>1, <2>2, <2>3 DEF ReportsInv, OnlyFramesReported, IsFrame, FrameSearch
<1>9. QED
  BY <1>4, <1>5, <1>6, <1>7, <1>8 DEF Decode

LEMMA ReadReports ==
  ASSUME CacheInv, ReportsInv, Read
  PROVE  ReportsInv'
<1>1. PICK n \in 1..ReadMax :
        /\ pc = "read" /\ read' = read + n /\ index' = read /\ pc' = "decode" /\ result' = "ERROR"
        /\ UNCHANGED <<stream, find, at, reported>>
  BY DEF Read, cache
<1>2. /\ index \in Nat /\ read \in Nat /\ at \in Nat /\ find \in 0..2 /\ n \in Nat
  BY FromFacts, LengthsAssumption
<1>3. read' \in Nat /\ read' >= read /\ From' \in Nat /\ From' >= From
  BY <1>1, <1>2 DEF From
<1>4. QED
  BY <1>1, <1>3, NothingReported DEF CacheInv

LEMMA ReturnReports ==
  ASSUME CacheInv, ReportsInv, Return
  PROVE  ReportsInv'
<1>1. /\ pc = "decode" /\ pc' = "read"
      /\ UNCHANGED <<stream, read, result, at>>
  BY DEF Return
<1>2. /\ index \in Nat /\ read \in Nat /\ at \in Nat /\ index <= read /\ find \in 0..2
      /\ find > 0 => at <= index
  BY FromFacts
<1>3. CASE result # "OK"
  <2>1. reported' = reported /\ (find' = find \/ find' = 0)
    BY <1>3 DEF Return, cache
  <2>2. From' \in Nat /\ From' >= From
    BY <1>1, <1>2, <1>3, <2>1 DEF From
  <2>3. QED
    BY <1>1, <1>2, <2>1, <2>2, NothingReported DEF CacheInv
<1>4. CASE result = "OK"
  <2>1. PICK f \in Span : f = [at |-> at, end |-> at + length - 1, crc |-> TRUE]
    <3>1. length \in MinLen..LengthMax /\ at >= 1
      BY <1>1, <1>4 DEF CacheInv, ResultInv
    <3>2. at + length - 1 \in Nat
      BY <1>2, <3>1, LengthsAssumption
    <3>3. QED
      BY <1>2, <3>2 DEF Span
  <2>2. reported' = Append(reported, f) /\ find' = 0
    BY <1>4, <2>1 DEF Return
  <2>3. /\ f.at = at /\ f.at >= 1 /\ f.end \in Nat /\ f.end <= read
        /\ IsFrame(SubSeq(stream.bytes, f.at, f.end))
    BY <1>1, <1>4, <2>1 DEF CacheInv, ResultInv, ReportsInv, Span
  <2>4. reported \in Seq(Span) /\ Len(reported) \in Nat
    BY DEF CacheInv, TypeOK
  <2>5. \A k \in DOMAIN reported : /\ reported[k].end < at /\ reported[k].end \in Nat
                                   /\ reported[k].end <= read
    <3>1. \A k \in DOMAIN reported : reported[k] \in Span
      BY <2>4
    <3>2. From = at
      BY <1>1, <1>4 DEF From
    <3>3. QED
      BY <3>1, <3>2 DEF ReportsInv, OnlyFramesReported, Span
  <2>6. /\ DOMAIN reported' = 1..(Len(reported) + 1)
        /\ reported'[Len(reported) + 1] = f
        /\ \A k \in 1..Len(reported) : k \in DOMAIN reported /\ reported'[k] = reported[k]
    BY <2>2, <2>4
  <2>7. \A k \in DOMAIN reported' : k \in 1..Len(reported) \/ k = Len(reported) + 1
    BY <2>4, <2>6
  <2>8. From' = read + 1
    BY <1>1, <2>2 DEF From
  <2>9. \A k \in DOMAIN reported' : reported'[k].end < From'
    BY <1>2, <2>3, <2>5, <2>6, <2>7, <2>8
  <2>10. \A k \in DOMAIN reported' :
           /\ reported'[k].at >= 1 /\ reported'[k].end <= read
           /\ IsFrame(SubSeq(stream.bytes, reported'[k].at, reported'[k].end))
    BY <2>3, <2>6, <2>7 DEF ReportsInv, OnlyFramesReported
  <2>11. ASSUME NEW j \in DOMAIN reported', NEW k \in DOMAIN reported', j < k
         PROVE  reported'[j].end < reported'[k].at
    <3>1. j \in 1..Len(reported)
      BY <2>4, <2>6, <2>7, <2>11
    <3>2. CASE k \in 1..Len(reported)
      BY <2>6, <2>11, <3>1, <3>2 DEF ReportsInv, OnlyFramesReported
    <3>3. CASE k = Len(reported) + 1
      BY <2>3, <2>5, <2>6, <3>1, <3>3
    <3>4. QED
      BY <2>7, <3>2, <3>3
  <2>12. OnlyFramesReported'
    BY <1>1, <2>10, <2>11 DEF OnlyFramesReported, IsFrame, FrameSearch
  <2>13. QED
    BY <1>1, <2>9, <2>12 DEF ReportsInv
<1>5. QED
  BY <1>3, <1>4

LEMMA ReportsInvariant == Spec => []ReportsInv
<1>1. Init => ReportsInv
  BY DEF Init, ReportsInv, OnlyFramesReported
<1>2. CacheInv /\ ReportsInv /\ Next => ReportsInv'
  BY ReadReports, TurnReports, ReturnReports DEF Next
<1>3. ReportsInv /\ UNCHANGED vars => ReportsInv'
  <2>1. UNCHANGED vars => UNCHANGED <<From, OnlyFramesReported>>
    BY DEF vars, cache, OnlyFramesReported, From
  <2>2. QED
    BY <2>1 DEF vars, cache, ReportsInv
<1>4. QED
  BY <1>1, <1>2, <1>3, CacheInvariant, PTL DEF Spec

(* The decoder never makes a frame of bytes that did not arrive as one: header,
   length and CRC are those of consecutive bytes of the stream, and two
   reported frames share none (UpgradeProtocol.c:333-440). *)
THEOREM ReportsAreFrames == Spec => []OnlyFramesReported
BY ReportsInvariant, PTL DEF ReportsInv

-----------------------------------------------------------------------------
(* The turns of the loop that are left at most when it is at index: a turn
   that does not move on gives up the header it had found. *)
TurnsLeft == 2 * (read - index) + (IF find = 2 THEN 1 ELSE 0)

(* No turn of the loop is in vain (UpgradeProtocol.c:391, 406). *)
TurnsRunOut == [][pc = "decode" /\ pc' = "decode" => TurnsLeft' \in 0..(TurnsLeft - 1)]_vars

LEMMA TurnCounts ==
  ASSUME CacheInv, CacheInv', Next, pc = "decode", pc' = "decode"
  PROVE  TurnsLeft' \in 0..(TurnsLeft - 1)
<1>1. /\ index \in Nat /\ read \in Nat /\ index <= read /\ find \in 0..2
  BY FromFacts
<1>2. /\ index' \in Nat /\ read' \in Nat /\ index' <= read' /\ find' \in 0..2
  BY DEF CacheInv, TypeOK
<1>3. CASE FindHeader \/ MissHeader \/ TakeHeadByte
  <2>1. index' = index + 1 /\ read' = read
    BY <1>3 DEF FindHeader, MissHeader, TakeHeadByte
  <2>2. QED
    BY <1>1, <1>2, <2>1 DEF TurnsLeft
<1>4. CASE RejectLength \/ FrameDone \/ FrameDamaged
  <2>1. index' = index /\ read' = read /\ find = 2 /\ find' = 0
    BY <1>4 DEF RejectLength, FrameDone, FrameDamaged, HeadByte, BodyBytes
  <2>2. QED
    BY <1>1, <1>2, <2>1 DEF TurnsLeft
<1>5. CASE FramePart
  BY <1>1, <1>2, <1>5 DEF FramePart, BodyBytes, Decoding, TurnsLeft
<1>6. CASE Read \/ Return
  BY <1>6 DEF Read, Return
<1>7. QED
  BY <1>3, <1>4, <1>5, <1>6 DEF Next, Decode

(* Every turn of the decoder's loop uses up one of at most 2n + 1 turns for a
   read of n bytes: although a bad length and a damaged frame go on with the
   byte already seen, the loop cannot go on for ever
   (UpgradeProtocol.c:363-430). *)
THEOREM LoopRunsOut == Spec => TurnsRunOut
<1>1. CacheInv /\ CacheInv' /\ [Next]_vars
        => [pc = "decode" /\ pc' = "decode" => TurnsLeft' \in 0..(TurnsLeft - 1)]_vars
  BY TurnCounts
<1>2. QED
  BY <1>1, CacheInvariant, PTL DEF Spec, TurnsRunOut

-----------------------------------------------------------------------------
(* How the frames lie in the stream. *)

LEMMA Framed ==
  ASSUME stream \in Streams
  PROVE  /\ stream.bytes \in Seq(Nat) /\ Len(stream.bytes) \in Nat
         /\ DOMAIN stream.bytes = 1..Len(stream.bytes)
         /\ stream.frames \in Seq(Span) /\ Len(stream.frames) \in Nat
         /\ DOMAIN stream.frames = 1..Len(stream.frames)
         /\ \A k \in DOMAIN stream.frames :
              /\ stream.frames[k] \in Span
              /\ stream.frames[k].at \in Nat /\ stream.frames[k].end \in Nat
              /\ stream.frames[k].crc \in BOOLEAN
              /\ 1 <= stream.frames[k].at /\ stream.frames[k].at <= stream.frames[k].end
              /\ stream.frames[k].end <= Len(stream.bytes)
              /\ stream.frames[k].crc =>
                   IsFrame(SubSeq(stream.bytes, stream.frames[k].at, stream.frames[k].end))
         /\ \A j, k \in DOMAIN stream.frames : j < k => stream.frames[j].end < stream.frames[k].at
         /\ \A p \in 1..Len(stream.bytes) :
              \E k \in DOMAIN stream.frames : stream.frames[k].at <= p /\ p <= stream.frames[k].end
<1>1. stream.bytes \in Seq(Nat) /\ stream.frames \in Seq(Span)
  BY StreamsAssumption
<1>2. /\ Len(stream.bytes) \in Nat /\ DOMAIN stream.bytes = 1..Len(stream.bytes)
      /\ Len(stream.frames) \in Nat /\ DOMAIN stream.frames = 1..Len(stream.frames)
  BY <1>1
<1>3. \A k \in DOMAIN stream.frames :
        /\ stream.frames[k] \in Span
        /\ stream.frames[k].at \in Nat /\ stream.frames[k].end \in Nat
        /\ stream.frames[k].crc \in BOOLEAN
  <2>1. \A k \in DOMAIN stream.frames : stream.frames[k] \in Span
    BY <1>1
  <2>2. QED
    BY <2>1 DEF Span
<1>4. \A k \in DOMAIN stream.frames :
        /\ 1 <= stream.frames[k].at /\ stream.frames[k].at <= stream.frames[k].end
        /\ stream.frames[k].end <= Len(stream.bytes)
        /\ stream.frames[k].crc =>
             IsFrame(SubSeq(stream.bytes, stream.frames[k].at, stream.frames[k].end))
  BY StreamsAssumption
<1>5. \A j, k \in DOMAIN stream.frames : j < k => stream.frames[j].end < stream.frames[k].at
  BY StreamsAssumption
<1>6. \A p \in DOMAIN stream.bytes :
        \E k \in DOMAIN stream.frames : stream.frames[k].at <= p /\ p <= stream.frames[k].end
  BY StreamsAssumption
<1>7. QED
  BY <1>1, <1>2, <1>3, <1>4, <1>5, <1>6

(* A later frame lies behind an earlier one. *)
LEMMA InOrder ==
  ASSUME stream \in Streams, NEW j \in DOMAIN stream.frames, NEW k \in DOMAIN stream.frames
  PROVE  /\ stream.frames[j].at <= stream.frames[k].end => j <= k
         /\ j <= k => /\ stream.frames[j].end <= stream.frames[k].end
                      /\ stream.frames[j].at <= stream.frames[k].at
<1>1. /\ j \in Nat /\ k \in Nat
      /\ stream.frames[j].at \in Nat /\ stream.frames[j].end \in Nat
      /\ stream.frames[k].at \in Nat /\ stream.frames[k].end \in Nat
      /\ stream.frames[j].at <= stream.frames[j].end /\ stream.frames[k].at <= stream.frames[k].end
      /\ j < k => stream.frames[j].end < stream.frames[k].at
      /\ k < j => stream.frames[k].end < stream.frames[j].at
  BY Framed
<1>2. j = k \/ j < k \/ k < j
  BY <1>1
<1>3. QED
  BY <1>1, <1>2

(* The first frame begins with the stream, every other where one has ended. *)
LEMMA Adjacent ==
  ASSUME stream \in Streams, NEW k \in DOMAIN stream.frames
  PROVE  /\ k = 1 => stream.frames[k].at = 1
         /\ k > 1 => /\ k - 1 \in DOMAIN stream.frames
                     /\ stream.frames[k - 1].end = stream.frames[k].at - 1
<1>1. /\ k \in Nat \ {0} /\ k <= Len(stream.frames) /\ Len(stream.frames) \in Nat
      /\ DOMAIN stream.frames = 1..Len(stream.frames)
      /\ stream.frames[k].at \in Nat /\ 1 <= stream.frames[k].at
      /\ stream.frames[k].end \in Nat /\ stream.frames[k].at <= stream.frames[k].end
      /\ stream.frames[k].end <= Len(stream.bytes) /\ Len(stream.bytes) \in Nat
  BY Framed
<1>2. ASSUME stream.frames[k].at > 1
      PROVE  /\ k - 1 \in DOMAIN stream.frames
             /\ stream.frames[k - 1].end = stream.frames[k].at - 1
  <2>1. PICK p \in 1..Len(stream.bytes) : p = stream.frames[k].at - 1
    BY <1>1, <1>2
  <2>2. PICK j \in DOMAIN stream.frames : stream.frames[j].at <= p /\ p <= stream.frames[j].end
    BY <2>1, Framed
  <2>3. j \in Nat \ {0} /\ stream.frames[j].at \in Nat /\ stream.frames[j].end \in Nat
    BY Framed
  <2>4. j < k
    <3>1. j <= k
      BY <1>1, <2>1, <2>2, <2>3, InOrder
    <3>2. j # k
      BY <1>1, <2>1, <2>2
    <3>3. QED
      BY <1>1, <2>3, <3>1, <3>2
  <2>5. stream.frames[j].end < stream.frames[k].at
    BY <2>4, Framed
  <2>6. PICK i \in DOMAIN stream.frames : i = k - 1 /\ j <= i /\ i < k
    BY <1>1, <2>3, <2>4
  <2>7. stream.frames[i].end < stream.frames[k].at /\ stream.frames[i].end \in Nat
    BY <2>6, Framed
  <2>8. stream.frames[j].end <= stream.frames[i].end
    BY <2>6, InOrder
  <2>9. stream.frames[i].end = stream.frames[k].at - 1
    <3>1. \A x, y \in Nat : p <= x /\ x <= y /\ y < stream.frames[k].at => y = p
      BY <1>1, <2>1
    <3>2. QED
      BY <2>1, <2>2, <2>3, <2>7, <2>8, <3>1
  <2>10. QED
    BY <2>6, <2>9
<1>3. k > 1 => stream.frames[k].at > 1
  <2>1. SUFFICES ASSUME k > 1
                 PROVE  stream.frames[k].at > 1
    OBVIOUS
  <2>2. 1 \in DOMAIN stream.frames
    BY <1>1
  <2>3. stream.frames[1].end < stream.frames[k].at /\ stream.frames[1].end \in Nat
        /\ 1 <= stream.frames[1].at /\ stream.frames[1].at \in Nat
        /\ stream.frames[1].at <= stream.frames[1].end
    BY <2>1, <2>2, Framed
  <2>4. QED
    BY <1>1, <2>3
<1>4. k = 1 => ~(stream.frames[k].at > 1)
  BY <1>1, <1>2
<1>5. QED
  BY <1>1, <1>2, <1>3, <1>4

(* What is found of a frame at the place where it lies. *)
LEMMA FrameAt ==
  ASSUME NEW b \in Seq(Nat), NEW p \in Nat \ {0}, NEW q \in Nat, q <= Len(b),
         IsFrame(SubSeq(b, p, q))
  PROVE  /\ (q - p) + 1 \in MinLen..LengthMax /\ p + HeadLen <= q
         /\ b[p] = Header[1] /\ b[p + 1] = Header[2]
         /\ b[(p + HeadLen) - 1] = (q - p) + 1
<1> DEFINE f == SubSeq(b, p, q)
<1>1. Len(f) \in MinLen..LengthMax /\ f[1] = Header[1] /\ f[2] = Header[2] /\ f[HeadLen] = Len(f)
  BY DEF IsFrame
<1>2. HeadLen \in Nat /\ 2 < HeadLen /\ HeadLen < MinLen /\ MinLen \in Nat /\ LengthMax \in Nat
  BY LengthsAssumption
<1>3. Len(b) \in Nat /\ f \in Seq(Nat)
  OBVIOUS
<1>4. p <= q
  <2>1. ~(p <= q) => f = << >>
    BY SubSeqEmpty
  <2>2. Len(<< >>) = 0
    OBVIOUS
  <2>3. QED
    BY <1>1, <1>2, <2>1, <2>2
<1>5. /\ Len(f) = (q - p) + 1
      /\ \A i \in 1..((q - p) + 1) : f[i] = b[(p + i) - 1]
  <2>1. \A i \in p..q : b[i] \in Nat
    BY <1>3
  <2>2. QED
    BY <1>4, <2>1, SubSeqProperties
<1> HIDE DEF f
<1>6. 1 \in 1..((q - p) + 1) /\ 2 \in 1..((q - p) + 1) /\ HeadLen \in 1..((q - p) + 1)
  BY <1>1, <1>2, <1>5
<1>7. f[1] = b[p] /\ f[2] = b[p + 1] /\ f[HeadLen] = b[(p + HeadLen) - 1]
  <2>1. (p + 1) - 1 = p /\ (p + 2) - 1 = p + 1
    OBVIOUS
  <2>2. QED
    BY <1>5, <1>6, <2>1
<1>8. QED
  BY <1>1, <1>2, <1>5, <1>7

LEMMA GoodFrame ==
  ASSUME stream \in Streams, NEW k \in DOMAIN stream.frames, stream.frames[k].crc
  PROVE  LET a == stream.frames[k].at
             e == stream.frames[k].end
         IN  /\ a \in Nat \ {0} /\ e \in Nat
             /\ (e - a) + 1 \in MinLen..LengthMax /\ a + HeadLen <= e
             /\ stream.bytes[a] = Header[1] /\ stream.bytes[a + 1] = Header[2]
             /\ stream.bytes[(a + HeadLen) - 1] = (e - a) + 1
             /\ IsFrame(SubSeq(stream.bytes, a, e))
<1>1. /\ stream.bytes \in Seq(Nat)
      /\ stream.frames[k].at \in Nat /\ 1 <= stream.frames[k].at
      /\ stream.frames[k].end \in Nat /\ stream.frames[k].end <= Len(stream.bytes)
      /\ IsFrame(SubSeq(stream.bytes, stream.frames[k].at, stream.frames[k].end))
  BY Framed, Zenon
<1>2. stream.frames[k].at \in Nat \ {0}
  BY <1>1
<1>3. PICK b, p, q : b = stream.bytes /\ p = stream.frames[k].at /\ q = stream.frames[k].end
  OBVIOUS
<1>4. /\ b \in Seq(Nat) /\ p \in Nat \ {0} /\ q \in Nat /\ q <= Len(b)
      /\ IsFrame(SubSeq(b, p, q))
  BY <1>1, <1>2, <1>3, Zenon
<1>5. /\ (q - p) + 1 \in MinLen..LengthMax /\ p + HeadLen <= q
      /\ b[p] = Header[1] /\ b[p + 1] = Header[2]
      /\ b[(p + HeadLen) - 1] = (q - p) + 1
  BY <1>4, FrameAt
<1>6. QED
  BY <1>3, <1>4, <1>5

LEMMA StreamStays == Spec => [](stream \in Streams)
<1>1. stream \in Streams /\ [Next]_vars => (stream \in Streams)'
  BY DEF Next, Read, Decode, FindHeader, MissHeader, TakeHeadByte, RejectLength, FrameDone,
         FrameDamaged, FramePart, Return, vars
<1>2. QED
  BY <1>1, PTL DEF Spec, Init

(* A header that is where an undamaged frame begins is followed by the rest of
   that frame, and nothing in it makes the decoder look elsewhere. *)
LEMMA GoodCandidate ==
  ASSUME CacheInv, stream \in Streams, NEW k \in DOMAIN stream.frames, stream.frames[k].crc,
         find > 0, at = stream.frames[k].at
  PROVE  /\ index < stream.frames[k].end
         /\ ~MissHeader /\ ~RejectLength /\ ~FrameDamaged
         /\ Len(recv) >= HeadLen => at + length - 1 = stream.frames[k].end
<1> DEFINE a == stream.frames[k].at
           e == stream.frames[k].end
<1>1. /\ stream.bytes \in Seq(Nat) /\ Len(stream.bytes) \in Nat
      /\ a \in Nat \ {0} /\ e \in Nat /\ e <= Len(stream.bytes)
      /\ IsFrame(SubSeq(stream.bytes, a, e))
  BY Framed
<1>2. /\ (e - a) + 1 \in MinLen..LengthMax /\ a + HeadLen <= e
      /\ stream.bytes[a + 1] = Header[2]
      /\ stream.bytes[(a + HeadLen) - 1] = (e - a) + 1
  BY GoodFrame
<1>3. /\ index \in Nat /\ at \in Nat /\ find \in 0..2 /\ (find = 1 => at = index)
  BY FromFacts
<1>4. /\ recv \in Seq(Nat) /\ Len(recv) \in Nat /\ length \in Nat
  BY DEF CacheInv, TypeOK
<1>5. HeadLen \in Nat /\ 2 < HeadLen /\ MinLen \in Nat /\ LengthMax \in Nat
  BY LengthsAssumption
<1>6. find = 2 => Len(recv) >= 2 /\ at + Len(recv) - 1 = index
  <2>1. find = 2 => Len(recv) >= 2 /\ recv # << >>
    BY <1>4 DEF CacheInv, CacheFits
  <2>2. QED
    BY <1>3, <1>4, <2>1 DEF CacheInv, Contiguous
<1> HIDE DEF a, e
<1>7. at = a
  BY DEF a
<1>8. CASE find = 1
  <2>1. Byte = Header[2] /\ index < e
    BY <1>1, <1>2, <1>3, <1>5, <1>7, <1>8 DEF Byte
  <2>2. Len(recv) = 0
    BY <1>8 DEF CacheInv, CacheFits
  <2>3. ~MissHeader /\ ~RejectLength /\ ~FrameDamaged
    BY <1>8, <2>1 DEF MissHeader, RejectLength, FrameDamaged, HeadByte, BodyBytes
  <2>4. QED
    BY <1>5, <2>1, <2>2, <2>3 DEF e
<1>9. CASE find = 2
  <2>1. ~MissHeader
    BY <1>9 DEF MissHeader
  <2>2. CASE Len(recv) < HeadLen
    <3>1. index < e
      BY <1>1, <1>2, <1>3, <1>4, <1>5, <1>6, <1>7, <1>9, <2>2
    <3>2. ~RejectLength
      <4>1. SUFFICES ASSUME RejectLength
                     PROVE  FALSE
        OBVIOUS
      <4>2. Len(recv) + 1 = HeadLen /\ ~LengthRight(Byte)
        BY <4>1 DEF RejectLength
      <4>3. index + 1 = (a + HeadLen) - 1
        BY <1>1, <1>3, <1>4, <1>5, <1>6, <1>7, <1>9, <4>2
      <4>4. LengthRight(Byte)
        BY <1>2, <4>3 DEF Byte, LengthRight
      <4>5. QED
        BY <4>2, <4>4
    <3>3. ~FrameDamaged
      BY <1>4, <1>5, <2>2 DEF FrameDamaged, BodyBytes
    <3>4. QED
      BY <1>4, <1>5, <2>1, <2>2, <3>1, <3>2, <3>3 DEF e
  <2>3. CASE Len(recv) >= HeadLen
    <3>1. recv[HeadLen] = length /\ Len(recv) < length
      BY <2>3 DEF CacheInv, CacheFits, HeaderInv
    <3>2. recv[HeadLen] = stream.bytes[(a + HeadLen) - 1]
      <4>1. index <= Len(stream.bytes) /\ HeadLen \in 1..((index - at) + 1)
        <5>1. index \in 0..read /\ read \in 0..Len(stream.bytes)
          BY DEF CacheInv, TypeOK
        <5>2. (index - at) + 1 = Len(recv)
          <6>1. \A x, y, z \in Nat : x + y - 1 = z => (z - x) + 1 = y
            OBVIOUS
          <6>2. QED
            BY <1>3, <1>4, <1>6, <1>9, <6>1
        <5>3. HeadLen \in 1..Len(recv)
          BY <1>4, <1>5, <2>3
        <5>4. index <= Len(stream.bytes)
          BY <1>1, <1>3, <5>1
        <5>5. QED
          BY <5>2, <5>3, <5>4
      <4>2. \A i \in at..index : stream.bytes[i] \in Nat
        BY <1>1, <1>3, <1>7, <4>1
      <4>3. recv = SubSeq(stream.bytes, at, index)
        BY <1>6, <1>9 DEF CacheInv, Contiguous
      <4>4. \A i \in 1..((index - at) + 1) :
              SubSeq(stream.bytes, at, index)[i] = stream.bytes[(at + i) - 1]
        BY <1>3, <4>2, SubSeqProperties
      <4>5. QED
        BY <1>7, <4>1, <4>3, <4>4
    <3>3. length = (e - a) + 1
      BY <1>2, <3>1, <3>2
    <3>4. at + length - 1 = e /\ index < e
      BY <1>1, <1>3, <1>4, <1>6, <1>7, <1>9, <3>1, <3>3
    <3>5. ~RejectLength
      BY <1>4, <1>5, <2>3 DEF RejectLength, HeadByte
    <3>6. ~FrameDamaged
      <4>1. SUFFICES ASSUME BodyBytes, Enough
                     PROVE  FrameSearch(Frame)
        BY DEF FrameDamaged
      <4>2. Frame = SubSeq(stream.bytes, a, e)
        BY <1>7, <3>4, <4>1, FrameIs
      <4>3. QED
        BY <1>1, <4>2 DEF IsFrame, a, e
    <3>7. QED
      BY <2>1, <3>4, <3>5, <3>6 DEF e
  <2>4. QED
    BY <1>4, <1>5, <2>2, <2>3
<1>10. QED
  BY <1>3, <1>8, <1>9

(* Nor is its first byte passed over. *)
LEMMA FirstByteFound ==
  ASSUME CacheInv, stream \in Streams, NEW k \in DOMAIN stream.frames, stream.frames[k].crc,
         find = 0, index + 1 = stream.frames[k].at
  PROVE  ~MissHeader
<1>1. stream.bytes[index + 1] = Header[1]
  BY GoodFrame
<1>2. QED
  BY <1>1 DEF MissHeader, Byte

-----------------------------------------------------------------------------
(* Nothing was damaged in the first k frames. *)
Clean(k) == k \in DOMAIN stream.frames /\ \A j \in 1..k : stream.frames[j].crc

(* The decoder stands where frame f begins, or in it. *)
Expects(f) ==
  /\ From = f.at
  /\ pc = "read" => read < f.end
  /\ pc = "decode" => /\ read <= f.end /\ result # "CRC_ERROR"
                      /\ find = 0 /\ result = "ERROR" => index < read
  /\ pc = "decode" /\ result = "OK" => at + length - 1 = f.end

(* While nothing was damaged and every read held bytes of one frame, all
   frames up to the one the decoder expects have been reported. *)
SyncInv ==
  alone =>
    /\ \A k \in 1..Len(reported) : Clean(k) => reported[k] = stream.frames[k]
    /\ Clean(Len(reported) + 1) => Expects(stream.frames[Len(reported) + 1])

LEMMA TurnExpects ==
  ASSUME CacheInv, stream \in Streams, Decode, ~Return,
         NEW k \in DOMAIN stream.frames, stream.frames[k].crc, Expects(stream.frames[k])
  PROVE  Expects(stream.frames[k])'
<1>1. /\ pc = "decode" /\ pc' = "decode" /\ index < read /\ result # "OK"
      /\ UNCHANGED <<stream, read>>
  BY DEF Decode, FindHeader, MissHeader, TakeHeadByte, RejectLength, FrameDone, FrameDamaged,
         FramePart, HeadByte, BodyBytes, Decoding
<1>2. /\ index \in Nat /\ read \in Nat /\ at \in Nat /\ find \in 0..2
      /\ result \in {"OK", "ERROR", "CRC_ERROR"}
  BY FromFacts DEF CacheInv, TypeOK
<1>3. /\ From = stream.frames[k].at /\ read <= stream.frames[k].end /\ result = "ERROR"
  BY <1>1, <1>2 DEF Expects
<1>4. find > 0 => at = stream.frames[k].at
  BY <1>3 DEF From
<1>5. find = 0 => index + 1 = stream.frames[k].at
  BY <1>1, <1>3 DEF From
<1>6. ~MissHeader /\ (find > 0 => ~RejectLength /\ ~FrameDamaged)
  BY <1>2, <1>4, <1>5, GoodCandidate, FirstByteFound
<1>7. CASE FindHeader
  <2>1. find' > 0 /\ at' = stream.frames[k].at /\ result' = result
    BY <1>2, <1>4, <1>5, <1>7 DEF FindHeader
  <2>2. QED
    BY <1>1, <1>3, <2>1 DEF Expects, From
<1>8. CASE TakeHeadByte \/ FramePart
  <2>1. find = 2 /\ find' = 2 /\ at' = at /\ result' = result
    BY <1>8 DEF TakeHeadByte, FramePart, HeadByte, BodyBytes, ghosts
  <2>2. QED
    BY <1>1, <1>3, <1>4, <2>1 DEF Expects, From
<1>9. CASE RejectLength \/ FrameDamaged
  BY <1>6, <1>9 DEF RejectLength, FrameDamaged, HeadByte, BodyBytes
<1>10. CASE FrameDone
  <2>1. find = 2 /\ Len(recv) >= HeadLen /\ result' = "OK" /\ at' = at /\ length' = length
    BY <1>10 DEF FrameDone, BodyBytes, ghosts
  <2>2. at + length - 1 = stream.frames[k].end
    BY <1>4, <2>1, GoodCandidate
  <2>3. QED
    BY <1>1, <1>3, <1>4, <2>1, <2>2 DEF Expects, From
<1>11. QED
  BY <1>6, <1>7, <1>8, <1>9, <1>10 DEF Decode

LEMMA ReadExpects ==
  ASSUME CacheInv, stream \in Streams, Read, alone',
         NEW k \in DOMAIN stream.frames, Expects(stream.frames[k])
  PROVE  Expects(stream.frames[k])'
<1>1. PICK n \in 1..ReadMax :
        /\ pc = "read" /\ read + n <= Len(stream.bytes) /\ read' = read + n
        /\ index' = read /\ pc' = "decode" /\ result' = "ERROR"
        /\ \A j \in DOMAIN stream.frames : stream.frames[j].at \notin (read + 2)..(read + n)
        /\ UNCHANGED <<stream, find, at>>
  BY DEF Read, cache
<1>2. n \in Nat \ {0} /\ read \in Nat
  BY LengthsAssumption, FromFacts
<1>3. /\ stream.frames[k].end \in Nat /\ Len(stream.bytes) \in Nat /\ k \in Nat
  BY Framed
<1>4. read < stream.frames[k].end /\ From = stream.frames[k].at
  BY <1>1 DEF Expects
<1>5. From' = From
  BY <1>1 DEF From
<1>6. read' <= stream.frames[k].end
  <2>1. SUFFICES ASSUME stream.frames[k].end < read + n
                 PROVE  FALSE
    BY <1>1, <1>2, <1>3
  <2>2. PICK p \in 1..Len(stream.bytes) : p = stream.frames[k].end + 1
    BY <1>1, <1>2, <1>3, <2>1
  <2>3. PICK j \in DOMAIN stream.frames : stream.frames[j].at <= p /\ p <= stream.frames[j].end
    BY <2>2, Framed
  <2>4. j \in Nat /\ stream.frames[j].at \in Nat /\ stream.frames[j].end \in Nat
    BY Framed
  <2>5. k < j
    <3>1. ~(stream.frames[j].end <= stream.frames[k].end)
      BY <1>3, <2>2, <2>3, <2>4
    <3>2. QED
      BY <1>3, <2>4, <3>1, InOrder
  <2>6. stream.frames[k].end < stream.frames[j].at
    BY <2>5, Framed
  <2>7. stream.frames[j].at \in (read + 2)..(read + n)
    BY <1>2, <1>3, <1>4, <2>1, <2>2, <2>3, <2>4, <2>6
  <2>8. QED
    BY <1>1, <2>7
<1>7. index' < read'
  BY <1>1, <1>2
<1>8. QED
  BY <1>1, <1>4, <1>5, <1>6, <1>7 DEF Expects

LEMMA ReturnSync ==
  ASSUME CacheInv, stream \in Streams, Return, SyncInv
  PROVE  SyncInv'
<1>1. /\ pc = "decode" /\ ~Decoding /\ pc' = "read"
      /\ UNCHANGED <<stream, read, index, result, at, alone>>
  BY DEF Return
<1>2. /\ index \in Nat /\ read \in Nat /\ at \in Nat /\ find \in 0..2 /\ index <= read
      /\ find = 1 => at = index
      /\ result \in {"OK", "ERROR", "CRC_ERROR"}
  BY FromFacts DEF CacheInv, TypeOK
<1>3. PICK n \in Nat : n = Len(reported) /\ reported \in Seq(Span)
  BY DEF CacheInv, TypeOK
<1>4. SUFFICES ASSUME alone
               PROVE  SyncInv'
  BY <1>1 DEF SyncInv
<1>5. /\ \A k \in 1..n : Clean(k) => reported[k] = stream.frames[k]
      /\ Clean(n + 1) => Expects(stream.frames[n + 1])
  BY <1>3, <1>4 DEF SyncInv
<1>6. ASSUME Clean(n + 1)
      PROVE  /\ n + 1 \in DOMAIN stream.frames /\ stream.frames[n + 1].crc
             /\ From = stream.frames[n + 1].at /\ read <= stream.frames[n + 1].end
             /\ result # "CRC_ERROR"
             /\ find = 0 /\ result = "ERROR" => index < read
             /\ result = "OK" => at + length - 1 = stream.frames[n + 1].end
  BY <1>1, <1>3, <1>5, <1>6 DEF Expects, Clean
<1>7. CASE result = "OK"
  <2>1. PICK f \in Span : f = [at |-> at, end |-> at + length - 1, crc |-> TRUE]
    <3>1. length \in MinLen..LengthMax /\ at >= 1
      BY <1>1, <1>7 DEF CacheInv, ResultInv
    <3>2. at + length - 1 \in Nat
      BY <1>2, <3>1, LengthsAssumption
    <3>3. QED
      BY <1>2, <3>2 DEF Span
  <2>2. reported' = Append(reported, f) /\ find' = 0
    BY <1>7, <2>1 DEF Return
  <2>3. /\ Len(reported') = n + 1 /\ reported'[n + 1] = f
        /\ \A k \in 1..n : reported'[k] = reported[k]
    BY <1>3, <2>2
  <2>4. at + length - 1 <= read
    BY <1>1, <1>7 DEF CacheInv, ResultInv
  <2>5. ASSUME Clean(n + 1)
        PROVE  f = stream.frames[n + 1] /\ stream.frames[n + 1].end = read
    <3>1. stream.frames[n + 1] \in Span /\ stream.frames[n + 1].end \in Nat
      BY <1>6, <2>5, Framed
    <3>2. From = at
      BY <1>1, <1>7 DEF From
    <3>3. f.at = at /\ f.end = at + length - 1 /\ f.crc = TRUE
      BY <2>1
    <3>4. stream.frames[n + 1].crc = TRUE
      BY <1>6, <2>5, <3>1 DEF Span
    <3>5. f.at = stream.frames[n + 1].at /\ f.end = stream.frames[n + 1].end
      BY <1>6, <1>7, <2>5, <3>2, <3>3
    <3>6. f = stream.frames[n + 1]
      BY <3>1, <3>3, <3>4, <3>5 DEF Span
    <3>7. QED
      BY <1>2, <1>6, <1>7, <2>4, <2>5, <3>1, <3>6
  <2>6. ASSUME NEW k \in 1..(n + 1), Clean(k)
        PROVE  reported'[k] = stream.frames[k]
    <3>1. CASE k = n + 1
      BY <2>3, <2>5, <2>6, <3>1
    <3>2. CASE k # n + 1
      BY <1>3, <1>5, <2>3, <2>6, <3>2
    <3>3. QED
      BY <3>1, <3>2
  <2>7. ASSUME Clean(n + 2)
        PROVE  Expects(stream.frames[n + 2])'
    <3>1. Clean(n + 1) /\ n + 2 \in DOMAIN stream.frames
      <4>1. n + 1 \in DOMAIN stream.frames /\ \A j \in 1..(n + 1) : j \in 1..(n + 2)
        BY <1>3, <2>7, Framed DEF Clean
      <4>2. QED
        BY <2>7, <4>1 DEF Clean
    <3>2. PICK k \in DOMAIN stream.frames : k = n + 2 /\ k > 1 /\ k - 1 = n + 1
      BY <1>3, <3>1
    <3>3. stream.frames[n + 1].end = stream.frames[k].at - 1
      BY <3>2, Adjacent
    <3>4. /\ stream.frames[k].at \in Nat /\ stream.frames[k].end \in Nat
          /\ stream.frames[k].at <= stream.frames[k].end
      BY Framed
    <3>5. stream.frames[n + 1].end = read
      BY <2>5, <3>1
    <3>6. From' = read + 1
      BY <1>1, <2>2 DEF From
    <3>7. From' = stream.frames[k].at /\ read < stream.frames[k].end
      BY <1>2, <3>3, <3>4, <3>5, <3>6
    <3>8. QED
      BY <1>1, <3>2, <3>7 DEF Expects
  <2>8. Len(reported') + 1 = n + 2
    BY <1>3, <2>3
  <2>9. \A k : Clean(k)' <=> Clean(k)
    BY <1>1 DEF Clean
  <2>10. QED
    BY <1>1, <2>3, <2>6, <2>7, <2>8, <2>9 DEF SyncInv
<1>8. CASE result # "OK"
  <2>1. reported' = reported
    BY <1>8 DEF Return
  <2>2. ASSUME Clean(n + 1)
        PROVE  Expects(stream.frames[n + 1])'
    <3>1. result = "ERROR"
      BY <1>2, <1>6, <1>8, <2>2
    <3>2. find > 0 /\ index = read
      BY <1>1, <1>2, <1>6, <2>2, <3>1 DEF Decoding
    <3>3. UNCHANGED find
      BY <3>1, <3>2 DEF Return, cache
    <3>4. From = at /\ From' = at
      BY <1>1, <3>2, <3>3 DEF From
    <3>5. index < stream.frames[n + 1].end
      BY <1>6, <2>2, <3>2, <3>4, GoodCandidate
    <3>6. QED
      BY <1>1, <1>6, <2>2, <3>2, <3>4, <3>5 DEF Expects
  <2>3. \A k : Clean(k)' <=> Clean(k)
    BY <1>1 DEF Clean
  <2>4. QED
    BY <1>1, <1>3, <1>5, <2>1, <2>2, <2>3 DEF SyncInv
<1>9. QED
  BY <1>7, <1>8

LEMMA SyncInit ==
  ASSUME Init
  PROVE  SyncInv
<1>1. stream \in Streams /\ pc = "read" /\ find = 0 /\ read = 0 /\ reported = << >>
  BY DEF Init
<1>2. Len(reported) = 0
  BY <1>1
<1>3. ASSUME Clean(1)
      PROVE  Expects(stream.frames[1])
  <2>1. 1 \in DOMAIN stream.frames
    BY <1>3 DEF Clean
  <2>2. stream.frames[1].at = 1 /\ stream.frames[1].end \in Nat
        /\ stream.frames[1].at <= stream.frames[1].end
    BY <1>1, <2>1, Framed, Adjacent
  <2>3. From = 1
    BY <1>1 DEF From
  <2>4. QED
    BY <1>1, <2>2, <2>3 DEF Expects
<1>4. QED
  BY <1>2, <1>3 DEF SyncInv

LEMMA SyncInvariant == Spec => []SyncInv
<1>1. CacheInv /\ stream \in Streams /\ SyncInv /\ [Next]_vars => SyncInv'
  <2>1. SUFFICES ASSUME CacheInv, stream \in Streams, SyncInv, [Next]_vars
                 PROVE  SyncInv'
    OBVIOUS
  <2>2. CASE Return
    BY <2>1, <2>2, ReturnSync
  <2>3. CASE ~Return
    <3>1. CASE UNCHANGED vars
      <4>1. UNCHANGED <<stream, alone, reported, From, pc, read, result, find, index, at, length>>
        BY <3>1 DEF vars, cache, ghosts, From
      <4>2. QED
        BY <2>1, <4>1 DEF SyncInv, Clean, Expects
    <3>2. CASE Decode
      <4>1. UNCHANGED <<stream, alone, reported>>
        BY <2>3, <3>2 DEF Decode, FindHeader, MissHeader, TakeHeadByte, RejectLength,
                          FrameDone, FrameDamaged, FramePart, ghosts
      <4>2. Len(reported) + 1 \in Nat \ {0}
        BY <2>1 DEF CacheInv, TypeOK
      <4>3. Clean(Len(reported) + 1) => /\ Len(reported) + 1 \in DOMAIN stream.frames
                                        /\ stream.frames[Len(reported) + 1].crc
        BY <4>2 DEF Clean
      <4>4. ASSUME alone, Clean(Len(reported) + 1)
            PROVE  Expects(stream.frames[Len(reported) + 1])'
        <5>1. PICK k \in DOMAIN stream.frames : k = Len(reported) + 1
          BY <4>3, <4>4
        <5>2. stream.frames[k].crc /\ Expects(stream.frames[k])
          BY <2>1, <4>3, <4>4, <5>1 DEF SyncInv
        <5>3. Expects(stream.frames[k])'
          BY <2>1, <2>3, <3>2, <5>2, TurnExpects
        <5>4. QED
          BY <4>1, <5>1, <5>3
      <4>5. QED
        BY <2>1, <4>1, <4>4 DEF SyncInv, Clean
    <3>3. CASE Read
      <4>1. UNCHANGED <<stream, reported>> /\ (alone' => alone)
        BY <3>3 DEF Read
      <4>2. ASSUME alone', Clean(Len(reported) + 1)
            PROVE  Expects(stream.frames[Len(reported) + 1])'
        <5>1. PICK k \in DOMAIN stream.frames : k = Len(reported) + 1
          BY <4>2 DEF Clean
        <5>2. Expects(stream.frames[k])
          BY <2>1, <4>1, <4>2, <5>1 DEF SyncInv
        <5>3. Expects(stream.frames[k])'
          BY <2>1, <3>3, <4>2, <5>2, ReadExpects
        <5>4. QED
          BY <4>1, <5>1, <5>3
      <4>3. QED
        BY <2>1, <4>1, <4>2 DEF SyncInv, Clean
    <3>4. QED
      BY <2>1, <2>3, <3>1, <3>2, <3>3 DEF Next
  <2>4. QED
    BY <2>2, <2>3
<1>2. Init => SyncInv
  BY SyncInit
<1>3. QED
  BY <1>1, <1>2, CacheInvariant, StreamStays, PTL DEF Spec

(* While nothing is damaged and no read holds bytes of two frames, the decoder
   reports every frame, in its turn, with the read that ends it, wherever the
   reads cut it and whatever it carries, header bytes included
   (UpgradeProtocol.c:346-437). *)
THEOREM SeparateFramesAreReported == Spec => []SeparateFramesReported
<1>1. CacheInv /\ stream \in Streams /\ SyncInv => SeparateFramesReported
  <2>1. SUFFICES ASSUME CacheInv, stream \in Streams, SyncInv, pc = "read", alone,
                        NEW k \in DOMAIN stream.frames, stream.frames[k].end <= read,
                        \A j \in 1..k : stream.frames[j].crc
                 PROVE  k <= Len(reported) /\ reported[k] = stream.frames[k]
    BY DEF SeparateFramesReported
  <2>2. k \in Nat \ {0} /\ stream.frames[k].end \in Nat /\ DOMAIN stream.frames = 1..Len(stream.frames)
        /\ Len(stream.frames) \in Nat
    BY <2>1, Framed
  <2>3. Clean(k)
    BY <2>1 DEF Clean
  <2>4. Len(reported) \in Nat /\ read \in Nat
    BY <2>1, FromFacts DEF CacheInv, TypeOK
  <2>5. CASE k <= Len(reported)
    BY <2>1, <2>2, <2>3, <2>4, <2>5 DEF SyncInv
  <2>6. CASE Len(reported) < k
    <3>1. PICK m \in DOMAIN stream.frames : m = Len(reported) + 1 /\ m <= k
      BY <2>1, <2>2, <2>4, <2>6
    <3>2. Clean(m)
      BY <2>1, <2>2, <3>1 DEF Clean
    <3>3. read < stream.frames[m].end
      BY <2>1, <3>1, <3>2 DEF SyncInv, Expects
    <3>4. stream.frames[m].end <= stream.frames[k].end /\ stream.frames[m].end \in Nat
      BY <2>1, <3>1, InOrder, Framed
    <3>5. QED
      BY <2>1, <2>2, <2>4, <3>3, <3>4
  <2>7. QED
    BY <2>2, <2>4, <2>5, <2>6
<1>2. QED
  BY <1>1, CacheInvariant, StreamStays, SyncInvariant, PTL

-----------------------------------------------------------------------------
(* Frame k is not looked for any more once no byte up to p is looked at again. *)
Over(k, p) == IF stream.frames[k].crc THEN stream.frames[k].at <= p
                                      ELSE stream.frames[k].end <= p

(* Those frames come first. *)
LEMMA OverCounts ==
  ASSUME stream \in Streams, NEW p \in Nat
  PROVE  /\ OverBy(p) \in 0..Len(stream.frames)
         /\ \A k \in 1..Len(stream.frames) : k <= OverBy(p) <=> Over(k, p)
<1> DEFINE S == {k \in 1..Len(stream.frames) : Over(k, p)}
           L == Len(stream.frames)
<1>1. L \in Nat /\ stream.frames \in Seq(Span) /\ DOMAIN stream.frames = 1..L
  BY Framed
<1>2. OverBy(p) \in 0..L /\ OverBy(p) = Cardinality(S)
  BY <1>1, CountType DEF OverBy, Over
<1>3. ASSUME NEW j \in 1..L, NEW k \in 1..L, j < k, Over(k, p)
      PROVE  Over(j, p)
  <2>1. /\ stream.frames[j].at \in Nat /\ stream.frames[j].end \in Nat
        /\ stream.frames[k].at \in Nat /\ stream.frames[k].end \in Nat
        /\ stream.frames[j].at <= stream.frames[j].end
        /\ stream.frames[k].at <= stream.frames[k].end
        /\ stream.frames[j].end < stream.frames[k].at
    BY <1>1, <1>3, Framed
  <2>2. stream.frames[k].at <= p
    BY <1>3, <2>1 DEF Over
  <2>3. QED
    BY <2>1, <2>2 DEF Over
<1>4. \A m \in Nat : IsFiniteSet(1..m) /\ Cardinality(1..m) = m
  BY FS_Interval
<1> HIDE DEF L
<1>5. ASSUME NEW k \in 1..L, Over(k, p)
      PROVE  k <= Cardinality(S)
  <2>1. 1..k \subseteq S
    <3>1. \A j \in 1..k : j \in 1..L /\ (j = k \/ j < k)
      BY <1>1
    <3>2. QED
      BY <1>3, <1>5, <3>1 DEF L
  <2>2. S \subseteq 1..L
    BY DEF L
  <2>3. IsFiniteSet(S)
    BY <1>1, <1>4, <2>2, FS_Subset
  <2>4. Cardinality(1..k) <= Cardinality(S)
    BY <2>1, <2>3, FS_Subset
  <2>5. Cardinality(1..k) = k
    BY <1>1, <1>4
  <2>6. QED
    BY <2>4, <2>5
<1>6. ASSUME NEW k \in 1..L, ~Over(k, p)
      PROVE  Cardinality(S) < k
  <2>1. S \subseteq 1..(k - 1)
    <3>1. SUFFICES ASSUME NEW j \in 1..L, Over(j, p), ~(j < k)
                   PROVE  FALSE
      BY <1>1 DEF L
    <3>2. j = k \/ k < j
      BY <1>1, <3>1
    <3>3. QED
      BY <1>3, <1>6, <3>1, <3>2
  <2>2. k - 1 \in Nat
    BY <1>1
  <2>3. IsFiniteSet(1..(k - 1)) /\ Cardinality(1..(k - 1)) = k - 1
    BY <1>4, <2>2
  <2>4. Cardinality(S) <= k - 1
    BY <2>1, <2>3, FS_Subset
  <2>5. Cardinality(S) \in Nat
    BY <1>2 DEF L
  <2>6. QED
    BY <1>1, <2>4, <2>5
<1> HIDE DEF S
<1>7. \A k \in 1..L : k <= Cardinality(S) <=> Over(k, p)
  <2>1. Cardinality(S) \in Nat
    BY <1>1, <1>2 DEF L
  <2>2. QED
    BY <1>1, <1>5, <1>6, <2>1
<1>8. QED
  BY <1>2, <1>7 DEF L

(* What is counted as gone lies before everything the decoder still looks at,
   and an undamaged frame that comes next is ahead of it.  A read with a CRC
   error is dropped, but only once the damaged frame is the next one. *)
GoneInv ==
  /\ \A j \in 1..gone : Over(j, From - 1)
  /\ gone < Len(stream.frames) /\ stream.frames[gone + 1].crc => From <= stream.frames[gone + 1].at
  /\ pc = "decode" /\ result = "CRC_ERROR" =>
       gone < Len(stream.frames) /\ ~stream.frames[gone + 1].crc

(* Where a header can be found. *)
LEMMA HeaderPlace ==
  ASSUME HeadersMarkFrames, stream \in Streams,
         NEW p \in Nat \ {0}, p < Len(stream.bytes),
         stream.bytes[p] = Header[1], stream.bytes[p + 1] = Header[2],
         GoneInv, gone \in 0..Len(stream.frames), From = p
  PROVE  \E j \in DOMAIN stream.frames :
           /\ stream.frames[j].at <= p /\ p <= stream.frames[j].end
           /\ gone < j
           /\ stream.frames[j].crc => p = stream.frames[j].at
           /\ stream.frames[gone + 1].crc => j = gone + 1
<1>1. Len(stream.bytes) \in Nat /\ Len(stream.frames) \in Nat
      /\ DOMAIN stream.frames = 1..Len(stream.frames) /\ gone \in Nat
  BY Framed
<1>2. PICK j \in DOMAIN stream.frames : stream.frames[j].at <= p /\ p <= stream.frames[j].end
  BY <1>1, Framed
<1>3. /\ j \in Nat /\ stream.frames[j].at \in Nat /\ stream.frames[j].end \in Nat
  BY Framed
<1>4. stream.frames[j].crc => p = stream.frames[j].at
  <2>1. SUFFICES ASSUME stream.frames[j].crc, p # stream.frames[j].at
                 PROVE  FALSE
    OBVIOUS
  <2>2. p \in (stream.frames[j].at + 1)..stream.frames[j].end
    BY <1>2, <1>3, <2>1
  <2>3. stream.bytes[p + 1] # Header[2]
    BY <2>1, <2>2 DEF HeadersMarkFrames
  <2>4. QED
    BY <2>3
<1>5. gone < j
  <2>1. SUFFICES ASSUME j <= gone
                 PROVE  FALSE
    BY <1>1, <1>3
  <2>2. Over(j, p - 1)
    BY <1>1, <1>3, <2>1 DEF GoneInv
  <2>3. QED
    BY <1>2, <1>3, <1>4, <2>2 DEF Over
<1>6. ASSUME stream.frames[gone + 1].crc
      PROVE  j = gone + 1
  <2>1. PICK i \in DOMAIN stream.frames : i = gone + 1 /\ i <= j
    BY <1>1, <1>3, <1>5
  <2>2. p <= stream.frames[i].at
    BY <1>1, <1>6, <2>1 DEF GoneInv
  <2>3. /\ stream.frames[i].at \in Nat /\ stream.frames[i].end \in Nat
        /\ stream.frames[i].at <= stream.frames[i].end
    BY Framed
  <2>4. stream.frames[j].at <= stream.frames[i].end
    BY <1>2, <1>3, <2>2, <2>3
  <2>5. j <= i
    BY <2>4, InOrder
  <2>6. QED
    BY <1>3, <2>1, <2>5
<1>7. QED
  BY <1>2, <1>4, <1>5, <1>6

(* The header of the cache as HeaderPlace takes it. *)
LEMMA CachedHeader ==
  ASSUME CacheInv, stream \in Streams, find = 2
  PROVE  /\ at \in Nat \ {0} /\ at < Len(stream.bytes) /\ From = at
         /\ stream.bytes[at] = Header[1] /\ stream.bytes[at + 1] = Header[2]
<1>1. /\ index \in Nat /\ read \in Nat /\ at \in Nat /\ index <= read
  BY FromFacts
<1>2. recv \in Seq(Nat) /\ Len(recv) \in Nat /\ read <= Len(stream.bytes)
      /\ stream.bytes \in Seq(Nat) /\ Len(stream.bytes) \in Nat
  <2>1. recv \in Seq(Nat) /\ stream.bytes \in Seq(Nat) /\ read \in 0..Len(stream.bytes)
    BY DEF CacheInv, TypeOK
  <2>2. QED
    BY <2>1
<1>3. /\ Len(recv) >= 2 /\ recv # << >> /\ at >= 1
      /\ recv[1] = Header[1] /\ recv[2] = Header[2]
  BY <1>2 DEF CacheInv, CacheFits, HeaderInv
<1>4. at + Len(recv) - 1 = index /\ recv = SubSeq(stream.bytes, at, index)
  BY <1>1, <1>2, <1>3 DEF CacheInv, Contiguous
<1>5. at + 1 <= index
  BY <1>1, <1>2, <1>3, <1>4
<1>6. \A i \in at..index : stream.bytes[i] \in Nat
  BY <1>1, <1>2, <1>3
<1>7. \A i \in 1..((index - at) + 1) : SubSeq(stream.bytes, at, index)[i] = stream.bytes[(at + i) - 1]
  BY <1>1, <1>6, SubSeqProperties
<1>8. 1 \in 1..((index - at) + 1) /\ 2 \in 1..((index - at) + 1)
      /\ (at + 1) - 1 = at /\ (at + 2) - 1 = at + 1
  BY <1>1, <1>5
<1>9. /\ stream.bytes[at] = SubSeq(stream.bytes, at, index)[1]
      /\ stream.bytes[at + 1] = SubSeq(stream.bytes, at, index)[2]
  BY <1>7, <1>8
<1>10. recv[1] = SubSeq(stream.bytes, at, index)[1] /\ recv[2] = SubSeq(stream.bytes, at, index)[2]
  BY <1>4
<1>11. stream.bytes[at] = Header[1] /\ stream.bytes[at + 1] = Header[2]
  BY <1>3, <1>9, <1>10, Zenon
<1>12. at \in Nat \ {0} /\ at < Len(stream.bytes)
  BY <1>1, <1>2, <1>3, <1>5
<1>13. From = at
  BY DEF From
<1>14. QED
  BY <1>11, <1>12, <1>13

(* What the decoder gives up as a bad length or a damaged frame began in a
   damaged one, and no undamaged frame comes before that. *)
LEMMA LostCandidate ==
  ASSUME HeadersMarkFrames, CacheInv, stream \in Streams, GoneInv, RejectLength \/ FrameDamaged
  PROVE  gone < Len(stream.frames) /\ ~stream.frames[gone + 1].crc
<1>1. find = 2
  BY DEF RejectLength, FrameDamaged, HeadByte, BodyBytes
<1>2. gone \in 0..Len(stream.frames) /\ gone \in Nat /\ Len(stream.frames) \in Nat
      /\ DOMAIN stream.frames = 1..Len(stream.frames)
  BY Framed DEF CacheInv, TypeOK
<1>3. PICK j \in DOMAIN stream.frames :
        /\ gone < j
        /\ stream.frames[j].crc => at = stream.frames[j].at
        /\ stream.frames[gone + 1].crc => j = gone + 1
  BY <1>1, <1>2, CachedHeader, HeaderPlace
<1>4. ~stream.frames[j].crc
  BY <1>1, <1>3, GoodCandidate
<1>5. QED
  BY <1>2, <1>3, <1>4

LEMMA TurnGone ==
  ASSUME HeadersMarkFrames, CacheInv, stream \in Streams, GoneInv, Decode, ~Return
  PROVE  GoneInv'
<1>1. /\ pc = "decode" /\ pc' = "decode" /\ index < read /\ result # "OK"
      /\ UNCHANGED <<stream, read, gone>>
  BY DEF Decode, FindHeader, MissHeader, TakeHeadByte, RejectLength, FrameDone, FrameDamaged,
         FramePart, HeadByte, BodyBytes, Decoding, ghosts
<1>2. /\ index \in Nat /\ read \in Nat /\ at \in Nat /\ find \in 0..2
      /\ find > 0 => at <= index
      /\ find = 1 => at = index
  BY FromFacts
<1>3. gone \in 0..Len(stream.frames) /\ gone \in Nat /\ Len(stream.frames) \in Nat
      /\ DOMAIN stream.frames = 1..Len(stream.frames)
  BY Framed DEF CacheInv, TypeOK
<1>4. From \in Nat
  BY <1>2 DEF From
<1>5. ASSUME From' \in Nat, From' >= From
      PROVE  \A j \in 1..gone' : Over(j, From - 1)'
  <2>1. SUFFICES ASSUME NEW j \in 1..gone
                 PROVE  Over(j, From - 1)'
    BY <1>1
  <2>2. Over(j, From - 1)
    BY <2>1 DEF GoneInv
  <2>3. stream.frames[j].at \in Nat /\ stream.frames[j].end \in Nat
    <3>1. j \in DOMAIN stream.frames
      BY <1>3
    <3>2. QED
      BY <3>1, Framed, Zenon
  <2>4. PICK x \in Nat, y \in Nat : x = From /\ y = From' /\ x <= y
    BY <1>4, <1>5
  <2>5. Over(j, y - 1)
    BY <2>2, <2>3, <2>4 DEF Over
  <2>6. Over(j, From - 1)' <=> Over(j, From' - 1)
    BY <1>1 DEF Over
  <2>7. QED
    BY <2>4, <2>5, <2>6
<1>6. CASE From' = From /\ result' # "CRC_ERROR"
  BY <1>1, <1>4, <1>5, <1>6 DEF GoneInv
<1>7. CASE From' = From /\ result' = result
  BY <1>1, <1>4, <1>5, <1>7 DEF GoneInv
<1>8. CASE FindHeader
  <2>1. /\ index' = index + 1 /\ result' = result /\ find' = find + 1
        /\ at' = IF find = 0 THEN index + 1 ELSE at
    BY <1>8 DEF FindHeader
  <2>2. From' = From
    BY <1>1, <1>2, <2>1 DEF From
  <2>3. QED
    BY <1>7, <2>1, <2>2
<1>9. CASE TakeHeadByte \/ FramePart
  <2>1. find > 0 /\ find' = find /\ at' = at /\ result' = result
    BY <1>9 DEF TakeHeadByte, FramePart, HeadByte, BodyBytes, ghosts
  <2>2. From' = From
    BY <2>1 DEF From
  <2>3. QED
    BY <1>7, <2>1, <2>2
<1>10. CASE FrameDone
  <2>1. find > 0 /\ result' = "OK" /\ at' = at
    BY <1>10 DEF FrameDone, BodyBytes, ghosts
  <2>2. From' = From
    BY <1>1, <2>1 DEF From
  <2>3. QED
    BY <1>6, <2>1, <2>2
<1>11. CASE RejectLength \/ FrameDamaged
  <2>1. find > 0 /\ find' = 0 /\ index' = index /\ result' # "OK"
    BY <1>1, <1>11 DEF RejectLength, FrameDamaged, HeadByte, BodyBytes
  <2>2. From' \in Nat /\ From' >= From
    BY <1>1, <1>2, <2>1 DEF From
  <2>3. gone < Len(stream.frames) /\ ~stream.frames[gone + 1].crc
    BY <1>11, LostCandidate
  <2>4. QED
    BY <1>1, <1>5, <2>2, <2>3 DEF GoneInv
<1>12. CASE MissHeader
  <2>1. index' = index + 1 /\ result' = result /\ find' = 0 /\ find < 2
    BY <1>12 DEF MissHeader
  <2>2. From' = index + 2 /\ From' >= From
    BY <1>1, <1>2, <2>1 DEF From
  <2>3. ASSUME gone < Len(stream.frames), stream.frames[gone + 1].crc
        PROVE  index + 2 <= stream.frames[gone + 1].at
    <3>1. PICK k \in DOMAIN stream.frames : k = gone + 1
      BY <1>3, <2>3
    <3>2. /\ stream.frames[k].at \in Nat /\ stream.frames[k].end \in Nat
          /\ stream.frames[k].crc /\ From <= stream.frames[k].at
      BY <2>3, <3>1, Framed DEF GoneInv
    <3>3. CASE find = 0
      <4>1. From = index + 1
        BY <1>1, <3>3 DEF From
      <4>2. index + 1 # stream.frames[k].at
        BY <1>12, <3>2, <3>3, FirstByteFound
      <4>3. QED
        BY <1>2, <3>1, <3>2, <4>1, <4>2
    <3>4. CASE find = 1
      <4>1. From = index /\ at = index /\ index >= 1 /\ stream.bytes[index] = Header[1]
        BY <1>2, <3>4 DEF From, CacheInv, HeaderInv
      <4>2. index # stream.frames[k].at
        BY <1>12, <3>2, <3>4, <4>1, GoodCandidate
      <4>3. index + 1 # stream.frames[k].at
        <5>1. SUFFICES ASSUME index + 1 = stream.frames[k].at
                       PROVE  FALSE
          OBVIOUS
        <5>2. k # 1
          BY <1>2, <4>1, <5>1, Adjacent
        <5>3. PICK g \in DOMAIN stream.frames : g = gone /\ g \in 1..gone
          BY <1>3, <3>1, <5>2
        <5>4. stream.frames[g].end = index
          <6>1. k > 1 /\ k - 1 = g
            BY <1>3, <3>1, <5>2, <5>3
          <6>2. stream.frames[g].end = stream.frames[k].at - 1
            BY <6>1, Adjacent
          <6>3. QED
            BY <1>2, <5>1, <6>2
        <5>5. Over(g, From - 1)
          BY <5>3 DEF GoneInv
        <5>6. stream.frames[g].at \in Nat
          BY Framed
        <5>7. stream.frames[g].crc /\ stream.frames[g].at < index
          BY <1>2, <4>1, <5>4, <5>5, <5>6 DEF Over
        <5>8. index \in (stream.frames[g].at + 1)..stream.frames[g].end
          BY <1>2, <5>4, <5>6, <5>7
        <5>9. index < stream.frames[g].end
          BY <4>1, <5>7, <5>8 DEF HeadersMarkFrames
        <5>10. QED
          BY <1>2, <5>4, <5>9
      <4>4. QED
        BY <1>2, <3>1, <3>2, <4>1, <4>2, <4>3
    <3>5. QED
      BY <1>2, <2>1, <3>3, <3>4
  <2>4. From' \in Nat
    BY <1>2, <2>2
  <2>5. QED
    BY <1>1, <1>5, <2>1, <2>2, <2>3, <2>4 DEF GoneInv
<1>13. QED
  BY <1>8, <1>9, <1>10, <1>11, <1>12 DEF Decode

LEMMA ReadGone ==
  ASSUME CacheInv, GoneInv, Read
  PROVE  GoneInv'
<1>1. /\ pc = "read" /\ index' = read /\ pc' = "decode" /\ result' = "ERROR"
      /\ UNCHANGED <<stream, find, at, gone>>
  BY DEF Read, cache
<1>2. From' = From
  BY <1>1 DEF From
<1>3. QED
  BY <1>1, <1>2 DEF GoneInv, Over

(* What is gone after a read, and what From is then. *)
LEMMA GoneAfterRead ==
  ASSUME CacheInv, Return
  PROVE  \E p \in Nat :
           /\ gone' = AtLeast(gone, OverBy(p)) /\ From' = p + 1 /\ From <= p + 1
           /\ IF result = "ERROR" /\ find > 0 THEN From = p + 1 ELSE p = read
<1>1. /\ pc = "decode" /\ pc' = "read"
      /\ UNCHANGED <<stream, read, result, at>>
  BY DEF Return
<1>2. /\ index \in Nat /\ read \in Nat /\ at \in Nat /\ find \in 0..2 /\ index <= read
      /\ find > 0 => at <= index
  BY FromFacts
<1>3. CASE result = "ERROR" /\ find > 0
  <2>1. gone' = AtLeast(gone, OverBy(at - 1)) /\ find' = find
    BY <1>3 DEF Return, cache
  <2>2. at >= 1
    BY <1>2, <1>3 DEF CacheInv, HeaderInv
  <2>3. From = at /\ From' = at
    BY <1>1, <1>3, <2>1 DEF From
  <2>4. PICK p \in Nat : p = at - 1
    BY <1>2, <2>2
  <2>5. p + 1 = at
    BY <1>2, <2>4
  <2>6. QED
    BY <1>2, <1>3, <2>1, <2>3, <2>4, <2>5
<1>4. CASE ~(result = "ERROR" /\ find > 0)
  <2>1. gone' = AtLeast(gone, OverBy(read)) /\ find' = 0
    BY <1>4 DEF Return
  <2>2. From' = read + 1
    BY <1>1, <2>1 DEF From
  <2>3. at <= read
    BY DEF CacheInv, TypeOK
  <2>4. From <= read + 1
    BY <1>1, <1>2, <2>3 DEF From
  <2>5. QED
    BY <1>2, <1>4, <2>1, <2>2, <2>4
<1>5. QED
  BY <1>3, <1>4

LEMMA ReturnGone ==
  ASSUME CacheInv, stream \in Streams, GoneInv, Return
  PROVE  GoneInv'
<1>1. PICK p \in Nat : gone' = AtLeast(gone, OverBy(p)) /\ From' = p + 1 /\ From <= p + 1
  BY GoneAfterRead
<1>2. gone \in Nat /\ Len(stream.frames) \in Nat /\ DOMAIN stream.frames = 1..Len(stream.frames)
      /\ gone \in 0..Len(stream.frames)
  BY Framed DEF CacheInv, TypeOK
<1>3. /\ OverBy(p) \in 0..Len(stream.frames)
      /\ \A k \in 1..Len(stream.frames) : k <= OverBy(p) <=> Over(k, p)
  BY OverCounts
<1>4. From \in Nat
  BY FromFacts DEF From
<1>5. stream' = stream /\ pc' = "read"
  BY DEF Return
<1>6. ASSUME NEW j \in 1..gone'
      PROVE  Over(j, p)
  <2>1. CASE j <= OverBy(p)
    BY <1>2, <1>3, <2>1
  <2>2. CASE ~(j <= OverBy(p))
    <3>1. j \in 1..gone
      BY <1>1, <1>2, <1>3, <2>2 DEF AtLeast
    <3>2. Over(j, From - 1)
      BY <3>1 DEF GoneInv
    <3>3. stream.frames[j].at \in Nat /\ stream.frames[j].end \in Nat
      BY <1>2, <3>1, Framed
    <3>4. QED
      BY <1>1, <1>4, <3>2, <3>3 DEF Over
  <2>3. QED
    BY <2>1, <2>2
<1>7. ASSUME gone' < Len(stream.frames), stream.frames[gone' + 1].crc
      PROVE  p + 1 <= stream.frames[gone' + 1].at
  <2>1. PICK k \in 1..Len(stream.frames) : k = gone' + 1 /\ ~(k <= OverBy(p))
    BY <1>1, <1>2, <1>3, <1>7 DEF AtLeast
  <2>2. ~(stream.frames[k].at <= p) /\ stream.frames[k].at \in Nat
    BY <1>2, <1>3, <1>7, <2>1, Framed DEF Over
  <2>3. QED
    BY <2>1, <2>2
<1>8. (p + 1) - 1 = p
  OBVIOUS
<1>9. \A j \in 1..gone' : Over(j, From - 1)'
  BY <1>1, <1>5, <1>6, <1>8 DEF Over
<1>10. QED
  BY <1>1, <1>5, <1>7, <1>9 DEF GoneInv

LEMMA GoneInvariant ==
  ASSUME HeadersMarkFrames
  PROVE  Spec => []GoneInv
<1>1. Init => GoneInv
  <2>1. SUFFICES ASSUME Init
                 PROVE  GoneInv
    OBVIOUS
  <2>2. stream \in Streams /\ gone = 0 /\ pc = "read" /\ From = 1
    BY <2>1 DEF Init, From
  <2>3. gone + 1 = 1
    BY <2>2
  <2>4. 0 < Len(stream.frames) => 1 \in DOMAIN stream.frames
    BY <2>2, Framed
  <2>5. 0 < Len(stream.frames) => 1 <= stream.frames[1].at
    BY <2>2, <2>4, Framed
  <2>6. QED
    BY <2>2, <2>3, <2>5 DEF GoneInv
<1>2. CacheInv /\ stream \in Streams /\ GoneInv /\ Next => GoneInv'
  BY TurnGone, ReadGone, ReturnGone DEF Next
<1>3. GoneInv /\ UNCHANGED vars => GoneInv'
  <2>1. UNCHANGED vars => UNCHANGED <<From, stream, gone, pc, result>>
    BY DEF vars, cache, ghosts, From
  <2>2. QED
    BY <2>1 DEF GoneInv, Over
<1>4. QED
  BY <1>1, <1>2, <1>3, CacheInvariant, StreamStays, PTL DEF Spec

(* What keeps the decoder waiting never reaches over an undamaged frame that
   has not been dealt with: such a frame is reported, or dropped, by the read
   that ends it, and the host does not wait for bytes that will not come
   (UpgradeProtocol.c:346-437). *)
THEOREM NoFrameIsStalled ==
  ASSUME HeadersMarkFrames
  PROVE  Spec => []NoStall
<1>1. CacheInv /\ stream \in Streams /\ GoneInv => NoStall
  <2>1. SUFFICES ASSUME CacheInv, stream \in Streams, GoneInv, pc = "read",
                        gone < Len(stream.frames), stream.frames[gone + 1].crc
                 PROVE  stream.frames[gone + 1].end > read
    BY DEF NoStall
  <2>2. gone \in Nat /\ gone \in 0..Len(stream.frames) /\ Len(stream.frames) \in Nat
        /\ DOMAIN stream.frames = 1..Len(stream.frames)
    BY <2>1, Framed DEF CacheInv, TypeOK
  <2>3. PICK k \in DOMAIN stream.frames : k = gone + 1
    BY <2>1, <2>2
  <2>4. /\ stream.frames[k].at \in Nat /\ stream.frames[k].end \in Nat
        /\ stream.frames[k].at <= stream.frames[k].end
        /\ stream.frames[k].crc /\ From <= stream.frames[k].at
    BY <2>1, <2>3, Framed DEF GoneInv
  <2>5. /\ index \in Nat /\ read \in Nat /\ at \in Nat /\ find \in 0..2
        /\ find = 1 => at = index
        /\ find > 0 => index = read
    BY <2>1, FromFacts DEF CacheInv, ResultInv
  <2>6. CASE find = 0
    <3>1. From = read + 1
      BY <2>1, <2>6 DEF From
    <3>2. QED
      BY <2>3, <2>4, <2>5, <3>1
  <2>7. CASE find = 1
    <3>1. From = read
      BY <2>5, <2>7 DEF From
    <3>2. CASE read = stream.frames[k].at
      <4>1. index < stream.frames[k].end
        BY <2>1, <2>4, <2>5, <2>7, <3>2, GoodCandidate
      <4>2. QED
        BY <2>3, <2>4, <2>5, <2>7, <4>1
    <3>3. CASE read # stream.frames[k].at
      BY <2>3, <2>4, <2>5, <3>1, <3>3
    <3>4. QED
      BY <3>2, <3>3
  <2>8. CASE find = 2
    <3>1. PICK j \in DOMAIN stream.frames :
            /\ stream.frames[j].crc => at = stream.frames[j].at
            /\ stream.frames[gone + 1].crc => j = gone + 1
      BY <2>1, <2>2, <2>8, CachedHeader, HeaderPlace
    <3>2. at = stream.frames[k].at
      BY <2>1, <2>3, <3>1
    <3>3. index < stream.frames[k].end
      BY <2>1, <2>4, <2>8, <3>2, GoodCandidate
    <3>4. QED
      BY <2>3, <2>4, <2>5, <2>8, <3>3
  <2>9. QED
    BY <2>5, <2>6, <2>7, <2>8
<1>2. QED
  BY <1>1, CacheInvariant, StreamStays, GoneInvariant, PTL

-----------------------------------------------------------------------------
LEMMA Suffix ==
  ASSUME NEW S, NEW F \in Seq(S), NEW g \in Nat, g <= Len(F)
  PROVE  /\ SubSeq(F, g + 1, Len(F)) \in Seq(S)
         /\ Len(SubSeq(F, g + 1, Len(F))) = Len(F) - g
         /\ \A i \in 1..(Len(F) - g) : SubSeq(F, g + 1, Len(F))[i] = F[g + i]
<1>1. PICK L \in Nat : L = Len(F) /\ \A i \in 1..L : F[i] \in S
  OBVIOUS
<1>2. \A i \in (g + 1)..L : F[i] \in S
  BY <1>1
<1>3. /\ SubSeq(F, g + 1, L) \in Seq(S)
      /\ Len(SubSeq(F, g + 1, L)) = IF g + 1 <= L THEN L - (g + 1) + 1 ELSE 0
      /\ \A i \in 1..(L - (g + 1) + 1) : SubSeq(F, g + 1, L)[i] = F[(g + 1) + i - 1]
  BY <1>2, SubSeqProperties
<1>4. L - (g + 1) + 1 = L - g /\ \A i \in Int : (g + 1) + i - 1 = g + i
  OBVIOUS
<1>5. (IF g + 1 <= L THEN L - (g + 1) + 1 ELSE 0) = L - g
  BY <1>1
<1>6. QED
  BY <1>1, <1>3, <1>4, <1>5

(* The frames that are not gone, before and after some more of them are. *)
LEMMA FramesLeft ==
  ASSUME NEW S, NEW F \in Seq(S), NEW g \in Nat, NEW h \in Nat, g <= h, h <= Len(F)
  PROVE  LET G == SubSeq(F, g + 1, Len(F))
         IN  /\ DOMAIN G = 1..(Len(F) - g)
             /\ \A i \in 1..(Len(F) - g) : G[i] = F[g + i]
             /\ SubSeq(G, (h - g) + 1, Len(G)) = SubSeq(F, h + 1, Len(F))
<1> DEFINE G == SubSeq(F, g + 1, Len(F))
           H == SubSeq(F, h + 1, Len(F))
           R == SubSeq(G, (h - g) + 1, Len(G))
<1>1. PICK L \in Nat : L = Len(F) /\ g <= L /\ h <= L
  OBVIOUS
<1>2. G \in Seq(S) /\ Len(G) = L - g /\ \A i \in 1..(L - g) : G[i] = F[g + i]
  BY <1>1, Suffix
<1>3. H \in Seq(S) /\ Len(H) = L - h /\ \A i \in 1..(L - h) : H[i] = F[h + i]
  BY <1>1, Suffix
<1> HIDE DEF G, H
<1>4. PICK d \in Nat : d = h - g /\ d <= Len(G) /\ Len(G) - d = L - h
  BY <1>1, <1>2
<1>5. R \in Seq(S) /\ Len(R) = L - h /\ \A i \in 1..(L - h) : R[i] = G[d + i]
  <2>1. /\ SubSeq(G, d + 1, Len(G)) \in Seq(S)
        /\ Len(SubSeq(G, d + 1, Len(G))) = Len(G) - d
        /\ \A i \in 1..(Len(G) - d) : SubSeq(G, d + 1, Len(G))[i] = G[d + i]
    BY <1>2, <1>4, Suffix
  <2>2. R = SubSeq(G, d + 1, Len(G))
    BY <1>4
  <2>3. QED
    BY <1>4, <2>1, <2>2
<1> HIDE DEF R
<1>6. R = H
  <2>1. \A i \in 1..(L - h) : d + i \in 1..(L - g) /\ g + (d + i) = h + i
    BY <1>1, <1>4
  <2>2. \A i \in 1..(L - h) : R[i] = H[i]
    BY <1>2, <1>3, <1>5, <2>1
  <2>3. QED
    BY <1>3, <1>5, <2>2, SeqEqual
<1>7. DOMAIN G = 1..(L - g)
  BY <1>2
<1>8. QED
  BY <1>1, <1>2, <1>6, <1>7 DEF G, H, R

(* What is reported is an undamaged frame, as it was sent, that was still to
   come; it is the first of these unless a damaged one is before it. *)
LEMMA ReportIsFrame ==
  ASSUME HeadersMarkFrames, CacheInv, ReportsInv, stream \in Streams, GoneInv,
         pc = "decode", result = "OK"
  PROVE  \E j \in DOMAIN stream.frames :
           /\ gone < j /\ stream.frames[j].at <= read
           /\ stream.frames[j] = [at |-> at, end |-> at + length - 1, crc |-> TRUE]
           /\ stream.frames[gone + 1].crc => j = gone + 1
<1>1. /\ at \in Nat /\ at >= 1 /\ read \in Nat /\ length \in MinLen..LengthMax
      /\ at + length - 1 <= read /\ find = 0
      /\ IsFrame(SubSeq(stream.bytes, at, at + length - 1))
  BY FromFacts DEF CacheInv, ResultInv, ReportsInv
<1>2. /\ stream.bytes \in Seq(Nat) /\ Len(stream.bytes) \in Nat /\ read <= Len(stream.bytes)
      /\ gone \in 0..Len(stream.frames)
  BY Framed DEF CacheInv, TypeOK
<1>3. PICK q \in Nat : q = at + length - 1 /\ q <= read /\ q <= Len(stream.bytes)
  BY <1>1, <1>2, LengthsAssumption
<1>4. /\ at + HeadLen <= q
      /\ stream.bytes[at] = Header[1] /\ stream.bytes[at + 1] = Header[2]
      /\ stream.bytes[(at + HeadLen) - 1] = (q - at) + 1
  <2>1. IsFrame(SubSeq(stream.bytes, at, q)) /\ at \in Nat \ {0}
    BY <1>1, <1>3
  <2>2. QED
    BY <1>2, <1>3, <2>1, FrameAt
<1>5. at < Len(stream.bytes) /\ From = at
  BY <1>1, <1>2, <1>3, <1>4, LengthsAssumption DEF From
<1>6. PICK j \in DOMAIN stream.frames :
        /\ stream.frames[j].at <= at /\ at <= stream.frames[j].end
        /\ gone < j
        /\ stream.frames[j].crc => at = stream.frames[j].at
        /\ stream.frames[gone + 1].crc => j = gone + 1
  BY <1>1, <1>2, <1>4, <1>5, HeaderPlace
<1>7. /\ stream.frames[j] \in Span /\ stream.frames[j].at \in Nat \ {0} /\ stream.frames[j].end \in Nat
      /\ stream.frames[j].crc \in BOOLEAN /\ stream.frames[j].end <= Len(stream.bytes)
      /\ stream.frames[j].crc => IsFrame(SubSeq(stream.bytes, stream.frames[j].at, stream.frames[j].end))
  BY Framed
<1>8. stream.frames[j].crc
  <2>1. SUFFICES ASSUME ~stream.frames[j].crc
                 PROVE  FALSE
    OBVIOUS
  <2>2. at \in stream.frames[j].at..stream.frames[j].end /\ q \in DOMAIN stream.bytes /\ at <= q
    <3>1. at <= q
      BY <1>1, <1>3, <1>4, LengthsAssumption
    <3>2. q \in 1..Len(stream.bytes) /\ DOMAIN stream.bytes = 1..Len(stream.bytes)
      BY <1>1, <1>2, <1>3, <3>1
    <3>3. at \in stream.frames[j].at..stream.frames[j].end
      BY <1>1, <1>6, <1>7
    <3>4. QED
      BY <3>1, <3>2, <3>3
  <2>3. ~IsFrame(SubSeq(stream.bytes, at, q))
    BY <2>1, <2>2 DEF HeadersMarkFrames
  <2>4. QED
    BY <1>1, <1>3, <2>3
<1>9. stream.frames[j].end = q
  <2>1. stream.bytes[(stream.frames[j].at + HeadLen) - 1] = (stream.frames[j].end - stream.frames[j].at) + 1
    BY <1>8, GoodFrame
  <2>2. (stream.frames[j].end - at) + 1 = (q - at) + 1
    BY <1>4, <1>6, <1>8, <2>1
  <2>3. QED
    BY <1>1, <1>7, <2>2
<1>10. stream.frames[j] = [at |-> at, end |-> at + length - 1, crc |-> TRUE]
  BY <1>3, <1>6, <1>7, <1>8, <1>9 DEF Span
<1>11. stream.frames[j].at <= read
  BY <1>1, <1>3, <1>4, <1>6, <1>7, LengthsAssumption
<1>12. QED
  BY <1>6, <1>10, <1>11

(* A read that reports nothing gives up an undamaged frame only together with
   a damaged one before it. *)
LEMMA GivenUp ==
  ASSUME CacheInv, stream \in Streams, GoneInv, Return, result # "OK", gone < gone'
  PROVE  ~stream.frames[gone + 1].crc
<1>1. PICK p \in Nat :
        /\ gone' = AtLeast(gone, OverBy(p))
        /\ IF result = "ERROR" /\ find > 0 THEN From = p + 1 ELSE p = read
  BY GoneAfterRead
<1>2. /\ OverBy(p) \in 0..Len(stream.frames)
      /\ \A k \in 1..Len(stream.frames) : k <= OverBy(p) <=> Over(k, p)
  BY OverCounts
<1>3. gone \in Nat /\ Len(stream.frames) \in Nat /\ DOMAIN stream.frames = 1..Len(stream.frames)
  BY Framed DEF CacheInv, TypeOK
<1>4. PICK k \in 1..Len(stream.frames) : k = gone + 1 /\ k <= OverBy(p)
  BY <1>1, <1>2, <1>3 DEF AtLeast
<1>5. SUFFICES ASSUME stream.frames[k].crc
               PROVE  FALSE
  BY <1>4
<1>6. stream.frames[k].at \in Nat /\ stream.frames[k].at <= p /\ From <= stream.frames[k].at
      /\ gone < Len(stream.frames)
  BY <1>2, <1>3, <1>4, <1>5, Framed DEF Over, GoneInv
<1>7. pc = "decode" /\ ~Decoding
  BY DEF Return
<1>8. /\ index \in Nat /\ read \in Nat /\ find \in 0..2 /\ index <= read
      /\ result \in {"OK", "ERROR", "CRC_ERROR"}
  BY FromFacts DEF CacheInv, TypeOK
<1>9. result # "CRC_ERROR"
  BY <1>4, <1>5, <1>7 DEF GoneInv
<1>10. CASE find > 0
  BY <1>1, <1>6, <1>8, <1>9, <1>10
<1>11. CASE find = 0
  <2>1. index = read
    BY <1>7, <1>8 DEF Decoding
  <2>2. From = read + 1 /\ p = read
    BY <1>1, <1>7, <1>11, <2>1 DEF From
  <2>3. QED
    BY <1>6, <1>8, <2>2
<1>12. QED
  BY <1>8, <1>10, <1>11

LEMMA ReturnReads ==
  ASSUME HeadersMarkFrames, CacheInv, ReportsInv, stream \in Streams, GoneInv, Return
  PROVE  [Reader!Report \/ Reader!Skip]_<<SubSeq(stream.frames, gone + 1, Len(stream.frames)), reported>>
<1> DEFINE left == SubSeq(stream.frames, gone + 1, Len(stream.frames))
<1>1. PICK L \in Nat :
        /\ L = Len(stream.frames) /\ gone \in Nat /\ gone <= L
        /\ stream.frames \in Seq(Span) /\ DOMAIN stream.frames = 1..L
  BY Framed DEF CacheInv, TypeOK
<1>2. PICK p \in Nat :
        /\ gone' = AtLeast(gone, OverBy(p))
        /\ IF result = "ERROR" /\ find > 0 THEN From = p + 1 ELSE p = read
  BY GoneAfterRead
<1>3. /\ OverBy(p) \in 0..L
      /\ \A k \in 1..L : k <= OverBy(p) <=> Over(k, p)
  BY <1>1, OverCounts
<1>4. gone' \in Nat /\ gone <= gone' /\ gone' <= L
  BY <1>1, <1>2, <1>3 DEF AtLeast
<1>5. stream' = stream
  BY DEF Return
<1>6. PICK n \in Nat : n = gone' - gone /\ n <= L - gone
                     /\ (n > 0 => gone < gone') /\ (n = 0 => gone' = gone)
  <2>1. PICK g \in Nat, h \in Nat : g = gone /\ h = gone'
    BY <1>1, <1>4
  <2>2. g <= h /\ h <= L
    BY <1>4, <2>1
  <2>3. h - g \in Nat /\ h - g <= L - g /\ (h - g > 0 => g < h) /\ (h - g = 0 => h = g)
    BY <2>2
  <2>4. QED
    BY <2>1, <2>3
<1>7. /\ DOMAIN left = 1..(L - gone)
      /\ \A i \in 1..(L - gone) : left[i] = stream.frames[gone + i]
      /\ left' = Reader!Unread(left, n)
  <2>1. PICK h \in Nat : h = gone' /\ gone <= h /\ h <= L
    BY <1>4
  <2>2. SubSeq(left, (h - gone) + 1, Len(left)) = SubSeq(stream.frames, h + 1, Len(stream.frames))
        /\ DOMAIN left = 1..(L - gone)
        /\ \A i \in 1..(L - gone) : left[i] = stream.frames[gone + i]
    BY <1>1, <2>1, FramesLeft
  <2>3. left' = SubSeq(stream.frames, h + 1, Len(stream.frames))
    BY <1>5, <2>1
  <2>4. QED
    BY <1>6, <2>1, <2>2, <2>3 DEF Reader!Unread
<1> HIDE DEF left
<1>8. n > 0 => n \in DOMAIN left /\ left[1] = stream.frames[gone + 1]
  BY <1>1, <1>6, <1>7
<1>9. CASE result = "OK"
  <2>1. pc = "decode"
    BY DEF Return
  <2>2. PICK j \in DOMAIN stream.frames :
          /\ gone < j /\ stream.frames[j].at <= read
          /\ stream.frames[j] = [at |-> at, end |-> at + length - 1, crc |-> TRUE]
          /\ stream.frames[gone + 1].crc => j = gone + 1
    BY <1>9, <2>1, ReportIsFrame
  <2>3. stream.frames[j].crc = TRUE
    BY <2>2
  <2>4. j <= gone'
    <3>1. p = read
      BY <1>2, <1>9
    <3>2. j <= OverBy(p)
      BY <1>1, <1>3, <2>2, <2>3, <3>1 DEF Over
    <3>3. QED
      BY <1>1, <1>2, <1>3, <3>2 DEF AtLeast
  <2>5. PICK i \in 1..(L - gone) : i = j - gone /\ gone + i = j /\ i <= n
    <3>1. \A x, y, z \in Nat : x < y /\ y <= z => y - x \in 1..(z - x) /\ x + (y - x) = y
      OBVIOUS
    <3>2. j \in Nat /\ j <= L
      BY <1>1
    <3>3. j - gone \in 1..(L - gone) /\ gone + (j - gone) = j
      BY <1>1, <2>2, <3>1, <3>2
    <3>4. j - gone \in 1..(gone' - gone)
      BY <1>1, <1>4, <2>2, <2>4, <3>1, <3>2
    <3>5. QED
      BY <1>6, <3>3, <3>4
  <2>6. left[i] = stream.frames[j] /\ i \in DOMAIN left /\ n \in DOMAIN left
    BY <1>1, <1>6, <1>7, <2>5
  <2>7. Reader!FirstGood(left, i)
    <3>1. left[1] = stream.frames[gone + 1]
      BY <1>6, <1>8, <2>5
    <3>2. stream.frames[gone + 1].crc => i = 1
      BY <1>1, <2>2, <2>5
    <3>3. QED
      BY <2>3, <2>6, <3>1, <3>2 DEF Reader!FirstGood
  <2>8. reported' = Append(reported, left[i])
    BY <1>9, <2>2, <2>6 DEF Return
  <2>9. Reader!Report
    BY <1>7, <2>5, <2>6, <2>7, <2>8 DEF Reader!Report, left
  <2>10. QED
    BY <2>9
<1>10. CASE result # "OK" /\ n > 0
  <2>1. ~stream.frames[gone + 1].crc
    BY <1>6, <1>10, GivenUp
  <2>2. Reader!NothingGood(left, n)
    BY <1>8, <1>10, <2>1 DEF Reader!NothingGood
  <2>3. reported' = reported
    BY <1>10 DEF Return
  <2>4. Reader!Skip
    BY <1>7, <1>8, <1>10, <2>2, <2>3 DEF Reader!Skip, left
  <2>5. QED
    BY <2>4
<1>11. CASE result # "OK" /\ n = 0
  <2>1. gone' = gone
    BY <1>6, <1>11
  <2>2. UNCHANGED <<left, reported>>
    BY <1>5, <1>11, <2>1 DEF Return, left
  <2>3. QED
    BY <2>2 DEF left
<1>12. n > 0 \/ n = 0
  BY <1>6
<1>13. QED
  BY <1>9, <1>10, <1>11, <1>12, Zenon

(* The decoder implements FrameReader: whatever is damaged, lost or added
   before them and wherever reads cut them, undamaged frames are reported as
   they were sent, in order and at most once, and one is lost only together
   with an earlier damaged one (UpgradeProtocol.c:333-440). *)
THEOREM DecoderReadsFrames ==
  ASSUME HeadersMarkFrames
  PROVE  Spec => ReadsFrames
<1>1. Init => Reader!Init
  BY DEF Init, Reader!Init
<1>2. CacheInv /\ ReportsInv /\ stream \in Streams /\ GoneInv /\ [Next]_vars
        => [Reader!Report \/ Reader!Skip]_<<SubSeq(stream.frames, gone + 1, Len(stream.frames)), reported>>
  <2>1. SUFFICES ASSUME CacheInv, ReportsInv, stream \in Streams, GoneInv, [Next]_vars, ~Return
                 PROVE  UNCHANGED <<SubSeq(stream.frames, gone + 1, Len(stream.frames)), reported>>
    BY ReturnReads
  <2>2. UNCHANGED <<stream, gone, reported>>
    BY <2>1 DEF Next, Read, Decode, FindHeader, MissHeader, TakeHeadByte, RejectLength, FrameDone,
                FrameDamaged, FramePart, vars, ghosts
  <2>3. QED
    BY <2>2
<1>3. QED
  BY <1>1, <1>2, CacheInvariant, ReportsInvariant, StreamStays, GoneInvariant, PTL
     DEF Spec, ReadsFrames, Reader!Spec
=============================================================================
