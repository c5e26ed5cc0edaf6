----------------------------- MODULE Md5Proofs -----------------------------
(***************************************************************************)
(* Lemmas about the operators of Md5, for every size of byte, word and     *)
(* block, and of them the theorem that one MD5Start, MD5Update, MD5Finish  *)
(* hashes the data as RFC 1321 pads it.                                    *)
(***************************************************************************)
EXTENDS Md5, SequenceTheorems, TLAPS

(* Division with a remainder. *)

LEMMA Division ==
  ASSUME NEW a \in Int, NEW b \in Nat \ {0}
  PROVE  /\ a = (b * (a \div b)) + (a % b)
         /\ a % b \in 0..(b - 1)
         /\ a \div b \in Int
         /\ a >= 0 => a \div b >= 0
OBVIOUS

LEMMA OneQuotient ==
  ASSUME NEW b \in Nat \ {0}, NEW q \in Int, NEW p \in Int,
         NEW r \in 0..(b - 1), NEW s \in 0..(b - 1), (b * q) + r = (b * p) + s
  PROVE  q = p /\ r = s
<1>1. b * (q - p) = s - r
  OBVIOUS
<1>2. ~(q - p >= 1)
  <2>1. q - p >= 1 => b * (q - p) >= b
    OBVIOUS
  <2>2. QED
    BY <1>1, <2>1
<1>3. ~(q - p <= -1)
  <2>1. q - p <= -1 => b * (q - p) <= -b
    OBVIOUS
  <2>2. QED
    BY <1>1, <2>1
<1>4. q = p
  BY <1>2, <1>3
<1>5. QED
  BY <1>4

LEMMA DivisionIs ==
  ASSUME NEW b \in Nat \ {0}, NEW q \in Int, NEW r \in 0..(b - 1), NEW a \in Int,
         a = (b * q) + r
  PROVE  a \div b = q /\ a % b = r
BY Division, OneQuotient

(* The same behind a name, by which the provers find the instance. *)
Composed(a, b, q, r) ==
  b \in Nat \ {0} /\ q \in Int /\ r \in 0..(b - 1) /\ a \in Int /\ a = (b * q) + r

LEMMA ComposedDivides ==
  ASSUME NEW a, NEW b, NEW q, NEW r, Composed(a, b, q, r)
  PROVE  a \div b = q /\ a % b = r
BY DivisionIs DEF Composed

LEMMA SmallRemainder ==
  ASSUME NEW b \in Nat \ {0}, NEW a \in 0..(b - 1)
  PROVE  a \div b = 0 /\ a % b = a
<1>1. a = (b * 0) + a /\ 0 \in Int /\ a \in Int
  OBVIOUS
<1>2. QED
  BY <1>1, DivisionIs

LEMMA Products ==
  ASSUME NEW a \in Int, NEW b \in Int, NEW c \in Int
  PROVE  /\ a * b \in Int
         /\ a * (b + c) = (a * b) + (a * c)
         /\ a * (b - c) = (a * b) - (a * c)
         /\ a * (b * c) = (a * b) * c
         /\ a * b = b * a
OBVIOUS

LEMMA DivisionAdds ==
  ASSUME NEW a \in Int, NEW b \in Nat \ {0}, NEW z \in Int
  PROVE  /\ (a + (b * z)) \div b = (a \div b) + z
         /\ (a + (b * z)) % b = a % b
<1> DEFINE q == a \div b
           r == a % b
<1>1. a = (b * q) + r /\ r \in 0..(b - 1) /\ q \in Int
  BY Division
<1> HIDE DEF q, r
<1>2. b * (q + z) = (b * q) + (b * z)
  BY <1>1, Products
<1>3. q + z \in Int /\ b * z \in Int /\ b * q \in Int
  BY <1>1
<1>4. a + (b * z) = (b * (q + z)) + r /\ a + (b * z) \in Int
  BY <1>1, <1>2, <1>3
<1>5. (a + (b * z)) \div b = q + z /\ (a + (b * z)) % b = r
  BY <1>1, <1>3, <1>4, DivisionIs
<1>6. QED
  BY <1>5 DEF q, r

LEMMA DivisionTwice ==
  ASSUME NEW a \in Nat \ {0}, NEW b \in Nat \ {0}, NEW x \in Nat
  PROVE  x \div (a * b) = (x \div a) \div b
<1> DEFINE q == x \div a
           r == x % a
           p == q \div b
           s == q % b
<1>1. x = (a * q) + r /\ r \in 0..(a - 1) /\ q \in Int
  BY Division
<1>2. q = (b * p) + s /\ s \in 0..(b - 1) /\ p \in Int
  BY <1>1, Division
<1> HIDE DEF q, r, p, s
<1>3. a * q = (a * (b * p)) + (a * s)
  BY <1>2, Products
<1>4. a * (b * p) = (a * b) * p
  BY <1>2, Products
<1>5. a * s \in Int /\ a * s >= 0 /\ a * s <= (a * b) - a
  <2>1. a * s <= a * (b - 1)
    BY <1>2
  <2>2. a * (b - 1) = (a * b) - a
    OBVIOUS
  <2>3. QED
    BY <1>2, <2>1, <2>2
<1>6. a * b \in Nat \ {0}
  OBVIOUS
<1>7. x = ((a * b) * p) + ((a * s) + r)
  <2>1. /\ a * q \in Int /\ a * (b * p) \in Int /\ (a * b) * p \in Int
        /\ a * s \in Int /\ r \in Int
    BY <1>1, <1>2
  <2>2. ASSUME NEW u \in Int, NEW v \in Int, NEW w \in Int, NEW y \in Int,
               x = u + r, u = v + y, v = w
        PROVE  x = w + (y + r)
    BY <1>1, <2>1, <2>2
  <2>3. QED
    BY <1>1, <1>3, <1>4, <2>1, <2>2
<1>8. (a * s) + r \in 0..((a * b) - 1)
  BY <1>1, <1>5, <1>6
<1>9. x \div (a * b) = p
  BY <1>2, <1>6, <1>7, <1>8, DivisionIs
<1>10. QED
  BY <1>9 DEF q, p

-----------------------------------------------------------------------------
(* Sequences of bytes. *)

Buffers == [1..Block -> Nat]

LEMMA BufferSeq ==
  ASSUME NEW buf \in Buffers
  PROVE  buf \in Seq(Nat) /\ Len(buf) = Block /\ DOMAIN buf = 1..Block
BY Md5Assumption DEF Buffers

LEMMA ZerosSeq ==
  ASSUME NEW n \in Nat
  PROVE  Zeros(n) \in Seq(Nat) /\ Len(Zeros(n)) = n /\ \A k \in 1..n : Zeros(n)[k] = 0
BY DEF Zeros

LEMMA JoinAt ==
  ASSUME NEW r \in Seq(Nat), NEW s \in Seq(Nat)
  PROVE  /\ r \o s \in Seq(Nat)
         /\ Len(r \o s) = Len(r) + Len(s)
         /\ \A k \in 1..Len(r) : (r \o s)[k] = r[k]
         /\ \A k \in (Len(r) + 1)..(Len(r) + Len(s)) : (r \o s)[k] = s[k - Len(r)]
OBVIOUS

LEMMA CutAt ==
  ASSUME NEW s \in Seq(Nat), NEW i \in 0..Len(s), NEW j \in i..Len(s)
  PROVE  /\ SubSeq(s, i + 1, j) \in Seq(Nat)
         /\ Len(SubSeq(s, i + 1, j)) = j - i
         /\ \A k \in (i + 1)..j : SubSeq(s, i + 1, j)[k - i] = s[k]
<1>1. Len(s) \in Nat /\ i \in Nat /\ j \in Nat /\ j >= i /\ j <= Len(s)
  OBVIOUS
<1>2. \A k \in 1..(j - i) : i + k \in 1..Len(s)
  BY <1>1
<1>3. \A k \in (i + 1)..j : s[k] \in Nat
  BY <1>1
<1>4. /\ SubSeq(s, i + 1, j) \in Seq(Nat)
      /\ Len(SubSeq(s, i + 1, j)) = j - i
      /\ \A k \in 1..(j - i) : SubSeq(s, i + 1, j)[k] = s[i + k]
  BY <1>1, <1>2, <1>3
<1>5. ASSUME NEW k \in (i + 1)..j
      PROVE  SubSeq(s, i + 1, j)[k - i] = s[k]
  <2>1. k - i \in 1..(j - i) /\ i + (k - i) = k
    BY <1>1
  <2>2. QED
    BY <1>4, <2>1
<1>6. QED
  BY <1>4, <1>5

LEMMA CutFront ==
  ASSUME NEW s \in Seq(Nat), NEW j \in 0..Len(s)
  PROVE  /\ SubSeq(s, 1, j) \in Seq(Nat)
         /\ Len(SubSeq(s, 1, j)) = j
         /\ \A k \in 1..j : SubSeq(s, 1, j)[k] = s[k]
<1>1. Len(s) \in Nat /\ j \in Nat /\ j <= Len(s)
  OBVIOUS
<1>2. \A k \in 1..j : s[k] \in Nat
  BY <1>1
<1>3. QED
  BY <1>1, <1>2

LEMMA PadByte == Pad \in Nat
BY Md5Assumption DEF Pad

(* Of what CopyTo leaves the first bytes are the old ones and the copy. *)
LEMMA CopyType ==
  ASSUME NEW buf \in Buffers, NEW at \in 0..Block, NEW s \in Seq(Nat)
  PROVE  CopyTo(buf, at, s) \in Buffers
<1>1. DOMAIN buf = 1..Block /\ DOMAIN s = 1..Len(s) /\ Len(s) \in Nat
  BY BufferSeq
<1>2. \A k \in 1..Block :
        (IF k - at \in DOMAIN s THEN s[k - at] ELSE buf[k]) \in Nat
  BY <1>1 DEF Buffers
<1>3. QED
  BY <1>1, <1>2 DEF Buffers, CopyTo

LEMMA CopyFront ==
  ASSUME NEW buf \in Buffers, NEW at \in 0..Block, NEW s \in Seq(Nat), at + Len(s) <= Block
  PROVE  SubSeq(CopyTo(buf, at, s), 1, at + Len(s)) = SubSeq(buf, 1, at) \o s
<1> DEFINE new == CopyTo(buf, at, s)
           one == SubSeq(new, 1, at + Len(s))
           two == SubSeq(buf, 1, at) \o s
<1>1. /\ new \in Seq(Nat) /\ Len(new) = Block
      /\ buf \in Seq(Nat) /\ Len(buf) = Block /\ DOMAIN buf = 1..Block
      /\ Len(s) \in Nat /\ DOMAIN s = 1..Len(s) /\ at \in Nat /\ Block \in Nat
  BY CopyType, BufferSeq, Md5Assumption
<1>2. \A k \in 1..Block :
        new[k] = IF k - at \in 1..Len(s) THEN s[k - at] ELSE buf[k]
  BY <1>1 DEF CopyTo
<1> HIDE DEF new
<1>3. /\ one \in Seq(Nat) /\ Len(one) = at + Len(s)
      /\ \A k \in 1..(at + Len(s)) : one[k] = new[k]
  BY <1>1
<1>4. /\ two \in Seq(Nat) /\ Len(two) = at + Len(s)
      /\ \A k \in 1..(at + Len(s)) :
           two[k] = IF k <= at THEN buf[k] ELSE s[k - at]
  <2> DEFINE front == SubSeq(buf, 1, at)
  <2>1. /\ front \in Seq(Nat) /\ Len(front) = at
        /\ \A k \in 1..at : front[k] = buf[k]
    BY <1>1, CutFront
  <2> HIDE DEF front
  <2>2. /\ front \o s \in Seq(Nat)
        /\ Len(front \o s) = at + Len(s)
        /\ \A k \in 1..at : (front \o s)[k] = front[k]
        /\ \A k \in (at + 1)..(at + Len(s)) : (front \o s)[k] = s[k - at]
    BY <2>1, JoinAt
  <2>3. ASSUME NEW k \in 1..(at + Len(s))
        PROVE  (front \o s)[k] = IF k <= at THEN buf[k] ELSE s[k - at]
    <3>1. CASE k <= at
      <4>1. k \in 1..at
        BY <1>1, <3>1
      <4>2. QED
        BY <2>1, <2>2, <3>1, <4>1
    <3>2. CASE ~(k <= at)
      <4>1. k \in (at + 1)..(at + Len(s))
        BY <1>1, <3>2
      <4>2. QED
        BY <2>2, <3>2, <4>1
    <3>3. QED
      BY <1>1, <3>1, <3>2
  <2>4. QED
    BY <2>2, <2>3 DEF front
<1> HIDE DEF one, two
<1>5. ASSUME NEW k \in 1..(at + Len(s))
      PROVE  one[k] = two[k]
  <2>1. k \in 1..Block
    BY <1>1
  <2>2. (k - at \in 1..Len(s)) <=> ~(k <= at)
    BY <1>1
  <2>3. QED
    BY <1>2, <1>3, <1>4, <2>1, <2>2
<1>6. one = two
  BY <1>3, <1>4, <1>5, SeqEqual
<1>7. QED
  BY <1>6 DEF one, two, new

LEMMA CutWhole ==
  ASSUME NEW s \in Seq(Nat)
  PROVE  SubSeq(s, 1, Len(s)) = s /\ SubSeq(s, 1, 0) = << >>
OBVIOUS

LEMMA CutTwice ==
  ASSUME NEW s \in Seq(Nat), NEW i \in 0..Len(s), NEW j \in i..Len(s)
  PROVE  SubSeq(s, 1, i) \o SubSeq(s, i + 1, j) = SubSeq(s, 1, j)
<1> DEFINE front == SubSeq(s, 1, i)
           back == SubSeq(s, i + 1, j)
           all == SubSeq(s, 1, j)
<1>1. Len(s) \in Nat /\ i \in Nat /\ j \in Nat /\ i <= j /\ j <= Len(s)
  OBVIOUS
<1>2. PICK n \in Nat : n = j - i
  BY <1>1
<1>3. /\ front \in Seq(Nat) /\ Len(front) = i
      /\ \A k \in 1..i : front[k] = s[k]
  BY <1>1, CutFront
<1>4. /\ back \in Seq(Nat) /\ Len(back) = n
      /\ \A k \in (i + 1)..j : back[k - i] = s[k]
  BY <1>2, CutAt
<1>5. all \in Seq(Nat) /\ Len(all) = j /\ \A k \in 1..j : all[k] = s[k]
  BY <1>1, CutFront
<1> HIDE DEF front, back, all
<1>6. /\ front \o back \in Seq(Nat)
      /\ Len(front \o back) = i + n
      /\ \A k \in 1..i : (front \o back)[k] = front[k]
      /\ \A k \in (i + 1)..(i + n) : (front \o back)[k] = back[k - i]
  BY <1>3, <1>4, JoinAt
<1>7. ASSUME NEW k \in 1..j
      PROVE  (front \o back)[k] = s[k]
  <2>1. CASE k <= i
    <3>1. k \in 1..i
      BY <1>1, <2>1
    <3>2. QED
      BY <1>3, <1>6, <3>1
  <2>2. CASE ~(k <= i)
    <3>1. k \in (i + 1)..(i + n) /\ k \in (i + 1)..j
      BY <1>1, <1>2, <2>2
    <3>2. QED
      BY <1>4, <1>6, <3>1
  <2>3. QED
    BY <1>1, <2>1, <2>2
<1>8. i + n = j
  BY <1>1, <1>2
<1>9. QED
  BY <1>5, <1>6, <1>7, <1>8, SeqEqual DEF front, back, all

LEMMA JoinsTwice ==
  ASSUME NEW r \in Seq(Nat), NEW s \in Seq(Nat), NEW t \in Seq(Nat)
  PROVE  (r \o s) \o t = r \o (s \o t)
<1>1. (r \o s) \o t \in Seq(Nat) /\ r \o (s \o t) \in Seq(Nat)
  OBVIOUS
<1>2. /\ Len((r \o s) \o t) = Len(r) + (Len(s) + Len(t))
      /\ Len(r \o (s \o t)) = Len(r) + (Len(s) + Len(t))
  OBVIOUS
<1>3. \A k \in 1..(Len(r) + (Len(s) + Len(t))) :
        ((r \o s) \o t)[k] = (r \o (s \o t))[k]
  OBVIOUS
<1>4. QED
  BY <1>1, <1>2, <1>3, SeqEqual

LEMMA Joins ==
  ASSUME NEW r \in Seq(Nat), NEW s \in Seq(Nat)
  PROVE  /\ r \o s \in Seq(Nat)
         /\ Len(r \o s) = Len(r) + Len(s)
OBVIOUS

(* The same with names that the provers do not open. *)
Bytes == Seq(Nat)

Joined(r, s) == r \o s

LEMMA JoinedAt ==
  ASSUME NEW r \in Bytes, NEW s \in Bytes
  PROVE  /\ Joined(r, s) \in Bytes
         /\ Len(Joined(r, s)) = Len(r) + Len(s)
         /\ \A k \in 1..Len(r) : Joined(r, s)[k] = r[k]
         /\ \A k \in (Len(r) + 1)..(Len(r) + Len(s)) : Joined(r, s)[k] = s[k - Len(r)]
BY JoinAt DEF Bytes, Joined

LEMMA BytesJoined ==
  ASSUME NEW r \in Bytes, NEW s \in Bytes, NEW t \in Bytes
  PROVE  Joined(r, s) \in Bytes /\ Joined(Joined(r, s), t) = Joined(r, Joined(s, t))
<1>1. Joined(r, s) \in Bytes
  BY JoinedAt
<1>2. (r \o s) \o t = r \o (s \o t)
  BY JoinsTwice, Zenon DEF Bytes
<1>3. QED
  BY <1>1, <1>2, Zenon DEF Joined

LEMMA JoinsNone ==
  ASSUME NEW r \in Seq(Nat)
  PROVE  r \o << >> = r /\ << >> \o r = r
OBVIOUS

-----------------------------------------------------------------------------
(* What a context holds between two calls: the message m. *)

Rest(c) == SubSeq(c.Buffer, 1, c.Total[1] % Block)

Contexts == [Total : [1..2 -> 0..(WordMax - 1)], State : Seq(Nat), Buffer : Buffers]

Holds(c, m) ==
  /\ c \in Contexts
  /\ c.State \o Rest(c) = m
  /\ c.Total[1] + (WordMax * c.Total[2]) = Len(m) % (WordMax * WordMax)

LEMMA WordFacts ==
  /\ WordMax \in Nat \ {0} /\ Block \in Nat \ {0} /\ ByteBits \in Nat \ {0}
  /\ \E w \in Nat \ {0} : WordMax = Block * w
  /\ \E w \in Nat \ {0} : WordMax = ByteBits * w
<1>1. WordMax \in Nat \ {0} /\ Block \in Nat \ {0} /\ ByteBits \in Nat \ {0}
  BY Md5Assumption, PowersAssumption
<1>2. WordMax % Block = 0 /\ WordMax % ByteBits = 0
  BY Md5Assumption
<1>3. ASSUME NEW a \in Nat \ {0}, NEW b \in Nat \ {0}, a % b = 0
      PROVE  \E w \in Nat \ {0} : a = b * w
  <2>1. a = b * (a \div b) /\ a \div b \in Int /\ a \div b >= 0
    BY <1>3, Division
  <2>2. a \div b \in Nat \ {0}
    BY <2>1
  <2>3. QED
    BY <2>1, <2>2
<1>4. QED
  BY <1>1, <1>2, <1>3

LEMMA TwoWords ==
  ASSUME NEW low \in 0..(WordMax - 1), NEW high \in 0..(WordMax - 1)
  PROVE  /\ WordMax * WordMax \in Nat \ {0}
         /\ WordMax * high \in Nat
         /\ low + (WordMax * high) \in 0..((WordMax * WordMax) - 1)
<1>1. WordMax \in Nat \ {0}
  BY WordFacts
<1>2. ASSUME NEW w \in Nat \ {0}, NEW h \in 0..(w - 1)
      PROVE  w * w \in Nat \ {0} /\ w * h \in Nat /\ w * h <= (w * w) - w
  <2>1. w * h <= w * (w - 1)
    OBVIOUS
  <2>2. w * (w - 1) = (w * w) - w
    OBVIOUS
  <2>3. w * w \in Nat \ {0} /\ w * h \in Nat
    OBVIOUS
  <2>4. QED
    BY <2>1, <2>2, <2>3
<1>3. /\ WordMax * WordMax \in Nat \ {0} /\ WordMax * high \in Nat
      /\ WordMax * high <= (WordMax * WordMax) - WordMax
  BY <1>1, <1>2
<1>4. QED
  BY <1>1, <1>3

(* The bytes in Buffer are those behind the last whole block of the message. *)
LEMMA LeftOfLength ==
  ASSUME NEW low \in 0..(WordMax - 1), NEW high \in 0..(WordMax - 1), NEW n \in Nat,
         low + (WordMax * high) = n % (WordMax * WordMax)
  PROVE  low % Block = n % Block
<1>1. WordMax \in Nat \ {0} /\ Block \in Nat \ {0} /\ low \in Int /\ high \in Int
  BY WordFacts
<1>2. PICK w \in Nat \ {0} : WordMax = Block * w
  BY WordFacts
<1>3. PICK ww \in Nat \ {0} : ww = WordMax * WordMax
  BY TwoWords
<1>4. PICK z \in Int : n = (ww * z) + (n % ww)
  <2>1. n \in Int
    OBVIOUS
  <2>2. n = (ww * (n \div ww)) + (n % ww) /\ n \div ww \in Int
    BY <2>1, Division
  <2>3. QED
    BY <2>2
<1>5. n = (low + (WordMax * high)) + (ww * z)
  <2>1. ww * z \in Int /\ WordMax * high \in Int
    BY <1>1
  <2>2. n % ww = low + (WordMax * high)
    BY <1>3
  <2>3. QED
    BY <1>1, <1>4, <2>1, <2>2
<1>6. WordMax * high = Block * (w * high) /\ ww * z = Block * (w * (WordMax * z))
  <2>1. (Block * w) * high = Block * (w * high)
    BY Products, <1>1
  <2>2. (WordMax * WordMax) * z = WordMax * (WordMax * z)
    BY <1>1, Products
  <2>3. (Block * w) * (WordMax * z) = Block * (w * (WordMax * z))
    BY <1>1, Products
  <2>4. QED
    BY <1>2, <1>3, <2>1, <2>2, <2>3
<1>7. w * high \in Int /\ w * (WordMax * z) \in Int
  BY <1>1
<1>8. (low + (Block * (w * high))) % Block = low % Block
  BY <1>1, <1>7, DivisionAdds
<1>9. low + (Block * (w * high)) \in Int
  BY <1>1, <1>7
<1>10. ((low + (Block * (w * high))) + (Block * (w * (WordMax * z)))) % Block
        = (low + (Block * (w * high))) % Block
  BY <1>1, <1>7, <1>9, DivisionAdds
<1>11. QED
  BY <1>5, <1>6, <1>8, <1>10, Zenon

(* Total counts the bytes, modulo two words, with the carry between them. *)
LEMMA CountedRight ==
  ASSUME NEW c \in Contexts, NEW len \in Nat, NEW n \in 1..(WordMax - 1),
         c.Total[1] + (WordMax * c.Total[2]) = len % (WordMax * WordMax)
  PROVE  /\ Counted(c, n) \in Contexts
         /\ Counted(c, n).State = c.State /\ Counted(c, n).Buffer = c.Buffer
         /\ Counted(c, n).Total[1] + (WordMax * Counted(c, n).Total[2])
              = (len + n) % (WordMax * WordMax)
<1> DEFINE low == c.Total[1]
           high == c.Total[2]
           sum == (low + n) % WordMax
           carry == IF sum < n THEN (high + 1) % WordMax ELSE high
<1>1. WordMax \in Nat \ {0} /\ low \in 0..(WordMax - 1) /\ high \in 0..(WordMax - 1)
  BY WordFacts DEF Contexts
<1>2. PICK ww \in Nat \ {0} : ww = WordMax * WordMax
  BY <1>1, TwoWords
<1>3. PICK z \in Int : len = (ww * z) + (len % ww)
  <2>1. len \in Int
    OBVIOUS
  <2>2. len = (ww * (len \div ww)) + (len % ww) /\ len \div ww \in Int
    BY <2>1, Division
  <2>3. QED
    BY <2>2
<1>4. len % ww = low + (WordMax * high)
  BY <1>2
<1>5. Counted(c, n) = [c EXCEPT !.Total = <<sum, carry>>]
  BY DEF Counted, Contexts
<1> HIDE DEF low, high
<1>6. WordMax * high \in Int /\ ww * z \in Int
  BY <1>1
<1>7. /\ len + n = (ww * z) + ((low + n) + (WordMax * high))
      /\ len + n \in Int /\ low + n \in Int
  BY <1>1, <1>3, <1>4, <1>6
<1>8. ASSUME NEW s \in 0..(WordMax - 1), NEW k \in 0..(WordMax - 1), NEW y \in Int,
              len + n = (ww * y) + (s + (WordMax * k))
       PROVE  s + (WordMax * k) = (len + n) % ww
  <2>1. PICK r \in 0..(ww - 1) : r = s + (WordMax * k)
    BY <1>2, TwoWords
  <2>2. len + n = (ww * y) + r
    BY <1>8, <2>1
  <2>3. (len + n) % ww = r
    <3>1. PICK a \in Int : a = len + n
      BY <1>7
    <3>2. a = (ww * y) + r
      BY <2>2, <3>1
    <3>3. a % ww = r
      BY <3>2, DivisionIs
    <3>4. QED
      BY <3>1, <3>3
  <2>4. QED
    BY <2>1, <2>3
<1>9. /\ sum \in 0..(WordMax - 1) /\ carry \in 0..(WordMax - 1)
      /\ sum + (WordMax * carry) = (len + n) % ww
  <2>1. CASE low + n < WordMax
    <3>1. low + n \in 0..(WordMax - 1)
      BY <1>1, <2>1
    <3>2. sum = low + n
      BY <1>1, <3>1, SmallRemainder
    <3> HIDE DEF sum
    <3>3. carry = high /\ sum \in 0..(WordMax - 1)
      BY <1>1, <2>1, <3>2
    <3> HIDE DEF carry
    <3>4. carry \in 0..(WordMax - 1)
      BY <1>1, <3>3
    <3>5. len + n = (ww * z) + (sum + (WordMax * carry))
      BY <1>7, <3>2, <3>3
    <3>6. QED
      BY <3>3, <3>4, <3>5, <1>8
  <2>2. CASE low + n >= WordMax
    <3>1. low + n = (WordMax * 1) + ((low + n) - WordMax)
      BY <1>1
    <3>2. (low + n) - WordMax \in 0..(WordMax - 1) /\ low + n \in Int
      BY <1>1, <2>2
    <3>3. sum = (low + n) - WordMax
      BY <1>1, <3>1, <3>2, DivisionIs
    <3> HIDE DEF sum
    <3>4. carry = (high + 1) % WordMax /\ sum \in 0..(WordMax - 1)
      BY <1>1, <2>2, <3>3
    <3>5. CASE high + 1 < WordMax
      <4>1. high + 1 \in 0..(WordMax - 1)
        BY <1>1, <3>5
      <4>2. carry = high + 1
        BY <1>1, <3>4, <4>1, SmallRemainder
      <4> HIDE DEF carry
      <4>3. carry \in 0..(WordMax - 1)
        BY <1>1, <3>5, <4>2
      <4>4. WordMax * carry = (WordMax * high) + WordMax
        BY <1>1, <4>2
      <4>6. sum + (WordMax * carry) = (low + n) + (WordMax * high)
        BY <1>1, <1>6, <3>3, <4>4
      <4>7. len + n = (ww * z) + (sum + (WordMax * carry))
        BY <1>7, <4>6
      <4>8. QED
        BY <3>4, <4>3, <4>7, <1>8
    <3>6. CASE high + 1 >= WordMax
      <4>1. high + 1 = (WordMax * 1) + 0 /\ high + 1 \in Int /\ 0 \in 0..(WordMax - 1)
        BY <1>1, <3>6
      <4>2. carry = 0
        BY <1>1, <3>4, <4>1, DivisionIs
      <4> HIDE DEF carry
      <4>3. carry \in 0..(WordMax - 1) /\ WordMax * carry = 0
        BY <1>1, <4>2
      <4>5. WordMax * high = ww - WordMax
        <5>1. high = WordMax - 1
          BY <1>1, <3>6
        <5>2. WordMax * (WordMax - 1) = (WordMax * WordMax) - WordMax
          BY <1>1
        <5>3. QED
          BY <1>2, <5>1, <5>2
      <4>6. ww * (z + 1) = (ww * z) + ww
        OBVIOUS
      <4>7. len + n = (ww * (z + 1)) + (sum + (WordMax * carry))
        BY <1>1, <1>6, <1>7, <3>3, <4>3, <4>5, <4>6
      <4>8. z + 1 \in Int /\ len + n \in Int
        BY <1>1
      <4>9. QED
        BY <3>4, <4>3, <4>7, <4>8, <1>8
    <3>7. QED
      BY <1>1, <3>5, <3>6
  <2>3. QED
    BY <1>1, <2>1, <2>2
<1> HIDE DEF sum, carry
<1>10. <<sum, carry>> \in [1..2 -> 0..(WordMax - 1)]
  BY <1>9
<1>11. /\ Counted(c, n) \in Contexts
       /\ Counted(c, n).Total = <<sum, carry>>
       /\ Counted(c, n).State = c.State /\ Counted(c, n).Buffer = c.Buffer
  BY <1>5, <1>10 DEF Contexts
<1>12. QED
  BY <1>2, <1>9, <1>11

LEMMA RestSeq ==
  ASSUME NEW c \in Contexts
  PROVE  /\ c.Total[1] \in 0..(WordMax - 1) /\ c.Total[2] \in 0..(WordMax - 1)
         /\ c.Total[1] % Block \in 0..(Block - 1)
         /\ c.State \in Seq(Nat) /\ c.Buffer \in Buffers
         /\ Rest(c) \in Seq(Nat) /\ Len(Rest(c)) = c.Total[1] % Block
<1>1. WordMax \in Nat \ {0} /\ Block \in Nat \ {0}
  BY WordFacts
<1>2. /\ c.Total[1] \in 0..(WordMax - 1) /\ c.Total[2] \in 0..(WordMax - 1)
      /\ c.State \in Seq(Nat) /\ c.Buffer \in Buffers
  BY DEF Contexts
<1>3. PICK left \in 0..(Block - 1) : left = c.Total[1] % Block
  <2>1. PICK low \in Int : low = c.Total[1]
    BY <1>1, <1>2
  <2>2. low % Block \in 0..(Block - 1)
    BY <1>1, Division
  <2>3. QED
    BY <2>1, <2>2
<1>4. left \in 0..Len(c.Buffer) /\ c.Buffer \in Seq(Nat)
  BY <1>1, <1>2, BufferSeq
<1>5. SubSeq(c.Buffer, 1, left) \in Seq(Nat) /\ Len(SubSeq(c.Buffer, 1, left)) = left
  BY <1>4, CutFront
<1>6. QED
  BY <1>2, <1>3, <1>5 DEF Rest

(* The buffered bytes behind the data, whichever of the three ways the data
   is cut. *)
CutAs(len, n, left, fill, at, kept) ==
  /\ len \in Nat /\ n \in Nat /\ left \in 0..(Block - 1) /\ left = len % Block
  /\ fill \in 0..n /\ at \in 0..(Block - 1) /\ kept = (n - fill) % Block
  /\ \/ fill = Block - left /\ at = 0
     \/ fill = 0 /\ at = left /\ (left = 0 \/ left + n < Block)

LEMMA LeftAfter ==
  ASSUME NEW len, NEW n, NEW left, NEW fill, NEW at, NEW kept,
         CutAs(len, n, left, fill, at, kept)
  PROVE  /\ kept \in 0..(n - fill)
         /\ at + kept \in 0..(Block - 1)
         /\ (len + n) % Block = at + kept
<1>1. /\ Block \in Nat \ {0}
      /\ len \in Nat /\ n \in Nat /\ left \in 0..(Block - 1)
      /\ fill \in 0..n /\ at \in 0..(Block - 1)
      /\ \/ fill = Block - left /\ at = 0
         \/ fill = 0 /\ at = left /\ (left = 0 \/ left + n < Block)
  BY WordFacts DEF CutAs
<1>2. PICK q \in Int : len = (Block * q) + left
  <2>1. len \in Int /\ left = len % Block
    BY DEF CutAs
  <2>2. len = (Block * (len \div Block)) + (len % Block) /\ len \div Block \in Int
    BY <1>1, <2>1, Division
  <2>3. QED
    BY <2>1, <2>2
<1>3. PICK p \in Nat, r \in 0..(Block - 1) : r = kept /\ n - fill = (Block * p) + r
  <2>1. PICK d \in Int : d = n - fill /\ d >= 0 /\ kept = d % Block
    BY <1>1 DEF CutAs
  <2>2. /\ d = (Block * (d \div Block)) + (d % Block)
        /\ d \div Block \in Int /\ d % Block \in 0..(Block - 1)
    BY <1>1, <2>1, Division
  <2>3. d \div Block >= 0
    BY <1>1, <2>1, Division
  <2>4. d \div Block \in Nat
    BY <2>2, <2>3
  <2>5. QED
    BY <2>1, <2>2, <2>4
<1>4. Block * p \in Nat /\ Block * q \in Int
  BY <1>1
<1>5. r \in 0..(n - fill)
  BY <1>1, <1>3, <1>4
<1>6. PICK sum \in Int : sum = len + n
  BY <1>1
<1>7. at + r \in 0..(Block - 1) /\ sum % Block = at + r
  <2>1. CASE fill = Block - left /\ at = 0
    <3>1. PICK y \in Int : y = (q + p) + 1
      OBVIOUS
    <3>2. Block * y = (Block * q) + ((Block * p) + Block)
      BY <1>1, <3>1
    <3>3. sum = (Block * y) + r
      <4>1. n = (n - fill) + fill
        BY <1>1
      <4>2. Block * y \in Int
        BY <1>1
      <4>3. QED
        <5>1. PICK bq \in Int, bp \in Int : bq = Block * q /\ bp = Block * p
          BY <1>4
        <5>2. len = bq + left /\ n - fill = bp + r /\ fill = Block - left
          BY <1>2, <1>3, <2>1, <5>1
        <5>3. sum = (bq + (bp + Block)) + r
          BY <1>1, <1>6, <5>2
        <5>4. QED
          BY <3>2, <5>1, <5>3
    <3>4. sum % Block = r
      BY <1>1, <3>3, DivisionIs
    <3>5. QED
      BY <1>1, <2>1, <3>4
  <2>2. CASE fill = 0 /\ at = left /\ left = 0
    <3>1. PICK y \in Int : y = q + p
      OBVIOUS
    <3>2. Block * y = (Block * q) + (Block * p) /\ Block * y \in Int
      BY <1>1, <3>1
    <3>3. sum = (Block * y) + r
      BY <1>1, <1>2, <1>3, <1>4, <1>6, <2>2, <3>2
    <3>4. sum % Block = r
      BY <1>1, <3>3, DivisionIs
    <3>5. QED
      BY <1>1, <2>2, <3>4
  <2>3. CASE fill = 0 /\ at = left /\ left + n < Block
    <3>1. n - fill = n /\ n \in 0..(Block - 1)
      BY <1>1, <2>3
    <3>2. r = n
      BY <1>1, <1>3, <3>1, SmallRemainder
    <3>3. PICK s \in 0..(Block - 1) : s = left + n
      BY <1>1, <2>3
    <3>4. sum = (Block * q) + s
      <4>1. PICK b \in Int : b = Block * q
        BY <1>4
      <4>2. len = b + left
        BY <1>2, <4>1
      <4>3. sum = b + s
        BY <1>1, <1>6, <3>3, <4>2
      <4>4. QED
        BY <4>1, <4>3
    <3>5. Composed(sum, Block, q, s)
      BY <1>1, <3>4 DEF Composed
    <3>6. sum % Block = s
      BY <3>5, ComposedDivides
    <3>7. QED
      BY <2>3, <3>2, <3>3, <3>6
  <2>4. QED
    BY <1>1, <2>1, <2>2, <2>3
<1>8. QED
  BY <1>1, <1>3, <1>5, <1>6, <1>7

(* MD5Update takes the message on by the data it is given, none included. *)
LEMMA UpdateHolds ==
  ASSUME NEW c, NEW m \in Bytes, Holds(c, m), NEW d \in Bytes, Len(d) < WordMax
  PROVE  Holds(MD5Update(c, d), m \o d)
<1>1. CASE d = << >>
  BY <1>1, JoinsNone DEF MD5Update, Holds, Bytes
<1>2. CASE d # << >>
  <2> DEFINE left == c.Total[1] % Block
             n == Len(d)
             fill == IF Fills(left, n) THEN Block - left ELSE 0
             kept == (n - fill) % Block
             whole == n - kept
             full == CopyTo(c.Buffer, left, SubSeq(d, 1, fill))
             head == IF fill > 0 THEN full ELSE << >>
             at == KeptAt(left, n)
             tail == SubSeq(d, whole + 1, n)
             blocks == c.State \o head \o SubSeq(d, fill + 1, whole)
             buf == CopyTo(full, at, tail)
             new == [Counted(c, n) EXCEPT !.State = blocks, !.Buffer = buf]
  <2>1. MD5Update(c, d) = new
    <3>1. c \in Contexts /\ Counted(c, n).State = c.State
      BY DEF Holds, Counted, Contexts
    <3>2. QED
      BY <1>2, <3>1 DEF MD5Update
  <2>2. /\ WordMax \in Nat \ {0} /\ Block \in Nat \ {0}
        /\ n \in 1..(WordMax - 1) /\ d \in Seq(Nat) /\ m \in Seq(Nat)
    BY <1>2, WordFacts DEF Bytes
  <2>3. /\ c \in Contexts /\ Len(m) \in Nat
        /\ c.State \o Rest(c) = m
        /\ c.Total[1] + (WordMax * c.Total[2]) = Len(m) % (WordMax * WordMax)
    BY <2>2 DEF Holds
  <2>4. /\ left \in 0..(Block - 1)
        /\ c.State \in Seq(Nat) /\ c.Buffer \in Buffers
        /\ Rest(c) \in Seq(Nat) /\ Len(Rest(c)) = left
        /\ Rest(c) = SubSeq(c.Buffer, 1, left)
    BY <2>3, RestSeq DEF Rest
  <2>5. left = Len(m) % Block
    BY <2>3, RestSeq, LeftOfLength
  <2> HIDE DEF left, n
  <2>6. /\ fill \in 0..n /\ at \in 0..(Block - 1) /\ left + fill <= Block
        /\ \/ fill = Block - left /\ at = 0 /\ fill > 0
           \/ fill = 0 /\ at = left /\ (left = 0 \/ left + n < Block)
    BY <2>2, <2>4 DEF Fills, KeptAt
  <2> HIDE DEF fill, at
  <2>7. /\ kept \in 0..(n - fill)
        /\ at + kept \in 0..(Block - 1)
        /\ (Len(m) + n) % Block = at + kept
        /\ fill = 0 /\ left # 0 => kept = n
    <3>1. Len(m) \in Nat /\ n \in Nat
      BY <2>2, <2>3
    <3>2. \/ fill = Block - left /\ at = 0
          \/ fill = 0 /\ at = left /\ (left = 0 \/ left + n < Block)
      BY <2>6
    <3>3. fill \in 0..n /\ at \in 0..(Block - 1)
      BY <2>6
    <3>4. /\ kept \in 0..(n - fill)
          /\ at + kept \in 0..(Block - 1)
          /\ (Len(m) + n) % Block = at + kept
      <4>1. CutAs(Len(m), n, left, fill, at, kept)
        BY <2>4, <2>5, <3>1, <3>2, <3>3 DEF CutAs
      <4>2. QED
        BY <4>1, LeftAfter
    <3>5. ASSUME fill = 0, left # 0
          PROVE  kept = n
      <4>1. n \in 0..(Block - 1) /\ n - fill = n
        BY <2>2, <2>4, <2>6, <3>5
      <4>2. QED
        BY <2>2, <4>1, SmallRemainder
    <3>6. QED
      BY <3>4, <3>5
  <2> HIDE DEF kept
  <2>8. /\ whole \in fill..n /\ n - whole = kept
        /\ fill \in 0..Len(d) /\ whole \in 0..Len(d) /\ n = Len(d)
    BY <2>2, <2>6, <2>7 DEF n
  <2> HIDE DEF whole
  <2>9. /\ SubSeq(d, 1, fill) \in Seq(Nat) /\ Len(SubSeq(d, 1, fill)) = fill
        /\ SubSeq(d, fill + 1, whole) \in Seq(Nat)
        /\ tail \in Seq(Nat) /\ Len(tail) = kept
    <3>1. Len(d) \in whole..Len(d) /\ whole \in fill..Len(d)
      BY <2>8
    <3>2. QED
      BY <2>2, <2>8, <3>1, CutFront, CutAt
  <2>10. full \in Buffers /\ SubSeq(full, 1, left + fill) = Rest(c) \o SubSeq(d, 1, fill)
    <3>1. left \in 0..Block /\ left + Len(SubSeq(d, 1, fill)) <= Block
      BY <2>2, <2>4, <2>6, <2>9
    <3>2. full \in Buffers
      BY <2>4, <2>9, <3>1, CopyType
    <3>3. SubSeq(full, 1, left + Len(SubSeq(d, 1, fill)))
            = SubSeq(c.Buffer, 1, left) \o SubSeq(d, 1, fill)
      BY <2>4, <2>9, <3>1, CopyFront
    <3>4. QED
      BY <2>4, <2>9, <3>2, <3>3
  <2> HIDE DEF full, tail
  <2>11. buf \in Buffers /\ SubSeq(buf, 1, at + kept) = SubSeq(full, 1, at) \o tail
    <3>1. at \in 0..Block /\ at + kept <= Block
      BY <2>2, <2>6, <2>7
    <3>2. QED
      BY <2>9, <2>10, <3>1, CopyType, CopyFront
  <2>12. /\ head \in Seq(Nat) /\ SubSeq(full, 1, at) \in Seq(Nat)
         /\ head \o SubSeq(d, fill + 1, whole) \o SubSeq(full, 1, at)
              = Rest(c) \o SubSeq(d, 1, whole)
    <3>1. full \in Seq(Nat) /\ Len(full) = Block
      BY <2>10, BufferSeq
    <3>2. SubSeq(d, 1, whole) \in Seq(Nat)
      BY <2>2, <2>8, CutFront
    <3>3. CASE fill > 0
      <4>1. head = full /\ at = 0 /\ left + fill = Block
        BY <2>2, <2>4, <2>6, <3>3
      <4>2. SubSeq(full, 1, at) = << >>
        BY <3>1, <4>1, CutWhole
      <4>3. full = Rest(c) \o SubSeq(d, 1, fill)
        BY <2>10, <3>1, <4>1, CutWhole
      <4>4. SubSeq(d, 1, fill) \o SubSeq(d, fill + 1, whole) = SubSeq(d, 1, whole)
        <5>1. fill \in 0..Len(d) /\ whole \in fill..Len(d)
          BY <2>8
        <5>2. QED
          BY <2>2, <5>1, CutTwice
      <4>5. full \o SubSeq(d, fill + 1, whole) = Rest(c) \o SubSeq(d, 1, whole)
        <5> DEFINE first == SubSeq(d, 1, fill)
                   second == SubSeq(d, fill + 1, whole)
                   both == SubSeq(d, 1, whole)
        <5>1. Rest(c) \in Bytes /\ first \in Bytes /\ second \in Bytes
          BY <2>4, <2>9 DEF Bytes
        <5>2. full = Joined(Rest(c), first) /\ Joined(first, second) = both
          BY <4>3, <4>4 DEF Joined
        <5> HIDE DEF first, second, both
        <5>3. Joined(full, second) = Joined(Rest(c), both)
          BY <5>1, <5>2, BytesJoined
        <5>4. QED
          BY <5>3 DEF second, both, Joined
      <4>6. full \o SubSeq(d, fill + 1, whole) \in Seq(Nat)
        BY <2>9, <3>1, Joins
      <4>7. (full \o SubSeq(d, fill + 1, whole)) \o << >>
              = full \o SubSeq(d, fill + 1, whole)
        BY <4>6, JoinsNone
      <4>8. << >> \in Seq(Nat)
        OBVIOUS
      <4>9. QED
        BY <3>1, <4>1, <4>2, <4>5, <4>7, <4>8
    <3>4. CASE fill = 0
      <4>1. head = << >> /\ at = left /\ << >> \in Seq(Nat)
        BY <2>6, <3>4
      <4>2. SubSeq(full, 1, at) = Rest(c)
        <5>1. SubSeq(d, 1, fill) = << >> /\ left + fill = left
          BY <2>2, <2>4, <3>4, CutWhole
        <5>2. QED
          BY <2>4, <2>10, <4>1, <5>1, JoinsNone
      <4>3. fill + 1 = 1
        BY <3>4
      <4>4. CASE left = 0
        <5>1. Rest(c) = << >>
          BY <2>4, <4>4
        <5>2. << >> \o SubSeq(d, 1, whole) = SubSeq(d, 1, whole)
          BY <3>2, JoinsNone
        <5>3. SubSeq(d, 1, whole) \o << >> = SubSeq(d, 1, whole)
          BY <3>2, JoinsNone
        <5>4. QED
          BY <4>1, <4>2, <4>3, <5>1, <5>2, <5>3
      <4>5. CASE left # 0
        <5>1. whole = 0
          BY <2>2, <2>7, <2>8, <3>4, <4>5
        <5>2. SubSeq(d, 1, whole) = << >>
          BY <2>2, <5>1, CutWhole
        <5>3. << >> \o << >> = << >>
          BY <4>1, JoinsNone
        <5>4. << >> \o Rest(c) = Rest(c) /\ Rest(c) \o << >> = Rest(c)
          BY <2>4, JoinsNone
        <5>5. QED
          BY <2>4, <4>1, <4>2, <4>3, <5>2, <5>3, <5>4
      <4>6. QED
        BY <4>4, <4>5
    <3>5. QED
      BY <2>6, <3>3, <3>4
  <2> HIDE DEF buf, head
  <2>13. blocks \in Seq(Nat) /\ blocks \o SubSeq(buf, 1, at + kept) = m \o d
    <3> DEFINE mid == SubSeq(d, fill + 1, whole)
               old == SubSeq(full, 1, at)
               front == SubSeq(d, 1, whole)
               state == c.State
    <3>1. /\ mid \in Seq(Nat) /\ old \in Seq(Nat) /\ head \in Seq(Nat)
          /\ tail \in Seq(Nat) /\ front \in Seq(Nat)
          /\ c.State \in Seq(Nat) /\ Rest(c) \in Seq(Nat)
          /\ (head \o mid) \o old = Rest(c) \o front
          /\ c.State \o Rest(c) = m
          /\ SubSeq(buf, 1, at + kept) = old \o tail
      BY <2>2, <2>3, <2>4, <2>8, <2>9, <2>11, <2>12, CutFront
    <3>2. front \o tail = d
      <4>1. whole \in 0..Len(d) /\ Len(d) \in whole..Len(d)
        BY <2>8
      <4>2. front \o tail = SubSeq(d, 1, Len(d))
        BY <2>2, <2>8, <4>1, CutTwice DEF tail
      <4>3. QED
        BY <2>2, <4>2, CutWhole
    <3>3. blocks = Joined(Joined(state, head), mid)
      BY DEF Joined
    <3> HIDE DEF mid, old, front, state, blocks
    <3>4. /\ mid \in Bytes /\ old \in Bytes /\ head \in Bytes /\ tail \in Bytes
          /\ front \in Bytes /\ state \in Bytes /\ Rest(c) \in Bytes
      BY <3>1 DEF Bytes, state
    <3>5. /\ Joined(Joined(head, mid), old) = Joined(Rest(c), front)
          /\ Joined(state, Rest(c)) = m
          /\ Joined(front, tail) = d
          /\ SubSeq(buf, 1, at + kept) = Joined(old, tail)
      BY <3>1, <3>2 DEF Joined, state
    <3>6. Joined(head, mid) \in Bytes
      BY <3>4, BytesJoined
    <3>7. blocks = Joined(state, Joined(head, mid)) /\ blocks \in Bytes
      BY <3>3, <3>4, <3>6, BytesJoined
    <3>8. Joined(blocks, old) = Joined(state, Joined(Rest(c), front))
      BY <3>4, <3>5, <3>6, <3>7, BytesJoined
    <3>9. Joined(m, front) = Joined(state, Joined(Rest(c), front))
      BY <3>4, <3>5, BytesJoined
    <3>10. Joined(blocks, Joined(old, tail)) = Joined(m, d)
      <4>1. Joined(Joined(blocks, old), tail) = Joined(blocks, Joined(old, tail))
        BY <3>4, <3>7, BytesJoined
      <4>2. Joined(Joined(m, front), tail) = Joined(m, d)
        BY <3>4, <3>5, BytesJoined
      <4>3. QED
        BY <3>8, <3>9, <4>1, <4>2
    <3>11. blocks \o SubSeq(buf, 1, at + kept) = m \o d
      BY <3>5, <3>10 DEF Joined
    <3>12. QED
      BY <3>7, <3>11 DEF Bytes
  <2>14. /\ Counted(c, n) \in Contexts
         /\ Counted(c, n).Total[1] + (WordMax * Counted(c, n).Total[2])
              = Len(m \o d) % (WordMax * WordMax)
    <3>1. Len(m \o d) = Len(m) + n
      BY <2>2 DEF n
    <3>2. c \in Contexts /\ n \in 1..(WordMax - 1)
      BY <2>2, <2>3
    <3>3. PICK len \in Nat :
            /\ len = Len(m)
            /\ c.Total[1] + (WordMax * c.Total[2]) = len % (WordMax * WordMax)
      BY <2>3
    <3>4. /\ Counted(c, n) \in Contexts
          /\ Counted(c, n).Total[1] + (WordMax * Counted(c, n).Total[2])
               = (len + n) % (WordMax * WordMax)
      BY <3>2, <3>3, CountedRight
    <3>5. Len(m \o d) = len + n
      BY <3>1, <3>3
    <3>6. QED
      BY <3>4, <3>5
  <2> HIDE DEF blocks
  <2>15. new \in Contexts /\ new.Total = Counted(c, n).Total
         /\ new.State = blocks /\ new.Buffer = buf
    BY <2>11, <2>13, <2>14 DEF Contexts
  <2> HIDE DEF new
  <2>16. new.Total[1] % Block = at + kept
    <3>1. Len(m \o d) = Len(m) + n /\ Len(m \o d) \in Nat
      BY <2>2 DEF n
    <3>2. new.Total[1] % Block = Len(m \o d) % Block
      BY <2>14, <2>15, <3>1, RestSeq, LeftOfLength
    <3>3. QED
      BY <2>7, <3>1, <3>2
  <2>17. QED
    BY <2>1, <2>13, <2>14, <2>15, <2>16 DEF Holds, Rest
<1>3. QED
  BY <1>1, <1>2

-----------------------------------------------------------------------------
(* The length field. *)

Power(k) == Base ^ k

LEMMA Powers ==
  ASSUME NEW k \in 0..(Half - 1)
  PROVE  /\ Power(k) \in Nat \ {0}
         /\ \E q \in Nat \ {0} : WordMax = Power(k) * (Base * q)
         /\ Power(Half + k) = WordMax * Power(k)
BY PowersAssumption DEF Power

LEMMA Sizes ==
  /\ Base \in Nat \ {0} /\ Half \in Nat \ {0} /\ Block \in Nat \ {0}
  /\ Block > 2 * Half
BY Md5Assumption

(* A digit of a word does not change with what is above the word. *)
LEMMA Digit ==
  ASSUME NEW a \in Int, NEW x \in Int, NEW k \in 0..(Half - 1)
  PROVE  ((a + (WordMax * x)) \div Power(k)) % Base = (a \div Power(k)) % Base
<1>1. PICK p \in Nat \ {0}, q \in Nat \ {0} : p = Power(k) /\ WordMax = p * (Base * q)
  BY Powers
<1>2. PICK b \in Nat \ {0} : b = Base
  BY Sizes
<1>3. PICK y \in Int : y = q * x
  OBVIOUS
<1>4. PICK z \in Int : z = b * y
  OBVIOUS
<1>5. WordMax * x = p * z
  <2>1. (p * (b * q)) * x = p * ((b * q) * x)
    BY Products
  <2>2. (b * q) * x = b * (q * x)
    BY Products
  <2>3. QED
    BY <1>1, <1>2, <1>3, <1>4, <2>1, <2>2
<1>6. (a + (p * z)) \div p = (a \div p) + z
  BY DivisionAdds
<1>7. PICK d \in Int : d = a \div p
  BY Division
<1>8. (d + (b * y)) % b = d % b
  BY DivisionAdds
<1>9. QED
  BY <1>1, <1>2, <1>4, <1>5, <1>6, <1>7, <1>8

(* The two shifted words are the low words of the length in bits. *)
LEMMA BitsOfLength ==
  ASSUME NEW low \in 0..(WordMax - 1), NEW high \in 0..(WordMax - 1), NEW n \in Nat,
         low + (WordMax * high) = n % (WordMax * WordMax)
  PROVE  \E x \in Int :
           LET lowBits == (low * ByteBits) % WordMax
               highBits == (low \div (WordMax \div ByteBits))
                             + ((high * ByteBits) % WordMax)
           IN  /\ lowBits \in 0..(WordMax - 1) /\ highBits \in Int
               /\ n * ByteBits = (WordMax * (highBits + (WordMax * x))) + lowBits
<1>1. PICK W \in Nat \ {0}, b \in Nat \ {0}, w \in Nat \ {0} :
        W = WordMax /\ b = ByteBits /\ W = b * w
  BY WordFacts
<1>2. W \div b = w
  <2>1. Composed(W, b, w, 0)
    BY <1>1 DEF Composed
  <2>2. QED
    BY <2>1, ComposedDivides
<1>3. low \in Int /\ high \in Int /\ n \in Int
  BY <1>1
<1>4. PICK c \in Int, r \in 0..(w - 1) : c = low \div w /\ low = (w * c) + r
  <2>1. /\ low = (w * (low \div w)) + (low % w)
        /\ low % w \in 0..(w - 1) /\ low \div w \in Int
    BY <1>3, Division
  <2>2. QED
    BY <2>1
<1>5. PICK s \in Int : s = b * r /\ s \in 0..(W - 1)
  <2>1. b * r <= b * (w - 1) /\ b * r >= 0
    OBVIOUS
  <2>2. b * (w - 1) = W - b
    BY <1>1
  <2>3. QED
    BY <1>1, <2>1, <2>2
<1>6. low * b = (W * c) + s
  <2>1. b * low = (b * (w * c)) + (b * r)
    BY <1>3, <1>4, Products
  <2>2. b * (w * c) = (b * w) * c
    BY Products
  <2>3. low * b = b * low
    BY <1>3, Products
  <2>4. QED
    BY <1>1, <1>5, <2>1, <2>2, <2>3
<1>7. (low * b) % W = s
  <2>1. Composed(low * b, W, c, s)
    BY <1>3, <1>5, <1>6 DEF Composed
  <2>2. QED
    BY <2>1, ComposedDivides
<1>8. PICK hb \in Int : hb = high * b
  BY <1>3
<1>9. PICK y \in Int, h \in Int : h = hb % W /\ hb = (W * y) + h
  <2>1. hb = (W * (hb \div W)) + (hb % W) /\ hb % W \in 0..(W - 1) /\ hb \div W \in Int
    BY Division
  <2>2. hb % W \in Int
    BY <2>1
  <2>3. QED
    BY <2>1, <2>2
<1>10. PICK ww \in Nat \ {0} : ww = W * W
  OBVIOUS
<1>11. PICK z \in Int : n = (ww * z) + (low + (W * high))
  <2>1. n = (ww * (n \div ww)) + (n % ww) /\ n \div ww \in Int
    BY <1>3, Division
  <2>2. n % ww = low + (W * high)
    BY <1>1, <1>10
  <2>3. QED
    BY <2>1, <2>2
<1>12. PICK x \in Int : x = y + (z * b)
  OBVIOUS
<1>13. n * b = (W * ((c + h) + (W * x))) + s
  <2>1. PICK zb \in Int, k \in Int : zb = z * b /\ k = h + (W * x)
    OBVIOUS
  <2>2. n * b = (ww * zb) + ((low * b) + (W * hb))
    <3>1. b * n = (b * (ww * z)) + ((b * low) + (b * (W * high)))
      <4>1. PICK u \in Int, v \in Int : u = ww * z /\ v = W * high
        BY <1>3
      <4>2. n = u + (low + v)
        BY <1>11, <4>1
      <4>3. b * n = (b * u) + (b * (low + v))
        BY <1>3, <4>2, Products
      <4>4. b * (low + v) = (b * low) + (b * v)
        BY <1>3, Products
      <4>5. QED
        BY <4>1, <4>3, <4>4
    <3>2. b * (ww * z) = ww * zb
      <4>1. b * (ww * z) = (b * ww) * z /\ (ww * b) * z = ww * (b * z)
        BY Products
      <4>2. b * ww = ww * b /\ b * z = z * b
        BY Products
      <4>3. QED
        BY <2>1, <4>1, <4>2
    <3>3. b * (W * high) = W * hb
      <4>1. b * (W * high) = (b * W) * high /\ (W * b) * high = W * (b * high)
        BY <1>3, Products
      <4>2. b * W = W * b /\ b * high = high * b
        BY <1>3, Products
      <4>3. QED
        BY <1>8, <4>1, <4>2
    <3>4. b * n = n * b /\ b * low = low * b
      BY <1>3, Products
    <3>5. QED
      BY <3>1, <3>2, <3>3, <3>4
  <2>3. W * hb = (ww * y) + (W * h)
    <3>1. W * ((W * y) + h) = (W * (W * y)) + (W * h)
      OBVIOUS
    <3>2. W * (W * y) = (W * W) * y
      BY Products
    <3>3. QED
      BY <1>9, <1>10, <3>1, <3>2
  <2>4. W * (W * x) = (ww * y) + (ww * zb)
    <3>1. W * (W * x) = (W * W) * x
      BY Products
    <3>2. ww * (y + zb) = (ww * y) + (ww * zb)
      OBVIOUS
    <3>3. QED
      BY <1>10, <1>12, <2>1, <3>1, <3>2
  <2>5. W * (c + k) = (W * c) + (W * k) /\ W * k = (W * h) + (W * (W * x))
    BY <2>1
  <2>6. (c + h) + (W * x) = c + k
    BY <2>1
  <2>7. PICK t1 \in Int, t2 \in Int, t3 \in Int, t4 \in Int :
          t1 = ww * zb /\ t2 = W * c /\ t3 = ww * y /\ t4 = W * h
    OBVIOUS
  <2>8. n * b = t1 + ((t2 + s) + (t3 + t4))
    BY <1>6, <2>2, <2>3, <2>7
  <2>9. W * (c + k) = t2 + (t4 + (t3 + t1))
    BY <2>4, <2>5, <2>7
  <2>10. QED
    BY <2>6, <2>8, <2>9
<1>14. /\ (low * ByteBits) % WordMax = s
       /\ (low \div (WordMax \div ByteBits)) + ((high * ByteBits) % WordMax) = c + h
  BY <1>1, <1>2, <1>4, <1>7, <1>8, <1>9
<1> DEFINE lowBits == (low * ByteBits) % WordMax
           highBits == (low \div (WordMax \div ByteBits))
                         + ((high * ByteBits) % WordMax)
<1>15. lowBits = s /\ highBits = c + h
  BY <1>14
<1> HIDE DEF lowBits, highBits
<1>16. /\ lowBits \in 0..(WordMax - 1) /\ highBits \in Int
       /\ n * ByteBits = (WordMax * (highBits + (WordMax * x))) + lowBits
  BY <1>1, <1>5, <1>13, <1>15
<1>17. \E u \in Int :
         /\ lowBits \in 0..(WordMax - 1) /\ highBits \in Int
         /\ n * ByteBits = (WordMax * (highBits + (WordMax * u))) + lowBits
  BY <1>16
<1>18. QED
  BY <1>17, Zenon DEF lowBits, highBits

LEMMA WordDigits ==
  ASSUME NEW n \in Int
  PROVE  /\ LittleEndian(n) \in Seq(Nat) /\ Len(LittleEndian(n)) = Half
         /\ \A k \in 1..Half : LittleEndian(n)[k] = (n \div Power(k - 1)) % Base
<1>1. ASSUME NEW k \in 1..Half
      PROVE  (n \div Power(k - 1)) % Base \in Nat
  <2>1. PICK j \in 0..(Half - 1) : j = k - 1
    BY Sizes
  <2>2. PICK p \in Nat \ {0}, b \in Nat \ {0} : p = Power(j) /\ b = Base
    BY Powers, Sizes
  <2>3. PICK q \in Int : q = n \div p
    BY Division
  <2>4. q % b \in 0..(b - 1)
    BY Division
  <2>5. QED
    BY <2>1, <2>2, <2>3, <2>4
<1>2. LittleEndian(n) = [k \in 1..Half |-> (n \div Power(k - 1)) % Base]
  BY DEF LittleEndian, Power
<1>3. Half \in Nat
  BY Sizes
<1>4. QED
  BY <1>1, <1>2, <1>3

LEMMA LengthDigits ==
  ASSUME NEW total, NEW n \in Nat,
         total[1] \in 0..(WordMax - 1), total[2] \in 0..(WordMax - 1),
         total[1] + (WordMax * total[2]) = n % (WordMax * WordMax)
  PROVE  /\ LengthField(total)
              = [k \in 1..(2 * Half) |-> ((n * ByteBits) \div (Base ^ (k - 1))) % Base]
         /\ LengthField(total) \in Seq(Nat) /\ Len(LengthField(total)) = 2 * Half
<1> DEFINE low == (total[1] * ByteBits) % WordMax
           high == (total[1] \div (WordMax \div ByteBits))
                     + ((total[2] * ByteBits) % WordMax)
           digit(k) == ((n * ByteBits) \div Power(k - 1)) % Base
           all == [k \in 1..(2 * Half) |-> digit(k)]
<1>1. PICK x \in Int :
        /\ low \in 0..(WordMax - 1) /\ high \in Int
        /\ n * ByteBits = (WordMax * (high + (WordMax * x))) + low
  <2>1. PICK t1 \in 0..(WordMax - 1), t2 \in 0..(WordMax - 1) :
          t1 = total[1] /\ t2 = total[2]
    OBVIOUS
  <2>2. t1 + (WordMax * t2) = n % (WordMax * WordMax)
    BY <2>1
  <2>3. QED
    BY <2>1, <2>2, BitsOfLength
<1>2. LengthField(total) = Joined(LittleEndian(low), LittleEndian(high))
  BY DEF LengthField, Joined
<1> HIDE DEF low, high
<1>3. /\ WordMax \in Nat \ {0} /\ Half \in Nat \ {0} /\ low \in Int
  BY <1>1, WordFacts, Sizes
<1>4. PICK bits \in Nat : bits = n * ByteBits
  BY WordFacts
<1>5. PICK y \in Int : y = high + (WordMax * x)
  BY <1>1, <1>3
<1>6. bits = (WordMax * y) + low
  BY <1>1, <1>4, <1>5
<1>7. ASSUME NEW k \in 1..Half
      PROVE  LittleEndian(low)[k] = digit(k)
  <2>1. PICK j \in 0..(Half - 1) : j = k - 1
    BY <1>3
  <2>2. bits = low + (WordMax * y)
    <3>1. WordMax * y \in Int
      BY <1>3
    <3>2. QED
      BY <1>3, <1>6, <3>1
  <2>3. ((low + (WordMax * y)) \div Power(j)) % Base = (low \div Power(j)) % Base
    BY <1>3, Digit
  <2>4. QED
    BY <1>3, <1>4, <2>1, <2>2, <2>3, WordDigits
<1>8. ASSUME NEW k \in (Half + 1)..(Half + Half)
      PROVE  LittleEndian(high)[k - Half] = digit(k)
  <2>1. PICK j \in 0..(Half - 1) : j = (k - Half) - 1 /\ Half + j = k - 1
    BY <1>3
  <2>2. PICK p \in Nat \ {0} : p = Power(j) /\ Power(k - 1) = WordMax * p
    BY <2>1, Powers
  <2>3. bits \div WordMax = y
    <3>1. Composed(bits, WordMax, y, low)
      BY <1>1, <1>3, <1>6 DEF Composed
    <3>2. QED
      BY <3>1, ComposedDivides
  <2>4. bits \div (WordMax * p) = (bits \div WordMax) \div p
    BY <1>3, DivisionTwice
  <2>5. ((high + (WordMax * x)) \div Power(j)) % Base = (high \div Power(j)) % Base
    BY <1>1, Digit
  <2>6. digit(k) = (high \div Power(j)) % Base
    BY <1>4, <1>5, <2>2, <2>3, <2>4, <2>5
  <2>7. k - Half \in 1..Half
    BY <1>3
  <2>8. QED
    BY <1>1, <2>1, <2>6, <2>7, WordDigits
<1>9. PICK one \in Bytes, two \in Bytes :
        /\ one = LittleEndian(low) /\ two = LittleEndian(high)
        /\ Len(one) = Half /\ Len(two) = Half
  BY <1>1, <1>3, WordDigits DEF Bytes
<1>10. PICK both \in Bytes :
         /\ both = Joined(one, two) /\ Len(both) = Len(one) + Len(two)
         /\ \A k \in 1..Len(one) : both[k] = one[k]
         /\ \A k \in (Len(one) + 1)..(Len(one) + Len(two)) : both[k] = two[k - Len(one)]
  BY JoinedAt
<1>11. /\ Len(both) = Half + Half
       /\ \A k \in 1..Half : both[k] = one[k]
       /\ \A k \in (Half + 1)..(Half + Half) : both[k] = two[k - Half]
  BY <1>9, <1>10
<1>12. \A k \in 1..(2 * Half) : both[k] = digit(k)
  <2>1. SUFFICES ASSUME NEW k \in 1..(2 * Half)
                 PROVE  both[k] = digit(k)
    OBVIOUS
  <2>2. CASE k \in 1..Half
    BY <1>7, <1>9, <1>11, <2>2
  <2>3. CASE k \in (Half + 1)..(Half + Half)
    BY <1>8, <1>9, <1>11, <2>3
  <2>4. QED
    BY <1>3, <2>2, <2>3
<1> HIDE DEF digit
<1>13. both \in Seq(Nat) /\ Len(both) = 2 * Half /\ DOMAIN both = 1..(2 * Half)
  BY <1>3, <1>11 DEF Bytes
<1>14. both = all
  BY <1>12, <1>13
<1>15. all = [k \in 1..(2 * Half) |-> ((n * ByteBits) \div (Base ^ (k - 1))) % Base]
  BY DEF digit, Power
<1>16. QED
  BY <1>2, <1>9, <1>10, <1>13, <1>14, <1>15

-----------------------------------------------------------------------------
(* The padding. *)

LEMMA ZerosJoined ==
  ASSUME NEW a \in Nat, NEW b \in Nat
  PROVE  Zeros(a) \in Bytes /\ Joined(Zeros(a), Zeros(b)) = Zeros(a + b)
<1>1. PICK one \in Bytes, two \in Bytes, all \in Bytes :
        /\ one = Zeros(a) /\ Len(one) = a /\ \A k \in 1..a : one[k] = 0
        /\ two = Zeros(b) /\ Len(two) = b /\ \A k \in 1..b : two[k] = 0
        /\ all = Zeros(a + b) /\ Len(all) = a + b /\ \A k \in 1..(a + b) : all[k] = 0
  BY ZerosSeq DEF Bytes
<1>2. PICK both \in Bytes :
        /\ both = Joined(one, two) /\ Len(both) = Len(one) + Len(two)
        /\ \A k \in 1..Len(one) : both[k] = one[k]
        /\ \A k \in (Len(one) + 1)..(Len(one) + Len(two)) : both[k] = two[k - Len(one)]
  BY JoinedAt
<1>3. ASSUME NEW k \in 1..(a + b)
      PROVE  both[k] = all[k]
  <2>1. CASE k <= a
    BY <1>1, <1>2, <2>1
  <2>2. CASE ~(k <= a)
    <3>1. k \in (a + 1)..(a + b) /\ k - a \in 1..b
      BY <2>2
    <3>2. both[k] = two[k - a] /\ two[k - a] = 0
      BY <1>1, <1>2, <3>1
    <3>3. QED
      BY <1>1, <3>2
  <2>3. QED
    BY <2>1, <2>2
<1>4. both = all
  <2>1. both \in Seq(Nat) /\ all \in Seq(Nat) /\ Len(both) = Len(all)
    BY <1>1, <1>2 DEF Bytes
  <2>2. \A k \in 1..Len(both) : both[k] = all[k]
    BY <1>1, <1>2, <1>3
  <2>3. QED
    BY <2>1, <2>2, SeqEqual
<1>5. QED
  BY <1>1, <1>2, <1>4

LEMMA JoinedCut ==
  ASSUME NEW r \in Bytes, NEW s \in Bytes
  PROVE  SubSeq(Joined(r, s), 1, Len(r)) = r
<1>1. PICK both \in Bytes :
        /\ both = Joined(r, s) /\ Len(both) = Len(r) + Len(s)
        /\ \A k \in 1..Len(r) : both[k] = r[k]
  BY JoinedAt
<1>2. Len(r) \in Nat /\ Len(s) \in Nat /\ both \in Seq(Nat) /\ r \in Seq(Nat)
  BY DEF Bytes
<1>3. PICK cut : cut = SubSeq(both, 1, Len(r))
  OBVIOUS
<1>4. Len(r) \in 0..Len(both)
  BY <1>1, <1>2
<1>5. cut \in Seq(Nat) /\ Len(cut) = Len(r) /\ \A k \in 1..Len(r) : cut[k] = both[k]
  BY <1>2, <1>3, <1>4, CutFront
<1>6. cut = r
  <2>1. \A k \in 1..Len(cut) : cut[k] = r[k]
    BY <1>1, <1>5
  <2>2. QED
    BY <1>2, <1>5, <2>1, SeqEqual
<1>7. QED
  BY <1>1, <1>3, <1>6

(* A copy into a buffer whose front is known, by the names above. *)
LEMMA CopyJoined ==
  ASSUME NEW buf \in Buffers, NEW r \in Bytes, NEW s \in Bytes,
         Len(r) + Len(s) <= Block, SubSeq(buf, 1, Len(r)) = r
  PROVE  /\ CopyTo(buf, Len(r), s) \in Buffers
         /\ SubSeq(CopyTo(buf, Len(r), s), 1, Len(r) + Len(s)) = Joined(r, s)
<1>1. /\ Len(r) \in Nat /\ Len(s) \in Nat /\ s \in Seq(Nat)
      /\ Block \in Nat /\ Len(r) \in 0..Block
  BY Sizes DEF Bytes
<1>2. CopyTo(buf, Len(r), s) \in Buffers
  BY <1>1, CopyType
<1>3. SubSeq(CopyTo(buf, Len(r), s), 1, Len(r) + Len(s)) = SubSeq(buf, 1, Len(r)) \o s
  BY <1>1, CopyFront
<1>4. QED
  BY <1>2, <1>3 DEF Joined

LEMMA WholeBuffer ==
  ASSUME NEW buf \in Buffers
  PROVE  buf \in Bytes /\ SubSeq(buf, 1, Block) = buf
BY BufferSeq, CutWhole DEF Bytes

(* MD5Finish gives the padded message to the compression function. *)
LEMMA FinishPads ==
  ASSUME NEW c, NEW m \in Bytes, Holds(c, m)
  PROVE  Digest(MD5Finish(c)) = Padded(m)
<1> DEFINE tail == LengthField(c.Total)
<1>1. /\ c \in Contexts /\ Len(m) \in Nat
      /\ c.State \o Rest(c) = m
      /\ c.Total[1] + (WordMax * c.Total[2]) = Len(m) % (WordMax * WordMax)
  BY DEF Holds, Bytes
<1>2. PICK left \in 0..(Block - 1) :
        left = c.Total[1] % Block /\ left = Len(m) % Block
  BY <1>1, RestSeq, LeftOfLength
<1>3. PICK S \in Bytes, R \in Bytes, P \in Bytes, buf \in Buffers, L \in Bytes :
        /\ S = c.State /\ R = Rest(c) /\ P = <<Pad>> /\ buf = c.Buffer /\ L = tail
        /\ Len(R) = left /\ Len(P) = 1 /\ Len(L) = 2 * Half
        /\ SubSeq(buf, 1, left) = R
        /\ L = [k \in 1..(2 * Half) |-> ((Len(m) * ByteBits) \div (Base ^ (k - 1))) % Base]
  <2>1. /\ c.Total[1] \in 0..(WordMax - 1) /\ c.Total[2] \in 0..(WordMax - 1)
        /\ c.State \in Seq(Nat) /\ c.Buffer \in Buffers
        /\ Rest(c) \in Seq(Nat) /\ Len(Rest(c)) = left
        /\ SubSeq(c.Buffer, 1, left) = Rest(c)
    BY <1>1, <1>2, RestSeq DEF Rest
  <2>2. /\ tail = [k \in 1..(2 * Half) |->
                     ((Len(m) * ByteBits) \div (Base ^ (k - 1))) % Base]
        /\ tail \in Seq(Nat) /\ Len(tail) = 2 * Half
    BY <1>1, <2>1, LengthDigits
  <2>3. <<Pad>> \in Seq(Nat) /\ Len(<<Pad>>) = 1
    BY PadByte
  <2> HIDE DEF tail
  <2>4. QED
    BY <2>1, <2>2, <2>3 DEF Bytes
<1>4. /\ Block \in Nat \ {0} /\ Half \in Nat \ {0} /\ Block > 2 * Half
  BY Sizes
<1>5. Len(R) = left /\ Len(P) = 1 /\ Len(L) = 2 * Half /\ SubSeq(buf, 1, left) = R
  BY <1>3
<1>6. PICK a \in Nat, z2 \in Nat :
        a = (Block - left) - 1 /\ z2 = Block - (2 * Half)
  BY <1>2, <1>4
<1>7. PICK Z1 \in Bytes, Z2 \in Bytes :
        /\ Z1 = Zeros(a) /\ Len(Z1) = a /\ Z2 = Zeros(z2) /\ Len(Z2) = z2
  BY ZerosSeq DEF Bytes
<1>8. PICK RP \in Bytes : RP = Joined(R, P) /\ Len(RP) = left + 1
  <2>1. Joined(R, P) \in Bytes /\ Len(Joined(R, P)) = Len(R) + Len(P)
    BY JoinedAt
  <2>2. QED
    BY <1>5, <2>1
(* The buffer after the padding byte and the zeros. *)
<1>9. PICK padded \in Buffers :
        /\ padded = CopyTo(CopyTo(buf, left, P), left + 1, Z1)
        /\ padded = Joined(RP, Z1) /\ padded \in Bytes
  <2>1. PICK b \in Buffers :
          b = CopyTo(buf, left, P) /\ SubSeq(b, 1, left + 1) = RP
    <3>1. Len(R) + Len(P) <= Block /\ SubSeq(buf, 1, Len(R)) = R
      BY <1>2, <1>4, <1>5
    <3>2. /\ CopyTo(buf, Len(R), P) \in Buffers
          /\ SubSeq(CopyTo(buf, Len(R), P), 1, Len(R) + Len(P)) = Joined(R, P)
      BY <3>1, CopyJoined
    <3>3. QED
      BY <1>5, <1>8, <3>2
  <2>2. Len(RP) + Len(Z1) = Block
    <3>1. Len(RP) = left + 1 /\ Len(Z1) = a
      BY <1>7, <1>8
    <3>2. (left + 1) + a = Block
      BY <1>4, <1>6
    <3>3. QED
      BY <3>1, <3>2
  <2>3. /\ CopyTo(b, left + 1, Z1) \in Buffers
        /\ SubSeq(CopyTo(b, left + 1, Z1), 1, Block) = Joined(RP, Z1)
    <3>1. Len(RP) + Len(Z1) <= Block /\ SubSeq(b, 1, Len(RP)) = RP
      BY <1>4, <1>8, <2>1, <2>2
    <3>2. /\ CopyTo(b, Len(RP), Z1) \in Buffers
          /\ SubSeq(CopyTo(b, Len(RP), Z1), 1, Len(RP) + Len(Z1)) = Joined(RP, Z1)
      BY <3>1, CopyJoined
    <3>3. QED
      BY <1>8, <2>2, <3>2
  <2>4. QED
    BY <2>1, <2>3, WholeBuffer
<1>10. Padded(m) = Joined(Joined(Joined(Joined(S, R), P), Zeros(((Block - (2 * Half)) - 1 - Len(m)) % Block)), L)
  BY <1>1, <1>3 DEF Padded, Joined
(* The zeros that RFC 1321 asks for. *)
<1>11. PICK z \in Nat :
         /\ z = ((Block - (2 * Half)) - 1 - Len(m)) % Block
         /\ left + 1 <= z2 => z = z2 - (left + 1)
         /\ ~(left + 1 <= z2) => z = a + z2
  <2>1. PICK len \in Int : len = Len(m)
    BY <1>1
  <2>2. PICK q \in Int : q = len \div Block /\ len = (Block * q) + left
    <3>1. len = (Block * (len \div Block)) + (len % Block) /\ len \div Block \in Int
      BY <1>4, Division
    <3>2. len % Block = left
      BY <1>2, <2>1
    <3>3. QED
      BY <3>1, <3>2
  <2>3. PICK d \in Int : d = (Block - (2 * Half)) - 1 - Len(m) /\ d = z2 - 1 - len
    <3>1. (Block - (2 * Half)) - 1 - Len(m) = z2 - 1 - len /\ z2 - 1 - len \in Int
      BY <1>6, <2>1
    <3>2. QED
      BY <3>1
  <2>4. CASE left + 1 <= z2
    <3>1. PICK p \in Int, r \in Nat : p = -q /\ r = z2 - (left + 1)
      BY <1>2, <2>4
    <3>2. Block * p = -(Block * q) /\ Block * p \in Int /\ Block * q \in Int
      BY <1>4, <3>1
    <3>3. d = (Block * p) + r
      <4>1. PICK bp \in Int, bq \in Int : bp = Block * p /\ bq = Block * q
        BY <3>2
      <4>2. d = z2 - 1 - (bq + left)
        BY <2>2, <2>3, <4>1
      <4>3. bp = -bq
        BY <1>4, <3>2, <4>1
      <4>4. d = bp + r
        BY <1>4, <3>1, <4>2, <4>3
      <4>5. QED
        BY <4>1, <4>4
    <3>4. r \in 0..(Block - 1) /\ Block \in Nat \ {0}
      BY <1>2, <1>4, <1>6, <3>1
    <3>5. Composed(d, Block, p, r)
      BY <3>3, <3>4 DEF Composed
    <3>6. d % Block = r
      BY <3>5, ComposedDivides
    <3>7. QED
      BY <2>3, <2>4, <3>1, <3>6
  <2>5. CASE ~(left + 1 <= z2)
    <3>1. PICK p \in Int, r \in Nat : p = (-q) - 1 /\ r = a + z2
      OBVIOUS
    <3>2. Block * p = (-(Block * q)) - Block /\ Block * p \in Int /\ Block * q \in Int
      BY <1>4, <3>1
    <3>3. d = (Block * p) + r
      <4>1. PICK bp \in Int, bq \in Int : bp = Block * p /\ bq = Block * q
        BY <3>2
      <4>2. d = z2 - 1 - (bq + left)
        BY <2>2, <2>3, <4>1
      <4>3. bp = (-bq) - Block
        BY <1>4, <3>2, <4>1
      <4>4. d = bp + r
        BY <1>4, <1>6, <3>1, <4>2, <4>3
      <4>5. QED
        BY <4>1, <4>4
    <3>4. r \in 0..(Block - 1) /\ Block \in Nat \ {0}
      BY <1>2, <1>4, <1>6, <2>5, <3>1
    <3>5. Composed(d, Block, p, r)
      BY <3>3, <3>4 DEF Composed
    <3>6. d % Block = r
      BY <3>5, ComposedDivides
    <3>7. QED
      BY <2>3, <2>5, <3>1, <3>6
  <2>6. QED
    BY <2>4, <2>5
<1>12. PICK Z \in Bytes : Z = Zeros(z) /\ Len(Z) = z
  BY ZerosSeq DEF Bytes
<1>13. Padded(m) = Joined(Joined(Joined(Joined(S, R), P), Z), L)
  BY <1>10, <1>11, <1>12
<1>14. /\ left + 1 <= z2 =>
            Digest(MD5Finish(c)) = Joined(S, CopyTo(padded, z2, L))
       /\ ~(left + 1 <= z2) =>
            Digest(MD5Finish(c))
              = Joined(Joined(S, padded), CopyTo(CopyTo(padded, 0, Z2), z2, L))
  <2>1. /\ ((c.Total[1] % Block) + 1) - 1 = left /\ (c.Total[1] % Block) + 1 = left + 1
        /\ Block - (left + 1) = a
    BY <1>2, <1>4, <1>6
  <2> DEFINE full == CopyTo(CopyTo(c.Buffer, ((c.Total[1] % Block) + 1) - 1, <<Pad>>),
                            (c.Total[1] % Block) + 1,
                            Zeros(Block - ((c.Total[1] % Block) + 1)))
  <2>2. full = padded
    BY <1>3, <1>7, <1>9, <2>1, Zenon
  <2>3. c \in Contexts /\ c.State = S /\ z2 = Block - (2 * Half) /\ LengthField(c.Total) = L
    BY <1>1, <1>3, <1>6
  <2>4. CASE left + 1 <= z2
    <3>1. LengthFits((c.Total[1] % Block) + 1)
      BY <1>6, <2>1, <2>4 DEF LengthFits
    <3>2. MD5Finish(c).State = c.State \o CopyTo(full, Block - (2 * Half), LengthField(c.Total))
      BY <2>3, <3>1 DEF MD5Finish, Contexts
    <3> HIDE DEF full
    <3>3. QED
      BY <2>2, <2>3, <2>4, <3>2 DEF Digest, Joined
  <2>5. CASE ~(left + 1 <= z2)
    <3>1. ~LengthFits((c.Total[1] % Block) + 1)
      BY <1>6, <2>1, <2>5 DEF LengthFits
    <3>2. MD5Finish(c).State
            = (c.State \o full) \o CopyTo(CopyTo(full, 0, Zeros(Block - (2 * Half))),
                                          Block - (2 * Half), LengthField(c.Total))
      BY <2>3, <3>1 DEF MD5Finish, Contexts
    <3> HIDE DEF full
    <3>3. QED
      BY <1>7, <2>2, <2>3, <2>5, <3>2 DEF Digest, Joined
  <2>6. QED
    BY <2>4, <2>5
<1>15. CASE left + 1 <= z2
  <2>1. PICK RPZ \in Bytes : RPZ = Joined(RP, Z) /\ Len(RPZ) = z2
    <3>1. Joined(RP, Z) \in Bytes /\ Len(Joined(RP, Z)) = Len(RP) + Len(Z)
      BY JoinedAt
    <3>2. Len(RP) + Len(Z) = z2
      BY <1>2, <1>8, <1>11, <1>12, <1>15
    <3>3. QED
      BY <3>1, <3>2
  <2>2. PICK rest \in Bytes : Z1 = Joined(Z, rest)
    <3>1. PICK h \in Nat : h = 2 * Half /\ a = z + h
      <4>1. z = z2 - (left + 1)
        BY <1>11, <1>15
      <4>2. a = z + (2 * Half)
        BY <1>2, <1>4, <1>6, <4>1
      <4>3. QED
        BY <1>4, <4>2
    <3>2. Zeros(h) \in Bytes /\ Joined(Zeros(z), Zeros(h)) = Zeros(z + h)
      BY ZerosJoined
    <3>3. QED
      BY <1>7, <1>12, <3>1, <3>2
  <2>3. padded = Joined(RPZ, rest)
    BY <1>9, <2>1, <2>2, BytesJoined
  <2>4. SubSeq(padded, 1, Len(RPZ)) = RPZ
    BY <2>3, JoinedCut
  <2>5. CopyTo(padded, z2, L) = Joined(RPZ, L)
    <3>1. Len(RPZ) + Len(L) = Block
      BY <1>4, <1>5, <1>6, <2>1
    <3>2. Len(RPZ) + Len(L) <= Block
      BY <1>4, <3>1
    <3>3. /\ CopyTo(padded, Len(RPZ), L) \in Buffers
          /\ SubSeq(CopyTo(padded, Len(RPZ), L), 1, Len(RPZ) + Len(L)) = Joined(RPZ, L)
      BY <2>4, <3>2, CopyJoined
    <3>4. PICK full \in Buffers :
            full = CopyTo(padded, z2, L) /\ SubSeq(full, 1, Block) = Joined(RPZ, L)
      BY <2>1, <3>1, <3>3
    <3>5. QED
      BY <3>4, WholeBuffer
  <2>6. Joined(S, Joined(RPZ, L)) = Joined(Joined(S, RPZ), L)
    BY <2>1, BytesJoined
  <2>7. Joined(S, RPZ) = Joined(Joined(Joined(S, R), P), Z)
    <3>1. Joined(S, Joined(RP, Z)) = Joined(Joined(S, RP), Z)
      BY BytesJoined
    <3>2. Joined(S, Joined(R, P)) = Joined(Joined(S, R), P)
      BY BytesJoined
    <3>3. QED
      BY <1>8, <2>1, <3>1, <3>2
  <2>8. QED
    BY <1>13, <1>14, <1>15, <2>5, <2>6, <2>7
<1>16. CASE ~(left + 1 <= z2)
  <2>1. PICK none \in Bytes : none = << >> /\ Len(none) = 0
    <3>1. << >> \in Bytes /\ Len(<< >>) = 0
      BY DEF Bytes
    <3>2. QED
      BY <3>1
  <2>2. PICK zeroed \in Buffers :
          zeroed = CopyTo(padded, 0, Z2) /\ SubSeq(zeroed, 1, z2) = Z2
    <3>1. SubSeq(padded, 1, 0) = << >>
      BY <1>9, CutWhole DEF Bytes
    <3>2. /\ CopyTo(padded, 0, Z2) \in Buffers
          /\ SubSeq(CopyTo(padded, 0, Z2), 1, 0 + Len(Z2)) = Joined(none, Z2)
      <4>1. Len(none) + Len(Z2) <= Block /\ SubSeq(padded, 1, Len(none)) = none
        BY <1>4, <1>6, <1>7, <2>1, <3>1
      <4>2. /\ CopyTo(padded, Len(none), Z2) \in Buffers
            /\ SubSeq(CopyTo(padded, Len(none), Z2), 1, Len(none) + Len(Z2))
                 = Joined(none, Z2)
        BY <4>1, CopyJoined
      <4>3. QED
        BY <2>1, <4>2
    <3>3. Joined(none, Z2) = Z2
      BY <2>1, JoinsNone DEF Joined, Bytes
    <3>4. 0 + Len(Z2) = z2
      BY <1>7
    <3>5. QED
      BY <3>2, <3>3, <3>4
  <2>3. CopyTo(zeroed, z2, L) = Joined(Z2, L)
    <3>1. Len(Z2) + Len(L) = Block
      BY <1>4, <1>5, <1>6, <1>7
    <3>2. Len(Z2) + Len(L) <= Block
      BY <1>4, <3>1
    <3>3. SubSeq(zeroed, 1, Len(Z2)) = Z2
      BY <1>7, <2>2
    <3>4. /\ CopyTo(zeroed, Len(Z2), L) \in Buffers
          /\ SubSeq(CopyTo(zeroed, Len(Z2), L), 1, Len(Z2) + Len(L)) = Joined(Z2, L)
      BY <3>2, <3>3, CopyJoined
    <3>5. PICK full \in Buffers :
            full = CopyTo(zeroed, z2, L) /\ SubSeq(full, 1, Block) = Joined(Z2, L)
      BY <1>7, <3>1, <3>4
    <3>6. QED
      BY <3>5, WholeBuffer
  <2>4. Z = Joined(Z1, Z2)
    BY <1>7, <1>11, <1>12, <1>16, ZerosJoined
  <2>5. PICK SRP \in Bytes : SRP = Joined(Joined(S, R), P) /\ SRP = Joined(S, RP)
    <3>1. Joined(Joined(S, R), P) = Joined(S, Joined(R, P)) /\ Joined(S, RP) \in Bytes
      BY BytesJoined
    <3>2. QED
      BY <1>8, <3>1
  <2>6. Joined(S, padded) = Joined(SRP, Z1)
    BY <1>9, <2>5, BytesJoined
  <2>7. Joined(Joined(SRP, Z1), Joined(Z2, L)) = Joined(Joined(SRP, Z), L)
    <3>1. PICK SRPZ \in Bytes : SRPZ = Joined(SRP, Z1)
      BY BytesJoined
    <3>2. Joined(SRPZ, Joined(Z2, L)) = Joined(Joined(SRPZ, Z2), L)
      BY BytesJoined
    <3>3. Joined(Joined(SRP, Z1), Z2) = Joined(SRP, Joined(Z1, Z2))
      BY BytesJoined
    <3>4. QED
      BY <2>4, <3>1, <3>2, <3>3
  <2>8. QED
    BY <1>13, <1>14, <1>16, <2>2, <2>3, <2>5, <2>6, <2>7
<1>17. QED
  BY <1>15, <1>16

-----------------------------------------------------------------------------
LEMMA StartHolds == MD5Start \in Contexts /\ Holds(MD5Start, << >>)
<1>1. /\ WordMax \in Nat \ {0} /\ Block \in Nat \ {0} /\ WordMax * WordMax \in Nat \ {0}
      /\ 0 \in 0..(WordMax - 1)
  BY WordFacts
<1>2. Zeros(Block) \in Buffers
  BY <1>1 DEF Zeros, Buffers
<1>3. <<0, 0>> \in [1..2 -> 0..(WordMax - 1)] /\ << >> \in Seq(Nat)
  BY <1>1
<1>4. MD5Start \in Contexts
  BY <1>2, <1>3 DEF MD5Start, Contexts
<1>5. 0 % Block = 0 /\ 0 % (WordMax * WordMax) = 0
  <2>1. Composed(0, Block, 0, 0) /\ Composed(0, WordMax * WordMax, 0, 0)
    BY <1>1 DEF Composed
  <2>2. QED
    BY <2>1, ComposedDivides
<1>6. MD5Start.Total[1] = 0 /\ MD5Start.Total[2] = 0 /\ MD5Start.State = << >>
  BY DEF MD5Start
<1>7. Rest(MD5Start) = << >>
  <2>1. MD5Start.Buffer \in Seq(Nat)
    BY <1>4, BufferSeq DEF Contexts
  <2>2. QED
    BY <1>5, <1>6, <2>1, CutWhole DEF Rest
<1>8. QED
  BY <1>1, <1>4, <1>5, <1>6, <1>7 DEF Holds

(* One MD5Start, MD5Update and MD5Finish hash the data as RFC 1321 pads it,
   whatever its length below a word, none included (md5.c:163-289). *)
THEOREM HashedWhole ==
  ASSUME NEW d \in Seq(Nat), Len(d) < WordMax
  PROVE  Digest(MD5Finish(MD5Update(MD5Start, d))) = Padded(d)
<1>1. d \in Bytes /\ << >> \in Bytes
  BY DEF Bytes
<1>2. Holds(MD5Update(MD5Start, d), << >> \o d)
  BY <1>1, StartHolds, UpdateHolds
<1>3. << >> \o d = d
  BY JoinsNone
<1>4. QED
  BY <1>1, <1>2, <1>3, FinishPads
=============================================================================
