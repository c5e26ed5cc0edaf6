-------------------------- MODULE FrameBytesProofs --------------------------
(***************************************************************************)
(* What FrameBytes promises of the session's frames, for every package,    *)
(* table of transfer sizes, limit of a frame's data and module.            *)
(***************************************************************************)
EXTENDS FrameBytes, WellFoundedInduction, TLAPS

-----------------------------------------------------------------------------
(* The CRC: CRC32Generate, one byte at a time. *)

(* Every set of numbers has a least one: what stands in for induction on the
   length of what the CRC is taken of. *)
LEMMA Least ==
  ASSUME NEW T \in SUBSET Nat, T # {}
  PROVE  \E m \in T : \A k \in T : m <= k
<1> DEFINE R == OpToRel(<, Nat)
<1>1. PICK x \in T : \A y \in T : ~ (<<y, x>> \in R)
  BY NatLessThanWellFounded, WFMin
<1>2. \A u, y \in Nat : y < u => <<y, u>> \in R
  BY DEF OpToRel
<1>3. \A y \in T : ~ (y < x)
  BY <1>1, <1>2
<1>4. QED
  BY <1>3

LEMMA BitsAreBits ==
  ASSUME NEW b \in Byte
  PROVE  BitsOf[b] \in SUBSET (0..7)
BY DEF BitsOf

(* Different bytes have different bits, and different bits are different bytes. *)
LEMMA BitsDiffer ==
  ASSUME NEW a \in Byte, NEW b \in Byte, BitsOf[a] = BitsOf[b]
  PROVE  a = b
BY BitsAssumption

LEMMA ShiftIn ==
  ASSUME NEW w \in SUBSET Ones, NEW n \in 0..31
  PROVE  /\ ShiftRight(w, n) \subseteq 0..(31 - n)
         /\ \A j \in w : j >= n => j - n \in ShiftRight(w, n)
         /\ \A k \in ShiftRight(w, n) : k + n \in w
BY DEF ShiftRight, Ones

LEMMA ByteAtIsByte ==
  ASSUME NEW w \in SUBSET Ones, NEW n \in 0..31
  PROVE  ByteAt(w, n) \in Byte /\ BitsOf[ByteAt(w, n)] = ShiftRight(w, n) \cap 0..7
<1>1. ShiftRight(w, n) \cap 0..7 \in SUBSET (0..7)
  OBVIOUS
<1>2. QED
  BY <1>1, BitsAssumption DEF ByteAt

(* A CRC is told by its four bytes. *)
LEMMA FourBytesTell ==
  ASSUME NEW v \in SUBSET Ones, NEW w \in SUBSET Ones, BigEndian(v) = BigEndian(w)
  PROVE  v = w
<1>1. \A n \in {0, 8, 16, 24} : ByteAt(v, n) = ByteAt(w, n)
  <2>1. /\ BigEndian(v)[1] = BigEndian(w)[1] /\ BigEndian(v)[2] = BigEndian(w)[2]
        /\ BigEndian(v)[3] = BigEndian(w)[3] /\ BigEndian(v)[4] = BigEndian(w)[4]
    OBVIOUS
  <2>2. QED
    BY <2>1 DEF BigEndian
<1>2. \A n \in {0, 8, 16, 24} : ShiftRight(v, n) \cap 0..7 = ShiftRight(w, n) \cap 0..7
  BY <1>1, ByteAtIsByte
<1>3. ASSUME NEW x \in SUBSET Ones, NEW y \in SUBSET Ones, NEW j \in x,
             \A n \in {0, 8, 16, 24} : ShiftRight(x, n) \cap 0..7 = ShiftRight(y, n) \cap 0..7
      PROVE  j \in y
  <2>1. j \in 0..31
    BY DEF Ones
  <2>2. PICK n \in {0, 8, 16, 24} : n <= j /\ j - n \in 0..7
    BY <2>1
  <2>3. j - n \in ShiftRight(x, n) \cap 0..7
    BY <2>2, <2>1, ShiftIn
  <2>4. j - n \in ShiftRight(y, n)
    BY <2>3, <1>3
  <2>5. (j - n) + n \in y
    BY <2>4, ShiftIn
  <2>6. QED
    BY <2>5, <2>1
<1>4. QED
  BY <1>2, <1>3

LEMMA XorIn ==
  ASSUME NEW v \in SUBSET Ones, NEW w \in SUBSET Ones
  PROVE  Xor(v, w) \in SUBSET Ones
BY DEF Xor

LEMMA XorTells ==
  ASSUME NEW u, NEW v, NEW w, Xor(u, v) = Xor(u, w)
  PROVE  v = w
<1>1. \A x : x \in v <=> x \in w
  BY DEF Xor
<1>2. QED
  BY <1>1

LEMMA XorSwaps ==
  ASSUME NEW u, NEW v
  PROVE  Xor(u, v) = Xor(v, u)
BY DEF Xor

LEMMA IndexIn ==
  ASSUME NEW w, NEW b
  PROVE  Xor(w, BitsOf[b]) \cap 0..7 \in SUBSET (0..7)
OBVIOUS

LEMMA TakingIn ==
  ASSUME NEW w \in SUBSET Ones, NEW b \in Byte
  PROVE  Taking(w, b) \in SUBSET Ones
<1>1. CRC32Table[Xor(w, BitsOf[b]) \cap 0..7] \in SUBSET Ones
  BY IndexIn, TableAssumption
<1>2. ShiftRight(w, 8) \in SUBSET Ones
  <2>1. ShiftRight(w, 8) \subseteq 0..(31 - 8)
    BY ShiftIn
  <2>2. QED
    BY <2>1 DEF Ones
<1>3. QED
  BY <1>1, <1>2, XorIn DEF Taking

(* The highest byte of the CRC tells which entry of the table was used. *)
LEMMA EntryTold ==
  ASSUME NEW v \in SUBSET Ones, NEW w \in SUBSET Ones, NEW a \in Byte, NEW b \in Byte,
         Taking(v, a) = Taking(w, b)
  PROVE  /\ Xor(v, BitsOf[a]) \cap 0..7 = Xor(w, BitsOf[b]) \cap 0..7
         /\ ShiftRight(v, 8) = ShiftRight(w, 8)
<1> DEFINE i == Xor(v, BitsOf[a]) \cap 0..7
           j == Xor(w, BitsOf[b]) \cap 0..7
<1>1. ShiftRight(v, 8) \subseteq 0..23 /\ ShiftRight(w, 8) \subseteq 0..23
  <2>1. ShiftRight(v, 8) \subseteq 0..(31 - 8) /\ ShiftRight(w, 8) \subseteq 0..(31 - 8)
    BY ShiftIn
  <2>2. QED
    BY <2>1
<1>2. Taking(v, a) \cap 24..31 = CRC32Table[i] \cap 24..31
  <2>1. \A t, s : s \subseteq 0..23 => Xor(t, s) \cap 24..31 = t \cap 24..31
    BY DEF Xor
  <2>2. QED
    BY <2>1, <1>1 DEF Taking
<1>3. Taking(w, b) \cap 24..31 = CRC32Table[j] \cap 24..31
  <2>1. \A t, s : s \subseteq 0..23 => Xor(t, s) \cap 24..31 = t \cap 24..31
    BY DEF Xor
  <2>2. QED
    BY <2>1, <1>1 DEF Taking
<1>4. i = j
  <2>1. i \in SUBSET (0..7) /\ j \in SUBSET (0..7)
    OBVIOUS
  <2>2. CRC32Table[i] \cap 24..31 = CRC32Table[j] \cap 24..31
    BY <1>2, <1>3
  <2> HIDE DEF i, j
  <2>3. QED
    BY <2>1, <2>2, TableAssumption
<1>5. ShiftRight(v, 8) = ShiftRight(w, 8)
  BY <1>4, XorTells DEF Taking
<1>6. QED
  BY <1>4, <1>5

(* One byte after different CRCs leaves different CRCs ... *)
LEMMA StateTold ==
  ASSUME NEW v \in SUBSET Ones, NEW w \in SUBSET Ones, NEW b \in Byte,
         Taking(v, b) = Taking(w, b)
  PROVE  v = w
<1>1. /\ Xor(v, BitsOf[b]) \cap 0..7 = Xor(w, BitsOf[b]) \cap 0..7
      /\ ShiftRight(v, 8) = ShiftRight(w, 8)
  BY EntryTold
<1>2. \A k \in 0..7 : k \in v <=> k \in w
  BY <1>1 DEF Xor
<1>3. ASSUME NEW x \in SUBSET Ones, NEW y \in SUBSET Ones, NEW k \in x, k >= 8,
             ShiftRight(x, 8) = ShiftRight(y, 8)
      PROVE  k \in y
  <2>1. k \in 0..31
    BY DEF Ones
  <2>2. k - 8 \in ShiftRight(x, 8)
    BY <1>3, ShiftIn
  <2>3. (k - 8) + 8 \in y
    BY <2>2, <1>3, ShiftIn
  <2>4. QED
    BY <2>1, <2>3
<1>4. \A k \in 0..31 : k \in v <=> k \in w
  BY <1>1, <1>2, <1>3
<1>5. QED
  BY <1>4 DEF Ones

(* ... and so do different bytes after the same CRC. *)
LEMMA ByteTold ==
  ASSUME NEW w \in SUBSET Ones, NEW a \in Byte, NEW b \in Byte, Taking(w, a) = Taking(w, b)
  PROVE  a = b
<1>1. Xor(w, BitsOf[a]) \cap 0..7 = Xor(w, BitsOf[b]) \cap 0..7
  BY EntryTold
<1>2. BitsOf[a] \subseteq 0..7 /\ BitsOf[b] \subseteq 0..7
  BY BitsAreBits
<1>3. BitsOf[a] = BitsOf[b]
  <2>1. \A k : k \in BitsOf[a] <=> k \in BitsOf[b]
    BY <1>1, <1>2 DEF Xor
  <2>2. QED
    BY <2>1
<1>4. QED
  BY <1>3, BitsDiffer

-----------------------------------------------------------------------------
(* CRC32Generate's loop: its state before the first byte and after each. *)

Run(f, bytes, n) ==
  /\ f \in [0..n -> SUBSET Ones]
  /\ f[0] = Ones
  /\ \A k \in 1..n : f[k] = Taking(f[k - 1], bytes[k])

LEMMA RunGoesOn ==
  ASSUME NEW bytes \in Seq(Byte), NEW n \in Nat, n + 1 <= Len(bytes), NEW f, Run(f, bytes, n)
  PROVE  \E g : Run(g, bytes, n + 1)
<1> DEFINE g == [k \in 0..(n + 1) |-> IF k = n + 1 THEN Taking(f[n], bytes[n + 1]) ELSE f[k]]
<1>1. f[n] \in SUBSET Ones /\ bytes[n + 1] \in Byte
  BY DEF Run
<1>2. Taking(f[n], bytes[n + 1]) \in SUBSET Ones
  BY <1>1, TakingIn
<1>3. g \in [0..(n + 1) -> SUBSET Ones]
  BY <1>2 DEF Run
<1>4. g[0] = Ones
  BY DEF Run
<1>5. \A k \in 1..(n + 1) : g[k] = Taking(g[k - 1], bytes[k])
  <2>1. g[n + 1] = Taking(f[n], bytes[n + 1]) /\ \A k \in 0..n : g[k] = f[k]
    OBVIOUS
  <2>2. g[n + 1] = Taking(g[n], bytes[n + 1])
    BY <2>1
  <2>3. \A k \in 1..n : g[k] = Taking(g[k - 1], bytes[k])
    BY <2>1 DEF Run
  <2> HIDE DEF g
  <2>4. QED
    BY <2>2, <2>3
<1> HIDE DEF g
<1>6. QED
  BY <1>3, <1>4, <1>5 DEF Run

LEMMA RunExists ==
  ASSUME NEW bytes \in Seq(Byte), NEW n \in Nat, n <= Len(bytes)
  PROVE  \E f : Run(f, bytes, n)
<1> DEFINE T == {m \in Nat : m <= Len(bytes) /\ ~\E f : Run(f, bytes, m)}
<1>1. SUFFICES T = {}
  OBVIOUS
<1>2. SUFFICES ASSUME T # {} PROVE FALSE
  OBVIOUS
<1>3. PICK m \in T : \A k \in T : m <= k
  <2>1. T \in SUBSET Nat
    OBVIOUS
  <2> HIDE DEF T
  <2>2. QED
    BY <2>1, <1>2, Least
<1>4. m # 0
  <2> DEFINE f == [k \in 0..0 |-> Ones]
  <2>1. Run(f, bytes, 0)
    BY DEF Run
  <2>2. QED
    BY <2>1
<1>5. m - 1 \in Nat /\ m - 1 <= Len(bytes) /\ m - 1 \notin T
  BY <1>3, <1>4
<1>6. PICK f : Run(f, bytes, m - 1)
  BY <1>5
<1>7. \E g : Run(g, bytes, (m - 1) + 1)
  BY <1>5, <1>6, <1>3, RunGoesOn
<1>8. (m - 1) + 1 = m
  BY <1>3
<1>9. QED
  BY <1>3, <1>7, <1>8

(* The recursive function of CRCAfter is there, for bytes of any number. *)
LEMMA CRCRuns ==
  ASSUME NEW bytes \in Seq(Byte)
  PROVE  Run(CRCAfter(bytes), bytes, Len(bytes))
<1> DEFINE L == Len(bytes)
           Loop(f) == f = [n \in 0..L |-> IF n = 0 THEN Ones ELSE Taking(f[n - 1], bytes[n])]
<1>1. L \in Nat
  OBVIOUS
<1>2. PICK f : Run(f, bytes, L)
  BY <1>1, RunExists
<1>3. Loop(f)
  BY <1>1, <1>2 DEF Run
<1>4. Loop(CHOOSE g : Loop(g))
  BY <1>3
<1>5. CRCAfter(bytes) = CHOOSE g : Loop(g)
  BY DEF CRCAfter
<1> DEFINE F == CRCAfter(bytes)
<1>6. F = [n \in 0..L |-> IF n = 0 THEN Ones ELSE Taking(F[n - 1], bytes[n])]
  BY <1>4, <1>5
<1> HIDE DEF F
<1>7. F[0] = Ones /\ \A n \in 1..L : F[n] = Taking(F[n - 1], bytes[n])
  <2>1. \A n \in 0..L : F[n] = IF n = 0 THEN Ones ELSE Taking(F[n - 1], bytes[n])
    BY <1>6
  <2>2. QED
    BY <1>1, <2>1
<1>8. \A n \in 0..L : F[n] \in SUBSET Ones
  <2> DEFINE T == {n \in Nat : n <= L /\ F[n] \notin SUBSET Ones}
  <2>1. SUFFICES ASSUME T # {} PROVE FALSE
    BY <1>1
  <2>2. PICK m \in T : \A k \in T : m <= k
    <3>1. T \in SUBSET Nat
      OBVIOUS
    <3> HIDE DEF T
    <3>2. QED
      BY <3>1, <2>1, Least
  <2>3. m # 0
    BY <1>7
  <2>4. m \in 1..L /\ m - 1 \in Nat /\ m - 1 <= L /\ m - 1 \notin T
    BY <1>1, <2>2, <2>3
  <2>5. F[m - 1] \in SUBSET Ones /\ bytes[m] \in Byte
    BY <2>4
  <2>6. QED
    BY <2>2, <2>4, <2>5, <1>7, TakingIn
<1>9. F \in [0..L -> SUBSET Ones]
  BY <1>6, <1>8
<1>10. QED
  BY <1>7, <1>9 DEF Run, F

LEMMA CRCIn ==
  ASSUME NEW bytes \in Seq(Byte)
  PROVE  CRC32Generate(bytes) \in SUBSET Ones
<1>1. Len(bytes) \in 0..Len(bytes)
  OBVIOUS
<1>2. CRCAfter(bytes)[Len(bytes)] \in SUBSET Ones
  BY <1>1, CRCRuns DEF Run
<1>3. Ones \in SUBSET Ones
  OBVIOUS
<1>4. QED
  BY <1>2, <1>3, XorIn DEF CRC32Generate

(* One byte another, and the CRC is another. *)
LEMMA CRCTellsByte ==
  ASSUME NEW a \in Seq(Byte), NEW b \in Seq(Byte), Len(a) = Len(b), NEW at \in 1..Len(a),
         a[at] # b[at], \A k \in 1..Len(a) : k # at => a[k] = b[k]
  PROVE  CRC32Generate(a) # CRC32Generate(b)
<1> DEFINE L == Len(a)
           f == CRCAfter(a)
           g == CRCAfter(b)
<1>1. L \in Nat /\ \A k \in 1..L : a[k] \in Byte /\ b[k] \in Byte
  OBVIOUS
<1>2. Run(f, a, L) /\ Run(g, b, L)
  BY CRCRuns
<1>3. CRC32Generate(a) = Xor(f[L], Ones) /\ CRC32Generate(b) = Xor(g[L], Ones)
  BY DEF CRC32Generate
<1>4. at \in 1..L /\ a[at] # b[at] /\ \A k \in 1..L : k # at => a[k] = b[k]
  OBVIOUS
<1> HIDE DEF f, g, L
<1>5. /\ \A n \in 0..L : f[n] \in SUBSET Ones /\ g[n] \in SUBSET Ones
      /\ f[0] = Ones /\ g[0] = Ones
      /\ \A n \in 1..L : f[n] = Taking(f[n - 1], a[n]) /\ g[n] = Taking(g[n - 1], b[n])
  BY <1>2 DEF Run
<1>6. f[at - 1] = g[at - 1]
  <2> DEFINE T == {n \in Nat : n < at /\ f[n] # g[n]}
  <2>1. SUFFICES ASSUME T # {} PROVE FALSE
    BY <1>1, <1>4
  <2>2. PICK m \in T : \A k \in T : m <= k
    <3>1. T \in SUBSET Nat
      OBVIOUS
    <3> HIDE DEF T
    <3>2. QED
      BY <3>1, <2>1, Least
  <2>3. m # 0
    BY <2>2, <1>5
  <2>4. m \in 1..L /\ m # at /\ m - 1 \in Nat /\ m - 1 < at /\ m - 1 \notin T
    BY <1>1, <1>4, <2>2, <2>3
  <2>5. f[m - 1] = g[m - 1] /\ a[m] = b[m]
    BY <2>4, <1>4
  <2>6. QED
    BY <2>2, <2>4, <2>5, <1>5
<1>7. f[at] # g[at]
  <2>1. at \in 1..L /\ at - 1 \in 0..L
    BY <1>1, <1>4
  <2>2. ASSUME Taking(f[at - 1], a[at]) = Taking(f[at - 1], b[at])
        PROVE  a[at] = b[at]
    BY <2>1, <2>2, <1>1, <1>5, ByteTold
  <2>3. QED
    BY <2>1, <2>2, <1>4, <1>5, <1>6
<1>8. f[L] # g[L]
  <2> DEFINE T == {n \in Nat : at <= n /\ n <= L /\ f[n] = g[n]}
  <2>1. SUFFICES ASSUME T # {} PROVE FALSE
    BY <1>1, <1>4
  <2>2. PICK m \in T : \A k \in T : m <= k
    <3>1. T \in SUBSET Nat
      OBVIOUS
    <3> HIDE DEF T
    <3>2. QED
      BY <3>1, <2>1, Least
  <2>3. m # at
    BY <2>2, <1>7
  <2>4. m \in 1..L /\ m - 1 \in 0..L /\ at <= m - 1 /\ m - 1 \in Nat /\ m - 1 \notin T
    BY <1>1, <1>4, <2>2, <2>3
  <2>5. f[m - 1] # g[m - 1] /\ a[m] = b[m] /\ a[m] \in Byte
    BY <2>4, <1>4, <1>1
  <2>6. Taking(f[m - 1], a[m]) = Taking(g[m - 1], a[m])
    BY <2>2, <2>4, <2>5, <1>5
  <2>7. f[m - 1] \in SUBSET Ones /\ g[m - 1] \in SUBSET Ones
    BY <2>4, <1>5
  <2>8. QED
    BY <2>5, <2>6, <2>7, StateTold
<1>9. QED
  BY <1>3, <1>8, XorSwaps, XorTells

-----------------------------------------------------------------------------
(* A frame as it is laid out and read. *)

(* The frame that carries data as request or answer number num: its head and
   its data, whatever CRC comes behind them. *)
Carrying(frame, num, field, data) ==
  /\ frame \in Seq(Byte)
  /\ Len(frame) = Len(data) + FieldLen
  /\ \A k \in 1..HeadLen : frame[k] = FrameHead(num, Len(data) + FieldLen, field)[k]
  /\ \A k \in 1..Len(data) : frame[HeadLen + k] = data[k]

LEMMA BytesAreNumbers == Byte = 0..255 /\ Byte \subseteq Nat
BY DEF Byte

LEMMA HeadBytes ==
  ASSUME NEW num, NEW len \in Nat, NEW a, NEW b, NEW c, NEW d
  PROVE  FrameHead(num, len, <<a, b, c, d>>)
           = <<213, 165, 0, num, len \div 256, len % 256, 0, 0, a, b, c, d>>
BY DEF FrameHead, Header

LEMMA PutIn ==
  ASSUME NEW buf \in Seq(Byte), NEW bytes \in Seq(Byte), NEW at \in Nat
  PROVE  /\ Put(buf, at, bytes) \in Seq(Byte)
         /\ Len(Put(buf, at, bytes)) = Len(buf)
         /\ \A k \in 1..Len(buf) :
              Put(buf, at, bytes)[k] = IF k - at \in 1..Len(bytes) THEN bytes[k - at] ELSE buf[k]
<1> DEFINE new == [k \in 1..Len(buf) |-> IF k - at \in 1..Len(bytes) THEN bytes[k - at] ELSE buf[k]]
<1>1. Put(buf, at, bytes) = new
  BY DEF Put
<1>2. \A k \in 1..Len(buf) : new[k] \in Byte
  OBVIOUS
<1>3. new \in Seq(Byte) /\ Len(new) = Len(buf)
  BY <1>2
<1>4. QED
  BY <1>1, <1>3

LEMMA PutFront ==
  ASSUME NEW buf \in Seq(Byte), NEW bytes \in Seq(Byte)
  PROVE  /\ Put(buf, 0, bytes) \in Seq(Byte)
         /\ Len(Put(buf, 0, bytes)) = Len(buf)
         /\ \A k \in 1..Len(buf) :
              Put(buf, 0, bytes)[k] = IF k \in 1..Len(bytes) THEN bytes[k] ELSE buf[k]
<1>1. /\ Put(buf, 0, bytes) \in Seq(Byte)
      /\ Len(Put(buf, 0, bytes)) = Len(buf)
      /\ \A k \in 1..Len(buf) :
           Put(buf, 0, bytes)[k] = IF k - 0 \in 1..Len(bytes) THEN bytes[k - 0] ELSE buf[k]
  <2>1. 0 \in Nat
    OBVIOUS
  <2>2. QED
    BY <2>1, PutIn, Zenon
<1>2. \A k \in 1..Len(buf) : k - 0 = k
  OBVIOUS
<1>3. QED
  BY <1>1, <1>2

LEMMA SubIn ==
  ASSUME NEW s \in Seq(Byte), NEW m \in Nat, NEW n \in Nat, 1 <= m, m <= n + 1, n <= Len(s)
  PROVE  /\ SubSeq(s, m, n) \in Seq(Byte)
         /\ Len(SubSeq(s, m, n)) = n - m + 1
         /\ \A k \in 1..(n - m + 1) : SubSeq(s, m, n)[k] = s[m + k - 1]
OBVIOUS

LEMMA SameSeq ==
  ASSUME NEW s \in Seq(Byte), NEW t \in Seq(Byte), Len(s) = Len(t),
         \A k \in 1..Len(s) : s[k] = t[k]
  PROVE  s = t
OBVIOUS

LEMMA CRCBytes ==
  ASSUME NEW w \in SUBSET Ones
  PROVE  BigEndian(w) \in Seq(Byte) /\ Len(BigEndian(w)) = 4
<1>1. ByteAt(w, 24) \in Byte /\ ByteAt(w, 16) \in Byte /\ ByteAt(w, 8) \in Byte /\ ByteAt(w, 0) \in Byte
  BY ByteAtIsByte
<1>2. QED
  BY <1>1 DEF BigEndian

LEMMA CoveredIn ==
  ASSUME NEW frame \in Seq(Byte), Len(frame) >= FieldLen
  PROVE  /\ Covered(frame) \in Seq(Byte)
         /\ Len(Covered(frame)) = Len(frame) - 7
         /\ \A k \in 1..(Len(frame) - 7) : Covered(frame)[k] = frame[k + 3]
<1> DEFINE n == Len(frame) - 4
<1>1. n \in Nat /\ 4 <= n + 1 /\ n <= Len(frame) /\ 4 \in Nat /\ 1 <= 4
  BY DEF FieldLen
<1> HIDE DEF n
<1>2. /\ SubSeq(frame, 4, n) \in Seq(Byte)
      /\ Len(SubSeq(frame, 4, n)) = n - 4 + 1
      /\ \A k \in 1..(n - 4 + 1) : SubSeq(frame, 4, n)[k] = frame[4 + k - 1]
  BY <1>1, SubIn
<1>3. n - 4 + 1 = Len(frame) - 7 /\ \A k \in 1..(Len(frame) - 7) : 4 + k - 1 = k + 3
  BY DEF n
<1>4. Covered(frame) = SubSeq(frame, 4, n)
  BY DEF Covered, n
<1>5. QED
  BY <1>2, <1>3, <1>4

(* What the CRC of a frame puts over its last four bytes, and leaves of the rest. *)
LEMMA WithCRCIn ==
  ASSUME NEW frame \in Seq(Byte), Len(frame) >= FieldLen
  PROVE  /\ WithCRC(frame) \in Seq(Byte)
         /\ Len(WithCRC(frame)) = Len(frame)
         /\ \A k \in 1..(Len(frame) - 4) : WithCRC(frame)[k] = frame[k]
         /\ FrameSearch(WithCRC(frame))
<1> DEFINE n == Len(frame) - 4
           crc == BigEndian(CRC32Generate(Covered(frame)))
           new == WithCRC(frame)
<1>1. n \in Nat /\ n >= 12 /\ Len(frame) = n + 4
  BY DEF FieldLen
<1>2. crc \in Seq(Byte) /\ Len(crc) = 4
  BY CoveredIn, CRCIn, CRCBytes
<1>3. new = Put(frame, n, crc)
  BY DEF WithCRC
<1> HIDE DEF crc, new, n
<1>4. /\ new \in Seq(Byte) /\ Len(new) = n + 4
      /\ \A k \in 1..(n + 4) : new[k] = IF k - n \in 1..4 THEN crc[k - n] ELSE frame[k]
  <2>1. /\ Put(frame, n, crc) \in Seq(Byte) /\ Len(Put(frame, n, crc)) = Len(frame)
        /\ \A k \in 1..Len(frame) :
             Put(frame, n, crc)[k] = IF k - n \in 1..Len(crc) THEN crc[k - n] ELSE frame[k]
    BY <1>1, <1>2, PutIn
  <2>2. QED
    BY <2>1, <1>1, <1>2, <1>3
<1>5. \A k \in 1..n : new[k] = frame[k]
  BY <1>1, <1>4
<1>6. Covered(new) = Covered(frame)
  <2>1. /\ Covered(new) \in Seq(Byte) /\ Len(Covered(new)) = n - 3
        /\ \A k \in 1..(n - 3) : Covered(new)[k] = new[k + 3]
    <3>1. new \in Seq(Byte) /\ Len(new) >= FieldLen /\ Len(new) - 7 = n - 3
      BY <1>1, <1>4 DEF FieldLen
    <3>2. QED
      BY <3>1, CoveredIn
  <2>2. /\ Covered(frame) \in Seq(Byte) /\ Len(Covered(frame)) = n - 3
        /\ \A k \in 1..(n - 3) : Covered(frame)[k] = frame[k + 3]
    <3>1. Len(frame) - 7 = n - 3
      BY <1>1
    <3>2. QED
      BY <3>1, CoveredIn
  <2>3. \A k \in 1..(n - 3) : k + 3 \in 1..n
    BY <1>1
  <2>4. \A k \in 1..(n - 3) : Covered(new)[k] = Covered(frame)[k]
    BY <2>1, <2>2, <2>3, <1>5
  <2>5. QED
    BY <2>1, <2>2, <2>4, SameSeq
<1>7. SubSeq(new, n + 1, n + 4) = crc
  <2>1. /\ SubSeq(new, n + 1, n + 4) \in Seq(Byte)
        /\ Len(SubSeq(new, n + 1, n + 4)) = (n + 4) - (n + 1) + 1
        /\ \A k \in 1..((n + 4) - (n + 1) + 1) :
             SubSeq(new, n + 1, n + 4)[k] = new[(n + 1) + k - 1]
    <3>1. n + 1 \in Nat /\ n + 4 \in Nat /\ 1 <= n + 1 /\ n + 1 <= (n + 4) + 1 /\ n + 4 <= Len(new)
      BY <1>1, <1>4
    <3>2. QED
      BY <3>1, <1>4, SubIn
  <2>2. /\ (n + 4) - (n + 1) + 1 = 4
        /\ \A k \in 1..4 : (n + 1) + k - 1 = n + k /\ n + k \in 1..(n + 4) /\ (n + k) - n = k
    BY <1>1
  <2>3. \A k \in 1..4 : new[n + k] = crc[k]
    BY <2>2, <1>4
  <2> DEFINE sub == SubSeq(new, n + 1, n + 4)
  <2>4. sub \in Seq(Byte) /\ Len(sub) = 4 /\ \A k \in 1..4 : sub[k] = new[(n + 1) + k - 1]
    BY <2>1, <2>2
  <2> HIDE DEF sub
  <2>5. \A k \in 1..4 : sub[k] = crc[k]
    BY <2>2, <2>3, <2>4
  <2>6. sub = crc
    BY <2>4, <2>5, <1>2, SameSeq
  <2>7. QED
    BY <2>6 DEF sub
<1>8. FrameSearch(new)
  <2>1. Len(new) - 3 = n + 1 /\ Len(new) = n + 4
    BY <1>1, <1>4
  <2>2. QED
    BY <2>1, <1>6, <1>7 DEF FrameSearch, crc
<1>9. QED
  BY <1>1, <1>4, <1>5, <1>8 DEF new, n

LEMMA Sizes ==
  /\ DataMax \in Nat /\ DataMax >= 4 /\ BufLen = DataMax + 16 /\ BufLen \in Nat
  /\ Short \in Nat /\ DataMax + 16 < Short
  /\ HeadLen = 12 /\ FieldLen = 16
BY FrameAssumption DEF BufLen, HeadLen, FieldLen

LEMMA TwoBytes ==
  ASSUME NEW len \in Nat, len < Short
  PROVE  len \div 256 \in Byte /\ len % 256 \in Byte
<1>1. len < 65536
  BY FrameAssumption
<1>2. QED
  BY <1>1 DEF Byte

LEMMA CmdIDs ==
  ASSUME NEW cmd \in Commands
  PROVE  CmdID[cmd] \in 1..15
BY DEF Commands, CmdID

LEMMA FieldBytes ==
  ASSUME NEW cmd \in Commands, NEW status \in 0..15, NEW action \in {ActionSend, ActionReply}
  PROVE  Field(cmd, status, action) = <<action * 64 + status * 4, 0, 0, CmdID[cmd]>>
<1>1. \A c \in 1..15 : (c \div 65536) % 256 = 0 /\ (c \div 256) % 256 = 0 /\ c % 256 = c
  OBVIOUS
<1>2. QED
  BY <1>1, CmdIDs DEF Field

LEMMA HeadIn ==
  ASSUME NEW num \in Byte, NEW len \in Nat, len < Short, NEW cmd \in Commands,
         NEW status \in 0..15, NEW action \in {ActionSend, ActionReply}
  PROVE  /\ FrameHead(num, len, Field(cmd, status, action)) \in Seq(Byte)
         /\ Len(FrameHead(num, len, Field(cmd, status, action))) = 12
<1>1. FrameHead(num, len, Field(cmd, status, action))
        = <<213, 165, 0, num, len \div 256, len % 256, 0, 0,
            action * 64 + status * 4, 0, 0, CmdID[cmd]>>
  BY FieldBytes, HeadBytes
<1>2. /\ 213 \in Byte /\ 165 \in Byte /\ 0 \in Byte
      /\ action * 64 + status * 4 \in Byte
  BY DEF Byte, ActionSend, ActionReply
<1>3. CmdID[cmd] \in Byte
  BY CmdIDs DEF Byte
<1>4. QED
  BY <1>1, <1>2, <1>3, TwoBytes

(* UpgradeFrameEncode lays the frame out over whatever the buffer held, and the
   frame it leaves carries number, command and data. *)
LEMMA EncodedCarries ==
  ASSUME NEW buf \in Seq(Byte), Len(buf) = BufLen, NEW num \in Byte, NEW cmd \in Commands,
         NEW data \in Seq(Byte), Len(data) <= DataMax,
         NEW s, s = Frame2String(Put(buf, HeadLen, data), num, cmd, Len(data))
  PROVE  /\ s = [StrBuf |-> s.StrBuf, Len |-> s.Len]
         /\ s.StrBuf \in Seq(Byte) /\ Len(s.StrBuf) = BufLen
         /\ s.Len = Len(data) + FieldLen
         /\ Carrying(SubSeq(s.StrBuf, 1, s.Len), num, Field(cmd, 0, ActionSend), data)
         /\ FrameSearch(SubSeq(s.StrBuf, 1, s.Len))
<1> DEFINE D == Len(data)
           head == FrameHead(num, D + 16, Field(cmd, 0, ActionSend))
           held == Put(buf, HeadLen, data)
           laid == Put(held, 0, head)
           sub == SubSeq(laid, 1, D + 16)
           crcd == WithCRC(sub)
           whole == Put(laid, 0, crcd)
<1>1. /\ D \in Nat /\ D <= DataMax /\ D + 16 <= BufLen /\ D + 16 < Short /\ D + 16 \in Nat
      /\ 12 \in Nat /\ 0 \in Nat
  BY Sizes
<1>2. data \in Seq(Byte) /\ Len(data) = D /\ buf \in Seq(Byte) /\ Len(buf) = BufLen /\ BufLen \in Nat
  BY Sizes
<1>3. s = [StrBuf |-> whole, Len |-> D + 16]
  <2>1. D + FieldLen = D + 16
    BY DEF FieldLen
  <2>2. \A m \in Nat : m < Short => m % Short = m
    BY Sizes
  <2>3. (D + FieldLen) % Short = D + 16
    BY <1>1, <2>1, <2>2, Sizes
  <2>4. QED
    BY <2>3, Zenon DEF Frame2String, FieldLen
<1> HIDE DEF D
<1>4. head \in Seq(Byte) /\ Len(head) = 12
  <2>1. 0 \in 0..15 /\ ActionSend \in {ActionSend, ActionReply}
    OBVIOUS
  <2>2. head \in Seq(Byte)
    BY <2>1, <1>1, HeadIn
  <2>3. Len(head) = 12
    BY <2>1, <1>1, HeadIn
  <2>4. QED
    BY <2>2, <2>3
<1> HIDE DEF head
<1>5. /\ held \in Seq(Byte) /\ Len(held) = BufLen
      /\ \A k \in 1..BufLen : held[k] = IF k - 12 \in 1..D THEN data[k - 12] ELSE buf[k]
  <2>1. held = Put(buf, 12, data)
    BY DEF HeadLen
  <2>2. QED
    BY <2>1, <1>1, <1>2, PutIn
<1> HIDE DEF held
<1>6. /\ laid \in Seq(Byte) /\ Len(laid) = BufLen
      /\ \A k \in 1..BufLen : laid[k] = IF k \in 1..12 THEN head[k] ELSE held[k]
  <2>1. /\ laid \in Seq(Byte) /\ Len(laid) = Len(held)
        /\ \A k \in 1..Len(held) : laid[k] = IF k \in 1..Len(head) THEN head[k] ELSE held[k]
    BY <1>4, <1>5, PutFront
  <2> HIDE DEF laid
  <2>2. QED
    BY <2>1, <1>4, <1>5
<1> HIDE DEF laid
<1>7. /\ \A k \in 1..12 : laid[k] = head[k]
      /\ \A k \in 1..D : laid[12 + k] = data[k]
  <2>1. \A k \in 1..12 : k \in 1..BufLen
    BY <1>1, Sizes
  <2>2. \A k \in 1..12 : laid[k] = head[k]
    BY <2>1, <1>6
  <2>3. \A k \in 1..D : 12 + k \in 1..BufLen /\ (12 + k) - 12 = k /\ 12 + k \notin 1..12
    BY <1>1, Sizes
  <2>4. \A k \in 1..D : laid[12 + k] = held[12 + k] /\ held[12 + k] = data[k]
    BY <2>3, <1>5, <1>6
  <2>5. QED
    BY <2>2, <2>4
<1>8. sub \in Seq(Byte) /\ Len(sub) = D + 16 /\ \A k \in 1..(D + 16) : sub[k] = laid[k]
  <2>1. /\ sub \in Seq(Byte) /\ Len(sub) = (D + 16) - 1 + 1
        /\ \A k \in 1..((D + 16) - 1 + 1) : sub[k] = laid[1 + k - 1]
    <3>1. 1 \in Nat /\ D + 16 \in Nat /\ 1 <= 1 /\ 1 <= (D + 16) + 1 /\ D + 16 <= Len(laid)
      BY <1>1, <1>6
    <3>2. QED
      BY <3>1, <1>6, SubIn
  <2>2. (D + 16) - 1 + 1 = D + 16 /\ \A k \in 1..(D + 16) : 1 + k - 1 = k
    BY <1>1
  <2> HIDE DEF sub
  <2>3. QED
    BY <2>1, <2>2
<1> HIDE DEF sub
<1>9. /\ crcd \in Seq(Byte) /\ Len(crcd) = D + 16
      /\ \A k \in 1..(D + 12) : crcd[k] = sub[k]
      /\ FrameSearch(crcd)
  <2>1. Len(sub) >= FieldLen /\ Len(sub) - 4 = D + 12
    BY <1>1, <1>8, Sizes
  <2>2. QED
    BY <2>1, <1>8, WithCRCIn
<1> HIDE DEF crcd
<1>10. /\ whole \in Seq(Byte) /\ Len(whole) = BufLen
       /\ \A k \in 1..BufLen : whole[k] = IF k \in 1..(D + 16) THEN crcd[k] ELSE laid[k]
  <2>1. /\ whole \in Seq(Byte) /\ Len(whole) = Len(laid)
        /\ \A k \in 1..Len(laid) : whole[k] = IF k \in 1..Len(crcd) THEN crcd[k] ELSE laid[k]
    BY <1>6, <1>9, PutFront
  <2> HIDE DEF whole
  <2>2. QED
    BY <2>1, <1>6, <1>9
<1> HIDE DEF whole
<1> DEFINE frame == SubSeq(whole, 1, D + 16)
<1>11. frame = crcd
  <2>1. /\ frame \in Seq(Byte) /\ Len(frame) = (D + 16) - 1 + 1
        /\ \A k \in 1..((D + 16) - 1 + 1) : frame[k] = whole[1 + k - 1]
    <3>1. 1 \in Nat /\ D + 16 \in Nat /\ 1 <= 1 /\ 1 <= (D + 16) + 1 /\ D + 16 <= Len(whole)
      BY <1>1, <1>10
    <3>2. QED
      BY <3>1, <1>10, SubIn
  <2>2. (D + 16) - 1 + 1 = D + 16 /\ \A k \in 1..(D + 16) : 1 + k - 1 = k
    BY <1>1
  <2>3. \A k \in 1..(D + 16) : k \in 1..BufLen
    BY <1>1, Sizes
  <2>4. \A k \in 1..(D + 16) : whole[k] = crcd[k]
    BY <2>3, <1>10
  <2> HIDE DEF frame
  <2>5. frame \in Seq(Byte) /\ Len(frame) = D + 16 /\ \A k \in 1..(D + 16) : frame[k] = crcd[k]
    BY <2>1, <2>2, <2>4
  <2>6. QED
    BY <2>5, <1>9, SameSeq
<1>12. Carrying(crcd, num, Field(cmd, 0, ActionSend), data)
  <2>1. \A k \in 1..12 : crcd[k] = head[k]
    <3>1. \A k \in 1..12 : k \in 1..(D + 12) /\ k \in 1..(D + 16)
      BY <1>1
    <3>2. QED
      BY <3>1, <1>7, <1>8, <1>9
  <2>2. \A k \in 1..D : crcd[12 + k] = data[k]
    <3>1. \A k \in 1..D : 12 + k \in 1..(D + 12) /\ 12 + k \in 1..(D + 16)
      BY <1>1
    <3>2. QED
      BY <3>1, <1>7, <1>8, <1>9
  <2>3. QED
    BY <2>1, <2>2, <1>9 DEF Carrying, head, D, HeadLen, FieldLen
<1>13. s.StrBuf = whole /\ s.Len = D + 16
  BY <1>3
<1>14. QED
  BY <1>3, <1>9, <1>10, <1>11, <1>12, <1>13 DEF D, FieldLen

-----------------------------------------------------------------------------
(* Numbers in their bytes, as the module writes them. *)

LEMMA FourBytes ==
  ASSUME NEW p \in Byte, NEW q \in Byte, NEW r \in Byte, NEW s \in Byte, s < 128,
         NEW n, n = p + q * 256 + r * 65536 + s * 16777216
  PROVE  /\ n \in Nat
         /\ n % 256 = p /\ (n \div 256) % 256 = q
         /\ (n \div 65536) % 256 = r /\ (n \div 16777216) % 256 = s
<1>1. p \in 0..255 /\ q \in 0..255 /\ r \in 0..255 /\ s \in 0..127
  BY DEF Byte
<1>2. n \in Nat
  BY <1>1
<1>3. n % 256 = p /\ n \div 256 = q + r * 256 + s * 65536
  BY <1>1
<1>4. (n \div 256) % 256 = q
  BY <1>1, <1>3
<1>5. n \div 65536 = r + s * 256
  BY <1>1
<1>6. n \div 16777216 = s
  BY <1>1
<1>7. (r + s * 256) % 256 = r /\ s % 256 = s
  BY <1>1
<1>8. QED
  BY <1>2, <1>3, <1>4, <1>5, <1>6, <1>7

LEMMA FourIn ==
  ASSUME NEW b \in Seq(Byte), Len(b) >= 4
  PROVE  b[1] \in Byte /\ b[2] \in Byte /\ b[3] \in Byte /\ b[4] \in Byte
OBVIOUS

(* A number that is not negative is written with the bytes it was read from. *)
LEMMA NumberBack ==
  ASSUME NEW b \in Seq(Byte), Len(b) >= 4, Number(b) >= 0
  PROVE  /\ Number(b) \in Nat
         /\ LittleEndian(Number(b)) = <<b[1], b[2], b[3], b[4]>>
         /\ Number(b) = 0 => b[1] = 0 /\ b[2] = 0 /\ b[3] = 0 /\ b[4] = 0
<1>1. b[1] \in Byte /\ b[2] \in Byte /\ b[3] \in Byte /\ b[4] \in Byte
  BY FourIn
<1>2. PICK p \in Byte, q \in Byte, r \in Byte, s \in Byte :
        p = b[1] /\ q = b[2] /\ r = b[3] /\ s = b[4]
  BY <1>1
<1>3. PICK n : n = Number(b)
  OBVIOUS
<1>4. n = p + q * 256 + r * 65536 + (IF s < 128 THEN s ELSE s - 256) * 16777216
  BY <1>2, <1>3 DEF Number
<1>5. s < 128
  <2>1. p \in 0..255 /\ q \in 0..255 /\ r \in 0..255 /\ s \in 0..255
    BY DEF Byte
  <2>2. ASSUME s >= 128 PROVE FALSE
    <3>1. n = p + q * 256 + r * 65536 + (s - 256) * 16777216 /\ s - 256 <= -1
      BY <2>1, <2>2, <1>4
    <3>2. n < 0
      BY <3>1, <2>1
    <3>3. QED
      BY <3>1, <3>2, <2>1, <1>3
  <2>3. QED
    BY <2>1, <2>2
<1>6. n = p + q * 256 + r * 65536 + s * 16777216
  BY <1>4, <1>5
<1>7. /\ n \in Nat
      /\ n % 256 = p /\ (n \div 256) % 256 = q
      /\ (n \div 65536) % 256 = r /\ (n \div 16777216) % 256 = s
  BY <1>5, <1>6, FourBytes
<1>8. LittleEndian(n) = <<p, q, r, s>>
  BY <1>7 DEF LittleEndian
<1>9. n = 0 => p = 0 /\ q = 0 /\ r = 0 /\ s = 0
  BY <1>7
<1>10. QED
  BY <1>2, <1>3, <1>7, <1>8, <1>9

LEMMA Written ==
  ASSUME NEW n \in Nat, n < 2147483648
  PROVE  /\ LittleEndian(n) \in Seq(Byte) /\ Len(LittleEndian(n)) = 4
         /\ LittleEndian(n)[4] < 128 /\ Number(LittleEndian(n)) = n
<1>1. /\ n % 256 \in Byte /\ (n \div 256) % 256 \in Byte
      /\ (n \div 65536) % 256 \in Byte /\ (n \div 16777216) % 256 \in Byte
  BY DEF Byte
<1>2. (n \div 16777216) % 256 = n \div 16777216 /\ n \div 16777216 < 128
  OBVIOUS
<1>3. n = (n % 256) + ((n \div 256) % 256) * 256 + ((n \div 65536) % 256) * 65536
            + (n \div 16777216) * 16777216
  <2>1. PICK a \in Nat : a = n \div 256
    OBVIOUS
  <2>2. PICK b \in Nat : b = n \div 65536
    OBVIOUS
  <2>3. PICK c \in Nat : c = n \div 16777216
    OBVIOUS
  <2>4. n = (n % 256) + a * 256
    BY <2>1
  <2>5. a = (a % 256) + b * 256
    BY <2>1, <2>2
  <2>6. b = (b % 256) + c * 256
    BY <2>2, <2>3
  <2>7. \A x, y, z, w, u, v \in Nat :
          w = x + u * 256 /\ u = y + v * 256 => w = x + y * 256 + v * 65536
    OBVIOUS
  <2>8. a % 256 \in Nat /\ b % 256 \in Nat /\ n % 256 \in Nat
    BY <2>1, <2>2
  <2>9. n = (n % 256) + (a % 256) * 256 + (b % 256) * 65536 + c * 16777216
    BY <2>4, <2>5, <2>6, <2>8
  <2>10. QED
    BY <2>1, <2>2, <2>3, <2>9
<1>4. QED
  BY <1>1, <1>2, <1>3 DEF LittleEndian, Number

-----------------------------------------------------------------------------
(* A reply, read. *)

LEMMA JoinIn ==
  ASSUME NEW s \in Seq(Byte), NEW t \in Seq(Byte)
  PROVE  s \o t \in Seq(Byte) /\ Len(s \o t) = Len(s) + Len(t)
OBVIOUS

LEMMA JoinFirst ==
  ASSUME NEW s \in Seq(Byte), NEW t \in Seq(Byte), NEW k \in 1..Len(s)
  PROVE  (s \o t)[k] = s[k]
OBVIOUS

LEMMA JoinLast ==
  ASSUME NEW s \in Seq(Byte), NEW t \in Seq(Byte), NEW k \in 1..Len(t)
  PROVE  (s \o t)[Len(s) + k] = t[k]
OBVIOUS

LEMMA DataRead ==
  ASSUME NEW frame
  PROVE  String2Frame(frame).data = SubSeq(frame, HeadLen + 1, Len(frame) - 4)
BY SMT DEF String2Frame, HeadLen

LEMMA ReadData ==
  ASSUME NEW head \in Seq(Byte), Len(head) = 12, NEW data \in Seq(Byte)
  PROVE  String2Frame(WithCRC(head \o data \o <<0, 0, 0, 0>>)).data = data
<1>1. PICK D \in Nat : D = Len(data)
  OBVIOUS
<1>2. PICK body : body = head \o data
  OBVIOUS
<1>3. PICK zeros : zeros = <<0, 0, 0, 0>>
  OBVIOUS
<1>4. PICK plain : plain = body \o zeros
  OBVIOUS
<1>5. PICK frame : frame = WithCRC(plain)
  OBVIOUS
<1>6. /\ body \in Seq(Byte) /\ Len(body) = 12 + D
      /\ \A k \in 1..D : body[12 + k] = data[k]
  <2>1. body \in Seq(Byte)
    BY <1>1, <1>2, JoinIn
  <2>2. Len(body) = 12 + D
    BY <1>1, <1>2, JoinIn
  <2>3. \A k \in 1..D : body[12 + k] = data[k]
    BY <1>1, <1>2, JoinLast
  <2>4. QED
    BY <2>1, <2>2, <2>3
<1>7. zeros \in Seq(Byte) /\ Len(zeros) = 4
  BY <1>3 DEF Byte
<1>8. /\ plain \in Seq(Byte) /\ Len(plain) = D + 16
      /\ \A k \in 1..(12 + D) : plain[k] = body[k]
  <2>1. plain \in Seq(Byte)
    BY <1>4, <1>6, <1>7, JoinIn
  <2>2. Len(plain) = Len(body) + Len(zeros)
    BY <1>4, <1>6, <1>7, JoinIn
  <2>3. Len(plain) = D + 16
    BY <2>2, <1>6, <1>7
  <2>4. \A k \in 1..(12 + D) : plain[k] = body[k]
    BY <1>4, <1>6, <1>7, JoinFirst
  <2>5. QED
    BY <2>1, <2>3, <2>4
<1>9. /\ frame \in Seq(Byte) /\ Len(frame) = D + 16
      /\ \A k \in 1..(12 + D) : frame[k] = plain[k]
  <2>1. Len(plain) >= FieldLen /\ Len(plain) - 4 = 12 + D
    BY <1>8, Sizes
  <2>2. QED
    BY <2>1, <1>5, <1>8, WithCRCIn
<1>10. \A k \in 1..D : frame[12 + k] = data[k]
  <2>1. \A k \in 1..D : 12 + k \in 1..(12 + D)
    OBVIOUS
  <2>2. QED
    BY <2>1, <1>6, <1>8, <1>9
<1>11. SubSeq(frame, 13, D + 12) = data
  <2>1. PICK got : got = SubSeq(frame, 13, D + 12)
    OBVIOUS
  <2>2. 13 \in Nat /\ D + 12 \in Nat /\ 1 <= 13 /\ 13 <= (D + 12) + 1 /\ D + 12 <= Len(frame)
    BY <1>9
  <2>3. /\ got \in Seq(Byte) /\ Len(got) = (D + 12) - 13 + 1
        /\ \A k \in 1..((D + 12) - 13 + 1) : got[k] = frame[13 + k - 1]
    BY <2>1, <2>2, <1>9, SubIn
  <2>4. (D + 12) - 13 + 1 = D /\ \A k \in 1..D : 13 + k - 1 = 12 + k
    OBVIOUS
  <2>5. got \in Seq(Byte) /\ Len(got) = D /\ \A k \in 1..D : got[k] = data[k]
    BY <2>3, <2>4, <1>10
  <2>6. QED
    BY <2>1, <2>5, <1>1, SameSeq
<1>12. String2Frame(frame).data = SubSeq(frame, HeadLen + 1, Len(frame) - 4)
  BY DataRead
<1>13. HeadLen + 1 = 13 /\ Len(frame) - 4 = D + 12
  BY <1>9 DEF HeadLen
<1>14. QED
  BY <1>2, <1>3, <1>4, <1>5, <1>11, <1>12, <1>13, Zenon

LEMMA ReplyData ==
  ASSUME NEW num \in Byte, NEW cmd \in Commands, NEW status \in 0..15,
         NEW data \in Seq(Byte), Len(data) + FieldLen < Short
  PROVE  String2Frame(WithCRC(FrameHead(num, Len(data) + FieldLen, Field(cmd, status, ActionReply))
                                \o data \o <<0, 0, 0, 0>>)).data = data
<1>1. PICK len \in Nat : len = Len(data) + FieldLen
  BY DEF FieldLen
<1>2. PICK head : head = FrameHead(num, len, Field(cmd, status, ActionReply))
  OBVIOUS
<1>3. head \in Seq(Byte) /\ Len(head) = 12
  BY <1>1, <1>2, HeadIn
<1>4. QED
  BY <1>1, <1>2, <1>3, ReadData

LEMMA NumberIsByte ==
  ASSUME TypeOK
  PROVE  send.FrameNumb \in Byte /\ NextNumb(send.FrameNumb) \in 0..(Modulus - 1)
         /\ NextNumb(send.FrameNumb) \in Byte
<1>1. Modulus \in Nat /\ Modulus <= 256 /\ Modulus > 0
  BY FrameAssumption
<1>2. send.FrameNumb \in 0..(Modulus - 1)
  BY DEF TypeOK
<1>3. \A k \in Nat : k % Modulus \in 0..(Modulus - 1)
  BY <1>1
<1>4. NextNumb(send.FrameNumb) \in 0..(Modulus - 1)
  BY <1>1, <1>2, <1>3 DEF NextNumb
<1>5. \A k \in 0..(Modulus - 1) : k \in Byte
  BY <1>1 DEF Byte
<1>6. QED
  BY <1>2, <1>4, <1>5

(* What reaches a handler is bytes. *)
LEMMA ReceivedIn ==
  ASSUME TypeOK, NEW cmd \in Commands, NEW f \in Received(cmd)
  PROVE  /\ f.data \in Seq(Byte)
         /\ state = "waiting" /\ send.Cmd = cmd
<1>1. state = "waiting" /\ send.Cmd = cmd
  BY DEF Received
<1>2. PICK a \in Answers(cmd) : f = String2Frame(ReplyFrame(a[1], a[2]))
  BY <1>1 DEF Received
<1>3. a[1] \in 0..15 /\ a[2] \in Seq(Byte) /\ Len(a[2]) + FieldLen < Short
  BY FrameAssumption
<1>4. send.FrameNumb \in Byte
  BY NumberIsByte
<1>5. f.data = a[2]
  <2>1. PICK d : d = a[2]
    OBVIOUS
  <2>2. PICK st : st = a[1]
    OBVIOUS
  <2>3. f = String2Frame(WithCRC(FrameHead(send.FrameNumb, Len(d) + FieldLen,
                                           Field(cmd, st, ActionReply))
                                   \o d \o <<0, 0, 0, 0>>))
    BY <1>1, <1>2, <2>1, <2>2 DEF ReplyFrame
  <2>4. QED
    BY <1>3, <1>4, <2>1, <2>2, <2>3, ReplyData
<1>6. QED
  BY <1>1, <1>3, <1>5

-----------------------------------------------------------------------------
(* The invariant. *)

(* The pending request is the one that was meant, and the frame carries it. *)
Waits ==
  state = "waiting" =>
    /\ send.Cmd = asked.cmd /\ asked.cmd \in Commands
    /\ asked.data \in Seq(Byte) /\ Len(asked.data) <= DataMax
    /\ str.Len = Len(asked.data) + FieldLen
    /\ Carrying(Frame, asked.num, Field(asked.cmd, 0, ActionSend), asked.data)
    /\ FrameSearch(Frame)

(* The module has told a length, and the frames are not longer. *)
Told ==
  /\ DOMAIN told = {"GET_DEVICE_MAX_FRAME_LEN", "SEND_FIRMWARE"}
  /\ transport # 0 =>
       \E n \in 0..BufLen : LittleEndian(n) = told["GET_DEVICE_MAX_FRAME_LEN"] /\ transport <= n

(* A piece of the file goes out as it was asked for last. *)
PieceAsked ==
  (state = "waiting" /\ asked.cmd = "SEND_FIRMWARE" /\ asked.data # << >>) =>
    /\ transport # 0 /\ Len(asked.data) + FieldLen <= transport
    /\ \E at \in 1..Len(File), size \in 1..DataMax :
         /\ LittleEndian(at) \o LittleEndian(size) = told["SEND_FIRMWARE"]
         /\ asked.data = SubSeq(File, at + 1, at + size)

FrameInv ==
  /\ TypeOK
  /\ asked.num = send.FrameNumb
  /\ Waits
  /\ Told
  /\ PieceAsked

(* A request that fits is sent, and the frame carries it. *)
LEMMA RequestWaits ==
  ASSUME TypeOK, asked.num = send.FrameNumb,
         NEW cmd \in Commands, NEW data \in Seq(Byte), Len(data) <= DataMax,
         cmd \in NeedsData => data # << >>, Request(cmd, data)
  PROVE  /\ send' \in [FrameNumb : 0..(Modulus - 1), Cmd : Commands \cup {"NONE"},
                       DataCount : 0..DataMax]
         /\ str'.StrBuf \in Seq(Byte) /\ Len(str'.StrBuf) = BufLen /\ str'.Len \in 0..BufLen
         /\ asked'.num = send'.FrameNumb
         /\ asked'.cmd = cmd /\ asked'.data = data
         /\ state' = "waiting" /\ Waits'
<1> DEFINE num == NextNumb(send.FrameNumb)
           buf == Put(str.StrBuf, HeadLen, SubSeq(data, 1, Len(data) % Short))
<1>1. Len(data) \in Nat /\ Len(data) % Short = Len(data) /\ ~TooLong(Len(data) % Short)
  <2>1. \A m \in Nat : m < Short => m % Short = m
    BY Sizes
  <2>2. QED
    BY <2>1, Sizes DEF TooLong
<1>2. Encode(cmd, data) /\ state' = "waiting"
      /\ asked' = [cmd |-> cmd, num |-> NextNumb(asked.num), data |-> data]
  BY DEF Request
<1>3. /\ send' = [FrameNumb |-> num, Cmd |-> cmd, DataCount |-> Len(data)]
      /\ str' = Frame2String(buf, num, cmd, Len(data))
  BY <1>1, <1>2, Zenon DEF Encode, DataCount
<1>4. SubSeq(data, 1, Len(data) % Short) = data
  BY <1>1
<1>5. str' = Frame2String(Put(str.StrBuf, HeadLen, data), num, cmd, Len(data))
  BY <1>3, <1>4
<1>6. num \in Byte /\ num \in 0..(Modulus - 1)
  BY NumberIsByte
<1>7. str.StrBuf \in Seq(Byte) /\ Len(str.StrBuf) = BufLen
  BY DEF TypeOK
<1> HIDE DEF num, buf
<1>8. /\ str'.StrBuf \in Seq(Byte) /\ Len(str'.StrBuf) = BufLen
      /\ str'.Len = Len(data) + FieldLen
      /\ Carrying(SubSeq(str'.StrBuf, 1, str'.Len), num, Field(cmd, 0, ActionSend), data)
      /\ FrameSearch(SubSeq(str'.StrBuf, 1, str'.Len))
  BY <1>5, <1>6, <1>7, EncodedCarries
<1>9. send'.FrameNumb = num /\ send'.Cmd = cmd /\ asked'.cmd = cmd /\ asked'.data = data
      /\ asked'.num = num
  BY <1>2, <1>3 DEF num
<1>10. send' \in [FrameNumb : 0..(Modulus - 1), Cmd : Commands \cup {"NONE"},
                  DataCount : 0..DataMax]
  BY <1>1, <1>3, <1>6, Sizes
<1>11. str'.Len \in 0..BufLen
  BY <1>1, <1>8, Sizes
<1>12. Frame' = SubSeq(str'.StrBuf, 1, str'.Len)
  BY DEF Frame
<1>13. Waits'
  <2>1. Carrying(Frame', asked'.num, Field(asked'.cmd, 0, ActionSend), asked'.data)
    BY <1>8, <1>9, <1>12
  <2>2. FrameSearch(Frame')
    BY <1>8, <1>12
  <2>3. QED
    BY <2>1, <2>2, <1>8, <1>9 DEF Waits
<1>14. QED
  BY <1>2, <1>8, <1>9, <1>10, <1>11, <1>13

-----------------------------------------------------------------------------
(* What the handlers take and the builders send. *)

LEMMA Lesser ==
  ASSUME NEW a \in Nat, NEW b \in Nat
  PROVE  Min({a, b}) \in {a, b} /\ Min({a, b}) <= b
<1>1. \E x \in {a, b} : \A y \in {a, b} : x <= y
  OBVIOUS
<1>2. Min({a, b}) = CHOOSE x \in {a, b} : \A y \in {a, b} : x <= y
  BY DEF Min
<1>3. QED
  BY <1>1, <1>2

LEMMA LengthWritten ==
  ASSUME NEW n \in 0..BufLen
  PROVE  /\ LittleEndian(n) \in Seq(Byte) /\ Len(LittleEndian(n)) = 4
         /\ LittleEndian(n)[4] < 128 /\ Number(LittleEndian(n)) = n
<1>1. n \in Nat /\ n < Short
  BY Sizes
<1>2. n < 2147483648
  BY <1>1, FrameAssumption
<1>3. QED
  BY <1>1, <1>2, Written

LEMMA FourRead ==
  ASSUME NEW b \in Seq(Byte), Len(b) = 4, Number(b) >= 0
  PROVE  LittleEndian(Number(b)) = b
<1>1. LittleEndian(Number(b)) = <<b[1], b[2], b[3], b[4]>>
  <2>1. Len(b) >= 4
    OBVIOUS
  <2>2. QED
    BY <2>1, NumberBack
<1>2. b = <<b[1], b[2], b[3], b[4]>>
  OBVIOUS
<1>3. QED
  BY <1>1, <1>2, Zenon

LEMMA KindOf ==
  /\ "GET_DEVICE_MAX_FRAME_LEN" \in Commands /\ "SEND_FIRMWARE" \in Commands
  /\ "SET_SEND_MAX_FRAME_LEN" \in Commands /\ "REQUEST_REBOOT" \in Commands
  /\ "SET_RADIO_UPDATE_TRANSFER_MODE" \in Commands
BY DEF Commands, CmdID

LEMMA ModeIn == RadioMode \in Seq(Byte) /\ Len(RadioMode) = 2
<1>1. (IF Opening THEN 1 ELSE 0) \in Byte /\ 0 \in Byte
  BY DEF Byte
<1>2. QED
  BY <1>1 DEF RadioMode

LEMMA NothingIn == << >> \in Seq(Byte) /\ Len(<< >>) = 0 /\ \A s \in Seq(Byte) : Len(s) > 0 => s # << >>
OBVIOUS

LEMMA InfoIn ==
  SubSeq(File, 1, FileInfoLen) \in Seq(Byte) /\ Len(SubSeq(File, 1, FileInfoLen)) = FileInfoLen
<1>1. File \in Seq(Byte) /\ FileInfoLen \in Nat /\ FileInfoLen <= Len(File)
  BY FrameAssumption
<1>2. 1 \in Nat /\ 1 <= 1 /\ 1 <= FileInfoLen + 1
  BY <1>1
<1>3. SubSeq(File, 1, FileInfoLen) \in Seq(Byte)
  BY <1>1, <1>2, SubIn
<1>4. Len(SubSeq(File, 1, FileInfoLen)) = FileInfoLen - 1 + 1
  BY <1>1, <1>2, SubIn
<1>5. QED
  BY <1>1, <1>3, <1>4

(* Every request that follows another fits, and is not empty where it must not be. *)
LEMMA FollowingFits ==
  ASSUME NEW c, NEW cmd \in Following(c)
  PROVE  /\ cmd \in Commands
         /\ Data(cmd) \in Seq(Byte) /\ Len(Data(cmd)) <= DataMax
         /\ cmd \in NeedsData => Data(cmd) # << >>
         /\ cmd = "SEND_FIRMWARE" => Data(cmd) = << >>
         /\ c # "GET_DEVICE_MAX_FRAME_LEN"
<1>1. c # "GET_DEVICE_MAX_FRAME_LEN"
  BY DEF Following
<1>2. cmd \in {"GET_DEVICE_INFO", "REQUEST_UPGRADE", "SET_FAST_UPDATE_MODE", "GET_DEVICE_STATUS",
               "SEND_FIRMWARE", "GET_DEVICE_MAX_FRAME_LEN", "SET_RADIO_UPDATE_TRANSFER_MODE"}
  BY DEF Following
<1>3. cmd \in Commands
  BY <1>2 DEF Commands, CmdID
<1>4. DataMax \in Nat /\ DataMax >= 4 /\ FileInfoLen \in Nat /\ FileInfoLen >= 1 /\ FileInfoLen <= DataMax
  BY FrameAssumption
<1>5. CASE cmd = "REQUEST_UPGRADE"
  <2>1. Data(cmd) = SubSeq(File, 1, FileInfoLen)
    BY <1>5 DEF Data
  <2>2. Data(cmd) \in Seq(Byte) /\ Len(Data(cmd)) = FileInfoLen
    BY <2>1, InfoIn
  <2>3. Data(cmd) # << >>
    BY <2>2, <1>4, NothingIn
  <2>4. QED
    BY <2>2, <2>3, <1>1, <1>3, <1>4, <1>5
<1>6. CASE cmd = "SET_RADIO_UPDATE_TRANSFER_MODE"
  <2>1. Data(cmd) = RadioMode
    BY <1>6 DEF Data
  <2>2. Data(cmd) \in Seq(Byte) /\ Len(Data(cmd)) = 2
    BY <2>1, ModeIn
  <2>3. Data(cmd) # << >>
    BY <2>2, NothingIn
  <2>4. QED
    BY <2>2, <2>3, <1>1, <1>3, <1>4, <1>6
<1>7. CASE cmd \notin {"REQUEST_UPGRADE", "SET_RADIO_UPDATE_TRANSFER_MODE"}
  <2>1. Data(cmd) = << >>
    BY <1>7 DEF Data
  <2>2. cmd \notin NeedsData
    BY <1>2, <1>7 DEF NeedsData
  <2>3. QED
    BY <2>1, <2>2, <1>1, <1>3, <1>4, NothingIn
<1>8. QED
  BY <1>5, <1>6, <1>7

(* Taking any other answer leaves what the module told of its lengths. *)
LEMMA TakenKeeps ==
  ASSUME Told, NEW cmd, cmd # "GET_DEVICE_MAX_FRAME_LEN", NEW f, Taken(cmd, f)
  PROVE  /\ DOMAIN told' = DOMAIN told
         /\ told'["GET_DEVICE_MAX_FRAME_LEN"] = told["GET_DEVICE_MAX_FRAME_LEN"]
         /\ remote' = remote
BY DEF Taken, Told

LEMMA ToldKept ==
  ASSUME Told, transport' = transport, DOMAIN told' = DOMAIN told,
         told'["GET_DEVICE_MAX_FRAME_LEN"] = told["GET_DEVICE_MAX_FRAME_LEN"]
  PROVE  Told'
BY DEF Told

LEMMA Quarter ==
  ASSUME NEW d \in Seq(Byte), NEW m \in Nat, NEW n \in Nat, 1 <= m, n = m + 3, n <= Len(d)
  PROVE  /\ SubSeq(d, m, n) \in Seq(Byte)
         /\ Len(SubSeq(d, m, n)) = 4
         /\ \A k \in 1..4 : SubSeq(d, m, n)[k] = d[m + k - 1]
<1>1. m <= n + 1 /\ n - m + 1 = 4
  OBVIOUS
<1>2. SubSeq(d, m, n) \in Seq(Byte)
  BY <1>1, SubIn
<1>3. Len(SubSeq(d, m, n)) = n - m + 1
  BY <1>1, SubIn
<1>4. \A k \in 1..(n - m + 1) : SubSeq(d, m, n)[k] = d[m + k - 1]
  BY <1>1, SubIn
<1>5. QED
  BY <1>1, <1>2, <1>3, <1>4

(* The two numbers of a reply to SEND_FIRMWARE. *)
LEMMA Halves ==
  ASSUME NEW d \in Seq(Byte), NEW low, NEW high, Len(d) = 8,
         low = SubSeq(d, 1, 4), high = SubSeq(d, 5, 8)
  PROVE  /\ low \in Seq(Byte) /\ Len(low) = 4 /\ \A k \in 1..4 : low[k] = d[k]
         /\ high \in Seq(Byte) /\ Len(high) = 4
         /\ d = low \o high
<1>1. low \in Seq(Byte) /\ Len(low) = 4 /\ \A k \in 1..4 : low[k] = d[1 + k - 1]
  <2>1. 1 \in Nat /\ 4 \in Nat /\ 1 <= 1 /\ 4 = 1 + 3 /\ 4 <= Len(d)
    OBVIOUS
  <2>2. SubSeq(d, 1, 4) \in Seq(Byte)
    BY <2>1, Quarter
  <2>3. Len(SubSeq(d, 1, 4)) = 4
    BY <2>1, Quarter
  <2>4. \A k \in 1..4 : SubSeq(d, 1, 4)[k] = d[1 + k - 1]
    BY <2>1, Quarter
  <2>5. QED
    BY <2>2, <2>3, <2>4
<1>2. high \in Seq(Byte) /\ Len(high) = 4 /\ \A k \in 1..4 : high[k] = d[5 + k - 1]
  <2>1. 5 \in Nat /\ 8 \in Nat /\ 1 <= 5 /\ 8 = 5 + 3 /\ 8 <= Len(d)
    OBVIOUS
  <2>2. SubSeq(d, 5, 8) \in Seq(Byte)
    BY <2>1, Quarter
  <2>3. Len(SubSeq(d, 5, 8)) = 4
    BY <2>1, Quarter
  <2>4. \A k \in 1..4 : SubSeq(d, 5, 8)[k] = d[5 + k - 1]
    BY <2>1, Quarter
  <2>5. QED
    BY <2>2, <2>3, <2>4
<1>3. \A k \in 1..4 : 1 + k - 1 = k /\ 5 + k - 1 = 4 + k
  OBVIOUS
<1>4. \A k \in 1..4 : low[k] = d[k] /\ high[k] = d[4 + k]
  BY <1>1, <1>2, <1>3
<1>5. PICK both : both = low \o high
  OBVIOUS
<1>6. both \in Seq(Byte)
  BY <1>1, <1>2, <1>5, JoinIn
<1>7. Len(both) = Len(low) + Len(high)
  BY <1>1, <1>2, <1>5, JoinIn
<1>8. \A k \in 1..4 : both[k] = low[k]
  BY <1>1, <1>2, <1>5, JoinFirst
<1>9. \A k \in 1..4 : both[4 + k] = high[k]
  BY <1>1, <1>2, <1>5, JoinLast
<1>10. \A k \in 1..8 : both[k] = d[k]
  <2>1. ASSUME NEW k \in 1..8, k <= 4 PROVE both[k] = d[k]
    BY <2>1, <1>4, <1>8
  <2>2. ASSUME NEW k \in 1..8, k > 4 PROVE both[k] = d[k]
    <3>1. PICK j \in 1..4 : k = 4 + j
      BY <2>2
    <3>2. QED
      BY <3>1, <1>4, <1>9
  <2>3. QED
    BY <2>1, <2>2
<1>11. d = both
  <2>1. Len(both) = 8
    BY <1>1, <1>2, <1>7
  <2>2. QED
    BY <2>1, <1>6, <1>10, SameSeq
<1>12. QED
  BY <1>1, <1>2, <1>4, <1>5, <1>11

LEMMA NotNegative ==
  ASSUME NEW b \in Seq(Byte), Len(b) = 4, b[4] < 128
  PROVE  Number(b) >= 0
<1>1. b[1] \in Byte /\ b[2] \in Byte /\ b[3] \in Byte /\ b[4] \in Byte
  <2>1. Len(b) >= 4
    OBVIOUS
  <2>2. QED
    BY ONLY <2>1, b \in Seq(Byte), FourIn
<1>2. \A p, q, r, s \in Byte : p + q * 256 + r * 65536 + s * 16777216 >= 0
  BY DEF Byte
<1>3. Number(b) = b[1] + b[2] * 256 + b[3] * 65536 + b[4] * 16777216
  BY DEF Number
<1>4. QED
  BY <1>1, <1>2, <1>3

LEMMA NotNone ==
  ASSUME NEW b \in Seq(Byte), Len(b) = 4, Number(b) >= 0, b # <<0, 0, 0, 0>>
  PROVE  Number(b) \in Nat /\ Number(b) # 0
<1>1. b = <<b[1], b[2], b[3], b[4]>>
  OBVIOUS
<1>2. ~(b[1] = 0 /\ b[2] = 0 /\ b[3] = 0 /\ b[4] = 0)
  BY <1>1, Zenon
<1>3. Len(b) >= 4
  OBVIOUS
<1>4. Number(b) \in Nat
  BY <1>3, NumberBack
<1>5. Number(b) = 0 => b[1] = 0 /\ b[2] = 0 /\ b[3] = 0 /\ b[4] = 0
  BY <1>3, NumberBack
<1>6. QED
  BY <1>2, <1>4, <1>5

LEMMA PieceCut ==
  ASSUME NEW at \in Nat, NEW size \in Nat, at + size <= Len(File)
  PROVE  /\ SubSeq(File, at + 1, at + size) \in Seq(Byte)
         /\ Len(SubSeq(File, at + 1, at + size)) = size
<1>1. File \in Seq(Byte) /\ Len(File) \in Nat
  BY FrameAssumption
<1>2. PICK m \in Nat : m = at + 1
  OBVIOUS
<1>3. PICK n \in Nat : n = at + size
  OBVIOUS
<1>4. 1 <= m /\ m <= n + 1 /\ n <= Len(File) /\ n - m + 1 = size
  BY <1>2, <1>3
<1>5. SubSeq(File, m, n) \in Seq(Byte)
  BY <1>1, <1>4, SubIn
<1>6. Len(SubSeq(File, m, n)) = n - m + 1
  BY <1>1, <1>4, SubIn
<1>7. QED
  BY <1>2, <1>3, <1>4, <1>5, <1>6

LEMMA PieceRead ==
  ASSUME FrameInv, NEW f \in Received("SEND_FIRMWARE"), Taken("SEND_FIRMWARE", f), Asked(f)
  PROVE  \E low, high \in Seq(Byte) :
           /\ f.data = low \o high /\ Len(low) = 4 /\ Len(high) = 4
           /\ low # <<0, 0, 0, 0>> /\ high # <<0, 0, 0, 0>>
           /\ Number(f.data) = Number(low) /\ high = SubSeq(f.data, 5, 8)
           /\ high[4] < 128 /\ Number(high) <= transport - FieldLen
           /\ told'["SEND_FIRMWARE"] = f.data
<1>1. f.data \in Seq(Byte) /\ send.Cmd = "SEND_FIRMWARE"
  <2>1. TypeOK /\ "SEND_FIRMWARE" \in Commands
    BY KindOf DEF FrameInv
  <2>2. QED
    BY <2>1, ReceivedIn
<1>2. Accepts(f)
  BY DEF Taken
<1>3. SendSubPackageFirmwareReply(f)
  BY <1>1, <1>2 DEF Accepts
<1>4. Carries(f, 8) /\ AtMost(SubSeq(f.data, 5, 8), transport - FieldLen)
  BY <1>3 DEF SendSubPackageFirmwareReply
<1>5. Len(f.data) = 8
  BY <1>4 DEF Carries
<1>6. PICK d \in Seq(Byte) : d = f.data /\ Len(d) = 8
  BY <1>1, <1>5
<1>7. PICK low : low = SubSeq(d, 1, 4)
  OBVIOUS
<1>8. PICK high : high = SubSeq(d, 5, 8)
  OBVIOUS
<1>9. low \in Seq(Byte) /\ Len(low) = 4
  BY <1>6, <1>7, <1>8, Halves
<1>10. high \in Seq(Byte) /\ Len(high) = 4
  BY <1>6, <1>7, <1>8, Halves
<1>11. d = low \o high
  BY <1>6, <1>7, <1>8, Halves
<1>12. low # <<0, 0, 0, 0>> /\ high # <<0, 0, 0, 0>>
  BY <1>6, <1>7, <1>8 DEF Asked
<1>13. Number(d) = Number(low)
  <2>1. \A k \in 1..4 : low[k] = d[k]
    BY <1>6, <1>7, <1>8, Halves
  <2>2. low[1] = d[1] /\ low[2] = d[2] /\ low[3] = d[3] /\ low[4] = d[4]
    BY <2>1
  <2>3. QED
    BY <2>2 DEF Number
<1>14. high[4] < 128 /\ Number(high) <= transport - FieldLen
  BY <1>4, <1>6, <1>8 DEF AtMost
<1>15. told'["SEND_FIRMWARE"] = f.data
  BY DEF Taken, FrameInv, Told
<1>16. QED
  BY <1>6, <1>8, <1>9, <1>10, <1>11, <1>12, <1>13, <1>14, <1>15

(* A piece that is asked for lies in the file and fits the frame. *)
LEMMA PieceFits ==
  ASSUME FrameInv, NEW f \in Received("SEND_FIRMWARE"), Taken("SEND_FIRMWARE", f), Asked(f),
         InFile(Number(f.data), Number(SubSeq(f.data, 5, 8)))
  PROVE  \E at \in 1..Len(File), size \in 1..DataMax :
           /\ at = Number(f.data) /\ size = Number(SubSeq(f.data, 5, 8))
           /\ size + FieldLen <= transport /\ transport # 0
           /\ SubSeq(File, at + 1, at + size) \in Seq(Byte)
           /\ Len(SubSeq(File, at + 1, at + size)) = size
           /\ told'["SEND_FIRMWARE"] = LittleEndian(at) \o LittleEndian(size)
<1>1. PICK low \in Seq(Byte), high \in Seq(Byte) :
        /\ f.data = low \o high /\ Len(low) = 4 /\ Len(high) = 4
        /\ low # <<0, 0, 0, 0>> /\ high # <<0, 0, 0, 0>>
        /\ Number(f.data) = Number(low) /\ high = SubSeq(f.data, 5, 8)
        /\ high[4] < 128 /\ Number(high) <= transport - FieldLen
        /\ told'["SEND_FIRMWARE"] = f.data
  BY PieceRead
<1>2. PICK at : at = Number(low)
  OBVIOUS
<1>3. PICK size : size = Number(high)
  OBVIOUS
<1>4. at >= 0 /\ at + size <= Len(File)
  BY <1>1, <1>2, <1>3 DEF InFile
<1>5. size >= 0
  BY <1>1, <1>3, NotNegative
<1>6. at \in Nat /\ at # 0
  BY <1>1, <1>2, <1>4, NotNone
<1>7. size \in Nat /\ size # 0
  BY <1>1, <1>3, <1>5, NotNone
<1>8. LittleEndian(at) = low
  BY <1>1, <1>2, <1>4, FourRead
<1>9. LittleEndian(size) = high
  BY <1>1, <1>3, <1>5, FourRead
<1>10. transport \in Nat /\ transport <= BufLen
  BY Sizes DEF FrameInv, TypeOK
<1>11. Len(File) \in Nat
  BY FrameAssumption
<1>12. size <= transport - FieldLen
  BY <1>1, <1>3
<1>13. at \in 1..Len(File) /\ size \in 1..DataMax
  BY <1>4, <1>6, <1>7, <1>10, <1>11, <1>12, Sizes
<1>14. size + FieldLen <= transport /\ transport # 0
  BY <1>7, <1>10, <1>12, Sizes
<1>15. SubSeq(File, at + 1, at + size) \in Seq(Byte)
  BY <1>4, <1>6, <1>7, PieceCut
<1>16. Len(SubSeq(File, at + 1, at + size)) = size
  BY <1>4, <1>6, <1>7, PieceCut
<1>17. told'["SEND_FIRMWARE"] = LittleEndian(at) \o LittleEndian(size)
  BY <1>1, <1>8, <1>9
<1>18. at = Number(f.data) /\ size = Number(SubSeq(f.data, 5, 8))
  BY <1>1, <1>2, <1>3
<1>19. QED
  BY <1>13, <1>14, <1>15, <1>16, <1>17, <1>18

-----------------------------------------------------------------------------
(* Each step. *)

LEMMA InitHolds == Init => FrameInv
<1> SUFFICES ASSUME Init PROVE FrameInv
  OBVIOUS
<1> USE DEF Init
<1>1. send \in [FrameNumb : 0..(Modulus - 1), Cmd : Commands \cup {"NONE"}, DataCount : 0..DataMax]
  <2>1. 0 \in 0..(Modulus - 1) /\ 0 \in 0..DataMax
    BY FrameAssumption
  <2>2. QED
    BY <2>1
<1>2. str.StrBuf \in Seq(Byte) /\ Len(str.StrBuf) = BufLen
  <2>1. 0 \in Byte /\ BufLen \in Nat
    BY Sizes DEF Byte
  <2>2. PICK zeros : zeros = [k \in 1..BufLen |-> 0]
    OBVIOUS
  <2>3. zeros \in Seq(Byte)
    BY <2>1, <2>2
  <2>4. Len(zeros) = BufLen
    BY <2>1, <2>2
  <2>5. QED
    BY <2>2, <2>3, <2>4
<1>3. str.Len \in 0..BufLen /\ transport \in 0..BufLen
  BY Sizes
<1>4. TypeOK
  BY <1>1, <1>2, <1>3 DEF TypeOK
<1>5. asked.num = send.FrameNumb /\ Waits /\ Told /\ PieceAsked
  BY DEF Waits, Told, PieceAsked
<1>6. QED
  BY <1>4, <1>5 DEF FrameInv

(* After a request: what a step has to see to beyond RequestWaits. *)
LEMMA Requested ==
  ASSUME FrameInv, NEW cmd \in Commands, NEW data \in Seq(Byte), Len(data) <= DataMax,
         cmd \in NeedsData => data # << >>, Request(cmd, data),
         remote' \in BOOLEAN, transport' \in 0..BufLen, Told',
         (cmd = "SEND_FIRMWARE" /\ data # << >>) =>
           /\ transport' # 0 /\ Len(data) + FieldLen <= transport'
           /\ \E at \in 1..Len(File), size \in 1..DataMax :
                /\ LittleEndian(at) \o LittleEndian(size) = told'["SEND_FIRMWARE"]
                /\ data = SubSeq(File, at + 1, at + size)
  PROVE  FrameInv'
<1>1. TypeOK /\ asked.num = send.FrameNumb
  BY DEF FrameInv
<1>2. /\ send' \in [FrameNumb : 0..(Modulus - 1), Cmd : Commands \cup {"NONE"},
                    DataCount : 0..DataMax]
      /\ str'.StrBuf \in Seq(Byte) /\ Len(str'.StrBuf) = BufLen /\ str'.Len \in 0..BufLen
      /\ asked'.num = send'.FrameNumb
      /\ asked'.cmd = cmd /\ asked'.data = data
      /\ state' = "waiting" /\ Waits'
  BY <1>1, RequestWaits
<1>3. TypeOK'
  BY <1>2 DEF TypeOK
<1>4. PieceAsked'
  BY <1>2 DEF PieceAsked
<1>5. QED
  BY <1>2, <1>3, <1>4 DEF FrameInv

(* After a step that sends nothing and waits for nothing. *)
LEMMA Ended ==
  ASSUME FrameInv, state' \in {"FAIL", "SUCCESS"}, UNCHANGED <<remote, send, str, transport, asked>>, Told'
  PROVE  FrameInv'
<1>1. TypeOK'
  BY DEF FrameInv, TypeOK
<1>2. asked'.num = send'.FrameNumb
  BY DEF FrameInv
<1>3. Waits' /\ PieceAsked'
  BY DEF Waits, PieceAsked
<1>4. QED
  BY <1>1, <1>2, <1>3 DEF FrameInv

LEMMA StartStep ==
  ASSUME FrameInv, Start
  PROVE  FrameInv'
<1>1. UNCHANGED <<remote, transport, told>>
  BY DEF Start
<1>2. remote' \in BOOLEAN /\ transport' \in 0..BufLen
  BY <1>1 DEF FrameInv, TypeOK
<1>3. Told'
  BY <1>1, ToldKept DEF FrameInv
<1>4. CASE Request("SET_RADIO_UPDATE_TRANSFER_MODE", RadioMode)
  <2>1. RadioMode \in Seq(Byte) /\ Len(RadioMode) <= DataMax /\ RadioMode # << >>
    BY ModeIn, NothingIn, Sizes
  <2>2. QED
    BY <1>2, <1>3, <1>4, <2>1, KindOf, Requested
<1>5. CASE Request("GET_DEVICE_MAX_FRAME_LEN", << >>)
  <2>1. << >> \in Seq(Byte) /\ Len(<< >>) <= DataMax /\ "GET_DEVICE_MAX_FRAME_LEN" \notin NeedsData
    BY NothingIn, Sizes DEF NeedsData
  <2>2. QED
    BY <1>2, <1>3, <1>5, <2>1, KindOf, Requested
<1>6. QED
  BY <1>4, <1>5 DEF Start

LEMMA RefusedStep ==
  ASSUME FrameInv, Refused
  PROVE  FrameInv'
<1>1. state' = "FAIL" /\ UNCHANGED <<remote, send, str, transport, asked, told>>
  BY DEF Refused
<1>2. Told'
  BY <1>1, ToldKept DEF FrameInv
<1>3. QED
  BY <1>1, <1>2, Ended

LEMMA MaxFrameLenStep ==
  ASSUME FrameInv, MaxFrameLenReceived
  PROVE  FrameInv'
<1>1. PICK f \in Received("GET_DEVICE_MAX_FRAME_LEN") :
        /\ Taken("GET_DEVICE_MAX_FRAME_LEN", f)
        /\ \E TransferSize \in Table : transport' = Min({TransferSize + FieldLen, Number(f.data)})
        /\ Request("SET_SEND_MAX_FRAME_LEN", LittleEndian(transport'))
  BY DEF MaxFrameLenReceived
<1>2. f.data \in Seq(Byte) /\ send.Cmd = "GET_DEVICE_MAX_FRAME_LEN"
  <2>1. TypeOK /\ "GET_DEVICE_MAX_FRAME_LEN" \in Commands
    BY KindOf DEF FrameInv
  <2>2. QED
    BY <2>1, ReceivedIn
<1>3. Accepts(f)
  BY <1>1 DEF Taken
<1>4. GetFrameMaxLenReply(f)
  BY <1>2, <1>3 DEF Accepts
<1>5. Len(f.data) = 4 /\ Number(f.data) \in LeastMax..BufLen
  BY <1>4 DEF GetFrameMaxLenReply, Carries
<1>6. PICK n : n = Number(f.data)
  OBVIOUS
<1>7. n \in Nat /\ n <= BufLen
  BY <1>5, <1>6, FrameAssumption, Sizes
<1>8. LittleEndian(n) = f.data
  BY <1>2, <1>5, <1>6, <1>7, FourRead
<1>9. PICK TransferSize \in Table : transport' = Min({TransferSize + FieldLen, n})
  BY <1>1, <1>6
<1>10. TransferSize + FieldLen \in Nat
  BY FrameAssumption DEF FieldLen
<1>11. transport' \in Nat /\ transport' <= n
  BY <1>7, <1>9, <1>10, Lesser
<1>12. transport' \in 0..BufLen
  BY <1>7, <1>11, Sizes
<1>13. DOMAIN told' = DOMAIN told /\ told'["GET_DEVICE_MAX_FRAME_LEN"] = f.data /\ remote' = remote
  BY <1>1 DEF Taken, FrameInv, Told
<1>14. Told'
  <2>1. n \in 0..BufLen
    BY <1>7, Sizes
  <2>2. QED
    BY <2>1, <1>8, <1>11, <1>13 DEF Told, FrameInv
<1>15. PICK data : data = LittleEndian(transport')
  OBVIOUS
<1>16. data \in Seq(Byte) /\ Len(data) = 4
  BY <1>12, <1>15, LengthWritten
<1>17. Len(data) <= DataMax /\ data # << >>
  BY <1>16, NothingIn, Sizes
<1>18. remote' \in BOOLEAN
  BY <1>13 DEF FrameInv, TypeOK
<1>19. Request("SET_SEND_MAX_FRAME_LEN", data)
  BY <1>1, <1>15
<1>20. QED
  BY <1>12, <1>14, <1>16, <1>17, <1>18, <1>19, KindOf, Requested

(* The answer that leads on, or none that is waited for: either way the lengths
   the module told are kept. *)
LEMMA TakenOrRebootKeeps ==
  ASSUME FrameInv, TakenOrReboot, send.Cmd # "GET_DEVICE_MAX_FRAME_LEN"
  PROVE  /\ DOMAIN told' = DOMAIN told
         /\ told'["GET_DEVICE_MAX_FRAME_LEN"] = told["GET_DEVICE_MAX_FRAME_LEN"]
         /\ remote' = remote
<1>1. CASE Unanswered
  BY <1>1 DEF Unanswered
<1>2. CASE \E f \in Received(send.Cmd) : Taken(send.Cmd, f)
  BY <1>2, TakenKeeps DEF FrameInv
<1>3. QED
  BY <1>1, <1>2 DEF TakenOrReboot

LEMMA GoOnStep ==
  ASSUME FrameInv, GoOn
  PROVE  FrameInv'
<1>1. PICK cmd \in Following(send.Cmd) : Request(cmd, Data(cmd))
  BY DEF GoOn
<1>2. TakenOrReboot /\ transport' = transport
  BY DEF GoOn
<1>3. /\ cmd \in Commands
      /\ Data(cmd) \in Seq(Byte) /\ Len(Data(cmd)) <= DataMax
      /\ cmd \in NeedsData => Data(cmd) # << >>
      /\ cmd = "SEND_FIRMWARE" => Data(cmd) = << >>
      /\ send.Cmd # "GET_DEVICE_MAX_FRAME_LEN"
  BY FollowingFits
<1>4. /\ DOMAIN told' = DOMAIN told
      /\ told'["GET_DEVICE_MAX_FRAME_LEN"] = told["GET_DEVICE_MAX_FRAME_LEN"]
      /\ remote' = remote
  BY <1>2, <1>3, TakenOrRebootKeeps
<1>5. remote' \in BOOLEAN /\ transport' \in 0..BufLen
  BY <1>2, <1>4 DEF FrameInv, TypeOK
<1>6. Told'
  BY <1>2, <1>4, ToldKept DEF FrameInv
<1>7. QED
  BY <1>1, <1>3, <1>5, <1>6, Requested

LEMMA SendPieceStep ==
  ASSUME FrameInv, SendPiece
  PROVE  FrameInv'
<1>1. PICK f \in Received("SEND_FIRMWARE") :
        /\ Taken("SEND_FIRMWARE", f) /\ Asked(f)
        /\ InFile(Number(f.data), Number(SubSeq(f.data, 5, 8)))
        /\ Request("SEND_FIRMWARE", SubSeq(File, Number(f.data) + 1,
                                           Number(f.data) + Number(SubSeq(f.data, 5, 8))))
        /\ transport' = transport
  BY DEF SendPiece
<1>2. PICK at \in 1..Len(File), size \in 1..DataMax :
        /\ at = Number(f.data) /\ size = Number(SubSeq(f.data, 5, 8))
        /\ size + FieldLen <= transport /\ transport # 0
        /\ SubSeq(File, at + 1, at + size) \in Seq(Byte)
        /\ Len(SubSeq(File, at + 1, at + size)) = size
        /\ told'["SEND_FIRMWARE"] = LittleEndian(at) \o LittleEndian(size)
  BY <1>1, PieceFits
<1>3. PICK data : data = SubSeq(File, at + 1, at + size)
  OBVIOUS
<1>4. Request("SEND_FIRMWARE", data)
  BY <1>1, <1>2, <1>3
<1>5. data \in Seq(Byte) /\ Len(data) = size
  BY <1>2, <1>3
<1>6. Len(data) <= DataMax /\ "SEND_FIRMWARE" \notin NeedsData
  BY <1>5, Sizes DEF NeedsData
<1>7. /\ DOMAIN told' = DOMAIN told
      /\ told'["GET_DEVICE_MAX_FRAME_LEN"] = told["GET_DEVICE_MAX_FRAME_LEN"]
      /\ remote' = remote
  BY <1>1, TakenKeeps DEF FrameInv
<1>8. remote' \in BOOLEAN /\ transport' \in 0..BufLen
  BY <1>1, <1>7 DEF FrameInv, TypeOK
<1>9. Told'
  BY <1>1, <1>7, ToldKept DEF FrameInv
<1>10. /\ transport' # 0 /\ Len(data) + FieldLen <= transport'
       /\ LittleEndian(at) \o LittleEndian(size) = told'["SEND_FIRMWARE"]
  BY <1>1, <1>2, <1>5
<1>11. QED
  BY <1>3, <1>4, <1>5, <1>6, <1>8, <1>9, <1>10, KindOf, Requested

LEMMA FileReadFailedStep ==
  ASSUME FrameInv, FileReadFailed
  PROVE  FrameInv'
<1>1. PICK f \in Received("SEND_FIRMWARE") : Taken("SEND_FIRMWARE", f)
  BY DEF FileReadFailed
<1>2. state' = "FAIL" /\ UNCHANGED <<send, str, transport, asked>>
  BY DEF FileReadFailed
<1>3. /\ DOMAIN told' = DOMAIN told
      /\ told'["GET_DEVICE_MAX_FRAME_LEN"] = told["GET_DEVICE_MAX_FRAME_LEN"]
      /\ remote' = remote
  BY <1>1, TakenKeeps DEF FrameInv
<1>4. Told'
  BY <1>2, <1>3, ToldKept DEF FrameInv
<1>5. QED
  BY <1>2, <1>3, <1>4, Ended

LEMMA FirmwareSentStep ==
  ASSUME FrameInv, FirmwareSent
  PROVE  FrameInv'
<1>1. PICK f \in Received("SEND_FIRMWARE") : Taken("SEND_FIRMWARE", f)
  BY DEF FirmwareSent
<1>2. transport' = transport
  BY DEF FirmwareSent
<1>3. /\ DOMAIN told' = DOMAIN told
      /\ told'["GET_DEVICE_MAX_FRAME_LEN"] = told["GET_DEVICE_MAX_FRAME_LEN"]
      /\ remote' = remote
  BY <1>1, TakenKeeps DEF FrameInv
<1>4. Told'
  BY <1>2, <1>3, ToldKept DEF FrameInv
<1>5. CASE Request("REQUEST_REBOOT", << >>)
  <2>1. << >> \in Seq(Byte) /\ Len(<< >>) <= DataMax /\ "REQUEST_REBOOT" \notin NeedsData
    BY NothingIn, Sizes DEF NeedsData
  <2>2. remote' \in BOOLEAN /\ transport' \in 0..BufLen
    BY <1>2, <1>3 DEF FrameInv, TypeOK
  <2>3. QED
    BY <1>4, <1>5, <2>1, <2>2, KindOf, Requested
<1>6. CASE state' = "SUCCESS" /\ UNCHANGED <<send, str, asked>>
  BY <1>2, <1>3, <1>4, <1>6, Ended
<1>7. QED
  BY <1>5, <1>6 DEF FirmwareSent

LEMMA FinishedStep ==
  ASSUME FrameInv, Finished
  PROVE  FrameInv'
<1>1. /\ send.Cmd # "GET_DEVICE_MAX_FRAME_LEN" /\ TakenOrReboot
      /\ state' = "SUCCESS" /\ UNCHANGED <<send, str, transport, asked>>
  BY DEF Finished
<1>2. /\ DOMAIN told' = DOMAIN told
      /\ told'["GET_DEVICE_MAX_FRAME_LEN"] = told["GET_DEVICE_MAX_FRAME_LEN"]
      /\ remote' = remote
  BY <1>1, TakenOrRebootKeeps
<1>3. Told'
  BY <1>1, <1>2, ToldKept DEF FrameInv
<1>4. QED
  BY <1>1, <1>2, <1>3, Ended

LEMMA StepHolds == FrameInv /\ [Next]_vars => FrameInv'
<1> SUFFICES ASSUME FrameInv, [Next]_vars PROVE FrameInv'
  OBVIOUS
<1>1. CASE UNCHANGED vars
  <2>1. TypeOK'
    BY <1>1 DEF vars, FrameInv, TypeOK
  <2>2. Waits'
    BY <1>1 DEF vars, FrameInv, Waits, Frame
  <2>3. (asked.num = send.FrameNumb)' /\ Told' /\ PieceAsked'
    BY <1>1 DEF vars, FrameInv, Told, PieceAsked
  <2>4. QED
    BY <2>1, <2>2, <2>3 DEF FrameInv
<1>2. CASE Next
  BY <1>2, StartStep, RefusedStep, MaxFrameLenStep, GoOnStep, SendPieceStep, FileReadFailedStep,
     FirmwareSentStep, FinishedStep DEF Next
<1>3. QED
  BY <1>1, <1>2

LEMMA FrameInvariant == Spec => []FrameInv
BY InitHolds, StepHolds, PTL DEF Spec

-----------------------------------------------------------------------------
(* What the invariant gives. *)

LEMMA HeadRead ==
  ASSUME NEW frame, NEW num, NEW cmd \in Commands, NEW data \in Seq(Byte),
         NEW len \in Nat, len = Len(data) + FieldLen,
         Carrying(frame, num, Field(cmd, 0, ActionSend), data)
  PROVE  /\ frame[1] = 213 /\ frame[2] = 165 /\ frame[4] = num
         /\ frame[5] = len \div 256 /\ frame[6] = len % 256
         /\ frame[9] = 0 /\ frame[10] = 0 /\ frame[11] = 0 /\ frame[12] = CmdID[cmd]
<1>1. Field(cmd, 0, ActionSend) = <<0, 0, 0, CmdID[cmd]>>
  <2>1. 0 \in 0..15 /\ ActionSend \in {ActionSend, ActionReply}
    OBVIOUS
  <2>2. Field(cmd, 0, ActionSend) = <<ActionSend * 64 + 0 * 4, 0, 0, CmdID[cmd]>>
    BY <2>1, FieldBytes
  <2>3. QED
    BY <2>2 DEF ActionSend
<1>2. FrameHead(num, len, Field(cmd, 0, ActionSend))
        = <<213, 165, 0, num, len \div 256, len % 256, 0, 0, 0, 0, 0, CmdID[cmd]>>
  BY <1>1, HeadBytes
<1>3. PICK head : head = FrameHead(num, len, Field(cmd, 0, ActionSend))
  OBVIOUS
<1>4. /\ head[1] = 213 /\ head[2] = 165 /\ head[4] = num
      /\ head[5] = len \div 256 /\ head[6] = len % 256
      /\ head[9] = 0 /\ head[10] = 0 /\ head[11] = 0 /\ head[12] = CmdID[cmd]
  BY <1>2, <1>3
<1>5. \A k \in 1..12 : frame[k] = head[k]
  BY <1>3 DEF Carrying, HeadLen
<1>6. /\ frame[1] = head[1] /\ frame[2] = head[2] /\ frame[4] = head[4]
      /\ frame[5] = head[5] /\ frame[6] = head[6]
      /\ frame[9] = head[9] /\ frame[10] = head[10] /\ frame[11] = head[11] /\ frame[12] = head[12]
  BY <1>5
<1>7. frame[1] = 213 /\ frame[2] = 165 /\ frame[4] = num
  BY ONLY <1>4, <1>6
<1>8. frame[5] = len \div 256 /\ frame[6] = len % 256
  <2>1. frame[5] = head[5] /\ head[5] = len \div 256
    BY <1>4, <1>6
  <2>2. frame[6] = head[6] /\ head[6] = len % 256
    BY <1>4, <1>6
  <2>3. QED
    BY ONLY <2>1, <2>2, Zenon
<1>9. frame[9] = 0 /\ frame[10] = 0 /\ frame[11] = 0 /\ frame[12] = CmdID[cmd]
  BY ONLY <1>4, <1>6
<1>10. QED
  BY ONLY <1>7, <1>8, <1>9

LEMMA BodyRead ==
  ASSUME NEW frame \in Seq(Byte), NEW data \in Seq(Byte), Len(frame) = Len(data) + FieldLen,
         \A k \in 1..Len(data) : frame[HeadLen + k] = data[k]
  PROVE  SubSeq(frame, HeadLen + 1, Len(frame) - 4) = data
<1>1. PICK m \in Nat : m = 13
  OBVIOUS
<1>2. PICK n \in Nat : n = Len(data) + 12
  OBVIOUS
<1>3. PICK got : got = SubSeq(frame, m, n)
  OBVIOUS
<1>4. 1 <= m /\ m <= n + 1 /\ n <= Len(frame) /\ n - m + 1 = Len(data)
  BY <1>1, <1>2, Sizes
<1>5. got \in Seq(Byte)
  BY <1>3, <1>4, SubIn
<1>6. Len(got) = n - m + 1
  BY <1>3, <1>4, SubIn
<1>7. \A k \in 1..(n - m + 1) : got[k] = frame[m + k - 1]
  BY <1>3, <1>4, SubIn
<1>8. \A k \in 1..Len(data) : m + k - 1 = HeadLen + k
  BY <1>1 DEF HeadLen
<1>9. \A k \in 1..Len(data) : got[k] = data[k]
  BY <1>4, <1>7, <1>8
<1>10. got = data
  BY <1>4, <1>5, <1>6, <1>9, SameSeq
<1>11. HeadLen + 1 = m /\ Len(frame) - 4 = n
  BY <1>1, <1>2, Sizes
<1>12. QED
  BY <1>3, <1>10, <1>11

LEMMA InvReadsBack == FrameInv => ReadsBack
<1> SUFFICES ASSUME FrameInv, state = "waiting"
             PROVE  /\ SubSeq(Frame, 1, 2) = Header
                    /\ Frame[5] * 256 + Frame[6] = Len(Frame)
                    /\ FrameSearch(Frame)
                    /\ String2Frame(Frame) = [num |-> asked.num, action |-> ActionSend, status |-> 0,
                                              cmd |-> CmdID[asked.cmd], data |-> asked.data]
  BY DEF ReadsBack
<1>1. PICK frame : frame = Frame
  OBVIOUS
<1>2. PICK data : data = asked.data
  OBVIOUS
<1>3. PICK cmd : cmd = asked.cmd
  OBVIOUS
<1>4. PICK num : num = asked.num
  OBVIOUS
<1>5. /\ cmd \in Commands /\ data \in Seq(Byte)
      /\ Carrying(frame, num, Field(cmd, 0, ActionSend), data)
      /\ FrameSearch(frame)
  BY <1>1, <1>2, <1>3, <1>4 DEF FrameInv, Waits
<1>6. PICK len \in Nat : len = Len(data) + FieldLen
  BY <1>5 DEF FieldLen
<1>7. frame \in Seq(Byte) /\ Len(frame) = len
  BY <1>5, <1>6 DEF Carrying
<1>8. /\ frame[1] = 213 /\ frame[2] = 165 /\ frame[4] = num
      /\ frame[5] = len \div 256 /\ frame[6] = len % 256
      /\ frame[9] = 0 /\ frame[10] = 0 /\ frame[11] = 0 /\ frame[12] = CmdID[cmd]
  BY <1>5, <1>6, HeadRead
<1>9. SubSeq(frame, 1, 2) = Header
  <2>1. Len(frame) >= 2
    BY <1>5, <1>6, <1>7 DEF FieldLen
  <2>2. PICK two : two = SubSeq(frame, 1, 2)
    OBVIOUS
  <2>3. 1 \in Nat /\ 2 \in Nat /\ 1 <= 1 /\ 1 <= 2 + 1 /\ 2 <= Len(frame) /\ 2 - 1 + 1 = 2
    BY <2>1
  <2>4. two \in Seq(Byte)
    BY <1>7, <2>2, <2>3, SubIn
  <2>5. Len(two) = 2 - 1 + 1
    BY <1>7, <2>2, <2>3, SubIn
  <2>6. \A k \in 1..(2 - 1 + 1) : two[k] = frame[1 + k - 1]
    BY <1>7, <2>2, <2>3, SubIn
  <2>7. two[1] = 213 /\ two[2] = 165
    BY <2>6, <1>8
  <2>8. two = <<213, 165>>
    BY <2>4, <2>5, <2>7
  <2>9. QED
    BY <2>2, <2>8 DEF Header
<1>10. frame[5] * 256 + frame[6] = Len(frame)
  <2>1. (len \div 256) * 256 + (len % 256) = len
    BY <1>6
  <2>2. QED
    BY <2>1, <1>7, <1>8
<1>11. SubSeq(frame, HeadLen + 1, Len(frame) - 4) = data
  <2>1. Len(frame) = Len(data) + FieldLen /\ \A k \in 1..Len(data) : frame[HeadLen + k] = data[k]
    BY <1>5 DEF Carrying
  <2>2. QED
    BY <2>1, <1>5, <1>7, BodyRead
<1>12. /\ frame[9] \div 64 = ActionSend /\ (frame[9] \div 4) % 16 = 0
       /\ frame[10] * 65536 + frame[11] * 256 + frame[12] = CmdID[cmd]
  <2>1. 0 \div 64 = 0 /\ (0 \div 4) % 16 = 0
    OBVIOUS
  <2>2. CmdID[cmd] \in Nat
    BY <1>5, CmdIDs
  <2>3. 0 * 65536 + 0 * 256 + CmdID[cmd] = CmdID[cmd]
    BY <2>2
  <2>4. QED
    BY <2>1, <2>3, <1>8 DEF ActionSend
<1>13. String2Frame(frame) = [num |-> num, action |-> ActionSend, status |-> 0,
                              cmd |-> CmdID[cmd], data |-> data]
  <2>1. PICK a : a = frame[9] \div 64
    OBVIOUS
  <2>2. PICK d : d = (frame[9] \div 4) % 16
    OBVIOUS
  <2>3. PICK c : c = frame[10] * 65536 + frame[11] * 256 + frame[12]
    OBVIOUS
  <2>4. PICK body : body = SubSeq(frame, HeadLen + 1, Len(frame) - 4)
    OBVIOUS
  <2>5. PICK n : n = frame[4]
    OBVIOUS
  <2>6. String2Frame(frame) = [num |-> n, action |-> a, status |-> d,
                               cmd |-> c, data |-> body]
    BY ONLY <2>1, <2>2, <2>3, <2>4, <2>5 DEF String2Frame
  <2>7. n = num
    BY <2>5, <1>8
  <2>8. a = ActionSend
    BY <2>1, <1>12
  <2>9. d = 0
    BY <2>2, <1>12
  <2>10. c = CmdID[cmd]
    BY <2>3, <1>12
  <2>11. body = data
    BY <2>4, <1>11
  <2>12. QED
    BY ONLY <2>6, <2>7, <2>8, <2>9, <2>10, <2>11
<1>14. QED
  BY <1>1, <1>2, <1>3, <1>4, <1>5, <1>9, <1>10, <1>13

(* A frame and the same frame with one byte another, header and version apart,
   do not both hold their CRC. *)
LEMMA DamageTold ==
  ASSUME NEW frame \in Seq(Byte), Len(frame) >= FieldLen, FrameSearch(frame),
         NEW at \in 4..Len(frame), NEW byte \in Byte, byte # frame[at]
  PROVE  ~FrameSearch([frame EXCEPT ![at] = byte])
<1>1. PICK hurt : hurt = [frame EXCEPT ![at] = byte]
  OBVIOUS
<1>2. PICK len \in Nat : len = Len(frame) /\ len >= 16
  BY DEF FieldLen
<1>3. hurt \in Seq(Byte) /\ Len(hurt) = len /\ at \in 4..len
  BY <1>1, <1>2
<1>4. hurt[at] = byte /\ hurt[at] # frame[at]
  BY <1>1, <1>2
<1>5. \A k \in 1..len : k # at => hurt[k] = frame[k]
  BY <1>1, <1>2
<1>6. PICK c : c = Covered(frame)
  OBVIOUS
<1>7. PICK d : d = Covered(hurt)
  OBVIOUS
<1>8. c \in Seq(Byte) /\ Len(c) = len - 7 /\ \A k \in 1..(len - 7) : c[k] = frame[k + 3]
  BY <1>2, <1>6, CoveredIn
<1>9. d \in Seq(Byte) /\ Len(d) = len - 7 /\ \A k \in 1..(len - 7) : d[k] = hurt[k + 3]
  <2>1. Len(hurt) >= FieldLen
    BY <1>2, <1>3 DEF FieldLen
  <2>2. QED
    BY <2>1, <1>3, <1>7, CoveredIn
<1>10. PICK m \in Nat : m = len - 3
  BY <1>2
<1>11. 1 <= m /\ len = m + 3
  BY <1>2, <1>10
<1>12. PICK p : p = SubSeq(frame, m, len)
  OBVIOUS
<1>13. PICK q : q = SubSeq(hurt, m, len)
  OBVIOUS
<1>14. \A k \in 1..4 : p[k] = frame[m + k - 1]
  <2>1. len <= Len(frame)
    BY <1>2
  <2>2. QED
    BY <2>1, <1>11, <1>12, Quarter
<1>15. \A k \in 1..4 : q[k] = hurt[m + k - 1]
  <2>1. len <= Len(hurt)
    BY <1>3
  <2>2. QED
    BY <2>1, <1>3, <1>11, <1>13, Quarter
<1>16. p = BigEndian(CRC32Generate(c))
  BY <1>2, <1>6, <1>10, <1>12 DEF FrameSearch
<1>17. CASE at >= m
  <2>1. \A k \in 1..(len - 7) : d[k] = c[k]
    <3>1. \A k \in 1..(len - 7) : k + 3 \in 1..len /\ k + 3 # at
      BY <1>2, <1>10, <1>17
    <3>2. QED
      BY <3>1, <1>5, <1>8, <1>9
  <2>2. d = c
    BY <2>1, <1>8, <1>9, SameSeq
  <2>3. PICK j \in 1..4 : m + j - 1 = at
    <3>1. at - m + 1 \in 1..4 /\ m + (at - m + 1) - 1 = at
      BY <1>3, <1>10, <1>11, <1>17
    <3>2. QED
      BY <3>1
  <2>4. p[j] # q[j]
    BY <2>3, <1>4, <1>14, <1>15
  <2>5. q # BigEndian(CRC32Generate(d))
    BY <2>2, <2>4, <1>16
  <2>6. QED
    BY <2>5, <1>1, <1>3, <1>7, <1>10, <1>13 DEF FrameSearch
<1>18. CASE at < m
  <2>1. p = q
    <3>1. \A k \in 1..4 : m + k - 1 \in 1..len /\ m + k - 1 # at
      BY <1>2, <1>10, <1>18
    <3>2. \A k \in 1..4 : p[k] = q[k]
      BY <3>1, <1>5, <1>14, <1>15
    <3>3. len <= Len(frame) /\ len <= Len(hurt)
      BY <1>2, <1>3
    <3>4. p \in Seq(Byte)
      BY <3>3, <1>11, <1>12, Quarter
    <3>5. q \in Seq(Byte)
      BY <3>3, <1>3, <1>11, <1>13, Quarter
    <3>6. Len(p) = 4
      BY <3>3, <1>11, <1>12, Quarter
    <3>7. Len(q) = 4
      BY <3>3, <1>3, <1>11, <1>13, Quarter
    <3>8. QED
      BY <3>2, <3>4, <3>5, <3>6, <3>7, SameSeq
  <2>2. PICK i \in Nat : i = at - 3
    BY <1>3
  <2>3. i \in 1..(len - 7) /\ i + 3 = at
    BY <2>2, <1>2, <1>3, <1>10, <1>18
  <2>4. c[i] # d[i]
    BY <2>3, <1>4, <1>8, <1>9
  <2>5. \A k \in 1..(len - 7) : k # i => c[k] = d[k]
    <3>1. \A k \in 1..(len - 7) : k # i => k + 3 \in 1..len /\ k + 3 # at
      BY <2>2, <1>2
    <3>2. QED
      BY <3>1, <1>5, <1>8, <1>9
  <2>6. CRC32Generate(c) # CRC32Generate(d)
    BY <2>3, <2>4, <2>5, <1>8, <1>9, CRCTellsByte
  <2>7. CRC32Generate(c) \in SUBSET Ones /\ CRC32Generate(d) \in SUBSET Ones
    BY <1>8, <1>9, CRCIn
  <2>8. BigEndian(CRC32Generate(c)) # BigEndian(CRC32Generate(d))
    BY <2>6, <2>7, FourBytesTell
  <2>9. q # BigEndian(CRC32Generate(d))
    BY <2>1, <2>8, <1>16
  <2>10. QED
    BY <2>9, <1>1, <1>3, <1>7, <1>10, <1>13 DEF FrameSearch
<1>19. QED
  BY <1>3, <1>11, <1>17, <1>18

LEMMA InvWhole ==
  ASSUME FrameInv, state = "waiting"
  PROVE  Frame \in Seq(Byte) /\ Len(Frame) = Len(asked.data) + FieldLen
         /\ Len(Frame) >= FieldLen /\ FrameSearch(Frame)
<1>1. Carrying(Frame, asked.num, Field(asked.cmd, 0, ActionSend), asked.data) /\ FrameSearch(Frame)
      /\ asked.data \in Seq(Byte)
  BY DEF FrameInv, Waits
<1>2. Frame \in Seq(Byte) /\ Len(Frame) = Len(asked.data) + FieldLen
  BY <1>1 DEF Carrying
<1>3. Len(asked.data) + FieldLen >= FieldLen
  BY <1>1 DEF FieldLen
<1>4. QED
  BY <1>1, <1>2, <1>3

(* Any one byte of the pending frame, changed into any other. *)
AnyDamageSeen ==
  state = "waiting" =>
    \A k \in 4..Len(Frame), byte \in Byte :
      byte # Frame[k] => ~FrameSearch([Frame EXCEPT ![k] = byte])

(* Both statements about damage, from the frame and its CRC. *)
LEMMA InvAnyDamage == FrameInv => AnyDamageSeen
BY InvWhole, DamageTold DEF AnyDamageSeen

LEMMA InvDamage == FrameInv => DamageSeen
<1> SUFFICES ASSUME FrameInv, state = "waiting", NEW k \in 4..Len(Frame), NEW flip \in {1, 128}
             PROVE  ~FrameSearch([Frame EXCEPT ![k] = (@ + flip) % 256])
  BY DEF DamageSeen
<1>1. PICK frame : frame = Frame
  OBVIOUS
<1>2. frame \in Seq(Byte) /\ Len(frame) >= FieldLen /\ FrameSearch(frame) /\ k \in 4..Len(frame)
  BY <1>1, InvWhole
<1>3. frame[k] \in Byte
  BY <1>2
<1>4. \A b \in Byte : (b + flip) % 256 \in Byte /\ (b + flip) % 256 # b
  BY DEF Byte
<1>5. PICK byte : byte = (frame[k] + flip) % 256
  OBVIOUS
<1>6. byte \in Byte /\ byte # frame[k]
  BY <1>3, <1>4, <1>5
<1>7. ~FrameSearch([frame EXCEPT ![k] = byte])
  BY <1>2, <1>6, DamageTold
<1>8. QED
  BY <1>1, <1>5, <1>7

LEMMA InvSends == FrameInv => SendsWhatWasAsked
<1> SUFFICES ASSUME FrameInv, state = "waiting", asked.cmd = "SEND_FIRMWARE", asked.data # << >>
             PROVE  /\ AtMost(LittleEndian(Len(Frame)), transport)
                    /\ \E n \in 0..BufLen :
                         LittleEndian(n) = told["GET_DEVICE_MAX_FRAME_LEN"] /\ Len(Frame) <= n
                    /\ \E at \in 1..Len(File), size \in 1..DataMax :
                         /\ LittleEndian(at) \o LittleEndian(size) = told["SEND_FIRMWARE"]
                         /\ asked.data = SubSeq(File, at + 1, at + size)
  BY DEF SendsWhatWasAsked
<1>1. PICK len : len = Len(Frame)
  OBVIOUS
<1>2. transport # 0 /\ len <= transport /\ len \in Nat /\ transport \in 0..BufLen
  <2>1. transport # 0 /\ Len(asked.data) + FieldLen <= transport
    BY DEF FrameInv, PieceAsked
  <2>2. Frame \in Seq(Byte) /\ len = Len(asked.data) + FieldLen
    BY <1>1, InvWhole
  <2>3. len \in Nat
    <3>1. Frame \in Seq(Byte)
      BY <2>2
    <3>2. Len(Frame) \in Nat
      BY ONLY <3>1
    <3>3. QED
      BY ONLY <3>2, <1>1
  <2>4. transport \in 0..BufLen
    BY DEF FrameInv, TypeOK
  <2>5. QED
    BY <2>1, <2>2, <2>3, <2>4
<1>3. len \in 0..BufLen
  BY <1>2, Sizes
<1>4. AtMost(LittleEndian(len), transport)
  BY <1>2, <1>3, LengthWritten DEF AtMost
<1>5. \E n \in 0..BufLen : LittleEndian(n) = told["GET_DEVICE_MAX_FRAME_LEN"] /\ len <= n
  <2>1. PICK n \in 0..BufLen : LittleEndian(n) = told["GET_DEVICE_MAX_FRAME_LEN"] /\ transport <= n
    BY <1>2 DEF FrameInv, Told
  <2>2. len <= n
    BY <2>1, <1>2, Sizes
  <2>3. QED
    BY <2>1, <2>2
<1>6. \E at \in 1..Len(File), size \in 1..DataMax :
         /\ LittleEndian(at) \o LittleEndian(size) = told["SEND_FIRMWARE"]
         /\ asked.data = SubSeq(File, at + 1, at + size)
  BY DEF FrameInv, PieceAsked
<1>7. QED
  BY <1>1, <1>4, <1>5, <1>6

(* Every field keeps its width, and the frame laid out fits FrameStr, whatever
   was laid out before and however long the session lasts
   (UpgradeProtocol.c:233-317). *)
THEOREM FramesTypeCorrect == Spec => []TypeOK
<1>1. FrameInv => TypeOK
  BY DEF FrameInv
<1>2. QED
  BY <1>1, FrameInvariant, PTL

(* What UpgradeFrameEncode lays out, UpgradeString2Frame reads back: number,
   command and exactly the data meant, whatever is left in FrameStr of the
   frames before (UpgradeProtocol.c:29-115, 233-317). *)
THEOREM FramesReadBack == Spec => []ReadsBack
BY FrameInvariant, InvReadsBack, PTL

(* A piece is what the module asked for, and its frame is no longer than the
   module said it could take (UpgradeEntry.c:277-309, 514-548, UpgradeM7xx.c:380-425). *)
THEOREM PiecesAreAsked == Spec => []SendsWhatWasAsked
BY FrameInvariant, InvSends, PTL

(* The two flips of each byte that the run tries are seen by the CRC
   (CRCGenerate.c:194-205, UpgradeProtocol.c:311). *)
THEOREM FlipsAreSeen == Spec => []DamageSeen
BY FrameInvariant, InvDamage, PTL

(* And so is every other change of one byte: the last byte of a CRC tells which
   entry of the table was taken, so no two bytes, and no two CRCs before, lead
   to one (CRCGenerate.c:194-205, UpgradeProtocol.c:311). *)
THEOREM DamageIsSeen == Spec => []AnyDamageSeen
BY FrameInvariant, InvAnyDamage, PTL
=============================================================================
