--------------------------- MODULE MCFrameDecoder ---------------------------
(* Streams of three frames, one of them damaged, for FrameDecoder. *)
EXTENDS FrameDecoder, SequencesExt

MCHeader == <<100, 101>>

(* It misses none of the damages below, and is no header byte. *)
MCCRC(s) == 200 + FoldLeft(LAMBDA sum, b : (31 * sum + b) % 997, 0, s)

(* Header, version, length, payload, CRC. *)
FrameOf(payload) ==
  LET covered == <<5 + Len(payload)>> \o payload
  IN  MCHeader \o <<0>> \o covered \o <<MCCRC(covered)>>

Sent == {FrameOf(<< >>), FrameOf(<<100, 0>>)}

Damages == {0, 5, 7, 100, 101}

(* A frame with a byte changed, lost or added, or a byte of noise.  The
   version byte is not covered by the CRC. *)
Damaged ==
  LET bad(bytes) == [bytes |-> bytes, crc |-> FALSE]
      changed(f) == {[bytes |-> [f EXCEPT ![i] = b], crc |-> i = 3 \/ f[i] = b] :
                       i \in DOMAIN f, b \in Damages}
      lost(f) == {bad(RemoveAt(f, i)) : i \in DOMAIN f}
      added(f) == {bad(g) : g \in {h \in {InsertAt(f, i, b) : i \in 2..Len(f), b \in Damages} :
                                     SubSeq(h, 1, Len(f)) # f /\ Tail(h) # f}}
  IN  UNION {changed(f) \cup lost(f) \cup added(f) : f \in Sent} \cup {bad(<<b>>) : b \in Damages}

Whole(f) == [bytes |-> f, crc |-> TRUE]

RECURSIVE Stream(_, _)
Stream(fs, from) ==
  IF fs = << >> THEN [bytes |-> << >>, frames |-> << >>]
  ELSE LET n == Len(Head(fs).bytes)
           rest == Stream(Tail(fs), from + n)
       IN  [bytes |-> Head(fs).bytes \o rest.bytes,
            frames |-> <<[at |-> from + 1, end |-> from + n, crc |-> Head(fs).crc]>>
                         \o rest.frames]

MCStreams ==
  LET whole == {Whole(f) : f \in Sent}
  IN  {Stream(<<d, f, g>>, 0) : d \in Damaged, f \in whole, g \in whole}
        \cup {Stream(<<f, d, g>>, 0) : d \in Damaged, f \in whole, g \in whole}

ASSUME HeadersMarkFrames
=============================================================================
