\* a message cut in every way, up to two and a half words long
SPECIFICATION Spec
CONSTANTS
  Base = 4
  ByteBits = 2
  Half = 2
  Block = 8
  File <- FortyBytes
  Stale <- Uninitialised
INVARIANTS
  HoldsMessage
  DigestRight
