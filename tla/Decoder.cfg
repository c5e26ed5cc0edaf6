\* three frames, one of them damaged, in reads of up to nine bytes
SPECIFICATION FairSpec
CONSTANTS
  Header <- MCHeader
  HeadLen = 4
  MinLen = 5
  LengthMax = 7
  ReadMax = 9
  CRC <- MCCRC
  Streams <- MCStreams
INVARIANTS
  TypeOK
  CacheFits
  Contiguous
  NoStall
  SeparateFramesReported
PROPERTIES
  ReadsFrames
  DecodeReturns
CHECK_DEADLOCK FALSE
