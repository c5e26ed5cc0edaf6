SPECIFICATION Spec
CONSTANTS
  Modulus = 3
  DataMax = 8
  LeastMax = 20
  Table = {4, 8}
  Short = 65536
  File <- MCFile
  FileInfoLen = 2
  InfoLen = 3
  Answers <- MCAnswers
INVARIANTS
  TypeOK
  ReadsBack
  DamageSeen
  SendsWhatWasAsked
CHECK_DEADLOCK FALSE
