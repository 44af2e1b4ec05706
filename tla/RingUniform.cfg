\* Three slots of one length, one unit of the file left over, two crashes.
CONSTANTS
  r1 = r1
  r2 = r2
  r3 = r3
  r4 = r4
  Record <- UniformRecords
  RecordLen <- UniformLen
  SizeLimit = 12
  Word = 64
  GarbageLen <- Misread
  FileEnd = 18
  MaxCrashes = 2
SPECIFICATION Spec
INVARIANTS TypeOK PeekAgrees WithinLimit
PROPERTY FifoSpec
