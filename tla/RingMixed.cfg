\* Records of 2, 3 and 5 units in 8 units of file.
CONSTANTS
  r1 = r1
  r2 = r2
  r3 = r3
  r4 = r4
  Record <- MixedRecords
  RecordLen <- MixedLen
  SizeLimit = 13
  Word = 64
  GarbageLen <- Misread
  FileEnd = 30
  MaxCrashes = 0
SPECIFICATION Spec
CONSTRAINT Matched
PROPERTY OldestGoFirst
