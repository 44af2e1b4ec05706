\* Records of 2, 3 and 5 units: blockCnt goes wrong.
CONSTANTS
  r1 = r1
  r2 = r2
  r3 = r3
  r4 = r4
  Record <- MixedRecords
  RecordLen <- MixedLen
  SizeLimit = 13
  Word = 64
  GarbageLen <- Misread
  FileEnd = 30
  MaxCrashes = 0
SPECIFICATION Spec
INVARIANT BlockCntIsNumberOfRecords
