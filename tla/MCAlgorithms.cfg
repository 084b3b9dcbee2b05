SPECIFICATION Spec
CONSTANTS
  NumSrc = 5
  MaxValue = 2
  FreqBits = 5
  PrescaleMask = 11
  StepMask = 7
  WordBytes = 2
  ByteValues = 2
  PtrdiffMax = 5
  FifoWord = 4
  IntBits = 8
  MaxLen = 6
  MaxString = 3
INVARIANTS TreeIsWinner TickParamsExact MemoryIsBytewise FifoKeepsBytes UjsonComesBack
