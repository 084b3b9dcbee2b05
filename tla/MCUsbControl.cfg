SPECIFICATION CtlSpec
CONSTANTS
  b0 = b0  b1 = b1  b2 = b2  b3 = b3
  Buffers <- FourBuffers
  Buffer0 = b0
  Eps = {0}
  ControlEps = {0}
  AvSetupDepth = 2
  AvOutDepth = 1
  RxDepth = 2
  Requests = {"small", "large", "address", "config", "feature"}
  LargeParts = 3
  Overlap = 2
INVARIANTS BuffersNotShared BuffersKept AnswersRequest AddressAfterStatus AgreeWhenIdle OnlyOvertaken
PROPERTIES TransferEnds
