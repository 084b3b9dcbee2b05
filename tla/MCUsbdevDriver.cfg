SPECIFICATION DrvSpec
CONSTANTS
  b0 = b0  b1 = b1  b2 = b2  b3 = b3
  Buffers <- FourBuffers
  Buffer0 = b0
  Eps = {0, 1}
  ControlEps = {0}
  AvSetupDepth = 2
  AvOutDepth = 1
  RxDepth = 2
  MaxTx = 2
  NakEps = {0}
SYMMETRY MCSymmetry
INVARIANTS Conserved SendsQueuedBuffer StatusIsTrue SetupHasRoom NoOverflow
