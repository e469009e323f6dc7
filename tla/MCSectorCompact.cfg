\* The fault-free device of MCWearLeveling.cfg: a relocated sector in a
\* block, then a CompactBlocks call.
CONSTANTS
    NumBlocks = 5
    SectorsPerBlock = 2
    DataBits = 1
    Junk = Junk
    RetryBound = 12
    ClientBlocks <- MCClientBlocks
    WriteVals <- MCWriteVals
    MaxOps = 4
    MaxFaults = 0
    FaultKinds = {"media", "heap"}
    FactoryBad = {}
    MaxRestarts = 0
    CutPoints = {}
SPECIFICATION Spec
CONSTRAINT OpsBound
PROPERTY ImplementsBlockStore
CHECK_DEADLOCK FALSE
