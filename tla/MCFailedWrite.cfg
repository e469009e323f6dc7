\* One sector per block: a relocation always takes a new block, so no
\* sector is relocated inside a block and sector compaction never runs.
CONSTANTS
    NumBlocks = 4
    SectorsPerBlock = 1
    DataBits = 1
    Junk = Junk
    RetryBound = 4
    ClientBlocks <- MCClientBlocks
    WriteVals <- MCWriteVals
    MaxOps = 10
    MaxFaults = 0
    FaultKinds = {"media", "heap"}
    FactoryBad = {}
    MaxRestarts = 0
    CutPoints = {}
SPECIFICATION Spec
CONSTRAINT OpsBound
INVARIANT ReadYieldsLastWrite
CHECK_DEADLOCK FALSE
