\* One exhaustion of the simple heap before any call of a fault-free device.
\* One sector per block: no sector is relocated inside a block, so the run
\* isolates the chain collapse from the sector compaction.
CONSTANTS
    NumBlocks = 5
    SectorsPerBlock = 1
    DataBits = 1
    Junk = Junk
    RetryBound = 12
    ClientBlocks <- MCClientBlocks
    WriteVals <- MCWriteVals
    MaxOps = 5
    MaxFaults = 1
    FaultKinds = {"heap"}
    FactoryBad = {}
    MaxRestarts = 0
    CutPoints = {}
SPECIFICATION Spec
CONSTRAINT OpsBound
PROPERTY CompactIsTransparent
