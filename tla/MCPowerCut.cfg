\* One media fault or heap exhaustion, a factory-bad block, and one loss of power at any metadata write of ReplaceBlock.
CONSTANTS
    NumBlocks = 4
    SectorsPerBlock = 2
    DataBits = 1
    Junk = Junk
    RetryBound = 3
    ClientBlocks <- MCClientBlocks
    WriteVals <- MCWriteVals
    MaxOps = 3
    MaxFaults = 1
    FaultKinds = {"media", "heap"}
    FactoryBad = {3}
    MaxRestarts = 1
    CutPoints = {1,2,3}
SPECIFICATION Spec
CONSTRAINT OpsBound
INVARIANTS FreeBlocksErased

CHECK_DEADLOCK FALSE
