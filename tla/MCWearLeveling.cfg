CONSTANTS
    NumBlocks = 5
    SectorsPerBlock = 2
    DataBits = 1
    Junk = Junk
    RetryBound = 12
    ClientBlocks <- MCClientBlocks
    WriteVals <- MCWriteVals
    MaxOps = 5
    MaxFaults = 0
    FaultKinds = {"media", "heap"}
    FactoryBad = {}
    MaxRestarts = 0
    CutPoints = {}
SPECIFICATION Spec
CONSTRAINT OpsBound
INVARIANTS NoAlias FreeBlocksErased MappedBlockOwned
 
