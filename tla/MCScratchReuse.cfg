CONSTANTS
    NumBlocks = 4
    SectorsPerBlock = 3
    DataBits = 1
    Junk = Junk
    RetryBound = 4
    ClientBlocks <- MCClientBlocks
    WriteVals <- MCWriteVals
    MaxOps = 5
    MaxFaults = 1
    FaultKinds = {"media", "heap"}
    FactoryBad = {}
    MaxRestarts = 0
    CutPoints = {}
SPECIFICATION Spec
CONSTRAINT OpsBound
INVARIANT NoAlias
