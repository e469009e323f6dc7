CONSTANTS
    NumBlocks = 4
    SectorsPerBlock = 2
    DataBits = 1
    Junk = Junk
    RetryBound = 4
    ClientBlocks <- MCClientBlocks
    WriteVals <- MCWriteVals
    MaxOps = 1
    MaxFaults = 0
    FaultKinds = {"media", "heap"}
    FactoryBad = {1}
    MaxRestarts = 1
    CutPoints = {}
SPECIFICATION Spec
CONSTRAINT OpsBound
PROPERTY RestartPreservesContents
