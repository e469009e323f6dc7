CONSTANTS
    NumBlocks = 4
    SectorsPerBlock = 2
    DataBits = 1
    Junk = Junk
    RetryBound = 4
    ClientBlocks <- MCClientBlocks
    WriteVals <- MCWriteVals
    MaxOps = 9
    MaxFaults = 0
    FaultKinds = {"media", "heap"}
    FactoryBad = {}
    MaxRestarts = 0
    CutPoints = {}
SPECIFICATION Spec
CONSTRAINT OpsBound
INVARIANT NoHang
