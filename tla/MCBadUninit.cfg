CONSTANTS
    NumBlocks = 5
    SectorsPerBlock = 2
    DataBits = 1
    Junk = Junk
    RetryBound = 4
    ClientBlocks <- MCClientBlocks
    WriteVals <- MCWriteVals
    MaxOps = 5
    MaxFaults = 0
    FaultKinds = {"media", "heap"}
    FactoryBad = {2}
    MaxRestarts = 1
    CutPoints = {}
SPECIFICATION Spec
CONSTRAINT OpsBound
INVARIANT NoUninitialisedCurBlock
CHECK_DEADLOCK FALSE
