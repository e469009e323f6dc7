\* Power lost at one metadata write of ReplaceBlock, then InitializeDevice.
CONSTANTS
    NumBlocks = 4
    SectorsPerBlock = 2
    DataBits = 1
    Junk = Junk
    RetryBound = 4
    ClientBlocks <- MCClientBlocks
    WriteVals <- MCWriteVals
    MaxOps = 5
    MaxFaults = 0
    FaultKinds = {"media", "heap"}
    FactoryBad = {}
    MaxRestarts = 1
    CutPoints = {1, 2, 3}
SPECIFICATION Spec
CONSTRAINT OpsBound
PROPERTY PowerLossKeepsCommitted
