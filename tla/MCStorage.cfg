\* FAT sector cache over the SD driver: two lines of two sectors over a
\* six-sector volume, so that lines are evicted; the card may fail reads.
CONSTANTS
    MaxLines = 2
    SectorsPerLine = 2
    SectorCount = 6
    Payloads = {0, 1}
    Zero = 0
    FaultKinds = {"read"}
    MaxCardFaults = 1
    MaxCalls = 4
SPECIFICATION Spec
CONSTRAINT CallBound
INVARIANTS TypeOK OneLinePerSector CleanLineMatchesCard CommandCRCCorrect
PROPERTIES ImplementsSectorStore PreviousSectorSurvives
