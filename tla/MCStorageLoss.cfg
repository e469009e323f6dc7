\* The same cache and card, where the card may refuse to take a sector
\* (CMD24 not ready, or a data response other than "accepted").
CONSTANTS
    MaxLines = 2
    SectorsPerLine = 2
    SectorCount = 6
    Payloads = {0, 1}
    Zero = 0
    FaultKinds = {"write"}
    MaxCardFaults = 1
    MaxCalls = 4
SPECIFICATION Spec
CONSTRAINT CallBound
PROPERTY ImplementsSectorStore
