SPECIFICATION Spec
CONSTANTS
    Calls = {c1, c2}
    Nobody = Nobody
    Readers = {r1}
    Requests <- MCRequests
    Contents <- MCContents
    Matches <- MCMatches
    NoItem = NoItem
    NoId = NoId
    Blank = 0
    MaxId = 3
    MaxNameLen = 1
    MaxPrice = 1
    MaxImportRows = 2
    Offsets = {0, 1}
    Limit = 1
SYMMETRY Symmetry
INVARIANTS
    SilentOnlyIfCut
    TornOnlyInRace
PROPERTIES
    AtomicStore
