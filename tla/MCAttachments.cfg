SPECIFICATION Spec
CONSTANTS
    Calls = {c1, c2, c3}
    Records = {item1, item2}
    NoRecord = NoRecord
    NoRow = NoRow
    MaxId = 2
SYMMETRY Symmetry
INVARIANTS
    ThumbnailThere
    BodyThere
    DeletedOnce
PROPERTIES
    SweepComplete
