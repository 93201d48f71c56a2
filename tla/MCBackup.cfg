SPECIFICATION Spec
CONSTANTS
    Calls = {c1, c2}
    Nothing = Nothing
    Broken = Broken
    Foreign = Foreign
    MayFail = {"checkpoint", "copy", "unlink", "rename", "vacuum"}
    MaxVersion = 2
    MaxSuffix = 1
SYMMETRY Symmetry
INVARIANTS
    DatabaseWhole
PROPERTIES
    NothingLost
    StagedIsApplied
    BackupsKept
