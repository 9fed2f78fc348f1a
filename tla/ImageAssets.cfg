SPECIFICATION AssetSpec
CONSTANTS
    Calls = {c1, c2}
    Images = {i1, i2}
    MaxAssets = 3
INVARIANTS
    FilesMatchRows
    ReferredAreKept
CHECK_DEADLOCK FALSE
