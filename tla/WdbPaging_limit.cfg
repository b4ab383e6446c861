CONSTANTS
    RequestSlice = 3
    MaxRows = 8
    MaxOffset = 3
    MaxLimit = 7
    MaxSize = 11
SPECIFICATION Spec
INVARIANT FetchWithinLimit
