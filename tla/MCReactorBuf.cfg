SPECIFICATION Spec
CONSTANTS
    Owner = {o1, o2}
    Cap = {2, 4}
    InitialSizes <- OneEach
    MEM_LIMIT = 12
    MaxChunk = 3
    MaxBytes = 4
SYMMETRY Perms
CHECK_DEADLOCK FALSE
INVARIANT OnePlaceEach
INVARIANT BytesInOrder
