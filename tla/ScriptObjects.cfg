SPECIFICATION Spec
CONSTANTS
    A = A
    B = B
    here = here
    there = there
    Names = {A, B}
    Product <- MCProduct
    Stated = {0, 1}
    ResolvedAt <- MCResolvedAt
    Tiles = {here, there}
    Here = here
    Region <- MCRegion
    DtLists <- MCDtLists
    ListLists <- MCListLists
    Neighbours = {there}
    Finds <- MCFinds
    NewShapes <- MCNewShapes
    OutTypes = {1, 7, 8}
    MaxElements = 2
    MaxCalls = 3
    Careless = {}
    Unknown = Unknown
INVARIANTS TypeOK PixelAligned Recorded
PROPERTIES OneObjectChanges
CHECK_DEADLOCK FALSE
