SPECIFICATION Spec
CONSTANTS
    A = A
    B = B
    here = here
    there = there
    Names = {A, B}
    Product <- MCProduct
    Stated = {0, 1}
    ResolvedAt <- MCResolvedAt
    Tiles = {here, there}
    Here = here
    Region <- MCRegion
    DtLists <- MCDtLists
    ListLists <- MCListLists
    Neighbours = {there}
    Finds <- MCFinds
    NewShapes <- MCNewShapes
    OutTypes = {1, 3, 8}
    MaxElements = 2
    MaxCalls = 2
    Careless = {"double"}
    Unknown = Unknown
INVARIANT PixelAligned
CHECK_DEADLOCK FALSE
