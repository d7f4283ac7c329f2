SPECIFICATION Spec
CONSTANTS
    ClassNum = 2
    Buffers = {b1, b2, b3, b4}
    Writers = {w}
    Readers = {r}
    NULL = NULL
    ClassSize <- Powers
    config_num <- OneOfEach
    MaxRequest = 4
    MinInt <- Least
    MaxInt = 4
SYMMETRY Symmetry
INVARIANTS TypeOK CountersMatch RightClass BuffersOwnedOnce RoomForContent ContentInside
PROPERTY ImplementsAllocator
