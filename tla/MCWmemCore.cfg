SPECIFICATION Spec
CONSTANTS
    i1 = i1
    i2 = i2
    i3 = i3
    Id = {i1, i2, i3}
    Size = {1, 5, 11}
    AlignAmount = 2
    BlockSize = 7
    NumSlots = 3
    SlotSize = 9
    DefaultAllocs = 1
SYMMETRY Symmetry
INVARIANTS
    BooksExact
    DestroyReturnsAll
PROPERTIES
    GcReturnsUnused
    OverrunsCaught
    KeepsPromise
CHECK_DEADLOCK FALSE
