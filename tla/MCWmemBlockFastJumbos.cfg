SPECIFICATION Spec
CONSTANTS
    i1 = i1
    i2 = i2
    i3 = i3
    Id = {i1, i2, i3}
    Size = {2, 5, 9}
    AlignAmount = 2
    BlockSize = 5
    NumSlots = 3
    SlotSize = 7
INVARIANT FreeAllFreesAll
