SPECIFICATION Spec
CONSTANTS
    i1 = i1
    i2 = i2
    i3 = i3
    i4 = i4
    Id = {i1, i2, i3, i4}
    Size = {2, 3, 8, 18}
    AlignAmount = 2
    BlockSize = 10
    NumSlots = 2
    SlotSize = 11
SYMMETRY Symmetry
INVARIANTS
    ChunksExact
    FreeListsExact
    MasterServesAny
    AllocationsExact
    RecyclerSettles
