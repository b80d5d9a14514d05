SPECIFICATION MCSpec
CONSTANTS
    Containers = {"tree"}
    MostKeys = 6
    Kinds = {"itree"}
    Keys = {1, 2, 3, 4, 5, 6, 7, 8}
    Words = {1}
    Highs = {8, 9}
    Sought = {4, 8, 9}
    Data = {a}
    NULL = NULL
    MapKeys = {k1}
    Copies = {1}
    Values = {1}
    WordBits = 3
    DefaultCapacity = 1
    Nodes = 3
    MaxFrames = 1
    Tvbs = {t1}
    Limit = 2
    Simple = 1
    MaxSize = 1
    Protocols = {p}
    Fields = {f1}
    MaxTreeItems = 2
    MaxTreeLevels = 3
    MaxAdds = 1
    MaxBeforeCall = 1
    MaxDissectors = 1
CHECK_DEADLOCK FALSE
INVARIANTS
    FindsAllOverlaps
