SPECIFICATION MCSpec
CONSTANTS
    Containers = {"frames"}
    MostKeys = 6
    Kinds = {"int32"}
    Keys = {1}
    Words = {1}
    Highs = {1}
    Sought = {1}
    Data = {a}
    NULL = NULL
    MapKeys = {k1}
    Copies = {1}
    Values = {1}
    WordBits = 3
    DefaultCapacity = 1
    Nodes = 3
    MaxFrames = 20
    Tvbs = {t1}
    Limit = 2
    Simple = 1
    MaxSize = 1
    Protocols = {p}
    Fields = {f1}
    MaxTreeItems = 2
    MaxTreeLevels = 3
    MaxAdds = 1
    MaxBeforeCall = 1
    MaxDissectors = 1
CHECK_DEADLOCK FALSE
INVARIANTS
    FreesAllFrames
