SPECIFICATION MCSpec
CONSTANTS
    Containers = {"tree", "map", "frames", "tvbuffs", "items"}
    MostKeys = 6
    Kinds = {"int32", "string", "array", "itree"}
    Keys = {1, 2, 3, 4, 5, 6, 7, 8}
    Words = {1, 2, 3}
    Highs = {8, 9}
    Sought = {4, 8, 9}
    Data = {a}
    NULL = NULL
    MapKeys = {k1, k2, k3}
    Copies = {1, 2}
    Values = {1, 2}
    WordBits = 3
    DefaultCapacity = 1
    Nodes = 3
    MaxFrames = 60
    Tvbs = {t1, t2, t3}
    Limit = 2
    Simple = 1
    MaxSize = 1
    Protocols = {p}
    Fields = {f1, f2}
    MaxTreeItems = 2
    MaxTreeLevels = 3
    MaxAdds = 3
    MaxBeforeCall = 1
    MaxDissectors = 2
SYMMETRY Same
CHECK_DEADLOCK FALSE
INVARIANTS
    TreeSound
    TreeAnswers
    OverlapsFound
    MapAnswersStored
    FramesSound
    WindowsSound
    FreedTogether
    TreeLinked
    PrimedFound
