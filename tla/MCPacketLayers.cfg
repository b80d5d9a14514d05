SPECIFICATION MCSpec
CONSTANTS
    Parts = {"calls"}
    ip = ip
    off = off
    frame = frame
    data = data
    NoProto = NoProto
    Protos = {frame, data, ip, off}
    Disabled = {off}
    Table <- EntryTable
    Heuristics <- HeuristicList
    LayerMod = 3
    MaxLayers = 5
    MaxCalls = 4
    MaxSteps = 5
    Code <- TwoCodes
    OtherCode = 99
    CatchLists <- MCCatchLists
    Garbage <- MCGarbage
    MaxDepth = 3
CHECK_DEADLOCK FALSE
INVARIANT LayerNumberStable
