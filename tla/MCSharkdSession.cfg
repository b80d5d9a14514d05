SPECIFICATION MCSpec
CONSTANTS
    JSON_DUMPER_MAX_DEPTH = 5
    rtp = rtp
    Name = {rtp}
    MaxTaps = 3
INVARIANTS
    OutputAccepted
    SessionReplies
    SessionListeners
CHECK_DEADLOCK FALSE
