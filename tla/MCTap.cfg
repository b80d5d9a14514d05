SPECIFICATION TapSpec
CONSTANTS
    ip = ip
    ntlmssp = ntlmssp
    plain = plain
    errors = errors
    helper = helper
    f = f
    Name = {ip, ntlmssp}
    Tapdata = {plain, errors, helper}
    WantsErrors = {errors}
    NoPacketRoutine = {helper}
    NoDrawRoutine = {helper}
    Filter = {f}
    NoFilter = NoFilter
    QueueLen = 2
    MaxListeners = 2
    MaxTapped = 3
SYMMETRY Names
INVARIANTS
    FetchesThisRun
    Delivered
