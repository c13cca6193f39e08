\* Two children; two steps of the system or the user.
CONSTANTS
    Callers <- MCCallers
    NoThread = "none"
    MaxChildren = 2
    MaxEvents = 2
    MaxCalls = 2
    MayFailEarly = FALSE
SPECIFICATION SvcSpec
INVARIANTS
    SingleChild
    TunFollowsChild
PROPERTIES
    StopIsHeard
    NoVpnWithoutCore
    LoadedOrStopped
CHECK_DEADLOCK FALSE
