\* A child may end before its pid is printed.  Two connections at a time
\* through a group of two proxies, one of which goes down.
CONSTANTS
    main = main
    binder = binder
    Callers <- MCCallers
    NoThread = NoThread
    MaxChildren = 3
    MaxEvents = 3
    MayFailEarly = TRUE
    Subjects = {"process", "group"}
    Dialers = {1, 2}
    Fixable = {}
    Tolerance = 0
    MaxFailedTimes = 2
    MaxFlips = 1
SPECIFICATION SuiteSpec
INVARIANTS
    StartedIsWatched
    NoFalseStarted
PROPERTIES
    MonitorIsReleased
    DeathIsDelivered
    GroupRecovers
CHECK_DEADLOCK FALSE
