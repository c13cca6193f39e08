\* Two users on two sessions; two goroutines on three keys; two requests to
\* the listeners, one toggled port; four addresses of two families; two
\* connections at a time through a group of two proxies; two goroutines that
\* ask the resolver twice; three names over fake and real addresses with one
\* reload.
CONSTANTS
    Addresses = {1, 2, 3, 4}
    IPv6 = {3, 4}
    Users = {w1, w2}
    MaxSessions = 2
    MaxStreams = 2
    MinIdle = 1
    Threads = {t1, t2}
    Keys = {0, 1, 2}
    Values = {a}
    Absent = Absent
    MinLen = 1
    Entries = 1
    ShrinkFraction = 2
    Functions = {"load", "store", "loadOrStore", "loadAndDelete", "clear"}
    MaxCalls = 3
    Confs <- MCConfs
    Changes <- MCChanges
    Requests = {1, 2}
    Ports = {1, 2, 3}
    MaxToggles = 1
    Dialers = {w1, w2}
    Fixable = {2}
    Tolerance = 0
    MaxFailedTimes = 2
    MaxFlips = 1
    Speed <- MCSpeed
    Callers = {w1, w2}
    Main = {m1}
    Fallback = {f1}
    Policy = {m1}
    MaxAsks = 2
    Names = {w1, w2, "n3"}
    NoName = "none"
    Skipped = {"n3"}
    Shared = 1
    Ranges = {1, 2}
    Width = 1
    MaxReloads = 1
SPECIFICATION CoreSpec
INVARIANTS
    SessionsAreSound
    IsOneMap
    DialIsSound
    NothingStale
    QueriesAreAnswered
    NameRestored
PROPERTIES
    RequestsAreObeyed
SYMMETRY Symmetry
CHECK_DEADLOCK FALSE
