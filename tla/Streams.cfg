\* One subscriber of each kind, buffers of two events; three threads of the puller;
\* two activities, two requests, and two handlers in all.
CONSTANTS
    l1 = l1
    l2 = l2
    s1 = s1
    s2 = s2
    Loggers <- MCLoggers
    Cap = 2
    Subs <- MCSubs
    Drained <- MCOne
    MaxLogs = 4
    MaxThreads = 3
    Subjects = {"log", "puller", "activities"}
    MaxActivities = 2
    MaxHandlers = 2
    MaxRequests = 2
SPECIFICATION StreamsSpec
INVARIANTS
    NoSendOnClosed
    NoGap
PROPERTIES
    LogReturns
    PullerIsSound
    RequestsAreRun
CHECK_DEADLOCK FALSE
