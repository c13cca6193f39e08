\* One subscriber of the control server.
CONSTANTS
    l1 = l1
    l2 = l2
    s1 = s1
    s2 = s2
    Loggers <- MCLoggers
    Cap = 2
    Subs <- MCOne
    Drained <- MCNone
    MaxLogs = 5
    MaxThreads = 1
    Subjects = {"log"}
    MaxActivities = 2
    MaxHandlers = 2
    MaxRequests = 2
SPECIFICATION StreamsSpec
PROPERTIES
    UnSubscribeCloses
CHECK_DEADLOCK FALSE
