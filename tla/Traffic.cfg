\* Three packets of a source, two sessions; two goroutines on two keys of the
\* map; a hello of six bytes; two configurations and a patch; a client of three
\* bytes and three attempts to connect it.
CONSTANTS
    MaxBytes = 3
    MaxAttempts = 3
    Origin <- MCOrigin
    Address <- MCAddress
    Targets = {1, 2}
    MaxSessions = 2
    QueueCapacity = 1
    SenderCapacity = 2
    Threads = {t1, t2}
    Keys = {0, 1}
    Values = {a}
    Absent = Absent
    MinLen = 1
    Entries = 1
    ShrinkFraction = 2
    Functions = {"store", "loadAndDelete", "clear"}
    MaxCalls = 3
    Hello = 6
    MaxFrames = 4
    Puts = {1, 2}
    Patches = {3}
    Conns = {c1}
    InnerConns = {c2}
SPECIFICATION TrafficSpec
INVARIANTS
    PacketsInOrder
    EveryFragmentCounts
    ClientIsHeard
PROPERTIES
    AnswersKeepOrigin
    SourceForgotten
    CallsReturn
    ReloadIsSound
    Connects
CHECK_DEADLOCK FALSE
