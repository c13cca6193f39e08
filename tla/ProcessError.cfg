\* The controller fails to start: is the child announced as STARTED?
CONSTANTS
    main = main
    binder = binder
    Callers <- MCCallers
    NoThread = NoThread
    MaxChildren = 1
    MaxEvents = 3
    MayFailEarly = TRUE
    Subjects = {"process"}
    Dialers = {1, 2}
    Fixable = {}
    Tolerance = 0
    MaxFailedTimes = 2
    MaxFlips = 1
SPECIFICATION SuiteSpec
PROPERTIES
    ErrorIsNotStarted
CHECK_DEADLOCK FALSE
