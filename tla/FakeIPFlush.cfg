\* Two names; the flush and the reload do not take the mutex of the pool.
CONSTANTS
    Subjects = {"pool"}
    h1 = h1
    h2 = h2
    h3 = h3
    h4 = h4
    Hosts <- MCPair
    NoHost = NoHost
    first = 2
    last = 5
    Size = 2
    Overlap = TRUE
    Letters = {4, 5}
    MaxLabels = 3
    MaxPatterns = 2
    Facts = {"x"}
    Outbounds = {"p", "pass"}
    Pass = {"pass"}
    NoUDP = {"p"}
    Lists = {"l1", "l2"}
    Unknown = "unknown"
    GroupNames = {g1, g2, g3}
    Singles = {p}
    MaxGroups = 3
    MaxMembers = 2
SPECIFICATION SuiteSpec
INVARIANTS
    LookBackFinds
CHECK_DEADLOCK FALSE
