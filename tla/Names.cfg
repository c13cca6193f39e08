\* Four names, a ring of three addresses, caches of two entries; two patterns
\* of up to three labels; two rules and two lists of sub-rules; three groups.
CONSTANTS
    Subjects = {"pool", "trie", "rules", "groups"}
    h1 = h1
    h2 = h2
    h3 = h3
    h4 = h4
    Hosts <- MCHosts
    NoHost = NoHost
    first = 2
    last = 5
    Size = 2
    Overlap = FALSE
    Letters = {4, 5}
    MaxLabels = 3
    MaxPatterns = 2
    Facts = {"x"}
    Outbounds = {"p", "pass"}
    Pass = {"pass"}
    NoUDP = {"p"}
    Lists = {"l1", "l2"}
    Unknown = "unknown"
    GroupNames = {g1, g2, g3}
    Singles = {p}
    MaxGroups = 3
    MaxMembers = 2
SPECIFICATION SuiteSpec
INVARIANTS
    CachesMirror
    RulesDecide
    FindsTheBest
    VerdictIsRight
PROPERTIES
    Promise
SYMMETRY Symmetry
CHECK_DEADLOCK FALSE
