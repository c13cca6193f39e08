\* Two profiles, each updated once at most, and two reloads in line; one
\* observer in the user interface, which may die once, one beside the service,
\* and four calls; three changes of the child, the profile or the screen;
\* two updates and two readers of a provider whose contents change twice.
CONSTANTS
    Profiles <- MCProfiles
    Values = {1}
    MaxVersion = 3
    MaxReloads = 2
    Remote = {"main"}
    LocalIds = {"tun"}
    Wants = {"speed"}
    MaxLife = 2
    MaxCalls = 4
    MaxTurns = 3
    Updaters = {u1, u2}
    Readers = {r1, r2}
    Unparsable <- Unread
    Filtered = {3}
    MaxContent = 3
    MaxLoads = 3
    MaxCrashes = 1
SPECIFICATION StoreSpec
INVARIANTS
    CoreFollowsStore
    SelectionKept
    ObserversSettle
    ShowsTheTruth
    ProviderIsSound
CHECK_DEADLOCK FALSE
