SPECIFICATION FairSpec
CONSTANTS
    Callers = {"cli", "menu"}
    Pids = {1, 2}
    Cids = {1, 2, 3}
    Limits = {0, 1, 2}
    MaxRequests = 2
    MaxFaults <- FaultsOf
INVARIANTS
    OneOfEach
    DownOwnsNothing
PROPERTIES
    Settles
\* after an exit, with the runtime down, nothing is left to do
CHECK_DEADLOCK FALSE
