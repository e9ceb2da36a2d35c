SPECIFICATION HostSpec
CONSTANTS
    w1 = w1
    w2 = w2
    Workspaces = {w1, w2}
    Active = w1
    NewClients = {k}
    Scenes <- Cases
    Edits = {e1, e2}
    Outside = {x}
    Local = {e2}
    MaxBroken = 1
    Announced <- Announcements
    MaxDesktops = 2
    Links <- SomeLinks
    Nil = Nil
    Turns = {t1, t2}
    MaxOdd = 1
    Posts = {1, 2}
    Collects = {9}
    WorkerScenes <- SomeWorkers
    MaxFrame = 300
    Streams <- SomeStreams
INVARIANTS
    ExchangedOnce
    IssuedIsKept
    GrantsFollowUser
    EditKept
    OnlyThisConnection
    TurnsToldTruly
    ReportsAreTrue
    NothingLeftOpen
    ChunksDoNotMatter
PROPERTIES
    Reconnects
    ConnectionReleasesAll
    CallsEnd
CHECK_DEADLOCK FALSE
