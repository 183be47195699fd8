SPECIFICATION FairSpec
CONSTANTS
    Procs = {1, 2}
    Main = 1
    MaxTroubles = 1
    TiEnd = "ti.end"
    Events = {"e1", "e2", "ti.end"}
    Faulty = {"e1"}
    SendBatchSize = 2
    Layers = {"l1"}
    MaxWatchers = 2
    MaxEdits = 2
    Own = "cpu"
    Collectors <- MCCollectors
    Values = {0, 6}
    PollInterval = 2
    Size = 2
    MaxLate = 2
    MaxTime = 5
    Spawns = {"s1", "s2"}
    Stubborn = {"s1"}
    Untouchable = {"s2"}
    MaxTries = 2
CHECK_DEADLOCK FALSE
INVARIANTS PidFileTrue SpawnsAreListed LayersAreWatched AgentIsTrue EventsAreSent
PROPERTIES NothingLost ShutdownEnds
