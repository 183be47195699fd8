SPECIFICATION FairSpec
CONSTANTS
    Requests = {1, 2}
    Sockets = {1, 2}
    StartsDaemon = {1}
    MaxStarts = 1
    Handlers = {"guard", "wait", "data", "feed", "tail", "sub", "fault"}
    Kind <- MCKind
    Matches <- MCMatches
    Lost = {"data"}
    MaxRoutes = 3
    Keys = {"k1"}
    Filter <- MCFilter
    MaxChanges = 1
    InitialRoutes <- MCInitialRoutes
    Plugged = {"guard", "fault"}
    MaxChunks = 2
CHECK_DEADLOCK FALSE
INVARIANTS OneEnd SourcesFollow SubscribersAreCurrent
PROPERTIES NoneIsSkipped Settles SubscriptionsEnd
