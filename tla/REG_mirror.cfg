SPECIFICATION FairSpec
CONSTANTS
    None = None
    Dirs = {"root", "a", "b", "a/x"}
    Root = "root"
    Main = "main"
    Depth <- MCDepth
    Plugins <- MCPlugins
    Slow = TRUE
    MaxTasks = 2
    MaxChanges = 2
    MaxCalls = 3
    MaxRaces = 1
CHECK_DEADLOCK FALSE
INVARIANTS RoutesMatchVersions 
PROPERTIES ComesToRest
