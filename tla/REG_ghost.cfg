SPECIFICATION FairSpec
CONSTANTS
    None = None
    Dirs = {"root", "a", "b", "a/x"}
    Root = "root"
    Main = "main"
    Depth <- MCDepth
    Plugins <- MCGood
    Slow = FALSE
    MaxTasks = 2
    MaxChanges = 3
    MaxCalls = 3
    MaxRaces = 1
CHECK_DEADLOCK FALSE
INVARIANTS UnregisterRemovesAll
