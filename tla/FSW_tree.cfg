SPECIFICATION Spec
CONSTANTS
    Paths <- MCPaths
    Watchers = {"w1", "w2", "w3"}
    PathOf <- MCPathOf
    Recursive <- MCRecursive
    MaxChanges = 3
    MaxOpens = 3
CHECK_DEADLOCK FALSE
INVARIANTS NothingLeaks MirrorsDisk
PROPERTIES WatchersKept ToldOfEntries
