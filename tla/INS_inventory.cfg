SPECIFICATION Spec
CONSTANTS
    None = None
    Pending = Pending
    Keys <- MCKeys
    Up <- MCUp
    Top = "k"
    KeyDepth = 1
    Shown = {"k/a"}
    Folders = {"p", "q"}
    Nodes <- MCNodes
    Parent <- MCParent
    PathLists <- MCLists
    Options <- MCOptions
    Disks <- MCDisks
    Configured <- MCConfigured
    MovingNodes = {"p", "p/s"}
    Detectors = {1, 2, 3}
    Watches = {1, 2, 3, 4}
    MaxChanges = 2
    Plugins = {"a1", "b1"}
    Defaults = {"a1", "b1"}
    Linkable = {"b1"}
    MaxCommands = 3
CHECK_DEADLOCK FALSE
INVARIANTS DetectionIsTrue NoLeakedWatch PluginsAreKept
