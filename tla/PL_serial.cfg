SPECIFICATION FairSpec
CONSTANTS
    c1 = c1 s1 = s1 s2 = s2 r1 = r1 h1 = h1 h2 = h2
    Starters = {c1}
    Stoppers = {s1, s2}
    Reloaders = {r1}
    Hosts = {h1, h2}
    None = None
    Types = {"external", "internal"}
    AutoReload = TRUE
    Failures <- AllFailures
CHECK_DEADLOCK FALSE
INVARIANTS StateIsSound
PROPERTIES StopLeavesNoHost EverybodySettles
