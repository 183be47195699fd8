SPECIFICATION FairSpec
CONSTANTS
    c1 = c1 c2 = c2 c3 = c3 h1 = h1 h2 = h2
    Starters = {c1, c2, c3}
    Stoppers = {}
    Reloaders = {}
    Hosts = {h1, h2}
    None = None
    Types = {"external", "internal"}
    AutoReload = TRUE
    Failures <- ErrorsOnly
CHECK_DEADLOCK FALSE
INVARIANTS OneStart
PROPERTIES DispatchHasTunnel
