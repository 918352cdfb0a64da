SPECIFICATION Spec
CONSTANTS
    Local = "docker"
    Agent = {}
    Container = {"app"}
    Word = {"app", "edge", "node", "server"}
    Slug <- MCSlug
    NodeOf <- MCNodeOfApp
    HostOf <- MCHostOfApp
    AppHost = {}
    InitApps = {}
    Task = {"startup"}
    NoProc = nobody
    MaxDisturb = 1
INVARIANTS
    LocalRoutesCurrent
