SPECIFICATION Spec
CONSTANTS
    Local = "docker"
    Agent = {"edge"}
    Container = {"app", "web"}
    Word = {"app", "edge", "node", "server"}
    Slug <- MCSlug
    NodeOf <- MCNodeOfPair
    HostOf <- MCHostOfPair
    AppHost <- MCAppHost
    InitApps <- MCInitApps
    Task = {"reload"}
    NoProc = nobody
    MaxDisturb = 2
INVARIANTS
    RemoteRoutesCurrent
    CustomKeepsHost
    ProxiedIsServed
