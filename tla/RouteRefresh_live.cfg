SPECIFICATION FairSpec
CONSTANTS
    Local = "docker"
    Agent = {"edge"}
    Container = {"web"}
    Word = {"app", "edge", "node", "server"}
    Slug <- MCSlug
    NodeOf <- MCNodeOfWeb
    HostOf <- MCHostOfWeb
    AppHost <- MCAppHost
    InitApps = {}
    Task = {"startup", "reload"}
    NoProc = nobody
    MaxDisturb = 1
INVARIANTS
    TypeOK
PROPERTIES
    TableConverges
