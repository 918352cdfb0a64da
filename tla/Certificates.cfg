SPECIFICATION FairSpec
CONSTANTS
    Bundle = {"site", "blog"}
    Domain = {"apex", "any", "blog"}
    Wild = {"any"}
    DomainsOf <- MCDomainsOf
    Rank <- MCRank
    Manual <- MCManual
    Target = {"proxy"}
    TargetsOf <- MCTargetsOf
    TransportOf <- MCTransportOf
    MaxManual = 1
    NoBundle = nobundle
    NoTarget = notarget
    MaxDisturb = 1
INVARIANTS
    TypeOK
    DeployedPairMatches
    ServedIsStored
    PrunedStaysOut
PROPERTIES
    RenewedUnlessStopped
CHECK_DEADLOCK FALSE
