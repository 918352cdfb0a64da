SPECIFICATION FairSpec
CONSTANTS
    Bundle = {"site"}
    Domain = {"apex", "any"}
    Wild = {"any"}
    DomainsOf <- MCDomainsOf
    Rank <- MCRank
    Manual = {}
    Target = {}
    TargetsOf <- MCTargetsOf
    TransportOf <- MCTransportOf
    MaxManual = 0
    NoBundle = nobundle
    NoTarget = notarget
    MaxDisturb = 2
PROPERTIES
    Renewed
