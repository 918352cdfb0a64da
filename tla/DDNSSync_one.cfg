SPECIFICATION FairSpec
CONSTANTS
    Syncer = {timer}
    Rec = {"apex", "wild"}
    FamilyOf <- MCFamilyOf
    ProviderOf <- MCProviderOf
    IP = {ip1, ip2}
    NoIP = noip
    MaxValues = 2
    MaxChanges = 2
    MaxFails = 2
INVARIANTS
    TypeOK
    SyncedMeansServed
PROPERTIES
    DNSFollowsIP
CHECK_DEADLOCK FALSE
