SPECIFICATION Spec
CONSTANTS
    Syncer = {timer, manual}
    Rec = {"apex"}
    FamilyOf <- MCFamilyOfOne
    ProviderOf <- MCProviderOfOne
    IP = {ip1, ip2}
    NoIP = noip
    MaxValues = 2
    MaxChanges = 1
    MaxFails = 0
INVARIANTS
    SyncedMeansServed
