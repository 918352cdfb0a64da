SPECIFICATION Spec
CONSTANTS
    HostInputs <- MCHostInputs
    RouteInputs <- MCRouteInputs
    ZoneInputs <- MCZoneInputs
    ServedHosts <- MCServedHosts
    FileInputs <- MCFileInputs
    ContainerInputs <- MCContainerInputs
    NetworkOrder <- MCNetworkOrder
    NoPort = noport
    BadPort = badport
    Nothing = nothing
INVARIANTS
    RecordsReachTheirZone
    RenamedRoutesStayInZone
    PlannedHostsAreCovered
    FilesSurviveWriting
    AppsAreServedInTheirZone
    RoutesLeadToTheirContainer
