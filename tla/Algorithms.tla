----------------------------- MODULE Algorithms -----------------------------
(***************************************************************************)
(* One call at a time of the functions that decide where records, routes,  *)
(* certificates and apps end up, over given inputs; call and result are    *)
(* what the call was given and what it returned.                           *)
(***************************************************************************)
EXTENDS ZonePlans, ConfigFormat, DockerTarget

CONSTANTS
    HostInputs,         \* records of host and answers: the zones whose name servers answer
    RouteInputs,        \* records of domain and route
    ZoneInputs,         \* sequences of zones
    ServedHosts,        \* the hosts clients ask for
    FileInputs,         \* contents of config.yaml
    ContainerInputs,    \* records of source, zones and container
    Nothing

\* A label of a name, a sequence of words.
Label == Seq(STRING)

\* A route that was discovered has a subdomain and its host in the zone, a managed domain is
\* no wildcard, a client asks for some name, and the networks and ports of a container are
\* known ones.
ASSUME AlgorithmsAssumption ==
    /\ \A in \in HostInputs : in.host \in Seq(Label) /\ in.answers \subseteq Seq(Label)
    /\ \A in \in RouteInputs :
         /\ in.domain \in Seq(Label)
         /\ in.route \in [subdomain : Seq(Label) \ {<<>>}, host : Seq(Label), source : Label,
                         container : Seq(Label)]
         /\ in.route.host = in.route.subdomain \o in.domain
    /\ \A zones \in ZoneInputs : \A i \in DOMAIN zones :
         /\ zones[i].domain \in Seq(Label)
         /\ zones[i].domain # <<>> => zones[i].domain[1] # Star
         /\ zones[i].name \in Seq(STRING)
         /\ \A k \in DOMAIN zones[i].bundles : zones[i].bundles[k].name \in Seq(STRING)
    /\ ServedHosts \subseteq Seq(Label) \ {<<>>}
    /\ \A file \in FileInputs :
         /\ file.domains \in Seq([domain : STRING, name : STRING,
                                 manual : Seq([name : STRING, subdomain : STRING])])
         /\ file.zones \in Seq([name : STRING, domain : STRING])
         /\ file.apps \in Seq([name : STRING, domain : STRING, zone : STRING,
                              subdomain : STRING])
    /\ NetworkOrder \in Seq(Label \ {<<>>})
    /\ \A in \in ContainerInputs :
         /\ in.source.network \in Label
         /\ DOMAIN in.container.networks \subseteq Networks
         /\ in.source.runtime \in {"docker", "podman"}
         /\ in.container.listed \in Seq([ip : HostIP, private : Nat, public : Nat,
                                        proto : Protocol])
         /\ DOMAIN in.container.bindings \subseteq Nat \X Protocol
         /\ \A x \in DOMAIN in.container.bindings :
              in.container.bindings[x] \in Seq([ip : HostIP, port : Nat])
         /\ in.container.config \subseteq Nat \X Protocol
         /\ in.container.labels.network \in Label

VARIABLES call, result

vars == <<call, result>>

Init == call = Nothing /\ result = Nothing

Calls(function, args, value) ==
    /\ call' = [function |-> function, args |-> args]
    /\ result' = value

SyncRecord ==
    /\ call = Nothing
    /\ \E in \in HostInputs : Calls("record", in, Record(in.host, in.answers))

ApplyCustomRoutes ==
    /\ call = Nothing
    /\ \E in \in RouteInputs : Calls("rename", in, RenameConflictingRoute(in.route))

ServeCertificate ==
    /\ call = Nothing
    /\ \E zones \in ZoneInputs, host \in ServedHosts :
         /\ ZonesValid(zones)
         /\ Calls("certificate", [zones |-> zones, host |-> host],
                  GetCertificate(LoadCertificates(BuildCertificateRequests(zones)), host))

LoadFile ==
    /\ call = Nothing
    /\ \E file \in FileInputs : Calls("load", file, UnmarshalYAML(file))

DiscoverContainer ==
    /\ call = Nothing
    /\ \E in \in ContainerInputs, last \in Protocol :
         Calls("discover", in, DiscoverRoute(in.source, in.zones, in.container, last))

Return == call # Nothing /\ call' = Nothing /\ result' = Nothing

Next ==
    \/ SyncRecord
    \/ ApplyCustomRoutes
    \/ ServeCertificate
    \/ LoadFile
    \/ DiscoverContainer
    \/ Return

Spec == Init /\ [][Next]_vars

-----------------------------------------------------------------------------
(* Properties                                                               *)

Called(function) == call # Nothing /\ call.function = function

\* A DDNS record goes to the innermost zone that answers, under a name that makes up its
\* host again (WrittenWhereServed, about syncRecord's use of ResolveAuthZone).
RecordsReachTheirZone ==
    Called("record") => WrittenWhereServed(call.args.host, call.args.answers, result)

\* A route that gives way to a custom app stays in its zone and does not come back to a host
\* it has given up (RenamedInZone, about renameConflictingRoute).
RenamedRoutesStayInZone == Called("rename") => RenamedInZone(call.args.domain, call.args.route)

\* A client that asks for a host with a certificate plan gets a certificate that covers it
\* (PlannedHostsCovered, about CertificatePlans and GetCertificate together).
PlannedHostsAreCovered ==
    Called("certificate") => PlannedHostsCovered(call.args.zones, call.args.host, result)

\* Writing a loaded configuration loses nothing (SurvivesWriting, about MarshalYAML and
\* UnmarshalYAML).
FilesSurviveWriting == Called("load") => SurvivesWriting(call.args)

\* The proxy serves an app where Validate has found room for it (ServedInItsZone, about
\* buildCustomAppRoutes).
AppsAreServedInTheirZone == Called("load") => ServedInItsZone(result)

\* A discovered route leads to its own container, where domux can tell (LeadsToContainer,
\* about ResolveTarget).
RoutesLeadToTheirContainer ==
    Called("discover") =>
      LeadsToContainer(call.args.source, call.args.zones, call.args.container, result)
=============================================================================
