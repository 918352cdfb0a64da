---------------------------- MODULE DockerTarget ----------------------------
(***************************************************************************)
(* From a container, as the runtime describes it, to its route: the        *)
(* snapshot's networks and ports (snapshotFromDocker), the labels          *)
(* (ParseLabels), the zone and the address the proxy forwards to           *)
(* (DiscoverRoutesFromSnapshots, ResolveTarget).                           *)
(*                                                                         *)
(* A network's name is a sequence: <<n>>, or <<project, n>> for the one a  *)
(* compose project calls n; <<>> is none.  A port is a number, 0 an        *)
(* unpublished one, and has a protocol; it is published on any address of  *)
(* the host, on its loopback or on another single one.  A port label that  *)
(* is missing or not a number is NoPort or BadPort.  IDs, images and       *)
(* states are left out.                                                    *)
(***************************************************************************)
EXTENDS Integers, Sequences, FiniteSetsExt, SequencesExt

CONSTANTS
    NetworkOrder,   \* the networks there can be, in the order of their names
    NoPort, BadPort

Networks == ToSet(NetworkOrder)

Protocol == {"tcp", "udp"}

HostIP == {"any", "loopback", "other"}

-----------------------------------------------------------------------------
(* snapshotFromDocker: docker lists a container's ports, inspect gives each *)
(* private port and protocol its bindings, in order; both are incomplete.   *)
(* What is made of them has neither protocols nor addresses.                *)

\* Where p is listed with a public port; the last one counts.
Listed(c, p) == {i \in DOMAIN c.listed : c.listed[i].private = p /\ c.listed[i].public > 0}

\* Where p has a binding with a port; the first one counts.
Bound(c, p, proto) ==
    IF <<p, proto>> \in DOMAIN c.bindings
    THEN {i \in DOMAIN c.bindings[<<p, proto>>] : c.bindings[<<p, proto>>][i].port > 0} ELSE {}

\* Mutant: the listed port before the bound one.
PublishedAsListed(c, p, last) ==
    IF Listed(c, p) = {} THEN 0 ELSE c.listed[Max(Listed(c, p))].public

\* What was bound counts before what was listed, and of two protocols the one that the
\* iteration of the map comes to last.
Published(c, p, last) ==
    LET bound == {proto \in Protocol : Bound(c, p, proto) # {}}
        proto == IF last \in bound THEN last ELSE CHOOSE q \in bound : TRUE
    IN IF bound # {} THEN c.bindings[<<p, proto>>][Min(Bound(c, p, proto))].port
       ELSE IF Listed(c, p) # {} THEN c.listed[Max(Listed(c, p))].public ELSE 0

\* The ports of the container that are mentioned anywhere.
Exposed(c) ==
    {<<e.private, e.proto>> : e \in ToSet(c.listed)} \cup DOMAIN c.bindings \cup c.config

SnapshotFromDocker(c, last) ==
    LET ports == {x[1] : x \in Exposed(c)} IN
    [running |-> c.running, hostNetwork |-> c.hostNetwork, project |-> c.project,
     networks |-> [n \in {m \in DOMAIN c.networks : c.networks[m] # ""} |-> c.networks[n]],
     exposed |-> {p \in ports : p > 0},
     published |-> [p \in ports |-> Published(c, p, last)]]

-----------------------------------------------------------------------------
\* A missing label is "" or, for a network, <<>>.
ParseLabels(labels) ==
    [ok |-> ~(labels.domain # "" /\ labels.zone # "" /\ labels.domain # labels.zone)
            /\ labels.port # BadPort,
     domain |-> IF labels.domain # "" THEN labels.domain ELSE labels.zone,
     network |-> labels.network,
     port |-> IF labels.port \in {NoPort, BadPort} THEN 0 ELSE labels.port,
     managed |-> \/ labels.domain # "" \/ labels.zone # "" \/ labels.subdomain # ""
                 \/ labels.network # <<>> \/ labels.port # NoPort]

\* DefaultManagedZone, of zones that are records of domain and default: "" is none.
DefaultManagedZoneName(zones) ==
    IF \E i \in DOMAIN zones : zones[i].default
    THEN zones[SelectInSeq(zones, LAMBDA z : z.default)].domain
    ELSE IF Len(zones) = 1 THEN zones[1].domain ELSE ""

-----------------------------------------------------------------------------
(* ResolveTarget                                                            *)

\* The label's port, else the least one exposed, else 0.
ResolvePort(s, intent) ==
    IF intent.port > 0 THEN intent.port ELSE IF s.exposed = {} THEN 0 ELSE Min(s.exposed)

\* The name and, unless it is one already, the compose project's name for it.
WithProject(name, project) ==
    LET short == name = <<>> \/ Len(name) = 1 IN
    (IF name # <<>> THEN <<name>> ELSE <<>>)
    \o (IF project # "" /\ short
        THEN <<<<project>> \o (IF name = <<>> THEN <<"">> ELSE name)>> ELSE <<>>)

\* The label's network, the source's, and then all the container has, in order; the networks
\* it does not have, which resolveHost passes over, are not taken out.
NetworkCandidates(source, s, intent) ==
    WithProject(intent.network, s.project)
    \o (IF source.network # intent.network THEN WithProject(source.network, s.project) ELSE <<>>)
    \o NetworkOrder

\* The first candidate in which the container has an address, or none.
ResolveHost(source, s, intent) ==
    LET candidates == NetworkCandidates(source, s, intent)
        hits == {i \in DOMAIN candidates : candidates[i] \in DOMAIN s.networks}
    IN IF hits = {} THEN <<>> ELSE candidates[Min(hits)]

\* Podman's published port always counts, Docker's only for a container without networks.
ResolvePublished(source, s, port) ==
    IF port \in DOMAIN s.published /\ (source.runtime = "podman" \/ DOMAIN s.networks = {})
    THEN s.published[port] ELSE 0

PublishedTargetHost(source) ==
    IF source.runtime = "podman" /\ source.inContainer
    THEN "host.containers.internal" ELSE "127.0.0.1"

NoTarget == [host |-> "", port |-> 0, via |-> <<>>]

ResolveTarget(source, s, intent) ==
    LET port == ResolvePort(s, intent)
        public == ResolvePublished(source, s, port)
        network == ResolveHost(source, s, intent)
    IN IF port = 0 THEN NoTarget
       ELSE IF s.hostNetwork THEN [host |-> "127.0.0.1", port |-> port, via |-> <<"host">>]
       ELSE IF public # 0
       THEN [host |-> PublishedTargetHost(source), port |-> public, via |-> <<"published">>]
       ELSE IF network = <<>> THEN NoTarget
       ELSE [host |-> s.networks[network], port |-> port, via |-> network]

\* DiscoverRoutesFromSnapshots, for one container: its domain and target, or no route.
DiscoverRoute(source, zones, c, last) ==
    LET s == SnapshotFromDocker(c, last)
        intent == ParseLabels(c.labels)
        domain == IF intent.domain # "" THEN intent.domain ELSE DefaultManagedZoneName(zones)
    IN IF /\ s.running /\ intent.ok /\ intent.managed
          /\ \E i \in DOMAIN zones : zones[i].domain = domain
       THEN [domain |-> domain, target |-> ResolveTarget(source, s, intent)]
       ELSE [domain |-> "", target |-> NoTarget]

-----------------------------------------------------------------------------
(* Properties                                                               *)

\* Where domux reaches the host it runs on.
HostAddress(source) == IF source.inContainer THEN "host.containers.internal" ELSE "127.0.0.1"

\* Whether it gets there to a port published on ip.
Reached(source, ip) == ip = "any" \/ (ip = "loopback" /\ ~source.inContainer)

\* What is published of port, by any protocol, with its address: the bindings if there are
\* any, since the list is older.
PublishedOn(c, port) ==
    LET listed == {[ip |-> c.listed[i].ip, port |-> c.listed[i].public,
                    proto |-> c.listed[i].proto] : i \in Listed(c, port)}
        bound == UNION {{[ip |-> c.bindings[<<port, proto>>][i].ip,
                          port |-> c.bindings[<<port, proto>>][i].port, proto |-> proto] :
                           i \in Bound(c, port, proto)} : proto \in Protocol}
    IN IF bound # {} THEN bound ELSE listed

\* What ResolveTarget does not see: that 127.0.0.1 is domux's own when domux runs in a
\* container, that a port is one of udp, and that one is published where domux cannot get.
Misled(source, c, port) ==
    LET addressed == {n \in DOMAIN c.networks : c.networks[n] # ""}
        usesPublished == ~c.hostNetwork /\ (source.runtime = "podman" \/ addressed = {})
    IN \/ source.inContainer /\ (c.hostNetwork \/ (source.runtime = "docker" /\ addressed = {}))
       \/ <<port, "udp">> \in Exposed(c)
       \/ usesPublished /\ \E x \in PublishedOn(c, port) : ~Reached(source, x.ip)

\* A route leads to the container it was found for: to an address the container has, at the
\* port asked for or a tcp port it exposes, or through the host's address, as domux reaches
\* it, at a port the runtime really publishes it under (snapshotFromDocker, ResolveTarget);
\* but for what ResolveTarget does not see.  The network that the label names is used when
\* the container has an address there, and a managed, running container with a port and an
\* address anywhere gets a target.
LeadsToContainer(source, zones, c, route) ==
    LET t == route.target
        intent == ParseLabels(c.labels)
        addressed == {n \in DOMAIN c.networks : c.networks[n] # ""}
        port == ResolvePort(SnapshotFromDocker(c, "tcp"), intent)
        offered == port = intent.port \/ <<port, "tcp">> \in Exposed(c)
        open == {x.port : x \in {y \in PublishedOn(c, port) :
                                   y.proto = "tcp" /\ Reached(source, y.ip)}}
    IN /\ t # NoTarget /\ ~Misled(source, c, port) =>
            \/ /\ t.host = HostAddress(source)
               /\ IF c.hostNetwork THEN t.port = port /\ offered ELSE t.port \in open
            \/ /\ t.via \in addressed /\ t.host = c.networks[t.via] /\ t.port = port /\ offered
               /\ intent.network \in addressed => t.via = intent.network
       /\ route.domain # "" /\ port # 0 /\ addressed # {} => t # NoTarget
=============================================================================
