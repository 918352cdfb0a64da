---------------------------- MODULE MCAlgorithms ----------------------------
(* Inputs for Algorithms: short names, nested zones, legacy and tree-shaped *)
(* files, and containers with and without networks and published ports.     *)
EXTENDS Algorithms, TLC

MCNames == BoundedSeq({<<"a">>, <<"b">>}, 3) \ {<<>>}

MCHostInputs ==
    {[host |-> h, answers |-> zones] :
       <<h, zones>> \in
         UNION {{star \o n : star \in {<<>>, <<Star>>}} \X SUBSET (Suffixes(n) \ {<<>>}) :
                  n \in MCNames}}

MCSubdomains ==
    {<<<<"app">>>>, <<<<"server">>>>, <<<<"node">>>>, <<<<"app", "server">>>>,
     <<<<"app", "server", "node">>>>, <<<<"a">>, <<"app">>>>, <<<<"a">>, <<"app", "server">>>>}

MCRouteInputs ==
    {[domain |-> d, route |-> [subdomain |-> s, host |-> s \o d, source |-> source,
                               container |-> <<<<"app">>>>]] :
       d \in {<<<<"example">>>>, <<<<"home">>, <<"example">>>>}, s \in MCSubdomains,
       source \in {<<"server">>, <<"server", "node">>, <<"node">>, <<"", "edge">>, <<"">>}}

MCOuter == <<<<"example">>>>

MCInner == <<<<"sub">>, <<"example">>>>

MCBundles(d) ==
    LET bundle == [name : {<<>>, <<"one">>, <<"x">>},
                   domains : {<<>>, <<d>>, <<<<Star>> \o d>>, <<<<<<"a">>>> \o d, <<Star>> \o d>>,
                              <<<<<<"foreign">>>>>>}]
    IN {<<>>} \cup {<<b>> : b \in bundle}
       \cup {<<[name |-> <<"x">>, domains |-> <<d>>], [name |-> n, domains |-> <<<<Star>> \o d>>]>> :
               n \in {<<"one">>, <<"x">>, <<"y", "/", "x">>}}

MCZones ==
    UNION {[name : {<<"one">>, <<"two">>}, domain : {d}, wildcard : BOOLEAN, enabled : {TRUE},
            bundles : MCBundles(d)]
           \cup [name : {<<"y", "/", "one">>, <<"one", ":", "x">>, <<"one", "_", "_", "x">>, <<"/">>},
                 domain : {d}, wildcard : {TRUE}, enabled : {TRUE},
                 bundles : {<<>>, <<[name |-> <<"x">>, domains |-> <<d>>]>>}] :
             d \in {MCOuter, MCInner}}

MCZoneInputs == {<<z>> : z \in MCZones} \cup {<<y, z>> : y, z \in MCZones}

MCServedHosts == {MCOuter, MCInner, <<<<"a">>>> \o MCOuter, <<<<"a">>>> \o MCInner}

MCLegacyFiles ==
    [domains : {<<>>},
     zones : BoundedSeq([name : {"", "home", "b"}, domain : {"", "a", "b"}], 2),
     apps : BoundedSeq([name : {"app", "blog"}, domain : {"", "b", "home"}, zone : {"a", "home"},
                        subdomain : {"s"}], 2)]

MCTreeFiles ==
    [domains : BoundedSeq([domain : {"", "a", "b"}, name : {"", "home", "b"},
                           manual : BoundedSeq([name : {"", "app"}, subdomain : {"s", "t"}],
                                               1)], 2),
     zones : {<<>>, <<[name |-> "home", domain |-> "a"]>>}, apps : {<<>>}]

MCFileInputs == MCLegacyFiles \cup MCTreeFiles

MCNetworkOrder == <<<<"alt">>, <<"p", "web">>, <<"web">>>>

MCAddress == <<"alt">> :> "10.0.0.1" @@ <<"p", "web">> :> "10.0.0.2" @@ <<"web">> :> "10.0.0.3"

MCNetworksOfContainer ==
    {[n \in N |-> MCAddress[n]] : N \in SUBSET Networks} \cup {<<"web">> :> ""}

MCLabels ==
    [domain : {"a"}, zone : {""}, subdomain : {""}, network : {<<>>, <<"web">>, <<"alt">>},
     port : {NoPort, 80, -1}]
    \cup [domain : {"", "a", "x"}, zone : {"", "a"}, subdomain : {"", "s"}, network : {<<>>},
          port : {NoPort, BadPort}]

MCListed(private, public, proto) ==
    [ip |-> "any", private |-> private, public |-> public, proto |-> proto]

MCBinding(ip, port) == [ip |-> ip, port |-> port]

MCListings ==
    {<<>>, <<MCListed(80, 0, "tcp")>>, <<MCListed(80, 8080, "tcp"), MCListed(443, 0, "tcp")>>}

MCBindings ==
    {<<>>, <<80, "tcp">> :> <<MCBinding("any", 0), MCBinding("any", 9090)>>,
     <<80, "tcp">> :> <<MCBinding("loopback", 9090)>>}

MCConfigs == {{}, {<<443, "tcp">>, <<8000, "tcp">>}, {<<53, "udp">>, <<80, "tcp">>}}

MCContainers ==
    [running : {TRUE}, project : {"", "p"}, networks : MCNetworksOfContainer,
     hostNetwork : {FALSE}, listed : MCListings, bindings : MCBindings, config : MCConfigs,
     labels : MCLabels]
    \cup [running : BOOLEAN, project : {""}, networks : {<<>>}, hostNetwork : {TRUE},
          listed : {<<>>, <<MCListed(80, 8080, "tcp")>>}, bindings : {<<>>}, config : MCConfigs,
          labels : MCLabels]
    \cup [running : {TRUE}, project : {""}, networks : {<<>>}, hostNetwork : {FALSE},
          listed : MCListings \cup {<<MCListed(80, 8080, "tcp"), MCListed(80, 8081, "udp")>>},
          bindings : {<<80, "tcp">> :> <<MCBinding("other", 9090), MCBinding("any", 9091)>>,
                      <<80, "tcp">> :> <<MCBinding("any", 9090)>>
                      @@ <<80, "udp">> :> <<MCBinding("any", 9053)>>},
          config : {{}}, labels : MCLabels]

MCSources ==
    [runtime : {"docker"}, network : {<<>>, <<"web">>}, inContainer : BOOLEAN]
    \cup [runtime : {"podman"}, network : {<<"web">>}, inContainer : BOOLEAN]

MCContainerInputs ==
    [source : MCSources,
     zones : {<<[domain |-> "a", default |-> FALSE]>>,
              <<[domain |-> "a", default |-> FALSE], [domain |-> "b", default |-> FALSE]>>},
     container : MCContainers]
=============================================================================
