--------------------------- MODULE MCRouteRefresh ---------------------------
(* Containers for RouteRefresh: a local and a remote one that ask for the   *)
(* same host; one of them alone.  Custom apps: one for that host, and one   *)
(* for the host that the remote container's route gets in its place.        *)
EXTENDS RouteRefresh

MCSlug == [n \in Agent \cup {"server"} |-> <<n>>]

MCNodeOfPair == [app |-> "docker", web |-> "edge"]

MCHostOfPair == [app |-> <<"app">>, web |-> <<"app">>]

MCNodeOfWeb == [web |-> "edge"]

MCHostOfWeb == [web |-> <<"app">>]

MCNodeOfApp == [app |-> "docker"]

MCHostOfApp == [app |-> <<"app">>]

MCAppHost == {<<"app">>, <<"app", "edge">>}

MCInitApps == {<<"app">>}
=============================================================================
