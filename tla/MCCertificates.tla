--------------------------- MODULE MCCertificates ---------------------------
(* Bundles for Certificates: a zone's apex and wildcard, deployed to a       *)
(* reverse proxy, and a second bundle that only a manual request sends there. *)
EXTENDS Certificates

MCDomainsOf == [b \in Bundle |-> IF b = "site" THEN <<"apex", "any">> ELSE <<"blog">>]

MCRank == [b \in Bundle |-> IF b = "blog" THEN 1 ELSE 2]

MCTargetsOf == [b \in Bundle |-> IF b = "site" THEN Target ELSE {}]

MCTransportOf == [t \in Target |-> "ssh"]

MCManual == {<<"force", {"blog"}, NoTarget>>, <<"deploy", {"blog"}, "proxy">>,
             <<"deploy", {"site"}, NoTarget>>}
=============================================================================
