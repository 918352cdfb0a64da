----------------------------- MODULE ZonePlans ------------------------------
(***************************************************************************)
(* From the zones of the configuration to the certificates that clients    *)
(* get: ManagedZone.CertificatePlans, the bundle a plan's name stands for, *)
(* and the proxy's certificate store, which finds a certificate by exact   *)
(* name or by the nearest wildcard.                                        *)
(*                                                                         *)
(* A zone is a record of name, domain, wildcard, enabled and bundles, each *)
(* bundle a record of name and domains.  The name of a zone or a bundle is *)
(* a sequence of words and of the characters that mean something to it:    *)
(* "/", ":" and "_"; <<>> is the empty one.  White space at its ends, and  *)
(* the path elements . and .., are left out; so are deploy targets and     *)
(* renewal times, which are inherited the way domains are.                 *)
(***************************************************************************)
EXTENDS Names

CompactNames(values) ==
    LET first(i) == values[i] # <<>> /\ \A j \in 1 .. i - 1 : values[j] # values[i]
        kept == SetToSortSeq({i \in DOMAIN values : first(i)}, LAMBDA i, j : i < j)
    IN [k \in DOMAIN kept |-> values[kept[k]]]

\* Nothing keeps the colon out of the two names.
QualifiedBundleName(zone, bundle) ==
    IF bundle \in {<<>>, zone} THEN zone ELSE zone \o <<":">> \o bundle

DomainsForManagedZone(z) ==
    <<z.domain>> \o (IF z.wildcard THEN <<<<Star>> \o z.domain>> ELSE <<>>)

PlanDomains(z, bundle) ==
    LET domains == CompactNames(bundle.domains)
    IN IF domains = <<>> THEN DomainsForManagedZone(z) ELSE domains

\* CertificatePlans returns an error.
PlansRejected(z) ==
    \/ \E i \in DOMAIN z.bundles : z.bundles[i].name = <<>>
    \/ \E i, j \in DOMAIN z.bundles : i # j /\ QualifiedBundleName(z.name, z.bundles[i].name)
                                               = QualifiedBundleName(z.name, z.bundles[j].name)
    \/ \E i \in DOMAIN z.bundles : \E d \in ToSet(PlanDomains(z, z.bundles[i])) :
         ~DomainWithinManagedDomain(z.domain, d)

\* The plans of a zone, as name and domains.
CertificatePlans(z) ==
    IF ~z.enabled THEN {}
    ELSE IF z.bundles = <<>> THEN {[name |-> z.name, domains |-> DomainsForManagedZone(z)]}
    ELSE {[name |-> QualifiedBundleName(z.name, b.name), domains |-> PlanDomains(z, b)] :
            b \in ToSet(z.bundles)}

\* Config.Validate as far as it concerns zones alone; their names may be the same.
ZonesValid(zones) ==
    /\ \A i \in DOMAIN zones : /\ zones[i].domain # <<>>
                               /\ zones[i].enabled => ~PlansRejected(zones[i])
    /\ \A i, j \in DOMAIN zones : i # j => zones[i].domain # zones[j].domain

\* buildCertificateRequests.
BuildCertificateRequests(zones) == UNION {CertificatePlans(zones[i]) : i \in DOMAIN zones}

-----------------------------------------------------------------------------
(* The first request for a directory of certificates obtains one, and a     *)
(* later one for the same directory finds it not due; either way it is set  *)
(* for the request's own domains.  A certificate is the set of names it is  *)
(* for.  Which request comes first, or last for a domain that two of them   *)
(* have, makes no difference to what is claimed here, and is left to CHOOSE. *)

\* The last element of the path, with the colons replaced.
StorageNameForBundle(name) ==
    LET solid == {i \in DOMAIN name : name[i] # "/"}
        last == Max(solid)
        slash == Max({0} \cup {i \in 1 .. last : name[i] = "/"})
        element == SubSeq(name, slash + 1, last)
    IN IF solid = {} THEN <<"default">>
       ELSE FlattenSeq([i \in DOMAIN element |->
                          IF element[i] = ":" THEN <<"_", "_">> ELSE <<element[i]>>])

Certificate(requests, r) ==
    LET first == CHOOSE q \in requests :
                   StorageNameForBundle(q.name) = StorageNameForBundle(r.name)
    IN ToSet(first.domains)

\* MemoryStore after syncCertificateRequests: exact names and wildcards.
LoadCertificates(requests) ==
    [d \in UNION {ToSet(r.domains) : r \in requests} |->
       Certificate(requests, CHOOSE r \in requests : d \in ToSet(r.domains))]

\* Mutant: wildcards from the outermost inwards.
GetCertificateOutermost(store, host) ==
    LET exact == {d \in DOMAIN store : d[1] # Star}
        wild == {i \in 2 .. Len(host) : <<Star>> \o SubSeq(host, i, Len(host)) \in DOMAIN store}
    IN IF exact = {} THEN {}
       ELSE IF host \in exact THEN store[host]
       ELSE IF wild # {} THEN store[<<Star>> \o SubSeq(host, Max(wild), Len(host))]
       ELSE store[CHOOSE d \in exact : TRUE]

\* Without an exact name there is no default certificate, and then none at all.
GetCertificate(store, host) ==
    LET exact == {d \in DOMAIN store : d[1] # Star}
        wild == {i \in 2 .. Len(host) : <<Star>> \o SubSeq(host, i, Len(host)) \in DOMAIN store}
    IN IF exact = {} THEN {}
       ELSE IF host \in exact THEN store[host]
       ELSE IF wild # {} THEN store[<<Star>> \o SubSeq(host, Min(wild), Len(host))]
       ELSE store[CHOOSE d \in exact : TRUE]

-----------------------------------------------------------------------------
\* What a client accepts: the name itself or a wildcard for its first label.
Covers(certificate, host) == host \in certificate \/ <<Star>> \o Tail(host) \in certificate

\* Zones of different names, all of their names and their bundles' one word each.
NamedPlainly(zones) ==
    LET plain(name) == Len(name) = 1 /\ name[1] \notin {"/", ":", "_"} IN
    /\ \A i \in DOMAIN zones : /\ plain(zones[i].name)
                               /\ \A k \in DOMAIN zones[i].bundles : plain(zones[i].bundles[k].name)
    /\ \A i, j \in DOMAIN zones : i # j => zones[i].name # zones[j].name

\* A host that some zone's plan is for is served with a certificate that covers it, however
\* the zones are nested and whatever bundles they have.  It takes an exact name somewhere
\* (GetCertificate), and plans with a directory of their own: names of one word each give
\* them one, but nothing checks the names (CertificatePlans, Config.Validate), and plans that
\* share a directory, as those of a zone a:b and of the bundle b of a zone a, or of zones
\* x/a and y/a, share one certificate (storageNameForBundle).
PlannedHostsCovered(zones, host, certificate) ==
    LET requests == BuildCertificateRequests(zones)
        alone(r) == \A q \in requests :
                      StorageNameForBundle(q.name) = StorageNameForBundle(r.name) => q = r
    IN /\ \E r \in requests : \E d \in ToSet(r.domains) : d[1] # Star
       /\ \E r \in requests : Covers(ToSet(r.domains), host)
       /\ \/ NamedPlainly(zones)
          \/ \A r \in requests : Covers(ToSet(r.domains), host) => alone(r)
       => Covers(certificate, host)
=============================================================================
