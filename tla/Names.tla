------------------------------- MODULE Names --------------------------------
(***************************************************************************)
(* Domain names: which zone a record belongs to, what a record is called   *)
(* in it, and what a route is called that has to give way to a custom app. *)
(*                                                                         *)
(* A name is the sequence of its labels, a label the sequence of the words *)
(* that dashes separate; <<>> is the empty string.  Case, white space and  *)
(* the trailing dot, which the code strips, are left out.                  *)
(***************************************************************************)
EXTENDS Naturals, Sequences, FiniteSetsExt, SequencesExt

Star == <<"*">>

\* normalizeDNSName, and DomainWithinManagedDomain's use of the same prefix.
WithoutStar(name) == IF name # <<>> /\ Head(name) = Star THEN Tail(name) ELSE name

DomainWithinManagedDomain(managed, name) == IsSuffix(managed, WithoutStar(name))

-----------------------------------------------------------------------------
(* authzone.NSResolver and ddnsprovider.ResolveRecordName.                   *)

\* Mutant: the zones above the name, without the name itself.
CandidateZonesAbove(fqdn) == [i \in 1 .. Len(fqdn) - 1 |-> SubSeq(fqdn, i + 1, Len(fqdn))]

CandidateZones(fqdn) == [i \in 1 .. Len(fqdn) |-> SubSeq(fqdn, i, Len(fqdn))]

\* The first candidate whose name servers answer; a lookup that fails is like a name that
\* has none.
ResolveAuthZone(fqdn, answers) ==
    LET candidates == CandidateZones(WithoutStar(fqdn))
        hits == {i \in DOMAIN candidates : candidates[i] \in answers}
    IN IF hits = {} THEN <<>> ELSE candidates[Min(hits)]

\* The record's name relative to the zone ("@" is <<>>), if it belongs there.
ResolveRecordName(zone, fqdn) ==
    IF zone # <<>> /\ IsSuffix(zone, fqdn)
    THEN [ok |-> TRUE, relative |-> SubSeq(fqdn, 1, Len(fqdn) - Len(zone))]
    ELSE [ok |-> FALSE, relative |-> <<>>]

\* The record that syncRecord writes for host: its zone and its name there.
Record(host, answers) ==
    LET zone == ResolveAuthZone(host, answers)
    IN [zone |-> zone, name |-> ResolveRecordName(zone, host)]

-----------------------------------------------------------------------------
(* renameConflictingRoute: a route is a record of its subdomain, host,      *)
(* source and container, which is the route's or its container's name.      *)

\* Mutant: the top-level domain alone.
HostSuffixTop(host) == IF Len(host) > 1 THEN <<Last(host)>> ELSE <<>>

HostSuffix(host) == IF host = <<>> THEN <<>> ELSE Tail(host)

\* Characters other than letters and digits separate words; blank words vanish.
SlugLabel(source) ==
    FlattenSeq([i \in DOMAIN source |-> IF source[i] = "" THEN <<>> ELSE <<source[i]>>])

\* base-node, where base may have several labels.
Dashed(base, node) == Append(Front(base), Last(base) \o node)

RenameConflictingRoute(r) ==
    LET wanted == IF r.subdomain # <<>> THEN r.subdomain
                  ELSE IF r.container # <<>> THEN r.container ELSE <<<<"app">>>>
        slug == IF SlugLabel(r.source) = <<>> THEN <<"node">> ELSE SlugLabel(r.source)
        base == IF wanted = <<slug>> THEN Dashed(wanted, <<"app">>) ELSE wanted
        node == IF IsStrictSuffix(slug, Last(base)) THEN Append(slug, "node") ELSE slug
        subdomain == Dashed(base, node)
    IN [r EXCEPT !.subdomain = subdomain, !.host = subdomain \o HostSuffix(r.host)]

-----------------------------------------------------------------------------
(* Properties                                                               *)

\* A record is written in the innermost zone above it whose name servers answer, under the
\* name that makes up its host again, wildcards included; only without any such zone is
\* nothing written (syncRecord, ResolveAuthZone, ResolveRecordName).
WrittenWhereServed(host, answers, record) ==
    LET above == {z \in answers : z # <<>> /\ IsSuffix(z, WithoutStar(host))} IN
    IF above = {}
    THEN ~record.name.ok
    ELSE /\ record.name.ok
         /\ record.name.relative \o record.zone = host
         /\ record.zone \in above
         /\ \A z \in above : IsSuffix(z, record.zone)

\* However often a route has to give way, its host stays in its zone and is never one it
\* has given up before (renameConflictingRoute, whose result is merged again by the next
\* refresh of another source).
RenamedInZone(domain, r) ==
    LET once == RenameConflictingRoute(r)
        twice == RenameConflictingRoute(once)
    IN /\ DomainWithinManagedDomain(domain, once.host)
       /\ DomainWithinManagedDomain(domain, twice.host)
       /\ twice.host \notin {r.host, once.host} /\ once.host # r.host
=============================================================================
