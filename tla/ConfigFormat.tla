---------------------------- MODULE ConfigFormat ----------------------------
(***************************************************************************)
(* config.yaml and the configuration in memory.  The file has a tree of    *)
(* domains with their manual entries or, in its legacy form, a list of     *)
(* zones and one of apps that refer to a zone by its name or its domain;   *)
(* it is always written as a tree.  The server section, providers, agents  *)
(* and targets pass through unchanged and are left out, as are the fields  *)
(* of zones and apps that no one looks at here.  "" is a missing value.    *)
(***************************************************************************)
EXTENDS Naturals, Sequences, SequencesExt

OrElse(value, other) == IF value # "" THEN value ELSE other

-----------------------------------------------------------------------------
(* Config.UnmarshalYAML and normalizeLegacyModel.                           *)

\* The entries of one domain of the tree as apps.
EntryApps(d) ==
    [k \in DOMAIN d.manual |->
       [name |-> OrElse(d.manual[k].name, d.manual[k].subdomain), domain |-> d.domain,
        zone |-> d.domain, subdomain |-> d.manual[k].subdomain]]

NormalizeZone(z) ==
    LET domain == OrElse(z.domain, z.name) IN [name |-> OrElse(z.name, domain), domain |-> domain]

\* legacyToDomain: zones in order, each its name and then its domain; the last one counts.
LegacyToDomain(zones, lookup) ==
    LET named == {i \in DOMAIN zones : lookup # "" /\ lookup \in {zones[i].name, zones[i].domain}}
        last == CHOOSE i \in named : \A j \in named : j <= i
    IN IF named = {} THEN "" ELSE zones[last].domain

NormalizeApp(zones, a) ==
    LET domain == LegacyToDomain(zones, OrElse(a.domain, a.zone))
    IN IF domain = "" THEN a ELSE [a EXCEPT !.domain = domain, !.zone = domain]

\* A file with a tree is read without its legacy lists.
UnmarshalYAML(file) ==
    IF file.domains # <<>>
    THEN [zones |-> [i \in DOMAIN file.domains |->
                       [name |-> OrElse(file.domains[i].name, file.domains[i].domain),
                        domain |-> file.domains[i].domain]],
          apps |-> FlattenSeq([i \in DOMAIN file.domains |-> EntryApps(file.domains[i])])]
    ELSE LET zones == [i \in DOMAIN file.zones |-> NormalizeZone(file.zones[i])]
         IN [zones |-> zones,
             apps |-> [i \in DOMAIN file.apps |-> NormalizeApp(zones, file.apps[i])]]

-----------------------------------------------------------------------------
(* Config.Validate as far as it concerns zones and apps.                    *)

AppDomain(a) == OrElse(a.domain, a.zone)

AppHost(a) == <<a.subdomain, AppDomain(a)>>

Validate(c) ==
    /\ \A i \in DOMAIN c.zones : c.zones[i].domain # ""
    /\ \A i, j \in DOMAIN c.zones : c.zones[i].domain = c.zones[j].domain => i = j
    /\ \A i \in DOMAIN c.apps :
         /\ c.apps[i].name # "" /\ c.apps[i].subdomain # ""
         /\ \E j \in DOMAIN c.zones : c.zones[j].domain = AppDomain(c.apps[i])
    /\ \A i, j \in DOMAIN c.apps :
         c.apps[i].name = c.apps[j].name \/ AppHost(c.apps[i]) = AppHost(c.apps[j]) => i = j

-----------------------------------------------------------------------------
(* Config.MarshalYAML.                                                      *)

\* The apps of the domain key, in order, as its manual entries.
Entries(c, key) ==
    FlattenSeq([i \in DOMAIN c.apps |->
                  IF AppDomain(c.apps[i]) = key
                  THEN <<[name |-> c.apps[i].name, subdomain |-> c.apps[i].subdomain]>>
                  ELSE <<>>])

\* Mutant: apps looked up by the zone's name.
MarshalYAMLByName(c) ==
    [domains |-> [i \in DOMAIN c.zones |->
                    [domain |-> c.zones[i].domain, name |-> c.zones[i].name,
                     manual |-> Entries(c, c.zones[i].name)]],
     zones |-> <<>>, apps |-> <<>>]

MarshalYAML(c) ==
    [domains |-> [i \in DOMAIN c.zones |->
                    LET domain == OrElse(c.zones[i].domain, c.zones[i].name)
                    IN [domain |-> domain, name |-> c.zones[i].name,
                        manual |-> Entries(c, domain)]],
     zones |-> <<>>, apps |-> <<>>]

-----------------------------------------------------------------------------
\* Mutant: zones are found by their names alone.
ZoneOfAppNamed(c, a) ==
    LET named == {i \in DOMAIN c.zones : c.zones[i].name = AppDomain(a)}
    IN IF named = {} THEN 0 ELSE CHOOSE i \in named : \A j \in named : j <= i

\* buildCustomAppRoutes: the index of the zone an app is served in; a zone goes by its name
\* and its domain, and the last one counts.
ZoneOfApp(c, a) ==
    LET named == {i \in DOMAIN c.zones : AppDomain(a) \in {c.zones[i].name, c.zones[i].domain}}
    IN IF named = {} THEN 0 ELSE CHOOSE i \in named : \A j \in named : j <= i

-----------------------------------------------------------------------------
(* Properties                                                               *)

\* A configuration that was loaded and found valid is the same after it has been written
\* and loaded again, whatever form the file had: no zone or app is lost, doubled or moved
\* to another domain; apps are grouped by their domains (Manager.Update, MarshalYAML).
SurvivesWriting(file) ==
    LET c == UnmarshalYAML(file)
        again == UnmarshalYAML(MarshalYAML(c))
    IN Validate(c) =>
         /\ Validate(again)
         /\ again.zones = c.zones
         /\ Len(again.apps) = Len(c.apps)
         /\ \A i \in DOMAIN c.zones :
              Entries(again, c.zones[i].domain) = Entries(c, c.zones[i].domain)

\* An app of a valid configuration is served in the zone whose domain it names, so that the
\* hosts found different by Validate are different, unless a zone has another zone's domain
\* for a name (buildCustomAppRoutes looks up both, Validate the domain only).
ServedInItsZone(c) ==
    /\ Validate(c)
    /\ \A i, j \in DOMAIN c.zones : c.zones[i].name = c.zones[j].domain => i = j
    => \A k \in DOMAIN c.apps :
         LET z == ZoneOfApp(c, c.apps[k]) IN z # 0 /\ c.zones[z].domain = AppDomain(c.apps[k])
=============================================================================
