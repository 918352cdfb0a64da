--------------------------- MODULE Configuration ----------------------------
(***************************************************************************)
(* Configurations and the requests that change them: what config.Validate  *)
(* and the mutators of the API handlers decide.                            *)
(*                                                                         *)
(* A configuration maps every managed object (a zone, the server runtime,  *)
(* a DNS provider, a custom app, an agent, a deploy target) to its value,  *)
(* or to Absent.  What a value is made of is left out but for the other    *)
(* objects it names (Refs); a request whose object is invalid by itself is *)
(* refused like one whose object is missing, and is left out.  A bundle of *)
(* a zone is part of the zone's value.                                     *)
(***************************************************************************)
EXTENDS Naturals, FiniteSets, Sequences

CONSTANTS
    Object,         \* the objects a configuration can hold
    KindOf,         \* the section an object belongs to
    Refs,           \* the objects that an object with a given value refers to
    Val,            \* the values an object can be given
    Absent          \* no such object

Kind == {"zone", "runtime", "provider", "app", "agent", "target"}

ASSUME ConfigurationAssumption ==
    /\ KindOf \in [Object -> Kind]
    /\ Refs \in [Object -> [Val -> SUBSET Object]]
    /\ Absent \notin Val

Config == [Object -> Val \cup {Absent}]

Agent == {o \in Object : KindOf[o] = "agent"}

\* The part of a configuration that one kind of object makes up.
Only(kind, c) == [o \in Object |-> IF KindOf[o] = kind THEN c[o] ELSE Absent]

Present(kind, c) == {o \in Object : KindOf[o] = kind /\ c[o] # Absent}

Empty == [o \in Object |-> Absent]

\* A request: the object its path names (a new one for a create) and the object, of the
\* same kind, and the value its body has.
Op ==
    {r \in [kind : {"create", "update"}, obj : Object, to : Object, val : Val]
             \cup [kind : {"delete"}, obj : Object, to : Object, val : {Absent}] :
       IF r.kind = "update" THEN KindOf[r.to] = KindOf[r.obj] ELSE r.to = r.obj}

\* Every object a configuration holds finds the objects it refers to.
Validate(c) == \A o \in Object : c[o] # Absent => \A r \in Refs[o][c[o]] : c[r] # Absent

\* The handlers' Conflict, NotFound and BadRequest checks.  server.runtime is always there
\* and can only be updated; only custom apps can be renamed.
CreateAccepts(c, r) == c[r.obj] = Absent /\ KindOf[r.obj] # "runtime"

UpdateAccepts(c, r) ==
    /\ c[r.obj] # Absent
    /\ r.to # r.obj => KindOf[r.obj] = "app" /\ c[r.to] = Absent

DeleteAccepts(c, r) == c[r.obj] # Absent /\ KindOf[r.obj] # "runtime"

MutatorAccepts(c, r) ==
    \/ r.kind = "create" /\ CreateAccepts(c, r)
    \/ r.kind = "update" /\ UpdateAccepts(c, r)
    \/ r.kind = "delete" /\ DeleteAccepts(c, r)

Mutate(c, r) == [c EXCEPT ![r.obj] = Absent, ![r.to] = r.val]
=============================================================================
