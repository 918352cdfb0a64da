------------------------------ MODULE DDNSSync ------------------------------
(***************************************************************************)
(* DDNS synchronisation: Service.SyncZone and syncRecord bring the records *)
(* of a zone at the DNS providers to the detected public addresses, and    *)
(* remember in the MemoryStore what they did so that an unchanged record   *)
(* is not written again.                                                   *)
(*                                                                         *)
(* The timer job, the startup task and the manual action run SyncZone      *)
(* without a lock of any kind; the store is lost when the process ends.    *)
(* A record stands for one provider, host and record type; dns[r] is the   *)
(* list of values the provider has for it, which before domux first writes *)
(* may be several. TTLs, which some providers compare too, are left out.   *)
(***************************************************************************)
EXTENDS Naturals, Sequences, SequencesExt

CONSTANTS
    Syncer,         \* the goroutines that can run SyncZone
    Rec,            \* the records of the zone
    FamilyOf,       \* the address family of a record
    ProviderOf,     \* how a record's provider writes: see Upsert below
    IP,             \* public addresses
    NoIP,
    MaxValues,      \* bound: values a record has before domux writes it
    MaxChanges,     \* bound: changes of the public addresses
    MaxFails        \* bound: failed, unanswered or hanging calls, and restarts

Family == {"v4", "v6"}

NoRec == "none"

ASSUME DDNSSyncAssumption ==
    /\ FamilyOf \in [Rec -> Family]
    /\ ProviderOf \in [Rec -> {"cloudflare", "alidns", "godaddy", "spaceship"}]
    /\ NoIP \notin IP /\ NoRec \notin Rec
    /\ MaxValues \in Nat /\ MaxChanges \in Nat /\ MaxFails \in Nat

VARIABLES
    ip,             \* the public address of each family
    dns,            \* the values each record has at its provider
    given,          \* history: the values it had before domux wrote it
    state,          \* the store's DDNSSyncState of each record
    pc, val, todo, rec, \* per syncer: position, addresses, records left, current record,
    seen, at,           \* what its provider listed, and which value came first in that (or 0)
    changes, fails

vars == <<ip, dns, given, state, pc, val, todo, rec, seen, at, changes, fails>>

\* No state has been put for the record since the process started.
NoState == [value |-> NoIP, status |-> "none"]

Init ==
    /\ ip \in [Family -> IP]
    /\ dns \in [Rec -> {q \in UNION {[1 .. n -> IP] : n \in 0 .. MaxValues} : IsInjective(q)}]
    /\ given = dns
    /\ state = [r \in Rec |-> NoState]
    /\ pc = [s \in Syncer |-> "idle"]
    /\ val = [s \in Syncer |-> [f \in Family |-> NoIP]]
    /\ todo = [s \in Syncer |-> {}]
    /\ rec = [s \in Syncer |-> NoRec]
    /\ seen = [s \in Syncer |-> <<>>]
    /\ at = [s \in Syncer |-> 0]
    /\ changes = 0 /\ fails = 0

Fail == fails < MaxFails /\ fails' = fails + 1

\* The address syncer s wants in its record.
Want(s) == val[s][FamilyOf[rec[s]]]

\* cloudflare and alidns update the record that is listed first and leave the others alone.
InPlace(r) == ProviderOf[r] \in {"cloudflare", "alidns"}

-----------------------------------------------------------------------------
\* The provider assigns another public address.
ChangeIP(f, v) ==
    /\ changes < MaxChanges
    /\ v # ip[f]
    /\ changes' = changes + 1
    /\ ip' = [ip EXCEPT ![f] = v]
    /\ UNCHANGED <<dns, given, state, pc, val, todo, rec, seen, at, fails>>

\* Mutant: the records of a family that was not detected are synced as well.
DetectAll(s, F) ==
    /\ pc[s] = "idle"
    /\ IF F = Family THEN UNCHANGED fails ELSE Fail
    /\ val' = [val EXCEPT ![s] = [f \in Family |-> IF f \in F THEN ip[f] ELSE NoIP]]
    /\ todo' = [todo EXCEPT ![s] = Rec]
    /\ pc' = [pc EXCEPT ![s] = "next"]
    /\ UNCHANGED <<ip, dns, given, state, rec, seen, at, changes>>

\* SyncZone asks the detector; a family whose endpoints all fail is left out.
Detect(s, F) ==
    /\ pc[s] = "idle"
    /\ IF F = Family THEN UNCHANGED fails ELSE Fail
    /\ val' = [val EXCEPT ![s] = [f \in Family |-> IF f \in F THEN ip[f] ELSE NoIP]]
    /\ todo' = [todo EXCEPT ![s] = {r \in Rec : FamilyOf[r] \in F}]
    /\ pc' = [pc EXCEPT ![s] = "next"]
    /\ UNCHANGED <<ip, dns, given, state, rec, seen, at, changes>>

\* The loop over providers, families and the wildcard host is over.
Return(s) ==
    /\ pc[s] = "next"
    /\ todo[s] = {}
    /\ pc' = [pc EXCEPT ![s] = "idle"]
    /\ val' = [val EXCEPT ![s] = [f \in Family |-> NoIP]]
    /\ UNCHANGED <<ip, dns, given, state, todo, rec, seen, at, changes, fails>>

\* syncRecord's first steps fail (no authoritative zone): no state is put.
ResolveFails(s, r) ==
    /\ Fail
    /\ pc[s] = "next"
    /\ r \in todo[s]
    /\ todo' = [todo EXCEPT ![s] = @ \ {r}]
    /\ UNCHANGED <<ip, dns, given, state, pc, val, rec, seen, at, changes>>

\* Mutant: a failed state of the same value counts as unchanged.
GetDDNSSyncStateAnyStatus(s, r) ==
    /\ pc[s] = "next"
    /\ r \in todo[s]
    /\ todo' = [todo EXCEPT ![s] = @ \ {r}]
    /\ rec' = [rec EXCEPT ![s] = r]
    /\ pc' = [pc EXCEPT ![s] = IF state[r].value = val[s][FamilyOf[r]] THEN "noop"
                               ELSE IF ProviderOf[r] = "godaddy" THEN "write" ELSE "list"]
    /\ UNCHANGED <<ip, dns, given, state, val, seen, at, changes, fails>>

\* syncRecord looks at the previous state and decides.
GetDDNSSyncState(s, r) ==
    /\ pc[s] = "next"
    /\ r \in todo[s]
    /\ todo' = [todo EXCEPT ![s] = @ \ {r}]
    /\ rec' = [rec EXCEPT ![s] = r]
    /\ LET unchanged == /\ state[r].value = val[s][FamilyOf[r]]
                        /\ state[r].status # "failed"
       IN pc' = [pc EXCEPT ![s] = IF unchanged THEN "noop"
                                  ELSE IF ProviderOf[r] = "godaddy" THEN "write" ELSE "list"]
    /\ UNCHANGED <<ip, dns, given, state, val, seen, at, changes, fails>>

\* PutDDNSSyncState; syncRecord returns.
Put(s, status) ==
    /\ state' = [state EXCEPT ![rec[s]] = [value |-> Want(s), status |-> status]]
    /\ pc' = [pc EXCEPT ![s] = "next"]
    /\ rec' = [rec EXCEPT ![s] = NoRec]
    /\ seen' = [seen EXCEPT ![s] = <<>>]
    /\ at' = [at EXCEPT ![s] = 0]

PutNoop(s) ==
    /\ pc[s] = "noop"
    /\ Put(s, "noop")
    /\ UNCHANGED <<ip, dns, given, val, todo, changes, fails>>

PutSuccess(s) ==
    /\ pc[s] = "success"
    /\ Put(s, "success")
    /\ UNCHANGED <<ip, dns, given, val, todo, changes, fails>>

PutFailed(s) ==
    /\ pc[s] = "failed"
    /\ Put(s, "failed")
    /\ UNCHANGED <<ip, dns, given, val, todo, changes, fails>>

-----------------------------------------------------------------------------
(* Updater.Upsert, one call to the provider at a time.                      *)

\* Which value comes first in the answer is the provider's choice.
First(r) == IF InPlace(r) /\ dns[r] # <<>> THEN DOMAIN dns[r] ELSE {0}

\* Mutant: a record that exists is taken to be right.
UpToDateIfAny(s, i) == dns[rec[s]] # <<>>

\* Nothing is to be written: cloudflare and alidns look at the first record only.
UpToDate(s, i) ==
    IF ProviderOf[rec[s]] = "spaceship" THEN dns[rec[s]] = <<Want(s)>>
    ELSE i # 0 /\ dns[rec[s]][i] = Want(s)

ListRecords(s) ==
    /\ pc[s] = "list"
    /\ seen' = [seen EXCEPT ![s] = dns[rec[s]]]
    /\ \E i \in First(rec[s]) :
         /\ at' = [at EXCEPT ![s] = i]
         /\ pc' = [pc EXCEPT ![s] =
                IF UpToDate(s, i) THEN "success"
                ELSE IF ProviderOf[rec[s]] = "spaceship" /\ dns[rec[s]] # <<>> THEN "delete"
                ELSE "write"]
    /\ UNCHANGED <<ip, dns, given, state, val, todo, rec, changes, fails>>

\* What the providers make of a write of v when they have the list old: cloudflare and
\* alidns update the record at the place i that was listed first or create one (i = 0),
\* godaddy replaces the list, spaceship adds the value to it.
WriteCloudflare(old, i, v) == IF i = 0 THEN Append(old, v) ELSE [old EXCEPT ![i] = v]
WriteAliDNS(old, i, v) == IF i = 0 THEN Append(old, v) ELSE [old EXCEPT ![i] = v]
WriteGoDaddy(old, i, v) == <<v>>
WriteSpaceship(old, i, v) == IF Contains(old, v) THEN old ELSE Append(old, v)

Written(s, old) ==
    LET p == ProviderOf[rec[s]] IN
    CASE p = "cloudflare" -> WriteCloudflare(old, at[s], Want(s))
      [] p = "alidns"     -> WriteAliDNS(old, at[s], Want(s))
      [] p = "godaddy"    -> WriteGoDaddy(old, at[s], Want(s))
      [] p = "spaceship"  -> WriteSpaceship(old, at[s], Want(s))

\* spaceship deletes the values it listed; it has no value twice, and their order does not
\* matter to it.
Deleted(s, old) == SetToSeq(Range(old) \ Range(seen[s]))

\* What the provider has once it has acted on the call that syncer s is making.
Acted(s) ==
    CASE pc[s] = "list"   -> dns
      [] pc[s] = "delete" -> [dns EXCEPT ![rec[s]] = Deleted(s, @)]
      [] pc[s] = "write"  -> [dns EXCEPT ![rec[s]] = Written(s, @)]

DeleteRecords(s) ==
    /\ pc[s] = "delete"
    /\ dns' = Acted(s)
    /\ pc' = [pc EXCEPT ![s] = "write"]
    /\ UNCHANGED <<ip, given, state, val, todo, rec, seen, at, changes, fails>>

WriteRecord(s) ==
    /\ pc[s] = "write"
    /\ dns' = Acted(s)
    /\ pc' = [pc EXCEPT ![s] = "success"]
    /\ UNCHANGED <<ip, given, state, val, todo, rec, seen, at, changes, fails>>

\* The call fails, before or after the provider has acted on it.
CallFails(s) ==
    /\ Fail
    /\ pc[s] \in {"list", "delete", "write"}
    /\ dns' \in {dns, Acted(s)}
    /\ pc' = [pc EXCEPT ![s] = "failed"]
    /\ UNCHANGED <<ip, given, state, val, todo, rec, seen, at, changes>>

\* The call never returns: the providers' http.DefaultClient has no timeout and the
\* context of a sync no deadline. Only the end of the process ends it.
Hang(s) ==
    /\ Fail
    /\ pc[s] \in {"list", "delete", "write"}
    /\ dns' \in {dns, Acted(s)}
    /\ pc' = [pc EXCEPT ![s] = "hung"]
    /\ UNCHANGED <<ip, given, state, val, todo, rec, seen, at, changes>>

-----------------------------------------------------------------------------
\* The process ends between any two steps and starts again with an empty store.
Restart ==
    /\ Fail
    /\ state' = [r \in Rec |-> NoState]
    /\ pc' = [s \in Syncer |-> "idle"]
    /\ val' = [s \in Syncer |-> [f \in Family |-> NoIP]]
    /\ todo' = [s \in Syncer |-> {}]
    /\ rec' = [s \in Syncer |-> NoRec]
    /\ seen' = [s \in Syncer |-> <<>>]
    /\ at' = [s \in Syncer |-> 0]
    /\ UNCHANGED <<ip, dns, given, changes>>

SyncStep(s) ==
    \/ \E F \in SUBSET Family : Detect(s, F)
    \/ Return(s)
    \/ \E r \in Rec : ResolveFails(s, r) \/ GetDDNSSyncState(s, r)
    \/ PutNoop(s) \/ PutSuccess(s) \/ PutFailed(s)
    \/ ListRecords(s) \/ DeleteRecords(s) \/ WriteRecord(s) \/ CallFails(s) \/ Hang(s)

Next ==
    \/ \E f \in Family, v \in IP : ChangeIP(f, v)
    \/ \E s \in Syncer : SyncStep(s)
    \/ Restart

Spec == Init /\ [][Next]_vars

\* The scheduler runs the job every five minutes and its goroutine makes progress; a call
\* that hangs leaves it no step to take.
FairSpec == Spec /\ \A s \in Syncer : WF_vars(SyncStep(s))

-----------------------------------------------------------------------------
(* Properties                                                               *)

TypeOK ==
    /\ ip \in [Family -> IP]
    /\ dns \in [Rec -> Seq(IP)] /\ given \in [Rec -> Seq(IP)]
    /\ state \in [Rec -> [value : IP \cup {NoIP},
                          status : {"none", "noop", "success", "failed"}]]
    /\ pc \in [Syncer -> {"idle", "next", "noop", "success", "failed", "list", "delete", "write",
                          "hung"}]
    /\ val \in [Syncer -> [Family -> IP \cup {NoIP}]]
    /\ todo \in [Syncer -> SUBSET Rec]
    /\ rec \in [Syncer -> Rec \cup {NoRec}]
    /\ seen \in [Syncer -> Seq(IP)] /\ at \in [Syncer -> Nat]
    /\ changes \in 0 .. MaxChanges /\ fails \in 0 .. MaxFails

\* The provider has the address v and no other, except that a host that came with several
\* values at a provider that updates in place keeps as many: v is one of them, and the
\* others are still served (existing[0] of Cloudflare.Upsert, Record[0] of AliDNS.Upsert).
Served(r, v) ==
    IF InPlace(r) /\ Len(given[r]) > 1
    THEN v \in Range(dns[r]) /\ Len(dns[r]) = Len(given[r])
    ELSE dns[r] = <<v>>

\* A record that was stored as written or unchanged is served with that value, whatever
\* values its host had before and whatever calls failed, were applied without an answer,
\* hung, or were cut off by a restart: the next sync may skip it (syncRecord;
\* TestSyncZoneStoresNoopForUnchangedRecord).
SyncedMeansServed ==
    \A r \in Rec :
      /\ state[r].status \in {"success", "noop"}
      /\ \A s \in Syncer : rec[s] # r
      => Served(r, state[r].value)

\* Once the public addresses stop changing and calls stop failing, every record ends up
\* with the public address and stays there, unless a call hangs for good: nothing but a
\* restart ends that (SyncZone on the timer, skipping or not).
DNSFollowsIP ==
    <>[](\A s \in Syncer : pc[s] # "hung")
      => \A r \in Rec : <>[]Served(r, ip[FamilyOf[r]])
=============================================================================
