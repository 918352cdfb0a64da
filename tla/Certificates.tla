---------------------------- MODULE Certificates ----------------------------
(***************************************************************************)
(* The life of a certificate: syncCertificateRequests makes sure that each *)
(* configured bundle has a certificate that is not due, saves it as two    *)
(* files, records it in the MemoryStore, loads it into the TLS store and   *)
(* deploys it; the manual actions force a renewal or deploy what is there. *)
(*                                                                         *)
(* The startup task, the timer job and the manual actions take no lock.    *)
(* An issue is a certificate with its key, named by a number; 0 is none.   *)
(* tls.LoadX509KeyPair and the lookup in GetCertificate are one step each: *)
(* what another worker does between two reads of LoadX509KeyPair makes it  *)
(* fail the same way as what it does between its own two renames.  A host  *)
(* under a wildcard domain is asked for by the wildcard's name.  A reload  *)
(* adds bundles to the configuration or removes them and prunes the store; *)
(* a bundle's domains and targets stay what they are.  All bundles are     *)
(* issued to one ACME account, and have storage names of their own (see    *)
(* ZonePlans for those that do not).                                       *)
(***************************************************************************)
EXTENDS Naturals, Sequences

CONSTANTS
    Bundle,         \* the bundles that can be configured
    Rank,           \* the place of a bundle's name in alphabetical order
    Domain,
    Wild,           \* the domains that are wildcards
    DomainsOf,      \* the domains of a bundle, in order
    Target,         \* the deploy targets, which bundles may share
    TargetsOf,      \* the deploy targets of a bundle
    TransportOf,    \* how a target is reached
    NoBundle,
    NoTarget,       \* no target is named
    Manual,         \* bound: the manual requests that can come: what is asked, for which
                    \* bundles, and the target that a deployment names
    MaxManual,      \* bound: manual renewals and deployments
    MaxDisturb      \* bound: ageing, failures, crashes and reloads

Worker == {"timer"} \cup (IF MaxManual > 0 THEN {"manual"} ELSE {})

ASSUME CertificatesAssumption ==
    /\ Wild \subseteq Domain
    /\ DomainsOf \in [Bundle -> Seq(Domain)]
    /\ \A b \in Bundle : DomainsOf[b] # <<>>
    /\ Rank \in [Bundle -> Nat]
    /\ Manual \subseteq {"force", "deploy"} \X (SUBSET Bundle) \X (Target \cup {NoTarget})
    /\ TargetsOf \in [Bundle -> SUBSET Target]
    /\ TransportOf \in [Target -> {"local", "agent", "ssh"}]
    /\ NoBundle \notin Bundle
    /\ NoTarget \notin Target
    /\ MaxManual \in Nat
    /\ MaxDisturb \in Nat

VARIABLES
    issued,             \* certificates issued so far
    due,                \* the issues that ShouldRenew
    account,            \* the ACME account's key file: "none", "ok", or "bad" once begun
    certFile, keyFile, certTmp, keyTmp,     \* the files of a bundle
    bundles,            \* MemoryStore.bundles: the issue a bundle's expiry is that of
    certs, defaultCert, \* proxytls.MemoryStore
    target,             \* the files at a target, and the status of its last DeployRun
    pc, kind, todo, cur, got, dom, key,     \* per worker: position, what it does, bundles
                        \* left, the bundle at hand, its issue, its next domain; got and key
                        \* are what DeployBundle has read
    scope,              \* per worker: the Target its request names
    runs,               \* per worker: what DeployBundle has done at each target so far
    managed,            \* the configured bundles: the zones in the MemoryStore
    pruning,            \* a reload has replaced the zones and has still to prune
    raced,              \* history: bundles that two workers, or a worker and the reload
                        \* that removed them, were at work on at once
    met,                \* history: workers at a bundle where another has been meanwhile
    doubt,              \* history: targets whose last deployment met another one there, or
                        \* took files that were torn or shared with another worker
    asked, disturb      \* manual actions and disturbances so far

authority == <<issued, due, account>>
files == <<certFile, keyFile, certTmp, keyTmp>>
tls == <<certs, defaultCert>>
deploy == <<target, runs, doubt>>
request == <<kind, todo, scope>>
hand == <<cur, got, dom, key, met>>
config == <<managed, pruning, raced>>
bounds == <<asked, disturb>>
vars == <<authority, files, bundles, tls, deploy, pc, request, hand, config, bounds>>

Nothing == [b \in Bundle |-> 0]
NoRuns == [t \in Target |-> "none"]

Init ==
    /\ issued = 0 /\ due = {} /\ account = "none"
    /\ certFile = Nothing /\ keyFile = Nothing /\ certTmp = Nothing /\ keyTmp = Nothing
    /\ bundles = Nothing
    /\ certs = [d \in Domain |-> 0] /\ defaultCert = 0
    /\ target = [t \in Target |-> [cert |-> 0, key |-> 0, status |-> "none"]]
    /\ pc = [w \in Worker |-> "idle"]
    /\ kind = [w \in Worker |-> "ensure"]
    /\ todo = [w \in Worker |-> {}]
    /\ cur = [w \in Worker |-> NoBundle]
    /\ got = [w \in Worker |-> 0]
    /\ dom = [w \in Worker |-> 1]
    /\ key = [w \in Worker |-> 0]
    /\ scope = [w \in Worker |-> NoTarget]
    /\ runs = [w \in Worker |-> NoRuns]
    /\ managed \in SUBSET Bundle /\ pruning = FALSE /\ raced = {} /\ met = {} /\ doubt = {}
    /\ asked = 0 /\ disturb = 0

Disturb == disturb < MaxDisturb /\ disturb' = disturb + 1

GoTo(w, place) == pc' = [pc EXCEPT ![w] = place]

\* On to the next request; what was collected for this one is dropped.
Done(w) ==
    /\ GoTo(w, "next")
    /\ cur' = [cur EXCEPT ![w] = NoBundle]
    /\ got' = [got EXCEPT ![w] = 0]
    /\ dom' = [dom EXCEPT ![w] = 1]
    /\ key' = [key EXCEPT ![w] = 0]
    /\ met' = met \ {w}

\* The result of tls.LoadX509KeyPair.
Missing(b) == certFile[b] = 0 \/ keyFile[b] = 0
Torn(b) == ~Missing(b) /\ certFile[b] # keyFile[b]

-----------------------------------------------------------------------------
\* Time passes: an issue comes within RenewBefore of its end.
Age(n) ==
    /\ Disturb
    /\ n \in (1 .. issued) \ due
    /\ due' = due \cup {n}
    /\ UNCHANGED <<issued, account, files, bundles, tls, deploy, pc, request, hand, config, asked>>

\* A reload with changed zones: ReplaceZones, then pruneUnmanagedBundles.
ReplaceZones(B) ==
    /\ Disturb
    /\ ~pruning
    /\ managed' = B
    /\ pruning' = TRUE
    /\ raced' = raced \cup {b \in managed \ B : \E w \in Worker : b \in todo[w] \cup {cur[w]}}
    /\ UNCHANGED <<authority, files, bundles, tls, deploy, pc, request, hand, asked>>

\* Mutant: a bundle whose certificate is not due is kept.
PruneDueOnly ==
    /\ pruning
    /\ pruning' = FALSE
    /\ bundles' = [b \in Bundle |-> IF b \in managed \/ bundles[b] \notin due
                                     THEN bundles[b] ELSE 0]
    /\ UNCHANGED <<authority, files, tls, deploy, pc, request, hand, managed, raced, bounds>>

PruneUnmanagedBundles ==
    /\ pruning
    /\ pruning' = FALSE
    /\ bundles' = [b \in Bundle |-> IF b \in managed THEN bundles[b] ELSE 0]
    /\ UNCHANGED <<authority, files, tls, deploy, pc, request, hand, managed, raced, bounds>>

\* The startup task or the timer asks for all configured bundles.
StartSync ==
    /\ pc["timer"] = "idle"
    /\ GoTo("timer", "next")
    /\ todo' = [todo EXCEPT !["timer"] = managed]
    /\ UNCHANGED <<authority, files, bundles, tls, deploy, kind, scope, hand, config, bounds>>

\* The targets a bundle goes to: the one the request names, the bundle's own or not, or else
\* all of the bundle's.
TargetNames(t, b) == IF t # NoTarget THEN {t} ELSE TargetsOf[b]

\* A manual renewal or deployment, of all bundles, a domain's or one; only a bundle that is
\* configured and that the store has can be deployed, and one without a target is skipped.
StartManual(k, B, t) ==
    /\ <<k, B, t>> \in Manual
    /\ asked < MaxManual /\ asked' = asked + 1
    /\ pc["manual"] = "idle"
    /\ B \subseteq managed
    /\ k = "deploy" => \A b \in B : bundles[b] # 0 /\ TargetNames(t, b) # {}
    /\ GoTo("manual", "next")
    /\ kind' = [kind EXCEPT !["manual"] = k]
    /\ todo' = [todo EXCEPT !["manual"] = B]
    /\ scope' = [scope EXCEPT !["manual"] = t]
    /\ UNCHANGED <<authority, files, bundles, tls, deploy, hand, config, disturb>>

Return(w) ==
    /\ pc[w] = "next"
    /\ todo[w] = {}
    /\ GoTo(w, "idle")
    /\ kind' = [kind EXCEPT ![w] = "ensure"]
    /\ scope' = [scope EXCEPT ![w] = NoTarget]
    /\ UNCHANGED <<authority, files, bundles, tls, deploy, todo, hand, config, bounds>>

\* The next request in the order of names.  A worker that is at the bundle already, and may
\* have copied one of the two files to a target, is met.
NextRequest(w, b) ==
    LET others == {v \in Worker : cur[v] = b} IN
    /\ pc[w] = "next"
    /\ b \in todo[w] /\ \A c \in todo[w] : Rank[b] <= Rank[c]
    /\ todo' = [todo EXCEPT ![w] = @ \ {b}]
    /\ cur' = [cur EXCEPT ![w] = b]
    /\ GoTo(w, CASE kind[w] = "ensure" -> "ensure"
                 [] kind[w] = "force" -> "obtain"
                 [] kind[w] = "deploy" -> "readCert")
    /\ raced' = IF others # {} THEN raced \cup {b} ELSE raced
    /\ met' = IF others # {} THEN met \cup others \cup {w} ELSE met
    /\ doubt' = doubt \cup {t \in Target : \E v \in others : runs[v][t] = "cert"}
    /\ UNCHANGED <<authority, files, bundles, tls, target, runs, kind, scope, got, dom, key,
                   managed, pruning, bounds>>

-----------------------------------------------------------------------------
(* Manager.EnsureCertificate, obtainAndSave and Filesystem.Save.            *)

\* Mutant: a certificate that is there is good enough.
EnsureCertificateIgnoresDue(w) ==
    LET b == cur[w] IN
    /\ pc[w] = "ensure"
    /\ ~Torn(b)
    /\ GoTo(w, IF Missing(b) THEN "obtain" ELSE "put")
    /\ got' = [got EXCEPT ![w] = certFile[b]]
    /\ UNCHANGED <<authority, files, bundles, tls, deploy, request, cur, dom, key, met, config,
                   bounds>>

\* Files that are there and match decide; without them a certificate is obtained.
EnsureCertificate(w) ==
    LET b == cur[w] IN
    /\ pc[w] = "ensure"
    /\ ~Torn(b)
    /\ IF Missing(b) \/ certFile[b] \in due
       THEN GoTo(w, "obtain") /\ UNCHANGED got
       ELSE GoTo(w, "put") /\ got' = [got EXCEPT ![w] = certFile[b]]
    /\ UNCHANGED <<authority, files, bundles, tls, deploy, request, cur, dom, key, met, config,
                   bounds>>

\* A pair that does not match is an error other than ErrNotExist.
EnsureFails(w) ==
    /\ pc[w] = "ensure"
    /\ Torn(cur[w])
    /\ Done(w)
    /\ UNCHANGED <<authority, files, bundles, tls, deploy, request, config, bounds>>

\* loadOrCreateUser finds no key for the account.
LoadUserMissing(w) ==
    /\ pc[w] = "obtain"
    /\ account = "none"
    /\ GoTo(w, "createUser")
    /\ UNCHANGED <<authority, files, bundles, tls, deploy, request, hand, config, bounds>>

\* A key file that is not a whole key is an error other than ErrNotExist.
LoadUserFails(w) ==
    /\ pc[w] = "obtain"
    /\ account = "bad"
    /\ Done(w)
    /\ UNCHANGED <<authority, files, bundles, tls, deploy, request, config, bounds>>

\* os.WriteFile: the key file is truncated, and then written.
CreateUser(w) ==
    /\ pc[w] = "createUser"
    /\ account' = "bad"
    /\ GoTo(w, "saveUser")
    /\ UNCHANGED <<issued, due, files, bundles, tls, deploy, request, hand, config, bounds>>

SaveUser(w) ==
    /\ pc[w] = "saveUser"
    /\ account' = "ok"
    /\ GoTo(w, "order")
    /\ UNCHANGED <<issued, due, files, bundles, tls, deploy, request, hand, config, bounds>>

\* With the key that was loaded or created.
Obtain(w) ==
    /\ pc[w] = "order" \/ (pc[w] = "obtain" /\ account = "ok")
    /\ issued' = issued + 1
    /\ got' = [got EXCEPT ![w] = issued + 1]
    /\ GoTo(w, "writeCert")
    /\ UNCHANGED <<due, account, files, bundles, tls, deploy, request, cur, dom, key, met, config,
                   bounds>>

WriteCert(w) ==
    /\ pc[w] = "writeCert"
    /\ certTmp' = [certTmp EXCEPT ![cur[w]] = got[w]]
    /\ GoTo(w, "renameCert")
    /\ UNCHANGED <<authority, certFile, keyFile, keyTmp, bundles, tls, deploy, request, hand,
                   config, bounds>>

RenameCert(w) ==
    /\ pc[w] = "renameCert"
    /\ certTmp[cur[w]] # 0
    /\ certFile' = [certFile EXCEPT ![cur[w]] = certTmp[cur[w]]]
    /\ certTmp' = [certTmp EXCEPT ![cur[w]] = 0]
    /\ GoTo(w, "writeKey")
    /\ UNCHANGED <<authority, keyFile, keyTmp, bundles, tls, deploy, request, hand, config, bounds>>

WriteKey(w) ==
    /\ pc[w] = "writeKey"
    /\ keyTmp' = [keyTmp EXCEPT ![cur[w]] = got[w]]
    /\ GoTo(w, "renameKey")
    /\ UNCHANGED <<authority, certFile, keyFile, certTmp, bundles, tls, deploy, request, hand,
                   config, bounds>>

RenameKey(w) ==
    /\ pc[w] = "renameKey"
    /\ keyTmp[cur[w]] # 0
    /\ keyFile' = [keyFile EXCEPT ![cur[w]] = keyTmp[cur[w]]]
    /\ keyTmp' = [keyTmp EXCEPT ![cur[w]] = 0]
    /\ GoTo(w, "put")
    /\ UNCHANGED <<authority, certFile, certTmp, bundles, tls, deploy, request, hand, config, bounds>>

\* Another worker has renamed the shared temporary file away.
RenameFails(w) ==
    /\ \/ pc[w] = "renameCert" /\ certTmp[cur[w]] = 0
       \/ pc[w] = "renameKey" /\ keyTmp[cur[w]] = 0
    /\ Done(w)
    /\ UNCHANGED <<authority, files, bundles, tls, deploy, request, config, bounds>>

\* The provider is unknown, the authority refuses, or the disk does; what has been written,
\* a part of the account's key too, stays.
RequestFails(w) ==
    /\ Disturb
    /\ pc[w] \in {"ensure", "obtain", "createUser", "saveUser", "order", "writeCert", "renameCert",
                  "writeKey", "renameKey"}
    /\ Done(w)
    /\ UNCHANGED <<authority, files, bundles, tls, deploy, request, config, asked>>

-----------------------------------------------------------------------------
(* The rest of syncCertificateRequests.                                     *)

PutBundle(w) ==
    /\ pc[w] = "put"
    /\ bundles' = [bundles EXCEPT ![cur[w]] = got[w]]
    /\ got' = [got EXCEPT ![w] = 0]
    /\ GoTo(w, "load")
    /\ UNCHANGED <<authority, files, tls, deploy, request, cur, dom, key, met, config, bounds>>

\* Mutant: one domain too many.
NextDomainOffByOne(w) ==
    IF dom[w] <= Len(DomainsOf[cur[w]])
    THEN GoTo(w, "load") /\ dom' = [dom EXCEPT ![w] = @ + 1] /\ got' = [got EXCEPT ![w] = 0]
         /\ UNCHANGED <<cur, key, met>>
    ELSE Done(w)

\* After the last domain the bundle is deployed.
NextDomain(w) ==
    IF dom[w] < Len(DomainsOf[cur[w]])
    THEN GoTo(w, "load") /\ dom' = [dom EXCEPT ![w] = @ + 1] /\ got' = [got EXCEPT ![w] = 0]
         /\ UNCHANGED <<cur, key, met>>
    ELSE IF TargetsOf[cur[w]] # {}
    THEN GoTo(w, "readCert") /\ dom' = [dom EXCEPT ![w] = 1] /\ got' = [got EXCEPT ![w] = 0]
         /\ UNCHANGED <<cur, key, met>>
    ELSE Done(w)

\* MemoryStore.LoadPair reads the files again.
LoadPair(w) ==
    /\ pc[w] = "load"
    /\ ~Missing(cur[w]) /\ ~Torn(cur[w])
    /\ got' = [got EXCEPT ![w] = certFile[cur[w]]]
    /\ GoTo(w, "set")
    /\ UNCHANGED <<authority, files, bundles, tls, deploy, request, cur, dom, key, met, config,
                   bounds>>

LoadPairFails(w) ==
    /\ pc[w] = "load"
    /\ Missing(cur[w]) \/ Torn(cur[w])
    /\ NextDomain(w)
    /\ UNCHANGED <<authority, files, bundles, tls, deploy, request, config, bounds>>

\* Mutant: a host that has a certificate keeps it.
SetOnce(w) ==
    LET d == DomainsOf[cur[w]][dom[w]] IN
    /\ pc[w] = "set"
    /\ certs' = IF certs[d] = 0 THEN [certs EXCEPT ![d] = got[w]] ELSE certs
    /\ defaultCert' = IF d \notin Wild /\ defaultCert = 0 THEN got[w] ELSE defaultCert
    /\ NextDomain(w)
    /\ UNCHANGED <<authority, files, bundles, deploy, request, config, bounds>>

\* MemoryStore.Set: a wildcard never becomes the default certificate.
Set(w) ==
    LET d == DomainsOf[cur[w]][dom[w]] IN
    /\ pc[w] = "set"
    /\ certs' = [certs EXCEPT ![d] = got[w]]
    /\ defaultCert' = IF d \notin Wild /\ defaultCert = 0 THEN got[w] ELSE defaultCert
    /\ NextDomain(w)
    /\ UNCHANGED <<authority, files, bundles, deploy, request, config, bounds>>

\* MemoryStore.GetCertificate; 0 is errNoCertificatesLoaded.
GetCertificate(d) == IF defaultCert # 0 /\ certs[d] # 0 THEN certs[d] ELSE defaultCert

-----------------------------------------------------------------------------
(* Service.DeployBundle: ReadBundle, then one target after the other gets   *)
(* the certificate and the key; scp reads the files itself.  The runs are   *)
(* recorded when all targets have had their turn.                           *)

ReadCert(w) ==
    /\ pc[w] = "readCert"
    /\ certFile[cur[w]] # 0
    /\ got' = [got EXCEPT ![w] = certFile[cur[w]]]
    /\ GoTo(w, "readKey")
    /\ UNCHANGED <<authority, files, bundles, tls, deploy, request, cur, dom, key, met, config,
                   bounds>>

ReadKey(w) ==
    /\ pc[w] = "readKey"
    /\ keyFile[cur[w]] # 0
    /\ key' = [key EXCEPT ![w] = keyFile[cur[w]]]
    /\ runs' = [runs EXCEPT ![w] = [t \in Target |-> IF t \in TargetNames(scope[w], cur[w])
                                                     THEN "due" ELSE "none"]]
    /\ GoTo(w, "deploy")
    /\ UNCHANGED <<authority, files, bundles, tls, target, doubt, request, cur, got, dom, met,
                   config, bounds>>

CertFor(w, t) == IF TransportOf[t] = "ssh" THEN certFile[cur[w]] ELSE got[w]
KeyFor(w, t) == IF TransportOf[t] = "ssh" THEN keyFile[cur[w]] ELSE key[w]

\* It is target t's turn.
AtTarget(w, t) ==
    /\ pc[w] = "deploy"
    /\ runs[w][t] \in {"due", "cert"}
    /\ \A u \in Target : runs[w][u] = "cert" => u = t

SetRun(w, t, outcome) == runs' = [runs EXCEPT ![w] = [@ EXCEPT ![t] = outcome]]

\* Another worker is writing at target t, or has still to record that it has.
Shared(w, t) == \E v \in Worker \ {w} : runs[v][t] \in {"cert", "success"}

DeployCert(w, t) ==
    /\ AtTarget(w, t) /\ runs[w][t] = "due"
    /\ target' = [target EXCEPT ![t].cert = CertFor(w, t)]
    /\ SetRun(w, t, "cert")
    /\ doubt' = IF w \in met \/ Torn(cur[w]) \/ Shared(w, t) THEN doubt \cup {t} ELSE doubt \ {t}
    /\ UNCHANGED <<authority, files, bundles, tls, pc, request, hand, config, bounds>>

\* The key is written and the reload command runs.
DeployKey(w, t) ==
    /\ AtTarget(w, t) /\ runs[w][t] = "cert"
    /\ target' = [target EXCEPT ![t].key = KeyFor(w, t)]
    /\ SetRun(w, t, "success")
    /\ UNCHANGED <<authority, files, bundles, tls, doubt, pc, request, hand, config, bounds>>

\* Mutant: a deployment that fails is taken for a success.
DeployFailsUnnoticed(w, t) ==
    /\ Disturb
    /\ AtTarget(w, t)
    /\ \E n \in {target[t].key} \cup (IF runs[w][t] = "cert" THEN {KeyFor(w, t)} ELSE {}) :
         target' = [target EXCEPT ![t].key = n]
    /\ SetRun(w, t, "success")
    /\ UNCHANGED <<authority, files, bundles, tls, doubt, pc, request, hand, config, asked>>

\* A write, the transport or the reload command, when the key is there, fails; the next
\* target has its turn.
DeployFails(w, t) ==
    /\ Disturb
    /\ AtTarget(w, t)
    /\ \E n \in {target[t].key} \cup (IF runs[w][t] = "cert" THEN {KeyFor(w, t)} ELSE {}) :
         target' = [target EXCEPT ![t].key = n]
    /\ SetRun(w, t, "failed")
    /\ UNCHANGED <<authority, files, bundles, tls, doubt, pc, request, hand, config, asked>>

\* A local reload command, or ssh, never returns: neither has a deadline.
DeployHangs(w, t) ==
    /\ Disturb
    /\ AtTarget(w, t) /\ runs[w][t] = "cert"
    /\ TransportOf[t] # "agent"
    /\ target' = [target EXCEPT ![t].key = KeyFor(w, t)]
    /\ GoTo(w, "stuck")
    /\ UNCHANGED <<authority, files, bundles, tls, runs, doubt, request, hand, config, asked>>

\* deployBundle: AppendDeployRun for every target.
Record(w) ==
    /\ pc[w] = "deploy"
    /\ \A t \in Target : runs[w][t] \notin {"due", "cert"}
    /\ target' = [t \in Target |-> IF runs[w][t] = "none" THEN target[t]
                                   ELSE [target[t] EXCEPT !.status = runs[w][t]]]
    /\ runs' = [runs EXCEPT ![w] = NoRuns]
    /\ Done(w)
    /\ UNCHANGED <<authority, files, bundles, tls, doubt, request, config, bounds>>

-----------------------------------------------------------------------------
\* The process ends between any two steps and starts again: the files stay.
Crash ==
    /\ Disturb
    /\ bundles' = Nothing
    /\ certs' = [d \in Domain |-> 0] /\ defaultCert' = 0
    /\ target' = [t \in Target |-> [target[t] EXCEPT !.status = "none"]]
    /\ pc' = [w \in Worker |-> "idle"]
    /\ kind' = [w \in Worker |-> "ensure"]
    /\ todo' = [w \in Worker |-> {}]
    /\ cur' = [w \in Worker |-> NoBundle]
    /\ got' = [w \in Worker |-> 0]
    /\ dom' = [w \in Worker |-> 1]
    /\ key' = [w \in Worker |-> 0]
    /\ scope' = [w \in Worker |-> NoTarget]
    /\ runs' = [w \in Worker |-> NoRuns]
    /\ pruning' = FALSE /\ raced' = {} /\ met' = {} /\ doubt' = {}
    /\ UNCHANGED <<authority, files, managed, asked>>

DeployStep(w, t) == DeployCert(w, t) \/ DeployKey(w, t) \/ DeployFails(w, t) \/ DeployHangs(w, t)

WorkerStep(w) ==
    \/ Return(w)
    \/ \E b \in Bundle : NextRequest(w, b)
    \/ EnsureCertificate(w) \/ EnsureFails(w)
    \/ LoadUserMissing(w) \/ LoadUserFails(w) \/ CreateUser(w) \/ SaveUser(w) \/ Obtain(w)
    \/ WriteCert(w) \/ RenameCert(w) \/ WriteKey(w) \/ RenameKey(w) \/ RenameFails(w)
    \/ RequestFails(w)
    \/ PutBundle(w) \/ LoadPair(w) \/ LoadPairFails(w) \/ Set(w)
    \/ ReadCert(w) \/ ReadKey(w)
    \/ \E t \in Target : DeployStep(w, t)
    \/ Record(w)

Next ==
    \/ \E n \in 1 .. issued : Age(n)
    \/ \E B \in SUBSET Bundle : ReplaceZones(B)
    \/ PruneUnmanagedBundles
    \/ StartSync
    \/ \E k \in {"force", "deploy"}, B \in SUBSET Bundle, t \in Target \cup {NoTarget} :
         StartManual(k, B, t)
    \/ \E w \in Worker : WorkerStep(w)
    \/ Crash

Spec == Init /\ [][Next]_vars

\* The timer keeps ticking and a worker that can go on does; one that is stuck cannot.
FairSpec ==
    /\ Spec
    /\ WF_vars(StartSync)
    /\ WF_vars(PruneUnmanagedBundles)
    /\ \A w \in Worker : WF_vars(WorkerStep(w))

-----------------------------------------------------------------------------
(* Properties                                                               *)

Issue == 0 .. issued

Place == {"idle", "next", "ensure", "obtain", "createUser", "saveUser", "order", "writeCert",
          "renameCert", "writeKey", "renameKey", "put", "load", "set", "readCert", "readKey",
          "deploy", "stuck"}

FilesOK ==
    /\ certFile \in [Bundle -> Issue] /\ keyFile \in [Bundle -> Issue]
    /\ certTmp \in [Bundle -> Issue] /\ keyTmp \in [Bundle -> Issue]

StoresOK ==
    /\ bundles \in [Bundle -> Issue]
    /\ certs \in [Domain -> Issue] /\ defaultCert \in Issue
    /\ target \in [Target -> [cert : Issue, key : Issue, status : {"none", "success", "failed"}]]
    /\ doubt \subseteq Target

WorkersOK ==
    /\ pc \in [Worker -> Place]
    /\ kind \in [Worker -> {"ensure", "force", "deploy"}]
    /\ todo \in [Worker -> SUBSET Bundle]
    /\ cur \in [Worker -> Bundle \cup {NoBundle}]
    /\ got \in [Worker -> Issue] /\ key \in [Worker -> Issue] /\ dom \in [Worker -> Nat]
    /\ scope \in [Worker -> Target \cup {NoTarget}]
    /\ runs \in [Worker -> [Target -> {"none", "due", "cert", "success", "failed"}]]
    /\ met \subseteq Worker
    /\ \A w \in Worker :
         /\ cur[w] = NoBundle <=> pc[w] \in {"idle", "next"}
         /\ dom[w] \in 1 .. IF cur[w] = NoBundle THEN 1 ELSE Len(DomainsOf[cur[w]])

ConfigOK == managed \subseteq Bundle /\ pruning \in BOOLEAN /\ raced \subseteq Bundle

TypeOK ==
    /\ issued \in Nat /\ due \subseteq 1 .. issued /\ account \in {"none", "bad", "ok"}
    /\ FilesOK /\ StoresOK /\ WorkersOK /\ ConfigOK
    /\ asked \in 0 .. MaxManual /\ disturb \in 0 .. MaxDisturb

\* No worker is at b, and none has met another worker there.
Untouched(b) == b \notin raced /\ \A w \in Worker : cur[w] # b

\* A target whose last deployment is recorded as a success has a certificate and a key that
\* belong together, whatever saves and deployments failed, were cut short or met others
\* before (deployBundle follows EnsureCertificate's check of the pair, and writes both files
\* again).  Nothing in the code keeps two workers from mixing a pair: excepted is a target
\* where the last deployment overlapped with another, of any bundle, took files that another
\* worker was at meanwhile, or took a stored pair that is torn, which a manual one does.
DeployedPairMatches ==
    \A t \in Target \ doubt :
      target[t].status = "success" /\ (\A w \in Worker : runs[w][t] \in {"none", "due"}) =>
        target[t].cert = target[t].key

\* No other bundle has a domain of b's, and one of them is not a wildcard.
OwnDomains(b) ==
    /\ \E i \in DOMAIN DomainsOf[b] : DomainsOf[b][i] \notin Wild
    /\ \A c \in Bundle \ {b} : \A i \in DOMAIN DomainsOf[b], j \in DOMAIN DomainsOf[c] :
         DomainsOf[b][i] # DomainsOf[c][j]

\* The certificate whose expiry the store shows for a bundle is the one clients of its
\* domains get, whatever renewals, failures and reloads went before, unless workers have
\* met there or the bundle shares a domain (PutBundle, LoadPair and GetCertificate).
ServedIsStored ==
    \A b \in Bundle : bundles[b] # 0 /\ Untouched(b) /\ OwnDomains(b) =>
      \A i \in DOMAIN DomainsOf[b] : GetCertificate(DomainsOf[b][i]) = bundles[b]

\* A bundle that a reload has removed is gone from the store for good, unless a worker was
\* at it or about to be: its PutBundle puts the bundle back until the next reload
\* (pruneUnmanagedBundles, syncCertificateRequests).
PrunedStaysOut ==
    ~pruning => \A b \in Bundle \ managed : bundles[b] # 0 => b \in raced

Fresh(b) ==
    \A i \in DOMAIN DomainsOf[b] : GetCertificate(DomainsOf[b][i]) \in (1 .. issued) \ due

\* What stops the timer's sync of bundle b for good: its two files are torn, the account's
\* key is left half written, or a deployment that never returns holds the timer's job.
Stopped(b) == Torn(b) \/ account = "bad" \/ pc["timer"] = "stuck"

\* Whatever fails, dies or overlaps, a configured bundle is in the end served with a certificate
\* that is not due, unless one of three things stops the timer's sync: torn files, a half-written
\* account key, or a deployment that hangs.
RenewedUnlessStopped == \A b \in Bundle : <>[](b \in managed => Fresh(b) \/ Stopped(b))

\* README.md: certificates are issued and renewed.  Every configured bundle is in the end served
\* with a certificate that is not due, at least when the account's key is whole and no
\* deployment hangs.
Renewed ==
    \A b \in Bundle :
      <>[](b \in managed => Fresh(b) \/ account = "bad" \/ pc["timer"] = "stuck")
=============================================================================
