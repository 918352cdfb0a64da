------------------------- MODULE CertificatesProofs -------------------------
(* Theorems about Certificates for any bundles, domains and targets.        *)
EXTENDS Certificates, SequenceTheorems, TLAPS

\* A worker at a bundle, or about to be, that is no longer configured has been seen there.
RacedInv ==
    \A w \in Worker : \A b \in todo[w] \cup {cur[w]} : b \in managed \cup raced \cup {NoBundle}

\* Two workers at one bundle have met, and a bundle where one has met another is raced.
MetInv ==
    /\ \A v, w \in Worker : v # w /\ cur[v] = cur[w] => cur[w] = NoBundle \/ w \in met
    /\ \A w \in met : cur[w] \in raced

Saving == {"writeCert", "renameCert", "writeKey", "renameKey"}
Loading == {"load", "set"}
Deploying == {"deploy", "stuck"}

\* What worker w knows of the files of bundle b as long as no other has been there.
FilesKnown(w, b) ==
    /\ pc[w] \in Saving => got[w] # 0
    /\ pc[w] = "renameCert" => certTmp[b] = got[w]
    /\ pc[w] \in {"writeKey", "renameKey"} => certFile[b] = got[w]
    /\ pc[w] = "renameKey" => keyTmp[b] = got[w]
    /\ pc[w] = "put" => got[w] # 0 /\ certFile[b] = got[w] /\ keyFile[b] = got[w]
    /\ pc[w] \in Loading => certFile[b] # 0 /\ keyFile[b] = certFile[b]
    /\ pc[w] = "set" => got[w] = certFile[b]
    /\ pc[w] \in {"readKey", "deploy", "stuck"} => certFile[b] # 0 /\ got[w] = certFile[b]
    /\ pc[w] \in Deploying => keyFile[b] # 0 /\ key[w] = keyFile[b]

FilesInv == \A w \in Worker \ met : cur[w] # NoBundle => FilesKnown(w, cur[w])

\* Only a worker that deploys has runs.
RunsInv == \A w \in Worker : pc[w] \notin Deploying => \A t \in Target : runs[w][t] = "none"

Written == {"cert", "success"}
Ahead == {"none", "due"}

\* What is known of target t: one worker at most has written there and has still to record it;
\* it has left a certificate that its bundle's key file goes with, or a pair; and a recorded
\* success is a pair.
TargetKnown(t) ==
    /\ \A v, w \in Worker : runs[v][t] \in Written /\ runs[w][t] \in Written => v = w
    /\ \A w \in Worker : runs[w][t] = "cert" =>
         /\ w \notin met
         /\ certFile[cur[w]] = keyFile[cur[w]] /\ target[t].cert = certFile[cur[w]]
    /\ \A w \in Worker : runs[w][t] = "success" => target[t].cert = target[t].key
    /\ target[t].status = "success" /\ (\A w \in Worker : runs[w][t] \in Ahead) =>
         target[t].cert = target[t].key

TargetInv == \A t \in Target \ doubt : TargetKnown(t)

\* The first n domains of b get what the store has for b.
LoadedUpTo(b, n) ==
    \A i \in DOMAIN DomainsOf[b] : i <= n =>
      /\ certs[DomainsOf[b][i]] = bundles[b]
      /\ DomainsOf[b][i] \notin Wild => defaultCert # 0

\* All domains are loaded unless the worker at the bundle is loading them one by one.
LoadedKnown(b) ==
    bundles[b] # 0 /\ OwnDomains(b) =>
      \/ LoadedUpTo(b, Len(DomainsOf[b]))
      \/ \E w \in Worker : cur[w] = b /\ pc[w] \in Loading /\ LoadedUpTo(b, dom[w] - 1)

\* And what is being loaded is what the store has.
LoadedInv ==
    /\ \A b \in Bundle \ raced : LoadedKnown(b)
    /\ \A w \in Worker : pc[w] \in Loading /\ cur[w] \notin raced =>
         bundles[cur[w]] = certFile[cur[w]]

\* Only a worker that loads is past its first domain.
DomInv == \A w \in Worker : pc[w] \notin Loading => dom[w] = 1

CertInv ==
    /\ TypeOK /\ RacedInv /\ MetInv /\ FilesInv
    /\ RunsInv /\ TargetInv /\ LoadedInv /\ DomInv /\ PrunedStaysOut

-----------------------------------------------------------------------------
(* Types.                                                                   *)

\* A bundle has one domain at least.
LEMMA DomainFacts ==
    ASSUME NEW b \in Bundle
    PROVE  /\ Len(DomainsOf[b]) \in Nat \ {0}
           /\ DOMAIN DomainsOf[b] = 1 .. Len(DomainsOf[b])
           /\ \A i \in 1 .. Len(DomainsOf[b]) : DomainsOf[b][i] \in Domain
BY CertificatesAssumption, EmptySeq, LenProperties, ElementOfSeq

\* Both kinds of run have a worker.
LEMMA WorkerFacts == "timer" \in Worker /\ (MaxManual > 0 => "manual" \in Worker)
BY DEF Worker

\* Initial types.
LEMMA TypeInit == Init => TypeOK
<1> SUFFICES ASSUME Init PROVE TypeOK
  OBVIOUS
<1>1. /\ issued \in Nat /\ due \subseteq 1 .. issued /\ 0 \in Issue
      /\ account \in {"none", "bad", "ok"}
  BY DEF Init, Issue
<1>2. FilesOK
  BY <1>1 DEF Init, Nothing, FilesOK
<1>3. StoresOK
  BY <1>1 DEF Init, Nothing, StoresOK
<1>4. WorkersOK
  <2>1. /\ pc \in [Worker -> Place]
        /\ kind \in [Worker -> {"ensure", "force", "deploy"}]
        /\ todo \in [Worker -> SUBSET Bundle]
        /\ cur \in [Worker -> Bundle \cup {NoBundle}]
        /\ got \in [Worker -> Issue] /\ key \in [Worker -> Issue] /\ dom \in [Worker -> Nat]
        /\ scope \in [Worker -> Target \cup {NoTarget}] /\ met \subseteq Worker
    BY <1>1 DEF Init, Place
  <2>2. runs \in [Worker -> [Target -> {"none", "due", "cert", "success", "failed"}]]
    BY DEF Init, NoRuns
  <2> QED
    BY <2>1, <2>2 DEF Init, WorkersOK
<1>5. ConfigOK
  BY Zenon DEF Init, ConfigOK
<1>6. asked \in 0 .. MaxManual /\ disturb \in 0 .. MaxDisturb
  BY CertificatesAssumption DEF Init
<1> QED
  BY <1>1, <1>2, <1>3, <1>4, <1>5, <1>6, Zenon DEF TypeOK

\* A worker is at a bundle except between two requests.
LEMMA AtBundle ==
    ASSUME WorkersOK, NEW w \in Worker, pc[w] \notin {"idle", "next"}
    PROVE  cur[w] \in Bundle /\ dom[w] \in 1 .. Len(DomainsOf[cur[w]])
BY DEF WorkersOK

\* What a step leaves alone keeps its type, as long as no certificate is issued.
LEMMA TypeFrame ==
    ASSUME TypeOK, issued' = issued
    PROVE  /\ 0 \in Issue /\ Issue' = Issue
           /\ UNCHANGED files => FilesOK'
           /\ UNCHANGED <<bundles, tls, target, doubt>> => StoresOK'
           /\ UNCHANGED <<pc, request, hand, runs>> => WorkersOK'
           /\ UNCHANGED config => ConfigOK'
           /\ Disturb => disturb' \in 0 .. MaxDisturb
<1>1. 0 \in Issue /\ Issue' = Issue
  BY DEF TypeOK, Issue
<1>2. UNCHANGED files => FilesOK'
  BY <1>1 DEF TypeOK, FilesOK, files
<1>3. UNCHANGED <<bundles, tls, target, doubt>> => StoresOK'
  BY <1>1 DEF TypeOK, StoresOK, tls
<1>4. UNCHANGED <<pc, request, hand, runs>> => WorkersOK'
  BY <1>1 DEF TypeOK, WorkersOK, request, hand
<1>5. UNCHANGED config => ConfigOK'
  BY DEF TypeOK, ConfigOK, config
<1>6. Disturb => disturb' \in 0 .. MaxDisturb
  BY CertificatesAssumption DEF TypeOK, Disturb
<1> QED
  BY <1>1, <1>2, <1>3, <1>4, <1>5, <1>6

\* The part of the types that deployments change.
RunsOK == runs \in [Worker -> [Target -> {"none", "due", "cert", "success", "failed"}]]

\* A worker that goes on with its bundle.
LEMMA GoOnType ==
    ASSUME TypeOK, issued' = issued, NEW w \in Worker, pc[w] \notin {"idle", "next"},
           NEW p \in Place \ {"idle", "next"}, GoTo(w, p),
           got' \in [Worker -> Issue], key' \in [Worker -> Issue],
           UNCHANGED <<request, cur, dom, met>>, RunsOK'
    PROVE  WorkersOK'
<1>1. Issue' = Issue
  BY TypeFrame
<1>2. pc' \in [Worker -> Place] /\ pc'[w] = p /\ \A v \in Worker : v # w => pc'[v] = pc[v]
  BY DEF GoTo, TypeOK, WorkersOK
<1> QED
  BY <1>1, <1>2 DEF TypeOK, WorkersOK, RunsOK, request

\* Finishing a bundle keeps the types.
LEMMA DoneType ==
    ASSUME TypeOK, issued' = issued, NEW w \in Worker, Done(w), UNCHANGED request, RunsOK'
    PROVE  WorkersOK'
<1>1. 0 \in Issue /\ Issue' = Issue
  BY TypeFrame
<1>2. /\ pc' \in [Worker -> Place]
      /\ cur' \in [Worker -> Bundle \cup {NoBundle}]
      /\ got' \in [Worker -> Issue] /\ key' \in [Worker -> Issue] /\ dom' \in [Worker -> Nat]
      /\ met' \subseteq Worker
  BY <1>1 DEF TypeOK, WorkersOK, Done, GoTo, Place
<1>3. /\ pc'[w] = "next" /\ cur'[w] = NoBundle /\ dom'[w] = 1
      /\ \A v \in Worker : v # w => pc'[v] = pc[v] /\ cur'[v] = cur[v] /\ dom'[v] = dom[v]
  BY DEF TypeOK, WorkersOK, Done, GoTo
<1>4. \A v \in Worker : /\ cur'[v] = NoBundle <=> pc'[v] \in {"idle", "next"}
                        /\ dom'[v] \in 1 .. IF cur'[v] = NoBundle THEN 1
                                             ELSE Len(DomainsOf[cur'[v]])
  <2> SUFFICES ASSUME NEW v \in Worker
               PROVE  /\ cur'[v] = NoBundle <=> pc'[v] \in {"idle", "next"}
                      /\ dom'[v] \in 1 .. IF cur'[v] = NoBundle THEN 1
                                           ELSE Len(DomainsOf[cur'[v]])
    OBVIOUS
  <2>1. CASE v = w
    BY <1>3, <2>1
  <2>2. CASE v # w
    BY <1>3, <2>2 DEF TypeOK, WorkersOK
  <2> QED
    BY <2>1, <2>2
<1> QED
  BY <1>1, <1>2, <1>4 DEF TypeOK, WorkersOK, RunsOK, request

\* What NextDomain does with a bundle that is not done.
LEMMA NextDomainCases ==
    ASSUME TypeOK, NEW w \in Worker, pc[w] \in Loading, NextDomain(w)
    PROVE  \/ Done(w) /\ dom[w] = Len(DomainsOf[cur[w]]) /\ TargetsOf[cur[w]] = {}
           \/ \E p \in {"load", "readCert"}, n \in 1 .. Len(DomainsOf[cur[w]]) :
                /\ GoTo(w, p)
                /\ p = "load" => n = dom[w] + 1
                /\ p = "readCert" => /\ n = 1
                                     /\ dom[w] = Len(DomainsOf[cur[w]])
                                     /\ TargetsOf[cur[w]] # {}
                /\ dom' = [dom EXCEPT ![w] = n]
                /\ got' = [got EXCEPT ![w] = 0]
                /\ UNCHANGED <<cur, key, met>>
<1>1. cur[w] \in Bundle /\ dom[w] \in 1 .. Len(DomainsOf[cur[w]])
  BY AtBundle DEF Loading, TypeOK
<1>2. Len(DomainsOf[cur[w]]) \in Nat \ {0}
  BY <1>1, DomainFacts
<1>3. CASE dom[w] < Len(DomainsOf[cur[w]])
  BY <1>1, <1>2, <1>3 DEF NextDomain
<1>4. CASE ~(dom[w] < Len(DomainsOf[cur[w]]))
  BY <1>1, <1>2, <1>4 DEF NextDomain
<1> QED
  BY <1>3, <1>4

\* Turning to the next domain of a bundle, or finishing it, keeps the types.
LEMMA NextDomainType ==
    ASSUME TypeOK, issued' = issued, NEW w \in Worker, pc[w] \in Loading, NextDomain(w),
           UNCHANGED <<request, runs>>
    PROVE  WorkersOK'
<1>1. cur[w] \in Bundle /\ cur[w] # NoBundle /\ Len(DomainsOf[cur[w]]) \in Nat
  BY AtBundle, DomainFacts, CertificatesAssumption DEF Loading, TypeOK
<1>2. 0 \in Issue /\ Issue' = Issue
  BY TypeFrame
<1>3. CASE Done(w)
  BY <1>3, DoneType DEF TypeOK, WorkersOK, RunsOK
<1>4. CASE ~Done(w)
  <2>1. PICK p \in {"load", "readCert"}, n \in 1 .. Len(DomainsOf[cur[w]]) :
          /\ GoTo(w, p)
          /\ dom' = [dom EXCEPT ![w] = n]
          /\ got' = [got EXCEPT ![w] = 0]
          /\ UNCHANGED <<cur, key, met>>
    BY <1>4, NextDomainCases
  <2>2. /\ pc' \in [Worker -> Place]
        /\ got' \in [Worker -> Issue] /\ key' \in [Worker -> Issue] /\ dom' \in [Worker -> Nat]
    BY <1>1, <1>2, <2>1 DEF TypeOK, WorkersOK, GoTo, Place
  <2>3. /\ pc'[w] \in {"load", "readCert"} /\ dom'[w] \in 1 .. Len(DomainsOf[cur[w]])
        /\ \A v \in Worker : v # w => pc'[v] = pc[v] /\ dom'[v] = dom[v]
    BY <2>1 DEF TypeOK, WorkersOK, GoTo
  <2> QED
    BY <1>1, <1>2, <2>1, <2>2, <2>3 DEF TypeOK, WorkersOK, request
<1> QED
  BY <1>3, <1>4

\* Every step keeps the types.
LEMMA TypeStep == TypeOK /\ [Next]_vars => TypeOK'
<1> SUFFICES ASSUME TypeOK, [Next]_vars PROVE TypeOK'
  OBVIOUS
<1> USE CertificatesAssumption DEF authority, deploy, bounds
<1>1. ASSUME NEW n \in 1 .. issued, Age(n) PROVE TypeOK'
  BY <1>1, TypeFrame DEF Age, TypeOK
<1>2. ASSUME NEW B \in SUBSET Bundle, ReplaceZones(B) PROVE TypeOK'
  <2>1. raced' \subseteq Bundle
    BY <1>2 DEF ReplaceZones, TypeOK, ConfigOK
  <2>2. ConfigOK'
    BY <1>2, <2>1, Zenon DEF ReplaceZones, ConfigOK
  <2> QED
    BY <1>2, <2>2, TypeFrame DEF ReplaceZones, TypeOK
<1>3. ASSUME PruneUnmanagedBundles PROVE TypeOK'
  <2>1. ConfigOK'
    BY <1>3, Zenon DEF PruneUnmanagedBundles, TypeOK, ConfigOK
  <2>2. StoresOK'
    BY <1>3, TypeFrame DEF PruneUnmanagedBundles, TypeOK, StoresOK, tls
  <2> QED
    BY <1>3, <2>1, <2>2, TypeFrame DEF PruneUnmanagedBundles, TypeOK
<1>4. ASSUME StartSync PROVE TypeOK'
  <2>1. WorkersOK'
    BY <1>4, TypeFrame, WorkerFacts DEF StartSync, TypeOK, WorkersOK, ConfigOK, GoTo, Place, hand
  <2> QED
    BY <1>4, <2>1, TypeFrame DEF StartSync, TypeOK
<1>5. ASSUME NEW k \in {"force", "deploy"}, NEW B \in SUBSET Bundle,
             NEW t \in Target \cup {NoTarget}, StartManual(k, B, t)
      PROVE  TypeOK'
  <2>1. asked' \in 0 .. MaxManual /\ "manual" \in Worker
    BY <1>5, WorkerFacts DEF StartManual, TypeOK
  <2>2. WorkersOK'
    BY <1>5, <2>1, TypeFrame DEF StartManual, TypeOK, WorkersOK, GoTo, Place, hand
  <2> QED
    BY <1>5, <2>1, <2>2, TypeFrame DEF StartManual, TypeOK
<1>6. ASSUME NEW w \in Worker, Return(w) PROVE TypeOK'
  <2>1. WorkersOK'
    BY <1>6, TypeFrame DEF Return, TypeOK, WorkersOK, GoTo, Place, hand
  <2> QED
    BY <1>6, <2>1, TypeFrame DEF Return, TypeOK
<1>7. ASSUME NEW w \in Worker, NEW b \in Bundle, NextRequest(w, b) PROVE TypeOK'
  <2>1. PICK p \in {"ensure", "obtain", "readCert"} : GoTo(w, p)
    BY <1>7 DEF NextRequest, TypeOK, WorkersOK
  <2>2. cur[w] = NoBundle /\ dom[w] = 1 /\ Len(DomainsOf[b]) \in Nat \ {0} /\ b # NoBundle
    BY <1>7, DomainFacts DEF NextRequest, TypeOK, WorkersOK
  <2>3. /\ pc' \in [Worker -> Place]
        /\ todo' \in [Worker -> SUBSET Bundle]
        /\ cur' \in [Worker -> Bundle \cup {NoBundle}]
        /\ met' \subseteq Worker
    BY <1>7, <2>1 DEF NextRequest, TypeOK, WorkersOK, GoTo, Place
  <2>4. /\ pc'[w] \in {"ensure", "obtain", "readCert"} /\ cur'[w] = b
        /\ \A v \in Worker : v # w => pc'[v] = pc[v] /\ cur'[v] = cur[v]
    BY <1>7, <2>1 DEF NextRequest, TypeOK, WorkersOK, GoTo
  <2>5. WorkersOK'
    BY <1>7, <2>2, <2>3, <2>4, TypeFrame DEF NextRequest, TypeOK, WorkersOK
  <2>6. ConfigOK'
    BY <1>7 DEF NextRequest, TypeOK, ConfigOK
  <2>7. StoresOK'
    BY <1>7, TypeFrame DEF NextRequest, TypeOK, StoresOK, tls
  <2> QED
    BY <1>7, <2>5, <2>6, <2>7, TypeFrame DEF NextRequest, TypeOK
<1>8. ASSUME NEW w \in Worker,
             EnsureFails(w) \/ LoadUserFails(w) \/ RenameFails(w) \/ RequestFails(w)
      PROVE  TypeOK'
  <2>1. Done(w) /\ UNCHANGED <<authority, files, bundles, tls, deploy, request, config, asked>>
    BY <1>8 DEF EnsureFails, LoadUserFails, RenameFails, RequestFails
  <2>2. disturb' \in 0 .. MaxDisturb
    BY <1>8, <2>1, TypeFrame DEF EnsureFails, LoadUserFails, RenameFails, RequestFails, TypeOK
  <2>3. WorkersOK'
    BY <2>1, DoneType DEF TypeOK, WorkersOK, RunsOK
  <2> QED
    BY <2>1, <2>2, <2>3, TypeFrame DEF TypeOK
<1>9. ASSUME NEW w \in Worker,
             EnsureCertificate(w) \/ LoadUserMissing(w) \/ CreateUser(w) \/ SaveUser(w)
      PROVE  TypeOK'
  <2>1. cur[w] \in Bundle /\ pc[w] \notin {"idle", "next"}
    BY <1>9, AtBundle DEF EnsureCertificate, LoadUserMissing, CreateUser, SaveUser, TypeOK
  <2>2. PICK p \in {"obtain", "put", "createUser", "saveUser", "order"} : GoTo(w, p)
    BY <1>9 DEF EnsureCertificate, LoadUserMissing, CreateUser, SaveUser
  <2>3. /\ got' \in [Worker -> Issue] /\ key' \in [Worker -> Issue]
        /\ account' \in {"none", "bad", "ok"} /\ RunsOK'
        /\ UNCHANGED <<issued, due, files, bundles, tls, deploy, request, cur, dom, met, config,
                       bounds>>
    <3>1. UNCHANGED <<issued, due, files, bundles, tls, deploy, request, cur, dom, key, met, config,
                      bounds>>
      BY <1>9 DEF EnsureCertificate, LoadUserMissing, CreateUser, SaveUser, hand
    <3>2. account' \in {"none", "bad", "ok"}
      BY <1>9 DEF EnsureCertificate, LoadUserMissing, CreateUser, SaveUser, TypeOK
    <3>3. certFile[cur[w]] \in Issue
      BY <2>1 DEF TypeOK, FilesOK
    <3>4. got' = got \/ got' = [got EXCEPT ![w] = certFile[cur[w]]]
      BY <1>9 DEF EnsureCertificate, LoadUserMissing, CreateUser, SaveUser, hand
    <3>5. got' \in [Worker -> Issue]
      BY <3>3, <3>4 DEF TypeOK, WorkersOK
    <3> QED
      BY <3>1, <3>2, <3>5 DEF TypeOK, WorkersOK, RunsOK
  <2>4. WorkersOK'
    BY <2>1, <2>2, <2>3, GoOnType DEF Place
  <2> QED
    BY <2>3, <2>4, TypeFrame DEF TypeOK
<1>10. ASSUME NEW w \in Worker, Obtain(w) PROVE TypeOK'
  <2>1. /\ issued' \in Nat /\ due' \subseteq 1 .. issued' /\ account' = account
        /\ issued + 1 \in Issue' /\ Issue \subseteq Issue'
    BY <1>10 DEF Obtain, TypeOK, Issue
  <2>2. FilesOK'
    BY <1>10, <2>1 DEF Obtain, TypeOK, FilesOK, files
  <2>3. StoresOK'
    BY <1>10, <2>1 DEF Obtain, TypeOK, StoresOK, tls
  <2>4. WorkersOK'
    <3>1. pc' \in [Worker -> Place] /\ got' \in [Worker -> Issue'] /\ key' \in [Worker -> Issue']
      BY <1>10, <2>1 DEF Obtain, TypeOK, WorkersOK, GoTo, Place
    <3>2. \A v \in Worker : cur[v] = NoBundle <=> pc'[v] \in {"idle", "next"}
      BY <1>10 DEF Obtain, TypeOK, WorkersOK, GoTo
    <3> QED
      BY <1>10, <3>1, <3>2 DEF Obtain, TypeOK, WorkersOK, request
  <2>5. ConfigOK'
    BY <1>10 DEF Obtain, TypeOK, ConfigOK, config
  <2> QED
    BY <1>10, <2>1, <2>2, <2>3, <2>4, <2>5 DEF Obtain, TypeOK
<1>11. ASSUME NEW w \in Worker, WriteCert(w) \/ RenameCert(w) \/ WriteKey(w) \/ RenameKey(w)
       PROVE  TypeOK'
  <2>1. cur[w] \in Bundle /\ pc[w] \notin {"idle", "next"}
    BY <1>11, AtBundle DEF WriteCert, RenameCert, WriteKey, RenameKey, TypeOK
  <2>2. PICK p \in {"renameCert", "writeKey", "renameKey", "put"} : GoTo(w, p)
    BY <1>11 DEF WriteCert, RenameCert, WriteKey, RenameKey
  <2>3. /\ got' \in [Worker -> Issue] /\ key' \in [Worker -> Issue] /\ RunsOK'
        /\ UNCHANGED <<authority, bundles, tls, deploy, request, cur, dom, met, config, bounds>>
    BY <1>11 DEF WriteCert, RenameCert, WriteKey, RenameKey, TypeOK, WorkersOK, RunsOK, hand
  <2>4. WorkersOK'
    BY <2>1, <2>2, <2>3, GoOnType DEF Place
  <2>5. got[w] \in Issue /\ certTmp[cur[w]] \in Issue /\ keyTmp[cur[w]] \in Issue /\ 0 \in Issue
    BY <2>1, <2>3, TypeFrame DEF TypeOK, WorkersOK, FilesOK
  <2>6. FilesOK'
    <3>1. Issue' = Issue
      BY <2>3, TypeFrame
    <3>2. CASE WriteCert(w)
      BY <2>5, <3>1, <3>2 DEF WriteCert, TypeOK, FilesOK
    <3>3. CASE RenameCert(w)
      BY <2>5, <3>1, <3>3 DEF RenameCert, TypeOK, FilesOK
    <3>4. CASE WriteKey(w)
      BY <2>5, <3>1, <3>4 DEF WriteKey, TypeOK, FilesOK
    <3>5. CASE RenameKey(w)
      BY <2>5, <3>1, <3>5 DEF RenameKey, TypeOK, FilesOK
    <3> QED
      BY <1>11, <3>2, <3>3, <3>4, <3>5
  <2> QED
    BY <2>3, <2>4, <2>6, TypeFrame DEF TypeOK
<1>12. ASSUME NEW w \in Worker, PutBundle(w) \/ LoadPair(w) PROVE TypeOK'
  <2>1. cur[w] \in Bundle /\ pc[w] \notin {"idle", "next"}
    BY <1>12, AtBundle DEF PutBundle, LoadPair, TypeOK
  <2>2. PICK p \in {"load", "set"} : GoTo(w, p)
    BY <1>12 DEF PutBundle, LoadPair
  <2>3. UNCHANGED <<authority, files, tls, deploy, request, cur, dom, key, met, config, bounds>>
    BY <1>12 DEF PutBundle, LoadPair
  <2>4. got[w] \in Issue /\ certFile[cur[w]] \in Issue /\ 0 \in Issue
    BY <2>1, <2>3, TypeFrame DEF TypeOK, WorkersOK, FilesOK
  <2>5. got' \in [Worker -> Issue] /\ key' \in [Worker -> Issue] /\ RunsOK'
    <3>1. PICK m \in Issue : got' = [got EXCEPT ![w] = m]
      BY <1>12, <2>4 DEF PutBundle, LoadPair
    <3>2. got' \in [Worker -> Issue]
      BY <3>1 DEF TypeOK, WorkersOK
    <3> QED
      BY <2>3, <3>2 DEF TypeOK, WorkersOK, RunsOK
  <2>6. WorkersOK'
    BY <2>1, <2>2, <2>3, <2>5, GoOnType DEF Place
  <2>7. bundles' \in [Bundle -> Issue]
    BY <1>12, <2>4 DEF PutBundle, LoadPair, TypeOK, StoresOK
  <2>8. StoresOK'
    BY <2>3, <2>7, TypeFrame DEF TypeOK, StoresOK, tls
  <2> QED
    BY <2>3, <2>6, <2>8, TypeFrame DEF TypeOK
<1>13. ASSUME NEW w \in Worker, LoadPairFails(w) \/ Set(w) PROVE TypeOK'
  <2>1. pc[w] \in Loading /\ NextDomain(w)
    BY <1>13 DEF LoadPairFails, Set, Loading
  <2>2. UNCHANGED <<authority, files, bundles, deploy, request, config, bounds>>
    BY <1>13 DEF LoadPairFails, Set
  <2>3. WorkersOK'
    BY <2>1, <2>2, NextDomainType
  <2>4. got[w] \in Issue
    BY DEF TypeOK, WorkersOK
  <2>5. certs' \in [Domain -> Issue] /\ defaultCert' \in Issue
    BY <1>13, <2>4 DEF LoadPairFails, Set, TypeOK, StoresOK, tls
  <2>6. StoresOK'
    BY <2>2, <2>5, TypeFrame DEF TypeOK, StoresOK
  <2> QED
    BY <2>2, <2>3, <2>6, TypeFrame DEF TypeOK
<1>14. ASSUME NEW w \in Worker, ReadCert(w) \/ ReadKey(w) PROVE TypeOK'
  <2>1. cur[w] \in Bundle /\ pc[w] \notin {"idle", "next"}
    BY <1>14, AtBundle DEF ReadCert, ReadKey, TypeOK
  <2>2. PICK p \in {"readKey", "deploy"} : GoTo(w, p)
    BY <1>14 DEF ReadCert, ReadKey
  <2>3. UNCHANGED <<authority, files, bundles, tls, target, doubt, request, cur, dom, met, config,
                    bounds>>
    BY <1>14 DEF ReadCert, ReadKey
  <2>4. certFile[cur[w]] \in Issue /\ keyFile[cur[w]] \in Issue
    BY <2>1 DEF TypeOK, FilesOK
  <2>5. got' \in [Worker -> Issue] /\ key' \in [Worker -> Issue]
    BY <1>14, <2>4 DEF ReadCert, ReadKey, TypeOK, WorkersOK
  <2>6. RunsOK'
    <3>1. CASE ReadCert(w)
      BY <3>1 DEF ReadCert, TypeOK, WorkersOK, RunsOK
    <3>2. CASE ReadKey(w)
      BY <3>2 DEF ReadKey, TypeOK, WorkersOK, RunsOK
    <3> QED
      BY <1>14, <3>1, <3>2
  <2>7. WorkersOK'
    BY <2>1, <2>2, <2>3, <2>5, <2>6, GoOnType DEF Place
  <2> QED
    BY <2>3, <2>7, TypeFrame DEF TypeOK
<1>15. ASSUME NEW w \in Worker, NEW t \in Target, DeployStep(w, t) PROVE TypeOK'
  <2>1. pc[w] = "deploy" /\ cur[w] \in Bundle
    BY <1>15, AtBundle DEF DeployStep, DeployCert, DeployKey, DeployFails, DeployHangs, AtTarget,
                           TypeOK
  <2>2. CertFor(w, t) \in Issue /\ KeyFor(w, t) \in Issue
    BY <2>1 DEF CertFor, KeyFor, TypeOK, FilesOK, WorkersOK
  <2>3. UNCHANGED <<authority, files, bundles, tls, request, hand, config, asked>>
    BY <1>15 DEF DeployStep, DeployCert, DeployKey, DeployFails, DeployHangs
  <2>4. target[t] \in [cert : Issue, key : Issue, status : {"none", "success", "failed"}]
    BY DEF TypeOK, StoresOK
  <2>5. /\ doubt' \subseteq Target
        /\ \/ \E n \in Issue : target' = [target EXCEPT ![t].cert = n]
           \/ \E n \in Issue : target' = [target EXCEPT ![t].key = n]
    <3>1. CASE DeployCert(w, t)
      BY <2>2, <3>1 DEF DeployCert, TypeOK, StoresOK
    <3>2. CASE DeployKey(w, t)
      BY <2>2, <3>2 DEF DeployKey, TypeOK, StoresOK
    <3>3. CASE DeployFails(w, t)
      BY <2>2, <2>4, <3>3 DEF DeployFails, TypeOK, StoresOK
    <3>4. CASE DeployHangs(w, t)
      BY <2>2, <3>4 DEF DeployHangs, TypeOK, StoresOK
    <3> QED
      BY <1>15, <3>1, <3>2, <3>3, <3>4 DEF DeployStep
  <2>6. StoresOK'
    <3>1. target' \in [Target -> [cert : Issue, key : Issue,
                                  status : {"none", "success", "failed"}]]
      <4> DEFINE Stat == [cert : Issue, key : Issue, status : {"none", "success", "failed"}]
      <4>1. PICK n \in Issue : \/ target' = [target EXCEPT ![t] = [target[t] EXCEPT !.cert = n]]
                              \/ target' = [target EXCEPT ![t] = [target[t] EXCEPT !.key = n]]
        BY <2>5
      <4>2. [target[t] EXCEPT !.cert = n] \in Stat /\ [target[t] EXCEPT !.key = n] \in Stat
        BY <2>4
      <4>3. target \in [Target -> Stat]
        BY DEF TypeOK, StoresOK
      <4> HIDE DEF Stat
      <4>4. target' \in [Target -> Stat]
        BY <4>1, <4>2, <4>3
      <4> QED
        BY <4>4 DEF Stat
    <3> QED
      BY <2>3, <2>5, <3>1, TypeFrame DEF TypeOK, StoresOK, tls
  <2>7. RunsOK'
    <3>1. \/ runs' = runs
          \/ \E o \in {"cert", "success", "failed"} : SetRun(w, t, o)
      BY <1>15 DEF DeployStep, DeployCert, DeployKey, DeployFails, DeployHangs
    <3>2. ASSUME NEW o \in {"cert", "success", "failed"}, SetRun(w, t, o) PROVE RunsOK'
      <4> DEFINE Row == [Target -> {"none", "due", "cert", "success", "failed"}]
      <4>1. runs \in [Worker -> Row] /\ runs[w] \in Row
        BY DEF TypeOK, WorkersOK
      <4>2. [runs[w] EXCEPT ![t] = o] \in Row
        BY <4>1
      <4>3. runs' = [runs EXCEPT ![w] = [runs[w] EXCEPT ![t] = o]]
        BY <3>2 DEF SetRun
      <4> HIDE DEF Row
      <4>4. runs' \in [Worker -> Row]
        BY <4>1, <4>2, <4>3
      <4> QED
        BY <4>4 DEF Row, RunsOK
    <3>3. runs' = runs => RunsOK'
      BY DEF RunsOK, TypeOK, WorkersOK
    <3> QED
      BY <3>1, <3>2, <3>3
  <2>8. PICK p \in {"deploy", "stuck"} : GoTo(w, p)
    <3>1. pc' = pc => GoTo(w, "deploy")
      BY <2>1 DEF GoTo, TypeOK, WorkersOK
    <3> QED
      BY <1>15, <3>1 DEF DeployStep, DeployCert, DeployKey, DeployFails, DeployHangs
  <2>9. WorkersOK'
    <3>1. got' \in [Worker -> Issue] /\ key' \in [Worker -> Issue] /\ UNCHANGED <<cur, dom, met>>
      BY <2>3 DEF hand, TypeOK, WorkersOK
    <3> QED
      BY <2>1, <2>3, <2>7, <2>8, <3>1, GoOnType DEF Place
  <2>10. disturb' \in 0 .. MaxDisturb
    BY <1>15, <2>3, TypeFrame
       DEF DeployStep, DeployCert, DeployKey, DeployFails, DeployHangs, TypeOK
  <2> QED
    BY <2>3, <2>6, <2>9, <2>10, TypeFrame DEF TypeOK
<1>16. ASSUME NEW w \in Worker, Record(w) PROVE TypeOK'
  <2>1. /\ Done(w) /\ UNCHANGED <<authority, files, bundles, tls, doubt, request, config, bounds>>
        /\ runs' = [runs EXCEPT ![w] = NoRuns]
    BY <1>16 DEF Record
  <2>2. target' \in [Target -> [cert : Issue, key : Issue, status : {"none", "success", "failed"}]]
    <3> SUFFICES ASSUME NEW t \in Target
                 PROVE  target'[t] \in [cert : Issue, key : Issue,
                                        status : {"none", "success", "failed"}]
      BY <1>16 DEF Record
    <3>1. target[t] \in [cert : Issue, key : Issue, status : {"none", "success", "failed"}]
      BY DEF TypeOK, StoresOK
    <3>2. runs[w][t] \in {"none", "success", "failed"}
      BY <1>16 DEF Record, TypeOK, WorkersOK
    <3> QED
      BY <1>16, <3>1, <3>2 DEF Record
  <2>3. StoresOK'
    BY <2>1, <2>2, TypeFrame DEF TypeOK, StoresOK, tls
  <2>4. RunsOK'
    BY <2>1 DEF RunsOK, NoRuns, TypeOK, WorkersOK
  <2>5. WorkersOK'
    BY <2>1, <2>4, DoneType
  <2> QED
    BY <2>1, <2>3, <2>5, TypeFrame DEF TypeOK
<1>17. ASSUME Crash PROVE TypeOK'
  <2>1. 0 \in Issue /\ Issue' = Issue /\ disturb' \in 0 .. MaxDisturb
    BY <1>17, TypeFrame DEF Crash
  <2>2. StoresOK'
    BY <1>17, <2>1 DEF Crash, Nothing, TypeOK, StoresOK
  <2>3. WorkersOK'
    <3>1. RunsOK'
      BY <1>17 DEF Crash, NoRuns, RunsOK
    <3> QED
      BY <1>17, <2>1, <3>1 DEF Crash, WorkersOK, Place, RunsOK
  <2>4. ConfigOK'
    BY <1>17, Zenon DEF Crash, TypeOK, ConfigOK
  <2> QED
    BY <1>17, <2>1, <2>2, <2>3, <2>4, TypeFrame DEF Crash, TypeOK
<1>18. CASE UNCHANGED vars
  BY <1>18, TypeFrame DEF vars, TypeOK
<1> QED
  BY <1>1, <1>2, <1>3, <1>4, <1>5, <1>6, <1>7, <1>8, <1>9, <1>10, <1>11, <1>12, <1>13, <1>14,
     <1>15, <1>16, <1>17, <1>18 DEF Next, WorkerStep

\* The files, stores and positions of the certificate workers keep their types; a worker has
\* a bundle, and a domain of it, exactly while it handles a request (syncCertificateRequests).
THEOREM TypeCorrect == Spec => []TypeOK
BY TypeInit, TypeStep, PTL DEF Spec

-----------------------------------------------------------------------------
(* The step of a worker at its bundle, and what it leaves alone.            *)

BundleStep(w) ==
    \/ EnsureCertificate(w) \/ EnsureFails(w)
    \/ LoadUserMissing(w) \/ LoadUserFails(w) \/ CreateUser(w) \/ SaveUser(w) \/ Obtain(w)
    \/ WriteCert(w) \/ RenameCert(w) \/ WriteKey(w) \/ RenameKey(w) \/ RenameFails(w)
    \/ RequestFails(w)
    \/ PutBundle(w) \/ LoadPair(w) \/ LoadPairFails(w) \/ Set(w)
    \/ ReadCert(w) \/ ReadKey(w)

DeployAction(w) == (\E t \in Target : DeployStep(w, t)) \/ Record(w)

\* The other workers stay where they are; this one stays at its bundle or is done with it.
OthersStay(w) ==
    /\ \A v \in Worker : v # w =>
         /\ pc'[v] = pc[v] /\ cur'[v] = cur[v] /\ got'[v] = got[v]
         /\ dom'[v] = dom[v] /\ key'[v] = key[v] /\ runs'[v] = runs[v]
         /\ v \in met' <=> v \in met
    /\ \/ cur'[w] = cur[w] /\ (w \in met' <=> w \in met)
       \/ cur'[w] = NoBundle /\ pc'[w] = "next" /\ dom'[w] = 1 /\ w \notin met'

\* The files and the store entry of another bundle.
SameBundle(b) ==
    /\ certFile'[b] = certFile[b] /\ keyFile'[b] = keyFile[b]
    /\ certTmp'[b] = certTmp[b] /\ keyTmp'[b] = keyTmp[b]
    /\ bundles'[b] = bundles[b]

\* At most the domain the worker is at gets another certificate.
SameCerts(w) ==
    /\ \A d \in Domain : d # DomainsOf[cur[w]][dom[w]] => certs'[d] = certs[d]
    /\ defaultCert # 0 => defaultCert' # 0

\* Finishing a bundle leaves the other workers alone.
LEMMA DoneStays ==
    ASSUME TypeOK, NEW w \in Worker, Done(w), \A v \in Worker : v # w => runs'[v] = runs[v]
    PROVE  OthersStay(w)
BY DEF TypeOK, WorkersOK, Done, GoTo, OthersStay

\* So does going on with it.
LEMMA GoOnStays ==
    ASSUME TypeOK, NEW w \in Worker, NEW p, GoTo(w, p), UNCHANGED <<cur, met, dom>>,
           NEW n, NEW m, got' = got \/ got' = [got EXCEPT ![w] = n],
           key' = key \/ key' = [key EXCEPT ![w] = m],
           \A v \in Worker : v # w => runs'[v] = runs[v]
    PROVE  OthersStay(w)
BY DEF TypeOK, WorkersOK, GoTo, OthersStay

\* And turning to the next domain.
LEMMA NextDomainStays ==
    ASSUME TypeOK, NEW w \in Worker, pc[w] \in Loading, NextDomain(w), UNCHANGED runs
    PROVE  OthersStay(w)
<1>1. CASE Done(w)
  BY <1>1, DoneStays
<1>2. CASE ~Done(w)
  <2>1. PICK p \in {"load", "readCert"}, n \in 1 .. Len(DomainsOf[cur[w]]) :
          /\ GoTo(w, p)
          /\ dom' = [dom EXCEPT ![w] = n]
          /\ got' = [got EXCEPT ![w] = 0]
          /\ UNCHANGED <<cur, key, met>>
    BY <1>2, NextDomainCases
  <2> QED
    BY <2>1 DEF TypeOK, WorkersOK, GoTo, OthersStay
<1> QED
  BY <1>1, <1>2

\* A step on a bundle leaves the other workers and the other bundles alone.
LEMMA BundleStepFrame ==
    ASSUME TypeOK, NEW w \in Worker, BundleStep(w)
    PROVE  /\ cur[w] \in Bundle /\ dom[w] \in 1 .. Len(DomainsOf[cur[w]])
           /\ pc[w] \notin Deploying
           /\ OthersStay(w)
           /\ \A b \in Bundle : b # cur[w] => SameBundle(b)
           /\ SameCerts(w)
           /\ UNCHANGED <<request, config, target, doubt>>
<1> USE DEF files, tls, bounds, deploy, authority
<1>1. /\ cur[w] \in Bundle /\ dom[w] \in 1 .. Len(DomainsOf[cur[w]])
      /\ pc[w] \notin Deploying
  <2>1. pc[w] \notin {"idle", "next", "deploy", "stuck"}
    BY DEF BundleStep, EnsureCertificate, EnsureFails, LoadUserMissing, LoadUserFails, CreateUser,
           SaveUser, Obtain, WriteCert, RenameCert, WriteKey, RenameKey, RenameFails, RequestFails,
           PutBundle, LoadPair, LoadPairFails, Set, ReadCert, ReadKey
  <2> QED
    BY <2>1, AtBundle DEF TypeOK, Deploying
<1>2. UNCHANGED <<request, config, target, doubt>>
  BY DEF BundleStep, EnsureCertificate, EnsureFails, LoadUserMissing, LoadUserFails, CreateUser,
         SaveUser, Obtain, WriteCert, RenameCert, WriteKey, RenameKey, RenameFails, RequestFails,
         PutBundle, LoadPair, LoadPairFails, Set, ReadCert, ReadKey
<1>3. CASE EnsureCertificate(w) \/ LoadUserMissing(w) \/ CreateUser(w) \/ SaveUser(w) \/ Obtain(w)
  <2>1. UNCHANGED <<files, bundles, tls, runs, cur, met, dom, key>>
    BY <1>3 DEF EnsureCertificate, LoadUserMissing, CreateUser, SaveUser, Obtain, hand
  <2>2. \E p : GoTo(w, p)
    BY <1>3 DEF EnsureCertificate, LoadUserMissing, CreateUser, SaveUser, Obtain
  <2>3. \E n : got' = got \/ got' = [got EXCEPT ![w] = n]
    BY <1>3 DEF EnsureCertificate, LoadUserMissing, CreateUser, SaveUser, Obtain, hand
  <2> QED
    BY <1>1, <1>2, <2>1, <2>2, <2>3, GoOnStays DEF SameBundle, SameCerts
<1>4. CASE EnsureFails(w) \/ LoadUserFails(w) \/ RenameFails(w) \/ RequestFails(w)
  BY <1>1, <1>2, <1>4, DoneStays
     DEF EnsureFails, LoadUserFails, RenameFails, RequestFails, SameBundle, SameCerts
<1>5. CASE WriteCert(w) \/ RenameCert(w) \/ WriteKey(w) \/ RenameKey(w)
  <2>1. UNCHANGED <<bundles, tls, runs, cur, met, dom, key, got>>
    BY <1>5 DEF WriteCert, RenameCert, WriteKey, RenameKey, hand
  <2>2. \E p : GoTo(w, p)
    BY <1>5 DEF WriteCert, RenameCert, WriteKey, RenameKey
  <2>3. \A b \in Bundle : b # cur[w] => SameBundle(b)
    <3>1. CASE WriteCert(w)
      BY <1>1, <2>1, <3>1 DEF WriteCert, TypeOK, FilesOK, SameBundle
    <3>2. CASE RenameCert(w)
      BY <1>1, <2>1, <3>2 DEF RenameCert, TypeOK, FilesOK, SameBundle
    <3>3. CASE WriteKey(w)
      BY <1>1, <2>1, <3>3 DEF WriteKey, TypeOK, FilesOK, SameBundle
    <3>4. CASE RenameKey(w)
      BY <1>1, <2>1, <3>4 DEF RenameKey, TypeOK, FilesOK, SameBundle
    <3> QED
      BY <1>5, <3>1, <3>2, <3>3, <3>4
  <2> QED
    BY <1>1, <1>2, <2>1, <2>2, <2>3, GoOnStays DEF SameCerts
<1>6. CASE PutBundle(w) \/ LoadPair(w)
  <2>1. UNCHANGED <<files, tls, runs, cur, met, dom, key>>
    BY <1>6 DEF PutBundle, LoadPair
  <2>2. \E p : GoTo(w, p)
    BY <1>6 DEF PutBundle, LoadPair
  <2>3. \E n : got' = got \/ got' = [got EXCEPT ![w] = n]
    BY <1>6 DEF PutBundle, LoadPair
  <2>4. \A b \in Bundle : b # cur[w] => SameBundle(b)
    BY <1>1, <1>6, <2>1 DEF PutBundle, LoadPair, TypeOK, StoresOK, SameBundle
  <2> QED
    BY <1>1, <1>2, <2>1, <2>2, <2>3, <2>4, GoOnStays DEF SameCerts
<1>7. CASE LoadPairFails(w) \/ Set(w)
  <2>1. OthersStay(w)
    BY <1>7, NextDomainStays DEF LoadPairFails, Set, Loading
  <2>2. \A b \in Bundle : SameBundle(b)
    BY <1>7 DEF LoadPairFails, Set, SameBundle
  <2>3. SameCerts(w)
    BY <1>7 DEF LoadPairFails, Set, SameCerts, TypeOK, StoresOK
  <2> QED
    BY <1>1, <1>2, <2>1, <2>2, <2>3
<1>8. CASE ReadCert(w) \/ ReadKey(w)
  <2>1. UNCHANGED <<files, bundles, tls, cur, met, dom>>
    BY <1>8 DEF ReadCert, ReadKey
  <2>2. \E p : GoTo(w, p)
    BY <1>8 DEF ReadCert, ReadKey
  <2>3. (\E n : got' = got \/ got' = [got EXCEPT ![w] = n])
        /\ (\E n : key' = key \/ key' = [key EXCEPT ![w] = n])
    BY <1>8 DEF ReadCert, ReadKey
  <2>4. \A v \in Worker : v # w => runs'[v] = runs[v]
    BY <1>8 DEF ReadCert, ReadKey, TypeOK, WorkersOK
  <2> QED
    BY <1>1, <1>2, <2>1, <2>2, <2>3, <2>4, GoOnStays DEF SameBundle, SameCerts
<1> QED
  BY <1>3, <1>4, <1>5, <1>6, <1>7, <1>8 DEF BundleStep

\* A deployment leaves the files and the stores alone, and the other workers.
LEMMA DeployFrame ==
    ASSUME TypeOK, NEW w \in Worker, DeployAction(w)
    PROVE  /\ cur[w] \in Bundle /\ pc[w] = "deploy"
           /\ OthersStay(w)
           /\ UNCHANGED <<files, bundles, tls, request, config>>
           /\ cur'[w] = cur[w] => /\ pc'[w] \in Deploying
                                 /\ UNCHANGED <<got, key, cur, dom, met>>
<1> USE DEF bounds, authority
<1>1. CASE Record(w)
  <2>1. /\ pc[w] = "deploy" /\ Done(w) /\ UNCHANGED <<files, bundles, tls, request, config>>
        /\ runs' = [runs EXCEPT ![w] = NoRuns]
    BY <1>1 DEF Record
  <2>2. cur[w] \in Bundle /\ cur[w] # NoBundle
    BY <2>1, AtBundle, CertificatesAssumption DEF TypeOK
  <2>3. OthersStay(w)
    BY <2>1, DoneStays DEF TypeOK, WorkersOK
  <2>4. cur'[w] = NoBundle /\ dom'[w] = 1
    BY <2>1 DEF Done, TypeOK, WorkersOK
  <2> QED
    BY <2>1, <2>2, <2>3, <2>4
<1>2. ASSUME NEW t \in Target, DeployStep(w, t)
      PROVE  /\ pc[w] = "deploy" /\ UNCHANGED <<files, bundles, tls, request, config, hand>>
             /\ \E p \in Deploying : GoTo(w, p)
             /\ \A v \in Worker : v # w => runs'[v] = runs[v]
  <2>1. pc[w] = "deploy" /\ UNCHANGED <<files, bundles, tls, request, config, hand>>
    BY <1>2 DEF DeployStep, DeployCert, DeployKey, DeployFails, DeployHangs, AtTarget
  <2>2. pc' = pc => GoTo(w, "deploy")
    BY <2>1 DEF GoTo, TypeOK, WorkersOK
  <2>3. pc' = pc \/ GoTo(w, "stuck")
    BY <1>2 DEF DeployStep, DeployCert, DeployKey, DeployFails, DeployHangs
  <2>4. runs' = runs \/ \E r : runs' = [runs EXCEPT ![w] = r]
    BY <1>2 DEF DeployStep, DeployCert, DeployKey, DeployFails, DeployHangs, SetRun
  <2> QED
    BY <2>1, <2>2, <2>3, <2>4 DEF Deploying, TypeOK, WorkersOK
<1>3. ASSUME NEW t \in Target, DeployStep(w, t)
      PROVE  /\ cur[w] \in Bundle /\ OthersStay(w) /\ pc'[w] \in Deploying
             /\ UNCHANGED <<got, key, cur, dom, met>>
  <2>1. UNCHANGED <<got, key, cur, dom, met>>
    BY <1>2, <1>3 DEF hand
  <2>2. cur[w] \in Bundle
    BY <1>2, <1>3, AtBundle DEF TypeOK
  <2>3. PICK p \in Deploying : GoTo(w, p)
    BY <1>2, <1>3
  <2>4. OthersStay(w)
    BY <1>2, <1>3, <2>1, <2>3, GoOnStays
  <2>5. pc'[w] \in Deploying
    BY <2>3 DEF GoTo, TypeOK, WorkersOK
  <2> QED
    BY <2>1, <2>2, <2>4, <2>5
<1> QED
  BY <1>1, <1>2, <1>3 DEF DeployAction

\* A worker that no other has met is alone at its bundle.
LEMMA Alone ==
    ASSUME MetInv, NEW w \in Worker, cur[w] # NoBundle, w \notin met \/ cur[w] \notin raced
    PROVE  /\ \A v \in Worker : cur[v] = cur[w] => v = w
           /\ w \notin met
BY DEF MetInv

\* What a step leaves alone at the bundles no worker steps at stays known; so only the
\* bundle of the step is left to look at.
LEMMA OtherBundles ==
    ASSUME CertInv, NEW w \in Worker, NEW a \in Bundle, cur[w] = a,
           dom[w] \in 1 .. Len(DomainsOf[a]), OthersStay(w),
           \A b \in Bundle : b # a => SameBundle(b), SameCerts(w), raced' = raced,
           w \notin met /\ cur'[w] = a => FilesKnown(w, a)',
           a \notin raced => LoadedKnown(a)',
           a \notin raced /\ cur'[w] = a /\ pc'[w] \in Loading => bundles'[a] = certFile'[a]
    PROVE  FilesInv' /\ LoadedInv'
<1>1. ASSUME NEW v \in Worker, v # w, cur'[v] # NoBundle, v \notin met \/ cur[v] \notin raced
      PROVE  cur'[v] = cur[v] /\ cur[v] \in Bundle /\ cur[v] # a /\ SameBundle(cur[v])
  <2>1. cur'[v] = cur[v] /\ cur[v] \in Bundle
    BY <1>1 DEF OthersStay, CertInv, TypeOK, WorkersOK
  <2>2. cur[v] # a
    BY <1>1, <2>1, Alone DEF CertInv
  <2> QED
    BY <2>1, <2>2
<1>2. FilesInv'
  <2> SUFFICES ASSUME NEW v \in Worker, v \notin met', cur'[v] # NoBundle
               PROVE  FilesKnown(v, cur[v])'
    BY DEF FilesInv
  <2>1. CASE v = w
    <3>1. cur'[w] = a /\ w \notin met
      BY <2>1 DEF OthersStay
    <3>2. FilesKnown(w, a)'
      BY <3>1
    <3> QED
      BY <2>1, <3>1, <3>2 DEF FilesKnown
  <2>2. CASE v # w
    <3>1. v \notin met
      BY <2>2 DEF OthersStay
    <3>2. cur'[v] = cur[v] /\ cur[v] \in Bundle /\ SameBundle(cur[v])
      BY <1>1, <2>2, <3>1
    <3>3. FilesKnown(v, cur[v])
      BY <3>1, <3>2, CertificatesAssumption DEF CertInv, FilesInv
    <3> QED
      BY <2>2, <3>2, <3>3 DEF FilesKnown, OthersStay, SameBundle
  <2> QED
    BY <2>1, <2>2
<1>3. \A b \in Bundle \ raced' : LoadedKnown(b)'
  <2> SUFFICES ASSUME NEW b \in Bundle, b \notin raced, b # a, bundles'[b] # 0,
                      OwnDomains(b)
               PROVE  \/ LoadedUpTo(b, Len(DomainsOf[b]))'
                      \/ \E v \in Worker : /\ cur'[v] = b /\ pc'[v] \in Loading
                                           /\ LoadedUpTo(b, dom[v] - 1)'
    <3>1. SUFFICES ASSUME NEW b \in Bundle, b \notin raced, b # a PROVE LoadedKnown(b)'
      OBVIOUS
    <3> QED
      BY <3>1 DEF LoadedKnown, OwnDomains
  <2>1. LoadedKnown(b) /\ bundles'[b] = bundles[b]
    BY DEF CertInv, LoadedInv, SameBundle
  <2>2. \A i \in DOMAIN DomainsOf[b] : certs'[DomainsOf[b][i]] = certs[DomainsOf[b][i]]
    <3>1. dom[w] \in DOMAIN DomainsOf[a]
      BY DomainFacts
    <3>2. \A i \in DOMAIN DomainsOf[b] : DomainsOf[b][i] # DomainsOf[a][dom[w]]
      BY <3>1 DEF OwnDomains
    <3> QED
      BY <3>2, DomainFacts DEF SameCerts
  <2>3. ASSUME NEW n PROVE LoadedUpTo(b, n) => LoadedUpTo(b, n)'
    BY <2>1, <2>2 DEF LoadedUpTo, SameCerts
  <2>4. \A v \in Worker : cur[v] = b => cur'[v] = cur[v] /\ pc'[v] = pc[v] /\ dom'[v] = dom[v]
    BY DEF OthersStay
  <2> QED
    BY <2>1, <2>3, <2>4 DEF LoadedKnown
<1>4. ASSUME NEW v \in Worker, pc'[v] \in Loading, cur'[v] \notin raced'
      PROVE  bundles'[cur'[v]] = certFile'[cur'[v]]
  <2>1. CASE v = w
    <3>1. cur'[w] = a /\ a \notin raced /\ pc'[w] \in Loading
      BY <1>4, <2>1 DEF OthersStay, Loading
    <3>2. bundles'[a] = certFile'[a]
      BY <3>1
    <3> QED
      BY <2>1, <3>1, <3>2
  <2>2. CASE v # w
    <3>1. pc[v] \in Loading /\ cur'[v] = cur[v] /\ cur[v] \notin raced
      BY <1>4, <2>2 DEF OthersStay
    <3>2. cur[v] # NoBundle
      BY <3>1, AtBundle, CertificatesAssumption DEF Loading, CertInv, TypeOK
    <3>3. SameBundle(cur[v])
      BY <1>1, <2>2, <3>1, <3>2
    <3> QED
      BY <3>1, <3>3 DEF CertInv, LoadedInv, SameBundle
  <2> QED
    BY <2>1, <2>2
<1> QED
  BY <1>2, <1>3, <1>4 DEF LoadedInv

\* A worker that is not loading has all domains loaded, and a step that leaves the stores
\* alone keeps them so.
LEMMA LoadedSame ==
    ASSUME CertInv, NEW w \in Worker, NEW a \in Bundle \ raced, cur[w] = a,
           pc[w] \notin Loading, bundles'[a] = bundles[a], UNCHANGED tls
    PROVE  LoadedKnown(a)'
<1>1. LoadedKnown(a) /\ \A v \in Worker : cur[v] = a => v = w
  BY Alone, CertificatesAssumption DEF CertInv, LoadedInv
<1>2. bundles[a] # 0 /\ OwnDomains(a) => LoadedUpTo(a, Len(DomainsOf[a]))
  BY <1>1 DEF LoadedKnown
<1>3. LoadedUpTo(a, Len(DomainsOf[a])) => LoadedUpTo(a, Len(DomainsOf[a]))'
  BY DEF LoadedUpTo, tls
<1> QED
  BY <1>2, <1>3 DEF LoadedKnown, OwnDomains

\* A step on a bundle keeps what its worker knows of the files, when no other has been there.
LEMMA FilesLocal ==
    ASSUME CertInv, NEW w \in Worker \ met, NEW a \in Bundle, cur[w] = a, BundleStep(w)
    PROVE  cur'[w] = a => FilesKnown(w, a)'
<1> DEFINE Goal == cur'[w] = a => FilesKnown(w, a)'
<1> USE DEF files, tls, Saving, Loading, Deploying
<1>1. FilesKnown(w, a) /\ a # NoBundle
  BY CertificatesAssumption DEF CertInv, FilesInv
<1>2. ASSUME Done(w) PROVE Goal
  BY <1>1, <1>2 DEF Done, CertInv, TypeOK, WorkersOK
<1>3. ASSUME EnsureFails(w) \/ LoadUserFails(w) \/ RenameFails(w) \/ RequestFails(w) PROVE Goal
  BY <1>2, <1>3 DEF EnsureFails, LoadUserFails, RenameFails, RequestFails
<1>4. ASSUME EnsureCertificate(w) PROVE Goal
  <2>1. \/ pc'[w] = "obtain"
        \/ /\ pc'[w] = "put" /\ got'[w] = certFile[a] /\ certFile[a] # 0 /\ keyFile[a] = certFile[a]
           /\ UNCHANGED files
    BY <1>4 DEF EnsureCertificate, Missing, Torn, GoTo, CertInv, TypeOK, WorkersOK
  <2> QED
    BY <2>1 DEF FilesKnown
<1>5. ASSUME LoadUserMissing(w) \/ CreateUser(w) \/ SaveUser(w) PROVE Goal
  <2>1. pc'[w] \in {"createUser", "saveUser", "order"}
    BY <1>5 DEF LoadUserMissing, CreateUser, SaveUser, GoTo, CertInv, TypeOK, WorkersOK
  <2> QED
    BY <2>1 DEF FilesKnown
<1>6. ASSUME Obtain(w) PROVE Goal
  <2>1. pc'[w] = "writeCert" /\ got'[w] = issued + 1 /\ issued \in Nat
    BY <1>6 DEF Obtain, GoTo, CertInv, TypeOK, WorkersOK
  <2> QED
    BY <2>1 DEF FilesKnown
<1>7. ASSUME WriteCert(w) PROVE Goal
  <2>1. /\ pc[w] = "writeCert" /\ UNCHANGED got
        /\ pc'[w] = "renameCert" /\ certTmp'[a] = got[w]
    BY <1>7 DEF WriteCert, GoTo, CertInv, TypeOK, WorkersOK, FilesOK, hand
  <2> QED
    BY <1>1, <2>1 DEF FilesKnown
<1>8. ASSUME RenameCert(w) PROVE Goal
  <2>1. /\ pc[w] = "renameCert" /\ UNCHANGED got
        /\ pc'[w] = "writeKey" /\ certFile'[a] = certTmp[a]
    BY <1>8 DEF RenameCert, GoTo, CertInv, TypeOK, WorkersOK, FilesOK, hand
  <2> QED
    BY <1>1, <2>1 DEF FilesKnown
<1>9. ASSUME WriteKey(w) PROVE Goal
  <2>1. /\ pc[w] = "writeKey" /\ UNCHANGED <<got, certFile>>
        /\ pc'[w] = "renameKey" /\ keyTmp'[a] = got[w]
    BY <1>9 DEF WriteKey, GoTo, CertInv, TypeOK, WorkersOK, FilesOK, hand
  <2> QED
    BY <1>1, <2>1 DEF FilesKnown
<1>10. ASSUME RenameKey(w) PROVE Goal
  <2>1. /\ pc[w] = "renameKey" /\ UNCHANGED <<got, certFile>>
        /\ pc'[w] = "put" /\ keyFile'[a] = keyTmp[a]
    BY <1>10 DEF RenameKey, GoTo, CertInv, TypeOK, WorkersOK, FilesOK, hand
  <2> QED
    BY <1>1, <2>1 DEF FilesKnown
<1>11. ASSUME PutBundle(w) PROVE Goal
  <2>1. pc[w] = "put" /\ UNCHANGED files /\ pc'[w] = "load"
    BY <1>11 DEF PutBundle, GoTo, CertInv, TypeOK, WorkersOK
  <2> QED
    BY <1>1, <2>1 DEF FilesKnown
<1>12. ASSUME LoadPair(w) PROVE Goal
  <2>1. pc[w] = "load" /\ UNCHANGED files /\ pc'[w] = "set" /\ got'[w] = certFile[a]
    BY <1>12 DEF LoadPair, GoTo, CertInv, TypeOK, WorkersOK
  <2> QED
    BY <1>1, <2>1 DEF FilesKnown
<1>13. ASSUME LoadPairFails(w) \/ Set(w) PROVE Goal
  <2>1. pc[w] \in Loading /\ UNCHANGED files /\ NextDomain(w)
    BY <1>13 DEF LoadPairFails, Set
  <2>2. CASE ~Done(w)
    <3>1. PICK p \in {"load", "readCert"} : GoTo(w, p)
      BY <2>1, <2>2, NextDomainCases DEF CertInv
    <3>2. pc'[w] = p
      BY <3>1 DEF GoTo, CertInv, TypeOK, WorkersOK
    <3> QED
      BY <1>1, <2>1, <3>2 DEF FilesKnown
  <2> QED
    BY <1>2, <2>2
<1>14. ASSUME ReadCert(w) PROVE Goal
  <2>1. /\ UNCHANGED files
        /\ pc'[w] = "readKey" /\ got'[w] = certFile[a] /\ certFile[a] # 0
    BY <1>14 DEF ReadCert, GoTo, CertInv, TypeOK, WorkersOK
  <2> QED
    BY <2>1 DEF FilesKnown
<1>15. ASSUME ReadKey(w) PROVE Goal
  <2>1. /\ pc[w] = "readKey" /\ UNCHANGED <<files, got>>
        /\ pc'[w] = "deploy" /\ key'[w] = keyFile[a] /\ keyFile[a] # 0
    BY <1>15 DEF ReadKey, GoTo, CertInv, TypeOK, WorkersOK
  <2> QED
    BY <1>1, <2>1 DEF FilesKnown
<1> QED
  BY <1>3, <1>4, <1>5, <1>6, <1>7, <1>8, <1>9, <1>10, <1>11, <1>12, <1>13, <1>14, <1>15
     DEF BundleStep

\* A step on a bundle that nobody else has been at keeps its certificates in the TLS store the
\* ones that the MemoryStore has.
LEMMA LoadedLocal ==
    ASSUME CertInv, NEW w \in Worker, NEW a \in Bundle \ raced, cur[w] = a, BundleStep(w)
    PROVE  /\ LoadedKnown(a)'
           /\ cur'[w] = a /\ pc'[w] \in Loading => bundles'[a] = certFile'[a]
<1> DEFINE Goal == /\ LoadedKnown(a)'
                   /\ cur'[w] = a /\ pc'[w] \in Loading => bundles'[a] = certFile'[a]
<1> USE DEF files, tls, Loading
<1>1. /\ FilesKnown(w, a) /\ LoadedKnown(a) /\ a # NoBundle
      /\ \A v \in Worker : cur[v] = a => v = w
      /\ pc[w] \in Loading => bundles[a] = certFile[a]
  <2>1. w \notin met /\ \A v \in Worker : cur[v] = a => v = w
    BY Alone, CertificatesAssumption DEF CertInv
  <2> QED
    BY <2>1, CertificatesAssumption DEF CertInv, FilesInv, LoadedInv
<1>2. ASSUME pc[w] \notin Loading, pc'[w] \notin Loading, bundles' = bundles, UNCHANGED tls
      PROVE  Goal
  BY <1>2, LoadedSame
<1>3. ASSUME \/ EnsureFails(w) \/ LoadUserFails(w) \/ RenameFails(w) \/ RequestFails(w)
             \/ EnsureCertificate(w) \/ LoadUserMissing(w) \/ CreateUser(w) \/ SaveUser(w)
             \/ Obtain(w) \/ ReadCert(w) \/ ReadKey(w)
      PROVE Goal
  <2>1. pc[w] \notin Loading /\ UNCHANGED <<bundles, tls>>
    BY <1>3 DEF EnsureFails, LoadUserFails, RenameFails, RequestFails, EnsureCertificate,
                LoadUserMissing, CreateUser, SaveUser, Obtain, ReadCert, ReadKey
  <2>2. \E p \in Place \ Loading : GoTo(w, p)
    BY <1>3 DEF EnsureFails, LoadUserFails, RenameFails, RequestFails, EnsureCertificate,
                LoadUserMissing, CreateUser, SaveUser, Obtain, ReadCert, ReadKey, Done, Place
  <2>3. pc'[w] \notin Loading
    BY <2>2 DEF GoTo, CertInv, TypeOK, WorkersOK
  <2> QED
    BY <1>2, <2>1, <2>3
<1>4. ASSUME WriteCert(w) \/ RenameCert(w) \/ WriteKey(w) \/ RenameKey(w) PROVE Goal
  <2>1. /\ pc[w] \notin Loading /\ UNCHANGED <<bundles, tls>>
        /\ \E p \in {"renameCert", "writeKey", "renameKey", "put"} : GoTo(w, p)
    BY <1>4 DEF WriteCert, RenameCert, WriteKey, RenameKey
  <2>2. pc'[w] \notin Loading
    BY <2>1 DEF GoTo, CertInv, TypeOK, WorkersOK
  <2> QED
    BY <1>2, <2>1, <2>2
<1>5. ASSUME PutBundle(w) PROVE Goal
  <2>1. /\ pc[w] = "put" /\ UNCHANGED <<files, tls, cur, dom>>
        /\ pc'[w] = "load" /\ bundles'[a] = got[w] /\ dom[w] = 1
    BY <1>5 DEF PutBundle, GoTo, CertInv, TypeOK, WorkersOK, StoresOK, DomInv
  <2>2. DOMAIN DomainsOf[a] = 1 .. Len(DomainsOf[a]) /\ Len(DomainsOf[a]) \in Nat
    BY DomainFacts
  <2>3. LoadedUpTo(a, dom[w] - 1)'
    BY <2>1, <2>2 DEF LoadedUpTo
  <2>4. LoadedKnown(a)'
    BY <2>1, <2>3 DEF LoadedKnown
  <2> QED
    BY <1>1, <2>1, <2>4 DEF FilesKnown
<1>6. ASSUME LoadPair(w) PROVE Goal
  <2>1. /\ pc[w] = "load" /\ UNCHANGED <<files, bundles, tls, cur, dom>>
        /\ pc'[w] = "set"
    BY <1>6 DEF LoadPair, GoTo, CertInv, TypeOK, WorkersOK
  <2>2. ASSUME NEW n PROVE LoadedUpTo(a, n) => LoadedUpTo(a, n)'
    BY <2>1 DEF LoadedUpTo
  <2>3. LoadedKnown(a)'
    BY <1>1, <2>1, <2>2 DEF LoadedKnown, OwnDomains
  <2> QED
    BY <1>1, <2>1, <2>3
<1>7. ASSUME LoadPairFails(w) PROVE Goal
  BY <1>1, <1>7 DEF LoadPairFails, FilesKnown, Missing, Torn
<1>8. ASSUME Set(w) PROVE Goal
  <2>1. /\ pc[w] = "set" /\ UNCHANGED <<files, bundles>> /\ NextDomain(w)
        /\ bundles[a] # 0 /\ certFile[a] = bundles[a]
        /\ got[w] = bundles[a]
    BY <1>1, <1>8 DEF Set, FilesKnown
  <2>2. /\ dom[w] \in 1 .. Len(DomainsOf[a]) /\ Len(DomainsOf[a]) \in Nat
        /\ DOMAIN DomainsOf[a] = 1 .. Len(DomainsOf[a])
        /\ \A i \in 1 .. Len(DomainsOf[a]) : DomainsOf[a][i] \in Domain
    BY BundleStepFrame, DomainFacts DEF CertInv
  <2>3. OwnDomains(a) => LoadedUpTo(a, dom[w] - 1)
    BY <1>1, <2>1, <2>2 DEF LoadedKnown, LoadedUpTo
  <2>4. /\ certs'[DomainsOf[a][dom[w]]] = bundles[a]
        /\ \A d \in Domain : d # DomainsOf[a][dom[w]] => certs'[d] = certs[d]
        /\ DomainsOf[a][dom[w]] \notin Wild => defaultCert' # 0
        /\ defaultCert # 0 => defaultCert' # 0
    BY <1>8, <2>1, <2>2 DEF Set, CertInv, TypeOK, StoresOK
  <2>5. ASSUME OwnDomains(a), NEW i \in DOMAIN DomainsOf[a], i <= dom[w]
        PROVE  /\ certs'[DomainsOf[a][i]] = bundles[a]
               /\ DomainsOf[a][i] \notin Wild => defaultCert' # 0
    <3>1. CASE i = dom[w]
      BY <2>4, <3>1
    <3>2. CASE i <= dom[w] - 1
      BY <2>2, <2>3, <2>4, <2>5, <3>2 DEF LoadedUpTo
    <3> QED
      BY <2>2, <2>5, <3>1, <3>2
  <2>6. CASE Done(w) /\ dom[w] = Len(DomainsOf[a])
    <3>1. OwnDomains(a) => LoadedUpTo(a, Len(DomainsOf[a]))'
      BY <2>1, <2>2, <2>5, <2>6 DEF LoadedUpTo
    <3>2. cur'[w] # a
      BY <1>1, <2>6 DEF Done, CertInv, TypeOK, WorkersOK
    <3> QED
      BY <3>1, <3>2 DEF LoadedKnown, OwnDomains
  <2>7. CASE ~(Done(w) /\ dom[w] = Len(DomainsOf[a]))
    <3>1. PICK p \in {"load", "readCert"}, n \in 1 .. Len(DomainsOf[a]) :
            /\ GoTo(w, p)
            /\ p = "load" => n = dom[w] + 1
            /\ p = "readCert" => n = 1 /\ dom[w] = Len(DomainsOf[a])
            /\ dom' = [dom EXCEPT ![w] = n]
            /\ UNCHANGED cur
      BY <2>1, <2>7, NextDomainCases DEF CertInv
    <3>2. pc'[w] = p /\ dom'[w] = n /\ cur'[w] = a
      BY <3>1 DEF GoTo, CertInv, TypeOK, WorkersOK
    <3>3. CASE p = "load"
      <4>1. OwnDomains(a) => LoadedUpTo(a, dom[w] - 1)'
        BY <2>1, <2>2, <2>5, <3>1, <3>2, <3>3 DEF LoadedUpTo
      <4> QED
        BY <2>1, <3>2, <3>3, <4>1 DEF LoadedKnown, OwnDomains
    <3>4. CASE p = "readCert"
      <4>1. OwnDomains(a) => LoadedUpTo(a, Len(DomainsOf[a]))'
        BY <2>1, <2>2, <2>5, <3>1, <3>4 DEF LoadedUpTo
      <4> QED
        BY <3>2, <3>4, <4>1 DEF LoadedKnown, OwnDomains
    <3> QED
      BY <3>3, <3>4
  <2> QED
    BY <2>6, <2>7
<1> QED
  BY <1>3, <1>4, <1>5, <1>6, <1>7, <1>8 DEF BundleStep

-----------------------------------------------------------------------------
(* What is known of the targets.                                            *)

\* A step that writes at no target, and leaves alone whoever has written a certificate to one
\* that is not in doubt, with the files it has taken.
LEMMA TargetFrame ==
    ASSUME TargetInv, target' = target, doubt \subseteq doubt',
           \A v \in Worker, t \in Target :
             \/ runs'[v][t] = runs[v][t]
             \/ runs'[v][t] \in Ahead /\ runs[v][t] \in Ahead,
           \A v \in Worker \ met, t \in Target \ doubt' : runs[v][t] = "cert" =>
             /\ cur'[v] = cur[v] /\ v \notin met'
             /\ certFile'[cur[v]] = certFile[cur[v]] /\ keyFile'[cur[v]] = keyFile[cur[v]]
    PROVE  TargetInv'
<1> SUFFICES ASSUME NEW t \in Target \ doubt' PROVE TargetKnown(t)'
  BY DEF TargetInv
<1>1. TargetKnown(t)
  BY DEF TargetInv
<1>2. \A v \in Worker : /\ runs'[v][t] \in Written => runs'[v][t] = runs[v][t]
                        /\ runs'[v][t] \in Ahead => runs[v][t] \in Ahead
                        /\ runs'[v][t] = "cert" => runs[v][t] = "cert"
                        /\ runs'[v][t] = "success" => runs[v][t] = "success"
  BY DEF Written, Ahead
<1>3. \A v, w \in Worker : runs'[v][t] \in Written /\ runs'[w][t] \in Written => v = w
  BY <1>1, <1>2 DEF TargetKnown
<1>4. \A w \in Worker : runs'[w][t] = "cert" =>
         /\ w \notin met'
         /\ certFile'[cur'[w]] = keyFile'[cur'[w]] /\ target'[t].cert = certFile'[cur'[w]]
  BY <1>1, <1>2 DEF TargetKnown
<1>5. \A w \in Worker : runs'[w][t] = "success" => target'[t].cert = target'[t].key
  BY <1>1, <1>2 DEF TargetKnown
<1>6. target'[t].status = "success" /\ (\A w \in Worker : runs'[w][t] \in Ahead) =>
         target'[t].cert = target'[t].key
  BY <1>1, <1>2 DEF TargetKnown
<1> QED
  BY <1>3, <1>4, <1>5, <1>6 DEF TargetKnown

\* A step on a bundle is such a step.
LEMMA TargetBundleStep ==
    ASSUME CertInv, NEW w \in Worker, BundleStep(w)
    PROVE  TargetInv'
<1>1. /\ cur[w] \in Bundle /\ pc[w] \notin Deploying /\ OthersStay(w)
      /\ \A b \in Bundle : b # cur[w] => SameBundle(b)
      /\ UNCHANGED <<target, doubt>>
  BY BundleStepFrame DEF CertInv
<1>2. \A t \in Target : runs[w][t] = "none"
  BY <1>1 DEF CertInv, RunsInv
<1>3. \A t \in Target : runs'[w][t] \in Ahead
  <2>1. CASE ReadKey(w)
    BY <2>1 DEF ReadKey, CertInv, TypeOK, WorkersOK, Ahead
  <2>2. CASE ~ReadKey(w)
    <3>1. UNCHANGED runs
      BY <2>2 DEF BundleStep, EnsureCertificate, EnsureFails, LoadUserMissing, LoadUserFails,
                  CreateUser, SaveUser, Obtain, WriteCert, RenameCert, WriteKey, RenameKey,
                  RenameFails, RequestFails, PutBundle, LoadPair, LoadPairFails, Set, ReadCert,
                  deploy
    <3> QED
      BY <1>2, <3>1 DEF Ahead
  <2> QED
    BY <2>1, <2>2
<1>4. \A v \in Worker, t \in Target :
        \/ runs'[v][t] = runs[v][t]
        \/ runs'[v][t] \in Ahead /\ runs[v][t] \in Ahead
  BY <1>1, <1>2, <1>3 DEF OthersStay, Ahead
<1>5. ASSUME NEW v \in Worker \ met, NEW t \in Target, runs[v][t] = "cert"
      PROVE  /\ cur'[v] = cur[v] /\ v \notin met'
             /\ certFile'[cur[v]] = certFile[cur[v]] /\ keyFile'[cur[v]] = keyFile[cur[v]]
  <2>1. v # w /\ pc[v] \in Deploying
    BY <1>2, <1>5 DEF CertInv, RunsInv
  <2>2. cur[v] \in Bundle
    BY <2>1, AtBundle DEF Deploying, CertInv, TypeOK
  <2>3. cur[v] # cur[w]
    BY <2>1, <2>2, Alone, CertificatesAssumption DEF CertInv
  <2> QED
    BY <1>1, <2>1, <2>2, <2>3 DEF OthersStay, SameBundle
<1> QED
  BY <1>1, <1>4, <1>5, TargetFrame DEF CertInv

\* A step at one target leaves what is known of another.
LEMMA TargetOther ==
    ASSUME TargetInv, NEW t \in Target,
           \A u \in Target : u # t =>
             /\ target'[u] = target[u]
             /\ u \in doubt' <=> u \in doubt
             /\ \A v \in Worker : runs'[v][u] = runs[v][u],
           UNCHANGED <<certFile, keyFile, cur, met>>,
           t \notin doubt' => TargetKnown(t)'
    PROVE  TargetInv'
<1> SUFFICES ASSUME NEW u \in Target \ doubt', u # t PROVE TargetKnown(u)'
  BY DEF TargetInv
<1>1. TargetKnown(u) /\ target'[u] = target[u] /\ \A v \in Worker : runs'[v][u] = runs[v][u]
  BY DEF TargetInv
<1> QED
  BY <1>1 DEF TargetKnown

\* The effect of one turn at a target, field by field.
LEMMA DeployEffect ==
    ASSUME TypeOK, NEW w \in Worker, NEW t \in Target, DeployStep(w, t)
    PROVE  /\ UNCHANGED <<certFile, keyFile, cur, met>>
           /\ \A u \in Target : u # t =>
                /\ target'[u] = target[u]
                /\ u \in doubt' <=> u \in doubt
                /\ \A v \in Worker : runs'[v][u] = runs[v][u]
           /\ \A v \in Worker : v # w => runs'[v][t] = runs[v][t]
           /\ target'[t].status = target[t].status
           /\ DeployCert(w, t) =>
                /\ target'[t].cert = CertFor(w, t) /\ target'[t].key = target[t].key
                /\ runs'[w][t] = "cert"
           /\ DeployKey(w, t) =>
                /\ target'[t].cert = target[t].cert /\ target'[t].key = KeyFor(w, t)
                /\ runs'[w][t] = "success"
           /\ DeployFails(w, t) =>
                /\ target'[t].cert = target[t].cert
                /\ runs[w][t] = "cert" \/ target'[t].key = target[t].key
                /\ runs'[w][t] = "failed"
           /\ DeployHangs(w, t) => target'[t].cert = target[t].cert /\ runs' = runs
<1> DEFINE Row == [Target -> {"none", "due", "cert", "success", "failed"}]
<1>1. runs \in [Worker -> Row] /\ runs[w] \in Row /\ \A v \in Worker : runs[v] \in Row
  BY DEF TypeOK, WorkersOK
<1>2. target[t] \in [cert : Issue, key : Issue, status : {"none", "success", "failed"}]
      /\ DOMAIN target = Target
  BY DEF TypeOK, StoresOK
<1>3. ASSUME NEW o, SetRun(w, t, o)
      PROVE  /\ runs'[w][t] = o
             /\ \A v \in Worker : v # w => runs'[v] = runs[v]
             /\ \A u \in Target : u # t => \A v \in Worker : runs'[v][u] = runs[v][u]
  <2>1. runs' = [runs EXCEPT ![w] = [runs[w] EXCEPT ![t] = o]]
    BY <1>3 DEF SetRun
  <2>2. [runs[w] EXCEPT ![t] = o][t] = o
        /\ \A u \in Target : u # t => [runs[w] EXCEPT ![t] = o][u] = runs[w][u]
    BY <1>1
  <2>3. runs'[w] = [runs[w] EXCEPT ![t] = o] /\ \A v \in Worker : v # w => runs'[v] = runs[v]
    BY <1>1, <2>1
  <2> QED
    BY <2>2, <2>3
<1>4. ASSUME NEW n, target' = [target EXCEPT ![t].cert = n]
      PROVE  /\ target'[t].cert = n /\ target'[t].key = target[t].key
             /\ target'[t].status = target[t].status
             /\ \A u \in Target : u # t => target'[u] = target[u]
  <2>1. target' = [target EXCEPT ![t] = [target[t] EXCEPT !.cert = n]]
    BY <1>4
  <2>2. target'[t] = [target[t] EXCEPT !.cert = n] /\ \A u \in Target : u # t => target'[u] = target[u]
    BY <1>2, <2>1
  <2> QED
    BY <1>2, <2>2
<1>5. ASSUME NEW n, target' = [target EXCEPT ![t].key = n]
      PROVE  /\ target'[t].key = n /\ target'[t].cert = target[t].cert
             /\ target'[t].status = target[t].status
             /\ \A u \in Target : u # t => target'[u] = target[u]
  <2>1. target' = [target EXCEPT ![t] = [target[t] EXCEPT !.key = n]]
    BY <1>5
  <2>2. target'[t] = [target[t] EXCEPT !.key = n] /\ \A u \in Target : u # t => target'[u] = target[u]
    BY <1>2, <2>1
  <2> QED
    BY <1>2, <2>2
<1>6. UNCHANGED <<certFile, keyFile, cur, met>>
  BY DEF DeployStep, DeployCert, DeployKey, DeployFails, DeployHangs, files, hand
<1>7. \A u \in Target : u # t => (u \in doubt' <=> u \in doubt)
  BY DEF DeployStep, DeployCert, DeployKey, DeployFails, DeployHangs
<1>8. (\E n : target' = [target EXCEPT ![t].cert = n]) \/ (\E n : target' = [target EXCEPT ![t].key = n])
  BY DEF DeployStep, DeployCert, DeployKey, DeployFails, DeployHangs
<1>9. \/ \E o : SetRun(w, t, o)
      \/ runs' = runs
  BY DEF DeployStep, DeployCert, DeployKey, DeployFails, DeployHangs
<1>10. /\ \A u \in Target : u # t => target'[u] = target[u]
       /\ target'[t].status = target[t].status
  BY <1>4, <1>5, <1>8
<1>11. /\ \A u \in Target : u # t => \A v \in Worker : runs'[v][u] = runs[v][u]
       /\ \A v \in Worker : v # w => runs'[v][t] = runs[v][t]
  BY <1>3, <1>9
<1>12. DeployCert(w, t) =>
          /\ target'[t].cert = CertFor(w, t) /\ target'[t].key = target[t].key
          /\ runs'[w][t] = "cert"
  BY <1>3, <1>4 DEF DeployCert
<1>13. DeployKey(w, t) =>
          /\ target'[t].cert = target[t].cert /\ target'[t].key = KeyFor(w, t)
          /\ runs'[w][t] = "success"
  BY <1>3, <1>5 DEF DeployKey
<1>14. DeployFails(w, t) =>
          /\ target'[t].cert = target[t].cert
          /\ runs[w][t] = "cert" \/ target'[t].key = target[t].key
          /\ runs'[w][t] = "failed"
  <2> SUFFICES ASSUME DeployFails(w, t)
               PROVE  /\ target'[t].cert = target[t].cert
                      /\ runs[w][t] = "cert" \/ target'[t].key = target[t].key
                      /\ runs'[w][t] = "failed"
    OBVIOUS
  <2>1. PICK n \in {target[t].key} \cup (IF runs[w][t] = "cert" THEN {KeyFor(w, t)} ELSE {}) :
          target' = [target EXCEPT ![t].key = n]
    BY DEF DeployFails
  <2>2. SetRun(w, t, "failed")
    BY DEF DeployFails
  <2> QED
    BY <1>3, <1>5, <2>1, <2>2
<1>15. DeployHangs(w, t) => target'[t].cert = target[t].cert /\ runs' = runs
  BY <1>5 DEF DeployHangs
<1> QED
  BY <1>6, <1>7, <1>10, <1>11, <1>12, <1>13, <1>14, <1>15

\* A turn at a target leaves it in doubt or known.
LEMMA TargetDeployStep ==
    ASSUME CertInv, NEW w \in Worker, NEW t \in Target, DeployStep(w, t)
    PROVE  TargetInv'
<1> DEFINE a == cur[w]
<1>1. pc[w] = "deploy" /\ a \in Bundle /\ a # NoBundle
  <2>1. pc[w] = "deploy"
    BY DEF DeployStep, DeployCert, DeployKey, DeployFails, DeployHangs, AtTarget
  <2> QED
    BY <2>1, AtBundle, CertificatesAssumption DEF CertInv, TypeOK
<1>2. w \notin met => /\ certFile[a] # 0 /\ keyFile[a] # 0
                      /\ CertFor(w, t) = certFile[a] /\ KeyFor(w, t) = keyFile[a]
  BY <1>1 DEF CertInv, FilesInv, FilesKnown, Deploying, CertFor, KeyFor
<1>3. /\ UNCHANGED <<certFile, keyFile, cur, met>>
      /\ \A u \in Target : u # t =>
           /\ target'[u] = target[u]
           /\ u \in doubt' <=> u \in doubt
           /\ \A v \in Worker : runs'[v][u] = runs[v][u]
      /\ \A v \in Worker : v # w => runs'[v][t] = runs[v][t]
  BY DeployEffect DEF CertInv
<1> SUFFICES ASSUME t \notin doubt' PROVE TargetKnown(t)'
  BY <1>3, TargetOther DEF CertInv
<1> USE DEF Written, Ahead
<1>4. CASE DeployCert(w, t)
  <2>1. w \notin met /\ ~Torn(a) /\ ~Shared(w, t)
    BY <1>4 DEF DeployCert
  <2>2. certFile[a] = keyFile[a]
    BY <1>2, <2>1 DEF Torn, Missing
  <2>3. target'[t].cert = certFile[a] /\ runs'[w][t] = "cert"
    BY <1>2, <1>4, <2>1, DeployEffect DEF CertInv
  <2>4. \A v \in Worker : v # w => runs'[v][t] \notin Written
    BY <1>3, <2>1 DEF Shared
  <2> QED
    BY <1>3, <2>1, <2>2, <2>3, <2>4 DEF TargetKnown
<1>5. CASE ~DeployCert(w, t)
  <2>1. doubt' = doubt
    BY <1>5 DEF DeployStep, DeployKey, DeployFails, DeployHangs
  <2>2. TargetKnown(t)
    BY <2>1 DEF CertInv, TargetInv
  <2>3. runs[w][t] = "cert" =>
          /\ w \notin met /\ certFile[a] = keyFile[a] /\ target[t].cert = certFile[a]
          /\ \A v \in Worker : v # w => runs'[v][t] \notin Written
    BY <1>3, <2>2 DEF TargetKnown
  <2>4. CASE DeployKey(w, t)
    <3>1. runs[w][t] = "cert"
      BY <2>4 DEF DeployKey
    <3>2. /\ target'[t].cert = target[t].cert /\ target'[t].key = keyFile[a]
          /\ runs'[w][t] = "success"
      BY <1>2, <2>3, <2>4, <3>1, DeployEffect DEF CertInv
    <3> QED
      BY <2>3, <3>1, <3>2 DEF TargetKnown
  <2>5. CASE DeployFails(w, t)
    <3>1. /\ target'[t].cert = target[t].cert /\ runs'[w][t] = "failed"
          /\ runs[w][t] = "cert" \/ target'[t].key = target[t].key
      BY <2>5, DeployEffect DEF CertInv
    <3>2. CASE runs[w][t] = "cert"
      BY <2>3, <3>1, <3>2 DEF TargetKnown
    <3>3. CASE target'[t].key = target[t].key
      BY <1>3, <2>2, <3>1, <3>3 DEF TargetKnown
    <3> QED
      BY <3>1, <3>2, <3>3
  <2>6. CASE DeployHangs(w, t)
    <3>1. runs[w][t] = "cert" /\ target'[t].cert = target[t].cert /\ runs' = runs
      BY <2>6, DeployEffect DEF DeployHangs, CertInv
    <3> QED
      BY <1>3, <2>3, <3>1 DEF TargetKnown
  <2> QED
    BY <1>5, <2>4, <2>5, <2>6 DEF DeployStep
<1> QED
  BY <1>4, <1>5

\* The runs are recorded.
LEMMA TargetRecord ==
    ASSUME CertInv, NEW w \in Worker, Record(w)
    PROVE  TargetInv'
<1> SUFFICES ASSUME NEW t \in Target \ doubt' PROVE TargetKnown(t)'
  BY DEF TargetInv
<1> USE DEF Written, Ahead
<1>1. TargetKnown(t) /\ UNCHANGED <<certFile, keyFile>>
  BY DEF Record, CertInv, TargetInv, files
<1>2. OthersStay(w) /\ runs'[w][t] = "none"
  <2>1. OthersStay(w)
    BY DeployFrame DEF DeployAction, CertInv
  <2> QED
    BY <2>1 DEF Record, NoRuns, CertInv, TypeOK, WorkersOK
<1>3. runs[w][t] \in {"none", "success", "failed"}
  BY DEF Record, CertInv, TypeOK, WorkersOK
<1>4. /\ target'[t].cert = target[t].cert /\ target'[t].key = target[t].key
      /\ target'[t].status = IF runs[w][t] = "none" THEN target[t].status ELSE runs[w][t]
  BY DEF Record, CertInv, TypeOK, StoresOK
<1>5. \A v \in Worker : v # w => /\ runs'[v][t] = runs[v][t] /\ cur'[v] = cur[v]
                                 /\ v \in met' <=> v \in met
  BY <1>2 DEF OthersStay
<1>6. \A v, x \in Worker : runs'[v][t] \in Written /\ runs'[x][t] \in Written => v = x
  BY <1>1, <1>2, <1>5 DEF TargetKnown
<1>7. \A v \in Worker : runs'[v][t] = "cert" =>
         /\ v \notin met'
         /\ certFile'[cur'[v]] = keyFile'[cur'[v]] /\ target'[t].cert = certFile'[cur'[v]]
  BY <1>1, <1>2, <1>4, <1>5 DEF TargetKnown
<1>8. \A v \in Worker : runs'[v][t] = "success" => target'[t].cert = target'[t].key
  BY <1>1, <1>2, <1>4, <1>5 DEF TargetKnown
<1>9. target'[t].status = "success" /\ (\A v \in Worker : runs'[v][t] \in Ahead) =>
         target'[t].cert = target'[t].key
  <2>1. CASE runs[w][t] = "none"
    <3>1. (\A v \in Worker : runs'[v][t] \in Ahead) => \A v \in Worker : runs[v][t] \in Ahead
      BY <1>5, <2>1
    <3> QED
      BY <1>1, <1>4, <2>1, <3>1 DEF TargetKnown
  <2>2. CASE runs[w][t] = "success"
    BY <1>1, <1>4, <2>2 DEF TargetKnown
  <2>3. CASE runs[w][t] = "failed"
    BY <1>4, <2>3
  <2> QED
    BY <1>3, <2>1, <2>2, <2>3
<1> QED
  BY <1>6, <1>7, <1>8, <1>9 DEF TargetKnown

-----------------------------------------------------------------------------
(* The invariant is kept by every step.                                     *)

\* Workers that stay or leave meet nobody.
LEMMA MeetingFrame ==
    ASSUME CertInv, TypeOK', NEW w \in Worker, OthersStay(w), UNCHANGED <<todo, managed, raced>>
    PROVE  RacedInv' /\ MetInv'
<1>1. \A v \in Worker : \/ cur'[v] = cur[v] /\ (v \in met' <=> v \in met)
                        \/ cur'[v] = NoBundle /\ v \notin met'
  BY DEF OthersStay
<1>2. RacedInv'
  BY <1>1 DEF CertInv, RacedInv
<1>3. \A v, x \in Worker : v # x /\ cur'[v] = cur'[x] => cur'[x] = NoBundle \/ x \in met'
  BY <1>1 DEF CertInv, MetInv
<1>4. met' \subseteq Worker
  BY DEF TypeOK, WorkersOK
<1>5. \A x \in met' : cur'[x] \in raced'
  BY <1>1, <1>4 DEF CertInv, MetInv
<1> QED
  BY <1>2, <1>3, <1>5 DEF MetInv

\* A step on a bundle keeps the parts of the invariant that are about positions.
LEMMA BundleStepRest ==
    ASSUME CertInv, NEW w \in Worker, BundleStep(w)
    PROVE  RunsInv' /\ DomInv'
<1> DEFINE a == cur[w]
<1>1. /\ a \in Bundle /\ a # NoBundle /\ dom[w] \in 1 .. Len(DomainsOf[a])
      /\ pc[w] \notin Deploying /\ OthersStay(w)
  BY BundleStepFrame, CertificatesAssumption DEF CertInv
<1>2. pc'[w] \notin Loading => dom'[w] = 1
  <2>1. CASE LoadPairFails(w) \/ Set(w)
    <3>1. pc[w] \in Loading /\ NextDomain(w)
      BY <2>1 DEF LoadPairFails, Set, Loading
    <3>2. CASE Done(w)
      BY <3>2 DEF Done, CertInv, TypeOK, WorkersOK
    <3>3. CASE ~Done(w)
      <4>1. PICK p \in {"load", "readCert"}, n \in 1 .. Len(DomainsOf[a]) :
              /\ GoTo(w, p)
              /\ p = "readCert" => n = 1
              /\ dom' = [dom EXCEPT ![w] = n]
        BY <3>1, <3>3, NextDomainCases DEF CertInv
      <4> QED
        BY <4>1 DEF GoTo, CertInv, TypeOK, WorkersOK, Loading
    <3> QED
      BY <3>2, <3>3
  <2>2. CASE Done(w)
    BY <2>2 DEF Done, CertInv, TypeOK, WorkersOK
  <2>3. CASE \/ EnsureCertificate(w) \/ LoadUserMissing(w) \/ CreateUser(w) \/ SaveUser(w)
             \/ Obtain(w) \/ WriteCert(w) \/ RenameCert(w) \/ WriteKey(w) \/ RenameKey(w)
             \/ ReadCert(w) \/ ReadKey(w) \/ PutBundle(w)
    <3>1. dom' = dom /\ pc[w] \notin Loading
      BY <2>3 DEF EnsureCertificate, LoadUserMissing, CreateUser, SaveUser, Obtain, WriteCert,
                  RenameCert, WriteKey, RenameKey, ReadCert, ReadKey, PutBundle, hand, Loading
    <3> QED
      BY <3>1 DEF CertInv, DomInv
  <2>4. CASE LoadPair(w)
    BY <2>4 DEF LoadPair, GoTo, CertInv, TypeOK, WorkersOK, Loading
  <2> QED
    BY <2>1, <2>2, <2>3, <2>4
       DEF BundleStep, EnsureFails, LoadUserFails, RenameFails, RequestFails
<1>3. DomInv'
  BY <1>1, <1>2 DEF OthersStay, CertInv, DomInv
<1>4. ASSUME pc'[w] \notin Deploying, NEW t \in Target PROVE runs'[w][t] = "none"
  <2>1. CASE ReadKey(w)
    BY <1>4, <2>1 DEF ReadKey, GoTo, Deploying, CertInv, TypeOK, WorkersOK
  <2>2. CASE ~ReadKey(w)
    <3>1. UNCHANGED runs
      BY <2>2 DEF BundleStep, EnsureCertificate, EnsureFails, LoadUserMissing, LoadUserFails,
                  CreateUser, SaveUser, Obtain, WriteCert, RenameCert, WriteKey, RenameKey,
                  RenameFails, RequestFails, PutBundle, LoadPair, LoadPairFails, Set, ReadCert,
                  deploy
    <3> QED
      BY <1>1, <3>1 DEF CertInv, RunsInv
  <2> QED
    BY <2>1, <2>2
<1>5. RunsInv'
  BY <1>1, <1>4 DEF OthersStay, CertInv, RunsInv
<1> QED
  BY <1>3, <1>5

\* A deployment keeps the invariant.
LEMMA DeployActionStep ==
    ASSUME CertInv, TypeOK', NEW w \in Worker, DeployAction(w)
    PROVE  /\ RacedInv' /\ MetInv' /\ FilesInv' /\ RunsInv' /\ TargetInv' /\ LoadedInv' /\ DomInv'
           /\ PrunedStaysOut'
<1>1. /\ cur[w] \in Bundle /\ cur[w] # NoBundle /\ pc[w] = "deploy" /\ OthersStay(w)
      /\ UNCHANGED <<files, bundles, tls, request, config>>
      /\ cur'[w] = cur[w] => pc'[w] \in Deploying /\ UNCHANGED <<got, key, cur, dom, met>>
  BY DeployFrame, CertificatesAssumption DEF CertInv
<1> USE DEF files, tls, request, config
<1>2. RacedInv' /\ MetInv' /\ PrunedStaysOut'
  BY <1>1, MeetingFrame DEF CertInv, PrunedStaysOut
<1>3. TargetInv'
  BY TargetDeployStep, TargetRecord DEF DeployAction
<1>4. RunsInv'
  <2>1. cur'[w] # cur[w] => Record(w)
    BY DeployEffect DEF DeployAction, CertInv
  <2>2. ASSUME Record(w), NEW t \in Target PROVE runs'[w][t] = "none"
    BY <2>2 DEF Record, NoRuns, CertInv, TypeOK, WorkersOK
  <2> QED
    BY <1>1, <2>1, <2>2 DEF OthersStay, CertInv, RunsInv
<1>5. DomInv'
  <2>1. dom'[w] = 1
    BY <1>1 DEF OthersStay, CertInv, DomInv, Loading
  <2> QED
    BY <1>1, <2>1 DEF OthersStay, CertInv, DomInv
<1>6. dom[w] \in 1 .. Len(DomainsOf[cur[w]])
  BY <1>1, AtBundle DEF CertInv, TypeOK
<1>7. \A b \in Bundle : SameBundle(b)
  BY <1>1 DEF SameBundle
<1>8. SameCerts(w)
  BY <1>1 DEF SameCerts
<1>9. w \notin met /\ cur'[w] = cur[w] => FilesKnown(w, cur[w])'
  <2> SUFFICES ASSUME w \notin met, cur'[w] = cur[w] PROVE FilesKnown(w, cur[w])'
    OBVIOUS
  <2>1. FilesKnown(w, cur[w])
    BY <1>1 DEF CertInv, FilesInv
  <2> QED
    BY <1>1, <2>1 DEF FilesKnown, Saving, Loading, Deploying
<1>10. PICK a \in Bundle : cur[w] = a
  BY <1>1
<1>11. w \notin met /\ cur'[w] = a => FilesKnown(w, a)'
  BY <1>9, <1>10 DEF FilesKnown
<1>12. a \notin raced => LoadedKnown(a)'
  BY <1>1, <1>10, LoadedSame DEF Loading
<1>13. a \notin raced /\ cur'[w] = a /\ pc'[w] \in Loading => bundles'[a] = certFile'[a]
  BY <1>1, <1>10 DEF Loading, Deploying
<1>14. FilesInv' /\ LoadedInv'
  BY <1>1, <1>6, <1>7, <1>8, <1>10, <1>11, <1>12, <1>13, OtherBundles
<1> QED
  BY <1>2, <1>3, <1>4, <1>5, <1>14

\* A step at no bundle: workers begin a request or stay, and no bundle's files or certificates
\* change; the store may drop a bundle that nobody is at.
LEMMA ElsewhereStep ==
    ASSUME CertInv, raced \subseteq raced', met \subseteq met', UNCHANGED <<files, tls, runs>>,
           \A b \in Bundle \ raced' :
             \/ bundles'[b] = bundles[b]
             \/ bundles'[b] = 0 /\ \A v \in Worker : cur[v] # b,
           \A v \in Worker : cur[v] # NoBundle =>
             /\ pc'[v] = pc[v] /\ cur'[v] = cur[v] /\ got'[v] = got[v]
             /\ dom'[v] = dom[v] /\ key'[v] = key[v],
           \A v \in Worker : cur[v] = NoBundle =>
             pc'[v] \in {"idle", "next", "ensure", "obtain", "readCert"} /\ dom'[v] = dom[v]
    PROVE  FilesInv' /\ LoadedInv' /\ DomInv' /\ RunsInv'
<1> USE DEF files, tls
<1>1. FilesInv'
  <2> SUFFICES ASSUME NEW v \in Worker, v \notin met', cur'[v] # NoBundle
               PROVE  FilesKnown(v, cur[v])'
    BY DEF FilesInv
  <2>1. CASE cur[v] = NoBundle
    BY <2>1 DEF FilesKnown, Saving, Loading, Deploying
  <2>2. CASE cur[v] # NoBundle
    <3>1. cur'[v] = cur[v] /\ FilesKnown(v, cur[v])
      BY <2>2 DEF CertInv, FilesInv
    <3> QED
      BY <2>2, <3>1 DEF FilesKnown
  <2> QED
    BY <2>1, <2>2
<1>2. \A b \in Bundle \ raced' : LoadedKnown(b)'
  <2> SUFFICES ASSUME NEW b \in Bundle, b \notin raced', bundles'[b] # 0, OwnDomains(b)
               PROVE  \/ LoadedUpTo(b, Len(DomainsOf[b]))'
                      \/ \E v \in Worker : /\ cur'[v] = b /\ pc'[v] \in Loading
                                           /\ LoadedUpTo(b, dom[v] - 1)'
    BY DEF LoadedKnown, OwnDomains
  <2>1. LoadedKnown(b) /\ bundles'[b] = bundles[b] /\ b # NoBundle
    BY CertificatesAssumption DEF CertInv, LoadedInv
  <2>2. ASSUME NEW n PROVE LoadedUpTo(b, n) => LoadedUpTo(b, n)'
    BY <2>1 DEF LoadedUpTo
  <2> QED
    BY <2>1, <2>2 DEF LoadedKnown
<1>3. ASSUME NEW v \in Worker, pc'[v] \in Loading, cur'[v] \notin raced'
      PROVE  bundles'[cur'[v]] = certFile'[cur'[v]]
  <2>1. cur[v] # NoBundle
    BY <1>3 DEF Loading
  <2>2. /\ cur'[v] = cur[v] /\ cur[v] \in Bundle /\ cur[v] \notin raced /\ pc[v] \in Loading
        /\ cur[v] \notin raced'
    BY <1>3, <2>1 DEF CertInv, TypeOK, WorkersOK
  <2>3. bundles'[cur[v]] = bundles[cur[v]]
    BY <2>2
  <2> QED
    BY <2>2, <2>3 DEF CertInv, LoadedInv
<1>4. DomInv'
  <2>1. \A v \in Worker : cur[v] = NoBundle => dom[v] = 1
    BY DEF CertInv, TypeOK, WorkersOK
  <2> QED
    BY <2>1 DEF CertInv, DomInv
<1>5. RunsInv'
  <2>1. \A v \in Worker : cur[v] = NoBundle => pc[v] \notin Deploying
    BY DEF CertInv, TypeOK, WorkersOK, Deploying
  <2> QED
    BY <2>1 DEF CertInv, RunsInv
<1> QED
  BY <1>1, <1>2, <1>3, <1>4, <1>5 DEF LoadedInv

\* The invariant holds at the start.
LEMMA CertInit == Init => CertInv
<1> SUFFICES ASSUME Init PROVE CertInv
  OBVIOUS
<1>1. RacedInv /\ MetInv /\ DomInv
  BY DEF Init, RacedInv, MetInv, DomInv
<1>2. FilesInv /\ RunsInv /\ TargetInv
  BY DEF Init, NoRuns, FilesInv, RunsInv, TargetInv, TargetKnown, Written
<1>3. LoadedInv /\ PrunedStaysOut
  BY DEF Init, Nothing, LoadedInv, LoadedKnown, PrunedStaysOut, Loading
<1> QED
  BY <1>1, <1>2, <1>3, TypeInit DEF CertInv

\* What a step leaves to show, once the types are known.
Rest ==
    /\ RacedInv /\ MetInv /\ PrunedStaysOut /\ FilesInv /\ RunsInv /\ TargetInv /\ LoadedInv
    /\ DomInv

\* A step that leaves every bundle, file, target and position alone.
LEMMA QuietStep ==
    ASSUME CertInv, UNCHANGED <<files, tls, target, runs, doubt, cur, got, dom, key, met>>,
           raced \subseteq raced',
           \A b \in Bundle \ raced' :
             \/ bundles'[b] = bundles[b]
             \/ bundles'[b] = 0 /\ \A v \in Worker : cur[v] # b,
           \A v \in Worker : pc'[v] = pc[v] \/ (cur[v] = NoBundle /\ pc'[v] \in {"idle", "next"}),
           RacedInv', PrunedStaysOut'
    PROVE  Rest'
<1>1. \A v \in Worker : cur[v] = NoBundle => pc'[v] \in {"idle", "next"}
  BY DEF CertInv, TypeOK, WorkersOK
<1>2. MetInv'
  BY DEF CertInv, MetInv
<1>3. TargetInv'
  BY TargetFrame DEF CertInv, files
<1>4. FilesInv' /\ LoadedInv' /\ DomInv' /\ RunsInv'
  BY <1>1, ElsewhereStep
<1> QED
  BY <1>2, <1>3, <1>4 DEF Rest

\* A worker turns to a bundle.
LEMMA NextRequestStep ==
    ASSUME CertInv, NEW w \in Worker, NEW b \in Bundle, NextRequest(w, b)
    PROVE  Rest'
<1> DEFINE others == {v \in Worker : cur[v] = b}
<1>1. /\ cur[w] = NoBundle /\ b # NoBundle
      /\ \A v \in Worker : cur[v] = NoBundle => pc[v] \in {"idle", "next"}
  BY CertificatesAssumption DEF NextRequest, CertInv, TypeOK, WorkersOK
<1>2. /\ pc'[w] \in {"ensure", "obtain", "readCert"}
      /\ cur'[w] = b /\ todo'[w] = todo[w] \ {b} /\ b \in todo[w]
      /\ \A v \in Worker : v # w => pc'[v] = pc[v] /\ cur'[v] = cur[v] /\ todo'[v] = todo[v]
  BY DEF NextRequest, GoTo, CertInv, TypeOK, WorkersOK
<1>3. /\ raced' = IF others # {} THEN raced \cup {b} ELSE raced
      /\ met' = IF others # {} THEN met \cup others \cup {w} ELSE met
      /\ doubt' = doubt \cup {t \in Target : \E v \in others : runs[v][t] = "cert"}
      /\ UNCHANGED <<files, bundles, tls, target, runs, kind, got, dom, key, managed, pruning>>
  BY DEF NextRequest
<1>4. w \notin met
  BY <1>1, CertificatesAssumption DEF CertInv, MetInv, TypeOK, ConfigOK
<1>5. RacedInv'
  BY <1>1, <1>2, <1>3 DEF CertInv, RacedInv
<1>6. MetInv'
  <2>1. ASSUME NEW v \in Worker, NEW x \in Worker, v # x, cur'[v] = cur'[x]
        PROVE  cur'[x] = NoBundle \/ x \in met'
    <3>1. CASE v = w \/ x = w
      BY <1>2, <1>3, <2>1, <3>1
    <3>2. CASE v # w /\ x # w
      BY <1>2, <1>3, <2>1, <3>2 DEF CertInv, MetInv
    <3> QED
      BY <3>1, <3>2
  <2>2. ASSUME NEW x \in met' PROVE cur'[x] \in raced'
    <3>1. x \in Worker
      BY <1>3, <2>2 DEF CertInv, TypeOK, WorkersOK
    <3>2. CASE x \in met
      BY <1>2, <1>3, <1>4, <3>1, <3>2 DEF CertInv, MetInv
    <3>3. CASE x \notin met
      BY <1>2, <1>3, <2>2, <3>1, <3>3
    <3> QED
      BY <3>2, <3>3
  <2> QED
    BY <2>1, <2>2 DEF MetInv
<1>7. PrunedStaysOut'
  BY <1>3 DEF CertInv, PrunedStaysOut
<1>8. FilesInv' /\ LoadedInv' /\ DomInv' /\ RunsInv'
  BY <1>1, <1>2, <1>3, ElsewhereStep
<1>9. TargetInv'
  <2>1. ASSUME NEW v \in Worker \ met, NEW t \in Target \ doubt', runs[v][t] = "cert"
        PROVE  /\ cur'[v] = cur[v] /\ v \notin met'
               /\ certFile'[cur[v]] = certFile[cur[v]] /\ keyFile'[cur[v]] = keyFile[cur[v]]
    <3>1. v # w
      BY <1>1, <2>1 DEF CertInv, RunsInv, Deploying
    <3>2. v \notin others
      BY <1>3, <2>1
    <3> QED
      BY <1>2, <1>3, <2>1, <3>1, <3>2 DEF files
  <2> QED
    BY <1>3, <2>1, TargetFrame DEF CertInv
<1> QED
  BY <1>5, <1>6, <1>7, <1>8, <1>9 DEF Rest

\* A worker goes on with its bundle.
LEMMA BundleStepStep ==
    ASSUME CertInv, TypeOK', NEW w \in Worker, BundleStep(w)
    PROVE  Rest'
<1>1. PICK a \in Bundle : cur[w] = a
  BY BundleStepFrame DEF CertInv
<1>2. /\ dom[w] \in 1 .. Len(DomainsOf[a]) /\ OthersStay(w) /\ SameCerts(w)
      /\ \A b \in Bundle : b # a => SameBundle(b)
      /\ UNCHANGED <<todo, managed, pruning, raced>>
  BY <1>1, BundleStepFrame DEF CertInv, request, config
<1>3. RacedInv' /\ MetInv'
  BY <1>2, MeetingFrame
<1>4. RunsInv' /\ DomInv'
  BY BundleStepRest
<1>5. PrunedStaysOut'
  <2>1. a \in managed \cup raced
    BY <1>1, CertificatesAssumption DEF CertInv, RacedInv
  <2> QED
    BY <1>2, <2>1 DEF SameBundle, CertInv, PrunedStaysOut
<1>6. w \notin met /\ cur'[w] = a => FilesKnown(w, a)'
  BY <1>1, FilesLocal
<1>7. /\ a \notin raced => LoadedKnown(a)'
      /\ a \notin raced /\ cur'[w] = a /\ pc'[w] \in Loading => bundles'[a] = certFile'[a]
  BY <1>1, LoadedLocal
<1>8. FilesInv' /\ LoadedInv'
  BY <1>1, <1>2, <1>6, <1>7, OtherBundles
<1>9. TargetInv'
  BY TargetBundleStep
<1> QED
  BY <1>3, <1>4, <1>5, <1>8, <1>9 DEF Rest

\* Every step preserves the invariant.
LEMMA CertStep == CertInv /\ [Next]_vars => CertInv'
<1> SUFFICES ASSUME CertInv, [Next]_vars PROVE Rest'
  BY TypeStep DEF CertInv, Rest
<1> USE CertificatesAssumption DEF deploy, hand, config
<1>1. TypeOK'
  BY TypeStep DEF CertInv
<1>2. CASE (\E n \in 1 .. issued : Age(n)) \/ UNCHANGED vars
  <2>1. UNCHANGED <<files, bundles, tls, deploy, pc, request, hand, config>>
    BY <1>2 DEF Age, vars
  <2>2. RacedInv' /\ PrunedStaysOut'
    BY <2>1 DEF CertInv, RacedInv, PrunedStaysOut, request
  <2> QED
    BY <2>1, <2>2, QuietStep
<1>3. ASSUME NEW B \in SUBSET Bundle, ReplaceZones(B) PROVE Rest'
  <2>1. UNCHANGED <<files, bundles, tls, deploy, pc, request, hand>> /\ raced \subseteq raced'
    BY <1>3 DEF ReplaceZones
  <2>2. RacedInv'
    BY <1>3 DEF ReplaceZones, CertInv, RacedInv, request
  <2>3. PrunedStaysOut'
    BY <1>3 DEF ReplaceZones, PrunedStaysOut
  <2> QED
    BY <2>1, <2>2, <2>3, QuietStep
<1>4. ASSUME PruneUnmanagedBundles PROVE Rest'
  <2>1. UNCHANGED <<files, tls, deploy, pc, request, hand, managed, raced>>
    BY <1>4 DEF PruneUnmanagedBundles
  <2>2. RacedInv'
    BY <2>1 DEF CertInv, RacedInv, request
  <2>3. PrunedStaysOut'
    BY <1>4 DEF PruneUnmanagedBundles, PrunedStaysOut
  <2>4. ASSUME NEW b \in Bundle \ raced
        PROVE  \/ bundles'[b] = bundles[b]
               \/ bundles'[b] = 0 /\ \A v \in Worker : cur[v] # b
    BY <1>4 DEF PruneUnmanagedBundles, CertInv, RacedInv
  <2> QED
    BY <2>1, <2>2, <2>3, <2>4, QuietStep
<1>5. ASSUME NEW w \in Worker, NEW B \in SUBSET managed, pc[w] = "idle", GoTo(w, "next"),
             todo' = [todo EXCEPT ![w] = B],
             UNCHANGED <<files, bundles, tls, deploy, hand, config>>
      PROVE  Rest'
  <2>1. \A v \in Worker : pc'[v] = pc[v] \/ (cur[v] = NoBundle /\ pc'[v] \in {"idle", "next"})
    BY <1>5 DEF GoTo, CertInv, TypeOK, WorkersOK
  <2>2. RacedInv'
    BY <1>5 DEF CertInv, TypeOK, WorkersOK, RacedInv
  <2>3. PrunedStaysOut'
    BY <1>5 DEF CertInv, PrunedStaysOut
  <2> QED
    BY <1>5, <2>1, <2>2, <2>3, QuietStep
<1>6. ASSUME StartSync PROVE Rest'
  BY <1>5, <1>6, WorkerFacts DEF StartSync
<1>7. ASSUME NEW k \in {"force", "deploy"}, NEW B \in SUBSET Bundle,
             NEW t \in Target \cup {NoTarget}, StartManual(k, B, t)
      PROVE  Rest'
  <2>1. "manual" \in Worker
    BY <1>7, WorkerFacts DEF StartManual, CertInv, TypeOK
  <2> QED
    BY <1>5, <1>7, <2>1 DEF StartManual
<1>8. ASSUME NEW w \in Worker, Return(w) PROVE Rest'
  <2>1. \A v \in Worker : pc'[v] = pc[v] \/ (cur[v] = NoBundle /\ pc'[v] \in {"idle", "next"})
    BY <1>8 DEF Return, GoTo, CertInv, TypeOK, WorkersOK
  <2>2. RacedInv' /\ PrunedStaysOut'
    BY <1>8 DEF Return, CertInv, RacedInv, PrunedStaysOut
  <2> QED
    BY <1>8, <2>1, <2>2, QuietStep DEF Return
<1>9. ASSUME NEW w \in Worker, NEW b \in Bundle, NextRequest(w, b) PROVE Rest'
  BY <1>9, NextRequestStep
<1>10. ASSUME NEW w \in Worker, BundleStep(w) PROVE Rest'
  BY <1>1, <1>10, BundleStepStep
<1>11. ASSUME NEW w \in Worker, DeployAction(w) PROVE Rest'
  BY <1>1, <1>11, DeployActionStep DEF Rest
<1>12. ASSUME Crash PROVE Rest'
  <2>1. RacedInv' /\ MetInv' /\ DomInv'
    BY <1>12 DEF Crash, RacedInv, MetInv, DomInv
  <2>2. FilesInv' /\ PrunedStaysOut'
    BY <1>12 DEF Crash, Nothing, FilesInv, PrunedStaysOut
  <2>3. RunsInv' /\ LoadedInv'
    BY <1>12 DEF Crash, Nothing, NoRuns, RunsInv, LoadedInv, LoadedKnown, Loading
  <2>4. TargetInv'
    <3>1. /\ \A t \in Target : target'[t].status = "none"
          /\ \A v \in Worker, t \in Target : runs'[v][t] = "none"
      BY <1>12 DEF Crash, NoRuns, CertInv, TypeOK, StoresOK
    <3> QED
      BY <3>1 DEF TargetInv, TargetKnown, Written
  <2> QED
    BY <2>1, <2>2, <2>3, <2>4 DEF Rest
<1> QED
  BY <1>2, <1>3, <1>4, <1>6, <1>7, <1>8, <1>9, <1>10, <1>11, <1>12
     DEF Next, WorkerStep, BundleStep, DeployAction

\* So it always holds.
LEMMA CertInvariant == Spec => []CertInv
BY CertInit, CertStep, PTL DEF Spec

\* A bundle that a reload has removed is out of the store for good, unless a worker was at it
\* or about to be: pruneUnmanagedBundles does not miss one and only such a worker's PutBundle
\* brings one back.
THEOREM PrunedStaysOutHolds == Spec => []PrunedStaysOut
<1>1. CertInv => PrunedStaysOut
  BY DEF CertInv
<1> QED
  BY <1>1, CertInvariant, PTL

\* A target recorded as deployed has a certificate and a key of one issue, for any bundles that
\* share it and any request that names it, after any crashes, failed saves and deployments;
\* unless its last deployment overlapped with another there, took files that another worker was
\* at, or took a torn pair (Filesystem.Save, Service.DeployBundle, deployBundle).
THEOREM DeployedPairMatchesHolds == Spec => []DeployedPairMatches
<1>1. CertInv => DeployedPairMatches
  BY DEF CertInv, TargetInv, TargetKnown, Ahead, DeployedPairMatches
<1> QED
  BY <1>1, CertInvariant, PTL

\* Clients of a bundle's domains get the certificate the store shows for the bundle, when
\* nobody is at it, no two workers have met at it, and its domains are its own (PutBundle,
\* LoadPair, Set, GetCertificate).
THEOREM ServedIsStoredHolds == Spec => []ServedIsStored
<1>1. ASSUME CertInv PROVE ServedIsStored
  <2> SUFFICES ASSUME NEW b \in Bundle, bundles[b] # 0, Untouched(b), OwnDomains(b),
                      NEW i \in DOMAIN DomainsOf[b]
               PROVE  GetCertificate(DomainsOf[b][i]) = bundles[b]
    BY DEF ServedIsStored
  <2>1. LoadedUpTo(b, Len(DomainsOf[b]))
    BY <1>1 DEF CertInv, LoadedInv, LoadedKnown, Untouched
  <2>2. DOMAIN DomainsOf[b] = 1 .. Len(DomainsOf[b]) /\ Len(DomainsOf[b]) \in Nat
    BY DomainFacts
  <2>3. PICK j \in DOMAIN DomainsOf[b] : DomainsOf[b][j] \notin Wild
    BY DEF OwnDomains
  <2>4. defaultCert # 0
    BY <2>1, <2>2, <2>3 DEF LoadedUpTo
  <2>5. certs[DomainsOf[b][i]] = bundles[b]
    BY <2>1, <2>2 DEF LoadedUpTo
  <2> QED
    BY <2>4, <2>5 DEF GetCertificate
<1> QED
  BY <1>1, CertInvariant, PTL
=============================================================================
