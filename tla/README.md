# TLA+ model of domux

domux is a home gateway: one server process discovers labelled containers
(Docker or Podman, locally and through agents), serves them through an HTTP(S)
proxy, keeps DNS records at the public address (DDNS), obtains and deploys
certificates (ACME DNS-01), and is managed through an API that edits
`config.yaml` and reloads the process in place.  This directory models the
parts of it that keep state and are hard to test, checks them with TLC, and
proves their safety properties with TLAPS.

Paths below are relative to the repository (`src/`).  `PROJECT.json` maps every
definition to the lines it models.

## 1. Inventory

| component | state | operations | interacts with |
|---|---|---|---|
| configuration manager (`internal/platform/config`) | `config.yaml`, `.tmp`, `Manager.mu` | `Update`: load, mutate, validate, write, rename | called by the API handlers |
| API mutations (`internal/platform/api/server.go`) | none of their own | create, update, rename, delete of zones, bundles, providers, apps, agents, targets, the server runtime | `Manager.Update`, then `reloadManagedConfig` |
| reload and `runtimeManager` (`cmd/domux/main.go`) | agent pool, discoverers, watch contexts, DDNS service, `deploySvc.Agent.Pool` | `buildRuntime`, `seedConfigState`, `SetDDNS`, `Replace`, agent refresh | memory store, watchers, timer jobs |
| memory store (`internal/platform/store`) | one map per section | `Replace…`, `Put…`, `List…`, each atomic | everything |
| route refresh (`cmd/domux/main.go`, `internal/discovery`) | routes, applications, route table, `refreshMu`, event channels | discover, merge, rename, replace, swap | containers, custom apps, proxy |
| DDNS (`internal/ddns`) | sync states; the records at the providers | `SyncZone`, `syncRecord`, `Upsert` of four providers | public address, providers, memory store |
| job scheduler (`internal/platform/job`) | jobs, contexts, `running` flags | `Every`, `Start`, `Stop`, `run` with retries | all periodic work |
| certificates (`internal/certs`, `internal/proxy/tls`) | certificate and key files, bundles, TLS store, targets | ensure, force, save, load, deploy | ACME, memory store, TLS handshakes |
| agent registry (`api/server.go`, `internal/agent/pool`, `cmd/domux-agent`) | pending agents, pool; an agent's attempts | register with retries, approve, delete, refresh | configuration manager |
| configuration format (`config.go`, `internal/core/types.go`) | none | tree and legacy YAML, `Validate`, `CertificatePlans` | every load and write |
| names, labels and targets (`internal/dns/authzone`, `internal/discovery/docker`, `renameConflictingRoute`) | none | pure functions | DDNS, discovery, TLS |
| HTTP forwarding, web console, challenges, signing, system resources | none worth modelling | I/O | |

What is hard in this code:

* **Concurrency without locks.** `Manager.Update` is serialised; the reload
  after it is not.  The local route refresh of a start or a reload runs outside
  `refreshMu`.  DDNS and certificate syncs of the timer, the start and the
  manual actions take no lock at all.  `Scheduler.Stop` does not wait.
* **State captured and used later.** An agent refresh works on the pool it was
  given; a refresh on the discoverers it was given; `syncRecord` on a state it
  read before a network call.
* **Partial failure and crashes.** The file is written and the reload fails; a
  certificate is saved and its key is not; a provider acts on a call whose
  answer is lost; records are deleted and not recreated; a call without a
  timeout never returns and holds its job.
* **Lost and coalesced events** of the container runtimes.
* **Something must eventually happen**: requests are answered, the table
  follows the containers, DNS follows the address, certificates are renewed.

`PROJECT.json` lists each hazard at its line with the properties that guard it.

## 2. Modules

| module | models | checked by | proofs |
|---|---|---|---|
| `Configuration` | requests, the mutators' checks, `Validate`'s references | through the two below | |
| `ConfigRegister` | abstract: what the API promises about `config.yaml` | through the two below | |
| `ControlPlane` | `Manager.Update`, `reloadManagedConfig`, `runtimeManager`, agent refresh, crash, restart; implements `ConfigRegister` | `MCControlPlane` | `ControlPlaneProofs` |
| `AgentRegistry` | the agent's registration loop, pending agents, approval; composed with `ConfigRegister` | `MCAgentRegistry` | `AgentRegistryProofs` |
| `RouteRefresh` | watchers, `refreshRoutesWithDiscoverers` and all that starts it | `MCRouteRefresh` | `RouteRefreshProofs` |
| `DDNSSync` | `SyncZone`, `syncRecord`, the providers' `Upsert` | `MCDDNSSync` | `DDNSSyncProofs` |
| `Scheduler` | `Scheduler` and `scheduledJob` | itself | `SchedulerProofs` |
| `Certificates` | `syncCertificateRequests`, `EnsureCertificate`, `Save`, the TLS store, `DeployBundle`, pruning | `MCCertificates` | `CertificatesProofs` |
| `Names` | `ResolveAuthZone`, `ResolveRecordName`, `renameConflictingRoute` | `Algorithms` | |
| `ZonePlans` | `CertificatePlans`, bundle and storage names, the lookup of `GetCertificate` | `Algorithms` | |
| `ConfigFormat` | `UnmarshalYAML`, `normalizeLegacyModel`, `MarshalYAML`, zones and apps in `Validate` | `Algorithms` | |
| `DockerTarget` | `snapshotFromDocker`, `ParseLabels`, `ResolveTarget` | `Algorithms` | |
| `Algorithms` | one call at a time of the functions of the four above | `MCAlgorithms` | `AlgorithmsProofs`, on `FlattenProofs` |

Operators named `…Unchecked`, `…OffByOne` and so on, marked "Mutant", are
broken variants of the definition that follows them.  No specification uses
them; they exist to show that each property notices a plausible bug.

### ControlPlane

A configuration maps every managed object to a value or to `Absent`; a value is
abstracted to the objects it names (`Refs`) and to whether a discoverer can be
built from it (`Unbuildable`: an endpoint that `Validate` does not look at).
Each handler goes through `load`, `mutate`, `write`, `rename` under `mu`, and
then through `build`, `seed` (one step per `Replace…` call, in `SeedOrder`),
`sync` (one step per `PutAgent`), `ddns`, `swap`, `retire`, `watch` and `finish`
with no lock, as in the code.  A reload is named by the number of the write it
follows; `open`, `started` and `cancelled` are sets of those numbers and stand
for discoverers and their watch contexts.  Agent refreshes are tasks that hold
the pool they captured.  `Crash` clears memory at any point, `RunServer` starts
from the file, and an operator can repair a file the server cannot start from.
`phase = "settled"` and `clean` are history variables used to state
`SoloReloadSettles`.

A refreshed agent is put into the store under the name it reports (`Reported`)
when it answers and under its configured one when it does not.

Left out: the checks of single values, host duplicates, the route refresh at the
end of a reload and the pruning of bundles (in modules of their own).  `Crash` is
the death of the process; the files are not flushed before the rename, and what a
power failure leaves is not covered.  `PUT /zones/{name}` fixes a zone's name and
lets its domain change (`server.go:751`), which for the apps in it is a rename that
no request of the model makes: a zone keeps its domain here.

### ConfigRegister and the refinement

`ConfigRegister` says what a client may rely on: accepted requests change one
configuration one at a time; each takes effect at most once, whole, between its
arrival and its answer, on the configuration of that moment; what is refused or
fails early changes nothing.  It does not promise that a successful change is
answered with success (the reload may fail) or answered at all (a crash).
`ControlPlane` implements it with `conf` mapped to `file`, `req` to `op`, `done`
to the handlers that have renamed the file and not yet answered, and `alive` to
`up`; the rename is the moment of effect.  `ImplementsRegister` is checked by TLC
and proved.

### AgentRegistry

Composes the register with the agents: an agent process tries to register up to
`MaxAttempts` times (12 in the code), `registerAgent` puts its address into the
pending list, an operator's `approvePendingAgent` captures the pending agent,
updates the configuration and then, in a step of its own, deletes the pending
entry.  Answers can be lost, agents restarted with another address, the server
can crash, and every other request of the API runs beside it.  Using
`ConfigRegister` instead of `ControlPlane`'s steps is justified by the
refinement.  `excused` records the agents whose registration something else took
away.

### RouteRefresh

One process per unlocked refresh, one for refreshes of everything under
`refreshMu` (those waiting for the mutex are alike) and one per source, for its
watcher and the manual action.  Each
step between two accesses to shared state is an action: lock, ask one
discoverer, read the custom apps, merge, replace the routes, read the snapshots
and replace the applications, swap the table and unlock.  The slices are sorted
by host with an unstable sort and then turned into maps; `KeyedMaps` allows
either of two routes with the same key to win.  `excused` and `good` are
history variables: they record the nodes about which something was really lost
(an event on a broken stream, a failed discovery, an unlocked overwrite), so
that `RemoteRoutesCurrent` can claim everything else.  Routes are told apart by
the ids the code gives them: source and host for an agent's route and for a
renamed one, container and host for a local one, the app's name and its host for
a custom app.

A host is the sequence of the words between its dashes, for containers and custom
apps alike, and `RenamedHost` joins a host and the node's slug (`Slug`, one word in
the runs and any host's words in the theorems) as `renameConflictingRoute` does.  A renamed host can be another custom app's: the
code does not look at it again, and beside the custom apps `app` and `app-edge`
the container `app` of the agent `edge` is renamed onto the second.
`CustomKeepsHost` therefore says that a discovered route has a custom app's host
only if it was just renamed there out of another custom app's way; that it
happens, and that the route is renamed once more when it is merged again, is part
of the run `route_custom`.  `TypeOK` says which routes there can be at all: custom
apps', and routes to containers whose host begins with the one their labels ask
for.

### DDNSSync

A record is one provider, host and type, and has a list of values at its
provider, to begin with any of up to `MaxValues` (`given`, which the properties
refer to).  A syncer detects the addresses, takes its records one by one, decides
on the stored state, and performs `Upsert` call by call.  A call can fail before
or after the provider has acted on it, or never return (`Hang`: the providers'
`http.DefaultClient` has no timeout and the sync's context no deadline), and the
process can restart between any two steps.  cloudflare and alidns look at the
first record in the answer only, whichever the provider puts first, and update
that one in place: a host that came with several values keeps as many, and
`Served` says so.  What spaceship has left after a delete is the set of the values
that were not deleted, in some order.  TTLs, which cloudflare and spaceship compare
too, are left out.

### Scheduler

Every start has a number that names its context; a loop is the goroutine of a
job in one start.  The loop of an earlier start can still be inside a run when
the next start's loops tick.  A run need not return: a DDNS call waits until its
context ends (`hung`), a local reload command does not even notice that (`stuck`).
The program starts its scheduler once; `Stop` and a second `Start` are the
component's own promise.

### Certificates

An issue is a number; a bundle has a certificate file, a key file and their two
temporary files, which workers share.  The timer ensures all bundles; a manual
action forces a renewal or deploys.  `Torn` is what `tls.LoadX509KeyPair` rejects.
All bundles are issued to one ACME account, whose key `loadOrCreateUser` creates
with a plain `os.WriteFile`: `account` is `bad` between the truncation and the
write, and stays so after a crash there.  A reload replaces the configured bundles
(`managed`) and then, as a step of its own, prunes the store.

A deployment goes through the targets it is for (`TargetNames`: a bundle's own, or
the one that a manual request names, whether it is the bundle's or not), writes
certificate and key to each, and records the outcomes at the end.  Bundles can
share a target.  A local reload command, or ssh, can hang for good (`stuck`); an
agent's client gives up after 15 seconds, and the agent is taken to have stopped
writing by then.

Three history variables say where the code promises nothing.  `raced` has the
bundles at which two workers, or a worker and the reload that removed them, were
at work at once, and `met` the workers that are at a bundle with another.  `doubt`
has the targets whose last certificate was written while another worker was
writing there, by a worker that had met another, or from torn files; a target
leaves it with the next deployment that none of this is true of.
`ServedIsStored` speaks of bundles with domains of their own (`OwnDomains`): where
two bundles share a domain the one loaded last is served, and a store that holds
wildcards only serves nobody.  Bundles have storage names of their own here;
`ZonePlans` has those that do not.

### Names, ZonePlans, ConfigFormat, DockerTarget, Algorithms

Pure functions, as operators, each with a property that says what the function
is for in other terms than its own.  A domain name is a sequence of labels, a
label a sequence of the words between dashes; a certificate is the set of names
it is for; a network name is one word or a project and a word.

The name of a zone or a bundle is a sequence of words and of the characters that
`QualifiedBundleName` and `storageNameForBundle` treat specially, so that two plans
can have one name or one directory, and `Certificate` is found by directory.  Zones
`a:b` and `a` with a bundle `b`, or `x/a` and `y/a`, share a certificate;
`PlannedHostsCovered` holds for names of one word each (`NamedPlainly`) and wherever
the plans for a host have directories of their own.

A port has a protocol and bindings with host addresses, of which
`snapshotFromDocker` keeps neither; `Published` takes the protocol that the map's
iteration comes to last as a parameter.  `LeadsToContainer` says what a target has
to be for a domux that runs on the host or in a container, where 127.0.0.1 is its
own, and `Misled` names the three things the code does not see: that, a port of
udp, and a port published where domux cannot get.

Names are taken as trimmed.  The code compares legacy app names untrimmed
(`config.go:417`) and writes them trimmed (`config.go:194`), which only names with
white space at their ends can tell.  `ZoneOfApp` goes through the zones in the
order of the configuration, `buildCustomAppRoutes` in that of `ListZones`; they
differ only when two zones answer to one name, which `ServedInItsZone` excepts.

`Algorithms` calls them one at a time over the inputs that `MCAlgorithms` enumerates: all
names of up to three labels over two with every set of answering zones, nested
zones with every small choice of bundles and with names that collide, legacy and
tree files with up to two zones and two apps, and containers with and without
networks, bindings of either protocol on every kind of address, and listed ports.

## 3. Runs

Run each with `tlc -config <cfg> <module>`.  "Violation" runs document a
disagreement between the code and what the repository says of it.

| run | instance | shows |
|---|---|---|
| `two` | 2 handlers, an agent and a deploy target that may name it, 2 values, one of which nothing can be built from, 2 writes | types; the file stays valid; no lost update; one runtime when quiet; a lone reload settles everything; the atomic register is implemented; every request is answered |
| `registry` | 1 agent, 2 handlers, 2 addresses, 2 attempts, 2 launches | types; an accepted registration is kept; requests and registrations end |
| `overlap` (violation) | 2 handlers, a zone, an app and an agent | overlapping reloads leave the older configuration in memory |
| `route_custom` | a local and a remote container on a custom app's host, a second custom app on the host one of them is renamed to, reloads, 2 disturbances | no event of an agent is lost; custom apps keep their host; the dashboard shows what is served |
| `route_live` | 1 agent, 1 container, the unlocked refreshes of a start and of reloads | types; the table converges |
| `route_local` (violation) | 1 local container, 1 disturbance | the container stops, the watcher's refresh under `refreshMu` deals with the event, and the route stays in the store and the table |
| `ddns` | 1 syncer, cloudflare A and spaceship AAAA, up to 2 values each to begin with, 2 failures, hangs or restarts | types; a stored success is true; records follow the address |
| `ddns_race` (violation) | timer and manual sync, godaddy | a stored success can be false for good |
| `jobs` | 2 jobs, 2 starts, retries, runs that hang | types; runs do not overlap; one live loop per job; cancelled loops end; jobs run again; unless a run never returns |
| `cert` | 2 bundles, one with apex and wildcard that goes to a target, the other sent there by a manual request; timer and 1 manual action, 1 disturbance | types; deployed pairs match; the served certificate is the stored one; a pruned bundle stays out; renewed unless stopped |
| `cert_torn` (violation) | 1 bundle, a crash during a renewal | a torn pair is never repaired, with the account's key whole and nothing hanging |
| `algorithms` | all small inputs | records reach their zone; renamed routes stay in theirs; planned hosts get a covering certificate; files survive being written; apps are served in their zone; routes lead to their container |

**Bounds.** `MaxCommits` bounds the configurations written: with two, a failed
reload is followed by a good one and two reloads overlap in every way; the
theorems cover any number.  The runs' agent reports its own name; the theorems
hold for every `Reported`.  `MaxAttempts = 2` lets a lost answer be followed by a
second registration, and `MaxLaunches = 2` lets an agent come back with another
address while it is being approved.  Renames of apps, and the kinds of objects that no
instance has, are covered by the theorems only, which hold for every `Object`,
`KindOf` and `Refs`.  `MaxDisturb` and `MaxFails` bound what the environment
does (changes, failures, crashes, reloads, manual refreshes), never what the
program does; two are enough for a failure during the recovery from another one.
The liveness of the route table, whose graph is larger, is checked with one, and so
is `cert`: that instance also passed with two disturbances, and with two manual
actions, in longer runs.  `route_custom` also passed with three
disturbances from no custom app.  `MaxValues = 2` gives in-place providers a second
record.  `MaxChanges = 2` lets an address change and change back.  `MaxStarts = 2`
lets one old run meet one new one.  Deadlock is checked except where the program
may really stop: in `jobs`, where the scheduler may be stopped for good, and in `ddns`
and `cert`, where every worker can be held by a call that never returns.

**Symmetry** is used only in `overlap`, over handlers, which no definition tells
apart.

**Fairness.** A goroutine that can run does (`WF` of its steps).  Go's mutexes
serve the longest waiter once it has starved for a millisecond, hence `SF` for
acquiring `Manager.mu` and `refreshMu`.  Tickers keep firing.  Discovery and
snapshots return because their contexts end after 15 seconds, IP detection and the
agents' clients because they have timeouts.  The DDNS providers' calls, local reload
commands and ssh have none; that they return is not assumed but is a step, with a
step that hangs for good beside it, and the liveness properties say what is left
when it does.  lego's `Obtain` is taken to end, by its own timeouts, in `Certificates`;
in `Scheduler` a run may be stuck there.  An agent's attempt is assumed to end in an
answer or an error, although its `http.DefaultClient` has no timeout
(`cmd/domux-agent/main.go:157`): `RequestsEnd` leans on the server's answering, and
the register's requests are answered because `ControlPlane`'s are.  A `select` with two ready cases chooses at random,
hence `SF` for leaving a loop whose context is done.  The environment (crashes,
failures, changes, manual actions) is never assumed to act; its bounds end it.

## 4. Proofs

Proved for all values of the constants that satisfy the modules' assumptions,
which TLC evaluates on each run.

`ControlPlaneProofs`: `TypeCorrect`, `FileStaysValid`, `UpdatesAreNotLost`,
`RuntimeIsUnique`, `ReloadsSettle`, `ControlPlaneImplementsRegister`, along three
inductive invariants.

* `UpdateInv`: who is between load and rename holds the mutex, and what it has
  follows from the file: the file as read, then its mutation, validated, then
  the same in `tmp`.  Without the equality with the file neither validity after
  the rename nor the absence of lost updates is inductive.
* `RuntimeInv`: every open generation of discoverers is the current one, or is
  held by a reload that will hand it over or close it, and by one only
  (`IdsInv`, `PendingInv`, `RetiringInv`, `OpenInv`); a generation that is
  watched is the current one, or is cancelled, or is about to be (`WatchInv`).
  When no reload is under way only the current one is left.
* `SyncInv`: a clean reload has carried the file into memory up to the section
  it is at (`Carried`) and nothing reloads beside it.  A reload that begins
  clears `settled`; another that begins while one runs takes `clean` away.

* The refinement needs, beside `UpdateInv`, that an idle handler has no request
  (`IdleInv`).  The initial states map to initial states; the rename maps to
  `Commit`, because `UpdateInv` makes the renamed contents the mutation of the
  file it replaces, accepted and valid; refusals and failed writes to `Refuse`,
  the end of a reload, failed or not, to `Answer`; all else stutters.

`AgentRegistryProofs`: `RegistryTypes`, `RegistrationsAreKept` from `ApprovalInv`:
while an approval is under way, what it captured, and then what it configured, is
what the agent sent last, unless the agent is excused; so the final
`DeletePendingAgent` removes nothing that is not configured.

`SchedulerProofs`: `SchedulerTypes`, `NoOverlap`, `LoopsFollowStarts` from
`SchedulerInv`.  `RunsDoNotOverlap` becomes inductive with `RunningInv`
(`running` is set exactly while one loop of the job is in a run), and the types
with `LoopsInv` (a retry that is waited for is within the budget; starts to come
have no loops).

`RouteRefreshProofs`: `TypeCorrect`, `CustomAppsKeepTheirHost`,
`ProxiedIsServedHolds`, `AgentRoutesStayCurrent`.

* `CustomInv`: in the routes, in the table and in what any refresh is about to
  publish, the host of a custom app belongs to its own route alone, or to one that
  was renamed from another custom app's host in the same set.  A merge keeps it
  because `ApplyCustomRoutes` builds the set afresh: what had a custom app's host is
  renamed, and what has one afterwards was (`ApplyFacts`), on hosts and node names of
  any words.
* `ProxiedInv`: what the dashboard shows as proxied is covered by the table or by
  a refresh that is about to swap it in.  Without the second part it does not
  survive the step between the applications and the table.
* `RefreshInv`: the types, mutual exclusion under `refreshMu` (`MutexInv`), what a
  refresh may have asked for (`SelectInv`), and for each agent `CurrentInv`: what a
  refresh got from it (`GotOK`), is about to publish (`OutOK`), merges from
  another source (`KeptOK`), has stored (`StoredOK`), and what the routes and the
  table hold (`RoutesOK`, `TableOK`) is current, or the agent's watcher still has
  something to do that will bring it up to date.  The distinction between a
  watcher that has not yet asked (`Unheard`) and one that is merely not finished
  (`Busy`) is what makes it inductive.

`DDNSSyncProofs`: `TypeCorrect`, `SyncedIsServedWithoutOverlap`,
`SyncedIsServedByOneSyncer`, from `RecInv` and `StateInv` (types), `UpsertInv` (what
a syncer knows of its record at each position of `Upsert`) and `ServedInv` (a record
at an in-place provider has as many values as it came with if it came with several,
and at most one otherwise (`Fits`), and a stored success is true unless a syncer is writing that record).
An update in place keeps the number and puts the address among them
(`ReplacedFacts`, `WrittenServes`).  The first theorem about `SyncedMeansServed` assumes
`OneSyncAtATime`, that no two `SyncZone`s overlap; the run `ddns_race` shows that
it fails without.  The second has one syncer, for which that holds.

`CertificatesProofs`: `TypeCorrect`, `PrunedStaysOutHolds`,
`DeployedPairMatchesHolds`, `ServedIsStoredHolds`, from `CertInv`: whoever shares a
bundle with another worker or with its removal is in `raced` (`RacedInv`), and the
workers that share one are in `met` (`MetInv`); a worker alone at a bundle knows its
files at each position (`FilesInv`); a target not in doubt has a pair, or the one
worker that is writing there has written the certificate that its key belongs to
(`TargetInv`); and the TLS store has the bundle's certificate for every domain, or
for those before the one being loaded (`LoadedInv`).  Without the position of the
one writer the pair does not survive the step between certificate and key, and
without `met` that writer's two files need not be of one issue.

`AlgorithmsProofs`: `RecordsReachTheirZoneHolds`, `RenamedRoutesStayInZoneHolds`,
`PlannedHostsAreCoveredHolds`, `AppsAreServedInTheirZoneHolds`,
`RoutesLeadToTheirContainerHolds`, `FilesSurviveWritingHolds`, for names, zones,
files and containers of any size.  `CallInv` ties a result to its call; the rest are
lemmas about the functions.

* Names: suffixes label by label, the least index that answers, the certificates
  that `LoadCertificates` keeps for a domain, and what `renameConflictingRoute` does
  to the length of a host, which grows by labels or, for a single label, in its
  first one, and so never returns.
* Plans: what `storageNameForBundle` makes of a word and of two words joined by a
  colon (`StorageOfWord`, `StorageOfPair`), from which plans of zones with plain and
  different names have different directories (`PlanStorage`).
* Targets: the candidates begin with the network asked for and include every network
  (`CandidateFacts`), so the first hit is that network or some other with an address
  (`HostFacts`); a published port is a binding of one of the protocols, else a listed
  pair (`PublishedFacts`), and the port chosen was asked for or is exposed by some
  protocol (`PortFacts`): what is left when it is not udp is tcp.
* Files: a file of either form loads to zones with names (`LoadedFacts`).  Written and
  loaded again, the apps of each domain form one block (`WrittenFacts`): the reload
  renumbers the apps one to one (`Renumbers`) with the same names and hosts, so that
  `Validate` still holds and none is lost, and the entries of a domain are again
  exactly its block.

`FlattenProofs` has what the last needs about `FlattenSeq`, which the provers'
library does not cover.  Induction over an operator is out of reach; induction over
a set of numbers is not: a set that is missing some number up to n is missing a least
one (`BoundedInduction`, from the well-foundedness of `<`).  With it a function of all
intermediate results exists (`Parts`), ends in `FlattenSeq` and gives every element
its place (`PartsPositions`); a selection is a flattened sequence of singletons
(`PickedPositions`, `PickedInterval`), and selections of disjoint groups, one after the
other, are a permutation (`Regrouped`).  The selections in `SlugLabel` and
`MarshalYAML` are therefore written with `FlattenSeq`.

`AlgorithmsAssumption` types the inputs.

Assumptions that are more than types: no agent has the name of a container's
digest (`RouteRefreshAssumption`), a discovered route's host is its subdomain in
its zone, a managed domain is not a wildcard, and a container's networks are among
those of `NetworkOrder`, none of which is nameless (`AlgorithmsAssumption`).

Before each proof TLC checked the inductive invariant on an instance: for
`RefreshInv` on one with a local and a remote source, one with two agents, and one
with two hosts.

Only model-checked: liveness (`HandlersReturn`, `RequestsEnd`, `TableConverges`,
`DNSFollowsIP`, `CancelledLoopsEnd`, `JobsRunAgain`, `RenewedUnlessStopped`), which needs
fairness and `ENABLED` and is out of the prover's reach.

## 5. Findings

Each has a run whose counterexample shows it.

1. Overlapping API requests can leave the process with the older configuration (`overlap`).
2. Routes of stopped local containers survive the event's refresh until the
   minute's full refresh, because the runtime is `docker` to the watcher and
   `server` to its routes (`route_local`: no failure, no other refresh).
3. Two DDNS syncs at once can leave a record with an old address that every
   later sync takes for the new one (`ddns_race`).
4. A certificate and key left torn by a crash stop renewal for good (`cert_torn`);
   a forced renewal repairs it.

More came up while modelling and is stated without a run of its own, because no
document says otherwise; each is an exception that a property names, and the
property fails without it:

* an agent refresh that captured the pool before a deletion puts the deleted
  agent back into the store until the next reload (`SoloReloadSettles`);
* an agent that registers again, with another address, while it is being approved
  loses the newer registration; one that was told "pending" does not register
  again after the server has restarted and lost its pending list
  (`AcceptedIsKept`);
* a sync that began before a reload puts a pruned bundle back into the store
  (`PrunedStaysOut`);
* a manual deployment sends torn files as they are; workers that meet at a bundle
  can deploy a mixed pair, and so can two deployments, of any bundles, that meet at
  a target (`DeployedPairMatches`);
* an account key that a crash leaves half written, and a reload command that never
  returns, stop all renewal (`RenewedUnlessStopped`);
* a DDNS call that never returns stops the syncs until a restart (`DNSFollowsIP`,
  `JobsRunAgain`), and of a host with several records at cloudflare or alidns only
  one is brought up to date (`Served`);
* a route that is renamed for one custom app can take the host of another
  (`CustomKeepsHost`);
* a TLS store that holds wildcard certificates only refuses every handshake, and
  zones of the same name, or whose names make one directory, share one certificate
  (`PlannedHostsAreCovered`);
* to a domux in a container, containers on the host's network and Docker's published
  ports are routed to domux's own loopback; a udp port can be taken for a tcp one,
  and a port published on an address domux cannot reach for one it can
  (`RoutesLeadToTheirContainer`);
* a zone whose name is another zone's domain can capture that zone's apps
  (`AppsAreServedInTheirZone`).

Three more are visible in the operators: a name server lookup that fails sends a
record to an outer zone, `RecordsReachTheirZone` being relative to the zones that
answered; the default certificate is the first one
loaded and is never replaced (`Set`), and a container without an address in the
network its label names is silently reached through another one (`ResolveHost`).

## 6. What is left

Every safety property and the refinement that the passing runs check are proved for
all constants; liveness stays with TLC.

Could be added to the model: a bundle whose domains change (it keeps its
certificate until that is due), a zone whose domain changes, TTLs of records, an
agent that still writes a certificate after its client has given up.

The runs are kept few, so that the whole project is checked in minutes: new
questions go into an existing run where its instance can answer them.

## 7. Not modelled

* Forwarding of requests, HTTP clients, the web console, the installer and its
  script, system resources, logs: I/O without state of the program's own.
* The ACME protocol and the DNS-01 challenges: lego's; a request succeeds or fails.
* Signing and the providers' wire formats: unit tested, without state.
* Checks of single values (URLs, durations, provider options) and the server
  section of `config.yaml`: plain to read and unit tested.
* The job history and the deploy history beyond the last run: only shown.
* The unsynchronised assignment of `deploySvc.Agent.Pool`: a deployment uses the
  old pool or the new one, which the model allows; the data race is not modelled.
