---------------------------- MODULE RouteRefresh ----------------------------
(***************************************************************************)
(* How routes get from running containers into the proxy's route table:    *)
(* refreshRoutesWithDiscoverers and everything that starts it.             *)
(*                                                                         *)
(* A refresh asks the selected discoverers, merges what they found with    *)
(* the custom apps and, for one source, with the routes already stored,    *)
(* replaces the stored routes and the applications, and swaps the table.   *)
(* The timer, the watchers, the manual action and the full refresh that    *)
(* follows a start or a reload hold refreshMu; the local refresh of the    *)
(* start and of a reload does not.                                         *)
(*                                                                         *)
(* One zone is managed throughout, and every container and custom app asks *)
(* for one label in it.  A host is the sequence of the dash-separated      *)
(* words of that label, so that <<"app", "edge">> is app-edge.<zone>.  The *)
(* set of discoverers is fixed: ControlPlane models its replacement.       *)
(***************************************************************************)
EXTENDS Naturals, FiniteSets, Sequences, SequencesExt

CONSTANTS
    Local,          \* name of the local discoverer (the runtime's name)
    Agent,          \* names of the remote discoverers
    Container,
    NodeOf,         \* the discoverer that sees a container
    Word,           \* the words of hosts
    Slug,           \* slugLabel of the sources of routes
    HostOf,         \* the host a container's labels ask for
    AppHost,        \* the hosts custom apps can take
    InitApps,       \* the custom apps configured when the server starts
    Task,           \* which of the unlocked refreshes take place
    NoProc,
    MaxDisturb      \* bound: container changes, failures, lost streams, reloads, manual refreshes

Node == {Local} \cup Agent

\* The refreshes: without refreshMu those of Task, with it the full one, whoever asks for
\* it (those that wait for the mutex are alike), and one per watcher.
Proc == Task \cup {"full"} \cup Node

Host == Seq(Word) \ {<<>>}

ASSUME RouteRefreshAssumption ==
    /\ Local \notin Agent
    /\ Node \cap {"startup", "reload", "full", "server", "manual"} = {}
    /\ NodeOf \in [Container -> Node]
    /\ {"app", "node"} \subseteq Word
    /\ Slug \in [Agent \cup {"server"} -> Host]
    /\ HostOf \in [Container -> Host] /\ "" \notin Container
    /\ AppHost \subseteq Host
    /\ Container \cap Node = {}     \* no agent is named by the digest of a container
    /\ InitApps \subseteq AppHost
    /\ Task \subseteq {"startup", "reload"}
    /\ NoProc \notin Proc
    /\ MaxDisturb \in Nat

VARIABLES
    running,        \* the running containers
    apps,           \* custom apps of the MemoryStore
    stream,         \* nodes whose event stream is connected
    evt,            \* nodes with an event on its way to the watcher
    refreshCh,      \* nodes whose refresh channel holds its one token
    mu,             \* holder of refreshMu
    pc, todo, got, custom, out,     \* per refresh
    routes,         \* MemoryStore.routes
    applications,   \* MemoryStore.applicationList
    table,          \* RouteTable.routes
    disturb,        \* disturbances so far
    good,           \* history, per refresh: nodes discovered and unharmed since
    excused         \* history: nodes whose last word was lost

refresh == <<mu, pc, todo, got, custom, out>>
published == <<routes, applications, table>>
vars == <<running, apps, stream, evt, refreshCh, refresh, published, disturb, good, excused>>

-----------------------------------------------------------------------------
(* Routes.                                                                  *)

\* A local route carries LocalNodeName, a remote one its agent's name.
RouteSource(n) == IF n = Local THEN "server" ELSE n

\* The ID of a remote route names its host only, a local one its container.
BuildRoute(n, c) ==
    [id   |-> IF n = Local THEN <<c, HostOf[c]>> ELSE <<n, HostOf[c]>>,
     host |-> HostOf[c], source |-> RouteSource(n), container |-> c]

DiscoverRoutes(n) == {BuildRoute(n, c) : c \in {d \in running : NodeOf[d] = n}}

\* A custom app goes by its host's name.
CustomRoute(h) ==
    [id |-> <<"custom", h, h>>, host |-> h, source |-> "manual", container |-> ""]

BuildCustomAppRoutes(hosts) == {CustomRoute(h) : h \in hosts}

\* The host and the node's slug joined by a dash, told apart when one already ends in the
\* other.
RenamedHost(h, source) ==
    LET base == IF h = Slug[source] THEN Append(h, "app") ELSE h
        node == IF IsStrictSuffix(Slug[source], base) THEN Append(Slug[source], "node")
                                                      ELSE Slug[source]
    IN base \o node

\* Whether another route, or another custom app, has the new host is not looked at.
RenameConflictingRoute(r) ==
    LET host == RenamedHost(r.host, r.source)
    IN [r EXCEPT !.host = host, !.id = <<r.source, host>>]

MergeRoutesForSource(existing, source, refreshed) ==
    {r \in existing : r.source # source} \cup refreshed

\* Mutant: a discovered route keeps a host that a custom app has.
ApplyCustomRoutesUnrenamed(found, customRoutes) ==
    {r \in found : r.source # "manual"} \cup customRoutes

ApplyCustomRoutes(found, customRoutes) ==
    LET blocked == {r.host : r \in customRoutes}
    IN {IF r.host \in blocked THEN RenameConflictingRoute(r) ELSE r :
          r \in {q \in found : q.source # "manual"}} \cup customRoutes

\* What a map keyed by the field key can hold of the routes in S: the slices are sorted by
\* host with an unstable sort, so either of two routes with one key may be last.
KeyedMaps(S, key) ==
    {T \in SUBSET S : /\ \A r \in S : \E t \in T : t[key] = r[key]
                      /\ \A t, u \in T : t[key] = u[key] => t = u}

\* Mutant: an application shows the host its labels ask for.
BuildApplicationsByLabel(snapshots, rs) ==
    {[proxied |-> TRUE, container |-> c, host |-> HostOf[c]] : c \in snapshots}

\* An application of the dashboard: a custom app's route, a running container's
\* route, or a running container without one.
BuildApplications(snapshots, rs) ==
    {[proxied |-> TRUE, container |-> r.container, host |-> r.host] :
       r \in {q \in rs : q.source = "manual" \/ q.container \in snapshots}}
    \cup {[proxied |-> FALSE, container |-> c, host |-> HostOf[c]] :
            c \in {d \in snapshots : \A r \in rs : r.container # d}}

-----------------------------------------------------------------------------
Init ==
    /\ running \in SUBSET Container
    /\ apps = InitApps
    /\ stream = Node /\ evt = {} /\ refreshCh = {}
    /\ mu = NoProc
    /\ pc = [p \in Proc |-> IF p = "startup" THEN "discover" ELSE "idle"]
    /\ todo = [p \in Proc |-> IF p = "startup" THEN {Local} ELSE {}]
    /\ got = [p \in Proc |-> {}]
    /\ custom = [p \in Proc |-> {}]
    /\ out = [p \in Proc |-> {}]
    /\ routes = {} /\ applications = {} /\ table = {}
    /\ disturb = 0
    /\ good = [p \in Proc |-> {}]
    /\ excused = Node

Disturb == disturb < MaxDisturb /\ disturb' = disturb + 1

-----------------------------------------------------------------------------
(* The container runtimes and the watchers' event streams (Discovery.Watch). *)

\* What a refresh has learnt about the nodes in N is out of date for good.
Lose(N) ==
    /\ excused' = excused \cup N
    /\ good' = [p \in Proc |-> good[p] \ N]

\* A container starts or stops; without a stream nobody is told.
ContainerChange(c) ==
    /\ Disturb
    /\ running' = IF c \in running THEN running \ {c} ELSE running \cup {c}
    /\ IF NodeOf[c] \in stream
       THEN evt' = evt \cup {NodeOf[c]} /\ UNCHANGED <<good, excused>>
       ELSE Lose({NodeOf[c]}) /\ UNCHANGED evt
    /\ UNCHANGED <<apps, stream, refreshCh, refresh, published>>

\* Mutant: the channel has no buffer, so an event that meets a busy watcher is dropped.
WatchEventUnbuffered(n) ==
    /\ n \in evt
    /\ evt' = evt \ {n}
    /\ refreshCh' = IF pc[n] = "idle" THEN refreshCh \cup {n} ELSE refreshCh
    /\ UNCHANGED <<running, apps, stream, refresh, published, disturb, good, excused>>

\* The non-blocking send: a token that is already there is enough.
WatchEvent(n) ==
    /\ n \in evt
    /\ evt' = evt \ {n}
    /\ refreshCh' = refreshCh \cup {n}
    /\ UNCHANGED <<running, apps, stream, refresh, published, disturb, good, excused>>

\* The stream breaks with whatever it carries, and is opened again after watchRetryDelay.
StreamFails(n) ==
    /\ Disturb
    /\ n \in stream
    /\ stream' = stream \ {n}
    /\ evt' = evt \ {n}
    /\ Lose(evt \cap {n})
    /\ UNCHANGED <<running, apps, refreshCh, refresh, published>>

StreamRetry(n) ==
    /\ n \notin stream
    /\ stream' = stream \cup {n}
    /\ UNCHANGED <<running, apps, evt, refreshCh, refresh, published, disturb, good, excused>>

-----------------------------------------------------------------------------
(* What starts a refresh.                                                   *)

\* A watcher takes the token and calls refreshRoutes for its source.
TakeToken(n) ==
    /\ n \in refreshCh
    /\ pc[n] = "idle"
    /\ refreshCh' = refreshCh \ {n}
    /\ pc' = [pc EXCEPT ![n] = "wait"]
    /\ UNCHANGED <<running, apps, stream, evt, mu, todo, got, custom, out, published,
                   disturb, good, excused>>

\* The manual action for one source; it waits for refreshMu in place of the watcher.
ManualRefresh(n) ==
    /\ Disturb
    /\ pc[n] = "idle"
    /\ pc' = [pc EXCEPT ![n] = "wait"]
    /\ UNCHANGED <<running, apps, stream, evt, refreshCh, mu, todo, got, custom, out, published,
                   good, excused>>

\* The minute job, the manual action for all, or the goroutine startAsyncRouteRefresh
\* leaves behind at a start and after every reload.
StartFull ==
    /\ pc["full"] = "idle"
    /\ pc' = [pc EXCEPT !["full"] = "wait"]
    /\ UNCHANGED <<running, apps, stream, evt, refreshCh, mu, todo, got, custom, out, published,
                   disturb, good, excused>>

\* reloadManagedConfig has put the new custom apps into the store.
Reload(hosts) ==
    /\ Disturb
    /\ "reload" \in Task
    /\ pc["reload"] = "idle"
    /\ apps' = hosts
    /\ pc' = [pc EXCEPT !["reload"] = "discover"]
    /\ todo' = [todo EXCEPT !["reload"] = {Local}]
    /\ UNCHANGED <<running, stream, evt, refreshCh, mu, got, custom, out, published, good,
                   excused>>

-----------------------------------------------------------------------------
(* refreshRoutesWithDiscoverers.                                            *)

\* Mutant: a discoverer is selected by the source of its routes.
SelectedBySource(p) ==
    {RouteSource(n) : n \in IF p \in Node THEN {p} ELSE Node}

\* The discoverers a refresh selects, and the nodes whose routes it rewrites.
SelectedDiscoverers(p) == IF p \in Node THEN {p} ELSE IF p \in Task THEN {Local} ELSE Node
Scope(p) == IF p \in Node THEN {p} ELSE Node

LockRefresh(p) ==
    /\ pc[p] = "wait"
    /\ mu = NoProc
    /\ mu' = p
    /\ pc' = [pc EXCEPT ![p] = "discover"]
    /\ todo' = [todo EXCEPT ![p] = SelectedDiscoverers(p)]
    /\ UNCHANGED <<running, apps, stream, evt, refreshCh, got, custom, out, published,
                   disturb, good, excused>>

\* The next discoverer answers.
Discover(p, n) ==
    /\ pc[p] = "discover"
    /\ n \in todo[p]
    /\ todo' = [todo EXCEPT ![p] = @ \ {n}]
    /\ got' = [got EXCEPT ![p] = @ \cup DiscoverRoutes(n)]
    /\ good' = [good EXCEPT ![p] = @ \cup {n}]
    /\ UNCHANGED <<running, apps, stream, evt, refreshCh, mu, pc, custom, out, published,
                   disturb, excused>>

\* It fails or runs into the timeout: its routes are simply not there.
DiscoverFails(p, n) ==
    /\ Disturb
    /\ pc[p] = "discover"
    /\ n \in todo[p]
    /\ todo' = [todo EXCEPT ![p] = @ \ {n}]
    /\ UNCHANGED <<running, apps, stream, evt, refreshCh, mu, pc, got, custom, out,
                   published, good, excused>>

ListCustomApps(p) ==
    /\ pc[p] = "discover"
    /\ todo[p] = {}
    /\ custom' = [custom EXCEPT ![p] = BuildCustomAppRoutes(apps)]
    /\ pc' = [pc EXCEPT ![p] = "merge"]
    /\ UNCHANGED <<running, apps, stream, evt, refreshCh, mu, todo, got, out, published,
                   disturb, good, excused>>

MergeRoutes(p) ==
    /\ pc[p] = "merge"
    /\ LET found == IF p \in Node THEN MergeRoutesForSource(routes, p, got[p]) ELSE got[p]
       IN out' = [out EXCEPT ![p] = ApplyCustomRoutes(found, custom[p])]
    /\ pc' = [pc EXCEPT ![p] = "replace"]
    /\ UNCHANGED <<running, apps, stream, evt, refreshCh, mu, todo, got, custom, published,
                   disturb, good, excused>>

\* Writing the routes or the table spoils what every other refresh under way has learnt.
Overwrite(p) == good' = [q \in Proc |-> IF q = p THEN good[p] ELSE {}]

ReplaceRoutes(p) ==
    /\ pc[p] = "replace"
    /\ routes' \in KeyedMaps(out[p], "id")
    /\ pc' = [pc EXCEPT ![p] = "snapshots"]
    /\ Overwrite(p)
    /\ excused' = excused \cup (Scope(p) \ good[p])
    /\ UNCHANGED <<running, apps, stream, evt, refreshCh, mu, todo, got, custom, out,
                   applications, table, disturb>>

\* discoverAllSnapshots asks every discoverer the refresh was given, not just the selected
\* ones; one that fails is left out.
ReplaceApplications(p) ==
    LET asked == IF p \in Task THEN {Local} ELSE Node IN
    /\ pc[p] = "snapshots"
    /\ \E N \in SUBSET asked :
         /\ IF N = asked THEN UNCHANGED disturb ELSE Disturb
         /\ applications' = BuildApplications({c \in running : NodeOf[c] \in N}, out[p])
    /\ pc' = [pc EXCEPT ![p] = "swap"]
    /\ UNCHANGED <<running, apps, stream, evt, refreshCh, mu, todo, got, custom, out,
                   routes, table, good, excused>>

\* Mutant: the refresh returns without unlocking.
SwapTableLocked(p) ==
    /\ pc[p] = "swap"
    /\ table' \in KeyedMaps(out[p], "host")
    /\ pc' = [pc EXCEPT ![p] = "idle"]
    /\ got' = [got EXCEPT ![p] = {}]
    /\ custom' = [custom EXCEPT ![p] = {}]
    /\ out' = [out EXCEPT ![p] = {}]
    /\ good' = [q \in Proc |-> {}]
    /\ excused' = (excused \ good[p]) \cup (Scope(p) \ good[p])
    /\ UNCHANGED <<running, apps, stream, evt, refreshCh, mu, todo, routes, applications,
                   disturb>>

\* routeTable.Swap; the refresh returns and unlocks.
SwapTable(p) ==
    /\ pc[p] = "swap"
    /\ table' \in KeyedMaps(out[p], "host")
    /\ pc' = [pc EXCEPT ![p] = "idle"]
    /\ got' = [got EXCEPT ![p] = {}]
    /\ custom' = [custom EXCEPT ![p] = {}]
    /\ out' = [out EXCEPT ![p] = {}]
    /\ mu' = IF p \in Task THEN mu ELSE NoProc
    /\ good' = [q \in Proc |-> {}]
    /\ excused' = (excused \ good[p]) \cup (Scope(p) \ good[p])
    /\ UNCHANGED <<running, apps, stream, evt, refreshCh, todo, routes, applications, disturb>>

-----------------------------------------------------------------------------
RefreshStep(p) ==
    \/ LockRefresh(p)
    \/ \E n \in Node : Discover(p, n) \/ DiscoverFails(p, n)
    \/ ListCustomApps(p) \/ MergeRoutes(p)
    \/ ReplaceRoutes(p) \/ ReplaceApplications(p) \/ SwapTable(p)

Next ==
    \/ \E c \in Container : ContainerChange(c)
    \/ \E n \in Node : WatchEvent(n) \/ StreamFails(n) \/ StreamRetry(n) \/ TakeToken(n)
    \/ \E n \in Node : ManualRefresh(n)
    \/ StartFull
    \/ \E hosts \in SUBSET AppHost : Reload(hosts)
    \/ \E p \in Proc : RefreshStep(p)

Spec == Init /\ [][Next]_vars

\* The scheduler's ticker keeps firing, goroutines that can run do, and a mutex in
\* starvation mode serves its longest waiter.
Fairness ==
    /\ WF_vars(StartFull)
    /\ \A n \in Node : WF_vars(WatchEvent(n)) /\ WF_vars(StreamRetry(n)) /\ WF_vars(TakeToken(n))
    /\ \A p \in Proc : WF_vars(RefreshStep(p)) /\ SF_vars(LockRefresh(p))

FairSpec == Spec /\ Fairness

-----------------------------------------------------------------------------
(* Properties                                                               *)

\* A route is a custom app's, or leads to a container under a host that begins with the one
\* its labels ask for, however often it was renamed; it says which node the container is on.
ContainerRoutes == {BuildRoute(NodeOf[c], c) : c \in Container}

DiscoveredRoutes ==
    {r \in [id : (Agent \cup {"server"} \cup Container) \X Host, host : Host,
            source : Agent \cup {"server"}, container : Container] :
       /\ r.source = RouteSource(NodeOf[r.container])
       /\ IsPrefix(HostOf[r.container], r.host)
       /\ r.id = <<r.source, r.host>> \/ (r.source = "server" /\ r.id = <<r.container, r.host>>)}

Route == DiscoveredRoutes \cup BuildCustomAppRoutes(AppHost)

TypeOK ==
    /\ running \subseteq Container
    /\ apps \subseteq AppHost
    /\ stream \subseteq Node /\ evt \subseteq Node /\ refreshCh \subseteq Node
    /\ mu \in Proc \cup {NoProc}
    /\ pc \in [Proc -> {"idle", "wait", "discover", "merge", "replace", "snapshots", "swap"}]
    /\ todo \in [Proc -> SUBSET Node]
    /\ got \in [Proc -> SUBSET ContainerRoutes]
    /\ custom \in [Proc -> SUBSET BuildCustomAppRoutes(AppHost)]
    /\ out \in [Proc -> SUBSET Route]
    /\ routes \subseteq Route /\ table \subseteq Route
    /\ applications \subseteq [proxied : BOOLEAN, container : Container \cup {""}, host : Host]
    /\ disturb \in 0 .. MaxDisturb
    /\ good \in [Proc -> SUBSET Node]
    /\ excused \subseteq Node

\* Nothing about n is waiting to be refreshed, and no refresh is between replacing the
\* routes and swapping the table.
Settled(n) ==
    /\ n \notin evt /\ n \notin refreshCh /\ pc[n] = "idle"
    /\ \A p \in Proc : pc[p] \notin {"snapshots", "swap"}

\* Every route of n is that of a running container, and every running container has a route
\* whose host begins with the one it asks for and is served: its own, or that of another
\* container of n which came by the same host.
RoutesCurrent(n) ==
    /\ \A r \in routes \cup table : r.source = RouteSource(n) => r.container \in running
    /\ \A c \in running : NodeOf[c] = n =>
         \E r \in routes : /\ r.source = RouteSource(n) /\ IsPrefix(HostOf[c], r.host)
                           /\ \E t \in table : t.host = r.host

\* Coalescing tokens, merging by source and refreshing under refreshMu lose nothing: once
\* an agent's events are dealt with, its routes are those of its running containers,
\* unless an event was lost, the discovery failed or an unlocked refresh cut in.
RemoteRoutesCurrent == \A a \in Agent \ excused : Settled(a) => RoutesCurrent(a)

\* The same for the local discoverer: a refresh of one source replaces that source's old
\* routes (TestMergeRoutesForSource).
LocalRoutesCurrent == Local \notin excused /\ Settled(Local) => RoutesCurrent(Local)

\* A discovered route takes no custom app's host (applyCustomRoutes), in the store or in what
\* a refresh puts into the table, whenever the app was added and however often the route was
\* renamed before; but for one that has just lost its host to another custom app, and whose
\* new host nobody looks at: an app called app-edge beside an app called app can lose its
\* host to the container app of the agent edge.
CustomKeepsHost ==
    \A S \in {routes} \cup {out[p] : p \in Proc} : \A r, s \in S :
      r.source = "manual" /\ s.source # "manual" /\ r.host = s.host =>
        \E q \in S : q.source = "manual" /\ s.host = RenamedHost(q.host, s.source)

\* What the dashboard shows as proxied is served, once no refresh is under way and none
\* was disturbed.
ProxiedIsServed ==
    (\A p \in Proc : pc[p] \in {"idle", "wait"}) /\ excused = {} =>
      \A a \in applications : a.proxied => \E t \in table : t.host = a.host

\* The host of a container's route: the one it asks for, unless a custom app has it.
ServedHost(c) ==
    IF HostOf[c] \in apps THEN RenamedHost(HostOf[c], RouteSource(NodeOf[c])) ELSE HostOf[c]

\* The table serves every custom app and every running container under its host, or
\* whichever of them have one host, and nothing that is gone.
TableRight ==
    /\ \A t \in table :
         IF t.source = "manual" THEN t.host \in apps
                                ELSE t.container \in running /\ t.host = ServedHost(t.container)
    /\ \A h \in apps \cup {ServedHost(c) : c \in running} : \E t \in table : t.host = h

\* Whatever was lost, failed, overtaken or overwritten, the timer's full refresh brings the
\* table back to the containers and the custom apps, for good once nothing changes.
TableConverges == <>[]TableRight
=============================================================================
