-------------------------- MODULE RouteRefreshProofs --------------------------
(* Theorems about RouteRefresh for any nodes, containers, hosts and custom apps. *)
EXTENDS RouteRefresh, SequenceTheorems, TLAPS

Publishing == {"replace", "snapshots", "swap"}

\* refreshMu: its holder is the one refresh under way that is not of Task.
MutexInv ==
    /\ mu \notin Task
    /\ \A p \in Proc \ Task : pc[p] \notin {"idle", "wait"} <=> mu = p
    /\ \A p \in Task : pc[p] # "wait"

\* A discovered route with a custom app's host has lost its own to another custom app.
HostsKept(S) ==
    \A r, s \in S : r.source = "manual" /\ s.source # "manual" /\ r.host = s.host =>
      \E q \in S : q.source = "manual" /\ s.host = RenamedHost(q.host, s.source)

CustomInv == HostsKept(routes) /\ \A p \in Proc : HostsKept(out[p])

\* What the dashboard shows as proxied has its host in S.
Covered(S) == \A a \in applications : a.proxied => \E r \in S : r.host = a.host

\* The refresh that wrote the applications, unless it has swapped the table since.
Pending == \E q \in Proc : pc[q] = "swap" /\ Covered(out[q])

ProxiedInv ==
    /\ \A p \in Proc : pc[p] = "swap" /\ good[p] # {} => Pending
    /\ excused = {} => Covered(table) \/ Pending

\* What a refresh has asked and found is of the discoverers it selects.
SelectInv ==
    \A p \in Proc :
      /\ todo[p] \subseteq SelectedDiscoverers(p)
      /\ good[p] \subseteq SelectedDiscoverers(p)
      /\ \A r \in got[p] : \E n \in SelectedDiscoverers(p) \ todo[p] : r.source = RouteSource(n)
      /\ pc[p] \in {"idle", "wait"} => good[p] = {} /\ got[p] = {}

\* The agent's watcher has something it did not ask the agent about.
Unheard(a) ==
    \/ a \in evt \/ a \in refreshCh \/ pc[a] = "wait"
    \/ pc[a] \notin {"idle", "wait"} /\ a \notin good[a]

\* It has something to do.
Busy(a) == a \in evt \/ a \in refreshCh \/ pc[a] # "idle"

\* The agent's routes in S are those of its running containers; whichever of them are renamed
\* or displaced, the hosts go on beginning with what each container asks for.
Current(S, a) ==
    /\ \A r \in S : r.source = a => r.container \in running
    /\ \A c \in running : NodeOf[c] = a =>
         \E r \in S : r.source = a /\ IsPrefix(HostOf[c], r.host)

\* The table has the hosts of the agent's routes and no stopped container of it.
Served(a) ==
    /\ \A t \in table : t.source = a => t.container \in running
    /\ \A r \in routes : r.source = a => \E t \in table : t.host = r.host

\* A refresh is between replacing the routes and swapping the table.
Midway(p) == pc[p] \in {"snapshots", "swap"}

\* What a refresh that asked the agent found of it, and is about to publish.
GotOK(a) == \A p \in Proc : a \in good[p] => Unheard(a) \/ Current(got[p], a)

OutOK(a) ==
    \A p \in Proc : a \in good[p] /\ pc[p] \in Publishing => Unheard(a) \/ Current(out[p], a)

\* What another node's refresh, which merges, is about to publish of it.
KeptOK(a) ==
    a \notin excused =>
      \A b \in Node \ {a} : pc[b] \in Publishing => Busy(a) \/ Current(out[b], a)

\* Midway the store holds what the refresh is about to put into the table, unless another
\* refresh wrote it since.
StoredOK(a) ==
    \A p \in Proc : Midway(p) /\ (a \in good[p] \/ (p \in Node \ {a} /\ a \notin excused))
                     => routes \in KeyedMaps(out[p], "id")

RoutesOK(a) == a \notin excused => Busy(a) \/ Current(routes, a)

TableOK(a) == a \notin excused => Busy(a) \/ (\E p \in Proc : Midway(p)) \/ Served(a)

CurrentFor(a) == GotOK(a) /\ OutOK(a) /\ KeptOK(a) /\ StoredOK(a) /\ RoutesOK(a) /\ TableOK(a)

CurrentInv == \A a \in Agent : CurrentFor(a)

RefreshInv == TypeOK /\ MutexInv /\ SelectInv /\ CurrentInv

-----------------------------------------------------------------------------
(* Who takes part.                                                          *)

\* Tasks, nodes and the full refresh are told apart, and so are the sources of routes.
LEMMA ProcFacts ==
    /\ Agent \subseteq Node /\ Local \in Node /\ Node \subseteq Proc /\ Task \subseteq Proc
    /\ "full" \in Proc \ (Task \cup Node)
    /\ Task \cap Node = {}
    /\ \A p \in Proc : p \in Task \/ p = "full" \/ p \in Node
    /\ \A a \in Agent : a # Local /\ RouteSource(a) = a
    /\ \A m, n \in Node : RouteSource(m) = RouteSource(n) => m = n
    /\ \A n \in Node : RouteSource(n) # "manual"
BY RouteRefreshAssumption DEF Node, Proc, RouteSource

\* A task or another node's refresh does not ask an agent.
LEMMA SelectedFacts ==
    ASSUME NEW p \in Proc
    PROVE  /\ SelectedDiscoverers(p) \subseteq Node
           /\ Scope(p) \subseteq Node /\ SelectedDiscoverers(p) \subseteq Scope(p)
           /\ \A a \in Agent : a \in SelectedDiscoverers(p) => p = a \/ p = "full"
           /\ p \in Task \cup {"full"} => Scope(p) = Node
           /\ p \in Node => SelectedDiscoverers(p) = {p} /\ Scope(p) = {p}
BY ProcFacts DEF SelectedDiscoverers, Scope

-----------------------------------------------------------------------------
(* Hosts.                                                                   *)

\* What it is to begin with the words of a host.
LEMMA PrefixFacts ==
    ASSUME NEW s \in Seq(Word), NEW t \in Seq(Word)
    PROVE  IsPrefix(s, t) <=> Len(s) <= Len(t) /\ \A i \in 1 .. Len(s) : s[i] = t[i]
<1> DEFINE n == Len(s)
           u == SubSeq(s, 1, n)
           v == SubSeq(t, 1, n)
<1>1. n \in Nat /\ Len(t) \in Nat
  BY LenProperties
<1> SUFFICES ASSUME n <= Len(t) PROVE u = v <=> \A i \in 1 .. n : s[i] = t[i]
  BY DEF IsPrefix
<1>2. \A i \in 1 .. n : s[i] \in Word /\ t[i] \in Word
  BY <1>1, ElementOfSeq
<1>3. n - 1 + 1 = n /\ 1 \in Int /\ n \in Int /\ \A i \in 1 .. n : 1 + i - 1 = i
  BY <1>1
<1> HIDE DEF n
<1>4. /\ u \in Seq(Word) /\ Len(u) = n
      /\ \A i \in 1 .. n : u[i] = s[i]
  BY <1>1, <1>2, <1>3, SubSeqProperties
<1>5. /\ v \in Seq(Word) /\ Len(v) = n
      /\ \A i \in 1 .. n : v[i] = t[i]
  BY <1>1, <1>2, <1>3, SubSeqProperties
<1> HIDE DEF u, v
<1>6. ASSUME \A i \in 1 .. n : s[i] = t[i] PROVE u = v
  <2>1. Len(u) = Len(v) /\ \A i \in 1 .. Len(u) : u[i] = v[i]
    BY <1>4, <1>5, <1>6
  <2> QED
    BY <1>4, <1>5, <2>1, SeqEqual
<1>7. ASSUME u = v PROVE \A i \in 1 .. n : s[i] = t[i]
  BY <1>4, <1>5, <1>7
<1> QED
  BY <1>6, <1>7

\* A host begins with itself, and with what any of its beginnings begins with.
LEMMA PrefixOrder ==
    /\ \A s \in Seq(Word) : IsPrefix(s, s)
    /\ \A s, t, u \in Seq(Word) : IsPrefix(s, t) /\ IsPrefix(t, u) => IsPrefix(s, u)
<1>1. ASSUME NEW s \in Seq(Word) PROVE IsPrefix(s, s)
  BY PrefixFacts, LenProperties
<1>2. ASSUME NEW s \in Seq(Word), NEW t \in Seq(Word), NEW u \in Seq(Word),
             IsPrefix(s, t), IsPrefix(t, u)
      PROVE  IsPrefix(s, u)
  <2>1. Len(s) \in Nat /\ Len(t) \in Nat /\ Len(u) \in Nat
    BY LenProperties
  <2>2. Len(s) <= Len(t) /\ \A i \in 1 .. Len(s) : s[i] = t[i]
    BY <1>2, PrefixFacts
  <2>3. Len(t) <= Len(u) /\ \A i \in 1 .. Len(t) : t[i] = u[i]
    BY <1>2, PrefixFacts
  <2>4. Len(s) <= Len(u) /\ \A i \in 1 .. Len(s) : s[i] = u[i]
    BY <2>1, <2>2, <2>3
  <2> QED
    BY <2>4, PrefixFacts
<1> QED
  BY <1>1, <1>2

\* Joining more words to a host.
LEMMA JoinedHost ==
    ASSUME NEW h \in Host, NEW t \in Seq(Word)
    PROVE  h \o t \in Host /\ IsPrefix(h, h \o t)
<1>1. h \in Seq(Word) /\ h # <<>>
  BY DEF Host
<1>2. Len(h) \in Nat /\ Len(t) \in Nat
  BY <1>1, LenProperties
<1>3. /\ h \o t \in Seq(Word) /\ Len(h \o t) = Len(h) + Len(t)
      /\ \A i \in 1 .. Len(h) + Len(t) : (h \o t)[i] = IF i <= Len(h) THEN h[i] ELSE t[i - Len(h)]
  BY <1>1, ConcatProperties
<1>4. Len(h) <= Len(h \o t) /\ \A i \in 1 .. Len(h) : h[i] = (h \o t)[i]
  BY <1>2, <1>3
<1>5. IsPrefix(h, h \o t)
  BY <1>1, <1>3, <1>4, PrefixFacts
<1>6. h \o t # <<>>
  <2>1. Len(h) # 0
    BY <1>1, EmptySeq
  <2> QED
    BY <1>2, <1>3, <2>1, EmptySeq
<1> QED
  BY <1>3, <1>5, <1>6 DEF Host

\* The host a renamed route gets begins with the one it had.
LEMMA RenamedHostFacts ==
    ASSUME NEW h \in Host, NEW source \in Agent \cup {"server"}
    PROVE  RenamedHost(h, source) \in Host /\ IsPrefix(h, RenamedHost(h, source))
<1> DEFINE slug == Slug[source]
           base == IF h = slug THEN Append(h, "app") ELSE h
           node == IF IsStrictSuffix(slug, base) THEN Append(slug, "node") ELSE slug
<1>1. slug \in Host /\ "app" \in Word /\ "node" \in Word
  BY RouteRefreshAssumption
<1>2. RenamedHost(h, source) = base \o node
  BY DEF RenamedHost
<1>3. h \in Seq(Word) /\ slug \in Seq(Word)
  BY <1>1 DEF Host
<1>4. node \in Seq(Word)
  BY <1>1, <1>3, AppendProperties
<1>5. base \in Host /\ IsPrefix(h, base)
  <2>1. CASE h = slug
    <3> HIDE DEF slug
    <3>1. base = h \o <<"app">>
      BY <2>1, <1>3, AppendIsConcat, <1>1
    <3>2. <<"app">> \in Seq(Word)
      BY <1>1
    <3> QED
      BY <3>1, <3>2, JoinedHost
  <2>2. CASE h # slug
    BY <1>3, <2>2, PrefixOrder
  <2> QED
    BY <2>1, <2>2
<1> HIDE DEF base, node
<1>6. base \o node \in Host /\ IsPrefix(base, base \o node)
  BY <1>4, <1>5, JoinedHost
<1>7. base \in Seq(Word) /\ base \o node \in Seq(Word)
  BY <1>5, <1>6 DEF Host
<1>8. IsPrefix(h, base \o node)
  BY <1>3, <1>5, <1>6, <1>7, PrefixOrder
<1> QED
  BY <1>2, <1>6, <1>8

-----------------------------------------------------------------------------
(* Routes.                                                                  *)

\* The sources of routes.
LEMMA SourceFacts ==
    /\ \A n \in Node : RouteSource(n) \in Agent \cup {"server"}
    /\ "server" \notin Agent /\ "manual" \notin Agent
    /\ \A c \in Container : NodeOf[c] \in Node /\ HostOf[c] \in Host /\ HostOf[c] \in Seq(Word)
BY ProcFacts, RouteRefreshAssumption DEF RouteSource, Node, Host

\* The route of a container: its source and its id.
LEMMA BuildRouteFacts ==
    ASSUME NEW c \in Container
    PROVE  LET r == BuildRoute(NodeOf[c], c) IN
           /\ r \in ContainerRoutes
           /\ r \in DiscoveredRoutes
           /\ r.source = RouteSource(NodeOf[c]) /\ r.source # "manual"
           /\ r.container = c /\ r.host = HostOf[c]
<1> DEFINE r == BuildRoute(NodeOf[c], c)
           src == RouteSource(NodeOf[c])
           id == IF NodeOf[c] = Local THEN <<c, HostOf[c]>> ELSE <<NodeOf[c], HostOf[c]>>
<1>1. /\ NodeOf[c] \in Node /\ HostOf[c] \in Host /\ HostOf[c] \in Seq(Word)
      /\ src \in Agent \cup {"server"} /\ src # "manual"
  BY SourceFacts, ProcFacts
<1>2. r = [id |-> id, host |-> HostOf[c], source |-> src, container |-> c]
  BY DEF BuildRoute
<1>3. r \in ContainerRoutes
  BY DEF ContainerRoutes
<1>4. id = <<src, HostOf[c]>> \/ (src = "server" /\ id = <<c, HostOf[c]>>)
  BY DEF RouteSource
<1>5. id \in (Agent \cup {"server"} \cup Container) \X Host
  BY <1>1, <1>4
<1>6. IsPrefix(HostOf[c], HostOf[c])
  BY <1>1, PrefixOrder
<1> HIDE DEF src, id
<1>7. r \in DiscoveredRoutes
  <2>1. r \in [id : (Agent \cup {"server"} \cup Container) \X Host, host : Host,
               source : Agent \cup {"server"}, container : Container]
    BY <1>1, <1>2, <1>5
  <2>2. /\ r.id = id /\ r.host = HostOf[c] /\ r.source = src /\ r.container = c
    BY <1>2
  <2> HIDE DEF r
  <2> QED
    BY <1>4, <1>6, <2>1, <2>2 DEF DiscoveredRoutes, src
<1> QED
  BY <1>1, <1>2, <1>3, <1>7 DEF src

\* What discoverers return are discovered routes.
LEMMA ContainerRoutesFacts == ContainerRoutes \subseteq DiscoveredRoutes /\ DiscoveredRoutes \subseteq Route
BY BuildRouteFacts DEF ContainerRoutes, Route

\* The route of a custom app.
LEMMA CustomRouteFacts ==
    ASSUME NEW h
    PROVE  LET r == CustomRoute(h) IN
           /\ r.source = "manual" /\ r.container = "" /\ r.host = h
           /\ r.id = <<"custom", h, h>>
BY DEF CustomRoute

\* A route's place among the two kinds, and what its fields say.
LEMMA RouteFacts ==
    ASSUME NEW r \in Route
    PROVE  /\ r.source = "manual" => \E h \in AppHost : r = CustomRoute(h)
           /\ r.source # "manual" =>
                /\ r \in DiscoveredRoutes
                /\ r.source \in Agent \cup {"server"}
                /\ r.container \in Container
                /\ r.source = RouteSource(NodeOf[r.container])
                /\ r.host \in Host /\ IsPrefix(HostOf[r.container], r.host)
                /\ r.id = <<r.source, r.host>> \/ (r.source = "server" /\ r.id = <<r.container, r.host>>)
           /\ r.host \in Host
           /\ r.source \in Agent => NodeOf[r.container] = r.source /\ r.id = <<r.source, r.host>>
<1>1. CASE r \in BuildCustomAppRoutes(AppHost)
  <2>1. PICK h \in AppHost : r = CustomRoute(h)
    BY <1>1 DEF BuildCustomAppRoutes
  <2>2. r.source = "manual" /\ r.host = h
    BY <2>1, CustomRouteFacts
  <2>3. h \in Host
    BY RouteRefreshAssumption
  <2> QED
    BY <2>1, <2>2, <2>3, SourceFacts
<1>2. CASE r \in DiscoveredRoutes
  <2>1. /\ r.source \in Agent \cup {"server"} /\ r.container \in Container /\ r.host \in Host
        /\ r.source = RouteSource(NodeOf[r.container]) /\ IsPrefix(HostOf[r.container], r.host)
        /\ r.id = <<r.source, r.host>> \/ (r.source = "server" /\ r.id = <<r.container, r.host>>)
    BY <1>2 DEF DiscoveredRoutes
  <2>2. r.source # "manual" /\ NodeOf[r.container] \in Node
    BY <2>1, SourceFacts, RouteRefreshAssumption
  <2>3. r.source \in Agent => NodeOf[r.container] = r.source /\ r.source # "server"
    BY <2>1, <2>2, SourceFacts, ProcFacts
  <2> QED
    BY <1>2, <2>1, <2>2, <2>3
<1> QED
  BY <1>1, <1>2 DEF Route

\* A renamed route is still a route to its container.
LEMMA RenameFacts ==
    ASSUME NEW r \in DiscoveredRoutes
    PROVE  LET q == RenameConflictingRoute(r) IN
           /\ q \in DiscoveredRoutes
           /\ q.source = r.source /\ q.container = r.container
           /\ q.host = RenamedHost(r.host, r.source)
           /\ IsPrefix(r.host, q.host)
<1> DEFINE q == RenameConflictingRoute(r)
           host == RenamedHost(r.host, r.source)
           I == (Agent \cup {"server"} \cup Container) \X Host
           D == [id : I, host : Host, source : Agent \cup {"server"}, container : Container]
<1>1. /\ r \in D /\ r.host \in Host /\ r.source \in Agent \cup {"server"} /\ r.container \in Container
      /\ r.source = RouteSource(NodeOf[r.container]) /\ IsPrefix(HostOf[r.container], r.host)
  BY DEF DiscoveredRoutes
<1>2. host \in Host /\ IsPrefix(r.host, host)
  BY <1>1, RenamedHostFacts
<1>3. HostOf[r.container] \in Seq(Word) /\ r.host \in Seq(Word) /\ host \in Seq(Word)
  BY <1>1, <1>2, SourceFacts DEF Host
<1> HIDE DEF host
<1>4. IsPrefix(HostOf[r.container], host)
  BY <1>1, <1>2, <1>3, PrefixOrder
<1>5. q = [r EXCEPT !.host = host, !.id = <<r.source, host>>]
  BY DEF RenameConflictingRoute, host
<1>6. <<r.source, host>> \in I
  BY <1>1, <1>2
<1> HIDE DEF I, q
<1>7. /\ q \in D /\ q.host = host /\ q.id = <<r.source, host>> /\ q.source = r.source
      /\ q.container = r.container
  BY <1>1, <1>2, <1>5, <1>6
<1>8. q \in DiscoveredRoutes
  BY <1>1, <1>4, <1>7 DEF DiscoveredRoutes, I
<1> QED
  BY <1>2, <1>7, <1>8 DEF q, host

\* Two routes with one ID, of which one is an agent's, are the agent's and have one host.
LEMMA SameId ==
    ASSUME NEW r \in Route, NEW s \in Route, r.source \in Agent, s.id = r.id
    PROVE  s.source = r.source /\ s.host = r.host
<1>1. r.id = <<r.source, r.host>> /\ r.source \in Node
  BY RouteFacts, ProcFacts
<1>2. s.source # "manual"
  <2> SUFFICES ASSUME s.source = "manual" PROVE FALSE
    OBVIOUS
  <2>1. PICK h \in AppHost : s = CustomRoute(h)
    BY RouteFacts
  <2>2. s.id = <<"custom", h, h>>
    BY <2>1, CustomRouteFacts
  <2>3. Len(s.id) = 3 /\ Len(r.id) = 2
    BY <1>1, <2>2
  <2> QED
    BY <2>3
<1>3. s.id = <<s.source, s.host>> \/ (s.container \in Container /\ s.id = <<s.container, s.host>>)
  BY <1>2, RouteFacts
<1>4. s.id # <<s.container, s.host>> \/ s.container \notin Container
  <2> SUFFICES ASSUME s.id = <<s.container, s.host>>, s.container \in Container PROVE FALSE
    BY Zenon
  <2>0. <<s.container, s.host>> = <<r.source, r.host>>
    BY <1>1
  <2>1. s.container = r.source
    BY <2>0
  <2> QED
    BY <1>1, <2>1, RouteRefreshAssumption
<1> QED
  BY <1>1, <1>3, <1>4

\* The ID of a custom app's route is its own.
LEMMA CustomId ==
    ASSUME NEW q \in Route, NEW s \in Route, q.source = "manual", s.id = q.id
    PROVE  s = q
<1>1. PICK h \in AppHost : q = CustomRoute(h)
  BY RouteFacts
<1>2. q.id = <<"custom", h, h>>
  BY <1>1, CustomRouteFacts
<1>3. s.source = "manual"
  <2> SUFFICES ASSUME s.source # "manual" PROVE FALSE
    OBVIOUS
  <2>1. s.id = <<s.source, s.host>> \/ s.id = <<s.container, s.host>>
    BY RouteFacts
  <2>3. Len(s.id) = 2
    BY <2>1
  <2>2. Len(q.id) = 3
    BY <1>2
  <2> QED
    BY <2>2, <2>3
<1>4. PICK k \in AppHost : s = CustomRoute(k)
  BY <1>3, RouteFacts
<1>5. s.id = <<"custom", k, k>>
  BY <1>4, CustomRouteFacts
<1> QED
  BY <1>1, <1>2, <1>4, <1>5

\* What applyCustomRoutes returns: routes, each found one's source and container among
\* them under a host that begins with the one it had, and no host of a custom app but for
\* a route that has lost its own to another custom app.
LEMMA ApplyFacts ==
    ASSUME NEW found \in SUBSET Route, NEW cust \in SUBSET BuildCustomAppRoutes(AppHost)
    PROVE  LET S == ApplyCustomRoutes(found, cust) IN
           /\ S \subseteq Route
           /\ HostsKept(S)
           /\ \A q \in S : q.source # "manual" =>
                \E r \in found : r.source = q.source /\ r.container = q.container
           /\ \A r \in found : r.source # "manual" =>
                \E q \in S : /\ q.source = r.source /\ q.container = r.container
                             /\ IsPrefix(r.host, q.host)
<1> DEFINE S == ApplyCustomRoutes(found, cust)
           blocked == {r.host : r \in cust}
           New(r) == IF r.host \in blocked THEN RenameConflictingRoute(r) ELSE r
           Kept == {r \in found : r.source # "manual"}
<1>1. S = {New(r) : r \in Kept} \cup cust
  BY DEF ApplyCustomRoutes
<1>2. \A r \in cust : r.source = "manual" /\ r \in Route
  <2>1. ASSUME NEW r \in cust PROVE r.source = "manual"
    <3>1. PICK h \in AppHost : r = CustomRoute(h)
      BY DEF BuildCustomAppRoutes
    <3> QED
      BY <3>1, CustomRouteFacts
  <2> QED
    BY <2>1 DEF Route
<1>3. ASSUME NEW r \in Kept
      PROVE  /\ New(r) \in Route /\ New(r).source = r.source /\ New(r).container = r.container
             /\ IsPrefix(r.host, New(r).host) /\ r.source # "manual"
             /\ \/ New(r).host \notin blocked
                \/ \E q \in cust : New(r).host = RenamedHost(q.host, New(r).source)
  <2>1. r \in DiscoveredRoutes /\ r.host \in Seq(Word) /\ r.source # "manual"
    BY RouteFacts DEF Host
  <2>2. CASE r.host \notin blocked
    BY <2>1, <2>2, PrefixOrder
  <2>3. CASE r.host \in blocked
    <3>1. PICK q \in cust : r.host = q.host
      BY <2>3
    <3>2. New(r) = RenameConflictingRoute(r)
      BY <2>3
    <3>3. /\ New(r) \in DiscoveredRoutes /\ New(r).source = r.source
          /\ New(r).container = r.container /\ New(r).host = RenamedHost(r.host, r.source)
          /\ IsPrefix(r.host, New(r).host)
      BY <2>1, <3>2, RenameFacts
    <3>4. New(r).host = RenamedHost(q.host, New(r).source)
      BY <3>1, <3>3
    <3> HIDE DEF New
    <3> QED
      BY <2>1, <3>3, <3>4 DEF Route
  <2> QED
    BY <2>2, <2>3
<1> HIDE DEF New, S
<1>4. S \subseteq Route
  BY <1>1, <1>2, <1>3
<1>5. HostsKept(S)
  <2> SUFFICES ASSUME NEW r \in S, NEW s \in S,
                      r.source = "manual", s.source # "manual", r.host = s.host
               PROVE  \E q \in S : q.source = "manual" /\ s.host = RenamedHost(q.host, s.source)
    BY DEF HostsKept
  <2>1. r \in cust
    BY <1>1, <1>3
  <2>2. PICK x \in Kept : s = New(x)
    BY <1>1, <1>2
  <2>3. PICK q \in cust : s.host = RenamedHost(q.host, s.source)
    BY <1>3, <2>1, <2>2
  <2> QED
    BY <1>1, <1>2, <2>3
<1>6. \A q \in S : q.source # "manual" =>
        \E r \in found : r.source = q.source /\ r.container = q.container
  BY <1>1, <1>2, <1>3
<1>7. \A r \in found : r.source # "manual" =>
        \E q \in S : /\ q.source = r.source /\ q.container = r.container
                     /\ IsPrefix(r.host, q.host)
  BY <1>1, <1>3
<1> QED
  BY <1>4, <1>5, <1>6, <1>7 DEF S

\* Renaming leaves an agent's routes current.
LEMMA ApplyCurrent ==
    ASSUME NEW found \in SUBSET Route, NEW cust \in SUBSET BuildCustomAppRoutes(AppHost),
           NEW a \in Agent, running \subseteq Container, Current(found, a)
    PROVE  Current(ApplyCustomRoutes(found, cust), a)
<1>1. a # "manual"
  BY SourceFacts
<1> DEFINE S == ApplyCustomRoutes(found, cust)
<1>2. /\ S \subseteq Route
      /\ \A q \in S : q.source = a => \E r \in found : r.source = a /\ r.container = q.container
      /\ \A r \in found : r.source = a => \E q \in S : q.source = a /\ IsPrefix(r.host, q.host)
  BY <1>1, ApplyFacts
<1> HIDE DEF S
<1>3. ASSUME NEW c \in running, NodeOf[c] = a
      PROVE  \E q \in S : q.source = a /\ IsPrefix(HostOf[c], q.host)
  <2>1. PICK r \in found : r.source = a /\ IsPrefix(HostOf[c], r.host)
    BY <1>3 DEF Current
  <2>2. PICK q \in S : q.source = a /\ IsPrefix(r.host, q.host)
    BY <1>2, <2>1
  <2>3. HostOf[c] \in Seq(Word) /\ r.host \in Seq(Word) /\ q.host \in Seq(Word)
    BY <1>2, SourceFacts, RouteFacts DEF Host
  <2> QED
    BY <2>1, <2>2, <2>3, PrefixOrder
<1>4. \A q \in S : q.source = a => q.container \in running
  BY <1>2 DEF Current
<1>5. Current(S, a)
  BY <1>3, <1>4 DEF Current
<1> QED
  BY <1>5 DEF S

\* So does keying them by their ID.
LEMMA KeyedCurrent ==
    ASSUME NEW S \in SUBSET Route, NEW T \in KeyedMaps(S, "id"), NEW a \in Agent, Current(S, a)
    PROVE  Current(T, a)
<1>1. T \subseteq S /\ \A r \in S : \E t \in T : t.id = r.id
  BY DEF KeyedMaps
<1>2. \A r \in S : r.source = a => \E t \in T : t.source = a /\ t.host = r.host
  BY <1>1, SameId
<1> QED
  BY <1>1, <1>2 DEF Current

\* And the custom apps keep their hosts in a map keyed by the ID.
LEMMA KeyedHostsKept ==
    ASSUME NEW S \in SUBSET Route, NEW T \in KeyedMaps(S, "id"), HostsKept(S)
    PROVE  HostsKept(T)
<1>1. T \subseteq S /\ \A r \in S : \E t \in T : t.id = r.id
  BY DEF KeyedMaps
<1>2. \A q \in S : q.source = "manual" => q \in T
  BY <1>1, CustomId
<1> QED
  BY <1>1, <1>2 DEF HostsKept

-----------------------------------------------------------------------------
(* Types.                                                                   *)

\* Initial types.
LEMMA TypeInit == Init => TypeOK
<1> SUFFICES ASSUME Init PROVE TypeOK
  OBVIOUS
<1>1. /\ MaxDisturb \in Nat /\ InitApps \subseteq AppHost
  BY RouteRefreshAssumption
<1>2. disturb \in 0 .. MaxDisturb
  BY <1>1 DEF Init
<1>3. todo \in [Proc -> SUBSET Node]
  BY ProcFacts DEF Init
<1> QED
  BY <1>1, <1>2, <1>3 DEF Init, TypeOK

\* What a discoverer answers, and what the map keeps.
LEMMA DiscoverType ==
    ASSUME running \subseteq Container, NEW n
    PROVE  DiscoverRoutes(n) \subseteq ContainerRoutes
BY DEF DiscoverRoutes, ContainerRoutes

\* What the registry of applications is made of.
LEMMA ApplicationsType ==
    ASSUME NEW snapshots \in SUBSET Container, NEW rs \in SUBSET Route
    PROVE  BuildApplications(snapshots, rs) \subseteq
             [proxied : BOOLEAN, container : Container \cup {""}, host : Host]
<1> DEFINE A == [proxied : BOOLEAN, container : Container \cup {""}, host : Host]
<1>1. ASSUME NEW r \in Route PROVE r.container \in Container \cup {""} /\ r.host \in Host
  <2>1. CASE r.source = "manual"
    <3>1. PICK h \in AppHost : r = CustomRoute(h)
      BY <2>1, RouteFacts
    <3> QED
      BY <3>1, CustomRouteFacts, RouteFacts
  <2>2. CASE r.source # "manual"
    BY <2>2, RouteFacts
  <2> QED
    BY <2>1, <2>2
<1>2. \A r \in rs : [proxied |-> TRUE, container |-> r.container, host |-> r.host] \in A
  BY <1>1
<1>3. \A c \in snapshots : HostOf[c] \in Host
  BY SourceFacts
<1>4. \A c \in snapshots : [proxied |-> FALSE, container |-> c, host |-> HostOf[c]] \in A
  BY <1>3
<1>5. \A x \in BuildApplications(snapshots, rs) :
        \/ \E r \in rs : x = [proxied |-> TRUE, container |-> r.container, host |-> r.host]
        \/ \E c \in snapshots : x = [proxied |-> FALSE, container |-> c, host |-> HostOf[c]]
  BY DEF BuildApplications
<1> HIDE DEF A
<1>6. BuildApplications(snapshots, rs) \subseteq A
  BY <1>2, <1>4, <1>5
<1> QED
  BY <1>6 DEF A

\* A disturbance is one more of at most MaxDisturb.
LEMMA DisturbType ==
    ASSUME disturb \in 0 .. MaxDisturb, Disturb
    PROVE  disturb' \in 0 .. MaxDisturb
<1>1. MaxDisturb \in Nat
  BY RouteRefreshAssumption
<1> QED
  BY <1>1 DEF Disturb

\* The merged list of a refresh is made of routes.
LEMMA MergeType ==
    ASSUME TypeOK, NEW p \in Proc
    PROVE  (IF p \in Node THEN MergeRoutesForSource(routes, p, got[p]) ELSE got[p]) \subseteq Route
BY ContainerRoutesFacts DEF TypeOK, MergeRoutesForSource

\* Every step keeps the types.
LEMMA TypeStep ==
    ASSUME TypeOK, [Next]_vars
    PROVE  TypeOK'
<1> USE DEF TypeOK, refresh, published
<1>1. ASSUME NEW c \in Container, ContainerChange(c) PROVE TypeOK'
  <2>1. NodeOf[c] \in Node
    BY RouteRefreshAssumption
  <2>2. good' \in [Proc -> SUBSET Node] /\ excused' \subseteq Node /\ evt' \subseteq Node
    BY <1>1, <2>1 DEF ContainerChange, Lose
  <2>3. running' \subseteq Container /\ disturb' \in 0 .. MaxDisturb
    BY <1>1, DisturbType DEF ContainerChange
  <2> QED
    BY <1>1, <2>2, <2>3 DEF ContainerChange
<1>2. ASSUME NEW n \in Node, WatchEvent(n) PROVE TypeOK'
  BY <1>2, ProcFacts DEF WatchEvent
<1>3. ASSUME NEW n \in Node, StreamFails(n) PROVE TypeOK'
  BY <1>3, DisturbType, RouteRefreshAssumption DEF StreamFails, Lose
<1>4. ASSUME NEW n \in Node, StreamRetry(n) PROVE TypeOK'
  BY <1>4, ProcFacts DEF StreamRetry
<1>5. ASSUME NEW n \in Node, TakeToken(n) PROVE TypeOK'
  BY <1>5, ProcFacts DEF TakeToken
<1>6. ASSUME NEW n \in Node, ManualRefresh(n) PROVE TypeOK'
  BY <1>6, ProcFacts, DisturbType DEF ManualRefresh
<1>7. CASE StartFull
  BY <1>7, ProcFacts DEF StartFull
<1>8. ASSUME NEW hosts \in SUBSET AppHost, Reload(hosts) PROVE TypeOK'
  BY <1>8, ProcFacts, DisturbType DEF Reload
<1>9. ASSUME NEW p \in Proc, LockRefresh(p) PROVE TypeOK'
  BY <1>9, SelectedFacts DEF LockRefresh
<1>10. ASSUME NEW p \in Proc, NEW n \in Node, Discover(p, n) PROVE TypeOK'
  BY <1>10, DiscoverType DEF Discover
<1>11. ASSUME NEW p \in Proc, NEW n \in Node, DiscoverFails(p, n) PROVE TypeOK'
  BY <1>11, DisturbType DEF DiscoverFails
<1>12. ASSUME NEW p \in Proc, ListCustomApps(p) PROVE TypeOK'
  BY <1>12 DEF ListCustomApps, BuildCustomAppRoutes
<1>13. ASSUME NEW p \in Proc, MergeRoutes(p) PROVE TypeOK'
  <2> DEFINE found == IF p \in Node THEN MergeRoutesForSource(routes, p, got[p]) ELSE got[p]
  <2>1. found \subseteq Route
    BY MergeType
  <2>2. ApplyCustomRoutes(found, custom[p]) \subseteq Route
    BY <2>1, ApplyFacts
  <2> HIDE DEF found
  <2>3. out' = [out EXCEPT ![p] = ApplyCustomRoutes(found, custom[p])]
    BY <1>13 DEF MergeRoutes, found
  <2>4. out' \in [Proc -> SUBSET Route]
    BY <2>2, <2>3
  <2> QED
    BY <1>13, <2>4 DEF MergeRoutes
<1>14. ASSUME NEW p \in Proc, ReplaceRoutes(p) PROVE TypeOK'
  BY <1>14, SelectedFacts DEF ReplaceRoutes, KeyedMaps, Overwrite
<1>15. ASSUME NEW p \in Proc, ReplaceApplications(p) PROVE TypeOK'
  <2>0. disturb' = disturb \/ Disturb
    BY <1>15 DEF ReplaceApplications
  <2>1. PICK N : applications' = BuildApplications({c \in running : NodeOf[c] \in N}, out[p])
    BY <1>15 DEF ReplaceApplications
  <2>2. applications' \subseteq [proxied : BOOLEAN, container : Container \cup {""}, host : Host]
    BY <2>1, ApplicationsType
  <2>3. disturb' \in 0 .. MaxDisturb
    BY <2>0, DisturbType
  <2> QED
    BY <1>15, <2>2, <2>3 DEF ReplaceApplications
<1>16. ASSUME NEW p \in Proc, SwapTable(p) PROVE TypeOK'
  BY <1>16, SelectedFacts DEF SwapTable, KeyedMaps
<1>17. CASE UNCHANGED vars
  BY <1>17 DEF vars
<1> QED
  BY <1>1, <1>2, <1>3, <1>4, <1>5, <1>6, <1>7, <1>8, <1>9, <1>10, <1>11, <1>12, <1>13, <1>14, <1>15, <1>16, <1>17 DEF Next, RefreshStep

\* Every refresh handles routes of containers and of custom apps, and the store and the table
\* hold no other (refreshRoutesWithDiscoverers): a discovered route leads to a container of
\* the node it names, under a host that begins with the one the container's labels ask for,
\* however often renameConflictingRoute has renamed it.
THEOREM TypeCorrect == Spec => []TypeOK
<1>1. Init => TypeOK
  BY TypeInit
<1>2. TypeOK /\ [Next]_vars => TypeOK'
  BY TypeStep
<1> QED
  BY <1>1, <1>2, PTL DEF Spec

-----------------------------------------------------------------------------
(* A custom app keeps its host.                                             *)

\* Every step keeps the hosts of custom apps.
LEMMA CustomStep ==
    ASSUME TypeOK, CustomInv, [Next]_vars
    PROVE  CustomInv'
<1> USE DEF CustomInv, refresh, published
<1>1. ASSUME NEW c \in Container, ContainerChange(c) PROVE CustomInv'
  BY <1>1 DEF ContainerChange, HostsKept
<1>2. ASSUME NEW n \in Node, WatchEvent(n) PROVE CustomInv'
  BY <1>2 DEF WatchEvent, HostsKept
<1>3. ASSUME NEW n \in Node, StreamFails(n) PROVE CustomInv'
  BY <1>3 DEF StreamFails, HostsKept
<1>4. ASSUME NEW n \in Node, StreamRetry(n) PROVE CustomInv'
  BY <1>4 DEF StreamRetry, HostsKept
<1>5. ASSUME NEW n \in Node, TakeToken(n) PROVE CustomInv'
  BY <1>5 DEF TakeToken, HostsKept
<1>6. ASSUME NEW n \in Node, ManualRefresh(n) PROVE CustomInv'
  BY <1>6 DEF ManualRefresh, HostsKept
<1>7. CASE StartFull
  BY <1>7 DEF StartFull, HostsKept
<1>8. ASSUME NEW hosts \in SUBSET AppHost, Reload(hosts) PROVE CustomInv'
  BY <1>8 DEF Reload, HostsKept
<1>9. ASSUME NEW p \in Proc, LockRefresh(p) PROVE CustomInv'
  BY <1>9 DEF LockRefresh, HostsKept
<1>10. ASSUME NEW p \in Proc, NEW n \in Node, Discover(p, n) PROVE CustomInv'
  BY <1>10 DEF Discover, HostsKept
<1>11. ASSUME NEW p \in Proc, NEW n \in Node, DiscoverFails(p, n) PROVE CustomInv'
  BY <1>11 DEF DiscoverFails, HostsKept
<1>12. ASSUME NEW p \in Proc, ListCustomApps(p) PROVE CustomInv'
  BY <1>12 DEF ListCustomApps, HostsKept
<1>13. ASSUME NEW p \in Proc, MergeRoutes(p) PROVE CustomInv'
  <2> DEFINE found == IF p \in Node THEN MergeRoutesForSource(routes, p, got[p]) ELSE got[p]
  <2>1. found \subseteq Route /\ custom[p] \subseteq BuildCustomAppRoutes(AppHost)
    BY MergeType DEF TypeOK
  <2>2. HostsKept(ApplyCustomRoutes(found, custom[p]))
    BY <2>1, ApplyFacts
  <2> HIDE DEF found
  <2>3. out' = [out EXCEPT ![p] = ApplyCustomRoutes(found, custom[p])]
    BY <1>13 DEF MergeRoutes, found
  <2>4. \A q \in Proc : HostsKept(out'[q])
    BY <2>2, <2>3 DEF TypeOK
  <2> QED
    BY <1>13, <2>4 DEF MergeRoutes, HostsKept
<1>14. ASSUME NEW p \in Proc, ReplaceRoutes(p) PROVE CustomInv'
  <2>1. routes' \in KeyedMaps(out[p], "id") /\ out[p] \subseteq Route /\ out' = out
    BY <1>14 DEF ReplaceRoutes, TypeOK
  <2>2. HostsKept(routes')
    BY <2>1, KeyedHostsKept
  <2> QED
    BY <2>1, <2>2 DEF HostsKept
<1>15. ASSUME NEW p \in Proc, ReplaceApplications(p) PROVE CustomInv'
  BY <1>15 DEF ReplaceApplications, HostsKept
<1>16. ASSUME NEW p \in Proc, SwapTable(p) PROVE CustomInv'
  <2>1. ASSUME NEW q \in Proc PROVE HostsKept(out'[q])
    <3>1. out'[q] = out[q] \/ out'[q] = {}
      BY <1>16 DEF SwapTable, TypeOK
    <3>2. HostsKept({})
      BY DEF HostsKept
    <3> QED
      BY <3>1, <3>2
  <2> QED
    BY <1>16, <2>1 DEF SwapTable, HostsKept
<1>17. CASE UNCHANGED vars
  BY <1>17 DEF vars, HostsKept
<1> QED
  BY <1>1, <1>2, <1>3, <1>4, <1>5, <1>6, <1>7, <1>8, <1>9, <1>10, <1>11, <1>12, <1>13, <1>14, <1>15, <1>16, <1>17 DEF Next, RefreshStep

\* A discovered route takes a custom app's host, in the store or in what a refresh is about to
\* publish, only where renameConflictingRoute has just moved it there out of another custom
\* app's way (applyCustomRoutes), whichever refreshes wrote the routes, however they interleave
\* and however often the route was renamed before.
THEOREM CustomAppsKeepTheirHost == Spec => []CustomKeepsHost
<1>1. Init => TypeOK /\ CustomInv
  BY TypeInit DEF Init, CustomInv, HostsKept
<1>2. TypeOK /\ CustomInv /\ [Next]_vars => (TypeOK /\ CustomInv)'
  BY TypeStep, CustomStep
<1>3. CustomInv => CustomKeepsHost
  BY DEF CustomInv, CustomKeepsHost, HostsKept
<1> QED
  BY <1>1, <1>2, <1>3, PTL DEF Spec

-----------------------------------------------------------------------------
(* refreshMu, and what a refresh asks.                                      *)

\* A step of one refresh that neither takes nor gives back the mutex.
LEMMA MutexMove ==
    ASSUME TypeOK, MutexInv, NEW p \in Proc, NEW x, pc' = [pc EXCEPT ![p] = x], mu' = mu,
           \/ p \in Task /\ x # "wait"
           \/ p \notin Task /\ (pc[p] \in {"idle", "wait"} <=> x \in {"idle", "wait"})
    PROVE  MutexInv'
<1>1. \A q \in Proc : pc'[q] = IF q = p THEN x ELSE pc[q]
  BY DEF TypeOK
<1> QED
  BY <1>1, ProcFacts DEF MutexInv

\* Every step keeps the refreshes apart that share a lock.
LEMMA MutexStep ==
    ASSUME TypeOK, MutexInv, [Next]_vars
    PROVE  MutexInv'
<1> USE DEF refresh, published
<1>1. ASSUME NEW c \in Container, ContainerChange(c) PROVE MutexInv'
  BY <1>1 DEF ContainerChange, MutexInv
<1>2. ASSUME NEW n \in Node, WatchEvent(n) PROVE MutexInv'
  BY <1>2 DEF WatchEvent, MutexInv
<1>3. ASSUME NEW n \in Node, StreamFails(n) PROVE MutexInv'
  BY <1>3 DEF StreamFails, MutexInv
<1>4. ASSUME NEW n \in Node, StreamRetry(n) PROVE MutexInv'
  BY <1>4 DEF StreamRetry, MutexInv
<1>5. ASSUME NEW n \in Node, TakeToken(n) PROVE MutexInv'
  <2>1. pc[n] = "idle" /\ pc' = [pc EXCEPT ![n] = "wait"] /\ mu' = mu
    BY <1>5 DEF TakeToken
  <2> QED
    BY <2>1, ProcFacts, MutexMove
<1>6. ASSUME NEW n \in Node, ManualRefresh(n) PROVE MutexInv'
  <2>1. pc[n] = "idle" /\ pc' = [pc EXCEPT ![n] = "wait"] /\ mu' = mu
    BY <1>6 DEF ManualRefresh
  <2> QED
    BY <2>1, ProcFacts, MutexMove
<1>7. CASE StartFull
  <2>1. pc["full"] = "idle" /\ pc' = [pc EXCEPT !["full"] = "wait"] /\ mu' = mu
    BY <1>7 DEF StartFull
  <2> QED
    BY <2>1, ProcFacts, MutexMove
<1>8. ASSUME NEW hosts \in SUBSET AppHost, Reload(hosts) PROVE MutexInv'
  <2>1. "reload" \in Task /\ pc' = [pc EXCEPT !["reload"] = "discover"] /\ mu' = mu
    BY <1>8 DEF Reload
  <2> QED
    BY <2>1, ProcFacts, MutexMove
<1>9. ASSUME NEW p \in Proc, LockRefresh(p) PROVE MutexInv'
  <2>1. /\ pc[p] = "wait" /\ mu = NoProc /\ mu' = p /\ pc' = [pc EXCEPT ![p] = "discover"]
        /\ NoProc \notin Proc
    BY <1>9, RouteRefreshAssumption DEF LockRefresh
  <2>2. \A q \in Proc : pc'[q] = IF q = p THEN "discover" ELSE pc[q]
    BY <2>1 DEF TypeOK
  <2> QED
    BY <2>1, <2>2, ProcFacts DEF MutexInv
<1>10. ASSUME NEW p \in Proc, NEW n \in Node, Discover(p, n) PROVE MutexInv'
  BY <1>10 DEF Discover, MutexInv
<1>11. ASSUME NEW p \in Proc, NEW n \in Node, DiscoverFails(p, n) PROVE MutexInv'
  BY <1>11 DEF DiscoverFails, MutexInv
<1>12. ASSUME NEW p \in Proc, ListCustomApps(p) PROVE MutexInv'
  <2>1. pc[p] = "discover" /\ pc' = [pc EXCEPT ![p] = "merge"] /\ mu' = mu
    BY <1>12 DEF ListCustomApps
  <2> QED
    BY <2>1, ProcFacts, MutexMove
<1>13. ASSUME NEW p \in Proc, MergeRoutes(p) PROVE MutexInv'
  <2>1. pc[p] = "merge" /\ pc' = [pc EXCEPT ![p] = "replace"] /\ mu' = mu
    BY <1>13 DEF MergeRoutes
  <2> QED
    BY <2>1, ProcFacts, MutexMove
<1>14. ASSUME NEW p \in Proc, ReplaceRoutes(p) PROVE MutexInv'
  <2>1. pc[p] = "replace" /\ pc' = [pc EXCEPT ![p] = "snapshots"] /\ mu' = mu
    BY <1>14 DEF ReplaceRoutes
  <2> QED
    BY <2>1, ProcFacts, MutexMove
<1>15. ASSUME NEW p \in Proc, ReplaceApplications(p) PROVE MutexInv'
  <2>1. pc[p] = "snapshots" /\ pc' = [pc EXCEPT ![p] = "swap"] /\ mu' = mu
    BY <1>15 DEF ReplaceApplications
  <2> QED
    BY <2>1, ProcFacts, MutexMove
<1>16. ASSUME NEW p \in Proc, SwapTable(p) PROVE MutexInv'
  <2>1. /\ pc[p] = "swap" /\ mu' = (IF p \in Task THEN mu ELSE NoProc)
        /\ pc' = [pc EXCEPT ![p] = "idle"] /\ NoProc \notin Proc
    BY <1>16, RouteRefreshAssumption DEF SwapTable
  <2>2. \A q \in Proc : pc'[q] = IF q = p THEN "idle" ELSE pc[q]
    BY <2>1 DEF TypeOK
  <2>3. CASE p \in Task
    BY <2>1, <2>3, MutexMove
  <2>4. CASE p \notin Task
    BY <2>1, <2>2, <2>4, ProcFacts DEF MutexInv
  <2> QED
    BY <2>3, <2>4
<1>17. CASE UNCHANGED vars
  BY <1>17 DEF vars, MutexInv
<1> QED
  BY <1>1, <1>2, <1>3, <1>4, <1>5, <1>6, <1>7, <1>8, <1>9, <1>10, <1>11, <1>12, <1>13, <1>14, <1>15, <1>16, <1>17 DEF Next, RefreshStep


\* Routes a discoverer returns carry its name.
LEMMA DiscoverSource ==
    ASSUME running \subseteq Container, NEW n, NEW r \in DiscoverRoutes(n)
    PROVE  /\ r.source = RouteSource(n) /\ r.container \in running /\ NodeOf[r.container] = n
<1>1. PICK c \in running : NodeOf[c] = n /\ r = BuildRoute(NodeOf[c], c)
  BY DEF DiscoverRoutes
<1> QED
  BY <1>1, BuildRouteFacts

\* Every step keeps what a refresh has listed within what it has selected.
LEMMA SelectStep ==
    ASSUME TypeOK, SelectInv, [Next]_vars
    PROVE  SelectInv'
<1> USE DEF refresh, published
<1> DEFINE Sel(p) == SelectedDiscoverers(p)
           Ok(p) == /\ todo[p] \subseteq Sel(p)
                    /\ good[p] \subseteq Sel(p)
                    /\ \A r \in got[p] : \E n \in Sel(p) \ todo[p] : r.source = RouteSource(n)
                    /\ pc[p] \in {"idle", "wait"} => good[p] = {} /\ got[p] = {}
           Ok1(p) == /\ todo'[p] \subseteq Sel(p)
                     /\ good'[p] \subseteq Sel(p)
                     /\ \A r \in got'[p] : \E n \in Sel(p) \ todo'[p] : r.source = RouteSource(n)
                     /\ pc'[p] \in {"idle", "wait"} => good'[p] = {} /\ got'[p] = {}
<1>a. \A p \in Proc : Ok(p)
  BY DEF SelectInv
<1> SUFFICES ASSUME NEW q \in Proc PROVE Ok1(q)
  BY DEF SelectInv, SelectedDiscoverers
<1>b. /\ pc \in [Proc -> {"idle", "wait", "discover", "merge", "replace", "snapshots", "swap"}]
      /\ todo \in [Proc -> SUBSET Node] /\ good \in [Proc -> SUBSET Node]
      /\ got \in [Proc -> SUBSET ContainerRoutes] /\ running \subseteq Container
  BY DEF TypeOK
<1> HIDE DEF Sel
<1>1. ASSUME NEW c \in Container, ContainerChange(c) PROVE Ok1(q)
  <2>1. good'[q] \subseteq good[q] /\ UNCHANGED <<pc, todo, got>>
    BY <1>1, <1>b DEF ContainerChange, Lose
  <2> QED
    BY <1>a, <2>1
<1>2. ASSUME NEW n \in Node, WatchEvent(n) PROVE Ok1(q)
  BY <1>2, <1>a DEF WatchEvent
<1>3. ASSUME NEW n \in Node, StreamFails(n) PROVE Ok1(q)
  <2>1. good'[q] \subseteq good[q] /\ UNCHANGED <<pc, todo, got>>
    BY <1>3, <1>b DEF StreamFails, Lose
  <2> QED
    BY <1>a, <2>1
<1>4. ASSUME NEW n \in Node, StreamRetry(n) PROVE Ok1(q)
  BY <1>4, <1>a DEF StreamRetry
<1>5. ASSUME NEW n \in Node, TakeToken(n) PROVE Ok1(q)
  <2>1. /\ UNCHANGED <<todo[q], got[q], good[q]>>
        /\ pc'[q] \in {"idle", "wait"} => pc[q] \in {"idle", "wait"}
    BY <1>5, <1>b, ProcFacts DEF TakeToken
  <2> QED
    BY <1>a, <2>1
<1>6. ASSUME NEW n \in Node, ManualRefresh(n) PROVE Ok1(q)
  <2>1. /\ UNCHANGED <<todo[q], got[q], good[q]>>
        /\ pc'[q] \in {"idle", "wait"} => pc[q] \in {"idle", "wait"}
    BY <1>6, <1>b, ProcFacts DEF ManualRefresh
  <2> QED
    BY <1>a, <2>1
<1>7. CASE StartFull
  <2>1. /\ UNCHANGED <<todo[q], got[q], good[q]>>
        /\ pc'[q] \in {"idle", "wait"} => pc[q] \in {"idle", "wait"}
    BY <1>7, <1>b, ProcFacts DEF StartFull
  <2> QED
    BY <1>a, <2>1
<1>8. ASSUME NEW hosts \in SUBSET AppHost, Reload(hosts) PROVE Ok1(q)
  <2>1. q # "reload" => UNCHANGED <<pc[q], todo[q], got[q], good[q]>>
    BY <1>8, <1>b DEF Reload
  <2>2. q = "reload" => /\ pc'[q] = "discover" /\ todo'[q] = {Local} /\ UNCHANGED <<got[q], good[q]>>
                        /\ pc[q] = "idle" /\ Sel(q) = {Local}
    BY <1>8, <1>b, ProcFacts DEF Reload, Sel, SelectedDiscoverers
  <2> QED
    BY <1>a, <2>1, <2>2
<1>9. ASSUME NEW p \in Proc, LockRefresh(p) PROVE Ok1(q)
  <2>1. q # p => UNCHANGED <<pc[q], todo[q], got[q], good[q]>>
    BY <1>9, <1>b DEF LockRefresh
  <2>2. q = p => /\ pc'[q] = "discover" /\ todo'[q] = Sel(q) /\ UNCHANGED <<got[q], good[q]>>
                 /\ pc[q] = "wait"
    BY <1>9, <1>b DEF LockRefresh, Sel
  <2> QED
    BY <1>a, <2>1, <2>2
<1>10. ASSUME NEW p \in Proc, NEW n \in Node, Discover(p, n) PROVE Ok1(q)
  <2>1. q # p => UNCHANGED <<pc[q], todo[q], got[q], good[q]>>
    BY <1>10, <1>b DEF Discover
  <2>2. q = p => /\ pc'[q] = "discover" /\ n \in todo[q] /\ todo'[q] = todo[q] \ {n}
                 /\ got'[q] = got[q] \cup DiscoverRoutes(n) /\ good'[q] = good[q] \cup {n}
    BY <1>10, <1>b DEF Discover
  <2>3. \A r \in DiscoverRoutes(n) : r.source = RouteSource(n)
    BY <1>b, DiscoverSource
  <2> QED
    BY <1>a, <2>1, <2>2, <2>3
<1>11. ASSUME NEW p \in Proc, NEW n \in Node, DiscoverFails(p, n) PROVE Ok1(q)
  <2>1. UNCHANGED <<pc[q], got[q], good[q]>> /\ todo'[q] \subseteq todo[q]
    BY <1>11, <1>b DEF DiscoverFails
  <2> QED
    BY <1>a, <2>1
<1>12. ASSUME NEW p \in Proc, ListCustomApps(p) PROVE Ok1(q)
  <2>1. /\ UNCHANGED <<todo[q], got[q], good[q]>>
        /\ pc'[q] \in {"idle", "wait"} => pc[q] \in {"idle", "wait"}
    BY <1>12, <1>b, ProcFacts DEF ListCustomApps
  <2> QED
    BY <1>a, <2>1
<1>13. ASSUME NEW p \in Proc, MergeRoutes(p) PROVE Ok1(q)
  <2>1. /\ UNCHANGED <<todo[q], got[q], good[q]>>
        /\ pc'[q] \in {"idle", "wait"} => pc[q] \in {"idle", "wait"}
    BY <1>13, <1>b, ProcFacts DEF MergeRoutes
  <2> QED
    BY <1>a, <2>1
<1>14. ASSUME NEW p \in Proc, ReplaceRoutes(p) PROVE Ok1(q)
  <2>1. /\ UNCHANGED <<todo[q], got[q]>> /\ good'[q] \subseteq good[q]
        /\ pc'[q] \in {"idle", "wait"} => pc'[q] = pc[q]
    BY <1>14, <1>b DEF ReplaceRoutes, Overwrite
  <2> QED
    BY <1>a, <2>1
<1>15. ASSUME NEW p \in Proc, ReplaceApplications(p) PROVE Ok1(q)
  <2>1. /\ UNCHANGED <<todo[q], got[q], good[q]>>
        /\ pc'[q] \in {"idle", "wait"} => pc[q] \in {"idle", "wait"}
    BY <1>15, <1>b, ProcFacts DEF ReplaceApplications
  <2> QED
    BY <1>a, <2>1
<1>16. ASSUME NEW p \in Proc, SwapTable(p) PROVE Ok1(q)
  <2>1. /\ todo'[q] = todo[q] /\ good'[q] = {}
        /\ got'[q] \subseteq got[q] /\ (q = p => got'[q] = {}) /\ (q # p => pc'[q] = pc[q])
    BY <1>16, <1>b DEF SwapTable
  <2> QED
    BY <1>a, <2>1
<1>17. CASE UNCHANGED vars
  BY <1>17, <1>a DEF vars
<1> QED
  BY <1>1, <1>2, <1>3, <1>4, <1>5, <1>6, <1>7, <1>8, <1>9, <1>10, <1>11, <1>12, <1>13, <1>14, <1>15, <1>16, <1>17 DEF Next, RefreshStep


\* Types, locks and selections at the start.
LEMMA RunInit == Init => TypeOK /\ MutexInv /\ SelectInv
<1> SUFFICES ASSUME Init PROVE TypeOK /\ MutexInv /\ SelectInv
  OBVIOUS
<1>1. MutexInv
  <2>1. Task \subseteq {"startup", "reload"} /\ NoProc \notin Proc
    BY RouteRefreshAssumption
  <2>2. \A p \in Proc \ Task : p # "startup"
    BY ProcFacts, RouteRefreshAssumption
  <2> QED
    BY <2>1, <2>2, ProcFacts DEF Init, MutexInv
<1>2. SelectInv
  <2>1. \A p \in Proc : p = "startup" => SelectedDiscoverers(p) = {Local}
    BY ProcFacts, RouteRefreshAssumption DEF SelectedDiscoverers
  <2> QED
    BY <2>1, ProcFacts DEF Init, SelectInv
<1> QED
  BY <1>1, <1>2, TypeInit


-----------------------------------------------------------------------------
(* What the dashboard shows is served.                                      *)

\* A step that publishes nothing.
LEMMA ProxiedKept ==
    ASSUME ProxiedInv, UNCHANGED <<applications, table>>, excused \subseteq excused',
           \A p \in Proc : /\ pc'[p] = "swap" <=> pc[p] = "swap"
                           /\ pc[p] = "swap" => out'[p] = out[p] /\ good'[p] \subseteq good[p]
    PROVE  ProxiedInv'
<1>1. Pending => Pending'
  <2> SUFFICES ASSUME NEW q \in Proc, pc[q] = "swap", Covered(out[q])
               PROVE  pc'[q] = "swap" /\ Covered(out[q])'
    BY DEF Pending
  <2> QED
    BY DEF Covered
<1>2. Covered(table) => Covered(table)'
  BY DEF Covered
<1>3. \A p \in Proc : pc'[p] = "swap" /\ good'[p] # {} => Pending'
  BY <1>1 DEF ProxiedInv
<1> QED
  BY <1>1, <1>2, <1>3 DEF ProxiedInv

\* Every step keeps what the proxy forwards to among what is served.
LEMMA ProxiedStep ==
    ASSUME TypeOK, ProxiedInv, [Next]_vars
    PROVE  ProxiedInv'
<1> USE DEF refresh, published
<1>b. /\ pc \in [Proc -> {"idle", "wait", "discover", "merge", "replace", "snapshots", "swap"}]
      /\ good \in [Proc -> SUBSET Node] /\ out \in [Proc -> SUBSET Route]
  BY DEF TypeOK
<1> DEFINE Same == /\ UNCHANGED <<applications, table>> /\ excused \subseteq excused'
                   /\ \A q \in Proc :
                        /\ pc'[q] = "swap" <=> pc[q] = "swap"
                        /\ pc[q] = "swap" => out'[q] = out[q] /\ good'[q] \subseteq good[q]
<1>c. Same => ProxiedInv'
  BY ProxiedKept
<1>1. ASSUME NEW c \in Container, ContainerChange(c) PROVE ProxiedInv'
  BY <1>1, <1>b, <1>c DEF ContainerChange, Lose
<1>2. ASSUME NEW n \in Node, WatchEvent(n) PROVE ProxiedInv'
  BY <1>2, <1>b, <1>c DEF WatchEvent
<1>3. ASSUME NEW n \in Node, StreamFails(n) PROVE ProxiedInv'
  BY <1>3, <1>b, <1>c DEF StreamFails, Lose
<1>4. ASSUME NEW n \in Node, StreamRetry(n) PROVE ProxiedInv'
  BY <1>4, <1>b, <1>c DEF StreamRetry
<1>5. ASSUME NEW n \in Node, TakeToken(n) PROVE ProxiedInv'
  BY <1>5, <1>b, <1>c DEF TakeToken
<1>6. ASSUME NEW n \in Node, ManualRefresh(n) PROVE ProxiedInv'
  BY <1>6, <1>b, <1>c DEF ManualRefresh
<1>7. CASE StartFull
  BY <1>7, <1>b, <1>c DEF StartFull
<1>8. ASSUME NEW hosts \in SUBSET AppHost, Reload(hosts) PROVE ProxiedInv'
  BY <1>8, <1>b, <1>c DEF Reload
<1>9. ASSUME NEW p \in Proc, LockRefresh(p) PROVE ProxiedInv'
  BY <1>9, <1>b, <1>c DEF LockRefresh
<1>10. ASSUME NEW p \in Proc, NEW n \in Node, Discover(p, n) PROVE ProxiedInv'
  BY <1>10, <1>b, <1>c DEF Discover
<1>11. ASSUME NEW p \in Proc, NEW n \in Node, DiscoverFails(p, n) PROVE ProxiedInv'
  BY <1>11, <1>b, <1>c DEF DiscoverFails
<1>12. ASSUME NEW p \in Proc, ListCustomApps(p) PROVE ProxiedInv'
  BY <1>12, <1>b, <1>c DEF ListCustomApps
<1>13. ASSUME NEW p \in Proc, MergeRoutes(p) PROVE ProxiedInv'
  BY <1>13, <1>b, <1>c DEF MergeRoutes
<1>14. ASSUME NEW p \in Proc, ReplaceRoutes(p) PROVE ProxiedInv'
  BY <1>14, <1>b, <1>c DEF ReplaceRoutes, Overwrite
<1>15. ASSUME NEW p \in Proc, ReplaceApplications(p) PROVE ProxiedInv'
  <2>1. PICK N : applications' = BuildApplications({c \in running : NodeOf[c] \in N}, out[p])
    BY <1>15 DEF ReplaceApplications
  <2>2. \A a \in applications' : a.proxied => \E r \in out[p] : r.host = a.host
    BY <2>1 DEF BuildApplications
  <2>3. pc'[p] = "swap" /\ out'[p] = out[p]
    BY <1>15, <1>b DEF ReplaceApplications
  <2>4. Pending'
    BY <2>2, <2>3 DEF Pending, Covered
  <2> QED
    BY <2>4 DEF ProxiedInv
<1>16. ASSUME NEW p \in Proc, SwapTable(p) PROVE ProxiedInv'
  <2>1. /\ pc[p] = "swap" /\ table' \in KeyedMaps(out[p], "host") /\ applications' = applications
        /\ \A q \in Proc : good'[q] = {} /\ (q # p => pc'[q] = pc[q] /\ out'[q] = out[q])
        /\ excused' = (excused \ good[p]) \cup (Scope(p) \ good[p])
    BY <1>16, <1>b DEF SwapTable
  <2> SUFFICES ASSUME excused' = {} PROVE Covered(table)' \/ Pending'
    BY <2>1 DEF ProxiedInv
  <2>2. Scope(p) # {}
    BY ProcFacts DEF Scope
  <2>3. good[p] # {}
    BY <2>1, <2>2
  <2>4. PICK q \in Proc : pc[q] = "swap" /\ Covered(out[q])
    BY <2>1, <2>3 DEF ProxiedInv, Pending
  <2>5. CASE q = p
    <3>1. \A r \in out[p] : \E t \in table' : t.host = r.host
      BY <2>1 DEF KeyedMaps
    <3> QED
      BY <2>1, <2>4, <2>5, <3>1 DEF Covered
  <2>6. CASE q # p
    BY <2>1, <2>4, <2>6 DEF Pending, Covered
  <2> QED
    BY <2>5, <2>6
<1>17. CASE UNCHANGED vars
  BY <1>17, <1>c DEF vars
<1> QED
  BY <1>1, <1>2, <1>3, <1>4, <1>5, <1>6, <1>7, <1>8, <1>9, <1>10, <1>11, <1>12, <1>13, <1>14, <1>15, <1>16, <1>17 DEF Next, RefreshStep

\* What the dashboard shows as proxied is served once no refresh is under way and none was
\* disturbed, although the applications and the table are written in two steps, in any
\* order by refreshes with and without refreshMu.
THEOREM ProxiedIsServedHolds == Spec => []ProxiedIsServed
<1>1. Init => TypeOK /\ ProxiedInv
  BY TypeInit DEF Init, ProxiedInv, Covered
<1>2. TypeOK /\ ProxiedInv /\ [Next]_vars => (TypeOK /\ ProxiedInv)'
  BY TypeStep, ProxiedStep
<1>3. ProxiedInv => ProxiedIsServed
  BY DEF ProxiedInv, ProxiedIsServed, Pending, Covered
<1> QED
  BY <1>1, <1>2, <1>3, PTL DEF Spec


-----------------------------------------------------------------------------
(* An agent's routes follow its containers.                                 *)

\* Being current depends on the agent's containers only.
LEMMA CurrentKept ==
    ASSUME NEW a \in Agent, NEW S \in SUBSET Route, Current(S, a),
           \A c \in Container : NodeOf[c] = a => (c \in running' <=> c \in running),
           running \subseteq Container, running' \subseteq Container
    PROVE  Current(S, a)'
<1>1. \A r \in S : r.source = a => r.container \in Container /\ NodeOf[r.container] = a
  BY RouteFacts, ProcFacts
<1>2. \A r \in S : r.source = a => r.container \in running'
  BY <1>1 DEF Current
<1>3. \A c \in running' : NodeOf[c] = a =>
        \E r \in S : r.source = a /\ IsPrefix(HostOf[c], r.host)
  BY DEF Current
<1> QED
  BY <1>2, <1>3 DEF Current

\* A step that publishes nothing and tells nobody anything about the agent.
LEMMA QuietStep ==
    ASSUME NEW a \in Agent, CurrentFor(a), TypeOK,
           \A c \in Container : NodeOf[c] = a => (c \in running' <=> c \in running),
           running' \subseteq Container,
           Unheard(a) => Unheard(a)', Busy(a) => Busy(a)',
           UNCHANGED <<routes, table>>,
           a \in excused => a \in excused',
           \A p \in Proc : /\ a \in good'[p] => a \in good[p] /\ got'[p] = got[p]
                           /\ pc'[p] \in Publishing => pc[p] \in Publishing /\ out'[p] = out[p]
                           /\ Midway(p)' <=> Midway(p)
    PROVE  CurrentFor(a)'
<1>0. /\ got \in [Proc -> SUBSET ContainerRoutes] /\ out \in [Proc -> SUBSET Route]
      /\ routes \subseteq Route /\ table \subseteq Route /\ running \subseteq Container
      /\ ContainerRoutes \subseteq Route
  BY ContainerRoutesFacts DEF TypeOK
<1>a. \A S \in SUBSET Route : Current(S, a) => Current(S, a)'
  BY <1>0, CurrentKept
<1>1. GotOK(a)'
  <2> SUFFICES ASSUME NEW p \in Proc, a \in good'[p] PROVE Unheard(a)' \/ Current(got[p], a)'
    BY DEF GotOK
  <2>1. Unheard(a) \/ Current(got[p], a)
    BY DEF CurrentFor, GotOK
  <2>2. got'[p] = got[p] /\ got[p] \subseteq Route
    BY <1>0
  <2>3. Current(got[p], a) => \A S : S = got[p] => Current(S, a)'
    BY <1>a, <2>2
  <2> QED
    BY <2>1, <2>2, <2>3 DEF Current
<1>2. OutOK(a)'
  <2> SUFFICES ASSUME NEW p \in Proc, a \in good'[p], pc'[p] \in Publishing
               PROVE  Unheard(a)' \/ Current(out[p], a)'
    BY DEF OutOK, Publishing
  <2>1. Unheard(a) \/ Current(out[p], a)
    BY DEF CurrentFor, OutOK
  <2>2. out'[p] = out[p] /\ out[p] \subseteq Route
    BY <1>0
  <2>3. Current(out[p], a) => \A S : S = out[p] => Current(S, a)'
    BY <1>a, <2>2
  <2> QED
    BY <2>1, <2>2, <2>3 DEF Current
<1>3. KeptOK(a)'
  <2> SUFFICES ASSUME a \notin excused', NEW b \in Node \ {a}, pc'[b] \in Publishing
               PROVE  Busy(a)' \/ Current(out[b], a)'
    BY DEF KeptOK, Publishing
  <2>1. b \in Proc
    BY ProcFacts
  <2>2. Busy(a) \/ Current(out[b], a)
    BY <2>1 DEF CurrentFor, KeptOK
  <2>3. out'[b] = out[b] /\ out[b] \subseteq Route
    BY <1>0, <2>1
  <2>4. Current(out[b], a) => \A S : S = out[b] => Current(S, a)'
    BY <1>a, <2>3
  <2> QED
    BY <2>2, <2>3, <2>4 DEF Current
<1>4. StoredOK(a)'
  <2> SUFFICES ASSUME NEW p \in Proc, Midway(p)',
                      a \in good'[p] \/ (p \in Node \ {a} /\ a \notin excused')
               PROVE  routes' \in KeyedMaps(out'[p], "id")
    BY DEF StoredOK, KeyedMaps
  <2>1. Midway(p) /\ out'[p] = out[p]
    BY DEF Midway, Publishing
  <2>2. routes \in KeyedMaps(out[p], "id")
    BY <2>1 DEF CurrentFor, StoredOK
  <2> QED
    BY <2>1, <2>2
<1>5. RoutesOK(a)'
  <2> SUFFICES ASSUME a \notin excused' PROVE Busy(a)' \/ Current(routes, a)'
    BY DEF RoutesOK
  <2>1. Busy(a) \/ Current(routes, a)
    BY DEF CurrentFor, RoutesOK
  <2>2. Current(routes, a) => \A S : S = routes => Current(S, a)'
    BY <1>0, <1>a
  <2> QED
    BY <2>1, <2>2 DEF Current
<1>6. TableOK(a)'
  <2> SUFFICES ASSUME a \notin excused', ~ Busy(a)', \A p \in Proc : ~ Midway(p)'
               PROVE  Served(a)'
    BY DEF TableOK
  <2>1. Served(a)
    BY DEF CurrentFor, TableOK
  <2>2. \A t \in table : t.source = a => t.container \in Container /\ NodeOf[t.container] = a
    BY <1>0, RouteFacts, ProcFacts
  <2> QED
    BY <2>1, <2>2 DEF Served
<1> QED
  BY <1>1, <1>2, <1>3, <1>4, <1>5, <1>6 DEF CurrentFor

\* A step after which nobody relies on what is known of the agent.
LEMMA ExcusedStep ==
    ASSUME NEW a \in Agent, a \in excused', \A p \in Proc : a \notin good'[p]
    PROVE  CurrentFor(a)'
BY DEF CurrentFor, GotOK, OutOK, KeptOK, StoredOK, RoutesOK, TableOK

\* Of the refreshes that hold refreshMu only one is under way.
LEMMA OneHolder ==
    ASSUME MutexInv, NEW p \in Proc \ Task, NEW q \in Proc \ Task,
           pc[p] \notin {"idle", "wait"}, pc[q] \notin {"idle", "wait"}
    PROVE  p = q
BY DEF MutexInv


\* The refreshes that ask the agent.
LEMMA Askers ==
    ASSUME SelectInv, NEW a \in Agent, NEW p \in Proc, a \in good[p] \cup todo[p]
    PROVE  (p = a \/ p = "full") /\ p \notin Task /\ a \in Scope(p)
<1>1. a \in SelectedDiscoverers(p)
  BY DEF SelectInv
<1> QED
  BY <1>1, SelectedFacts, ProcFacts

\* A discoverer's answer.
LEMMA DiscoverCurrent ==
    ASSUME RefreshInv, NEW a \in Agent, NEW p \in Proc, NEW n \in Node, Discover(p, n)
    PROVE  CurrentFor(a)'
<1> USE DEF refresh, published
<1>1. /\ pc[p] = "discover" /\ n \in todo[p] /\ good'[p] = good[p] \cup {n}
      /\ got'[p] = got[p] \cup DiscoverRoutes(n)
      /\ \A q \in Proc : q # p => good'[q] = good[q] /\ got'[q] = got[q]
      /\ UNCHANGED <<running, evt, refreshCh, pc, out, routes, table, excused>>
  BY DEF Discover, RefreshInv, TypeOK
<1>2. CurrentFor(a) /\ TypeOK /\ SelectInv /\ MutexInv /\ running \subseteq Container
  BY DEF RefreshInv, CurrentInv, TypeOK
<1>3. \A S : Current(S, a)' <=> Current(S, a)
  BY <1>1 DEF Current
<1>4. Busy(a)' <=> Busy(a)
  BY <1>1 DEF Busy
<1>5. KeptOK(a)' /\ RoutesOK(a)' /\ TableOK(a)'
  <2>1. KeptOK(a)'
    BY <1>1, <1>2, <1>4 DEF CurrentFor, KeptOK, Current
  <2>2. RoutesOK(a)'
    BY <1>1, <1>2, <1>4 DEF CurrentFor, RoutesOK, Current
  <2>3. TableOK(a)'
    BY <1>1, <1>2, <1>4 DEF CurrentFor, TableOK, Served, Midway
  <2> QED
    BY <2>1, <2>2, <2>3
<1>6. CASE n # a
  <2>1. \A q \in Proc : a \in good'[q] <=> a \in good[q]
    BY <1>1, <1>6
  <2>2. Unheard(a)' <=> Unheard(a)
    <3>1. a \in Proc
      BY ProcFacts
    <3> QED
      BY <1>1, <2>1, <3>1 DEF Unheard
  <2>3. Current(got[p], a) => Current(got'[p], a)
    <3>1. \A r \in DiscoverRoutes(n) : r.source # a
      BY <1>2, <1>6, DiscoverSource, ProcFacts
    <3> QED
      BY <1>1, <3>1 DEF Current
  <2>4. GotOK(a)'
    <3> SUFFICES ASSUME NEW q \in Proc, a \in good'[q] PROVE Unheard(a)' \/ Current(got'[q], a)
      BY <1>1 DEF GotOK, Current
    <3> QED
      BY <1>1, <1>2, <2>1, <2>2, <2>3 DEF CurrentFor, GotOK
  <2>5. OutOK(a)'
    BY <1>1, <1>2, <2>1, <2>2 DEF CurrentFor, OutOK, Current
  <2>6. StoredOK(a)'
    BY <1>1, <1>2, <2>1 DEF CurrentFor, StoredOK, KeyedMaps, Midway
  <2> QED
    BY <1>5, <2>4, <2>5, <2>6 DEF CurrentFor
<1>7. CASE n = a
  <2>1. (p = a \/ p = "full") /\ p \notin Task
    BY <1>1, <1>2, <1>7, Askers
  <2>2. \A q \in Proc \ Task : q # p => pc[q] \in {"idle", "wait"}
    BY <1>1, <1>2, <2>1, OneHolder
  <2>3. \A q \in Proc : a \in good'[q] => q = p
    <3> SUFFICES ASSUME NEW q \in Proc, q # p, a \in good[q] PROVE FALSE
      BY <1>1
    <3>1. q \notin Task
      BY <1>2, Askers
    <3> QED
      BY <1>2, <2>2, <3>1 DEF SelectInv
  <2>4. Current(got'[p], a)
    <3>1. \A r \in got[p] : r.source # a
      BY <1>1, <1>2, <1>7, ProcFacts, SelectedFacts DEF SelectInv
    <3>2. \A r \in DiscoverRoutes(a) : r.source = a /\ r.container \in running
      BY <1>2, DiscoverSource, ProcFacts
    <3>3. \A c \in running : NodeOf[c] = a =>
            \E r \in DiscoverRoutes(a) : IsPrefix(HostOf[c], r.host)
      BY <1>2, BuildRouteFacts, SourceFacts, PrefixOrder DEF DiscoverRoutes
    <3> QED
      BY <1>1, <1>7, <3>1, <3>2, <3>3 DEF Current
  <2>5. GotOK(a)'
    BY <1>1, <2>3, <2>4 DEF GotOK, Current
  <2>6. OutOK(a)'
    BY <1>1, <2>3 DEF OutOK, Publishing
  <2>7. StoredOK(a)'
    <3> SUFFICES ASSUME NEW q \in Proc, Midway(q), a \in good'[q] \/ q \in Node PROVE FALSE
      BY <1>1 DEF StoredOK, Midway
    <3>1. q # p /\ pc[q] \notin {"idle", "wait"}
      BY <1>1 DEF Midway
    <3> QED
      BY <2>2, <2>3, <3>1, ProcFacts
  <2> QED
    BY <1>5, <2>5, <2>6, <2>7 DEF CurrentFor
<1> QED
  BY <1>6, <1>7

\* Merging what was found.
LEMMA MergeCurrent ==
    ASSUME RefreshInv, NEW a \in Agent, NEW p \in Proc, MergeRoutes(p)
    PROVE  CurrentFor(a)'
<1> USE DEF refresh, published
<1> DEFINE found == IF p \in Node THEN MergeRoutesForSource(routes, p, got[p]) ELSE got[p]
<1>1. /\ pc[p] = "merge" /\ pc'[p] = "replace" /\ out'[p] = ApplyCustomRoutes(found, custom[p])
      /\ \A q \in Proc : q # p => pc'[q] = pc[q] /\ out'[q] = out[q]
      /\ UNCHANGED <<running, evt, refreshCh, good, got, routes, table, excused>>
  BY DEF MergeRoutes, RefreshInv, TypeOK
<1>2. /\ CurrentFor(a) /\ SelectInv /\ found \subseteq Route
      /\ custom[p] \subseteq BuildCustomAppRoutes(AppHost) /\ running \subseteq Container
  BY MergeType DEF RefreshInv, CurrentInv, TypeOK
<1>3. a \in Proc /\ a \in Node
  BY ProcFacts
<1>4. (Unheard(a)' <=> Unheard(a)) /\ (Busy(a)' <=> Busy(a))
  BY <1>1, <1>3 DEF Unheard, Busy
<1>5. Current(found, a) => Current(out'[p], a)
  BY <1>1, <1>2, ApplyCurrent
<1>6. a \in good[p] => Unheard(a) \/ Current(found, a)
  <2> SUFFICES ASSUME a \in good[p], Current(got[p], a) PROVE Current(found, a)
    BY <1>2 DEF CurrentFor, GotOK
  <2>1. p = a \/ p = "full"
    BY <1>2, Askers
  <2>2. \A r \in found : r.source = a => r \in got[p]
    BY <2>1, ProcFacts DEF MergeRoutesForSource
  <2>3. got[p] \subseteq found
    BY DEF MergeRoutesForSource
  <2> QED
    BY <2>2, <2>3 DEF Current
<1>7. p \in Node \ {a} /\ Current(routes, a) => Current(found, a)
  <2> SUFFICES ASSUME p \in Node \ {a}, Current(routes, a) PROVE Current(found, a)
    OBVIOUS
  <2>1. \A r \in got[p] : r.source # a
    BY <1>2, <1>3, ProcFacts, SelectedFacts DEF SelectInv
  <2>2. \A r : r.source = a => (r \in found <=> r \in routes)
    BY <2>1 DEF MergeRoutesForSource
  <2> QED
    BY <2>2 DEF Current
<1> HIDE DEF found
<1>8. GotOK(a)'
  BY <1>1, <1>2, <1>4 DEF CurrentFor, GotOK, Current
<1>9. OutOK(a)'
  <2> SUFFICES ASSUME NEW q \in Proc, a \in good[q], pc'[q] \in Publishing
               PROVE  Unheard(a) \/ Current(out'[q], a)
    BY <1>1, <1>4 DEF OutOK, Current, Publishing
  <2>1. CASE q = p
    BY <1>5, <1>6, <2>1
  <2>2. CASE q # p
    BY <1>1, <1>2, <2>2 DEF CurrentFor, OutOK
  <2> QED
    BY <2>1, <2>2
<1>10. KeptOK(a)'
  <2> SUFFICES ASSUME a \notin excused, NEW b \in Node \ {a}, pc'[b] \in Publishing
               PROVE  Busy(a) \/ Current(out'[b], a)
    BY <1>1, <1>4 DEF KeptOK, Current, Publishing
  <2>1. CASE b = p
    BY <1>2, <1>5, <1>7, <2>1 DEF CurrentFor, RoutesOK
  <2>2. CASE b # p
    BY <1>1, <1>2, <2>2, ProcFacts DEF CurrentFor, KeptOK
  <2> QED
    BY <2>1, <2>2
<1>11. StoredOK(a)'
  <2> SUFFICES ASSUME NEW q \in Proc, pc'[q] \in {"snapshots", "swap"},
                      a \in good[q] \/ (q \in Node \ {a} /\ a \notin excused)
               PROVE  routes \in KeyedMaps(out'[q], "id")
    BY <1>1 DEF StoredOK, Midway, KeyedMaps
  <2>1. q # p /\ Midway(q) /\ out'[q] = out[q]
    BY <1>1 DEF Midway
  <2> QED
    BY <1>2, <2>1 DEF CurrentFor, StoredOK
<1>12. RoutesOK(a)'
  BY <1>1, <1>2, <1>4 DEF CurrentFor, RoutesOK, Current
<1>13. TableOK(a)'
  <2>1. \A q \in Proc : Midway(q)' <=> Midway(q)
    BY <1>1 DEF Midway
  <2> QED
    BY <1>1, <1>2, <1>4, <2>1 DEF CurrentFor, TableOK, Served
<1> QED
  BY <1>8, <1>9, <1>10, <1>11, <1>12, <1>13 DEF CurrentFor


\* Replacing the stored routes.
LEMMA ReplaceCurrent ==
    ASSUME RefreshInv, NEW a \in Agent, NEW p \in Proc, ReplaceRoutes(p)
    PROVE  CurrentFor(a)'
<1> USE DEF refresh, published
<1>1. /\ pc[p] = "replace" /\ pc'[p] = "snapshots" /\ routes' \in KeyedMaps(out[p], "id")
      /\ \A q \in Proc : q # p => pc'[q] = pc[q] /\ good'[q] = {}
      /\ good'[p] = good[p] /\ excused' = excused \cup (Scope(p) \ good[p])
      /\ UNCHANGED <<running, evt, refreshCh, got, out, table>>
  BY DEF ReplaceRoutes, Overwrite, RefreshInv, TypeOK
<1>2. CurrentFor(a) /\ SelectInv /\ MutexInv /\ out[p] \subseteq Route
  BY DEF RefreshInv, CurrentInv, TypeOK
<1>3. a \in Proc /\ a \in Node
  BY ProcFacts
<1>4. (Unheard(a) => Unheard(a)') /\ (Busy(a)' <=> Busy(a))
  BY <1>1, <1>3 DEF Unheard, Busy
<1>5. Current(out[p], a) => Current(routes', a)
  BY <1>1, <1>2, KeyedCurrent
<1>6. CASE a \notin good[p] /\ (a \in Scope(p) \/ a \in excused)
  BY <1>1, <1>6, ExcusedStep
<1>7. CASE a \in good[p] \/ (a \notin Scope(p) /\ a \notin excused)
  <2>1. p \notin Task /\ (a \in good[p] \/ p \in Node \ {a})
    BY <1>2, <1>3, <1>7, Askers, SelectedFacts, ProcFacts
  <2>2. \A q \in Proc \ Task : q # p => pc[q] \in {"idle", "wait"}
    BY <1>1, <1>2, <2>1, OneHolder
  <2>3. GotOK(a)'
    BY <1>1, <1>2, <1>4 DEF CurrentFor, GotOK, Current
  <2>4. OutOK(a)'
    BY <1>1, <1>2, <1>4 DEF CurrentFor, OutOK, Current, Publishing
  <2>5. KeptOK(a)'
    BY <1>1, <1>2, <1>4, ProcFacts DEF CurrentFor, KeptOK, Current, Publishing
  <2>6. StoredOK(a)'
    <3> SUFFICES ASSUME NEW q \in Proc, pc'[q] \in {"snapshots", "swap"},
                        a \in good'[q] \/ q \in Node
                 PROVE  q = p
      BY <1>1 DEF StoredOK, Midway, KeyedMaps
    <3> QED
      BY <1>1, <2>2, ProcFacts
  <2>7. a \notin excused' => Busy(a) \/ Current(out[p], a)
    <3>1. CASE a \in good[p]
      <4>1. Unheard(a) => Busy(a)
        BY DEF Unheard, Busy
      <4> QED
        BY <1>1, <1>2, <3>1, <4>1 DEF CurrentFor, OutOK, Publishing
    <3>2. CASE a \notin good[p]
      BY <1>1, <1>2, <1>7, <2>1, <3>2 DEF CurrentFor, KeptOK, Publishing
    <3> QED
      BY <3>1, <3>2
  <2>8. RoutesOK(a)'
    BY <1>1, <1>4, <1>5, <2>7 DEF RoutesOK, Current
  <2>9. TableOK(a)'
    BY <1>1 DEF TableOK, Midway
  <2> QED
    BY <2>3, <2>4, <2>5, <2>6, <2>8, <2>9 DEF CurrentFor
<1> QED
  BY <1>6, <1>7

\* Swapping the table.
LEMMA SwapCurrent ==
    ASSUME RefreshInv, NEW a \in Agent, NEW p \in Proc, SwapTable(p)
    PROVE  CurrentFor(a)'
<1> USE DEF refresh, published
<1>1. /\ pc[p] = "swap" /\ pc'[p] = "idle" /\ table' \in KeyedMaps(out[p], "host")
      /\ \A q \in Proc : good'[q] = {} /\ (q # p => pc'[q] = pc[q] /\ out'[q] = out[q])
      /\ excused' = (excused \ good[p]) \cup (Scope(p) \ good[p])
      /\ UNCHANGED <<running, evt, refreshCh, routes>>
  BY DEF SwapTable, RefreshInv, TypeOK
<1>2. CurrentFor(a) /\ SelectInv /\ MutexInv
  BY DEF RefreshInv, CurrentInv
<1>3. a \in Proc /\ a \in Node
  BY ProcFacts
<1>4. CASE a \in excused'
  BY <1>1, <1>4, ExcusedStep
<1>5. CASE a \notin excused'
  <2>1. p \notin Task /\ (a \in good[p] \/ (p \in Node \ {a} /\ a \notin excused))
    BY <1>1, <1>2, <1>3, <1>5, Askers, SelectedFacts, ProcFacts
  <2>2. \A q \in Proc \ Task : q # p => pc[q] \in {"idle", "wait"}
    BY <1>1, <1>2, <2>1, OneHolder
  <2>3. GotOK(a)' /\ OutOK(a)'
    BY <1>1 DEF GotOK, OutOK
  <2>4. KeptOK(a)'
    BY <1>1, <2>2, ProcFacts DEF KeptOK, Publishing
  <2>5. StoredOK(a)'
    BY <1>1, <2>2, ProcFacts DEF StoredOK, Midway
  <2>6. routes \in KeyedMaps(out[p], "id")
    BY <1>1, <1>2, <2>1 DEF CurrentFor, StoredOK, Midway
  <2>7. Busy(a)' \/ Current(out[p], a)
    <3>1. CASE a \in good[p]
      <4>1. Unheard(a) => Busy(a)'
        <5>1. CASE p = a
          BY <1>1, <3>1, <5>1 DEF Unheard, Busy
        <5>2. CASE p # a
          BY <1>1, <1>3, <5>2 DEF Unheard, Busy
        <5> QED
          BY <5>1, <5>2
      <4> QED
        BY <1>1, <1>2, <3>1, <4>1 DEF CurrentFor, OutOK, Publishing
    <3>2. CASE a \notin good[p]
      <4>1. Busy(a) => Busy(a)'
        BY <1>1, <1>3, <2>1, <3>2 DEF Busy
      <4> QED
        BY <1>1, <1>2, <2>1, <3>2, <4>1 DEF CurrentFor, KeptOK, Publishing
    <3> QED
      BY <3>1, <3>2
  <2>8. RoutesOK(a)'
    <3>1. Current(out[p], a) => Current(routes, a)
      BY <2>6, KeyedCurrent DEF RefreshInv, TypeOK
    <3> QED
      BY <1>1, <2>7, <3>1 DEF RoutesOK, Current
  <2>9. TableOK(a)'
    <3>1. routes \subseteq out[p] /\ table' \subseteq out[p]
      BY <1>1, <2>6 DEF KeyedMaps
    <3>2. \A r \in routes : \E t \in table' : t.host = r.host
      BY <1>1, <3>1 DEF KeyedMaps
    <3>3. Current(out[p], a) => Served(a)'
      BY <1>1, <3>1, <3>2 DEF Served, Current
    <3> QED
      BY <2>7, <3>3 DEF TableOK
  <2> QED
    BY <2>3, <2>4, <2>5, <2>8, <2>9 DEF CurrentFor
<1> QED
  BY <1>4, <1>5

\* Every step keeps what is known of each agent's routes.
LEMMA CurrentStep ==
    ASSUME RefreshInv, [Next]_vars
    PROVE  CurrentInv'
<1> USE DEF refresh, published
<1> SUFFICES ASSUME NEW a \in Agent PROVE CurrentFor(a)'
  BY DEF CurrentInv
<1>a. CurrentFor(a) /\ TypeOK /\ SelectInv /\ a \in Node /\ a \in Proc
  BY ProcFacts DEF RefreshInv, CurrentInv
<1>b. /\ pc \in [Proc -> {"idle", "wait", "discover", "merge", "replace", "snapshots", "swap"}]
      /\ good \in [Proc -> SUBSET Node] /\ out \in [Proc -> SUBSET Route]
      /\ running \subseteq Container
  BY <1>a DEF TypeOK
<1> DEFINE Same == /\ \A c \in Container : NodeOf[c] = a => (c \in running' <=> c \in running)
                   /\ running' \subseteq Container
                   /\ Unheard(a) => Unheard(a)'
                   /\ Busy(a) => Busy(a)'
                   /\ UNCHANGED <<routes, table>>
                   /\ a \in excused => a \in excused'
                   /\ \A p \in Proc :
                        /\ a \in good'[p] => a \in good[p] /\ got'[p] = got[p]
                        /\ pc'[p] \in Publishing => pc[p] \in Publishing /\ out'[p] = out[p]
                        /\ Midway(p)' <=> Midway(p)
<1>c. Same => CurrentFor(a)'
  BY <1>a, QuietStep
<1> USE DEF Unheard, Busy, Midway, Publishing
<1>1. ASSUME NEW c \in Container, ContainerChange(c) PROVE CurrentFor(a)'
  <2>1. CASE NodeOf[c] = a /\ NodeOf[c] \notin stream
    BY <1>1, <2>1, ExcusedStep DEF ContainerChange, Lose
  <2>2. CASE NodeOf[c] = a /\ NodeOf[c] \in stream
    <3>1. a \in evt' /\ UNCHANGED <<pc, good, excused, routes, out>>
      BY <1>1, <2>2 DEF ContainerChange
    <3>2. StoredOK(a)'
      BY <1>a, <3>1 DEF CurrentFor, StoredOK, KeyedMaps
    <3> QED
      BY <3>1, <3>2 DEF CurrentFor, GotOK, OutOK, KeptOK, RoutesOK, TableOK
  <2>3. CASE NodeOf[c] # a
    <3>1. /\ running' = (IF c \in running THEN running \ {c} ELSE running \cup {c})
          /\ UNCHANGED <<refreshCh, pc, got, out, routes, table>>
      BY <1>1 DEF ContainerChange
    <3>2. /\ a \in evt => a \in evt'
          /\ a \in excused => a \in excused'
          /\ \A p \in Proc : a \in good'[p] <=> a \in good[p]
      BY <1>1, <2>3, <1>b DEF ContainerChange, Lose
    <3>3. \A d \in Container : NodeOf[d] = a => (d \in running' <=> d \in running)
      BY <2>3, <3>1
    <3> QED
      BY <1>a, <1>b, <1>c, <3>1, <3>2, <3>3
  <2> QED
    BY <2>1, <2>2, <2>3
<1>2. ASSUME NEW n \in Node, WatchEvent(n) PROVE CurrentFor(a)'
  BY <1>2, <1>a, <1>b, <1>c DEF WatchEvent
<1>3. ASSUME NEW n \in Node, StreamFails(n) PROVE CurrentFor(a)'
  <2>1. CASE n = a /\ a \in evt
    BY <1>3, <2>1, <1>b, ExcusedStep DEF StreamFails, Lose
  <2>2. CASE ~ (n = a /\ a \in evt)
    <3>1. /\ UNCHANGED <<running, refreshCh, pc, got, out, routes, table>>
          /\ a \in evt => a \in evt'
          /\ a \in excused => a \in excused'
          /\ \A p \in Proc : a \in good'[p] <=> a \in good[p]
      BY <1>3, <2>2, <1>b DEF StreamFails, Lose
    <3> QED
      BY <1>a, <1>b, <1>c, <3>1
  <2> QED
    BY <2>1, <2>2
<1>4. ASSUME NEW n \in Node, StreamRetry(n) PROVE CurrentFor(a)'
  BY <1>4, <1>a, <1>b, <1>c DEF StreamRetry
<1>5. ASSUME NEW n \in Node, TakeToken(n) PROVE CurrentFor(a)'
  <2>1. /\ pc[n] = "idle" /\ pc'[n] = "wait"
        /\ \A q \in Proc : q # n => pc'[q] = pc[q]
        /\ a \in refreshCh => a \in refreshCh' \/ a = n
        /\ UNCHANGED <<running, evt, good, got, out, routes, table, excused>>
    BY <1>5, <1>b, ProcFacts DEF TakeToken
  <2> QED
    BY <1>a, <1>b, <1>c, <2>1
<1>6. ASSUME NEW n \in Node, ManualRefresh(n) PROVE CurrentFor(a)'
  <2>1. /\ pc[n] = "idle" /\ pc'[n] = "wait"
        /\ \A q \in Proc : q # n => pc'[q] = pc[q]
        /\ UNCHANGED <<running, evt, refreshCh, good, got, out, routes, table, excused>>
    BY <1>6, <1>b, ProcFacts DEF ManualRefresh
  <2> QED
    BY <1>a, <1>b, <1>c, <2>1
<1>7. CASE StartFull
  <2>1. /\ pc["full"] = "idle" /\ pc'["full"] = "wait"
        /\ \A q \in Proc : q # "full" => pc'[q] = pc[q]
        /\ UNCHANGED <<running, evt, refreshCh, good, got, out, routes, table, excused>>
    BY <1>7, <1>b, ProcFacts DEF StartFull
  <2> QED
    BY <1>a, <1>b, <1>c, <2>1
<1>8. ASSUME NEW hosts \in SUBSET AppHost, Reload(hosts) PROVE CurrentFor(a)'
  <2>1. /\ "reload" \in Task /\ a # "reload"
        /\ \A p \in Proc : p # "reload" => pc'[p] = pc[p]
        /\ pc["reload"] = "idle" /\ pc'["reload"] = "discover"
        /\ UNCHANGED <<running, evt, refreshCh, good, got, out, routes, table, excused>>
    BY <1>8, <1>a, <1>b, ProcFacts DEF Reload
  <2> QED
    BY <1>a, <1>b, <1>c, <2>1
<1>9. ASSUME NEW p \in Proc, LockRefresh(p) PROVE CurrentFor(a)'
  <2>1. /\ \A q \in Proc : q # p => pc'[q] = pc[q]
        /\ pc[p] = "wait" /\ pc'[p] = "discover"
        /\ UNCHANGED <<running, evt, refreshCh, good, got, out, routes, table, excused>>
    BY <1>9, <1>b DEF LockRefresh
  <2>2. pc[a] = "wait" => a \notin good[a]
    BY <1>a DEF SelectInv
  <2> QED
    BY <1>a, <1>b, <1>c, <2>1, <2>2
<1>10. ASSUME NEW p \in Proc, NEW n \in Node, Discover(p, n) PROVE CurrentFor(a)'
  BY <1>10, DiscoverCurrent
<1>11. ASSUME NEW p \in Proc, NEW n \in Node, DiscoverFails(p, n) PROVE CurrentFor(a)'
  BY <1>11, <1>a, <1>b, <1>c DEF DiscoverFails
<1>12. ASSUME NEW p \in Proc, ListCustomApps(p) PROVE CurrentFor(a)'
  <2>1. /\ pc[p] = "discover" /\ pc'[p] = "merge"
        /\ \A q \in Proc : q # p => pc'[q] = pc[q]
        /\ UNCHANGED <<running, evt, refreshCh, good, got, out, routes, table, excused>>
    BY <1>12, <1>b, ProcFacts DEF ListCustomApps
  <2> QED
    BY <1>a, <1>b, <1>c, <2>1
<1>13. ASSUME NEW p \in Proc, MergeRoutes(p) PROVE CurrentFor(a)'
  BY <1>13, MergeCurrent
<1>14. ASSUME NEW p \in Proc, ReplaceRoutes(p) PROVE CurrentFor(a)'
  BY <1>14, ReplaceCurrent
<1>15. ASSUME NEW p \in Proc, ReplaceApplications(p) PROVE CurrentFor(a)'
  <2>1. /\ pc[p] = "snapshots" /\ pc'[p] = "swap"
        /\ \A q \in Proc : q # p => pc'[q] = pc[q]
        /\ UNCHANGED <<running, evt, refreshCh, good, got, out, routes, table, excused>>
    BY <1>15, <1>b, ProcFacts DEF ReplaceApplications
  <2> QED
    BY <1>a, <1>b, <1>c, <2>1
<1>16. ASSUME NEW p \in Proc, SwapTable(p) PROVE CurrentFor(a)'
  BY <1>16, SwapCurrent
<1>17. CASE UNCHANGED vars
  BY <1>17, <1>a, <1>b, <1>c DEF vars
<1> QED
  BY <1>1, <1>2, <1>3, <1>4, <1>5, <1>6, <1>7, <1>8, <1>9, <1>10, <1>11, <1>12, <1>13, <1>14, <1>15, <1>16, <1>17 DEF Next, RefreshStep

\* Every step preserves the invariant.
LEMMA RefreshStepInv ==
    ASSUME RefreshInv, [Next]_vars
    PROVE  RefreshInv'
BY TypeStep, MutexStep, SelectStep, CurrentStep DEF RefreshInv

\* Coalescing tokens, merging by source and refreshing under refreshMu lose nothing: once an
\* agent's events are dealt with, its routes are those of its running containers, unless an
\* event was lost, its discovery failed or an unlocked refresh cut in.
THEOREM AgentRoutesStayCurrent == Spec => []RemoteRoutesCurrent
<1>1. Init => RefreshInv
  <2> SUFFICES ASSUME Init PROVE RefreshInv
    OBVIOUS
  <2>1. \A a \in Agent : a \in excused /\ \A p \in Proc : a \notin good[p]
    BY ProcFacts DEF Init
  <2>2. CurrentInv
    BY <2>1 DEF CurrentInv, CurrentFor, GotOK, OutOK, KeptOK, StoredOK, RoutesOK, TableOK
  <2> QED
    BY <2>2, RunInit DEF RefreshInv
<1>2. RefreshInv /\ [Next]_vars => RefreshInv'
  BY RefreshStepInv
<1>3. RefreshInv => RemoteRoutesCurrent
  <2> SUFFICES ASSUME RefreshInv, NEW a \in Agent \ excused, Settled(a) PROVE RoutesCurrent(a)
    BY DEF RemoteRoutesCurrent
  <2>1. CurrentFor(a) /\ ~ Busy(a) /\ \A p \in Proc : ~ Midway(p)
    BY DEF RefreshInv, CurrentInv, Settled, Busy, Midway
  <2>2. Current(routes, a) /\ Served(a) /\ RouteSource(a) = a
    BY <2>1, ProcFacts DEF CurrentFor, RoutesOK, TableOK
  <2> QED
    BY <2>2 DEF Current, Served, RoutesCurrent
<1> QED
  BY <1>1, <1>2, <1>3, PTL DEF Spec

=============================================================================
