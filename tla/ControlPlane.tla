---------------------------- MODULE ControlPlane ----------------------------
(***************************************************************************)
(* The control plane of the domux server: API handlers change config.yaml  *)
(* through config.Manager.Update and then reload the running process from  *)
(* the configuration they wrote (reloadManagedConfig).                     *)
(*                                                                         *)
(* Manager.Update runs under the manager's mutex; the reload that follows  *)
(* it in Server.updateConfig does not, so the reloads of two handlers      *)
(* interleave section by section.  Beside the handlers, the agent refresh  *)
(* (a timer job and one goroutine per reload) writes the agents it read    *)
(* from the pool it captured back into the store.                          *)
(*                                                                         *)
(* Configurations and requests are those of Configuration; what the whole  *)
(* promises to a client of the API is ConfigRegister.                      *)
(*                                                                         *)
(* pruneUnmanagedBundles only touches the certificate bundles and the      *)
(* route refresh that ends a reload only the routes: neither is part of    *)
(* this module's state.                                                    *)
(***************************************************************************)
EXTENDS Configuration

CONSTANTS
    Handler,        \* concurrent API requests
    Unbuildable,    \* values Validate accepts and no discoverer can be built from
    Reported,       \* the name under which a configured agent answers
    NoHandler,
    NoOp,
    MaxCommits      \* bound: configurations written by API handlers

\* Mutant: the deploy targets are not seeded.
SeedOrderNoTargets == <<"zone", "runtime", "provider", "app", "agent">>

SeedOrder == <<"zone", "runtime", "provider", "app", "agent", "target">>

ASSUME ControlPlaneAssumption ==
    /\ Unbuildable \subseteq Val
    /\ Reported \in [Agent -> Agent]
    /\ NoHandler \notin Handler
    /\ NoOp \notin Op
    /\ MaxCommits \in Nat

VARIABLES
    file,       \* config.yaml
    tmp,        \* config.yaml.tmp
    mu,         \* holder of Manager.mu
    commits,    \* configurations written so far; the number names a reload
    pc, op, cfg, id, sect, todo, old,   \* per handler
    store,      \* the MemoryStore sections seeded from the configuration
    deployPool, \* deploySvc.Agent.Pool
    ddns,       \* runtimeManager.ddnsSvc / providerRefs
    pool,       \* runtimeManager.pool
    cur,        \* the reload whose discoverers runtimeManager holds
    open,       \* reloads whose discoverers are open
    started,    \* reloads whose watchers were started
    cancelled,  \* reloads whose watch context was cancelled
    tasks,      \* agent refreshes that are under way
    phase,      \* the process is down, or running; settled is a history: the last
                \* write of config.yaml was carried into memory by a clean reload
    clean       \* history: the handlers whose reload has met no other reload

handlerVars == <<op, cfg, id, sect, todo, old>>
memory == <<store, deployPool, ddns, pool, cur, open, started, cancelled>>
vars == <<file, tmp, mu, commits, pc, handlerVars, memory, tasks, phase, clean>>

up == phase # "down"
inSync == phase = "settled"

-----------------------------------------------------------------------------
\* dockerdiscovery.New and remotediscovery.New reject an endpoint that
\* Validate does not look at; the other constructors cannot fail once
\* Validate has passed.
BuildRuntimeOK(c) ==
    \A o \in Object : KindOf[o] \in {"runtime", "agent"} => c[o] \notin Unbuildable

-----------------------------------------------------------------------------
\* An agent refresh of the pool p, started by the timer or by reload n.
AgentRefresh(by, n, p) == [by |-> by, id |-> n, pool |-> p, todo |-> Present("agent", p)]

\* A refresh is under way while it has agents left to put into the store.
Unfinished(t) == {u \in {t} : u.todo # {}}

\* The server is not running yet; its file can be started from.
Init ==
    /\ file \in {c \in Config : /\ Validate(c)
                                /\ BuildRuntimeOK(c)
                                /\ \A o \in Object : KindOf[o] = "runtime" => c[o] # Absent}
    /\ tmp = Empty
    /\ mu = NoHandler
    /\ commits = 0
    /\ pc = [h \in Handler |-> "idle"]
    /\ op = [h \in Handler |-> NoOp]
    /\ cfg = [h \in Handler |-> Empty]
    /\ id = [h \in Handler |-> 0]
    /\ sect = [h \in Handler |-> 1]
    /\ todo = [h \in Handler |-> {}]
    /\ old = [h \in Handler |-> 0]
    /\ store = Empty /\ deployPool = Empty /\ ddns = Empty /\ pool = Empty
    /\ cur = 0 /\ open = {} /\ started = {} /\ cancelled = {}
    /\ tasks = {}
    /\ phase = "down"
    /\ clean = {}

\* States of a handler before and after its configuration is on disk.
Updating == {"load", "mutate", "write", "rename"}
Reloading == {"build", "seed", "sync", "ddns", "swap", "retire", "watch", "finish"}

\* The handler returns; its locals are gone.
Return(h) ==
    /\ pc' = [pc EXCEPT ![h] = "idle"]
    /\ op' = [op EXCEPT ![h] = NoOp]
    /\ cfg' = [cfg EXCEPT ![h] = Empty]
    /\ id' = [id EXCEPT ![h] = 0]
    /\ sect' = [sect EXCEPT ![h] = 1]
    /\ todo' = [todo EXCEPT ![h] = {}]
    /\ old' = [old EXCEPT ![h] = 0]

-----------------------------------------------------------------------------
(* config.Manager.Update, under Manager.mu.                                 *)

\* A request arrives; decoding it touches no shared state.
Receive(h, r) ==
    /\ up
    /\ pc[h] = "idle"
    /\ commits + Cardinality({g \in Handler : pc[g] \in Updating}) < MaxCommits
    /\ pc' = [pc EXCEPT ![h] = "load"]
    /\ op' = [op EXCEPT ![h] = r]
    /\ UNCHANGED <<file, tmp, mu, commits, cfg, id, sect, todo, old, memory, tasks,
                   phase, clean>>

\* Mutant: Update does not take the mutex.
LoadFileUnlocked(h) ==
    /\ pc[h] = "load"
    /\ cfg' = [cfg EXCEPT ![h] = file]
    /\ pc' = [pc EXCEPT ![h] = "mutate"]
    /\ UNCHANGED <<file, tmp, mu, commits, op, id, sect, todo, old, memory, tasks, phase,
                   clean>>

LoadFile(h) ==
    /\ pc[h] = "load"
    /\ mu = NoHandler
    /\ mu' = h
    /\ cfg' = [cfg EXCEPT ![h] = file]
    /\ pc' = [pc EXCEPT ![h] = "mutate"]
    /\ UNCHANGED <<file, tmp, commits, op, id, sect, todo, old, memory, tasks, phase,
                   clean>>

\* Mutant: the mutated configuration is not validated.
UpdateAcceptUnchecked(h) ==
    /\ pc[h] = "mutate"
    /\ MutatorAccepts(cfg[h], op[h])
    /\ cfg' = [cfg EXCEPT ![h] = Mutate(cfg[h], op[h])]
    /\ pc' = [pc EXCEPT ![h] = "write"]
    /\ UNCHANGED <<file, tmp, mu, commits, op, id, sect, todo, old, memory, tasks, phase,
                   clean>>

\* The mutator and Validate accept: the new configuration is the handler's.
UpdateAccept(h) ==
    /\ pc[h] = "mutate"
    /\ MutatorAccepts(cfg[h], op[h])
    /\ Validate(Mutate(cfg[h], op[h]))
    /\ cfg' = [cfg EXCEPT ![h] = Mutate(cfg[h], op[h])]
    /\ pc' = [pc EXCEPT ![h] = "write"]
    /\ UNCHANGED <<file, tmp, mu, commits, op, id, sect, todo, old, memory, tasks, phase,
                   clean>>

\* Mutant: the refusal returns without unlocking.
UpdateRejectLocked(h) ==
    /\ pc[h] = "mutate"
    /\ ~(MutatorAccepts(cfg[h], op[h]) /\ Validate(Mutate(cfg[h], op[h])))
    /\ Return(h)
    /\ UNCHANGED <<file, tmp, mu, commits, memory, tasks, phase, clean>>

\* The mutator or Validate refuses; the deferred Unlock runs.
UpdateReject(h) ==
    /\ pc[h] = "mutate"
    /\ ~(MutatorAccepts(cfg[h], op[h]) /\ Validate(Mutate(cfg[h], op[h])))
    /\ mu' = NoHandler
    /\ Return(h)
    /\ UNCHANGED <<file, tmp, commits, memory, tasks, phase, clean>>

WriteTmp(h) ==
    /\ pc[h] = "write"
    /\ tmp' = cfg[h]
    /\ pc' = [pc EXCEPT ![h] = "rename"]
    /\ UNCHANGED <<file, mu, commits, handlerVars, memory, tasks, phase, clean>>

\* Reading the file, MkdirAll, WriteFile or Rename fails.
WriteFails(h) ==
    /\ pc[h] \in {"mutate", "write", "rename"}
    /\ mu' = NoHandler
    /\ Return(h)
    /\ UNCHANGED <<file, tmp, commits, memory, tasks, phase, clean>>

\* os.Rename publishes the new file; Update returns and unlocks.
Rename(h) ==
    /\ pc[h] = "rename"
    /\ file' = tmp
    /\ mu' = NoHandler
    /\ commits' = commits + 1
    /\ id' = [id EXCEPT ![h] = commits + 1]
    /\ pc' = [pc EXCEPT ![h] = "build"]
    /\ clean' = {g \in {h} : \A k \in Handler : pc[k] \notin Reloading}
    /\ phase' = "running"
    /\ UNCHANGED <<tmp, op, cfg, sect, todo, old, memory, tasks>>

-----------------------------------------------------------------------------
(* reloadManagedConfig, without a lock.                                     *)

BuildRuntime(h) ==
    /\ pc[h] = "build"
    /\ BuildRuntimeOK(cfg[h])
    /\ open' = open \cup {id[h]}
    /\ pc' = [pc EXCEPT ![h] = "seed"]
    /\ UNCHANGED <<file, tmp, mu, commits, handlerVars, store, deployPool, ddns, pool,
                   cur, started, cancelled, tasks, phase, clean>>

\* Mutant: the request is tried again when the reload fails.
BuildRuntimeFailsRetries(h) ==
    /\ pc[h] = "build"
    /\ ~BuildRuntimeOK(cfg[h])
    /\ pc' = [pc EXCEPT ![h] = "load"]
    /\ UNCHANGED <<file, tmp, mu, commits, handlerVars, memory, tasks, phase, clean>>

\* buildRuntime returns an error: the request fails, the file stays written.
BuildRuntimeFails(h) ==
    /\ pc[h] = "build"
    /\ ~BuildRuntimeOK(cfg[h])
    /\ Return(h)
    /\ UNCHANGED <<file, tmp, mu, commits, memory, tasks, phase, clean>>

\* Mutant: the last section is not the end.
SeedSectionOffByOne(h) ==
    /\ pc[h] = "seed"
    /\ store' = [o \in Object |-> IF KindOf[o] = SeedOrder[sect[h]]
                                   THEN cfg[h][o] ELSE store[o]]
    /\ IF sect[h] <= Len(SeedOrder)
       THEN /\ sect' = [sect EXCEPT ![h] = @ + 1]
            /\ UNCHANGED <<pc, todo>>
       ELSE /\ pc' = [pc EXCEPT ![h] = "sync"]
            /\ todo' = [todo EXCEPT ![h] = Present("agent", cfg[h])]
            /\ UNCHANGED sect
    /\ UNCHANGED <<file, tmp, mu, commits, op, cfg, id, old, deployPool, ddns, pool, cur,
                   open, started, cancelled, tasks, phase, clean>>

\* One Replace... call of seedConfigState.
SeedSection(h) ==
    /\ pc[h] = "seed"
    /\ store' = [o \in Object |-> IF KindOf[o] = SeedOrder[sect[h]]
                                   THEN cfg[h][o] ELSE store[o]]
    /\ IF sect[h] < Len(SeedOrder)
       THEN /\ sect' = [sect EXCEPT ![h] = @ + 1]
            /\ UNCHANGED <<pc, todo>>
       ELSE /\ pc' = [pc EXCEPT ![h] = "sync"]
            /\ todo' = [todo EXCEPT ![h] = Present("agent", cfg[h])]
            /\ UNCHANGED sect
    /\ UNCHANGED <<file, tmp, mu, commits, op, cfg, id, old, deployPool, ddns, pool, cur,
                   open, started, cancelled, tasks, phase, clean>>

\* One PutAgent of syncPoolNodesToStore.
SyncPoolNode(h, a) ==
    /\ pc[h] = "sync"
    /\ a \in todo[h]
    /\ store' = [store EXCEPT ![a] = cfg[h][a]]
    /\ todo' = [todo EXCEPT ![h] = @ \ {a}]
    /\ UNCHANGED <<file, tmp, mu, commits, pc, op, cfg, id, sect, old, deployPool, ddns,
                   pool, cur, open, started, cancelled, tasks, phase, clean>>

\* deploySvc.Agent.Pool = nextRuntime.pool
SetDeployPool(h) ==
    /\ pc[h] = "sync"
    /\ todo[h] = {}
    /\ deployPool' = Only("agent", cfg[h])
    /\ pc' = [pc EXCEPT ![h] = "ddns"]
    /\ UNCHANGED <<file, tmp, mu, commits, handlerVars, store, ddns, pool, cur, open,
                   started, cancelled, tasks, phase, clean>>

SetDDNS(h) ==
    /\ pc[h] = "ddns"
    /\ ddns' = Only("provider", cfg[h])
    /\ pc' = [pc EXCEPT ![h] = "swap"]
    /\ UNCHANGED <<file, tmp, mu, commits, handlerVars, store, deployPool, pool, cur, open,
                   started, cancelled, tasks, phase, clean>>

\* runtimeManager.swap
Swap(h) ==
    /\ pc[h] = "swap"
    /\ pool' = Only("agent", cfg[h])
    /\ cur' = id[h]
    /\ old' = [old EXCEPT ![h] = cur]
    /\ pc' = [pc EXCEPT ![h] = "retire"]
    /\ UNCHANGED <<file, tmp, mu, commits, op, cfg, id, sect, todo, store, deployPool, ddns,
                   open, started, cancelled, tasks, phase, clean>>

\* Mutant: the replaced discoverers are not closed.
RetireKeepsOpen(h) ==
    /\ pc[h] = "retire"
    /\ cancelled' = cancelled \cup {old[h]}
    /\ pc' = [pc EXCEPT ![h] = "watch"]
    /\ UNCHANGED <<file, tmp, mu, commits, handlerVars, store, deployPool, ddns, pool, cur,
                   open, started, tasks, phase, clean>>

\* oldWatchStop() and closeDiscoverers(oldDiscoverers)
Retire(h) ==
    /\ pc[h] = "retire"
    /\ cancelled' = cancelled \cup {old[h]}
    /\ open' = open \ {old[h]}
    /\ pc' = [pc EXCEPT ![h] = "watch"]
    /\ UNCHANGED <<file, tmp, mu, commits, handlerVars, store, deployPool, ddns, pool, cur,
                   started, tasks, phase, clean>>

\* startRouteWatchers; a watcher whose context another reload has already
\* cancelled ends at once.
StartRouteWatchers(h) ==
    /\ pc[h] = "watch"
    /\ started' = started \cup {id[h]}
    /\ pc' = [pc EXCEPT ![h] = "finish"]
    /\ UNCHANGED <<file, tmp, mu, commits, handlerVars, store, deployPool, ddns, pool, cur,
                   open, cancelled, tasks, phase, clean>>

\* startAsyncAgentRefresh with the new pool; the request is answered.
FinishReload(h) ==
    /\ pc[h] = "finish"
    /\ tasks' = tasks \cup Unfinished(AgentRefresh("reload", id[h], Only("agent", cfg[h])))
    /\ phase' = IF h \in clean THEN "settled" ELSE phase
    /\ Return(h)
    /\ UNCHANGED <<file, tmp, mu, commits, memory, clean>>

-----------------------------------------------------------------------------
(* refreshAgentStore: RefreshAll asks every agent of the captured pool,     *)
(* then each answer, or failure, is put into the store.                     *)

TimerAgentsRefresh ==
    /\ up
    /\ \A t \in tasks : t.by # "timer"
    /\ tasks' = tasks \cup Unfinished(AgentRefresh("timer", 0, pool))
    /\ UNCHANGED <<file, tmp, mu, commits, pc, handlerVars, memory, phase, clean>>

\* The answer of a, or its failure, is stored under the name the agent reports once it
\* has answered, under the configured one before.
PutRefreshedAgent(t, a) ==
    /\ a \in t.todo
    /\ \E n \in {a, Reported[a]} : store' = [store EXCEPT ![n] = t.pool[a]]
    /\ tasks' = (tasks \ {t}) \cup Unfinished([t EXCEPT !.todo = @ \ {a}])
    /\ UNCHANGED <<file, tmp, mu, commits, pc, handlerVars, deployPool, ddns, pool, cur, open,
                   started, cancelled, phase, clean>>

-----------------------------------------------------------------------------
(* The process dies at any point and is started again on the same file.    *)

Crash ==
    /\ up
    /\ phase' = "down"
    /\ mu' = NoHandler
    /\ pc' = [h \in Handler |-> "idle"]
    /\ op' = [h \in Handler |-> NoOp]
    /\ cfg' = [h \in Handler |-> Empty]
    /\ id' = [h \in Handler |-> 0]
    /\ sect' = [h \in Handler |-> 1]
    /\ todo' = [h \in Handler |-> {}]
    /\ old' = [h \in Handler |-> 0]
    /\ store' = Empty /\ deployPool' = Empty /\ ddns' = Empty /\ pool' = Empty
    /\ cur' = 0 /\ open' = {} /\ started' = {} /\ cancelled' = {}
    /\ tasks' = {}
    /\ clean' = {}
    /\ UNCHANGED <<file, tmp, commits>>

\* runServerWithContext up to the point where it serves; it returns an error,
\* and the process stays down, when the runtime cannot be built.
RunServer ==
    /\ ~up
    /\ BuildRuntimeOK(file)
    /\ store' = file
    /\ deployPool' = Only("agent", file)
    /\ ddns' = Only("provider", file)
    /\ pool' = Only("agent", file)
    /\ cur' = commits
    /\ open' = {commits}
    /\ started' = {commits}
    /\ tasks' = Unfinished(AgentRefresh("reload", commits, Only("agent", file)))
    /\ phase' = "settled"
    /\ UNCHANGED <<file, tmp, mu, commits, pc, handlerVars, cancelled, clean>>

\* The operator repairs a file the server cannot start from.
EditFile ==
    /\ ~up
    /\ ~BuildRuntimeOK(file)
    /\ \E r \in Op :
          /\ MutatorAccepts(file, r)
          /\ Validate(Mutate(file, r))
          /\ file' = Mutate(file, r)
    /\ UNCHANGED <<tmp, mu, commits, pc, handlerVars, memory, tasks, phase, clean>>

-----------------------------------------------------------------------------
UpdateStep(h) ==
    \/ LoadFile(h) \/ UpdateAccept(h) \/ UpdateReject(h)
    \/ WriteTmp(h) \/ WriteFails(h) \/ Rename(h)

ReloadStep(h) ==
    \/ BuildRuntime(h) \/ BuildRuntimeFails(h)
    \/ SeedSection(h)
    \/ \E a \in Agent : SyncPoolNode(h, a)
    \/ SetDeployPool(h) \/ SetDDNS(h)
    \/ Swap(h) \/ Retire(h) \/ StartRouteWatchers(h)
    \/ FinishReload(h)

Next ==
    \/ \E h \in Handler : \/ \E r \in Op : Receive(h, r)
                          \/ UpdateStep(h)
                          \/ ReloadStep(h)
    \/ TimerAgentsRefresh
    \/ \E t \in tasks, a \in Agent : PutRefreshedAgent(t, a)
    \/ Crash \/ RunServer \/ EditFile

Spec == Init /\ [][Next]_vars

\* A goroutine that can run does; a Go mutex in starvation mode hands the
\* lock to its longest waiter.
Fairness ==
    \A h \in Handler : WF_vars(UpdateStep(h) \/ ReloadStep(h)) /\ SF_vars(LoadFile(h))

FairSpec == Spec /\ Fairness

-----------------------------------------------------------------------------
(* Properties                                                               *)

TypeOK ==
    /\ file \in Config /\ tmp \in Config
    /\ mu \in Handler \cup {NoHandler}
    /\ commits \in Nat
    /\ pc \in [Handler -> {"idle"} \cup Updating \cup Reloading]
    /\ op \in [Handler -> Op \cup {NoOp}]
    /\ \A h \in Handler : pc[h] # "idle" => op[h] \in Op
    /\ cfg \in [Handler -> Config]
    /\ id \in [Handler -> Nat]
    /\ old \in [Handler -> Nat]
    /\ sect \in [Handler -> 1 .. Len(SeedOrder)]
    /\ todo \in [Handler -> SUBSET Agent]
    /\ store \in Config /\ deployPool \in Config /\ ddns \in Config /\ pool \in Config
    /\ cur \in Nat
    /\ open \subseteq Nat
    /\ started \subseteq Nat
    /\ cancelled \subseteq Nat
    /\ tasks \subseteq [by : {"timer", "reload"}, id : Nat, pool : Config,
                       todo : SUBSET Agent]
    /\ phase \in {"down", "running", "settled"}
    /\ clean \subseteq Handler

\* config.yaml never holds a dangling reference, whatever order handlers load,
\* check, write and crash in (Manager.Update validates what it writes).
FileIsValid == Validate(file)

\* No update is lost: while the server runs, config.yaml only ever changes by one
\* handler's mutation of the very contents it replaces (Manager.mu spans LoadFile
\* to Rename).
NoLostUpdate ==
    [][up => file' = file \/ \E h \in Handler : /\ pc[h] = "rename"
                                               /\ file' = Mutate(file, op[h])]_vars

\* Whatever earlier reloads left behind, failed or interleaved, a reload that meets
\* no other reload leaves every part of the process built from config.yaml; the agents
\* of the store are the exception, since a refresh of an earlier pool may put an old one
\* back, but none of the file's is missing there (reloadManagedConfig, all its steps).
SoloReloadSettles ==
    inSync =>
      /\ \A o \in Object : KindOf[o] # "agent" => store[o] = file[o]
      /\ \A a \in Agent : file[a] # Absent => store[a] # Absent
      /\ pool = Only("agent", file) /\ deployPool = Only("agent", file)
      /\ ddns = Only("provider", file)

Quiet == up /\ \A h \in Handler : pc[h] = "idle"

\* However reloads interleave, once they are over exactly one set of discoverers is
\* open and watched, the one runtimeManager holds: none leaks, none of the current
\* ones is closed or left without its watcher (runtimeManager.Replace).
OneRuntimeWhenQuiet == Quiet => open = {cur} /\ started \ cancelled = {cur}

\* The file is the register, and a request is done once the file is renamed.
Register == INSTANCE ConfigRegister
              WITH conf <- file, req <- op, alive <- up,
                   done <- {h \in Handler : pc[h] \in Reloading}

\* The API as a whole is the register that requests change one at a time: a request
\* takes effect at most once, between its arrival and its answer, on the configuration
\* of that moment, whatever fails, overlaps or crashes (Server.updateConfig).
ImplementsRegister == Register!RegisterSpec

\* Every request is answered: no error path keeps Manager.mu (Manager.Update).
HandlersReturn == \A h \in Handler : pc[h] # "idle" ~> pc[h] = "idle"

\* README.md: config.yaml is the only source of truth and is reloaded in process.  Once
\* requests are answered and the file can be built from, the store's sections and the
\* runtime are those of the file.
QuietMemoryMatchesFile ==
    Quiet /\ BuildRuntimeOK(file) =>
      /\ \A o \in Object : KindOf[o] # "agent" => store[o] = file[o]
      /\ pool = Only("agent", file)

-----------------------------------------------------------------------------
(* What makes the invariants inductive.                                     *)

\* A handler inside Update holds the mutex, and what it holds follows from the
\* file, which only it can change.
UpdateInv ==
    /\ ~up => \A h \in Handler : pc[h] = "idle"
    /\ \A h \in Handler : pc[h] \in {"mutate", "write", "rename"} <=> mu = h
    /\ \A h \in Handler :
         /\ pc[h] = "mutate" => cfg[h] = file
         /\ pc[h] \in {"write", "rename"} =>
              /\ MutatorAccepts(file, op[h])
              /\ cfg[h] = Mutate(file, op[h]) /\ Validate(cfg[h])
         /\ pc[h] = "rename" => tmp = cfg[h]
    /\ Validate(file)

\* An idle handler has no request.
IdleInv == \A h \in Handler : pc[h] = "idle" => op[h] = NoOp

\* A reload whose discoverers are not yet handed over, one that has opened them, one that
\* holds the replaced ones and has not yet closed them, one whose watchers are not started.
Pending(h) == pc[h] \in {"build", "seed", "sync", "ddns", "swap"}
Opened(h) == pc[h] \in {"seed", "sync", "ddns", "swap"}
Retiring(h) == pc[h] = "retire"
Unwatched(h) == pc[h] \in {"retire", "watch"}

\* Reload numbers are unique and never ahead of commits.
IdsInv ==
    /\ cur <= commits
    /\ \A g \in open \cup started \cup cancelled : g <= commits
    /\ \A h \in Handler : pc[h] \in Reloading =>
         /\ id[h] <= commits
         /\ \A k \in Handler : k # h /\ pc[k] \in Reloading => id[k] # id[h]

\* A generation is unknown to the rest until it is swapped in.
PendingInv ==
    \A h \in Handler : Pending(h) =>
      /\ id[h] # cur /\ id[h] \notin cancelled
      /\ \A k \in Handler : Retiring(k) => old[k] # id[h]

\* A replaced generation is retired by one reload only.
RetiringInv ==
    \A h \in Handler : Retiring(h) =>
      /\ old[h] # cur /\ old[h] <= commits
      /\ \A k \in Handler : k # h /\ Retiring(k) => old[k] # old[h]

\* Every open generation is the current one, or has a reload to hand it over or close it.
OpenInv ==
    /\ ~up => open = {}
    /\ up => \A g \in 0 .. commits :
         g \in open <=> \/ g = cur
                        \/ \E h \in Handler : Opened(h) /\ id[h] = g
                        \/ \E h \in Handler : Retiring(h) /\ old[h] = g

\* The current generation is watched or about to be; any other that is watched is about to
\* be cancelled.
WatchInv ==
    /\ ~up => started = {} /\ cancelled = {}
    /\ cur \notin cancelled
    /\ up => cur \in started \/ \E h \in Handler : Unwatched(h) /\ id[h] = cur
    /\ \A g \in started : \/ g = cur \/ g \in cancelled
                          \/ \E h \in Handler : Retiring(h) /\ old[h] = g
    /\ \A h \in Handler : Unwatched(h) =>
         \/ id[h] = cur \/ id[h] \in cancelled
         \/ \E k \in Handler : Retiring(k) /\ old[k] = id[h]

RuntimeInv == IdsInv /\ PendingInv /\ RetiringInv /\ OpenInv /\ WatchInv

\* How far the reload of h has carried the file into memory.
Carried(h) ==
    /\ cfg[h] = file
    /\ \A k \in Handler : k # h => pc[k] \notin Reloading
    /\ \A o \in Object, i \in 1 .. 6 :
         SeedOrder[i] = KindOf[o] /\ (pc[h] = "seed" => i < sect[h]) /\ pc[h] # "build" =>
           IF KindOf[o] = "agent" THEN file[o] # Absent => store[o] # Absent
                                  ELSE store[o] = file[o]
    /\ pc[h] \in {"ddns", "swap", "retire", "watch", "finish"} =>
         deployPool = Only("agent", file)
    /\ pc[h] \in {"swap", "retire", "watch", "finish"} => ddns = Only("provider", file)
    /\ pc[h] \in {"retire", "watch", "finish"} => pool = Only("agent", file)

\* A clean reload is alone and carries the file; nothing reloads once settled.
CleanInv == \A h \in Handler : pc[h] \in Reloading /\ h \in clean => Carried(h)
SettledInv == inSync => \A h \in Handler : pc[h] \notin Reloading

\* A reload seeds from the first section on.
SectInv == \A h \in Handler : pc[h] \in {"idle", "build"} \cup Updating => sect[h] = 1

\* Only agents that the pool has are put into the store.
TodoInv ==
    /\ \A h \in Handler, a \in Agent : a \in todo[h] => pc[h] = "sync" /\ cfg[h][a] # Absent
    /\ \A t \in tasks, a \in Agent : a \in t.todo => t.pool[a] # Absent
    /\ ~up => tasks = {}

SyncInv == CleanInv /\ SettledInv /\ SectInv /\ TodoInv /\ SoloReloadSettles
=============================================================================
