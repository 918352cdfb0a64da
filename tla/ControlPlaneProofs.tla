------------------------- MODULE ControlPlaneProofs -------------------------
(***************************************************************************)
(* Theorems about ControlPlane, for any number of handlers, objects,       *)
(* values and writes of config.yaml.                                       *)
(***************************************************************************)
EXTENDS ControlPlane, TLAPS

\* What the constants and the derived sets are, for the provers.
LEMMA SeedOrderFacts ==
    /\ Len(SeedOrder) = 6
    /\ SeedOrder \in [1 .. 6 -> Kind]
    /\ \A k \in Kind : \E i \in 1 .. 6 : SeedOrder[i] = k
BY DEF SeedOrder, Kind

\* Replacing one object's value, or keeping one kind of object, yields a configuration.
LEMMA ConfigFacts ==
    /\ Empty \in Config
    /\ \A c \in Config, k \in Kind : Only(k, c) \in Config
    /\ \A c \in Config, r \in Op : Mutate(c, r) \in Config
    /\ \A c \in Config : Present("agent", c) \in SUBSET Agent
BY ControlPlaneAssumption, ConfigurationAssumption DEF Empty, Config, Only, Op, Mutate, Present, Agent

\* An agent refresh is a well-formed task.
LEMMA TaskFacts ==
    ASSUME NEW p \in Config, NEW n \in Nat, NEW by \in {"timer", "reload"}
    PROVE  AgentRefresh(by, n, p) \in
             [by : {"timer", "reload"}, id : Nat, pool : Config, todo : SUBSET Agent]
BY ConfigFacts DEF AgentRefresh

\* Whatever name an agent reports is the name of an agent.
LEMMA ReportedFacts ==
    \A a \in Agent : Reported[a] \in Agent /\ Reported[a] \in Object /\ a \in Object
BY ControlPlaneAssumption DEF Agent

\* Every variable keeps its type.
THEOREM TypeCorrect == Spec => []TypeOK
<1>1. Init => TypeOK
  BY ControlPlaneAssumption, ConfigurationAssumption, ConfigFacts, SeedOrderFacts
  DEF Init, TypeOK, Updating, Reloading
<1>2. TypeOK /\ [Next]_vars => TypeOK'
  <2> SUFFICES ASSUME TypeOK, [Next]_vars PROVE TypeOK'
    OBVIOUS
  <2> USE DEF TypeOK, Updating, Reloading, handlerVars, memory
  <2>0. Empty \in Config /\ Len(SeedOrder) = 6
    BY ConfigFacts, SeedOrderFacts
  <2>1. ASSUME NEW h \in Handler, NEW r \in Op, Receive(h, r) PROVE TypeOK'
    BY <2>1 DEF Receive
  <2>2. ASSUME NEW h \in Handler, UpdateStep(h) PROVE TypeOK'
    <3>1. CASE LoadFile(h)
      BY <3>1 DEF LoadFile
    <3>2. CASE UpdateAccept(h)
      BY <3>2, ConfigFacts DEF UpdateAccept
    <3>3. CASE UpdateReject(h)
      BY <2>0, <3>3 DEF UpdateReject, Return
    <3>4. CASE WriteTmp(h)
      BY <3>4 DEF WriteTmp
    <3>5. CASE WriteFails(h)
      BY <2>0, <3>5 DEF WriteFails, Return
    <3>6. CASE Rename(h)
      BY <3>6 DEF Rename
    <3> QED
      BY <2>2, <3>1, <3>2, <3>3, <3>4, <3>5, <3>6 DEF UpdateStep
  <2>3. ASSUME NEW h \in Handler, ReloadStep(h) PROVE TypeOK'
    <3>1. CASE BuildRuntime(h)
      BY <3>1 DEF BuildRuntime
    <3>2. CASE BuildRuntimeFails(h)
      BY <2>0, <3>2 DEF BuildRuntimeFails, Return
    <3>3. CASE SeedSection(h)
      <4>1. store' \in Config
        <5>1. cfg[h] \in Config /\ store \in Config
          OBVIOUS
        <5>2. store' = [o \in Object |-> IF KindOf[o] = SeedOrder[sect[h]]
                                         THEN cfg[h][o] ELSE store[o]]
          BY <3>3 DEF SeedSection
        <5> HIDE DEF TypeOK
        <5> QED
          BY <5>1, <5>2 DEF Config
      <4>2. Present("agent", cfg[h]) \in SUBSET Agent
        BY ConfigFacts
      <4>3. CASE sect[h] < Len(SeedOrder)
        BY <2>0, <3>3, <4>1, <4>3 DEF SeedSection
      <4>4. CASE ~(sect[h] < Len(SeedOrder))
        BY <3>3, <4>1, <4>2, <4>4 DEF SeedSection
      <4> QED
        BY <4>3, <4>4
    <3>4. CASE \E a \in Agent : SyncPoolNode(h, a)
      <4>1. PICK a \in Agent : SyncPoolNode(h, a)
        BY <3>4
      <4>2. store' \in Config
        BY <4>1 DEF SyncPoolNode, Config, Agent
      <4> QED
        BY <4>1, <4>2 DEF SyncPoolNode
    <3>5. CASE SetDeployPool(h)
      BY ConfigFacts, <3>5 DEF SetDeployPool, Kind
    <3>6. CASE SetDDNS(h)
      BY ConfigFacts, <3>6 DEF SetDDNS, Kind
    <3>7. CASE Swap(h)
      BY ConfigFacts, <3>7 DEF Swap, Kind
    <3>8. CASE Retire(h)
      BY <3>8 DEF Retire
    <3>9. CASE StartRouteWatchers(h)
      BY <3>9 DEF StartRouteWatchers
    <3>10. CASE FinishReload(h)
      <4>1. Only("agent", cfg[h]) \in Config
        BY ConfigFacts DEF Kind
      <4>2. tasks' \subseteq [by : {"timer", "reload"}, id : Nat, pool : Config,
                              todo : SUBSET Agent]
        <5>1. AgentRefresh("reload", id[h], Only("agent", cfg[h])) \in
                [by : {"timer", "reload"}, id : Nat, pool : Config, todo : SUBSET Agent]
          BY <4>1, TaskFacts
        <5> QED
          BY <3>10, <5>1 DEF FinishReload, Unfinished
      <4> QED
        BY <2>0, <3>10, <4>2 DEF FinishReload, Return
    <3> QED
      BY <2>3, <3>1, <3>2, <3>3, <3>4, <3>5, <3>6, <3>7, <3>8, <3>9, <3>10
      DEF ReloadStep
  <2>4. CASE TimerAgentsRefresh
    <3>1. tasks' \subseteq [by : {"timer", "reload"}, id : Nat, pool : Config,
                            todo : SUBSET Agent]
      BY <2>4, TaskFacts DEF TimerAgentsRefresh, Unfinished
    <3> QED
      BY <2>4, <3>1 DEF TimerAgentsRefresh
  <2>5. ASSUME NEW t \in tasks, NEW a \in Agent, PutRefreshedAgent(t, a) PROVE TypeOK'
    <3>0. PICK n \in {a, Reported[a]} : store' = [store EXCEPT ![n] = t.pool[a]]
      BY <2>5 DEF PutRefreshedAgent
    <3>1. store' \in Config
      BY <2>5, <3>0, ReportedFacts DEF Config
    <3>2. tasks' \subseteq [by : {"timer", "reload"}, id : Nat, pool : Config,
                            todo : SUBSET Agent]
      <4>1. tasks' = (tasks \ {t}) \cup Unfinished([t EXCEPT !.todo = @ \ {a}])
        BY <2>5 DEF PutRefreshedAgent
      <4>2. [t EXCEPT !.todo = @ \ {a}] \in
              [by : {"timer", "reload"}, id : Nat, pool : Config, todo : SUBSET Agent]
        <5>1. t \in [by : {"timer", "reload"}, id : Nat, pool : Config, todo : SUBSET Agent]
          OBVIOUS
        <5> HIDE DEF TypeOK
        <5> QED
          BY <5>1
      <4> QED
        BY <4>1, <4>2 DEF Unfinished
    <3>3. UNCHANGED <<file, tmp, mu, commits, pc, handlerVars, deployPool, ddns, pool, cur,
                      open, started, cancelled, phase, clean>>
      BY <2>5 DEF PutRefreshedAgent
    <3> QED
      BY <3>1, <3>2, <3>3
  <2>6. CASE Crash
    BY <2>0, <2>6 DEF Crash
  <2>7. CASE RunServer
    <3>1. Only("agent", file) \in Config /\ Only("provider", file) \in Config
      BY ConfigFacts DEF Kind
    <3>2. tasks' \subseteq [by : {"timer", "reload"}, id : Nat, pool : Config,
                            todo : SUBSET Agent]
      BY <2>7, <3>1, TaskFacts DEF RunServer, Unfinished
    <3> QED
      BY <2>7, <3>1, <3>2 DEF RunServer
  <2>8. CASE EditFile
    BY <2>8, ConfigFacts DEF EditFile
  <2>9. CASE UNCHANGED vars
    BY <2>9 DEF vars
  <2> QED
    BY <2>1, <2>2, <2>3, <2>4, <2>5, <2>6, <2>7, <2>8, <2>9 DEF Next
<1> QED
  BY <1>1, <1>2, PTL DEF Spec

-----------------------------------------------------------------------------
\* Inside Update the mutex is held and the handler's configuration follows from the
\* file, so what is renamed over the file is valid and is the file's own mutation.
LEMMA UpdateStepInv == TypeOK /\ UpdateInv /\ [Next]_vars => UpdateInv'
<1> SUFFICES ASSUME TypeOK, UpdateInv, [Next]_vars PROVE UpdateInv'
  OBVIOUS
<1> USE DEF UpdateInv, TypeOK, handlerVars, memory, up, Reloading
<1>1. ASSUME NEW h \in Handler, NEW r \in Op, Receive(h, r) PROVE UpdateInv'
  BY <1>1 DEF Receive
<1>2. ASSUME NEW h \in Handler, UpdateStep(h) PROVE UpdateInv'
  <2>1. CASE LoadFile(h)
    BY <2>1, ControlPlaneAssumption, ConfigurationAssumption DEF LoadFile
  <2>2. CASE UpdateAccept(h)
    BY <2>2 DEF UpdateAccept
  <2>3. CASE UpdateReject(h)
    BY <2>3, ControlPlaneAssumption, ConfigurationAssumption DEF UpdateReject, Return
  <2>4. CASE WriteTmp(h)
    BY <2>4 DEF WriteTmp
  <2>5. CASE WriteFails(h)
    BY <2>5, ControlPlaneAssumption, ConfigurationAssumption DEF WriteFails, Return
  <2>6. CASE Rename(h)
    BY <2>6, ControlPlaneAssumption, ConfigurationAssumption DEF Rename
  <2> QED
    BY <1>2, <2>1, <2>2, <2>3, <2>4, <2>5, <2>6 DEF UpdateStep
<1>3. ASSUME NEW h \in Handler, ReloadStep(h) PROVE UpdateInv'
  <2>1. CASE BuildRuntime(h)
    BY <2>1 DEF BuildRuntime
  <2>2. CASE BuildRuntimeFails(h)
    BY <2>2 DEF BuildRuntimeFails, Return
  <2>3. CASE SeedSection(h)
    BY <2>3 DEF SeedSection
  <2>4. CASE \E a \in Agent : SyncPoolNode(h, a)
    BY <2>4 DEF SyncPoolNode
  <2>5. CASE SetDeployPool(h)
    BY <2>5 DEF SetDeployPool
  <2>6. CASE SetDDNS(h)
    BY <2>6 DEF SetDDNS
  <2>7. CASE Swap(h)
    BY <2>7 DEF Swap
  <2>8. CASE Retire(h)
    BY <2>8 DEF Retire
  <2>9. CASE StartRouteWatchers(h)
    BY <2>9 DEF StartRouteWatchers
  <2>10. CASE FinishReload(h)
    BY <2>10 DEF FinishReload, Return
  <2> QED
    BY <1>3, <2>1, <2>2, <2>3, <2>4, <2>5, <2>6, <2>7, <2>8, <2>9, <2>10 DEF ReloadStep
<1>4. CASE TimerAgentsRefresh
  BY <1>4 DEF TimerAgentsRefresh
<1>5. ASSUME NEW t \in tasks, NEW a \in Agent, PutRefreshedAgent(t, a) PROVE UpdateInv'
  BY <1>5 DEF PutRefreshedAgent
<1>6. CASE Crash
  BY <1>6, ControlPlaneAssumption, ConfigurationAssumption DEF Crash
<1>7. CASE RunServer
  BY <1>7 DEF RunServer
<1>8. CASE EditFile
  BY <1>8 DEF EditFile
<1>9. CASE UNCHANGED vars
  BY <1>9 DEF vars
<1> QED
  BY <1>1, <1>2, <1>3, <1>4, <1>5, <1>6, <1>7, <1>8, <1>9 DEF Next

\* Manager.Update keeps config.yaml valid, whatever handlers, crashes and failed
\* writes interleave.
THEOREM FileStaysValid == Spec => []FileIsValid
<1>1. Init => UpdateInv
  BY ControlPlaneAssumption, ConfigurationAssumption DEF Init, UpdateInv, up
<1>2. UpdateInv => FileIsValid
  BY DEF UpdateInv, FileIsValid
<1> QED
  BY <1>1, <1>2, UpdateStepInv, TypeCorrect, PTL DEF Spec

\* Each change of config.yaml by the running server is one handler's mutation of the
\* contents it replaces.
THEOREM UpdatesAreNotLost == Spec => NoLostUpdate
<1>1. Init => UpdateInv
  BY ControlPlaneAssumption, ConfigurationAssumption DEF Init, UpdateInv, up
<1>2. TypeOK /\ UpdateInv /\ [Next]_vars =>
        [up => file' = file \/ \E h \in Handler : /\ pc[h] = "rename"
                                                 /\ file' = Mutate(file, op[h])]_vars
  <2> SUFFICES ASSUME UpdateInv, [Next]_vars, up, file' # file
               PROVE  \E h \in Handler : /\ pc[h] = "rename"
                                         /\ file' = Mutate(file, op[h])
    OBVIOUS
  <2>1. ASSUME NEW h \in Handler, UpdateStep(h) PROVE Rename(h)
    BY <2>1 DEF UpdateStep, LoadFile, UpdateAccept, UpdateReject, WriteTmp, WriteFails
  <2>2. ASSUME NEW h \in Handler, ReloadStep(h) PROVE FALSE
    BY <2>2 DEF ReloadStep, BuildRuntime, BuildRuntimeFails, SeedSection, SyncPoolNode,
       SetDeployPool, SetDDNS, Swap, Retire, StartRouteWatchers, FinishReload
  <2>3. \E h \in Handler : Rename(h)
    BY <2>1, <2>2 DEF Next, Receive, TimerAgentsRefresh, PutRefreshedAgent, Crash,
       RunServer, EditFile, vars
  <2> QED
    BY <2>3 DEF Rename, UpdateInv
<1> QED
  BY <1>1, <1>2, UpdateStepInv, TypeCorrect, PTL DEF Spec, NoLostUpdate

-----------------------------------------------------------------------------
\* Handlers drop their request when they return.
LEMMA IdleStepInv == TypeOK /\ IdleInv /\ [Next]_vars => IdleInv'
<1> SUFFICES ASSUME TypeOK, IdleInv, [Next]_vars PROVE IdleInv'
  OBVIOUS
<1> USE DEF IdleInv, TypeOK, handlerVars
<1>1. ASSUME NEW h \in Handler, NEW r \in Op, Receive(h, r) PROVE IdleInv'
  BY <1>1 DEF Receive
<1>2. ASSUME NEW h \in Handler, UpdateStep(h) PROVE IdleInv'
  BY <1>2 DEF UpdateStep, LoadFile, UpdateAccept, UpdateReject, WriteTmp, WriteFails,
     Rename, Return
<1>3. ASSUME NEW h \in Handler, ReloadStep(h) PROVE IdleInv'
  BY <1>3 DEF ReloadStep, BuildRuntime, BuildRuntimeFails, SeedSection, SyncPoolNode,
     SetDeployPool, SetDDNS, Swap, Retire, StartRouteWatchers, FinishReload, Return
<1>4. CASE TimerAgentsRefresh \/ RunServer \/ EditFile \/ UNCHANGED vars
  BY <1>4 DEF TimerAgentsRefresh, RunServer, EditFile, vars
<1>5. ASSUME NEW t \in tasks, NEW a \in Agent, PutRefreshedAgent(t, a) PROVE IdleInv'
  BY <1>5 DEF PutRefreshedAgent
<1>6. CASE Crash
  BY <1>6 DEF Crash
<1> QED
  BY <1>1, <1>2, <1>3, <1>4, <1>5, <1>6 DEF Next

\* Both modules decide alike what a request does.
LEMMA RegisterFacts ==
    /\ Register!Op = Op /\ Register!Config = Config
    /\ \A c : Register!Validate(c) <=> Validate(c)
    /\ \A c, r : /\ Register!Mutate(c, r) = Mutate(c, r)
                /\ Register!Accepts(c, r) <=> MutatorAccepts(c, r) /\ Validate(Mutate(c, r))
<1>1. Register!Op = Op /\ Register!Config = Config
  BY DEF Register!Op, Op, Register!Config, Config
<1>2. \A c : Register!Validate(c) <=> Validate(c)
  BY DEF Register!Validate, Validate
<1>3. \A c, r : Register!Mutate(c, r) = Mutate(c, r)
  BY DEF Register!Mutate, Mutate
<1>4. \A c, r : Register!MutatorAccepts(c, r) <=> MutatorAccepts(c, r)
  BY DEF Register!MutatorAccepts, Register!CreateAccepts, Register!UpdateAccepts,
     Register!DeleteAccepts, MutatorAccepts, CreateAccepts, UpdateAccepts, DeleteAccepts
<1> QED
  BY <1>1, <1>2, <1>3, <1>4 DEF Register!Accepts

\* The handlers, the mutex, the two-step write and the reloads implement a register
\* that requests change one at a time, for any number of handlers and objects.
THEOREM ControlPlaneImplementsRegister == Spec => ImplementsRegister
<1> DEFINE Done == {h \in Handler : pc[h] \in Reloading}
<1>1. Init => UpdateInv /\ IdleInv /\ Register!RegisterInit
  BY ControlPlaneAssumption, RegisterFacts
  DEF Init, UpdateInv, IdleInv, up, Register!RegisterInit, Reloading
<1>2. TypeOK /\ UpdateInv /\ IdleInv /\ [Next]_vars =>
        [Register!RegisterNext]_(Register!registerVars)
  <2> SUFFICES ASSUME TypeOK, UpdateInv, IdleInv, [Next]_vars
               PROVE  Register!RegisterNext \/ UNCHANGED Register!registerVars
    OBVIOUS
  <2>0. /\ pc \in [Handler -> {"idle"} \cup Updating \cup Reloading]
        /\ op \in [Handler -> Op \cup {NoOp}]
        /\ \A h \in Handler : pc[h] # "idle" => op[h] \in Op /\ op[h] # NoOp
    BY ControlPlaneAssumption DEF TypeOK
  <2>a. ASSUME file' = file, op' = op, up' <=> up, Done' = Done
        PROVE  UNCHANGED Register!registerVars
    BY <2>a DEF Register!registerVars, up
  <2>b. ASSUME NEW h \in Handler, pc[h] # "idle", Return(h), file' = file, up' <=> up
        PROVE  Register!RegisterNext
    <3>1. op[h] # NoOp /\ op' = [op EXCEPT ![h] = NoOp]
      BY <2>0, <2>b DEF Return
    <3>2. CASE pc[h] \in Reloading
      <4>1. Done' = Done \ {h} /\ h \in Done
        BY <2>0, <2>b, <3>2 DEF Return, Reloading
      <4> QED
        BY <2>b, <3>1, <4>1 DEF Register!RegisterNext, Register!Answer, up
    <3>3. CASE pc[h] \notin Reloading
      <4>1. Done' = Done /\ h \notin Done
        BY <2>0, <2>b, <3>3 DEF Return, Reloading
      <4> QED
        BY <2>b, <3>1, <4>1 DEF Register!RegisterNext, Register!Refuse, up
    <3> QED
      BY <3>2, <3>3
  <2>1. ASSUME NEW h \in Handler, NEW r \in Op, Receive(h, r) PROVE Register!RegisterNext
    <3>1. /\ op[h] = NoOp /\ op' = [op EXCEPT ![h] = r] /\ r # NoOp
          /\ up /\ up' /\ file' = file /\ op'[h] = r
      BY <2>0, <2>1, ControlPlaneAssumption DEF Receive, IdleInv, up
    <3>2. Done' = Done
      BY <2>0, <2>1 DEF Receive, Reloading
    <3> QED
      BY <3>1, <3>2, RegisterFacts DEF Register!RegisterNext, Register!Request
  <2>2. ASSUME NEW h \in Handler, UpdateStep(h)
        PROVE  Register!RegisterNext \/ UNCHANGED Register!registerVars
    <3>1. CASE LoadFile(h) \/ UpdateAccept(h) \/ WriteTmp(h)
      <4>1. Done' = Done
        BY <2>0, <3>1 DEF LoadFile, UpdateAccept, WriteTmp, Reloading
      <4> QED
        BY <2>a, <3>1, <4>1 DEF LoadFile, UpdateAccept, WriteTmp, handlerVars, up
    <3>2. CASE UpdateReject(h) \/ WriteFails(h)
      BY <2>b, <3>2 DEF UpdateReject, WriteFails, up
    <3>3. CASE Rename(h)
      <4>1. /\ file' = Mutate(file, op[h]) /\ op' = op /\ op[h] # NoOp
            /\ up /\ up'
        BY <2>0, <3>3 DEF Rename, UpdateInv, up
      <4>2. Done' = Done \cup {h} /\ h \notin Done
        BY <2>0, <3>3 DEF Rename, Reloading
      <4>3. MutatorAccepts(file, op[h]) /\ Validate(Mutate(file, op[h]))
        BY <3>3 DEF Rename, UpdateInv
      <4> QED
        BY <4>1, <4>2, <4>3, RegisterFacts DEF Register!RegisterNext, Register!Commit
    <3> QED
      BY <2>2, <3>1, <3>2, <3>3 DEF UpdateStep
  <2>3. ASSUME NEW h \in Handler, ReloadStep(h)
        PROVE  Register!RegisterNext \/ UNCHANGED Register!registerVars
    <3>1. CASE BuildRuntimeFails(h) \/ FinishReload(h)
      BY <2>b, <3>1 DEF BuildRuntimeFails, FinishReload, UpdateInv, up
    <3>2. CASE ~(BuildRuntimeFails(h) \/ FinishReload(h))
      <4>1. Done' = Done
        BY <2>0, <2>3, <3>2 DEF ReloadStep, BuildRuntime, SeedSection, SyncPoolNode,
           SetDeployPool, SetDDNS, Swap, Retire, StartRouteWatchers, Reloading
      <4>2. file' = file /\ op' = op /\ phase' = phase
        BY <2>3, <3>2 DEF ReloadStep, BuildRuntime, SeedSection, SyncPoolNode,
           SetDeployPool, SetDDNS, Swap, Retire, StartRouteWatchers, handlerVars
      <4> QED
        BY <2>a, <4>1, <4>2 DEF up
    <3> QED
      BY <3>1, <3>2
  <2>4. CASE TimerAgentsRefresh \/ UNCHANGED vars
    BY <2>4, <2>a DEF TimerAgentsRefresh, vars, handlerVars, up
  <2>5. ASSUME NEW t \in tasks, NEW a \in Agent, PutRefreshedAgent(t, a)
        PROVE  UNCHANGED Register!registerVars
    BY <2>5, <2>a DEF PutRefreshedAgent, handlerVars, up
  <2>6. CASE Crash
    BY <2>6 DEF Crash, Register!RegisterNext, Register!Die, up, Reloading
  <2>7. CASE RunServer
    <3>1. Done' = Done /\ ~up /\ up' /\ file' = file /\ op' = op
      BY <2>7 DEF RunServer, handlerVars, up
    <3> QED
      BY <3>1 DEF Register!RegisterNext, Register!Start
  <2>8. CASE EditFile
    <3>1. Done' = Done /\ ~up /\ (up' <=> up) /\ op' = op
      BY <2>8 DEF EditFile, handlerVars, up
    <3>2. \E r \in Op : /\ MutatorAccepts(file, r) /\ Validate(Mutate(file, r))
                        /\ file' = Mutate(file, r)
      BY <2>8 DEF EditFile
    <3>3. \E r \in Register!Op : Register!Accepts(file, r) /\ file' = Register!Mutate(file, r)
      BY <3>2, RegisterFacts
    <3> QED
      BY <3>1, <3>3 DEF Register!RegisterNext, Register!Repair, up
  <2> QED
    BY <2>1, <2>2, <2>3, <2>4, <2>5, <2>6, <2>7, <2>8 DEF Next
<1> QED
  BY <1>1, <1>2, UpdateStepInv, IdleStepInv, TypeCorrect, PTL
  DEF Spec, ImplementsRegister, Register!RegisterSpec

-----------------------------------------------------------------------------
\* A step that changes no generation and moves no reload between the classes RuntimeInv
\* tells apart preserves it.
LEMMA RuntimeFrame ==
    ASSUME TypeOK, RuntimeInv,
           UNCHANGED <<cur, open, started, cancelled, commits>>,
           (up' <=> up),
           \A k \in Handler :
             /\ (Pending(k)' <=> Pending(k)) /\ (Opened(k)' <=> Opened(k))
             /\ (Retiring(k)' <=> Retiring(k)) /\ (Unwatched(k)' <=> Unwatched(k))
             /\ (pc'[k] \in Reloading <=> pc[k] \in Reloading)
             /\ pc[k] \in Reloading => id'[k] = id[k] /\ old'[k] = old[k]
    PROVE  RuntimeInv'
<1>0. \A k \in Handler : /\ Pending(k) => pc[k] \in Reloading
                         /\ Opened(k) => pc[k] \in Reloading
                         /\ Retiring(k) => pc[k] \in Reloading
                         /\ Unwatched(k) => pc[k] \in Reloading
  BY DEF Pending, Opened, Retiring, Unwatched, Reloading
<1>1. IdsInv'
  BY DEF RuntimeInv, IdsInv
<1>2. PendingInv'
  BY <1>0 DEF RuntimeInv, PendingInv
<1>3. RetiringInv'
  BY <1>0 DEF RuntimeInv, RetiringInv
<1>4. OpenInv'
  BY <1>0 DEF RuntimeInv, OpenInv
<1>5. WatchInv'
  BY <1>0 DEF RuntimeInv, WatchInv
<1> QED
  BY <1>1, <1>2, <1>3, <1>4, <1>5 DEF RuntimeInv

\* However reloads interleave, every open generation of discoverers has exactly one
\* owner and every watched one is current or about to be cancelled.
LEMMA RuntimeStepInv == TypeOK /\ UpdateInv /\ RuntimeInv /\ [Next]_vars => RuntimeInv'
<1> SUFFICES ASSUME TypeOK, UpdateInv, RuntimeInv, [Next]_vars PROVE RuntimeInv'
  OBVIOUS
<1>0. \A h \in Handler : ~up => pc[h] = "idle"
  BY DEF UpdateInv
<1> DEFINE Same == /\ UNCHANGED <<cur, open, started, cancelled, commits>>
                   /\ (up' <=> up)
                   /\ \A k \in Handler :
                        /\ (Pending(k)' <=> Pending(k)) /\ (Opened(k)' <=> Opened(k))
                        /\ (Retiring(k)' <=> Retiring(k)) /\ (Unwatched(k)' <=> Unwatched(k))
                        /\ (pc'[k] \in Reloading <=> pc[k] \in Reloading)
                        /\ pc[k] \in Reloading => id'[k] = id[k] /\ old'[k] = old[k]
<1>a. Same => RuntimeInv'
  BY RuntimeFrame
<1> HIDE DEF Same
<1> USE DEF Pending, Opened, Retiring, Unwatched, Reloading, handlerVars, memory
<1>1. ASSUME NEW h \in Handler, NEW r \in Op, Receive(h, r) PROVE RuntimeInv'
  BY <1>1, <1>a DEF Receive, TypeOK, Same, up
<1>2. ASSUME NEW h \in Handler, UpdateStep(h) PROVE RuntimeInv'
  <2>1. CASE LoadFile(h)
    BY <2>1, <1>a DEF LoadFile, TypeOK, Same, up
  <2>2. CASE UpdateAccept(h)
    BY <2>2, <1>a DEF UpdateAccept, TypeOK, Same, up
  <2>3. CASE UpdateReject(h)
    BY <2>3, <1>a DEF UpdateReject, Return, TypeOK, Same, up
  <2>4. CASE WriteTmp(h)
    BY <2>4, <1>a DEF WriteTmp, TypeOK, Same, up
  <2>5. CASE WriteFails(h)
    BY <2>5, <1>a DEF WriteFails, Return, TypeOK, Same, up
  <2>6. CASE Rename(h)
    <3> USE <1>0, <2>6 DEF Rename, TypeOK, up, RuntimeInv
    <3>1. IdsInv'
      BY DEF IdsInv
    <3>2. PendingInv'
      BY DEF PendingInv, IdsInv, RetiringInv
    <3>3. RetiringInv'
      BY DEF RetiringInv
    <3>4. OpenInv'
      <4>1. up /\ up'
        OBVIOUS
      <4>2. \A k \in Handler : /\ Opened(k)' <=> Opened(k)
                               /\ Retiring(k)' <=> Retiring(k)
                               /\ Opened(k) \/ Retiring(k) => id'[k] = id[k] /\ old'[k] = old[k]
        OBVIOUS
      <4>3. \A k \in Handler : /\ Opened(k) => id[k] <= commits
                               /\ Retiring(k) => old[k] <= commits
        BY DEF IdsInv, RetiringInv
      <4>4. commits + 1 \notin open /\ cur <= commits
        BY DEF IdsInv
      <4>5. ASSUME NEW g \in 0 .. commits + 1
            PROVE  g \in open <=> \/ g = cur
                                  \/ \E k \in Handler : Opened(k) /\ id[k] = g
                                  \/ \E k \in Handler : Retiring(k) /\ old[k] = g
        <5>1. CASE g \in 0 .. commits
          BY <4>1, <5>1 DEF OpenInv
        <5>2. CASE g = commits + 1
          BY <4>3, <4>4, <5>2
        <5> QED
          BY <5>1, <5>2
      <4> HIDE DEF Opened, Retiring
      <4> QED
        BY <4>1, <4>2, <4>5 DEF OpenInv
    <3>5. WatchInv'
      BY DEF WatchInv
    <3> QED
      BY <3>1, <3>2, <3>3, <3>4, <3>5
  <2> QED
    BY <1>2, <2>1, <2>2, <2>3, <2>4, <2>5, <2>6 DEF UpdateStep
<1>3. ASSUME NEW h \in Handler, ReloadStep(h) PROVE RuntimeInv'
  <2>1. CASE BuildRuntime(h)
    <3> USE <1>0, <2>1 DEF BuildRuntime, TypeOK, up, RuntimeInv
    <3>1. IdsInv'
      BY DEF IdsInv
    <3>2. PendingInv'
      BY DEF PendingInv
    <3>3. RetiringInv'
      BY DEF RetiringInv
    <3>4. OpenInv'
      BY DEF OpenInv, IdsInv
    <3>5. WatchInv'
      BY DEF WatchInv
    <3> QED
      BY <3>1, <3>2, <3>3, <3>4, <3>5
  <2>2. CASE BuildRuntimeFails(h)
    <3> USE <1>0, <2>2 DEF BuildRuntimeFails, Return, TypeOK, up, RuntimeInv
    <3>0. \A k \in Handler : /\ Retiring(k)' <=> Retiring(k)
                             /\ Unwatched(k)' <=> Unwatched(k)
                             /\ Retiring(k) \/ Unwatched(k) => id'[k] = id[k] /\ old'[k] = old[k]
      OBVIOUS
    <3>1. IdsInv'
      BY DEF IdsInv
    <3>2. PendingInv'
      BY DEF PendingInv
    <3>3. RetiringInv'
      BY DEF RetiringInv
    <3>4. OpenInv'
      BY DEF OpenInv
    <3>5. WatchInv'
      <4> HIDE DEF Retiring, Unwatched
      <4> QED
        BY <3>0 DEF WatchInv
    <3> QED
      BY <3>1, <3>2, <3>3, <3>4, <3>5
  <2>3. CASE SeedSection(h)
    <3>1. pc' = [pc EXCEPT ![h] = pc'[h]] /\ pc'[h] \in {"seed", "sync"}
      BY <2>3 DEF SeedSection, TypeOK
    <3> QED
      BY <2>3, <3>1, <1>a DEF SeedSection, TypeOK, Same, up
  <2>4. CASE \E a \in Agent : SyncPoolNode(h, a)
    <3>1. pc' = [pc EXCEPT ![h] = "sync"]
      BY <2>4 DEF SyncPoolNode, TypeOK
    <3> QED
      BY <2>4, <3>1, <1>a DEF SyncPoolNode, TypeOK, Same, up
  <2>5. CASE SetDeployPool(h)
    BY <2>5, <1>a DEF SetDeployPool, TypeOK, Same, up
  <2>6. CASE SetDDNS(h)
    BY <2>6, <1>a DEF SetDDNS, TypeOK, Same, up
  <2>7. CASE Swap(h)
    <3> USE <1>0, <2>7 DEF Swap, TypeOK, up, RuntimeInv
    <3>1. IdsInv'
      BY DEF IdsInv
    <3>2. PendingInv'
      BY DEF PendingInv, IdsInv
    <3>3. RetiringInv'
      BY DEF RetiringInv, PendingInv, IdsInv
    <3>4. OpenInv'
      BY DEF OpenInv, IdsInv
    <3>5. WatchInv'
      BY DEF WatchInv, PendingInv
    <3> QED
      BY <3>1, <3>2, <3>3, <3>4, <3>5
  <2>8. CASE Retire(h)
    <3> USE <1>0, <2>8 DEF Retire, TypeOK, up, RuntimeInv
    <3>1. IdsInv'
      BY DEF IdsInv, RetiringInv
    <3>2. PendingInv'
      BY DEF PendingInv
    <3>3. RetiringInv'
      BY DEF RetiringInv
    <3>4. OpenInv'
      <4>1. \A k \in Handler : /\ Opened(k)' <=> Opened(k)
                               /\ Retiring(k)' <=> Retiring(k) /\ k # h
                               /\ id'[k] = id[k] /\ old'[k] = old[k]
        OBVIOUS
      <4>2. Retiring(h) /\ old[h] # cur /\ up /\ up'
        BY DEF RetiringInv
      <4>3. \A k \in Handler : /\ Opened(k) => id[k] # old[h]
                               /\ Retiring(k) /\ k # h => old[k] # old[h]
        BY <4>2 DEF RetiringInv, PendingInv
      <4>4. commits' = commits /\ cur' = cur /\ open' = open \ {old[h]}
        OBVIOUS
      <4> HIDE DEF Opened, Retiring
      <4> QED
        BY <4>1, <4>2, <4>3, <4>4 DEF OpenInv
    <3>5. WatchInv'
      BY DEF WatchInv, RetiringInv
    <3> QED
      BY <3>1, <3>2, <3>3, <3>4, <3>5
  <2>9. CASE StartRouteWatchers(h)
    <3> USE <1>0, <2>9 DEF StartRouteWatchers, TypeOK, up, RuntimeInv
    <3>1. IdsInv'
      BY DEF IdsInv
    <3>2. PendingInv'
      BY DEF PendingInv
    <3>3. RetiringInv'
      BY DEF RetiringInv
    <3>4. OpenInv'
      BY DEF OpenInv
    <3>5. WatchInv'
      BY DEF WatchInv
    <3> QED
      BY <3>1, <3>2, <3>3, <3>4, <3>5
  <2>10. CASE FinishReload(h)
    <3> USE <1>0, <2>10 DEF FinishReload, Return, TypeOK, up, RuntimeInv
    <3>0. \A k \in Handler : /\ Retiring(k)' <=> Retiring(k)
                             /\ Unwatched(k)' <=> Unwatched(k)
                             /\ Retiring(k) \/ Unwatched(k) => id'[k] = id[k] /\ old'[k] = old[k]
      OBVIOUS
    <3>1. IdsInv'
      BY DEF IdsInv
    <3>2. PendingInv'
      BY DEF PendingInv
    <3>3. RetiringInv'
      BY DEF RetiringInv
    <3>4. OpenInv'
      BY DEF OpenInv
    <3>5. WatchInv'
      <4> HIDE DEF Retiring, Unwatched
      <4> QED
        BY <3>0 DEF WatchInv
    <3> QED
      BY <3>1, <3>2, <3>3, <3>4, <3>5
  <2> QED
    BY <1>3, <2>1, <2>2, <2>3, <2>4, <2>5, <2>6, <2>7, <2>8, <2>9, <2>10 DEF ReloadStep
<1>4. CASE TimerAgentsRefresh
  BY <1>4, <1>a DEF TimerAgentsRefresh, Same, up
<1>5. ASSUME NEW t \in tasks, NEW a \in Agent, PutRefreshedAgent(t, a) PROVE RuntimeInv'
  BY <1>5, <1>a DEF PutRefreshedAgent, Same, up
<1>6. CASE Crash
  BY <1>6 DEF Crash, RuntimeInv, IdsInv, PendingInv, RetiringInv, OpenInv, WatchInv, up, TypeOK
<1>7. CASE RunServer
  BY <1>0, <1>7
  DEF RunServer, RuntimeInv, IdsInv, PendingInv, RetiringInv, OpenInv, WatchInv, up, TypeOK
<1>8. CASE EditFile
  BY <1>8, <1>a DEF EditFile, Same, up
<1>9. CASE UNCHANGED vars
  BY <1>9, <1>a DEF vars, Same, up
<1> QED
  BY <1>1, <1>2, <1>3, <1>4, <1>5, <1>6, <1>7, <1>8, <1>9 DEF Next

\* runtimeManager.Replace leaks no discoverer and stops no current watcher, for any
\* number of concurrent reloads.
THEOREM RuntimeIsUnique == Spec => []OneRuntimeWhenQuiet
<1>1. Init => UpdateInv /\ RuntimeInv
  BY ControlPlaneAssumption, ConfigurationAssumption DEF Init, UpdateInv, RuntimeInv, IdsInv, PendingInv, RetiringInv,
     OpenInv, WatchInv, up, Pending, Retiring, Unwatched, Reloading
<1>2. TypeOK /\ RuntimeInv => OneRuntimeWhenQuiet
  <2> SUFFICES ASSUME TypeOK, RuntimeInv, Quiet
               PROVE  open = {cur} /\ started \ cancelled = {cur}
    BY DEF OneRuntimeWhenQuiet
  <2>1. up /\ \A h \in Handler : ~Opened(h) /\ ~Retiring(h) /\ ~Unwatched(h)
    BY DEF Quiet, Opened, Retiring, Unwatched
  <2>2. open \subseteq 0 .. commits /\ cur \in 0 .. commits
    BY DEF TypeOK, RuntimeInv, IdsInv
  <2>3. open = {cur}
    BY <2>1, <2>2 DEF RuntimeInv, OpenInv
  <2>4. started \ cancelled = {cur}
    BY <2>1 DEF RuntimeInv, WatchInv
  <2> QED
    BY <2>3, <2>4
<1> QED
  BY <1>1, <1>2, UpdateStepInv, RuntimeStepInv, TypeCorrect, PTL DEF Spec

-----------------------------------------------------------------------------
\* Only agents of the captured configuration are put into the store.
LEMMA TodoStepInv == TypeOK /\ UpdateInv /\ TodoInv /\ [Next]_vars => TodoInv'
<1> SUFFICES ASSUME TypeOK, UpdateInv, TodoInv, [Next]_vars PROVE TodoInv'
  OBVIOUS
<1>0. \A h \in Handler : pc[h] # "idle" => up
  BY DEF UpdateInv
<1> USE DEF TodoInv, TypeOK, handlerVars, memory, up
<1>1. ASSUME NEW h \in Handler, NEW r \in Op, Receive(h, r) PROVE TodoInv'
  BY <1>1 DEF Receive
<1>2. ASSUME NEW h \in Handler, UpdateStep(h) PROVE TodoInv'
  BY <1>0, <1>2 DEF UpdateStep, LoadFile, UpdateAccept, UpdateReject, WriteTmp, WriteFails,
     Rename, Return
<1>3. ASSUME NEW h \in Handler, ReloadStep(h) PROVE TodoInv'
  <2>1. CASE SeedSection(h)
    <3>1. \A k \in Handler, a \in Agent :
            a \in todo'[k] => pc'[k] = "sync" /\ cfg'[k][a] # Absent
      <4>1. CASE sect[h] < Len(SeedOrder)
        <5>1. pc' = pc /\ todo' = todo /\ cfg' = cfg
          BY <2>1, <4>1 DEF SeedSection
        <5> QED
          BY <5>1
      <4>2. CASE ~(sect[h] < Len(SeedOrder))
        <5>1. /\ pc' = [pc EXCEPT ![h] = "sync"]
              /\ todo' = [todo EXCEPT ![h] = Present("agent", cfg[h])] /\ cfg' = cfg
          BY <2>1, <4>2 DEF SeedSection
        <5> QED
          BY <5>1 DEF Present
      <4> QED
        BY <4>1, <4>2
    <3>2. tasks' = tasks /\ phase' = phase
      BY <2>1 DEF SeedSection
    <3> QED
      BY <3>1, <3>2
  <2>2. CASE FinishReload(h)
    <3> DEFINE t == AgentRefresh("reload", id[h], Only("agent", cfg[h]))
    <3>1. \A a \in Agent : a \in t.todo => t.pool[a] # Absent
      BY DEF AgentRefresh, Present, Agent
    <3>2. tasks' \subseteq tasks \cup {t}
      BY <2>2 DEF FinishReload, Unfinished
    <3>3. \A k \in Handler : todo'[k] = {} \/ (todo'[k] = todo[k] /\ pc'[k] = pc[k] /\ cfg'[k] = cfg[k])
      BY <2>2 DEF FinishReload, Return
    <3>4. phase' # "down"
      BY <1>0, <2>2 DEF FinishReload
    <3>5. \A u \in tasks', a \in Agent : a \in u.todo => u.pool[a] # Absent
      <4> HIDE DEF t
      <4> QED
        BY <3>1, <3>2
    <3>6. \A k \in Handler, a \in Agent :
            a \in todo'[k] => pc'[k] = "sync" /\ cfg'[k][a] # Absent
      <4> TAKE k \in Handler, a \in Agent
      <4> HAVE a \in todo'[k]
      <4>1. todo'[k] = todo[k] /\ pc'[k] = pc[k] /\ cfg'[k] = cfg[k]
        BY <3>3
      <4>2. pc[k] = "sync" /\ cfg[k][a] # Absent
        BY <4>1
      <4> QED
        BY <4>1, <4>2
    <3> QED
      BY <3>4, <3>5, <3>6
  <2>3. CASE \E a \in Agent : SyncPoolNode(h, a)
    BY <2>3 DEF SyncPoolNode
  <2>4. CASE SetDeployPool(h)
    BY <2>4 DEF SetDeployPool
  <2>5. CASE BuildRuntimeFails(h)
    BY <2>5 DEF BuildRuntimeFails, Return
  <2>6. CASE BuildRuntime(h) \/ SetDDNS(h) \/ Swap(h) \/ Retire(h) \/ StartRouteWatchers(h)
    BY <2>6 DEF BuildRuntime, SetDDNS, Swap, Retire, StartRouteWatchers
  <2> QED
    BY <1>3, <2>1, <2>2, <2>3, <2>4, <2>5, <2>6 DEF ReloadStep
<1>4. CASE TimerAgentsRefresh
  BY <1>4 DEF TimerAgentsRefresh, Unfinished, AgentRefresh, Present, Agent
<1>5. ASSUME NEW t \in tasks, NEW a \in Agent, PutRefreshedAgent(t, a) PROVE TodoInv'
  BY <1>5 DEF PutRefreshedAgent, Unfinished
<1>6. CASE Crash
  BY <1>6 DEF Crash
<1>7. CASE RunServer
  BY <1>7 DEF RunServer, Unfinished, AgentRefresh, Present, Agent
<1>8. CASE EditFile
  BY <1>8 DEF EditFile
<1>9. CASE UNCHANGED vars
  BY <1>9 DEF vars
<1> QED
  BY <1>1, <1>2, <1>3, <1>4, <1>5, <1>6, <1>7, <1>8, <1>9 DEF Next

\* Every reload starts seeding at the first section.
LEMMA SectStepInv == TypeOK /\ SectInv /\ [Next]_vars => SectInv'
<1> SUFFICES ASSUME TypeOK, SectInv, [Next]_vars PROVE SectInv'
  OBVIOUS
<1> USE DEF SectInv, TypeOK, handlerVars, Updating, Reloading
<1>1. ASSUME NEW h \in Handler, NEW r \in Op, Receive(h, r) PROVE SectInv'
  BY <1>1 DEF Receive
<1>2. ASSUME NEW h \in Handler, UpdateStep(h) PROVE SectInv'
  BY <1>2 DEF UpdateStep, LoadFile, UpdateAccept, UpdateReject, WriteTmp, WriteFails,
     Rename, Return
<1>3. ASSUME NEW h \in Handler, ReloadStep(h) PROVE SectInv'
  BY <1>3 DEF ReloadStep, BuildRuntime, BuildRuntimeFails, SeedSection, SyncPoolNode,
     SetDeployPool, SetDDNS, Swap, Retire, StartRouteWatchers, FinishReload, Return
<1>4. CASE TimerAgentsRefresh \/ RunServer \/ EditFile \/ UNCHANGED vars
  BY <1>4 DEF TimerAgentsRefresh, RunServer, EditFile, vars
<1>5. ASSUME NEW t \in tasks, NEW a \in Agent, PutRefreshedAgent(t, a) PROVE SectInv'
  BY <1>5 DEF PutRefreshedAgent
<1>6. CASE Crash
  BY <1>6 DEF Crash
<1> QED
  BY <1>1, <1>2, <1>3, <1>4, <1>5, <1>6 DEF Next

-----------------------------------------------------------------------------
\* A step that leaves the file, the memory and every reload alone keeps what clean
\* reloads have carried over.
LEMMA SyncFrame ==
  ASSUME CleanInv, SettledInv, SoloReloadSettles,
         file' = file, store' = store, deployPool' = deployPool, ddns' = ddns, pool' = pool,
         clean' = clean, phase' = phase,
         \A k \in Handler : /\ pc'[k] \in Reloading <=> pc[k] \in Reloading
                            /\ pc[k] \in Reloading => /\ pc'[k] = pc[k] /\ cfg'[k] = cfg[k]
                                                      /\ sect'[k] = sect[k]
  PROVE  CleanInv' /\ SettledInv' /\ SoloReloadSettles'
<1>1. CleanInv'
  BY DEF CleanInv, Carried
<1>2. SettledInv'
  BY DEF SettledInv, inSync
<1>3. SoloReloadSettles'
  BY DEF SoloReloadSettles, inSync, Only
<1> QED
  BY <1>1, <1>2, <1>3

\* A step of a reload that does not end it keeps it clean if it is.
LEMMA CarriedStep ==
  ASSUME TypeOK, SectInv, TodoInv,
         NEW h \in Handler, ReloadStep(h), pc'[h] \in Reloading, Carried(h)
  PROVE  Carried(h)'
<1> DEFINE Seeded(k) == \A o \in Object, i \in 1 .. 6 :
         SeedOrder[i] = KindOf[o] /\ (pc[k] = "seed" => i < sect[k]) /\ pc[k] # "build" =>
           IF KindOf[o] = "agent" THEN file[o] # Absent => store[o] # Absent
                                  ELSE store[o] = file[o]
<1>0. /\ pc \in [Handler -> {"idle"} \cup Updating \cup Reloading]
      /\ sect \in [Handler -> 1 .. 6] /\ store \in Config /\ cfg \in [Handler -> Config]
  BY SeedOrderFacts DEF TypeOK
<1>1. CASE BuildRuntime(h)
  BY <1>0, <1>1 DEF BuildRuntime, Carried, handlerVars, SectInv
<1>2. CASE SeedSection(h)
  <2>0. /\ cfg' = cfg /\ file' = file /\ cfg[h] = file /\ Seeded(h) /\ pc[h] = "seed"
        /\ \A k \in Handler : k # h => pc'[k] \notin Reloading
        /\ store' = [o \in Object |-> IF KindOf[o] = SeedOrder[sect[h]]
                                       THEN file[o] ELSE store[o]]
    BY <1>0, <1>2 DEF SeedSection, Carried
  <2>1. CASE sect[h] < 6
    <3>1. pc' = pc /\ sect'[h] = sect[h] + 1
      BY <1>0, <1>2, <2>1, SeedOrderFacts DEF SeedSection
    <3>2. Seeded(h)'
      BY <1>0, <2>0, <3>1
    <3> QED
      BY <2>0, <3>1, <3>2 DEF Carried
  <2>2. CASE ~(sect[h] < 6)
    <3>1. pc'[h] = "sync" /\ sect[h] = 6
      BY <1>0, <1>2, <2>2, SeedOrderFacts DEF SeedSection
    <3>2. Seeded(h)'
      BY <1>0, <2>0, <3>1
    <3> QED
      BY <2>0, <3>1, <3>2 DEF Carried
  <2> QED
    BY <2>1, <2>2
<1>3. CASE \E a \in Agent : SyncPoolNode(h, a)
  BY <1>0, <1>3 DEF SyncPoolNode, Carried, TodoInv
<1>4. CASE SetDeployPool(h)
  BY <1>0, <1>4 DEF SetDeployPool, Carried, handlerVars
<1>5. CASE SetDDNS(h)
  BY <1>0, <1>5 DEF SetDDNS, Carried, handlerVars
<1>6. CASE Swap(h)
  BY <1>0, <1>6 DEF Swap, Carried
<1>7. CASE Retire(h)
  BY <1>0, <1>7 DEF Retire, Carried, handlerVars
<1>8. CASE StartRouteWatchers(h)
  BY <1>0, <1>8 DEF StartRouteWatchers, Carried, handlerVars
<1>9. CASE BuildRuntimeFails(h) \/ FinishReload(h)
  BY <1>0, <1>9 DEF BuildRuntimeFails, FinishReload, Return, Reloading
<1> QED
  BY <1>1, <1>2, <1>3, <1>4, <1>5, <1>6, <1>7, <1>8, <1>9 DEF ReloadStep

\* What clean reloads have carried over stays so until the file is next written.
LEMMA SyncStepInv ==
  ASSUME TypeOK, UpdateInv, CleanInv, SettledInv, SectInv, TodoInv, SoloReloadSettles,
         [Next]_vars
  PROVE  CleanInv' /\ SettledInv' /\ SoloReloadSettles'
<1> DEFINE Goal == CleanInv' /\ SettledInv' /\ SoloReloadSettles'
<1>0. /\ pc \in [Handler -> {"idle"} \cup Updating \cup Reloading]
      /\ cfg \in [Handler -> Config] /\ sect \in [Handler -> 1 .. Len(SeedOrder)]
      /\ store \in Config
  BY DEF TypeOK
<1>1. ASSUME NEW h \in Handler, NEW r \in Op, Receive(h, r) PROVE Goal
  BY <1>0, <1>1, SyncFrame DEF Receive, memory, Reloading
<1>2. ASSUME NEW h \in Handler, UpdateStep(h) PROVE Goal
  <2>1. CASE LoadFile(h) \/ UpdateAccept(h) \/ WriteTmp(h)
    BY <1>0, <2>1, SyncFrame
    DEF LoadFile, UpdateAccept, WriteTmp, handlerVars, memory, Reloading
  <2>2. CASE UpdateReject(h) \/ WriteFails(h)
    BY <1>0, <2>2, SyncFrame DEF UpdateReject, WriteFails, Return, memory, Reloading
  <2>3. CASE Rename(h)
    <3>1. phase' = "running"
      BY <2>3 DEF Rename
    <3>2. cfg'[h] = file' /\ cfg' = cfg /\ pc'[h] = "build"
      BY <1>0, <2>3 DEF Rename, UpdateInv
    <3>3. \A k \in clean' : /\ k = h
                            /\ \A g \in Handler : g # h => pc'[g] \notin Reloading
      BY <1>0, <2>3 DEF Rename
    <3>4. CleanInv'
      BY <3>2, <3>3 DEF CleanInv, Carried
    <3> QED
      BY <3>1, <3>4 DEF SettledInv, SoloReloadSettles, inSync
  <2> QED
    BY <1>2, <2>1, <2>2, <2>3 DEF UpdateStep
<1>3. ASSUME NEW h \in Handler, ReloadStep(h) PROVE Goal
  <2>1. pc[h] \in Reloading
    BY <1>3 DEF ReloadStep, BuildRuntime, BuildRuntimeFails, SeedSection, SyncPoolNode,
       SetDeployPool, SetDDNS, Swap, Retire, StartRouteWatchers, FinishReload, Reloading
  <2>2. phase # "settled"
    BY <2>1 DEF SettledInv, inSync
  <2>3. \A k \in Handler : k # h => pc'[k] = pc[k]
    BY <1>0, <1>3 DEF ReloadStep, BuildRuntime, BuildRuntimeFails, SeedSection, SyncPoolNode,
       SetDeployPool, SetDDNS, Swap, Retire, StartRouteWatchers, FinishReload, Return
  <2>4. clean' = clean
    BY <1>3 DEF ReloadStep, BuildRuntime, BuildRuntimeFails, SeedSection, SyncPoolNode,
       SetDeployPool, SetDDNS, Swap, Retire, StartRouteWatchers, FinishReload
  <2>5. CleanInv'
    <3> SUFFICES ASSUME NEW k \in Handler, pc'[k] \in Reloading, k \in clean
                 PROVE  Carried(k)'
      BY <2>4 DEF CleanInv
    <3>1. k = h
      BY <2>1, <2>3 DEF CleanInv, Carried
    <3> QED
      BY <1>3, <2>1, <3>1, CarriedStep DEF CleanInv
  <2>6. CASE FinishReload(h) /\ h \in clean
    <3>1. Carried(h) /\ pc[h] = "finish"
      BY <2>1, <2>6 DEF CleanInv, FinishReload
    <3>2. SettledInv'
      BY <1>0, <2>6, <3>1 DEF FinishReload, Return, Carried, SettledInv, Reloading
    <3>3. \A o \in Object : \E i \in 1 .. 6 : SeedOrder[i] = KindOf[o]
      BY SeedOrderFacts, ControlPlaneAssumption, ConfigurationAssumption
    <3>5. /\ \A o \in Object : KindOf[o] # "agent" => store[o] = file[o]
          /\ \A a \in Agent : file[a] # Absent => store[a] # Absent
          /\ pool = Only("agent", file) /\ deployPool = Only("agent", file)
          /\ ddns = Only("provider", file)
      BY <3>1, <3>3 DEF Carried, Agent
    <3>6. SoloReloadSettles'
      BY <2>6, <3>5 DEF FinishReload, memory, SoloReloadSettles, Only
    <3> QED
      BY <2>5, <3>2, <3>6
  <2>7. CASE ~(FinishReload(h) /\ h \in clean)
    <3>1. phase' = phase
      BY <1>3, <2>7 DEF ReloadStep, BuildRuntime, BuildRuntimeFails, SeedSection,
         SyncPoolNode, SetDeployPool, SetDDNS, Swap, Retire, StartRouteWatchers, FinishReload
    <3> QED
      BY <2>2, <2>5, <3>1 DEF SettledInv, SoloReloadSettles, inSync
  <2> QED
    BY <2>6, <2>7
<1>4. CASE TimerAgentsRefresh
  BY <1>4, SyncFrame DEF TimerAgentsRefresh, handlerVars, memory
<1>5. ASSUME NEW t \in tasks, NEW a \in Agent, PutRefreshedAgent(t, a) PROVE Goal
  <2>0. PICK n \in {a, Reported[a]} : store' = [store EXCEPT ![n] = t.pool[a]]
    BY <1>5 DEF PutRefreshedAgent
  <2>1. /\ n \in Agent /\ KindOf[n] = "agent"
        /\ \A o \in Object : o # n => store'[o] = store[o]
        /\ store'[n] # Absent
    <3>1. n \in Agent /\ n \in Object /\ a \in Agent
      BY <2>0, ReportedFacts
    <3>2. t.pool[a] # Absent
      BY <1>5 DEF PutRefreshedAgent, TodoInv
    <3> QED
      BY <1>0, <2>0, <3>1, <3>2 DEF Agent, Config
  <2>2. UNCHANGED <<file, pc, cfg, sect, deployPool, ddns, pool, phase, clean>>
    BY <1>5 DEF PutRefreshedAgent, handlerVars
  <2>3. CleanInv'
    BY <2>1, <2>2 DEF CleanInv, Carried
  <2>4. SettledInv'
    BY <2>2 DEF SettledInv, inSync
  <2>5. SoloReloadSettles'
    BY <2>1, <2>2 DEF SoloReloadSettles, inSync, Only, Agent
  <2> QED
    BY <2>3, <2>4, <2>5
<1>6. CASE Crash
  BY <1>6 DEF Crash, CleanInv, SettledInv, SoloReloadSettles, inSync
<1>7. CASE RunServer
  <2>1. \A h \in Handler : pc'[h] \notin Reloading
    BY <1>7 DEF RunServer, UpdateInv, Reloading
  <2>2. SoloReloadSettles'
    BY <1>7 DEF RunServer, SoloReloadSettles, Only
  <2> QED
    BY <2>1, <2>2 DEF CleanInv, SettledInv
<1>8. CASE EditFile
  <2>1. \A h \in Handler : pc'[h] \notin Reloading
    BY <1>8 DEF EditFile, UpdateInv, Reloading
  <2>2. phase' = "down"
    BY <1>8 DEF EditFile, up
  <2> QED
    BY <2>1, <2>2 DEF CleanInv, SettledInv, SoloReloadSettles, inSync
<1>9. CASE UNCHANGED vars
  BY <1>9, SyncFrame DEF vars, handlerVars, memory
<1> QED
  BY <1>1, <1>2, <1>3, <1>4, <1>5, <1>6, <1>7, <1>8, <1>9 DEF Next

\* A reload that meets no other one makes the process agree with config.yaml, whatever the
\* reloads before it left behind, for any number of handlers and objects.
THEOREM ReloadsSettle == Spec => []SoloReloadSettles
<1>1. Init => UpdateInv /\ SyncInv
  BY ControlPlaneAssumption, ConfigurationAssumption
  DEF Init, UpdateInv, SyncInv, CleanInv, SettledInv, SectInv, TodoInv, SoloReloadSettles,
      inSync, up, Reloading
<1>2. TypeOK /\ UpdateInv /\ SyncInv /\ [Next]_vars => SyncInv'
  BY SyncStepInv, SectStepInv, TodoStepInv DEF SyncInv
<1>3. SyncInv => SoloReloadSettles
  BY DEF SyncInv
<1> QED
  BY <1>1, <1>2, <1>3, UpdateStepInv, TypeCorrect, PTL DEF Spec
=============================================================================
