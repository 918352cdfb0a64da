------------------------ MODULE AgentRegistryProofs -------------------------
(***************************************************************************)
(* Theorems about AgentRegistry, for any number of handlers, agents,       *)
(* addresses, attempts and restarts.                                       *)
(***************************************************************************)
EXTENDS AgentRegistry, TLAPS

\* Agents are objects, and the creation of an agent is a request.
LEMMA RegistryFacts ==
    /\ Agent \subseteq Object
    /\ \A a \in Agent, v \in Val : Creation(a, v) \in Op /\ Creation(a, v) # NoOp
    /\ \A c \in Config, r \in Op : Mutate(c, r) \in Config
    /\ \A c \in Config, a \in Agent, v \in Val :
         LET d == Mutate(c, Creation(a, v))
         IN  d[a] = v /\ \A b \in Agent \ {a} : d[b] = c[b]
<1>1. Agent \subseteq Object
  BY DEF Agent
<1>2. \A a \in Agent, v \in Val : Creation(a, v) \in Op
  BY <1>1 DEF Creation, Op
<1>3. \A c \in Config, r \in Op : Mutate(c, r) \in Config
  BY ConfigurationAssumption DEF Config, Op, Mutate
<1>4. ASSUME NEW c \in Config, NEW a \in Agent, NEW v \in Val
      PROVE  LET d == Mutate(c, Creation(a, v))
             IN  d[a] = v /\ \A b \in Agent \ {a} : d[b] = c[b]
  BY <1>1 DEF Config, Mutate, Creation
<1> QED
  BY <1>1, <1>2, <1>3, <1>4, AgentRegistryAssumption

\* Every variable keeps its type; in particular no agent makes more attempts than it may.
THEOREM RegistryTypes == Spec => []TypeOK
<1>1. Init => TypeOK
  <2> SUFFICES ASSUME Init PROVE TypeOK
    OBVIOUS
  <2>1. conf \in Config /\ alive \in BOOLEAN /\ done = {} /\ req = [h \in Handler |-> NoOp]
    BY DEF Init, RegisterInit
  <2> QED
    BY <2>1, AgentRegistryAssumption DEF Init, TypeOK
<1>2. TypeOK /\ [Next]_vars => TypeOK'
  <2> SUFFICES ASSUME TypeOK, [Next]_vars PROVE TypeOK'
    OBVIOUS
  <2> USE AgentRegistryAssumption DEF TypeOK, registerVars
  <2>1. ASSUME NEW a \in Agent, NEW v \in Val, RunServe(a, v) PROVE TypeOK'
    BY <2>1 DEF RunServe
  <2>2. ASSUME NEW a \in Agent, AgentStops(a) PROVE TypeOK'
    BY <2>2 DEF AgentStops
  <2>3. ASSUME NEW a \in Agent, AgentStep(a) PROVE TypeOK'
    BY <2>3 DEF AgentStep, RegisterAgent, RegisterFails, Attempt
  <2>4. ASSUME NEW a \in Agent, DeletePendingAgent(a) PROVE TypeOK'
    BY <2>4 DEF DeletePendingAgent
  <2>5. ASSUME NEW h \in Handler, NEW a \in Agent, ApprovePendingAgent(h, a) PROVE TypeOK'
    <3>1. pending[a] \in Val
      BY <2>5 DEF ApprovePendingAgent
    <3>2. Creation(a, pending[a]) \in Op /\ Creation(a, pending[a]) # NoOp
      BY <3>1, RegistryFacts
    <3> QED
      BY <2>5, <3>2 DEF ApprovePendingAgent, Request, Idle
  <2>6. ASSUME NEW h \in Handler, NEW r \in Op, OtherRequest(h, r) PROVE TypeOK'
    BY <2>6 DEF OtherRequest, Request, Idle
  <2>7. ASSUME NEW h \in Handler, HandlerStep(h) PROVE TypeOK'
    <3>1. CASE UpdateCommits(h)
      <4>1. conf' \in Config
        BY <3>1, RegistryFacts DEF UpdateCommits, Commit
      <4> QED
        BY <3>1, <4>1 DEF UpdateCommits, Commit
    <3>2. CASE UpdateErrs(h)
      BY <3>2 DEF UpdateErrs, Refuse, Answer
    <3>3. CASE UpdateSucceeds(h)
      BY <3>3 DEF UpdateSucceeds, Answer
    <3>4. CASE ApprovedDeletePending(h)
      BY <3>4 DEF ApprovedDeletePending
    <3> QED
      BY <2>7, <3>1, <3>2, <3>3, <3>4 DEF HandlerStep
  <2>8. CASE Crash
    BY <2>8 DEF Crash, Die
  <2>9. CASE Restart
    <3>1. conf' \in Config
      BY <2>9, RegistryFacts DEF Restart, Start, Repair
    <3>2. alive' \in BOOLEAN /\ req' = req /\ done' = done
      BY <2>9 DEF Restart, Start, Repair
    <3> QED
      BY <2>9, <3>1, <3>2 DEF Restart
  <2>10. CASE UNCHANGED vars
    BY <2>10 DEF vars
  <2> QED
    BY <2>1, <2>2, <2>3, <2>4, <2>5, <2>6, <2>7, <2>8, <2>9, <2>10 DEF Next
<1> QED
  BY <1>1, <1>2, PTL DEF Spec

\* An accepted registration is kept until something else takes it away, for any number of
\* approvals, duplicates and restarts.
THEOREM RegistrationsAreKept == Spec => []AcceptedIsKept
<1> DEFINE Inv == ApprovalInv /\ AcceptedIsKept
<1>1. Init => Inv
  BY AgentRegistryAssumption DEF Init, ApprovalInv, AcceptedIsKept, RegisterInit, Idle
<1>2. TypeOK /\ Inv /\ [Next]_vars => Inv'
  <2> SUFFICES ASSUME TypeOK, ApprovalInv, AcceptedIsKept, [Next]_vars
               PROVE  ApprovalInv' /\ AcceptedIsKept'
    OBVIOUS
  <2> USE AgentRegistryAssumption DEF TypeOK, registerVars, ApprovalInv, AcceptedIsKept, Idle
  <2>1. ASSUME NEW a \in Agent, NEW v \in Val, RunServe(a, v) PROVE Inv'
    BY <2>1 DEF RunServe
  <2>2. ASSUME NEW a \in Agent, AgentStops(a) PROVE Inv'
    BY <2>2 DEF AgentStops
  <2>3. ASSUME NEW a \in Agent, AgentStep(a) PROVE Inv'
    BY <2>3 DEF AgentStep, RegisterAgent, RegisterFails, Attempt
  <2>4. ASSUME NEW a \in Agent, DeletePendingAgent(a) PROVE Inv'
    BY <2>4 DEF DeletePendingAgent
  <2>5. ASSUME NEW h \in Handler, NEW a \in Agent, ApprovePendingAgent(h, a) PROVE Inv'
    <3>1. pending[a] \in Val
      BY <2>5 DEF ApprovePendingAgent
    <3>2. Creation(a, pending[a]) \in Op /\ Creation(a, pending[a]) # NoOp
      BY <3>1, RegistryFacts
    <3> QED
      BY <2>5, <3>1, <3>2 DEF ApprovePendingAgent, Request
  <2>6. ASSUME NEW h \in Handler, NEW r \in Op, OtherRequest(h, r) PROVE Inv'
    BY <2>6 DEF OtherRequest, Request
  <2>7. ASSUME NEW h \in Handler, HandlerStep(h) PROVE Inv'
    <3>1. CASE UpdateCommits(h)
      <4>1. /\ req[h] \in Op /\ h \notin done /\ conf' = Mutate(conf, req[h])
            /\ done' = done \cup {h}
            /\ UNCHANGED <<req, alive, pending, approving, due, agent, launches>>
            /\ excused' = excused \cup {a \in Agent : conf'[a] # conf[a] /\ approving[h] # a}
        BY <3>1 DEF UpdateCommits, Commit
      <4>2. \A a \in Agent : approving[h] = a =>
              \E v \in Val : /\ req[h] = Creation(a, v) /\ conf'[a] = v
                             /\ \A b \in Agent \ {a} : conf'[b] = conf[b]
        BY <4>1, RegistryFacts
      <4>3. \A a \in Agent, b \in Agent, v \in Val, w \in Val :
              Creation(a, v) = Creation(b, w) => a = b /\ v = w
        BY DEF Creation
      <4>4. ASSUME NEW a \in Agent, a \notin excused', agent[a].state = "accepted"
            PROVE  /\ agent[a].addr \in {pending[a], conf'[a]}
                   /\ \A g \in Handler : approving[g] = a /\ g \in done' \cup due =>
                        conf'[a] = agent[a].addr
        <5>1. CASE approving[h] = a
          <6>1. req[h] = Creation(a, agent[a].addr)
            BY <4>1, <4>4, <5>1
          <6>2. PICK v \in Val : req[h] = Creation(a, v) /\ conf'[a] = v
            BY <4>2, <5>1
          <6>3. v = agent[a].addr
            BY <6>1, <6>2 DEF Creation
          <6> QED
            BY <6>2, <6>3
        <5>2. CASE approving[h] # a
          <6>1. conf'[a] = conf[a]
            BY <4>1, <4>4, <5>2
          <6> QED
            BY <4>1, <4>4, <5>2, <6>1
        <5> QED
          BY <5>1, <5>2
      <4>5. AcceptedIsKept'
        BY <4>1, <4>4
      <4>6. ApprovalInv'
        BY <4>1, <4>4
      <4> QED
        BY <4>5, <4>6
    <3>2. CASE UpdateErrs(h)
      BY <3>2 DEF UpdateErrs, Refuse, Answer
    <3>3. CASE UpdateSucceeds(h)
      BY <3>3 DEF UpdateSucceeds, Answer
    <3>4. CASE ApprovedDeletePending(h)
      BY <3>4 DEF ApprovedDeletePending
    <3> QED
      BY <2>7, <3>1, <3>2, <3>3, <3>4 DEF HandlerStep
  <2>8. CASE Crash
    BY <2>8 DEF Crash, Die
  <2>9. CASE Restart
    <3>1. ~alive /\ UNCHANGED <<req, done, pending, approving, due, agent, launches, excused>>
      BY <2>9 DEF Restart, Start, Repair
    <3>2. \A h \in Handler : approving'[h] \notin Agent
      BY <3>1
    <3> QED
      BY <3>1, <3>2
  <2>10. CASE UNCHANGED vars
    BY <2>10 DEF vars
  <2> QED
    BY <2>1, <2>2, <2>3, <2>4, <2>5, <2>6, <2>7, <2>8, <2>9, <2>10 DEF Next
<1> QED
  BY <1>1, <1>2, RegistryTypes, PTL DEF Spec
=============================================================================
