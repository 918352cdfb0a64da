--------------------------- MODULE AgentRegistry ----------------------------
(***************************************************************************)
(* How an agent gets into config.yaml: the agent process registers with    *)
(* the server, which keeps the registration in memory until an operator    *)
(* approves it; approving is a request that changes the configuration and, *)
(* once that is written and reloaded, a separate DeletePendingAgent.       *)
(*                                                                         *)
(* The requests act on ConfigRegister, which ControlPlane implements: they *)
(* take effect between their arrival and their answer, and what was        *)
(* written may still be answered with an error when the reload fails.  A   *)
(* registration is the address an agent was started with, a value of its   *)
(* agent object.  One that AgentNode.Validate refuses is answered like one *)
(* that is lost.                                                           *)
(***************************************************************************)
EXTENDS ConfigRegister

CONSTANTS
    MaxAttempts,    \* attempts of registerWithServer, 12 in the code
    MaxLaunches,    \* bound: starts of agent processes
    NoAgent

ASSUME AgentRegistryAssumption ==
    /\ MaxAttempts \in Nat \ {0}
    /\ MaxLaunches \in Nat
    /\ NoAgent \notin Agent
    /\ NoOp \notin Op

VARIABLES
    pending,    \* MemoryStore.pendingAgents
    approving,  \* the pending agent that a handler approves
    due,        \* the approving handlers whose updateConfig has succeeded
    agent,      \* per agent: its process, its address and its failed attempts
    launches,   \* starts of agent processes so far
    excused     \* history: agents whose registration something else took away

vars == <<registerVars, pending, approving, due, agent, launches, excused>>

Init ==
    /\ RegisterInit
    /\ pending = [a \in Agent |-> Absent]
    /\ approving = [h \in Handler |-> NoAgent]
    /\ due = {}
    /\ agent = [a \in Agent |-> [state |-> "off", addr |-> Absent, attempt |-> 0]]
    /\ launches = 0
    /\ excused = {}

-----------------------------------------------------------------------------
(* The agent process: runServe and registerWithServer.                     *)

\* Started, or started again, with the address of its flags.
RunServe(a, v) ==
    /\ launches < MaxLaunches
    /\ launches' = launches + 1
    /\ agent' = [agent EXCEPT ![a] = [state |-> "trying", addr |-> v, attempt |-> 0]]
    /\ UNCHANGED <<registerVars, pending, approving, due, excused>>

\* Interrupted or killed.
AgentStops(a) ==
    /\ agent[a].state # "off"
    /\ agent' = [agent EXCEPT ![a].state = "off"]
    /\ UNCHANGED <<registerVars, pending, approving, due, launches, excused>>

\* Mutant: the attempts are not counted.
AttemptUncounted(a) ==
    agent' = [agent EXCEPT ![a].state = IF agent[a].attempt + 1 < MaxAttempts
                                        THEN "trying" ELSE "gaveup"]

\* Mutant: one attempt too many.
AttemptOffByOne(a) ==
    agent' = [agent EXCEPT ![a].attempt = @ + 1,
                           ![a].state = IF agent[a].attempt < MaxAttempts
                                        THEN "trying" ELSE "gaveup"]

\* An attempt that sees no 2xx answer; after the last one the agent gives up.
Attempt(a) ==
    agent' = [agent EXCEPT ![a].attempt = @ + 1,
                           ![a].state = IF agent[a].attempt + 1 < MaxAttempts
                                        THEN "trying" ELSE "gaveup"]

\* The server cannot be reached.
RegisterFails(a) ==
    /\ agent[a].state = "trying"
    /\ Attempt(a)
    /\ UNCHANGED <<registerVars, pending, approving, due, launches, excused>>

\* registerAgent stores the registration in place of an earlier one; its answer arrives
\* or is lost.
RegisterAgent(a) ==
    /\ alive
    /\ agent[a].state = "trying"
    /\ pending' = [pending EXCEPT ![a] = agent[a].addr]
    /\ agent' = [agent EXCEPT ![a].state = "accepted"] \/ Attempt(a)
    /\ excused' = IF \E h \in Handler : approving[h] = a THEN excused \cup {a}
                                                         ELSE excused \ {a}
    /\ UNCHANGED <<registerVars, approving, due, launches>>

-----------------------------------------------------------------------------
(* The operator's requests.                                                *)

Idle(h) == req[h] = NoOp /\ approving[h] = NoAgent

Creation(a, v) == [kind |-> "create", obj |-> a, to |-> a, val |-> v]

\* Mutant: the pending agent is deleted before the configuration is written.
ApproveDeletesFirst(h, a) ==
    /\ Idle(h)
    /\ pending[a] # Absent
    /\ Request(h, Creation(a, pending[a]))
    /\ approving' = [approving EXCEPT ![h] = a]
    /\ pending' = [pending EXCEPT ![a] = Absent]
    /\ UNCHANGED <<due, agent, launches, excused>>

\* approvePendingAgent up to updateConfig: the registration found in the list is what its
\* mutator will add.
ApprovePendingAgent(h, a) ==
    /\ Idle(h)
    /\ pending[a] # Absent
    /\ Request(h, Creation(a, pending[a]))
    /\ approving' = [approving EXCEPT ![h] = a]
    /\ UNCHANGED <<pending, due, agent, launches, excused>>

\* Any other request of the API.
OtherRequest(h, r) ==
    /\ Idle(h)
    /\ Request(h, r)
    /\ UNCHANGED <<pending, approving, due, agent, launches, excused>>

\* The configuration is written; a request other than an approval may remove an agent or
\* give it another address.
UpdateCommits(h) ==
    /\ Commit(h)
    /\ excused' = excused \cup {a \in Agent : conf'[a] # conf[a] /\ approving[h] # a}
    /\ UNCHANGED <<pending, approving, due, agent, launches>>

\* updateConfig returns an error: nothing was written, or the reload failed.
UpdateErrs(h) ==
    /\ Refuse(h) \/ Answer(h)
    /\ approving' = [approving EXCEPT ![h] = NoAgent]
    /\ UNCHANGED <<pending, due, agent, launches, excused>>

\* updateConfig returns the new configuration.
UpdateSucceeds(h) ==
    /\ Answer(h)
    /\ due' = due \cup {g \in {h} : approving[g] # NoAgent}
    /\ UNCHANGED <<pending, approving, agent, launches, excused>>

\* The rest of approvePendingAgent.
ApprovedDeletePending(h) ==
    /\ h \in due
    /\ pending' = [pending EXCEPT ![approving[h]] = Absent]
    /\ approving' = [approving EXCEPT ![h] = NoAgent]
    /\ due' = due \ {h}
    /\ UNCHANGED <<registerVars, agent, launches, excused>>

\* deletePendingAgent, one call of the store.
DeletePendingAgent(a) ==
    /\ alive
    /\ pending[a] # Absent
    /\ pending' = [pending EXCEPT ![a] = Absent]
    /\ excused' = excused \cup {a}
    /\ UNCHANGED <<registerVars, approving, due, agent, launches>>

-----------------------------------------------------------------------------
\* The pending list is lost with the process.
Crash ==
    /\ Die
    /\ pending' = [a \in Agent |-> Absent]
    /\ approving' = [h \in Handler |-> NoAgent]
    /\ due' = {}
    /\ excused' = Agent
    /\ UNCHANGED <<agent, launches>>

Restart ==
    /\ Start \/ Repair
    /\ UNCHANGED <<pending, approving, due, agent, launches, excused>>

AgentStep(a) == RegisterAgent(a) \/ RegisterFails(a)

HandlerStep(h) ==
    \/ UpdateCommits(h) \/ UpdateErrs(h) \/ UpdateSucceeds(h)
    \/ ApprovedDeletePending(h)

Next ==
    \/ \E a \in Agent : \/ \E v \in Val : RunServe(a, v)
                        \/ AgentStops(a)
                        \/ AgentStep(a)
                        \/ DeletePendingAgent(a)
    \/ \E h \in Handler : \/ \E a \in Agent : ApprovePendingAgent(h, a)
                          \/ \E r \in Op : OtherRequest(h, r)
                          \/ HandlerStep(h)
    \/ Crash \/ Restart

\* Requests are answered, as ControlPlane shows; an attempt of an agent ends in an answer
\* or an error.
Fairness == /\ \A h \in Handler : WF_vars(HandlerStep(h))
            /\ \A a \in Agent : WF_vars(AgentStep(a))

Spec == Init /\ [][Next]_vars /\ Fairness

-----------------------------------------------------------------------------
(* Properties                                                              *)

TypeOK ==
    /\ conf \in Config
    /\ req \in [Handler -> Op \cup {NoOp}]
    /\ done \subseteq {h \in Handler : req[h] # NoOp}
    /\ alive \in BOOLEAN
    /\ pending \in [Agent -> Val \cup {Absent}]
    /\ approving \in [Handler -> Agent \cup {NoAgent}]
    /\ due \subseteq {h \in Handler : req[h] = NoOp /\ approving[h] # NoAgent}
    /\ agent \in [Agent -> [state : {"off", "trying", "accepted", "gaveup"},
                            addr : Val \cup {Absent}, attempt : 0 .. MaxAttempts]]
    /\ launches \in 0 .. MaxLaunches
    /\ excused \subseteq Agent

\* The address an agent has sent, been told is accepted and will not send again is the
\* pending or the configured one: refused, failed and repeated approvals, lost answers and
\* duplicates lose it nowhere.  Excused are agents that another request has deleted or
\* changed, those registered before a restart of the server (pending agents are in memory
\* only), and those that registered again while being approved, whose newer registration
\* the DeletePendingAgent of the approval takes away.
AcceptedIsKept ==
    \A a \in Agent \ excused :
      agent[a].state = "accepted" => agent[a].addr \in {pending[a], conf[a]}

\* Every request is answered, an approval with its DeletePendingAgent too, and every agent
\* process comes to the end of its attempts (approvePendingAgent, registerWithServer).
RequestsEnd ==
    /\ \A h \in Handler : ~Idle(h) ~> Idle(h)
    /\ \A a \in Agent : agent[a].state = "trying" ~> agent[a].state # "trying"

-----------------------------------------------------------------------------
\* What makes AcceptedIsKept inductive: while an approval is under way the agent has not
\* registered anew, unless it is excused, so what is captured, then configured, is what it
\* sent last.
ApprovalInv ==
    /\ ~alive => /\ \A h \in Handler : Idle(h)
                 /\ \A a \in Agent \ excused : agent[a].state # "accepted"
    /\ \A a \in Agent : agent[a].state = "accepted" => pending[a] \in {agent[a].addr, Absent}
    /\ \A h \in Handler, a \in Agent : approving[h] = a =>
         /\ h \in due \/ \E v \in Val : req[h] = Creation(a, v)
         /\ a \notin excused /\ agent[a].state = "accepted" =>
              IF h \in done \cup due THEN conf[a] = agent[a].addr
                                     ELSE req[h] = Creation(a, agent[a].addr)
=============================================================================
