--------------------------- MODULE ConfigRegister ---------------------------
(***************************************************************************)
(* What the API promises about config.yaml, without files, locks and       *)
(* reloads: a register that accepted requests change one at a time.  A     *)
(* request takes effect at most once, at one moment between its arrival    *)
(* and its answer, and only if the mutator and Validate accept it in the   *)
(* configuration of that moment; a request that is refused, or fails, has  *)
(* changed nothing.  A request that took effect may still be answered with *)
(* an error (a failed reload), or not at all (a crash).                    *)
(***************************************************************************)
EXTENDS Configuration

CONSTANTS
    Handler,    \* concurrent API requests
    NoOp

VARIABLES
    conf,       \* the configuration
    req,        \* the request each handler works on
    done,       \* the handlers whose request has taken effect
    alive       \* the server is running

registerVars == <<conf, req, done, alive>>

Accepts(c, r) == MutatorAccepts(c, r) /\ Validate(Mutate(c, r))

RegisterInit ==
    /\ conf \in {c \in Config : Validate(c)}
    /\ req = [h \in Handler |-> NoOp]
    /\ done = {}
    /\ alive = FALSE

Request(h, r) ==
    /\ alive /\ req[h] = NoOp
    /\ req' = [req EXCEPT ![h] = r]
    /\ UNCHANGED <<conf, done, alive>>

Commit(h) ==
    /\ req[h] # NoOp /\ h \notin done
    /\ Accepts(conf, req[h])
    /\ conf' = Mutate(conf, req[h])
    /\ done' = done \cup {h}
    /\ UNCHANGED <<req, alive>>

\* The answer to a request that had no effect, and to one that had.
Refuse(h) ==
    /\ req[h] # NoOp /\ h \notin done
    /\ req' = [req EXCEPT ![h] = NoOp]
    /\ UNCHANGED <<conf, done, alive>>

Answer(h) ==
    /\ h \in done
    /\ req' = [req EXCEPT ![h] = NoOp]
    /\ done' = done \ {h}
    /\ UNCHANGED <<conf, alive>>

Die ==
    /\ alive
    /\ req' = [h \in Handler |-> NoOp]
    /\ done' = {}
    /\ alive' = FALSE
    /\ UNCHANGED conf

Start == ~alive /\ alive' = TRUE /\ UNCHANGED <<conf, req, done>>

\* The operator changes the file of a stopped server.
Repair ==
    /\ ~alive
    /\ \E r \in Op : Accepts(conf, r) /\ conf' = Mutate(conf, r)
    /\ UNCHANGED <<req, done, alive>>

RegisterNext ==
    \/ \E h \in Handler : \/ Commit(h) \/ Refuse(h) \/ Answer(h)
                          \/ req'[h] # NoOp /\ \E r \in Op : Request(h, r)
    \/ Die \/ Start \/ Repair

RegisterSpec == RegisterInit /\ [][RegisterNext]_registerVars
=============================================================================
