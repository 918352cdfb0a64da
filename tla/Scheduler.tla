----------------------------- MODULE Scheduler -----------------------------
(***************************************************************************)
(* The job scheduler: every registered job has a goroutine that runs it on *)
(* each tick, one run at a time, and retries a run that failed.            *)
(*                                                                         *)
(* Stop cancels the goroutines without waiting for them, so after the next *)
(* Start the ones of an earlier start can still be inside a run of the     *)
(* same job.  A loop is the goroutine of a job that one start has begun.   *)
(* The times in scheduledJob are left out.                                 *)
(***************************************************************************)
EXTENDS Naturals

CONSTANTS
    Job,
    MaxRetryCount,  \* scheduledJob.maxRetryCount
    MaxStarts       \* bound: calls of Start that start something

ASSUME SchedulerAssumption == MaxRetryCount \in Nat /\ MaxStarts \in Nat

Loop == Job \X (1 .. MaxStarts)

VARIABLES
    jobs,       \* the registered jobs
    started,
    starts,     \* the number of starts; names the context of the last one
    live,       \* the starts whose context is not cancelled
    pc,         \* per loop
    attempt,    \* per loop: retries made in its run
    running,    \* scheduledJob.running
    lastError   \* whether scheduledJob.lastError is set

vars == <<jobs, started, starts, live, pc, attempt, running, lastError>>

Cancelled(l) == l[2] \notin live

Init ==
    /\ jobs = {}
    /\ started = FALSE
    /\ starts = 0
    /\ live = {}
    /\ pc = [l \in Loop |-> "none"]
    /\ attempt = [l \in Loop |-> 0]
    /\ running = [j \in Job |-> FALSE]
    /\ lastError = [j \in Job |-> FALSE]

-----------------------------------------------------------------------------
(* The scheduler's methods, under Scheduler.mu.                             *)

\* startJobLocked for the jobs in J, in the context of start n.
StartJobs(J, n) == pc' = [l \in Loop |-> IF l \in J \X {n} THEN "select" ELSE pc[l]]

\* A name that is taken is refused and changes nothing.
Every(j) ==
    /\ j \notin jobs
    /\ jobs' = jobs \cup {j}
    /\ IF started THEN StartJobs({j}, starts) ELSE UNCHANGED pc
    /\ UNCHANGED <<started, starts, live, attempt, running, lastError>>

Start ==
    /\ ~started
    /\ starts < MaxStarts
    /\ started' = TRUE
    /\ starts' = starts + 1
    /\ live' = {starts + 1}
    /\ StartJobs(jobs, starts + 1)
    /\ UNCHANGED <<jobs, attempt, running, lastError>>

\* Mutant: Stop forgets the jobs' contexts.
StopKeepsContexts ==
    /\ started
    /\ started' = FALSE
    /\ UNCHANGED <<jobs, starts, live, pc, attempt, running, lastError>>

Stop ==
    /\ started
    /\ started' = FALSE
    /\ live' = {}
    /\ UNCHANGED <<jobs, starts, pc, attempt, running, lastError>>

\* The context that Start was given is cancelled; started stays set until Stop.
ParentCancelled ==
    /\ started
    /\ live # {}
    /\ live' = {}
    /\ UNCHANGED <<jobs, started, starts, pc, attempt, running, lastError>>

-----------------------------------------------------------------------------
(* The goroutine of a job and scheduledJob.run.                             *)

\* The ticker's case is taken, even when the context is done as well.
Tick(l) ==
    /\ pc[l] = "select"
    /\ pc' = [pc EXCEPT ![l] = "run"]
    /\ UNCHANGED <<jobs, started, starts, live, attempt, running, lastError>>

Exit(l) ==
    /\ pc[l] = "select"
    /\ Cancelled(l)
    /\ pc' = [pc EXCEPT ![l] = "gone"]
    /\ UNCHANGED <<jobs, started, starts, live, attempt, running, lastError>>

Skip(l) ==
    /\ pc[l] = "run"
    /\ running[l[1]]
    /\ pc' = [pc EXCEPT ![l] = "select"]
    /\ UNCHANGED <<jobs, started, starts, live, attempt, running, lastError>>

\* Mutant: running is set without being looked at.
BeginAlways(l) ==
    /\ pc[l] = "run"
    /\ running' = [running EXCEPT ![l[1]] = TRUE]
    /\ pc' = [pc EXCEPT ![l] = "fn"]
    /\ UNCHANGED <<jobs, started, starts, live, attempt, lastError>>

\* Test and set under scheduledJob.mu.
Begin(l) ==
    /\ pc[l] = "run"
    /\ ~running[l[1]]
    /\ running' = [running EXCEPT ![l[1]] = TRUE]
    /\ pc' = [pc EXCEPT ![l] = "fn"]
    /\ UNCHANGED <<jobs, started, starts, live, attempt, lastError>>

\* fn returns nil or context.Canceled.
Succeeds(l) ==
    /\ pc[l] = "fn"
    /\ lastError' = [lastError EXCEPT ![l[1]] = FALSE]
    /\ pc' = [pc EXCEPT ![l] = "deferred"]
    /\ UNCHANGED <<jobs, started, starts, live, attempt, running>>

\* Mutant: the retries are not counted.
FailsForever(l) ==
    /\ pc[l] = "fn"
    /\ lastError' = [lastError EXCEPT ![l[1]] = TRUE]
    /\ pc' = [pc EXCEPT ![l] = "backoff"]
    /\ UNCHANGED <<jobs, started, starts, live, attempt, running>>

Fails(l) ==
    /\ pc[l] = "fn"
    /\ lastError' = [lastError EXCEPT ![l[1]] = TRUE]
    /\ pc' = [pc EXCEPT ![l] = IF attempt[l] < MaxRetryCount THEN "backoff" ELSE "deferred"]
    /\ UNCHANGED <<jobs, started, starts, live, attempt, running>>

\* fn does not return. A DDNS sync that waits for a provider does until the context ends
\* ("hung": http.DefaultClient has no timeout, the request has the context); the reload
\* command of a local deployment and lego's Obtain take no notice of the context ("stuck").
Hang(l) ==
    /\ pc[l] = "fn"
    /\ \E q \in {"hung", "stuck"} : pc' = [pc EXCEPT ![l] = q]
    /\ UNCHANGED <<jobs, started, starts, live, attempt, running, lastError>>

\* The context ends under a hung call: fn returns, with context.Canceled or another error,
\* after which the wait for a retry ends at once.
Interrupted(l) ==
    /\ pc[l] = "hung"
    /\ Cancelled(l)
    /\ \E err \in BOOLEAN : lastError' = [lastError EXCEPT ![l[1]] = err]
    /\ pc' = [pc EXCEPT ![l] = "deferred"]
    /\ UNCHANGED <<jobs, started, starts, live, attempt, running>>

\* Mutant: a retry does not count.
RetryUncounted(l) ==
    /\ pc[l] = "backoff"
    /\ pc' = [pc EXCEPT ![l] = "fn"]
    /\ UNCHANGED <<jobs, started, starts, live, attempt, running, lastError>>

\* time.After fires.
Retry(l) ==
    /\ pc[l] = "backoff"
    /\ attempt' = [attempt EXCEPT ![l] = @ + 1]
    /\ pc' = [pc EXCEPT ![l] = "fn"]
    /\ UNCHANGED <<jobs, started, starts, live, running, lastError>>

\* The wait ends with the context; the error stays.
GiveUp(l) ==
    /\ pc[l] = "backoff"
    /\ Cancelled(l)
    /\ pc' = [pc EXCEPT ![l] = "deferred"]
    /\ UNCHANGED <<jobs, started, starts, live, attempt, running, lastError>>

\* Mutant: the deferred reset is missing.
DeferredKeepsRunning(l) ==
    /\ pc[l] = "deferred"
    /\ attempt' = [attempt EXCEPT ![l] = 0]
    /\ pc' = [pc EXCEPT ![l] = "select"]
    /\ UNCHANGED <<jobs, started, starts, live, running, lastError>>

\* The deferred function of run.
Deferred(l) ==
    /\ pc[l] = "deferred"
    /\ running' = [running EXCEPT ![l[1]] = FALSE]
    /\ attempt' = [attempt EXCEPT ![l] = 0]
    /\ pc' = [pc EXCEPT ![l] = "select"]
    /\ UNCHANGED <<jobs, started, starts, live, lastError>>

-----------------------------------------------------------------------------
Run(l) ==
    \/ Skip(l) \/ Begin(l) \/ Succeeds(l) \/ Fails(l)
    \/ Retry(l) \/ GiveUp(l) \/ Interrupted(l) \/ Deferred(l)

Next ==
    \/ \E j \in Job : Every(j)
    \/ Start \/ Stop \/ ParentCancelled
    \/ \E l \in Loop : Tick(l) \/ Exit(l) \/ Run(l) \/ Hang(l)

Spec == Init /\ [][Next]_vars

\* Tickers tick, job functions return unless they hang, and a select whose context is done
\* does not choose the ticker forever.
Fairness ==
    \A l \in Loop : /\ WF_vars(Tick(l) \/ Exit(l))
                    /\ WF_vars(Run(l))
                    /\ SF_vars(Exit(l))

FairSpec == Spec /\ Fairness

-----------------------------------------------------------------------------
(* Properties                                                               *)

InRun(l) == pc[l] \in {"fn", "hung", "stuck", "backoff", "deferred"}

Position ==
    {"none", "select", "run", "fn", "hung", "stuck", "backoff", "deferred", "gone"}

TypeOK ==
    /\ jobs \subseteq Job
    /\ started \in BOOLEAN
    /\ starts \in 0 .. MaxStarts
    /\ live \subseteq 1 .. MaxStarts
    /\ pc \in [Loop -> Position]
    /\ attempt \in [Loop -> 0 .. MaxRetryCount]
    /\ running \in [Job -> BOOLEAN]
    /\ lastError \in [Job -> BOOLEAN]

\* A job never runs twice at a time, not even when a run of an earlier start outlives Stop
\* (scheduledJob.run; TestSchedulerSkipsOverlappingRuns).
RunsDoNotOverlap ==
    \A l, m \in Loop : l # m /\ l[1] = m[1] => ~(InRun(l) /\ InRun(m))

\* While the scheduler is started every registered job has one goroutine of the last start,
\* and no goroutine of any other start has a context left (Every, Start and Stop in any
\* order).
OneLoopPerJob ==
    /\ \A l \in Loop : pc[l] # "none" /\ ~Cancelled(l) => started /\ l[2] = starts
    /\ started => \A j \in jobs : pc[<<j, starts>>] # "none"

\* A goroutine whose context is cancelled ends, whatever it was doing, retrying or waiting
\* for a provider included, unless its job is stuck in a call that takes no notice of the
\* context (startJobLocked, run).
CancelledLoopsEnd ==
    \A l \in Loop : pc[l] # "none" /\ Cancelled(l) ~> pc[l] \in {"gone", "stuck"}

\* A job whose goroutine stays alive is run again and again, after failures and however
\* long a run left over from an earlier start makes it skip ticks, unless one of its runs
\* never returns: then the job is not run any more.
JobsRunAgain ==
    \A l \in Loop :
      <>[](/\ pc[l] # "none" /\ ~Cancelled(l)
           /\ \A m \in Loop : m[1] = l[1] => pc[m] \notin {"hung", "stuck"})
        => []<>(pc[l] = "fn")

-----------------------------------------------------------------------------
(* What makes RunsDoNotOverlap inductive: running is set exactly while one  *)
(* of the job's goroutines is in a run.                                     *)

RunningInv ==
    \A j \in Job : running[j] <=> \E l \in Loop : l[1] = j /\ InRun(l)

\* Only the last start can have a context, and only while the scheduler is started; jobs to
\* be registered and starts to come have no goroutine yet; a retry that is waited for is
\* within the budget.
LoopsInv ==
    /\ live \subseteq {starts}
    /\ started => starts # 0
    /\ ~started => live = {}
    /\ \A l \in Loop : l[1] \notin jobs \/ l[2] > starts => pc[l] = "none"
    /\ \A l \in Loop : pc[l] = "backoff" => attempt[l] < MaxRetryCount
=============================================================================
