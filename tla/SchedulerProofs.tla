-------------------------- MODULE SchedulerProofs --------------------------
(* Theorems about Scheduler for any jobs, retry budget and number of starts. *)
EXTENDS Scheduler, TLAPS

\* The inductive invariant behind all the theorems.
SchedulerInv == TypeOK /\ LoopsInv /\ OneLoopPerJob /\ RunningInv /\ RunsDoNotOverlap

\* A job's goroutines are pairs; the fields name the job and the start.
LEMMA LoopFacts ==
    /\ \A l \in Loop : l[1] \in Job /\ l[2] \in 1 .. MaxStarts /\ l = <<l[1], l[2]>>
    /\ \A j \in Job, n \in 1 .. MaxStarts : <<j, n>> \in Loop
BY DEF Loop

\* StartJobs begins goroutines outside any run and leaves the others alone
\* (startJobLocked).
LEMMA StartJobsFacts ==
    ASSUME TypeOK, NEW J \in SUBSET Job, NEW n \in 1 .. MaxStarts, StartJobs(J, n)
    PROVE  /\ pc' \in [Loop -> Position]
           /\ \A l \in Loop : IF l[1] \in J /\ l[2] = n THEN pc'[l] = "select"
                                                        ELSE pc'[l] = pc[l]
<1>1. \A l \in Loop : l \in J \X {n} <=> l[1] \in J /\ l[2] = n
  BY DEF Loop
<1>2. \A l \in Loop : pc'[l] = IF l[1] \in J /\ l[2] = n THEN "select" ELSE pc[l]
  BY <1>1 DEF StartJobs
<1>3. pc' \in [Loop -> Position]
  BY DEF StartJobs, TypeOK, Position
<1> QED
  BY <1>2, <1>3

\* The first state.
LEMMA SchedulerInit == Init => SchedulerInv
<1> SUFFICES ASSUME Init PROVE SchedulerInv
  OBVIOUS
<1>1. \A l \in Loop : pc[l] = "none"
  BY DEF Init
<1>2. TypeOK
  <2>1. running \in [Job -> BOOLEAN] /\ lastError \in [Job -> BOOLEAN] /\ started \in BOOLEAN
    BY Zenon DEF Init
  <2>2. 0 \in 0 .. MaxStarts /\ 0 \in 0 .. MaxRetryCount
    BY SchedulerAssumption
  <2>3. attempt \in [Loop -> 0 .. MaxRetryCount] /\ starts \in 0 .. MaxStarts
    BY <2>2 DEF Init
  <2> QED
    BY <2>1, <2>3 DEF Init, TypeOK, Position
<1>3. LoopsInv
  BY <1>1 DEF Init, LoopsInv
<1>4. OneLoopPerJob
  BY <1>1 DEF Init, OneLoopPerJob
<1>5. RunningInv
  BY <1>1 DEF Init, RunningInv, InRun
<1>6. RunsDoNotOverlap
  BY <1>1 DEF RunsDoNotOverlap, InRun
<1> QED
  BY <1>2, <1>3, <1>4, <1>5, <1>6 DEF SchedulerInv

\* When no goroutine enters or leaves a run, what is said about runs stays true.
LEMMA RunsFrame ==
    ASSUME RunningInv, RunsDoNotOverlap, UNCHANGED running,
           \A l \in Loop : InRun(l)' <=> InRun(l)
    PROVE  RunningInv' /\ RunsDoNotOverlap'
BY DEF RunningInv, RunsDoNotOverlap


\* The methods of the scheduler: contexts and goroutines come and go, runs do not.
LEMMA MethodStep ==
    ASSUME SchedulerInv, (\E j \in Job : Every(j)) \/ Start \/ Stop \/ ParentCancelled
    PROVE  SchedulerInv'
<1> USE LoopFacts, SchedulerAssumption
<1>1. ASSUME NEW j \in Job, Every(j), started PROVE SchedulerInv'
  <2>1. starts \in 1 .. MaxStarts
    BY <1>1 DEF SchedulerInv, TypeOK, LoopsInv
  <2>2. /\ pc' \in [Loop -> Position]
        /\ \A l \in Loop : IF l[1] \in {j} /\ l[2] = starts THEN pc'[l] = "select"
                                                            ELSE pc'[l] = pc[l]
    BY <1>1, <2>1, StartJobsFacts DEF Every, SchedulerInv
  <2>3. TypeOK'
    BY <1>1, <2>2 DEF Every, TypeOK, SchedulerInv
  <2>4. LoopsInv'
    BY <1>1, <2>1, <2>2 DEF Every, LoopsInv, SchedulerInv, TypeOK
  <2>5. OneLoopPerJob'
    BY <1>1, <2>1, <2>2 DEF Every, OneLoopPerJob, LoopsInv, SchedulerInv, TypeOK, Cancelled
  <2>6. \A l \in Loop : InRun(l)' <=> InRun(l)
    BY <1>1, <2>1, <2>2 DEF InRun, Every, SchedulerInv, LoopsInv
  <2>7. RunningInv' /\ RunsDoNotOverlap'
    BY <1>1, <2>6, RunsFrame DEF Every, SchedulerInv
  <2> QED
    BY <2>3, <2>4, <2>5, <2>7 DEF SchedulerInv
<1>2. ASSUME NEW j \in Job, Every(j), ~started PROVE SchedulerInv'
  <2>1. TypeOK' /\ LoopsInv' /\ OneLoopPerJob'
    BY <1>2 DEF Every, TypeOK, LoopsInv, OneLoopPerJob, SchedulerInv, Cancelled
  <2>2. RunningInv' /\ RunsDoNotOverlap'
    BY <1>2, RunsFrame DEF Every, SchedulerInv, InRun
  <2> QED
    BY <2>1, <2>2 DEF SchedulerInv
<1>3. ASSUME Start PROVE SchedulerInv'
  <2>1. starts + 1 \in 1 .. MaxStarts /\ jobs \in SUBSET Job
    BY <1>3 DEF Start, SchedulerInv, TypeOK
  <2>2. /\ pc' \in [Loop -> Position]
        /\ \A l \in Loop : IF l[1] \in jobs /\ l[2] = starts + 1 THEN pc'[l] = "select"
                                                                 ELSE pc'[l] = pc[l]
    <3>1. TypeOK /\ StartJobs(jobs, starts + 1)
      BY <1>3 DEF Start, SchedulerInv
    <3> QED
      BY <2>1, <3>1, StartJobsFacts
  <2>3. TypeOK'
    BY <1>3, <2>1, <2>2 DEF Start, TypeOK, SchedulerInv
  <2>4. LoopsInv'
    BY <1>3, <2>1, <2>2 DEF Start, LoopsInv, SchedulerInv, TypeOK
  <2>5. OneLoopPerJob'
    BY <1>3, <2>1, <2>2 DEF Start, OneLoopPerJob, LoopsInv, SchedulerInv, TypeOK, Cancelled
  <2>6. \A l \in Loop : InRun(l)' <=> InRun(l)
    BY <1>3, <2>1, <2>2 DEF InRun, Start, SchedulerInv, LoopsInv, TypeOK
  <2>7. RunningInv' /\ RunsDoNotOverlap'
    BY <1>3, <2>6, RunsFrame DEF Start, SchedulerInv
  <2> QED
    BY <2>3, <2>4, <2>5, <2>7 DEF SchedulerInv
<1>4. ASSUME Stop \/ ParentCancelled PROVE SchedulerInv'
  <2>1. TypeOK' /\ LoopsInv' /\ OneLoopPerJob'
    BY <1>4 DEF Stop, ParentCancelled, TypeOK, LoopsInv, OneLoopPerJob, SchedulerInv, Cancelled
  <2>2. RunningInv' /\ RunsDoNotOverlap'
    BY <1>4, RunsFrame DEF Stop, ParentCancelled, SchedulerInv, InRun
  <2> QED
    BY <2>1, <2>2 DEF SchedulerInv
<1> QED
  BY <1>1, <1>2, <1>3, <1>4

\* A goroutine that moves on by itself leaves the starts alone and never has no place.
LEMMA LoopFrame ==
    ASSUME SchedulerInv, NEW l \in Loop, NEW q,
           q \in Position \ {"none"},
           pc[l] # "none", pc' = [pc EXCEPT ![l] = q],
           q = "backoff" => attempt[l] < MaxRetryCount /\ UNCHANGED attempt,
           attempt' \in [Loop -> 0 .. MaxRetryCount],
           \A m \in Loop : m # l => attempt'[m] = attempt[m],
           UNCHANGED <<jobs, started, starts, live>>,
           running' \in [Job -> BOOLEAN], lastError' \in [Job -> BOOLEAN]
    PROVE  TypeOK' /\ LoopsInv' /\ OneLoopPerJob'
<1> USE LoopFacts, SchedulerAssumption
<1>1. TypeOK'
  BY DEF SchedulerInv, TypeOK, Position
<1>2. LoopsInv'
  BY DEF SchedulerInv, TypeOK, LoopsInv
<1>3. OneLoopPerJob'
  BY DEF SchedulerInv, TypeOK, OneLoopPerJob, Cancelled
<1> QED
  BY <1>1, <1>2, <1>3

\* The steps of a goroutine: only Begin enters a run and only Deferred leaves one.
LEMMA LoopStep ==
    ASSUME SchedulerInv, NEW l \in Loop, Tick(l) \/ Exit(l) \/ Run(l) \/ Hang(l)
    PROVE  SchedulerInv'
<1> USE LoopFacts, SchedulerAssumption
<1>1. ASSUME Tick(l) \/ Exit(l) \/ Skip(l) PROVE SchedulerInv'
  <2>1. TypeOK' /\ LoopsInv' /\ OneLoopPerJob'
    BY <1>1, LoopFrame DEF Tick, Exit, Skip, SchedulerInv, TypeOK, Position
  <2>2. \A m \in Loop : InRun(m)' <=> InRun(m)
    BY <1>1 DEF Tick, Exit, Skip, InRun, SchedulerInv, TypeOK
  <2>3. RunningInv' /\ RunsDoNotOverlap'
    BY <1>1, <2>2, RunsFrame DEF Tick, Exit, Skip, SchedulerInv
  <2> QED
    BY <2>1, <2>3 DEF SchedulerInv
<1>2. ASSUME Succeeds(l) \/ Fails(l) \/ GiveUp(l) \/ Hang(l) \/ Interrupted(l)
      PROVE  SchedulerInv'
  <2>1. TypeOK' /\ LoopsInv' /\ OneLoopPerJob'
    <3>1. CASE Succeeds(l)
      BY <3>1, LoopFrame DEF Succeeds, SchedulerInv, TypeOK, Position
    <3>2. CASE Fails(l)
      BY <3>2, LoopFrame DEF Fails, SchedulerInv, TypeOK, Position
    <3>3. CASE GiveUp(l)
      BY <3>3, LoopFrame DEF GiveUp, SchedulerInv, TypeOK, Position
    <3>4. CASE Hang(l)
      <4>1. PICK q \in {"hung", "stuck"} : pc' = [pc EXCEPT ![l] = q]
        BY <3>4 DEF Hang
      <4> QED
        BY <3>4, <4>1, LoopFrame DEF Hang, SchedulerInv, TypeOK, Position
    <3>5. CASE Interrupted(l)
      <4>1. lastError' \in [Job -> BOOLEAN]
        BY <3>5 DEF Interrupted, SchedulerInv, TypeOK
      <4> QED
        BY <3>5, <4>1, LoopFrame DEF Interrupted, SchedulerInv, TypeOK, Position
    <3> QED
      BY <1>2, <3>1, <3>2, <3>3, <3>4, <3>5
  <2>2. \A m \in Loop : InRun(m)' <=> InRun(m)
    BY <1>2 DEF Succeeds, Fails, GiveUp, Hang, Interrupted, InRun, SchedulerInv, TypeOK
  <2>3. RunningInv' /\ RunsDoNotOverlap'
    BY <1>2, <2>2, RunsFrame DEF Succeeds, Fails, GiveUp, Hang, Interrupted, SchedulerInv
  <2> QED
    BY <2>1, <2>3 DEF SchedulerInv
<1>3. ASSUME Retry(l) PROVE SchedulerInv'
  <2>1. /\ attempt' \in [Loop -> 0 .. MaxRetryCount]
        /\ \A m \in Loop : m # l => attempt'[m] = attempt[m]
    BY <1>3 DEF Retry, SchedulerInv, TypeOK, LoopsInv
  <2>2. TypeOK' /\ LoopsInv' /\ OneLoopPerJob'
    BY <1>3, <2>1, LoopFrame DEF Retry, SchedulerInv, TypeOK, Position
  <2>3. \A m \in Loop : InRun(m)' <=> InRun(m)
    BY <1>3 DEF Retry, InRun, SchedulerInv, TypeOK
  <2>4. RunningInv' /\ RunsDoNotOverlap'
    BY <1>3, <2>3, RunsFrame DEF Retry, SchedulerInv
  <2> QED
    BY <2>2, <2>4 DEF SchedulerInv
<1>4. ASSUME Begin(l) PROVE SchedulerInv'
  <2>1. TypeOK' /\ LoopsInv' /\ OneLoopPerJob'
    BY <1>4, LoopFrame DEF Begin, SchedulerInv, TypeOK, Position
  <2>2. \A m \in Loop : m[1] = l[1] => ~InRun(m)
    BY <1>4 DEF Begin, SchedulerInv, RunningInv
  <2>3. InRun(l)' /\ \A m \in Loop : m # l => (InRun(m)' <=> InRun(m))
    BY <1>4 DEF Begin, InRun, SchedulerInv, TypeOK
  <2>4. running'[l[1]] /\ \A j \in Job : j # l[1] => running'[j] = running[j]
    BY <1>4 DEF Begin, SchedulerInv, TypeOK
  <2>5. RunsDoNotOverlap'
    BY <2>2, <2>3 DEF SchedulerInv, RunsDoNotOverlap
  <2>6. RunningInv'
    BY <2>3, <2>4 DEF SchedulerInv, RunningInv
  <2> QED
    BY <2>1, <2>5, <2>6 DEF SchedulerInv
<1>5. ASSUME Deferred(l) PROVE SchedulerInv'
  <2>1. /\ attempt' \in [Loop -> 0 .. MaxRetryCount]
        /\ \A m \in Loop : m # l => attempt'[m] = attempt[m]
        /\ running' \in [Job -> BOOLEAN]
    BY <1>5 DEF Deferred, SchedulerInv, TypeOK
  <2>2. TypeOK' /\ LoopsInv' /\ OneLoopPerJob'
    BY <1>5, <2>1, LoopFrame DEF Deferred, SchedulerInv, TypeOK, Position
  <2>3. InRun(l)
    BY <1>5 DEF Deferred, InRun
  <2>4. ~InRun(l)' /\ \A m \in Loop : m # l => (InRun(m)' <=> InRun(m))
    BY <1>5 DEF Deferred, InRun, SchedulerInv, TypeOK
  <2>5. ~running'[l[1]] /\ \A j \in Job : j # l[1] => running'[j] = running[j]
    BY <1>5 DEF Deferred, SchedulerInv, TypeOK
  <2>6. \A m \in Loop : m[1] = l[1] => ~InRun(m)'
    BY <2>3, <2>4 DEF SchedulerInv, RunsDoNotOverlap
  <2>7. RunsDoNotOverlap'
    BY <2>4 DEF SchedulerInv, RunsDoNotOverlap
  <2>8. RunningInv'
    BY <2>4, <2>5, <2>6 DEF SchedulerInv, RunningInv
  <2> QED
    BY <2>2, <2>7, <2>8 DEF SchedulerInv
<1> QED
  BY <1>1, <1>2, <1>3, <1>4, <1>5 DEF Run

\* The invariant holds in every reachable state.
THEOREM SchedulerInvariant == Spec => []SchedulerInv
<1>1. Init => SchedulerInv
  BY SchedulerInit
<1>2. SchedulerInv /\ [Next]_vars => SchedulerInv'
  <2> SUFFICES ASSUME SchedulerInv, [Next]_vars PROVE SchedulerInv'
    OBVIOUS
  <2>1. CASE Next
    BY <2>1, MethodStep, LoopStep DEF Next
  <2>2. CASE UNCHANGED vars
    BY <2>2 DEF vars, SchedulerInv, TypeOK, LoopsInv, OneLoopPerJob, RunningInv,
                RunsDoNotOverlap, InRun, Cancelled
  <2> QED
    BY <2>1, <2>2
<1> QED
  BY <1>1, <1>2, PTL DEF Spec

\* No job ever runs twice at a time, for any number of restarts (scheduledJob.run).
THEOREM NoOverlap == Spec => []RunsDoNotOverlap
<1>1. SchedulerInv => RunsDoNotOverlap
  BY DEF SchedulerInv
<1> QED
  BY <1>1, SchedulerInvariant, PTL

\* Every registered job has its goroutine while the scheduler is started, and only the last
\* start's goroutines have a context (Every, Start, Stop).
THEOREM LoopsFollowStarts == Spec => []OneLoopPerJob
<1>1. SchedulerInv => OneLoopPerJob
  BY DEF SchedulerInv
<1> QED
  BY <1>1, SchedulerInvariant, PTL

\* Types, and with them the retry budget of a run (run's loop over maxRetryCount).
THEOREM SchedulerTypes == Spec => []TypeOK
<1>1. SchedulerInv => TypeOK
  BY DEF SchedulerInv
<1> QED
  BY <1>1, SchedulerInvariant, PTL
=============================================================================
