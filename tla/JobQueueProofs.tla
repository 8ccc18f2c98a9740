--------------------------- MODULE JobQueueProofs ---------------------------
(***************************************************************************)
(* Proofs about JobQueue, for any number of jobs and attempts.             *)
(***************************************************************************)
EXTENDS JobQueue, FiniteSetTheorems, TLAPS

\* The new queue is well-typed.
LEMMA InitTypeOK == Init => TypeOK
  BY DEF Init, TypeOK, Stats

\* Every action keeps the types.
LEMMA NextTypeOK == TypeOK /\ [Next]_vars => TypeOK'
<1> SUFFICES ASSUME TypeOK, [Next]_vars PROVE TypeOK'
  OBVIOUS
<1> USE JobQueueAssumption DEF TypeOK, Job, Phases, Stats, In
<1>1. ASSUME NEW j \in JobIds, NEW name \in Names, Enqueue(j, name)
      PROVE  TypeOK'
  <2>1. CASE name \in Registered
    BY <1>1, <2>1 DEF Enqueue
  <2>2. CASE name \notin Registered
    <3>1. job' = [job EXCEPT ![j] = [name |-> name, attempt |-> 0, phase |-> "failed"]]
          /\ stats' = [stats EXCEPT !.enqueued = @ + 1, !.failed = @ + 1]
          /\ UNCHANGED <<running, timers>>
      BY <1>1, <2>2 DEF Enqueue
    <3>2. stats' = [enqueued |-> stats.enqueued + 1, completed |-> stats.completed,
                    failed |-> stats.failed + 1, retries |-> stats.retries]
      BY <3>1
    <3>3. stats' \in Stats
      BY <3>2
    <3> QED
      BY <3>1, <3>3
  <2> QED
    BY <2>1, <2>2
<1>2. ASSUME NEW j \in JobIds, Complete(j)
      PROVE  TypeOK'
  BY <1>2 DEF Complete
<1>3. ASSUME NEW j \in JobIds, Retry(j)
      PROVE  TypeOK'
  BY <1>3 DEF Retry
<1>4. ASSUME NEW j \in JobIds, GiveUp(j)
      PROVE  TypeOK'
  BY <1>4 DEF GiveUp
<1>5. ASSUME NEW j \in JobIds, TimerFires(j)
      PROVE  TypeOK'
  BY <1>5 DEF TimerFires
<1>6. CASE UNCHANGED vars
  BY <1>6 DEF vars
<1> QED
  BY <1>1, <1>2, <1>3, <1>4, <1>5, <1>6 DEF Next

\* Every variable keeps its type.
THEOREM TypeCorrect == Spec => []TypeOK
  BY InitTypeOK, NextTypeOK, PTL DEF Spec

-----------------------------------------------------------------------------
(* The counters *)

\* The jobs of a phase can be counted.
LEMMA InIsFinite ==
    ASSUME NEW phase
    PROVE  IsFiniteSet(In(phase)) /\ Cardinality(In(phase)) \in Nat
<1>1. In(phase) \subseteq JobIds
  BY DEF In
<1> QED
  BY <1>1, JobQueueAssumption, FS_Subset, FS_CardinalityType

\* When one job moves, each phase's count changes by what that job does to it.
LEMMA OneJobMoves ==
    ASSUME NEW j \in JobIds, \A i \in JobIds \ {j} : job'[i] = job[i], NEW phase
    PROVE  /\ Cardinality(In(phase)) \in Nat
           /\ Cardinality(In(phase)') =
                  Cardinality(In(phase)) - (IF j \in In(phase) THEN 1 ELSE 0)
                                         + (IF j \in In(phase)' THEN 1 ELSE 0)
<1> DEFINE rest == In(phase) \ {j}
<1>1. IsFiniteSet(In(phase)) /\ Cardinality(In(phase)) \in Nat
  BY InIsFinite
<1>2. /\ IsFiniteSet(rest)
      /\ Cardinality(rest) = Cardinality(In(phase)) - (IF j \in In(phase) THEN 1 ELSE 0)
  BY <1>1, FS_RemoveElement
<1>3. CASE j \in In(phase)'
  <2>1. In(phase)' = rest \cup {j}
    BY <1>3 DEF In
  <2>2. Cardinality(rest \cup {j}) = Cardinality(rest) + 1
    BY <1>2, FS_AddElement
  <2> QED
    BY <1>1, <1>2, <1>3, <2>1, <2>2
<1>4. CASE j \notin In(phase)'
  <2>1. In(phase)' = rest
    BY <1>4 DEF In
  <2> QED
    BY <1>1, <1>2, <1>4, <2>1
<1> QED
  BY <1>3, <1>4

\* The new queue's counters count nothing.
LEMMA InitBalance == Init => StatsBalance
<1> SUFFICES ASSUME Init PROVE StatsBalance
  OBVIOUS
<1>1. \A phase : In(phase) = {}
  BY DEF Init, In
<1> QED
  BY <1>1, FS_EmptySet DEF Init, StatsBalance

\* A job that leaves one phase for another, with the counters keeping track.
LEMMA MoveKeepsBalance ==
    ASSUME TypeOK, TypeOK', StatsBalance,
           NEW j \in JobIds, NEW from \in Phases, NEW to \in Phases,
           from # to,
           j \in In(from), j \in In(to)',
           \A i \in JobIds \ {j} : job'[i] = job[i],
           running' = running - (IF from = "running" THEN 1 ELSE 0)
                              + (IF to = "running" THEN 1 ELSE 0),
           stats'.completed = stats.completed + (IF to = "completed" THEN 1 ELSE 0),
           stats'.failed = stats.failed + (IF to = "failed" THEN 1 ELSE 0),
           stats'.enqueued = stats.enqueued,
           from \notin {"completed", "failed"}
    PROVE  StatsBalance'
<1>1. \A phase \in Phases : (j \in In(phase) <=> phase = from)
                            /\ (j \in In(phase)' <=> phase = to)
  BY DEF In
<1>2. \A phase \in Phases :
          /\ Cardinality(In(phase)) \in Nat
          /\ Cardinality(In(phase)') =
                 Cardinality(In(phase)) - (IF phase = from THEN 1 ELSE 0)
                                        + (IF phase = to THEN 1 ELSE 0)
  BY <1>1, OneJobMoves
<1>3. \A phase \in Phases : Cardinality(In(phase))' = Cardinality(In(phase)')
  OBVIOUS
<1> DEFINE n(phase) == Cardinality(In(phase))
<1>4. /\ {n("running"), n("waiting"), n("completed"), n("failed")} \subseteq Nat
      /\ \A phase \in Phases :
            n(phase)' = n(phase) - (IF phase = from THEN 1 ELSE 0)
                                 + (IF phase = to THEN 1 ELSE 0)
  BY <1>2, <1>3 DEF Phases
<1>5. /\ running = n("running") /\ stats.completed = n("completed")
      /\ stats.failed = n("failed")
      /\ stats.enqueued = running + n("waiting") + stats.completed + stats.failed
  BY DEF StatsBalance
<1> HIDE DEF n
<1>6. /\ running' = n("running")' /\ stats'.completed = n("completed")'
      /\ stats'.failed = n("failed")'
      /\ stats'.enqueued = running' + n("waiting")' + stats'.completed + stats'.failed
  BY <1>4, <1>5 DEF Phases
<1> QED
  BY <1>6 DEF StatsBalance, n

\* A new job is counted once as enqueued and once in the phase it starts in.
LEMMA EnqueueKeepsBalance ==
    ASSUME TypeOK, TypeOK', StatsBalance,
           NEW j \in JobIds, NEW name \in Names, Enqueue(j, name)
    PROVE  StatsBalance'
<1>1. PICK to \in {"running", "failed"} :
          /\ job[j] = None
          /\ job'[j] # None /\ job'[j].phase = to
          /\ \A i \in JobIds \ {j} : job'[i] = job[i]
          /\ running' = running + (IF to = "running" THEN 1 ELSE 0)
          /\ stats'.completed = stats.completed
          /\ stats'.failed = stats.failed + (IF to = "failed" THEN 1 ELSE 0)
          /\ stats'.enqueued = stats.enqueued + 1
  <2>1. CASE name \in Registered
    <3>1. [name |-> name, attempt |-> 1, phase |-> "running"] \in Job
      BY DEF Job, Phases
    <3> QED
      BY <2>1, <3>1, JobQueueAssumption DEF Enqueue, TypeOK, Stats
  <2>2. CASE name \notin Registered
    <3>1. [name |-> name, attempt |-> 0, phase |-> "failed"] \in Job
      BY DEF Job, Phases
    <3>2. /\ job[j] = None
          /\ job' = [job EXCEPT ![j] = [name |-> name, attempt |-> 0, phase |-> "failed"]]
          /\ stats' = [stats EXCEPT !.enqueued = @ + 1, !.failed = @ + 1]
          /\ UNCHANGED running
      BY <2>2 DEF Enqueue
    <3>3. stats'.completed = stats.completed /\ stats'.failed = stats.failed + 1
          /\ stats'.enqueued = stats.enqueued + 1
      BY <3>2 DEF TypeOK, Stats
    <3>4. job'[j] # None /\ job'[j].phase = "failed"
          /\ \A i \in JobIds \ {j} : job'[i] = job[i]
      BY <3>1, <3>2, JobQueueAssumption DEF TypeOK
    <3> QED
      BY <3>2, <3>3, <3>4 DEF TypeOK
  <2> QED
    BY <2>1, <2>2
<1>2. \A phase \in Phases : j \notin In(phase) /\ (j \in In(phase)' <=> phase = to)
  BY <1>1 DEF In
<1> DEFINE n(phase) == Cardinality(In(phase))
<1>3. \A phase \in Phases :
          n(phase) \in Nat /\ n(phase)' = n(phase) + (IF phase = to THEN 1 ELSE 0)
  BY <1>1, <1>2, OneJobMoves
<1>4. /\ running = n("running") /\ stats.completed = n("completed")
      /\ stats.failed = n("failed")
      /\ stats.enqueued = running + n("waiting") + stats.completed + stats.failed
  BY DEF StatsBalance
<1> HIDE DEF n
<1>5. /\ running' = n("running")' /\ stats'.completed = n("completed")'
      /\ stats'.failed = n("failed")'
      /\ stats'.enqueued = running' + n("waiting")' + stats'.completed + stats'.failed
  BY <1>1, <1>3, <1>4 DEF Phases
<1> QED
  BY <1>5 DEF StatsBalance, n

\* Every action keeps the counters in balance.
LEMMA NextBalance == TypeOK /\ StatsBalance /\ [Next]_vars => StatsBalance'
<1> SUFFICES ASSUME TypeOK, StatsBalance, [Next]_vars PROVE StatsBalance'
  OBVIOUS
<1> USE JobQueueAssumption
<1>0. TypeOK'
  BY NextTypeOK
<1>1. ASSUME NEW j \in JobIds, NEW name \in Names, Enqueue(j, name)
      PROVE  StatsBalance'
  BY <1>0, <1>1, EnqueueKeepsBalance
<1>2. ASSUME NEW j \in JobIds, Complete(j)
      PROVE  StatsBalance'
  <2>1. /\ j \in In("running") /\ j \in In("completed")'
        /\ \A i \in JobIds \ {j} : job'[i] = job[i]
        /\ running' = running - 1
        /\ stats'.completed = stats.completed + 1
        /\ stats'.failed = stats.failed /\ stats'.enqueued = stats.enqueued
    <3>1. j \in In("running") /\ job[j] \in Job
      BY <1>2 DEF Complete, In, TypeOK
    <3>2. job'[j].phase = "completed" /\ job'[j] \in Job
          /\ \A i \in JobIds \ {j} : job'[i] = job[i]
      BY <1>2, <3>1 DEF Complete, TypeOK, Job, Phases
    <3>3. j \in In("completed")'
      BY <3>2 DEF In
    <3> QED
      BY <1>2, <3>1, <3>2, <3>3 DEF Complete, TypeOK, Stats
  <2> QED
    BY <1>0, <2>1, MoveKeepsBalance DEF Phases, TypeOK, Stats
<1>3. ASSUME NEW j \in JobIds, Retry(j)
      PROVE  StatsBalance'
  <2>1. /\ j \in In("running") /\ j \in In("waiting")'
        /\ \A i \in JobIds \ {j} : job'[i] = job[i]
        /\ running' = running - 1
        /\ stats'.completed = stats.completed
        /\ stats'.failed = stats.failed /\ stats'.enqueued = stats.enqueued
    <3>1. j \in In("running") /\ job[j] \in Job
      BY <1>3 DEF Retry, In, TypeOK
    <3>2. job'[j].phase = "waiting" /\ job'[j] \in Job
          /\ \A i \in JobIds \ {j} : job'[i] = job[i]
      BY <1>3, <3>1 DEF Retry, TypeOK, Job, Phases
    <3>3. j \in In("waiting")'
      BY <3>2 DEF In
    <3> QED
      BY <1>3, <3>1, <3>2, <3>3 DEF Retry, TypeOK, Stats
  <2> QED
    BY <1>0, <2>1, MoveKeepsBalance DEF Phases, TypeOK, Stats
<1>4. ASSUME NEW j \in JobIds, GiveUp(j)
      PROVE  StatsBalance'
  <2>1. /\ j \in In("running") /\ j \in In("failed")'
        /\ \A i \in JobIds \ {j} : job'[i] = job[i]
        /\ running' = running - 1
        /\ stats'.completed = stats.completed
        /\ stats'.failed = stats.failed + 1 /\ stats'.enqueued = stats.enqueued
    <3>1. j \in In("running") /\ job[j] \in Job
      BY <1>4 DEF GiveUp, In, TypeOK
    <3>2. job'[j].phase = "failed" /\ job'[j] \in Job
          /\ \A i \in JobIds \ {j} : job'[i] = job[i]
      BY <1>4, <3>1 DEF GiveUp, TypeOK, Job, Phases
    <3>3. j \in In("failed")'
      BY <3>2 DEF In
    <3> QED
      BY <1>4, <3>1, <3>2, <3>3 DEF GiveUp, TypeOK, Stats
  <2> QED
    BY <1>0, <2>1, MoveKeepsBalance DEF Phases, TypeOK, Stats
<1>5. ASSUME NEW j \in JobIds, TimerFires(j)
      PROVE  StatsBalance'
  <2>1. /\ j \in In("waiting") /\ j \in In("running")'
        /\ \A i \in JobIds \ {j} : job'[i] = job[i]
        /\ running' = running + 1
        /\ stats' = stats
    BY <1>0, <1>5 DEF TimerFires, In, TypeOK, Job
  <2> QED
    BY <1>0, <2>1, MoveKeepsBalance DEF Phases, TypeOK, Stats
<1>6. CASE UNCHANGED vars
  BY <1>6 DEF vars, StatsBalance, In
<1> QED
  BY <1>1, <1>2, <1>3, <1>4, <1>5, <1>6 DEF Next

\* The reported counters account for every job ever enqueued, whatever the order
\* in which jobs run, fail and are retried.
THEOREM StatsAreBalanced == Spec => []StatsBalance
<1>1. Init => TypeOK /\ StatsBalance
  BY InitTypeOK, InitBalance
<1>2. TypeOK /\ StatsBalance /\ [Next]_vars => (TypeOK /\ StatsBalance)'
  BY NextTypeOK, NextBalance
<1> QED
  BY <1>1, <1>2, PTL DEF Spec

-----------------------------------------------------------------------------
(* Attempts *)

\* Every action respects the attempts.
LEMMA NextAttempts == TypeOK /\ AttemptsAreUsedUp /\ [Next]_vars => AttemptsAreUsedUp'
<1> SUFFICES ASSUME TypeOK, AttemptsAreUsedUp, [Next]_vars PROVE AttemptsAreUsedUp'
  OBVIOUS
<1> USE JobQueueAssumption DEF TypeOK, Job, Phases, In, AttemptsAreUsedUp
<1>1. ASSUME NEW j \in JobIds, NEW name \in Names, Enqueue(j, name)
      PROVE  AttemptsAreUsedUp'
  BY <1>1 DEF Enqueue
<1>2. ASSUME NEW j \in JobIds, Complete(j)
      PROVE  AttemptsAreUsedUp'
  BY <1>2 DEF Complete
<1>3. ASSUME NEW j \in JobIds, Retry(j)
      PROVE  AttemptsAreUsedUp'
  BY <1>3 DEF Retry, MayRetry
<1>4. ASSUME NEW j \in JobIds, GiveUp(j)
      PROVE  AttemptsAreUsedUp'
  BY <1>4 DEF GiveUp, MayRetry
<1>5. ASSUME NEW j \in JobIds, TimerFires(j)
      PROVE  AttemptsAreUsedUp'
  BY <1>5 DEF TimerFires
<1>6. CASE UNCHANGED vars
  BY <1>6 DEF vars
<1> QED
  BY <1>1, <1>2, <1>3, <1>4, <1>5, <1>6 DEF Next

\* A job with a handler fails only when its attempts are used up, and is never
\* run once more than configured.
THEOREM AttemptsAreRespected == Spec => []AttemptsAreUsedUp
<1>1. Init => TypeOK /\ AttemptsAreUsedUp
  BY InitTypeOK DEF Init, AttemptsAreUsedUp
<1>2. TypeOK /\ AttemptsAreUsedUp /\ [Next]_vars => (TypeOK /\ AttemptsAreUsedUp)'
  BY NextTypeOK, NextAttempts
<1> QED
  BY <1>1, <1>2, PTL DEF Spec

\* What has settled stays settled: no timer left behind runs a job again.
THEOREM SettledJobsRest == Spec => SettledForGood
<1>1. TypeOK /\ [Next]_vars => [\A j \in JobIds : Settled(j) => job'[j] = job[j]]_vars
  <2> SUFFICES ASSUME TypeOK, Next, NEW i \in JobIds, Settled(i)
               PROVE  job'[i] = job[i]
    OBVIOUS
  <2>1. PICK j \in JobIds :
            \/ \E name \in Names : Enqueue(j, name)
            \/ Complete(j) \/ Retry(j) \/ GiveUp(j) \/ TimerFires(j)
    BY DEF Next
  <2>2. job[j] = None \/ j \in In("running") \/ j \in In("waiting")
    BY <2>1 DEF Enqueue, Complete, Retry, GiveUp, TimerFires
  <2>3. i # j
    BY <2>2 DEF Settled, In
  <2> QED
    BY <2>1, <2>3 DEF Enqueue, Complete, Retry, GiveUp, TimerFires, TypeOK
<1> QED
  BY <1>1, TypeCorrect, PTL DEF Spec, SettledForGood

-----------------------------------------------------------------------------
(* Retries *)

\* Which attempts of a job were retried, from its record alone.
LEMMA RetriedOfJob ==
    ASSUME NEW j \in JobIds, NEW n \in 1..MaxAttempts
    PROVE  <<j, n>> \in RetriedAttempts <=>
               /\ job[j] # None
               /\ n < job[j].attempt \/ (n = job[j].attempt /\ job[j].phase = "waiting")
  BY DEF RetriedAttempts

\* The retried attempts can be counted.
LEMMA RetriedIsFinite ==
    /\ RetriedAttempts \subseteq JobIds \X (1..MaxAttempts)
    /\ IsFiniteSet(RetriedAttempts)
<1>1. RetriedAttempts \subseteq JobIds \X (1..MaxAttempts)
  BY DEF RetriedAttempts
<1>2. IsFiniteSet(1..MaxAttempts)
  BY FS_Interval, JobQueueAssumption
<1>3. IsFiniteSet(JobIds \X (1..MaxAttempts))
  BY <1>2, FS_Product, JobQueueAssumption
<1> QED
  BY <1>1, <1>3, FS_Subset

\* A step that sends no job into its backoff leaves them as they are.
LEMMA NotRetried ==
    ASSUME TypeOK, TypeOK', AttemptsAreUsedUp, AttemptsAreUsedUp', RetriesAreCounted,
           NEW j \in JobIds, \A i \in JobIds \ {j} : job'[i] = job[i],
           \A n \in 1..MaxAttempts :
               <<j, n>> \in RetriedAttempts <=> <<j, n>> \in RetriedAttempts',
           stats'.retries = stats.retries, timers' = timers
    PROVE  RetriesAreCounted'
<1>1. ASSUME NEW i \in JobIds, NEW n \in 1..MaxAttempts
      PROVE  <<i, n>> \in RetriedAttempts <=> <<i, n>> \in RetriedAttempts'
  <2>1. CASE i = j
    BY <2>1
  <2>2. CASE i # j
    BY <2>2, RetriedOfJob DEF RetriedAttempts
  <2> QED
    BY <2>1, <2>2
<1>2. RetriedAttempts' \subseteq JobIds \X (1..MaxAttempts)
  BY DEF RetriedAttempts
<1>3. RetriedAttempts' = RetriedAttempts
  BY <1>1, <1>2, RetriedIsFinite
<1> QED
  BY <1>3 DEF RetriesAreCounted

\* Every action keeps count of the retries.
LEMMA NextRetries ==
    TypeOK /\ AttemptsAreUsedUp /\ RetriesAreCounted /\ [Next]_vars => RetriesAreCounted'
<1> SUFFICES ASSUME TypeOK, AttemptsAreUsedUp, RetriesAreCounted, [Next]_vars
             PROVE  RetriesAreCounted'
  OBVIOUS
<1> USE JobQueueAssumption
<1>0. TypeOK' /\ AttemptsAreUsedUp'
  BY NextTypeOK, NextAttempts
<1>1. ASSUME NEW j \in JobIds, NEW name \in Names, Enqueue(j, name)
      PROVE  RetriesAreCounted'
  <2>1. /\ job[j] = None
        /\ \A i \in JobIds \ {j} : job'[i] = job[i]
        /\ job'[j].attempt \in {0, 1} /\ job'[j].phase # "waiting"
        /\ stats'.retries = stats.retries /\ timers' = timers
    <3>1. CASE name \in Registered
      BY <1>1, <3>1 DEF Enqueue, TypeOK, Stats
    <3>2. CASE name \notin Registered
      <4>1. /\ job[j] = None /\ timers' = timers
            /\ job' = [job EXCEPT ![j] =
                          [name |-> name, attempt |-> 0, phase |-> "failed"]]
            /\ stats' = [stats EXCEPT !.enqueued = @ + 1, !.failed = @ + 1]
        BY <1>1, <3>2 DEF Enqueue
      <4>2. stats'.retries = stats.retries
        BY <4>1 DEF TypeOK, Stats
      <4> QED
        BY <4>1, <4>2 DEF TypeOK
    <3> QED
      BY <3>1, <3>2
  <2>2. \A n \in 1..MaxAttempts :
            <<j, n>> \notin RetriedAttempts /\ <<j, n>> \notin RetriedAttempts'
    BY <2>1, RetriedOfJob DEF RetriedAttempts
  <2> QED
    BY <1>0, <2>1, <2>2, NotRetried
<1>2. ASSUME NEW j \in JobIds, Complete(j) \/ GiveUp(j)
      PROVE  RetriesAreCounted'
  <2>1. /\ job[j] \in Job /\ job[j].phase = "running"
        /\ \A i \in JobIds \ {j} : job'[i] = job[i]
        /\ job'[j] \in Job
        /\ job'[j].attempt = job[j].attempt /\ job'[j].phase # "waiting"
        /\ stats'.retries = stats.retries /\ timers' = timers
    BY <1>2 DEF Complete, GiveUp, In, TypeOK, Job, Phases, Stats
  <2>2. \A n \in 1..MaxAttempts :
            <<j, n>> \in RetriedAttempts <=> <<j, n>> \in RetriedAttempts'
    BY <2>1, RetriedOfJob DEF RetriedAttempts
  <2> QED
    BY <1>0, <2>1, <2>2, NotRetried
<1>3. ASSUME NEW j \in JobIds, TimerFires(j)
      PROVE  RetriesAreCounted'
  <2>1. /\ job[j] \in Job /\ job[j].phase = "waiting"
        /\ \A i \in JobIds \ {j} : job'[i] = job[i]
        /\ job'[j] \in Job
        /\ job'[j].attempt = job[j].attempt + 1 /\ job'[j].phase = "running"
        /\ stats'.retries = stats.retries /\ timers' = timers
    BY <1>3 DEF TimerFires, In, TypeOK, Job, Phases
  <2>2. \A n \in 1..MaxAttempts :
            <<j, n>> \in RetriedAttempts <=> <<j, n>> \in RetriedAttempts'
    BY <2>1, RetriedOfJob DEF RetriedAttempts, Job
  <2> QED
    BY <1>0, <2>1, <2>2, NotRetried
<1>4. ASSUME NEW j \in JobIds, Retry(j)
      PROVE  RetriesAreCounted'
  <2> DEFINE r == <<j, job[j].attempt>>
  <2>1. /\ job[j] \in Job /\ job[j].phase = "running"
        /\ \A i \in JobIds \ {j} : job'[i] = job[i]
        /\ job'[j] \in Job
        /\ job'[j].attempt = job[j].attempt /\ job'[j].phase = "waiting"
        /\ stats'.retries = stats.retries + 1 /\ timers' = timers \cup {j}
    BY <1>4 DEF Retry, In, TypeOK, Job, Phases, Stats
  <2>2. job[j].attempt \in 1..MaxAttempts
    <3>1. job[j] # None
      BY <1>4 DEF Retry, In
    <3>2. job[j] # [name |-> job[j].name, attempt |-> 0, phase |-> "failed"]
      BY <2>1
    <3> HIDE DEF r
    <3> QED
      BY <3>1, <3>2 DEF AttemptsAreUsedUp
  <2>3. r \notin RetriedAttempts
    BY <2>1, <2>2, RetriedOfJob DEF Job
  <2>4. RetriedAttempts' = RetriedAttempts \cup {r}
    <3>1. ASSUME NEW i \in JobIds, NEW n \in 1..MaxAttempts
          PROVE  <<i, n>> \in RetriedAttempts' <=> <<i, n>> \in RetriedAttempts \cup {r}
      <4>1. CASE i = j
        BY <2>1, <4>1, RetriedOfJob DEF RetriedAttempts, Job
      <4>2. CASE i # j
        BY <2>1, <4>2, RetriedOfJob DEF RetriedAttempts
      <4> QED
        BY <4>1, <4>2
    <3>2. RetriedAttempts' \subseteq JobIds \X (1..MaxAttempts)
      BY DEF RetriedAttempts
    <3> QED
      BY <2>2, <3>1, <3>2, RetriedIsFinite
  <2>5. Cardinality(RetriedAttempts \cup {r}) = Cardinality(RetriedAttempts) + 1
    BY <2>3, RetriedIsFinite, FS_AddElement
  <2>6. {q[1] : q \in RetriedAttempts \cup {r}} = {q[1] : q \in RetriedAttempts} \cup {j}
    <3>1. r[1] = j
      OBVIOUS
    <3> HIDE DEF r
    <3> QED
      BY <3>1
  <2> QED
    BY <2>1, <2>4, <2>5, <2>6 DEF RetriesAreCounted
<1>5. CASE UNCHANGED vars
  BY <1>5 DEF vars, RetriesAreCounted, RetriedAttempts
<1> QED
  BY <1>1, <1>2, <1>3, <1>4, <1>5 DEF Next

\* What holds of the queue, as one invariant.
QueueInvariant == TypeOK /\ StatsBalance /\ AttemptsAreUsedUp /\ RetriesAreCounted

LEMMA InitQueue == Init => QueueInvariant
<1> SUFFICES ASSUME Init PROVE RetriesAreCounted
  BY InitTypeOK, InitBalance DEF Init, AttemptsAreUsedUp, QueueInvariant
<1>1. RetriedAttempts = {}
  BY DEF Init, RetriedAttempts
<1> QED
  BY <1>1, FS_EmptySet DEF Init, RetriesAreCounted

LEMMA NextQueue == QueueInvariant /\ [Next]_vars => QueueInvariant'
  BY NextTypeOK, NextBalance, NextAttempts, NextRetries DEF QueueInvariant

\* Both counters that getStats reports of retries count what they stand for, through
\* any overlap of jobs: each retried attempt once, and each job ever retried.
THEOREM RetriesAreCountedOnce == Spec => []RetriesAreCounted
<1>1. QueueInvariant => RetriesAreCounted
  BY DEF QueueInvariant
<1> QED
  BY <1>1, InitQueue, NextQueue, PTL DEF Spec

-----------------------------------------------------------------------------
(* Jobs move forward *)

\* How old a job with that record is.
AgeOf(record) ==
    IF record = None THEN 0
    ELSE CASE record.phase = "running"  -> 2 * record.attempt - 1
           [] record.phase = "waiting"  -> 2 * record.attempt
           [] OTHER                     -> 2 * MaxAttempts

\* It is a matter of the record alone.
LEMMA AgeOfRecord ==
    ASSUME NEW j \in JobIds
    PROVE  /\ TypeOK => Age(j) = AgeOf(job[j])
           /\ TypeOK' => Age(j)' = AgeOf(job'[j])
<1>1. ASSUME TypeOK PROVE Age(j) = AgeOf(job[j])
  <2>1. job[j] # None => job[j] \in Job
    BY <1>1 DEF TypeOK
  <2> QED
    BY <2>1 DEF Age, AgeOf, In, Settled, Job, Phases
<1>2. ASSUME TypeOK' PROVE Age(j)' = AgeOf(job'[j])
  <2>1. job'[j] # None => job'[j] \in Job
    BY <1>2 DEF TypeOK
  <2> QED
    BY <2>1 DEF Age, AgeOf, In, Settled, Job, Phases
<1> QED
  BY <1>1, <1>2

\* A job takes its steps in one direction, and there are at most 2 * MaxAttempts of
\* them: the safety half of EveryJobSettles.
THEOREM JobsGoForward == Spec => JobsMoveForward
<1>1. TypeOK /\ AttemptsAreUsedUp /\ [Next]_vars =>
          [\A j \in JobIds : job'[j] # job[j] => Age(j)' > Age(j)]_vars
  <2> SUFFICES ASSUME TypeOK, AttemptsAreUsedUp, Next,
                      NEW i \in JobIds, job'[i] # job[i]
               PROVE  Age(i)' > Age(i)
    OBVIOUS
  <2> USE JobQueueAssumption
  <2>0. TypeOK' /\ AttemptsAreUsedUp'
    BY NextTypeOK, NextAttempts
  <2>1. PICK j \in JobIds :
            \/ \E name \in Names : Enqueue(j, name)
            \/ Complete(j) \/ Retry(j) \/ GiveUp(j) \/ TimerFires(j)
    BY DEF Next
  <2>2. i = j
    BY <2>1 DEF Enqueue, Complete, Retry, GiveUp, TimerFires, TypeOK
  <2>a. Age(j) = AgeOf(job[j]) /\ Age(j)' = AgeOf(job'[j])
    BY <2>0, AgeOfRecord
  <2>b. /\ job'[j] # None
        /\ job'[j].attempt \in Nat
        /\ job[j] # None => job[j] \in Job /\ job[j].attempt \in 1..MaxAttempts
    <3>1. job'[j] # None /\ (job[j] # None => job[j].phase # "failed")
      <4>1. CASE \E name \in Names : Enqueue(j, name)
        BY <2>2, <4>1 DEF Enqueue
      <4>2. CASE Complete(j) \/ Retry(j) \/ GiveUp(j) \/ TimerFires(j)
        <5>1. job[j] # None /\ job[j] \in Job /\ job[j].phase \in {"running", "waiting"}
          BY <4>2 DEF Complete, Retry, GiveUp, TimerFires, In, TypeOK
        <5>2. job'[j] \in Job
          BY <4>2, <5>1 DEF Complete, Retry, GiveUp, TimerFires, TypeOK, Job, Phases
        <5> QED
          BY <5>1, <5>2
      <4> QED
        BY <2>1, <4>1, <4>2
    <3> QED
      BY <2>0, <3>1 DEF TypeOK, AttemptsAreUsedUp, Job
  <2>3. CASE \E name \in Names : Enqueue(j, name)
    <3>1. job[j] = None /\ job'[j].phase \in {"running", "failed"}
          /\ (job'[j].phase = "running" => job'[j].attempt = 1)
      BY <2>3 DEF Enqueue, TypeOK
    <3> QED
      BY <2>2, <2>a, <2>b, <3>1 DEF AgeOf
  <2>4. CASE Complete(j) \/ Retry(j) \/ GiveUp(j)
    <3>1. /\ job[j] # None /\ job[j].phase = "running"
          /\ job'[j].attempt = job[j].attempt
          /\ job'[j].phase \in {"waiting", "completed", "failed"}
      BY <2>4 DEF Complete, Retry, GiveUp, In, TypeOK, Job
    <3> QED
      BY <2>2, <2>a, <2>b, <3>1 DEF AgeOf
  <2>5. CASE TimerFires(j)
    <3>1. /\ job[j] # None /\ job[j].phase = "waiting"
          /\ job'[j].attempt = job[j].attempt + 1
          /\ job'[j].phase = "running"
      BY <2>5 DEF TimerFires, In, TypeOK, Job
    <3> QED
      BY <2>2, <2>a, <2>b, <3>1 DEF AgeOf
  <2> QED
    BY <2>1, <2>3, <2>4, <2>5
<1> QED
  BY <1>1, TypeCorrect, AttemptsAreRespected, PTL DEF Spec, JobsMoveForward

=============================================================================
