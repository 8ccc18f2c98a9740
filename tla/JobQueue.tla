------------------------------ MODULE JobQueue ------------------------------
(***************************************************************************)
(* The in-process job queue: a job runs as soon as it is enqueued, is run  *)
(* again after a backoff while it has attempts left, and settles as        *)
(* completed or failed. Its state lives in memory only.                    *)
(*                                                                         *)
(* The handlers are promises: any number of jobs may be running, and they  *)
(* finish in any order. How long a backoff lasts is left out, so timers    *)
(* fire in any order too.                                                  *)
(***************************************************************************)
EXTENDS Integers, FiniteSets

CONSTANTS
    JobIds,         \* bound: the jobs that may ever be enqueued
    Names,          \* job names
    Registered,     \* the names with a handler
    MaxAttempts,    \* config.job.maxAttempts; a 0 would still run a job once
    None            \* not enqueued yet

VARIABLES
    job,            \* job[j]: name, attempt and where the job is, or None
    running,        \* this.running
    stats,          \* this.stats
    timers          \* the keys of this.timers, which nothing removes

vars == <<job, running, stats, timers>>

Phases == {"running", "waiting", "completed", "failed"}
Job == [name : Names, attempt : Nat, phase : Phases]
Stats == [enqueued : Nat, completed : Nat, failed : Nat, retries : Nat]

ASSUME JobQueueAssumption ==
    /\ IsFiniteSet(JobIds)
    /\ Registered \subseteq Names
    /\ MaxAttempts \in Nat \ {0}
    /\ None \notin Job

In(phase) == {j \in JobIds : job[j] # None /\ job[j].phase = phase}
Settled(j) == job[j] # None /\ job[j].phase \in {"completed", "failed"}

-----------------------------------------------------------------------------
Enqueue_NoAttempt(j, name) ==
    /\ job[j] = None
    /\ name \in Registered
    /\ job' = [job EXCEPT ![j] = [name |-> name, attempt |-> None, phase |-> "running"]]
    /\ running' = running + 1
    /\ stats' = [stats EXCEPT !.enqueued = @ + 1]
    /\ UNCHANGED timers

\* enqueue, the job's first _dispatch included: it runs, or fails at once
\* when its name has no handler.
Enqueue(j, name) ==
    /\ job[j] = None
    /\ \/ /\ name \in Registered
          /\ job' = [job EXCEPT ![j] = [name |-> name, attempt |-> 1, phase |-> "running"]]
          /\ running' = running + 1
          /\ stats' = [stats EXCEPT !.enqueued = @ + 1]
       \/ /\ name \notin Registered
          /\ job' = [job EXCEPT ![j] = [name |-> name, attempt |-> 0, phase |-> "failed"]]
          /\ stats' = [stats EXCEPT !.enqueued = @ + 1, !.failed = @ + 1]
          /\ UNCHANGED running
    /\ UNCHANGED timers

\* The handler's promise is fulfilled.
Complete(j) ==
    /\ j \in In("running")
    /\ job' = [job EXCEPT ![j].phase = "completed"]
    /\ running' = running - 1
    /\ stats' = [stats EXCEPT !.completed = @ + 1]
    /\ UNCHANGED timers

MayRetry_OneMore(j) == job[j].attempt <= MaxAttempts

MayRetry(j) == job[j].attempt < MaxAttempts

Retry_KeepsRunning(j) ==
    /\ j \in In("running")
    /\ MayRetry(j)
    /\ job' = [job EXCEPT ![j].phase = "waiting"]
    /\ stats' = [stats EXCEPT !.retries = @ + 1]
    /\ timers' = timers \cup {j}
    /\ UNCHANGED running

\* It is rejected with attempts left: a timer is set for the next one.
Retry(j) ==
    /\ j \in In("running")
    /\ MayRetry(j)
    /\ job' = [job EXCEPT ![j].phase = "waiting"]
    /\ running' = running - 1
    /\ stats' = [stats EXCEPT !.retries = @ + 1]
    /\ timers' = timers \cup {j}

\* It is rejected on the last attempt: the job has failed for good.
GiveUp(j) ==
    /\ j \in In("running")
    /\ ~MayRetry(j)
    /\ job' = [job EXCEPT ![j].phase = "failed"]
    /\ running' = running - 1
    /\ stats' = [stats EXCEPT !.failed = @ + 1]
    /\ UNCHANGED timers

TimerFires_SameAttempt(j) ==
    /\ j \in In("waiting")
    /\ job' = [job EXCEPT ![j].phase = "running"]
    /\ running' = running + 1
    /\ UNCHANGED <<stats, timers>>

TimerFires_FirstRetryOnly(j) ==
    /\ j \in In("waiting")
    /\ job[j].attempt = 1
    /\ job' = [job EXCEPT ![j].phase = "running", ![j].attempt = @ + 1]
    /\ running' = running + 1
    /\ UNCHANGED <<stats, timers>>

TimerFires_AnyJob(j) ==
    /\ j \in timers
    /\ job[j].phase # "running"
    /\ job' = [job EXCEPT ![j].phase = "running", ![j].attempt = @ + 1]
    /\ running' = running + 1
    /\ UNCHANGED <<stats, timers>>

\* The backoff is over: _dispatch again. The fired timer stays in the map.
TimerFires(j) ==
    /\ j \in In("waiting")
    /\ job' = [job EXCEPT ![j].phase = "running", ![j].attempt = @ + 1]
    /\ running' = running + 1
    /\ UNCHANGED <<stats, timers>>

Init ==
    /\ job = [j \in JobIds |-> None]
    /\ running = 0
    /\ stats = [enqueued |-> 0, completed |-> 0, failed |-> 0, retries |-> 0]
    /\ timers = {}

Finishes(j) == Complete(j) \/ Retry(j) \/ GiveUp(j)

Next ==
    \E j \in JobIds :
        \/ \E name \in Names : Enqueue(j, name)
        \/ Complete(j)
        \/ Retry(j)
        \/ GiveUp(j)
        \/ TimerFires(j)

\* A handler's promise settles one way or the other, and a timer fires.
Fairness == \A j \in JobIds : WF_vars(Finishes(j)) /\ WF_vars(TimerFires(j))

Spec == Init /\ [][Next]_vars
FairSpec == Spec /\ Fairness

-----------------------------------------------------------------------------
(* Properties *)

\* Every variable holds what the queue keeps in it.
TypeOK ==
    /\ job \in [JobIds -> Job \cup {None}]
    /\ running \in Int
    /\ stats \in Stats
    /\ timers \subseteq JobIds

\* The counters getStats reports account for every job, through any overlap of
\* runs, retries and failures: none is counted twice or lost between two phases.
StatsBalance ==
    /\ running = Cardinality(In("running"))
    /\ stats.completed = Cardinality(In("completed"))
    /\ stats.failed = Cardinality(In("failed"))
    /\ stats.enqueued =
           running + Cardinality(In("waiting")) + stats.completed + stats.failed

\* A job with a handler fails after exactly the configured number of attempts,
\* neither before nor later, and is waiting or running within them.
AttemptsAreUsedUp ==
    \A j \in JobIds : job[j] # None =>
        IF job[j].name \in Registered
        THEN /\ job[j].attempt \in 1..MaxAttempts
             /\ job[j].phase = "waiting" => job[j].attempt < MaxAttempts
             /\ job[j].phase = "failed" => job[j].attempt = MaxAttempts
        ELSE job[j] = [name |-> job[j].name, attempt |-> 0, phase |-> "failed"]

\* The attempts that were retried: all of a job but the one it is on, and that one
\* too while the job waits for its timer.
RetriedAttempts ==
    {r \in JobIds \X (1..MaxAttempts) :
        LET j == job[r[1]]
        IN  /\ j # None
            /\ r[2] < j.attempt \/ (r[2] = j.attempt /\ j.phase = "waiting")}

\* What getStats tells of retries: retries counts each attempt that was retried, once,
\* and pendingTimers (queue.js:86) each job that ever was, long after its timer fired.
RetriesAreCounted ==
    /\ stats.retries = Cardinality(RetriedAttempts)
    /\ timers = {r[1] : r \in RetriedAttempts}

\* How far a job is on its way from its first attempt to the end of its last.
Age(j) ==
    CASE job[j] = None        -> 0
      [] j \in In("running")  -> 2 * job[j].attempt - 1
      [] j \in In("waiting")  -> 2 * job[j].attempt
      [] Settled(j)           -> 2 * MaxAttempts

\* Why a job settles (EveryJobSettles): whatever happens to it takes it forward on
\* a way of at most twice its attempts, so retries cannot go in a circle.
JobsMoveForward == [][\A j \in JobIds : job'[j] # job[j] => Age(j)' > Age(j)]_vars

\* A job that has settled is never run again, though its timer is still kept.
SettledForGood == [][\A j \in JobIds : Settled(j) => job'[j] = job[j]]_vars

\* Every enqueued job settles in the end.
EveryJobSettles == \A j \in JobIds : job[j] # None ~> Settled(j)

=============================================================================
