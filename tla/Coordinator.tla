----------------------------- MODULE Coordinator -----------------------------
(***************************************************************************)
(* The coordinator process: InMemoryCoordinator, the job queue and the two *)
(* repositories under the RPC service that serialises them with one mutex, *)
(* and the liveness monitor thread that scans them once a second.          *)
(*                                                                         *)
(* A handler runs under the mutex from its first read to its last write,   *)
(* so it is one action.  Two threads do something before they lock: the    *)
(* Heartbeat handler and the monitor both read the clock first, and the    *)
(* action that reads the clock is separate from the one that uses it.  The *)
(* monitor holds the mutex over a whole scan, but the scan treats one job  *)
(* after another and the process can die between two of them, so a scan is *)
(* a sequence of actions during which the handlers are not enabled.        *)
(*                                                                         *)
(* A handler that answers with an error, or finds nothing to do, changes   *)
(* nothing and has no action: it is a stuttering step.                     *)
(***************************************************************************)
EXTENDS JobStates, Integers, FiniteSets, FiniteSetsExt

CONSTANTS
  Jobs,               \* job identifiers clients submit
  Workers,            \* worker identifiers
  NoWorker,           \* the empty assigned_worker_id
  Req,                \* amount of the resource each job needs
  Capacity,           \* amount of the resource each worker has
  Slots,              \* max_concurrent_jobs of each worker
  Compatible,         \* workers with the GPU and the tags each job asks for
  MaxAttempts,        \* max_attempts of each job
  Priority,           \* priority of each job
  CreationRank,       \* position of each job in (created_at, id) order
  LeaseDuration,      \* lease_duration_
  HeartbeatTimeout,   \* heartbeat_timeout of the monitor
  MaxTime,            \* bound on the clock
  MaxInFlight         \* bound on Heartbeat calls of one worker waiting for the mutex

ASSUME SetsAssumption == IsFiniteSet(Jobs) /\ NoWorker \notin Workers
ASSUME ResourcesAssumption ==
  /\ Req \in [Jobs -> Nat]
  /\ Capacity \in [Workers -> Nat]
  /\ Slots \in [Workers -> Nat \ {0}]
  /\ Compatible \in [Jobs -> SUBSET Workers]
ASSUME AttemptsAssumption == MaxAttempts \in [Jobs -> Nat \ {0}]
ASSUME OrderAssumption ==
  /\ Priority \in [Jobs -> Int]
  /\ CreationRank \in [Jobs -> Nat]
  /\ \A j, k \in Jobs : CreationRank[j] = CreationRank[k] => j = k
ASSUME TimeAssumption ==
  /\ LeaseDuration \in Nat \ {0}
  /\ HeartbeatTimeout \in Nat \ {0}
  /\ MaxTime \in Nat
  /\ MaxInFlight \in Nat
\* The values of main.cpp (6 s) and in_memory_coordinator.hpp (15 s).
ASSUME TimeoutAssumption == HeartbeatTimeout <= LeaseDuration

VARIABLES
  up,             \* the coordinator process is running
  now,            \* the system clock
  heartbeats,     \* [w -> clock readings of Heartbeat calls that wait for the mutex]
  scanPhase,      \* where the monitor thread is
  scanTime,       \* the clock reading the current scan works with
  scanTodo,       \* jobs the current phase of the scan has still to treat
  jobState,       \* job rows: state
  assigned,       \* job rows: assigned_worker_id
  lease,          \* job rows: lease_expires_at
  attempts,       \* job rows: attempt_count
  queue,          \* the queue: attempt_count of the queued copy of each job
  workerState,    \* worker rows: state, "absent" for no row
  running,        \* worker rows: running_jobs
  free,           \* worker rows: available amount of the resource
  lastHeartbeat,  \* worker rows: last_heartbeat
  disowned        \* history: workers whose row was overwritten under active jobs

monitorVars == <<scanPhase, scanTime, scanTodo>>
jobVars     == <<jobState, assigned, lease, attempts>>
workerVars  == <<workerState, running, free, lastHeartbeat>>
vars == <<up, now, heartbeats, monitorVars, jobVars, queue, workerVars, disowned>>

NoLease   == -1
NotQueued == -1

Phases == {"idle", "captured", "expiring", "requeueing"}

TypeOK ==
  /\ up \in BOOLEAN
  /\ now \in Nat
  /\ heartbeats \in [Workers -> SUBSET Nat]
  /\ scanPhase \in Phases
  /\ scanTime \in Nat
  /\ scanTodo \in SUBSET Jobs
  /\ jobState \in [Jobs -> StoredOrNone]
  /\ assigned \in [Jobs -> Workers \cup {NoWorker}]
  /\ lease \in [Jobs -> Nat \cup {NoLease}]
  /\ attempts \in [Jobs -> Nat]
  /\ queue \in [Jobs -> Nat \cup {NotQueued}]
  /\ workerState \in [Workers -> {"absent", "online", "offline"}]
  /\ running \in [Workers -> Nat]
  /\ free \in [Workers -> Nat]
  /\ lastHeartbeat \in [Workers -> Nat]
  /\ disowned \in SUBSET Workers

\* A new database, and a coordinator that has just opened it.
Init ==
  /\ up = TRUE
  /\ now = 0
  /\ heartbeats = [w \in Workers |-> {}]
  /\ scanPhase = "idle" /\ scanTime = 0 /\ scanTodo = {}
  /\ jobState = [j \in Jobs |-> "none"]
  /\ assigned = [j \in Jobs |-> NoWorker]
  /\ lease = [j \in Jobs |-> NoLease]
  /\ attempts = [j \in Jobs |-> 0]
  /\ queue = [j \in Jobs |-> NotQueued]
  /\ workerState = [w \in Workers |-> "absent"]
  /\ running = [w \in Workers |-> 0]
  /\ free = Capacity
  /\ lastHeartbeat = [w \in Workers |-> 0]
  /\ disowned = {}

------------------------------------------------------------------------------
(* Mutations.  Each is a definition from below as a plausible mistake would    *)
(* write it; no specification uses them.  They show what the properties catch. *)

\* release gives slots and resources back unconditionally.
CanReleaseAlways(j, w) == TRUE
\* release checks the slot and forgets the resource.
CanReleaseSlotOnly(j, w) == running[w] > 0
\* release gives the slot back and forgets the resource.
ReleaseSlotOnly(j, w) == running' = [running EXCEPT ![w] = @ - 1] /\ UNCHANGED free
\* A heartbeat renews the lease of whatever names the worker, finished or not.
RecordHeartbeatForAll(w, t) ==
  /\ workerState' = [workerState EXCEPT ![w] = "online"]
  /\ lastHeartbeat' = [lastHeartbeat EXCEPT ![w] = t]
  /\ lease' = [j \in Jobs |-> IF assigned[j] = w THEN t + LeaseDuration ELSE lease[j]]
\* A heartbeat renews the leases of running jobs only.
RecordHeartbeatForRunning(w, t) ==
  /\ workerState' = [workerState EXCEPT ![w] = "online"]
  /\ lastHeartbeat' = [lastHeartbeat EXCEPT ![w] = t]
  /\ lease' = [j \in Jobs |-> IF assigned[j] = w /\ jobState[j] = "running"
                              THEN t + LeaseDuration ELSE lease[j]]
\* AcquireJob does not look for a job it has handed out before.
ForgetsUnstarted(w) == FALSE
\* A worker is stale only past the timeout.
StaleStrictly(w) ==
  workerState[w] = "online" /\ scanTime - lastHeartbeat[w] > HeartbeatTimeout
\* The expiry phase reads the clock again.
DueByNow == {j \in Jobs : lease[j] # NoLease /\ lease[j] <= now}
\* A lease expires only past its deadline.
DueStrictly == {j \in Jobs : lease[j] # NoLease /\ lease[j] < scanTime}
\* An expiry leaves the worker row alone.
NeverReleases(j) == FALSE
\* An expiry queues the job at once.
ExpiresToQueued(state) == IF state = "cancellation_requested" THEN "cancelled" ELSE "queued"
\* One attempt too many.
AgainOnceMore(j) == IF attempts[j] <= MaxAttempts[j] THEN "queued" ELSE "failed"
\* A restart queues the jobs that were queued and forgets the abandoned ones.
RecoveredQueueOnly(j) == IF jobState[j] = "queued" THEN attempts[j] ELSE NotQueued

------------------------------------------------------------------------------
(* Helpers of the handlers. *)

\* The process runs and the monitor does not hold the mutex.
Serving == up /\ scanPhase \in {"idle", "captured"}

ActiveOn(w) == {j \in Jobs : IsActive(jobState[j]) /\ assigned[j] = w}

\* should_run_before: priority first, then age, then identifier.
RunsBefore(j, k) ==
  \/ Priority[j] > Priority[k]
  \/ Priority[j] = Priority[k] /\ CreationRank[j] < CreationRank[k]

\* evaluate_worker and WorkerRecord::can_reserve.
Eligible(j, w) ==
  /\ workerState[w] = "online"
  /\ running[w] < Slots[w]
  /\ Req[j] <= free[w]
  /\ w \in Compatible[j]

\* DispatchPlanner::plan for one worker: the first job in queue order that the
\* worker can take.
Planned(j, w) ==
  /\ queue[j] # NotQueued /\ Eligible(j, w)
  /\ \A k \in Jobs : queue[k] # NotQueued /\ Eligible(k, w) => ~RunsBefore(k, j)

\* WorkerRecord::reserve, once the worker is eligible.
Reserve(j, w) ==
  /\ running' = [running EXCEPT ![w] = @ + 1]
  /\ free' = [free EXCEPT ![w] = @ - Req[j]]

\* WorkerRecord::release: when it throws, and what it does otherwise.
CanRelease(j, w) == running[w] > 0 /\ free[w] + Req[j] <= Capacity[w]

Release(j, w) ==
  /\ running' = [running EXCEPT ![w] = @ - 1]
  /\ free' = [free EXCEPT ![w] = @ + Req[j]]

\* leased_job_for_worker finds a job.
HoldsUnstarted(w) == \E k \in ActiveOn(w) : jobState[k] = "leased"

\* submit_job: the row and the queued copy of a new job.
StoreAndEnqueue(j) ==
  /\ jobState' = [jobState EXCEPT ![j] = "queued"]
  /\ queue' = [queue EXCEPT ![j] = 0]

\* apply_dispatch_decision: the attempt is taken on the queued copy, which then
\* replaces the row.
ApplyDispatchDecision(w, j) ==
  /\ queue[j] < MaxAttempts[j]
  /\ queue' = [queue EXCEPT ![j] = NotQueued]
  /\ attempts' = [attempts EXCEPT ![j] = queue[j] + 1]
  /\ jobState' = [jobState EXCEPT ![j] = "leased"]
  /\ assigned' = [assigned EXCEPT ![j] = w]
  /\ lease' = [lease EXCEPT ![j] = now + LeaseDuration]
  /\ Reserve(j, w)

\* mark_running: the lease starts anew.
MarkRunning(j) ==
  /\ jobState' = [jobState EXCEPT ![j] = "running"]
  /\ lease' = [lease EXCEPT ![j] = now + LeaseDuration]

\* finish_job: the row keeps its assigned_worker_id and loses its lease.
FinishAssigned(w, j, outcome) ==
  /\ CanRelease(j, w)
  /\ Release(j, w)
  /\ jobState' = [jobState EXCEPT ![j] = outcome]
  /\ lease' = [lease EXCEPT ![j] = NoLease]

\* record_worker_heartbeat: a registered worker is online again, and every
\* active job assigned to it gets a lease counted from the heartbeat.
RecordHeartbeat(w, t) ==
  /\ workerState' = [workerState EXCEPT ![w] = "online"]
  /\ lastHeartbeat' = [lastHeartbeat EXCEPT ![w] = t]
  /\ lease' = [j \in Jobs |-> IF j \in ActiveOn(w) THEN t + LeaseDuration ELSE lease[j]]

------------------------------------------------------------------------------
(* The RPC handlers. *)

SubmitJob(j) ==
  /\ Serving
  /\ jobState[j] = "none"
  /\ StoreAndEnqueue(j)
  /\ UNCHANGED <<up, now, heartbeats, monitorVars, assigned, lease, attempts,
                 workerVars, disowned>>

\* A worker process starts (again) and reports no running job.  The row of an
\* identifier already known is replaced whole, whatever the coordinator has
\* assigned to it; the clock is read under the mutex.
RegisterWorker(w) ==
  /\ Serving
  /\ running' = [running EXCEPT ![w] = 0]
  /\ free' = [free EXCEPT ![w] = Capacity[w]]
  /\ RecordHeartbeat(w, now)
  /\ disowned' = IF ActiveOn(w) # {} THEN disowned \cup {w} ELSE disowned \ {w}
  /\ UNCHANGED <<up, now, heartbeats, monitorVars, jobState, assigned, attempts, queue>>

\* Heartbeat reads the clock, and only then asks for the mutex.
HeartbeatArrives(w) ==
  /\ up
  /\ Cardinality(heartbeats[w]) < MaxInFlight
  /\ heartbeats' = [heartbeats EXCEPT ![w] = @ \cup {now}]
  /\ UNCHANGED <<up, now, monitorVars, jobVars, queue, workerVars, disowned>>

HeartbeatApplied(w, t) ==
  /\ Serving
  /\ t \in heartbeats[w]
  /\ heartbeats' = [heartbeats EXCEPT ![w] = @ \ {t}]
  /\ IF workerState[w] = "absent"
     THEN UNCHANGED <<workerState, lastHeartbeat, lease>>
     ELSE RecordHeartbeat(w, t)
  /\ UNCHANGED <<up, now, monitorVars, jobState, assigned, attempts, queue,
                 running, free, disowned>>

\* A worker that already holds a leased job is answered with it
\* and nothing changes; otherwise the planner runs and its decision is applied
\* to the queued copy, the worker row and the job row.
AcquireJob(w, j) ==
  /\ Serving
  /\ workerState[w] # "absent"
  /\ ~HoldsUnstarted(w)
  /\ Planned(j, w)
  /\ ApplyDispatchDecision(w, j)
  /\ UNCHANGED <<up, now, heartbeats, monitorVars, workerState, lastHeartbeat, disowned>>

StartJob(w, j) ==
  /\ Serving
  /\ assigned[j] = w
  /\ jobState[j] = "leased"
  /\ MarkRunning(j)
  /\ UNCHANGED <<up, now, heartbeats, monitorVars, assigned, attempts, queue,
                 workerVars, disowned>>

\* A worker row that cannot be released makes FinishJob answer INTERNAL and
\* change nothing.
FinishJob(w, j, outcome) ==
  /\ Serving
  /\ assigned[j] = w
  /\ jobState[j] = "running"
  /\ FinishAssigned(w, j, outcome)
  /\ UNCHANGED <<up, now, heartbeats, monitorVars, assigned, attempts, queue,
                 workerState, lastHeartbeat, disowned>>

------------------------------------------------------------------------------
(* The liveness monitor: stale workers, then expired leases, then requeueing. *)

\* The thread reads the clock before it locks the mutex.
ScanCapture ==
  /\ up /\ scanPhase = "idle"
  /\ scanPhase' = "captured"
  /\ scanTime' = now
  /\ UNCHANGED <<up, now, heartbeats, scanTodo, jobVars, queue, workerVars, disowned>>

Stale(w) ==
  /\ workerState[w] = "online"
  /\ scanTime >= lastHeartbeat[w]
  /\ scanTime - lastHeartbeat[w] >= HeartbeatTimeout

\* The records mark_expired_job_leases does not skip.
Due == {j \in Jobs : lease[j] # NoLease /\ lease[j] <= scanTime}

\* The mutex is locked; mark_stale_workers_offline; the job list is read.
ScanStale ==
  /\ scanPhase = "captured"
  /\ scanPhase' = "expiring"
  /\ workerState' = [w \in Workers |-> IF Stale(w) THEN "offline" ELSE workerState[w]]
  /\ scanTodo' = Due
  /\ UNCHANGED <<up, now, heartbeats, scanTime, jobVars, queue,
                 running, free, lastHeartbeat, disowned>>

\* Both loops follow the list order of the job repository.
NextInScan(j) == j \in scanTodo /\ \A k \in scanTodo : CreationRank[j] <= CreationRank[k]

\* The expiry of j gives back what it holds, unless its worker counts no job.
ReleasesOnExpiry(j) == assigned[j] # NoWorker /\ running[assigned[j]] > 0

\* An exception leaves the loop: a release refused while a lease expires, or a
\* waiting job that is still assigned.
ScanThrows(j) ==
  IF scanPhase = "expiring"
  THEN IsActive(jobState[j]) /\ ReleasesOnExpiry(j) /\ ~CanRelease(j, assigned[j])
  ELSE assigned[j] # NoWorker \/ lease[j] # NoLease

ExpiredState(state) == IF state = "cancellation_requested" THEN "cancelled" ELSE "retry_wait"

\* One record of mark_expired_job_leases.
ScanExpire(j) ==
  /\ scanPhase = "expiring"
  /\ NextInScan(j) /\ ~ScanThrows(j)
  /\ scanTodo' = scanTodo \ {j}
  /\ lease' = [lease EXCEPT ![j] = NoLease]
  /\ IF IsActive(jobState[j])
     THEN /\ jobState' = [jobState EXCEPT ![j] = ExpiredState(@)]
          /\ assigned' = [assigned EXCEPT ![j] = NoWorker]
          /\ IF ReleasesOnExpiry(j)
             THEN Release(j, assigned[j])
             ELSE UNCHANGED <<running, free>>
     ELSE UNCHANGED <<jobState, assigned, running, free>>
  /\ UNCHANGED <<up, now, heartbeats, scanPhase, scanTime, attempts, queue,
                 workerState, lastHeartbeat, disowned>>

ScanRequeueBegins ==
  /\ scanPhase = "expiring" /\ scanTodo = {}
  /\ scanPhase' = "requeueing"
  /\ scanTodo' = {j \in Jobs : jobState[j] = "retry_wait"}
  /\ UNCHANGED <<up, now, heartbeats, scanTime, jobVars, queue, workerVars, disowned>>

\* A job that may be attempted again goes back to the queue, another one fails.
AgainOrFailed(j) == IF attempts[j] < MaxAttempts[j] THEN "queued" ELSE "failed"

\* One record of requeue_retry_wait_jobs.
ScanRequeue(j) ==
  /\ scanPhase = "requeueing"
  /\ NextInScan(j) /\ ~ScanThrows(j)
  /\ scanTodo' = scanTodo \ {j}
  /\ jobState' = [jobState EXCEPT ![j] = AgainOrFailed(j)]
  /\ queue' = IF AgainOrFailed(j) = "queued"
              THEN [queue EXCEPT ![j] = attempts[j]] ELSE queue
  /\ UNCHANGED <<up, now, heartbeats, scanPhase, scanTime, assigned, lease, attempts,
                 workerVars, disowned>>

\* The mutex is unlocked and the thread waits for the next round.
ScanEnd ==
  /\ scanPhase = "requeueing" /\ scanTodo = {}
  /\ scanPhase' = "idle"
  /\ UNCHANGED <<up, now, heartbeats, scanTime, scanTodo, jobVars, queue, workerVars, disowned>>

\* The thread reports the exception; the rest of the scan is skipped.
ScanFails ==
  /\ scanPhase \in {"expiring", "requeueing"}
  /\ \E j \in Jobs : NextInScan(j) /\ ScanThrows(j)
  /\ scanPhase' = "idle"
  /\ scanTodo' = {}
  /\ UNCHANGED <<up, now, heartbeats, scanTime, jobVars, queue, workerVars, disowned>>

------------------------------------------------------------------------------
(* Time, and the coordinator process itself. *)

Tick ==
  /\ now < MaxTime
  /\ now' = now + 1
  /\ UNCHANGED <<up, heartbeats, monitorVars, jobVars, queue, workerVars, disowned>>

\* The process ends, in an orderly way or not: the repositories survive, the
\* queue, the calls in progress and the monitor do not.
Stop ==
  /\ up
  /\ up' = FALSE
  /\ heartbeats' = [w \in Workers |-> {}]
  /\ scanPhase' = "idle" /\ scanTime' = 0 /\ scanTodo' = {}
  /\ queue' = [j \in Jobs |-> NotQueued]
  /\ UNCHANGED <<now, jobVars, workerVars, disowned>>

\* What recover_persisted_state makes of the state of a stored job.
RecoveredState(j) ==
  CASE jobState[j] \in {"queued", "leased", "running", "retry_wait"} -> AgainOrFailed(j)
    [] jobState[j] = "cancellation_requested" -> "cancelled"
    [] OTHER -> jobState[j]

RecoveredQueue(j) == IF RecoveredState(j) = "queued" THEN attempts[j] ELSE NotQueued

\* recover_persisted_state: every worker is idle and whole, nobody holds an
\* unfinished job, and every job that can run again is queued.
Restart ==
  /\ ~up
  /\ up' = TRUE
  /\ running' = [w \in Workers |-> 0]
  /\ free' = Capacity
  /\ jobState' = [j \in Jobs |-> RecoveredState(j)]
  /\ assigned' = [j \in Jobs |-> IF IsTerminal(jobState[j]) THEN assigned[j] ELSE NoWorker]
  /\ lease' = [j \in Jobs |-> NoLease]
  /\ queue' = [j \in Jobs |-> RecoveredQueue(j)]
  /\ disowned' = {}
  /\ UNCHANGED <<now, heartbeats, monitorVars, attempts, workerState, lastHeartbeat>>

------------------------------------------------------------------------------
Handler ==
  \/ \E j \in Jobs : SubmitJob(j)
  \/ \E w \in Workers :
       \/ RegisterWorker(w)
       \/ HeartbeatArrives(w)
       \/ \E t \in heartbeats[w] : HeartbeatApplied(w, t)
       \/ \E j \in Jobs :
            \/ AcquireJob(w, j)
            \/ StartJob(w, j)
            \/ \E outcome \in {"succeeded", "failed"} : FinishJob(w, j, outcome)

Monitor ==
  \/ ScanCapture
  \/ ScanStale
  \/ \E j \in Jobs : ScanExpire(j)
  \/ ScanRequeueBegins
  \/ \E j \in Jobs : ScanRequeue(j)
  \/ ScanEnd
  \/ ScanFails

Next == Handler \/ Monitor \/ Tick \/ Stop \/ Restart

Spec == Init /\ [][Next]_vars

\* The monitor thread is an unconditional loop around a timed wait, and a
\* handler holds the mutex for a bounded time: the thread always goes on.
FairSpec == Spec /\ WF_vars(Monitor)

------------------------------------------------------------------------------
(* Safety. *)

\* A worker row never claims more running jobs than it has slots, nor more free
\* resource than it has: the constructor of WorkerSnapshot and WorkerResources
\* would throw in the middle of a handler if a release could go too far.
WorkerRowsValid ==
  \A w \in Workers : running[w] <= Slots[w] /\ free[w] <= Capacity[w]

\* The in-memory queue holds exactly the jobs stored as queued, each with the
\* stored attempt count: dispatching works on the queued copy, so a stale copy
\* would bring spent attempts back (apply_dispatch_decision,
\* requeue_retry_wait_jobs, recover_persisted_state).
QueueMirrorsRepository ==
  up => \A j \in Jobs : queue[j] = IF jobState[j] = "queued" THEN attempts[j] ELSE NotQueued

\* An active job is held by a registered worker under a lease and is on one of
\* its attempts; a job that waits is held by nobody; only active jobs have a
\* lease.  It is what makes the logic_error branches of finish_job and of
\* requeue_retry_wait_jobs unreachable, and the comment of JobRecord true.
LeaseDiscipline ==
  \A j \in Jobs :
    /\ IsActive(jobState[j]) =>
         /\ assigned[j] \in Workers /\ workerState[assigned[j]] # "absent"
         /\ lease[j] # NoLease
         /\ attempts[j] > 0
    /\ ~IsActive(jobState[j]) => lease[j] = NoLease
    /\ jobState[j] \in {"none", "queued", "retry_wait"} => assigned[j] = NoWorker

\* A worker never holds two jobs it has not started: AcquireJob hands an
\* unstarted job out again before it asks the planner for another one, across
\* re-registrations, expiries and restarts.
OneUnstartedJob ==
  \A w \in Workers : \A j, k \in ActiveOn(w) :
    jobState[j] = "leased" /\ jobState[k] = "leased" => j = k

\* The lease of an active job always covers a full lease duration from its
\* worker's last recorded heartbeat, although heartbeats are recorded with a
\* clock reading from before the mutex and may overtake each other.
LeaseCoversHeartbeat ==
  \A w \in Workers : \A j \in ActiveOn(w) : lease[j] >= lastHeartbeat[w] + LeaseDuration

\* Every worker row counts exactly the active jobs assigned to it, whatever
\* was started, finished, expired or recovered in between.  It excepts the
\* workers that registered again while jobs were assigned to them.
SlotsExact ==
  \A w \in Workers \ disowned : running[w] = Cardinality(ActiveOn(w))

\* What the jobs of S need together.
Needed(S) == MapThenSumSet(LAMBDA j : Req[j], S)

\* With the same exception, what a worker row has not got free is exactly what
\* its active jobs need: no release is lost and none happens twice.
ResourcesExact ==
  \A w \in Workers \ disowned : free[w] + Needed(ActiveOn(w)) = Capacity[w]

\* While the monitor expires leases, every lease it still has to treat has run
\* out, and every worker that is online has sent a heartbeat within the
\* timeout, both by the clock reading of the scan; without a process there is
\* no scan and no call in progress.
MonitorInv ==
  /\ scanPhase = "expiring" =>
       /\ \A j \in scanTodo : lease[j] # NoLease /\ lease[j] <= scanTime
       /\ \A w \in Workers : workerState[w] = "online" =>
            scanTime < lastHeartbeat[w] + HeartbeatTimeout
  /\ scanPhase = "requeueing" => \A j \in scanTodo : jobState[j] = "retry_wait"
  /\ ~up => scanPhase = "idle" /\ \A w \in Workers : heartbeats[w] = {}
  /\ scanPhase \in {"idle", "captured"} => scanTodo = {}

------------------------------------------------------------------------------
(* Action properties. *)

\* The monitor takes a job away only from a worker it has marked offline: a
\* worker that is still online never loses a job to an expiry, whatever the
\* clock readings of heartbeats and scans that wait for the mutex.
ExpiresOnlyOffline ==
  [][\A j \in Jobs : IsActive(jobState[j]) /\ jobState'[j] = "retry_wait"
        => workerState[assigned[j]] = "offline"]_vars

\* While the process runs, every job moves along JobStateMachine, although
\* expiry and requeueing set the state through Job::restore, which does not ask.
MovesAreLegal ==
  [][up /\ up' => \A j \in Jobs :
        \/ jobState'[j] = jobState[j]
        \/ jobState[j] = "none" /\ jobState'[j] = "queued"
        \/ CanTransition(jobState[j], jobState'[j])]_vars

\* The job rows implement the abstract life of a job.
Lifecycle == INSTANCE JobLifecycle WITH state <- jobState, attempts <- attempts
ImplementsLifecycle == Lifecycle!Spec

------------------------------------------------------------------------------
(* Liveness. *)

\* A lease that has run out does not stay: the job is finished, renewed, or
\* taken away by a scan and settled again, unless the process stops.  The scan
\* that reclaims it may be the one after a scan whose clock reading was too old.
\* It holds where every job needs the same amount, and not in general: a scan
\* that meets a refused release gives up, and so does every scan after it.
ExpiredLeaseIsSettled ==
  \A j \in Jobs :
    (up /\ IsActive(jobState[j]) /\ lease[j] <= now)
      ~> (~up \/ (IsActive(jobState[j]) /\ lease[j] > now)
              \/ jobState[j] \in {"queued", "succeeded", "failed"})
===============================================================================
