------------------------------- MODULE Cluster -------------------------------
(***************************************************************************)
(* Worker processes and the coordinator they call.                         *)
(*                                                                         *)
(* A worker process registers, asks for a job until it gets one, starts    *)
(* it, executes it, reports the outcome and ends; a thread of it sends     *)
(* heartbeats meanwhile.  Every call has a deadline, and the process ends  *)
(* when a call fails or is not answered in time.  The coordinator handles  *)
(* a call whether or not its caller still waits: a call outlives the       *)
(* process that made it.  An element of Processes is one run of the        *)
(* program; starting a worker again is another element with the same       *)
(* identifier.                                                             *)
(*                                                                         *)
(* The coordinator is the one of module Coordinator with its clock taken   *)
(* away: a worker is marked offline after a silence, and a job is taken    *)
(* from a worker that is offline and from no other (ExpiresOnlyOffline     *)
(* there).  Any queued job may be planned, and every job fits.             *)
(***************************************************************************)
EXTENDS JobStates, Naturals, FiniteSets

CONSTANTS
  Jobs,          \* job identifiers clients submit
  MaxAttempts,   \* max_attempts of each job
  Processes,     \* runs of the worker program
  Ids,           \* worker identifiers, the program's first argument
  IdOf,          \* the identifier each process is given
  Slots,         \* max_concurrent_jobs every worker reports
  NoJob,         \* a process that has got no job
  NoId,          \* the empty assigned_worker_id
  MaxFaults      \* bound on silences of live processes and restarts of the coordinator

ASSUME ClusterAssumption ==
  /\ MaxAttempts \in [Jobs -> Nat \ {0}]
  /\ IdOf \in [Processes -> Ids]
  /\ NoJob \notin Jobs /\ NoId \notin Ids
  /\ Slots \in Nat \ {0} /\ MaxFaults \in Nat

VARIABLES
  jobState,     \* job rows: state
  assigned,     \* job rows: assigned_worker_id
  attempts,     \* job rows: attempt_count
  worker,       \* worker rows: state, "absent" for no row
  running,      \* worker rows: running_jobs
  pc,           \* where the main thread of each process is
  call,         \* the call of each process the coordinator has not handled yet
  job,          \* the job each process was given
  executed,     \* history: the attempt each process has executed, 0 for none
  faults        \* silences of live processes and restarts of the coordinator so far

jobVars     == <<jobState, assigned, attempts>>
workerVars  == <<worker, running>>
processVars == <<pc, call, job, executed>>
vars == <<jobVars, workerVars, processVars, faults>>

Places == {"off", "registering", "acquiring", "waiting", "starting",
           "executing", "finishing", "ended"}
\* A FinishJob call is named by the outcome it reports.
Outcomes == {"succeeded", "failed"}
Calls == {"none", "register", "acquire", "start"} \cup Outcomes

TypeOK ==
  /\ jobState \in [Jobs -> StoredOrNone]
  /\ assigned \in [Jobs -> Ids \cup {NoId}]
  /\ attempts \in [Jobs -> Nat]
  /\ worker \in [Ids -> {"absent", "online", "offline"}]
  /\ running \in [Ids -> Nat]
  /\ pc \in [Processes -> Places]
  /\ call \in [Processes -> Calls]
  /\ job \in [Processes -> Jobs \cup {NoJob}]
  /\ executed \in [Processes -> Nat]
  /\ faults \in Nat

Init ==
  /\ jobState = [j \in Jobs |-> "none"]
  /\ assigned = [j \in Jobs |-> NoId]
  /\ attempts = [j \in Jobs |-> 0]
  /\ worker = [w \in Ids |-> "absent"]
  /\ running = [w \in Ids |-> 0]
  /\ pc = [p \in Processes |-> "off"]
  /\ call = [p \in Processes |-> "none"]
  /\ job = [p \in Processes |-> NoJob]
  /\ executed = [p \in Processes |-> 0]
  /\ faults = 0

------------------------------------------------------------------------------
(* Mutations: plausible mistakes that the properties below must catch. *)

\* StartJob and FinishJob do not ask who the job is assigned to.
AssignedToAnyone(p) == jobState[job[p]] # "none"
\* FinishJob takes the outcome of a job that was not started again, too.
MayFinishUnstarted(p) ==
  assigned[job[p]] = IdOf[p] /\ IsActive(jobState[job[p]]) /\ running[IdOf[p]] > 0
\* One attempt too many.
AgainOnceMore(j) == IF attempts[j] <= MaxAttempts[j] THEN "queued" ELSE "failed"
\* Only the lease of a job that was started runs out.
LapsesOnceStarted(j) == jobState[j] = "running" /\ worker[assigned[j]] = "offline"
\* The expiry gives back a slot the row does not count.
GivesSlotBackAlways(j) == running' = [running EXCEPT ![assigned[j]] = @ - 1]
\* A heartbeat of a worker that is offline is recorded and leaves it offline.
StaysOffline(w) == worker' = [worker EXCEPT ![w] = IF @ = "absent" THEN "online" ELSE @]

------------------------------------------------------------------------------
(* Helpers. *)

\* The process runs its program.
Alive(p) == pc[p] \notin {"off", "ended"}

\* Its heartbeat loop runs: from its registration to its end.
Beating(p) == Alive(p) /\ pc[p] # "registering"

\* The worker identifier is heard of.
Heard(w) == \E p \in Processes : IdOf[p] = w /\ Beating(p)

\* The identifier is given to several processes.
Shared(w) == \E p, q \in Processes : p # q /\ IdOf[p] = w /\ IdOf[q] = w

UnstartedOf(w) == {j \in Jobs : jobState[j] = "leased" /\ assigned[j] = w}

\* What the planner may choose for worker w, over queued jobs with an attempt left.
Plannable(w) ==
  {j \in Jobs : /\ jobState[j] = "queued" /\ attempts[j] < MaxAttempts[j]
                /\ worker[w] = "online" /\ running[w] < Slots}

\* is_job_assigned_to_worker, as StartJob and FinishJob ask it.
AssignedToCaller(p) == assigned[job[p]] = IdOf[p]

\* FinishJob needs a running job, and a worker row that counts one: otherwise
\* the release throws.
MayFinish(p) ==
  AssignedToCaller(p) /\ jobState[job[p]] = "running" /\ running[assigned[job[p]]] > 0

\* The call of p has been handled.  A process that still waits gets the answer
\* and goes on, or its deadline passes first; nobody waits for the call of a
\* process that has ended.
Answer(p, place) ==
  /\ call' = [call EXCEPT ![p] = "none"]
  /\ \/ pc[p] # "ended" /\ pc' = [pc EXCEPT ![p] = place]
     \/ pc' = [pc EXCEPT ![p] = "ended"]

\* The process goes on to make a call.
Calling(p, place, kind) ==
  /\ pc' = [pc EXCEPT ![p] = place]
  /\ call' = [call EXCEPT ![p] = kind]

\* record_worker_heartbeat; the leases it renews are those of a worker that is
\* online from now on.
RecordHeartbeat(w) == worker' = [worker EXCEPT ![w] = "online"]

\* WorkerRecord::release of a slot, as the expiry calls it.
GiveSlotBack(j) ==
  running' = IF running[assigned[j]] > 0
             THEN [running EXCEPT ![assigned[j]] = @ - 1] ELSE running

\* A job that may be attempted again goes back to the queue, another one fails.
AgainOrFailed(j) == IF attempts[j] < MaxAttempts[j] THEN "queued" ELSE "failed"

------------------------------------------------------------------------------
(* The worker program. *)

\* main begins with RegisterWorker, reporting no running job.
Launch(p) ==
  /\ pc[p] = "off"
  /\ Calling(p, "registering", "register")
  /\ UNCHANGED <<jobVars, workerVars, job, executed, faults>>

\* The two seconds after an answer without a job are over.
PollAgain(p) ==
  /\ pc[p] = "waiting"
  /\ Calling(p, "acquiring", "acquire")
  /\ UNCHANGED <<jobVars, workerVars, job, executed, faults>>

\* execute_job returns; FinishJob is called with what it returned.
Execute(p) ==
  /\ pc[p] = "executing"
  /\ \E outcome \in Outcomes : Calling(p, "finishing", outcome)
  /\ UNCHANGED <<jobVars, workerVars, job, executed, faults>>

\* A call is not answered within its deadline, or fails: main returns 1.  It
\* stands also for the death of the process at any other point.
End(p) ==
  /\ Alive(p)
  /\ pc' = [pc EXCEPT ![p] = "ended"]
  /\ UNCHANGED <<jobVars, workerVars, call, job, executed, faults>>

\* A call never reaches the coordinator.
LoseCall(p) ==
  /\ call[p] # "none"
  /\ call' = [call EXCEPT ![p] = "none"]
  /\ pc' = [pc EXCEPT ![p] = "ended"]
  /\ UNCHANGED <<jobVars, workerVars, job, executed, faults>>

\* One round of the heartbeat thread.  Every heartbeat of a process finds its
\* worker registered.
Heartbeat(p) ==
  /\ Beating(p)
  /\ RecordHeartbeat(IdOf[p])
  /\ UNCHANGED <<jobVars, running, processVars, faults>>

------------------------------------------------------------------------------
(* The coordinator's handlers, each with what its caller does next. *)

SubmitJob(j) ==
  /\ jobState[j] = "none"
  /\ jobState' = [jobState EXCEPT ![j] = "queued"]
  /\ UNCHANGED <<assigned, attempts, workerVars, processVars, faults>>

\* The row of a known identifier is replaced whole, whoever holds jobs under it.
\* The caller starts its heartbeat thread and asks for a job.
HandleRegister(p) ==
  /\ call[p] = "register"
  /\ running' = [running EXCEPT ![IdOf[p]] = 0]
  /\ RecordHeartbeat(IdOf[p])
  /\ \/ pc[p] = "registering" /\ Calling(p, "acquiring", "acquire")
     \/ Answer(p, "ended")
  /\ UNCHANGED <<jobVars, job, executed, faults>>

\* The caller has got job j and asks to start it.
Given(p, j) ==
  \/ /\ pc[p] = "acquiring" /\ Calling(p, "starting", "start")
     /\ job' = [job EXCEPT ![p] = j]
  \/ Answer(p, "ended") /\ UNCHANGED job

\* A job that is leased to the worker already is handed out again.
HandleAcquireAgain(p, j) ==
  /\ call[p] = "acquire"
  /\ j \in UnstartedOf(IdOf[p])
  /\ Given(p, j)
  /\ UNCHANGED <<jobVars, workerVars, executed, faults>>

\* Otherwise a queued job is dispatched: row, attempt and slot.
HandleAcquire(p, j) ==
  /\ call[p] = "acquire"
  /\ UnstartedOf(IdOf[p]) = {} /\ j \in Plannable(IdOf[p])
  /\ jobState' = [jobState EXCEPT ![j] = "leased"]
  /\ assigned' = [assigned EXCEPT ![j] = IdOf[p]]
  /\ attempts' = [attempts EXCEPT ![j] = @ + 1]
  /\ running' = [running EXCEPT ![IdOf[p]] = @ + 1]
  /\ Given(p, j)
  /\ UNCHANGED <<worker, executed, faults>>

\* "No eligible job available; retrying..."
HandleAcquireNothing(p) ==
  /\ call[p] = "acquire"
  /\ UnstartedOf(IdOf[p]) = {} /\ Plannable(IdOf[p]) = {}
  /\ Answer(p, "waiting")
  /\ UNCHANGED <<jobVars, workerVars, job, executed, faults>>

\* StartJob of a job that is running already succeeds like the first one; the
\* caller that gets the answer executes the job.
HandleStart(p) ==
  LET j == job[p]
      accepted == AssignedToCaller(p) /\ jobState[j] \in {"leased", "running"}
  IN /\ call[p] = "start"
     /\ jobState' = IF accepted THEN [jobState EXCEPT ![j] = "running"] ELSE jobState
     /\ Answer(p, IF accepted THEN "executing" ELSE "ended")
     /\ executed' = IF pc'[p] = "executing"
                    THEN [executed EXCEPT ![p] = attempts[j]] ELSE executed
     /\ UNCHANGED <<assigned, attempts, workerVars, job, faults>>

\* A completion is stored or refused.  The caller ends in any case.
HandleFinish(p) ==
  LET j == job[p]
  IN /\ call[p] \in Outcomes
     /\ IF MayFinish(p)
        THEN /\ jobState' = [jobState EXCEPT ![j] = call[p]]
             /\ running' = [running EXCEPT ![assigned[j]] = @ - 1]
        ELSE UNCHANGED <<jobState, running>>
     /\ Answer(p, "ended")
     /\ UNCHANGED <<assigned, attempts, worker, job, executed, faults>>

------------------------------------------------------------------------------
(* The coordinator's monitor, and its restart. *)

\* A worker that is not heard of for too long is offline.  A live process is
\* silent when its heartbeats are lost, or it is suspended, for that long.
MarkOffline(w) ==
  /\ worker[w] = "online" /\ ~Heard(w)
  /\ worker' = [worker EXCEPT ![w] = "offline"]
  /\ UNCHANGED <<jobVars, running, processVars, faults>>

MarkSilentOffline(w) ==
  /\ worker[w] = "online" /\ Heard(w) /\ faults < MaxFaults
  /\ worker' = [worker EXCEPT ![w] = "offline"]
  /\ faults' = faults + 1
  /\ UNCHANGED <<jobVars, running, processVars>>

\* The lease of an active job can run out: its worker was silent even longer.
MayLapse(j) == IsActive(jobState[j]) /\ worker[assigned[j]] = "offline"

ExpireLease(j) ==
  /\ MayLapse(j)
  /\ jobState' = [jobState EXCEPT ![j] = "retry_wait"]
  /\ assigned' = [assigned EXCEPT ![j] = NoId]
  /\ GiveSlotBack(j)
  /\ UNCHANGED <<attempts, worker, processVars, faults>>

Requeue(j) ==
  /\ jobState[j] = "retry_wait"
  /\ jobState' = [jobState EXCEPT ![j] = AgainOrFailed(j)]
  /\ UNCHANGED <<assigned, attempts, workerVars, processVars, faults>>

\* The coordinator ends, the calls in progress with it, and another one recovers
\* the rows.  A process that waits for an answer ends; one that sleeps or
\* executes does not notice.
RestartCoordinator ==
  /\ faults < MaxFaults
  /\ faults' = faults + 1
  /\ jobState' = [j \in Jobs |->
       IF IsActive(jobState[j]) \/ jobState[j] \in {"queued", "retry_wait"}
       THEN AgainOrFailed(j) ELSE jobState[j]]
  /\ assigned' = [j \in Jobs |-> IF IsTerminal(jobState[j]) THEN assigned[j] ELSE NoId]
  /\ running' = [w \in Ids |-> 0]
  /\ call' = [p \in Processes |-> "none"]
  /\ pc' = [p \in Processes |-> IF call[p] # "none" THEN "ended" ELSE pc[p]]
  /\ UNCHANGED <<attempts, worker, job, executed>>

------------------------------------------------------------------------------
Handle(p) ==
  \/ HandleRegister(p)
  \/ \E j \in Jobs : HandleAcquireAgain(p, j) \/ HandleAcquire(p, j)
  \/ HandleAcquireNothing(p)
  \/ HandleStart(p)
  \/ HandleFinish(p)

Proceed(p) == PollAgain(p) \/ Execute(p)

Reclaim(j) == ExpireLease(j) \/ Requeue(j)

Next ==
  \/ \E p \in Processes :
       \/ Launch(p) \/ Proceed(p) \/ End(p) \/ LoseCall(p)
       \/ Heartbeat(p) \/ Handle(p)
  \/ \E w \in Ids : MarkOffline(w) \/ MarkSilentOffline(w)
  \/ \E j \in Jobs : SubmitJob(j) \/ Reclaim(j)
  \/ RestartCoordinator

Spec == Init /\ [][Next]_vars

\* The handlers and the monitor are threads that always go on; so are the main
\* thread of a live process, whose workload ends, and its heartbeat thread.
\* Nothing says that a process is launched or a job submitted, and the process
\* may die, lose its calls or fall silent, or the coordinator restart, at any
\* time or never.
Fairness ==
  /\ \A p \in Processes : WF_vars(Handle(p)) /\ WF_vars(Proceed(p)) /\ WF_vars(Heartbeat(p))
  /\ \A w \in Ids : WF_vars(MarkOffline(w))
  /\ \A j \in Jobs : WF_vars(Reclaim(j))

FairSpec == Spec /\ Fairness

------------------------------------------------------------------------------
(* Safety. *)

\* Two processes execute the same attempt of a job only if they were started
\* with the same identifier, across lost calls, late calls, expiries and
\* restarts of the coordinator (is_job_assigned_to_worker in StartJob).
AttemptExecutedOnce ==
  \A p, q \in Processes :
    executed[p] > 0 /\ executed[q] = executed[p] /\ job[q] = job[p]
      => IdOf[p] = IdOf[q]

\* A completion of job j is stored; a restart may fail an active job as well.
Settles(j) == IsActive(jobState[j]) /\ jobState'[j] \in Outcomes /\ faults' = faults

\* The StartJob of p for the attempt job j is on was accepted: p executes or has
\* executed that attempt.  A process that ended while it asked for it counts as
\* well: its call may have been accepted, and the answer come too late.
StartedBy(p, j) ==
  /\ job[p] = j /\ IdOf[p] = assigned[j]
  /\ \/ executed[p] = attempts[j]
     \/ executed[p] = 0 /\ pc[p] = "ended" /\ call[p] = "none"

\* A process reports that outcome after executing the job: the attempt the job
\* is on, or an earlier one while another process has started the current one.
Genuine(j) ==
  \E p \in Processes : /\ call[p] = jobState'[j] /\ call'[p] = "none"
                       /\ job[p] = j /\ executed[p] > 0
                       /\ \/ executed[p] = attempts[j]
                          \/ \E q \in Processes \ {p} :
                               IdOf[q] = IdOf[p] /\ StartedBy(q, j)

\* The outcome of a job is one that a process reported after executing that
\* job, and it executed the attempt that is settled by it: the completion of an
\* attempt that was taken away earlier is refused.  FinishJob carries no attempt
\* number, so there is one exception: a late completion is taken for the current
\* attempt once another process has started that under the same identifier.
\* While the job is only leased again, even to that identifier, it is refused.
CompletionIsGenuine == [][\A j \in Jobs : Settles(j) => Genuine(j)]_vars

\* The job rows live the abstract life of a job.
Lifecycle == INSTANCE JobLifecycle WITH state <- jobState
ImplementsLifecycle == Lifecycle!Spec

------------------------------------------------------------------------------
(* Liveness. *)

\* A job does not stay with a worker for ever: its process settles it, or the
\* job is taken back.  The exception is a worker identifier given to several
\* processes: while one of them lives, it renews the lease of a job that only
\* another one, perhaps dead, knows of.
HeldJobsEndUnlessShared ==
  \A j \in Jobs :
    IsActive(jobState[j])
      ~> (~IsActive(jobState[j]) \/ (Heard(assigned[j]) /\ Shared(assigned[j])))

Asking(p) == pc[p] \in {"acquiring", "waiting"}

\* Another process lives under the identifier of p.
HasRival(p) == \E q \in Processes \ {p} : IdOf[q] = IdOf[p] /\ Alive(q)

\* Jobs that were started take every slot of the worker row of p.
Full(p) == running[IdOf[p]] >= Slots /\ UnstartedOf(IdOf[p]) = {}

\* A process that asks for work gets a job as long as one is queued, although it
\* may be marked offline for a while, and although a predecessor under its
\* identifier, whose calls may be handled only now, left jobs behind: unless
\* these fill the row, or another process comes up under that identifier.
QueuedJobIsServed ==
  \A j \in Jobs : \A p \in Processes :
    (jobState[j] = "queued" /\ Asking(p))
      ~> (jobState[j] # "queued" \/ ~Asking(p) \/ HasRival(p) \/ Full(p))

------------------------------------------------------------------------------
(* What does not hold: see the violation run. *)

\* An active job is settled or taken back some time: "Expired job enters
\* RETRY_WAIT" (job_lease_expiration_tests.cpp).
HeldJobsEnd == \A j \in Jobs : IsActive(jobState[j]) ~> ~IsActive(jobState[j])
===============================================================================
