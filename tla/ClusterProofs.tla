---------------------------- MODULE ClusterProofs ----------------------------
(***************************************************************************)
(* Proofs about Cluster, for any number of jobs, processes and identifiers *)
(* and any sharing of identifiers among processes.                         *)
(***************************************************************************)
EXTENDS Cluster, TLAPS

------------------------------------------------------------------------------
(* The inductive invariant, in four parts. *)

\* Job rows: a new job has taken no attempt, a queued one has an attempt left, an
\* active one is on one of its attempts, and nobody asks for cancellations.
RowsInv ==
  \A j \in Jobs :
    /\ jobState[j] # "cancellation_requested"
    /\ jobState[j] = "none" => attempts[j] = 0
    /\ jobState[j] = "queued" => attempts[j] < MaxAttempts[j]
    /\ IsActive(jobState[j]) => attempts[j] > 0 /\ assigned[j] \in Ids

\* The program order of a worker process, seen from its pending call and its
\* main thread: it starts and finishes the job it was given, executes it in
\* between, and never asks for another one.
ProgramInv ==
  \A p \in Processes :
    /\ call[p] \in Outcomes \cup {"start"} => job[p] \in Jobs
    /\ call[p] \in Outcomes => executed[p] > 0
    /\ call[p] \in {"register", "acquire", "start"} => executed[p] = 0
    /\ pc[p] \in {"off", "registering", "acquiring", "waiting", "starting"} => executed[p] = 0
    /\ pc[p] = "executing" => executed[p] > 0 /\ job[p] \in Jobs

\* What a process has executed is an attempt the job has taken; as long as that
\* attempt lasts, it is assigned to the identifier of the process.
ExecutionInv ==
  \A p \in Processes : executed[p] > 0 =>
    /\ job[p] \in Jobs
    /\ executed[p] <= attempts[job[p]]
    /\ IsActive(jobState[job[p]]) /\ executed[p] = attempts[job[p]]
         => assigned[job[p]] = IdOf[p]

\* A job runs because a process of the identifier it is assigned to asked to
\* start the attempt it is on.
StartInv ==
  \A j \in Jobs : jobState[j] = "running" => \E q \in Processes : StartedBy(q, j)

Inv ==
  /\ TypeOK /\ RowsInv /\ ProgramInv /\ ExecutionInv
  /\ StartInv /\ AttemptExecutedOnce

\* The state is well typed after every step of a process, of the coordinator
\* and of its monitor.
LEMMA TypePreserved == TypeOK /\ ProgramInv /\ [Next]_vars => TypeOK'
<1> SUFFICES ASSUME TypeOK, ProgramInv, [Next]_vars PROVE TypeOK'
  OBVIOUS
<1> USE ClusterAssumption
<1>p. ASSUME NEW p \in Processes,
             Launch(p) \/ Proceed(p) \/ End(p) \/ LoseCall(p) \/ Heartbeat(p)
      PROVE  TypeOK'
  BY <1>p DEF TypeOK, Launch, Proceed, PollAgain, Execute, Calling, End, LoseCall,
     Heartbeat, RecordHeartbeat, Places, Calls, Outcomes, jobVars, workerVars, processVars
<1>1. ASSUME NEW p \in Processes, HandleRegister(p) PROVE TypeOK'
  BY <1>1 DEF TypeOK, HandleRegister, RecordHeartbeat, Calling, Answer, Places, Calls, jobVars
<1>2. ASSUME NEW p \in Processes, NEW j \in Jobs, HandleAcquireAgain(p, j) PROVE TypeOK'
  BY <1>2 DEF TypeOK, HandleAcquireAgain, Given, Calling, Answer, Places, Calls,
     jobVars, workerVars
<1>3. ASSUME NEW p \in Processes, NEW j \in Jobs, HandleAcquire(p, j) PROVE TypeOK'
  <2>1. jobState' \in [Jobs -> StoredOrNone]
    BY <1>3 DEF TypeOK, HandleAcquire, StoredOrNone, JobState
  <2> QED
    BY <1>3, <2>1 DEF TypeOK, HandleAcquire, Given, Calling, Answer, Places, Calls
<1>4. ASSUME NEW p \in Processes, HandleAcquireNothing(p) PROVE TypeOK'
  BY <1>4 DEF TypeOK, HandleAcquireNothing, Answer, Places, Calls, jobVars, workerVars
<1>5. ASSUME NEW p \in Processes, HandleStart(p) PROVE TypeOK'
  <2>1. jobState' \in [Jobs -> StoredOrNone]
    BY <1>5 DEF TypeOK, HandleStart, StoredOrNone, JobState
  <2>2. pc' \in [Processes -> Places] /\ call' \in [Processes -> Calls]
    BY <1>5 DEF TypeOK, HandleStart, Answer, Places, Calls
  <2>3. executed' \in [Processes -> Nat]
    <3>1. CASE pc'[p] # "executing"
      BY <1>5, <3>1 DEF TypeOK, HandleStart
    <3>2. CASE pc'[p] = "executing"
      BY <1>5, <3>2 DEF TypeOK, HandleStart, Answer, ProgramInv
    <3> QED
      BY <3>1, <3>2
  <2> QED
    BY <1>5, <2>1, <2>2, <2>3 DEF TypeOK, HandleStart, workerVars
<1>6. ASSUME NEW p \in Processes, HandleFinish(p) PROVE TypeOK'
  BY <1>6 DEF TypeOK, HandleFinish, MayFinish, AssignedToCaller, Answer, Places, Calls, Outcomes,
     StoredOrNone, JobState
<1>7. ASSUME NEW w \in Ids, MarkOffline(w) \/ MarkSilentOffline(w) PROVE TypeOK'
  BY <1>7 DEF TypeOK, MarkOffline, MarkSilentOffline, jobVars, processVars
<1>8. ASSUME NEW j \in Jobs, SubmitJob(j) PROVE TypeOK'
  BY <1>8 DEF TypeOK, SubmitJob, StoredOrNone, JobState, workerVars, processVars
<1>9. ASSUME NEW j \in Jobs, Reclaim(j) PROVE TypeOK'
  BY <1>9 DEF TypeOK, Reclaim, ExpireLease, MayLapse, IsActive, GiveSlotBack, Requeue,
     AgainOrFailed, StoredOrNone, JobState, workerVars, processVars
<1>10. ASSUME RestartCoordinator PROVE TypeOK'
  BY <1>10 DEF TypeOK, RestartCoordinator, AgainOrFailed, StoredOrNone, JobState,
     Places, Calls
<1>11. CASE UNCHANGED vars
  BY <1>11 DEF TypeOK, vars, jobVars, workerVars, processVars
<1> QED
  BY <1>p, <1>1, <1>2, <1>3, <1>4, <1>5, <1>6, <1>7, <1>8, <1>9, <1>10, <1>11 DEF Next, Handle

\* No process ever departs from the order of its program.
LEMMA ProgramPreserved == TypeOK /\ RowsInv /\ ProgramInv /\ [Next]_vars => ProgramInv'
<1> SUFFICES ASSUME TypeOK, RowsInv, ProgramInv, [Next]_vars PROVE ProgramInv'
  OBVIOUS
<1> USE DEF TypeOK, ProgramInv, Outcomes
<1>1. ASSUME NEW p \in Processes, Launch(p) \/ Proceed(p) PROVE ProgramInv'
  BY <1>1 DEF Launch, Proceed, PollAgain, Execute, Calling
<1>2. ASSUME NEW p \in Processes, End(p) \/ LoseCall(p) PROVE ProgramInv'
  BY <1>2 DEF End, LoseCall
<1>3. ASSUME NEW p \in Processes, HandleRegister(p) PROVE ProgramInv'
  BY <1>3 DEF HandleRegister, Calling, Answer
<1>4. ASSUME NEW p \in Processes, NEW j \in Jobs,
             HandleAcquireAgain(p, j) \/ HandleAcquire(p, j)
      PROVE  ProgramInv'
  <2>1. call[p] = "acquire" /\ Given(p, j) /\ UNCHANGED executed
    BY <1>4 DEF HandleAcquireAgain, HandleAcquire
  <2> QED
    BY <2>1 DEF Given, Calling, Answer
<1>5. ASSUME NEW p \in Processes, HandleAcquireNothing(p) PROVE ProgramInv'
  BY <1>5 DEF HandleAcquireNothing, Answer
<1>6. ASSUME NEW p \in Processes, HandleStart(p) PROVE ProgramInv'
  <2>1. job[p] \in Jobs /\ executed[p] = 0
    BY <1>6 DEF HandleStart
  <2>2. CASE pc'[p] = "executing"
    <3>1. IsActive(jobState[job[p]])
      BY <1>6, <2>2 DEF HandleStart, Answer, IsActive
    <3>2. attempts[job[p]] > 0
      BY <2>1, <3>1 DEF RowsInv
    <3> QED
      BY <1>6, <2>1, <2>2, <3>2 DEF HandleStart, Answer
  <2>3. CASE pc'[p] # "executing"
    BY <1>6, <2>1, <2>3 DEF HandleStart, Answer
  <2> QED
    BY <2>2, <2>3
<1>7. ASSUME NEW p \in Processes, HandleFinish(p) PROVE ProgramInv'
  BY <1>7 DEF HandleFinish, Answer
<1>8. CASE RestartCoordinator
  BY <1>8 DEF RestartCoordinator
<1>9. CASE UNCHANGED processVars
  BY <1>9 DEF processVars
<1>10. ASSUME \/ \E p \in Processes : Heartbeat(p)
              \/ \E w \in Ids : MarkOffline(w) \/ MarkSilentOffline(w)
              \/ \E j \in Jobs : SubmitJob(j) \/ Reclaim(j)
              \/ UNCHANGED vars
       PROVE  UNCHANGED processVars
  BY <1>10 DEF Heartbeat, MarkOffline, MarkSilentOffline, SubmitJob, Reclaim, ExpireLease,
     Requeue, vars
<1> QED
  BY <1>1, <1>2, <1>3, <1>4, <1>5, <1>6, <1>7, <1>8, <1>9, <1>10 DEF Next, Handle

\* The job rows stay sound over every step of the coordinator.
LEMMA RowsPreserved == Inv /\ [Next]_vars => RowsInv'
<1> SUFFICES ASSUME Inv, [Next]_vars PROVE RowsInv'
  OBVIOUS
<1> USE ClusterAssumption DEF Inv, TypeOK, RowsInv, IsActive
<1>1. CASE UNCHANGED jobVars
  BY <1>1 DEF jobVars
<1>2. ASSUME NEW p \in Processes, NEW j \in Jobs, HandleAcquire(p, j) PROVE RowsInv'
  BY <1>2 DEF HandleAcquire, Plannable
<1>3. ASSUME NEW p \in Processes, HandleStart(p) PROVE RowsInv'
  BY <1>3 DEF HandleStart, AssignedToCaller, ProgramInv
<1>4. ASSUME NEW p \in Processes, HandleFinish(p) PROVE RowsInv'
  BY <1>4 DEF HandleFinish, MayFinish, AssignedToCaller, ProgramInv, Outcomes
<1>5. ASSUME NEW j \in Jobs, SubmitJob(j) PROVE RowsInv'
  <2>1. attempts[j] < MaxAttempts[j]
    BY <1>5 DEF SubmitJob
  <2> QED
    BY <1>5, <2>1 DEF SubmitJob
<1>6. ASSUME NEW j \in Jobs, Reclaim(j) PROVE RowsInv'
  BY <1>6 DEF Reclaim, ExpireLease, MayLapse, Requeue, AgainOrFailed
<1>7. ASSUME RestartCoordinator PROVE RowsInv'
  BY <1>7 DEF RestartCoordinator, AgainOrFailed, IsTerminal
<1>8. CASE UNCHANGED vars
  BY <1>1, <1>8 DEF vars
<1>9. ASSUME NEW p \in Processes,
             \/ Launch(p) \/ Proceed(p) \/ End(p) \/ LoseCall(p) \/ Heartbeat(p)
             \/ HandleRegister(p) \/ HandleAcquireNothing(p)
             \/ \E j \in Jobs : HandleAcquireAgain(p, j)
      PROVE  UNCHANGED jobVars
  BY <1>9 DEF Launch, Proceed, PollAgain, Execute, End, LoseCall, Heartbeat, HandleRegister,
     HandleAcquireNothing, HandleAcquireAgain
<1>10. ASSUME NEW w \in Ids, MarkOffline(w) \/ MarkSilentOffline(w) PROVE UNCHANGED jobVars
  BY <1>10 DEF MarkOffline, MarkSilentOffline
<1> QED
  BY <1>1, <1>2, <1>3, <1>4, <1>5, <1>6, <1>7, <1>8, <1>9, <1>10 DEF Next, Handle

\* What a process has executed stays bound to the attempt the job has taken.
LEMMA ExecutionPreserved == Inv /\ [Next]_vars => ExecutionInv'
<1> SUFFICES ASSUME Inv, [Next]_vars PROVE ExecutionInv'
  OBVIOUS
<1> USE ClusterAssumption DEF Inv, TypeOK, ExecutionInv, IsActive
<1>1. CASE UNCHANGED <<jobVars, job, executed>>
  BY <1>1 DEF jobVars
<1>2. ASSUME NEW p \in Processes, NEW j \in Jobs, HandleAcquireAgain(p, j)
      PROVE  ExecutionInv'
  <2>1. executed[p] = 0 /\ UNCHANGED <<jobVars, executed>>
    BY <1>2 DEF HandleAcquireAgain, ProgramInv
  <2>2. \A q \in Processes \ {p} : job'[q] = job[q]
    BY <1>2 DEF HandleAcquireAgain, Given
  <2> QED
    BY <2>1, <2>2 DEF jobVars
<1>3. ASSUME NEW p \in Processes, NEW j \in Jobs, HandleAcquire(p, j)
      PROVE  ExecutionInv'
  <2>1. executed[p] = 0 /\ UNCHANGED executed /\ ~IsActive(jobState[j])
    BY <1>3 DEF HandleAcquire, Plannable, ProgramInv
  <2>2. \A q \in Processes \ {p} : job'[q] = job[q]
    BY <1>3 DEF HandleAcquire, Given
  <2>3. \A q \in Processes : executed[q] > 0 => q # p /\ job[q] \in Jobs
    BY <2>1
  <2>4. ASSUME NEW q \in Processes, executed[q] > 0, job[q] = j
        PROVE  executed[q] < attempts'[j]
    BY <1>3, <2>4 DEF HandleAcquire
  <2>5. \A k \in Jobs \ {j} : /\ jobState'[k] = jobState[k] /\ assigned'[k] = assigned[k]
                             /\ attempts'[k] = attempts[k]
    BY <1>3 DEF HandleAcquire
  <2>6. ASSUME NEW q \in Processes, executed'[q] > 0
        PROVE  /\ job'[q] \in Jobs
               /\ executed'[q] <= attempts'[job'[q]]
               /\ IsActive(jobState'[job'[q]]) /\ executed'[q] = attempts'[job'[q]]
                    => assigned'[job'[q]] = IdOf[q]
    <3>1. q # p /\ executed[q] > 0 /\ executed'[q] = executed[q]
          /\ job[q] \in Jobs /\ job'[q] = job[q]
      BY <2>1, <2>2, <2>3, <2>6
    <3>2. CASE job[q] = j
      <4>1. executed[q] < attempts'[j]
        BY <2>4, <3>1, <3>2
      <4>2. attempts'[j] \in Nat
        BY <1>3 DEF HandleAcquire
      <4> QED
        BY <3>1, <3>2, <4>1, <4>2
    <3>3. CASE job[q] # j
      BY <2>5, <3>1, <3>3
    <3> QED
      BY <3>2, <3>3
  <2> QED
    BY <2>6
<1>4. ASSUME NEW p \in Processes, HandleStart(p) PROVE ExecutionInv'
  <2>1. job[p] \in Jobs /\ executed[p] = 0
    BY <1>4 DEF HandleStart, ProgramInv, Outcomes
  <2>2. UNCHANGED <<job, assigned, attempts>> /\ \A k \in Jobs : IsActive(jobState'[k]) => IsActive(jobState[k])
    BY <1>4, <2>1 DEF HandleStart
  <2>3. \A q \in Processes \ {p} : executed'[q] = executed[q]
    BY <1>4 DEF HandleStart
  <2>4. executed'[p] > 0 => executed'[p] = attempts[job[p]] /\ assigned[job[p]] = IdOf[p]
    BY <1>4, <2>1 DEF HandleStart, Answer, AssignedToCaller
  <2> QED
    BY <2>1, <2>2, <2>3, <2>4
<1>5. ASSUME NEW p \in Processes, HandleFinish(p) PROVE ExecutionInv'
  <2>1. UNCHANGED <<job, assigned, attempts, executed>>
    BY <1>5 DEF HandleFinish
  <2>2. \A k \in Jobs : IsActive(jobState'[k]) => IsActive(jobState[k])
    BY <1>5 DEF HandleFinish, MayFinish, Outcomes
  <2> QED
    BY <2>1, <2>2
<1>6. ASSUME NEW j \in Jobs, SubmitJob(j) \/ Reclaim(j) PROVE ExecutionInv'
  <2>1. UNCHANGED <<job, attempts, executed>> /\ ~IsActive(jobState'[j])
    BY <1>6 DEF SubmitJob, Reclaim, ExpireLease, Requeue, AgainOrFailed, processVars
  <2>2. \A k \in Jobs \ {j} : jobState'[k] = jobState[k] /\ assigned'[k] = assigned[k]
    BY <1>6 DEF SubmitJob, Reclaim, ExpireLease, Requeue, processVars
  <2> QED
    BY <2>1, <2>2
<1>7. CASE RestartCoordinator
  <2>1. UNCHANGED <<job, attempts, executed>> /\ \A k \in Jobs : ~IsActive(jobState'[k])
    BY <1>7 DEF RestartCoordinator, AgainOrFailed
  <2> QED
    BY <2>1
<1>8. ASSUME \/ \E p \in Processes :
                  \/ Launch(p) \/ Proceed(p) \/ End(p) \/ LoseCall(p) \/ Heartbeat(p)
                  \/ HandleRegister(p) \/ HandleAcquireNothing(p)
             \/ \E w \in Ids : MarkOffline(w) \/ MarkSilentOffline(w)
             \/ UNCHANGED vars
      PROVE  UNCHANGED <<jobVars, job, executed>>
  BY <1>8 DEF Launch, Proceed, PollAgain, Execute, End, LoseCall, Heartbeat, HandleRegister,
     HandleAcquireNothing, MarkOffline, MarkSilentOffline, processVars, vars
<1> QED
  BY <1>1, <1>2, <1>3, <1>4, <1>5, <1>6, <1>7, <1>8 DEF Next, Handle

\* A process that has started the attempt a job is on has done so until that
\* attempt ends: it asks for no other job, or nothing is heard of it any more.
LEMMA StartedByKept ==
  ASSUME Inv, [Next]_vars, NEW q \in Processes, NEW j \in Jobs,
         jobState[j] = "running", StartedBy(q, j),
         attempts'[j] = attempts[j], assigned'[j] = assigned[j]
  PROVE  StartedBy(q, j)'
<1> USE DEF Inv, TypeOK, Outcomes
<1>1. SUFFICES /\ job'[q] = job[q] /\ executed'[q] = executed[q]
               /\ executed[q] = 0 => pc'[q] = pc[q] /\ call'[q] = call[q]
  BY DEF StartedBy
<1>2. executed[q] > 0 \/ (executed[q] = 0 /\ pc[q] = "ended" /\ call[q] = "none")
  <2>1. attempts[j] > 0
    BY DEF RowsInv, IsActive
  <2> QED
    BY <2>1 DEF StartedBy
<1>3. call[q] \notin {"register", "acquire", "start"} /\ pc[q] # "off"
  BY <1>2 DEF ProgramInv
<1>4. ASSUME NEW p \in Processes,
             \/ Launch(p) \/ Proceed(p) \/ End(p) \/ LoseCall(p) \/ Heartbeat(p)
      PROVE  /\ UNCHANGED <<job, executed>>
             /\ executed[q] = 0 => pc'[q] = pc[q] /\ call'[q] = call[q]
  BY <1>2, <1>3, <1>4 DEF Launch, Proceed, PollAgain, Execute, Calling, End, LoseCall,
     Heartbeat, Alive, processVars
<1>5. ASSUME NEW p \in Processes, Handle(p)
      PROVE  /\ job'[q] = job[q] /\ executed'[q] = executed[q]
             /\ executed[q] = 0 => pc'[q] = pc[q] /\ call'[q] = call[q]
  <2>1. CASE HandleRegister(p)
    BY <1>2, <1>3, <2>1 DEF HandleRegister, Calling, Answer
  <2>2. ASSUME NEW k \in Jobs, HandleAcquireAgain(p, k) \/ HandleAcquire(p, k)
        PROVE  /\ job'[q] = job[q] /\ executed'[q] = executed[q]
               /\ executed[q] = 0 => pc'[q] = pc[q] /\ call'[q] = call[q]
    <3>1. call[p] = "acquire" /\ Given(p, k) /\ UNCHANGED executed
      BY <2>2 DEF HandleAcquireAgain, HandleAcquire
    <3> QED
      BY <1>3, <3>1 DEF Given, Calling, Answer
  <2>3. CASE HandleAcquireNothing(p)
    BY <1>2, <1>3, <2>3 DEF HandleAcquireNothing, Answer
  <2>4. CASE HandleStart(p)
    BY <1>2, <1>3, <2>4 DEF HandleStart, Answer
  <2>5. CASE HandleFinish(p)
    BY <1>2, <1>3, <2>5 DEF HandleFinish, Answer
  <2> QED
    BY <1>5, <2>1, <2>2, <2>3, <2>4, <2>5 DEF Handle
<1>6. ASSUME \/ \E w \in Ids : MarkOffline(w) \/ MarkSilentOffline(w)
             \/ \E k \in Jobs : SubmitJob(k) \/ Reclaim(k)
             \/ UNCHANGED vars
      PROVE  UNCHANGED processVars
  BY <1>6 DEF MarkOffline, MarkSilentOffline, SubmitJob, Reclaim, ExpireLease, Requeue, vars
<1>7. CASE RestartCoordinator
  BY <1>2, <1>7 DEF RestartCoordinator
<1> QED
  BY <1>4, <1>5, <1>6, <1>7 DEF Next, processVars

\* Only an accepted StartJob makes a job run.
LEMMA StartPreserved == Inv /\ [Next]_vars => StartInv'
<1> SUFFICES ASSUME Inv, [Next]_vars, NEW j \in Jobs, jobState'[j] = "running"
             PROVE  \E q \in Processes : StartedBy(q, j)'
  BY DEF StartInv
<1> USE DEF Inv, TypeOK
<1> DEFINE Kept == /\ jobState[j] = "running"
                   /\ attempts'[j] = attempts[j] /\ assigned'[j] = assigned[j]
<1>1. CASE Kept
  <2>1. PICK q \in Processes : StartedBy(q, j)
    BY <1>1 DEF StartInv
  <2> QED
    BY <1>1, <2>1, StartedByKept
<1>2. ASSUME NEW p \in Processes, HandleStart(p), ~Kept
      PROVE  \E q \in Processes : StartedBy(q, j)'
  <2>1. job[p] = j /\ assigned[j] = IdOf[p] /\ executed[p] = 0
    BY <1>2 DEF HandleStart, AssignedToCaller, ProgramInv
  <2>2. StartedBy(p, j)'
    BY <1>2, <2>1 DEF HandleStart, Answer, AssignedToCaller, StartedBy
  <2> QED
    BY <2>2
<1>3. ASSUME NEW p \in Processes, HandleFinish(p) PROVE Kept
  BY <1>3 DEF HandleFinish, MayFinish, Outcomes
<1>4. ASSUME NEW p \in Processes, NEW k \in Jobs, HandleAcquire(p, k) PROVE Kept
  BY <1>4 DEF HandleAcquire, Plannable
<1>5. ASSUME NEW k \in Jobs, SubmitJob(k) \/ Reclaim(k) PROVE Kept
  BY <1>5 DEF SubmitJob, Reclaim, ExpireLease, Requeue, AgainOrFailed
<1>6. CASE RestartCoordinator
  BY <1>6 DEF RestartCoordinator, AgainOrFailed, IsActive
<1>7. ASSUME \/ \E p \in Processes :
                  \/ Launch(p) \/ Proceed(p) \/ End(p) \/ LoseCall(p) \/ Heartbeat(p)
                  \/ HandleRegister(p) \/ HandleAcquireNothing(p)
                  \/ \E k \in Jobs : HandleAcquireAgain(p, k)
             \/ \E w \in Ids : MarkOffline(w) \/ MarkSilentOffline(w)
             \/ UNCHANGED vars
      PROVE  Kept
  <2>1. UNCHANGED jobVars
    BY <1>7 DEF Launch, Proceed, PollAgain, Execute, End, LoseCall, Heartbeat, HandleRegister,
       HandleAcquireNothing, HandleAcquireAgain, MarkOffline, MarkSilentOffline, vars
  <2> QED
    BY <2>1 DEF jobVars
<1> QED
  BY <1>1, <1>2, <1>3, <1>4, <1>5, <1>6, <1>7 DEF Next, Handle

\* A process that begins to execute an attempt holds it under its identifier,
\* and so does every process that has executed it.
LEMMA OncePreserved == Inv /\ [Next]_vars => AttemptExecutedOnce'
<1> SUFFICES ASSUME Inv, [Next]_vars PROVE AttemptExecutedOnce'
  OBVIOUS
<1> USE DEF Inv, TypeOK
<1>1. ASSUME NEW p \in Processes, HandleStart(p) PROVE AttemptExecutedOnce'
  <2>1. job[p] \in Jobs /\ executed[p] = 0 /\ UNCHANGED job
    BY <1>1 DEF HandleStart, ProgramInv, Outcomes
  <2>2. \A q \in Processes \ {p} : executed'[q] = executed[q]
    BY <1>1 DEF HandleStart
  <2>3. executed'[p] > 0 => /\ executed'[p] = attempts[job[p]]
                            /\ assigned[job[p]] = IdOf[p] /\ IsActive(jobState[job[p]])
    BY <1>1, <2>1 DEF HandleStart, Answer, AssignedToCaller, IsActive
  <2>4. \A q \in Processes \ {p} :
          executed[q] > 0 /\ job[q] = job[p] /\ executed[q] = attempts[job[p]]
            /\ IsActive(jobState[job[p]]) => assigned[job[p]] = IdOf[q]
    BY DEF ExecutionInv
  <2> QED
    BY <2>1, <2>2, <2>3, <2>4 DEF AttemptExecutedOnce
<1>2. ASSUME NEW p \in Processes, NEW j \in Jobs,
             HandleAcquireAgain(p, j) \/ HandleAcquire(p, j)
      PROVE  AttemptExecutedOnce'
  <2>1. executed[p] = 0 /\ UNCHANGED executed /\ \A q \in Processes \ {p} : job'[q] = job[q]
    BY <1>2 DEF HandleAcquireAgain, HandleAcquire, Given, ProgramInv
  <2> QED
    BY <2>1 DEF AttemptExecutedOnce
<1>3. CASE UNCHANGED <<job, executed>>
  BY <1>3 DEF AttemptExecutedOnce
<1>4. ASSUME \/ \E p \in Processes :
                  \/ Launch(p) \/ Proceed(p) \/ End(p) \/ LoseCall(p) \/ Heartbeat(p)
                  \/ HandleRegister(p) \/ HandleAcquireNothing(p) \/ HandleFinish(p)
             \/ \E w \in Ids : MarkOffline(w) \/ MarkSilentOffline(w)
             \/ \E j \in Jobs : SubmitJob(j) \/ Reclaim(j)
             \/ RestartCoordinator
             \/ UNCHANGED vars
      PROVE  UNCHANGED <<job, executed>>
  BY <1>4 DEF Launch, Proceed, PollAgain, Execute, End, LoseCall, Heartbeat, HandleRegister,
     HandleAcquireNothing, HandleFinish, MarkOffline, MarkSilentOffline, SubmitJob, Reclaim,
     ExpireLease, Requeue, RestartCoordinator, processVars, vars
<1> QED
  BY <1>1, <1>2, <1>3, <1>4 DEF Next, Handle

------------------------------------------------------------------------------
\* The inductive invariant: types, rows, program order, executions and starts.
THEOREM ClusterInvariant == Spec => []Inv
<1>1. Init => Inv
  BY ClusterAssumption DEF Init, Inv, TypeOK, RowsInv, ProgramInv, ExecutionInv,
     StartInv, AttemptExecutedOnce, Places, Calls, Outcomes, StoredOrNone, JobState, IsActive
<1>2. Inv /\ [Next]_vars => Inv'
  BY TypePreserved, RowsPreserved, ProgramPreserved, ExecutionPreserved, StartPreserved,
     OncePreserved DEF Inv
<1> QED
  BY <1>1, <1>2, PTL DEF Spec

\* Everything the coordinator and the worker processes store has its type.
THEOREM ClusterTypeCorrect == Spec => []TypeOK
<1>1. Inv => TypeOK
  BY DEF Inv
<1> QED
  BY <1>1, ClusterInvariant, PTL

\* No two processes with different identifiers ever execute the same attempt.
THEOREM AttemptExecutedOnceAlways == Spec => []AttemptExecutedOnce
<1>1. Inv => AttemptExecutedOnce
  BY DEF Inv
<1> QED
  BY <1>1, ClusterInvariant, PTL

\* Every outcome that is stored comes from a process that executed the job, and
\* from the attempt it settles unless another process of the same identifier has
\* started that attempt.
THEOREM CompletionsAreGenuine == Spec => CompletionIsGenuine
<1>1. ASSUME Inv, [Next]_vars, NEW j \in Jobs, Settles(j) PROVE Genuine(j)
  <2> USE DEF Inv, TypeOK, Outcomes, Settles, Genuine
  <2>1. ASSUME NEW p \in Processes, HandleFinish(p) PROVE Genuine(j)
    <3>1. /\ job[p] = j /\ jobState[j] = "running"
          /\ call[p] = jobState'[j] /\ call'[p] = "none"
      BY <1>1, <2>1 DEF HandleFinish, MayFinish, Answer, ProgramInv, IsActive
    <3>2. executed[p] > 0 /\ assigned[j] = IdOf[p]
      BY <1>1, <2>1, <3>1 DEF HandleFinish, MayFinish, AssignedToCaller, ProgramInv
    <3>3. PICK q \in Processes : StartedBy(q, j)
      BY <1>1, <3>1 DEF StartInv
    <3>4. q = p => executed[p] = attempts[j]
      BY <3>2, <3>3 DEF StartedBy
    <3>5. IdOf[q] = IdOf[p]
      BY <3>2, <3>3 DEF StartedBy
    <3> QED
      BY <3>1, <3>2, <3>3, <3>4, <3>5
  <2>2. ASSUME NEW p \in Processes, HandleStart(p) PROVE FALSE
    BY <1>1, <2>2 DEF HandleStart, ProgramInv, IsActive
  <2>3. ASSUME NEW p \in Processes, NEW k \in Jobs, HandleAcquire(p, k) PROVE FALSE
    BY <1>1, <2>3 DEF HandleAcquire, IsActive
  <2>4. ASSUME NEW k \in Jobs, SubmitJob(k) \/ Reclaim(k) PROVE FALSE
    BY <1>1, <2>4 DEF SubmitJob, Reclaim, ExpireLease, Requeue, IsActive
  <2>5. ASSUME RestartCoordinator PROVE FALSE
    BY <1>1, <2>5 DEF RestartCoordinator
  <2>6. CASE UNCHANGED jobState
    BY <1>1, <2>6 DEF IsActive
  <2>7. ASSUME \/ \E p \in Processes :
                    \/ Launch(p) \/ Proceed(p) \/ End(p) \/ LoseCall(p) \/ Heartbeat(p)
                    \/ HandleRegister(p) \/ HandleAcquireNothing(p)
                    \/ \E k \in Jobs : HandleAcquireAgain(p, k)
               \/ \E w \in Ids : MarkOffline(w) \/ MarkSilentOffline(w)
               \/ UNCHANGED vars
        PROVE  UNCHANGED jobState
    BY <2>7 DEF Launch, Proceed, PollAgain, Execute, End, LoseCall, Heartbeat, HandleRegister,
       HandleAcquireNothing, HandleAcquireAgain, MarkOffline, MarkSilentOffline, jobVars, vars
  <2> QED
    BY <1>1, <2>1, <2>2, <2>3, <2>4, <2>5, <2>6, <2>7 DEF Next, Handle
<1>2. Inv /\ [Next]_vars => [\A j \in Jobs : Settles(j) => Genuine(j)]_vars
  BY <1>1
<1> QED
  BY <1>2, ClusterInvariant, PTL DEF Spec, CompletionIsGenuine

\* Whatever the processes do, the job rows live the abstract life of a job.
THEOREM ClusterImplementsLifecycle == Spec => ImplementsLifecycle
<1>1. Init => Lifecycle!Init
  BY DEF Init, Lifecycle!Init
<1>2. Inv /\ [Next]_vars => [Lifecycle!Next]_(Lifecycle!vars)
  <2> SUFFICES ASSUME Inv, [Next]_vars
               PROVE  Lifecycle!Next \/ UNCHANGED <<jobState, attempts>>
    BY DEF Lifecycle!vars
  <2> USE DEF Inv, TypeOK, RowsInv, Lifecycle!Next, Lifecycle!Move
  <2>1. ASSUME NEW j \in Jobs, SubmitJob(j) PROVE Lifecycle!Next
    BY <2>1 DEF SubmitJob, Lifecycle!Submit
  <2>2. ASSUME NEW p \in Processes, NEW j \in Jobs, HandleAcquire(p, j) PROVE Lifecycle!Next
    BY <2>2 DEF HandleAcquire, Plannable, Lifecycle!Attempt
  <2>3. ASSUME NEW p \in Processes, HandleStart(p)
        PROVE  Lifecycle!Next \/ UNCHANGED <<jobState, attempts>>
    <3>1. job[p] \in Jobs
      BY <2>3 DEF HandleStart, ProgramInv, Outcomes
    <3> QED
      BY <2>3, <3>1 DEF HandleStart, Lifecycle!Start
  <2>4. ASSUME NEW p \in Processes, HandleFinish(p)
        PROVE  Lifecycle!Next \/ UNCHANGED <<jobState, attempts>>
    <3>1. job[p] \in Jobs
      BY <2>4 DEF HandleFinish, ProgramInv, Outcomes
    <3> QED
      BY <2>4, <3>1 DEF HandleFinish, MayFinish, Outcomes, Lifecycle!Finish
  <2>5. ASSUME NEW j \in Jobs, ExpireLease(j) PROVE Lifecycle!Next
    BY <2>5 DEF ExpireLease, MayLapse, IsActive, Lifecycle!Abandon
  <2>6. ASSUME NEW j \in Jobs, Requeue(j) PROVE Lifecycle!Next
    BY <2>6 DEF Requeue, AgainOrFailed, Lifecycle!Retry, Lifecycle!Again
  <2>7. CASE RestartCoordinator
    <3>1. \A j \in Jobs : jobState'[j] =
            IF jobState[j] \in {"leased", "running", "retry_wait"}
            THEN Lifecycle!Again(j) ELSE jobState[j]
      BY <2>7 DEF RestartCoordinator, AgainOrFailed, IsActive, Lifecycle!Again
    <3> QED
      BY <2>7, <3>1 DEF RestartCoordinator, Lifecycle!Restart
  <2>8. ASSUME \/ \E p \in Processes :
                    \/ Launch(p) \/ Proceed(p) \/ End(p) \/ LoseCall(p) \/ Heartbeat(p)
                    \/ HandleRegister(p) \/ HandleAcquireNothing(p)
                    \/ \E k \in Jobs : HandleAcquireAgain(p, k)
               \/ \E w \in Ids : MarkOffline(w) \/ MarkSilentOffline(w)
               \/ UNCHANGED vars
        PROVE  UNCHANGED <<jobState, attempts>>
    BY <2>8 DEF Launch, Proceed, PollAgain, Execute, End, LoseCall, Heartbeat, HandleRegister,
       HandleAcquireNothing, HandleAcquireAgain, MarkOffline, MarkSilentOffline, jobVars, vars
  <2> QED
    BY <2>1, <2>2, <2>3, <2>4, <2>5, <2>6, <2>7, <2>8 DEF Next, Handle, Reclaim
<1> QED
  BY <1>1, <1>2, ClusterInvariant, PTL DEF Spec, ImplementsLifecycle, Lifecycle!Spec
===============================================================================
