------------------------- MODULE CoordinatorProofs -------------------------
(***************************************************************************)
(* Safety of Coordinator for any sets of jobs and workers, any capacities, *)
(* attempt limits, priorities and bounds.                                  *)
(***************************************************************************)
EXTENDS Coordinator, TLAPS, FiniteSetTheorems

\* What recording a heartbeat leaves of the types.
LEMMA RecordHeartbeatType ==
  ASSUME TypeOK, NEW w \in Workers, NEW t \in Nat, RecordHeartbeat(w, t)
  PROVE  /\ workerState' \in [Workers -> {"absent", "online", "offline"}]
         /\ lastHeartbeat' \in [Workers -> Nat]
         /\ lease' \in [Jobs -> Nat \cup {NoLease}]
<1>1. t + LeaseDuration \in Nat
  BY TimeAssumption
<1>2. lease' \in [Jobs -> Nat \cup {NoLease}]
  BY <1>1 DEF TypeOK, RecordHeartbeat
<1> QED
  BY <1>2 DEF TypeOK, RecordHeartbeat

\* Releasing a job that may be released leaves natural numbers.
LEMMA ReleaseType ==
  ASSUME TypeOK, NEW w \in Workers, NEW j \in Jobs, CanRelease(j, w), Release(j, w)
  PROVE  running' \in [Workers -> Nat] /\ free' \in [Workers -> Nat]
<1>1. running[w] - 1 \in Nat /\ free[w] + Req[j] \in Nat
  BY ResourcesAssumption DEF TypeOK, CanRelease
<1> QED
  BY <1>1 DEF TypeOK, Release

\* Every variable keeps its type: in particular no free resource and no count
\* of running jobs ever becomes negative, whichever release comes first.
THEOREM TypeCorrect == Spec => []TypeOK
<1>1. Init => TypeOK
  BY ResourcesAssumption DEF Init, TypeOK, Phases, StoredOrNone, NoLease, NotQueued
<1>2. TypeOK /\ [Next]_vars => TypeOK'
  <2> SUFFICES ASSUME TypeOK, [Next]_vars PROVE TypeOK'
    OBVIOUS
  <2> USE DEF TypeOK, monitorVars, jobVars, workerVars
  <2>1. ASSUME NEW j \in Jobs, SubmitJob(j) PROVE TypeOK'
    BY <2>1 DEF SubmitJob, StoreAndEnqueue, StoredOrNone, JobState
  <2>2. ASSUME NEW w \in Workers, RegisterWorker(w) PROVE TypeOK'
    <3>1. running' \in [Workers -> Nat] /\ free' \in [Workers -> Nat]
      BY <2>2, ResourcesAssumption DEF RegisterWorker
    <3>2. RecordHeartbeat(w, now) /\ now \in Nat
      BY <2>2 DEF RegisterWorker
    <3>3. disowned' \in SUBSET Workers
      BY <2>2 DEF RegisterWorker
    <3>4. /\ workerState' \in [Workers -> {"absent", "online", "offline"}]
          /\ lastHeartbeat' \in [Workers -> Nat]
          /\ lease' \in [Jobs -> Nat \cup {NoLease}]
      BY <3>2, RecordHeartbeatType
    <3> QED BY <2>2, <3>1, <3>3, <3>4 DEF RegisterWorker
  <2>3. ASSUME NEW w \in Workers, HeartbeatArrives(w) PROVE TypeOK'
    BY <2>3 DEF HeartbeatArrives
  <2>4. ASSUME NEW w \in Workers, NEW t \in heartbeats[w], HeartbeatApplied(w, t)
        PROVE  TypeOK'
    <3>1. CASE workerState[w] = "absent"
      BY <2>4, <3>1 DEF HeartbeatApplied
    <3>2. CASE workerState[w] # "absent"
      BY <2>4, <3>2, RecordHeartbeatType DEF HeartbeatApplied
    <3> QED BY <3>1, <3>2
  <2>5. ASSUME NEW w \in Workers, NEW j \in Jobs, AcquireJob(w, j) PROVE TypeOK'
    <3>1. queue[j] + 1 \in Nat
      BY <2>5 DEF AcquireJob, ApplyDispatchDecision, Reserve, Planned
    <3>2. now + LeaseDuration \in Nat
      BY TimeAssumption
    <3>3. running[w] + 1 \in Nat /\ free[w] - Req[j] \in Nat
      <4>1. Req[j] <= free[w]
        BY <2>5 DEF AcquireJob, ApplyDispatchDecision, Reserve, Planned, Eligible
      <4>2. running[w] \in Nat /\ free[w] \in Nat /\ Req[j] \in Nat
        BY ResourcesAssumption
      <4> QED BY <4>1, <4>2
    <3>4. "leased" \in StoredOrNone
      BY DEF StoredOrNone, JobState
    <3>5. /\ running' \in [Workers -> Nat]
          /\ free' \in [Workers -> Nat]
          /\ attempts' \in [Jobs -> Nat]
      BY <2>5, <3>1, <3>3 DEF AcquireJob, ApplyDispatchDecision, Reserve
    <3>6. /\ queue' \in [Jobs -> Nat \cup {NotQueued}]
          /\ lease' \in [Jobs -> Nat \cup {NoLease}]
          /\ jobState' \in [Jobs -> StoredOrNone]
          /\ assigned' \in [Jobs -> Workers \cup {NoWorker}]
      BY <2>5, <3>2, <3>4 DEF AcquireJob, ApplyDispatchDecision, Reserve
    <3> QED BY <2>5, <3>5, <3>6 DEF AcquireJob, ApplyDispatchDecision, Reserve
  <2>6. ASSUME NEW w \in Workers, NEW j \in Jobs, StartJob(w, j) PROVE TypeOK'
    BY <2>6, TimeAssumption DEF StartJob, MarkRunning, StoredOrNone, JobState
  <2>7. ASSUME NEW w \in Workers, NEW j \in Jobs,
               NEW outcome \in {"succeeded", "failed"}, FinishJob(w, j, outcome)
        PROVE  TypeOK'
    <3>1. outcome \in StoredOrNone
      BY DEF StoredOrNone, JobState
    <3> QED BY <2>7, <3>1, ReleaseType DEF FinishJob, FinishAssigned
  <2>8. CASE ScanCapture
    BY <2>8 DEF ScanCapture, Phases
  <2>9. CASE ScanStale
    BY <2>9 DEF ScanStale, Phases, Due
  <2>10. ASSUME NEW j \in Jobs, ScanExpire(j) PROVE TypeOK'
    <3>1. ExpiredState(jobState[j]) \in StoredOrNone
      BY DEF ExpiredState, StoredOrNone, JobState
    <3>2. running' \in [Workers -> Nat] /\ free' \in [Workers -> Nat]
      <4>1. CASE IsActive(jobState[j]) /\ ReleasesOnExpiry(j)
        <5>1. assigned[j] \in Workers /\ CanRelease(j, assigned[j]) /\ Release(j, assigned[j])
          BY <2>10, <4>1 DEF ScanExpire, ScanThrows, ReleasesOnExpiry
        <5> QED BY <5>1, ReleaseType
      <4>2. CASE ~(IsActive(jobState[j]) /\ ReleasesOnExpiry(j))
        BY <2>10, <4>2 DEF ScanExpire
      <4> QED BY <4>1, <4>2
    <3> QED BY <2>10, <3>1, <3>2 DEF ScanExpire
  <2>11. CASE ScanRequeueBegins
    BY <2>11 DEF ScanRequeueBegins, Phases
  <2>12. ASSUME NEW j \in Jobs, ScanRequeue(j) PROVE TypeOK'
    BY <2>12 DEF ScanRequeue, AgainOrFailed, StoredOrNone, JobState
  <2>13. CASE ScanEnd
    BY <2>13 DEF ScanEnd, Phases
  <2>14. CASE ScanFails
    BY <2>14 DEF ScanFails, Phases
  <2>15. CASE Tick
    BY <2>15 DEF Tick
  <2>16. CASE Stop
    BY <2>16 DEF Stop, Phases
  <2>17. CASE Restart
    BY <2>17, ResourcesAssumption

          DEF Restart, RecoveredQueue, RecoveredState, AgainOrFailed,
              StoredOrNone, JobState
  <2>18. CASE UNCHANGED vars
    BY <2>18 DEF vars
  <2> QED
    BY <2>1, <2>2, <2>3, <2>4, <2>5, <2>6, <2>7, <2>8, <2>9, <2>10, <2>11,
       <2>12, <2>13, <2>14, <2>15, <2>16, <2>17, <2>18
       DEF Next, Handler, Monitor
<1> QED
  BY <1>1, <1>2, PTL DEF Spec

------------------------------------------------------------------------------
(* The lease discipline. *)

\* The rows of active jobs name a registered worker and carry a lease, the rows
\* of all others carry none, through every expiry, requeueing and restart.
THEOREM LeaseDisciplineHolds == Spec => []LeaseDiscipline
<1>1. Init => LeaseDiscipline
  BY DEF Init, LeaseDiscipline, IsActive
<1>2. TypeOK /\ LeaseDiscipline /\ [Next]_vars => LeaseDiscipline'
  <2> SUFFICES ASSUME TypeOK, LeaseDiscipline, [Next]_vars PROVE LeaseDiscipline'
    OBVIOUS
  <2> USE DEF LeaseDiscipline, TypeOK, IsActive, monitorVars, jobVars, workerVars
  <2>1. ASSUME NEW j \in Jobs, SubmitJob(j) PROVE LeaseDiscipline'
    BY <2>1 DEF SubmitJob, StoreAndEnqueue
  <2>2. ASSUME NEW w \in Workers, NEW t \in Nat, RecordHeartbeat(w, t),
               UNCHANGED <<jobState, assigned, attempts>>
        PROVE  LeaseDiscipline'
    <3>1. t + LeaseDuration # NoLease
      BY TimeAssumption DEF NoLease
    <3> QED BY <2>2, <3>1 DEF RecordHeartbeat, ActiveOn
  <2>3. ASSUME NEW w \in Workers, RegisterWorker(w) PROVE LeaseDiscipline'
    BY <2>2, <2>3 DEF RegisterWorker
  <2>4. ASSUME NEW w \in Workers, HeartbeatArrives(w) PROVE LeaseDiscipline'
    BY <2>4 DEF HeartbeatArrives
  <2>5. ASSUME NEW w \in Workers, NEW t \in heartbeats[w], HeartbeatApplied(w, t)
        PROVE  LeaseDiscipline'
    <3>1. CASE workerState[w] = "absent"
      BY <2>5, <3>1 DEF HeartbeatApplied
    <3>2. CASE workerState[w] # "absent"
      BY <2>2, <2>5, <3>2 DEF HeartbeatApplied
    <3> QED BY <3>1, <3>2
  <2>6. ASSUME NEW w \in Workers, NEW j \in Jobs, AcquireJob(w, j)
        PROVE  LeaseDiscipline'
    <3>1. now + LeaseDuration # NoLease /\ queue[j] + 1 > 0
      BY <2>6, TimeAssumption
         DEF AcquireJob, ApplyDispatchDecision, Reserve, Planned, NoLease,
             NotQueued
    <3> QED BY <2>6, <3>1 DEF AcquireJob, ApplyDispatchDecision, Reserve
  <2>7. ASSUME NEW w \in Workers, NEW j \in Jobs, StartJob(w, j)
        PROVE  LeaseDiscipline'
    <3>1. now + LeaseDuration # NoLease
      BY TimeAssumption DEF NoLease
    <3> QED BY <2>7, <3>1 DEF StartJob, MarkRunning
  <2>8. ASSUME NEW w \in Workers, NEW j \in Jobs,
               NEW outcome \in {"succeeded", "failed"}, FinishJob(w, j, outcome)
        PROVE  LeaseDiscipline'
    BY <2>8 DEF FinishJob, FinishAssigned
  <2>9. CASE ScanStale
    BY <2>9 DEF ScanStale
  <2>10. ASSUME NEW j \in Jobs, ScanExpire(j) PROVE LeaseDiscipline'
    BY <2>10 DEF ScanExpire, ExpiredState
  <2>11. ASSUME NEW j \in Jobs, ScanRequeue(j) PROVE LeaseDiscipline'
    BY <2>11 DEF ScanRequeue, AgainOrFailed, ScanThrows
  <2>12. CASE Restart
    BY <2>12 DEF Restart, RecoveredQueue, RecoveredState, AgainOrFailed, IsTerminal,
                 StoredOrNone, JobState
  <2>13. CASE UNCHANGED <<jobVars, workerVars>>
    BY <2>13
  <2>14. CASE ScanCapture \/ ScanRequeueBegins \/ ScanEnd \/ ScanFails \/ Tick \/ Stop
    BY <2>13, <2>14
       DEF ScanCapture, ScanRequeueBegins, ScanEnd, ScanFails, Tick, Stop
  <2>15. CASE UNCHANGED vars
    BY <2>13, <2>15 DEF vars
  <2> QED
    BY <2>1, <2>3, <2>4, <2>5, <2>6, <2>7, <2>8, <2>9, <2>10, <2>11, <2>12,
       <2>14, <2>15
       DEF Next, Handler, Monitor
<1> QED
  BY <1>1, <1>2, TypeCorrect, PTL DEF Spec

------------------------------------------------------------------------------
(* The monitor takes jobs away from offline workers only. *)

\* No recorded or waiting clock reading lies in the future: what makes a new
\* lease at least as long as one counted from the last heartbeat.
ClockInv ==
  \A w \in Workers : lastHeartbeat[w] <= now /\ \A t \in heartbeats[w] : t <= now

\* The clock only goes forward, so readings taken before the mutex stay in the
\* past, whenever they are recorded.
THEOREM ClockInvHolds == Spec => []ClockInv
<1>1. Init => ClockInv
  BY DEF Init, ClockInv
<1>2. TypeOK /\ ClockInv /\ [Next]_vars => ClockInv'
  <2> SUFFICES ASSUME TypeOK, ClockInv, [Next]_vars PROVE ClockInv'
    OBVIOUS
  <2> USE DEF ClockInv, TypeOK, monitorVars, jobVars, workerVars
  <2>1. ASSUME NEW w \in Workers, RegisterWorker(w) PROVE ClockInv'
    BY <2>1 DEF RegisterWorker, RecordHeartbeat
  <2>2. ASSUME NEW w \in Workers, HeartbeatArrives(w) PROVE ClockInv'
    BY <2>2 DEF HeartbeatArrives
  <2>3. ASSUME NEW w \in Workers, NEW t \in heartbeats[w], HeartbeatApplied(w, t)
        PROVE  ClockInv'
    BY <2>3 DEF HeartbeatApplied, RecordHeartbeat
  <2>4. CASE Tick
    BY <2>4 DEF Tick
  <2>5. CASE Stop
    BY <2>5 DEF Stop
  <2>6. CASE UNCHANGED <<now, heartbeats, lastHeartbeat>>
    BY <2>6
  <2>7. ASSUME NEW w \in Workers, NEW j \in Jobs,
               \/ AcquireJob(w, j) \/ StartJob(w, j)
               \/ \E outcome \in {"succeeded", "failed"} : FinishJob(w, j, outcome)
        PROVE  ClockInv'
    BY <2>6, <2>7
       DEF AcquireJob, ApplyDispatchDecision, Reserve, StartJob, MarkRunning,
           FinishJob, FinishAssigned
  <2>8. ASSUME NEW j \in Jobs, SubmitJob(j) \/ ScanExpire(j) \/ ScanRequeue(j)
        PROVE  ClockInv'
    BY <2>6, <2>8 DEF SubmitJob, StoreAndEnqueue, ScanExpire, ScanRequeue
  <2>9. CASE ScanCapture \/ ScanStale \/ ScanRequeueBegins \/ ScanEnd \/ ScanFails
             \/ Restart
    BY <2>6, <2>9
       DEF ScanCapture, ScanStale, ScanRequeueBegins, ScanEnd, ScanFails,
           Restart, RecoveredQueue
  <2>10. CASE UNCHANGED vars
    BY <2>6, <2>10 DEF vars
  <2> QED
    BY <2>1, <2>2, <2>3, <2>4, <2>5, <2>7, <2>8, <2>9, <2>10
       DEF Next, Handler, Monitor
<1> QED
  BY <1>1, <1>2, TypeCorrect, PTL DEF Spec

\* Heartbeats recorded late or out of order never leave a job with less than a
\* full lease from its worker's last recorded heartbeat.
THEOREM LeaseCovered == Spec => []LeaseCoversHeartbeat
<1>1. Init => LeaseCoversHeartbeat
  BY DEF Init, LeaseCoversHeartbeat, ActiveOn, IsActive
<1>2. TypeOK /\ ClockInv /\ LeaseCoversHeartbeat /\ [Next]_vars => LeaseCoversHeartbeat'
  <2> SUFFICES ASSUME TypeOK, ClockInv, LeaseCoversHeartbeat, [Next]_vars
               PROVE  LeaseCoversHeartbeat'
    OBVIOUS
  <2> USE TimeAssumption
      DEF LeaseCoversHeartbeat, ClockInv, TypeOK, ActiveOn, IsActive,
          monitorVars, jobVars, workerVars
  <2>1. ASSUME NEW j \in Jobs, SubmitJob(j) PROVE LeaseCoversHeartbeat'
    BY <2>1 DEF SubmitJob, StoreAndEnqueue
  <2>2. ASSUME NEW w \in Workers, NEW t \in Nat, RecordHeartbeat(w, t),
               UNCHANGED <<jobState, assigned>>
        PROVE  LeaseCoversHeartbeat'
    BY <2>2 DEF RecordHeartbeat
  <2>3. ASSUME NEW w \in Workers, RegisterWorker(w) PROVE LeaseCoversHeartbeat'
    BY <2>2, <2>3 DEF RegisterWorker
  <2>4. ASSUME NEW w \in Workers, NEW t \in heartbeats[w], HeartbeatApplied(w, t)
        PROVE  LeaseCoversHeartbeat'
    BY <2>2, <2>4 DEF HeartbeatApplied
  <2>5. ASSUME NEW w \in Workers, NEW j \in Jobs, AcquireJob(w, j)
        PROVE  LeaseCoversHeartbeat'
    BY <2>5 DEF AcquireJob, ApplyDispatchDecision, Reserve
  <2>6. ASSUME NEW w \in Workers, NEW j \in Jobs, StartJob(w, j)
        PROVE  LeaseCoversHeartbeat'
    BY <2>6 DEF StartJob, MarkRunning
  <2>7. ASSUME NEW w \in Workers, NEW j \in Jobs,
               NEW outcome \in {"succeeded", "failed"}, FinishJob(w, j, outcome)
        PROVE  LeaseCoversHeartbeat'
    BY <2>7 DEF FinishJob, FinishAssigned
  <2>8. ASSUME NEW j \in Jobs, ScanExpire(j) PROVE LeaseCoversHeartbeat'
    BY <2>8 DEF ScanExpire, ExpiredState
  <2>9. ASSUME NEW j \in Jobs, ScanRequeue(j) PROVE LeaseCoversHeartbeat'
    BY <2>9 DEF ScanRequeue, AgainOrFailed
  <2>10. CASE Restart
    BY <2>10
       DEF Restart, RecoveredQueue, RecoveredState, AgainOrFailed, StoredOrNone,
           JobState
  <2>11. CASE UNCHANGED <<jobState, assigned, lease, lastHeartbeat>>
    BY <2>11
  <2>12. ASSUME NEW w \in Workers, HeartbeatArrives(w) PROVE LeaseCoversHeartbeat'
    BY <2>11, <2>12 DEF HeartbeatArrives
  <2>13. CASE ScanCapture \/ ScanStale \/ ScanRequeueBegins \/ ScanEnd \/ ScanFails
              \/ Tick \/ Stop
    BY <2>11, <2>13
       DEF ScanCapture, ScanStale, ScanRequeueBegins, ScanEnd, ScanFails, Tick, Stop
  <2>14. CASE UNCHANGED vars
    BY <2>11, <2>14 DEF vars
  <2> QED
    BY <2>1, <2>3, <2>4, <2>5, <2>6, <2>7, <2>8, <2>9, <2>10, <2>12, <2>13, <2>14
       DEF Next, Handler, Monitor
<1> QED
  BY <1>1, <1>2, TypeCorrect, ClockInvHolds, PTL DEF Spec

\* What the loops of a scan rely on holds from one record to the next: the
\* handlers are locked out, and treating a record disturbs no other one.
THEOREM MonitorInvHolds == Spec => []MonitorInv
<1>1. Init => MonitorInv
  BY DEF Init, MonitorInv
<1>2. TypeOK /\ MonitorInv /\ [Next]_vars => MonitorInv'
  <2> SUFFICES ASSUME TypeOK, MonitorInv, [Next]_vars PROVE MonitorInv'
    OBVIOUS
  <2> USE TimeAssumption
     DEF MonitorInv, TypeOK, Serving, monitorVars, jobVars, workerVars
  <2>1. ASSUME Serving, up' = up, scanPhase' = scanPhase, scanTodo' = scanTodo
        PROVE  MonitorInv'
    BY <2>1
  <2>2. ASSUME NEW w \in Workers, NEW j \in Jobs,
               \/ AcquireJob(w, j) \/ StartJob(w, j)
               \/ \E outcome \in {"succeeded", "failed"} : FinishJob(w, j, outcome)
        PROVE  MonitorInv'
    BY <2>1, <2>2
       DEF AcquireJob, ApplyDispatchDecision, Reserve, StartJob, MarkRunning,
           FinishJob, FinishAssigned
  <2>3. ASSUME NEW w \in Workers, HeartbeatArrives(w) PROVE MonitorInv'
    BY <2>3 DEF HeartbeatArrives
  <2>4. CASE ScanCapture
    BY <2>4 DEF ScanCapture
  <2>5. CASE ScanStale
    BY <2>5 DEF ScanStale, Stale, Due
  <2>6. ASSUME NEW j \in Jobs, ScanExpire(j) PROVE MonitorInv'
    BY <2>6 DEF ScanExpire
  <2>7. CASE ScanRequeueBegins
    BY <2>7 DEF ScanRequeueBegins
  <2>8. ASSUME NEW j \in Jobs, ScanRequeue(j) PROVE MonitorInv'
    BY <2>8 DEF ScanRequeue
  <2>9. CASE ScanEnd \/ ScanFails
    BY <2>9 DEF ScanEnd, ScanFails
  <2>10. CASE Tick
    BY <2>10 DEF Tick
  <2>11. CASE Stop
    BY <2>11 DEF Stop
  <2>12. CASE Restart
    BY <2>12 DEF Restart, RecoveredQueue
  <2>13. CASE UNCHANGED vars
    BY <2>13 DEF vars
  <2>14. ASSUME NEW j \in Jobs, SubmitJob(j) PROVE MonitorInv'
    BY <2>1, <2>14 DEF SubmitJob, StoreAndEnqueue
  <2>15. ASSUME NEW w \in Workers,
                RegisterWorker(w) \/ \E t \in heartbeats[w] : HeartbeatApplied(w, t)
         PROVE  MonitorInv'
    BY <2>1, <2>15 DEF RegisterWorker, HeartbeatApplied
  <2> QED
    BY <2>2, <2>3, <2>4, <2>5, <2>6, <2>7, <2>8, <2>9, <2>10, <2>11, <2>12, <2>13,
       <2>14, <2>15
       DEF Next, Handler, Monitor
<1> QED
  BY <1>1, <1>2, TypeCorrect, PTL DEF Spec

\* An online worker never loses a job to the monitor, as long as the heartbeat
\* timeout does not exceed the lease duration: a lease that has run out is at
\* least a full lease duration older than the last heartbeat of its worker, so
\* the first phase of the same scan has found the worker stale.
THEOREM ExpiryNeedsOffline == Spec => ExpiresOnlyOffline
<1> DEFINE TakesFromOffline ==
      \A j \in Jobs : IsActive(jobState[j]) /\ jobState'[j] = "retry_wait"
        => workerState[assigned[j]] = "offline"
      Inv == TypeOK /\ LeaseDiscipline /\ LeaseCoversHeartbeat /\ MonitorInv
<1>1. Inv /\ [Next]_vars => [TakesFromOffline]_vars
  <2> SUFFICES ASSUME Inv, Next, NEW k \in Jobs,
                      IsActive(jobState[k]), jobState'[k] = "retry_wait"
               PROVE  workerState[assigned[k]] = "offline"
    OBVIOUS
  <2> USE DEF TypeOK, IsActive
  <2>1. ScanExpire(k)
    <3>1. ASSUME NEW j \in Jobs, SubmitJob(j) \/ ScanRequeue(j) PROVE FALSE
      BY <3>1 DEF SubmitJob, StoreAndEnqueue, ScanRequeue, AgainOrFailed, MonitorInv
    <3>2. ASSUME NEW w \in Workers, NEW j \in Jobs,
                 \/ AcquireJob(w, j) \/ StartJob(w, j)
                 \/ \E outcome \in {"succeeded", "failed"} : FinishJob(w, j, outcome)
          PROVE  FALSE
      BY <3>2
         DEF AcquireJob, ApplyDispatchDecision, Reserve, StartJob, MarkRunning,
             FinishJob, FinishAssigned
    <3>3. ASSUME NEW w \in Workers,
                 \/ RegisterWorker(w) \/ HeartbeatArrives(w)
                 \/ \E t \in heartbeats[w] : HeartbeatApplied(w, t)
          PROVE  FALSE
      BY <3>3 DEF RegisterWorker, HeartbeatArrives, HeartbeatApplied, jobVars
    <3>4. ASSUME \/ ScanCapture \/ ScanStale \/ ScanRequeueBegins \/ ScanEnd
                 \/ ScanFails \/ Tick \/ Stop
          PROVE  FALSE
      BY <3>4 DEF ScanCapture, ScanStale, ScanRequeueBegins, ScanEnd, ScanFails,
                  Tick, Stop, jobVars
    <3>5. ASSUME Restart PROVE FALSE
      BY <3>5 DEF Restart, RecoveredQueue, RecoveredState, AgainOrFailed
    <3>6. ASSUME NEW j \in Jobs, ScanExpire(j) PROVE j = k
      BY <3>6 DEF ScanExpire
    <3> QED
      BY <3>1, <3>2, <3>3, <3>4, <3>5, <3>6 DEF Next, Handler, Monitor
  <2> DEFINE w == assigned[k]
  <2>2. w \in Workers /\ workerState[w] # "absent"
    BY DEF LeaseDiscipline
  <2>3. lease[k] >= lastHeartbeat[w] + LeaseDuration
    BY <2>2 DEF LeaseCoversHeartbeat, ActiveOn
  <2>4. lease[k] <= scanTime /\ lease[k] \in Nat
    BY <2>1 DEF ScanExpire, NextInScan, MonitorInv
  <2>5. ~(scanTime < lastHeartbeat[w] + HeartbeatTimeout)
    BY <2>2, <2>3, <2>4, TimeAssumption, TimeoutAssumption
  <2>6. workerState[w] # "online"
    BY <2>1, <2>2, <2>5 DEF ScanExpire, MonitorInv
  <2> QED
    BY <2>2, <2>6
<1> QED
  BY <1>1, TypeCorrect, LeaseDisciplineHolds, LeaseCovered, MonitorInvHolds, PTL
     DEF Spec, ExpiresOnlyOffline

------------------------------------------------------------------------------
(* The queue, and the abstract life of a job. *)

\* An identifier without a job has spent no attempt, a queued job has one left,
\* and no operation of the coordinator cancels a job.
RowsInv ==
  \A j \in Jobs :
    /\ jobState[j] = "none" => attempts[j] = 0
    /\ jobState[j] = "queued" => attempts[j] < MaxAttempts[j]
    /\ jobState[j] \notin {"cancellation_requested", "cancelled"}

\* Queue and repository agree in every reachable state of a running process, so
\* dispatching from the queued copy never revives an old attempt count.
THEOREM QueueMirrored == Spec => [](QueueMirrorsRepository /\ RowsInv)
<1> DEFINE Inv == QueueMirrorsRepository /\ RowsInv
<1>1. Init => Inv
  BY DEF Init, QueueMirrorsRepository, RowsInv
<1>2. TypeOK /\ MonitorInv /\ Inv /\ [Next]_vars => Inv'
  <2> SUFFICES ASSUME TypeOK, MonitorInv, Inv, [Next]_vars PROVE Inv'
    OBVIOUS
  <2> USE AttemptsAssumption
      DEF QueueMirrorsRepository, RowsInv, TypeOK, Serving,
          monitorVars, jobVars, workerVars
  <2>1. ASSUME NEW j \in Jobs, SubmitJob(j) PROVE Inv'
    BY <2>1 DEF SubmitJob, StoreAndEnqueue
  <2>2. ASSUME NEW w \in Workers, NEW j \in Jobs, AcquireJob(w, j) PROVE Inv'
    BY <2>2 DEF AcquireJob, ApplyDispatchDecision, Reserve
  <2>3. ASSUME NEW w \in Workers, NEW j \in Jobs, StartJob(w, j) PROVE Inv'
    BY <2>3 DEF StartJob, MarkRunning
  <2>4. ASSUME NEW w \in Workers, NEW j \in Jobs,
               NEW outcome \in {"succeeded", "failed"}, FinishJob(w, j, outcome)
        PROVE  Inv'
    BY <2>4 DEF FinishJob, FinishAssigned
  <2>5. ASSUME NEW j \in Jobs, ScanExpire(j) PROVE Inv'
    BY <2>5 DEF ScanExpire, IsActive, ExpiredState
  <2>6. ASSUME NEW j \in Jobs, ScanRequeue(j) PROVE Inv'
    BY <2>6 DEF ScanRequeue, NextInScan, AgainOrFailed, MonitorInv
  <2>7. CASE Stop
    BY <2>7 DEF Stop
  <2>8. CASE Restart
    BY <2>8 DEF Restart, RecoveredQueue, RecoveredState, AgainOrFailed
  <2>9. CASE UNCHANGED <<up, jobState, attempts, queue>>
    BY <2>9
  <2>10. ASSUME NEW w \in Workers,
                \/ RegisterWorker(w) \/ HeartbeatArrives(w)
                \/ \E t \in heartbeats[w] : HeartbeatApplied(w, t)
         PROVE  Inv'
    BY <2>9, <2>10 DEF RegisterWorker, HeartbeatArrives, HeartbeatApplied
  <2>11. CASE ScanCapture \/ ScanStale \/ ScanRequeueBegins \/ ScanEnd \/ ScanFails \/ Tick
    BY <2>9, <2>11
       DEF ScanCapture, ScanStale, ScanRequeueBegins, ScanEnd, ScanFails, Tick
  <2>12. CASE UNCHANGED vars
    BY <2>9, <2>12 DEF vars
  <2> QED
    BY <2>1, <2>2, <2>3, <2>4, <2>5, <2>6, <2>7, <2>8, <2>10, <2>11, <2>12
       DEF Next, Handler, Monitor
<1> QED
  BY <1>1, <1>2, TypeCorrect, MonitorInvHolds, PTL DEF Spec

\* Every behaviour of the coordinator, restarts and failed scans included, is a
\* behaviour of the abstract life of its jobs: what JobLifecycleProofs proves of
\* that life holds of the stored rows.
THEOREM CoordinatorImplementsLifecycle == Spec => ImplementsLifecycle
<1> DEFINE Inv == TypeOK /\ MonitorInv /\ LeaseDiscipline /\ QueueMirrorsRepository /\ RowsInv
<1>1. Init => Lifecycle!Init
  BY DEF Init, Lifecycle!Init
<1>2. Inv /\ [Next]_vars => [Lifecycle!Next]_(Lifecycle!vars)
  <2> SUFFICES ASSUME Inv, [Next]_vars
               PROVE  Lifecycle!Next \/ UNCHANGED <<jobState, attempts>>
    BY DEF Lifecycle!vars
  <2> USE DEF TypeOK, QueueMirrorsRepository, RowsInv, Serving, Lifecycle!Next,
              Lifecycle!Move, monitorVars, jobVars, workerVars
  <2>1. ASSUME NEW j \in Jobs, SubmitJob(j) PROVE Lifecycle!Next
    BY <2>1 DEF SubmitJob, StoreAndEnqueue, Lifecycle!Submit
  <2>2. ASSUME NEW w \in Workers, NEW j \in Jobs, AcquireJob(w, j) PROVE Lifecycle!Next
    <3>1. jobState[j] = "queued" /\ queue[j] = attempts[j]
      BY <2>2 DEF AcquireJob, ApplyDispatchDecision, Reserve, Planned
    <3> QED BY <2>2, <3>1
       DEF AcquireJob, ApplyDispatchDecision, Reserve, Lifecycle!Attempt
  <2>3. ASSUME NEW w \in Workers, NEW j \in Jobs, StartJob(w, j) PROVE Lifecycle!Next
    BY <2>3 DEF StartJob, MarkRunning, Lifecycle!Start
  <2>4. ASSUME NEW w \in Workers, NEW j \in Jobs,
               NEW outcome \in {"succeeded", "failed"}, FinishJob(w, j, outcome)
        PROVE  Lifecycle!Next
    BY <2>4 DEF FinishJob, FinishAssigned, Lifecycle!Finish
  <2>5. ASSUME NEW j \in Jobs, ScanExpire(j)
        PROVE  Lifecycle!Next \/ UNCHANGED <<jobState, attempts>>
    BY <2>5 DEF ScanExpire, IsActive, ExpiredState, Lifecycle!Abandon
  <2>6. ASSUME NEW j \in Jobs, ScanRequeue(j) PROVE Lifecycle!Next
    BY <2>6 DEF ScanRequeue, NextInScan, AgainOrFailed, MonitorInv,
                Lifecycle!Retry, Lifecycle!Again
  <2>7. CASE Restart
    BY <2>7 DEF Restart, RecoveredQueue, RecoveredState, AgainOrFailed,
                Lifecycle!Restart, Lifecycle!Again
  <2>8. ASSUME NEW w \in Workers,
                \/ RegisterWorker(w) \/ HeartbeatArrives(w)
                \/ \E t \in heartbeats[w] : HeartbeatApplied(w, t)
         PROVE  UNCHANGED <<jobState, attempts>>
    BY <2>8 DEF RegisterWorker, HeartbeatArrives, HeartbeatApplied
  <2>9. CASE \/ ScanCapture \/ ScanStale \/ ScanRequeueBegins \/ ScanEnd \/ ScanFails
             \/ Tick \/ Stop
    BY <2>9
       DEF ScanCapture, ScanStale, ScanRequeueBegins, ScanEnd, ScanFails, Tick,
           Stop
  <2>10. CASE UNCHANGED vars
    BY <2>10 DEF vars
  <2> QED
    BY <2>1, <2>2, <2>3, <2>4, <2>5, <2>6, <2>7, <2>8, <2>9, <2>10
       DEF Next, Handler, Monitor
<1> QED
  BY <1>1, <1>2, TypeCorrect, MonitorInvHolds, LeaseDisciplineHolds, QueueMirrored, PTL
     DEF Spec, ImplementsLifecycle, Lifecycle!Spec

------------------------------------------------------------------------------
(* The worker rows. *)

\* A worker row is always one that WorkerSnapshot and WorkerResources accept.
THEOREM WorkerRowsAlwaysValid == Spec => []WorkerRowsValid
<1>1. Init => WorkerRowsValid
  BY ResourcesAssumption DEF Init, WorkerRowsValid
<1>2. TypeOK /\ WorkerRowsValid /\ [Next]_vars => WorkerRowsValid'
  <2> SUFFICES ASSUME TypeOK, WorkerRowsValid, [Next]_vars PROVE WorkerRowsValid'
    OBVIOUS
  <2> USE ResourcesAssumption
      DEF WorkerRowsValid, TypeOK, monitorVars, jobVars, workerVars
  <2>1. ASSUME NEW w \in Workers, RegisterWorker(w) PROVE WorkerRowsValid'
    BY <2>1 DEF RegisterWorker
  <2>2. ASSUME NEW w \in Workers, NEW j \in Jobs, AcquireJob(w, j)
        PROVE  WorkerRowsValid'
    BY <2>2 DEF AcquireJob, ApplyDispatchDecision, Reserve, Planned, Eligible
  <2>3. ASSUME NEW w \in Workers, NEW j \in Jobs, CanRelease(j, w), Release(j, w)
        PROVE  WorkerRowsValid'
    BY <2>3 DEF CanRelease, Release
  <2>4. ASSUME NEW w \in Workers, NEW j \in Jobs,
               NEW outcome \in {"succeeded", "failed"}, FinishJob(w, j, outcome)
        PROVE  WorkerRowsValid'
    BY <2>3, <2>4 DEF FinishJob, FinishAssigned
  <2>5. CASE UNCHANGED <<running, free>>
    BY <2>5
  <2>6. ASSUME NEW j \in Jobs, ScanExpire(j) PROVE WorkerRowsValid'
    <3>1. CASE IsActive(jobState[j]) /\ ReleasesOnExpiry(j)
      <4>1. assigned[j] \in Workers /\ CanRelease(j, assigned[j]) /\ Release(j, assigned[j])
        BY <2>6, <3>1 DEF ScanExpire, ScanThrows, ReleasesOnExpiry
      <4> QED BY <2>3, <4>1
    <3>2. CASE ~(IsActive(jobState[j]) /\ ReleasesOnExpiry(j))
      BY <2>5, <2>6, <3>2 DEF ScanExpire
    <3> QED BY <3>1, <3>2
  <2>7. CASE Restart
    BY <2>7 DEF Restart, RecoveredQueue
  <2>8. ASSUME NEW j \in Jobs, SubmitJob(j) \/ ScanRequeue(j) PROVE WorkerRowsValid'
    BY <2>5, <2>8 DEF SubmitJob, StoreAndEnqueue, ScanRequeue
  <2>9. ASSUME NEW w \in Workers,
               \/ HeartbeatArrives(w)
               \/ \E t \in heartbeats[w] : HeartbeatApplied(w, t)
               \/ \E j \in Jobs : StartJob(w, j)
        PROVE  WorkerRowsValid'
    BY <2>5, <2>9 DEF HeartbeatArrives, HeartbeatApplied, StartJob, MarkRunning
  <2>10. CASE \/ ScanCapture \/ ScanStale \/ ScanRequeueBegins \/ ScanEnd \/ ScanFails
              \/ Tick \/ Stop
    BY <2>5, <2>10
       DEF ScanCapture, ScanStale, ScanRequeueBegins, ScanEnd, ScanFails, Tick, Stop
  <2>11. CASE UNCHANGED vars
    BY <2>5, <2>11 DEF vars
  <2> QED
    BY <2>1, <2>2, <2>4, <2>6, <2>7, <2>8, <2>9, <2>10, <2>11
       DEF Next, Handler, Monitor
<1> QED
  BY <1>1, <1>2, TypeCorrect, PTL DEF Spec

\* The jobs a worker holds are finitely many, and one more or one less of them
\* moves their number by one.
LEMMA ActiveCount ==
  ASSUME NEW w \in Workers
  PROVE  /\ IsFiniteSet(ActiveOn(w)) /\ Cardinality(ActiveOn(w)) \in Nat
         /\ \A j \in Jobs \ ActiveOn(w) :
              Cardinality(ActiveOn(w) \cup {j}) = Cardinality(ActiveOn(w)) + 1
         /\ \A j \in ActiveOn(w) :
              Cardinality(ActiveOn(w) \ {j}) = Cardinality(ActiveOn(w)) - 1
<1>1. IsFiniteSet(ActiveOn(w))
  BY SetsAssumption, FS_Subset DEF ActiveOn
<1> QED
  BY <1>1, FS_CardinalityType, FS_AddElement, FS_RemoveElement

\* A worker row counts exactly the jobs assigned to it, unless the worker has
\* registered again over active jobs: no order of starts, completions,
\* expiries and restarts loses a slot or frees one twice.
THEOREM SlotsAlwaysExact == Spec => []SlotsExact
<1> DEFINE Inv == TypeOK /\ MonitorInv /\ QueueMirrorsRepository
<1>1. Init => SlotsExact
  BY FS_EmptySet DEF Init, SlotsExact, ActiveOn, IsActive
<1>2. Inv /\ SlotsExact /\ [Next]_vars => SlotsExact'
  <2> SUFFICES ASSUME Inv, SlotsExact, [Next]_vars PROVE SlotsExact'
    OBVIOUS
  <2> USE DEF SlotsExact, TypeOK, IsActive, monitorVars, jobVars, workerVars
  <2>1. ASSUME running' = running, disowned' = disowned,
               \A v \in Workers : ActiveOn(v)' = ActiveOn(v)
        PROVE  SlotsExact'
    BY <2>1
  <2>2. ASSUME NEW j \in Jobs, SubmitJob(j) PROVE SlotsExact'
    BY <2>1, <2>2 DEF SubmitJob, StoreAndEnqueue, ActiveOn
  <2>3. ASSUME NEW w \in Workers, RegisterWorker(w) PROVE SlotsExact'
    <3>1. \A v \in Workers : ActiveOn(v)' = ActiveOn(v)
      BY <2>3 DEF RegisterWorker, ActiveOn
    <3>2. CASE ActiveOn(w) = {}
      BY <2>3, <3>1, <3>2, FS_EmptySet DEF RegisterWorker
    <3>3. CASE ActiveOn(w) # {}
      BY <2>3, <3>1, <3>3 DEF RegisterWorker
    <3> QED BY <3>2, <3>3
  <2>4. ASSUME NEW w \in Workers, NEW j \in Jobs, AcquireJob(w, j) PROVE SlotsExact'
    <3>1. jobState[j] = "queued"
      BY <2>4
         DEF AcquireJob, ApplyDispatchDecision, Reserve, Planned,
             QueueMirrorsRepository, Serving
    <3>2. j \notin ActiveOn(w) /\ ActiveOn(w)' = ActiveOn(w) \cup {j}
      BY <2>4, <3>1 DEF AcquireJob, ApplyDispatchDecision, Reserve, ActiveOn
    <3>3. \A v \in Workers \ {w} : ActiveOn(v)' = ActiveOn(v)
      BY <2>4, <3>1 DEF AcquireJob, ApplyDispatchDecision, Reserve, ActiveOn
    <3>4. Cardinality(ActiveOn(w)') = Cardinality(ActiveOn(w)) + 1
      BY <3>2, ActiveCount
    <3> QED BY <2>4, <3>3, <3>4 DEF AcquireJob, ApplyDispatchDecision, Reserve
  <2>5. ASSUME NEW w \in Workers, NEW j \in ActiveOn(w),
               running' = [running EXCEPT ![w] = @ - 1], disowned' = disowned,
               jobState'[j] \notin {"leased", "running", "cancellation_requested"},
               \A k \in Jobs \ {j} : jobState'[k] = jobState[k] /\ assigned'[k] = assigned[k]
        PROVE  SlotsExact'
    <3>1. ActiveOn(w)' = ActiveOn(w) \ {j}
      BY <2>5 DEF ActiveOn
    <3>2. \A v \in Workers \ {w} : ActiveOn(v)' = ActiveOn(v)
      BY <2>5 DEF ActiveOn
    <3>3. Cardinality(ActiveOn(w)') = Cardinality(ActiveOn(w)) - 1
      BY <3>1, ActiveCount
    <3> QED BY <2>5, <3>2, <3>3
  <2>6. ASSUME NEW w \in Workers, NEW j \in Jobs, StartJob(w, j) PROVE SlotsExact'
    BY <2>1, <2>6 DEF StartJob, MarkRunning, ActiveOn
  <2>7. ASSUME NEW w \in Workers, NEW j \in Jobs,
               NEW outcome \in {"succeeded", "failed"}, FinishJob(w, j, outcome)
        PROVE  SlotsExact'
    <3>1. j \in ActiveOn(w)
      BY <2>7 DEF FinishJob, FinishAssigned, ActiveOn
    <3> QED BY <2>5, <2>7, <3>1 DEF FinishJob, FinishAssigned, Release
  <2>8. ASSUME NEW j \in Jobs, ScanExpire(j) PROVE SlotsExact'
    <3>1. CASE ~IsActive(jobState[j])
      BY <2>1, <2>8, <3>1 DEF ScanExpire, ActiveOn
    <3>2. CASE IsActive(jobState[j]) /\ assigned[j] = NoWorker
      <4>1. \A v \in Workers : ActiveOn(v)' = ActiveOn(v)
        BY <2>8, <3>2, SetsAssumption DEF ScanExpire, ActiveOn
      <4> QED BY <2>1, <2>8, <3>2, <4>1 DEF ScanExpire, ReleasesOnExpiry
    <3>3. CASE IsActive(jobState[j]) /\ assigned[j] # NoWorker
      <4> DEFINE w == assigned[j]
      <4>1. w \in Workers /\ j \in ActiveOn(w)
        BY <3>3 DEF ActiveOn
      <4>2. /\ jobState'[j] \notin {"leased", "running", "cancellation_requested"}
            /\ disowned' = disowned
            /\ \A k \in Jobs \ {j} : jobState'[k] = jobState[k] /\ assigned'[k] = assigned[k]
        BY <2>8, <3>3 DEF ScanExpire, ExpiredState
      <4>3. CASE running[w] > 0
        BY <2>5, <2>8, <3>3, <4>1, <4>2, <4>3
           DEF ScanExpire, ReleasesOnExpiry, Release
      <4>4. CASE ~(running[w] > 0)
        <5>1. w \in disowned
          BY <4>1, <4>4, ActiveCount, FS_EmptySet
        <5>2. running' = running
          BY <2>8, <3>3, <4>4 DEF ScanExpire, ReleasesOnExpiry
        <5>3. \A v \in Workers \ {w} : ActiveOn(v)' = ActiveOn(v)
          BY <4>1, <4>2, <2>8, <3>3, SetsAssumption DEF ScanExpire, ActiveOn
        <5> QED BY <4>2, <5>1, <5>2, <5>3
      <4> QED BY <4>3, <4>4
    <3> QED BY <3>1, <3>2, <3>3
  <2>9. ASSUME NEW j \in Jobs, ScanRequeue(j) PROVE SlotsExact'
    <3>1. jobState[j] = "retry_wait"
      BY <2>9 DEF ScanRequeue, NextInScan, MonitorInv
    <3> QED BY <2>1, <2>9, <3>1 DEF ScanRequeue, AgainOrFailed, ActiveOn
  <2>10. CASE Restart
    <3>1. \A v \in Workers : ActiveOn(v)' = {}
      BY <2>10
         DEF Restart, RecoveredQueue, RecoveredState, AgainOrFailed, ActiveOn,
             StoredOrNone,
                   JobState
    <3> QED BY <2>10, <3>1, FS_EmptySet DEF Restart, RecoveredQueue
  <2>11. CASE UNCHANGED <<jobState, assigned, running, disowned>>
    BY <2>1, <2>11 DEF ActiveOn
  <2>12. ASSUME NEW w \in Workers,
                HeartbeatArrives(w) \/ \E t \in heartbeats[w] : HeartbeatApplied(w, t)
         PROVE  SlotsExact'
    BY <2>11, <2>12 DEF HeartbeatArrives, HeartbeatApplied
  <2>13. CASE \/ ScanCapture \/ ScanStale \/ ScanRequeueBegins \/ ScanEnd \/ ScanFails
              \/ Tick \/ Stop
    BY <2>11, <2>13
       DEF ScanCapture, ScanStale, ScanRequeueBegins, ScanEnd, ScanFails, Tick, Stop
  <2>14. CASE UNCHANGED vars
    BY <2>11, <2>14 DEF vars
  <2> QED
    BY <2>2, <2>3, <2>4, <2>6, <2>7, <2>8, <2>9, <2>10, <2>12, <2>13, <2>14
       DEF Next, Handler, Monitor
<1> QED
  BY <1>1, <1>2, TypeCorrect, MonitorInvHolds, QueueMirrored, PTL DEF Spec

------------------------------------------------------------------------------
(* What a set of jobs needs: the fold of the model, unfolded.  tlapm takes the   *)
(* equation of a recursive function for granted, so that the table of partial    *)
(* sums exists is proved here, and nothing else opens the definition.            *)

\* The job the sum takes first, and the table of partial sums it is read from.
Pick(S) == CHOOSE j \in S : TRUE
IsSumTable(g, S) ==
  g = [s \in SUBSET S |-> IF s = {} THEN 0 ELSE Req[Pick(s)] + g[s \ {Pick(s)}]]
SumTable(S) == CHOOSE g : IsSumTable(g, S)

\* A set that is not empty has a first job.
LEMMA PickIn == ASSUME NEW S, S # {} PROVE Pick(S) \in S
BY DEF Pick

\* A family of sets of jobs that is not empty has a smallest member.
LEMMA SmallestSet ==
  ASSUME NEW F, F \subseteq SUBSET Jobs, F # {}
  PROVE  \E T \in F : \A U \in F : U \subseteq T => U = T
<1>1. F \subseteq FiniteSubsetsOf(Jobs)
  BY SetsAssumption, FS_FiniteSubsetsOfFinite
<1>2. PICK T \in F : \A U \in F : <<U, T>> \notin StrictSubsetOrdering(Jobs)
  BY <1>1, FS_StrictSubsetOrderingWellFounded, WFMin
<1>3. ASSUME NEW U \in F, U \subseteq T PROVE U = T
  BY <1>2, <1>3 DEF StrictSubsetOrdering
<1> QED BY <1>3

\* The sum is the entry of the table for the whole set.
LEMMA NeededIsSumTable == ASSUME NEW S PROVE Needed(S) = SumTable(S)[S]
BY DEF Needed, MapThenSumSet, MapThenFoldSet, SumTable, IsSumTable, Pick

\* Two tables agree where both are defined.
LEMMA SumTablesAgree ==
  ASSUME NEW T \in SUBSET Jobs, NEW S \in SUBSET T, NEW g, NEW h,
         IsSumTable(g, S), IsSumTable(h, T)
  PROVE  \A s \in SUBSET S : g[s] = h[s]
<1> DEFINE Bad == {s \in SUBSET S : g[s] # h[s]}
<1> SUFFICES ASSUME Bad # {} PROVE FALSE
  OBVIOUS
<1>0. Bad \subseteq SUBSET Jobs
  OBVIOUS
<1>1. PICK s \in Bad : \A u \in Bad : u \subseteq s => u = s
  <2> HIDE DEF Bad
  <2> QED BY <1>0, SmallestSet
<1>2. CASE s = {}
  BY <1>1, <1>2 DEF IsSumTable
<1>3. CASE s # {}
  <2>1. Pick(s) \in s
    BY <1>3, PickIn
  <2>2. g[s \ {Pick(s)}] = h[s \ {Pick(s)}]
    BY <1>1, <2>1
  <2>3. g[s] = Req[Pick(s)] + g[s \ {Pick(s)}] /\ h[s] = Req[Pick(s)] + h[s \ {Pick(s)}]
    BY <1>3 DEF IsSumTable
  <2> QED BY <2>2, <2>3
<1> QED BY <1>2, <1>3

\* Every set of jobs has a table: a smallest one without could be filled in from
\* the tables of the sets below it.
LEMMA SumTableExists == ASSUME NEW S \in SUBSET Jobs PROVE IsSumTable(SumTable(S), S)
<1> DEFINE Bad == {s \in SUBSET Jobs : ~\E g : IsSumTable(g, s)}
<1>1. Bad = {}
  <2> SUFFICES ASSUME Bad # {} PROVE FALSE
    OBVIOUS
  <2>0. Bad \subseteq SUBSET Jobs
    OBVIOUS
  <2>1. PICK T \in Bad : \A U \in Bad : U \subseteq T => U = T
    <3> HIDE DEF Bad
    <3> QED BY <2>0, SmallestSet
  <2>2. ASSUME NEW U \in SUBSET T, U # T PROVE IsSumTable(SumTable(U), U)
    <3>1. \E g : IsSumTable(g, U)
      BY <2>1, <2>2
    <3> QED BY <3>1 DEF SumTable
  <2> DEFINE Val(u) == SumTable(u)[u]
             g == [s \in SUBSET T |-> IF s = {} THEN 0
                                      ELSE Req[Pick(s)] + Val(s \ {Pick(s)})]
  <2>3. ASSUME NEW s \in SUBSET T, s # {} PROVE Val(s \ {Pick(s)}) = g[s \ {Pick(s)}]
    <3> DEFINE u == s \ {Pick(s)}
    <3>1. u \in SUBSET T /\ u # T
      BY <2>3, PickIn
    <3>2. IsSumTable(SumTable(u), u)
      BY <2>2, <3>1
    <3>3. CASE u = {}
      <4>1. Val(u) = 0
        BY <3>2, <3>3 DEF IsSumTable
      <4> QED BY <3>1, <3>3, <4>1
    <3>4. CASE u # {}
      <4> DEFINE v == u \ {Pick(u)}
      <4>1. Val(u) = Req[Pick(u)] + SumTable(u)[v]
        BY <3>2, <3>4 DEF IsSumTable
      <4>2. v \in SUBSET u /\ v # u /\ v \in SUBSET T /\ v # T
        BY <3>1, <3>4, PickIn
      <4>3. IsSumTable(SumTable(v), v)
        BY <2>2, <4>2
      <4>4. SumTable(u)[v] = SumTable(v)[v]
        <5>1. u \in SUBSET Jobs /\ v \in SUBSET u
          BY <3>1, <4>2
        <5>2. \A s_1 \in SUBSET v : SumTable(v)[s_1] = SumTable(u)[s_1]
          <6> HIDE DEF u, v
          <6> QED BY <3>2, <4>3, <5>1, SumTablesAgree
        <5> QED BY <5>2
      <4>5. g[u] = Req[Pick(u)] + Val(v)
        BY <3>1, <3>4
      <4> QED BY <4>1, <4>4, <4>5
    <3> QED BY <3>3, <3>4
  <2>4. \A s \in SUBSET T : g[s] = IF s = {} THEN 0 ELSE Req[Pick(s)] + g[s \ {Pick(s)}]
    BY <2>3
  <2>5. IsSumTable(g, T)
    BY <2>4 DEF IsSumTable
  <2> QED BY <2>1, <2>5
<1>2. \E g : IsSumTable(g, S)
  BY <1>1
<1> QED BY <1>2 DEF SumTable

\* The sum unfolds once, and is a natural number.
LEMMA NeededStep ==
  ASSUME NEW S \in SUBSET Jobs
  PROVE  Needed(S) = IF S = {} THEN 0 ELSE Req[Pick(S)] + Needed(S \ {Pick(S)})
<1>1. IsSumTable(SumTable(S), S)
  BY SumTableExists
<1>2. CASE S = {}
  BY <1>1, <1>2, NeededIsSumTable DEF IsSumTable
<1>3. CASE S # {}
  <2> DEFINE u == S \ {Pick(S)}
  <2>1. u \in SUBSET Jobs /\ u \in SUBSET S
    OBVIOUS
  <2>2. IsSumTable(SumTable(u), u)
    BY <2>1, SumTableExists
  <2>3. SumTable(S)[u] = SumTable(u)[u]
    <3> HIDE DEF u
    <3> QED BY <1>1, <2>1, <2>2, SumTablesAgree
  <2>4. SumTable(S)[S] = Req[Pick(S)] + SumTable(S)[u]
    BY <1>1, <1>3 DEF IsSumTable
  <2> QED BY <1>3, <2>3, <2>4, NeededIsSumTable
<1> QED BY <1>2, <1>3

\* The empty set of jobs needs nothing.
LEMMA NeededNothing == Needed({}) = 0
<1>1. {} \in SUBSET Jobs
  OBVIOUS
<1> QED BY <1>1, NeededStep

\* What jobs need together is a natural number.
LEMMA NeededType == \A S \in SUBSET Jobs : Needed(S) \in Nat
<1> DEFINE Bad == {s \in SUBSET Jobs : Needed(s) \notin Nat}
<1> SUFFICES ASSUME Bad # {} PROVE FALSE
  OBVIOUS
<1>0. Bad \subseteq SUBSET Jobs
  OBVIOUS
<1>1. PICK T \in Bad : \A U \in Bad : U \subseteq T => U = T
  <2> HIDE DEF Bad
  <2> QED BY <1>0, SmallestSet
<1>2. CASE T = {}
  BY <1>1, <1>2, NeededStep
<1>3. CASE T # {}
  <2>1. Pick(T) \in T
    BY <1>3, PickIn
  <2>2. Needed(T \ {Pick(T)}) \in Nat
    BY <1>1, <2>1
  <2>3. Req[Pick(T)] \in Nat
    BY <1>1, <2>1, ResourcesAssumption
  <2> QED BY <1>1, <1>3, <2>2, <2>3, NeededStep
<1> QED BY <1>2, <1>3

\* One job less or more changes the sum by what that job needs, whichever it is.
LEMMA NeededRemove ==
  ASSUME NEW S \in SUBSET Jobs, NEW j \in S
  PROVE  Needed(S) = Req[j] + Needed(S \ {j})
<1> DEFINE Bad == {s \in SUBSET Jobs : \E k \in s : Needed(s) # Req[k] + Needed(s \ {k})}
<1> SUFFICES ASSUME Bad # {} PROVE FALSE
  OBVIOUS
<1>0. Bad \subseteq SUBSET Jobs
  OBVIOUS
<1>1. PICK T \in Bad : \A U \in Bad : U \subseteq T => U = T
  <2> HIDE DEF Bad
  <2> QED BY <1>0, SmallestSet
<1>2. PICK k \in T : Needed(T) # Req[k] + Needed(T \ {k})
  BY <1>1
<1> DEFINE p == Pick(T)
<1>3. p \in T /\ Needed(T) = Req[p] + Needed(T \ {p})
  BY <1>1, <1>2, PickIn, NeededStep
<1>4. p # k
  BY <1>2, <1>3
<1>5. Needed(T \ {p}) = Req[k] + Needed((T \ {p}) \ {k})
  BY <1>1, <1>2, <1>3, <1>4
<1>6. Needed(T \ {k}) = Req[p] + Needed((T \ {k}) \ {p})
  BY <1>1, <1>2, <1>3, <1>4
<1>7. (T \ {p}) \ {k} = (T \ {k}) \ {p}
  OBVIOUS
<1>8. /\ Req[p] \in Nat /\ Req[k] \in Nat
      /\ Needed((T \ {k}) \ {p}) \in Nat
  BY <1>1, <1>2, <1>3, ResourcesAssumption, NeededType
<1> QED BY <1>2, <1>3, <1>5, <1>6, <1>7, <1>8

\* A further job adds what it needs.
LEMMA NeededAdd ==
  ASSUME NEW S \in SUBSET Jobs, NEW j \in Jobs \ S
  PROVE  Needed(S \cup {j}) = Req[j] + Needed(S)
<1>1. (S \cup {j}) \ {j} = S
  OBVIOUS
<1> QED BY <1>1, NeededRemove
------------------------------------------------------------------------------
(* The resources of the worker rows. *)

\* What a worker has not got free is what its active jobs need, unless it has
\* registered again over active jobs: no order of starts, completions, expiries
\* and restarts loses a release or makes one twice.
THEOREM ResourcesAlwaysExact == Spec => []ResourcesExact
<1> DEFINE Inv == TypeOK /\ MonitorInv /\ QueueMirrorsRepository /\ SlotsExact
<1>1. Init => ResourcesExact
  <2> SUFFICES ASSUME Init, NEW w \in Workers PROVE free[w] + Needed(ActiveOn(w)) = Capacity[w]
    BY DEF ResourcesExact
  <2>1. ActiveOn(w) = {} /\ free[w] = Capacity[w]
    BY DEF Init, ActiveOn, IsActive
  <2> QED BY <2>1, NeededNothing, ResourcesAssumption
<1>2. Inv /\ ResourcesExact /\ [Next]_vars => ResourcesExact'
  <2> SUFFICES ASSUME Inv, ResourcesExact, [Next]_vars PROVE ResourcesExact'
    OBVIOUS
  <2> USE DEF ResourcesExact, TypeOK, IsActive, monitorVars, jobVars, workerVars
  <2>0. \A v \in Workers : /\ ActiveOn(v) \in SUBSET Jobs
                            /\ Needed(ActiveOn(v)) \in Nat
                            /\ free[v] \in Nat /\ Capacity[v] \in Nat
    BY NeededType, ResourcesAssumption DEF ActiveOn
  <2>1. ASSUME free' = free, disowned' = disowned,
               \A v \in Workers : ActiveOn(v)' = ActiveOn(v)
        PROVE  ResourcesExact'
    BY <2>1
  <2>2. ASSUME NEW j \in Jobs, SubmitJob(j) PROVE ResourcesExact'
    BY <2>1, <2>2 DEF SubmitJob, StoreAndEnqueue, ActiveOn
  <2>3. ASSUME NEW w \in Workers, RegisterWorker(w) PROVE ResourcesExact'
    <3>1. \A v \in Workers : ActiveOn(v)' = ActiveOn(v)
      BY <2>3 DEF RegisterWorker, ActiveOn
    <3>2. CASE ActiveOn(w) = {}
      <4>1. Needed(ActiveOn(w)) = 0
        BY <3>2, NeededNothing
      <4>2. free' = [free EXCEPT ![w] = Capacity[w]] /\ disowned' = disowned \ {w}
        BY <2>3, <3>2 DEF RegisterWorker
      <4> QED BY <2>0, <3>1, <4>1, <4>2
    <3>3. CASE ActiveOn(w) # {}
      <4>1. free' = [free EXCEPT ![w] = Capacity[w]] /\ disowned' = disowned \cup {w}
        BY <2>3, <3>3 DEF RegisterWorker
      <4> QED BY <3>1, <4>1
    <3> QED BY <3>2, <3>3
  <2>4. ASSUME NEW w \in Workers, NEW j \in Jobs, AcquireJob(w, j) PROVE ResourcesExact'
    <3>1. jobState[j] = "queued"
      BY <2>4
         DEF AcquireJob, ApplyDispatchDecision, Reserve, Planned,
             QueueMirrorsRepository, Serving
    <3>2. j \in Jobs \ ActiveOn(w) /\ ActiveOn(w)' = ActiveOn(w) \cup {j}
      BY <2>4, <3>1 DEF AcquireJob, ApplyDispatchDecision, Reserve, ActiveOn
    <3>3. \A v \in Workers \ {w} : ActiveOn(v)' = ActiveOn(v)
      BY <2>4, <3>1 DEF AcquireJob, ApplyDispatchDecision, Reserve, ActiveOn
    <3>4. Needed(ActiveOn(w)') = Req[j] + Needed(ActiveOn(w))
      BY <2>0, <3>2, NeededAdd
    <3>5. free' = [free EXCEPT ![w] = @ - Req[j]] /\ disowned' = disowned /\ Req[j] \in Nat
      BY <2>4, ResourcesAssumption DEF AcquireJob, ApplyDispatchDecision, Reserve
    <3> QED BY <2>0, <3>3, <3>4, <3>5
  <2>5. ASSUME NEW w \in Workers, NEW j \in ActiveOn(w),
               free' = [free EXCEPT ![w] = @ + Req[j]], disowned' = disowned,
               jobState'[j] \notin {"leased", "running", "cancellation_requested"},
               \A k \in Jobs \ {j} : jobState'[k] = jobState[k] /\ assigned'[k] = assigned[k]
        PROVE  ResourcesExact'
    <3>1. ActiveOn(w)' = ActiveOn(w) \ {j}
      BY <2>5 DEF ActiveOn
    <3>2. \A v \in Workers \ {w} : ActiveOn(v)' = ActiveOn(v)
      BY <2>5 DEF ActiveOn
    <3>3. Needed(ActiveOn(w)) = Req[j] + Needed(ActiveOn(w)')
      BY <2>0, <3>1, NeededRemove
    <3>4. Needed(ActiveOn(w)') \in Nat /\ Req[j] \in Nat
      BY <2>0, <3>1, NeededType, ResourcesAssumption
    <3> QED BY <2>0, <2>5, <3>2, <3>3, <3>4
  <2>6. ASSUME NEW w \in Workers, NEW j \in Jobs, StartJob(w, j) PROVE ResourcesExact'
    BY <2>1, <2>6 DEF StartJob, MarkRunning, ActiveOn
  <2>7. ASSUME NEW w \in Workers, NEW j \in Jobs,
               NEW outcome \in {"succeeded", "failed"}, FinishJob(w, j, outcome)
        PROVE  ResourcesExact'
    <3>1. j \in ActiveOn(w)
      BY <2>7 DEF FinishJob, FinishAssigned, ActiveOn
    <3> QED BY <2>5, <2>7, <3>1 DEF FinishJob, FinishAssigned, Release
  <2>8. ASSUME NEW j \in Jobs, ScanExpire(j) PROVE ResourcesExact'
    <3>1. CASE ~IsActive(jobState[j])
      BY <2>1, <2>8, <3>1 DEF ScanExpire, ActiveOn
    <3>2. CASE IsActive(jobState[j]) /\ assigned[j] = NoWorker
      <4>1. \A v \in Workers : ActiveOn(v)' = ActiveOn(v)
        BY <2>8, <3>2, SetsAssumption DEF ScanExpire, ActiveOn
      <4> QED BY <2>1, <2>8, <3>2, <4>1 DEF ScanExpire, ReleasesOnExpiry
    <3>3. CASE IsActive(jobState[j]) /\ assigned[j] # NoWorker
      <4> DEFINE w == assigned[j]
      <4>1. w \in Workers /\ j \in ActiveOn(w)
        BY <3>3 DEF ActiveOn
      <4>2. /\ jobState'[j] \notin {"leased", "running", "cancellation_requested"}
            /\ disowned' = disowned
            /\ \A k \in Jobs \ {j} : jobState'[k] = jobState[k] /\ assigned'[k] = assigned[k]
        BY <2>8, <3>3 DEF ScanExpire, ExpiredState
      <4>3. CASE running[w] > 0
        BY <2>5, <2>8, <3>3, <4>1, <4>2, <4>3
           DEF ScanExpire, ReleasesOnExpiry, Release
      <4>4. CASE ~(running[w] > 0)
        <5>1. w \in disowned
          BY <4>1, <4>4, ActiveCount, FS_EmptySet DEF SlotsExact
        <5>2. free' = free
          BY <2>8, <3>3, <4>4 DEF ScanExpire, ReleasesOnExpiry
        <5>3. \A v \in Workers \ {w} : ActiveOn(v)' = ActiveOn(v)
          BY <4>1, <4>2, <2>8, <3>3, SetsAssumption DEF ScanExpire, ActiveOn
        <5> QED BY <4>2, <5>1, <5>2, <5>3
      <4> QED BY <4>3, <4>4
    <3> QED BY <3>1, <3>2, <3>3
  <2>9. ASSUME NEW j \in Jobs, ScanRequeue(j) PROVE ResourcesExact'
    <3>1. jobState[j] = "retry_wait"
      BY <2>9 DEF ScanRequeue, NextInScan, MonitorInv
    <3> QED BY <2>1, <2>9, <3>1 DEF ScanRequeue, AgainOrFailed, ActiveOn
  <2>10. CASE Restart
    <3>1. \A v \in Workers : ActiveOn(v)' = {}
      BY <2>10
         DEF Restart, RecoveredQueue, RecoveredState, AgainOrFailed, ActiveOn,
             StoredOrNone, JobState
    <3>2. Needed({}) = 0
      BY NeededNothing
    <3>3. free' = Capacity
      BY <2>10 DEF Restart
    <3>4. \A v \in Workers : (Needed(ActiveOn(v)) = 0)'
      BY <3>1, <3>2
    <3>5. \A v \in Workers : Capacity[v] \in Nat /\ free'[v] = Capacity[v]
      BY <3>3, ResourcesAssumption
    <3> QED BY <3>4, <3>5
  <2>11. CASE UNCHANGED <<jobState, assigned, free, disowned>>
    BY <2>1, <2>11 DEF ActiveOn
  <2>12. ASSUME NEW w \in Workers,
                HeartbeatArrives(w) \/ \E t \in heartbeats[w] : HeartbeatApplied(w, t)
         PROVE  ResourcesExact'
    BY <2>11, <2>12 DEF HeartbeatArrives, HeartbeatApplied
  <2>13. CASE \/ ScanCapture \/ ScanStale \/ ScanRequeueBegins \/ ScanEnd \/ ScanFails
              \/ Tick \/ Stop
    BY <2>11, <2>13
       DEF ScanCapture, ScanStale, ScanRequeueBegins, ScanEnd, ScanFails, Tick, Stop
  <2>14. CASE UNCHANGED vars
    BY <2>11, <2>14 DEF vars
  <2> QED
    BY <2>2, <2>3, <2>4, <2>6, <2>7, <2>8, <2>9, <2>10, <2>12, <2>13, <2>14
       DEF Next, Handler, Monitor
<1> QED
  BY <1>1, <1>2, TypeCorrect, MonitorInvHolds, QueueMirrored, SlotsAlwaysExact, PTL DEF Spec

\* A release that a worker owes for an active job is never refused, unless the
\* worker has registered again over its jobs: the slot and the resource are
\* still there to be given back.
ReleaseIsAccepted ==
  \A w \in Workers \ disowned : \A j \in ActiveOn(w) : CanRelease(j, w)

\* WorkerRecord::release does not throw for an active job of such a worker.
THEOREM ReleaseAlwaysAccepted == Spec => []ReleaseIsAccepted
<1>1. TypeOK /\ SlotsExact /\ ResourcesExact => ReleaseIsAccepted
  <2> SUFFICES ASSUME TypeOK, SlotsExact, ResourcesExact,
                      NEW w \in Workers \ disowned, NEW j \in ActiveOn(w)
               PROVE  CanRelease(j, w)
    BY DEF ReleaseIsAccepted
  <2>1. ActiveOn(w) \in SUBSET Jobs /\ ActiveOn(w) \ {j} \in SUBSET Jobs
    BY DEF ActiveOn
  <2>2. running[w] > 0
    BY ActiveCount, FS_EmptySet DEF SlotsExact, TypeOK
  <2>3. Needed(ActiveOn(w)) = Req[j] + Needed(ActiveOn(w) \ {j})
    BY <2>1, NeededRemove
  <2>4. /\ Needed(ActiveOn(w) \ {j}) \in Nat /\ Req[j] \in Nat
        /\ free[w] \in Nat /\ Capacity[w] \in Nat
    BY <2>1, NeededType, ResourcesAssumption DEF TypeOK
  <2>5. free[w] + Needed(ActiveOn(w)) = Capacity[w]
    BY DEF ResourcesExact
  <2> QED BY <2>2, <2>3, <2>4, <2>5 DEF CanRelease
<1> QED
  BY <1>1, TypeCorrect, SlotsAlwaysExact, ResourcesAlwaysExact, PTL

\* A scan gives up only when a worker has registered again over active jobs:
\* nothing else makes a release refused, and no job that waits is assigned.
ScanFailsOnlyDisowned == [][ScanFails => disowned # {}]_vars

\* The scan loops of the monitor run to their end unless a row was overwritten.
THEOREM ScansFailOnlyDisowned == Spec => ScanFailsOnlyDisowned
<1> DEFINE Inv == TypeOK /\ MonitorInv /\ LeaseDiscipline /\ ReleaseIsAccepted
<1>1. Inv /\ [Next]_vars => [ScanFails => disowned # {}]_vars
  <2> SUFFICES ASSUME Inv, ScanFails PROVE disowned # {}
    OBVIOUS
  <2>1. PICK j \in Jobs : NextInScan(j) /\ ScanThrows(j)
    BY DEF ScanFails
  <2>2. CASE scanPhase = "expiring"
    <3>1. /\ IsActive(jobState[j]) /\ assigned[j] \in Workers
          /\ ~CanRelease(j, assigned[j])
      BY <2>1, <2>2 DEF ScanThrows, LeaseDiscipline
    <3>2. j \in ActiveOn(assigned[j])
      BY <3>1 DEF ActiveOn
    <3> QED BY <3>1, <3>2 DEF ReleaseIsAccepted
  <2>3. CASE scanPhase = "requeueing"
    <3>1. jobState[j] = "retry_wait"
      BY <2>1, <2>3 DEF NextInScan, MonitorInv
    <3>2. assigned[j] = NoWorker /\ lease[j] = NoLease
      BY <3>1 DEF LeaseDiscipline, IsActive
    <3> QED BY <2>1, <2>3, <3>2 DEF ScanThrows
  <2> QED BY <2>2, <2>3 DEF ScanFails
<1> QED
  BY <1>1, TypeCorrect, MonitorInvHolds, LeaseDisciplineHolds, ReleaseAlwaysAccepted, PTL
     DEF Spec, ScanFailsOnlyDisowned

------------------------------------------------------------------------------
(* The job state machine, and the hand-out of jobs. *)

\* While the process runs every move of a job is one JobStateMachine allows,
\* the ones made through Job::restore included.
THEOREM MovesLegal == Spec => MovesAreLegal
<1> DEFINE Legal(j) == \/ jobState'[j] = jobState[j]
                       \/ jobState[j] = "none" /\ jobState'[j] = "queued"
                       \/ CanTransition(jobState[j], jobState'[j])
           AllLegal == up /\ up' => \A j \in Jobs : Legal(j)
<1>1. TypeOK /\ MonitorInv /\ QueueMirrorsRepository /\ [Next]_vars => [AllLegal]_vars
  <2> SUFFICES ASSUME TypeOK, MonitorInv, QueueMirrorsRepository, Next, up, up',
                      NEW k \in Jobs
               PROVE  Legal(k)
    OBVIOUS
  <2> USE DEF TypeOK, CanTransition
  <2>1. ASSUME NEW j \in Jobs, SubmitJob(j) PROVE Legal(k)
    BY <2>1 DEF SubmitJob, StoreAndEnqueue
  <2>2. ASSUME NEW w \in Workers, NEW j \in Jobs, AcquireJob(w, j) PROVE Legal(k)
    <3>1. jobState[j] = "queued"
      BY <2>2
         DEF AcquireJob, ApplyDispatchDecision, Reserve, Planned,
             QueueMirrorsRepository
    <3> QED BY <2>2, <3>1 DEF AcquireJob, ApplyDispatchDecision, Reserve
  <2>3. ASSUME NEW w \in Workers, NEW j \in Jobs, StartJob(w, j) PROVE Legal(k)
    BY <2>3 DEF StartJob, MarkRunning
  <2>4. ASSUME NEW w \in Workers, NEW j \in Jobs,
               NEW outcome \in {"succeeded", "failed"}, FinishJob(w, j, outcome)
        PROVE  Legal(k)
    BY <2>4 DEF FinishJob, FinishAssigned
  <2>5. ASSUME NEW j \in Jobs, ScanExpire(j) PROVE Legal(k)
    BY <2>5 DEF ScanExpire, IsActive, ExpiredState
  <2>6. ASSUME NEW j \in Jobs, ScanRequeue(j) PROVE Legal(k)
    BY <2>6 DEF ScanRequeue, NextInScan, AgainOrFailed, MonitorInv
  <2>7. CASE Stop \/ Restart
    BY <2>7 DEF Stop, Restart, RecoveredQueue
  <2>8. ASSUME NEW w \in Workers,
               \/ RegisterWorker(w) \/ HeartbeatArrives(w)
               \/ \E t \in heartbeats[w] : HeartbeatApplied(w, t)
        PROVE  Legal(k)
    BY <2>8 DEF RegisterWorker, HeartbeatArrives, HeartbeatApplied, jobVars
  <2>9. CASE ScanCapture \/ ScanStale \/ ScanRequeueBegins \/ ScanEnd \/ ScanFails \/ Tick
    BY <2>9
       DEF ScanCapture, ScanStale, ScanRequeueBegins, ScanEnd, ScanFails, Tick,
           jobVars
  <2> QED
    BY <2>1, <2>2, <2>3, <2>4, <2>5, <2>6, <2>7, <2>8, <2>9
       DEF Next, Handler, Monitor
<1> QED
  BY <1>1, TypeCorrect, MonitorInvHolds, QueueMirrored, PTL DEF Spec, MovesAreLegal

\* No worker is ever handed a second job before it has started the first.
THEOREM OneUnstartedJobAlways == Spec => []OneUnstartedJob
<1>1. Init => OneUnstartedJob
  BY DEF Init, OneUnstartedJob, ActiveOn, IsActive
<1>2. TypeOK /\ OneUnstartedJob /\ [Next]_vars => OneUnstartedJob'
  <2> SUFFICES ASSUME TypeOK, OneUnstartedJob, [Next]_vars PROVE OneUnstartedJob'
    OBVIOUS
  <2> USE
     DEF OneUnstartedJob, TypeOK, ActiveOn, IsActive, monitorVars, jobVars,
         workerVars
  <2>1. ASSUME \A k \in Jobs : jobState'[k] = "leased" =>
                  jobState[k] = "leased" /\ assigned'[k] = assigned[k]
        PROVE  OneUnstartedJob'
    BY <2>1
  <2>2. ASSUME NEW w \in Workers, NEW j \in Jobs, AcquireJob(w, j) PROVE OneUnstartedJob'
    BY <2>2 DEF HoldsUnstarted, AcquireJob, ApplyDispatchDecision, Reserve
  <2>3. ASSUME NEW j \in Jobs, SubmitJob(j) \/ ScanExpire(j) \/ ScanRequeue(j)
        PROVE  OneUnstartedJob'
    BY <2>1, <2>3
       DEF SubmitJob, StoreAndEnqueue, ScanExpire, ExpiredState, ScanRequeue,
           AgainOrFailed
  <2>4. ASSUME NEW w \in Workers, NEW j \in Jobs,
               \/ StartJob(w, j)
               \/ \E outcome \in {"succeeded", "failed"} : FinishJob(w, j, outcome)
        PROVE  OneUnstartedJob'
    BY <2>1, <2>4 DEF StartJob, MarkRunning, FinishJob, FinishAssigned
  <2>5. CASE Restart
    BY <2>1, <2>5 DEF Restart, RecoveredQueue, RecoveredState, AgainOrFailed
  <2>6. ASSUME NEW w \in Workers,
               \/ RegisterWorker(w) \/ HeartbeatArrives(w)
               \/ \E t \in heartbeats[w] : HeartbeatApplied(w, t)
        PROVE  OneUnstartedJob'
    BY <2>1, <2>6 DEF RegisterWorker, HeartbeatArrives, HeartbeatApplied
  <2>7. CASE \/ ScanCapture \/ ScanStale \/ ScanRequeueBegins \/ ScanEnd \/ ScanFails
             \/ Tick \/ Stop
    BY <2>1, <2>7
       DEF ScanCapture, ScanStale, ScanRequeueBegins, ScanEnd, ScanFails, Tick, Stop
  <2>8. CASE UNCHANGED vars
    BY <2>1, <2>8 DEF vars
  <2> QED
    BY <2>2, <2>3, <2>4, <2>5, <2>6, <2>7, <2>8 DEF Next, Handler, Monitor
<1> QED
  BY <1>1, <1>2, TypeCorrect, PTL DEF Spec
=============================================================================
