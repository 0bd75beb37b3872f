---------------------------- MODULE StartupProofs ----------------------------
(***************************************************************************)
(* Proofs about Startup, for any number of processes on one file, any      *)
(* number of jobs and any number of schema versions.                       *)
(***************************************************************************)
EXTENDS Startup, TLAPS

------------------------------------------------------------------------------
(* The inductive invariant, in three parts. *)

\* What a process that has read the version may rely on: the version is still the
\* one it has read, or another process has made the file current.
MigrationInv ==
  \A p \in Processes :
    /\ pc[p] \notin Ended \cup {"reading"} => version <= Current
    /\ pc[p] = "beginning" => version \in {applied[p], Current}
    /\ pc[p] = "altering" <=> writer = p
    /\ pc[p] = "altering" => \/ version = Current /\ tx = Steps
                             \/ tx = 1..applied[p]

\* Memory of a process that does not use the rows, and who does.
UseInv ==
  /\ \A p \in Processes : pc[p] \notin Using => queue[p] = {}
  /\ ~overlapped => \A p, q \in Processes : pc[p] \in Using /\ pc[q] \in Using => p = q

\* How far the recovery of a process that is alone with the rows has come.
RecoveryInv ==
  ~overlapped => \A p \in Processes : pc[p] = "recovering" =>
    \A j \in Jobs :
      /\ j \in todo[p] => row[j] = snap[p][j] /\ j \notin queue[p]
      /\ j \notin todo[p] => (j \in queue[p] <=> row[j] = "queued")

Inv == TypeOK /\ SchemaInv /\ MigrationInv /\ UseInv /\ RecoveryInv /\ QueueMirrorsRows

\* The state is well typed after every step.
LEMMA TypePreserved == TypeOK /\ [Next]_vars => TypeOK'
<1> SUFFICES ASSUME TypeOK, [Next]_vars PROVE TypeOK'
  OBVIOUS
<1> USE StartupAssumption
    DEF TypeOK, Goto, Places, Ended, Using, Steps, States, fileVars, processVars, rowVars
<1>1. ASSUME NEW p \in Processes, Launch(p) \/ ReadVersion(p) \/ Begin(p) PROVE TypeOK'
  <2>1. CASE Launch(p)
    BY <2>1 DEF Launch
  <2>2. CASE ReadVersion(p)
    <3>1. version \in 0..Current
      BY <2>2 DEF ReadVersion
    <3> QED
      BY <2>2, <3>1 DEF ReadVersion
  <2>3. CASE Begin(p)
    BY <2>3 DEF Begin
  <2> QED
    BY <1>1, <2>1, <2>2, <2>3
<1>2. ASSUME NEW p \in Processes, NEW how \in Ended, EndProcess(p, how) PROVE TypeOK'
  BY <1>2 DEF EndProcess, NoRows
<1>3. ASSUME NEW p \in Processes, Upgrade(p) PROVE TypeOK'
  <2>1. applied[p] + 1 \in 1..Current
    BY <1>3 DEF Upgrade, Missing
  <2>2. tx' \in SUBSET (1..(Current + 1))
    <3>1. applied[p] + 1 \in 1..(Current + 1)
      BY <2>1
    <3>2. tx' = tx \cup {applied[p] + 1}
      BY <1>3 DEF Upgrade
    <3> QED
      BY <3>1, <3>2
  <2> QED
    BY <1>3, <2>1, <2>2 DEF Upgrade, AltersTransaction
<1>4. ASSUME NEW p \in Processes, CommitSchema(p) PROVE TypeOK'
  <2>1. version' \in 0..(Current + 1) /\ columns' \in SUBSET (1..(Current + 1))
    BY <1>4 DEF CommitSchema
  <2>2. pc' \in [Processes -> Places] /\ repository' \in [Processes -> {1, 2}]
    BY <1>4 DEF CommitSchema
  <2> QED
    BY <1>4, <2>1, <2>2 DEF CommitSchema
<1>5. ASSUME NEW p \in Processes, ListJobs(p) \/ Construct(p) \/ Bind(p) PROVE TypeOK'
  <2>1. CASE ListJobs(p)
    BY <2>1 DEF ListJobs, Others
  <2>2. CASE Construct(p)
    BY <2>2 DEF Construct, NoRows
  <2>3. CASE Bind(p)
    BY <2>3 DEF Bind
  <2> QED
    BY <1>5, <2>1, <2>2, <2>3
<1>6. ASSUME NEW p \in Processes, NEW j \in Jobs, RecoverJob(p, j) PROVE TypeOK'
  <2>1. row' \in [Jobs -> States] /\ queue' \in [Processes -> SUBSET Jobs]
    <3>1. /\ \/ row' = row \/ \E s \in States : row' = [row EXCEPT ![j] = s]
          /\ queue' = queue \/ queue' = [queue EXCEPT ![p] = @ \cup {j}]
      BY <1>6 DEF RecoverJob, EnqueueRecovered
    <3>2. row' \in [Jobs -> States]
      BY <3>1
    <3>3. queue' \in [Processes -> SUBSET Jobs]
      BY <3>1
    <3> QED
      BY <3>2, <3>3
  <2> QED
    BY <1>6, <2>1 DEF RecoverJob
<1>7. ASSUME NEW p \in Processes, NEW j \in Jobs,
             Submit(p, j) \/ Dispatch(p, j) \/ Finish(p, j) \/ Reclaim(p, j)
      PROVE  TypeOK'
  <2>1. \E s \in States : WriteRow(j, s)
    BY <1>7 DEF Submit, Dispatch, Finish, Reclaim
  <2>2. \E jobs \in SUBSET Jobs : queue' = [queue EXCEPT ![p] = jobs]
    BY <1>7 DEF Submit, Dispatch, Finish, Reclaim
  <2> QED
    BY <2>1, <2>2 DEF WriteRow
<1>8. CASE UNCHANGED vars
  BY <1>8 DEF vars
<1> QED
  BY <1>1, <1>2, <1>3, <1>4, <1>5, <1>6, <1>7, <1>8
     DEF Next, Proceed, Serve, Abort, RefuseNewer, UpgradeFails, BindFails

\* The file is of the version it says, whoever commits.
LEMMA SchemaPreserved ==
  ASSUME TypeOK, SchemaInv, MigrationInv, [Next]_vars
  PROVE  SchemaInv' /\ MigrationInv'
<1> USE StartupAssumption
    DEF TypeOK, SchemaInv, MigrationInv, Goto, Ended, Using, Steps, fileVars, processVars, rowVars
<1>1. ASSUME NEW p \in Processes, Launch(p) \/ ReadVersion(p) \/ Begin(p)
      PROVE  SchemaInv' /\ MigrationInv'
  BY <1>1 DEF Launch, ReadVersion, Begin
<1>2. ASSUME NEW p \in Processes, NEW how \in Ended, EndProcess(p, how)
      PROVE  SchemaInv' /\ MigrationInv'
  BY <1>2 DEF EndProcess
<1>3. ASSUME NEW p \in Processes, Upgrade(p) PROVE SchemaInv' /\ MigrationInv'
  <2>1. tx = 1..applied[p] /\ writer = p
    BY <1>3 DEF Upgrade, Missing
  <2>2. tx' = 1..(applied[p] + 1)
    BY <1>3, <2>1 DEF Upgrade, Missing
  <2> QED
    BY <1>3, <2>1, <2>2 DEF Upgrade, AltersTransaction
<1>4. ASSUME NEW p \in Processes, CommitSchema(p) PROVE SchemaInv' /\ MigrationInv'
  <2>1. columns' = Steps
    BY <1>4 DEF CommitSchema, Missing
  <2>2. /\ writer = p /\ writer' = NoProcess /\ version' = Current
        /\ pc'[p] \in {"reading", "listing"} /\ UNCHANGED applied
        /\ \A q \in Processes \ {p} : pc'[q] = pc[q]
    BY <1>4 DEF CommitSchema
  <2>3. \A q \in Processes : pc'[q] # "altering"
    BY <2>2
  <2>4. SchemaInv'
    BY <2>1, <2>2
  <2> QED
    BY <2>2, <2>3, <2>4
<1>5. ASSUME NEW p \in Processes, ListJobs(p) \/ Construct(p) \/ Bind(p)
      PROVE  SchemaInv' /\ MigrationInv'
  BY <1>5 DEF ListJobs, Construct, Bind
<1>6. ASSUME NEW p \in Processes, (\E j \in Jobs : RecoverJob(p, j)) \/ Serve(p)
      PROVE  SchemaInv' /\ MigrationInv'
  BY <1>6 DEF RecoverJob, Serve, Submit, Dispatch, Finish, Reclaim, WriteRow
<1>7. CASE UNCHANGED vars
  BY <1>7 DEF vars
<1> QED
  BY <1>1, <1>2, <1>3, <1>4, <1>5, <1>6, <1>7
     DEF Next, Proceed, Abort, RefuseNewer, UpgradeFails, BindFails

\* A process that is alone with the rows keeps its queue equal to them, from the
\* first row it recovers.
LEMMA RowsPreserved ==
  ASSUME TypeOK, UseInv, RecoveryInv, QueueMirrorsRows, [Next]_vars
  PROVE  UseInv' /\ RecoveryInv' /\ QueueMirrorsRows'
<1> DEFINE Goal == UseInv' /\ RecoveryInv' /\ QueueMirrorsRows'
<1> USE DEF TypeOK, UseInv, RecoveryInv, QueueMirrorsRows, Goto, Using, fileVars, processVars, rowVars
<1>1. ASSUME NEW p \in Processes,
             Launch(p) \/ ReadVersion(p) \/ Begin(p) \/ Upgrade(p) \/ CommitSchema(p)
      PROVE  Goal
  <2>1. /\ UNCHANGED rowVars
        /\ pc[p] \notin Using /\ pc'[p] \notin Using
        /\ \A q \in Processes \ {p} : pc'[q] = pc[q]
    BY <1>1 DEF Launch, ReadVersion, Begin, Upgrade, CommitSchema, Ended
  <2> QED
    BY <2>1
<1>2. ASSUME NEW p \in Processes, NEW how \in Ended, EndProcess(p, how) PROVE Goal
  BY <1>2 DEF EndProcess, Ended
<1>3. ASSUME NEW p \in Processes, ListJobs(p) PROVE Goal
  <2>1. queue[p] = {} /\ todo'[p] = Jobs /\ snap'[p] = row
    BY <1>3 DEF ListJobs
  <2>2. CASE Others(p, Using)
    BY <1>3, <2>1, <2>2 DEF ListJobs
  <2>3. CASE ~Others(p, Using)
    BY <1>3, <2>1, <2>3 DEF ListJobs, Others
  <2> QED
    BY <2>2, <2>3
<1>4. ASSUME NEW p \in Processes, NEW j \in Jobs, RecoverJob(p, j) PROVE Goal
  <2>1. UseInv' /\ QueueMirrorsRows'
    BY <1>4 DEF RecoverJob, EnqueueRecovered
  <2>2. RecoveryInv'
    <3> SUFFICES ASSUME ~overlapped, NEW k \in Jobs
                 PROVE  /\ k \in todo'[p] => row'[k] = snap[p][k] /\ k \notin queue'[p]
                        /\ k \notin todo'[p] => (k \in queue'[p] <=> row'[k] = "queued")
      BY <1>4 DEF RecoverJob
    <3>1. pc[p] = "recovering" /\ j \in todo[p] /\ row[j] = snap[p][j] /\ j \notin queue[p]
      BY <1>4 DEF RecoverJob
    <3>2. CASE k # j
      BY <1>4, <3>1, <3>2 DEF RecoverJob, EnqueueRecovered
    <3>3. CASE k = j
      BY <1>4, <3>1, <3>3 DEF RecoverJob, EnqueueRecovered, Unfinished
    <3> QED
      BY <3>2, <3>3
  <2> QED
    BY <2>1, <2>2
<1>5. ASSUME NEW p \in Processes, Construct(p) \/ Bind(p) PROVE Goal
  <2>1. CASE Construct(p)
    BY <2>1 DEF Construct
  <2>2. CASE Bind(p)
    BY <2>2 DEF Bind
  <2> QED
    BY <1>5, <2>1, <2>2
<1>6. ASSUME NEW p \in Processes, NEW j \in Jobs,
             Submit(p, j) \/ Dispatch(p, j) \/ Finish(p, j) \/ Reclaim(p, j)
      PROVE  Goal
  <2>1. /\ pc[p] \in {"constructed", "serving"} /\ UNCHANGED <<pc, todo, snap, overlapped>>
        /\ \A k \in Jobs \ {j} : row'[k] = row[k] /\ (k \in queue'[p] <=> k \in queue[p])
        /\ \A q \in Processes \ {p} : queue'[q] = queue[q]
        /\ queue'[p] \in SUBSET Jobs
    BY <1>6 DEF Submit, Dispatch, Finish, Reclaim, WriteRow
  <2>2. ~overlapped => (j \in queue'[p] <=> row'[j] = "queued")
    BY <1>6 DEF Submit, Dispatch, Finish, Reclaim, WriteRow
  <2>3. ~overlapped => \A q \in Processes \ {p} : pc[q] \notin Using
    BY <2>1
  <2>4. UseInv'
    BY <2>1
  <2>5. RecoveryInv'
    BY <2>1, <2>3
  <2>6. QueueMirrorsRows'
    <3>1. ~overlapped => queue[p] = {k \in Jobs : row[k] = "queued"}
      BY <2>1
    <3>2. ~overlapped => \A k \in Jobs : k \in queue'[p] <=> row'[k] = "queued"
      BY <2>1, <2>2, <3>1
    <3> QED
      BY <2>1, <2>3, <3>2
  <2> QED
    BY <2>4, <2>5, <2>6
<1>7. CASE UNCHANGED vars
  BY <1>7 DEF vars
<1> QED
  BY <1>1, <1>2, <1>3, <1>4, <1>5, <1>6, <1>7
     DEF Next, Proceed, Serve, Abort, RefuseNewer, UpgradeFails, BindFails, Ended

\* The invariant holds from the first state on.
THEOREM StartupInvariant == Spec => []Inv
<1>1. Init => Inv
  <2> SUFFICES ASSUME Init PROVE Inv
    OBVIOUS
  <2>1. TypeOK
    <3>1. row \in [Jobs -> States]
      BY DEF Init, States
    <3>2. columns \in SUBSET (1..(Current + 1))
      BY StartupAssumption DEF Init
    <3>3. /\ pc \in [Processes -> Places] /\ repository \in [Processes -> {1, 2}]
          /\ applied \in [Processes -> 0..Current]
      BY StartupAssumption DEF Init, Places, Ended
    <3>4. /\ snap \in [Processes -> [Jobs -> States]]
          /\ todo \in [Processes -> SUBSET Jobs] /\ queue \in [Processes -> SUBSET Jobs]
      BY DEF Init, NoRows, States
    <3> QED
      BY <3>1, <3>2, <3>3, <3>4, StartupAssumption DEF Init, TypeOK
  <2> QED
    BY <2>1, StartupAssumption
       DEF Init, Inv, SchemaInv, MigrationInv, UseInv, RecoveryInv, QueueMirrorsRows, Ended, Using
<1>2. Inv /\ [Next]_vars => Inv'
  BY TypePreserved, SchemaPreserved, RowsPreserved DEF Inv
<1> QED
  BY <1>1, <1>2, PTL DEF Spec

\* The state is well typed; in particular no upgrade is applied beyond Current.
THEOREM StartupTypeCorrect == Spec => []TypeOK
BY StartupInvariant, PTL DEF Inv

\* The version of the file always tells its columns, and whoever uses rows finds
\* the current schema, in any interleaving of processes that read the version
\* before they lock the file.
THEOREM SchemaAlwaysWhole == Spec => []SchemaInv
BY StartupInvariant, PTL DEF Inv

\* A process that is alone with the rows has exactly the queued jobs in its queue.
THEOREM QueueAlwaysMirrorsRows == Spec => []QueueMirrorsRows
BY StartupInvariant, PTL DEF Inv

\* Restarts that do not overlap never bring a finished job back, and no process
\* ever does without a copy of its row from before it was finished.
THEOREM FinishedJobsStay == Spec => FinishedStaysFinished
<1>1. ASSUME Inv, [Next]_vars, NEW j \in Jobs, row[j] = "done", row'[j] # "done"
      PROVE  overlapped /\ \E p \in Processes : HasOldCopy(p, j)
  <2> USE <1>1 DEF Inv, TypeOK, rowVars, processVars, fileVars
  <2>1. PICK p \in Processes : row' # row /\ (Launch(p) \/ Proceed(p) \/ Serve(p) \/ Abort(p))
    BY DEF Next, vars
  <2>2. \/ \E k \in Jobs : RecoverJob(p, k)
        \/ \E k \in Jobs : Dispatch(p, k)
        \/ \E k \in Jobs : Submit(p, k) \/ Finish(p, k) \/ Reclaim(p, k)
    BY <2>1 DEF Launch, Proceed, Serve, Abort, EndProcess, ReadVersion, RefuseNewer, Begin,
       Upgrade, UpgradeFails, CommitSchema, ListJobs, Construct, Bind, BindFails
  <2>3. ASSUME NEW k \in Jobs, RecoverJob(p, k) PROVE overlapped /\ HasOldCopy(p, j)
    BY <2>3 DEF RecoverJob, RecoveryInv, Unfinished, HasOldCopy
  <2>4. ASSUME NEW k \in Jobs, Dispatch(p, k) PROVE overlapped /\ HasOldCopy(p, j)
    BY <2>4 DEF Dispatch, WriteRow, QueueMirrorsRows, HasOldCopy
  <2>5. ASSUME NEW k \in Jobs, Submit(p, k) \/ Finish(p, k) \/ Reclaim(p, k) PROVE FALSE
    BY <2>5 DEF Submit, Finish, Reclaim, WriteRow
  <2> QED
    BY <2>2, <2>3, <2>4, <2>5
<1>2. Inv /\ [Next]_vars =>
        [\A j \in Jobs : row[j] = "done" /\ row'[j] # "done"
           => overlapped /\ \E p \in Processes : HasOldCopy(p, j)]_vars
  BY <1>1
<1> QED
  BY <1>2, StartupInvariant, PTL DEF Spec, FinishedStaysFinished
===============================================================================
