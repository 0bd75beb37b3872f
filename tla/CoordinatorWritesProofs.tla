----------------------- MODULE CoordinatorWritesProofs -----------------------
(***************************************************************************)
(* Proofs about CoordinatorWrites, for any number of jobs, workers and     *)
(* slots, and any sequence of failing writes and restarts.                 *)
(***************************************************************************)
EXTENDS CoordinatorWrites, FiniteSetTheorems, TLAPS

------------------------------------------------------------------------------
(* The inductive invariant, in four parts. *)

EnqueueSteps == {"enqueue_new", "erase_new", "enqueue_again", "unqueue"}
DispatchSteps == {"read_taken", "reserve", "lease", "unreserve", "put_back"}
ReleaseSteps == {"finish", "expire", "unrelease"}

\* What every step of a call sees: the job is as the steps before have left it,
\* and the count of the worker's row leaves room for the step or its undoing.
CallInv ==
  /\ step \in {"idle", "recover"} => cur = NoJob /\ who = NoWorker
  /\ step = "recover" => ~up
  /\ ~up => step \in {"idle", "recover"}
  /\ step \in EnqueueSteps => cur \in Jobs /\ who = NoWorker
  /\ step \in DispatchSteps => cur \in Jobs /\ who \in Workers
  /\ step \in EnqueueSteps \cup DispatchSteps =>
       state[cur] = "queued" /\ cur \notin queue \cup stranded
  /\ step \in ReleaseSteps =>
       cur \in Jobs /\ state[cur] = "active" /\ holder[cur] = who /\ running[who] < Slots
  /\ step \in {"read_taken", "reserve"} => running[who] < Slots
  /\ step \in {"lease", "unreserve"} => running[who] > 0

\* Active jobs have a worker, and the queue is known also within a call.
RowsInv ==
  /\ \A j \in Jobs : state[j] = "active" => holder[j] \in Workers
  /\ \A j \in stranded : state[j] = "queued"
  /\ up => \A j \in Jobs :
       j \in queue <=> /\ state[j] = "queued" /\ j \notin stranded
                       /\ step \in EnqueueSteps \cup DispatchSteps => j # cur

\* The counts, while a call has written the worker and not yet the job.
CountInv ==
  up => \A w \in Workers \ miscounted : running[w] = Cardinality(ActiveOn(w)) + Pending(w)

\* How far recovery has come.
RecoveryInv ==
  ~up =>
    /\ stranded = {} /\ miscounted = {}
    /\ step = "idle" => queue = {}
    /\ step = "recover" =>
         /\ \A w \in Workers \ todo : running[w] = 0
         /\ \A j \in Jobs \ todo : state[j] \in {"none", "queued", "done"}
         /\ queue = {j \in Jobs \ todo : state[j] = "queued"}

Inv == TypeOK /\ CallInv /\ RowsInv /\ CountInv /\ RecoveryInv

------------------------------------------------------------------------------
\* Types, what the steps of a call see, the rows and the queue are preserved
\* together: each rests on the others.
LEMMA CallsPreserved ==
  ASSUME TypeOK, CallInv, RowsInv, RecoveryInv, [Next]_vars
  PROVE  TypeOK' /\ CallInv' /\ RowsInv'
<1> USE WritesAssumption
    DEF TypeOK, CallInv, RowsInv, EnqueueSteps, DispatchSteps, ReleaseSteps, Steps, States,
        rowVars, callVars, history
<1>1. ASSUME NEW j \in Jobs, SubmitInsert(j) PROVE TypeOK' /\ CallInv' /\ RowsInv'
  BY <1>1 DEF SubmitInsert, Idle, SetState, BeginCall
<1>2. ASSUME EnqueueNew PROVE TypeOK' /\ CallInv' /\ RowsInv'
  BY <1>2 DEF EnqueueNew, EndCall, Goto
<1>3. ASSUME EraseNew PROVE TypeOK' /\ CallInv' /\ RowsInv'
  BY <1>3 DEF EraseNew, SetState, EndCall, Strand
<1>4. ASSUME NEW w \in Workers, NEW j \in Jobs, Take(w, j) PROVE TypeOK' /\ CallInv' /\ RowsInv'
  BY <1>4 DEF Take, Idle, BeginCall
<1>5. ASSUME ReadTaken PROVE TypeOK' /\ CallInv' /\ RowsInv'
  BY <1>5 DEF ReadTaken, Goto, EndCall, Strand
<1>6. ASSUME ReserveRow PROVE TypeOK' /\ CallInv' /\ RowsInv'
  BY <1>6 DEF ReserveRow, CountUp, Goto
<1>7. ASSUME LeaseRow PROVE TypeOK' /\ CallInv' /\ RowsInv'
  BY <1>7 DEF LeaseRow, SetState, EndCall, Goto
<1>8. ASSUME UnreserveRow PROVE TypeOK' /\ CallInv' /\ RowsInv'
  BY <1>8 DEF UnreserveRow, CountDown, Miscount, Goto
<1>9. ASSUME PutBackTaken PROVE TypeOK' /\ CallInv' /\ RowsInv'
  BY <1>9 DEF PutBackTaken, PutBack, Strand, EndCall
<1>10. ASSUME NEW j \in Jobs, NEW s \in {"finish", "expire"}, ReleaseRow(j, s)
       PROVE TypeOK' /\ CallInv' /\ RowsInv'
  BY <1>10 DEF ReleaseRow, Idle, CountDown, BeginCall
<1>11. ASSUME NEW j \in Jobs, ExpireUncounted(j) PROVE TypeOK' /\ CallInv' /\ RowsInv'
  BY <1>11 DEF ExpireUncounted, Idle, SetState
<1>12. ASSUME FinishRow PROVE TypeOK' /\ CallInv' /\ RowsInv'
  BY <1>12 DEF FinishRow, SetState, EndCall, Goto
<1>13. ASSUME ExpireRow PROVE TypeOK' /\ CallInv' /\ RowsInv'
  BY <1>13 DEF ExpireRow, SetState, EndCall, Goto
<1>14. ASSUME UnreleaseRow PROVE TypeOK' /\ CallInv' /\ RowsInv'
  BY <1>14 DEF UnreleaseRow, RestoreCount, CountUp, Miscount, EndCall
<1>15. ASSUME NEW j \in Jobs, RequeueRow(j) PROVE TypeOK' /\ CallInv' /\ RowsInv'
  BY <1>15 DEF RequeueRow, Idle, SetState, BeginCall
<1>16. ASSUME EnqueueAgain PROVE TypeOK' /\ CallInv' /\ RowsInv'
  BY <1>16 DEF EnqueueAgain, EndCall, Goto
<1>17. ASSUME UnqueueRow PROVE TypeOK' /\ CallInv' /\ RowsInv'
  BY <1>17 DEF UnqueueRow, SetState, EndCall, Strand
<1>18. ASSUME Crash PROVE TypeOK' /\ CallInv' /\ RowsInv'
  BY <1>18 DEF Crash, EndCall
<1>19. ASSUME BeginRecovery PROVE TypeOK' /\ CallInv' /\ RowsInv'
  BY <1>19 DEF BeginRecovery
<1>20. ASSUME NEW w \in Workers, RecoverWorkerRow(w) PROVE TypeOK' /\ CallInv' /\ RowsInv'
  BY <1>20 DEF RecoverWorkerRow, RecoverCount
<1>21. ASSUME NEW j \in Jobs, RecoverJobRow(j) PROVE TypeOK' /\ CallInv' /\ RowsInv'
  <2>1. ~up /\ stranded = {} /\ stranded' = {}
    BY <1>21 DEF RecoverJobRow, RecoveryInv
  <2> QED
    BY <1>21, <2>1 DEF RecoverJobRow, SetState
<1>22. ASSUME Serve PROVE TypeOK' /\ CallInv' /\ RowsInv'
  <2>1. /\ stranded = {}
        /\ \A j \in Jobs : j \in queue <=> state[j] = "queued"
    BY <1>22 DEF Serve, RecoveryInv
  <2> QED
    BY <1>22, <2>1 DEF Serve, EndCall
<1>23. CASE UNCHANGED vars
  BY <1>23 DEF vars
<1> QED
  BY <1>1, <1>2, <1>3, <1>4, <1>5, <1>6, <1>7, <1>8, <1>9, <1>10, <1>11, <1>12, <1>13,
     <1>14, <1>15, <1>16, <1>17, <1>18, <1>19, <1>20, <1>21, <1>22, <1>23 DEF Next

\* Recovery knows what it has done so far.
LEMMA RecoveryPreserved ==
  ASSUME TypeOK, CallInv, RecoveryInv, [Next]_vars
  PROVE  RecoveryInv'
<1> USE WritesAssumption DEF TypeOK, RecoveryInv, rowVars, callVars, history
<1>1. CASE up /\ ~Crash
  <2>1. up'
    BY <1>1 DEF Next, SubmitInsert, EnqueueNew, EraseNew, Take, ReadTaken, ReserveRow, LeaseRow,
       UnreserveRow, PutBackTaken, ReleaseRow, ExpireUncounted, FinishRow, ExpireRow,
       UnreleaseRow, RequeueRow, EnqueueAgain, UnqueueRow, BeginRecovery, Serve,
       RecoverWorkerRow, RecoverJobRow, vars
  <2> QED
    BY <2>1
<1>2. CASE Crash
  BY <1>2 DEF Crash, EndCall
<1>3. CASE ~up /\ ~Crash
  <2>1. \/ BeginRecovery \/ Serve \/ UNCHANGED vars
        \/ \E w \in Workers : RecoverWorkerRow(w)
        \/ \E j \in Jobs : RecoverJobRow(j)
    BY <1>3 DEF Next, CallInv, Idle, SubmitInsert, EnqueueNew, EraseNew, Take, ReadTaken,
       ReserveRow, LeaseRow, UnreserveRow, PutBackTaken, ReleaseRow, ExpireUncounted, FinishRow,
       ExpireRow, UnreleaseRow, RequeueRow, EnqueueAgain, UnqueueRow
  <2>2. CASE BeginRecovery
    BY <1>3, <2>2 DEF BeginRecovery
  <2>3. ASSUME NEW w \in Workers, RecoverWorkerRow(w) PROVE RecoveryInv'
    BY <1>3, <2>3 DEF RecoverWorkerRow, RecoverCount
  <2>4. ASSUME NEW j \in Jobs, RecoverJobRow(j) PROVE RecoveryInv'
    BY <1>3, <2>4 DEF RecoverJobRow, SetState
  <2>5. CASE Serve \/ UNCHANGED vars
    BY <1>3, <2>5 DEF Serve, vars
  <2> QED
    BY <2>1, <2>2, <2>3, <2>4, <2>5
<1> QED
  BY <1>1, <1>2, <1>3

\* The active jobs of a worker are finitely many, and one more or one less of
\* them moves their number by one.
LEMMA ActiveCount ==
  ASSUME NEW w \in Workers
  PROVE  /\ Cardinality(ActiveOn(w)) \in Nat
         /\ \A j \in Jobs \ ActiveOn(w) :
              Cardinality(ActiveOn(w) \cup {j}) = Cardinality(ActiveOn(w)) + 1
         /\ \A j \in ActiveOn(w) :
              /\ Cardinality(ActiveOn(w) \ {j}) = Cardinality(ActiveOn(w)) - 1
              /\ Cardinality(ActiveOn(w)) > 0
<1>1. IsFiniteSet(ActiveOn(w))
  BY WritesAssumption, FS_Subset DEF ActiveOn
<1>2. ASSUME NEW j \in ActiveOn(w) PROVE Cardinality(ActiveOn(w) \ {j}) \in Nat
  BY <1>1, FS_CardinalityType, FS_RemoveElement
<1> QED
  BY <1>1, <1>2, FS_CardinalityType, FS_AddElement, FS_RemoveElement

\* Counts and jobs move together, each write of one followed by the other or
\* undone.
LEMMA CountsPreserved ==
  ASSUME TypeOK, CallInv, RowsInv, CountInv, RecoveryInv, [Next]_vars
  PROVE  CountInv'
<1> SUFFICES ASSUME up', NEW w \in Workers \ miscounted'
             PROVE  running'[w] = Cardinality(ActiveOn(w)') + Pending(w)'
  BY DEF CountInv
<1> USE WritesAssumption DEF TypeOK, CallInv, RowsInv, Pending, EnqueueSteps, DispatchSteps,
        ReleaseSteps, rowVars, callVars, history
<1>0. up /\ w \notin miscounted =>
        running[w] = Cardinality(ActiveOn(w)) + Pending(w) /\ Cardinality(ActiveOn(w)) \in Nat
  BY ActiveCount DEF CountInv
<1> DEFINE Kept == running'[w] = Cardinality(ActiveOn(w)') + Pending(w)'
\* The steps that move no job in or out of the active ones.
<1>1. ASSUME ActiveOn(w)' = ActiveOn(w), up, w \notin miscounted,
             running'[w] - running[w] = Pending(w)' - Pending(w), running'[w] \in Int
      PROVE  Kept
  <2>1. Pending(w) \in Int /\ Pending(w)' \in Int /\ running[w] \in Int
    OBVIOUS
  <2> QED
    BY <1>0, <1>1, <2>1
<1>2. ASSUME NEW j \in Jobs, SubmitInsert(j) \/ RequeueRow(j) PROVE Kept
  <2>1. ActiveOn(w)' = ActiveOn(w)
    BY <1>2 DEF ActiveOn, SubmitInsert, RequeueRow, Idle, SetState
  <2>2. /\ up /\ w \notin miscounted /\ running' = running
        /\ Pending(w) = 0 /\ Pending(w)' = 0
    BY <1>2 DEF SubmitInsert, RequeueRow, Idle, BeginCall
  <2> QED
    BY <1>1, <2>1, <2>2
<1>3. ASSUME EnqueueNew \/ EraseNew \/ EnqueueAgain \/ UnqueueRow PROVE Kept
  <2>1. ActiveOn(w)' = ActiveOn(w)
    BY <1>3 DEF ActiveOn, EnqueueNew, EraseNew, EnqueueAgain, UnqueueRow, SetState
  <2>2. /\ up /\ w \notin miscounted /\ running' = running
        /\ Pending(w) = 0 /\ Pending(w)' = 0
    BY <1>3 DEF EnqueueNew, EraseNew, EnqueueAgain, UnqueueRow, EndCall, Goto, Strand
  <2> QED
    BY <1>1, <2>1, <2>2
<1>4. ASSUME \/ \E v \in Workers, j \in Jobs : Take(v, j)
             \/ ReadTaken \/ PutBackTaken \/ ReserveRow \/ UnreserveRow
      PROVE  Kept
  <2>1. ActiveOn(w)' = ActiveOn(w)
    BY <1>4 DEF ActiveOn, Take, ReadTaken, PutBackTaken, ReserveRow, UnreserveRow
  <2>2. CASE \E v \in Workers, j \in Jobs : Take(v, j)
    BY <1>1, <2>1, <2>2 DEF Take, Idle, BeginCall
  <2>3. CASE ReadTaken \/ PutBackTaken
    <3>1. /\ up /\ w \notin miscounted /\ running' = running
          /\ Pending(w) = 0 /\ Pending(w)' = 0
      BY <2>3 DEF ReadTaken, PutBackTaken, Strand, Goto, EndCall
    <3> QED
      BY <1>1, <2>1, <3>1
  <2>4. CASE ReserveRow
    BY <1>1, <2>1, <2>4 DEF ReserveRow, CountUp, Goto
  <2>5. CASE UnreserveRow
    BY <1>1, <2>1, <2>5 DEF UnreserveRow, CountDown, Miscount, Goto
  <2> QED
    BY <1>4, <2>2, <2>3, <2>4, <2>5
<1>5. ASSUME \/ \E j \in Jobs, s \in {"finish", "expire"} : ReleaseRow(j, s)
             \/ UnreleaseRow \/ UNCHANGED vars
      PROVE  Kept
  <2>1. ActiveOn(w)' = ActiveOn(w)
    BY <1>5 DEF ActiveOn, ReleaseRow, UnreleaseRow, vars
  <2>2. ASSUME NEW j \in Jobs, NEW s \in {"finish", "expire"}, ReleaseRow(j, s) PROVE Kept
    BY <1>1, <2>1, <2>2 DEF ReleaseRow, Idle, CountDown, BeginCall
  <2>3. CASE UnreleaseRow
    BY <1>1, <2>1, <2>3 DEF UnreleaseRow, RestoreCount, CountUp, Miscount, EndCall
  <2>4. CASE UNCHANGED vars
    BY <1>1, <2>1, <2>4 DEF vars
  <2> QED
    BY <1>5, <2>2, <2>3, <2>4
\* The job of a dispatch becomes active on the worker that was written before.
<1>6. ASSUME LeaseRow PROVE Kept
  <2>1. CASE state' = state
    <3>1. ActiveOn(w)' = ActiveOn(w)
      BY <1>6, <2>1 DEF ActiveOn, LeaseRow, SetState
    <3> QED
      BY <1>1, <1>6, <2>1, <3>1 DEF LeaseRow, SetState, Goto
  <2>2. CASE state' # state
    <3>1. /\ SetState(cur, "active") /\ holder' = [holder EXCEPT ![cur] = who] /\ EndCall
          /\ running' = running /\ step = "lease" /\ miscounted' = miscounted /\ up
      BY <1>6, <2>2 DEF LeaseRow
    <3>2. CASE w = who
      <4>1. cur \in Jobs \ ActiveOn(w) /\ ActiveOn(w)' = ActiveOn(w) \cup {cur}
        BY <3>1, <3>2 DEF ActiveOn, SetState
      <4>2. Cardinality(ActiveOn(w)') = Cardinality(ActiveOn(w)) + 1
        BY <4>1, ActiveCount
      <4> QED
        BY <1>0, <3>1, <3>2, <4>2 DEF EndCall
    <3>3. CASE w # who
      <4>1. ActiveOn(w)' = ActiveOn(w)
        BY <3>1, <3>3 DEF ActiveOn, SetState
      <4> QED
        BY <1>1, <3>1, <3>3, <4>1 DEF EndCall
    <3> QED
      BY <3>2, <3>3
  <2> QED
    BY <2>1, <2>2
\* The job of a completion or an expiry leaves the worker that was written before.
<1>7. ASSUME FinishRow \/ ExpireRow PROVE Kept
  <2>1. CASE state' = state
    <3>1. ActiveOn(w)' = ActiveOn(w)
      BY <1>7, <2>1 DEF ActiveOn, FinishRow, ExpireRow, SetState
    <3>2. /\ up /\ w \notin miscounted /\ running' = running
          /\ Pending(w)' = Pending(w)
      <4>1. state[cur] = "active" /\ cur \in Jobs
        BY <1>7 DEF FinishRow, ExpireRow
      <4>2. ~SetState(cur, "done") /\ ~SetState(cur, "retry_wait")
        BY <2>1, <4>1 DEF SetState
      <4>3. /\ step \in {"finish", "expire"} /\ step' = "unrelease" /\ who' = who
            /\ running' = running /\ miscounted' = miscounted
        BY <1>7, <4>2 DEF FinishRow, ExpireRow, Goto
      <4> QED
        BY <4>3
    <3> QED
      BY <1>1, <3>1, <3>2
  <2>2. CASE state' # state
    <3>1. /\ \E s \in {"done", "retry_wait"} : SetState(cur, s)
          /\ \A j \in Jobs \ {cur} : holder'[j] = holder[j]
          /\ step \in {"finish", "expire"} /\ EndCall
          /\ running' = running /\ miscounted' = miscounted /\ up
      BY <1>7, <2>2 DEF FinishRow, ExpireRow
    <3>2. CASE w = who
      <4>1. cur \in ActiveOn(w) /\ ActiveOn(w)' = ActiveOn(w) \ {cur}
        BY <3>1, <3>2 DEF ActiveOn, SetState
      <4>2. Cardinality(ActiveOn(w)') = Cardinality(ActiveOn(w)) - 1
        BY <4>1, ActiveCount
      <4> QED
        BY <1>0, <3>1, <3>2, <4>2 DEF EndCall
    <3>3. CASE w # who
      <4>1. ActiveOn(w)' = ActiveOn(w)
        BY <3>1, <3>3 DEF ActiveOn, SetState
      <4> QED
        BY <1>1, <3>1, <3>3, <4>1 DEF EndCall
    <3> QED
      BY <3>2, <3>3
  <2> QED
    BY <2>1, <2>2
\* A worker that counts nothing and has an active job is miscounted.
<1>8. ASSUME NEW j \in Jobs, ExpireUncounted(j) PROVE Kept
  <2>1. j \notin ActiveOn(w)
    <3> SUFFICES ASSUME j \in ActiveOn(w) PROVE FALSE
      OBVIOUS
    <3>1. running[w] = 0 /\ Pending(w) = 0 /\ up /\ w \notin miscounted
      BY <1>8 DEF ExpireUncounted, Idle, ActiveOn
    <3>2. Cardinality(ActiveOn(w)) > 0
      BY ActiveCount
    <3> QED
      BY <1>0, <3>1, <3>2
  <2>2. ActiveOn(w)' = ActiveOn(w)
    BY <1>8, <2>1 DEF ExpireUncounted, Idle, ActiveOn, SetState
  <2> QED
    BY <1>1, <1>8, <2>2 DEF ExpireUncounted, Idle
\* A process that begins to serve has reset every row.
<1>9. ASSUME Serve PROVE Kept
  <2>1. ActiveOn(w)' = {} /\ running'[w] = 0
    BY <1>9 DEF Serve, RecoveryInv, ActiveOn
  <2> QED
    BY <1>9, <2>1, FS_EmptySet DEF Serve, EndCall
<1> QED
  BY <1>2, <1>3, <1>4, <1>5, <1>6, <1>7, <1>8, <1>9
     DEF Next, Crash, BeginRecovery, RecoverWorkerRow, RecoverJobRow

\* The invariant holds from the first state on.
THEOREM WritesInvariant == Spec => []Inv
<1>1. Init => Inv
  <2> SUFFICES ASSUME Init PROVE Inv
    OBVIOUS
  <2>1. \A w \in Workers : ActiveOn(w) = {}
    BY DEF Init, ActiveOn
  <2>2. CountInv
    BY <2>1, FS_EmptySet, WritesAssumption DEF Init, CountInv, Pending
  <2> QED
    BY <2>2, WritesAssumption DEF Init, Inv, TypeOK, CallInv, RowsInv, RecoveryInv, Steps, States,
       EnqueueSteps, DispatchSteps, ReleaseSteps
<1>2. Inv /\ [Next]_vars => Inv'
  BY CallsPreserved, RecoveryPreserved, CountsPreserved DEF Inv
<1> QED
  BY <1>1, <1>2, PTL DEF Spec

\* The state is well typed, and in particular no sequence of writes and undone
\* writes takes a count below 0 or beyond the slots of its worker.
THEOREM WritesTypeCorrect == Spec => []TypeOK
BY WritesInvariant, PTL DEF Inv

\* Rows and queue agree between calls, whatever write has failed, but for the
\* one job or worker whose repair failed.
THEOREM RowsAlwaysAgree == Spec => []RowsAgree
<1>1. Inv => RowsAgree
  <2> SUFFICES ASSUME Inv, Idle PROVE RowsAgree
    BY DEF RowsAgree
  <2>1. \A w \in Workers \ miscounted : running[w] = Cardinality(ActiveOn(w))
    BY WritesAssumption, ActiveCount DEF Inv, TypeOK, CallInv, CountInv, Pending, Idle
  <2>2. queue = {j \in Jobs : state[j] = "queued"} \ stranded
    BY DEF Inv, TypeOK, RowsInv, Idle, EnqueueSteps, DispatchSteps
  <2> QED
    BY <2>1, <2>2 DEF RowsAgree
<1> QED
  BY <1>1, WritesInvariant, PTL

\* Every call takes effect in one step or not at all: a row written first counts
\* only when the write that completes the call has succeeded.
THEOREM WritesAreAtomic == Spec => CallsAreAtomic
<1>1. Init => Atomic!Init
  BY WritesAssumption
     DEF Init, Atomic!Init, AbstractState, AbstractQueue, AbstractRunning, Pending
<1>2. ASSUME Inv, [Next]_vars PROVE [Atomic!Next]_(Atomic!vars)
  <2> DEFINE Goal == [Atomic!Next]_(Atomic!vars)
  <2> USE <1>2, WritesAssumption
      DEF Inv, TypeOK, CallInv, RowsInv, EnqueueSteps, DispatchSteps, ReleaseSteps,
          rowVars, callVars, history
  <2>s. ASSUME UNCHANGED <<up, AbstractState, holder, AbstractRunning, AbstractQueue, history>>
        PROVE  Goal
    BY <2>s DEF Atomic!vars, Atomic!exceptions
  <2>1. ASSUME NEW j \in Jobs, SubmitInsert(j) PROVE Goal
    <3>1. AbstractState' = AbstractState
      BY <2>1 DEF SubmitInsert, Idle, SetState, BeginCall, AbstractState
    <3>2. AbstractRunning' = AbstractRunning /\ AbstractQueue' = AbstractQueue
      BY <2>1 DEF SubmitInsert, Idle, BeginCall, AbstractRunning, AbstractQueue, Pending
    <3> QED
      BY <2>s, <2>1, <3>1, <3>2 DEF SubmitInsert
  <2>2. ASSUME EnqueueNew PROVE Goal
    <3>1. AbstractRunning' = AbstractRunning
      BY <2>2 DEF EnqueueNew, EndCall, Goto, AbstractRunning, Pending
    <3>2. CASE queue' = queue \cup {cur} /\ EndCall
      <4>1. AbstractState[cur] = "none" /\ AbstractState' = [AbstractState EXCEPT ![cur] = "queued"]
        BY <2>2, <3>2 DEF EnqueueNew, EndCall, AbstractState
      <4>2. AbstractQueue' = AbstractQueue \cup {cur}
        BY <2>2, <3>2 DEF EnqueueNew, EndCall, AbstractQueue
      <4>3. Atomic!Submit(cur)
        BY <2>2, <3>1, <4>1, <4>2 DEF EnqueueNew, Atomic!Submit, Atomic!exceptions
      <4> QED
        BY <2>2, <4>3 DEF EnqueueNew, Atomic!Next
    <3>3. CASE queue' = queue /\ Goto("erase_new")
      <4>1. AbstractState' = AbstractState /\ AbstractQueue' = AbstractQueue
        BY <2>2, <3>3 DEF EnqueueNew, Goto, AbstractState, AbstractQueue
      <4> QED
        BY <2>s, <2>2, <3>1, <4>1 DEF EnqueueNew
    <3> QED
      BY <2>2, <3>2, <3>3 DEF EnqueueNew
  <2>3. ASSUME EraseNew PROVE Goal
    <3>1. AbstractRunning' = AbstractRunning /\ AbstractQueue' = AbstractQueue
      BY <2>3 DEF EraseNew, EndCall, AbstractRunning, AbstractQueue, Pending
    <3>2. CASE SetState(cur, "none") /\ UNCHANGED history
      <4>1. AbstractState' = AbstractState
        BY <2>3, <3>2 DEF EraseNew, SetState, EndCall, AbstractState
      <4> QED
        BY <2>s, <2>3, <3>1, <3>2, <4>1 DEF EraseNew
    <3>3. CASE state' = state /\ Strand
      <4>1. AbstractState[cur] = "none" /\ AbstractState' = [AbstractState EXCEPT ![cur] = "queued"]
        BY <2>3, <3>3 DEF EraseNew, EndCall, AbstractState
      <4>2. Atomic!QueueRowOnly(cur)
        BY <2>3, <3>1, <3>3, <4>1 DEF EraseNew, Strand, Atomic!QueueRowOnly
      <4> QED
        BY <2>3, <4>2 DEF EraseNew, Atomic!Next
    <3> QED
      BY <2>3, <3>2, <3>3 DEF EraseNew
  <2>4. ASSUME NEW w \in Workers, NEW j \in Jobs, Take(w, j) PROVE Goal
    <3>1. AbstractRunning' = AbstractRunning /\ AbstractState' = AbstractState
      BY <2>4 DEF Take, Idle, BeginCall, AbstractRunning, AbstractState, Pending
    <3>2. AbstractQueue' = AbstractQueue
      BY <2>4 DEF Take, Idle, BeginCall, AbstractQueue
    <3> QED
      BY <2>s, <2>4, <3>1, <3>2 DEF Take
  \* The two ways a dispatch leaves its job outside the queue.
  <2>5. ASSUME ReadTaken \/ PutBackTaken PROVE Goal
    <3>1. AbstractRunning' = AbstractRunning /\ AbstractState' = AbstractState
      BY <2>5 DEF ReadTaken, PutBackTaken, Goto, EndCall, AbstractRunning, AbstractState, Pending
    <3>2. CASE UNCHANGED history
      <4>1. cur \notin stranded
        BY <2>5 DEF ReadTaken, PutBackTaken
      <4>2. ~Strand
        BY <2>5, <3>2, <4>1 DEF Strand
      <4>3. AbstractQueue' = AbstractQueue
        BY <2>5, <4>2 DEF ReadTaken, PutBackTaken, PutBack, Goto, EndCall, AbstractQueue
      <4> QED
        BY <2>s, <2>5, <3>1, <3>2, <4>3 DEF ReadTaken, PutBackTaken
    <3>3. CASE Strand /\ queue' = queue /\ EndCall
      <4>1. cur \in AbstractQueue /\ AbstractQueue' = AbstractQueue \ {cur}
        BY <2>5, <3>3 DEF ReadTaken, PutBackTaken, EndCall, AbstractQueue
      <4>2. Atomic!Strand(cur)
        BY <2>5, <3>1, <3>3, <4>1 DEF ReadTaken, PutBackTaken, Strand, Atomic!Strand
      <4> QED
        BY <2>5, <4>2 DEF ReadTaken, PutBackTaken, Atomic!Next
    <3> QED
      BY <2>5, <3>2, <3>3 DEF ReadTaken, PutBackTaken
  <2>6. ASSUME ReserveRow PROVE Goal
    <3>1. AbstractState' = AbstractState /\ AbstractQueue' = AbstractQueue
      BY <2>6 DEF ReserveRow, Goto, AbstractState, AbstractQueue
    <3>2. AbstractRunning' = AbstractRunning
      BY <2>6 DEF ReserveRow, CountUp, Goto, AbstractRunning, Pending
    <3> QED
      BY <2>s, <2>6, <3>1, <3>2 DEF ReserveRow
  <2>7. ASSUME LeaseRow PROVE Goal
    <3>1. CASE /\ SetState(cur, "active") /\ EndCall
               /\ holder' = [holder EXCEPT ![cur] = who]
      <4>1. /\ AbstractState[cur] = "queued"
            /\ AbstractState' = [AbstractState EXCEPT ![cur] = "active"]
        BY <2>7, <3>1 DEF LeaseRow, SetState, EndCall, AbstractState
      <4>2. cur \in AbstractQueue /\ AbstractQueue' = AbstractQueue \ {cur}
        BY <2>7, <3>1 DEF LeaseRow, EndCall, AbstractQueue
      <4>3. /\ AbstractRunning[who] < Slots
            /\ AbstractRunning' = [AbstractRunning EXCEPT ![who] = @ + 1]
        <5>1. AbstractRunning = [w \in Workers |-> IF w = who THEN running[w] - 1 ELSE running[w]]
          BY <2>7, <3>1 DEF LeaseRow, AbstractRunning, Pending
        <5>2. AbstractRunning' = [w \in Workers |-> running[w]]
          BY <2>7, <3>1 DEF LeaseRow, EndCall, AbstractRunning, Pending
        <5> QED
          BY <2>7, <5>1, <5>2 DEF LeaseRow
      <4>4. Atomic!Dispatch(who, cur)
        BY <2>7, <3>1, <4>1, <4>2, <4>3 DEF LeaseRow, Atomic!Dispatch, Atomic!exceptions
      <4> QED
        BY <2>7, <4>4 DEF LeaseRow, Atomic!Next
    <3>2. CASE UNCHANGED <<state, holder>> /\ Goto("unreserve")
      <4>1. AbstractState' = AbstractState /\ AbstractQueue' = AbstractQueue
        BY <2>7, <3>2 DEF LeaseRow, Goto, AbstractState, AbstractQueue
      <4>2. AbstractRunning' = AbstractRunning
        BY <2>7, <3>2 DEF LeaseRow, Goto, AbstractRunning, Pending
      <4> QED
        BY <2>s, <2>7, <3>2, <4>1, <4>2 DEF LeaseRow
    <3> QED
      BY <2>7, <3>1, <3>2 DEF LeaseRow
  \* The two ways a call leaves a wrong count.
  <2>8. ASSUME UnreserveRow \/ UnreleaseRow PROVE Goal
    <3>1. AbstractState' = AbstractState /\ AbstractQueue' = AbstractQueue
      BY <2>8 DEF UnreserveRow, UnreleaseRow, Goto, EndCall, AbstractState, AbstractQueue
    <3>2. CASE UNCHANGED history /\ (UnreserveRow => CountDown(who)) /\ (UnreleaseRow => CountUp(who))
      <4>1. AbstractRunning' = AbstractRunning
        <5>1. CASE UnreserveRow
          BY <3>2, <5>1 DEF UnreserveRow, CountDown, Goto, AbstractRunning, Pending
        <5>2. CASE UnreleaseRow
          BY <3>2, <5>2 DEF UnreleaseRow, CountUp, EndCall, AbstractRunning, Pending
        <5> QED
          BY <2>8, <5>1, <5>2
      <4> QED
        BY <2>s, <2>8, <3>1, <3>2, <4>1 DEF UnreserveRow, UnreleaseRow
    <3>3. CASE running' = running /\ Miscount
      <4>1. who \in Workers /\ up
        BY <2>8 DEF UnreserveRow, UnreleaseRow
      <4>2. AbstractRunning' = [AbstractRunning EXCEPT ![who] = running[who]]
        <5>1. \A w \in Workers \ {who} : AbstractRunning[w] = running[w]
          BY <4>1 DEF AbstractRunning, Pending
        <5>2. AbstractRunning' = [w \in Workers |-> running[w]]
          <6>1. up' /\ step' \in {"put_back", "idle"} /\ running' = running
            BY <2>8, <3>3, <4>1 DEF UnreserveRow, UnreleaseRow, Goto, EndCall
          <6> QED
            BY <6>1 DEF AbstractRunning, Pending
        <5>3. AbstractRunning = [w \in Workers |-> AbstractRunning[w]]
          BY <4>1 DEF AbstractRunning
        <5> QED
          BY <4>1, <5>1, <5>2, <5>3
      <4>3. Atomic!Miscount(who)
        BY <2>8, <3>1, <3>3, <4>1, <4>2 DEF UnreserveRow, UnreleaseRow, Miscount, Atomic!Miscount
      <4> QED
        BY <4>1, <4>3 DEF Atomic!Next
    <3> QED
      BY <2>8, <3>2, <3>3 DEF UnreserveRow, UnreleaseRow, RestoreCount
  <2>9. ASSUME NEW j \in Jobs, NEW s \in {"finish", "expire"}, ReleaseRow(j, s) PROVE Goal
    <3>1. AbstractState' = AbstractState /\ AbstractQueue' = AbstractQueue
      BY <2>9 DEF ReleaseRow, Idle, BeginCall, AbstractState, AbstractQueue
    <3>2. AbstractRunning' = AbstractRunning
      BY <2>9 DEF ReleaseRow, Idle, BeginCall, CountDown, AbstractRunning, Pending
    <3> QED
      BY <2>s, <2>9, <3>1, <3>2 DEF ReleaseRow
  <2>10. ASSUME NEW j \in Jobs, ExpireUncounted(j) PROVE Goal
    <3>1. /\ AbstractState[j] = "active"
          /\ AbstractState' = [AbstractState EXCEPT ![j] = "retry_wait"]
      BY <2>10 DEF ExpireUncounted, Idle, SetState, AbstractState
    <3>2. AbstractRunning[holder[j]] = 0 /\ AbstractRunning' = AbstractRunning
      BY <2>10 DEF ExpireUncounted, Idle, AbstractRunning, Pending
    <3>3. AbstractQueue' = AbstractQueue
      BY <2>10 DEF ExpireUncounted, AbstractQueue
    <3>4. Atomic!Expire(j)
      BY <2>10, <3>1, <3>2, <3>3 DEF ExpireUncounted, Idle, Atomic!Expire, Atomic!exceptions
    <3> QED
      BY <3>4 DEF Atomic!Next
  <2>11. ASSUME FinishRow \/ ExpireRow PROVE Goal
    <3>0. AbstractQueue' = AbstractQueue
      BY <2>11 DEF FinishRow, ExpireRow, Goto, EndCall, AbstractQueue
    <3>1. CASE UNCHANGED <<state, holder>> /\ Goto("unrelease")
      <4>1. AbstractState' = AbstractState /\ AbstractRunning' = AbstractRunning
        BY <2>11, <3>1 DEF FinishRow, ExpireRow, Goto, AbstractState, AbstractRunning, Pending
      <4> QED
        BY <2>s, <2>11, <3>0, <3>1, <4>1 DEF FinishRow, ExpireRow
    <3>2. ASSUME EndCall, NEW s \in {"done", "retry_wait"}, SetState(cur, s)
          PROVE  /\ cur \in Jobs /\ up /\ holder[cur] \in Workers
                 /\ AbstractState[cur] = "active"
                 /\ AbstractState' = [AbstractState EXCEPT ![cur] = s]
                 /\ AbstractRunning[holder[cur]] > 0
                 /\ AbstractRunning' = [AbstractRunning EXCEPT ![holder[cur]] = @ - 1]
      <4>1. AbstractState[cur] = "active" /\ AbstractState' = [AbstractState EXCEPT ![cur] = s]
        BY <2>11, <3>2 DEF FinishRow, ExpireRow, SetState, EndCall, AbstractState
      <4>2. cur \in Jobs /\ up /\ holder[cur] \in Workers /\ holder[cur] = who
        BY <2>11 DEF FinishRow, ExpireRow
      <4>3. /\ AbstractRunning[who] > 0
            /\ AbstractRunning' = [AbstractRunning EXCEPT ![who] = @ - 1]
        <5>0. /\ step \in {"finish", "expire"} /\ up /\ up'
              /\ who' = NoWorker /\ running' = running
          BY <2>11, <3>2, <4>2 DEF FinishRow, ExpireRow, EndCall
        <5>1. AbstractRunning = [w \in Workers |-> IF w = who THEN running[w] + 1 ELSE running[w]]
          <6>1. \A w \in Workers : Pending(w) = IF w = who THEN -1 ELSE 0
            BY <5>0 DEF Pending
          <6> QED
            BY <5>0, <6>1 DEF AbstractRunning
        <5>2. AbstractRunning' = [w \in Workers |-> running[w]]
          BY <5>0 DEF AbstractRunning, Pending
        <5> QED
          BY <4>2, <5>1, <5>2
      <4> QED
        BY <4>1, <4>2, <4>3
    <3>3. CASE FinishRow /\ SetState(cur, "done") /\ EndCall
      <4>1. Atomic!Finish(cur)
        BY <3>0, <3>2, <3>3 DEF FinishRow, Atomic!Finish, Atomic!Release, Atomic!exceptions
      <4> QED
        BY <3>2, <3>3, <4>1 DEF Atomic!Next
    <3>4. CASE /\ ExpireRow /\ SetState(cur, "retry_wait") /\ EndCall
               /\ holder' = [holder EXCEPT ![cur] = NoWorker]
      <4>1. Atomic!Expire(cur)
        BY <3>0, <3>2, <3>4 DEF ExpireRow, Atomic!Expire, Atomic!Release, Atomic!exceptions
      <4> QED
        BY <3>2, <3>4, <4>1 DEF Atomic!Next
    <3> QED
      BY <2>11, <3>1, <3>3, <3>4 DEF FinishRow, ExpireRow
  <2>12. ASSUME NEW j \in Jobs, RequeueRow(j) PROVE Goal
    <3>1. CASE SetState(j, "queued") /\ BeginCall("enqueue_again", j, NoWorker)
      <4>1. AbstractState' = AbstractState /\ AbstractQueue' = AbstractQueue
        BY <2>12, <3>1 DEF RequeueRow, Idle, SetState, BeginCall, AbstractState, AbstractQueue
      <4>2. AbstractRunning' = AbstractRunning
        BY <2>12, <3>1 DEF RequeueRow, Idle, BeginCall, AbstractRunning, Pending
      <4> QED
        BY <2>s, <2>12, <4>1, <4>2 DEF RequeueRow
    <3>2. CASE SetState(j, "done") /\ UNCHANGED callVars
      <4>1. AbstractState[j] = "retry_wait" /\ AbstractState' = [AbstractState EXCEPT ![j] = "done"]
        BY <2>12, <3>2 DEF RequeueRow, Idle, SetState, AbstractState
      <4>2. AbstractQueue' = AbstractQueue /\ AbstractRunning' = AbstractRunning
        BY <2>12, <3>2 DEF RequeueRow, AbstractQueue, AbstractRunning, Pending
      <4>3. Atomic!GiveUp(j)
        BY <2>12, <4>1, <4>2 DEF RequeueRow, Idle, Atomic!GiveUp, Atomic!exceptions
      <4> QED
        BY <4>3 DEF Atomic!Next
    <3> QED
      BY <2>12, <3>1, <3>2 DEF RequeueRow
  <2>13. ASSUME EnqueueAgain PROVE Goal
    <3>1. AbstractRunning' = AbstractRunning
      BY <2>13 DEF EnqueueAgain, EndCall, Goto, AbstractRunning, Pending
    <3>2. CASE queue' = queue \cup {cur} /\ EndCall
      <4>1. /\ AbstractState[cur] = "retry_wait"
            /\ AbstractState' = [AbstractState EXCEPT ![cur] = "queued"]
        BY <2>13, <3>2 DEF EnqueueAgain, EndCall, AbstractState
      <4>2. AbstractQueue' = AbstractQueue \cup {cur}
        BY <2>13, <3>2 DEF EnqueueAgain, EndCall, AbstractQueue
      <4>3. Atomic!Requeue(cur)
        BY <2>13, <3>1, <4>1, <4>2 DEF EnqueueAgain, Atomic!Requeue, Atomic!exceptions
      <4> QED
        BY <2>13, <4>3 DEF EnqueueAgain, Atomic!Next
    <3>3. CASE queue' = queue /\ Goto("unqueue")
      <4>1. AbstractState' = AbstractState /\ AbstractQueue' = AbstractQueue
        BY <2>13, <3>3 DEF EnqueueAgain, Goto, AbstractState, AbstractQueue
      <4> QED
        BY <2>s, <2>13, <3>1, <4>1 DEF EnqueueAgain
    <3> QED
      BY <2>13, <3>2, <3>3 DEF EnqueueAgain
  <2>14. ASSUME UnqueueRow PROVE Goal
    <3>1. AbstractRunning' = AbstractRunning /\ AbstractQueue' = AbstractQueue
      BY <2>14 DEF UnqueueRow, EndCall, AbstractRunning, AbstractQueue, Pending
    <3>2. CASE SetState(cur, "retry_wait") /\ UNCHANGED history
      <4>1. AbstractState' = AbstractState
        BY <2>14, <3>2 DEF UnqueueRow, SetState, EndCall, AbstractState
      <4> QED
        BY <2>s, <2>14, <3>1, <3>2, <4>1 DEF UnqueueRow
    <3>3. CASE state' = state /\ Strand
      <4>1. /\ AbstractState[cur] = "retry_wait"
            /\ AbstractState' = [AbstractState EXCEPT ![cur] = "queued"]
        BY <2>14, <3>3 DEF UnqueueRow, EndCall, AbstractState
      <4>2. Atomic!QueueRowOnly(cur)
        BY <2>14, <3>1, <3>3, <4>1 DEF UnqueueRow, Strand, Atomic!QueueRowOnly
      <4> QED
        BY <2>14, <4>2 DEF UnqueueRow, Atomic!Next
    <3> QED
      BY <2>14, <3>2, <3>3 DEF UnqueueRow
  \* The end of the process completes the row of a submission or a requeueing.
  <2>15. ASSUME Crash PROVE Goal
    <3>1. /\ AbstractQueue' = {} /\ AbstractRunning' = [w \in Workers |-> 0]
          /\ AbstractState' = state /\ holder' = holder
      BY <2>15 DEF Crash, EndCall, AbstractQueue, AbstractRunning, AbstractState
    <3>2. CASE step \in EnqueueSteps
      <4>1. AbstractState[cur] \in {"none", "retry_wait"} /\ cur \in Jobs
        BY <3>2 DEF AbstractState
      <4>2. state = [AbstractState EXCEPT ![cur] = "queued"]
        BY <3>2 DEF AbstractState
      <4>3. Atomic!Stop
        BY <2>15, <3>1, <4>1, <4>2 DEF Crash, Atomic!Stop
      <4> QED
        BY <4>3 DEF Atomic!Next
    <3>3. CASE step \notin EnqueueSteps
      <4>1. AbstractState = state
        BY <3>3 DEF AbstractState
      <4>2. Atomic!Stop
        BY <2>15, <3>1, <4>1 DEF Crash, Atomic!Stop
      <4> QED
        BY <4>2 DEF Atomic!Next
    <3> QED
      BY <3>2, <3>3
  <2>16. ASSUME BeginRecovery \/ \E w \in Workers : RecoverWorkerRow(w) PROVE Goal
    <3>1. ~up /\ up' = up /\ holder' = holder /\ UNCHANGED history
      BY <2>16 DEF BeginRecovery, RecoverWorkerRow
    <3>2. AbstractQueue' = AbstractQueue /\ AbstractRunning' = AbstractRunning
      BY <3>1 DEF AbstractQueue, AbstractRunning
    <3>3. AbstractState' = AbstractState
      BY <2>16 DEF BeginRecovery, RecoverWorkerRow, AbstractState
    <3> QED
      BY <2>s, <3>1, <3>2, <3>3
  <2>17. ASSUME NEW j \in Jobs, RecoverJobRow(j) PROVE Goal
    <3>1. ~up /\ ~up' /\ up' = up /\ cur = NoJob /\ cur' = NoJob /\ UNCHANGED history
      BY <2>17 DEF RecoverJobRow
    <3>2. AbstractQueue' = AbstractQueue /\ AbstractRunning' = AbstractRunning
      BY <3>1 DEF AbstractQueue, AbstractRunning
    <3>3. AbstractState = state /\ AbstractState' = state'
      <4>1. state' \in [Jobs -> States]
        BY <2>17 DEF RecoverJobRow, SetState, States
      <4> QED
        BY <3>1, <4>1 DEF AbstractState
    <3>4. CASE state[j] \in {"none", "done"}
      BY <2>s, <2>17, <3>1, <3>2, <3>3, <3>4 DEF RecoverJobRow
    <3>5. CASE state[j] \notin {"none", "done"}
      <4>1. Atomic!Recover(j)
        BY <2>17, <3>1, <3>2, <3>3, <3>5
           DEF RecoverJobRow, SetState, Atomic!Recover, Atomic!exceptions, States
      <4> QED
        BY <4>1 DEF Atomic!Next
    <3> QED
      BY <3>4, <3>5
  <2>18. ASSUME Serve PROVE Goal
    <3>1. ~up /\ cur = NoJob /\ state' = state /\ queue' = queue /\ holder' = holder
      BY <2>18 DEF Serve
    <3>2. AbstractState = state /\ AbstractState' = state
      BY <2>18, <3>1 DEF Serve, EndCall, AbstractState
    <3>3. /\ queue = {j \in Jobs : state[j] = "queued"}
          /\ \A w \in Workers : running[w] = 0
          /\ \A j \in Jobs : state[j] \in {"none", "queued", "done"}
      BY <2>18 DEF Serve, RecoveryInv
    <3>4. AbstractQueue' = {j \in Jobs : state[j] = "queued"}
      BY <2>18, <3>3 DEF Serve, EndCall, AbstractQueue
    <3>5. AbstractRunning' = AbstractRunning
      BY <2>18, <3>3 DEF Serve, EndCall, AbstractRunning, Pending
    <3>6. Atomic!Start
      BY <2>18, <3>1, <3>2, <3>3, <3>4, <3>5 DEF Serve, Atomic!Start, Atomic!exceptions
    <3> QED
      BY <3>6 DEF Atomic!Next
  <2>19. CASE UNCHANGED vars
    BY <2>s, <2>19 DEF vars, AbstractState, AbstractRunning, AbstractQueue, Pending
  <2> QED
    BY <2>1, <2>2, <2>3, <2>4, <2>5, <2>6, <2>7, <2>8, <2>9, <2>10, <2>11, <2>12, <2>13,
       <2>14, <2>15, <2>16, <2>17, <2>18, <2>19 DEF Next
<1> QED
  BY <1>1, <1>2, WritesInvariant, PTL DEF Spec, CallsAreAtomic, Atomic!Spec
===============================================================================
