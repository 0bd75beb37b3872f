-------------------------- MODULE CoordinatorWrites --------------------------
(***************************************************************************)
(* The calls of InMemoryCoordinator that write more than one thing: two    *)
(* rows, or a row and the queue.  Each write is a step of its own that may *)
(* fail, with a database that is busy, full or unreadable, or with no      *)
(* memory left for the queue; the call then undoes by another write what   *)
(* it has done and throws.  A write that fails changes nothing             *)
(* (TransactionInv of SqliteRepositories), and the process may end between *)
(* any two steps.                                                          *)
(*                                                                         *)
(* Calls run under the service's mutex, one at a time.  The write that     *)
(* undoes another may fail as well, and the code does nothing about it;    *)
(* stranded and miscounted remember where.  Leases, attempts and worker    *)
(* states are those of Coordinator; a worker that registers again is not   *)
(* considered here.                                                        *)
(***************************************************************************)
EXTENDS Integers, FiniteSets

CONSTANTS Jobs, Workers,
          NoWorker,     \* the empty assigned_worker_id
          NoJob,        \* no job is being treated
          Slots         \* max_concurrent_jobs of every worker

ASSUME WritesAssumption ==
  /\ IsFiniteSet(Jobs) /\ NoJob \notin Jobs
  /\ NoWorker \notin Workers /\ Jobs \cap Workers = {}
  /\ Slots \in Nat

VARIABLES
  up,         \* the coordinator serves calls
  state,      \* job rows: state; leased and running are "active"
  holder,     \* job rows: assigned_worker_id
  running,    \* worker rows: running_jobs
  queue,      \* jobs in the in-memory queue
  step,       \* the next step of the call in progress, "idle" for none
  cur,        \* the job the call treats
  who,        \* the worker whose row it writes
  todo,       \* rows recovery has still to treat
  stranded,   \* history: queued jobs that a failure left outside the queue
  miscounted  \* history: workers whose row a failure left wrong

rowVars  == <<state, holder, running>>
callVars == <<step, cur, who>>
history  == <<stranded, miscounted>>
vars == <<up, rowVars, queue, callVars, todo, history>>

Steps == {"idle", "enqueue_new", "erase_new", "read_taken", "reserve", "lease",
          "unreserve", "put_back", "finish", "expire", "unrelease",
          "enqueue_again", "unqueue", "recover"}
States == {"none", "queued", "active", "retry_wait", "done"}

TypeOK ==
  /\ up \in BOOLEAN
  /\ state \in [Jobs -> States]
  /\ holder \in [Jobs -> Workers \cup {NoWorker}]
  /\ running \in [Workers -> 0..Slots]
  /\ queue \in SUBSET Jobs
  /\ step \in Steps
  /\ cur \in Jobs \cup {NoJob}
  /\ who \in Workers \cup {NoWorker}
  /\ todo \in SUBSET (Jobs \cup Workers)
  /\ stranded \in SUBSET Jobs
  /\ miscounted \in SUBSET Workers

Init ==
  /\ up = TRUE
  /\ state = [j \in Jobs |-> "none"]
  /\ holder = [j \in Jobs |-> NoWorker]
  /\ running = [w \in Workers |-> 0]
  /\ queue = {}
  /\ step = "idle" /\ cur = NoJob /\ who = NoWorker
  /\ todo = {}
  /\ stranded = {} /\ miscounted = {}

------------------------------------------------------------------------------
(* The steps of a call. *)

\* The mutex is free.
Idle == up /\ step = "idle"

\* The call begins with job j and the row of worker w, and goes on.
BeginCall(s, j, w) == step' = s /\ cur' = j /\ who' = w
Goto(s) == step' = s /\ UNCHANGED <<cur, who>>

\* The call is over, with an answer or with an exception.
EndCall == step' = "idle" /\ cur' = NoJob /\ who' = NoWorker

\* The write that puts the queue, or a worker row, right again fails.
Strand == stranded' = stranded \cup {cur} /\ UNCHANGED miscounted
Miscount == miscounted' = miscounted \cup {who} /\ UNCHANGED stranded

SetState(j, s) == state' = [state EXCEPT ![j] = s]

CountUp(w) == running' = [running EXCEPT ![w] = @ + 1]
CountDown(w) == running' = [running EXCEPT ![w] = @ - 1]

\* Mutation: the compensation of a dispatch forgets the queue.
PutBackNothing == UNCHANGED queue

\* enqueue(original_record.job), unless the queue holds the job.
PutBack == queue' = queue \cup {cur}

\* Mutation: the compensation of a completion is left out.
KeepsReleased(w) == UNCHANGED running

\* worker_repository_.update(original_worker) after a release.
RestoreCount(w) == CountUp(w)

------------------------------------------------------------------------------
(* submit_job: insert, enqueue; erase. *)

SubmitInsert(j) ==
  /\ Idle /\ state[j] = "none"
  /\ SetState(j, "queued")
  /\ BeginCall("enqueue_new", j, NoWorker)
  /\ UNCHANGED <<up, holder, running, queue, todo, history>>

EnqueueNew ==
  /\ step = "enqueue_new"
  /\ \/ queue' = queue \cup {cur} /\ EndCall
     \/ UNCHANGED queue /\ Goto("erase_new")
  /\ UNCHANGED <<up, rowVars, todo, history>>

EraseNew ==
  /\ step = "erase_new"
  /\ \/ SetState(cur, "none") /\ UNCHANGED history
     \/ UNCHANGED state /\ Strand
  /\ EndCall
  /\ UNCHANGED <<up, holder, running, queue, todo>>

------------------------------------------------------------------------------
(* apply_dispatch_decision: take, read the job, write the worker, write the   *)
(* job; restore the worker, put the job back.                                 *)

Take(w, j) ==
  /\ Idle /\ j \in queue /\ running[w] < Slots
  /\ queue' = queue \ {j}
  /\ BeginCall("read_taken", j, w)
  /\ UNCHANGED <<up, rowVars, todo, history>>

\* The row is read between the take and the try block: a read that fails leaves
\* the call at once.
ReadTaken ==
  /\ step = "read_taken"
  /\ \/ Goto("reserve") /\ UNCHANGED history
     \/ EndCall /\ Strand
  /\ UNCHANGED <<up, rowVars, queue, todo>>

\* Mutation: the compensation undoes a write that has failed.
ReserveRowUndone ==
  /\ step = "reserve"
  /\ \/ CountUp(who) /\ Goto("lease")
     \/ UNCHANGED running /\ Goto("unreserve")
  /\ UNCHANGED <<up, state, holder, queue, todo, history>>

ReserveRow ==
  /\ step = "reserve"
  /\ \/ CountUp(who) /\ Goto("lease")
     \/ UNCHANGED running /\ Goto("put_back")
  /\ UNCHANGED <<up, state, holder, queue, todo, history>>

LeaseRow ==
  /\ step = "lease"
  /\ \/ /\ SetState(cur, "active")
        /\ holder' = [holder EXCEPT ![cur] = who]
        /\ EndCall
     \/ UNCHANGED <<state, holder>> /\ Goto("unreserve")
  /\ UNCHANGED <<up, running, queue, todo, history>>

UnreserveRow ==
  /\ step = "unreserve"
  /\ \/ CountDown(who) /\ UNCHANGED history
     \/ UNCHANGED running /\ Miscount
  /\ Goto("put_back")
  /\ UNCHANGED <<up, state, holder, queue, todo>>

PutBackTaken ==
  /\ step = "put_back"
  /\ \/ PutBack /\ UNCHANGED history
     \/ UNCHANGED queue /\ Strand
  /\ EndCall
  /\ UNCHANGED <<up, rowVars, todo>>

------------------------------------------------------------------------------
(* finish_job and one record of mark_expired_job_leases: release the worker,   *)
(* write the job; restore the worker.                                          *)

\* Releasing throws, before any write, on a row that counts no job.
ReleaseRow(j, s) ==
  /\ Idle /\ state[j] = "active" /\ running[holder[j]] > 0
  /\ CountDown(holder[j])
  /\ BeginCall(s, j, holder[j])
  /\ UNCHANGED <<up, state, holder, queue, todo, history>>

\* An expiry then leaves the worker alone.
ExpireUncounted(j) ==
  /\ Idle /\ state[j] = "active" /\ running[holder[j]] = 0
  /\ SetState(j, "retry_wait")
  /\ holder' = [holder EXCEPT ![j] = NoWorker]
  /\ UNCHANGED <<up, running, queue, callVars, todo, history>>

FinishRow ==
  /\ step = "finish"
  /\ \/ SetState(cur, "done") /\ EndCall
     \/ UNCHANGED state /\ Goto("unrelease")
  /\ UNCHANGED <<up, holder, running, queue, todo, history>>

ExpireRow ==
  /\ step = "expire"
  /\ \/ /\ SetState(cur, "retry_wait")
        /\ holder' = [holder EXCEPT ![cur] = NoWorker]
        /\ EndCall
     \/ UNCHANGED <<state, holder>> /\ Goto("unrelease")
  /\ UNCHANGED <<up, running, queue, todo, history>>

UnreleaseRow ==
  /\ step = "unrelease"
  /\ \/ RestoreCount(who) /\ UNCHANGED history
     \/ UNCHANGED running /\ Miscount
  /\ EndCall
  /\ UNCHANGED <<up, state, holder, queue, todo>>

------------------------------------------------------------------------------
(* One record of requeue_retry_wait_jobs: write the job, enqueue; write the    *)
(* original row.  A job without attempts is written once.                      *)

RequeueRow(j) ==
  /\ Idle /\ state[j] = "retry_wait"
  /\ \/ SetState(j, "queued") /\ BeginCall("enqueue_again", j, NoWorker)
     \/ SetState(j, "done") /\ UNCHANGED callVars
  /\ UNCHANGED <<up, holder, running, queue, todo, history>>

EnqueueAgain ==
  /\ step = "enqueue_again"
  /\ \/ queue' = queue \cup {cur} /\ EndCall
     \/ UNCHANGED queue /\ Goto("unqueue")
  /\ UNCHANGED <<up, rowVars, todo, history>>

UnqueueRow ==
  /\ step = "unqueue"
  /\ \/ SetState(cur, "retry_wait") /\ UNCHANGED history
     \/ UNCHANGED state /\ Strand
  /\ EndCall
  /\ UNCHANGED <<up, holder, running, queue, todo>>

------------------------------------------------------------------------------
(* The end of the process, and recovery. *)

\* In the middle of a call, of a recovery, or between two calls.  A step of
\* recovery that fails ends the process too.
Crash ==
  /\ up' = FALSE
  /\ queue' = {}
  /\ EndCall
  /\ todo' = {}
  /\ stranded' = {} /\ miscounted' = {}
  /\ UNCHANGED rowVars

\* The constructor of the next process lists the rows.
BeginRecovery ==
  /\ ~up /\ step = "idle"
  /\ todo' = Jobs \cup Workers
  /\ step' = "recover" /\ UNCHANGED <<cur, who>>
  /\ UNCHANGED <<up, rowVars, queue, history>>

\* Every worker row first ...
RecoverCount(w) == running' = [running EXCEPT ![w] = 0]

RecoverWorkerRow(w) ==
  /\ step = "recover" /\ w \in todo
  /\ RecoverCount(w)
  /\ todo' = todo \ {w}
  /\ UNCHANGED <<up, state, holder, queue, callVars, history>>

\* ... then every job row, with the queue.
RecoverJobRow(j) ==
  /\ step = "recover" /\ todo \cap Workers = {} /\ j \in todo
  /\ todo' = todo \ {j}
  /\ IF state[j] \in {"none", "done"}
     THEN UNCHANGED <<state, holder, queue>>
     ELSE /\ holder' = [holder EXCEPT ![j] = NoWorker]
          /\ \/ SetState(j, "queued") /\ queue' = queue \cup {j}
             \/ SetState(j, "done") /\ UNCHANGED queue
  /\ UNCHANGED <<up, running, callVars, history>>

Serve ==
  /\ step = "recover" /\ todo = {}
  /\ up' = TRUE
  /\ EndCall
  /\ UNCHANGED <<rowVars, queue, todo, history>>

------------------------------------------------------------------------------
Next ==
  \/ \E j \in Jobs :
       \/ SubmitInsert(j)
       \/ \E w \in Workers : Take(w, j)
       \/ ReleaseRow(j, "finish") \/ ReleaseRow(j, "expire") \/ ExpireUncounted(j)
       \/ RequeueRow(j)
       \/ RecoverJobRow(j)
  \/ EnqueueNew \/ EraseNew
  \/ ReadTaken \/ ReserveRow \/ LeaseRow \/ UnreserveRow \/ PutBackTaken
  \/ FinishRow \/ ExpireRow \/ UnreleaseRow
  \/ EnqueueAgain \/ UnqueueRow
  \/ Crash \/ BeginRecovery \/ Serve
  \/ \E w \in Workers : RecoverWorkerRow(w)

Spec == Init /\ [][Next]_vars

------------------------------------------------------------------------------
(* Properties. *)

ActiveOn(w) == {j \in Jobs : state[j] = "active" /\ holder[j] = w}

\* Whenever no call is in progress, every worker row counts the active jobs it
\* is assigned, and the queue holds the jobs stored as queued, in any order of
\* calls, failing writes and restarts ("Keep repository and queue state
\* consistent", in_memory_coordinator.cpp).  The exceptions are confined to the
\* one job or the one worker row whose repair failed, or whose row could not be
\* read after the job had left the queue, and end with the next restart.
RowsAgree ==
  Idle =>
    /\ \A w \in Workers \ miscounted : running[w] = Cardinality(ActiveOn(w))
    /\ queue = {j \in Jobs : state[j] = "queued"} \ stranded

\* The count of a worker row differs from the abstract one while a call has
\* written the worker and not yet the job.
Pending(w) ==
  CASE w # who -> 0
    [] w = who /\ step \in {"lease", "unreserve"} -> 1
    [] w = who /\ step \in {"finish", "expire", "unrelease"} -> -1
    [] OTHER -> 0

\* A row of a new or requeued job is written before the queue, and a job is
\* taken out of the queue before its row is written.
AbstractState ==
  [j \in Jobs |->
     CASE j = cur /\ step \in {"enqueue_new", "erase_new"} -> "none"
       [] j = cur /\ step \in {"enqueue_again", "unqueue"} -> "retry_wait"
       [] OTHER -> state[j]]
AbstractQueue ==
  IF ~up THEN {}
  ELSE queue \cup (IF step \in {"read_taken", "reserve", "lease", "unreserve", "put_back"}
                   THEN {cur} ELSE {})
AbstractRunning == [w \in Workers |-> IF up THEN running[w] - Pending(w) ELSE 0]

\* Every call takes effect in one step or not at all, whatever step of it
\* fails, with the exceptions that AtomicCalls names.
Atomic == INSTANCE AtomicCalls
  WITH state <- AbstractState, queue <- AbstractQueue, running <- AbstractRunning
CallsAreAtomic == Atomic!Spec
===============================================================================
