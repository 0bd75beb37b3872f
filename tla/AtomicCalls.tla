----------------------------- MODULE AtomicCalls -----------------------------
(***************************************************************************)
(* What the calls of the coordinator promise about the rows and the queue: *)
(* each one takes effect in one step or not at all.  Module Coordinator is *)
(* written as if the promise were kept; CoordinatorWrites keeps it with    *)
(* separate row writes and compensations.                                  *)
(*                                                                         *)
(* Some steps are no part of the promise, and the code makes them: a       *)
(* failure can leave a queued job outside the queue or a worker row with a *)
(* wrong count, and the end of the process can leave a row written by a    *)
(* call nobody was answered.                                               *)
(***************************************************************************)
EXTENDS Integers

CONSTANTS Jobs, Workers,
          NoWorker,     \* the empty assigned_worker_id
          Slots         \* max_concurrent_jobs of every worker

VARIABLES up,           \* the coordinator serves calls
          state,        \* job rows: state
          holder,       \* job rows: assigned_worker_id
          running,      \* worker rows: running_jobs, 0 while the coordinator is down
          queue,        \* jobs in the in-memory queue
          stranded,     \* queued jobs that a failure left outside the queue
          miscounted    \* workers whose row a failure left wrong

exceptions == <<stranded, miscounted>>
vars == <<up, state, holder, running, queue, exceptions>>

Init ==
  /\ up = TRUE
  /\ state = [j \in Jobs |-> "none"]
  /\ holder = [j \in Jobs |-> NoWorker]
  /\ running = [w \in Workers |-> 0]
  /\ queue = {}
  /\ stranded = {} /\ miscounted = {}

Submit(j) ==
  /\ up /\ state[j] = "none"
  /\ state' = [state EXCEPT ![j] = "queued"]
  /\ queue' = queue \cup {j}
  /\ UNCHANGED <<up, holder, running, exceptions>>

Dispatch(w, j) ==
  /\ up /\ j \in queue /\ state[j] = "queued" /\ running[w] < Slots
  /\ state' = [state EXCEPT ![j] = "active"]
  /\ holder' = [holder EXCEPT ![j] = w]
  /\ running' = [running EXCEPT ![w] = @ + 1]
  /\ queue' = queue \ {j}
  /\ UNCHANGED <<up, exceptions>>

Release(j) ==
  running' = [running EXCEPT ![holder[j]] = @ - 1]

Finish(j) ==
  /\ up /\ state[j] = "active" /\ running[holder[j]] > 0
  /\ Release(j)
  /\ state' = [state EXCEPT ![j] = "done"]
  /\ UNCHANGED <<up, holder, queue, exceptions>>

Expire(j) ==
  /\ up /\ state[j] = "active"
  /\ IF running[holder[j]] > 0 THEN Release(j) ELSE UNCHANGED running
  /\ state' = [state EXCEPT ![j] = "retry_wait"]
  /\ holder' = [holder EXCEPT ![j] = NoWorker]
  /\ UNCHANGED <<up, queue, exceptions>>

Requeue(j) ==
  /\ up /\ state[j] = "retry_wait"
  /\ state' = [state EXCEPT ![j] = "queued"]
  /\ queue' = queue \cup {j}
  /\ UNCHANGED <<up, holder, running, exceptions>>

GiveUp(j) ==
  /\ up /\ state[j] = "retry_wait"
  /\ state' = [state EXCEPT ![j] = "done"]
  /\ UNCHANGED <<up, holder, running, queue, exceptions>>

\* The exceptions to the promise while the process runs.
Strand(j) ==
  /\ up /\ j \in queue
  /\ queue' = queue \ {j}
  /\ stranded' = stranded \cup {j}
  /\ UNCHANGED <<up, state, holder, running, miscounted>>

QueueRowOnly(j) ==
  /\ up /\ state[j] \in {"none", "retry_wait"}
  /\ state' = [state EXCEPT ![j] = "queued"]
  /\ stranded' = stranded \cup {j}
  /\ UNCHANGED <<up, holder, running, queue, miscounted>>

Miscount(w) ==
  /\ up
  /\ \E n \in 0..Slots : running' = [running EXCEPT ![w] = n]
  /\ miscounted' = miscounted \cup {w}
  /\ UNCHANGED <<up, state, holder, queue, stranded>>

\* The process ends, perhaps after the row write of a Submit or a Requeue.
Stop ==
  /\ up' = FALSE
  /\ running' = [w \in Workers |-> 0]
  /\ queue' = {}
  /\ \/ UNCHANGED state
     \/ \E j \in Jobs : /\ state[j] \in {"none", "retry_wait"}
                        /\ state' = [state EXCEPT ![j] = "queued"]
  /\ stranded' = {} /\ miscounted' = {}
  /\ UNCHANGED holder

\* Recovery settles the unfinished jobs one after another.
Recover(j) ==
  /\ ~up /\ state[j] \in {"queued", "active", "retry_wait"}
  /\ \/ state' = [state EXCEPT ![j] = "queued"]
     \/ state' = [state EXCEPT ![j] = "done"]
  /\ holder' = [holder EXCEPT ![j] = NoWorker]
  /\ UNCHANGED <<up, running, queue, exceptions>>

\* It is over when every job that can run again is queued.
Start ==
  /\ ~up
  /\ \A j \in Jobs : state[j] \in {"none", "queued", "done"}
  /\ up' = TRUE
  /\ queue' = {j \in Jobs : state[j] = "queued"}
  /\ UNCHANGED <<state, holder, running, exceptions>>

Next ==
  \/ \E j \in Jobs : \/ Submit(j) \/ Finish(j) \/ Expire(j) \/ Requeue(j) \/ GiveUp(j)
                     \/ Strand(j) \/ QueueRowOnly(j) \/ Recover(j)
                     \/ \E w \in Workers : Dispatch(w, j)
  \/ \E w \in Workers : Miscount(w)
  \/ Stop
  \/ Start

Spec == Init /\ [][Next]_vars
===============================================================================
