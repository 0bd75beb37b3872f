------------------------------- MODULE Startup -------------------------------
(***************************************************************************)
(* How a coordinator process begins: it opens the database, brings the     *)
(* schema up to date once for each of its two repositories, recovers the   *)
(* jobs, starts the monitor thread, and only then asks for its port.       *)
(* Nothing keeps a second process from doing the same on the same file     *)
(* before it finds the port taken, or shares it: processes meet at the     *)
(* write lock of SQLite and nowhere else.                                  *)
(*                                                                         *)
(* The schema is the set of steps that made it: 1 creates the tables,      *)
(* 2 to Current add columns.  A job row is its state; leased and running   *)
(* are "active".  Handlers and scans are one step each, and the rows of    *)
(* workers are left out: module Coordinator has both.                      *)
(***************************************************************************)
EXTENDS Integers

CONSTANTS Processes, Jobs,
          NoProcess,    \* nobody writes to the file
          Current       \* current_schema_version

ASSUME StartupAssumption == NoProcess \notin Processes /\ Current \in Nat \ {0}

VARIABLES
  version,    \* PRAGMA user_version of the file
  columns,    \* the schema steps whose tables and columns the file has
  row,        \* states of the job rows
  writer,     \* who has begun an IMMEDIATE transaction
  tx,         \* the columns as that transaction sees them
  pc,         \* where the main thread of a process is
  repository, \* which repository it constructs, 1 for jobs and 2 for workers
  applied,    \* existing_version, then the last upgrade executed
  snap,       \* job rows as recovery has listed them
  todo,       \* listed rows recovery has still to treat
  queue,      \* in-memory queue of a process
  overlapped  \* history: this or a later process began to use the rows
              \* before the one using them had ended

fileVars    == <<version, columns, writer, tx>>
processVars == <<pc, repository, applied>>
rowVars     == <<row, snap, todo, queue, overlapped>>
vars == <<fileVars, processVars, rowVars>>

Steps == 1..Current
States == {"none", "queued", "active", "done"}
NoRows == [j \in Jobs |-> "none"]

Ended  == {"off", "aborted"}
Using  == {"recovering", "constructed", "serving"}
Places == Ended \cup Using \cup {"reading", "beginning", "altering", "listing"}

\* A file made by this build, by an older or a newer one, or a new file.
Init ==
  /\ version \in 0..(Current + 1)
  /\ columns = 1..version
  /\ row \in [Jobs -> IF version = 0 THEN {"none"} ELSE States]
  /\ writer = NoProcess /\ tx = {}
  /\ pc = [p \in Processes |-> "off"]
  /\ repository = [p \in Processes |-> 1]
  /\ applied = [p \in Processes |-> 0]
  /\ snap = [p \in Processes |-> NoRows]
  /\ todo = [p \in Processes |-> {}]
  /\ queue = [p \in Processes |-> {}]
  /\ overlapped = FALSE

TypeOK ==
  /\ version \in 0..(Current + 1)
  /\ columns \in SUBSET (1..(Current + 1))
  /\ row \in [Jobs -> States]
  /\ writer \in Processes \cup {NoProcess}
  /\ tx \in SUBSET (1..(Current + 1))
  /\ pc \in [Processes -> Places]
  /\ repository \in [Processes -> {1, 2}]
  /\ applied \in [Processes -> 0..Current]
  /\ snap \in [Processes -> [Jobs -> States]]
  /\ todo \in [Processes -> SUBSET Jobs]
  /\ queue \in [Processes -> SUBSET Jobs]
  /\ overlapped \in BOOLEAN

------------------------------------------------------------------------------
Others(p, places) == \E q \in Processes \ {p} : pc[q] \in places

Goto(p, place) == pc' = [pc EXCEPT ![p] = place]

\* The process is over, and with it its memory and its open transaction.
EndProcess(p, how) ==
  /\ Goto(p, how)
  /\ IF writer = p THEN writer' = NoProcess /\ tx' = {} ELSE UNCHANGED <<writer, tx>>
  /\ snap' = [snap EXCEPT ![p] = NoRows]
  /\ todo' = [todo EXCEPT ![p] = {}]
  /\ queue' = [queue EXCEPT ![p] = {}]
  /\ UNCHANGED <<version, columns, row, repository, applied, overlapped>>

Launch(p) ==
  /\ pc[p] \in Ended
  /\ Goto(p, "reading")
  /\ repository' = [repository EXCEPT ![p] = 1]
  /\ UNCHANGED <<fileVars, applied, rowVars>>

\* An exception of the database, a lock that is held too long, or a signal.
Abort(p) == pc[p] \notin Ended /\ EndProcess(p, "aborted")

------------------------------------------------------------------------------
(* initialize_sqlite_schema, called by the constructors of both repositories. *)

\* The version is read before the transaction begins.
ReadVersion(p) ==
  /\ pc[p] = "reading" /\ version <= Current
  /\ applied' = [applied EXCEPT ![p] = version]
  /\ Goto(p, "beginning")
  /\ UNCHANGED <<fileVars, repository, rowVars>>

RefuseNewer(p) ==
  /\ pc[p] = "reading" /\ version > Current
  /\ EndProcess(p, "off")

Begin(p) ==
  /\ pc[p] = "beginning" /\ writer = NoProcess
  /\ writer' = p /\ tx' = columns
  /\ Goto(p, "altering")
  /\ UNCHANGED <<version, columns, repository, applied, rowVars>>

\* Mutation: the upgrades run one version too far.
MissingOneMore(p) == applied[p] \in 1..Current

\* The upgrades begin with the one after the version that was read.
Missing(p) == applied[p] \in 1..(Current - 1)

\* Mutation: every statement commits for itself.
AltersFile(u) == columns' = columns \cup {u}

\* What an ALTER TABLE leaves in the file until the transaction commits.
AltersTransaction(u) == UNCHANGED columns

\* ALTER TABLE ADD COLUMN fails on a column the table already has, which another
\* process may have added since the version was read.
Upgrade(p) ==
  LET u == applied[p] + 1
  IN  /\ pc[p] = "altering" /\ Missing(p) /\ u \notin tx
      /\ tx' = tx \cup {u}
      /\ AltersTransaction(u)
      /\ applied' = [applied EXCEPT ![p] = u]
      /\ UNCHANGED <<version, writer, pc, repository, rowVars>>

UpgradeFails(p) ==
  /\ pc[p] = "altering" /\ Missing(p) /\ applied[p] + 1 \in tx
  /\ EndProcess(p, "off")

\* CREATE ... IF NOT EXISTS makes a new file current and leaves other tables
\* alone; then the version is set and the transaction commits.
CommitSchema(p) ==
  /\ pc[p] = "altering" /\ ~Missing(p)
  /\ version' = Current
  /\ columns' = IF 1 \in tx THEN tx ELSE Steps
  /\ writer' = NoProcess /\ tx' = {}
  /\ IF repository[p] = 1 THEN Goto(p, "reading") ELSE Goto(p, "listing")
  /\ repository' = [repository EXCEPT ![p] = 2]
  /\ UNCHANGED <<applied, rowVars>>

------------------------------------------------------------------------------
(* recover_persisted_state, the monitor thread, and the port. *)

\* The rows are listed once ...
ListJobs(p) ==
  /\ pc[p] = "listing"
  /\ Goto(p, "recovering")
  /\ snap' = [snap EXCEPT ![p] = row]
  /\ todo' = [todo EXCEPT ![p] = Jobs]
  /\ overlapped' = Others(p, Using)
  /\ UNCHANGED <<fileVars, repository, applied, row, queue>>

\* Mutations: recovery takes finished jobs for unfinished ones; it leaves a job
\* that was active out of the queue.
RecoversEveryRow(s) == s # "none"
EnqueuesQueuedOnly(p, j) ==
  queue' = [queue EXCEPT ![p] = IF snap[p][j] = "queued" THEN @ \cup {j} ELSE @]

Unfinished(s) == s \in {"queued", "active"}
EnqueueRecovered(p, j) == queue' = [queue EXCEPT ![p] = @ \cup {j}]

\* ... and written back one by one, as they were listed but for what recovery
\* changes.  A job without attempts is done.
RecoverJob(p, j) ==
  /\ pc[p] = "recovering" /\ j \in todo[p]
  /\ todo' = [todo EXCEPT ![p] = @ \ {j}]
  /\ IF Unfinished(snap[p][j])
     THEN \/ row' = [row EXCEPT ![j] = "queued"] /\ EnqueueRecovered(p, j)
          \/ row' = [row EXCEPT ![j] = "done"] /\ UNCHANGED queue
     ELSE UNCHANGED <<row, queue>>
  /\ UNCHANGED <<fileVars, processVars, snap, overlapped>>

\* The last member to be constructed is the monitor thread.
Construct(p) ==
  /\ pc[p] = "recovering" /\ todo[p] = {}
  /\ Goto(p, "constructed")
  /\ snap' = [snap EXCEPT ![p] = NoRows]
  /\ UNCHANGED <<fileVars, repository, applied, row, todo, queue, overlapped>>

\* BuildAndStart.  Whether two processes can listen on one port is a matter of
\* the platform.
Bind(p) ==
  /\ pc[p] = "constructed"
  /\ Goto(p, "serving")
  /\ UNCHANGED <<fileVars, repository, applied, rowVars>>

BindFails(p) ==
  /\ pc[p] = "constructed" /\ Others(p, {"serving"})
  /\ EndProcess(p, "off")

------------------------------------------------------------------------------
(* What a process does to the rows once it is constructed. *)

WriteRow(j, s) ==
  /\ row' = [row EXCEPT ![j] = s]
  /\ UNCHANGED <<fileVars, processVars, snap, todo, overlapped>>

Submit(p, j) ==
  /\ pc[p] = "serving" /\ row[j] = "none"
  /\ WriteRow(j, "queued")
  /\ queue' = [queue EXCEPT ![p] = @ \cup {j}]

\* The copy in the queue becomes the row.
Dispatch(p, j) ==
  /\ pc[p] = "serving" /\ j \in queue[p]
  /\ WriteRow(j, "active")
  /\ queue' = [queue EXCEPT ![p] = @ \ {j}]

Finish(p, j) ==
  /\ pc[p] = "serving" /\ row[j] = "active"
  /\ WriteRow(j, "done")
  /\ UNCHANGED queue

\* An expired lease, and the requeueing in the same scan.  The monitor does not
\* wait for the port.
Reclaim(p, j) ==
  /\ pc[p] \in {"constructed", "serving"} /\ row[j] = "active"
  /\ \/ WriteRow(j, "queued") /\ queue' = [queue EXCEPT ![p] = @ \cup {j}]
     \/ WriteRow(j, "done") /\ UNCHANGED queue

------------------------------------------------------------------------------
Proceed(p) ==
  \/ ReadVersion(p) \/ RefuseNewer(p) \/ Begin(p)
  \/ Upgrade(p) \/ UpgradeFails(p) \/ CommitSchema(p)
  \/ ListJobs(p) \/ (\E j \in Jobs : RecoverJob(p, j)) \/ Construct(p)
  \/ Bind(p) \/ BindFails(p)

Serve(p) == \E j \in Jobs : Submit(p, j) \/ Dispatch(p, j) \/ Finish(p, j) \/ Reclaim(p, j)

Next == \E p \in Processes : Launch(p) \/ Proceed(p) \/ Serve(p) \/ Abort(p)

Spec == Init /\ [][Next]_vars

\* The main thread runs straight on.
FairSpec == Spec /\ \A p \in Processes : WF_vars(Proceed(p))

------------------------------------------------------------------------------
(* Properties. *)

\* The version of the file tells which columns it has, whatever process was
\* interrupted wherever, and a process that reads or writes rows finds the
\* current schema, although the version it had read may be out of date
\* (initialize_sqlite_schema).
SchemaInv ==
  /\ columns = 1..version
  /\ \A p \in Processes : pc[p] \in Using \cup {"listing"} => version = Current

\* A process that began to use the rows when nobody else did, and was not joined
\* by another one, has in its queue what is stored as queued
\* (recover_persisted_state).
QueueMirrorsRows ==
  ~overlapped => \A p \in Processes :
    pc[p] \in {"constructed", "serving"} => queue[p] = {j \in Jobs : row[j] = "queued"}

\* A process has an old copy of the row of j, from before the job was finished:
\* in the list its recovery works through, or in its queue.
HasOldCopy(p, j) ==
  \/ pc[p] = "recovering" /\ j \in todo[p] /\ snap[p][j] \in {"queued", "active"}
  \/ j \in queue[p]

\* As long as processes do not overlap, no restart brings a finished job back,
\* although recovery writes back rows it has read before.  Where they overlap,
\* only a copy made before the job was finished does: recovery leaves alone what
\* it has listed as finished.
FinishedStaysFinished ==
  [][\A j \in Jobs : row[j] = "done" /\ row'[j] # "done"
       => overlapped /\ \E p \in Processes : HasOldCopy(p, j)]_vars

\* Whatever interrupted and competing processes have left in the file, a process
\* that is launched on it alone gets to serve, unless it is interrupted itself.
LoneProcessStarts ==
  \A p \in Processes :
    pc[p] = "reading" /\ ~Others(p, Places \ Ended) /\ version <= Current
      ~> pc[p] \in {"serving", "aborted"} \/ Others(p, Places \ Ended)

\* "Any active assignment was abandoned by the old coordinator process"
\* (in_memory_coordinator.cpp:1181): recovery takes an assignment away only when no
\* other process serves.  Violated.
RecoversAbandonedOnly ==
  [][\A p \in Processes, j \in Jobs :
       RecoverJob(p, j) /\ snap[p][j] = "active" => ~Others(p, {"serving"})]_vars
===============================================================================
