# Radahn in TLA+

Radahn is a small compute cluster. A *coordinator* process keeps jobs and
workers in a SQLite database and hands jobs to *worker* processes, which ask for
them over gRPC; a command-line client submits jobs and asks for their state.
This directory holds models of its parts, the TLC runs that check them, and
TLAPS proofs about them. Paths below are relative to `src/`.

## 1. Inventory

| Component | State | Operations | Correct when |
|---|---|---|---|
| Coordinator core, `libs/coordinator` | the in-memory queue; everything else through the repositories | submit, dispatch for a worker, mark running, finish, record heartbeat, mark workers offline, expire leases, requeue, recover | jobs are neither lost nor doubled, attempts are bounded, worker rows account for exactly what is assigned |
| RPC service and liveness monitor, `apps/coordinator/main.cpp` | one mutex, the monitor thread, its stop flag | SubmitJob, RegisterWorker, Heartbeat, AcquireJob, StartJob, FinishJob, the scan once a second, construction and destruction | handlers and scans are serialised; only silent workers lose jobs; stopping is prompt |
| Job, `libs/domain/src/job*.cpp` | state, attempt count | transition, record an attempt, can attempt | moves follow the state machine, terminal states are final |
| Worker record and resources, `libs/domain/src/worker*.cpp`, `resource.cpp` | running jobs, free CPU, memory, disk | reserve, release, eligibility | never more free than there is, no slot beyond the maximum |
| Scheduler, `libs/scheduler` | arrival list, round-robin index | enqueue, pop, order, take, filter, two policies, plan | the first dispatchable job is served; policies spread the load as they say |
| Repositories, `libs/persistence` | rows of jobs and workers, in memory or in SQLite | insert, update, erase, get, list, record a heartbeat | a call takes effect whole or not at all; tags and assignments refer to rows that exist |
| Schema and migration, `sqlite_schema.cpp` | schema version, tables | create, upgrade from versions 1 to 3 | the file is of the current schema or untouched |
| Heartbeat loop, `apps/worker/heartbeat_loop.cpp` | stop flag, thread | send a heartbeat, wait, stop | the thread always ends, soon |
| Worker process, `apps/worker/main.cpp` | the job it runs | register, acquire, start, execute, finish | every job it takes is finished or reclaimed |
| Client, protocol files, scripts | none that lasts | | |

How they interact: the handlers and the monitor call the core under the mutex;
the core calls the planner and the repositories; the monitor and the heartbeat
loop are threads stopped by a flag and a condition variable; the worker
process and the client reach the coordinator through calls with deadlines only.

What is hard: clock readings taken before the mutex; heartbeats that overtake
each other; workers that restart while the coordinator still counts on them;
a release that throws in the middle of a scan; a process that dies in the middle
of anything and rebuilds its queue; rows written by several statements; a
notification that wakes nobody; worker processes that give up on a call the
coordinator handles all the same; two processes under one worker identifier, or
on one database. `PROJECT.json` lists each such place with its
line ("hazards") and the properties aimed at it.

## 2. Modules

| Module | Models | Checked by | Proofs |
|---|---|---|---|
| `JobStates` | the states and the table of `JobStateMachine` | through the modules that extend it | |
| `JobLifecycle` | abstract: what the coordinator promises about a job | `MCJobLifecycle` | `JobLifecycleProofs` |
| `Coordinator` | core, service, monitor, queue, rows, process | `MCCoordinator` | `CoordinatorProofs` |
| `StopLoop` | heartbeat loop and monitor thread being stopped | itself | `StopLoopProofs` |
| `Scheduling` | queue, filter, policies, planner | `MCScheduling` | `SchedulingProofs` |
| `Repositories` | abstract: what the repository interfaces promise | through `SqliteRepositories` | |
| `SqliteRepositories` | statements and transactions over the tables | `MCSqliteRepositories` | `SqliteRepositoriesProofs` |
| `Cluster` | worker processes and their calls, composed with a coordinator without a clock | `MCCluster` | `ClusterProofs` |
| `AtomicCalls` | abstract: calls that change rows and queue in one step | through `CoordinatorWrites` | |
| `CoordinatorWrites` | the calls of the core as separate writes that fail | itself | `CoordinatorWritesProofs` |
| `Startup` | schema migration, recovery and port, for several processes on one file | itself | `StartupProofs` |

How they compose. `JobLifecycle` is what a client sees; `Coordinator` and
`Cluster` both implement it, `Cluster` for the coordinator together with the
programs that call it. `Coordinator` takes each call of the core as one step, which
is the promise `AtomicCalls` states and `CoordinatorWrites` keeps; a single
write in `CoordinatorWrites` happens or does not, which is the promise
`Repositories` states and `SqliteRepositories` keeps. `Startup` is what comes
before all of them.

**Coordinator.** `jobState`, `assigned`, `lease`, `attempts` are the columns of
the job rows, `workerState`, `running`, `free`, `lastHeartbeat` those of the
worker rows. `queue` is the in-memory queue, which holds *copies* of jobs; the
model keeps the attempt count of each copy, because dispatching takes the attempt
on the copy and writes it over the row. Each handler is one action, since it
holds the mutex from its first read to its last write. `Heartbeat` reads the
clock before it locks, hence two actions, `HeartbeatArrives` and
`HeartbeatApplied`, with the readings in between in `heartbeats`; the monitor
does the same (`ScanCapture`, then `ScanStale`). A scan is a sequence of actions,
one per record, during which no handler is enabled. `ScanThrows` says when the
code throws out of a loop and `ScanFails` is that exception. `Stop` may happen at
any point, also in the middle of a scan, and `Restart` is
`recover_persisted_state`. `disowned` is a history variable: the workers whose
row `RegisterWorker` has replaced under active jobs. It is used by properties
only. A call that is refused, or finds nothing to do, stutters.

Idealisations, each a decision about data and not about control:

- The resource is one amount. CPU, memory and disk are treated alike by
  `reserve` and `release`; the tolerance of the CPU comparison is left out.
  GPU and tags are the relation `Compatible`.
- The system clock does not go backwards, and heartbeat and lease times keep
  their precision in the database (they are truncated to milliseconds).
- Heartbeats of one worker that wait for the mutex at the same time have read
  different times (`heartbeats[w]` is a set).
- `CreationRank` is the order by creation time and identifier; jobs created
  within one millisecond, which the database cannot tell apart, are left out.
- The two row writes of a dispatch, a completion and an expiry are one step. A
  crash between them makes no difference: recovery resets every worker row, so
  the result is that of a crash before or after. A *failure* of the second
  write does make a difference: `CoordinatorWrites`.
- A registered worker registers again with the same capacity.
- `ScanStale` marks all stale workers in one step, where the code writes one row
  after the other. A crash between two of them leaves the others for the next
  scan, as a crash before the scan does.
- `RegisterWorker` writes the row and records a heartbeat in one step, under one
  lock in the code. A crash between the two writes is left out; recovery resets
  the row, and the next heartbeat records what is missing.
- `cancellation_requested` and `cancelled` are in the guards and tables as in
  the code, but no call produces them, so no reachable state has them.

**JobLifecycle.** The life of a job with no workers, leases, queue, clock or
scans. `Coordinator` implements it under `state <- jobState`; the reader of a
client needs this module only.

**StopLoop.** `pc` is the thread: it tests the flag, works (a Heartbeat call or
a scan), evaluates the predicate of `wait_for`, commits to waiting, blocks. The
gap between "committed" and "blocked" is where a notification is lost, since
the destructor takes no mutex. `Tick` lets time pass in the work and in the
wait, up to their bounds. Between the store and the notification of the
destructor, two adjacent statements, no time passes.

**Scheduling.** The algorithms as the code runs them: one pass that keeps the
best element (`BestOf`), an index modulo the number of candidates, a sort
(`Sorted`, which says what `std::sort` returns for a strict order: each element
comes after as many others as are before it); the properties
are stated without these algorithms. `jobs` is the arrival list of the queue;
`running`, `freeCpu` and `freeMem` are stored in the worker rows and changed by
`reserve` and `release`, as in the code. An order is the set of its pairs, so
that the lemmas on sorting and searching hold for any order. Identifiers are
numbers. Loads are compared
by cross-multiplication. `round` is a history variable. There is no registration:
a row keeps its capacity and is never overwritten. The service plans with the
least-loaded policy (`apps/coordinator/main.cpp:1107`) and takes from the queue what the
plan says; `pop_next` and the round-robin policy are offered by the library and used
by its tests only, so `PopTakesHead` and `RoundServesEachOnce` speak of the library
and of no run of the deployed program.

**SqliteRepositories.** `db` is the file, `tx` what the connection sees. insert
and update are one action per statement (`Begin`, `WriteRow`, `ClearTags`,
`InsertTag`, `Commit`); `Fail` is a failure of any of them and the `catch` block
that rolls back; `Crash` loses the open transaction. Erasing cascades as the
foreign keys of the schema say. The two classes differ in their columns only,
so one model serves both: a key is a worker or a job. `update` writes no
heartbeat time and `insert` does. That calls do not overlap is the coordinator's
mutex. A rollback that fails is left out: SQLite refuses one only where
nothing is left to roll back. `Repositories` is the same with every call in one
step. The in-memory repositories meet it but for the foreign keys: they
take any assignment, and erasing a worker leaves assignments in place. The
coordinator assigns registered workers only and never erases one.

**Cluster.** A process is one run of `apps/worker/main.cpp`; `IdOf` is its first
argument, and starting a worker again is another process with the same
identifier. `pc` is its main thread, `call` the call the coordinator has not
handled yet. A call outlives its caller: `End`, the deadline or the death of
the process, leaves `call` alone, and `Handle...` still takes effect later. An answer may
come too late (`Answer`). `Execute` is `execute_job`, with either outcome. The
process ends after one job, as the program does. `Heartbeat` is one round of
the other thread, which runs from the registration to the end. The coordinator's
side is that of `Coordinator` without its clock: a worker can be marked offline
when no process under its identifier is alive (`MarkOffline`), or when a live one
falls silent (`MarkSilentOffline`, a fault), and only a job of an offline worker
loses its lease. That last guard is the theorem `ExpiryNeedsOffline` of
`Coordinator`, used here as the abstraction of time. `executed` is a history
variable.

`FinishJob` carries no attempt number. `CompletionIsGenuine` says how far the
code can tell a late completion of an earlier attempt: it is refused while the job is
queued, is with another identifier, or is leased to the same one and not started.
Once another process of that identifier has asked to start it (`StartedBy`), the code
takes the late outcome for the current attempt's, and the property allows that.
`QueuedJobIsServed` holds of a process whose predecessor has left jobs
and calls behind, with two ways out: another process comes up under the same identifier
(`HasRival`), or jobs that dead processes have started take every slot of the
row (`Full`), which its own heartbeats then keep so, as in `cluster_shared_id`.

Idealisations: one amount of slots and no other resource, any queued
job may be planned, and a scan is one step per record; a release that is refused
for resources (`scan_stuck`) belongs to `Coordinator`.

**CoordinatorWrites.** A call is a sequence of writes to a row or to the queue,
each a step that succeeds or fails; `step` is where the call in progress is. When
one fails, the compensations of the code follow, which are writes that may fail
as well, and whose exceptions the code drops. What such a failure leaves
behind is recorded in `stranded` (a job stored as queued that is in no
queue) and `miscounted` (a worker row with a wrong count); both end with the
next restart, whose recovery rebuilds everything. One of these cases needs no second
failure: `apply_dispatch_decision` reads the row after it has taken the job out of the
queue and before its `try` block. Recovery is one step per row, so that it can
be interrupted. States are reduced to none, queued, active, retry_wait and done;
attempts, leases and worker states are in `Coordinator`.

**Startup.** A process constructs the database connection, both repositories,
each of which runs `initialize_sqlite_schema`, the coordinator, which recovers,
and the monitor thread; then it asks for the port and serves. `columns` are the
schema steps present in the file, `tx` what an open `BEGIN IMMEDIATE` transaction
sees, `writer` who has it, `applied` the version read before it. A process may
die anywhere (`Abort`) and be launched again. Nothing but SQLite's write lock
keeps two processes apart. Whether the second one gets the port is left open
(`Bind`, `BindFails`): gRPC shares ports on some platforms. `overlapped` is a
history variable: recovery began while another process used the rows. The two
`ALTER`s of the upgrade from version 3 to 4 are one step; both are inside the
transaction, so nobody sees the file between them. Worker rows, leases
and attempts are left out.

## 3. Runs

| Run | Bounds | Shows |
|---|---|---|
| `coordinator` | 1 worker, 2 slots, 2 units; 2 jobs of 2 and 1 units, 2 attempts each; clock to 3, lease 2, heartbeat timeout 1; 2 heartbeats in flight | type and safety invariants, action properties, refinement of `JobLifecycle` |
| `coordinator_liveness` | 1 worker, jobs of one size, 1 heartbeat in flight | an expired lease is settled |
| `scan_stuck` | as above with jobs of two sizes and no heartbeat in flight | a violation, see section 5 |
| `lifecycle` | jobs with 1, 2 and 3 attempts | attempts bounded, terminal states final |
| `stop_loop` | work up to 6, wait 4 | the loop ends, within the longer of the two |
| `scheduling` | 4 jobs, 3 unequal workers, both policies | planner, queue and policies against their promises |
| `sqlite_repositories` | 1 worker, 1 job, 2 tags, 2 values, 2 times | consistent tables, refinement of `Repositories` |
| `cluster` | 3 processes, 2 identifiers, 1 job with 2 attempts, 2 slots, 1 fault | no attempt executed or completed by the wrong process, held jobs end, queued jobs are served, refinement of `JobLifecycle` |
| `cluster_shared_id` | 2 processes, 1 identifier, 1 job, no fault | a violation, see section 5 |
| `coordinator_writes` | 3 jobs, 2 workers of 2 slots, any number of failures and crashes | rows and queue agree, refinement of `AtomicCalls` |
| `startup` | 2 processes, 2 jobs, schema versions 0 to 5, current version 4 | schema, queue and finished jobs survive; a lone process gets to serve |
| `second_coordinator` | as `startup` | a violation, see section 5 |

Why the bounds are enough. Two jobs and two slots are needed for one worker to
have an active and a finished job, a small one to be released where a big one
was reserved, and a queue with an order. With two attempts a job expires, is
retried and fails. The clock must pass a lease (2) and a heartbeat timeout (1)
once while a reading taken before is still waiting; a worker can then be
stale, come back and be stale again. Two heartbeats in flight overtake each other.
In `stop_loop` work and wait differ in length, and the wait ends in a timeout, a
notification or a spurious wake-up at every point. In `scheduling` the
workers differ in slots and memory so that each tie-break of the least-loaded
policy decides somewhere. Two tags suffice for an update that adds one tag and
drops another, and for a failure between two tag inserts. In `cluster` two
processes share an identifier, as a restarted worker does with the one before it, and
the third competes with them; the second attempt and the fault, a
silence or a restart of the coordinator, are what brings a job to another
process while calls of the first one are still on their way. With one job the
escape `Full` of `QueuedJobIsServed` is never taken: the run shows the property without it.
`coordinator` has one worker, so that the release of a wrong row cannot happen
there; `LeaseDisciplineHolds` and `SlotsAlwaysExact` are proved for any number, and
the run `coordinator_writes` has two workers. In
`coordinator_writes` a worker can hold two jobs while a third is moved, and
the two workers tell a release of the wrong row from one of the right row.
`startup` has a file of every version, one too new included, and as many
processes as it takes for one to run into the other. What the small numbers
leave open, the theorems of section 4 settle for most of these properties.

Bounds on counters: `MaxTime` and `MaxInFlight` are the only bounds in the guards of
`Coordinator`; `Tick` and `HeartbeatArrives` stop there. `MaxFaults` bounds
the silences and restarts of `Cluster`, where the deaths of processes are bounded by
the processes there are. Nothing else is bounded. Deadlock is checked in
every run but the two of `Cluster`: when the clock has reached its bound the
process can still stop and restart, a joined thread has the action `Gone`, and a
coordinator process can be launched again. In `Cluster` the system really stops:
all processes may have ended and all jobs be done.

Fairness. `Coordinator!FairSpec` asks weak fairness of the monitor thread: its
loop is unconditional, catches every exception, and its wait has a timeout; it
needs the mutex, which handlers hold for a bounded time. Nothing is asked of
workers, clients or the clock. `StopLoop!FairSpec` asks weak fairness of the
thread, of the destructor's steps and of time, which is what the operating
system's scheduler gives; the call in the loop has a deadline.
`Cluster!FairSpec` asks weak fairness of what a thread that is alive does
next: the handlers of the coordinator, the main and the heartbeat thread of each
worker process, the marking of silent workers, the expiry and requeueing of each
job. A workload is assumed to end. No call has to arrive (`LoseCall` and `End` may
always happen), no process has to be launched. `Startup!FairSpec` asks weak
fairness of the main thread of each coordinator process, which runs straight on
and waits for nothing but the write lock.

## 4. Proofs

All theorems hold for every value of the constants under the named assumptions
of each module, which TLC evaluates in the runs.

- **`JobLifecycleProofs`.** Inductive invariant: types, `AttemptsBounded`,
  `QueuedHasAttemptLeft`, and that an identifier without a job has spent no
  attempt. The bound alone is not inductive: a dispatch adds an attempt, so a
  queued job must have one left.
- **`CoordinatorProofs`.**
  `TypeCorrect` includes that no release makes an amount negative.
  `LeaseDisciplineHolds` is inductive with the types.
  `LeaseCovered` rests on `ClockInv` (no waiting or recorded reading is in the
  future): a late heartbeat is recorded with an older time *and* sets the lease
  from that same time, so the difference stays.
  `ExpiryNeedsOffline` combines `LeaseCovered` with `MonitorInv`: a due lease,
  by the scan's clock reading, means that its worker's last heartbeat is a lease
  duration old, hence past the heartbeat timeout (`TimeoutAssumption`, true of
  the program's 15 s and 6 s), hence the same scan has marked it offline.
  `QueueMirrored` needs what terminal and unsubmitted rows look like (`RowsInv`).
  `CoordinatorImplementsLifecycle` maps every action to an action or a stutter
  of `JobLifecycle`, from the invariants above.
  `SlotsAlwaysExact` counts with the cardinality theorems of the library; it is
  where `disowned` is needed.
  `MovesLegal` and `OneUnstartedJobAlways` follow.
  `ResourcesAlwaysExact` needs the sum of what a set of jobs needs (`Needed`) to
  grow and shrink by the one job that is reserved or released. A sum is a fold, hence a
  recursive function that removes one chosen element after the other; that the
  order does not matter is proved on tables of partial sums (`SumTable`): two
  tables for one set agree at its smallest member where they would differ, and
  a table exists. From `SlotsAlwaysExact` and `ResourcesAlwaysExact` together
  follows `ReleaseAlwaysAccepted`: a release that is due is never refused but
  for a worker in `disowned`. `ScansFailOnlyDisowned` follows from it and
  `MonitorInv`: without a re-registration over active jobs, no scan is cut
  short. It says of every instance that `scan_stuck` has no other cause.
- **`SchedulingProofs`.** First, for any strict order on a finite set:
  `Sorted` lists every element once and in order (`SortedIsSorted`, by the
  ranks of the elements, which are a bijection onto 1..n), and the single pass
  finds the first element (`BestIsFirst`). `RunsBeforeIsStrict` and
  `BetterFirstIsStrict` show that the two comparisons of the library are such orders,
  which `std::sort` and `std::min_element` require of them; the loads are the
  fractions of `FractionsTransitive`. `PlansServeFirstDispatchable`, `PopsTakeHead` and
  `LeastLoadedAlwaysSpreads` follow in every state of its types, and
  `TypeCorrect` shows there are no others: a decision reserves no more than is
  left, a job leaves the queue once, the index stays in the list.
  `RoundsServeEachOnce` is not inductive: it says who has been served and not
  where the index is. `RoundInv` adds that the workers of a round are the ones
  the index has just passed, so the next one is new until it has been around.
- **`StopLoopProofs`.** `LoopInv`: whoever works or waits with the flag set
  began before it was set, so the time since the flag is at most the age of that
  work or wait.
- **`SqliteRepositoriesProofs`.** `NoOrphanTags`, `ReferencesHold` and
  `TransactionInv` are one induction: an insert does not delete tags, so what
  it commits is known only because rows that do not exist have none.
  `SqliteImplementsRepositories` is the refinement.

- **`ClusterProofs`.** Besides the types the invariant says what a
  process's place tells about its job and its call, what each state of a row
  implies, and that the attempt a process has executed is one the row has
  counted, and the current one only if the row is still assigned to the process's
  identifier. From that follows `AttemptExecutedOnce`. `StartInv` adds that a
  running job has been started, in its current attempt, by a process of the
  identifier it is assigned to; such a process does nothing that undoes it
  (`StartedByKept`). From both follows `CompletionIsGenuine`: a completion that is
  accepted finds the row running and assigned to the caller's identifier, so some process
  has started this attempt, which is the caller or another one of that identifier.
- **`CoordinatorWritesProofs`.** `CallInv` says what the rows look like at
  each step of a call, `RecoveryInv` what recovery has and has not treated.
  `CountInv` is the count of a worker row corrected by the write that is pending
  (`Pending`); it is carried through the steps with the cardinality theorems.
  `WritesAreAtomic` uses the same correction as the refinement mapping: a call
  takes effect with its last write, a compensated one never does.
- **`StartupProofs`.** `SchemaInv` needs what a transaction in progress has added
  (`MigrationInv`): the version read before the lock may be out of date, and
  then the next upgrade meets a column that exists and rolls back.
  `QueueMirrorsRows` needs that nobody writes the rows while a lone process
  recovers (`UseInv`, `RecoveryInv`). Both hold for any number of processes.

The types, `LoopInv`, `TransactionInv`, `MonitorInv` and `RoundInv` are steps of
these arguments; the last four are proved and no part of a run.

Recursion. The prover takes the equation of a recursive function for granted as soon
as its definition is expanded, also where no function satisfies it. The proofs
about folds (`Needed`, `BestOf`) therefore do not rest on it: they show that a table with the
required equation exists, and that every such table has the value claimed, by a
smallest counterexample (`SmallestSet`) in place of an induction.

Model-checked only: `ExpiredLeaseIsSettled`, `StopLeadsToJoin`,
`HeldJobsEndUnlessShared`, `QueuedJobIsServed` and `LoneProcessStarts`. They are
liveness under fairness, which is out of the provers' reach. Every safety invariant
and action property of a run, and every refinement, is a theorem.

## 5. Where the code departs from its tests and comments

**A worker that registers again** (`apps/coordinator/main.cpp:635`).
`RegisterWorker` replaces the row of a known worker by one that counts nothing,
whatever is assigned to it; two worker processes that share the default
identifier do this to each other, and so does a worker that restarts before its
leases expire.

- `scan_stuck`: releasing at expiry throws, the scan ends there, and every later
  scan meets the same record; no lease behind it is treated again until a
  restart or a further registration.
- Two lesser consequences of the same line are exempted by `disowned`: the
  completion of a job the worker still holds is refused while its row counts no
  running job, and with two jobs active, one reserved before and one after, the
  first completion takes `running_jobs` to 0, so that the expiry of the other
  skips the release and its resources stay reserved.
- `cluster_shared_id`: a process dies while it runs a job, and another
  one is started under the same identifier. It registers, and its heartbeats renew the
  lease of that job (`in_memory_coordinator.cpp:182`), which it was never given:
  `AcquireJob` hands out leased jobs again, not running ones. As long as it
  lives the job stays running, executed by nobody. With an identifier of its
  own for each process this cannot happen (`HeldJobsEndUnlessShared`).

The safety properties that involve counts except these workers by `disowned`;
all others hold in spite of re-registrations.

**A second coordinator** (`apps/coordinator/main.cpp:1178`).
`second_coordinator`: recovery takes every active job for one that "was abandoned by the
old coordinator process" and runs before the port is bound; started on the file
of a coordinator that serves, it queues that one's active jobs again. The first
process goes on with its own queue, and a job can be executed twice, a
finished one included. `QueueMirrorsRows` holds as long as processes do not
overlap, and excepts this case by `overlapped`. `FinishedStaysFinished` says of
overlapping processes what is left: a finished job comes back only by a copy made
before it was finished, in the list a recovery works through or in a queue
(`HasOldCopy`). Such a write is possible, when a job that recovery has listed is
finished by the first process before it is written back; it is another consequence of
the same overlap, and no run is devoted to it.

**Failures that are not undone** are no contradiction to a comment, which says
that the compensations are sufficient in memory only; they are the exceptions
`stranded` and `miscounted` of `RowsAgree`, and the disjuncts `Strand`,
`QueueRowOnly` and `Miscount` of `AtomicCalls`.

## 6. Not modelled

- Workload execution (`domain/workload.cpp`): a sleep; its outcome is `Execute` of
  `Cluster`.
- The client, the protocol files and the smoke test keep no state that lasts;
  read-only queries change nothing; text encodings, column formats and log
  output are no part of any property.
- Floating-point amounts of CPU: TLA+ has none. Creation times that differ by
  less than a millisecond: jobs are ordered by one rank.
- A heartbeat that renews the leases of some of a worker's jobs and then fails:
  leases are renewed in one step in all models.
- Two coordinators in operation beyond what `Startup` says of the job rows: their
  scans, leases and worker rows are not composed.
- A re-registration together with failing writes: `Coordinator` has the one,
  `CoordinatorWrites` the other.
