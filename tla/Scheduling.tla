----------------------------- MODULE Scheduling -----------------------------
(***************************************************************************)
(* The scheduler library: the job queue, the eligibility filter, the two   *)
(* policies and the planner, as the algorithms the code runs, over worker  *)
(* rows that fill up and empty.  The properties compare them with what the *)
(* comments of the source promise, stated without the algorithms.          *)
(*                                                                         *)
(* Identifiers are numbers here, and compare as the strings do.  A GPU and *)
(* required tags restrict the candidates the way Compatible does.  Disk is *)
(* treated like memory.  A load is a fraction; comparing two of them by    *)
(* cross-multiplication decides what comparing the two quotients decides.  *)
(***************************************************************************)
EXTENDS Integers, SequencesExt

CONSTANTS
  Jobs, Workers,       \* sets of numbers
  Priority, CreatedAt, \* of each job
  CpuNeed, MemNeed,    \* of each job
  Compatible,          \* workers with the GPU and tags each job asks for
  Cpu, Mem, Slots      \* of each worker

ASSUME SchedulingAssumption ==
  /\ Jobs \subseteq Nat /\ Workers \subseteq Nat
  /\ IsFiniteSet(Jobs) /\ IsFiniteSet(Workers)
  /\ Priority \in [Jobs -> Int] /\ CreatedAt \in [Jobs -> Nat]
  /\ CpuNeed \in [Jobs -> Nat] /\ MemNeed \in [Jobs -> Nat]
  /\ Compatible \in [Jobs -> SUBSET Workers]
  /\ Cpu \in [Workers -> Nat] /\ Mem \in [Workers -> Nat]
  /\ Slots \in [Workers -> Nat \ {0}]

VARIABLES
  policy,     \* the policy the planner was given
  jobs,       \* jobs_ of the queue, in order of arrival
  placed,     \* where a job runs, NoWorker for nowhere
  online,     \* worker rows: state online
  running,    \* worker rows: running_jobs
  freeCpu,    \* worker rows: available CPU
  freeMem,    \* worker rows: available memory
  nextIndex,  \* next_index_ of the round-robin policy
  round       \* history: the candidates of the last round-robin decisions that
              \* had the same candidates, and who was chosen, since the last
              \* time all of them had been

rows == <<running, freeCpu, freeMem>>
vars == <<policy, jobs, placed, online, rows, nextIndex, round>>

NoWorker == -1
NoDecision == [job |-> -1, worker |-> NoWorker, candidates |-> <<>>]

\* The index is one of a worker, if there is any.
TypeOK ==
  /\ policy \in {"least-loaded", "round-robin"}
  /\ jobs \in Seq(Jobs) /\ IsInjective(jobs)
  /\ placed \in [Jobs -> Workers \cup {NoWorker}]
  /\ online \in SUBSET Workers
  /\ running \in [Workers -> Nat]
  /\ freeCpu \in [Workers -> Nat] /\ freeMem \in [Workers -> Nat]
  /\ nextIndex \in Nat
  /\ Workers # {} => nextIndex < Cardinality(Workers)
  /\ round.among \in SUBSET Workers /\ round.served \in Seq(round.among)

Init ==
  /\ policy \in {"least-loaded", "round-robin"}
  /\ jobs = <<>>
  /\ placed = [j \in Jobs |-> NoWorker]
  /\ online = Workers
  /\ running = [w \in Workers |-> 0] /\ freeCpu = Cpu /\ freeMem = Mem
  /\ nextIndex = 0
  /\ round = [among |-> {}, served |-> <<>>]

------------------------------------------------------------------------------
(* Mutations: plausible mistakes that the properties below must catch. *)

\* Age before priority.
OlderFirst(j, k) ==
  CreatedAt[j] < CreatedAt[k] \/ (CreatedAt[j] = CreatedAt[k] /\ Priority[j] > Priority[k])
\* The queue is served in order of arrival.
PopFirstArrival == Head(jobs)
\* The number of running jobs is not divided by the number of slots.
FewerJobs(v, w) == running[v] < running[w]
\* The index stays where it is, or runs off the end.
SameIndex(i, n) == i
IndexPastEnd(i, n) == i + 1

------------------------------------------------------------------------------
(* The worker rows. *)

\* WorkerRecord::reserve, once the worker is eligible.
Reserve(j, w) ==
  /\ running' = [running EXCEPT ![w] = @ + 1]
  /\ freeCpu' = [freeCpu EXCEPT ![w] = @ - CpuNeed[j]]
  /\ freeMem' = [freeMem EXCEPT ![w] = @ - MemNeed[j]]

\* WorkerRecord::release: when it throws, and what it does otherwise.
CanRelease(j, w) ==
  /\ running[w] > 0
  /\ freeCpu[w] + CpuNeed[j] <= Cpu[w] /\ freeMem[w] + MemNeed[j] <= Mem[w]

Release(j, w) ==
  /\ running' = [running EXCEPT ![w] = @ - 1]
  /\ freeCpu' = [freeCpu EXCEPT ![w] = @ + CpuNeed[j]]
  /\ freeMem' = [freeMem EXCEPT ![w] = @ + MemNeed[j]]

------------------------------------------------------------------------------
(* Sorting and searching, by an order given as the set of its pairs. *)

\* std::sort: an element comes after as many others as are before it in the order.
Sorted(S, order) ==
  [i \in 1 .. Cardinality(S) |->
    CHOOSE x \in S : Cardinality({y \in S : <<y, x>> \in order}) = i - 1]

\* One pass that keeps the best element so far: pop_next, std::min_element.
BestOf(s, order) ==
  FoldLeft(LAMBDA best, x : IF <<x, best>> \in order THEN x ELSE best, Head(s), Tail(s))

------------------------------------------------------------------------------
(* The queue. *)

\* should_run_before.
ShouldRunBefore(j, k) ==
  \/ Priority[j] > Priority[k]
  \/ /\ Priority[j] = Priority[k]
     /\ \/ CreatedAt[j] < CreatedAt[k]
        \/ CreatedAt[j] = CreatedAt[k] /\ j < k

RunsBefore == {p \in Jobs \X Jobs : ShouldRunBefore(p[1], p[2])}

PopNext == BestOf(jobs, RunsBefore)

OrderedJobs == Sorted(Range(jobs), RunsBefore)

\* take.
Without(j) == RemoveFirst(jobs, j)

------------------------------------------------------------------------------
(* The filter and the policies. *)

\* evaluate_worker.
Eligible(j, w) ==
  /\ w \in online
  /\ running[w] < Slots[w]
  /\ freeCpu[w] >= CpuNeed[j] /\ freeMem[w] >= MemNeed[j]
  /\ w \in Compatible[j]

\* find_eligible_workers, by identifier.
ById == {p \in Workers \X Workers : p[1] < p[2]}

Candidates(j, offered) == Sorted({w \in offered : Eligible(j, w)}, ById)

LessLoaded(v, w) == running[v] * Slots[w] < running[w] * Slots[v]

\* is_better_candidate.
IsBetterCandidate(v, w) ==
  \/ LessLoaded(v, w)
  \/ /\ ~LessLoaded(w, v)
     /\ \/ freeCpu[v] > freeCpu[w]
        \/ /\ freeCpu[v] = freeCpu[w]
           /\ \/ freeMem[v] > freeMem[w]
              \/ freeMem[v] = freeMem[w] /\ v < w

BetterFirst == {p \in Workers \X Workers : IsBetterCandidate(p[1], p[2])}

\* std::vector counts from 0.
SelectedIndex(candidates) == nextIndex % Len(candidates)

AdvancedIndex(i, n) == (i + 1) % n

SelectWorker(candidates) ==
  IF policy = "least-loaded"
  THEN BestOf(candidates, BetterFirst)
  ELSE candidates[SelectedIndex(candidates) + 1]

\* DispatchPlanner::plan: the first job in queue order that has a candidate.
Plan(offered) ==
  LET first == SelectInSeq(OrderedJobs, LAMBDA j : Candidates(j, offered) # <<>>)
  IN  IF first = 0 THEN NoDecision
      ELSE LET candidates == Candidates(OrderedJobs[first], offered)
           IN  [job |-> OrderedJobs[first], worker |-> SelectWorker(candidates),
                candidates |-> candidates]

------------------------------------------------------------------------------
(* The coordinator's calls. *)

Enqueue(j) ==
  /\ j \notin Range(jobs) /\ placed[j] = NoWorker
  /\ jobs' = Append(jobs, j)
  /\ UNCHANGED <<policy, placed, online, rows, nextIndex, round>>

\* The index of the round-robin policy moves when the policy decides.
Decided(d) ==
  IF policy = "round-robin"
  THEN /\ nextIndex' = AdvancedIndex(SelectedIndex(d.candidates), Len(d.candidates))
       /\ round' =
            LET among == Range(d.candidates)
                goesOn == among = round.among /\ Len(round.served) < Len(d.candidates)
            IN  [among |-> among,
                 served |-> IF goesOn THEN Append(round.served, d.worker) ELSE <<d.worker>>]
  ELSE UNCHANGED <<nextIndex, round>>

\* Plan, take the job from the queue, reserve.
Dispatch(offered) ==
  LET d == Plan(offered)
  IN  /\ d # NoDecision
      /\ jobs' = Without(d.job)
      /\ placed' = [placed EXCEPT ![d.job] = d.worker]
      /\ Reserve(d.job, d.worker)
      /\ Decided(d)
      /\ UNCHANGED <<policy, online>>

\* dispatch_once offers all workers, dispatch_once_for_worker one.
DispatchOnce == Dispatch(Workers)
DispatchOnceForWorker(w) == Dispatch({w})

\* A job ends or expires, and its worker row is released.
JobLeaves(j) ==
  /\ placed[j] # NoWorker /\ CanRelease(j, placed[j])
  /\ Release(j, placed[j])
  /\ placed' = [placed EXCEPT ![j] = NoWorker]
  /\ UNCHANGED <<policy, jobs, online, nextIndex, round>>

\* A worker goes offline, or its heartbeats come back.
WorkerStateChanges(w) ==
  /\ online' = IF w \in online THEN online \ {w} ELSE online \cup {w}
  /\ UNCHANGED <<policy, jobs, placed, rows, nextIndex, round>>

Next ==
  \/ \E j \in Jobs : Enqueue(j) \/ JobLeaves(j)
  \/ DispatchOnce
  \/ \E w \in Workers : DispatchOnceForWorker(w) \/ WorkerStateChanges(w)

Spec == Init /\ [][Next]_vars

------------------------------------------------------------------------------
(* Properties. *)

\* The planner serves the first dispatchable job in the order job_queue.cpp
\* promises: highest priority, then oldest, then smallest identifier.  A big
\* job at the head that fits nowhere does not hold up the ones behind it, and
\* a plan is missing only if no queued job fits any of the workers offered.
PlanServesFirstDispatchable ==
  \A offered \in {Workers} \cup {{w} : w \in Workers} :
    LET fits    == {j \in Range(jobs) : \E w \in offered : Eligible(j, w)}
        highest == {j \in fits : \A k \in fits : Priority[j] >= Priority[k]}
        oldest  == {j \in highest : \A k \in highest : CreatedAt[j] <= CreatedAt[k]}
        d       == Plan(offered)
    IN  IF fits = {} THEN d = NoDecision
        ELSE /\ d.job \in oldest /\ \A k \in oldest : d.job <= k
             /\ d.worker \in offered /\ Eligible(d.job, d.worker)

\* The two readers of the queue agree: the single pass of pop_next finds the
\* head of the list that ordered_jobs sorts, whatever the order of arrival.
PopTakesHead == jobs # <<>> => PopNext = Head(OrderedJobs)

\* Round robin serves every candidate once before it serves one twice, as long
\* as consecutive decisions see the same candidates, although the index is
\* shared with decisions over other candidates before and after.
RoundServesEachOnce == IsInjective(round.served)

\* Least loaded never adds a job to a worker that is, for its slots, busier
\* than another one that could have taken it.
LeastLoadedSpreads ==
  [][policy = "least-loaded" /\ DispatchOnce =>
       \A j \in Jobs, v, w \in Workers :
         placed[j] = NoWorker /\ placed'[j] = w /\ Eligible(j, v)
           => running[w] * Slots[v] <= running[v] * Slots[w]]_vars
=============================================================================
