------------------------------ MODULE StopLoop ------------------------------
(***************************************************************************)
(* How a background thread is stopped: HeartbeatLoop in the worker and the *)
(* liveness monitor in the coordinator use the same protocol.  The thread  *)
(* alternates one piece of work with a timed wait on a condition variable; *)
(* the destructor sets an atomic flag, notifies, and joins.                *)
(*                                                                         *)
(* The destructor does not hold the wait mutex when it sets the flag and   *)
(* notifies, so it can do both after the thread has found the flag unset   *)
(* and before it blocks: that notification wakes nobody.                   *)
(*                                                                         *)
(* Steps of the threads take no time; work and waiting do.                 *)
(***************************************************************************)
EXTENDS Integers

CONSTANTS WorkBound,   \* longest work: the deadline of the Heartbeat call, or a scan
          Interval     \* the timeout of wait_for

ASSUME LoopAssumption == WorkBound \in Nat /\ Interval \in Nat

VARIABLES
  pc,         \* the thread
  age,        \* time since the work, or the wait, of this round began
  stop,       \* stop_requested_, stop_liveness_monitor_
  owner,      \* the thread that runs the destructor
  sinceStop   \* time since the flag was set

vars == <<pc, age, stop, owner, sinceStop>>

TypeOK ==
  /\ pc \in {"test", "working", "checking", "committed", "blocked", "done"}
  /\ age \in Nat
  /\ stop \in BOOLEAN
  /\ owner \in {"running", "stored", "joining", "joined"}
  /\ sinceStop \in Nat

Init ==
  /\ pc = "test" /\ age = 0
  /\ stop = FALSE
  /\ owner = "running" /\ sinceStop = 0

------------------------------------------------------------------------------
(* Mutations: plausible mistakes that the properties below must catch. *)

\* wait_for is called without a predicate.
ChecksNothing ==
  /\ pc = "checking"
  /\ pc' = "committed"
  /\ UNCHANGED <<age, stop, owner, sinceStop>>
\* wait is called in place of wait_for.
NeverTimesOut == FALSE /\ UNCHANGED vars

------------------------------------------------------------------------------
(* The thread. *)

\* The loop condition.
Test ==
  /\ pc = "test"
  /\ pc' = IF stop THEN "done" ELSE "working"
  /\ age' = 0
  /\ UNCHANGED <<stop, owner, sinceStop>>

\* The call or the scan is over; the wait begins.
WorkEnds ==
  /\ pc = "working"
  /\ pc' = "checking"
  /\ age' = 0
  /\ UNCHANGED <<stop, owner, sinceStop>>

\* wait_for evaluates its predicate before it blocks and whenever it wakes.
Check ==
  /\ pc = "checking"
  /\ pc' = IF stop THEN "test" ELSE "committed"
  /\ UNCHANGED <<age, stop, owner, sinceStop>>

Block ==
  /\ pc = "committed"
  /\ pc' = "blocked"
  /\ UNCHANGED <<age, stop, owner, sinceStop>>

\* A spurious wake-up does not move the deadline of the wait.
SpuriousWakeup ==
  /\ pc = "blocked"
  /\ pc' = "checking"
  /\ UNCHANGED <<age, stop, owner, sinceStop>>

TimesOut ==
  /\ pc = "blocked"
  /\ age >= Interval
  /\ pc' = "test"
  /\ UNCHANGED <<age, stop, owner, sinceStop>>

------------------------------------------------------------------------------
(* The destructor. *)

StoreStop ==
  /\ owner = "running"
  /\ owner' = "stored"
  /\ stop' = TRUE
  /\ UNCHANGED <<pc, age, sinceStop>>

\* notify_all reaches the thread only if it is blocked already.
Notify ==
  /\ owner = "stored"
  /\ owner' = "joining"
  /\ pc' = IF pc = "blocked" THEN "checking" ELSE pc
  /\ UNCHANGED <<age, stop, sinceStop>>

Join ==
  /\ owner = "joining" /\ pc = "done"
  /\ owner' = "joined"
  /\ UNCHANGED <<pc, age, stop, sinceStop>>

\* The object is gone.
Gone == owner = "joined" /\ UNCHANGED vars

------------------------------------------------------------------------------
\* Time passes in the work and in the wait, up to their limits.
Tick ==
  /\ owner # "stored"
  /\ \/ pc = "working" /\ age < WorkBound
     \/ pc = "blocked" /\ age < Interval
  /\ age' = age + 1
  /\ sinceStop' = IF stop THEN sinceStop + 1 ELSE sinceStop
  /\ UNCHANGED <<pc, stop, owner>>

Thread == Test \/ WorkEnds \/ Check \/ Block \/ TimesOut

Next == Thread \/ SpuriousWakeup \/ StoreStop \/ Notify \/ Join \/ Gone \/ Tick

Spec == Init /\ [][Next]_vars

\* Both threads are scheduled and the clock advances.
FairSpec == Spec /\ WF_vars(Thread) /\ WF_vars(Notify) /\ WF_vars(Join) /\ WF_vars(Tick)

------------------------------------------------------------------------------
\* The longer of one piece of work and one wait.
LongestPhase == IF WorkBound >= Interval THEN WorkBound ELSE Interval

\* Destruction takes no longer than one piece of work or one full wait,
\* whichever is longer, and never both: not even when the notification is lost
\* or wake-ups are spurious.
StopsWithinOnePhase == sinceStop <= LongestPhase

\* Why: whoever works or waits after the flag was set began before it was set.
LoopInv ==
  /\ TypeOK
  /\ stop => owner # "running"
  /\ ~stop => owner = "running" /\ sinceStop = 0
  /\ pc = "working" => age <= WorkBound
  /\ pc \in {"checking", "committed", "blocked"} => age <= Interval
  /\ stop /\ pc \in {"working", "committed", "blocked"} => sinceStop <= age
  /\ StopsWithinOnePhase

\* Once the flag is set the thread ends and the destructor returns, although
\* its notification may be lost.
StopLeadsToJoin == stop ~> owner = "joined"
=============================================================================
