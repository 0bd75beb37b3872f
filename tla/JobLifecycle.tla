---------------------------- MODULE JobLifecycle ----------------------------
(***************************************************************************)
(* What the coordinator promises about jobs, with nothing of how it keeps  *)
(* the promise: no workers, no leases, no queue, no clock and no scan.     *)
(*                                                                         *)
(*   - a job takes a new attempt only from "queued", at most MaxAttempts   *)
(*     times, and only an attempt that was started can succeed;            *)
(*   - an abandoned attempt sends the job back for another one, or to      *)
(*     "failed" when it was the last;                                      *)
(*   - a terminal job never changes again, a restart included.             *)
(***************************************************************************)
EXTENDS JobStates, Naturals

CONSTANTS Jobs,          \* identifiers a client may submit
          MaxAttempts    \* max_attempts of each job

ASSUME LifecycleAttemptsAssumption == MaxAttempts \in [Jobs -> Nat \ {0}]

VARIABLES state,         \* state of each job, "none" until it is submitted
          attempts       \* attempts each job has taken

vars == <<state, attempts>>

LifecycleTypeOK ==
  /\ state \in [Jobs -> StoredOrNone]
  /\ attempts \in [Jobs -> Nat]

Init ==
  /\ state = [j \in Jobs |-> "none"]
  /\ attempts = [j \in Jobs |-> 0]

(* Mutations: plausible mistakes that the properties below must catch. *)
\* The attempt is counted again when it is started.
StartCounts(j) ==
  /\ state[j] = "leased"
  /\ state' = [state EXCEPT ![j] = "running"]
  /\ attempts' = [attempts EXCEPT ![j] = @ + 1]
\* One attempt too many.
AgainOnceMore(j) == IF attempts[j] <= MaxAttempts[j] THEN "queued" ELSE "failed"
\* A restart takes failed jobs up again.
RestartRetriesFailed ==
  /\ state' = [j \in Jobs |-> IF state[j] = "failed" THEN "queued" ELSE state[j]]
  /\ UNCHANGED attempts

Move(j, from, to) == state[j] = from /\ state' = [state EXCEPT ![j] = to]

Submit(j) == Move(j, "none", "queued") /\ UNCHANGED attempts

\* An attempt begins: the only step that raises the attempt count.
Attempt(j) ==
  /\ Move(j, "queued", "leased")
  /\ attempts[j] < MaxAttempts[j]
  /\ attempts' = [attempts EXCEPT ![j] = @ + 1]

Start(j) == Move(j, "leased", "running") /\ UNCHANGED attempts

Finish(j) ==
  /\ \E outcome \in {"succeeded", "failed"} : Move(j, "running", outcome)
  /\ UNCHANGED attempts

\* The holder of the attempt fell silent.
Abandon(j) ==
  /\ \E from \in {"leased", "running"} : Move(j, from, "retry_wait")
  /\ UNCHANGED attempts

\* An abandoned job gets another attempt if it has one left.
Again(j) == IF attempts[j] < MaxAttempts[j] THEN "queued" ELSE "failed"

Retry(j) == Move(j, "retry_wait", Again(j)) /\ UNCHANGED attempts

\* A restart abandons and retries every unfinished attempt in one step.
Restart ==
  /\ state' = [j \in Jobs |->
                 IF state[j] \in {"leased", "running", "retry_wait"}
                 THEN Again(j) ELSE state[j]]
  /\ UNCHANGED attempts

Next ==
  \/ \E j \in Jobs : \/ Submit(j) \/ Attempt(j) \/ Start(j) \/ Finish(j)
                     \/ Abandon(j) \/ Retry(j)
  \/ Restart

Spec == Init /\ [][Next]_vars

(***************************************************************************)
(* Consequences a client relies on.                                        *)
(***************************************************************************)

\* No job begins more attempts than its max_attempts allows, whatever mix of
\* expiries and restarts it goes through (Job::record_attempt, can_attempt).
AttemptsBounded == \A j \in Jobs : attempts[j] <= MaxAttempts[j]

\* A finished job is never resurrected and its attempt count never moves
\* (terminal rows of recover_persisted_state and of can_transition).
TerminalIsFinal ==
  [][\A j \in Jobs : IsTerminal(state[j]) =>
        state'[j] = state[j] /\ attempts'[j] = attempts[j]]_vars

\* While a job waits in "queued" it still has an attempt to take, so nothing
\* in the queue is unrunnable for want of attempts (requeue_retry_wait_jobs,
\* recover_persisted_state).
QueuedHasAttemptLeft ==
  \A j \in Jobs : state[j] = "queued" => attempts[j] < MaxAttempts[j]
=============================================================================
