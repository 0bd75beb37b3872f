----------------------------- MODULE JobStates -----------------------------
(***************************************************************************)
(* The job state machine: the states of job_state.hpp, the transition      *)
(* relation of JobStateMachine and the two classifications the coordinator *)
(* uses.  "none" is not a state of the code: it stands for a job identifier *)
(* with no record in the job repository.                                   *)
(***************************************************************************)

JobState == {"queued", "leased", "running", "retry_wait",
             "cancellation_requested", "succeeded", "failed", "cancelled"}

StoredOrNone == JobState \cup {"none"}

\* JobStateMachine::can_transition, one row per source state.
CanTransition(from, to) ==
  \/ from = "queued"     /\ to \in {"leased", "cancelled"}
  \/ from = "leased"     /\ to \in {"running", "retry_wait", "cancelled"}
  \/ from = "running"    /\ to \in {"succeeded", "failed", "retry_wait",
                                    "cancellation_requested"}
  \/ from = "retry_wait" /\ to \in {"queued", "failed", "cancelled"}
  \/ from = "cancellation_requested" /\ to \in {"cancelled", "succeeded", "failed"}

\* InMemoryCoordinator::is_active_state: the job holds a worker's resources.
IsActive(state) == state \in {"leased", "running", "cancellation_requested"}

\* is_terminal and InMemoryCoordinator::is_finished_state.
IsTerminal(state) == state \in {"succeeded", "failed", "cancelled"}
=============================================================================
