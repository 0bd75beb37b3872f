------------------------- MODULE JobLifecycleProofs -------------------------
(***************************************************************************)
(* The promises of JobLifecycle hold for any set of jobs and any attempt   *)
(* limits.  The inductive invariant is the type of the variables, the      *)
(* bound on the attempts, that a waiting job has one left (which keeps the *)
(* bound when the attempt is taken), and that an identifier without a job  *)
(* has spent none (which gives a submitted job its first attempt).         *)
(***************************************************************************)
EXTENDS JobLifecycle, TLAPS

UnsubmittedIsUntried == \A j \in Jobs : state[j] = "none" => attempts[j] = 0

IInv ==
  /\ LifecycleTypeOK
  /\ AttemptsBounded
  /\ QueuedHasAttemptLeft
  /\ UnsubmittedIsUntried

\* A single job's move keeps the invariant whenever the state it moves to is
\* one of the states and, if that is "queued", an attempt is left.
LEMMA MovePreservesIInv ==
  ASSUME IInv, NEW j \in Jobs, NEW from, NEW to \in JobState,
         Move(j, from, to), UNCHANGED attempts,
         to = "queued" => attempts[j] < MaxAttempts[j]
  PROVE  IInv'
<1> USE LifecycleAttemptsAssumption DEF IInv, Move
<1>1. LifecycleTypeOK'
  BY DEF LifecycleTypeOK, StoredOrNone
<1>2. AttemptsBounded'
  BY DEF LifecycleTypeOK, AttemptsBounded
<1>3. QueuedHasAttemptLeft'
  BY DEF LifecycleTypeOK, QueuedHasAttemptLeft
<1>4. UnsubmittedIsUntried'
  BY DEF LifecycleTypeOK, UnsubmittedIsUntried, JobState
<1> QED
  BY <1>1, <1>2, <1>3, <1>4

\* The invariant is inductive: no interleaving of submissions, attempts,
\* abandonments and restarts takes a job past its max_attempts, and whatever
\* waits in "queued" can still be attempted.
THEOREM LifecycleInductive == Spec => []IInv
<1>1. Init => IInv
  BY LifecycleAttemptsAssumption
     DEF Init, IInv, LifecycleTypeOK, AttemptsBounded, QueuedHasAttemptLeft,
         UnsubmittedIsUntried, StoredOrNone
<1>2. IInv /\ [Next]_vars => IInv'
  <2> SUFFICES ASSUME IInv, [Next]_vars PROVE IInv'
    OBVIOUS
  <2>0. \A s \in {"queued", "leased", "running", "retry_wait", "succeeded", "failed"} :
          s \in JobState
    BY DEF JobState
  <2>1. ASSUME NEW j \in Jobs, Submit(j) PROVE IInv'
    <3>1. attempts[j] < MaxAttempts[j]
      BY <2>1, LifecycleAttemptsAssumption DEF Submit, Move, IInv, UnsubmittedIsUntried
    <3> QED BY <2>0, <2>1, <3>1, MovePreservesIInv DEF Submit
  <2>2. ASSUME NEW j \in Jobs, Attempt(j) PROVE IInv'
    <3> USE <2>2, LifecycleAttemptsAssumption DEF Attempt, Move, IInv
    <3>1. LifecycleTypeOK'
      BY DEF LifecycleTypeOK, StoredOrNone, JobState
    <3>2. \A k \in Jobs : attempts[k] \in Nat /\ MaxAttempts[k] \in Nat
      BY DEF LifecycleTypeOK
    <3>3. attempts'[j] <= MaxAttempts[j]
      BY <3>2 DEF LifecycleTypeOK
    <3>4. AttemptsBounded'
      BY <3>3 DEF LifecycleTypeOK, AttemptsBounded
    <3>5. QueuedHasAttemptLeft' /\ UnsubmittedIsUntried'
      BY DEF LifecycleTypeOK, QueuedHasAttemptLeft, UnsubmittedIsUntried
    <3> QED BY <3>1, <3>4, <3>5
  <2>3. ASSUME NEW j \in Jobs, Start(j) PROVE IInv'
    BY <2>0, <2>3, MovePreservesIInv DEF Start
  <2>4. ASSUME NEW j \in Jobs, Finish(j) PROVE IInv'
    BY <2>0, <2>4, MovePreservesIInv DEF Finish
  <2>5. ASSUME NEW j \in Jobs, Abandon(j) PROVE IInv'
    BY <2>0, <2>5, MovePreservesIInv DEF Abandon
  <2>6. ASSUME NEW j \in Jobs, Retry(j) PROVE IInv'
    <3>1. Again(j) \in JobState /\ (Again(j) = "queued" => attempts[j] < MaxAttempts[j])
      BY <2>0 DEF Again
    <3> QED BY <2>6, <3>1, MovePreservesIInv DEF Retry
  <2>7. CASE Restart
    <3> USE <2>7, LifecycleAttemptsAssumption DEF Restart, Again, IInv
    <3>1. LifecycleTypeOK'
      BY DEF LifecycleTypeOK, StoredOrNone, JobState
    <3>2. AttemptsBounded'
      BY DEF LifecycleTypeOK, AttemptsBounded
    <3>3. QueuedHasAttemptLeft' /\ UnsubmittedIsUntried'
      BY DEF LifecycleTypeOK, QueuedHasAttemptLeft, UnsubmittedIsUntried
    <3> QED BY <3>1, <3>2, <3>3
  <2>8. CASE UNCHANGED vars
    BY <2>8 DEF vars, IInv, LifecycleTypeOK, AttemptsBounded, QueuedHasAttemptLeft,
                UnsubmittedIsUntried
  <2> QED
    BY <2>1, <2>2, <2>3, <2>4, <2>5, <2>6, <2>7, <2>8 DEF Next
<1> QED
  BY <1>1, <1>2, PTL DEF Spec

\* However a job gets there, it never begins more than max_attempts attempts.
THEOREM LifecycleAttemptsBounded == Spec => []AttemptsBounded
BY LifecycleInductive, PTL DEF IInv

\* Whatever waits in the queue can still be attempted.
THEOREM LifecycleQueuedHasAttemptLeft == Spec => []QueuedHasAttemptLeft
BY LifecycleInductive, PTL DEF IInv

\* No step, a restart included, touches a job that is finished.
THEOREM LifecycleTerminalIsFinal == Spec => TerminalIsFinal
<1> DEFINE Keeps == \A j \in Jobs : IsTerminal(state[j]) =>
                      state'[j] = state[j] /\ attempts'[j] = attempts[j]
<1>1. IInv /\ [Next]_vars => [Keeps]_vars
  <2> SUFFICES ASSUME IInv, Next PROVE Keeps
    OBVIOUS
  <2> USE DEF Keeps, IsTerminal, IInv, LifecycleTypeOK
  <2>1. ASSUME NEW j \in Jobs,
               \/ Submit(j) \/ Attempt(j) \/ Start(j) \/ Finish(j)
               \/ Abandon(j) \/ Retry(j)
        PROVE  Keeps
    BY <2>1 DEF Submit, Attempt, Start, Finish, Abandon, Retry, Move
  <2>2. CASE Restart
    BY <2>2 DEF Restart
  <2> QED
    BY <2>1, <2>2 DEF Next
<1> QED
  BY <1>1, LifecycleInductive, PTL DEF Spec, TerminalIsFinal
=============================================================================
