--------------------- MODULE NetworkTaskWithRetryProofs ---------------------
(***************************************************************************)
(* Proofs about NetworkTaskWithRetry for every number of base URIs and     *)
(* every attempt budget.  IInv (defined beside the specification, and      *)
(* checked by TLC on the MCNetworkTaskWithRetry run) is inductive; the     *)
(* type invariant and the safety properties of the run follow from it.     *)
(***************************************************************************)
EXTENDS NetworkTaskWithRetry, TLAPS

USE NumBaseUrisAssumption, MaxAttemptsAssumption

(* The value a retriable failure leaves in _worstRetriableError is one of  *)
(* the two codes the field can hold, and never the "no result" marker.     *)
LEMMA UpdateWorstType ==
  ASSUME NEW w \in {GenericError, "RateLimited"}, NEW e \in RetriableErrors
  PROVE  /\ UpdateWorst(w, e) \in {GenericError, "RateLimited"}
         /\ UpdateWorst(w, e) \in RetriableErrors
         /\ UpdateWorst(w, e) # NoResult
BY DEF UpdateWorst, GenericError, RetriableErrors, NoResult

(* The initial state satisfies the inductive invariant.                    *)
LEMMA InitIInv == Init => IInv
BY DEF Init, IInv, TypeOK, ResolvedOnce, AttemptBudget, NoLeakedWork,
       TerminalError, PhaseCounters, ResultIffResolved, WorstTracksSeen,
       Phases, ReplyStates, TimerStates, Results, NoResult, GenericError, Terminal

(* Every step of the specification preserves the inductive invariant.     *)
LEMMA NextIInv == IInv /\ [Next]_vars => IInv'
<1> SUFFICES ASSUME IInv, [Next]_vars PROVE IInv'
  OBVIOUS
<1> USE DEF IInv, TypeOK, ResolvedOnce, AttemptBudget, NoLeakedWork,
            TerminalError, PhaseCounters, ResultIffResolved, WorstTracksSeen,
            Phases, ReplyStates, TimerStates, Results, Errors, Terminal
<1>1. CASE Start
  BY <1>1 DEF Start, ExecuteNextAttempt, NextBaseUri
<1>2. CASE ReplySucceeded
  BY <1>2 DEF ReplySucceeded, Resolve, NoResult
<1>3. ASSUME NEW e \in FatalErrors, ReplyFailedFatal(e)
      PROVE IInv'
  BY <1>3 DEF ReplyFailedFatal, Resolve, FatalErrors, RetriableErrors,
              NoResult, GenericError
<1>4. ASSUME NEW e \in RetriableErrors, ReplyFailedRetriable(e)
      PROVE IInv'
  <2>1. /\ worst' = UpdateWorst(worst, e)
        /\ worst' \in {GenericError, "RateLimited"}
        /\ worst' \in RetriableErrors
        /\ worst' # NoResult
    BY <1>4, UpdateWorstType DEF ReplyFailedRetriable
  <2>2. WorstTracksSeen'
    BY <1>4, <2>1 DEF ReplyFailedRetriable, UpdateWorst, RetriableErrors,
                      GenericError
  <2>3. CASE attempts >= MaxAttempts
    <3>1. /\ phase' = "Failed" /\ result' = worst'
          /\ resolutions' = resolutions + 1 /\ timer' = timer
      BY <1>4, <2>1, <2>3 DEF ReplyFailedRetriable, ScheduleNextAttempt, Resolve
    <3>2. resolutions = 0
      BY <1>4 DEF ReplyFailedRetriable
    <3>3. TypeOK'
      BY <1>4, <2>1, <3>1, <3>2 DEF ReplyFailedRetriable, RetriableErrors
    <3>4. ResolvedOnce' /\ ResultIffResolved'
      BY <2>1, <3>1, <3>2
    <3>5. AttemptBudget' /\ PhaseCounters'
      BY <1>4, <2>3, <3>1 DEF ReplyFailedRetriable
    <3>6. NoLeakedWork'
      BY <1>4, <3>1 DEF ReplyFailedRetriable
    <3>7. TerminalError'
      BY <2>1, <2>2, <3>1
    <3>8. QED
      BY <2>2, <3>3, <3>4, <3>5, <3>6, <3>7
  <2>4. CASE attempts < MaxAttempts
    <3>1. /\ phase' = "AwaitingRetryDelay" /\ timer' = "running"
          /\ result' = result /\ resolutions' = resolutions
      BY <1>4, <2>4 DEF ReplyFailedRetriable, ScheduleNextAttempt
    <3>2. QED
      BY <1>4, <2>1, <2>2, <2>4, <3>1 DEF ReplyFailedRetriable
  <2>5. QED
    BY <2>3, <2>4
<1>5. CASE RetryTimerFired
  BY <1>5 DEF RetryTimerFired, ExecuteNextAttempt, NextBaseUri
<1>6. CASE Destroy
  BY <1>6 DEF Destroy
<1>7. CASE UNCHANGED vars
  BY <1>7 DEF vars
<1>8. QED
  BY <1>1, <1>2, <1>3, <1>4, <1>5, <1>6, <1>7 DEF Next

(* IInv holds in every reachable state.                                    *)
THEOREM IInvInvariant == Spec => []IInv
BY InitIInv, NextIInv, PTL DEF Spec

(* Type correctness of the retry task.                                     *)
THEOREM TypeCorrect == Spec => []TypeOK
BY IInvInvariant, PTL DEF IInv

(* The task is resolved at most once, exactly when it succeeded or failed *)
(* (spec.md 4.5: abandoning never resolves, a reject never also retries).  *)
THEOREM ResolvedOnceInvariant == Spec => []ResolvedOnce
BY IInvInvariant, PTL DEF IInv

(* No attempt beyond the budget, and a retriable failure uses all of it.   *)
THEOREM AttemptBudgetInvariant == Spec => []AttemptBudget
BY IInvInvariant, PTL DEF IInv

(* Destroying the task leaves no reply running and no timer pending.       *)
THEOREM NoLeakedWorkInvariant == Spec => []NoLeakedWork
BY IInvInvariant, PTL DEF IInv

(* The terminal error is the fatal error, or the rate-limit error if one   *)
(* was seen, or the generic error.                                         *)
THEOREM TerminalErrorInvariant == Spec => []TerminalError
BY IInvInvariant, PTL DEF IInv

-----------------------------------------------------------------------------
(* Refinement of RetryTaskAbstract under the mapping RetryTask.            *)

(* The initial task is the abstract initial task.                          *)
LEMMA InitRefines == Init => RetryTask!Init
BY DEF Init, RetryTask!Init

(* Every step of the detailed task is a step of the abstract one, or       *)
(* leaves the attempt count, the result and abandonment unchanged.         *)
LEMMA StepRefines == IInv /\ [Next]_vars => [RetryTask!Next]_RetryTask!vars
<1> SUFFICES ASSUME IInv, [Next]_vars PROVE [RetryTask!Next]_RetryTask!vars
  OBVIOUS
<1> USE DEF IInv, TypeOK, ResolvedOnce, AttemptBudget, PhaseCounters,
            ResultIffResolved, Phases, Terminal
<1>1. CASE Start
  <2>1. RetryTask!Send
    BY <1>1 DEF Start, ExecuteNextAttempt, RetryTask!Send
  <2>2. QED
    BY <2>1 DEF RetryTask!Next
<1>2. CASE ReplySucceeded
  <2>1. RetryTask!Settle("Body")
    BY <1>2 DEF ReplySucceeded, Resolve, RetryTask!Settle, RetriableErrors,
                NoResult
  <2>2. QED
    BY <2>1 DEF RetryTask!Next
<1>3. ASSUME NEW e \in FatalErrors, ReplyFailedFatal(e)
      PROVE [RetryTask!Next]_RetryTask!vars
  <2>1. RetryTask!Settle(e)
    BY <1>3 DEF ReplyFailedFatal, Resolve, RetryTask!Settle, RetriableErrors,
                FatalErrors, NoResult
  <2>2. QED
    BY <2>1 DEF RetryTask!Next
<1>4. ASSUME NEW e \in RetriableErrors, ReplyFailedRetriable(e)
      PROVE [RetryTask!Next]_RetryTask!vars
  <2> DEFINE w == UpdateWorst(worst, e)
  <2>1. w \in RetriableErrors
    BY UpdateWorstType
  <2>2. CASE attempts >= MaxAttempts
    <3>1. RetryTask!Settle(w)
      BY <1>4, <2>1, <2>2 DEF ReplyFailedRetriable, ScheduleNextAttempt, Resolve,
                              RetryTask!Settle, NoResult
    <3>2. QED
      BY <2>1, <3>1 DEF RetryTask!Next
  <2>3. CASE attempts < MaxAttempts
    BY <1>4, <2>3 DEF ReplyFailedRetriable, ScheduleNextAttempt, RetryTask!vars
  <2>4. QED
    BY <2>2, <2>3
<1>5. CASE RetryTimerFired
  <2>1. RetryTask!Send
    BY <1>5 DEF RetryTimerFired, ExecuteNextAttempt, RetryTask!Send
  <2>2. QED
    BY <2>1 DEF RetryTask!Next
<1>6. CASE Destroy
  <2>1. RetryTask!Abandon
    BY <1>6 DEF Destroy, RetryTask!Abandon
  <2>2. QED
    BY <2>1 DEF RetryTask!Next
<1>7. CASE UNCHANGED vars
  BY <1>7 DEF vars, RetryTask!vars
<1>8. QED
  BY <1>1, <1>2, <1>3, <1>4, <1>5, <1>6, <1>7 DEF Next

(* NetworkTaskWithRetry implements RetryTaskAbstract for every number of   *)
(* base URIs and every budget: no send after the task settled or was       *)
(* destroyed, none beyond the budget, one settlement, and a retriable      *)
(* error only after the last attempt.                                      *)
THEOREM Refinement == Spec => ImplementsRetryTask
<1>1. Spec => []IInv
  BY IInvInvariant
<1>2. QED
  BY <1>1, InitRefines, StepRefines, PTL DEF Spec, ImplementsRetryTask,
     RetryTask!Spec
=============================================================================
