------------------------- MODULE NetworkTaskWithRetry -------------------------
(***************************************************************************)
(* NetworkTaskWithRetry (src/common/src/networktaskwithretry.h): one API   *)
(* request retried across a rotating sequence of base URIs until it        *)
(* succeeds, fails with an error retrying cannot fix, or runs out of       *)
(* attempts.  The task is a Task<QByteArray> resolved exactly once.        *)
(*                                                                         *)
(* The header is under src/; the bodies of scheduleNextAttempt,            *)
(* executeNextAttempt and sendRequest, and ApiBaseSequence / ApiRetry, are *)
(* not, so those actions follow spec.md sections 4.1, 4.2, 4.5 and 5.  The *)
(* choice of the terminal error follows the header's own comment on        *)
(* _worstRetriableError.                                                   *)
(*                                                                         *)
(* Data abstraction: a base URI is its index in 0..NumBaseUris-1; a reply  *)
(* is its error code (or success); the backoff delay is abstracted to "a   *)
(* timer is pending", its length is modelled in RetryPolicy.               *)
(***************************************************************************)
EXTENDS Naturals

CONSTANTS
  NumBaseUris,  \* number of base URIs in the ApiBase the task was built from
  MaxAttempts   \* attempt budget of the ApiRetry strategy

ASSUME NumBaseUrisAssumption == NumBaseUris \in Nat \ {0}
ASSUME MaxAttemptsAssumption == MaxAttempts \in Nat \ {0}

(* Error codes an attempt can fail with (spec.md section 7).               *)
RetriableErrors == {"NetworkError", "ServerError", "RateLimited"}
FatalErrors     == {"AuthError", "ClientError", "CertificateTrustError"}
Errors          == RetriableErrors \cup FatalErrors

(* The "generic" retriable error _worstRetriableError holds until a        *)
(* rate-limit error is seen.                                               *)
GenericError == "NetworkError"

Phases == {"Idle", "AttemptInFlight", "AwaitingRetryDelay",
           "Succeeded", "Failed", "Abandoned"}

(* A request whose reply never resolved is "none"; success is "Body".      *)
NoResult == "none"
Results  == {NoResult, "Body"} \cup Errors

VARIABLES
  phase,        \* where the task is in its state machine
  attempts,     \* attempts begun so far (ApiRetry's count)
  nextBase,     \* cursor of _baseUriSequence: index of the next base URI
  worst,        \* _worstRetriableError
  reply,        \* _pNetworkReply: "none", "pending", "finished", "aborted"
  timer,        \* retry-delay timer: "stopped" or "running"
  result,       \* value the task was resolved or rejected with
  resolutions,  \* number of times resolve()/reject() was called
  seen          \* history: error codes of all failed attempts so far

vars == <<phase, attempts, nextBase, worst, reply, timer, result,
          resolutions, seen>>

ReplyStates == {"none", "pending", "finished", "aborted"}
TimerStates == {"stopped", "running"}

TypeOK ==
  /\ phase \in Phases
  /\ attempts \in 0..MaxAttempts
  /\ nextBase \in 0..(NumBaseUris - 1)
  /\ worst \in {GenericError, "RateLimited"}
  /\ reply \in ReplyStates
  /\ timer \in TimerStates
  /\ result \in Results
  /\ resolutions \in Nat
  /\ seen \subseteq Errors

-----------------------------------------------------------------------------
(* Constructor: verb, ApiBaseSequence and strategy captured, nothing sent, *)
(* _worstRetriableError starts as the generic error.                       *)
Init ==
  /\ phase = "Idle"
  /\ attempts = 0
  /\ nextBase = 0
  /\ worst = GenericError
  /\ reply = "none"
  /\ timer = "stopped"
  /\ result = NoResult
  /\ resolutions = 0
  /\ seen = {}

(* Mutant: the cursor is advanced without wrapping to the first base URI. *)
NextBaseUriNoWrap(i) == i + 1

(* ApiBaseSequence::getNextUri(): cycle through the base URIs.             *)
NextBaseUri(i) == (i + 1) % NumBaseUris

(* Resolve or reject the task with r.                                      *)
Resolve(r) ==
  /\ result' = r
  /\ resolutions' = resolutions + 1

(* Mutant: an attempt that is never counted against the budget.           *)
ExecuteNextAttemptUncounted ==
  /\ attempts' = attempts
  /\ nextBase' = NextBaseUri(nextBase)
  /\ reply' = "pending"
  /\ phase' = "AttemptInFlight"

(* executeNextAttempt(): take the next base URI and send the request.      *)
ExecuteNextAttempt ==
  /\ attempts' = attempts + 1
  /\ nextBase' = NextBaseUri(nextBase)
  /\ reply' = "pending"
  /\ phase' = "AttemptInFlight"

(* Mutant: the budget check is off by one (> instead of >=).              *)
ScheduleNextAttemptOffByOne(w) ==
  \/ /\ attempts > MaxAttempts
     /\ Resolve(w)
     /\ phase' = "Failed"
     /\ UNCHANGED timer
  \/ /\ attempts <= MaxAttempts
     /\ phase' = "AwaitingRetryDelay"
     /\ timer' = "running"
     /\ UNCHANGED <<result, resolutions>>

(* scheduleNextAttempt(): reject with the worst retriable error once the   *)
(* strategy's attempts are used up, otherwise arm the delay timer.  w is   *)
(* the value _worstRetriableError has at the call.                         *)
ScheduleNextAttempt(w) ==
  \/ /\ attempts >= MaxAttempts
     /\ Resolve(w)
     /\ phase' = "Failed"
     /\ UNCHANGED timer
  \/ /\ attempts < MaxAttempts
     /\ phase' = "AwaitingRetryDelay"
     /\ timer' = "running"
     /\ UNCHANGED <<result, resolutions>>

(* Mutant: the last retriable error wins.                                 *)
UpdateWorstLastWins(w, e) == e

(* _worstRetriableError after a retriable failure e: a rate-limit error    *)
(* replaces the generic error; other retriable errors leave it alone.     *)
UpdateWorst(w, e) == IF e = "RateLimited" THEN "RateLimited" ELSE w

-----------------------------------------------------------------------------
(* The constructor schedules the first attempt with no delay.              *)
Start ==
  /\ phase = "Idle"
  /\ ExecuteNextAttempt
  /\ UNCHANGED <<worst, timer, result, resolutions, seen>>

(* The reply of the in-flight attempt finishes successfully: resolve with  *)
(* the body.                                                               *)
ReplySucceeded ==
  /\ phase = "AttemptInFlight"
  /\ reply = "pending"
  /\ reply' = "finished"
  /\ phase' = "Succeeded"
  /\ Resolve("Body")
  /\ UNCHANGED <<attempts, nextBase, worst, timer, seen>>

(* Mutant: the fatal-error branch rejects but is missing its return, so   *)
(* it falls through to scheduling the next attempt.                       *)
ReplyFailedFatalFallThrough(e) ==
  /\ phase = "AttemptInFlight"
  /\ reply = "pending"
  /\ reply' = "finished"
  /\ seen' = seen \cup {e}
  /\ Resolve(e)
  /\ IF attempts < MaxAttempts
       THEN phase' = "AwaitingRetryDelay" /\ timer' = "running"
       ELSE phase' = "Failed" /\ UNCHANGED timer
  /\ UNCHANGED <<attempts, nextBase, worst>>

(* The reply finishes with an error that retrying cannot fix: reject with  *)
(* it at once, whatever budget is left.                                    *)
ReplyFailedFatal(e) ==
  /\ phase = "AttemptInFlight"
  /\ reply = "pending"
  /\ reply' = "finished"
  /\ seen' = seen \cup {e}
  /\ phase' = "Failed"
  /\ Resolve(e)
  /\ UNCHANGED <<attempts, nextBase, worst, timer>>

(* The reply finishes with a retriable error: record it in                 *)
(* _worstRetriableError, then schedule the next attempt or give up.        *)
ReplyFailedRetriable(e) ==
  /\ phase = "AttemptInFlight"
  /\ reply = "pending"
  /\ reply' = "finished"
  /\ seen' = seen \cup {e}
  /\ worst' = UpdateWorst(worst, e)
  /\ ScheduleNextAttempt(UpdateWorst(worst, e))
  /\ UNCHANGED <<attempts, nextBase>>

(* The retry-delay timer fires: start the next attempt.                    *)
RetryTimerFired ==
  /\ phase = "AwaitingRetryDelay"
  /\ timer = "running"
  /\ timer' = "stopped"
  /\ ExecuteNextAttempt
  /\ UNCHANGED <<worst, result, resolutions, seen>>

(* Mutant: the destructor drops the reply without aborting it.             *)
DestroyKeepsReply ==
  /\ phase # "Abandoned"
  /\ phase' = "Abandoned"
  /\ timer' = "stopped"
  /\ UNCHANGED <<reply, attempts, nextBase, worst, result, resolutions, seen>>

(* ~NetworkTaskWithRetry(): the owner abandons the task.  An in-flight     *)
(* reply is aborted and a pending timer cancelled; the task is not         *)
(* resolved.                                                               *)
Destroy ==
  /\ phase # "Abandoned"
  /\ phase' = "Abandoned"
  /\ reply' = IF reply = "pending" THEN "aborted" ELSE reply
  /\ timer' = "stopped"
  /\ UNCHANGED <<attempts, nextBase, worst, result, resolutions, seen>>

Next ==
  \/ Start
  \/ ReplySucceeded
  \/ \E e \in FatalErrors : ReplyFailedFatal(e)
  \/ \E e \in RetriableErrors : ReplyFailedRetriable(e)
  \/ RetryTimerFired
  \/ Destroy

(* The event loop runs the timer and delivers the reply (Qt's network      *)
(* stack always finishes a reply, with a timeout error at worst); the      *)
(* owner is never obliged to destroy the task.                             *)
Fairness ==
  /\ WF_vars(Start)
  /\ WF_vars(RetryTimerFired)
  /\ WF_vars(ReplySucceeded \/ \E e \in Errors :
                 ReplyFailedFatal(e) \/ ReplyFailedRetriable(e))

Spec == Init /\ [][Next]_vars /\ Fairness

-----------------------------------------------------------------------------
Terminal == {"Succeeded", "Failed"}

(* The task is resolved or rejected at most once, and exactly when it has  *)
(* reached Succeeded or Failed: an attempt's callback that rejects never   *)
(* also schedules another attempt, and abandoning the task never resolves  *)
(* it.                                                                     *)
ResolvedOnce ==
  /\ resolutions <= 1
  /\ (resolutions = 1) <=> (phase \in Terminal \/ (phase = "Abandoned" /\ result # NoResult))
  /\ (phase \in Terminal) => result # NoResult

(* The attempt budget: never more than MaxAttempts attempts, and a task    *)
(* that failed with a retriable error used every one of them.              *)
AttemptBudget ==
  /\ attempts <= MaxAttempts
  /\ (phase = "Failed" /\ result \in RetriableErrors) => attempts = MaxAttempts

(* Abandoning the task leaks nothing: no reply is left running and no      *)
(* timer left pending once it is destroyed, and a pending reply or timer   *)
(* exists only while the task is waiting on it.                            *)
NoLeakedWork ==
  /\ (reply = "pending") <=> (phase = "AttemptInFlight")
  /\ (timer = "running") <=> (phase = "AwaitingRetryDelay")

(* The error a task rejects with: the fatal error that stopped it, or, if  *)
(* it ran out of attempts, the rate-limit error if any attempt was rate    *)
(* limited and the generic error otherwise (header comment on              *)
(* _worstRetriableError).                                                  *)
TerminalError ==
  phase = "Failed" =>
    \/ result \in FatalErrors
    \/ /\ result \in RetriableErrors
       /\ result = IF "RateLimited" \in seen THEN "RateLimited" ELSE GenericError

(* Spec.md 4.5 and 8: a rate-limit error never masks another retriable     *)
(* error; if any attempt failed with a retriable error other than the rate *)
(* limit, the task does not reject with the rate-limit error.              *)
RateLimitDemoted ==
  (phase = "Failed" /\ (seen \cap (RetriableErrors \ {"RateLimited"})) # {})
    => result # "RateLimited"

(* The inductive invariant behind the theorems of NetworkTaskWithRetryProofs: *)
(* the properties above together with what each phase implies of the       *)
(* attempt count, that a result is recorded exactly when resolve() ran,     *)
(* and that _worstRetriableError summarises the errors seen so far.          *)
PhaseCounters ==
  /\ phase = "Idle" => attempts = 0
  /\ phase = "AttemptInFlight" => attempts >= 1
  /\ phase = "AwaitingRetryDelay" => attempts < MaxAttempts

ResultIffResolved == (resolutions = 0) <=> (result = NoResult)

WorstTracksSeen ==
  worst = IF "RateLimited" \in seen THEN "RateLimited" ELSE GenericError

IInv ==
  /\ TypeOK
  /\ ResolvedOnce
  /\ AttemptBudget
  /\ NoLeakedWork
  /\ TerminalError
  /\ PhaseCounters
  /\ ResultIffResolved
  /\ WorstTracksSeen

(* The abstract task, seen through the detailed one: an attempt is a send, *)
(* the task's result is its outcome, and Abandoned is abandoned.           *)
RetryTask == INSTANCE RetryTaskAbstract WITH
  sent <- attempts,
  outcome <- result,
  abandoned <- (phase = "Abandoned"),
  Success <- "Body",
  Retriable <- RetriableErrors,
  Fatal <- FatalErrors,
  None <- NoResult

(* NetworkTaskWithRetry keeps the promise of RetryTaskAbstract: every step *)
(* of the constructor, the reply callbacks, the retry timer and the        *)
(* destructor is a send, a settlement, an abandonment or invisible to the  *)
(* caller, so no attempt is sent after the task settled or was destroyed,  *)
(* none beyond the budget, and no settlement comes before an attempt.      *)
ImplementsRetryTask == RetryTask!Spec

(* Every task eventually succeeds, fails or is abandoned.                  *)
Termination == <>(phase \in Terminal \cup {"Abandoned"})
=============================================================================
