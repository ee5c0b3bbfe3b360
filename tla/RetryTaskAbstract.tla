-------------------------- MODULE RetryTaskAbstract --------------------------
(***************************************************************************)
(* What a NetworkTaskWithRetry promises its caller, without base URIs,     *)
(* replies or timers (spec.md 4.5 and 5): it sends the request at most     *)
(* MaxAttempts times, settles once with the body or an error, sends        *)
(* nothing after it settled or was abandoned, and gives up with a          *)
(* retriable error only after the last attempt.                            *)
(***************************************************************************)
EXTENDS Naturals

CONSTANTS
  MaxAttempts,  \* the attempt budget
  Success,      \* the outcome of a successful request
  Retriable,    \* errors another attempt could fix
  Fatal,        \* errors no attempt can fix
  None          \* no outcome yet

VARIABLES
  sent,       \* attempts sent so far
  outcome,    \* what the task was settled with, or None
  abandoned   \* the owner destroyed the task

vars == <<sent, outcome, abandoned>>

Init ==
  /\ sent = 0
  /\ outcome = None
  /\ abandoned = FALSE

(* Send the request once more, while the task is open and budget is left. *)
Send ==
  /\ ~abandoned
  /\ outcome = None
  /\ sent < MaxAttempts
  /\ sent' = sent + 1
  /\ UNCHANGED <<outcome, abandoned>>

(* Settle the task with r, after at least one attempt; a retriable error   *)
(* only once the budget is spent.                                          *)
Settle(r) ==
  /\ ~abandoned
  /\ outcome = None
  /\ sent >= 1
  /\ r \in Retriable => sent = MaxAttempts
  /\ outcome' = r
  /\ UNCHANGED <<sent, abandoned>>

(* The owner destroys the task, settled or not.                            *)
Abandon ==
  /\ ~abandoned
  /\ abandoned' = TRUE
  /\ UNCHANGED <<sent, outcome>>

Next ==
  \/ Send
  \/ \E r \in {Success} \cup Retriable \cup Fatal : Settle(r)
  \/ Abandon

Spec == Init /\ [][Next]_vars
=============================================================================
