---------------------------- MODULE Notifications ----------------------------
(***************************************************************************)
(* IMPLEMENT_NOTIFICATIONS (src/common/src/builtin/util.h): a QObject      *)
(* mixin that queues member-function notifications to itself.  Repeated    *)
(* requests for the same function coalesce, one queued invocation of       *)
(* processNotifications() runs them all, and outstanding requests can be   *)
(* cancelled.                                                              *)
(*                                                                         *)
(* Everything runs on the object's thread.  processNotifications() runs    *)
(* the swapped-out list one function at a time; the calls other code makes *)
(* between two of those steps stand for the calls the notification         *)
(* handlers themselves make (queueing or cancelling more notifications).   *)
(***************************************************************************)
EXTENDS Naturals, Sequences, SequencesExt

CONSTANTS
  Fns,        \* the NotificationFunction members that can be queued
  MaxEvents   \* bound on processNotifications() invocations in the Qt queue

ASSUME FnsAssumption == Fns # {}
ASSUME MaxEventsAssumption == MaxEvents \in Nat \ {0}

VARIABLES
  notifications,  \* _notifications: the QList of queued functions
  posted,         \* _notificationsPosted
  events,         \* queued processNotifications() invocations not yet run
  batch,          \* local list processNotifications() is still running
  cancelled       \* history: requests cancelled since they were queued

vars == <<notifications, posted, events, batch, cancelled>>

TypeOK ==
  /\ notifications \in Seq(Fns)
  /\ posted \in BOOLEAN
  /\ events \in 0..MaxEvents
  /\ batch \in Seq(Fns)
  /\ cancelled \subseteq Fns

Init ==
  /\ notifications = <<>>
  /\ posted = FALSE
  /\ events = 0
  /\ batch = <<>>
  /\ cancelled = {}

-----------------------------------------------------------------------------
(* Mutant: post whenever the list was empty instead of consulting the     *)
(* posted flag.                                                            *)
queueNotificationPostIfEmpty(fn) ==
  /\ ~Contains(notifications, fn)
  /\ notifications = <<>> => events < MaxEvents
  /\ notifications' = Append(notifications, fn)
  /\ IF notifications = <<>>
       THEN posted' = TRUE /\ events' = events + 1
       ELSE UNCHANGED <<posted, events>>
  /\ cancelled' = cancelled \ {fn}
  /\ UNCHANGED batch

(* Mutant: no coalescing; a request already in the list is appended again. *)
queueNotificationDuplicates(fn) ==
  /\ ~posted => events < MaxEvents
  /\ notifications' = Append(notifications, fn)
  /\ IF ~posted
       THEN posted' = TRUE /\ events' = events + 1
       ELSE UNCHANGED <<posted, events>>
  /\ cancelled' = cancelled \ {fn}
  /\ UNCHANGED batch

(* queueNotification(fn): ignored if fn is already queued; otherwise       *)
(* append it and post processNotifications() unless one is posted.         *)
queueNotification(fn) ==
  /\ ~Contains(notifications, fn)
  /\ ~posted => events < MaxEvents
  /\ notifications' = Append(notifications, fn)
  /\ IF ~posted
       THEN posted' = TRUE /\ events' = events + 1
       ELSE UNCHANGED <<posted, events>>
  /\ cancelled' = cancelled \ {fn}
  /\ UNCHANGED batch

(* cancelNotification(fn): QList::removeOne.  The queued request is       *)
(* cancelled if it was in the list (a copy of fn in the running batch is   *)
(* an earlier request, which the call does not claim to cancel).           *)
cancelNotification(fn) ==
  /\ notifications' = RemoveFirst(notifications, fn)
  /\ cancelled' = IF Contains(notifications, fn) /\ ~Contains(batch, fn)
                     THEN cancelled \cup {fn}
                     ELSE cancelled
  /\ UNCHANGED <<posted, events, batch>>

(* cancelAllNotifications(): clear the list; every outstanding request,    *)
(* queued or about to run, is cancelled.                                   *)
cancelAllNotifications ==
  /\ notifications' = <<>>
  /\ cancelled' = cancelled \cup ToSet(notifications) \cup ToSet(batch)
  /\ UNCHANGED <<posted, events, batch>>

(* One iteration of the loop in processNotifications(): call the first    *)
(* function of list l; the rest is what the loop still has to run.         *)
CallFirst(l) ==
  /\ batch' = Tail(l)
  /\ cancelled' = cancelled \ {Head(l)}

(* Mutant: processNotifications() never clears the posted flag.           *)
processNotificationsKeepsPosted ==
  /\ events > 0
  /\ batch = <<>>
  /\ events' = events - 1
  /\ notifications' = <<>>
  /\ \/ notifications = <<>> /\ UNCHANGED <<batch, cancelled>>
     \/ notifications # <<>> /\ CallFirst(notifications)
  /\ UNCHANGED posted

(* The event loop dispatches a queued processNotifications(): clear the    *)
(* posted flag, swap the list into a local one and call its first          *)
(* function, with nothing in between.  (Not while another invocation is   *)
(* still running its list: no nested event loop.)                          *)
processNotifications ==
  /\ events > 0
  /\ batch = <<>>
  /\ events' = events - 1
  /\ posted' = FALSE
  /\ notifications' = <<>>
  /\ \/ notifications = <<>> /\ UNCHANGED <<batch, cancelled>>
     \/ notifications # <<>> /\ CallFirst(notifications)

(* The next iteration of the loop, after the calls the previous function  *)
(* made: call the next function of the local list.                         *)
runNotification ==
  /\ batch # <<>>
  /\ CallFirst(batch)
  /\ UNCHANGED <<notifications, posted, events>>

Next ==
  \/ \E fn \in Fns : queueNotification(fn) \/ cancelNotification(fn)
  \/ cancelAllNotifications
  \/ processNotifications
  \/ runNotification

(* The Qt event loop eventually dispatches queued invocations and a        *)
(* running slot runs to completion; callers are under no obligation.       *)
Fairness == WF_vars(processNotifications) /\ WF_vars(runNotification)

Spec == Init /\ [][Next]_vars /\ Fairness

-----------------------------------------------------------------------------
(* No notification is stranded: whenever a function sits in the list, a   *)
(* processNotifications() invocation is posted for it, and the posted flag *)
(* is set exactly when one invocation is queued, so queueNotification()    *)
(* calls made from inside a running notification are not lost.            *)
NoLostNotification ==
  /\ notifications # <<>> => posted
  /\ posted <=> events = 1

(* A request cancelled with cancelNotification() (or cancelAll) is no      *)
(* longer queued: isNotificationQueued(fn) is false until fn is queued     *)
(* again.  removeOne() drops only the first copy, so this rests on         *)
(* queueNotification() never letting a function into the list twice.      *)
CancelledNotQueued == \A fn \in cancelled : ~Contains(notifications, fn)

(* The inductive invariant of NotificationsProofs: the types, at most one  *)
(* invocation queued, NoLostNotification, no function twice in the list,   *)
(* and CancelledNotQueued.                                                  *)
IInv ==
  /\ TypeOK
  /\ events \in 0..1
  /\ NoLostNotification
  /\ IsInjective(notifications)
  /\ CancelledNotQueued

(* Every queued function eventually leaves the list (it runs or is         *)
(* cancelled), however handlers keep queueing.                             *)
EventuallyDispatched ==
  \A fn \in Fns : Contains(notifications, fn) ~> ~Contains(notifications, fn)

(* Util.h: the mixin offers "the ability to cancel outstanding requests":  *)
(* a request cancelled before it ran never runs (unless queued again): the *)
(* loop never calls a function whose request a handler earlier in the     *)
(* same batch cancelled.                                                   *)
CancelledNeverRuns ==
  [][batch # <<>> /\ batch' = Tail(batch) => Head(batch) \notin cancelled]_vars
=============================================================================
