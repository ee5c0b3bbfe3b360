\* Coalescing notification queue: nothing stranded, everything dispatched.
CONSTANTS
  f1 = f1
  f2 = f2
  f3 = f3
  Fns <- MCFns
  MaxEvents <- MCMaxEvents
SPECIFICATION Spec
INVARIANTS
  NoLostNotification
  CancelledNotQueued
PROPERTIES
  EventuallyDispatched
