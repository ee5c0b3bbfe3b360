\* The header promises outstanding requests can be cancelled.
CONSTANTS
  f1 = f1
  f2 = f2
  f3 = f3
  Fns <- MCFns
  MaxEvents <- MCMaxEvents
SPECIFICATION Spec
PROPERTIES
  CancelledNeverRuns
