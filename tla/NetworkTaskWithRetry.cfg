\* Retry orchestrator: resolution, budget, cancellation, terminal error.
CONSTANTS
  NumBaseUris <- MCNumBaseUris
  MaxAttempts <- MCMaxAttempts
SPECIFICATION Spec
INVARIANTS
  ResolvedOnce
  AttemptBudget
  NoLeakedWork
  TerminalError
  TypeOK
PROPERTIES
  Termination
  ImplementsRetryTask
\* A finished or abandoned task takes no further steps.
CHECK_DEADLOCK FALSE
