\* Spec.md 4.5/8 says a rate-limit error never masks another retriable error.
CONSTANTS
  NumBaseUris <- MCNumBaseUris
  MaxAttempts <- MCMaxAttempts
SPECIFICATION Spec
INVARIANTS
  RateLimitDemoted
CHECK_DEADLOCK FALSE
