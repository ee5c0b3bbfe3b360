CONSTANTS
  n1 = n1  n2 = n2  n3 = n3  a = a  b = b
  Slots <- MCSlots
  Vals <- MCVals
  MayThrow = TRUE
SPECIFICATION Spec
INVARIANTS LifetimeBalanced ComparisonsMatchValue
