CONSTANTS
  s1 = s1  s2 = s2  b1 = b1  c1 = c1  d1 = d1  p1 = p1  p2 = p2
  r1 = r1  r2 = r2
  Slots <- MCSlots
  KindOf <- MCKindOf
  Res <- MCRes
  PointerHandle = TRUE
SPECIFICATION Spec
INVARIANTS NoUndefinedBehaviour
