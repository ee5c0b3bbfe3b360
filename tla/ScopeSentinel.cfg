CONSTANTS
  g1 = g1  g2 = g2  x1 = x1  x2 = x2
  Sentinels <- MCSentinels
  Blocks <- MCBlocks
SPECIFICATION Spec
INVARIANTS RunsOnce
