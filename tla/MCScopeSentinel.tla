--------------------------- MODULE MCScopeSentinel ---------------------------
(* Two sentinels (one moved into the other) and two blocks.                *)
EXTENDS ScopeSentinel

CONSTANTS g1, g2, x1, x2

MCSentinels == {g1, g2}
MCBlocks == {x1, x2}
=============================================================================
