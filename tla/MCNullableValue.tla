--------------------------- MODULE MCNullableValue ---------------------------
(* Three nullable_t variables (copies and moves between them and onto      *)
(* themselves) over two values of T.                                       *)
EXTENDS NullableValue

CONSTANTS n1, n2, n3, a, b

MCSlots == {n1, n2, n3}
MCVals == {a, b}
=============================================================================
