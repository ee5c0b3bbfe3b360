------------------------- MODULE MCHandleOwnership -------------------------
(* Wrapper variables of every specialisation over two resources.           *)
EXTENDS HandleOwnership, TLC

CONSTANTS s1, s2, b1, c1, d1, p1, p2, r1, r2

\* Two static wrappers (moves between them), one of each other raii_t
\* specialisation, and two PosixFds.
MCSlots == {s1, s2, b1, c1, d1, p1, p2}
MCKindOf == (s1 :> "static" @@ s2 :> "static" @@ b1 :> "functor"
             @@ c1 :> "fnptr" @@ d1 :> "function" @@ p1 :> "fd" @@ p2 :> "fd")
MCRes == {r1, r2}
=============================================================================
