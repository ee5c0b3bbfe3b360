----------------------------- MODULE MCSingleton -----------------------------
(* Four candidate objects: enough for a second construction while one      *)
(* lives, an AutoSingleton re-creation after the record is lost, and       *)
(* objects constructed after others died.                                  *)
EXTENDS Singleton

CONSTANTS o1, o2, o3, o4

MCObjs == {o1, o2, o3, o4}
=============================================================================
