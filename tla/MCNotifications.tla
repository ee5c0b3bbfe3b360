--------------------------- MODULE MCNotifications ---------------------------
(* Three notification functions, so that a batch can hold one function    *)
(* while a handler queues another and cancels a third; room for two       *)
(* queued invocations so that a double post would be seen.                 *)
EXTENDS Notifications

CONSTANTS f1, f2, f3

MCFns == {f1, f2, f3}
MCMaxEvents == 2
=============================================================================
