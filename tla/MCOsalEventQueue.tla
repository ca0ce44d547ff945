-------------------------- MODULE MCOsalEventQueue --------------------------
(* Three events of two priorities, two receivers, a queue of limit 2 and a  *)
(* semaphore that saturates at 3.                                           *)
EXTENDS OsalEventQueue, TLC

CONSTANTS e1, e2, e3, r1, r2

MCEvents == {e1, e2, e3}
MCPriority == (e1 :> 0) @@ (e2 :> 1) @@ (e3 :> 1)
MCReceivers == {r1, r2}
=============================================================================
