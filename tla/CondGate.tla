------------------------------ MODULE CondGate ------------------------------
(***************************************************************************)
(* What a condition of osal/src/rmf_osal_sync.c promises: a gate that is   *)
(* set and unset.  A waiting thread passes only while the gate is set, and *)
(* an autoreset gate closes behind the thread that passes.  The gate is    *)
(* removed when nobody waits; who comes after that has no promise to pass. *)
(***************************************************************************)
CONSTANTS Threads, AutoReset

VARIABLES set,      \* the gate is set
          waiting,  \* threads that have come and neither passed nor given up
          gone      \* the gate was removed

gate == <<set, waiting, gone>>

Init == set \in BOOLEAN /\ waiting = {} /\ gone = FALSE

Set == set' = TRUE /\ UNCHANGED <<waiting, gone>>
Unset == set' = FALSE /\ UNCHANGED <<waiting, gone>>

Arrive(t) ==
    /\ t \notin waiting
    /\ waiting' = waiting \cup {t}
    /\ UNCHANGED <<set, gone>>

Pass(t) ==
    /\ t \in waiting /\ set
    /\ waiting' = waiting \ {t}
    /\ set' = ~AutoReset
    /\ UNCHANGED gone

\* A timed wait ends without passing while the gate is not set.
GiveUp(t) ==
    /\ t \in waiting /\ ~set
    /\ waiting' = waiting \ {t}
    /\ UNCHANGED <<set, gone>>

Remove ==
    /\ ~gone /\ waiting = {}
    /\ gone' = TRUE
    /\ UNCHANGED <<set, waiting>>

\* A thread that came to a removed gate is lost.
Abandon(t) ==
    /\ gone /\ t \in waiting
    /\ waiting' = waiting \ {t}
    /\ UNCHANGED <<set, gone>>

Next ==
    \/ Set \/ Unset \/ Remove
    \/ \E t \in Threads : Arrive(t) \/ Pass(t) \/ GiveUp(t) \/ Abandon(t)

\* While the gate stays set and threads wait, one of them passes.
Safe == Init /\ [][Next]_gate
Spec == Safe /\ WF_gate(\E t \in Threads : ~gone /\ Pass(t))
=============================================================================
