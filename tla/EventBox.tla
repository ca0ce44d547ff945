------------------------------ MODULE EventBox ------------------------------
(***************************************************************************)
(* What an OSAL event queue promises its senders and receivers             *)
(* (osal/include/rmf_osal_event.h, "Event priority"): an event that was    *)
(* put in the box is handed out exactly once, a higher priority before a   *)
(* lower one, and events of one priority in the order they were put.       *)
(***************************************************************************)
EXTENDS Naturals

CONSTANTS Events,      \* event handles
          Priority     \* the priority each event was created with

VARIABLES box,         \* the events put and not yet handed out
          senior       \* pairs <<f, e>>: f has e's priority and was put earlier

vars == <<box, senior>>

Init == /\ box = {}
        /\ senior = {}

Put(e) ==
    /\ e \notin box
    /\ box' = box \cup {e}
    /\ senior' = senior \cup {<<f, e>> : f \in {g \in box : Priority[g] = Priority[e]}}

Take(e) ==
    /\ e \in box
    /\ \A f \in box : Priority[f] <= Priority[e]
    /\ \A f \in box : <<f, e>> \notin senior
    /\ box' = box \ {e}
    /\ senior' = {p \in senior : p[1] # e /\ p[2] # e}

Next == \E e \in Events : Put(e) \/ Take(e)

Spec == Init /\ [][Next]_vars
=============================================================================
