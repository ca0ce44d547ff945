--------------------------- MODULE OsalEventQueue ---------------------------
(***************************************************************************)
(* One OSAL event queue (osal/src/rmf_osal_event.c): a priority-ordered    *)
(* linked list and its event_count, both changed only under the queue's    *)
(* mutex, and a POSIX semaphore that is waited on outside the mutex.       *)
(* Everything done under the mutex is one step; the semaphore operation    *)
(* and the list operation that follows it are two.                         *)
(***************************************************************************)
EXTENDS Integers, Sequences, FiniteSets

CONSTANTS Events,      \* event handles
          Priority,    \* event->priority
          Receivers,   \* threads that call the get/clear functions
          MaxLimit,    \* RMF_OSAL_EVENTQ_MAX_LIMIT
          SemValueMax  \* SEM_VALUE_MAX of the C library

ASSUME QueueConstants ==
    /\ Priority \in [Events -> Nat]
    /\ IsFiniteSet(Receivers)
    /\ MaxLimit \in Nat \ {0}
    /\ SemValueMax \in Nat
    /\ MaxLimit <= SemValueMax

VARIABLES eventlist,   \* eventqueue->eventlist, head first
          event_count, \* eventqueue->event_count
          sem,         \* value of eventqueue->sem
          pc,          \* where each receiver is in its call
          token,       \* TRUE: the receiver took a semaphore unit it has not yet used
          result       \* what the receiver's last call returned

vars == <<eventlist, event_count, sem, pc, token, result>>

\* Return values; an event handle stands for RMF_SUCCESS with that event.
NONE == "none"
ENODATA == "RMF_OSAL_ENODATA"
EINVAL == "RMF_OSAL_EINVAL"

ASSUME HandlesAreNotCodes == {NONE, ENODATA, EINVAL} \cap Events = {}

Calls == {"get", "timed", "try", "clear"}
PopPc == {"get_pop", "timed_pop", "try_pop", "clear_pop"}

InList(e) == \E i \in DOMAIN eventlist : eventlist[i] = e

TypeOK ==
    /\ eventlist \in Seq(Events)
    /\ event_count \in Nat
    /\ sem \in Nat
    /\ pc \in [Receivers -> {"idle"} \cup Calls \cup PopPc]
    /\ token \in [Receivers -> BOOLEAN]
    /\ result \in [Receivers -> Events \cup {NONE, ENODATA, EINVAL}]

Init ==
    /\ eventlist = <<>>
    /\ event_count = 0
    /\ sem = 0
    /\ pc = [r \in Receivers |-> "idle"]
    /\ token = [r \in Receivers |-> FALSE]
    /\ result = [r \in Receivers |-> NONE]

-----------------------------------------------------------------------------
(* Sending.                                                                *)

\* Mutant of Slot: the walk stops at an entry of equal priority already.
SlotBeforeEquals(e) ==
    CHOOSE p \in 1..(Len(eventlist) + 1) :
        /\ \A i \in 1..(p - 1) : Priority[eventlist[i]] > Priority[e]
        /\ p <= Len(eventlist) => Priority[eventlist[p]] <= Priority[e]

\* The place the list walk stops at: before the first entry of lower priority.
Slot(e) ==
    CHOOSE p \in 1..(Len(eventlist) + 1) :
        /\ \A i \in 1..(p - 1) : Priority[eventlist[i]] >= Priority[e]
        /\ p <= Len(eventlist) => Priority[eventlist[p]] < Priority[e]

Inserted(e, p) ==
    [i \in 1..(Len(eventlist) + 1) |->
        IF i < p THEN eventlist[i] ELSE IF i = p THEN e ELSE eventlist[i - 1]]

\* Mutant of SemPosted: only the first event of an empty queue is announced.
SemPostedIfEmpty == IF eventlist = <<>> THEN sem + 1 ELSE sem

\* sem_post; one that would overflow is only logged.
SemPosted == IF sem = SemValueMax THEN sem ELSE sem + 1

\* eventqueue_add and addTimed of an event that is not in the queue.  A full
\* queue (RMF_OSAL_EBUSY), a failed allocation and a timed-out mutex leave
\* the queue as it is.
Add(e) ==
    /\ ~InList(e)
    /\ event_count # MaxLimit
    /\ eventlist' = Inserted(e, Slot(e))
    /\ event_count' = event_count + 1
    /\ sem' = SemPosted
    /\ UNCHANGED <<pc, token, result>>

-----------------------------------------------------------------------------
(* Receiving.                                                              *)

Call(r, c) ==
    /\ pc[r] = "idle"
    /\ pc' = [pc EXCEPT ![r] = c]
    /\ result' = [result EXCEPT ![r] = NONE]
    /\ UNCHANGED <<eventlist, event_count, sem, token>>

PopOf(c) == CASE c = "get" -> "get_pop"
              [] c = "timed" -> "timed_pop"
              [] c = "try" -> "try_pop"
              [] c = "clear" -> "clear_pop"

\* Mutant of SemTaken: goes on although there is no unit.
SemTakenAlways(r) ==
    /\ pc[r] \in Calls
    /\ sem' = sem - 1
    /\ token' = [token EXCEPT ![r] = TRUE]
    /\ pc' = [pc EXCEPT ![r] = PopOf(pc[r])]
    /\ UNCHANGED <<eventlist, event_count, result>>

\* sem_wait, sem_timedwait or sem_trywait takes a unit.
SemTaken(r) ==
    /\ pc[r] \in Calls
    /\ sem > 0
    /\ sem' = sem - 1
    /\ token' = [token EXCEPT ![r] = TRUE]
    /\ pc' = [pc EXCEPT ![r] = PopOf(pc[r])]
    /\ UNCHANGED <<eventlist, event_count, result>>

\* sem_trywait finds no unit; its return value is ignored and the pop follows.
TryMisses(r) ==
    /\ pc[r] \in {"try", "clear"}
    /\ sem = 0
    /\ pc' = [pc EXCEPT ![r] = PopOf(pc[r])]
    /\ UNCHANGED <<eventlist, event_count, sem, token, result>>

\* sem_wait or sem_timedwait returns -1: a signal, or the timeout, neither of
\* which it reports while a unit is available.
WaitFails(r) ==
    /\ pc[r] \in {"get", "timed"}
    /\ sem = 0
    /\ pc' = [pc EXCEPT ![r] = "idle"]
    /\ result' = [result EXCEPT ![r] = IF pc[r] = "get" THEN EINVAL ELSE ENODATA]
    /\ UNCHANGED <<eventlist, event_count, sem, token>>

\* Mutant of ListPop: event_count is not decremented.
ListPopUncounted ==
    /\ eventlist # <<>>
    /\ eventlist' = Tail(eventlist)
    /\ UNCHANGED event_count

\* rmf_osal_eventqueue_list_pop_element, on a list that is not empty.
ListPop ==
    /\ eventlist # <<>>
    /\ eventlist' = Tail(eventlist)
    /\ event_count' = IF event_count = 0 THEN 0 ELSE event_count - 1

\* The pop succeeds: clear deletes the event and goes round its loop, the
\* others return it.
Pop(r) ==
    /\ pc[r] \in PopPc
    /\ ListPop
    /\ token' = [token EXCEPT ![r] = FALSE]
    /\ IF pc[r] = "clear_pop"
       THEN /\ pc' = [pc EXCEPT ![r] = "clear"]
            /\ UNCHANGED result
       ELSE /\ pc' = [pc EXCEPT ![r] = "idle"]
            /\ result' = [result EXCEPT ![r] = Head(eventlist)]
    /\ UNCHANGED sem

\* The pop finds the list empty: get_next_event waits again, clear returns
\* RMF_SUCCESS, the others return RMF_OSAL_ENODATA.
PopEmpty(r) ==
    /\ pc[r] \in PopPc
    /\ eventlist = <<>>
    /\ token' = [token EXCEPT ![r] = FALSE]
    /\ CASE pc[r] = "get_pop" ->
              /\ pc' = [pc EXCEPT ![r] = "get"]
              /\ UNCHANGED result
         [] pc[r] = "clear_pop" ->
              /\ pc' = [pc EXCEPT ![r] = "idle"]
              /\ UNCHANGED result
         [] OTHER ->
              /\ pc' = [pc EXCEPT ![r] = "idle"]
              /\ result' = [result EXCEPT ![r] = ENODATA]
    /\ UNCHANGED <<eventlist, event_count, sem>>

ReceiverStep(r) == SemTaken(r) \/ TryMisses(r) \/ Pop(r) \/ PopEmpty(r)

Next ==
    \/ \E e \in Events : Add(e)
    \/ \E r \in Receivers : \/ \E c \in Calls : Call(r, c)
                            \/ WaitFails(r)
                            \/ ReceiverStep(r)

Spec == Init /\ [][Next]_vars

\* A receiver that is not blocked runs on, a blocked one is woken by a posted
\* unit, and a receiver thread is a loop that calls again; nothing obliges a
\* sender to send.
FairSpec ==
    /\ Spec
    /\ \A r \in Receivers : /\ WF_vars(ReceiverStep(r))
                            /\ WF_vars(\E c \in Calls : Call(r, c))

-----------------------------------------------------------------------------
(* Properties.                                                             *)

Holders == {r \in Receivers : token[r]}

\* No lost wake-up: every queued event is announced by a unit of the
\* semaphore or by a receiver that already took one and is about to pop, so
\* no receiver sleeps in sem_wait while an event that nobody will fetch is
\* queued (sem_post is done with the list insertion, under the mutex, while
\* try_get and clear pop whether or not sem_trywait succeeded).
NoLostWakeup == Len(eventlist) <= sem + Cardinality(Holders)

\* event_count, which decides when the queue is full, is the length of the
\* list, so the limit is neither passed nor reached early.
CountIsLength == /\ event_count = Len(eventlist)
                 /\ event_count <= MaxLimit

\* The queue implements the event box: the linked-list insertion keeps
\* priority order, and arrival order within a priority, whatever the
\* interleaving of senders, receivers and clears.
SeniorPairs ==
    {<<eventlist[q[1]], eventlist[q[2]]>> :
        q \in {w \in (DOMAIN eventlist) \X (DOMAIN eventlist) :
                 /\ w[1] < w[2]
                 /\ Priority[eventlist[w[1]]] = Priority[eventlist[w[2]]]}}

Box == INSTANCE EventBox WITH box <- {eventlist[i] : i \in DOMAIN eventlist},
                              senior <- SeniorPairs

BoxSpec == Box!Spec

\* An event of the highest priority is eventually taken from the queue:
\* nothing overtakes it, and the semaphore never strands it.  (An event of
\* lower priority has no such guarantee: later events may always go first.)
TopPriorityIsTaken ==
    \A e \in Events :
        (\A f \in Events : Priority[f] <= Priority[e]) => (InList(e) ~> ~InList(e))

\* get_next_event_timed "retrieve[s] the event if present, else wait[s] for
\* the event for the specified time": once its semaphore wait has succeeded
\* it returns an event, never RMF_OSAL_ENODATA before the time is up.
TimedNeverEarly ==
    [][\A r \in Receivers : pc[r] = "timed_pop" => result'[r] # ENODATA]_vars
=============================================================================
