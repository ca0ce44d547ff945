------------------------------ MODULE OsalCond ------------------------------
(***************************************************************************)
(* One condition of osal/src/rmf_osal_sync.c: cd_state under cd_mutex,     *)
(* waiters on a pthread condition, and a deletion that first makes the     *)
(* waiters leave.  rmf_osal_condDelete reads cd_count and writes cd_state  *)
(* without the mutex, so a waiter's test and its wait are two steps.  A    *)
(* thread that has checked cd_id and does not have the mutex yet is not    *)
(* counted, and may come in after the deletion has found nobody; what it   *)
(* does once the memory is gone is undefined.                              *)
(*                                                                         *)
(* Left out: a pthread_cond_wait that fails with EINVAL or EPERM (it only  *)
(* does for a caller that does not own the mutex), and thread suspension,  *)
(* which no build defines.                                                 *)
(***************************************************************************)
EXTENDS Integers, FiniteSets

CONSTANTS Threads,    \* threads that call the interface
          AutoReset   \* cd_autoReset

ASSUME CondConstants ==
    /\ IsFiniteSet(Threads)
    /\ AutoReset \in BOOLEAN

VARIABLES valid,    \* cd_id = OS_COND_ID
          cd_state,
          cd_count,
          mutex,    \* cd_mutex is held over a step
          pc,       \* per thread: where it is
          op,       \* per thread: the call it is in
          deleter,  \* where rmf_osal_condDelete is
          late      \* history: threads not counted when it found cd_count = 0

vars == <<valid, cd_state, cd_count, mutex, pc, op, deleter, late>>

Waits == {"get", "timed"}
Ops == Waits \cup {"set", "unset"}
\* Threads that cd_count counts.
Inside == {"test", "sleep", "asleep", "woken", "late", "failed", "quit"}

\* rmf_osal_condDelete in its loop, and after it.
Looping == {"loop", "write", "signal"}
Past == {"destroy", "blocked", "refused", "free", "freed"}

TypeOK ==
    /\ valid \in BOOLEAN /\ cd_state \in BOOLEAN
    /\ cd_count \in 0 .. Cardinality(Threads)
    /\ mutex \in BOOLEAN
    /\ pc \in [Threads -> {"idle", "checked", "undefined"} \cup Inside]
    /\ op \in [Threads -> Ops]
    /\ deleter \in {"none"} \cup Looping \cup Past
    /\ late \subseteq Threads

\* rmf_osal_condNew
Init ==
    /\ valid = TRUE
    /\ cd_state \in BOOLEAN
    /\ cd_count = 0
    /\ mutex = FALSE
    /\ pc = [t \in Threads |-> "idle"]
    /\ op = [t \in Threads |-> "get"]
    /\ deleter = "none"
    /\ late = {}

-----------------------------------------------------------------------------

Asleep == {t \in Threads : pc[t] = "asleep"}
Go(t, place) == pc' = [pc EXCEPT ![t] = place]

\* pthread_cond_signal: one sleeper, if there is one, goes for the mutex.
Signal ==
    \/ Asleep = {} /\ UNCHANGED pc
    \/ \E t \in Asleep : Go(t, "woken")

\* The call finds a valid condition; RMF_OSAL_EINVAL changes nothing.
Call(t, o) ==
    /\ pc[t] = "idle" /\ valid
    /\ op' = [op EXCEPT ![t] = o]
    /\ Go(t, "checked")
    /\ UNCHANGED <<valid, cd_state, cd_count, mutex, deleter, late>>

\* Mutant of condSet: nobody is signalled.
condSetSilent(t) ==
    /\ pc[t] = "checked" /\ op[t] = "set" /\ ~mutex
    /\ cd_state' = TRUE
    /\ pc' = [pc EXCEPT ![t] = "idle"]
    /\ UNCHANGED <<valid, cd_count, mutex, op, deleter, late>>

condSet(t) ==
    /\ pc[t] = "checked" /\ op[t] = "set" /\ ~mutex
    /\ cd_state' = TRUE
    /\ \/ Asleep = {} /\ Go(t, "idle")
       \/ \E u \in Asleep : pc' = [pc EXCEPT ![t] = "idle", ![u] = "woken"]
    /\ UNCHANGED <<valid, cd_count, mutex, op, deleter, late>>

condUnset(t) ==
    /\ pc[t] = "checked" /\ op[t] = "unset" /\ ~mutex
    /\ cd_state' = FALSE
    /\ Go(t, "idle")
    /\ UNCHANGED <<valid, cd_count, mutex, op, deleter, late>>

-----------------------------------------------------------------------------
(* rmf_osal_condGet and rmf_osal_condWaitFor.                              *)

\* Mutant of Enter: the waiter is not counted.
EnterUncounted(t) ==
    /\ pc[t] = "checked" /\ op[t] \in Waits /\ ~mutex
    /\ mutex' = TRUE
    /\ Go(t, "test")
    /\ UNCHANGED <<valid, cd_state, cd_count, op, deleter, late>>

Enter(t) ==
    /\ pc[t] = "checked" /\ op[t] \in Waits /\ ~mutex
    /\ mutex' = TRUE
    /\ cd_count' = cd_count + 1
    /\ Go(t, "test")
    /\ UNCHANGED <<valid, cd_state, op, deleter, late>>

Leaves(t) ==
    /\ cd_count' = cd_count - 1
    /\ mutex' = FALSE
    /\ Go(t, "idle")
    /\ UNCHANGED <<valid, op, deleter, late>>

\* Mutant of Passes: the condition is not reset.
PassesWithoutReset(t) ==
    /\ pc[t] = "test" /\ cd_state
    /\ cd_state' = cd_state
    /\ Leaves(t)

Passes(t) ==
    /\ pc[t] = "test" /\ cd_state
    /\ cd_state' = ~AutoReset
    /\ Leaves(t)

MustWait(t) ==
    /\ pc[t] = "test" /\ ~cd_state
    /\ Go(t, "sleep")
    /\ UNCHANGED <<valid, cd_state, cd_count, mutex, op, deleter, late>>

\* pthread_cond_wait and pthread_cond_timedwait release the mutex.
Sleep(t) ==
    /\ pc[t] = "sleep"
    /\ mutex' = FALSE
    /\ Go(t, "asleep")
    /\ UNCHANGED <<valid, cd_state, cd_count, op, deleter, late>>

\* The absolute time has tv_nsec = 1000000000: EINVAL at once.
WaitFails(t) ==
    /\ pc[t] = "sleep" /\ op[t] = "timed"
    /\ Go(t, "failed")
    /\ UNCHANGED <<valid, cd_state, cd_count, mutex, op, deleter, late>>

TimesOut(t) ==
    /\ pc[t] = "asleep" /\ op[t] = "timed"
    /\ Go(t, "late")
    /\ UNCHANGED <<valid, cd_state, cd_count, mutex, op, deleter, late>>

\* A wait may end without a signal.
WakesAlone(t) ==
    /\ pc[t] = "asleep"
    /\ Go(t, "woken")
    /\ UNCHANGED <<valid, cd_state, cd_count, mutex, op, deleter, late>>

Reacquires(t) ==
    /\ pc[t] \in {"woken", "late"} /\ ~mutex
    /\ mutex' = TRUE
    /\ Go(t, IF pc[t] = "woken" THEN "test" ELSE "failed")
    /\ UNCHANGED <<valid, cd_state, cd_count, op, deleter, late>>

\* A timed wait that failed passes all the same if the state is TRUE now.
GivesUp(t) ==
    /\ pc[t] = "failed" /\ ~cd_state
    /\ Go(t, "quit")
    /\ UNCHANGED <<valid, cd_state, cd_count, mutex, op, deleter, late>>

\* The state it found FALSE is reset again: a deleter may have set it since.
Quits(t) ==
    /\ pc[t] = "quit"
    /\ cd_state' = (cd_state /\ ~AutoReset)
    /\ Leaves(t)

PassesLate(t) ==
    /\ pc[t] = "failed" /\ cd_state
    /\ cd_state' = ~AutoReset
    /\ Leaves(t)

-----------------------------------------------------------------------------
(* rmf_osal_condDelete, by a thread of its own.                            *)

DeleteMark ==
    /\ deleter = "none" /\ valid
    /\ valid' = FALSE
    /\ deleter' = "loop"
    /\ UNCHANGED <<cd_state, cd_count, mutex, pc, op, late>>

NotCounted == {t \in Threads : pc[t] = "checked"}

\* Mutant of DeleteTest: the waiters are not waited for.
DeleteTestNothing ==
    /\ deleter = "loop"
    /\ deleter' = "destroy"
    /\ late' = NotCounted
    /\ UNCHANGED <<valid, cd_state, cd_count, mutex, pc, op>>

DeleteTest ==
    /\ deleter = "loop"
    /\ \/ cd_count # 0 /\ deleter' = "write" /\ UNCHANGED late
       \/ cd_count = 0 /\ deleter' = "destroy" /\ late' = NotCounted
    /\ UNCHANGED <<valid, cd_state, cd_count, mutex, pc, op>>

\* Mutant of DeleteWrite: the waiters are signalled, the state is not set.
DeleteWriteNothing ==
    /\ deleter = "write"
    /\ deleter' = "signal"
    /\ UNCHANGED <<valid, cd_state, cd_count, mutex, pc, op, late>>

DeleteWrite ==
    /\ deleter = "write"
    /\ cd_state' = TRUE
    /\ deleter' = "signal"
    /\ UNCHANGED <<valid, cd_count, mutex, pc, op, late>>

DeleteSignal ==
    /\ deleter = "signal"
    /\ Signal
    /\ deleter' = "loop"
    /\ UNCHANGED <<valid, cd_state, cd_count, mutex, op, late>>

\* pthread_cond_destroy under the mutex.  With a thread asleep on the condition
\* its outcome is undefined: EBUSY, which keeps the memory, success, or a call
\* that waits for the sleepers, mutex held.
DeleteDestroy ==
    /\ deleter = "destroy" /\ ~mutex
    /\ deleter' \in IF Asleep = {} THEN {"free"} ELSE {"free", "refused", "blocked"}
    /\ mutex' = (deleter' = "blocked")
    /\ UNCHANGED <<valid, cd_state, cd_count, pc, op, late>>

DeleteUnblocks ==
    /\ deleter = "blocked" /\ Asleep = {}
    /\ deleter' = "free"
    /\ mutex' = FALSE
    /\ UNCHANGED <<valid, cd_state, cd_count, pc, op, late>>

\* The mutex and the condition go.
DeleteFree ==
    /\ deleter = "free"
    /\ deleter' = "freed"
    /\ UNCHANGED <<valid, cd_state, cd_count, mutex, pc, op, late>>

\* A thread in a call goes on with memory that is no longer the condition's.
Dangles(t) ==
    /\ deleter = "freed" /\ pc[t] \notin {"idle", "undefined"}
    /\ Go(t, "undefined")
    /\ UNCHANGED <<valid, cd_state, cd_count, mutex, op, deleter, late>>

-----------------------------------------------------------------------------

Step(t) ==
    /\ deleter # "freed"
    /\ \/ condSet(t) \/ condUnset(t)
       \/ Enter(t) \/ Passes(t) \/ MustWait(t) \/ Sleep(t) \/ Reacquires(t)
       \/ GivesUp(t) \/ Quits(t) \/ PassesLate(t)

\* What may happen to a wait and need not.
WaitEnds(t) ==
    /\ deleter # "freed"
    /\ WaitFails(t) \/ TimesOut(t) \/ WakesAlone(t)

Delete ==
    \/ DeleteTest \/ DeleteWrite \/ DeleteSignal
    \/ DeleteDestroy \/ DeleteUnblocks \/ DeleteFree

Next ==
    \/ \E t \in Threads :
          \/ \E o \in Ops : Call(t, o)
          \/ Step(t) \/ WaitEnds(t) \/ Dangles(t)
    \/ DeleteMark \/ Delete

\* Running threads run on, and pthread_mutex_lock returns when the mutex is
\* free often enough.  Nobody has to call, to time out or to wake alone.
Fairness ==
    /\ \A t \in Threads : SF_vars(Step(t))
    /\ SF_vars(Delete)

Spec == Init /\ [][Next]_vars
FairSpec == Spec /\ Fairness

-----------------------------------------------------------------------------
(* Properties.                                                             *)

\* condSet wakes one waiter.  With autoreset that is enough: as long as the
\* state is TRUE and a thread sleeps, another is on its way to test the state.
\* While rmf_osal_condDelete loops it sets the state itself and signals again;
\* afterwards it holds again, for the threads that came too late to be counted.
NoSleepOnSet ==
    cd_state /\ Asleep # {} /\ deleter \notin Looping \cup {"freed"} =>
        \E t \in Threads : pc[t] \in {"woken", "late", "test", "failed"}

\* What the loop of rmf_osal_condDelete achieves, reading cd_count and writing
\* cd_state without the mutex: whoever still uses the condition after it was
\* between the check of cd_id and the mutex when cd_count was read as 0.  Every
\* thread that was waiting has left, and no thread comes anew.
OnlyLateUsers ==
    deleter \in Past => \A t \in Threads : pc[t] # "idle" => t \in late

\* rmf_osal_condDelete: "we only need to worry about any threads that are
\* already in one of the rmf_osal_cond APIs (having verified a valid condition
\* object).  To overcome this situation, any threads will be activated until
\* there are no owners": when the memory goes no thread is in a call.
NoUseAfterFree == deleter = "freed" => \A t \in Threads : pc[t] = "idle"

\* The condition is a gate: a thread passes only when it is set, at most one
\* for each time an autoreset one is set, and one does while it stays set.  The
\* deletion removes the gate when nobody waits at it.
Gate == INSTANCE CondGate WITH
            set <- cd_state, waiting <- {t \in Threads : pc[t] \in Inside \ {"quit"}},
            gone <- deleter \in Past
GateSpec == Gate!Spec

\* rmf_osal_condDelete returns, although it signals without the mutex, a signal
\* may come between a waiter's test and its wait, and threads still come in; if
\* not, pthread_cond_destroy waits for one that came after the loop and sleeps.
DeletionEnds ==
    deleter = "loop" ~> \/ deleter \in {"freed", "refused"}
                        \/ deleter = "blocked" /\ Asleep # {}
=============================================================================
