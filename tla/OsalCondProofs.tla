--------------------------- MODULE OsalCondProofs ---------------------------
(***************************************************************************)
(* Proofs about one OSAL condition, for any finite set of threads: its     *)
(* types, that an autoreset condition strands no waiter, that a deletion   *)
(* outlives every thread it can count, and that the condition implements   *)
(* the gate.                                                               *)
(***************************************************************************)
EXTENDS OsalCond, FiniteSetTheorems, TLAPS

\* The threads cd_count stands for, and those that hold cd_mutex.
In == {t \in Threads : pc[t] \in Inside}
Holding == {"test", "sleep", "failed", "quit"}

Places == {"idle", "checked", "undefined"} \cup Inside

\* Every variable has its type; cd_count is unbounded here, CountIsInside bounds it.
Types ==
    /\ valid \in BOOLEAN /\ cd_state \in BOOLEAN
    /\ cd_count \in Int
    /\ mutex \in BOOLEAN
    /\ pc \in [Threads -> Places]
    /\ op \in [Threads -> Ops]
    /\ deleter \in {"none"} \cup Looping \cup Past
    /\ late \subseteq Threads

\* cd_count counts the threads between Enter and Leaves, as long as there is one.
CountIsInside ==
    /\ deleter # "freed" => cd_count = Cardinality(In)
    /\ cd_count \in 0 .. Cardinality(Threads)

\* One thread at most is in the critical section, and mutex says whether one is;
\* none is while pthread_cond_destroy waits with the mutex.
Exclusion ==
    /\ \A t \in Threads : pc[t] \in Holding => mutex
    /\ \A t, u \in Threads : pc[t] \in Holding /\ pc[u] \in Holding => t = u
    /\ deleter = "blocked" => mutex /\ \A t \in Threads : pc[t] \notin Holding

\* A deletion invalidates the condition, so nobody comes anew; what a thread does is
\* undefined only once the memory is gone.
NobodyComes ==
    /\ valid <=> deleter = "none"
    /\ deleter # "freed" => \A t \in Threads : pc[t] # "undefined"

\* A thread that found the state FALSE and keeps the mutex still finds it so, unless
\* a deletion writes without the mutex.
WaitsOnFalse ==
    deleter \notin Looping \cup {"freed"} =>
        \A t \in Threads : pc[t] \in {"sleep", "quit"} => ~cd_state

-----------------------------------------------------------------------------
LEMMA LeavesTypes ==
    ASSUME Types, NEW t \in Threads, Leaves(t), cd_state' \in BOOLEAN
    PROVE  Types'
<1> USE DEF Types, Leaves
<1>1. valid' \in BOOLEAN /\ mutex' \in BOOLEAN
  OBVIOUS
<1>2. cd_count' \in Int
  OBVIOUS
<1>3. pc' \in [Threads -> Places] /\ op' \in [Threads -> Ops]
  BY DEF Go, Places
<1>4. deleter' \in {"none"} \cup Looping \cup Past /\ late' \subseteq Threads
  OBVIOUS
<1> QED
  BY <1>1, <1>2, <1>3, <1>4, Zenon

LEMMA TypesStep == Types /\ [Next]_vars => Types'
<1> SUFFICES ASSUME Types, [Next]_vars
             PROVE  Types'
  OBVIOUS
<1> USE CondConstants DEF Types, Places, Inside, Ops, Waits, Go, Looping, Past
<1>1. ASSUME NEW t \in Threads, NEW o \in Ops, Call(t, o)
      PROVE  Types'
  BY <1>1 DEF Call
<1>2. ASSUME NEW t \in Threads, condSet(t)
      PROVE  Types'
  BY <1>2 DEF condSet, Asleep
<1>3. ASSUME NEW t \in Threads, condUnset(t)
      PROVE  Types'
  BY <1>3 DEF condUnset
<1>4. ASSUME NEW t \in Threads, Enter(t)
      PROVE  Types'
  BY <1>4 DEF Enter
<1>5. ASSUME NEW t \in Threads, MustWait(t)
      PROVE  Types'
  BY <1>5 DEF MustWait
<1>6. ASSUME NEW t \in Threads, Sleep(t)
      PROVE  Types'
  BY <1>6 DEF Sleep
<1>7. ASSUME NEW t \in Threads, Reacquires(t)
      PROVE  Types'
  BY <1>7 DEF Reacquires
<1>8. ASSUME NEW t \in Threads, Passes(t)
      PROVE  Types'
  <2>1. cd_state' \in BOOLEAN
    BY <1>8, Zenon DEF Passes
  <2>2. Leaves(t)
    BY <1>8 DEF Passes
  <2> QED
    BY <2>1, <2>2, LeavesTypes
<1>9. ASSUME NEW t \in Threads, Quits(t)
      PROVE  Types'
  <2>1. cd_state' \in BOOLEAN
    BY <1>9, Zenon DEF Quits
  <2>2. Leaves(t)
    BY <1>9 DEF Quits
  <2> QED
    BY <2>1, <2>2, LeavesTypes
<1>10. ASSUME NEW t \in Threads, PassesLate(t)
      PROVE  Types'
  <2>1. cd_state' \in BOOLEAN
    BY <1>10, Zenon DEF PassesLate
  <2>2. Leaves(t)
    BY <1>10 DEF PassesLate
  <2> QED
    BY <2>1, <2>2, LeavesTypes
<1>11. ASSUME NEW t \in Threads, GivesUp(t)
      PROVE  Types'
  BY <1>11 DEF GivesUp
<1>12. ASSUME NEW t \in Threads, WaitFails(t)
      PROVE  Types'
  BY <1>12 DEF WaitFails
<1>13. ASSUME NEW t \in Threads, TimesOut(t)
      PROVE  Types'
  BY <1>13 DEF TimesOut
<1>14. ASSUME NEW t \in Threads, WakesAlone(t)
      PROVE  Types'
  BY <1>14 DEF WakesAlone
<1>15. CASE DeleteMark
  BY <1>15 DEF DeleteMark
<1>16. CASE DeleteSignal
  BY <1>16 DEF DeleteSignal, Signal, Asleep
<1>17. CASE DeleteTest \/ DeleteWrite
  BY <1>17 DEF DeleteTest, DeleteWrite, NotCounted
<1>18. CASE UNCHANGED vars
  BY <1>18 DEF vars
<1>19. CASE DeleteDestroy \/ DeleteUnblocks \/ DeleteFree
  BY <1>19 DEF DeleteDestroy, DeleteUnblocks, DeleteFree
<1>20. ASSUME NEW t \in Threads, Dangles(t)
       PROVE  Types'
  BY <1>20 DEF Dangles
<1> QED
  BY <1>1, <1>2, <1>3, <1>4, <1>5, <1>6, <1>7, <1>8, <1>9, <1>10, <1>11, <1>12, <1>13, <1>14, <1>15, <1>16, <1>17, <1>18, <1>19, <1>20
  DEF Next, Step, WaitEnds, Delete

LEMMA ExclusionStep == Types /\ Exclusion /\ [Next]_vars => Exclusion'
<1> SUFFICES ASSUME Types, Exclusion, [Next]_vars
             PROVE  Exclusion'
  OBVIOUS
<1> USE DEF Types, Places, Exclusion, Holding, Inside, Go
<1>1. ASSUME NEW t \in Threads, NEW o \in Ops, Call(t, o)
      PROVE  Exclusion'
  BY <1>1 DEF Call
<1>2. ASSUME NEW t \in Threads, condSet(t)
      PROVE  Exclusion'
  BY <1>2 DEF condSet, Asleep
<1>3. ASSUME NEW t \in Threads, condUnset(t)
      PROVE  Exclusion'
  BY <1>3 DEF condUnset
<1>4. ASSUME NEW t \in Threads, Enter(t)
      PROVE  Exclusion'
  BY <1>4 DEF Enter
<1>5. ASSUME NEW t \in Threads, MustWait(t)
      PROVE  Exclusion'
  BY <1>5 DEF MustWait
<1>6. ASSUME NEW t \in Threads, Sleep(t)
      PROVE  Exclusion'
  BY <1>6 DEF Sleep
<1>7. ASSUME NEW t \in Threads, Reacquires(t)
      PROVE  Exclusion'
  BY <1>7 DEF Reacquires
<1>8. ASSUME NEW t \in Threads, Passes(t)
      PROVE  Exclusion'
  BY <1>8 DEF Passes, Leaves
<1>9. ASSUME NEW t \in Threads, Quits(t)
      PROVE  Exclusion'
  BY <1>9 DEF Quits, Leaves
<1>10. ASSUME NEW t \in Threads, PassesLate(t)
      PROVE  Exclusion'
  BY <1>10 DEF PassesLate, Leaves
<1>11. ASSUME NEW t \in Threads, GivesUp(t)
      PROVE  Exclusion'
  BY <1>11 DEF GivesUp
<1>12. ASSUME NEW t \in Threads, WaitFails(t)
      PROVE  Exclusion'
  BY <1>12 DEF WaitFails
<1>13. ASSUME NEW t \in Threads, TimesOut(t)
      PROVE  Exclusion'
  BY <1>13 DEF TimesOut
<1>14. ASSUME NEW t \in Threads, WakesAlone(t)
      PROVE  Exclusion'
  BY <1>14 DEF WakesAlone
<1>15. CASE DeleteMark
  BY <1>15 DEF DeleteMark
<1>16. CASE DeleteSignal
  BY <1>16 DEF DeleteSignal, Signal, Asleep
<1>17. CASE DeleteTest \/ DeleteWrite
  BY <1>17 DEF DeleteTest, DeleteWrite, NotCounted
<1>18. CASE UNCHANGED vars
  BY <1>18 DEF vars
<1>19. CASE DeleteDestroy \/ DeleteUnblocks \/ DeleteFree
  BY <1>19 DEF DeleteDestroy, DeleteUnblocks, DeleteFree
<1>20. ASSUME NEW t \in Threads, Dangles(t)
       PROVE  Exclusion'
  BY <1>20 DEF Dangles
<1> QED
  BY <1>1, <1>2, <1>3, <1>4, <1>5, <1>6, <1>7, <1>8, <1>9, <1>10, <1>11, <1>12, <1>13, <1>14, <1>15, <1>16, <1>17, <1>18, <1>19, <1>20
  DEF Next, Step, WaitEnds, Delete

(***************************************************************************)
(* Threads that come in are counted once, threads that leave are counted   *)
(* off once, and no other step moves a thread in or out while cd_count     *)
(* exists.                                                                 *)
(***************************************************************************)
LEMMA InsideFinite ==
    /\ IsFiniteSet(In) /\ Cardinality(In) \in Nat
    /\ Cardinality(Threads) \in Nat /\ Cardinality(In) <= Cardinality(Threads)
  BY CondConstants, FS_Subset, FS_CardinalityType DEF In

LEMMA CountedIsBounded ==
    ASSUME cd_count' = Cardinality(In')
    PROVE  CountIsInside'
<1>1. In' \in SUBSET Threads
  BY DEF In
<1>2. Cardinality(In') \in Nat /\ Cardinality(Threads) \in Nat /\ Cardinality(In') <= Cardinality(Threads)
  BY <1>1, CondConstants, FS_Subset, FS_CardinalityType
<1> QED
  BY <1>2 DEF CountIsInside

LEMMA CountStep == Types /\ CountIsInside /\ [Next]_vars => CountIsInside'
<1> SUFFICES ASSUME Types, CountIsInside, [Next]_vars
             PROVE  CountIsInside'
  OBVIOUS
<1> USE DEF Types, Places, Go
<1>1. ASSUME NEW t \in Threads, deleter # "freed", Enter(t)
      PROVE  CountIsInside'
  <2>1. In' = In \cup {t} /\ t \notin In
    BY <1>1 DEF Enter, In, Inside
  <2>2. Cardinality(In') = Cardinality(In) + 1
    BY <2>1, InsideFinite, FS_AddElement
  <2> QED
    BY <1>1, <2>2, CountedIsBounded DEF Enter, CountIsInside
<1>2. ASSUME NEW t \in Threads, deleter # "freed", Leaves(t), pc[t] \in Inside
      PROVE  CountIsInside'
  <2>1. In' = In \ {t} /\ t \in In
    BY <1>2 DEF Leaves, In, Inside
  <2>2. Cardinality(In') = Cardinality(In) - 1
    BY <2>1, InsideFinite, FS_RemoveElement
  <2> QED
    BY <1>2, <2>2, CountedIsBounded DEF Leaves, CountIsInside
<1>3. ASSUME In' = In, cd_count' = cd_count, deleter' = "freed" \/ deleter # "freed"
      PROVE  CountIsInside'
  BY <1>3 DEF CountIsInside
<1>4. ASSUME NEW t \in Threads, deleter # "freed", Passes(t) \/ Quits(t) \/ PassesLate(t)
      PROVE  CountIsInside'
  BY <1>2, <1>4 DEF Passes, Quits, PassesLate, Inside
<1>5. ASSUME NEW t \in Threads, NEW o \in Ops, Call(t, o)
      PROVE  CountIsInside'
  BY <1>3, <1>5 DEF Call, In, Inside
<1>6. ASSUME NEW t \in Threads, deleter # "freed", condSet(t) \/ condUnset(t)
      PROVE  CountIsInside'
  BY <1>3, <1>6 DEF condSet, condUnset, Asleep, In, Inside
<1>7. ASSUME NEW t \in Threads, deleter # "freed",
             MustWait(t) \/ Sleep(t) \/ Reacquires(t) \/ GivesUp(t)
      PROVE  CountIsInside'
  BY <1>3, <1>7 DEF MustWait, Sleep, Reacquires, GivesUp, In, Inside
<1>8. ASSUME NEW t \in Threads, WaitEnds(t)
      PROVE  CountIsInside'
  BY <1>3, <1>8 DEF WaitEnds, WaitFails, TimesOut, WakesAlone, In, Inside
<1>9. CASE DeleteSignal
  BY <1>3, <1>9 DEF DeleteSignal, Signal, Asleep, In, Inside
<1>10. CASE DeleteMark \/ DeleteTest \/ DeleteWrite
  BY <1>3, <1>10 DEF DeleteMark, DeleteTest, DeleteWrite, In
<1>11. CASE DeleteDestroy \/ DeleteUnblocks \/ DeleteFree
  BY <1>3, <1>11 DEF DeleteDestroy, DeleteUnblocks, DeleteFree, In
<1>12. ASSUME NEW t \in Threads, Dangles(t)
       PROVE  CountIsInside'
  BY <1>12 DEF Dangles, CountIsInside
<1>13. CASE UNCHANGED vars
  BY <1>3, <1>13 DEF vars, In
<1> QED
  BY <1>1, <1>4, <1>5, <1>6, <1>7, <1>8, <1>9, <1>10, <1>11, <1>12, <1>13
  DEF Next, Step, Delete

LEMMA InitCounts == Init => Types /\ CountIsInside
<1> SUFFICES ASSUME Init PROVE Types /\ CountIsInside
  OBVIOUS
<1> USE DEF Init
<1>1. In = {}
  BY DEF In, Inside
<1>2. CountIsInside
  BY <1>1, FS_EmptySet, InsideFinite DEF CountIsInside
<1>3. pc \in [Threads -> Places] /\ op \in [Threads -> Ops]
  BY DEF Ops, Waits, Places
<1>4. cd_count \in Int /\ late \subseteq Threads
  OBVIOUS
<1>5. valid \in BOOLEAN /\ cd_state \in BOOLEAN /\ mutex \in BOOLEAN
  BY Zenon
<1>6. deleter \in {"none"} \cup Looping \cup Past
  OBVIOUS
<1> QED
  BY <1>2, <1>3, <1>4, <1>5, <1>6, Zenon DEF Types

(***************************************************************************)
(* The variables of a condition keep their types; in particular cd_count   *)
(* is never negative and never above the number of threads.                *)
(***************************************************************************)
THEOREM CondTypes == Spec => []TypeOK
<1>1. Types /\ CountIsInside => TypeOK
  BY DEF Types, Places, CountIsInside, TypeOK
<1> QED
  BY <1>1, InitCounts, TypesStep, CountStep, PTL DEF Spec

-----------------------------------------------------------------------------
(***************************************************************************)
(* The deletion: once it is marked nobody comes, and when cd_count is read *)
(* as 0 nobody is inside.  Whoever is in a call then has not been counted. *)
(***************************************************************************)
LEMMA NobodyInside ==
    ASSUME Types, CountIsInside, DeleteTest, cd_count = 0
    PROVE  \A t \in Threads : pc[t] \notin Inside
<1>1. deleter # "freed"
  BY DEF DeleteTest
<1>2. In = {}
  BY <1>1, InsideFinite, FS_EmptySet DEF CountIsInside
<1> QED
  BY <1>2 DEF In

LEMMA NobodyComesStep == Types /\ NobodyComes /\ [Next]_vars => NobodyComes'
<1> SUFFICES ASSUME Types, NobodyComes, [Next]_vars
             PROVE  NobodyComes'
  OBVIOUS
<1> USE DEF Types, NobodyComes, Go
<1>1. ASSUME NEW t \in Threads, NEW o \in Ops, Call(t, o)
      PROVE  NobodyComes'
  BY <1>1 DEF Call
<1>2. ASSUME NEW t \in Threads, condSet(t) \/ condUnset(t)
      PROVE  NobodyComes'
  BY <1>2 DEF condSet, condUnset, Asleep
<1>3. ASSUME NEW t \in Threads, Enter(t) \/ MustWait(t) \/ Sleep(t) \/ Reacquires(t) \/ GivesUp(t)
      PROVE  NobodyComes'
  BY <1>3 DEF Enter, MustWait, Sleep, Reacquires, GivesUp
<1>4. ASSUME NEW t \in Threads, Leaves(t)
      PROVE  NobodyComes'
  BY <1>4 DEF Leaves
<1>5. ASSUME NEW t \in Threads, WaitFails(t) \/ TimesOut(t) \/ WakesAlone(t)
      PROVE  NobodyComes'
  BY <1>5 DEF WaitFails, TimesOut, WakesAlone
<1>6. CASE DeleteMark \/ DeleteTest \/ DeleteWrite
  BY <1>6 DEF DeleteMark, DeleteTest, DeleteWrite
<1>7. CASE DeleteSignal
  BY <1>7 DEF DeleteSignal, Signal, Asleep
<1>8. CASE DeleteDestroy \/ DeleteUnblocks \/ DeleteFree
  BY <1>8 DEF DeleteDestroy, DeleteUnblocks, DeleteFree
<1>9. ASSUME NEW t \in Threads, Dangles(t)
      PROVE  NobodyComes'
  BY <1>9 DEF Dangles
<1>10. CASE UNCHANGED vars
  BY <1>10 DEF vars
<1> QED
  BY <1>1, <1>2, <1>3, <1>4, <1>5, <1>6, <1>7, <1>8, <1>9, <1>10
  DEF Next, Step, WaitEnds, Delete, Passes, Quits, PassesLate

LEMMA OnlyLateStep ==
    Types /\ CountIsInside /\ NobodyComes /\ OnlyLateUsers /\ [Next]_vars => OnlyLateUsers'
<1> SUFFICES ASSUME Types, CountIsInside, NobodyComes, OnlyLateUsers, [Next]_vars
             PROVE  OnlyLateUsers'
  OBVIOUS
<1> USE DEF Types, OnlyLateUsers, Past, Go
<1>1. ASSUME NEW t \in Threads, NEW o \in Ops, Call(t, o)
      PROVE  OnlyLateUsers'
  BY <1>1 DEF Call, NobodyComes
<1>2. ASSUME NEW t \in Threads, condSet(t) \/ condUnset(t)
      PROVE  OnlyLateUsers'
  BY <1>2 DEF condSet, condUnset, Asleep
<1>3. ASSUME NEW t \in Threads, Enter(t) \/ MustWait(t) \/ Sleep(t) \/ Reacquires(t) \/ GivesUp(t)
      PROVE  OnlyLateUsers'
  BY <1>3 DEF Enter, MustWait, Sleep, Reacquires, GivesUp
<1>4. ASSUME NEW t \in Threads, Leaves(t)
      PROVE  OnlyLateUsers'
  BY <1>4 DEF Leaves
<1>5. ASSUME NEW t \in Threads, WaitFails(t) \/ TimesOut(t) \/ WakesAlone(t)
      PROVE  OnlyLateUsers'
  BY <1>5 DEF WaitFails, TimesOut, WakesAlone
<1>6. CASE DeleteTest
  <2>1. deleter = "loop" /\ pc' = pc
    BY <1>6 DEF DeleteTest
  <2>2. CASE cd_count # 0
    BY <1>6, <2>2 DEF DeleteTest
  <2>3. CASE cd_count = 0
    <3>1. \A t \in Threads : pc[t] \in {"idle", "checked"}
      BY <1>6, <2>1, <2>3, NobodyInside DEF NobodyComes, Places
    <3>2. late' = NotCounted
      BY <1>6, <2>3 DEF DeleteTest
    <3> QED
      BY <2>1, <3>1, <3>2 DEF NotCounted
  <2> QED
    BY <2>2, <2>3
<1>7. CASE DeleteMark \/ DeleteWrite
  BY <1>7 DEF DeleteMark, DeleteWrite
<1>8. CASE DeleteSignal
  BY <1>8 DEF DeleteSignal, Signal, Asleep
<1>9. CASE DeleteDestroy \/ DeleteUnblocks \/ DeleteFree
  BY <1>9 DEF DeleteDestroy, DeleteUnblocks, DeleteFree
<1>10. ASSUME NEW t \in Threads, Dangles(t)
       PROVE  OnlyLateUsers'
  BY <1>10 DEF Dangles
<1>11. CASE UNCHANGED vars
  BY <1>11 DEF vars
<1> QED
  BY <1>1, <1>2, <1>3, <1>4, <1>5, <1>6, <1>7, <1>8, <1>9, <1>10, <1>11
  DEF Next, Step, WaitEnds, Delete, Passes, Quits, PassesLate

(***************************************************************************)
(* Whoever is in a call of the interface after the loop of rmf_osal_       *)
(* condDelete was between the check of cd_id and the mutex when the loop   *)
(* read cd_count as 0: the threads that waited have all left, although     *)
(* cd_count is read and cd_state written without the mutex.  Any number of *)
(* threads, any calls, no assumption on when the deletion begins.          *)
(***************************************************************************)
THEOREM CondOnlyLateUsers == Spec => []OnlyLateUsers
<1> DEFINE IInv == Types /\ CountIsInside /\ NobodyComes /\ OnlyLateUsers
<1>1. Init => NobodyComes /\ OnlyLateUsers
  BY DEF Init, NobodyComes, OnlyLateUsers, Past
<1>2. IInv /\ [Next]_vars => IInv'
  BY TypesStep, CountStep, NobodyComesStep, OnlyLateStep
<1> QED
  BY <1>1, <1>2, InitCounts, PTL DEF Spec

-----------------------------------------------------------------------------
(***************************************************************************)
(* Waking one thread is enough for an autoreset condition.                 *)
(***************************************************************************)
LEMMA WaitsOnFalseStep ==
    AutoReset /\ Types /\ CountIsInside /\ Exclusion /\ WaitsOnFalse /\ [Next]_vars
        => WaitsOnFalse'
<1> SUFFICES ASSUME AutoReset, Types, CountIsInside, Exclusion, WaitsOnFalse, [Next]_vars
             PROVE  WaitsOnFalse'
  OBVIOUS
<1> USE DEF Types, Exclusion, WaitsOnFalse, Holding, Looping, Go
<1>1. ASSUME NEW t \in Threads, NEW o \in Ops, Call(t, o)
      PROVE  WaitsOnFalse'
  BY <1>1 DEF Call
<1>2. ASSUME NEW t \in Threads, condSet(t)
      PROVE  WaitsOnFalse'
  BY <1>2 DEF condSet, Asleep
<1>3. ASSUME NEW t \in Threads, condUnset(t)
      PROVE  WaitsOnFalse'
  BY <1>3 DEF condUnset
<1>4. ASSUME NEW t \in Threads, Enter(t) \/ MustWait(t) \/ Sleep(t) \/ Reacquires(t)
      PROVE  WaitsOnFalse'
  BY <1>4 DEF Enter, MustWait, Sleep, Reacquires
<1>5. ASSUME NEW t \in Threads, Passes(t) \/ Quits(t) \/ PassesLate(t)
      PROVE  WaitsOnFalse'
  BY <1>5 DEF Passes, Quits, PassesLate, Leaves
<1>6. ASSUME NEW t \in Threads, GivesUp(t) \/ WaitFails(t) \/ TimesOut(t) \/ WakesAlone(t)
      PROVE  WaitsOnFalse'
  BY <1>6 DEF GivesUp, WaitFails, TimesOut, WakesAlone
<1>7. CASE DeleteTest
  <2>1. CASE cd_count # 0
    BY <1>7, <2>1 DEF DeleteTest
  <2>2. CASE cd_count = 0
    <3>1. \A t \in Threads : pc[t] \notin Inside
      BY <1>7, <2>2, NobodyInside
    <3> QED
      BY <1>7, <3>1 DEF DeleteTest, Inside
  <2> QED
    BY <2>1, <2>2
<1>8. CASE DeleteMark \/ DeleteWrite \/ DeleteSignal
  BY <1>8 DEF DeleteMark, DeleteWrite, DeleteSignal, Signal, Asleep
<1>9. CASE DeleteDestroy \/ DeleteUnblocks \/ DeleteFree
  BY <1>9 DEF DeleteDestroy, DeleteUnblocks, DeleteFree
<1>10. ASSUME NEW t \in Threads, Dangles(t)
       PROVE  WaitsOnFalse'
  BY <1>10 DEF Dangles
<1>11. CASE UNCHANGED vars
  BY <1>11 DEF vars
<1> QED
  BY <1>1, <1>2, <1>3, <1>4, <1>5, <1>6, <1>7, <1>8, <1>9, <1>10, <1>11
  DEF Next, Step, WaitEnds, Delete

LEMMA NoSleepOnSetStep ==
    AutoReset /\ Types /\ CountIsInside /\ WaitsOnFalse /\ NoSleepOnSet /\ [Next]_vars
        => NoSleepOnSet'
<1> SUFFICES ASSUME AutoReset, Types, CountIsInside, WaitsOnFalse, NoSleepOnSet, [Next]_vars
             PROVE  NoSleepOnSet'
  OBVIOUS
<1> USE DEF Types, WaitsOnFalse, NoSleepOnSet, Looping, Go, Asleep
<1>1. ASSUME NEW t \in Threads, NEW o \in Ops, Call(t, o)
      PROVE  NoSleepOnSet'
  BY <1>1 DEF Call
<1>2. ASSUME NEW t \in Threads, condSet(t)
      PROVE  NoSleepOnSet'
  BY <1>2 DEF condSet
<1>3. ASSUME NEW t \in Threads, condUnset(t)
      PROVE  NoSleepOnSet'
  BY <1>3 DEF condUnset
<1>4. ASSUME NEW t \in Threads, Enter(t) \/ MustWait(t) \/ Sleep(t) \/ Reacquires(t)
      PROVE  NoSleepOnSet'
  BY <1>4 DEF Enter, MustWait, Sleep, Reacquires
<1>5. ASSUME NEW t \in Threads, Passes(t) \/ Quits(t) \/ PassesLate(t)
      PROVE  NoSleepOnSet'
  BY <1>5 DEF Passes, Quits, PassesLate, Leaves
<1>6. ASSUME NEW t \in Threads, GivesUp(t) \/ WaitFails(t) \/ TimesOut(t) \/ WakesAlone(t)
      PROVE  NoSleepOnSet'
  BY <1>6 DEF GivesUp, WaitFails, TimesOut, WakesAlone
<1>7. CASE DeleteTest
  <2>1. CASE cd_count # 0
    BY <1>7, <2>1 DEF DeleteTest
  <2>2. CASE cd_count = 0
    <3>1. \A t \in Threads : pc[t] \notin Inside
      BY <1>7, <2>2, NobodyInside
    <3> QED
      BY <1>7, <3>1 DEF DeleteTest, Inside
  <2> QED
    BY <2>1, <2>2
<1>8. CASE DeleteMark \/ DeleteWrite \/ DeleteSignal
  BY <1>8 DEF DeleteMark, DeleteWrite, DeleteSignal, Signal, Asleep
<1>9. CASE DeleteDestroy \/ DeleteUnblocks \/ DeleteFree
  BY <1>9 DEF DeleteDestroy, DeleteUnblocks, DeleteFree
<1>10. ASSUME NEW t \in Threads, Dangles(t)
       PROVE  NoSleepOnSet'
  BY <1>10 DEF Dangles
<1>11. CASE UNCHANGED vars
  BY <1>11 DEF vars
<1> QED
  BY <1>1, <1>2, <1>3, <1>4, <1>5, <1>6, <1>7, <1>8, <1>9, <1>10, <1>11
  DEF Next, Step, WaitEnds, Delete

(***************************************************************************)
(* No wake-up of an autoreset condition is lost: rmf_osal_condSet signals  *)
(* one waiter only, and a waiter that was signalled may find the state     *)
(* taken by a thread that came later, or may have timed out.               *)
(***************************************************************************)
THEOREM CondNoSleepOnSet ==
    ASSUME AutoReset
    PROVE  Spec => []NoSleepOnSet
<1> DEFINE IInv == Types /\ CountIsInside /\ Exclusion /\ WaitsOnFalse /\ NoSleepOnSet
<1>1. Init => Exclusion /\ WaitsOnFalse /\ NoSleepOnSet
  BY DEF Init, Exclusion, WaitsOnFalse, NoSleepOnSet, Asleep, Holding
<1>2. IInv /\ [Next]_vars => IInv'
  BY TypesStep, CountStep, ExclusionStep, WaitsOnFalseStep, NoSleepOnSetStep
<1> QED
  BY <1>1, <1>2, InitCounts, PTL DEF Spec

-----------------------------------------------------------------------------
(***************************************************************************)
(* Every step of the condition is a step of the gate, or leaves it alone.  *)
(***************************************************************************)
Waiting == {t \in Threads : pc[t] \in Inside \ {"quit"}}

LEMMA GateUnmoved ==
    ASSUME cd_state' = cd_state, Waiting' = Waiting,
           deleter' \in Past <=> deleter \in Past
    PROVE  [Gate!Next]_(Gate!gate)
  BY DEF Gate!gate, Waiting

LEMMA GateStep == Types /\ CountIsInside /\ [Next]_vars => [Gate!Next]_(Gate!gate)
<1> SUFFICES ASSUME Types, CountIsInside, [Next]_vars
             PROVE  [Gate!Next]_(Gate!gate)
  OBVIOUS
<1> USE DEF Types, Places, Inside, Go
<1>1. ASSUME NEW t \in Threads, condSet(t)
      PROVE  Gate!Set
  BY <1>1 DEF condSet, Asleep, Gate!Set
<1>2. ASSUME NEW t \in Threads, condUnset(t)
      PROVE  Gate!Unset
  BY <1>2 DEF condUnset, Gate!Unset
<1>3. ASSUME NEW t \in Threads, Enter(t)
      PROVE  Gate!Arrive(t)
  BY <1>3 DEF Enter, Gate!Arrive
<1>4. ASSUME NEW t \in Threads, Passes(t) \/ PassesLate(t)
      PROVE  Gate!Pass(t)
  BY <1>4 DEF Passes, PassesLate, Leaves, Gate!Pass
<1>5. ASSUME NEW t \in Threads, GivesUp(t)
      PROVE  Gate!GiveUp(t)
  BY <1>5 DEF GivesUp, Gate!GiveUp
<1>6. ASSUME NEW t \in Threads, Quits(t)
      PROVE  Gate!Unset \/ UNCHANGED Gate!gate
  <2>1. Waiting' = Waiting /\ deleter' = deleter
    BY <1>6 DEF Quits, Leaves, Waiting
  <2>2. cd_state' = FALSE \/ cd_state' = cd_state
    BY <1>6, Zenon DEF Quits
  <2> QED
    BY <2>1, <2>2 DEF Waiting, Gate!Unset, Gate!gate
<1>7. CASE DeleteWrite
  <2>1. Gate!Set
    BY <1>7 DEF DeleteWrite, Gate!Set, Past
  <2> QED
    BY <2>1 DEF Gate!Next
<1>8. ASSUME NEW t \in Threads, NEW o \in Ops, Call(t, o)
      PROVE  [Gate!Next]_(Gate!gate)
  BY <1>8, GateUnmoved DEF Call, Waiting
<1>9. ASSUME NEW t \in Threads, MustWait(t) \/ Sleep(t) \/ Reacquires(t)
      PROVE  [Gate!Next]_(Gate!gate)
  BY <1>9, GateUnmoved DEF MustWait, Sleep, Reacquires, Waiting
<1>10. ASSUME NEW t \in Threads, WaitFails(t) \/ TimesOut(t) \/ WakesAlone(t)
       PROVE  [Gate!Next]_(Gate!gate)
  BY <1>10, GateUnmoved DEF WaitFails, TimesOut, WakesAlone, Waiting
<1>11. CASE DeleteSignal
  BY <1>11, GateUnmoved DEF DeleteSignal, Signal, Asleep, Waiting, Past
<1>12. CASE DeleteMark \/ DeleteDestroy \/ DeleteUnblocks \/ DeleteFree \/ UNCHANGED vars
  BY <1>12, GateUnmoved
  DEF DeleteMark, DeleteDestroy, DeleteUnblocks, DeleteFree, vars, Waiting, Past
<1>13. CASE DeleteTest
  <2>1. CASE cd_count # 0
    BY <1>13, <2>1, GateUnmoved DEF DeleteTest, Waiting, Past
  <2>2. CASE cd_count = 0
    <3>1. Waiting = {}
      BY <1>13, <2>2, NobodyInside DEF Waiting
    <3>2. Waiting' = Waiting /\ cd_state' = cd_state
      BY <1>13 DEF DeleteTest, Waiting
    <3>3. deleter \notin Past /\ deleter' \in Past
      BY <1>13, <2>2 DEF DeleteTest, Past
    <3>4. Gate!Remove
      BY <3>1, <3>2, <3>3 DEF Gate!Remove, Waiting
    <3> QED
      BY <3>4 DEF Gate!Next
  <2> QED
    BY <2>1, <2>2
<1>14. ASSUME NEW t \in Threads, Dangles(t)
       PROVE  [Gate!Next]_(Gate!gate)
  <2>1. cd_state' = cd_state /\ deleter' = deleter /\ deleter \in Past
    BY <1>14 DEF Dangles, Past
  <2>2. Waiting' = Waiting \ {t}
    BY <1>14 DEF Dangles, Waiting
  <2>3. CASE t \in Waiting
    <3>1. Gate!Abandon(t)
      BY <2>1, <2>2, <2>3 DEF Gate!Abandon, Waiting
    <3> QED
      BY <3>1 DEF Gate!Next
  <2>4. CASE t \notin Waiting
    BY <2>1, <2>2, <2>4, GateUnmoved
  <2> QED
    BY <2>3, <2>4
<1>15. ASSUME NEW t \in Threads, Step(t)
       PROVE  [Gate!Next]_(Gate!gate)
  BY <1>1, <1>2, <1>3, <1>4, <1>5, <1>6, <1>9, <1>15 DEF Step, Gate!Next
<1> QED
  BY <1>7, <1>8, <1>10, <1>11, <1>12, <1>13, <1>14, <1>15 DEF Next, WaitEnds, Delete

(***************************************************************************)
(* The condition implements the gate: a thread gets through rmf_osal_      *)
(* condGet or condWaitFor only when the state is TRUE, takes it with it    *)
(* under autoreset, and a timed wait gives up only while it is FALSE; a    *)
(* deletion opens the gate, and removes it only when nobody waits at it.   *)
(***************************************************************************)
THEOREM CondImplementsGate == Spec => Gate!Safe
<1>1. Init => Gate!Init
  <2> SUFFICES ASSUME Init PROVE Gate!Init
    OBVIOUS
  <2>1. cd_state \in BOOLEAN
    BY Zenon DEF Init
  <2>2. Waiting = {} /\ deleter \notin Past
    BY DEF Init, Waiting, Inside, Past
  <2> QED
    BY <2>1, <2>2 DEF Waiting, Gate!Init
<1> QED
  BY <1>1, InitCounts, TypesStep, CountStep, GateStep, PTL DEF Spec, Gate!Safe

=============================================================================
