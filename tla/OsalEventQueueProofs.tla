------------------------ MODULE OsalEventQueueProofs ------------------------
(***************************************************************************)
(* Proofs about one OSAL event queue, for any events, priorities, limit    *)
(* and number of receiver threads: its type invariant, the agreement of    *)
(* event_count with the list, the absence of lost wake-ups, and that the   *)
(* queue implements the event box.                                         *)
(***************************************************************************)
EXTENDS OsalEventQueue, FiniteSetTheorems, WellFoundedInduction, TLAPS

(***************************************************************************)
(* Every non-empty set of numbers has a least element.                     *)
(***************************************************************************)
LEMMA Least ==
    ASSUME NEW T, T \subseteq Nat, T # {}
    PROVE  \E x \in T : \A y \in T : x <= y
<1>1. \E x \in T : \A y \in T : ~ (<<y, x>> \in OpToRel(<, Nat))
  BY NatLessThanWellFounded, WFMin
<1>2. \A x, y \in Nat : y < x => <<y, x>> \in OpToRel(<, Nat)
  BY DEF OpToRel
<1>3. PICK x \in T : \A y \in T : ~ (<<y, x>> \in OpToRel(<, Nat))
  BY <1>1
<1>4. ASSUME NEW y \in T PROVE x <= y
  <2>1. x \in Nat /\ y \in Nat /\ ~(y < x)
    BY <1>2, <1>3
  <2> QED
    BY <2>1
<1> QED
  BY <1>4

(***************************************************************************)
(* The list walk of rmf_osal_eventqueue_list_add_element stops: at the     *)
(* first entry of lower priority, or past the last entry.                  *)
(***************************************************************************)
LEMMA SlotStops ==
    ASSUME eventlist \in Seq(Events), NEW e \in Events
    PROVE  /\ Slot(e) \in 1..(Len(eventlist) + 1)
           /\ \A i \in 1..(Slot(e) - 1) : Priority[eventlist[i]] >= Priority[e]
           /\ Slot(e) <= Len(eventlist) => Priority[eventlist[Slot(e)]] < Priority[e]
<1> DEFINE T == {i \in 1..Len(eventlist) : Priority[eventlist[i]] < Priority[e]}
           P(p) == /\ \A i \in 1..(p - 1) : Priority[eventlist[i]] >= Priority[e]
                   /\ p <= Len(eventlist) => Priority[eventlist[p]] < Priority[e]
<1>0. /\ Len(eventlist) \in Nat
      /\ Priority[e] \in Nat
      /\ \A i \in 1..Len(eventlist) : Priority[eventlist[i]] \in Nat
  BY QueueConstants
<1>1. \E p \in 1..(Len(eventlist) + 1) : P(p)
  <2>1. CASE T = {}
    <3>1. P(Len(eventlist) + 1)
      BY <1>0, <2>1
    <3> QED
      BY <1>0, <3>1
  <2>2. CASE T # {}
    <3>1. PICK x \in T : \A y \in T : x <= y
      <4>1. T \subseteq Nat
        BY <1>0
      <4> HIDE DEF T
      <4> QED
        BY <2>2, <4>1, Least
    <3>2. P(x)
      BY <1>0, <3>1
    <3> QED
      BY <1>0, <3>1, <3>2
  <2> QED
    BY <2>1, <2>2
<1>2. Slot(e) \in 1..(Len(eventlist) + 1) /\ P(Slot(e))
  BY <1>1 DEF Slot
<1> QED
  BY <1>2

(***************************************************************************)
(* The insertion keeps a sequence of events and makes it one longer.       *)
(***************************************************************************)
LEMMA InsertedType ==
    ASSUME eventlist \in Seq(Events), NEW e \in Events,
           NEW p \in 1..(Len(eventlist) + 1)
    PROVE  /\ Inserted(e, p) \in Seq(Events)
           /\ Len(Inserted(e, p)) = Len(eventlist) + 1
<1> DEFINE n == Len(eventlist) + 1
<1>1. n \in Nat
  OBVIOUS
<1>2. ASSUME NEW i \in 1..n
      PROVE  (IF i < p THEN eventlist[i] ELSE IF i = p THEN e ELSE eventlist[i - 1]) \in Events
  BY <1>2
<1>3. Inserted(e, p) \in [1..n -> Events]
  BY <1>2 DEF Inserted
<1> QED
  BY <1>1, <1>3

-----------------------------------------------------------------------------
(***************************************************************************)
(* The type invariant of the queue and of its callers.                     *)
(***************************************************************************)
LEMMA TypeOKStep == TypeOK /\ [Next]_vars => TypeOK'
<1> SUFFICES ASSUME TypeOK, [Next]_vars
             PROVE  TypeOK'
  OBVIOUS
<1> USE DEF TypeOK, Calls, PopPc
<1>1. ASSUME NEW e \in Events, Add(e)
      PROVE  TypeOK'
  BY <1>1, SlotStops, InsertedType DEF Add, SemPosted
<1>2. ASSUME NEW r \in Receivers, NEW c \in Calls, Call(r, c)
      PROVE  TypeOK'
  BY <1>2 DEF Call
<1>3. ASSUME NEW r \in Receivers, WaitFails(r)
      PROVE  TypeOK'
  BY <1>3 DEF WaitFails
<1>4. ASSUME NEW r \in Receivers, SemTaken(r)
      PROVE  TypeOK'
  BY <1>4 DEF SemTaken, PopOf
<1>5. ASSUME NEW r \in Receivers, TryMisses(r)
      PROVE  TypeOK'
  BY <1>5 DEF TryMisses, PopOf
<1>6. ASSUME NEW r \in Receivers, Pop(r)
      PROVE  TypeOK'
  BY <1>6 DEF Pop, ListPop
<1>7. ASSUME NEW r \in Receivers, PopEmpty(r)
      PROVE  TypeOK'
  BY <1>7 DEF PopEmpty
<1>8. CASE UNCHANGED vars
  BY <1>8 DEF vars
<1> QED
  BY <1>1, <1>2, <1>3, <1>4, <1>5, <1>6, <1>7, <1>8 DEF Next, ReceiverStep

(***************************************************************************)
(* The queue's and its callers' variables keep their types: in particular  *)
(* the list stays a sequence of handles that were added, whatever place    *)
(* the insertion walk of list_add_element finds.                           *)
(***************************************************************************)
THEOREM QueueTypes == Spec => []TypeOK
<1>1. Init => TypeOK
  BY DEF Init, TypeOK
<1> QED
  BY <1>1, TypeOKStep, PTL DEF Spec

-----------------------------------------------------------------------------
(***************************************************************************)
(* event_count and the list are changed together, under the queue's mutex, *)
(* and an insertion is refused at the limit: CountIsLength is inductive.   *)
(***************************************************************************)
LEMMA CountStep == TypeOK /\ CountIsLength /\ [Next]_vars => CountIsLength'
<1> SUFFICES ASSUME TypeOK, CountIsLength, [Next]_vars
             PROVE  CountIsLength'
  OBVIOUS
<1> USE QueueConstants DEF TypeOK, CountIsLength
<1>1. ASSUME NEW e \in Events, Add(e)
      PROVE  CountIsLength'
  BY <1>1, SlotStops, InsertedType DEF Add
<1>2. ASSUME NEW r \in Receivers, Pop(r)
      PROVE  CountIsLength'
  <2>1. eventlist # <<>> /\ eventlist' = Tail(eventlist) /\ event_count # 0
    BY <1>2 DEF Pop, ListPop
  <2>2. event_count' = event_count - 1
    BY <1>2, <2>1 DEF Pop, ListPop
  <2> QED
    BY <2>1, <2>2
<1>3. CASE UNCHANGED <<eventlist, event_count>>
  BY <1>3
<1> QED
  BY <1>1, <1>2, <1>3
  DEF Next, ReceiverStep, Call, WaitFails, SemTaken, TryMisses, PopEmpty, vars

(***************************************************************************)
(* The counter that decides when a queue is full is the number of events   *)
(* queued, and the limit RMF_OSAL_EVENTQ_MAX_LIMIT is never passed.        *)
(***************************************************************************)
THEOREM QueueCount == Spec => []CountIsLength
<1>1. Init => CountIsLength
  BY QueueConstants DEF Init, CountIsLength
<1> QED
  BY <1>1, CountStep, QueueTypes, PTL DEF Spec

-----------------------------------------------------------------------------
(***************************************************************************)
(* A receiver keeps a semaphore unit only between sem_wait and the pop.    *)
(***************************************************************************)
TokenAtPop == \A r \in Receivers : token[r] => pc[r] \in PopPc

LEMMA TokenStep == TypeOK /\ TokenAtPop /\ [Next]_vars => TokenAtPop'
<1> SUFFICES ASSUME TypeOK, TokenAtPop, [Next]_vars
             PROVE  TokenAtPop'
  OBVIOUS
<1> USE DEF TypeOK, TokenAtPop, Calls, PopPc
<1>1. ASSUME NEW r \in Receivers, NEW c \in Calls, Call(r, c)
      PROVE  TokenAtPop'
  BY <1>1 DEF Call
<1>2. ASSUME NEW r \in Receivers, WaitFails(r)
      PROVE  TokenAtPop'
  BY <1>2 DEF WaitFails
<1>3. ASSUME NEW r \in Receivers, SemTaken(r)
      PROVE  TokenAtPop'
  BY <1>3 DEF SemTaken, PopOf
<1>4. ASSUME NEW r \in Receivers, TryMisses(r)
      PROVE  TokenAtPop'
  BY <1>4 DEF TryMisses, PopOf
<1>5. ASSUME NEW r \in Receivers, Pop(r)
      PROVE  TokenAtPop'
  BY <1>5 DEF Pop
<1>6. ASSUME NEW r \in Receivers, PopEmpty(r)
      PROVE  TokenAtPop'
  BY <1>6 DEF PopEmpty
<1>7. CASE UNCHANGED <<pc, token>>
  BY <1>7
<1> QED
  BY <1>1, <1>2, <1>3, <1>4, <1>5, <1>6, <1>7 DEF Next, ReceiverStep, Add, vars

(***************************************************************************)
(* How many receivers hold a unit, when one of them takes or spends it.    *)
(***************************************************************************)
LEMMA HoldersFinite == IsFiniteSet(Holders) /\ Cardinality(Holders) \in Nat
<1>1. Holders \in SUBSET Receivers
  BY DEF Holders
<1> QED
  BY <1>1, QueueConstants, FS_Subset, FS_CardinalityType

LEMMA HolderTakes ==
    ASSUME TypeOK, NEW r \in Receivers, ~token[r],
           token' = [token EXCEPT ![r] = TRUE]
    PROVE  Cardinality(Holders') = Cardinality(Holders) + 1
<1>1. Holders' = Holders \cup {r}
  BY DEF TypeOK, Holders
<1>2. r \notin Holders
  BY DEF Holders
<1> QED
  BY <1>1, <1>2, HoldersFinite, FS_AddElement

LEMMA HolderSpends ==
    ASSUME TypeOK, NEW r \in Receivers,
           token' = [token EXCEPT ![r] = FALSE]
    PROVE  /\ Cardinality(Holders') \in Nat
           /\ Cardinality(Holders') >= Cardinality(Holders) - 1
<1>1. Holders' = Holders \ {r}
  BY DEF TypeOK, Holders
<1> QED
  BY <1>1, HoldersFinite, FS_RemoveElement, FS_CardinalityType

(***************************************************************************)
(* NoLostWakeup is inductive together with the types, the count (which     *)
(* keeps a saturated semaphore ahead of the list) and TokenAtPop.          *)
(***************************************************************************)
LEMMA WakeupStep ==
    TypeOK /\ CountIsLength /\ TokenAtPop /\ NoLostWakeup /\ [Next]_vars => NoLostWakeup'
<1> SUFFICES ASSUME TypeOK, CountIsLength, TokenAtPop, NoLostWakeup, [Next]_vars
             PROVE  NoLostWakeup'
  OBVIOUS
<1>0. /\ Cardinality(Holders) \in Nat
      /\ Len(eventlist) \in Nat
      /\ sem \in Nat
      /\ Len(eventlist) <= sem + Cardinality(Holders)
  BY HoldersFinite DEF TypeOK, NoLostWakeup
<1>1. ASSUME NEW e \in Events, Add(e)
      PROVE  NoLostWakeup'
  <2>1. Holders' = Holders
    BY <1>1 DEF Add, Holders
  <2>2. Len(eventlist') = Len(eventlist) + 1
    BY <1>1, SlotStops, InsertedType DEF Add, TypeOK
  <2>3. CASE sem = SemValueMax
    <3>1. sem' = sem
      BY <1>1, <2>3 DEF Add, SemPosted
    <3>2. Len(eventlist) < MaxLimit
      BY <1>1, QueueConstants DEF Add, CountIsLength, TypeOK
    <3>3. Len(eventlist) + 1 <= sem + Cardinality(Holders)
      BY <1>0, <2>3, <3>2, QueueConstants
    <3> QED
      BY <2>1, <2>2, <3>1, <3>3 DEF NoLostWakeup
  <2>4. CASE sem # SemValueMax
    <3>1. sem' = sem + 1
      BY <1>1, <2>4 DEF Add, SemPosted
    <3> QED
      BY <1>0, <2>1, <2>2, <3>1 DEF NoLostWakeup
  <2> QED
    BY <2>3, <2>4
<1>2. ASSUME NEW r \in Receivers, SemTaken(r)
      PROVE  NoLostWakeup'
  <2>1. ~token[r]
    BY <1>2 DEF SemTaken, TokenAtPop, Calls, PopPc
  <2>2. Cardinality(Holders') = Cardinality(Holders) + 1
    BY <1>2, <2>1, HolderTakes DEF SemTaken
  <2>3. eventlist' = eventlist /\ sem' = sem - 1
    BY <1>2 DEF SemTaken
  <2> QED
    BY <1>0, <2>2, <2>3 DEF NoLostWakeup
<1>3. ASSUME NEW r \in Receivers, Pop(r)
      PROVE  NoLostWakeup'
  <2>1. /\ Cardinality(Holders') \in Nat
        /\ Cardinality(Holders') >= Cardinality(Holders) - 1
    BY <1>3, HolderSpends DEF Pop
  <2>2. Len(eventlist') = Len(eventlist) - 1 /\ sem' = sem
    BY <1>3 DEF Pop, ListPop, TypeOK
  <2> QED
    BY <1>0, <2>1, <2>2 DEF NoLostWakeup
<1>4. ASSUME NEW r \in Receivers, PopEmpty(r)
      PROVE  NoLostWakeup'
  <2>1. Cardinality(Holders') \in Nat
    BY <1>4, HolderSpends DEF PopEmpty
  <2>2. Len(eventlist') = 0 /\ sem' = sem
    BY <1>4 DEF PopEmpty
  <2> QED
    BY <1>0, <2>1, <2>2 DEF NoLostWakeup
<1>5. CASE UNCHANGED <<eventlist, sem, token>>
  BY <1>5 DEF NoLostWakeup, Holders
<1> QED
  BY <1>1, <1>2, <1>3, <1>4, <1>5
  DEF Next, ReceiverStep, Call, WaitFails, TryMisses, vars

(***************************************************************************)
(* No lost wake-up, for any number of receivers mixing blocking, timed,    *)
(* trying and clearing calls: every event in the list is announced by a    *)
(* semaphore unit or by a receiver that took one and has yet to pop.       *)
(***************************************************************************)
THEOREM QueueNoLostWakeup == Spec => []NoLostWakeup
<1> DEFINE IInv == TypeOK /\ CountIsLength /\ TokenAtPop /\ NoLostWakeup
<1>1. Init => IInv
  <2> SUFFICES ASSUME Init PROVE IInv
    OBVIOUS
  <2>1. TypeOK
    BY DEF Init, TypeOK
  <2>2. CountIsLength /\ TokenAtPop
    BY QueueConstants DEF Init, CountIsLength, TokenAtPop
  <2>3. NoLostWakeup
    BY HoldersFinite DEF Init, NoLostWakeup
  <2> QED
    BY <2>1, <2>2, <2>3
<1>2. IInv /\ [Next]_vars => IInv'
  BY TypeOKStep, CountStep, TokenStep, WakeupStep
<1> QED
  BY <1>1, <1>2, PTL DEF Spec

-----------------------------------------------------------------------------
(***************************************************************************)
(* The list in priority order, and no handle in it twice.                  *)
(***************************************************************************)
Ordered ==
    \A i, j \in 1..Len(eventlist) :
        i < j => /\ Priority[eventlist[i]] >= Priority[eventlist[j]]
                 /\ eventlist[i] # eventlist[j]

LEMMA OrderedStep == TypeOK /\ Ordered /\ [Next]_vars => Ordered'
<1> SUFFICES ASSUME TypeOK, Ordered, [Next]_vars
             PROVE  Ordered'
  OBVIOUS
<1>0. /\ Len(eventlist) \in Nat
      /\ \A i \in 1..Len(eventlist) : eventlist[i] \in Events
      /\ \A f \in Events : Priority[f] \in Nat
  BY QueueConstants DEF TypeOK
<1>1. ASSUME NEW e \in Events, Add(e)
      PROVE  Ordered'
  <2> DEFINE p == Slot(e)
  <2>1. /\ p \in 1..(Len(eventlist) + 1)
        /\ \A i \in 1..(p - 1) : Priority[eventlist[i]] >= Priority[e]
        /\ p <= Len(eventlist) => Priority[eventlist[p]] < Priority[e]
    BY SlotStops DEF TypeOK
  <2>2. Len(eventlist') = Len(eventlist) + 1
    BY <1>1, <2>1, InsertedType DEF Add, TypeOK
  <2>3. \A i \in 1..(Len(eventlist) + 1) :
           eventlist'[i] = IF i < p THEN eventlist[i] ELSE IF i = p THEN e ELSE eventlist[i - 1]
    BY <1>1 DEF Add, Inserted
  <2>4. \A i \in 1..Len(eventlist) : eventlist[i] # e
    BY <1>1, <1>0 DEF Add, InList, TypeOK
  <2> HIDE DEF p
  <2>5. SUFFICES ASSUME NEW i \in 1..(Len(eventlist) + 1), NEW j \in 1..(Len(eventlist) + 1),
                        i < j
                 PROVE  /\ Priority[eventlist'[i]] >= Priority[eventlist'[j]]
                        /\ eventlist'[i] # eventlist'[j]
    BY <2>2 DEF Ordered
  <2>6. CASE j < p
    <3>1. eventlist'[i] = eventlist[i] /\ eventlist'[j] = eventlist[j]
      BY <2>1, <2>3, <2>5, <2>6
    <3>2. i \in 1..Len(eventlist) /\ j \in 1..Len(eventlist)
      BY <1>0, <2>1, <2>5, <2>6
    <3> QED
      BY <2>5, <3>1, <3>2 DEF Ordered
  <2>7. CASE j = p
    <3>1. eventlist'[i] = eventlist[i] /\ eventlist'[j] = e
      BY <2>1, <2>3, <2>5, <2>7
    <3>2. i \in 1..Len(eventlist) /\ i \in 1..(p - 1)
      BY <1>0, <2>1, <2>5, <2>7
    <3> QED
      BY <2>1, <2>4, <3>1, <3>2
  <2>8. CASE i = p
    <3>1. eventlist'[i] = e /\ eventlist'[j] = eventlist[j - 1]
      BY <2>1, <2>3, <2>5, <2>8
    <3>2. /\ p \in 1..Len(eventlist) /\ j - 1 \in 1..Len(eventlist)
          /\ p <= j - 1 /\ p <= Len(eventlist)
      BY <1>0, <2>1, <2>5, <2>8
    <3>3. Priority[eventlist[p]] >= Priority[eventlist[j - 1]]
      <4>1. CASE p = j - 1
        BY <1>0, <3>2, <4>1
      <4>2. CASE p < j - 1
        BY <3>2, <4>2 DEF Ordered
      <4> QED
        BY <3>2, <4>1, <4>2
    <3>4. /\ Priority[e] \in Nat /\ Priority[eventlist[p]] \in Nat
          /\ Priority[eventlist[j - 1]] \in Nat
      BY <1>0, <3>2
    <3> QED
      BY <2>1, <2>4, <3>1, <3>2, <3>3, <3>4
  <2>9. CASE i < p /\ p < j
    <3>1. eventlist'[i] = eventlist[i] /\ eventlist'[j] = eventlist[j - 1]
      BY <2>1, <2>3, <2>5, <2>9
    <3>2. i \in 1..Len(eventlist) /\ j - 1 \in 1..Len(eventlist) /\ i < j - 1
      BY <1>0, <2>1, <2>5, <2>9
    <3> QED
      BY <3>1, <3>2 DEF Ordered
  <2>10. CASE p < i
    <3>1. eventlist'[i] = eventlist[i - 1] /\ eventlist'[j] = eventlist[j - 1]
      BY <2>1, <2>3, <2>5, <2>10
    <3>2. i - 1 \in 1..Len(eventlist) /\ j - 1 \in 1..Len(eventlist) /\ i - 1 < j - 1
      BY <1>0, <2>1, <2>5, <2>10
    <3> QED
      BY <3>1, <3>2 DEF Ordered
  <2> QED
    BY <2>1, <2>5, <2>6, <2>7, <2>8, <2>9, <2>10
<1>2. ASSUME NEW r \in Receivers, Pop(r)
      PROVE  Ordered'
  <2>1. /\ Len(eventlist') = Len(eventlist) - 1
        /\ \A i \in 1..(Len(eventlist) - 1) : eventlist'[i] = eventlist[i + 1]
    BY <1>2 DEF Pop, ListPop, TypeOK
  <2>2. ASSUME NEW i \in 1..Len(eventlist'), NEW j \in 1..Len(eventlist'), i < j
        PROVE  /\ Priority[eventlist'[i]] >= Priority[eventlist'[j]]
               /\ eventlist'[i] # eventlist'[j]
    <3>1. /\ i + 1 \in 1..Len(eventlist) /\ j + 1 \in 1..Len(eventlist) /\ i + 1 < j + 1
          /\ eventlist'[i] = eventlist[i + 1] /\ eventlist'[j] = eventlist[j + 1]
      BY <1>0, <2>1, <2>2
    <3> QED
      BY <3>1 DEF Ordered
  <2> QED
    BY <2>2 DEF Ordered
<1>3. CASE UNCHANGED eventlist
  BY <1>3 DEF Ordered
<1> QED
  BY <1>1, <1>2, <1>3
  DEF Next, ReceiverStep, Call, WaitFails, SemTaken, TryMisses, PopEmpty, vars

-----------------------------------------------------------------------------
(***************************************************************************)
(* The events of the box, and the pairs in it whose order is fixed.        *)
(***************************************************************************)
Boxed == {eventlist[i] : i \in DOMAIN eventlist}

LEMMA BoxedIs ==
    ASSUME TypeOK
    PROVE  \A f : f \in Boxed <=> \E i \in 1..Len(eventlist) : f = eventlist[i]
BY DEF TypeOK, Boxed

PairsOf(s) ==
    {<<s[q[1]], s[q[2]]>> :
        q \in {w \in (DOMAIN s) \X (DOMAIN s) :
                 w[1] < w[2] /\ Priority[s[w[1]]] = Priority[s[w[2]]]}}

LEMMA PairsOfIs ==
    ASSUME NEW s \in Seq(Events)
    PROVE  /\ \A f, g : <<f, g>> \in PairsOf(s) <=>
                \E i, j \in 1..Len(s) :
                    /\ i < j /\ f = s[i] /\ g = s[j]
                    /\ Priority[s[i]] = Priority[s[j]]
           /\ \A q \in PairsOf(s) : q = <<q[1], q[2]>>
<1>1. DOMAIN s = 1..Len(s)
  OBVIOUS
<1>2. ASSUME NEW f, NEW g, <<f, g>> \in PairsOf(s)
      PROVE  \E i, j \in 1..Len(s) :
                    /\ i < j /\ f = s[i] /\ g = s[j]
                    /\ Priority[s[i]] = Priority[s[j]]
  <2>1. PICK q \in (DOMAIN s) \X (DOMAIN s) :
              /\ q[1] < q[2] /\ Priority[s[q[1]]] = Priority[s[q[2]]]
              /\ <<f, g>> = <<s[q[1]], s[q[2]]>>
    BY <1>2 DEF PairsOf
  <2> QED
    BY <1>1, <2>1
<1>3. ASSUME NEW i \in 1..Len(s), NEW j \in 1..Len(s), i < j,
             Priority[s[i]] = Priority[s[j]]
      PROVE  <<s[i], s[j]>> \in PairsOf(s)
  <2>1. <<i, j>> \in (DOMAIN s) \X (DOMAIN s)
    BY <1>1
  <2>2. <<i, j>>[1] = i /\ <<i, j>>[2] = j
    OBVIOUS
  <2> QED
    BY <1>3, <2>1, <2>2 DEF PairsOf
<1>4. \A q \in PairsOf(s) : q = <<q[1], q[2]>>
  BY DEF PairsOf
<1> QED
  BY <1>2, <1>3, <1>4

LEMMA SeniorIs ==
    ASSUME TypeOK
    PROVE  /\ \A f, g : <<f, g>> \in SeniorPairs <=>
                \E i, j \in 1..Len(eventlist) :
                    /\ i < j /\ f = eventlist[i] /\ g = eventlist[j]
                    /\ Priority[eventlist[i]] = Priority[eventlist[j]]
           /\ \A q \in SeniorPairs : q = <<q[1], q[2]>>
<1>1. SeniorPairs = PairsOf(eventlist) /\ eventlist \in Seq(Events)
  BY DEF SeniorPairs, PairsOf, TypeOK
<1> QED
  BY <1>1, PairsOfIs

LEMMA SeniorIsPrimed ==
    ASSUME TypeOK'
    PROVE  /\ \A f, g : <<f, g>> \in SeniorPairs' <=>
                \E i, j \in 1..Len(eventlist') :
                    /\ i < j /\ f = eventlist'[i] /\ g = eventlist'[j]
                    /\ Priority[eventlist'[i]] = Priority[eventlist'[j]]
           /\ \A q \in SeniorPairs' : q = <<q[1], q[2]>>
<1>1. SeniorPairs' = PairsOf(eventlist') /\ eventlist' \in Seq(Events)
  BY DEF SeniorPairs, PairsOf, TypeOK
<1> QED
  BY <1>1, PairsOfIs

(***************************************************************************)
(* An insertion puts the event in the box, behind its equals.              *)
(***************************************************************************)
LEMMA AddPuts ==
    ASSUME TypeOK, TypeOK', Ordered, Ordered', NEW e \in Events, Add(e)
    PROVE  Box!Put(e)
<1> DEFINE p == Slot(e)
           n == Len(eventlist)
<1>1. /\ p \in 1..(n + 1)
      /\ \A i \in 1..(p - 1) : Priority[eventlist[i]] >= Priority[e]
      /\ p <= n => Priority[eventlist[p]] < Priority[e]
  BY SlotStops DEF TypeOK
<1>2. n \in Nat /\ Len(eventlist') = n + 1
  BY <1>1, InsertedType DEF Add, TypeOK
<1>3. \A i \in 1..(n + 1) :
         eventlist'[i] = IF i < p THEN eventlist[i] ELSE IF i = p THEN e ELSE eventlist[i - 1]
  BY DEF Add, Inserted
<1>4. \A f : f \in Boxed <=> \E i \in 1..n : f = eventlist[i]
  BY BoxedIs
<1>5. \A f : f \in Boxed' <=> \E i \in 1..(n + 1) : f = eventlist'[i]
  <2>1. \A f : f \in Boxed' <=> \E i \in 1..Len(eventlist') : f = eventlist'[i]
    BY DEF TypeOK, Boxed
  <2> QED
    BY <1>2, <2>1
<1>6. \A i \in 1..n : Priority[eventlist[i]] \in Nat /\ eventlist[i] \in Events
  BY QueueConstants DEF TypeOK
<1>7. Priority[e] \in Nat
  BY QueueConstants
\* Where the entries of the old list are in the new one.
<1>8. \A i \in 1..n : \/ i < p /\ eventlist'[i] = eventlist[i]
                      \/ p <= i /\ eventlist'[i + 1] = eventlist[i]
  BY <1>1, <1>2, <1>3
<1>9. eventlist'[p] = e
  BY <1>1, <1>2, <1>3
<1> HIDE DEF p, n
<1>10. e \notin Boxed
  BY <1>4 DEF Add, InList, Boxed
<1>11. Boxed' = Boxed \cup {e}
  <2>1. ASSUME NEW f \in Boxed PROVE f \in Boxed'
    <3>1. PICK i \in 1..n : f = eventlist[i]
      BY <1>4
    <3>2. i \in 1..(n + 1) /\ i + 1 \in 1..(n + 1)
      BY <1>2
    <3> QED
      BY <1>5, <1>8, <3>1, <3>2
  <2>2. e \in Boxed'
    BY <1>1, <1>5, <1>9
  <2>3. ASSUME NEW f \in Boxed', f # e PROVE f \in Boxed
    <3>1. PICK i \in 1..(n + 1) : f = eventlist'[i]
      BY <1>5
    <3>2. CASE i < p
      <4>1. i \in 1..n /\ f = eventlist[i]
        BY <1>1, <1>2, <1>3, <3>1, <3>2
      <4> QED
        BY <1>4, <4>1
    <3>3. CASE p < i
      <4>1. i - 1 \in 1..n /\ f = eventlist[i - 1]
        BY <1>1, <1>2, <1>3, <3>1, <3>3
      <4> QED
        BY <1>4, <4>1
    <3> QED
      BY <1>1, <1>2, <1>9, <2>3, <3>1, <3>2, <3>3
  <2> QED
    BY <2>1, <2>2, <2>3
<1>12. \A i \in 1..n : p <= i => Priority[eventlist[i]] < Priority[e]
  <2>1. SUFFICES ASSUME NEW i \in 1..n, p <= i
                 PROVE  Priority[eventlist[i]] < Priority[e]
    OBVIOUS
  <2>2. p \in 1..n /\ Priority[eventlist[p]] < Priority[e]
    BY <1>1, <1>2, <2>1
  <2>3. Priority[eventlist[p]] >= Priority[eventlist[i]]
    <3>1. CASE p = i
      BY <1>6, <3>1
    <3>2. CASE p < i
      BY <2>2, <3>2 DEF Ordered, n
    <3> QED
      BY <2>1, <2>2, <3>1, <3>2
  <2> QED
    BY <1>6, <1>7, <2>2, <2>3
<1>13. /\ \A f, g : <<f, g>> \in SeniorPairs <=>
               \E i, j \in 1..n :
                   /\ i < j /\ f = eventlist[i] /\ g = eventlist[j]
                   /\ Priority[eventlist[i]] = Priority[eventlist[j]]
       /\ \A q \in SeniorPairs : q = <<q[1], q[2]>>
  BY SeniorIs DEF n
<1>14. /\ \A f, g : <<f, g>> \in SeniorPairs' <=>
               \E i, j \in 1..(n + 1) :
                   /\ i < j /\ f = eventlist'[i] /\ g = eventlist'[j]
                   /\ Priority[eventlist'[i]] = Priority[eventlist'[j]]
       /\ \A q \in SeniorPairs' : q = <<q[1], q[2]>>
  BY <1>2, SeniorIsPrimed
<1> DEFINE Behind == {<<f, e>> : f \in {g \in Boxed : Priority[g] = Priority[e]}}
<1>15. ASSUME NEW q \in SeniorPairs PROVE q \in SeniorPairs'
  <2>1. PICK i \in 1..n, j \in 1..n :
            /\ i < j /\ q[1] = eventlist[i] /\ q[2] = eventlist[j]
            /\ Priority[eventlist[i]] = Priority[eventlist[j]]
    BY <1>13
  <2>2. PICK k \in {i, i + 1} : eventlist'[k] = eventlist[i] /\ (k = i \/ p <= i)
    BY <1>8
  <2>3. PICK l \in {j, j + 1} : eventlist'[l] = eventlist[j] /\ (l = j + 1 \/ j < p)
    BY <1>8
  <2>4. k \in 1..(n + 1) /\ l \in 1..(n + 1) /\ k < l
    BY <1>1, <1>2, <2>1, <2>2, <2>3
  <2>5. <<q[1], q[2]>> \in SeniorPairs'
    BY <1>14, <2>1, <2>2, <2>3, <2>4
  <2> QED
    BY <1>13, <2>5
<1>16. ASSUME NEW q \in Behind PROVE q \in SeniorPairs'
  <2>1. PICK f \in Boxed : q = <<f, e>> /\ Priority[f] = Priority[e]
    OBVIOUS
  <2>2. PICK i \in 1..n : f = eventlist[i]
    BY <1>4
  <2>3. i < p
    BY <1>1, <1>2, <1>6, <1>7, <1>12, <2>1, <2>2
  <2>4. i \in 1..(n + 1) /\ eventlist'[i] = f
    BY <1>1, <1>2, <1>8, <2>2, <2>3
  <2> QED
    BY <1>1, <1>9, <1>14, <2>1, <2>3, <2>4
<1>17. ASSUME NEW q \in SeniorPairs' PROVE q \in SeniorPairs \cup Behind
  <2>0. q = <<q[1], q[2]>>
    BY <1>14
  <2>1. PICK i \in 1..(n + 1), j \in 1..(n + 1) :
            /\ i < j /\ q[1] = eventlist'[i] /\ q[2] = eventlist'[j]
            /\ Priority[eventlist'[i]] = Priority[eventlist'[j]]
    BY <1>14, <2>0
  <2>2. CASE j = p
    <3>1. i \in 1..n /\ eventlist'[i] = eventlist[i]
      BY <1>1, <1>2, <1>3, <2>1, <2>2
    <3>2. q[1] \in Boxed /\ q[2] = e /\ Priority[q[1]] = Priority[e]
      BY <1>4, <1>9, <2>1, <2>2, <3>1
    <3> QED
      BY <2>0, <3>2
  <2>3. i # p
    <3>1. SUFFICES ASSUME i = p PROVE FALSE
      OBVIOUS
    <3>2. j - 1 \in 1..n /\ p <= j - 1 /\ eventlist'[j] = eventlist[j - 1]
      BY <1>1, <1>2, <1>3, <2>1, <3>1
    <3> QED
      BY <1>6, <1>7, <1>9, <1>12, <2>1, <3>1, <3>2
  <2>4. CASE j # p
    <3>1. PICK k \in {i, i - 1} : /\ k \in 1..n /\ eventlist'[i] = eventlist[k]
                                  /\ k = i <=> i < p
      BY <1>1, <1>2, <1>3, <2>1, <2>3
    <3>2. PICK l \in {j, j - 1} : /\ l \in 1..n /\ eventlist'[j] = eventlist[l]
                                  /\ l = j <=> j < p
      BY <1>1, <1>2, <1>3, <2>1, <2>4
    <3>3. k < l
      BY <1>1, <1>2, <2>1, <2>3, <2>4, <3>1, <3>2
    <3>4. <<q[1], q[2]>> \in SeniorPairs
      BY <1>13, <2>1, <3>1, <3>2, <3>3
    <3> QED
      BY <2>0, <3>4
  <2> QED
    BY <2>2, <2>4
<1>18. SeniorPairs' = SeniorPairs \cup Behind
  BY <1>15, <1>16, <1>17
<1> QED
  BY <1>10, <1>11, <1>18 DEF Box!Put, Boxed

(***************************************************************************)
(* A pop takes an event of the highest priority, the first put of its      *)
(* equals, out of the box.                                                 *)
(***************************************************************************)
LEMMA PopTakes ==
    ASSUME TypeOK, TypeOK', Ordered, NEW r \in Receivers, Pop(r),
           NEW e \in Events, e = Head(eventlist)
    PROVE  Box!Take(e)
<1> DEFINE n == Len(eventlist)
<1>1. /\ n \in Nat /\ n # 0 /\ Len(eventlist') = n - 1
      /\ e = eventlist[1]
      /\ \A i \in 1..(n - 1) : eventlist'[i] = eventlist[i + 1]
  BY DEF Pop, ListPop, TypeOK
<1>2. \A f : f \in Boxed <=> \E i \in 1..n : f = eventlist[i]
  BY BoxedIs
<1>3. \A f : f \in Boxed' <=> \E i \in 1..(n - 1) : f = eventlist'[i]
  <2>1. \A f : f \in Boxed' <=> \E i \in 1..Len(eventlist') : f = eventlist'[i]
    BY DEF TypeOK, Boxed
  <2> QED
    BY <1>1, <2>1
<1>4. \A i \in 1..n : Priority[eventlist[i]] \in Nat
  BY QueueConstants DEF TypeOK
<1>5. \A i \in 1..n : i # 1 => Priority[e] >= Priority[eventlist[i]] /\ eventlist[i] # e
  BY <1>1 DEF Ordered
<1>6. /\ \A f, g : <<f, g>> \in SeniorPairs <=>
               \E i, j \in 1..n :
                   /\ i < j /\ f = eventlist[i] /\ g = eventlist[j]
                   /\ Priority[eventlist[i]] = Priority[eventlist[j]]
      /\ \A q \in SeniorPairs : q = <<q[1], q[2]>>
  BY SeniorIs
<1>7. /\ \A f, g : <<f, g>> \in SeniorPairs' <=>
               \E i, j \in 1..(n - 1) :
                   /\ i < j /\ f = eventlist'[i] /\ g = eventlist'[j]
                   /\ Priority[eventlist'[i]] = Priority[eventlist'[j]]
      /\ \A q \in SeniorPairs' : q = <<q[1], q[2]>>
  BY <1>1, SeniorIsPrimed
<1> HIDE DEF n
<1>8. e \in Boxed /\ \A f \in Boxed : Priority[f] <= Priority[e]
  <2>1. e \in Boxed
    BY <1>1, <1>2
  <2>2. ASSUME NEW f \in Boxed PROVE Priority[f] <= Priority[e]
    <3>1. PICK i \in 1..n : f = eventlist[i]
      BY <1>2
    <3> QED
      BY <1>1, <1>4, <1>5, <3>1
  <2> QED
    BY <2>1, <2>2
<1>9. \A f \in Boxed : <<f, e>> \notin SeniorPairs
  <2>1. SUFFICES ASSUME NEW f, <<f, e>> \in SeniorPairs PROVE FALSE
    OBVIOUS
  <2>2. PICK i \in 1..n, j \in 1..n : i < j /\ e = eventlist[j]
    BY <1>6, <2>1
  <2>3. j # 1
    BY <2>2
  <2> QED
    BY <1>5, <2>2, <2>3
<1>10. Boxed' = Boxed \ {e}
  <2>1. ASSUME NEW f \in Boxed' PROVE f \in Boxed \ {e}
    <3>1. PICK i \in 1..(n - 1) : f = eventlist'[i]
      BY <1>3
    <3>2. i + 1 \in 1..n /\ i + 1 # 1 /\ f = eventlist[i + 1]
      BY <1>1, <3>1
    <3> QED
      BY <1>2, <1>5, <3>2
  <2>2. ASSUME NEW f \in Boxed \ {e} PROVE f \in Boxed'
    <3>1. PICK i \in 1..n : f = eventlist[i]
      BY <1>2
    <3>2. i # 1
      BY <1>1, <2>2, <3>1
    <3>3. i - 1 \in 1..(n - 1) /\ (i - 1) + 1 = i
      BY <1>1, <3>2
    <3>4. f = eventlist'[i - 1]
      BY <1>1, <3>1, <3>3
    <3> QED
      BY <1>3, <3>3, <3>4
  <2> QED
    BY <2>1, <2>2
<1>11. ASSUME NEW q \in SeniorPairs'
       PROVE  q \in SeniorPairs /\ q[1] # e /\ q[2] # e
  <2>1. PICK i \in 1..(n - 1), j \in 1..(n - 1) :
            /\ i < j /\ q[1] = eventlist'[i] /\ q[2] = eventlist'[j]
            /\ Priority[eventlist'[i]] = Priority[eventlist'[j]]
    BY <1>7
  <2>2. /\ i + 1 \in 1..n /\ j + 1 \in 1..n /\ i + 1 < j + 1 /\ i + 1 # 1 /\ j + 1 # 1
        /\ eventlist'[i] = eventlist[i + 1] /\ eventlist'[j] = eventlist[j + 1]
    BY <1>1, <2>1
  <2>3. q[1] # e /\ q[2] # e
    BY <1>5, <2>1, <2>2
  <2>4. <<q[1], q[2]>> \in SeniorPairs
    BY <1>6, <2>1, <2>2
  <2> QED
    BY <1>7, <2>3, <2>4
<1>12. ASSUME NEW q \in SeniorPairs, q[1] # e, q[2] # e
       PROVE  q \in SeniorPairs'
  <2>1. PICK i \in 1..n, j \in 1..n :
            /\ i < j /\ q[1] = eventlist[i] /\ q[2] = eventlist[j]
            /\ Priority[eventlist[i]] = Priority[eventlist[j]]
    BY <1>6
  <2>2. i # 1 /\ j # 1
    BY <1>1, <1>12, <2>1
  <2>3. /\ i - 1 \in 1..(n - 1) /\ j - 1 \in 1..(n - 1) /\ i - 1 < j - 1
        /\ (i - 1) + 1 = i /\ (j - 1) + 1 = j
    BY <1>1, <2>1, <2>2
  <2>4. eventlist'[i - 1] = eventlist[i] /\ eventlist'[j - 1] = eventlist[j]
    BY <1>1, <2>3
  <2>5. <<q[1], q[2]>> \in SeniorPairs'
    BY <1>7, <2>1, <2>3, <2>4
  <2> QED
    BY <1>6, <2>5
<1>13. SeniorPairs' = {q \in SeniorPairs : q[1] # e /\ q[2] # e}
  BY <1>11, <1>12
<1> QED
  BY <1>8, <1>9, <1>10, <1>13 DEF Box!Take, Boxed

(***************************************************************************)
(* The queue implements the event box, for every set of events and every   *)
(* number of senders and receivers: each event that list_add_element       *)
(* inserts is handed out at most once, a higher priority before a lower    *)
(* one and equal priorities in the order of insertion.                     *)
(***************************************************************************)
THEOREM QueueImplementsBox == Spec => BoxSpec
<1> DEFINE IInv == TypeOK /\ Ordered
<1>1. Init => IInv /\ Box!Init
  <2> SUFFICES ASSUME Init PROVE IInv /\ Box!Init
    OBVIOUS
  <2>1. TypeOK /\ eventlist = <<>> /\ Len(eventlist) = 0 /\ DOMAIN eventlist = {}
    BY DEF Init, TypeOK
  <2>2. Ordered
    BY <2>1 DEF Ordered
  <2>3. Box!Init
    BY <2>1 DEF Box!Init, SeniorPairs
  <2> QED
    BY <2>1, <2>2, <2>3
<1>2. IInv /\ [Next]_vars => IInv'
  BY TypeOKStep, OrderedStep
<1>3. IInv /\ IInv' /\ [Next]_vars => [Box!Next]_(Box!vars)
  <2> SUFFICES ASSUME IInv, IInv', [Next]_vars
               PROVE  [Box!Next]_(Box!vars)
    OBVIOUS
  <2>1. ASSUME NEW e \in Events, Add(e)
        PROVE  Box!Next
    BY <2>1, AddPuts DEF Box!Next
  <2>2. ASSUME NEW r \in Receivers, Pop(r)
        PROVE  Box!Next
    <3>1. PICK e \in Events : e = Head(eventlist)
      BY <2>2 DEF Pop, ListPop, TypeOK
    <3> QED
      BY <2>2, <3>1, PopTakes DEF Box!Next
  <2>3. CASE UNCHANGED eventlist
    BY <2>3 DEF Box!vars, SeniorPairs
  <2> QED
    BY <2>1, <2>2, <2>3
    DEF Next, ReceiverStep, Call, WaitFails, SemTaken, TryMisses, PopEmpty, vars
<1> QED
  BY <1>1, <1>2, <1>3, PTL DEF Spec, BoxSpec, Box!Spec
=============================================================================
