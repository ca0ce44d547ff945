----------------------- MODULE OsalEventManagerProofs -----------------------
(***************************************************************************)
(* Proofs about event managers, for any events, categories and managers,   *)
(* and any finite sets of queues and senders: the types, that no list,     *)
(* owner or dispatch names a freed event, that no route leads to a freed   *)
(* queue, and that a queue deletion does not give up half-way.             *)
(***************************************************************************)
EXTENDS OsalEventManager, FiniteSetTheorems, SequenceTheorems, WellFoundedInduction, TLAPS

(***************************************************************************)
(* Every non-empty set of numbers has a least element.                     *)
(***************************************************************************)
LEMMA LeastNumber ==
    ASSUME NEW T, T \subseteq Nat, T # {}
    PROVE  \E x \in T : \A y \in T : x <= y
<1>1. PICK x \in T : \A y \in T : ~ (<<y, x>> \in OpToRel(<, Nat))
  BY NatLessThanWellFounded, WFMin
<1>2. \A y \in T : ~(y < x)
  BY <1>1 DEF OpToRel
<1> QED
  BY <1>2

(***************************************************************************)
(* The inner loop of unregister_handler takes one entry of the queue out   *)
(* of a route: the place k that it finds.                                  *)
(***************************************************************************)
LEMMA FirstIsRemoved ==
    ASSUME NEW seq \in Seq(Queues), NEW q, q \in Range(seq), NEW w, w = WithoutFirst(seq, q)
    PROVE  \E k \in 1..Len(seq) :
              /\ seq[k] = q
              /\ w \in Seq(Queues) /\ Len(w) = Len(seq) - 1
              /\ \A i \in 1..(k - 1) : w[i] = seq[i]
              /\ \A i \in k..(Len(seq) - 1) : w[i] = seq[i + 1]
<1> DEFINE I == {i \in 1..Len(seq) : seq[i] = q}
           k == Min(I)
           a == SubSeq(seq, 1, k - 1)
           b == SubSeq(seq, k + 1, Len(seq))
<1>1. I # {} /\ I \subseteq Nat
  BY DEF Range
<1>2. \E x \in I : \A y \in I : x <= y
  <2> HIDE DEF I
  <2> QED
    BY <1>1, LeastNumber
<1>3. k \in 1..Len(seq) /\ seq[k] = q
  BY <1>2 DEF Min
<1>4. SelectInSeq(seq, LAMBDA x : x = q) = k
  BY <1>1 DEF SelectInSeq
<1>5. w = RemoveAt(seq, k)
  BY <1>4 DEF WithoutFirst
<1> HIDE DEF k
<1>6. w = a \o b
  BY <1>5 DEF RemoveAt
<1>7. a \in Seq(Queues) /\ Len(a) = k - 1 /\ \A i \in 1..(k - 1) : a[i] = seq[i]
  BY <1>3
<1>8. /\ b \in Seq(Queues) /\ Len(b) = Len(seq) - k
      /\ \A i \in 1..(Len(seq) - k) : b[i] = seq[k + i]
  BY <1>3
<1> HIDE DEF a, b
<1>9. w \in Seq(Queues) /\ Len(w) = Len(a) + Len(b)
  BY <1>6, <1>7, <1>8, ConcatProperties
<1>10. ASSUME NEW i \in 1..(k - 1) PROVE w[i] = seq[i]
  BY <1>3, <1>6, <1>7, <1>8
<1>11. ASSUME NEW i \in k..(Len(seq) - 1) PROVE w[i] = seq[i + 1]
  <2>1. w[i] = b[i - (k - 1)]
    BY <1>3, <1>6, <1>7, <1>8
  <2>2. i - (k - 1) \in 1..(Len(seq) - k) /\ k + (i - (k - 1)) = i + 1
    BY <1>3
  <2> QED
    BY <1>8, <2>1, <2>2
<1> QED
  BY <1>3, <1>7, <1>8, <1>9, <1>10, <1>11

LEMMA WithoutFirstElements ==
    ASSUME NEW seq \in Seq(Queues), NEW q
    PROVE  /\ WithoutFirst(seq, q) \in Seq(Queues)
           /\ Range(WithoutFirst(seq, q)) \subseteq Range(seq)
           /\ Range(seq) \ {q} \subseteq Range(WithoutFirst(seq, q))
<1>1. CASE q \notin Range(seq)
  BY <1>1 DEF WithoutFirst
<1>2. CASE q \in Range(seq)
  <2> DEFINE w == WithoutFirst(seq, q)
  <2>1. PICK k \in 1..Len(seq) :
              /\ seq[k] = q
              /\ w \in Seq(Queues) /\ Len(w) = Len(seq) - 1
              /\ \A i \in 1..(k - 1) : w[i] = seq[i]
              /\ \A i \in k..(Len(seq) - 1) : w[i] = seq[i + 1]
    BY <1>2, FirstIsRemoved
  <2> HIDE DEF w
  <2>3. ASSUME NEW i \in 1..Len(w) PROVE w[i] \in Range(seq)
    <3>1. CASE i < k
      BY <2>1, <3>1 DEF Range
    <3>2. CASE i >= k
      <4>1. i + 1 \in DOMAIN seq /\ w[i] = seq[i + 1]
        BY <2>1, <3>2
      <4> QED
        BY <4>1 DEF Range
    <3> QED
      BY <2>1, <3>1, <3>2
  <2>4. ASSUME NEW i \in 1..Len(seq), seq[i] # q PROVE seq[i] \in Range(w)
    <3>1. CASE i < k
      <4>1. i \in DOMAIN w /\ w[i] = seq[i]
        BY <2>1, <3>1
      <4> QED
        BY <4>1 DEF Range
    <3>2. CASE i > k
      <4>1. i - 1 \in DOMAIN w /\ w[i - 1] = seq[i]
        BY <2>1, <3>2
      <4> QED
        BY <4>1 DEF Range
    <3> QED
      BY <2>1, <2>4, <3>1, <3>2
  <2>5. Range(w) \subseteq Range(seq)
    BY <2>1, <2>3 DEF Range
  <2>6. Range(seq) \ {q} \subseteq Range(w)
    BY <2>4 DEF Range
  <2> QED
    BY <2>1, <2>5, <2>6 DEF w
<1> QED
  BY <1>1, <1>2

(***************************************************************************)
(* Of a route that has no queue twice, the loop leaves no entry of q.      *)
(***************************************************************************)
NoRepeats(seq) == \A i, j \in DOMAIN seq : seq[i] = seq[j] => i = j

LEMMA WithoutFirstOnce ==
    ASSUME NEW seq \in Seq(Queues), NoRepeats(seq), NEW q
    PROVE  NoRepeats(WithoutFirst(seq, q)) /\ q \notin Range(WithoutFirst(seq, q))
<1>1. CASE q \notin Range(seq)
  BY <1>1 DEF WithoutFirst
<1>2. CASE q \in Range(seq)
  <2> DEFINE w == WithoutFirst(seq, q)
  <2>1. PICK k \in 1..Len(seq) :
              /\ seq[k] = q
              /\ w \in Seq(Queues) /\ Len(w) = Len(seq) - 1
              /\ \A i \in 1..(k - 1) : w[i] = seq[i]
              /\ \A i \in k..(Len(seq) - 1) : w[i] = seq[i + 1]
    BY <1>2, FirstIsRemoved
  <2> DEFINE at(i) == IF i < k THEN i ELSE i + 1
  <2>2. \A i \in DOMAIN w : i \in Int /\ at(i) \in DOMAIN seq /\ at(i) # k /\ w[i] = seq[at(i)]
    BY <2>1
  <2> HIDE DEF w
  <2>3. ASSUME NEW i \in DOMAIN w, NEW j \in DOMAIN w, w[i] = w[j] PROVE i = j
    <3>1. at(i) = at(j)
      <4> HIDE DEF at
      <4> QED
        BY <2>2, <2>3 DEF NoRepeats
    <3> QED
      BY <2>2, <3>1
  <2>4. ASSUME NEW i \in DOMAIN w PROVE w[i] # q
    <3> HIDE DEF at
    <3> QED
      BY <2>1, <2>2 DEF NoRepeats
  <2> QED
    BY <2>3, <2>4 DEF NoRepeats, Range, w
<1> QED
  BY <1>1, <1>2

-----------------------------------------------------------------------------
(***************************************************************************)
(* Types.  A sender that is not idle has an event, one that dispatches has *)
(* a manager, and only a walk has queues to visit; an owner has an event   *)
(* in its hand between taking and deleting it.                             *)
(***************************************************************************)
SenderShape(x) ==
    /\ x.pc = "idle" \/ x.e \in Events
    /\ x.pc = "idle" => x.e = NoEvent
    /\ x.pc \in {"idle", "created"} \/ x.em \in Managers
    /\ x.pc = "insert" => x.todo # <<>>
    /\ x.pc \in {"walk", "insert"} \/ x.todo = <<>>

Shape ==
    /\ \A s \in Senders : SenderShape(sender[s])
    /\ \A q \in Queues : IF own[q] \in {"have", "clear_have"}
                         THEN hand[q] \in Events ELSE hand[q] = NoEvent

Typed == TypeOK /\ Shape

EventType == [live : BOOLEAN, managed : BOOLEAN, users : Int]
SenderType == [pc : SenderPc, e : Events \cup {NoEvent},
               em : Managers \cup {NoManager}, todo : Seq(Queues)]

LEMMA DeletedType ==
    ASSUME TypeOK, NEW e \in Events
    PROVE  Deleted(e) \in [Events -> EventType]
<1> USE DEF EventType
<1>1. ev \in [Events -> EventType]
  BY DEF TypeOK
<1>2. [ev EXCEPT ![e].users = @ - 1] \in [Events -> EventType]
  BY <1>1
<1>3. [ev EXCEPT ![e] = Freed] \in [Events -> EventType]
  BY <1>1 DEF Freed
<1> QED
  BY <1>2, <1>3 DEF Deleted

\* A step that replaces one sender's record.
LEMMA SenderStepTyped ==
    ASSUME Typed, NEW s \in Senders, NEW x \in SenderType, SenderShape(x),
           sender' = [sender EXCEPT ![s] = x],
           ev' \in [Events -> EventType], content' \in [Queues -> Seq(Events)],
           refused' \subseteq Events, UNCHANGED <<routes, assoc, own, hand, pending, unrouted>>
    PROVE  Typed'
<1>1. TypeOK'
  BY DEF Typed, TypeOK, EventType, SenderType
<1>2. \A r \in Senders : sender'[r] = IF r = s THEN x ELSE sender[r]
  BY DEF Typed, TypeOK
<1>3. Shape'
  BY <1>2 DEF Typed, Shape
<1> QED
  BY <1>1, <1>3 DEF Typed

LEMMA SenderTyped ==
    ASSUME Typed, NEW s \in Senders, SenderStep(s)
    PROVE  Typed'
<1> USE DEF SenderShape
<1> DEFINE x == sender[s]
<1>0. /\ x \in SenderType /\ SenderShape(x)
      /\ ev \in [Events -> EventType] /\ content \in [Queues -> Seq(Events)]
      /\ refused \subseteq Events
  BY DEF Typed, TypeOK, Shape, SenderType, EventType
<1>a. Idle \in SenderType /\ SenderShape(Idle)
  BY DEF Idle, SenderType, SenderPc
<1>1. ASSUME NEW f \in Events, Create(s, f) PROVE Typed'
  <2> DEFINE y == [pc |-> "created", e |-> f, em |-> NoManager, todo |-> <<>>]
  <2>1. y \in SenderType /\ SenderShape(y)
    BY DEF SenderType, SenderPc
  <2>2. ev' \in [Events -> EventType]
    BY <1>0, <1>1 DEF Create, EventType
  <2> QED
    BY <1>0, <1>1, <2>1, <2>2, SenderStepTyped DEF Create, history
<1>2. ASSUME NEW q \in Queues, Post(s, q) PROVE Typed'
  <2>1. x.e \in Events
    BY <1>0, <1>2 DEF Post
  <2>2. ev' \in [Events -> EventType] /\ content' \in [Queues -> Seq(Events)]
    <3>1. CASE content' = [content EXCEPT ![q] = Append(@, x.e)] /\ ev' = ev
      BY <1>0, <2>1, <3>1
    <3>2. CASE content' = content /\ ev' = Deleted(x.e)
      BY <1>0, <2>1, <3>2, DeletedType DEF Typed
    <3> QED
      BY <1>2, <3>1, <3>2, Zenon DEF Post
  <2> QED
    BY <1>0, <1>2, <1>a, <2>2, SenderStepTyped DEF Post, history
<1>3. ASSUME NEW em \in Managers, DispatchBegin(s, em) PROVE Typed'
  <2> DEFINE y == [x EXCEPT !.pc = "begun", !.em = em]
  <2>1. y \in SenderType /\ SenderShape(y)
    BY <1>0, <1>3 DEF DispatchBegin, SenderType, SenderPc
  <2>2. ev' \in [Events -> EventType]
    BY <1>0, <1>3 DEF DispatchBegin, EventType
  <2>3. sender' = [sender EXCEPT ![s] = y]
    BY <1>3 DEF DispatchBegin, Typed, TypeOK
  <2> QED
    BY <1>0, <1>3, <2>1, <2>2, <2>3, SenderStepTyped DEF DispatchBegin, history
<1>4. ASSUME DispatchLock(s) PROVE Typed'
  <2> DEFINE y == [x EXCEPT !.pc = "walk", !.todo = routes[x.em][Category[x.e]]]
  <2>0. routes[x.em][Category[x.e]] \in Seq(Queues)
    BY <1>0, <1>4, ManagerConstants DEF DispatchLock, Typed, TypeOK
  <2>1. y \in SenderType /\ SenderShape(y)
    BY <1>0, <1>4, <2>0 DEF DispatchLock, SenderType, SenderPc
  <2>3. sender' = [sender EXCEPT ![s] = y]
    BY <1>4 DEF DispatchLock, Typed, TypeOK
  <2> QED
    BY <1>0, <1>4, <2>1, <2>3, SenderStepTyped DEF DispatchLock, history
<1>5. ASSUME DispatchCount(s) PROVE Typed'
  <2> DEFINE y == [x EXCEPT !.pc = "insert"]
  <2>1. y \in SenderType /\ SenderShape(y)
    BY <1>0, <1>5 DEF DispatchCount, SenderType, SenderPc
  <2>2. ev' \in [Events -> EventType]
    <3>1. x.e \in Events /\ ev' = [ev EXCEPT ![x.e].users = @ + 1]
      BY <1>0, <1>5 DEF DispatchCount
    <3>2. ev \in [Events -> EventType]
      BY <1>0
    <3> QED
      BY <3>1, <3>2 DEF EventType
  <2>3. sender' = [sender EXCEPT ![s] = y]
    BY <1>5 DEF DispatchCount, Typed, TypeOK
  <2> QED
    BY <1>0, <1>5, <2>1, <2>2, <2>3, SenderStepTyped DEF DispatchCount, history
<1>6. ASSUME DispatchInsert(s) \/ DispatchRefused(s) PROVE Typed'
  <2> DEFINE y == [x EXCEPT !.pc = "walk", !.todo = Tail(@)]
  <2>0. x.pc = "insert" /\ x.todo # <<>> /\ x.todo \in Seq(Queues) /\ x.e \in Events
    BY <1>0, <1>6 DEF DispatchInsert, DispatchRefused, SenderType
  <2>1. y \in SenderType /\ SenderShape(y)
    <3>1. Tail(x.todo) \in Seq(Queues)
      BY <2>0
    <3> QED
      BY <1>0, <2>0, <3>1 DEF SenderType, SenderPc
  <2>2. content' \in [Queues -> Seq(Events)]
    <3>1. CASE content' = [content EXCEPT ![Head(x.todo)] = Append(@, x.e)]
      BY <1>0, <2>0, <3>1
    <3>2. CASE content' = content
      BY <1>0, <3>2
    <3> QED
      BY <1>6, <3>1, <3>2, Zenon DEF DispatchInsert, DispatchRefused
  <2>3. sender' = [sender EXCEPT ![s] = y]
    BY <1>6 DEF DispatchInsert, DispatchRefused, Typed, TypeOK
  <2>4. refused' \subseteq Events /\ UNCHANGED <<routes, assoc, own, hand, pending, unrouted, ev>>
    BY <1>0, <1>6, <2>0 DEF DispatchInsert, DispatchRefused, history
  <2> QED
    BY <1>0, <2>1, <2>2, <2>3, <2>4, SenderStepTyped
<1>7. ASSUME DispatchUnlock(s) PROVE Typed'
  <2> DEFINE y == [x EXCEPT !.pc = "unlocked"]
  <2>1. y \in SenderType /\ SenderShape(y)
    BY <1>0, <1>7 DEF DispatchUnlock, SenderType, SenderPc
  <2>3. sender' = [sender EXCEPT ![s] = y]
    BY <1>7 DEF DispatchUnlock, Typed, TypeOK
  <2> QED
    BY <1>0, <1>7, <2>1, <2>3, SenderStepTyped DEF DispatchUnlock, history
<1>8. ASSUME DispatchEnd(s) PROVE Typed'
  BY <1>0, <1>8, <1>a, DeletedType, SenderStepTyped DEF DispatchEnd, Typed, history
<1> QED
  BY <1>1, <1>2, <1>3, <1>4, <1>5, <1>6, <1>7, <1>8 DEF SenderStep, DispatchStep

LEMMA OwnerTyped ==
    ASSUME Typed, NEW q \in Queues, OwnerStep(q)
    PROVE  Typed'
<1> USE DEF Typed, TypeOK, Shape, OwnerPc, history
<1>1. ASSUME NEW em \in Managers, NEW c \in Categories, Register(q, em, c)
      PROVE  Typed'
  BY <1>1 DEF Register, Associated
<1>2. ASSUME NEW em \in Managers, NEW c \in Categories, RegisterNoRoute(q, em, c)
      PROVE  Typed'
  BY <1>2 DEF RegisterNoRoute, Associated
<1>3. ASSUME NEW em \in Managers, UnregisterHandler(q, em)
      PROVE  /\ routes' \in [Managers -> [Categories -> Seq(Queues)]]
             /\ assoc' \in [Queues -> SUBSET Managers]
             /\ unrouted' \subseteq Queues \X Managers
  BY <1>3, WithoutFirstElements DEF UnregisterHandler
<1>4. ASSUME NEW em \in Managers, Unregister(q, em) \/ QueueLeave(q, em)
      PROVE  Typed'
  BY <1>3, <1>4, ZenonT(60) DEF Unregister, QueueLeave
<1>5. ASSUME NEW em \in Managers, QueueDeleteFails(q, em)
      PROVE  Typed'
  BY <1>5 DEF QueueDeleteFails
<1>6. ASSUME Receive(q) \/ ClearPop(q) PROVE Typed'
  <2>1. content[q] # <<>> /\ content[q] \in Seq(Events)
    BY <1>6 DEF Receive, ClearPop, Pop
  <2>2. Head(content[q]) \in Events /\ Tail(content[q]) \in Seq(Events)
    BY <2>1
  <2>3. content' \in [Queues -> Seq(Events)] /\ hand' \in [Queues -> Events \cup {NoEvent}]
    <3>1. /\ content' = [content EXCEPT ![q] = Tail(content[q])]
          /\ hand' = [hand EXCEPT ![q] = Head(content[q])]
      BY <1>6 DEF Receive, ClearPop, Pop
    <3>2. content \in [Queues -> Seq(Events)] /\ hand \in [Queues -> Events \cup {NoEvent}]
      OBVIOUS
    <3> QED
      BY <2>2, <3>1, <3>2, Zenon
  <2> QED
    BY <1>6, <2>2, <2>3 DEF Receive, ClearPop, Pop
<1>7. ASSUME Processed(q) \/ ClearDelete(q) PROVE Typed'
  <2>1. hand[q] \in Events
    BY <1>7 DEF Processed, ClearDelete, DeleteEvent
  <2>2. ev' \in [Events -> [live : BOOLEAN, managed : BOOLEAN, users : Int]]
    BY <1>7, <2>1, DeletedType DEF Processed, ClearDelete, DeleteEvent, EventType
  <2> QED
    BY <1>7, <2>2 DEF Processed, ClearDelete, DeleteEvent
<1>8. ASSUME QueueDelete(q) \/ QueueClear(q) \/ QueueFree(q) \/ QueueCreate(q)
      PROVE  Typed'
  BY <1>8 DEF QueueDelete, QueueClear, QueueFree, QueueCreate
<1> QED
  BY <1>1, <1>2, <1>4, <1>5, <1>6, <1>7, <1>8 DEF OwnerStep, DeleteStep

LEMMA InitTyped == Init => Typed
BY DEF Init, Typed, TypeOK, Shape, SenderShape, Idle, Freed, OwnerPc, SenderPc

LEMMA TypedInvariant == Spec => []Typed
<1>1. Init => Typed
  BY InitTyped
<1>2. Typed /\ [Next]_vars => Typed'
  <2> SUFFICES ASSUME Typed, [Next]_vars
               PROVE  Typed'
    OBVIOUS
  <2>1. CASE UNCHANGED vars
    BY <2>1 DEF vars, Typed, TypeOK, Shape
  <2> QED
    BY <2>1, SenderTyped, OwnerTyped DEF Next
<1> QED
  BY <1>1, <1>2, PTL DEF Spec

(***************************************************************************)
(* The managers' variables keep their types: a walk only visits queues, a  *)
(* list only gets events, and every delete call has an event to delete.    *)
(***************************************************************************)
THEOREM ManagerTypes == Spec => []TypeOK
BY TypedInvariant, PTL DEF Typed

-----------------------------------------------------------------------------
(***************************************************************************)
(* Routes.  An owner registers once for a category, and a queue has a slot *)
(* for every manager (MAX_EVENTMANAGER_PER_QUEUE).                         *)
(***************************************************************************)
RegistersOnce ==
    MaxRegister = 1 /\ IsFiniteSet(Managers) /\ Cardinality(Managers) <= MaxManagers

Leaving == {"clear", "clear_have", "freed"}

\* No queue is twice on a route, and every manager that routes to a queue is in the
\* queue's array.
OneEntry == \A em \in Managers : \A c \in Categories : NoRepeats(routes[em][c])
RoutesKnown == \A q \in Queues : \A em \in Managers : Routed(q, em) => em \in assoc[q]

\* A deletion has yet to leave exactly the managers of the array ...
DeletesKnown == \A q \in Queues : own[q] = "unregister" => pending[q] = assoc[q]

\* ... so that no route is left when the queue is cleared.
GoneUnrouted == \A q \in Queues : own[q] \in Leaving => \A em \in Managers : ~Routed(q, em)

\* A walk, which holds the manager's mutex, visits queues that are on the route.
WalksRoute ==
    \A s \in Senders : sender[s].pc \in {"walk", "insert"} =>
        Range(sender[s].todo) \subseteq Range(routes[sender[s].em][Category[sender[s].e]])

RouteInv == OneEntry /\ RoutesKnown /\ DeletesKnown /\ GoneUnrouted

\* register_handler adds one entry to one route.
LEMMA RegisterRoutes ==
    ASSUME TypeOK, NEW q \in Queues, NEW em \in Managers, NEW c \in Categories,
           routes' = [routes EXCEPT ![em][c] = <<q>> \o @]
    PROVE  /\ \A r \in Queues : \A m \in Managers :
                 Routed(r, m)' <=> Routed(r, m) \/ (r = q /\ m = em)
           /\ \A m \in Managers : m # em => routes'[m] = routes[m]
           /\ OneEntry /\ Places(q, routes[em][c]) = {} => OneEntry'
<1> DEFINE old == routes[em][c]
           new == routes'[em][c]
<1>1. /\ old \in Seq(Queues) /\ new = <<q>> \o old
      /\ \A m \in Managers : m # em => routes'[m] = routes[m]
      /\ \A d \in Categories : d # c => routes'[em][d] = routes[em][d]
  BY DEF TypeOK
<1>2. /\ DOMAIN old = 1..Len(old) /\ DOMAIN new = 1..(Len(old) + 1) /\ Len(old) \in Nat
      /\ new[1] = q /\ \A i \in 1..Len(old) : new[i + 1] = old[i]
  <2>1. <<q>> \in Seq(Queues) /\ Len(<<q>>) = 1 /\ <<q>>[1] = q
    OBVIOUS
  <2>2. new \in Seq(Queues) /\ Len(new) = Len(old) + 1
    BY <1>1, <2>1, ConcatProperties
  <2>3. new[1] = q /\ \A i \in 1..Len(old) : new[i + 1] = old[i]
    BY <1>1, <2>1
  <2> QED
    BY <1>1, <2>2, <2>3, LenProperties
<1> HIDE DEF old, new
<1>3. Range(new) = Range(old) \cup {q}
  <2>1. ASSUME NEW i \in DOMAIN new PROVE new[i] \in Range(old) \cup {q}
    <3>1. CASE i = 1
      BY <1>2, <3>1
    <3>2. CASE i # 1
      <4>1. i - 1 \in 1..Len(old) /\ (i - 1) + 1 = i
        BY <1>2, <3>2
      <4> QED
        BY <1>2, <4>1 DEF Range
    <3> QED
      BY <3>1, <3>2
  <2>2. ASSUME NEW i \in DOMAIN old PROVE old[i] \in Range(new)
    <3>1. i + 1 \in DOMAIN new /\ new[i + 1] = old[i]
      BY <1>2
    <3> QED
      BY <3>1 DEF Range
  <2>3. q \in Range(new)
    <3>1. 1 \in DOMAIN new
      BY <1>2
    <3> QED
      BY <1>2, <3>1 DEF Range
  <2> QED
    BY <2>1, <2>2, <2>3 DEF Range
<1>4. ASSUME NEW r \in Queues, NEW m \in Managers
      PROVE  Routed(r, m)' <=> Routed(r, m) \/ (r = q /\ m = em)
  <2>1. CASE m # em
    BY <1>1, <2>1 DEF Routed
  <2>2. CASE m = em
    BY <1>1, <1>3, <2>2 DEF Routed, old, new
  <2> QED
    BY <2>1, <2>2
<1>5. ASSUME OneEntry, Places(q, routes[em][c]) = {} PROVE OneEntry'
  <2>1. NoRepeats(old) /\ \A i \in DOMAIN old : old[i] # q
    BY <1>5 DEF OneEntry, Places, old
  <2>2. ASSUME NEW i \in DOMAIN new, NEW j \in DOMAIN new, new[i] = new[j] PROVE i = j
    <3>1. \A k \in DOMAIN new : k # 1 => k - 1 \in DOMAIN old /\ new[k] = old[k - 1]
      <4>1. ASSUME NEW k \in DOMAIN new, k # 1 PROVE k - 1 \in DOMAIN old /\ new[k] = old[k - 1]
        <5>1. k - 1 \in 1..Len(old) /\ (k - 1) + 1 = k
          BY <1>2, <4>1
        <5> QED
          BY <1>2, <5>1
      <4> QED
        BY <4>1
    <3>2. CASE i = 1 \/ j = 1
      BY <1>2, <2>1, <2>2, <3>1, <3>2
    <3>3. CASE i # 1 /\ j # 1
      <4>1. i - 1 = j - 1
        BY <2>1, <2>2, <3>1, <3>3 DEF NoRepeats
      <4> QED
        BY <1>2, <4>1
    <3> QED
      BY <3>2, <3>3
  <2>3. NoRepeats(new)
    BY <2>2 DEF NoRepeats
  <2>4. ASSUME NEW m \in Managers, NEW d \in Categories PROVE NoRepeats(routes'[m][d])
    <3>1. CASE m = em /\ d = c
      BY <2>3, <3>1 DEF new
    <3>2. CASE ~(m = em /\ d = c)
      <4>1. routes'[m][d] = routes[m][d]
        BY <1>1, <3>2
      <4> QED
        BY <1>5, <4>1 DEF OneEntry
    <3> QED
      BY <3>1, <3>2
  <2> QED
    BY <2>4 DEF OneEntry, NoRepeats
<1> QED
  BY <1>1, <1>4, <1>5

\* unregister_handler takes one entry of q off every route of em that has one.
LEMMA UnregisterRoutes ==
    ASSUME TypeOK, NEW q \in Queues, NEW em \in Managers,
           routes' = [routes EXCEPT ![em] =
                         [c \in Categories |-> WithoutFirst(routes[em][c], q)]]
    PROVE  /\ \A r \in Queues : \A m \in Managers :
                 r # q \/ m # em => (Routed(r, m)' <=> Routed(r, m))
           /\ \A m \in Managers : m # em => routes'[m] = routes[m]
           /\ OneEntry => OneEntry' /\ ~Routed(q, em)'
<1>1. /\ \A m \in Managers : m # em => routes'[m] = routes[m]
      /\ \A c \in Categories : /\ routes[em][c] \in Seq(Queues)
                               /\ routes'[em][c] = WithoutFirst(routes[em][c], q)
  BY DEF TypeOK
<1>2. ASSUME NEW r \in Queues, NEW m \in Managers, r # q \/ m # em
      PROVE  Routed(r, m)' <=> Routed(r, m)
  <2>1. CASE m # em
    BY <1>1, <2>1 DEF Routed
  <2>2. CASE m = em
    <3>1. \A c \in Categories : r \in Range(routes'[em][c]) <=> r \in Range(routes[em][c])
      BY <1>1, <1>2, <2>2, WithoutFirstElements
    <3> QED
      BY <2>2, <3>1 DEF Routed
  <2> QED
    BY <2>1, <2>2
<1>3. ASSUME OneEntry PROVE OneEntry' /\ ~Routed(q, em)'
  <2>1. \A c \in Categories : NoRepeats(routes'[em][c]) /\ q \notin Range(routes'[em][c])
    BY <1>1, <1>3, WithoutFirstOnce DEF OneEntry
  <2>2. \A m \in Managers : \A c \in Categories : NoRepeats(routes'[m][c])
    BY <1>1, <1>3, <2>1 DEF OneEntry
  <2> QED
    BY <2>1, <2>2 DEF Routed, OneEntry, NoRepeats
<1> QED
  BY <1>1, <1>2, <1>3

\* associate_eventmanager finds a slot.
LEMMA SlotFound ==
    ASSUME TypeOK, RegistersOnce, NEW q \in Queues, NEW em \in Managers
    PROVE  Associated(q, em) = [assoc EXCEPT ![q] = @ \cup {em}]
<1>1. CASE em \in assoc[q]
  BY <1>1 DEF Associated
<1>2. CASE em \notin assoc[q]
  <2>1. assoc[q] \in SUBSET Managers /\ assoc[q] # Managers
    BY <1>2 DEF TypeOK
  <2>2. /\ Cardinality(assoc[q]) <= Cardinality(Managers)
        /\ Cardinality(Managers) # Cardinality(assoc[q])
        /\ Cardinality(assoc[q]) \in Nat /\ Cardinality(Managers) \in Nat
    BY <2>1, FS_Subset, FS_CardinalityType DEF RegistersOnce
  <2>3. Cardinality(assoc[q]) < MaxManagers
    BY <2>2, ManagerConstants DEF RegistersOnce
  <2> QED
    BY <2>3 DEF Associated
<1> QED
  BY <1>1, <1>2

LEMMA InitRoutes == Init => RouteInv
BY DEF Init, RouteInv, OneEntry, NoRepeats, RoutesKnown, DeletesKnown, GoneUnrouted, Routed,
   Range, Leaving

LEMMA RouteStep ==
    ASSUME TypeOK, RegistersOnce, RouteInv, [Next]_vars
    PROVE  RouteInv'
<1> USE DEF RouteInv, RoutesKnown, DeletesKnown, GoneUnrouted, Leaving
<1>a. ASSUME routes' = routes
      PROVE  OneEntry' /\ \A q \in Queues : \A em \in Managers : Routed(q, em)' <=> Routed(q, em)
  BY <1>a DEF OneEntry, Routed
<1>1. CASE UNCHANGED <<routes, assoc, own, pending>>
  BY <1>1, <1>a
<1>2. ASSUME NEW q \in Queues, NEW em \in Managers, NEW c \in Categories, Register(q, em, c)
      PROVE  RouteInv'
  <2>1. Places(q, routes[em][c]) = {}
    <3>1. Places(q, routes[em][c]) \subseteq 1..Len(routes[em][c]) /\ Len(routes[em][c]) \in Nat
      BY DEF TypeOK, Places
    <3>2. IsFiniteSet(Places(q, routes[em][c]))
      <4>1. IsFiniteSet(1..Len(routes[em][c]))
        BY <3>1, FS_Interval
      <4> QED
        BY <3>1, <4>1, FS_Subset
    <3>3. Cardinality(Places(q, routes[em][c])) \in Nat
      BY <3>2, FS_CardinalityType
    <3>4. Cardinality(Places(q, routes[em][c])) = 0
      BY <1>2, <3>3 DEF Register, RegistersOnce
    <3> QED
      BY <3>2, <3>4, FS_EmptySet
  <2>2. /\ OneEntry'
        /\ \A r \in Queues : \A m \in Managers :
              Routed(r, m)' <=> Routed(r, m) \/ (r = q /\ m = em)
    <3>1. routes' = [routes EXCEPT ![em][c] = <<q>> \o @] /\ OneEntry
      BY <1>2 DEF Register
    <3>2. /\ \A r \in Queues : \A m \in Managers :
                Routed(r, m)' <=> Routed(r, m) \/ (r = q /\ m = em)
          /\ OneEntry /\ Places(q, routes[em][c]) = {} => OneEntry'
      BY <3>1, RegisterRoutes, Zenon
    <3> QED
      BY <2>1, <3>1, <3>2, Zenon
  <2>3. assoc' = [assoc EXCEPT ![q] = @ \cup {em}]
    BY <1>2, SlotFound DEF Register
  <2> QED
    BY <1>2, <2>2, <2>3 DEF Register, TypeOK
<1>3. ASSUME NEW q \in Queues, NEW em \in Managers, NEW c \in Categories, RegisterNoRoute(q, em, c)
      PROVE  RouteInv'
  <2>1. /\ assoc' = [assoc EXCEPT ![q] = @ \cup {em}] /\ own[q] = "run"
        /\ UNCHANGED <<routes, own, pending>>
    BY <1>3, SlotFound DEF RegisterNoRoute
  <2> QED
    BY <1>a, <2>1 DEF TypeOK
<1>4. ASSUME NEW q \in Queues, NEW em \in Managers, UnregisterHandler(q, em)
      PROVE  /\ OneEntry' /\ RoutesKnown'
             /\ \A r \in Queues : \A m \in Managers : Routed(r, m)' => Routed(r, m)
             /\ assoc' = [assoc EXCEPT ![q] = @ \ {em}]
  <2>1. /\ OneEntry' /\ ~Routed(q, em)'
        /\ \A r \in Queues : \A m \in Managers :
              r # q \/ m # em => (Routed(r, m)' <=> Routed(r, m))
    BY <1>4, UnregisterRoutes DEF UnregisterHandler
  <2> QED
    BY <1>4, <2>1 DEF UnregisterHandler, TypeOK
<1>5. ASSUME NEW q \in Queues, NEW em \in Managers, Unregister(q, em)
      PROVE  RouteInv'
  BY <1>4, <1>5 DEF Unregister, TypeOK
<1>6. ASSUME NEW q \in Queues, NEW em \in Managers, QueueLeave(q, em)
      PROVE  RouteInv'
  <2>1. /\ OneEntry' /\ RoutesKnown'
        /\ \A r \in Queues : \A m \in Managers : Routed(r, m)' => Routed(r, m)
        /\ assoc' = [assoc EXCEPT ![q] = @ \ {em}]
    BY <1>4, <1>6 DEF QueueLeave
  <2>2. pending' = [pending EXCEPT ![q] = @ \ {em}] /\ own' = own
    BY <1>6 DEF QueueLeave
  <2>3. DeletesKnown'
    BY <2>1, <2>2 DEF TypeOK
  <2>4. GoneUnrouted'
    BY <2>1, <2>2 DEF TypeOK
  <2> QED
    BY <2>1, <2>3, <2>4
<1>7. ASSUME NEW q \in Queues, NEW em \in Managers, QueueDeleteFails(q, em)
      PROVE  RouteInv'
  BY <1>7, <1>a DEF QueueDeleteFails, TypeOK
<1>8. ASSUME NEW q \in Queues, Receive(q) \/ Processed(q) \/ ClearPop(q) \/ ClearDelete(q)
      PROVE  RouteInv'
  BY <1>8, <1>a DEF Receive, Processed, ClearPop, ClearDelete, Pop, DeleteEvent, TypeOK
<1>9. ASSUME NEW q \in Queues, QueueDelete(q)
      PROVE  RouteInv'
  BY <1>9, <1>a DEF QueueDelete, TypeOK
<1>10. ASSUME NEW q \in Queues, QueueClear(q)
       PROVE  RouteInv'
  BY <1>10, <1>a DEF QueueClear, TypeOK
<1>11. ASSUME NEW q \in Queues, QueueFree(q)
       PROVE  RouteInv'
  BY <1>11, <1>a DEF QueueFree, TypeOK
<1>12. ASSUME NEW q \in Queues, QueueCreate(q)
       PROVE  RouteInv'
  BY <1>12, <1>a, SMTT(30) DEF QueueCreate, TypeOK
<1>13. ASSUME NEW s \in Senders, SenderStep(s)
       PROVE  UNCHANGED <<routes, assoc, own, pending>>
  BY <1>13 DEF SenderStep, DispatchStep, Create, Post, DispatchBegin, DispatchLock,
     DispatchCount, DispatchInsert, DispatchRefused, DispatchUnlock, DispatchEnd
<1>14. CASE UNCHANGED vars
  BY <1>1, <1>14 DEF vars
<1> HIDE DEF RouteInv
<1> QED
  BY <1>1, <1>2, <1>3, <1>5, <1>6, <1>7, <1>8, <1>9, <1>10, <1>11, <1>12, <1>13, <1>14
     DEF Next, OwnerStep, DeleteStep

\* Nobody changes the routes of a manager while a dispatch holds its mutex.
LEMMA WalkStep ==
    ASSUME Typed, WalksRoute, [Next]_vars
    PROVE  WalksRoute'
<1> USE DEF Typed, TypeOK, WalksRoute
<1>1. ASSUME sender' = sender, routes' = routes PROVE WalksRoute'
  BY <1>1
<1>2. ASSUME NEW em \in Managers, ~Locked(em), sender' = sender,
             \A m \in Managers : m # em => routes'[m] = routes[m]
      PROVE  WalksRoute'
  <2> SUFFICES ASSUME NEW s \in Senders, sender[s].pc \in {"walk", "insert"}
               PROVE  Range(sender[s].todo)
                        \subseteq Range(routes'[sender[s].em][Category[sender[s].e]])
    BY <1>2
  <2>1. sender[s].em \in Managers /\ sender[s].em # em
    BY <1>2 DEF Locked, Shape, SenderShape
  <2>2. routes'[sender[s].em] = routes[sender[s].em]
    BY <1>2, <2>1
  <2> QED
    BY <2>2
<1>3. ASSUME NEW q \in Queues, OwnerStep(q) PROVE WalksRoute'
  <2>1. ASSUME NEW em \in Managers, NEW c \in Categories, Register(q, em, c) PROVE WalksRoute'
    BY <1>2, <2>1, RegisterRoutes DEF Register
  <2>2. ASSUME NEW em \in Managers, Unregister(q, em) \/ QueueLeave(q, em) PROVE WalksRoute'
    BY <1>2, <2>2, UnregisterRoutes DEF Unregister, QueueLeave, UnregisterHandler
  <2>3. CASE sender' = sender /\ routes' = routes
    BY <1>1, <2>3
  <2> HIDE DEF Typed, TypeOK, WalksRoute
  <2> QED
    BY <1>3, <2>1, <2>2, <2>3 DEF OwnerStep, DeleteStep, RegisterNoRoute, QueueDeleteFails,
       Receive, Processed, QueueDelete, QueueClear, ClearPop, ClearDelete, QueueFree,
       QueueCreate, Pop, DeleteEvent
<1>4. ASSUME NEW s \in Senders, SenderStep(s) PROVE WalksRoute'
  <2> DEFINE x == sender[s]
             y == sender'[s]
  <2>0. /\ routes' = routes
        /\ \A r \in Senders : r # s => sender'[r] = sender[r]
    BY <1>4 DEF SenderStep, DispatchStep, Create, Post, DispatchBegin, DispatchLock,
       DispatchCount, DispatchInsert, DispatchRefused, DispatchUnlock, DispatchEnd
  <2>1. CASE y.pc \notin {"walk", "insert"}
    BY <2>0, <2>1
  <2>2. CASE DispatchLock(s)
    <3>1. y.e = x.e /\ y.em = x.em /\ y.todo = routes[x.em][Category[x.e]]
      BY <2>2 DEF DispatchLock
    <3> QED
      BY <2>0, <3>1
  <2>3. CASE DispatchCount(s)
    <3>1. y.e = x.e /\ y.em = x.em /\ y.todo = x.todo /\ x.pc = "walk"
      BY <2>3 DEF DispatchCount
    <3> QED
      BY <2>0, <3>1
  <2>4. CASE DispatchInsert(s) \/ DispatchRefused(s)
    <3>1. /\ y.e = x.e /\ y.em = x.em /\ y.todo = Tail(x.todo) /\ x.pc = "insert"
          /\ x.todo \in Seq(Queues) /\ x.todo # <<>>
      BY <2>4, ZenonT(60) DEF DispatchInsert, DispatchRefused, Shape, SenderShape
    <3>2. Range(Tail(x.todo)) \subseteq Range(x.todo)
      BY <3>1, HeadTailProperties, LenProperties DEF Range
    <3> QED
      BY <2>0, <3>1, <3>2
  <2>5. ASSUME NEW e \in Events, Create(s, e) PROVE y.pc = "created"
    BY <2>5 DEF Create
  <2>6. ASSUME NEW q \in Queues, Post(s, q) PROVE y.pc = "idle"
    BY <2>6 DEF Post, Idle
  <2>7. ASSUME NEW em \in Managers, DispatchBegin(s, em) PROVE y.pc = "begun"
    BY <2>7 DEF DispatchBegin
  <2>8. DispatchUnlock(s) => y.pc = "unlocked"
    BY DEF DispatchUnlock
  <2>9. DispatchEnd(s) => y.pc = "idle"
    BY DEF DispatchEnd, Idle
  <2> QED
    BY <1>4, <2>1, <2>2, <2>3, <2>4, <2>5, <2>6, <2>7, <2>8, <2>9 DEF SenderStep, DispatchStep
<1>5. CASE UNCHANGED vars
  BY <1>1, <1>5 DEF vars
<1> QED
  BY <1>3, <1>4, <1>5 DEF Next

(***************************************************************************)
(* No dispatch adds to a freed queue: when every owner registers once for  *)
(* a category and no queue runs out of manager slots, a queue that is      *)
(* being cleared or is freed is on no route and in no walk, even when      *)
(* allocations fail.                                                       *)
(***************************************************************************)
THEOREM ManagerNoRouteToFreedQueue ==
    ASSUME RegistersOnce
    PROVE  Spec => []NoRouteToFreedQueue
<1>1. Init => RouteInv /\ WalksRoute
  BY InitRoutes DEF Init, WalksRoute, Idle
<1>2. Typed /\ RouteInv /\ WalksRoute /\ [Next]_vars => RouteInv' /\ WalksRoute'
  BY RouteStep, WalkStep DEF Typed
<1>3. Typed /\ RouteInv /\ WalksRoute => NoRouteToFreedQueue
  <2> SUFFICES ASSUME Typed, RouteInv, WalksRoute, NEW q \in Queues, own[q] \in Leaving
               PROVE  /\ \A em \in Managers : ~Routed(q, em)
                      /\ \A s \in Senders : q \notin Range(sender[s].todo)
    BY DEF NoRouteToFreedQueue, Leaving
  <2>1. \A em \in Managers : ~Routed(q, em)
    BY DEF RouteInv, GoneUnrouted
  <2>2. ASSUME NEW s \in Senders PROVE q \notin Range(sender[s].todo)
    <3>1. CASE sender[s].pc \notin {"walk", "insert"}
      BY <3>1 DEF Typed, Shape, SenderShape, Range
    <3>2. CASE sender[s].pc \in {"walk", "insert"}
      <4>1. sender[s].em \in Managers /\ Category[sender[s].e] \in Categories
        BY <3>2, ManagerConstants DEF Typed, Shape, SenderShape
      <4> QED
        BY <2>1, <3>2, <4>1 DEF WalksRoute, Routed
    <3> QED
      BY <3>1, <3>2
  <2> QED
    BY <2>1, <2>2
<1> QED
  BY <1>1, <1>2, <1>3, TypedInvariant, PTL DEF Spec

-----------------------------------------------------------------------------
(***************************************************************************)
(* References.  Each kind of reference to an event is a finite set, and a  *)
(* step changes at most one member of each.                                *)
(***************************************************************************)
CreatedBy(e) == {s \in Senders : sender[s].e = e /\ sender[s].pc = "created"}

One(b) == IF b THEN 1 ELSE 0

LEMMA MemberReplaced ==
    ASSUME NEW A, IsFiniteSet(A), NEW B, NEW x, NEW b \in BOOLEAN,
           \A y : y \in B <=> IF y = x THEN b ELSE y \in A
    PROVE  /\ IsFiniteSet(B)
           /\ Cardinality(B) = Cardinality(A) - One(x \in A) + One(b)
<1>1. /\ IsFiniteSet(A \ {x})
      /\ Cardinality(A \ {x}) = Cardinality(A) - One(x \in A)
  BY FS_RemoveElement, FS_CardinalityType DEF One
<1>2. CASE b
  <2>1. B = (A \ {x}) \cup {x}
    BY <1>2
  <2> QED
    BY <1>1, <1>2, <2>1, FS_AddElement DEF One
<1>3. CASE ~b
  <2>1. B = A \ {x}
    BY <1>3
  <2>2. Cardinality(A \ {x}) \in Nat
    BY <1>1, FS_CardinalityType
  <2> QED
    BY <1>1, <1>3, <2>1, <2>2 DEF One
<1> QED
  BY <1>2, <1>3

LEMMA QueuedMembers ==
    ASSUME NEW e
    PROVE  \A p : p \in QueuedRefs(e) <=>
              \E q \in Queues : \E i \in DOMAIN content[q] : p = <<q, i>> /\ content[q][i] = e
BY DEF QueuedRefs, Places

LEMMA RefsFinite ==
    ASSUME TypeOK, NEW e \in Events
    PROVE  /\ IsFiniteSet(QueuedRefs(e)) /\ Cardinality(QueuedRefs(e)) \in Nat
           /\ IsFiniteSet(HeldRefs(e)) /\ Cardinality(HeldRefs(e)) \in Nat
           /\ IsFiniteSet(DispatchRefs(e)) /\ Cardinality(DispatchRefs(e)) \in Nat
           /\ IsFiniteSet(InsertRefs(e)) /\ Cardinality(InsertRefs(e)) \in Nat
           /\ IsFiniteSet(CreatedBy(e)) /\ Cardinality(CreatedBy(e)) \in Nat
<1>1. IsFiniteSet(HeldRefs(e))
  BY FS_Subset, ManagerConstants DEF HeldRefs
<1>2. IsFiniteSet(DispatchRefs(e)) /\ IsFiniteSet(InsertRefs(e)) /\ IsFiniteSet(CreatedBy(e))
  BY FS_Subset, ManagerConstants DEF DispatchRefs, InsertRefs, CreatedBy
<1>3. IsFiniteSet(QueuedRefs(e))
  <2> DEFINE Entries(q) == {<<q, i>> : i \in Places(e, content[q])}
  <2>1. ASSUME NEW q \in Queues PROVE IsFiniteSet(Entries(q))
    <3> DEFINE P == Places(e, content[q])
               g == [i \in P |-> <<q, i>>]
    <3>1. P \subseteq 1..Len(content[q]) /\ Len(content[q]) \in Nat
      BY DEF TypeOK, Places
    <3>2. IsFiniteSet(P)
      <4>1. IsFiniteSet(1..Len(content[q]))
        BY <3>1, FS_Interval
      <4> QED
        BY <3>1, <4>1, FS_Subset
    <3> HIDE DEF P
    <3>3. g \in Surjection(P, Entries(q))
      BY DEF Surjection, P
    <3> QED
      BY <3>2, <3>3, FS_Surjection
  <2> DEFINE g == [q \in Queues |-> Entries(q)]
             T == {Entries(q) : q \in Queues}
  <2>2. g \in Surjection(Queues, T)
    BY DEF Surjection
  <2>3. IsFiniteSet(T)
    BY <2>2, FS_Surjection, ManagerConstants
  <2>4. \A U \in T : IsFiniteSet(U)
    BY <2>1
  <2> HIDE DEF T
  <2>5. IsFiniteSet(UNION T)
    BY <2>3, <2>4, FS_UNION
  <2> QED
    BY <2>5 DEF QueuedRefs, T
<1> QED
  BY <1>1, <1>2, <1>3, FS_CardinalityType

\* An entry is added at the end of a list.
LEMMA QueuedAdded ==
    ASSUME TypeOK, NEW q \in Queues, NEW e \in Events, NEW f \in Events,
           content' = [content EXCEPT ![q] = Append(@, e)]
    PROVE  Cardinality(QueuedRefs(f)') = Cardinality(QueuedRefs(f)) + One(f = e)
<1> DEFINE n == Len(content[q]) + 1
<1>0. /\ \A r \in Queues : content[r] \in Seq(Events)
      /\ \A r \in Queues : r # q => content'[r] = content[r]
      /\ content'[q] = Append(content[q], e)
      /\ n \in Nat
  BY DEF TypeOK
<1>1. /\ DOMAIN content'[q] = 1..n
      /\ content'[q][n] = e
      /\ \A i \in DOMAIN content[q] : i # n /\ i \in 1..n /\ content'[q][i] = content[q][i]
      /\ \A i \in 1..n : i # n => i \in DOMAIN content[q]
  BY <1>0
<1> HIDE DEF n
<1>2. \A p : p \in QueuedRefs(f)' <=>
         \E r \in Queues : \E i \in DOMAIN content'[r] : p = <<r, i>> /\ content'[r][i] = f
  BY DEF QueuedRefs, Places
<1>3. \A p : p \in QueuedRefs(f)' <=> IF p = <<q, n>> THEN f = e ELSE p \in QueuedRefs(f)
  <2>1. ASSUME NEW p PROVE p \in QueuedRefs(f)' <=> IF p = <<q, n>> THEN f = e ELSE p \in QueuedRefs(f)
    <3>1. CASE p = <<q, n>>
      <4>1. n \in DOMAIN content'[q]
        BY <1>0, <1>1
      <4> QED
        BY <1>0, <1>1, <1>2, <3>1, <4>1
    <3>2. CASE p # <<q, n>>
      <4>1. p \in QueuedRefs(f) => p \in QueuedRefs(f)'
        BY <1>0, <1>1, <1>2, QueuedMembers
      <4>2. p \in QueuedRefs(f)' => p \in QueuedRefs(f)
        BY <1>0, <1>1, <1>2, <3>2, QueuedMembers
      <4> QED
        BY <3>2, <4>1, <4>2
    <3> QED
      BY <3>1, <3>2
  <2> QED
    BY <2>1
<1>4. <<q, n>> \notin QueuedRefs(f)
  BY <1>1, QueuedMembers
<1>5. Cardinality(QueuedRefs(f)')
        = Cardinality(QueuedRefs(f)) - One(<<q, n>> \in QueuedRefs(f)) + One(f = e)
  BY <1>3, RefsFinite, MemberReplaced, Zenon
<1> QED
  BY <1>4, <1>5, RefsFinite DEF One

\* The first entry of a list is taken, and every other moves up.
LEMMA QueuedTaken ==
    ASSUME TypeOK, NEW q \in Queues, NEW f \in Events, content[q] # <<>>,
           content' = [content EXCEPT ![q] = Tail(@)]
    PROVE  Cardinality(QueuedRefs(f)') = Cardinality(QueuedRefs(f)) - One(Head(content[q]) = f)
<1>0. /\ \A r \in Queues : r # q => content'[r] = content[r]
      /\ content[q] \in Seq(Events) /\ content'[q] = Tail(content[q])
  BY DEF TypeOK
<1>1. /\ 1 \in DOMAIN content[q] /\ Head(content[q]) = content[q][1]
      /\ \A i \in DOMAIN content'[q] : /\ i \in Nat /\ i + 1 \in DOMAIN content[q]
                                       /\ content'[q][i] = content[q][i + 1]
      /\ \A i \in DOMAIN content[q] : i \in Nat /\ (i # 1 => i - 1 \in DOMAIN content'[q])
  <2> DEFINE n == Len(content[q])
  <2>1. /\ n \in Nat /\ n # 0 /\ DOMAIN content[q] = 1..n
        /\ DOMAIN content'[q] = 1..(n - 1)
        /\ Head(content[q]) = content[q][1]
        /\ \A i \in 1..(n - 1) : content'[q][i] = content[q][i + 1]
    <3>1. n \in Nat /\ n # 0 /\ DOMAIN content[q] = 1..n
      BY <1>0
    <3>2. /\ Tail(content[q]) \in Seq(Events) /\ Len(Tail(content[q])) = n - 1
          /\ \A i \in 1..Len(Tail(content[q])) : Tail(content[q])[i] = content[q][i + 1]
      BY <1>0, HeadTailProperties
    <3>3. DOMAIN content'[q] = 1..(n - 1)
      BY <1>0, <3>2, LenProperties
    <3> QED
      BY <1>0, <3>1, <3>2, <3>3
  <2> HIDE DEF n
  <2> QED
    BY <2>1
<1>2. \A p : p \in QueuedRefs(f)' <=>
         \E r \in Queues : \E i \in DOMAIN content'[r] : p = <<r, i>> /\ content'[r][i] = f
  BY DEF QueuedRefs, Places
<1> DEFINE A == QueuedRefs(f) \ {<<q, 1>>}
           B == QueuedRefs(f)'
           g == [p \in A |-> IF p[1] = q THEN <<q, p[2] - 1>> ELSE p]
<1>3. \A p : p \in A <=> /\ p # <<q, 1>>
                         /\ \E r \in Queues : \E i \in DOMAIN content[r] :
                               p = <<r, i>> /\ content[r][i] = f
  BY QueuedMembers
<1> HIDE DEF A, B
<1>4. ASSUME NEW p \in A PROVE g[p] \in B
  <2>1. PICK r, i : r \in Queues /\ i \in DOMAIN content[r] /\ p = <<r, i>> /\ content[r][i] = f
    BY <1>3
  <2>2. CASE r # q
    BY <1>0, <1>2, <2>1, <2>2 DEF B
  <2>3. CASE r = q
    <3>1. i # 1 /\ i - 1 \in DOMAIN content'[q] /\ content'[q][i - 1] = content[q][i]
      BY <1>1, <1>3, <2>1, <2>3
    <3>2. g[p] = <<q, i - 1>>
      BY <2>1, <2>3
    <3> QED
      BY <1>2, <2>1, <2>3, <3>1, <3>2 DEF B
  <2> QED
    BY <2>2, <2>3
<1>5. ASSUME NEW p1 \in A, NEW p2 \in A, g[p1] = g[p2] PROVE p1 = p2
  <2>1. PICK r1, i1 : r1 \in Queues /\ i1 \in DOMAIN content[r1] /\ p1 = <<r1, i1>>
    BY <1>3
  <2>2. PICK r2, i2 : r2 \in Queues /\ i2 \in DOMAIN content[r2] /\ p2 = <<r2, i2>>
    BY <1>3
  <2>3. /\ g[p1] = IF r1 = q THEN <<q, i1 - 1>> ELSE <<r1, i1>>
        /\ g[p2] = IF r2 = q THEN <<q, i2 - 1>> ELSE <<r2, i2>>
    BY <2>1, <2>2
  <2> HIDE DEF g
  <2> QED
    BY <1>1, <1>5, <2>1, <2>2, <2>3
<1>6. ASSUME NEW b \in B PROVE \E p \in A : g[p] = b
  <2>1. PICK r, i : r \in Queues /\ i \in DOMAIN content'[r] /\ b = <<r, i>> /\ content'[r][i] = f
    BY <1>2 DEF B
  <2>2. CASE r # q
    <3>1. b \in A
      BY <1>0, <1>3, <2>1, <2>2
    <3> QED
      BY <2>1, <2>2, <3>1
  <2>3. CASE r = q
    <3>1. i \in Nat /\ i + 1 \in DOMAIN content[q] /\ content[q][i + 1] = f /\ i # 0
      BY <1>0, <1>1, <2>1, <2>3
    <3>2. <<q, i + 1>> \in A
      BY <1>3, <3>1
    <3>3. g[<<q, i + 1>>] = <<q, i>>
      BY <3>1, <3>2
    <3> QED
      BY <2>1, <2>3, <3>2, <3>3
  <2> QED
    BY <2>2, <2>3
<1>7. ExistsBijection(A, B)
  <2>1. g \in [A -> B]
    BY <1>4
  <2> HIDE DEF g
  <2> QED
    BY <1>5, <1>6, <2>1 DEF ExistsBijection, Bijection, Injection, Surjection, IsInjective
<1>8. /\ IsFiniteSet(A)
      /\ Cardinality(A) = Cardinality(QueuedRefs(f)) - One(<<q, 1>> \in QueuedRefs(f))
  <2>1. IsFiniteSet(QueuedRefs(f)) /\ Cardinality(QueuedRefs(f)) \in Nat
    BY RefsFinite
  <2> DEFINE R == QueuedRefs(f)
             z == <<q, 1>>
  <2>2. A = R \ {z}
    BY DEF A
  <2> HIDE DEF R, z
  <2>3. /\ IsFiniteSet(R \ {z})
        /\ Cardinality(R \ {z}) = IF z \in R THEN Cardinality(R) - 1 ELSE Cardinality(R)
    BY <2>1, FS_RemoveElement DEF R
  <2> QED
    BY <2>1, <2>2, <2>3 DEF R, z, One
<1>9. <<q, 1>> \in QueuedRefs(f) <=> Head(content[q]) = f
  BY <1>1, QueuedMembers
<1> QED
  BY <1>7, <1>8, <1>9, FS_Bijection DEF B, One

-----------------------------------------------------------------------------
(***************************************************************************)
(* No reference dangles.  A managed event is live, no creator still thinks *)
(* it is unmanaged, and its users are at least its references; an          *)
(* unmanaged one has at most one reference, its creator included, and none *)
(* if it is freed.                                                         *)
(***************************************************************************)
Creating(x, e) == x.e = e /\ x.pc = "created"
Dispatching(x, e) == x.e = e /\ x.pc \notin {"idle", "created"}
Inserting(x, e) == x.e = e /\ x.pc = "insert"

RefsAccounted(e) ==
    IF ev[e].managed
    THEN /\ ev[e].live /\ Cardinality(CreatedBy(e)) = 0
         /\ IF e \in refused THEN ev[e].users > Refs(e)
                             ELSE ev[e].users = Refs(e) /\ Refs(e) > 0
    ELSE /\ ev[e].users = 0 /\ e \notin refused
         /\ Cardinality(DispatchRefs(e)) = 0
         /\ Refs(e) + Cardinality(CreatedBy(e)) <= One(ev[e].live)

LEMMA SenderMoves ==
    ASSUME TypeOK, NEW s \in Senders, NEW x, NEW y, NEW f \in Events,
           x = sender[s], sender' = [sender EXCEPT ![s] = y]
    PROVE  /\ Cardinality(CreatedBy(f)')
                = Cardinality(CreatedBy(f)) - One(Creating(x, f)) + One(Creating(y, f))
           /\ Cardinality(DispatchRefs(f)')
                = Cardinality(DispatchRefs(f)) - One(Dispatching(x, f)) + One(Dispatching(y, f))
           /\ Cardinality(InsertRefs(f)')
                = Cardinality(InsertRefs(f)) - One(Inserting(x, f)) + One(Inserting(y, f))
           /\ Creating(x, f) => Cardinality(CreatedBy(f)) >= 1
           /\ Dispatching(x, f) => Cardinality(DispatchRefs(f)) >= 1
           /\ Inserting(x, f) => Cardinality(InsertRefs(f)) >= 1
<1>0. \A r \in Senders : sender'[r] = IF r = s THEN y ELSE sender[r]
  BY DEF TypeOK
<1>1. /\ \A r : r \in CreatedBy(f)' <=> IF r = s THEN Creating(y, f) ELSE r \in CreatedBy(f)
      /\ s \in CreatedBy(f) <=> Creating(x, f)
  BY <1>0 DEF CreatedBy, Creating
<1>2. /\ \A r : r \in DispatchRefs(f)' <=> IF r = s THEN Dispatching(y, f) ELSE r \in DispatchRefs(f)
      /\ s \in DispatchRefs(f) <=> Dispatching(x, f)
  BY <1>0 DEF DispatchRefs, Dispatching
<1>3. /\ \A r : r \in InsertRefs(f)' <=> IF r = s THEN Inserting(y, f) ELSE r \in InsertRefs(f)
      /\ s \in InsertRefs(f) <=> Inserting(x, f)
  BY <1>0 DEF InsertRefs, Inserting
<1>4. /\ Creating(x, f) \in BOOLEAN /\ Creating(y, f) \in BOOLEAN
      /\ Dispatching(x, f) \in BOOLEAN /\ Dispatching(y, f) \in BOOLEAN
      /\ Inserting(x, f) \in BOOLEAN /\ Inserting(y, f) \in BOOLEAN
  BY DEF Creating, Dispatching, Inserting
<1>5. Cardinality(CreatedBy(f)') = Cardinality(CreatedBy(f)) - One(s \in CreatedBy(f)) + One(Creating(y, f))
  BY <1>1, <1>4, RefsFinite, MemberReplaced, Zenon
<1>6. Cardinality(DispatchRefs(f)')
        = Cardinality(DispatchRefs(f)) - One(s \in DispatchRefs(f)) + One(Dispatching(y, f))
  BY <1>2, <1>4, RefsFinite, MemberReplaced, Zenon
<1>7. Cardinality(InsertRefs(f)')
        = Cardinality(InsertRefs(f)) - One(s \in InsertRefs(f)) + One(Inserting(y, f))
  BY <1>3, <1>4, RefsFinite, MemberReplaced, Zenon
<1>8. /\ CreatedBy(f) # {} => Cardinality(CreatedBy(f)) >= 1
      /\ DispatchRefs(f) # {} => Cardinality(DispatchRefs(f)) >= 1
      /\ InsertRefs(f) # {} => Cardinality(InsertRefs(f)) >= 1
  BY RefsFinite, FS_EmptySet
<1> QED
  BY <1>1, <1>2, <1>3, <1>5, <1>6, <1>7, <1>8 DEF One

\* A step of a sender leaves the owners' hands alone, a step of an owner the senders.
LEMMA RefsUnmoved ==
    ASSUME NEW f \in Events
    PROVE  /\ hand' = hand => HeldRefs(f)' = HeldRefs(f)
           /\ content' = content => QueuedRefs(f)' = QueuedRefs(f)
           /\ sender' = sender => /\ CreatedBy(f)' = CreatedBy(f)
                                  /\ DispatchRefs(f)' = DispatchRefs(f)
                                  /\ InsertRefs(f)' = InsertRefs(f)
BY DEF HeldRefs, QueuedRefs, Places, CreatedBy, DispatchRefs, InsertRefs

RefsAreNumbers ==
    \A f \in Events : /\ Cardinality(DispatchRefs(f)) \in Nat
                      /\ Cardinality(DispatchRefs(f)) <= Refs(f)
                      /\ Refs(f) \in Nat /\ Cardinality(CreatedBy(f)) \in Nat

LEMMA RefsNatural == TypeOK => RefsAreNumbers
BY RefsFinite DEF Refs, RefsAreNumbers

\* A user that has a reference, or the creator of an unmanaged event, gives it up.
LEMMA DeleteAccounted ==
    ASSUME TypeOK, TypeOK', NEW e \in Events, ev' = Deleted(e), refused' = refused,
           \A f \in Events : RefsAccounted(f),
           NEW f \in Events,
           Cardinality(DispatchRefs(f)') <= Cardinality(DispatchRefs(f)),
           f # e => Refs(f)' = Refs(f) /\ Cardinality(CreatedBy(f)') = Cardinality(CreatedBy(f))
                    /\ Cardinality(DispatchRefs(f)') = Cardinality(DispatchRefs(f)),
           f = e => \/ /\ Refs(f) >= 1 /\ Refs(f)' = Refs(f) - 1
                       /\ Cardinality(CreatedBy(f)') = Cardinality(CreatedBy(f))
                    \/ /\ Refs(f)' = Refs(f) /\ Cardinality(CreatedBy(f)) >= 1
                       /\ Cardinality(CreatedBy(f)') = Cardinality(CreatedBy(f)) - 1
    PROVE  RefsAccounted(f)'
<1>1. /\ Cardinality(CreatedBy(f)) \in Nat /\ Cardinality(CreatedBy(f)') \in Nat
      /\ Cardinality(DispatchRefs(f)) \in Nat
      /\ Cardinality(DispatchRefs(f)') \in Nat /\ Cardinality(DispatchRefs(f)') <= Refs(f)'
      /\ Refs(f) \in Nat /\ Refs(f)' \in Nat
  <2>1. /\ Cardinality(DispatchRefs(f)') \in Nat /\ Cardinality(DispatchRefs(f)') <= Refs(f)'
        /\ Refs(f)' \in Nat /\ Cardinality(CreatedBy(f)') \in Nat
    <3>1. TypeOK' => RefsAreNumbers'
      BY RefsNatural, PTL
    <3> QED
      BY <3>1 DEF RefsAreNumbers
  <2> QED
    BY <2>1, RefsNatural DEF RefsAreNumbers
<1>2. CASE f # e
  <2>1. ev'[f] = ev[f]
    BY <1>2 DEF TypeOK, Deleted
  <2> QED
    BY <1>2, <2>1 DEF RefsAccounted
<1>3. CASE f = e
  <2>0. /\ ev[e].managed \in BOOLEAN /\ ev[e].live \in BOOLEAN /\ ev[e].users \in Int
        /\ RefsAccounted(e)
    BY DEF TypeOK
  <2>1. CASE ev[e].managed /\ ev[e].users - 1 > 0
    <3>1. ev'[e].live = ev[e].live /\ ev'[e].managed = ev[e].managed /\ ev'[e].users = ev[e].users - 1
      BY <2>1 DEF Deleted, TypeOK
    <3> QED
      BY <1>1, <1>3, <2>0, <2>1, <3>1 DEF RefsAccounted
  <2>2. CASE ~(ev[e].managed /\ ev[e].users - 1 > 0)
    <3>1. ev'[e].live = FALSE /\ ev'[e].managed = FALSE /\ ev'[e].users = 0
      BY <2>2 DEF Deleted, TypeOK, Freed
    <3>2. Refs(e)' + Cardinality(CreatedBy(e)') = 0 /\ e \notin refused
      BY <1>1, <1>3, <2>0, <2>2 DEF RefsAccounted, One
    <3>3. Refs(e)' = 0 /\ Cardinality(CreatedBy(e)') = 0 /\ Cardinality(DispatchRefs(e)') = 0
      BY <1>1, <1>3, <3>2
    <3> QED
      BY <1>3, <3>1, <3>2, <3>3 DEF RefsAccounted, One
  <2> QED
    BY <2>1, <2>2
<1> QED
  BY <1>2, <1>3

LEMMA SenderRefsStep ==
    ASSUME Typed, Typed', NEW s \in Senders, SenderStep(s),
           \A f \in Events : RefsAccounted(f), NEW f \in Events
    PROVE  RefsAccounted(f)'
<1> DEFINE x == sender[s]
           y == sender'[s]
<1>0. /\ TypeOK /\ TypeOK' /\ sender' = [sender EXCEPT ![s] = y]
      /\ HeldRefs(f)' = HeldRefs(f)
      /\ x.pc # "idle" => x.e \in Events
      /\ y.pc = "idle" => y.e = NoEvent
      /\ ev[f].live \in BOOLEAN /\ ev[f].managed \in BOOLEAN /\ ev[f].users \in Int
      /\ RefsAccounted(f)
  <2>1. sender' = [sender EXCEPT ![s] = y] /\ hand' = hand
    BY DEF Typed, TypeOK, SenderStep, DispatchStep, Create, Post, DispatchBegin, DispatchLock,
           DispatchCount, DispatchInsert, DispatchRefused, DispatchUnlock, DispatchEnd
  <2> QED
    BY <2>1, RefsUnmoved, SMTT(30) DEF Typed, TypeOK, Shape, SenderShape
<1>1. /\ Cardinality(CreatedBy(f)')
            = Cardinality(CreatedBy(f)) - One(Creating(x, f)) + One(Creating(y, f))
      /\ Cardinality(DispatchRefs(f)')
            = Cardinality(DispatchRefs(f)) - One(Dispatching(x, f)) + One(Dispatching(y, f))
      /\ Cardinality(InsertRefs(f)')
            = Cardinality(InsertRefs(f)) - One(Inserting(x, f)) + One(Inserting(y, f))
      /\ Creating(x, f) => Cardinality(CreatedBy(f)) >= 1
      /\ Dispatching(x, f) => Cardinality(DispatchRefs(f)) >= 1
      /\ Inserting(x, f) => Cardinality(InsertRefs(f)) >= 1
  BY <1>0, SenderMoves
<1>2. /\ Cardinality(QueuedRefs(f)) \in Nat /\ Cardinality(HeldRefs(f)) \in Nat
      /\ Cardinality(DispatchRefs(f)) \in Nat /\ Cardinality(InsertRefs(f)) \in Nat
      /\ Cardinality(CreatedBy(f)) \in Nat
  BY <1>0, RefsFinite
<1>3. content' = content => QueuedRefs(f)' = QueuedRefs(f)
  BY RefsUnmoved
<1>4. ASSUME NEW e \in Events, Create(s, e) PROVE RefsAccounted(f)'
  <2>1. x.pc = "idle" /\ y.pc = "created" /\ y.e = e /\ content' = content /\ refused' = refused
    BY <1>0, <1>4 DEF Create, TypeOK, history
  <2>2. /\ Cardinality(CreatedBy(f)') = Cardinality(CreatedBy(f)) + One(e = f)
        /\ Cardinality(DispatchRefs(f)') = Cardinality(DispatchRefs(f))
        /\ Refs(f)' = Refs(f)
    BY <1>0, <1>1, <1>2, <1>3, <2>1 DEF Creating, Dispatching, Inserting, One, Refs
  <2>3. CASE e # f
    <3>1. ev'[f] = ev[f]
      BY <1>0, <1>4, <2>3 DEF Create, TypeOK
    <3> QED
      BY <1>0, <1>2, <2>2, <2>3, <2>1, <3>1 DEF RefsAccounted, One
  <2>4. CASE e = f
    <3>1. ~ev[f].live /\ ev'[f].live = TRUE /\ ev'[f].managed = FALSE /\ ev'[f].users = 0
      BY <1>0, <1>4, <2>4 DEF Create, TypeOK
    <3> QED
      BY <1>0, <1>2, <2>2, <2>4, <2>1, <3>1 DEF RefsAccounted, One, Refs
  <2> QED
    BY <2>3, <2>4
<1>5. ASSUME NEW q \in Queues, Post(s, q) PROVE RefsAccounted(f)'
  <2>1. x.pc = "created" /\ y.pc = "idle" /\ y.e = NoEvent /\ x.e \in Events /\ refused' = refused
    BY <1>0, <1>5 DEF Post, TypeOK, Idle, history
  <2>2. /\ Cardinality(CreatedBy(f)') = Cardinality(CreatedBy(f)) - One(x.e = f)
        /\ Cardinality(DispatchRefs(f)') = Cardinality(DispatchRefs(f))
        /\ Cardinality(InsertRefs(f)') = Cardinality(InsertRefs(f))
        /\ x.e = f => Cardinality(CreatedBy(f)) >= 1
    BY <1>0, <1>1, <1>2, <2>1 DEF Creating, Dispatching, Inserting, One
  <2>3. CASE content' = [content EXCEPT ![q] = Append(@, x.e)] /\ ev' = ev
    <3>1. Cardinality(QueuedRefs(f)') = Cardinality(QueuedRefs(f)) + One(f = x.e)
      <4> DEFINE z == x.e
      <4>1. z \in Events /\ content' = [content EXCEPT ![q] = Append(@, z)]
        BY <2>1, <2>3
      <4> HIDE DEF z
      <4>2. Cardinality(QueuedRefs(f)') = Cardinality(QueuedRefs(f)) + One(f = z)
        BY <1>0, <4>1, QueuedAdded DEF One
      <4> QED
        BY <4>2 DEF z
    <3>2. Refs(f)' = Refs(f) + One(f = x.e)
      BY <1>0, <1>2, <2>2, <3>1 DEF Refs, One
    <3> QED
      BY <1>0, <1>2, <2>1, <2>2, <2>3, <3>2, SMTT(30) DEF RefsAccounted, One, Refs
  <2>4. CASE content' = content /\ ev' = Deleted(x.e)
    <3>1. Refs(f)' = Refs(f)
      BY <1>0, <1>3, <2>2, <2>4 DEF Refs
    <3> QED
      BY <1>0, <1>2, <2>1, <2>2, <2>4, <3>1, DeleteAccounted DEF One
  <2> QED
    BY <1>5, <2>3, <2>4, Zenon DEF Post
<1>6. ASSUME NEW em \in Managers, DispatchBegin(s, em) PROVE RefsAccounted(f)'
  <2>1. /\ x.pc = "created" /\ y.pc = "begun" /\ y.e = x.e /\ x.e \in Events /\ content' = content
        /\ refused' = refused
    BY <1>0, <1>6 DEF DispatchBegin, TypeOK, history
  <2>2. /\ Cardinality(CreatedBy(f)') = Cardinality(CreatedBy(f)) - One(x.e = f)
        /\ Cardinality(DispatchRefs(f)') = Cardinality(DispatchRefs(f)) + One(x.e = f)
        /\ Cardinality(InsertRefs(f)') = Cardinality(InsertRefs(f))
        /\ x.e = f => Cardinality(CreatedBy(f)) >= 1
        /\ Refs(f)' = Refs(f) + One(x.e = f)
    BY <1>0, <1>1, <1>2, <1>3, <2>1 DEF Creating, Dispatching, Inserting, One, Refs
  <2>3. CASE x.e # f
    <3>1. ev'[f] = ev[f]
      BY <1>0, <1>6, <2>3 DEF DispatchBegin, TypeOK
    <3>2. Refs(f) \in Nat
      BY <1>2 DEF Refs
    <3> QED
      BY <1>0, <1>2, <2>2, <2>3, <2>1, <3>1, <3>2 DEF RefsAccounted, One
  <2>4. CASE x.e = f
    <3>1. ev'[f].live = ev[f].live /\ ev'[f].managed = TRUE /\ ev'[f].users = ev[f].users + 1
      BY <1>0, <1>6, <2>4 DEF DispatchBegin, TypeOK
    <3>2. Refs(f) \in Nat
      BY <1>2 DEF Refs
    <3> QED
      BY <1>0, <1>2, <2>2, <2>4, <2>1, <3>1, <3>2 DEF RefsAccounted, One
  <2> QED
    BY <2>3, <2>4
<1>7. ASSUME DispatchCount(s) PROVE RefsAccounted(f)'
  <2>1. /\ x.pc = "walk" /\ y.pc = "insert" /\ y.e = x.e /\ x.e \in Events /\ content' = content
        /\ refused' = refused
    BY <1>0, <1>7 DEF DispatchCount, TypeOK, history
  <2>2. /\ Cardinality(CreatedBy(f)') = Cardinality(CreatedBy(f))
        /\ Cardinality(DispatchRefs(f)') = Cardinality(DispatchRefs(f))
        /\ x.e = f => Cardinality(DispatchRefs(f)) >= 1
        /\ Refs(f)' = Refs(f) + One(x.e = f)
    BY <1>0, <1>1, <1>2, <1>3, <2>1 DEF Creating, Dispatching, Inserting, One, Refs
  <2>3. CASE x.e # f
    <3>1. ev'[f] = ev[f]
      BY <1>0, <1>7, <2>3 DEF DispatchCount, TypeOK
    <3>2. Refs(f) \in Nat
      BY <1>2 DEF Refs
    <3> QED
      BY <1>0, <1>2, <2>2, <2>3, <2>1, <3>1, <3>2 DEF RefsAccounted, One
  <2>4. CASE x.e = f
    <3>1. /\ ev'[f].live = ev[f].live /\ ev'[f].managed = ev[f].managed
          /\ ev'[f].users = ev[f].users + 1
      BY <1>0, <1>7, <2>4 DEF DispatchCount, TypeOK
    <3>2. Refs(f) \in Nat
      BY <1>2 DEF Refs
    <3> QED
      BY <1>0, <1>2, <2>2, <2>4, <2>1, <3>1, <3>2 DEF RefsAccounted, One
  <2> QED
    BY <2>3, <2>4
<1>8. ASSUME DispatchInsert(s) PROVE RefsAccounted(f)'
  <2>1. /\ x.pc = "insert" /\ y.pc = "walk" /\ y.e = x.e /\ x.e \in Events /\ ev' = ev
        /\ Head(x.todo) \in Queues /\ refused' = refused
        /\ content' = [content EXCEPT ![Head(x.todo)] = Append(@, x.e)]
    BY <1>0, <1>8 DEF DispatchInsert, Typed, TypeOK, Shape, SenderShape, history
  <2>2. Cardinality(QueuedRefs(f)') = Cardinality(QueuedRefs(f)) + One(f = x.e)
    <3> DEFINE z == x.e
               q == Head(x.todo)
    <3>1. z \in Events /\ q \in Queues /\ content' = [content EXCEPT ![q] = Append(@, z)]
      BY <2>1
    <3> HIDE DEF z, q
    <3>2. Cardinality(QueuedRefs(f)') = Cardinality(QueuedRefs(f)) + One(f = z)
      BY <1>0, <3>1, QueuedAdded DEF One
    <3> QED
      BY <3>2 DEF z
  <2>3. /\ Cardinality(CreatedBy(f)') = Cardinality(CreatedBy(f))
        /\ Cardinality(DispatchRefs(f)') = Cardinality(DispatchRefs(f))
        /\ Cardinality(InsertRefs(f)') = Cardinality(InsertRefs(f)) - One(f = x.e)
    BY <1>0, <1>1, <1>2, <2>1 DEF Creating, Dispatching, Inserting, One
  <2>4. Refs(f)' = Refs(f)
    BY <1>0, <1>2, <2>2, <2>3 DEF Refs, One
  <2> QED
    BY <1>0, <2>1, <2>3, <2>4 DEF RefsAccounted
<1>9. ASSUME DispatchLock(s) \/ DispatchUnlock(s) PROVE RefsAccounted(f)'
  <2>1. /\ x.pc \notin {"idle", "created", "insert"} /\ y.pc \notin {"idle", "created", "insert"}
        /\ y.e = x.e /\ content' = content /\ ev' = ev /\ refused' = refused
    BY <1>0, <1>9 DEF DispatchLock, DispatchUnlock, TypeOK, history
  <2>2. /\ Cardinality(CreatedBy(f)') = Cardinality(CreatedBy(f))
        /\ Cardinality(DispatchRefs(f)') = Cardinality(DispatchRefs(f))
        /\ Refs(f)' = Refs(f)
    BY <1>0, <1>1, <1>2, <1>3, <2>1 DEF Creating, Dispatching, Inserting, One, Refs
  <2> QED
    BY <1>0, <2>1, <2>2 DEF RefsAccounted
<1>10. ASSUME DispatchRefused(s) PROVE RefsAccounted(f)'
  <2>1. /\ x.pc = "insert" /\ y.pc = "walk" /\ y.e = x.e /\ x.e \in Events
        /\ content' = content /\ ev' = ev /\ refused' = refused \cup {x.e}
    BY <1>0, <1>10 DEF DispatchRefused, TypeOK
  <2>2. /\ Cardinality(CreatedBy(f)') = Cardinality(CreatedBy(f))
        /\ Cardinality(DispatchRefs(f)') = Cardinality(DispatchRefs(f))
        /\ x.e = f => Cardinality(DispatchRefs(f)) >= 1
        /\ Refs(f)' = Refs(f) - One(x.e = f) /\ Refs(f) \in Nat /\ Refs(f)' \in Nat
    BY <1>0, <1>1, <1>2, <1>3, <2>1 DEF Creating, Dispatching, Inserting, One, Refs
  <2>3. CASE x.e # f
    BY <1>0, <2>1, <2>2, <2>3 DEF RefsAccounted, One
  <2>4. CASE x.e = f
    BY <1>0, <1>2, <2>1, <2>2, <2>4 DEF RefsAccounted, One
  <2> QED
    BY <2>3, <2>4
<1>11. ASSUME DispatchEnd(s) PROVE RefsAccounted(f)'
  <2>1. /\ x.pc = "unlocked" /\ y.pc = "idle" /\ y.e = NoEvent /\ x.e \in Events
        /\ content' = content /\ ev' = Deleted(x.e) /\ refused' = refused
    BY <1>0, <1>11 DEF DispatchEnd, TypeOK, Idle, history
  <2>2. /\ Cardinality(CreatedBy(f)') = Cardinality(CreatedBy(f))
        /\ Cardinality(DispatchRefs(f)') = Cardinality(DispatchRefs(f)) - One(x.e = f)
        /\ Refs(f)' = Refs(f) - One(x.e = f) /\ (x.e = f => Refs(f) >= 1)
    BY <1>0, <1>1, <1>2, <1>3, <2>1 DEF Creating, Dispatching, Inserting, One, Refs
  <2> QED
    BY <1>0, <1>2, <2>1, <2>2, DeleteAccounted DEF One, Refs
<1> QED
  BY <1>4, <1>5, <1>6, <1>7, <1>8, <1>9, <1>10, <1>11 DEF SenderStep, DispatchStep

LEMMA OwnerRefsStep ==
    ASSUME Typed, Typed', NEW q \in Queues, OwnerStep(q),
           \A f \in Events : RefsAccounted(f), NEW f \in Events
    PROVE  RefsAccounted(f)'
<1>0. TypeOK /\ TypeOK' /\ RefsAccounted(f)
  BY DEF Typed
<1>1. /\ Cardinality(QueuedRefs(f)) \in Nat /\ Cardinality(HeldRefs(f)) \in Nat
      /\ Cardinality(DispatchRefs(f)) \in Nat /\ Cardinality(InsertRefs(f)) \in Nat
      /\ Cardinality(CreatedBy(f)) \in Nat /\ IsFiniteSet(HeldRefs(f))
  BY <1>0, RefsFinite
<1>2. /\ hand' = hand => HeldRefs(f)' = HeldRefs(f)
      /\ content' = content => QueuedRefs(f)' = QueuedRefs(f)
      /\ CreatedBy(f)' = CreatedBy(f)
      /\ DispatchRefs(f)' = DispatchRefs(f) /\ InsertRefs(f)' = InsertRefs(f)
      /\ refused' = refused
  <2>1. sender' = sender /\ refused' = refused
    BY DEF history, OwnerStep, DeleteStep, Register, RegisterNoRoute, Unregister, QueueLeave,
           QueueDeleteFails, Receive, Processed, QueueDelete, QueueClear, ClearPop, ClearDelete,
           QueueFree, QueueCreate, Pop, DeleteEvent
  <2> QED
    BY <2>1, RefsUnmoved
<1>3. ASSUME NEW h, hand' = [hand EXCEPT ![q] = h]
      PROVE  /\ Cardinality(HeldRefs(f)') = Cardinality(HeldRefs(f)) - One(hand[q] = f) + One(h = f)
             /\ hand[q] = f => Cardinality(HeldRefs(f)) >= 1
  <2>1. /\ \A r : r \in HeldRefs(f)' <=> IF r = q THEN h = f ELSE r \in HeldRefs(f)
        /\ q \in HeldRefs(f) <=> hand[q] = f
    BY <1>0, <1>3 DEF HeldRefs, TypeOK
  <2>2. Cardinality(HeldRefs(f)') = Cardinality(HeldRefs(f)) - One(q \in HeldRefs(f)) + One(h = f)
    <3> DEFINE A == HeldRefs(f)
               B == HeldRefs(f)'
               b == (h = f)
    <3>1. b \in BOOLEAN /\ IsFiniteSet(A) /\ \A r : r \in B <=> IF r = q THEN b ELSE r \in A
      BY <1>1, <2>1
    <3> HIDE DEF A, B, b
    <3>2. Cardinality(B) = Cardinality(A) - One(q \in A) + One(b)
      BY <3>1, MemberReplaced
    <3> QED
      BY <3>2 DEF A, B, b
  <2> QED
    BY <1>1, <2>1, <2>2, FS_EmptySet DEF One
<1>4. ASSUME ev' = ev /\ content' = content /\ hand' = hand PROVE RefsAccounted(f)'
  BY <1>0, <1>2, <1>4 DEF RefsAccounted, Refs
<1>5. ASSUME NEW from, NEW to, Pop(q, from, to), from \in {"run", "clear"}
      PROVE  RefsAccounted(f)'
  <2>0. hand[q] = NoEvent /\ NoEvent # f
    BY <1>5, ManagerConstants DEF Pop, Typed, Shape
  <2>1. Cardinality(HeldRefs(f)') = Cardinality(HeldRefs(f)) + One(Head(content[q]) = f)
    <3> DEFINE h == Head(content[q])
    <3>1. hand' = [hand EXCEPT ![q] = h]
      BY <1>5 DEF Pop
    <3> HIDE DEF h
    <3>2. Cardinality(HeldRefs(f)') = Cardinality(HeldRefs(f)) - One(hand[q] = f) + One(h = f)
      BY <1>3, <3>1
    <3> QED
      BY <1>1, <2>0, <3>2 DEF h, One
  <2>2. Cardinality(QueuedRefs(f)') = Cardinality(QueuedRefs(f)) - One(Head(content[q]) = f)
    BY <1>0, <1>5, QueuedTaken DEF Pop
  <2>3. Refs(f)' = Refs(f)
    BY <1>1, <1>2, <2>1, <2>2 DEF Refs, One
  <2> QED
    BY <1>0, <1>2, <1>5, <2>3 DEF RefsAccounted, Pop
<1>6. ASSUME NEW from, NEW to, DeleteEvent(q, from, to), from \in {"have", "clear_have"}
      PROVE  RefsAccounted(f)'
  <2>0. hand[q] \in Events /\ NoEvent # f
    BY <1>6, ManagerConstants DEF DeleteEvent, Typed, Shape
  <2>1. /\ Cardinality(HeldRefs(f)') = Cardinality(HeldRefs(f)) - One(hand[q] = f)
        /\ hand[q] = f => Cardinality(HeldRefs(f)) >= 1
    <3>1. hand' = [hand EXCEPT ![q] = NoEvent]
      BY <1>6 DEF DeleteEvent
    <3>2. /\ Cardinality(HeldRefs(f)')
               = Cardinality(HeldRefs(f)) - One(hand[q] = f) + One(NoEvent = f)
          /\ hand[q] = f => Cardinality(HeldRefs(f)) >= 1
      BY <1>3, <3>1
    <3> QED
      BY <1>1, <2>0, <3>2 DEF One
  <2>2. content' = content
    BY <1>6 DEF DeleteEvent
  <2>3. Refs(f)' = Refs(f) - One(hand[q] = f) /\ (hand[q] = f => Refs(f) >= 1) /\ Refs(f) \in Nat
    BY <1>1, <1>2, <2>1, <2>2 DEF Refs, One
  <2>4. ev' = Deleted(hand[q])
    BY <1>6 DEF DeleteEvent
  <2> QED
    BY <1>0, <1>1, <1>2, <2>0, <2>3, <2>4, DeleteAccounted DEF One
<1>7. CASE Receive(q) \/ ClearPop(q)
  BY <1>5, <1>7 DEF Receive, ClearPop
<1>8. CASE Processed(q) \/ ClearDelete(q)
  BY <1>6, <1>8 DEF Processed, ClearDelete
<1>9. CASE ev' = ev /\ content' = content /\ hand' = hand
  BY <1>4, <1>9
<1> QED
  BY <1>7, <1>8, <1>9 DEF OwnerStep, DeleteStep, Register, RegisterNoRoute, Unregister,
     QueueLeave, QueueDeleteFails, QueueDelete, QueueClear, QueueFree, QueueCreate

(***************************************************************************)
(* The accounts of all events.                                             *)
(***************************************************************************)
Accounts == Typed /\ \A f \in Events : RefsAccounted(f)

LEMMA AccountsInvariant == Spec => []Accounts
<1>1. Init => \A f \in Events : RefsAccounted(f)
  <2> SUFFICES ASSUME Init, NEW f \in Events PROVE RefsAccounted(f)
    OBVIOUS
  <2>1. /\ QueuedRefs(f) = {} /\ HeldRefs(f) = {} /\ DispatchRefs(f) = {}
        /\ InsertRefs(f) = {} /\ CreatedBy(f) = {}
    BY ManagerConstants DEF Init, QueuedRefs, Places, HeldRefs, DispatchRefs, InsertRefs, CreatedBy, Idle
  <2> QED
    BY <2>1, FS_EmptySet DEF Init, RefsAccounted, Refs, Freed, One
<1>2. Typed' /\ Accounts /\ [Next]_vars => Accounts'
  <2> SUFFICES ASSUME Typed', Accounts, [Next]_vars, NEW f \in Events
               PROVE  RefsAccounted(f)'
    BY DEF Accounts
  <2>1. CASE UNCHANGED vars
    BY <2>1, RefsUnmoved DEF Accounts, vars, RefsAccounted, Refs
  <2> QED
    BY <2>1, SenderRefsStep, OwnerRefsStep DEF Next, Accounts
<1>3. Init => Typed
  BY InitTyped
<1> QED
  BY <1>1, <1>2, <1>3, TypedInvariant, PTL DEF Spec, Accounts

(***************************************************************************)
(* No use after free, for any number of managers, queues and senders and   *)
(* whatever allocation fails: no list, owner or dispatch names a freed     *)
(* event, because dispatch_event counts itself, and each queue before its  *)
(* owner can see the event, as users of the event.                         *)
(***************************************************************************)
THEOREM ManagerNoDanglingEvent == Spec => []NoDanglingEvent
<1>1. Accounts => NoDanglingEvent
  <2> SUFFICES ASSUME Accounts, NEW e \in Events
               PROVE  /\ Refs(e) > 0 => ev[e].live
                      /\ ev[e].managed => ev[e].users >= Refs(e)
    BY DEF NoDanglingEvent
  <2>1. /\ Refs(e) \in Nat /\ Cardinality(CreatedBy(e)) \in Nat /\ ev[e].live \in BOOLEAN
        /\ ev[e].users \in Int /\ RefsAccounted(e)
    BY RefsNatural DEF Accounts, RefsAreNumbers, Typed, TypeOK
  <2> QED
    BY <2>1 DEF RefsAccounted, One
<1> QED
  BY <1>1, AccountsInvariant, PTL

(***************************************************************************)
(* Who keeps an event: a managed event that is live has a user that will   *)
(* still call rmf_osal_event_delete, or a queue refused it after counting  *)
(* itself as a user, and then its count exceeds its users for ever.  There *)
(* is no other leak, whatever is full and whatever allocation fails.       *)
(***************************************************************************)
THEOREM ManagerFreedAfterLastUser == Spec => []FreedAfterLastUser
<1>1. Accounts => FreedAfterLastUser
  <2> SUFFICES ASSUME Accounts, NEW e \in Events
               PROVE  /\ ev[e].live /\ ev[e].managed => Refs(e) > 0 \/ e \in refused
                      /\ e \in refused => ev[e].live /\ ev[e].users > Refs(e)
    BY DEF FreedAfterLastUser
  <2>1. RefsAccounted(e) /\ ev[e].live \in BOOLEAN
    BY DEF Accounts, Typed, TypeOK
  <2> QED
    BY <2>1 DEF RefsAccounted
<1> QED
  BY <1>1, AccountsInvariant, PTL

-----------------------------------------------------------------------------
(***************************************************************************)
(* Deletion.  A manager of a queue's array routes to the queue, unless its *)
(* route could not be allocated and the queue has not been routed since;   *)
(* and a deletion has only managers of the array yet to leave.             *)
(***************************************************************************)
ArrayRouted ==
    \A q \in Queues : \A em \in assoc[q] : Routed(q, em) \/ <<q, em>> \in unrouted
PendingInArray == \A q \in Queues : own[q] = "unregister" => pending[q] \subseteq assoc[q]

LEMMA ArrayStep ==
    ASSUME TypeOK, ArrayRouted, PendingInArray, [Next]_vars
    PROVE  ArrayRouted' /\ PendingInArray'
<1> USE DEF ArrayRouted, PendingInArray
<1>0. \A q \in Queues : assoc[q] \subseteq Managers
  BY DEF TypeOK
<1>a. ASSUME routes' = routes
      PROVE  \A q \in Queues : \A em \in Managers : Routed(q, em)' <=> Routed(q, em)
  BY <1>a DEF Routed
<1>1. CASE UNCHANGED <<routes, assoc, own, pending, unrouted>>
  BY <1>1, <1>a, <1>0
<1>2. ASSUME NEW q \in Queues, NEW em \in Managers, NEW c \in Categories, Register(q, em, c)
      PROVE  ArrayRouted' /\ PendingInArray'
  <2>1. \A r \in Queues : \A m \in Managers :
              Routed(r, m)' <=> Routed(r, m) \/ (r = q /\ m = em)
    <3>1. routes' = [routes EXCEPT ![em][c] = <<q>> \o @]
      BY <1>2 DEF Register
    <3> QED
      BY <3>1, RegisterRoutes, Zenon
  <2>2. \A r \in Queues : assoc'[r] \subseteq assoc[r] \cup (IF r = q THEN {em} ELSE {})
    BY <1>2 DEF Register, Associated, TypeOK
  <2>3. \A r \in Queues : assoc[r] \subseteq assoc'[r]
    BY <1>2 DEF Register, Associated, TypeOK
  <2>4. own' = own /\ pending' = pending /\ unrouted' = unrouted \ {<<q, em>>}
    BY <1>2 DEF Register
  <2> QED
    BY <1>0, <2>1, <2>2, <2>3, <2>4
<1>3. ASSUME NEW q \in Queues, NEW em \in Managers, NEW c \in Categories
      PROVE  RegisterNoRoute(q, em, c) => ArrayRouted' /\ PendingInArray'
  <2> SUFFICES ASSUME RegisterNoRoute(q, em, c) PROVE ArrayRouted' /\ PendingInArray'
    OBVIOUS
  <2>1. /\ routes' = routes /\ own' = own /\ pending' = pending
        /\ unrouted \subseteq unrouted'
        /\ Routed(q, em) \/ <<q, em>> \in unrouted'
    BY DEF RegisterNoRoute
  <2>2. \A r \in Queues : /\ assoc[r] \subseteq assoc'[r]
                          /\ assoc'[r] \subseteq assoc[r] \cup (IF r = q THEN {em} ELSE {})
    BY DEF RegisterNoRoute, Associated, TypeOK
  <2> QED
    BY <1>0, <1>a, <2>1, <2>2
<1>4. ASSUME NEW q \in Queues, NEW em \in Managers, UnregisterHandler(q, em)
      PROVE  ArrayRouted' /\ assoc' = [assoc EXCEPT ![q] = @ \ {em}]
  <2>1. \A r \in Queues : \A m \in Managers :
              r # q \/ m # em => (Routed(r, m)' <=> Routed(r, m))
    BY <1>4, UnregisterRoutes DEF UnregisterHandler
  <2>2. assoc' = [assoc EXCEPT ![q] = @ \ {em}] /\ unrouted' = unrouted \ {<<q, em>>}
    BY <1>4 DEF UnregisterHandler
  <2> QED
    BY <1>0, <2>1, <2>2 DEF TypeOK
<1>5. ASSUME NEW q \in Queues, NEW em \in Managers, Unregister(q, em)
      PROVE  ArrayRouted' /\ PendingInArray'
  BY <1>4, <1>5, ZenonT(60) DEF Unregister, TypeOK
<1>6. ASSUME NEW q \in Queues, NEW em \in Managers, QueueLeave(q, em)
      PROVE  ArrayRouted' /\ PendingInArray'
  <2>1. /\ ArrayRouted' /\ assoc' = [assoc EXCEPT ![q] = @ \ {em}]
        /\ pending' = [pending EXCEPT ![q] = @ \ {em}] /\ own' = own
    BY <1>4, <1>6 DEF QueueLeave
  <2> QED
    BY <2>1 DEF TypeOK
<1>7. ASSUME NEW q \in Queues, NEW em \in Managers, QueueDeleteFails(q, em)
      PROVE  ArrayRouted' /\ PendingInArray'
  BY <1>0, <1>7, <1>a DEF QueueDeleteFails, TypeOK, history
<1>8. ASSUME NEW q \in Queues, Receive(q) \/ Processed(q) \/ ClearPop(q) \/ ClearDelete(q)
      PROVE  ArrayRouted' /\ PendingInArray'
  BY <1>0, <1>8, <1>a DEF Receive, Processed, ClearPop, ClearDelete, Pop, DeleteEvent, TypeOK, history
<1>9. ASSUME NEW q \in Queues, QueueDelete(q) \/ QueueClear(q) \/ QueueFree(q)
      PROVE  ArrayRouted' /\ PendingInArray'
  <2>1. CASE QueueDelete(q)
    BY <1>0, <2>1, <1>a DEF QueueDelete, TypeOK, history
  <2>2. CASE QueueClear(q)
    BY <1>0, <2>2, <1>a DEF QueueClear, TypeOK, history
  <2>3. CASE QueueFree(q)
    BY <1>0, <2>3, <1>a DEF QueueFree, TypeOK, history
  <2> QED
    BY <1>9, <2>1, <2>2, <2>3
<1>10. ASSUME NEW q \in Queues, QueueCreate(q)
       PROVE  ArrayRouted' /\ PendingInArray'
  BY <1>0, <1>10, <1>a, SMTT(30) DEF QueueCreate, TypeOK
<1>11. ASSUME NEW s \in Senders, SenderStep(s)
       PROVE  UNCHANGED <<routes, assoc, own, pending, unrouted>>
  BY <1>11 DEF SenderStep, DispatchStep, Create, Post, DispatchBegin, DispatchLock,
     DispatchCount, DispatchInsert, DispatchRefused, DispatchUnlock, DispatchEnd, history
<1>12. CASE UNCHANGED vars
  BY <1>1, <1>12 DEF vars
<1> HIDE DEF ArrayRouted, PendingInArray
<1> QED
  BY <1>1, <1>2, <1>3, <1>5, <1>6, <1>7, <1>8, <1>9, <1>10, <1>11, <1>12
     DEF Next, OwnerStep, DeleteStep

(***************************************************************************)
(* rmf_osal_eventqueue_delete gives up half-way only on account of a       *)
(* manager whose route for the queue could not be allocated, however often *)
(* an owner registers and however many managers it registers with:         *)
(* unregister_handler finds the queue on a route of every other manager.   *)
(***************************************************************************)
THEOREM ManagerDeletionCompletes == Spec => DeletionCompletes
<1>1. Init => ArrayRouted /\ PendingInArray
  BY DEF Init, ArrayRouted, PendingInArray
<1>2. TypeOK /\ ArrayRouted /\ PendingInArray /\ [Next]_vars => ArrayRouted' /\ PendingInArray'
  BY ArrayStep
<1>3. TypeOK /\ ArrayRouted /\ PendingInArray /\ [Next]_vars
        => [\A q \in Queues : own[q] = "unregister" /\ own'[q] = "run"
              => \E em \in pending[q] : <<q, em>> \in unrouted]_vars
  <2> SUFFICES ASSUME TypeOK, ArrayRouted, PendingInArray, Next,
                      NEW q \in Queues, own[q] = "unregister", own'[q] = "run"
               PROVE  \E em \in pending[q] : <<q, em>> \in unrouted
    OBVIOUS
  <2>1. ASSUME NEW r \in Queues, OwnerStep(r) PROVE \E em \in Managers : QueueDeleteFails(q, em)
    BY <2>1 DEF TypeOK, OwnerStep, DeleteStep, Register, RegisterNoRoute, Unregister, QueueLeave,
       QueueDeleteFails, Receive, Processed, QueueDelete, QueueClear, ClearPop, ClearDelete,
       QueueFree, QueueCreate, Pop, DeleteEvent
  <2>2. ASSUME NEW s \in Senders, SenderStep(s) PROVE own' = own
    BY <2>2 DEF SenderStep, DispatchStep, Create, Post, DispatchBegin, DispatchLock,
       DispatchCount, DispatchInsert, DispatchRefused, DispatchUnlock, DispatchEnd
  <2>3. PICK em \in Managers : QueueDeleteFails(q, em)
    BY <2>1, <2>2 DEF Next
  <2> QED
    BY <2>3 DEF QueueDeleteFails, ArrayRouted, PendingInArray
<1> QED
  BY <1>1, <1>2, <1>3, ManagerTypes, PTL DEF Spec, DeletionCompletes

=============================================================================
