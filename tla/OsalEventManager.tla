-------------------------- MODULE OsalEventManager --------------------------
(***************************************************************************)
(* Event managers, their routes, and the life of an event                  *)
(* (osal/src/rmf_osal_event.c).  An event that is dispatched through a     *)
(* manager is reference counted: every queue it is put on, and the         *)
(* dispatch itself, counts as a user, and the last rmf_osal_event_delete   *)
(* frees it.  A dispatch walks a route under the manager's mutex, and the  *)
(* queues' owners receive, unregister and delete their queues meanwhile.   *)
(* The events of this module have one priority; OsalEventQueue is about    *)
(* their order and about the semaphore.                                    *)
(***************************************************************************)
EXTENDS Integers, Sequences, FiniteSets, SequencesExt

CONSTANTS Events,      \* event handles (addresses: a freed one may come back)
          Categories,  \* event categories
          Category,    \* event->event_category
          Managers,    \* event managers
          Queues,      \* event queues, each with the thread that owns it
          Senders,     \* threads that create and dispatch events
          MaxLimit,    \* RMF_OSAL_EVENTQ_MAX_LIMIT
          MaxManagers, \* MAX_EVENTMANAGER_PER_QUEUE
          MaxRegister, \* how often an owner registers for one category
          MemFails     \* TRUE: rmf_osal_memAllocP may fail

NoEvent == "no event"
NoManager == "no manager"

ASSUME ManagerConstants ==
    /\ NoEvent \notin Events
    /\ IsFiniteSet(Queues) /\ IsFiniteSet(Senders)
    /\ Category \in [Events -> Categories]
    /\ MaxLimit \in Nat \ {0}
    /\ MaxManagers \in Nat \ {0}
    /\ MaxRegister \in Nat \ {0}
    /\ MemFails \in BOOLEAN

VARIABLES ev,        \* per event: live, memory_managed, users
          routes,    \* per manager and category: the eventqueuelist
          assoc,     \* per queue: eventmanager[], as the set of its entries
          content,   \* per queue: the events on its list
          own,       \* per queue: where its owner is
          hand,      \* per queue: the event its owner is about to delete
          pending,   \* per queue: managers a queue deletion has yet to leave
          sender,    \* per sender: place, event, manager, queues yet to visit
          refused,   \* history: events a queue refused after it was counted
          unrouted   \* history: <<queue, manager>> associated without a route

vars == <<ev, routes, assoc, content, own, hand, pending, sender, refused, unrouted>>
history == <<refused, unrouted>>

Freed == [live |-> FALSE, managed |-> FALSE, users |-> 0]
Idle == [pc |-> "idle", e |-> NoEvent, em |-> NoManager, todo |-> <<>>]

OwnerPc == {"run", "have", "unregister", "clear", "clear_have", "freed"}
SenderPc == {"idle", "created", "begun", "walk", "insert", "unlocked"}

TypeOK ==
    /\ ev \in [Events -> [live : BOOLEAN, managed : BOOLEAN, users : Int]]
    /\ routes \in [Managers -> [Categories -> Seq(Queues)]]
    /\ assoc \in [Queues -> SUBSET Managers]
    /\ content \in [Queues -> Seq(Events)]
    /\ own \in [Queues -> OwnerPc]
    /\ hand \in [Queues -> Events \cup {NoEvent}]
    /\ pending \in [Queues -> SUBSET Managers]
    /\ sender \in [Senders -> [pc : SenderPc, e : Events \cup {NoEvent},
                               em : Managers \cup {NoManager}, todo : Seq(Queues)]]
    /\ refused \subseteq Events
    /\ unrouted \subseteq Queues \X Managers

Init ==
    /\ ev = [e \in Events |-> Freed]
    /\ routes = [em \in Managers |-> [c \in Categories |-> <<>>]]
    /\ assoc = [q \in Queues |-> {}]
    /\ content = [q \in Queues |-> <<>>]
    /\ own = [q \in Queues |-> "run"]
    /\ hand = [q \in Queues |-> NoEvent]
    /\ pending = [q \in Queues |-> {}]
    /\ sender = [s \in Senders |-> Idle]
    /\ refused = {}
    /\ unrouted = {}

-----------------------------------------------------------------------------
(* The life of an event.                                                   *)

\* Mutant of Deleted: the last user's call does not free the event.
DeletedTooLate(e) ==
    IF ev[e].managed /\ ev[e].users - 1 >= 0
    THEN [ev EXCEPT ![e].users = @ - 1]
    ELSE [ev EXCEPT ![e] = Freed]

\* rmf_osal_event_delete: a managed event loses a user and is freed with the
\* last one, an unmanaged event is freed at once.
Deleted(e) ==
    IF ev[e].managed /\ ev[e].users - 1 > 0
    THEN [ev EXCEPT ![e].users = @ - 1]
    ELSE [ev EXCEPT ![e] = Freed]

Create(s, e) ==
    /\ sender[s].pc = "idle"
    /\ ~ev[e].live
    /\ ev' = [ev EXCEPT ![e] = [live |-> TRUE, managed |-> FALSE, users |-> 0]]
    /\ sender' = [sender EXCEPT ![s] =
                     [pc |-> "created", e |-> e, em |-> NoManager, todo |-> <<>>]]
    /\ UNCHANGED <<routes, assoc, content, own, hand, pending, history>>

\* rmf_osal_eventqueue_add of an event no manager has seen, to a queue in use;
\* the sender deletes the event the queue refuses.
Post(s, q) ==
    /\ sender[s].pc = "created"
    /\ own[q] \in {"run", "have"}
    /\ \/ /\ Len(content[q]) # MaxLimit
          /\ content' = [content EXCEPT ![q] = Append(@, sender[s].e)]
          /\ UNCHANGED ev
       \/ /\ Len(content[q]) = MaxLimit \/ MemFails
          /\ ev' = Deleted(sender[s].e)
          /\ UNCHANGED content
    /\ sender' = [sender EXCEPT ![s] = Idle]
    /\ UNCHANGED <<routes, assoc, own, hand, pending, history>>

-----------------------------------------------------------------------------
(* rmf_osal_eventmanager_dispatch_event                                    *)

Locked(em) == \E s \in Senders : /\ sender[s].em = em
                                 /\ sender[s].pc \in {"walk", "insert"}

\* The dispatch takes a reference of its own.
DispatchBegin(s, em) ==
    /\ sender[s].pc = "created"
    /\ ev' = [ev EXCEPT ![sender[s].e].managed = TRUE, ![sender[s].e].users = @ + 1]
    /\ sender' = [sender EXCEPT ![s].pc = "begun", ![s].em = em]
    /\ UNCHANGED <<routes, assoc, content, own, hand, pending, history>>

DispatchLock(s) ==
    /\ sender[s].pc = "begun"
    /\ ~Locked(sender[s].em)
    /\ sender' = [sender EXCEPT ![s].pc = "walk",
                                ![s].todo = routes[sender[s].em][Category[sender[s].e]]]
    /\ UNCHANGED <<ev, routes, assoc, content, own, hand, pending, history>>

\* Mutant of DispatchCount: the queue is not counted as a user.
DispatchUncounted(s) ==
    /\ sender[s].pc = "walk"
    /\ sender[s].todo # <<>>
    /\ sender' = [sender EXCEPT ![s].pc = "insert"]
    /\ UNCHANGED <<ev, routes, assoc, content, own, hand, pending, history>>

\* rmf_osal_eventqueue_add, up to the list: the queue becomes a user.
DispatchCount(s) ==
    /\ sender[s].pc = "walk"
    /\ sender[s].todo # <<>>
    /\ ev' = [ev EXCEPT ![sender[s].e].users = @ + 1]
    /\ sender' = [sender EXCEPT ![s].pc = "insert"]
    /\ UNCHANGED <<routes, assoc, content, own, hand, pending, history>>

DispatchInsert(s) ==
    LET q == Head(sender[s].todo) IN
    /\ sender[s].pc = "insert"
    /\ Len(content[q]) # MaxLimit
    /\ content' = [content EXCEPT ![q] = Append(@, sender[s].e)]
    /\ sender' = [sender EXCEPT ![s].pc = "walk", ![s].todo = Tail(@)]
    /\ UNCHANGED <<ev, routes, assoc, own, hand, pending, history>>

\* The queue is full (RMF_OSAL_EBUSY) or its list entry cannot be allocated:
\* logged, and the count already made stays.
DispatchRefused(s) ==
    /\ sender[s].pc = "insert"
    /\ Len(content[Head(sender[s].todo)]) = MaxLimit \/ MemFails
    /\ sender' = [sender EXCEPT ![s].pc = "walk", ![s].todo = Tail(@)]
    /\ refused' = refused \cup {sender[s].e}
    /\ UNCHANGED <<ev, routes, assoc, content, own, hand, pending, unrouted>>

DispatchUnlock(s) ==
    /\ sender[s].pc = "walk"
    /\ sender[s].todo = <<>>
    /\ sender' = [sender EXCEPT ![s].pc = "unlocked"]
    /\ UNCHANGED <<ev, routes, assoc, content, own, hand, pending, history>>

\* Mutant of DispatchEnd: the dispatch does not give its reference back.
DispatchEndKeeps(s) ==
    /\ sender[s].pc = "unlocked"
    /\ sender' = [sender EXCEPT ![s] = Idle]
    /\ UNCHANGED <<ev, routes, assoc, content, own, hand, pending, history>>

DispatchEnd(s) ==
    /\ sender[s].pc = "unlocked"
    /\ ev' = Deleted(sender[s].e)
    /\ sender' = [sender EXCEPT ![s] = Idle]
    /\ UNCHANGED <<routes, assoc, content, own, hand, pending, history>>

-----------------------------------------------------------------------------
(* Registration.                                                           *)

\* The places of x in seq.
Places(x, seq) == {i \in DOMAIN seq : seq[i] = x}

Routed(q, em) == \E c \in Categories : q \in Range(routes[em][c])

\* Mutant of Associated: the last slot is never used.
AssociatedShort(q, em) ==
    IF em \in assoc[q] \/ Cardinality(assoc[q]) < MaxManagers - 1
    THEN [assoc EXCEPT ![q] = @ \cup {em}]
    ELSE assoc

\* rmf_osal_eventqueue_associate_eventmanager; when every slot is taken its
\* error is overwritten by the result of the unlock.
Associated(q, em) ==
    IF em \in assoc[q] \/ Cardinality(assoc[q]) < MaxManagers
    THEN [assoc EXCEPT ![q] = @ \cup {em}]
    ELSE assoc

\* rmf_osal_eventmanager_register_handler, at the head of the route.
Register(q, em, c) ==
    /\ own[q] = "run"
    /\ ~Locked(em)
    /\ Cardinality(Places(q, routes[em][c])) < MaxRegister
    /\ routes' = [routes EXCEPT ![em][c] = <<q>> \o @]
    /\ assoc' = Associated(q, em)
    /\ unrouted' = unrouted \ {<<q, em>>}
    /\ UNCHANGED <<ev, content, own, hand, pending, sender, refused>>

\* A new route cannot be allocated: the queue is associated all the same.
RegisterNoRoute(q, em, c) ==
    /\ MemFails
    /\ own[q] = "run"
    /\ ~Locked(em)
    /\ routes[em][c] = <<>>
    /\ assoc' = Associated(q, em)
    /\ unrouted' = IF Routed(q, em) THEN unrouted ELSE unrouted \cup {<<q, em>>}
    /\ UNCHANGED <<ev, routes, content, own, hand, pending, sender, refused>>

\* Mutant of WithoutFirst: the entry is cleared but not unlinked.
WithHole(seq, q) ==
    IF q \in Range(seq)
    THEN [seq EXCEPT ![SelectInSeq(seq, LAMBDA x : x = q)] = NoEvent]
    ELSE seq

\* The inner loop stops at the first entry of the queue in each route.
WithoutFirst(seq, q) ==
    IF q \in Range(seq)
    THEN RemoveAt(seq, SelectInSeq(seq, LAMBDA x : x = q))
    ELSE seq

\* Mutant of UnregisterHandler: the manager stays in the queue's array.
UnregisterHandlerOnly(q, em) ==
    /\ ~Locked(em)
    /\ Routed(q, em)
    /\ routes' = [routes EXCEPT ![em] =
                     [c \in Categories |-> WithoutFirst(routes[em][c], q)]]
    /\ unrouted' = unrouted \ {<<q, em>>}
    /\ UNCHANGED assoc

\* rmf_osal_eventmanager_unregister_handler of a queue that has an entry; of
\* one that has none it returns RMF_OSAL_ENODATA and changes nothing.
UnregisterHandler(q, em) ==
    /\ ~Locked(em)
    /\ Routed(q, em)
    /\ routes' = [routes EXCEPT ![em] =
                     [c \in Categories |-> WithoutFirst(routes[em][c], q)]]
    /\ assoc' = [assoc EXCEPT ![q] = @ \ {em}]
    /\ unrouted' = unrouted \ {<<q, em>>}

Unregister(q, em) ==
    /\ own[q] = "run"
    /\ UnregisterHandler(q, em)
    /\ UNCHANGED <<ev, content, own, hand, pending, sender, refused>>

-----------------------------------------------------------------------------
(* A queue's owner receives events and finally deletes the queue.          *)

Pop(q, from, to) ==
    /\ own[q] = from
    /\ content[q] # <<>>
    /\ hand' = [hand EXCEPT ![q] = Head(content[q])]
    /\ content' = [content EXCEPT ![q] = Tail(@)]
    /\ own' = [own EXCEPT ![q] = to]
    /\ UNCHANGED <<ev, routes, assoc, pending, sender, history>>

DeleteEvent(q, from, to) ==
    /\ own[q] = from
    /\ ev' = Deleted(hand[q])
    /\ hand' = [hand EXCEPT ![q] = NoEvent]
    /\ own' = [own EXCEPT ![q] = to]
    /\ UNCHANGED <<routes, assoc, content, pending, sender, history>>

Receive(q) == Pop(q, "run", "have")
Processed(q) == DeleteEvent(q, "have", "run")

\* rmf_osal_eventqueue_delete copies the managers under the queue's mutex ...
QueueDelete(q) ==
    /\ own[q] = "run"
    /\ pending' = [pending EXCEPT ![q] = assoc[q]]
    /\ own' = [own EXCEPT ![q] = "unregister"]
    /\ UNCHANGED <<ev, routes, assoc, content, hand, sender, history>>

\* ... unregisters from each without it ...
QueueLeave(q, em) ==
    /\ own[q] = "unregister"
    /\ em \in pending[q]
    /\ UnregisterHandler(q, em)
    /\ pending' = [pending EXCEPT ![q] = @ \ {em}]
    /\ UNCHANGED <<ev, content, own, hand, sender, refused>>

\* ... giving up, with the queue still there, when one does not know it ...
QueueDeleteFails(q, em) ==
    /\ own[q] = "unregister"
    /\ em \in pending[q]
    /\ ~Locked(em)
    /\ ~Routed(q, em)
    /\ pending' = [pending EXCEPT ![q] = {}]
    /\ own' = [own EXCEPT ![q] = "run"]
    /\ UNCHANGED <<ev, routes, assoc, content, hand, sender, history>>

\* ... and clears the queue before it frees it.
QueueClear(q) ==
    /\ own[q] = "unregister"
    /\ pending[q] = {}
    /\ own' = [own EXCEPT ![q] = "clear"]
    /\ UNCHANGED <<ev, routes, assoc, content, hand, pending, sender, history>>

ClearPop(q) == Pop(q, "clear", "clear_have")
ClearDelete(q) == DeleteEvent(q, "clear_have", "clear")

QueueFree(q) ==
    /\ own[q] = "clear"
    /\ content[q] = <<>>
    /\ own' = [own EXCEPT ![q] = "freed"]
    /\ UNCHANGED <<ev, routes, assoc, content, hand, pending, sender, history>>

QueueCreate(q) ==
    /\ own[q] = "freed"
    /\ own' = [own EXCEPT ![q] = "run"]
    /\ assoc' = [assoc EXCEPT ![q] = {}]
    /\ unrouted' = unrouted \ ({q} \X Managers)
    /\ UNCHANGED <<ev, routes, content, hand, pending, sender, refused>>

-----------------------------------------------------------------------------
DispatchStep(s) ==
    DispatchCount(s) \/ DispatchInsert(s) \/ DispatchUnlock(s) \/ DispatchEnd(s)

SenderStep(s) ==
    \/ \E e \in Events : Create(s, e)
    \/ \E q \in Queues : Post(s, q)
    \/ \E em \in Managers : DispatchBegin(s, em)
    \/ DispatchLock(s)
    \/ DispatchRefused(s)
    \/ DispatchStep(s)

DeleteStep(q) == QueueClear(q) \/ ClearPop(q) \/ ClearDelete(q) \/ QueueFree(q)

OwnerStep(q) ==
    \/ \E em \in Managers : \E c \in Categories :
           Register(q, em, c) \/ RegisterNoRoute(q, em, c)
    \/ \E em \in Managers :
           Unregister(q, em) \/ QueueLeave(q, em) \/ QueueDeleteFails(q, em)
    \/ Receive(q) \/ Processed(q) \/ QueueDelete(q) \/ DeleteStep(q) \/ QueueCreate(q)

Next == (\E s \in Senders : SenderStep(s)) \/ (\E q \in Queues : OwnerStep(q))

Spec == Init /\ [][Next]_vars

\* Threads run; a thread that waits for a manager's mutex is not overtaken
\* for ever; an owner keeps receiving, between deletions that fail too.
\* Nobody has to create, register, unregister or delete anything.
FairSpec ==
    /\ Spec
    /\ \A s \in Senders : /\ WF_vars(DispatchStep(s) \/ DispatchRefused(s))
                          /\ SF_vars(DispatchLock(s))
    /\ \A q \in Queues : /\ SF_vars(Receive(q))
                         /\ WF_vars(Processed(q) \/ DeleteStep(q))
                         /\ SF_vars(\E em \in Managers : QueueLeave(q, em) \/ QueueDeleteFails(q, em))

-----------------------------------------------------------------------------
(* Properties.                                                             *)

\* The references to e that will be given back by rmf_osal_event_delete: entries of
\* queues, events in the hands of owners, dispatches, and the entry a dispatch has
\* counted and not made.
QueuedRefs(e) == UNION {{<<q, i>> : i \in Places(e, content[q])} : q \in Queues}
HeldRefs(e) == {q \in Queues : hand[q] = e}
DispatchRefs(e) == {s \in Senders : sender[s].e = e /\ sender[s].pc \notin {"idle", "created"}}
InsertRefs(e) == {s \in Senders : sender[s].e = e /\ sender[s].pc = "insert"}
Refs(e) ==
    Cardinality(QueuedRefs(e)) + Cardinality(HeldRefs(e))
      + Cardinality(DispatchRefs(e)) + Cardinality(InsertRefs(e))

\* Use after free: no list, owner or dispatch ever names a freed event, and
\* a managed event has at least as many users as there are references to it
\* (dispatch counts a queue before the queue's owner can see the event).
NoDanglingEvent ==
    \A e \in Events :
        /\ Refs(e) > 0 => ev[e].live
        /\ ev[e].managed => ev[e].users >= Refs(e)

\* "Event manager deletes the event after all users call this function"
\* (rmf_osal_event_delete): a managed event that is still live has a user
\* that will call it, unless a queue refused it after it was counted as a
\* user (full, or no memory for the entry); such an event stays for ever.
FreedAfterLastUser ==
    \A e \in Events :
        /\ ev[e].live /\ ev[e].managed => Refs(e) > 0 \/ e \in refused
        /\ e \in refused => ev[e].live /\ ev[e].users > Refs(e)

\* The managers a queue "will be ... unregister[ed] from prior to event queue
\* deletion" are all that route to it: a queue that is being cleared or is
\* freed is on no route and in no dispatch under way, so neither a later nor
\* a concurrent dispatch adds to freed memory.
NoRouteToFreedQueue ==
    \A q \in Queues : own[q] \in {"clear", "clear_have", "freed"} =>
        /\ \A em \in Managers : ~Routed(q, em)
        /\ \A s \in Senders : q \notin Range(sender[s].todo)

\* A queue deletion gives up half-way, with some managers left and the queue
\* still allocated, only because a route could not be allocated: every other
\* manager the queue is associated with still routes to it when its turn comes.
DeletionCompletes ==
    [][\A q \in Queues : own[q] = "unregister" /\ own'[q] = "run"
          => \E em \in pending[q] : <<q, em>> \in unrouted]_vars

\* A dispatch that has begun ends in the event being freed, whatever the
\* queues' owners do meanwhile (receive it, unregister, or delete the queue it
\* is on), or refused by a queue that is full or has no memory.
DispatchedIsFreed ==
    \A e \in Events :
        (\E s \in Senders : sender[s].e = e /\ sender[s].pc = "begun")
            ~> ~ev[e].live \/ e \in refused
=============================================================================
