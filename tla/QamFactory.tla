----------------------------- MODULE QamFactory -----------------------------
(***************************************************************************)
(* The QAM source factory (qamsource/main/rmfqamsrc.cpp): it shares the    *)
(* box's tuners between clients.  The list of instances, its counters and  *)
(* every instance's usages are changed under the recursive g_qamlistmutex, *)
(* so one call is one step, except where a call gives the mutex up: between *)
(* getQAMSourceInstance and preempt, and around the application's release  *)
(* callback.  A call made by a thread that still holds the mutex (preempt  *)
(* or changeURI calling getQAMSourceInstance) keeps it: "lock".            *)
(* A client stands for the token it passes.                                *)
(***************************************************************************)
EXTENDS Integers, Sequences, FiniteSets, SequencesExt

CONSTANTS Clients,        \* threads, each with its own token
          Anonymous,      \* clients whose token is QAMSRC_DEFAULT_TOKEN
          Unreserved,     \* clients whose token starts QAMSRC_UNRESERVED_TOKEN
          Wants,          \* the usage each client asks for
          Uris,           \* services
          Frequency,      \* carrier frequency of a service, 0 for an SDV service
          Instances,      \* addresses of RMFQAMSrc objects
          numberOfTuners, \* RMFQAMSrcImpl::numberOfTuners
          Caching,        \* values of cachingEnabled: FALSE after disableCaching()
                          \* at start-up
          Callbacks,      \* usages with a registered release callback
          livePreemptionEnabled,
          CallbackFails,  \* TRUE: a release callback may return an error
          Changing        \* services clients pass to changeURI

\* usage_priority_table
Priority == [PODMGR |-> 6, LIVE |-> 5, RECORD |-> 5, RECORD_UNRESERVED |-> 4,
             LIVE_UNRESERVED |-> 4, TSB |-> 3, AD |-> 2, PRETUNE |-> 1]
Usages == DOMAIN Priority

None == "none"
NoOne == "no one"
FreedUri == "freed uri"

ASSUME FactoryConstants ==
    /\ {None, NoOne} \cap (Clients \cup Instances) = {}
    /\ {None, FreedUri} \cap Uris = {}
    /\ Anonymous \subseteq Clients
    /\ Unreserved \subseteq Clients
    /\ Wants \in [Clients -> Usages]
    /\ IsFiniteSet(Clients)
    /\ Frequency \in [Uris -> Nat]
    /\ numberOfTuners \in Nat \ {0}
    /\ IsFiniteSet(Instances) /\ Cardinality(Instances) >= numberOfTuners
    /\ Caching \subseteq BOOLEAN /\ Caching # {}
    /\ livePreemptionEnabled \in BOOLEAN
    /\ CallbackFails \in BOOLEAN
    /\ Callbacks \subseteq Usages
    /\ Changing \subseteq Uris

VARIABLES factory,  \* list: g_qamsrclist; obj: its entries; no: g_qamsrcobjectno;
                    \* low: g_lowlevelelementsno; caching: cachingEnabled
          client,   \* per client: place, service asked for, instance held,
                    \* instance changeURI will free, instance being pre-empted,
                    \* the token its callback was given, and whether changeURI
                    \* will find the mutex released (CallbackReturnsError)
          lock      \* who holds g_qamlistmutex between two steps

vars == <<factory, client, lock>>

Blank == [uri |-> None, freq |-> 0, refcount |-> 0, ready |-> FALSE,
          usages |-> [c \in Clients |-> {}]]
At(pc, uri, hold, old) == [pc |-> pc, uri |-> uri, hold |-> hold, old |-> old,
                           victim |-> None, told |-> None, short |-> FALSE]
Idle(i) == At("idle", None, i, None)

Listed(f) == Range(f.list)

TypeOK ==
    /\ factory \in [list : Seq(Instances), obj : [Instances ->
                      [uri : Uris \cup {None, FreedUri}, freq : Nat, refcount : Nat,
                       ready : BOOLEAN, usages : [Clients -> SUBSET Usages]]],
                    no : Nat, low : Nat, caching : Caching]
    /\ client \in [Clients ->
                      [pc : {"idle", "get", "preempt", "callback", "recheck", "free"},
                       uri : Uris \cup {None}, hold : Instances \cup {None},
                       old : Instances \cup {None}, victim : Instances \cup {None},
                       told : Clients \cup {None}, short : BOOLEAN]]
    /\ lock \in Clients \cup {NoOne}

Init ==
    /\ factory \in [list : {<<>>}, obj : {[i \in Instances |-> Blank]}, no : {0}, low : {0},
                    caching : Caching]
    /\ client = [c \in Clients |-> Idle(None)]
    /\ lock = NoOne

LockFree(c) == lock \in {NoOne, c}

\* The call returns; a recursive mutex that c does not have stays as it is.
Unlocks(c) == lock' = IF lock = c THEN NoOne ELSE lock

-----------------------------------------------------------------------------
(* Usages.                                                                 *)

\* adjustUsageForLowPriorityTokens
UsageOf(c) == CASE c \in Unreserved /\ Wants[c] = "LIVE" -> "LIVE_UNRESERVED"
                [] c \in Unreserved /\ Wants[c] = "RECORD" -> "RECORD_UNRESERVED"
                [] OTHER -> Wants[c]

\* registerQamsrcReleaseCallback
Releasable == Callbacks \cup {"LIVE_UNRESERVED" : u \in Callbacks \cap {"LIVE"}}
                        \cup {"RECORD_UNRESERVED" : u \in Callbacks \cap {"RECORD"}}

Attached(o, c) ==
    IF c \in Anonymous THEN o ELSE [o EXCEPT !.usages[c] = @ \cup {UsageOf(c)}]

\* Mutant of Detached: the usage stays attached.
DetachedNot(o, c) == o

Detached(o, c) ==
    IF c \in Anonymous THEN o ELSE [o EXCEPT !.usages[c] = @ \ {UsageOf(c)}]

getUsage(f, i) == UNION {f.obj[i].usages[c] : c \in Clients}

\* Mutant of PriorityOf: a shared instance counts as its least important use.
PriorityOfLeast(us) == CHOOSE p \in {Priority[u] : u \in us} : \A u \in us : Priority[u] >= p

\* mapUsageToPriority of a set of usages that is not empty
PriorityOf(us) == CHOOSE p \in {Priority[u] : u \in us} : \A u \in us : Priority[u] <= p

-----------------------------------------------------------------------------
(* The list.                                                               *)

\* The list without the entries in S, the others in their order.
Without(seq, S) ==
    LET kept == {k \in DOMAIN seq : seq[k] \notin S}
        rank(k) == Cardinality({j \in kept : j <= k})
    IN  [n \in 1..Cardinality(kept) |-> seq[CHOOSE k \in kept : rank(k) = n]]

\* Mutant of Unlisted: g_qamsrcobjectno is not decremented.
UnlistedUncounted(f, S) ==
    [f EXCEPT !.list = Without(@, S),
              !.obj = [i \in Instances |-> IF i \in S THEN Blank ELSE @[i]]]

\* removeFromList for each entry in S, and the instances are destroyed.
Unlisted(f, S) ==
    [f EXCEPT !.list = Without(@, S),
              !.obj = [i \in Instances |-> IF i \in S THEN Blank ELSE @[i]],
              !.no = @ - Cardinality(S)]

MovedToEnd(f, i) == [f EXCEPT !.list = Append(Without(@, {i}), i)]

\* The first listed instance in S, if there is one.
FirstOf(f, S) ==
    LET at == {k \in DOMAIN f.list : f.list[k] \in S}
    IN  IF at = {} THEN None ELSE f.list[CHOOSE k \in at : \A j \in at : k <= j]

Unused(f) == {i \in Listed(f) : f.obj[i].refcount = 0}

\* Mutant of Released: the instance goes with the last user but one.
ReleasedEarly(f, i) ==
    LET o == [f.obj[i] EXCEPT !.refcount = @ - 1]
    IN  IF o.refcount <= 1 /\ (o.freq = 0 \/ ~f.caching \/ ~o.ready)
        THEN Unlisted(f, {i})
        ELSE [f EXCEPT !.obj[i] = o]

\* freeQAMSourceInstance, after the entry's usage was detached.
Released(f, i) ==
    LET o == [f.obj[i] EXCEPT !.refcount = @ - 1]
    IN  IF o.refcount = 0 /\ (o.freq = 0 \/ ~f.caching \/ ~o.ready)
        THEN Unlisted(f, {i})
        ELSE [f EXCEPT !.obj[i] = o]

freeQAMSourceInstance(f, i, c) ==
    IF i \in Listed(f) THEN Released([f EXCEPT !.obj[i] = Detached(@, c)], i) ELSE f

\* With the default token, as preempt and changeURI call it.
freeWithoutToken(f, i) == IF i \in Listed(f) THEN Released(f, i) ELSE f

\* getExistingInstance: the first instance on the service that is in use or
\* ready for reuse; those before it that are neither are destroyed.
Matching(f, uri) == {i \in Listed(f) : f.obj[i].uri = uri}

\* Mutant of Existing: an instance in use must be ready for reuse too.
ExistingReady(f, uri) == FirstOf(f, {i \in Matching(f, uri) : f.obj[i].ready})

Existing(f, uri) ==
    FirstOf(f, {i \in Matching(f, uri) : f.obj[i].refcount > 0 \/ f.obj[i].ready})

Swept(f, uri) ==
    LET stop == Existing(f, uri)
        before == IF stop = None THEN Listed(f)
                  ELSE {f.list[k] : k \in 1..(SelectInSeq(f.list, LAMBDA x : x = stop) - 1)}
        gone == {i \in before \cap Matching(f, uri) : f.obj[i].refcount = 0 /\ ~f.obj[i].ready}
    IN  Unlisted(f, gone)

\* Mutant of check_for_free_qamsrc: off by one.
check_for_free_qamsrc_or_full(f) == Unused(f) # {} \/ numberOfTuners >= f.no + f.low

check_for_free_qamsrc(f) == Unused(f) # {} \/ numberOfTuners > f.no + f.low

-----------------------------------------------------------------------------
(* getQAMSourceInstance                                                    *)

\* The call returns instance i, or NULL; changeURI then frees the instance
\* it replaces, under the mutex unless that is gone, or keeps it.
Granted(c, f, i) ==
    LET old == client[c].old
    IN  /\ \/ /\ old # None /\ client[c].short
              /\ factory' = f
              /\ client' = [client EXCEPT ![c] = At("free", None, i, old)]
           \/ /\ ~(old # None /\ client[c].short)
              /\ factory' = IF old = None THEN f ELSE freeWithoutToken(f, old)
              /\ client' = [client EXCEPT ![c] = Idle(i)]
        /\ Unlocks(c)

Refused(c, f) ==
    /\ factory' = f
    /\ client' = [client EXCEPT ![c] = Idle(client[c].old)]
    /\ Unlocks(c)

\* getQAMSourceInstance() inside changeURI passes no token.
Using(c, o) == IF client[c].old = None THEN Attached(o, c) ELSE o

\* An instance on the service gets one more user.
Shared(c, o) == Using(c, [o EXCEPT !.refcount = @ + 1])

\* open(), which tunes and starts SI acquisition; a failure destroys i.
Opened(c, f, i) ==
    \/ \E ready \in BOOLEAN :
         Granted(c, [f EXCEPT !.obj[i] = Using(c, [@ EXCEPT
                        !.uri = client[c].uri, !.freq = Frequency[client[c].uri],
                        !.refcount = 1, !.ready = ready])], i)
    \/ Refused(c, Unlisted(f, {i}))

\* The unused instance to retune: one on the same carrier, or, when every
\* tuner is taken, the first.  The tuners were counted (used) before
\* getExistingInstance.
Reusable(f, uri, used) ==
    LET same == {i \in Unused(f) : /\ Frequency[uri] # 0
                                   /\ f.obj[i].freq = Frequency[uri]
                                   /\ f.obj[i].ready}
    IN  IF ~f.caching THEN None
        ELSE IF same # {} THEN FirstOf(f, same)
        ELSE IF used = numberOfTuners THEN FirstOf(f, Unused(f)) ELSE None

getQAMSourceInstance(c) ==
    LET uri == client[c].uri
        used == factory.no + factory.low
        f == Swept(factory, uri)
        found == Existing(factory, uri)
        cached == Reusable(f, uri, used)
    IN  /\ client[c].pc = "get"
        /\ LockFree(c)
        /\ IF found # None
           THEN Granted(c, MovedToEnd([f EXCEPT !.obj[found] = Shared(c, @)], found), found)
           ELSE \/ Refused(c, f)         \* getProgramInfo, or init(), fails
                \/ /\ cached # None
                   /\ Opened(c, MovedToEnd(f, cached), cached)
                \/ /\ cached = None
                   /\ used = numberOfTuners
                   /\ factory' = f
                   /\ client' = [client EXCEPT ![c].pc = "preempt"]
                   /\ UNCHANGED lock
                \/ /\ cached = None
                   /\ used # numberOfTuners
                   /\ \E i \in Instances \ Listed(f) :
                        Opened(c, [f EXCEPT !.list = Append(@, i), !.no = @ + 1], i)

-----------------------------------------------------------------------------
(* preempt                                                                 *)

findQAMSrcToPreempt(f, usage) ==
    LET lower == {i \in Listed(f) : /\ getUsage(f, i) # {}
                                    /\ getUsage(f, i) \subseteq Releasable
                                    /\ PriorityOf(getUsage(f, i)) < Priority[usage]}
        least == {i \in lower : \A j \in lower :
                     PriorityOf(getUsage(f, i)) <= PriorityOf(getUsage(f, j))}
    IN  IF lower # {} THEN FirstOf(f, least)
        ELSE IF livePreemptionEnabled /\ usage = "LIVE" /\ "LIVE" \in Releasable
             THEN FirstOf(f, {i \in Listed(f) : getUsage(f, i) = {"LIVE"}})
             ELSE None

\* Pre-emption is over: call getQAMSourceInstance again, mutex held, when
\* there is a tuner for it.
TryAgain(c, f) ==
    IF check_for_free_qamsrc(f)
    THEN /\ factory' = f
         /\ client' = [client EXCEPT ![c] = [@ EXCEPT !.pc = "get", !.victim = None, !.told = None]]
         /\ lock' = c
    ELSE Refused(c, f)

RequestedUsage(c) == IF client[c].old = None THEN UsageOf(c) ELSE "LIVE"

prepForPreemption(o) == [o EXCEPT !.usages = [t \in Clients |-> {}], !.refcount = @ + 1]

\* prepForPreemption, and the mutex is released for the callback, which is
\* given the token of one of the instance's usages.
preempt(c) ==
    LET v == findQAMSrcToPreempt(factory, RequestedUsage(c)) IN
    /\ client[c].pc = "preempt"
    /\ LockFree(c)
    /\ IF v = None THEN TryAgain(c, factory)
       ELSE /\ factory' = [factory EXCEPT !.obj[v] = prepForPreemption(@)]
            /\ \E t \in {d \in Clients : factory.obj[v].usages[d] # {}} :
                 client' = [client EXCEPT ![c] =
                               [@ EXCEPT !.pc = "callback", !.victim = v, !.told = t]]
            /\ UNCHANGED lock

CallbackReturns(c) ==
    /\ client[c].pc = "callback"
    /\ LockFree(c)
    /\ TryAgain(c, freeWithoutToken(factory, client[c].victim))

\* The callback returns an error: the extra reference is given back, and the
\* mutex is not taken again for what follows.  Inside changeURI, which has it
\* too, preempt then releases it once too often.
CallbackReturnsError(c) ==
    /\ CallbackFails
    /\ client[c].pc = "callback"
    /\ LockFree(c)
    /\ factory' = freeWithoutToken(factory, client[c].victim)
    /\ client' = [client EXCEPT ![c] = [@ EXCEPT !.pc = "recheck", !.victim = None, !.told = None,
                                                 !.short = (client[c].old # None)]]
    /\ UNCHANGED lock

\* check_for_free_qamsrc reads the list without the mutex, unless an outer
\* call has it: any answer.
Recheck(c) ==
    /\ client[c].pc = "recheck"
    /\ \E free \in BOOLEAN :
          /\ lock = c => free = check_for_free_qamsrc(factory)
          /\ \/ /\ free
                /\ client' = [client EXCEPT ![c].pc = "get"]
                /\ UNCHANGED <<factory, lock>>
             \/ ~free /\ Refused(c, factory)

\* changeURI frees the instance it replaced.
FreeOld(c) ==
    /\ client[c].pc = "free"
    /\ LockFree(c)
    /\ factory' = freeWithoutToken(factory, client[c].old)
    /\ client' = [client EXCEPT ![c] = Idle(client[c].hold)]
    /\ UNCHANGED lock

-----------------------------------------------------------------------------
(* What clients call.                                                      *)

Request(c, uri) ==
    /\ client[c].pc = "idle"
    /\ client[c].hold = None
    /\ client' = [client EXCEPT ![c] = At("get", uri, None, None)]
    /\ UNCHANGED <<factory, lock>>

\* A release callback may give the instance back itself, on the thread that
\* called it: the mutex is recursive.
InCallback(c) == lock # NoOne /\ client[lock].pc = "callback" /\ client[lock].told = c

Free(c) ==
    /\ client[c].pc = "idle"
    /\ client[c].hold # None
    /\ lock = NoOne \/ InCallback(c)
    /\ factory' = freeQAMSourceInstance(factory, client[c].hold, c)
    /\ client' = [client EXCEPT ![c] = Idle(None)]
    /\ UNCHANGED lock

\* changeURI: a service somebody is tuned to is joined, an instance of one's
\* own is retuned in place (its frequency in the list is not), and a shared
\* one is exchanged for another.
changeURI(c, uri) ==
    LET f == Swept(factory, uri)
        i == client[c].hold
    IN  /\ client[c].pc = "idle"
        /\ i # None
        /\ lock = NoOne
        /\ IF Existing(factory, uri) # None
           THEN /\ factory' = freeQAMSourceInstance(f, i, c)
                /\ client' = [client EXCEPT ![c] = At("get", uri, None, None)]
                /\ lock' = c
           ELSE IF i \notin Listed(f)
           THEN /\ factory' = f
                /\ UNCHANGED <<client, lock>>
           ELSE IF f.obj[i].refcount = 1
           THEN /\ \E ready \in BOOLEAN, to \in {uri, FreedUri} :
                     factory' = [f EXCEPT !.obj[i].uri = to, !.obj[i].ready = ready]
                /\ UNCHANGED <<client, lock>>
           ELSE /\ factory' = f
                /\ client' = [client EXCEPT ![c] = At("get", uri, i, i)]
                /\ lock' = c

-----------------------------------------------------------------------------
(* What others do: the VOD source takes bare tuner elements, the DVB tuner *)
(* drops the cache, SI and POD events decide whether an instance may be    *)
(* used again (readyForReUse).                                             *)

getLowLevelElement ==
    LET evicted == FirstOf(factory, Unused(factory))
        full == factory.no + factory.low = numberOfTuners
        f == IF full THEN Unlisted(factory, {evicted}) ELSE factory
    IN  /\ lock = NoOne
        /\ full => factory.caching /\ evicted # None
        /\ factory' \in {f, [f EXCEPT !.low = @ + 1]}
        /\ UNCHANGED <<client, lock>>

\* Mutant of freeLowLevelElement: an element that is not out is given back.
freeLowLevelElementTwice ==
    /\ lock = NoOne
    /\ factory' = [factory EXCEPT !.low = @ - 1]
    /\ UNCHANGED <<client, lock>>

freeLowLevelElement ==
    /\ lock = NoOne
    /\ factory.low > 0
    /\ factory' = [factory EXCEPT !.low = @ - 1]
    /\ UNCHANGED <<client, lock>>

freeCachedQAMSourceInstances ==
    /\ lock = NoOne
    /\ factory' = Unlisted(factory, Unused(factory))
    /\ UNCHANGED <<client, lock>>

readyForReUse(i) ==
    /\ i \in Listed(factory)
    /\ factory' = [factory EXCEPT !.obj[i].ready = ~@]
    /\ UNCHANGED <<client, lock>>

-----------------------------------------------------------------------------
CallStep(c) == \/ getQAMSourceInstance(c) \/ preempt(c) \/ CallbackReturns(c)
               \/ CallbackReturnsError(c) \/ Recheck(c) \/ FreeOld(c)

Next ==
    \/ \E c \in Clients : \/ CallStep(c) \/ Free(c)
                          \/ \E uri \in Uris : Request(c, uri)
                          \/ \E uri \in Changing : changeURI(c, uri)
    \/ getLowLevelElement \/ freeLowLevelElement \/ freeCachedQAMSourceInstances
    \/ \E i \in Instances : readyForReUse(i)

Spec == Init /\ [][Next]_vars

\* A call runs on, its release callback returns, and a thread that waits for
\* the mutex is not overtaken for ever.
FairSpec == Spec /\ \A c \in Clients : SF_vars(CallStep(c))

-----------------------------------------------------------------------------
(* Properties.                                                             *)

\* changeURI still has the instance it replaces.
Users(i) == {c \in Clients : client[c].hold = i \/ client[c].old = i}
Preemptors(i) == {c \in Clients : client[c].victim = i}

\* The counters that decide whether there is a tuner left agree with the
\* list, and the box never has more instances and bare elements than tuners,
\* although they are counted before getExistingInstance may destroy some and
\* the mutex is given up on the way to preempt.
TunersAccounted == /\ factory.no = Len(factory.list)
                   /\ Cardinality(Listed(factory)) = Len(factory.list)
                   /\ factory.no + factory.low <= numberOfTuners

\* An instance's refcount is the number of clients that have it and of
\* pre-emptions under way on it (so RMF_ASSERT(0 <= refcount) holds), and
\* what a client has, or is pre-empting, is never deleted.
RefcountIsUsers ==
    /\ \A i \in Listed(factory) :
          factory.obj[i].refcount = Cardinality(Users(i)) + Cardinality(Preemptors(i))
    /\ \A c \in Clients : {client[c].hold, client[c].victim, client[c].old}
                              \subseteq Listed(factory) \cup {None}

\* "We don't want multiple applications tuning to the same service to use
\* more than one tuner" (getExistingInstance).
OneTunerPerService ==
    \A i, j \in Listed(factory) :
        /\ i # j
        /\ factory.obj[i].refcount > 0 /\ factory.obj[j].refcount > 0
        /\ factory.obj[i].uri = factory.obj[j].uri
        => factory.obj[i].uri = FreedUri

\* With changeURI among the calls: the tuners, the refcounts and the services
\* still add up.
ChangeKeepsAccounts == TunersAccounted /\ RefcountIsUsers /\ OneTunerPerService

\* The usages of an instance, which pre-emption goes by, belong to clients
\* that have it: a release callback is never given the token of a client
\* that gave the instance back.
UsagesAreUsers ==
    \A i \in Listed(factory), c \in Clients :
        factory.obj[i].usages[c] # {} => c \in Users(i)

\* A client is pre-empted only for a request of higher priority (or live for
\* live, where that is enabled), whatever was attached to or detached from
\* its instance between the request and the choice.
PreemptsLowerOnly ==
    [][\A c \in Clients :
          client[c].pc = "preempt" /\ client'[c].pc = "callback" =>
              \A t \in Users(client'[c].victim) :
                  factory.obj[client'[c].victim].usages[t] # {} =>
                      \/ Priority[UsageOf(t)] < Priority[RequestedUsage(c)]
                      \/ livePreemptionEnabled /\ UsageOf(t) = "LIVE"]_vars

\* Every request for a tuner is answered, with an instance or without one:
\* no client waits for a mutex that is never released, and get and preempt
\* do not call each other for ever.
RequestsAreAnswered ==
    \A c \in Clients : client[c].pc = "get" ~> client[c].pc = "idle"

\* "After release callback returns, preempt() would lock g_qamlistmutex"
\* (prepForPreemption): the callback runs without the mutex, so that the
\* application can give the instance back meanwhile.
CallbackWithoutMutex == \A c \in Clients : client[c].pc = "callback" => lock # c
=============================================================================
