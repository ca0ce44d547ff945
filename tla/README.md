# Verification of the RDK media framework's core services

TLA+ models, TLC runs and TLAPS proofs kept beside `rdk-mediaframework`. The
repository is a large C/C++ code base (850 files) that runs on a set-top box:
an OS abstraction layer, tuner sources and their resource management, service
information, the CableCARD stack, and GStreamer sources and sinks. This project
covers the parts that carry concurrent control: the event system and the
conditions everything else waits on, the factory that shares the tuners, the
client of the tuner resource manager, a tuned source with its in-band SI
manager, and the decrypt sessions of the CableCARD manager.

## Inventory

| Component | State | Operations | Hard part | What makes it correct |
|---|---|---|---|---|
| OSAL event queue (`osal/src/rmf_osal_event.c`) | priority list, `event_count`, semaphore | add, get, timed get, try_get, clear | the semaphore is outside the mutex; try and clear ignore it | no lost wake-up, true count, priority then arrival order |
| OSAL event manager (same file) | routes per category, associations per queue, reference counts | create, dispatch, register, unregister, queue delete, event delete | a dispatch walks a route while owners free events and queues | no dangling event, every event freed, no route to a freed queue |
| OSAL conditions (`osal/src/rmf_osal_sync.c`) | `cd_state`, `cd_count`, `cd_id` | get, timed wait, set, unset, delete | set signals one waiter; delete works without the mutex and is raced by waiters that reset the state and by threads not counted yet | no waiter sleeps on a set condition; a deletion gets every counted waiter out; deletion ends |
| QAM source factory (`qamsource/main/rmfqamsrc.cpp`) | instance list, refcounts, usages, counters | get, free, changeURI, preempt, low-level elements, cache | the mutex is given up in preempt and around an application callback; re-entrant calls | tuners and references accounted for, one tuner per service, only lower priorities pre-empted, every request answered |
| Tuner reservation helper (`trh/TunerReservationHelper.cpp`) | socket, `is_connected`, per helper guid, token, two flags | reserve, release, query, receive, cancel, destroy | time-outs against late answers; guid and flags are written without the mutex the receiver holds; TRM restarts | an answer reaches its own helper and its own request, calls return, the connection comes back |
| QAM source (`qamsource/main/rmfqamsrcpriv.cpp`) | media state, PID list, error bits, session handle, SI event queue | open, play, pause, close, SI monitor thread, tuner events, setupDecryption | the SI thread and the owner both set up decryption; close does so without the mutex and joins the thread | the source has the tables on air, the session decrypts what is output, every call returns |
| In-band SI manager and section filter (`qamsource/simgr/inband`) | tables and versions, filter list, registered queue, lent descriptors | RequestTsInfo, RequestProgramInfo, ClearProgramInfo, PsiMonitor thread, section callback, pre-emption | sections of an old PID, updates while descriptors are lent, too few demux filters | what the source is told is what the manager has; the PAT keeps being watched |
| CableCARD manager: decrypt sessions (`qamsource/podmgr/podserver/src/podmgrImpl.c`, `cardmanager/vlMpeosCardManagerIf.cpp`) | request table, program index table, resource counts, `casSessionId`, `pod_isReady` | start, stop, CA reply and update, card insertion, ready, CA ready, removal | four threads; answers later than the session; addresses reused as handles; a card removed between two steps | tables and counts agree, an answer reaches its own session, every loss is told, nothing is left behind |
| OSAL IPC (`osal/src/rmf_osal_ipc.cpp`) | connections, commands | send, serve | partial reads, server restart | a reply belongs to its command |
| Media element base (`core/rmfbase.cpp`) | source and sink states | init, open, play, pause, stop, close, term | bus callbacks | legal state order |
| Out-of-band SI (`qamsource/simgr/oob`) | channel map, tables, listeners | acquire, notify, cache to file | a cache read while it is rebuilt | a listener sees complete tables |
| SDV (`qamsource/main/rmfsdvsource.cpp`, `qamsource/sdv`, `sdv`) | discovery, section filters | discover, configure, force tune | retry timers | discovery ends |
| CableCARD manager: homing, MMI, features; protocol stack | homing state, resources | APDUs, homing | card removal, time-outs | homing ends, sessions match resources |
| Common download manager | trigger and validation state | CVT, image validation | reboot between steps | an image is used only when validated |
| Sources, sinks, players, SNMP, stubs | media pipelines | - | media I/O | not modelled |

Components meet in three ways. Threads send each other OSAL events, directly to
a queue or through a manager; SI, POD and tuner code all use it. Sources share
hardware through the QAM factory, whose clients may hold a reservation they got
through the tuner reservation helper from TRM, another process. And a source
hands the PIDs of its program to the CableCARD manager, in the POD server
process, through a synchronous IPC call, and is told by events what became of
the session. `PROJECT.json` lists every component with its files and status, and
under `hazards` what can go wrong in each at which line.

## Modules

`EventBox` -- what a queue promises: a bag of events with the order of equals.

`OsalEventQueue` -- one queue. `eventlist`, `event_count` and `sem` are the
fields of `rmf_osal_eventqueue_t`; `pc`, `token` and `result` describe the
receiver threads. What the code does under the queue's mutex is one step
(`Add`, `Pop`, `PopEmpty`); taking the semaphore is a step of its own
(`SemTaken`, `TryMisses`, `WaitFails`). `Slot` and `Inserted` are the list walk of
`rmf_osal_eventqueue_list_add_element`.

`OsalEventManager` -- managers, routes and event lifetime. `ev` has
`memory_managed` and `users`; `routes` the queue lists; `assoc` the queue's
`eventmanager[]`; `own`, `hand`, `pending` say where a queue's owner is; `sender`
where a dispatch is. A dispatch is six steps (`DispatchBegin`, `DispatchLock`,
`DispatchCount`, `DispatchInsert` or `DispatchRefused`, `DispatchUnlock`,
`DispatchEnd`), because queue owners run between them; a queue deletion is
`QueueDelete`, one `QueueLeave` per manager, `QueueClear`, a pop and a delete per
remaining event, `QueueFree`. Freed events and queues may be created again at
the same address. Events have one priority here; order is `OsalEventQueue`'s
matter. Two history variables name what a failure leaves behind: `refused`, the
events a queue was counted for and then did not take, and `unrouted`, the queues
associated with a manager whose route could not be allocated.

`CondGate` -- what a condition promises: a gate that is set and unset, passed
only while set, and closed by the one who passes if it resets itself. It is
removed when nobody waits; who comes after that has no promise.

`OsalCond` -- one condition. `valid`, `cd_state` and `cd_count` are the fields,
`mutex` is true while a thread holds `cd_mutex` over a step, `pc` and `op` say
where each thread's call is. A get is `Call` (the check of `cd_id`), `Enter`,
then `Passes`, or `MustWait` and `Sleep`: the test and the wait are two steps
because `rmf_osal_condDelete` writes `cd_state` and signals without the mutex. A
waiter may be signalled, wake alone, time out, or fail at once (`WaitFails`: the
carry test of `rmf_osal_condWaitFor` uses `>` and lets `tv_nsec` be 1000000000). The
deletion is one step per access: mark, test, write, signal, destroy, free. It may
begin at any time. A thread that has checked `cd_id` and does not have the mutex
yet is not counted and may enter after the loop has read `cd_count` as 0; `late`
remembers who was at that place then. `pthread_cond_destroy` with a thread asleep
is undefined: it succeeds, fails, or waits for the sleeper (`DeleteUnblocks`). A
thread that is in a call when the memory goes runs on with it (`Dangles`).

`QamFactory` -- `factory` is `g_qamsrclist`, its entries and counters, `client`
where each client's call is, `lock` who keeps `g_qamlistmutex` between two steps.
A call is one step as long as it keeps the mutex. It is cut where the code
releases it: before `preempt`, and for the release callback. When `preempt` or
`changeURI` calls `getQAMSourceInstance` with the recursive mutex held, `lock`
stays with the client, so that nobody else runs in between; a thread that does
not hold it releases nothing (`Unlocks`). A release callback that fails makes
`preempt` go on without taking the mutex again (`Recheck`): inside `changeURI`
the mutex is then released once too often, so `changeURI` frees the instance it
replaced in a step of its own, with others between (`short`, `FreeOld`). A
callback may give the instance back on its own thread (`InCallback`). `open` may fail,
`readyForReUse` may change at any time (it depends on SI and CA events), and the
VOD source takes and returns bare tuner elements.

`Trh` -- the helpers, their clients, the receiver thread, the socket and TRM.
`connect_to_trm` runs under the mutex and is one step; `is_connected` is read and
written elsewhere without it, and those are steps of their own. So are a client's
new guid (`Call`) and the reset of its flags (`Encode`), which it makes without
`g_mutex`, and the receiver's search for the helper, `setToken` and the wake-up
(`RxReserveTunerResponse`, `RxSetToken`, `RxNotifyResponse`), between which it keeps
`g_mutex` (`Locked`). `crossed` remembers the answer for which the receiver had
already found the helper when the flags were reset. TRM is external:
it answers, ignores, cancels a recording, stops and starts as it likes, and
what is on the socket when it stops is lost. The constructor leaves both flags
uninitialised: `Init` and `Construct` choose them freely.

`InbandSi` -- the SI manager of a source over its section filters and the
broadcast. A table is its version; version n of the PAT puts the program on
`PmtPid[n]` or omits it, version n of the PMT lists `Streams[n]`. `mgr` is the
manager object, `m_filter_list` its filters with the section each has found,
`psi` the PsiMonitor thread, `tables` the PAT and PMT events in the source's
queue. `set_filter` is `rmf_SectionFilter::SetFilter` with the manager's
bookkeeping: a full demux cancels the filter with the largest priority number
above the new one's, and the manager does not react to that. A cancelled filter
stays on the list and is a candidate again; `SetFilter` then asks the demux in
vain for ever, which the model has as a call without a result.
`PatListed` and `PatAnnounced` are two steps, since the first changes the program
list under `m_mediainfo_mutex` and the second tells the source.

`QamSource` -- extends `InbandSi` to the whole of one tuned source. `state`,
`mediaInfo`, `errors` and `session` are fields of `RMFQAMSrcImpl`; `urgent` and
`tables` are the two priorities of its event queue; `monitor` is the SI monitor
thread, `owner` the thread that calls open, play, pause and close, `m_mutex` who
holds that mutex over a step. `simonitorThread` is cut wherever it takes or
releases a mutex of the manager; `setupDecryption` is two steps (`SetupBegins`,
`SetupEnds`), between which the descriptors are lent and PMT sections are
dropped; `close` is five, none under `m_mutex`.

`PodDecrypt` -- decrypt sessions. `rows` and `used` are the program index table,
`req` the request table, indexed by the address that is also the session handle
(freed addresses are used again); `evq` and `handler` the POD event handler
thread, `wire` and `apdu` the APDUs from the card and the thread that handles
them, `ipc` a failed start that has not been cleaned up. `card` is the card
manager's view, `chip` what the card was told last. `serial` numbers the starts
and is what the properties use to tell sessions at one address apart; no guard
reads it. `session` and `told` are the sources: the handle each keeps and what it
has been told.

The `*Proofs` modules hold the theorems about the module they extend.

`MC*` modules give the constants values. Definitions called "Mutant of ..." are
deliberately wrong variants of the definition that follows them; no
specification uses them. Each property of a passing run is known to fail when
one of them replaces the definition it varies.

## Runs

| Run | Result | Shows |
|---|---|---|
| `OsalEventQueue` | holds | `NoLostWakeup`, `CountIsLength`, `BoxSpec` (refinement), `TopPriorityIsTaken` (liveness) |
| `OsalEventManager` | holds | `NoDanglingEvent`, `FreedAfterLastUser`, `NoRouteToFreedQueue`, `DeletionCompletes`, `DispatchedIsFreed` (liveness) with queues that fill up and allocations that fail; 84 076 states |
| `OsalCond` | holds | `NoSleepOnSet`, `OnlyLateUsers`, `GateSpec` (refinement with its fairness), `DeletionEnds` (liveness); 94 637 states |
| `OsalCondDelete` | violated | a thread between the check of `cd_id` and the mutex is not waited for, and uses the condition after it was freed |
| `QamFactory` | holds | `TunersAccounted`, `RefcountIsUsers`, `OneTunerPerService`, `UsagesAreUsers`, `PreemptsLowerOnly`; 121 356 states |
| `QamFactoryChange` | holds | `ChangeKeepsAccounts`: the first three with `changeURI`, caching on and off; 246 475 states |
| `QamFactoryLive` | holds | `RequestsAreAnswered` with live pre-empting live |
| `Trh` | holds | `NoLostResponse`, `AnswerIsOwn`, `TokenIsOwn`; 1 706 106 states |
| `TrhLive` | holds | `CallsReturn`, `Reconnects` (liveness); 207 149 states |
| `PodDecrypt` | holds | `TablesAgree`, `AnswerReachesItsSession`, `LossIsTold`, `NobodyIsLeft`; 858 880 states |
| `QamSource` | holds | `SourceFollowsTables`, `SessionServesMedia`, `SourceSettles` (liveness); 584 440 states |
| `QamSourcePreempt` | violated | with one demux filter left, the initial PMT filter takes the PAT filter's place |

`OsalCondDelete` and `QamSourcePreempt` are disagreements between the code and a
comment of the repository; `PROJECT.json` quotes both sides under `findings`.

### Bounds

- Queue: three events of two priorities make two equals and one to overtake
  them; limit 2 and `SemValueMax` 3 let both the full queue and the saturated
  semaphore happen; two receivers are the fewest that can steal each other's
  units. The proofs lift all of these bounds.
- Manager: two queues and two senders let a dispatch meet another dispatch, a
  receipt and a deletion of the very queue it is at. Limit 1 makes a queue refuse
  the second of two events, and any allocation may fail. One manager is enough for
  these; two managers with one sender (398 920 states) and with one queue (13 056
  states) keep the properties too, and the proofs have any number. `MaxRegister` 1
  and a slot for every manager are assumptions on the callers, see Known
  deviations.
- Condition: three threads are two waiters and a third that sets or unsets, or
  three waiters a deletion has to get out one signal at a time, or a waiter and
  a thread that comes too late to be counted. No call is
  counted: threads call for ever until the condition is invalid.
- Factory: two tuners, three services (two on one carrier, one SDV) and clients
  of three priorities make sharing, reuse on the same carrier, eviction and
  pre-emption happen. One instance more than tuners lets a freed address come
  back. Instances are symmetric (the list, not the address, decides every
  choice). `QamFactoryChange` has two live clients and one of usage `AD`,
  whose tuner they may take, so that a release callback can fail inside
  `changeURI`; it changes to one service only. `QamFactoryLive` uses one tuner,
  where get and preempt alternate most.
- Helper: two helpers and two requests; two requests of one client are what a
  late answer needs. `MaxRetry` is 1 or 2 instead of 10; `MaxCancel` is 0 in the
  first run, whose properties are about answers, and 1 in the second. The model
  stops when the requests are used up, which is why deadlock is not checked
  there.
- Decrypt sessions: two sources, one of which queries the card first; two
  request addresses; two programs and two streams, so that the counters reach
  their limits; three starts, so that an address and a row are used again while
  an answer to their first user is under way; one card that comes and goes, one
  spontaneous update. Addresses are symmetric. The bounds make it stop.
- Source: the PAT moves the program to another PID by way of a version that
  lacks it, the PMT loses a stream, and the tables on air at the start are any of
  them; one open, and two calls among play, pause and loss of lock, in any order
  with the updates. Two filters are what the source needs. A second open
  (1 255 937 states) and `NegativeFilters = TRUE` keep the safety properties too.

### Fairness

- `OsalEventQueue`: weak fairness of each receiver's steps and of calling again
  (receiver threads of this code base are loops). Senders owe nothing.
- `OsalEventManager`: weak fairness of steps that wait for nothing, strong
  fairness of those that wait for a manager's mutex (a pthread mutex does not
  pass one thread over for ever). Owners keep receiving, also one that tries again
  and again to delete its queue and fails: receiving has strong fairness. Nobody
  has to create, register or delete.
- `OsalCond`: strong fairness of a thread's steps, which wait for `cd_mutex`;
  strong fairness of the deletion, which takes it to destroy the condition. Nobody
  has to call, set, time out or wake alone.
- `QamFactory`: strong fairness of a call's steps, which wait for the list mutex
  or for a callback that returns.
- `Trh`: weak fairness of the clients' and the receiver's steps; a wait ends
  because it has a time-out. TRM has no fairness: it may never answer.
- `QamSource`: weak fairness of the threads and of each table's repetition on
  air; strong fairness of processing a PMT section, because PAT sections are
  taken first and the queue is empty of them between two repetitions. The owner
  and the tuner owe nothing. `PodDecrypt` has no fairness; it has no liveness
  property, since a card may never answer.

## Proofs

`OsalEventQueueProofs` proves, for every set of events, priority assignment,
limit, semaphore maximum and finite set of receivers (`QueueConstants`, which only
asks that the limit does not exceed the semaphore's maximum, 255 against
`SEM_VALUE_MAX`):

- `QueueTypes`: `Spec => []TypeOK`. `SlotStops` shows that the insertion walk
  stops within the list (the least entry of lower priority exists, or there is
  none), `InsertedType` that the insertion keeps a sequence.
- `QueueCount`: `Spec => []CountIsLength`, inductive with the types.
- `QueueNoLostWakeup`: `Spec => []NoLostWakeup`. It is not inductive alone. A
  receiver that takes a unit must not already hold one (`TokenAtPop`), and an
  insertion into a queue whose semaphore is saturated keeps the inequality only
  because the list is shorter than the limit (`CountIsLength`). The inductive
  invariant is the conjunction of the four; the counting steps use the
  cardinality of the set of unit holders.
- `QueueImplementsBox`: `Spec => BoxSpec`. The inductive invariant `Ordered` says
  that the list descends in priority and repeats no handle. With it `Add` is a
  `Put` (`AddPuts`: nothing behind the slot has the new event's priority) and `Pop`
  a `Take` (`PopTakes`: the head outranks the rest and has no senior); every
  other step leaves the box as it is.

`OsalCondProofs`, for any finite set of threads:

- `CondTypes`: `TypeOK`, from `CountIsInside`: `cd_count` is the number of threads
  between their entry and their exit.
- `CondOnlyLateUsers`: `Spec => []OnlyLateUsers`, with no assumption on when the
  deletion begins. Inductive with `NobodyComes`: once `cd_id` is cleared no call
  starts, and when the loop ends nobody is inside (`CountIsInside` at zero), so who
  is in a call was on the way to the mutex. That such a thread can still be there
  when the memory goes is the run `OsalCondDelete`.
- `CondNoSleepOnSet`, for `AutoReset`. It needs `WaitsOnFalse` (a thread between its
  test and its sleep found the state false, and has the mutex so that no set can
  intervene) and `Exclusion`. It holds again after the loop of the deletion, for the
  threads that came too late.
- `CondImplementsGate`: `Spec => Gate!Safe`, the refinement without its fairness. The
  gate is removed when the loop ends, and nobody waits at it then.

`OsalEventManagerProofs`, for any events, queues, managers, senders and limits:

- `ManagerTypes`; `ManagerNoDanglingEvent` without further assumption. The
  invariant `RefsAccounted` says that the places that refer to an event (queues,
  receivers' hands, senders, the count a dispatch has added and not yet
  delivered) are exactly its `users`, fewer if a queue refused it, and that a freed
  event has none. The references are the cardinality of a set of places, so that a
  step moves one element and the library's facts about finite sets do the counting.
- `ManagerFreedAfterLastUser`, without further assumption, from the same count: a
  live managed event has a reference or was refused, and a refused one has a user
  too many for ever.
- `ManagerNoRouteToFreedQueue`, for `RegistersOnce`: an owner registers once per
  category and a queue has a slot for every manager. Both are true of the code
  base's callers; Known deviations says what happens otherwise.
- `ManagerDeletionCompletes`, the action property `DeletionCompletes`, without
  further assumption: what is in a queue's `eventmanager[]` is on a route or is
  `unrouted` (`ArrayRouted`).

`TrhProofs`, for any helpers, requests, retries and cancellations: `TrhTypes`,
`TrhTokenIsOwn`, `TrhNoLostResponse` and the action property `TrhAnswerIsOwn`. The
invariant follows a request id from the client to TRM and back: an id is asked by
one helper once (`Asked`, `AskedOnce`), answered once (`Answered`,
`AnsweredOnce`), carried by messages in that helper's name (`OwnIds`), and the
helper's flags agree with the message last handled (`InCall`, `Tokens`,
`ReadToTheEnd`, `NotLost`). `Handling` is about the answer between the search and the
wake-up: it answers a request of the helper found, the current one or an earlier
one, and if its client has reset its flags since, `crossed` is that request. Without
that case `AnswerIsOwn` is false (`AnswerAlwaysOwn`).

`PodDecryptProofs`, for any sources, requests, programs, limits and failures:

- `PodTypes`, without further assumption.
- `PodTablesAgree`, `PodAnswerReachesItsSession`, `PodLossIsTold`, for `OneCard`
  (one card is inserted and removed) and `NoWrap` (the behaviour has so few starts and
  updates that the transaction ids, counted modulo 255, are not reused: a start
  takes up to four, an update two). `NoWrap` restricts the theorems; the code does
  not ensure it, and an answer 255 transactions old would be taken for a current
  one. `PodNobodyIsLeft` also needs `"stop" \notin Failing`. The first and the last
  are known deviations otherwise.
- The invariant is eight parts: where the card is in its life and what the
  handler knows of it (`CardLife`, `CasLife`), that nothing was sent before the
  CA session (`NothingSent`), who has a request (`Holders`), what the card was told
  last per row (`Chips`), that an APDU under way carries a transaction id no later
  one has (`ApdusTimely`), what a source was told (`Clients`), and that each row's
  transaction and streams add up (`RowsAccounted`). `AnswerReachesItsSession` is
  about one comparison and needs all of them: the id is only as good as the
  history of its row.

`QamFactoryProofs`, for any clients, services, instances, usages and number of
tuners, with `changeURI` on any services, failing opens and failing callbacks:

- `FactoryTypes`, `FactoryTunersAccounted`, `FactoryRefcountIsUsers`,
  `FactoryOneTunerPerService`, `FactoryChangeKeepsAccounts`. `Accounts(f, n)` says that
  a factory is in order when `n[i]` references to instance `i` are out; one lemma
  per operation on the list shows what it does to `n`, so that a call, which is a
  chain of them, is in order at every point in between. `Inv` adds what a call's
  record may look like (`CallShape`) and, for `changeURI`, that it keeps the mutex
  and looks for another service than its instance's (`Replaces`): without that,
  `getQAMSourceInstance` could return the very instance `changeURI` is about to
  free. `OneTunerPerService` is not inductive alone: a cached instance that nobody
  has must not share its service either (`Apart`).
- `FactoryPreemptsLowerOnly`: what is attached to an instance under a client's
  token is that client's usage (`OwnUsage`), and the largest priority of a
  non-empty set exists.
- `FactoryUsagesAreUsers`, for `Changing = {}`: with `changeURI` the property is
  false, see the hazard at `rmfqamsrc.cpp:1512`.
- The attempt to prove `RefcountIsUsers` showed that the model let a client whose
  callback had failed release a mutex that another one held. The mutex is
  recursive and a thread that does not own it releases nothing; the model says so
  now, and has the window that `changeURI` then leaves open.

`QamSourceProofs`, for any PATs and PMTs, any number of demux filters, with and
without negative filters, refusals of the PAT's filter, failed opens and closes of
them, and any number of opens and calls:

- `SourceTypesHold`: `Spec => []TypeOK`. The types are not inductive: a section waits
  in the filter that found it and is used as a version of the table the manager
  takes the filter for, so the invariant says that a table has one filter at most
  and that a filter's section is of its table (`FilterList`).
- `SourceFollows`: `Spec => []SourceFollowsTables`, for `"PMT" \notin Refuses` (a known
  deviation otherwise). The list lemmas say what `set_filter`, `ReleaseFilter` and
  `configure_negative_filters` do to a `FilterList`; `SetFilterList` is where the
  priority of the initial PMT filter counts: with it the filter is set even if the
  demux is full, by cancelling the PAT's. The invariant adds what is left of a
  manager that is gone (`Life`), that `PAT_ACQUIRED` comes first and once, and until
  it is taken there is no PMT filter and no program error (`First`), that the
  monitor finds no PMT filter when it looks the program up, so that it never sets a
  second one (`Lookup`), and the two agreements themselves, each of which may fail only
  while an event is queued or handled that mends it: `Knows` (PID, filter and
  program error against the PAT) and `Media` (PID list against the PMT).
- `SessionServes`: `Spec => []SessionServesMedia`, for `StopCaWhenPaused` (IPPV is the
  known deviation). The invariant `Serves` drops the condition that the source is
  open and adds that the monitor does not have `m_mutex` while the source is paused,
  which is why a session it is about to start cannot outlive a pause.
- `SetupIsExclusive`: the owner's and the monitor's `setupDecryption` exclude each
  other (`Mutex`), so that descriptors one of them has borrowed are not given back by
  the other.
- `PatFilterKept`: `Spec => []PatFilterSurvives` for `MaxFilters >= 2`, the other side of
  the run `QamSourcePreempt`: a source needs two filters, and with two the priorities
  never matter, because a table has one filter at most.

TLC finds the inductive invariants of these modules true in every state of the
configurations `OsalCond`, `OsalEventManager`, `Trh`, `PodDecrypt`, `QamFactory`,
`QamFactoryChange` and `QamSource`, the last one also with one filter, with negative
filters and with two opens.

Only liveness is left to the model checker, being outside the prover:
`TopPriorityIsTaken`, `DispatchedIsFreed`, `DeletionEnds`, the fairness in `GateSpec`,
`RequestsAreAnswered`, `CallsReturn`, `Reconnects`, `SourceSettles`. Every invariant and
every action property of a passing run is a theorem.

## Known deviations

Properties a reader might expect and the code does not have. Each is a
definition of a module or follows from a value of a constant; TLC refutes it
when the run's configuration is changed as said here.

| Property | With | Where | What happens |
|---|---|---|---|
| `PatFilterSurvives` | run `QamSourcePreempt` | `rmf_inbsimgr.cpp:4622` | the PSI state 2 is passed as the PMT filter's priority; on a full demux it cancels the PAT filter (40), and later PATs are not seen |
| `TimedNeverEarly` | `OsalEventQueue` | `rmf_osal_event.c:845-847`, `891` | a timed get returns `RMF_OSAL_ENODATA` before its time, because units outnumber events after a try_get or clear that took an event without its unit |
| `NoRouteToFreedQueue` | `OsalEventManager`, `MaxRegister = 2` | `rmf_osal_event.c:1319` | unregistering removes one entry per route; a queue registered twice stays on it |
| `NoRouteToFreedQueue` | `OsalEventManager`, `TwoManagers` with `MaxManagers = 1` | `rmf_osal_event.c:499`, `1186` | a queue that has no slot left is routed by a manager it does not know, and freed while it is |
| `CallbackWithoutMutex` | `QamFactory`, `QamFactoryChange` | `rmfqamsrc.cpp:767`, `1223-1227` | `preempt` calls get with the recursive mutex held; get takes the tuners for exhausted, gives the mutex up once and calls `preempt` again, whose callback still runs under it |
| `AnswerAlwaysOwn` | `Trh` | `TunerReservationHelper.cpp:555`, `581` against `820`, `848` | a client that times out and calls again while the receiver is between finding its helper and waking it takes the earlier request's result for the new one's |
| `RecordTrueIsReserved` | `Trh` | `TunerReservationHelper.cpp:530`, `TRHTest.cpp:91-96` | a reservation that times out returns what the flag held before |
| `NoSleepOnSet` | `OsalCond`, `AutoReset = FALSE` | `rmf_osal_sync.c:758` | set wakes one of several waiters; the rest sleep on a set condition |
| `NoUseAfterFree` | run `OsalCondDelete` | `rmf_osal_sync.c:525-537`, `600` | a thread that has checked `cd_id` and not yet the mutex is not counted and not waited for |
| `AnswerReachesItsSession` | `PodDecrypt`, `MaxCards = 2` | `podmgrImpl.c:2657` | transaction ids start again with a new table; an APDU that was compared with the old CA session matches a session of the new card |
| `NobodyIsLeft` | `PodDecrypt`, `"stop"` in `Failing` | `podmgrImpl.c:1516-1602` | a stop whose CA_PMT is not sent frees the request and leaves its row in use; a later answer for the row finds no session, and `handleCaEnable` reads a handle that was never set |
| `ClosedHasNoSession` | `QamSource` | `rmfqamsrcpriv.cpp:1518` | close stops the session while the monitor thread is in `setupDecryption`, which starts another |
| `SourceSettles` | `QamSource`, `ClosesFailedOpen = TRUE` | `rmfqamsrc.cpp:1498` | a failed open leaves the state open; a close then waits for a thread that has ended |
| `SessionServesMedia` | `QamSource`, `StopCaWhenPaused = FALSE` | `ippvsrc.cpp:62` | a paused IPPV source keeps a session for PIDs a new PMT has replaced |
| `SourceFollowsTables` | `QamSource`, `Refuses = {"PMT"}` | `rmf_inbsimgr.cpp:4634` | a refused PMT filter is not reported: the source waits for a PMT nobody looks for |

What a failure costs where the properties state it: an event refused by a full
queue, or for want of memory, keeps its count and is never freed
(`rmf_osal_event.c:650`, `FreedAfterLastUser`), and a route that cannot be allocated
makes every deletion of the queue fail (`rmf_osal_event.c:1159`,
`DeletionCompletes`).

Seen while reading: `SetFilter` tries for ever if the demux still refuses after a
cancellation, and a second pre-emption may pick the filter cancelled by the first,
since `getLowestPriorityFilter` does not pass over it
(`rmf_sectionfilter.cpp:343-388`, `1112-1123`); a source has one filter per table, so
the runs never come to a second pre-emption. Not modelled:
`set_filter` returns with `g_sitp_psi_mutex` held when there is no section filter
(`rmf_inbsimgr.cpp:3990-3994`); a PAT of several sections replaces
the program list with each; the resource flags behind `CA_SYSTEM_READY` are never
cleared, so the event comes early for a second card
(`vlMpeosCardManagerIf.cpp:427`), and it is announced to clients before the
program index table exists (`podmgrImpl.c:1977`).

## Not modelled

- `rmf_osal_eventmanager_delete`: called at shutdown only.
- `pause` and `stop` of a shared QAM source, which check the refcount and act on
  the pipeline after releasing the mutex; they need the media states of `core`.
- The pre-tune thread of the factory as such: it is a client with usage PRETUNE.
- The effect of heap corruption: where the code leaves a dangling `uri` after a
  failed `changeURI`, the model has a uri that matches nothing; a request freed
  outside `table_mutex` is unlinked in one step.
- The text of messages, the values of times, and listeners' reactions in `trh`;
  deleting a helper whose client still waits.
- In a source: SPTS monitoring, TSID validation, the channel-map lookup of a PAT
  update and the two optimised PMT policies; in its SI manager: CAT, TDT, TOT,
  private sections, PATs of several sections and the build with the SI cache.
- In the CableCARD manager: MMI, homing, generic features, copy protection; the
  re-activation of suspended requests, which cannot happen with the priority 0
  its only caller passes; `transportStreamsUsed`, which limits nothing.
- A composition of `QamSource` with `PodDecrypt`: the two meet in start, stop and
  removal, each of which `QamSource` leaves free to fail and `PodDecrypt` free to
  come at any time.
- The components marked `not_modelled` in `PROJECT.json`, with reasons. They are
  most of the repository's 293 000 lines: the CableLabs message coding and DSG
  code of the card stack, SI table parsers, stream splicing, GStreamer elements,
  generated SNMP tables, drivers and stubs. What they do is data conversion and
  device I/O in one thread, where a model would repeat the code; the models here
  cover the control that several threads share.

## Plan

1. Done: event queue with its abstract box and proofs; event manager; QAM
   factory; tuner reservation helper.
2. Done: conditions with their abstract gate; decrypt sessions; the in-band SI
   manager and the QAM source composed with it.
3. Done: proofs about the condition, the event manager, the reservation helper,
   the decrypt sessions, the factory, and the source with its SI manager.
4. Later: `OsalIpc` (command and reply over a connection, server restart),
   `Homing` and `CommonDownload`, the media states of `core`.
