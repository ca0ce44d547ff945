-------------------------------- MODULE Trh ---------------------------------
(***************************************************************************)
(* The tuner reservation helper (trh/TunerReservationHelper.cpp).  Every   *)
(* helper object is used by one client thread, which posts a request to    *)
(* the tuner resource manager (TRM) over a socket all helpers share and,   *)
(* for a synchronous call, waits at most 65 seconds for the answer.  One   *)
(* receiver thread reads the socket, finds the helper by the uuid of the   *)
(* message and wakes the client.  It holds g_mutex from the search to the  *)
(* wake-up; the client writes the uuid and resets its flags without it, so *)
(* a client's next call may begin in between.  TRM itself is external: it  *)
(* answers, stays silent, cancels recordings and restarts as it likes.     *)
(***************************************************************************)
EXTENDS Integers, Sequences, FiniteSets

CONSTANTS Helpers,     \* TunerReservationHelperImpl objects
          MaxRetry,    \* attempts to post a request (10 in the code)
          MaxId,       \* bound: requests made in a behaviour
          MaxCancel    \* bound: CancelRecording messages in a behaviour

ASSUME TrhConstants ==
    /\ MaxRetry \in Nat \ {0}
    /\ MaxId \in Nat
    /\ MaxCancel \in Nat

VARIABLES trm,           \* TRM accepts connections
          sock,          \* trm_socket_fd: none (-1), connected, or broken
          is_connected,
          toTrm, toTrh,  \* what is on its way on the socket
          rx,            \* where the receiver thread is
          msg,           \* the message it has read: responseStr
          found,         \* trh: the helper it has found for it, if any
          helper,        \* per helper: the object's fields and its client
          lastId,        \* uuids generated so far
          cancels,       \* CancelRecording messages sent so far
          answer         \* TRM's answer to each request

vars == <<trm, sock, is_connected, toTrm, toTrh, rx, msg, found, helper, lastId, cancels, answer>>

link == <<trm, sock, is_connected, toTrm, toTrh>>

Kinds == {"record", "record async", "live", "release", "states"}
Reserving == {"record", "record async", "live"}
\* TunerReservationHelper::reserveTunerForLive does not pass "synchronous" on.
Synchronous == {"record", "states"}
Ids == 1..MaxId
NoToken == 0
NoMsg == [kind |-> "none", id |-> 0, ok |-> FALSE, token |-> NoToken]

Messages == [kind : Kinds \cup {"cancel", "cancelled", "none"}, id : Nat,
             ok : BOOLEAN, token : Nat]

\* life: live, signalled and delisted while the destructor runs, freed
\* got: resrvResponseRecieved, ok: reservationSuccess, id: guid
\* out: the token in the encoded request
\* crossed: history, the request whose answer the receiver was handling for
\* this helper when the call reset its flags
TypeOK ==
    /\ trm \in BOOLEAN
    /\ sock \in {"none", "connected", "broken"}
    /\ is_connected \in BOOLEAN
    /\ toTrm \in Seq(Messages)
    /\ toTrh \in Seq(Messages)
    /\ rx \in {"loop", "handle", "token", "notify", "lost"}
    /\ msg \in Messages
    /\ found \subseteq Helpers
    /\ helper \in [Helpers ->
          [life : {"live", "signalled", "delisted", "freed"},
           pc : {"idle", "encode", "connect", "write", "wait", "copy"},
           kind : Kinds \cup {"none"}, id : Nat, tries : 1..MaxRetry, got : BOOLEAN,
           ok : BOOLEAN, token : Nat, out : Nat, crossed : Nat,
           ret : {"none", "true", "false"}]]
    /\ lastId \in 0..MaxId
    /\ cancels \in 0..MaxCancel
    /\ answer \in [Ids -> {"none", "ok", "failed"}]

\* A new object: the constructor leaves guid and both flags as they are.
Constructed(got, ok) ==
    [life |-> "live", pc |-> "idle", kind |-> "none", id |-> 0, tries |-> MaxRetry,
     got |-> got, ok |-> ok, token |-> NoToken, out |-> NoToken, crossed |-> 0,
     ret |-> "none"]

Init ==
    /\ trm \in BOOLEAN
    /\ sock = "none"
    /\ is_connected = FALSE
    /\ toTrm = <<>>
    /\ toTrh = <<>>
    /\ rx = "loop"
    /\ msg = NoMsg
    /\ found = {}
    /\ helper \in [Helpers -> {Constructed(g, o) : g \in BOOLEAN, o \in BOOLEAN}]
    /\ lastId = 0
    /\ cancels = 0
    /\ answer = [i \in Ids |-> "none"]

-----------------------------------------------------------------------------
(* connect_to_trm, all of it under g_mutex.  A socket that was connected   *)
(* before is tried again, which fails, and only then replaced.             *)

\* Mutant of CloseSocket: trm_socket_fd keeps the old descriptor.
CloseSocketOnly == toTrm' = <<>> /\ toTrh' = <<>> /\ UNCHANGED sock

CloseSocket == toTrm' = <<>> /\ toTrh' = <<>> /\ sock' = "none"

connect_to_trm ==
    /\ IF is_connected
       THEN UNCHANGED <<sock, is_connected, toTrm, toTrh>>
       ELSE IF sock = "none"
       THEN /\ is_connected' = trm
            /\ sock' = IF trm THEN "connected" ELSE "none"
            /\ UNCHANGED <<toTrm, toTrh>>
       ELSE CloseSocket /\ UNCHANGED is_connected
    /\ UNCHANGED trm

\* write() on the socket: a failure returns -1, which counts as sent.
Written(m) == toTrm' = IF sock = "connected" THEN Append(toTrm, m) ELSE toTrm

-----------------------------------------------------------------------------
(* A client's call.                                                        *)

\* A new guid.
Call(h, kind) ==
    /\ helper[h].life = "live"
    /\ helper[h].pc = "idle"
    /\ lastId < MaxId
    /\ lastId' = lastId + 1
    /\ helper' = [helper EXCEPT ![h].kind = kind, ![h].id = lastId + 1, ![h].ret = "none",
                                ![h].pc = "encode"]
    /\ UNCHANGED <<link, rx, msg, found, cancels, answer>>

\* The message is built and the flags are reset; only getAllTunerStates resets
\* reservationSuccess, and releaseTunerReservation resets neither.
Encode(h) ==
    /\ helper[h].pc = "encode"
    /\ helper' = [helper EXCEPT
          ![h].pc = "connect", ![h].tries = MaxRetry,
          ![h].out = IF helper[h].kind \in {"live", "states"} THEN NoToken ELSE helper[h].token,
          ![h].got = IF helper[h].kind = "release" THEN @ ELSE FALSE,
          ![h].ok = IF helper[h].kind = "states" THEN FALSE ELSE @,
          ![h].crossed = IF h \in found THEN msg.id ELSE 0]
    /\ UNCHANGED <<link, rx, msg, found, lastId, cancels, answer>>

\* The receiver holds g_mutex.
Locked == rx \in {"token", "notify"}

Connect(h) ==
    /\ helper[h].pc = "connect"
    /\ ~Locked
    /\ connect_to_trm
    /\ helper' = [helper EXCEPT ![h].pc = "write"]
    /\ UNCHANGED <<rx, msg, found, lastId, cancels, answer>>

Return(h, b) == helper' = [helper EXCEPT ![h].pc = "idle",
                                         ![h].ret = IF b THEN "true" ELSE "false"]

\* The rest of url_request_post.
Write(h) ==
    /\ helper[h].pc = "write"
    /\ is_connected
    /\ Written([kind |-> helper[h].kind, id |-> helper[h].id, ok |-> FALSE,
                token |-> helper[h].out])
    /\ IF helper[h].kind \in Synchronous
       THEN helper' = [helper EXCEPT ![h].pc = "wait"]
       ELSE Return(h, TRUE)
    /\ UNCHANGED <<trm, sock, is_connected, toTrh, rx, msg, found, lastId, cancels, answer>>

\* Mutants of NotSent: one attempt too many, and no end of attempts.
NotSentOnceMore(h) ==
    /\ helper[h].pc = "write"
    /\ ~is_connected
    /\ IF helper[h].tries > 0
       THEN helper' = [helper EXCEPT ![h].pc = "connect", ![h].tries = @ - 1]
       ELSE Return(h, FALSE)
    /\ UNCHANGED <<link, rx, msg, found, lastId, cancels, answer>>

NotSentForever(h) ==
    /\ helper[h].pc = "write"
    /\ ~is_connected
    /\ helper' = [helper EXCEPT ![h].pc = "connect"]
    /\ UNCHANGED <<link, rx, msg, found, lastId, cancels, answer>>

NotSent(h) ==
    /\ helper[h].pc = "write"
    /\ ~is_connected
    /\ IF helper[h].tries > 1
       THEN helper' = [helper EXCEPT ![h].pc = "connect", ![h].tries = @ - 1]
       ELSE Return(h, FALSE)
    /\ UNCHANGED <<link, rx, msg, found, lastId, cancels, answer>>

\* waitForResrvResponse returns reservationSuccess, answered or timed out.
EndWait(h) ==
    IF helper[h].kind = "states" /\ helper[h].ok
    THEN helper' = [helper EXCEPT ![h].pc = "copy"]
    ELSE Return(h, helper[h].ok)

Woken(h) ==
    /\ helper[h].pc = "wait"
    /\ helper[h].got
    /\ EndWait(h)
    /\ UNCHANGED <<link, rx, msg, found, lastId, cancels, answer>>

Timeout(h) ==
    /\ helper[h].pc = "wait"
    /\ ~helper[h].got
    /\ EndWait(h)
    /\ UNCHANGED <<link, rx, msg, found, lastId, cancels, answer>>

\* getAllTunerStates returns a copy of responseStr.
Copy(h) ==
    /\ helper[h].pc = "copy"
    /\ Return(h, TRUE)
    /\ UNCHANGED <<link, rx, msg, found, lastId, cancels, answer>>

-----------------------------------------------------------------------------
(* The life of a helper object.                                            *)

\* Clients delete a helper after their last call has returned.
DestroySignal(h) ==
    /\ helper[h].life = "live"
    /\ helper[h].pc = "idle"
    /\ helper' = [helper EXCEPT ![h].life = "signalled", ![h].got = TRUE, ![h].ok = FALSE]
    /\ UNCHANGED <<link, rx, msg, found, lastId, cancels, answer>>

DestroyDelist(h) ==
    /\ helper[h].life = "signalled"
    /\ ~Locked
    /\ helper' = [helper EXCEPT ![h].life = "delisted"]
    /\ UNCHANGED <<link, rx, msg, found, lastId, cancels, answer>>

DestroyFree(h) ==
    /\ helper[h].life = "delisted"
    /\ helper' = [helper EXCEPT ![h].life = "freed"]
    /\ UNCHANGED <<link, rx, msg, found, lastId, cancels, answer>>

Construct(h, got, ok) ==
    /\ helper[h].life = "freed"
    /\ helper[h].pc = "idle"
    /\ ~Locked
    /\ helper' = [helper EXCEPT ![h] = Constructed(got, ok)]
    /\ UNCHANGED <<link, rx, msg, found, lastId, cancels, answer>>

-----------------------------------------------------------------------------
(* TunerReservationHelperThread                                            *)

RxConnect ==
    /\ rx = "loop"
    /\ ~is_connected
    /\ connect_to_trm
    /\ UNCHANGED <<rx, msg, found, helper, lastId, cancels, answer>>

\* read(), then processBuffer keeps the text in responseStr.
RxRead ==
    /\ rx = "loop"
    /\ is_connected
    /\ toTrh # <<>>
    /\ msg' = Head(toTrh)
    /\ toTrh' = Tail(toTrh)
    /\ rx' = "handle"
    /\ UNCHANGED <<trm, sock, is_connected, toTrm, found, helper, lastId, cancels, answer>>

\* The peer closed the socket: read() returns 0 (or -1 on descriptor -1).
RxLost ==
    /\ rx = "loop"
    /\ is_connected
    /\ sock # "connected"
    /\ toTrh = <<>>
    /\ is_connected' = FALSE
    /\ rx' = "lost"
    /\ UNCHANGED <<trm, sock, toTrm, toTrh, msg, found, helper, lastId, cancels, answer>>

\* notify_trm_connection_status_change(FALSE), after is_connected was reset.
RxNotify ==
    /\ rx = "lost"
    /\ rx' = "loop"
    /\ UNCHANGED <<link, msg, found, helper, lastId, cancels, answer>>

Listed == {h \in Helpers : helper[h].life \in {"live", "signalled"}}

\* Mutant of ById: the first helper of the list, whatever its guid.
AnyHelper(m) == {h \in Listed : helper[h].id # 0}

\* getTRH: by uuid for an answer to a request, by token for the others.
ById(m) == {h \in Listed : helper[h].id = m.id}
ByToken(m) == {h \in Listed : m.token # NoToken /\ helper[h].token = m.token}

\* Mutants of Notified: one of the two flags is not set.
NotifiedSilently(h, m) == [helper EXCEPT ![h].ok = m.ok]
NotifiedWithoutResult(h, m) == [helper EXCEPT ![h].got = TRUE]

\* notifyResrvResponse
Notified(h, m) == [helper EXCEPT ![h].got = TRUE, ![h].ok = m.ok]

\* ReserveTunerResponse and GetAllTunerStatesResponse: the search, and what
\* follows if a helper is found.
Search(next) ==
    \/ ById(msg) = {} /\ rx' = "loop" /\ UNCHANGED found
    \/ \E h \in ById(msg) : found' = {h} /\ rx' = next

RxReserveTunerResponse ==
    /\ rx = "handle"
    /\ msg.kind \in Reserving
    /\ Search("token")
    /\ UNCHANGED <<link, msg, helper, lastId, cancels, answer>>

RxGetAllTunerStatesResponse ==
    /\ rx = "handle"
    /\ msg.kind = "states"
    /\ Search("notify")
    /\ UNCHANGED <<link, msg, helper, lastId, cancels, answer>>

\* setToken, then the listener is told.
RxSetToken ==
    /\ rx = "token"
    /\ \E h \in found : helper' = [helper EXCEPT ![h].token = msg.token]
    /\ rx' = "notify"
    /\ UNCHANGED <<link, msg, found, lastId, cancels, answer>>

RxNotifyResponse ==
    /\ rx = "notify"
    /\ \E h \in found : helper' = Notified(h, msg)
    /\ found' = {}
    /\ rx' = "loop"
    /\ UNCHANGED <<link, msg, lastId, cancels, answer>>

\* ReleaseTunerReservationResponse only informs the listener; the token stays.
RxReleaseTunerReservationResponse ==
    /\ rx = "handle"
    /\ msg.kind = "release"
    /\ rx' = "loop"
    /\ UNCHANGED <<link, msg, found, helper, lastId, cancels, answer>>

\* CancelRecording: canceledRecording posts the answer, mutex held.
RxCancelRecording ==
    /\ rx = "handle"
    /\ msg.kind = "cancel"
    /\ IF ByToken(msg) = {} THEN UNCHANGED toTrm
       ELSE Written([kind |-> "cancelled", id |-> msg.id, ok |-> msg.ok, token |-> msg.token])
    /\ rx' = "loop"
    /\ UNCHANGED <<trm, sock, is_connected, toTrh, msg, found, helper, lastId, cancels, answer>>

-----------------------------------------------------------------------------
(* TRM (external).                                                         *)

TrmReads(rest) == toTrm # <<>> /\ toTrm' = Tail(toTrm) /\ toTrh' = rest

TrmAnswers(ok) ==
    LET m == Head(toTrm) IN
    /\ trm /\ sock = "connected"
    /\ toTrm # <<>>
    /\ m.kind # "cancelled"
    /\ TrmReads(Append(toTrh, [kind |-> m.kind, id |-> m.id, ok |-> ok, token |->
          IF m.kind \in Reserving THEN (IF ok THEN m.id ELSE NoToken) ELSE m.token]))
    /\ answer' = [answer EXCEPT ![m.id] = IF ok THEN "ok" ELSE "failed"]
    /\ UNCHANGED <<trm, sock, is_connected, rx, msg, found, helper, lastId, cancels>>

TrmIgnores ==
    /\ trm /\ sock = "connected"
    /\ TrmReads(toTrh)
    /\ UNCHANGED <<trm, sock, is_connected, rx, msg, found, helper, lastId, cancels, answer>>

TrmCancels(i) ==
    /\ trm /\ sock = "connected"
    /\ answer[i] = "ok"
    /\ cancels < MaxCancel
    /\ cancels' = cancels + 1
    /\ toTrh' = Append(toTrh, [kind |-> "cancel", id |-> 0, ok |-> FALSE, token |-> i])
    /\ UNCHANGED <<trm, sock, is_connected, toTrm, rx, msg, found, helper, lastId, answer>>

TrmStops ==
    /\ trm
    /\ trm' = FALSE
    /\ sock' = IF sock = "connected" THEN "broken" ELSE sock
    /\ toTrm' = <<>>
    /\ UNCHANGED <<is_connected, toTrh, rx, msg, found, helper, lastId, cancels, answer>>

TrmStarts ==
    /\ ~trm
    /\ trm' = TRUE
    /\ UNCHANGED <<sock, is_connected, toTrm, toTrh, rx, msg, found, helper, lastId, cancels, answer>>

-----------------------------------------------------------------------------
CallStep(h) == Encode(h) \/ Connect(h) \/ Write(h) \/ NotSent(h) \/ Woken(h) \/ Timeout(h) \/ Copy(h)

LifeStep(h) ==
    \/ DestroySignal(h) \/ DestroyDelist(h) \/ DestroyFree(h)
    \/ \E got \in BOOLEAN, ok \in BOOLEAN : Construct(h, got, ok)

RxHandle == \/ RxReserveTunerResponse \/ RxGetAllTunerStatesResponse
            \/ RxSetToken \/ RxNotifyResponse
            \/ RxReleaseTunerReservationResponse \/ RxCancelRecording

Receiver == RxConnect \/ RxRead \/ RxLost \/ RxNotify \/ RxHandle

TrmStep ==
    \/ \E ok \in BOOLEAN : TrmAnswers(ok)
    \/ TrmIgnores \/ TrmStops \/ TrmStarts
    \/ \E i \in Ids : TrmCancels(i)

Next ==
    \/ \E h \in Helpers : CallStep(h) \/ LifeStep(h) \/ \E kind \in Kinds : Call(h, kind)
    \/ Receiver
    \/ TrmStep

Spec == Init /\ [][Next]_vars

\* Clients and the receiver run, and time passes: a wait ends.  TRM owes
\* nothing.
FairSpec == Spec /\ WF_vars(Receiver) /\ \A h \in Helpers : WF_vars(CallStep(h))

-----------------------------------------------------------------------------
(* Properties.                                                             *)

\* No lost wake-up: a client that still waits has not had the answer to its
\* request handled already, between posting the request and the wait.
\* (answer[id] is set, and the message is neither on the socket nor in the
\* receiver's hands.)
Underway(i) ==
    \/ \E k \in DOMAIN toTrh : toTrh[k].id = i
    \/ rx \in {"handle", "token", "notify"} /\ msg.id = i

NoLostResponse ==
    \A h \in Helpers :
        /\ helper[h].pc = "wait"
        /\ answer[helper[h].id] # "none"
        /\ sock = "connected" /\ is_connected
        /\ ~Underway(helper[h].id)
        => helper[h].got \/ helper[h].life # "live"

\* A synchronous call that ends with an answer returns TRM's answer to this very
\* request.  A late answer to an earlier one takes its place only if the receiver
\* had found the helper for it before the call reset its flags, and woke the
\* client after that (g_mutex does not keep the two apart).
AnswerIsOwn ==
    [][\A h \in Helpers :
          /\ helper[h].pc = "wait" /\ helper[h].got /\ helper[h].life = "live"
          /\ helper'[h].pc # "wait"
          => \/ helper[h].ok <=> answer[helper[h].id] = "ok"
             \/ /\ helper[h].crossed \in 1 .. helper[h].id - 1
                /\ helper[h].ok <=> answer[helper[h].crossed] = "ok"]_vars

\* The same without the exception, which the code does not ensure.
AnswerAlwaysOwn ==
    [][\A h \in Helpers :
          /\ helper[h].pc = "wait" /\ helper[h].got /\ helper[h].life = "live"
          /\ helper'[h].pc # "wait"
          => (helper[h].ok <=> answer[helper[h].id] = "ok")]_vars

\* A helper's reservation token is one TRM gave to that helper, and no two
\* helpers have the same: a cancellation reaches the recording it is meant for.
TokenIsOwn ==
    /\ \A h \in Helpers : helper[h].token # NoToken =>
          helper[h].token <= helper[h].id /\ answer[helper[h].token] = "ok"
    /\ \A g, h \in Helpers : g # h /\ helper[g].token # NoToken
                                => helper[g].token # helper[h].token

\* Every call returns, whatever TRM does.
CallsReturn == \A h \in Helpers : helper[h].pc # "idle" ~> helper[h].pc = "idle"

\* Once TRM stays up the helpers are connected to it for good, although the
\* first attempt to reconnect is spent on the old socket.
Reconnects == <>[]trm => <>[](is_connected /\ sock = "connected")

\* "reserveTunerForRecord Success" (trh/test/TRHTest.cpp): a synchronous
\* reservation that returns true was granted by TRM.
RecordTrueIsReserved ==
    \A h \in Helpers : helper[h].kind = "record" /\ helper[h].ret = "true"
                          => answer[helper[h].id] = "ok"
=============================================================================
