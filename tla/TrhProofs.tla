------------------------------ MODULE TrhProofs -----------------------------
(***************************************************************************)
(* Proofs about the tuner reservation helper, for any number of helpers    *)
(* and of requests: an answer belongs to the call that returns it, unless  *)
(* the receiver was handling an older one when the call began; no answer   *)
(* is lost on its way to a waiting client, and a reservation token is held *)
(* by the one helper it was given to.                                      *)
(***************************************************************************)
EXTENDS Trh, SequenceTheorems, TLAPS

Requests == 1..lastId
Granted(b) == IF b THEN "ok" ELSE "failed"

\* A call that has a guid and has not posted its request; one that has reset its flags.
Posting == {"encode", "connect", "write"}
Awaiting == {"connect", "write", "wait"}

\* A request on the socket was not answered yet, and its helper has left the loop
\* that posts it.
Asks(m) ==
    \/ m.kind = "cancelled"
    \/ /\ m.kind \in Kinds
       /\ m.id \in Requests
       /\ answer[m.id] = "none"
       /\ \A h \in Helpers : helper[h].id = m.id =>
             helper[h].pc \notin Posting /\ helper[h].kind = m.kind

\* An answer on the socket, or in the hands of the receiver, says what TRM decided.
Answers(m) ==
    \/ m.kind = "cancel" /\ m.id = 0
    \/ /\ m.kind \in Kinds
       /\ m.id \in Requests
       /\ answer[m.id] = Granted(m.ok)
       /\ m.kind \in Reserving => m.token = (IF m.ok THEN m.id ELSE NoToken)
       /\ \A h \in Helpers : helper[h].id = m.id => helper[h].kind = m.kind

\* The receiver has a message in hand.
InHand == rx \in {"handle", "token", "notify"}

\* What is on its way, in either direction, and each request only once.
Asked == \A k \in DOMAIN toTrm : Asks(toTrm[k])
AskedOnce ==
    \A j, k \in DOMAIN toTrm :
        toTrm[j].kind \in Kinds /\ toTrm[k].kind \in Kinds /\ toTrm[j].id = toTrm[k].id => j = k
Answered ==
    /\ \A k \in DOMAIN toTrh : Answers(toTrh[k])
    /\ InHand => Answers(msg)
AnsweredOnce ==
    /\ \A j, k \in DOMAIN toTrh : toTrh[j].id = toTrh[k].id /\ toTrh[j].id # 0 => j = k
    /\ InHand /\ msg.id # 0 => \A k \in DOMAIN toTrh : toTrh[k].id # msg.id

\* A guid is one client's; what a call in progress knows of its answer.
OwnIds ==
    /\ \A h \in Helpers : helper[h].id \in 0..lastId
    /\ \A g, h \in Helpers : helper[g].id = helper[h].id /\ helper[g].id # 0 => g = h
    /\ \A i \in Ids : i > lastId => answer[i] = "none"
InCall ==
    \A h \in Helpers :
        /\ helper[h].pc # "idle" => /\ helper[h].life = "live" /\ helper[h].id # 0
                                    /\ helper[h].kind \in Kinds
        /\ helper[h].pc = "wait" => helper[h].kind \in Synchronous
        /\ helper[h].pc \in Posting => answer[helper[h].id] = "none"
        /\ helper[h].pc \in Awaiting /\ helper[h].kind \in Synchronous /\ helper[h].got
              => \/ answer[helper[h].id] = Granted(helper[h].ok)
                 \/ /\ helper[h].crossed \in 1 .. helper[h].id - 1
                    /\ answer[helper[h].crossed] = Granted(helper[h].ok)

\* The helper the receiver has found: it made the request, or has made another one
\* since, whose call knows of the older answer once it has reset its flags.
Handling ==
    /\ ~Locked => found = {}
    /\ Locked =>
          /\ \E h \in Helpers : found = {h}
          /\ msg.kind \in Kinds
          /\ rx = "token" => msg.kind \in Reserving
          /\ \A h \in Helpers : helper[h].id = msg.id => h \in found
          /\ \A h \in found :
                /\ msg.id <= helper[h].id
                /\ helper[h].pc \in Awaiting =>
                      helper[h].id = msg.id \/ helper[h].crossed = msg.id

\* A token stands for a granted request whose answer has arrived.
Coming(i) ==
    \/ \E k \in DOMAIN toTrh : toTrh[k].id = i
    \/ rx \in {"handle", "token"} /\ msg.id = i
Tokens ==
    \A h \in Helpers : helper[h].token # NoToken =>
        /\ helper[h].token \in 1..helper[h].id
        /\ answer[helper[h].token] = "ok"
        /\ ~Coming(helper[h].token)
        /\ \A g \in Helpers : helper[g].token = helper[h].token => g = h

\* The socket is given up only when everything on it has been read.
ReadToTheEnd == ~is_connected => toTrh = <<>> /\ sock # "connected"

\* The answer to a waiting call is on its way or has been noted.
NotLost ==
    \A h \in Helpers :
        helper[h].pc = "wait" /\ answer[helper[h].id] # "none"
            => helper[h].got \/ Underway(helper[h].id)

Inv == /\ Asked /\ AskedOnce /\ Answered /\ AnsweredOnce
       /\ OwnIds /\ InCall /\ Handling /\ Tokens /\ ReadToTheEnd /\ NotLost

-----------------------------------------------------------------------------
(* Types.                                                                  *)

HelperRecord ==
    [life : {"live", "signalled", "delisted", "freed"},
     pc : {"idle", "encode", "connect", "write", "wait", "copy"},
     kind : Kinds \cup {"none"}, id : Nat, tries : 1..MaxRetry, got : BOOLEAN,
     ok : BOOLEAN, token : Nat, out : Nat, crossed : Nat,
     ret : {"none", "true", "false"}]

\* What connect_to_trm does to the socket.
LEMMA ConnectTypes ==
    ASSUME TypeOK, connect_to_trm
    PROVE  /\ trm' \in BOOLEAN /\ sock' \in {"none", "connected", "broken"}
           /\ is_connected' \in BOOLEAN
           /\ toTrm' \in Seq(Messages) /\ toTrh' \in Seq(Messages)
<1>1. trm' \in BOOLEAN
  <2>1. UNCHANGED trm
    BY Zenon DEF connect_to_trm
  <2> QED
    BY <2>1, Zenon DEF TypeOK
<1>2. sock' \in {"none", "connected", "broken"} /\ toTrm' \in Seq(Messages)
      /\ toTrh' \in Seq(Messages)
  <2>1. CASE is_connected
    BY <2>1 DEF TypeOK, connect_to_trm
  <2>2. CASE ~is_connected /\ sock = "none"
    <3>1. /\ sock' = (IF trm THEN "connected" ELSE "none")
          /\ toTrm' = toTrm /\ toTrh' = toTrh
      BY <2>2, Zenon DEF connect_to_trm
    <3> QED
      BY <3>1 DEF TypeOK
  <2>3. CASE ~is_connected /\ sock # "none"
    BY <2>3 DEF TypeOK, connect_to_trm, CloseSocket
  <2> QED
    BY <2>1, <2>2, <2>3
<1>3. is_connected' \in BOOLEAN
  <2>1. CASE is_connected
    BY <2>1 DEF TypeOK, connect_to_trm
  <2>2. CASE ~is_connected /\ sock = "none"
    BY <2>2, Zenon DEF TypeOK, connect_to_trm
  <2>3. CASE ~is_connected /\ sock # "none"
    BY <2>3 DEF TypeOK, connect_to_trm
  <2> QED
    BY <2>1, <2>2, <2>3
<1> QED
  BY <1>1, <1>2, <1>3

\* Both flags of a helper are written at once.
LEMMA FlagsTypes ==
    ASSUME NEW f \in [Helpers -> HelperRecord], NEW h \in Helpers,
           NEW g \in BOOLEAN, NEW o \in BOOLEAN,
           NEW l \in {"live", "signalled", "delisted", "freed"}
    PROVE  /\ [f EXCEPT ![h].got = g, ![h].ok = o] \in [Helpers -> HelperRecord]
           /\ [f EXCEPT ![h].life = l, ![h].got = g, ![h].ok = o] \in [Helpers -> HelperRecord]
<1> DEFINE two == [f EXCEPT ![h].got = g, ![h].ok = o]
           three == [f EXCEPT ![h].life = l, ![h].got = g, ![h].ok = o]
<1>1. /\ two[h] = [f[h] EXCEPT !.got = g, !.ok = o]
      /\ three[h] = [f[h] EXCEPT !.life = l, !.got = g, !.ok = o]
  BY DEF HelperRecord
<1>2. /\ [f[h] EXCEPT !.got = g, !.ok = o] \in HelperRecord
      /\ [f[h] EXCEPT !.life = l, !.got = g, !.ok = o] \in HelperRecord
  BY ZenonT(60) DEF HelperRecord
<1>3. \A x \in Helpers : x # h => two[x] = f[x] /\ three[x] = f[x]
  OBVIOUS
<1> QED
  BY <1>1, <1>2, <1>3

LEMMA TokenTypes ==
    ASSUME NEW f \in [Helpers -> HelperRecord], NEW h \in Helpers, NEW t \in Nat
    PROVE  [f EXCEPT ![h].token = t] \in [Helpers -> HelperRecord]
BY DEF HelperRecord

\* What Encode does to its helper, and to nothing else.
LEMMA EncodeStep ==
    ASSUME TypeOK, NEW h \in Helpers, Encode(h)
    PROVE  /\ helper' \in [Helpers -> HelperRecord]
           /\ \A g \in Helpers : g # h => helper'[g] = helper[g]
           /\ helper'[h].pc = "connect" /\ helper'[h].id = helper[h].id
           /\ helper'[h].kind = helper[h].kind /\ helper'[h].life = helper[h].life
           /\ helper'[h].token = helper[h].token
           /\ helper[h].kind # "release" => helper'[h].got = FALSE
           /\ helper'[h].crossed = (IF h \in found THEN msg.id ELSE 0)
<1>1. helper \in [Helpers -> HelperRecord] /\ msg.id \in Nat /\ MaxRetry \in 1..MaxRetry
  BY TrhConstants DEF TypeOK, HelperRecord, Messages
<1> DEFINE out == IF helper[h].kind \in {"live", "states"} THEN NoToken ELSE helper[h].token
           got == IF helper[h].kind = "release" THEN helper[h].got ELSE FALSE
           ok == IF helper[h].kind = "states" THEN FALSE ELSE helper[h].ok
           crossed == IF h \in found THEN msg.id ELSE 0
           r == [helper[h] EXCEPT !.pc = "connect", !.tries = MaxRetry, !.out = out,
                                  !.got = got, !.ok = ok, !.crossed = crossed]
<1>2. helper' = [helper EXCEPT ![h] = r]
  BY <1>1 DEF Encode
<1>3. out \in Nat /\ crossed \in Nat
  BY <1>1 DEF HelperRecord, NoToken
<1>4. got \in BOOLEAN /\ ok \in BOOLEAN
  BY <1>1, Zenon DEF HelperRecord
<1>5. r \in HelperRecord
  <2> HIDE DEF out, got, ok, crossed
  <2> QED
    BY <1>1, <1>3, <1>4, ZenonT(60) DEF HelperRecord
<1>6. helper'[h] = r /\ \A g \in Helpers : g # h => helper'[g] = helper[g]
  BY <1>1, <1>2
<1>7. helper' \in [Helpers -> HelperRecord]
  BY <1>1, <1>2, <1>5
<1>8. /\ r.pc = "connect" /\ r.id = helper[h].id /\ r.kind = helper[h].kind
      /\ r.life = helper[h].life /\ r.token = helper[h].token /\ r.got = got /\ r.crossed = crossed
  BY <1>1 DEF HelperRecord
<1> QED
  BY <1>6, <1>7, <1>8

LEMMA HelperTypes ==
    ASSUME TypeOK, Next
    PROVE  helper' \in [Helpers -> HelperRecord]
<1>0. helper \in [Helpers -> HelperRecord] /\ msg \in Messages /\ lastId \in Nat
      /\ MaxRetry \in Nat \ {0}
  BY TrhConstants DEF TypeOK, HelperRecord
<1> USE <1>0 DEF HelperRecord
<1>1. ASSUME NEW h \in Helpers, NEW kind \in Kinds, Call(h, kind)
      PROVE  helper' \in [Helpers -> HelperRecord]
  BY <1>1 DEF Call
<1>2. ASSUME NEW h \in Helpers, CallStep(h)
      PROVE  helper' \in [Helpers -> HelperRecord]
  <2>1. CASE Connect(h)
    BY <2>1 DEF Connect
  <2>2. CASE Write(h)
    BY <2>2 DEF Write, Return
  <2>3. CASE NotSent(h)
    BY <2>3 DEF NotSent, Return
  <2>4. CASE Woken(h) \/ Timeout(h) \/ Copy(h)
    BY <2>4 DEF Woken, Timeout, Copy, EndWait, Return
  <2>5. CASE Encode(h)
    BY <2>5, EncodeStep
  <2> QED
    BY <1>2, <2>1, <2>2, <2>3, <2>4, <2>5 DEF CallStep
<1>3. ASSUME NEW h \in Helpers, LifeStep(h)
      PROVE  helper' \in [Helpers -> HelperRecord]
  <2>1. CASE DestroySignal(h)
    BY <2>1, FlagsTypes, ZenonT(60) DEF DestroySignal
  <2>2. CASE DestroyDelist(h) \/ DestroyFree(h)
    BY <2>2 DEF DestroyDelist, DestroyFree
  <2>3. CASE \E got \in BOOLEAN, ok \in BOOLEAN : Construct(h, got, ok)
    <3>1. PICK got \in BOOLEAN, ok \in BOOLEAN : Construct(h, got, ok)
      BY <2>3
    <3>2. Constructed(got, ok) \in HelperRecord
      BY DEF Constructed, NoToken
    <3> QED
      BY <3>1, <3>2 DEF Construct
  <2> QED
    BY <1>3, <2>1, <2>2, <2>3 DEF LifeStep
<1>4. CASE Receiver
  <2>0. /\ msg.ok \in BOOLEAN /\ msg.token \in Nat
        /\ \A h \in Helpers : Notified(h, msg) \in [Helpers -> HelperRecord]
    BY FlagsTypes, ZenonT(60) DEF Messages, Notified
  <2>1. CASE RxSetToken
    <3>1. PICK h \in Helpers : helper' = [helper EXCEPT ![h].token = msg.token]
      BY <2>1 DEF RxSetToken, TypeOK
    <3> HIDE DEF HelperRecord
    <3> QED
      BY <2>0, <3>1, TokenTypes
  <2>2. CASE RxNotifyResponse
    BY <2>0, <2>2 DEF RxNotifyResponse, TypeOK
  <2>5. CASE RxReserveTunerResponse \/ RxGetAllTunerStatesResponse
    BY <2>5 DEF RxReserveTunerResponse, RxGetAllTunerStatesResponse
  <2>3. CASE RxReleaseTunerReservationResponse \/ RxCancelRecording
    BY <2>3 DEF RxReleaseTunerReservationResponse, RxCancelRecording
  <2>4. CASE RxConnect \/ RxRead \/ RxLost \/ RxNotify
    BY <2>4 DEF RxConnect, RxRead, RxLost, RxNotify
  <2> QED
    BY <1>4, <2>1, <2>2, <2>3, <2>4, <2>5 DEF Receiver, RxHandle
<1>5. CASE TrmStep
  BY <1>5 DEF TrmStep, TrmAnswers, TrmIgnores, TrmStops, TrmStarts, TrmCancels
<1> QED
  BY <1>1, <1>2, <1>3, <1>4, <1>5 DEF Next

\* What is written to the socket, and what is read from it.
LEMMA SocketTypes ==
    ASSUME TypeOK, Next
    PROVE  toTrm' \in Seq(Messages) /\ toTrh' \in Seq(Messages) /\ msg' \in Messages
<1>0. /\ toTrm \in Seq(Messages) /\ toTrh \in Seq(Messages) /\ msg \in Messages
      /\ helper \in [Helpers -> HelperRecord]
  BY DEF TypeOK, HelperRecord
<1>1. ASSUME NEW m \in Messages, Written(m)
      PROVE  toTrm' \in Seq(Messages)
  BY <1>0, <1>1 DEF Written
<1>2. ASSUME NEW h \in Helpers, Write(h)
      PROVE  toTrm' \in Seq(Messages) /\ toTrh' \in Seq(Messages) /\ msg' \in Messages
  <2> DEFINE m == [kind |-> helper[h].kind, id |-> helper[h].id, ok |-> FALSE,
                   token |-> helper[h].out]
  <2>1. m \in Messages
    BY <1>0 DEF Messages, HelperRecord
  <2>2. Written(m)
    BY <1>2 DEF Write
  <2> QED
    BY <1>0, <1>1, <1>2, <2>1, <2>2 DEF Write
<1>3. CASE RxCancelRecording
  <2> DEFINE m == [kind |-> "cancelled", id |-> msg.id, ok |-> msg.ok, token |-> msg.token]
  <2>1. m \in Messages
    BY <1>0 DEF Messages
  <2>2. Written(m) \/ UNCHANGED toTrm
    BY <1>3 DEF RxCancelRecording
  <2> QED
    BY <1>0, <1>1, <1>3, <2>1, <2>2 DEF RxCancelRecording
<1>4. ASSUME NEW ok \in BOOLEAN, TrmAnswers(ok)
      PROVE  toTrm' \in Seq(Messages) /\ toTrh' \in Seq(Messages) /\ msg' \in Messages
  <2> DEFINE m == Head(toTrm)
             n == [kind |-> m.kind, id |-> m.id, ok |-> ok, token |->
                     IF m.kind \in Reserving THEN (IF ok THEN m.id ELSE NoToken) ELSE m.token]
  <2>1. toTrm # <<>> /\ toTrm' = Tail(toTrm) /\ toTrh' = Append(toTrh, n) /\ msg' = msg
    BY <1>4 DEF TrmAnswers, TrmReads
  <2>2. m \in Messages /\ Tail(toTrm) \in Seq(Messages)
    BY <1>0, <2>1
  <2> HIDE DEF m
  <2>3. n \in Messages
    BY <2>2 DEF Messages, NoToken
  <2> QED
    BY <1>0, <2>1, <2>2, <2>3
<1>5. ASSUME NEW i \in Ids, TrmCancels(i)
      PROVE  toTrm' \in Seq(Messages) /\ toTrh' \in Seq(Messages) /\ msg' \in Messages
  <2>1. [kind |-> "cancel", id |-> 0, ok |-> FALSE, token |-> i] \in Messages
    BY TrhConstants DEF Messages, Ids
  <2> QED
    BY <1>0, <1>5, <2>1 DEF TrmCancels
<1>6. CASE RxRead \/ TrmIgnores \/ TrmStops
  <2>1. CASE RxRead
    BY <1>0, <2>1 DEF RxRead
  <2>2. CASE TrmIgnores
    BY <1>0, <2>2 DEF TrmIgnores, TrmReads
  <2>3. CASE TrmStops
    <3>1. toTrm' = <<>> /\ toTrh' = toTrh /\ msg' = msg
      BY <2>3 DEF TrmStops
    <3> QED
      BY <1>0, <3>1
  <2> QED
    BY <1>6, <2>1, <2>2, <2>3
<1>7. CASE RxConnect \/ \E h \in Helpers : Connect(h)
  BY <1>0, <1>7, ConnectTypes DEF RxConnect, Connect
<1>8. CASE UNCHANGED <<toTrm, toTrh, msg>>
  BY <1>0, <1>8
<1>9. ASSUME NEW h \in Helpers, CallStep(h), ~Connect(h), ~Write(h)
      PROVE  UNCHANGED <<toTrm, toTrh, msg>>
  BY <1>9 DEF CallStep, Encode, NotSent, Woken, Timeout, Copy, link
<1>10. ASSUME NEW h \in Helpers, LifeStep(h) \/ \E kind \in Kinds : Call(h, kind)
       PROVE  UNCHANGED <<toTrm, toTrh, msg>>
  BY <1>10 DEF LifeStep, DestroySignal, DestroyDelist, DestroyFree, Construct, Call, link
<1>11. CASE RxLost \/ RxNotify \/ TrmStarts \/ RxReserveTunerResponse
           \/ RxGetAllTunerStatesResponse \/ RxReleaseTunerReservationResponse
           \/ RxSetToken \/ RxNotifyResponse
  BY <1>8, <1>11 DEF RxLost, RxNotify, TrmStarts, RxReserveTunerResponse,
     RxGetAllTunerStatesResponse, RxReleaseTunerReservationResponse, RxSetToken,
     RxNotifyResponse, link
<1>12. CASE \E h \in Helpers : CallStep(h) \/ LifeStep(h) \/ \E kind \in Kinds : Call(h, kind)
  BY <1>2, <1>7, <1>8, <1>9, <1>10, <1>12, Zenon
<1>13. CASE Receiver
  BY <1>3, <1>6, <1>7, <1>11, <1>13, Zenon DEF Receiver, RxHandle
<1>14. CASE TrmStep
  BY <1>4, <1>5, <1>6, <1>11, <1>14, Zenon DEF TrmStep
<1> QED
  BY <1>12, <1>13, <1>14, Zenon DEF Next

\* The fields of the helpers, the messages and the counters keep their types.
LEMMA TypesStep == TypeOK /\ [Next]_vars => TypeOK'
<1> SUFFICES ASSUME TypeOK, Next
             PROVE  TypeOK'
  BY DEF TypeOK, vars
<1>1. helper' \in [Helpers -> HelperRecord]
  BY HelperTypes
<1>2. toTrm' \in Seq(Messages) /\ toTrh' \in Seq(Messages) /\ msg' \in Messages
  BY SocketTypes
<1> DEFINE Rest == /\ trm' \in BOOLEAN /\ sock' \in {"none", "connected", "broken"}
                   /\ is_connected' \in BOOLEAN
                   /\ rx' \in {"loop", "handle", "token", "notify", "lost"}
                   /\ found' \subseteq Helpers
                   /\ lastId' \in 0..MaxId /\ cancels' \in 0..MaxCancel
                   /\ answer' \in [Ids -> {"none", "ok", "failed"}]
           old == <<rx, found, lastId, cancels, answer>>
<1> SUFFICES Rest
  BY <1>1, <1>2 DEF TypeOK, HelperRecord
<1>3. ASSUME UNCHANGED <<trm, sock, is_connected, rx, found, lastId, cancels, answer>>
      PROVE  Rest
  BY <1>3, Zenon DEF TypeOK
<1>4. ASSUME connect_to_trm, UNCHANGED old
      PROVE  Rest
  <2>1. UNCHANGED <<rx, found, lastId, cancels, answer>>
    BY <1>4
  <2> QED
    BY <1>4, <2>1, ConnectTypes DEF TypeOK
<1>5. ASSUME NEW h \in Helpers, CallStep(h)
      PROVE  Rest
  <2>1. CASE Connect(h)
    BY <1>4, <2>1 DEF Connect
  <2>2. CASE Write(h)
    BY <1>3, <2>2, Zenon DEF Write
  <2>3. CASE Encode(h) \/ NotSent(h) \/ Woken(h) \/ Timeout(h) \/ Copy(h)
    BY <1>3, <2>3 DEF Encode, NotSent, Woken, Timeout, Copy, link
  <2> QED
    BY <1>5, <2>1, <2>2, <2>3, Zenon DEF CallStep
<1>6. ASSUME NEW h \in Helpers, LifeStep(h)
      PROVE  Rest
  BY <1>3, <1>6 DEF LifeStep, DestroySignal, DestroyDelist, DestroyFree, Construct, link
<1>7. ASSUME NEW h \in Helpers, NEW kind \in Kinds, Call(h, kind)
      PROVE  Rest
  <2>1. UNCHANGED <<trm, sock, is_connected, rx, found, cancels, answer>>
    BY <1>7 DEF Call, link
  <2>2. lastId' \in 0..MaxId
    BY <1>7, TrhConstants DEF Call, TypeOK
  <2> QED
    BY <2>1, <2>2, Zenon DEF TypeOK
<1>8. CASE Receiver
  <2>1. CASE RxConnect
    BY <1>4, <2>1 DEF RxConnect
  <2>2. CASE RxRead
    <3>1. UNCHANGED <<trm, sock, is_connected, found, lastId, cancels, answer>> /\ rx' = "handle"
      BY <2>2 DEF RxRead
    <3> QED
      BY <3>1, Zenon DEF TypeOK
  <2>3. CASE RxLost
    <3>1. /\ UNCHANGED <<trm, sock, found, lastId, cancels, answer>>
          /\ is_connected' = FALSE /\ rx' = "lost"
      BY <2>3, Zenon DEF RxLost
    <3> QED
      BY <3>1, Zenon DEF TypeOK
  <2>4. CASE RxNotify \/ RxHandle
    <3>1. UNCHANGED <<trm, sock, is_connected, lastId, cancels, answer>>
      BY <2>4 DEF RxNotify, RxHandle, RxReserveTunerResponse, RxGetAllTunerStatesResponse,
         RxSetToken, RxNotifyResponse, RxReleaseTunerReservationResponse, RxCancelRecording, link
    <3>2. rx' \in {"loop", "token", "notify"} /\ found' \subseteq Helpers
      BY <2>4 DEF RxNotify, RxHandle, RxReserveTunerResponse, RxGetAllTunerStatesResponse,
         RxSetToken, RxNotifyResponse, RxReleaseTunerReservationResponse, RxCancelRecording,
         Search, ById, Listed, TypeOK
    <3> QED
      BY <3>1, <3>2, Zenon DEF TypeOK
  <2> QED
    BY <1>8, <2>1, <2>2, <2>3, <2>4, Zenon DEF Receiver
<1>9. CASE TrmStep
  <2>1. ASSUME NEW ok \in BOOLEAN, TrmAnswers(ok)
        PROVE  Rest
    <3>1. UNCHANGED <<trm, sock, is_connected, rx, found, lastId, cancels>>
      BY <2>1 DEF TrmAnswers
    <3>2. answer' \in [Ids -> {"none", "ok", "failed"}]
      BY <2>1 DEF TrmAnswers, TypeOK
    <3> QED
      BY <3>1, <3>2, Zenon DEF TypeOK
  <2>2. ASSUME NEW i \in Ids, TrmCancels(i)
        PROVE  Rest
    <3>1. UNCHANGED <<trm, sock, is_connected, rx, found, lastId, answer>>
      BY <2>2 DEF TrmCancels
    <3>2. cancels' \in 0..MaxCancel
      BY <2>2, TrhConstants DEF TrmCancels, TypeOK
    <3> QED
      BY <3>1, <3>2, Zenon DEF TypeOK
  <2>3. CASE TrmIgnores
    BY <1>3, <2>3, Zenon DEF TrmIgnores
  <2>4. CASE TrmStops
    <3>1. /\ UNCHANGED <<is_connected, rx, found, lastId, cancels, answer>>
          /\ trm' = FALSE /\ sock' \in {sock, "broken"}
      BY <2>4, Zenon DEF TrmStops
    <3> QED
      BY <3>1, Zenon DEF TypeOK
  <2>5. CASE TrmStarts
    <3>1. UNCHANGED <<sock, is_connected, rx, found, lastId, cancels, answer>> /\ trm' = TRUE
      BY <2>5, Zenon DEF TrmStarts
    <3> QED
      BY <3>1, Zenon DEF TypeOK
  <2> QED
    BY <1>9, <2>1, <2>2, <2>3, <2>4, <2>5, Zenon DEF TrmStep
<1> QED
  BY <1>5, <1>6, <1>7, <1>8, <1>9, Zenon DEF Next

\* Every variable of the helpers, their socket and TRM keeps its type: in particular a
\* post is never retried more often than MaxRetry (the loop of url_request_post).
THEOREM TrhTypes == Spec => []TypeOK
<1>1. Init => TypeOK
  <2> SUFFICES ASSUME Init
               PROVE  TypeOK
    OBVIOUS
  <2>1. helper \in [Helpers -> HelperRecord]
    <3>1. \A g, o \in BOOLEAN : Constructed(g, o) \in HelperRecord
      BY TrhConstants DEF Constructed, HelperRecord, NoToken
    <3> QED
      BY <3>1 DEF Init
  <2>2. msg \in Messages /\ toTrm \in Seq(Messages) /\ toTrh \in Seq(Messages)
    BY DEF Init, NoMsg, Messages, NoToken
  <2>3. lastId \in 0..MaxId /\ cancels \in 0..MaxCancel /\ answer \in [Ids -> {"none", "ok", "failed"}]
    BY TrhConstants DEF Init
  <2>4. /\ trm \in BOOLEAN /\ is_connected \in BOOLEAN /\ found \subseteq Helpers
        /\ rx \in {"loop", "handle", "token", "notify", "lost"}
        /\ sock \in {"none", "connected", "broken"}
    <3>1. /\ trm \in BOOLEAN /\ is_connected = FALSE /\ rx = "loop" /\ sock = "none"
          /\ found = {}
      BY DEF Init
    <3> QED
      BY <3>1, Zenon
  <2> QED
    BY <2>1, <2>2, <2>3, <2>4 DEF TypeOK, HelperRecord
<1>2. TypeOK /\ [Next]_vars => TypeOK'
  BY TypesStep
<1> QED
  BY <1>1, <1>2, PTL DEF Spec

-----------------------------------------------------------------------------
(* The inductive invariant.                                                *)

\* A step that posts nothing, answers nothing and gives no guid: what is on the
\* socket stays true of the helpers.  It may lose what is on the socket.
Quiet ==
    /\ lastId' = lastId /\ answer' = answer /\ msg' = msg
    /\ InHand' => InHand
    /\ rx' \in {"handle", "token"} => rx \in {"handle", "token"}
    /\ toTrm' = toTrm \/ toTrm' = <<>>
    /\ toTrh' = toTrh \/ toTrh' = <<>>
    /\ \A g \in Helpers :
          /\ helper'[g].id = helper[g].id /\ helper'[g].kind = helper[g].kind
          /\ helper'[g].pc \in Posting => helper[g].pc \in Posting

KeepsTokens == \A g \in Helpers : helper'[g].token = helper[g].token

LEMMA QuietSocket ==
    ASSUME TypeOK, Inv, Quiet
    PROVE  Asked' /\ AskedOnce' /\ Answered' /\ AnsweredOnce' /\ OwnIds'
<1> USE DEF Quiet
<1>1. Asked'
  BY DEF Inv, Asked, Asks, Requests
<1>2. AskedOnce'
  BY DEF Inv, AskedOnce
<1>3. Answered'
  BY DEF Inv, Answered, Answers, Requests
<1>4. AnsweredOnce'
  BY DEF Inv, AnsweredOnce
<1>5. OwnIds'
  BY DEF Inv, OwnIds
<1> QED
  BY <1>1, <1>2, <1>3, <1>4, <1>5

LEMMA QuietTokens ==
    ASSUME TypeOK, Inv, Quiet, KeepsTokens
    PROVE  Tokens'
<1>1. \A i : ~Coming(i) => ~Coming(i)'
  BY DEF Quiet, Coming
<1> QED
  BY <1>1 DEF Inv, Tokens, Quiet, KeepsTokens

\* The receiver does not move, no call resets its flags and no guid is given.
LEMMA HandlingKept ==
    ASSUME TypeOK, Inv, UNCHANGED <<rx, msg, found>>,
           \A g \in Helpers :
              /\ helper'[g].id = helper[g].id
              /\ helper'[g].pc \in Awaiting =>
                    helper[g].pc \in Awaiting /\ helper'[g].crossed = helper[g].crossed
    PROVE  Handling'
<1>1. found \subseteq Helpers
  BY DEF TypeOK
<1> QED
  BY <1>1 DEF Inv, Handling, Locked

\* A step of one call that neither connects nor writes, and of the destructor.
LEMMA CallInv ==
    ASSUME TypeOK, Inv, NEW h \in Helpers,
           \/ NotSent(h) \/ Woken(h) \/ Timeout(h) \/ Copy(h)
           \/ DestroySignal(h) \/ DestroyDelist(h) \/ DestroyFree(h)
    PROVE  Inv'
<1>1. helper \in [Helpers -> HelperRecord]
  BY DEF TypeOK, HelperRecord
<1>2. /\ UNCHANGED <<trm, sock, is_connected, toTrm, toTrh, rx, msg, found, lastId, answer>>
      /\ \A g \in Helpers : g # h => helper'[g] = helper[g]
      /\ helper'[h].id = helper[h].id /\ helper'[h].kind = helper[h].kind
      /\ helper'[h].token = helper[h].token
      /\ helper'[h].crossed = helper[h].crossed
      /\ helper'[h].pc \in Posting => helper[h].pc \in Posting
      /\ helper'[h].pc \in Awaiting => helper[h].pc \in Awaiting
      /\ helper'[h].pc # "idle" => /\ helper'[h].pc # "wait" /\ helper[h].pc # "idle"
                                   /\ helper'[h].life = helper[h].life
                                   /\ helper'[h].got = helper[h].got
                                   /\ helper'[h].ok = helper[h].ok
  <2> USE <1>1 DEF HelperRecord, link, Posting, Awaiting
  <2>1. CASE NotSent(h)
    BY <2>1 DEF NotSent, Return
  <2>2. CASE Woken(h) \/ Timeout(h)
    <3>1. EndWait(h) /\ helper[h].pc = "wait" /\ UNCHANGED <<link, rx, msg, found, lastId, cancels, answer>>
      BY <2>2, Zenon DEF Woken, Timeout
    <3> QED
      BY <3>1 DEF EndWait, Return
  <2>4. CASE Copy(h)
    BY <2>4 DEF Copy, Return
  <2>5. CASE DestroySignal(h)
    <3>1. helper'[h] = [helper[h] EXCEPT !.life = "signalled", !.got = TRUE, !.ok = FALSE]
      BY <2>5 DEF DestroySignal
    <3>2. helper'[h].pc = "idle" /\ helper'[h].id = helper[h].id
          /\ helper'[h].kind = helper[h].kind /\ helper'[h].token = helper[h].token
          /\ helper'[h].crossed = helper[h].crossed
      BY <2>5, <3>1 DEF DestroySignal
    <3> QED
      BY <2>5, <3>2 DEF DestroySignal
  <2>6. CASE DestroyDelist(h)
    BY <2>6 DEF DestroyDelist, Inv, InCall
  <2>7. CASE DestroyFree(h)
    BY <2>7 DEF DestroyFree, Inv, InCall
  <2> QED
    BY <2>1, <2>2, <2>4, <2>5, <2>6, <2>7
<1>3. Quiet /\ KeepsTokens
  BY <1>2 DEF Quiet, KeepsTokens, InHand
<1>4. InCall'
  BY <1>2 DEF Inv, InCall, Posting, Awaiting
<1>5. ReadToTheEnd'
  BY <1>2 DEF Inv, ReadToTheEnd
<1>6. NotLost'
  BY <1>2 DEF Inv, NotLost, Underway
<1>7. Handling'
  BY <1>2, HandlingKept
<1> QED
  BY <1>3, <1>4, <1>5, <1>6, <1>7, QuietSocket, QuietTokens DEF Inv

\* The flags are reset: from here on an answer to an older request can only be the one
\* the receiver has in hand.
LEMMA EncodeInv ==
    ASSUME TypeOK, Inv, NEW h \in Helpers, Encode(h)
    PROVE  Inv'
<1>1. /\ UNCHANGED <<trm, sock, is_connected, toTrm, toTrh, rx, msg, found, lastId, answer>>
      /\ helper[h].pc = "encode"
  BY DEF Encode, link
<1>2. /\ \A g \in Helpers : g # h => helper'[g] = helper[g]
      /\ helper'[h].pc = "connect" /\ helper'[h].id = helper[h].id
      /\ helper'[h].kind = helper[h].kind /\ helper'[h].life = helper[h].life
      /\ helper'[h].token = helper[h].token
      /\ helper[h].kind # "release" => helper'[h].got = FALSE
      /\ helper'[h].crossed = (IF h \in found THEN msg.id ELSE 0)
  BY EncodeStep
<1>3. Quiet /\ KeepsTokens
  BY <1>1, <1>2 DEF Quiet, KeepsTokens, InHand, Posting
<1>4. InCall'
  BY <1>1, <1>2 DEF Inv, InCall, Posting, Synchronous
<1>5. Handling'
  <2>1. found \subseteq Helpers
    BY DEF TypeOK
  <2> QED
    BY <1>1, <1>2, <2>1 DEF Inv, Handling, Locked
<1>6. ReadToTheEnd' /\ NotLost'
  BY <1>1, <1>2 DEF Inv, ReadToTheEnd, NotLost, Underway
<1> QED
  BY <1>3, <1>4, <1>5, <1>6, QuietSocket, QuietTokens DEF Inv

\* connect_to_trm takes no answer away: the socket it replaces was read to the end.
LEMMA ConnectInv ==
    ASSUME TypeOK, Inv, connect_to_trm,
           UNCHANGED <<rx, msg, found, lastId, answer>>,
           \A g \in Helpers :
              /\ helper'[g].id = helper[g].id /\ helper'[g].kind = helper[g].kind
              /\ helper'[g].token = helper[g].token /\ helper'[g].life = helper[g].life
              /\ helper'[g].got = helper[g].got /\ helper'[g].ok = helper[g].ok
              /\ helper'[g].crossed = helper[g].crossed
              /\ \/ helper'[g].pc = helper[g].pc
                 \/ helper[g].pc = "connect" /\ helper'[g].pc = "write"
    PROVE  Inv'
<1>1. helper \in [Helpers -> HelperRecord]
  BY DEF TypeOK, HelperRecord
<1>2. /\ toTrm' = toTrm \/ toTrm' = <<>>
      /\ toTrh' = toTrh
      /\ ~is_connected' => toTrh' = <<>> /\ sock' # "connected"
  <2>1. CASE is_connected
    BY <2>1 DEF connect_to_trm
  <2>2. CASE ~is_connected /\ sock = "none"
    <3>1. toTrm' = toTrm /\ toTrh' = toTrh /\ toTrh = <<>>
      BY <2>2 DEF connect_to_trm, Inv, ReadToTheEnd
    <3>2. (is_connected' <=> trm) /\ (sock' = IF trm THEN "connected" ELSE "none")
      BY <2>2, Zenon DEF connect_to_trm
    <3> QED
      BY <3>1, <3>2
  <2>3. CASE ~is_connected /\ sock # "none"
    BY <2>3 DEF connect_to_trm, CloseSocket, Inv, ReadToTheEnd
  <2> QED
    BY <2>1, <2>2, <2>3
<1>3. Quiet /\ KeepsTokens
  BY <1>2 DEF Quiet, KeepsTokens, InHand, Posting
<1>4. InCall'
  BY DEF Inv, InCall, Posting, Awaiting
<1>5. ReadToTheEnd'
  BY <1>2 DEF ReadToTheEnd
<1>6. NotLost'
  BY <1>2 DEF Inv, NotLost, Underway
<1>7. Handling'
  BY HandlingKept DEF Awaiting
<1> QED
  BY <1>3, <1>4, <1>5, <1>6, <1>7, QuietSocket, QuietTokens DEF Inv

\* Steps that change the socket or the receiver only.
LEMMA LinkInv ==
    ASSUME TypeOK, Inv,
           RxLost \/ RxNotify \/ RxReleaseTunerReservationResponse \/ TrmStops \/ TrmStarts
    PROVE  Inv'
<1>1. /\ UNCHANGED <<toTrh, msg, found, helper, lastId, answer>>
      /\ toTrm' = toTrm \/ toTrm' = <<>>
      /\ \/ rx' = rx
         \/ rx \in {"loop", "lost"} /\ rx' \in {"loop", "lost"}
         \/ rx = "handle" /\ msg.kind = "release" /\ rx' = "loop"
      /\ ~is_connected' => toTrh' = <<>> /\ sock' # "connected"
  <2> USE DEF Inv, ReadToTheEnd, link
  <2>1. CASE RxLost
    BY <2>1 DEF RxLost
  <2>2. CASE RxNotify \/ RxReleaseTunerReservationResponse
    BY <2>2 DEF RxNotify, RxReleaseTunerReservationResponse
  <2>3. CASE TrmStops
    BY <2>3 DEF TrmStops
  <2>4. CASE TrmStarts
    BY <2>4 DEF TrmStarts
  <2> QED
    BY <2>1, <2>2, <2>3, <2>4
<1>2. Quiet /\ KeepsTokens
  BY <1>1 DEF Quiet, KeepsTokens, InHand
<1>3. InCall'
  BY <1>1 DEF Inv, InCall
<1>4. ReadToTheEnd'
  BY <1>1 DEF ReadToTheEnd
<1>5. NotLost'
  BY <1>1 DEF Inv, NotLost, Underway, InCall, Answered, Answers, Synchronous, InHand
<1>6. Handling'
  BY <1>1, HandlingKept DEF Inv, Handling, Locked
<1> QED
  BY <1>2, <1>3, <1>4, <1>5, <1>6, QuietSocket, QuietTokens DEF Inv

\* A new call has a guid nobody has used, and has not been answered.
LEMMA CallFreshInv ==
    ASSUME TypeOK, Inv, NEW h \in Helpers, NEW kind \in Kinds, Call(h, kind)
    PROVE  Inv'
<1>1. helper \in [Helpers -> HelperRecord] /\ lastId \in Nat /\ MaxId \in Nat
  BY TrhConstants DEF TypeOK, HelperRecord
<1>2. /\ UNCHANGED <<trm, sock, is_connected, toTrm, toTrh, rx, msg, found, answer>>
      /\ \A g \in Helpers : g # h => helper'[g] = helper[g]
      /\ helper[h].life = "live" /\ helper[h].pc = "idle" /\ lastId < MaxId /\ lastId' = lastId + 1
  BY <1>1 DEF Call, link
<1>3. /\ helper'[h].id = lastId + 1 /\ helper'[h].kind = kind /\ helper'[h].pc = "encode"
      /\ helper'[h].life = "live" /\ helper'[h].token = helper[h].token
  BY <1>1 DEF Call, HelperRecord
<1>4. answer[lastId + 1] = "none"
  BY <1>1, <1>2 DEF Inv, OwnIds, Ids
<1>5. Asked'
  BY <1>1, <1>2, <1>3 DEF Inv, Asked, Asks, Requests
<1>6. Answered'
  BY <1>1, <1>2, <1>3 DEF Inv, Answered, Answers, InHand, Requests
<1>7. AskedOnce' /\ AnsweredOnce' /\ ReadToTheEnd'
  BY <1>2 DEF Inv, AskedOnce, AnsweredOnce, InHand, ReadToTheEnd
<1>8. OwnIds'
  BY <1>1, <1>2, <1>3 DEF Inv, OwnIds, Ids
<1>9. InCall'
  BY <1>1, <1>2, <1>3, <1>4 DEF Inv, InCall, Posting, Awaiting
<1>10. Tokens'
  <2>1. \A i : Coming(i)' <=> Coming(i)
    BY <1>2 DEF Coming
  <2>2. helper[h].id <= lastId /\ helper[h].token \in Nat
    BY <1>1 DEF Inv, OwnIds, HelperRecord
  <2>3. \A g \in Helpers : helper'[g].token = helper[g].token /\ helper[g].id \in Nat
    BY <1>1, <1>2, <1>3 DEF HelperRecord
  <2>4. \A g \in Helpers : helper'[g].token # NoToken => helper'[g].token \in 1..helper'[g].id
    BY <1>1, <1>2, <1>3, <2>2, <2>3 DEF Inv, Tokens
  <2> QED
    BY <1>2, <2>1, <2>3, <2>4 DEF Inv, Tokens
<1>11. NotLost'
  BY <1>2, <1>3 DEF Inv, NotLost, Underway
<1>12. Handling'
  <2>1. Locked => msg.id \in Requests
    BY DEF Inv, Handling, Locked, Answered, InHand, Answers, Kinds
  <2>2. found \subseteq Helpers /\ helper[h].id <= lastId /\ helper[h].id \in Nat
    BY <1>1 DEF TypeOK, Inv, OwnIds, HelperRecord
  <2> QED
    BY <1>1, <1>2, <1>3, <2>1, <2>2 DEF Inv, Handling, Locked, Requests, Awaiting
<1> QED
  BY <1>5, <1>6, <1>7, <1>8, <1>9, <1>10, <1>11, <1>12 DEF Inv

\* A helper object constructed where another was has no guid and no token.
LEMMA ConstructInv ==
    ASSUME TypeOK, Inv, NEW h \in Helpers, NEW got \in BOOLEAN, NEW ok \in BOOLEAN,
           Construct(h, got, ok)
    PROVE  Inv'
<1>1. helper \in [Helpers -> HelperRecord] /\ lastId \in Nat
  BY TrhConstants DEF TypeOK, HelperRecord
<1>2. /\ UNCHANGED <<trm, sock, is_connected, toTrm, toTrh, rx, msg, found, lastId, answer>>
      /\ \A g \in Helpers : g # h => helper'[g] = helper[g]
      /\ helper'[h] = Constructed(got, ok) /\ ~Locked
  BY <1>1 DEF Construct, link
<1>3. helper'[h].id = 0 /\ helper'[h].pc = "idle" /\ helper'[h].token = NoToken
  BY <1>2 DEF Constructed
<1>4. Asked'
  BY <1>1, <1>2, <1>3 DEF Inv, Asked, Asks, Requests
<1>5. Answered'
  BY <1>1, <1>2, <1>3 DEF Inv, Answered, Answers, InHand, Requests
<1>6. AskedOnce' /\ AnsweredOnce' /\ ReadToTheEnd'
  BY <1>2 DEF Inv, AskedOnce, AnsweredOnce, InHand, ReadToTheEnd
<1>7. OwnIds'
  BY <1>1, <1>2, <1>3 DEF Inv, OwnIds
<1>8. InCall'
  BY <1>2, <1>3 DEF Inv, InCall, Posting, Awaiting
<1>9. Tokens'
  <2>1. \A i : Coming(i)' <=> Coming(i)
    BY <1>2 DEF Coming
  <2> QED
    BY <1>2, <1>3, <2>1 DEF Inv, Tokens
<1>10. NotLost'
  BY <1>2, <1>3 DEF Inv, NotLost, Underway
<1>11. Handling'
  BY <1>2 DEF Inv, Handling, Locked
<1> QED
  BY <1>4, <1>5, <1>6, <1>7, <1>8, <1>9, <1>10, <1>11 DEF Inv

\* What Append and Tail do to the places of a sequence.
LEMMA AppendPlaces ==
    ASSUME NEW S, NEW s \in Seq(S), NEW x \in S
    PROVE  /\ DOMAIN Append(s, x) = DOMAIN s \cup {Len(s) + 1}
           /\ Len(s) + 1 \notin DOMAIN s
           /\ \A k \in DOMAIN s : Append(s, x)[k] = s[k]
           /\ Append(s, x)[Len(s) + 1] = x
BY AppendProperties, LenProperties

LEMMA TailPlaces ==
    ASSUME NEW S, NEW s \in Seq(S), s # <<>>
    PROVE  /\ 1 \in DOMAIN s /\ Head(s) = s[1] /\ Head(s) \in S
           /\ \A k \in DOMAIN Tail(s) : k \in Nat /\ k # 0 /\ k + 1 \in DOMAIN s /\ Tail(s)[k] = s[k + 1]
           /\ \A k \in DOMAIN s : k \in Nat /\ (k = 1 \/ k - 1 \in DOMAIN Tail(s))
BY HeadTailProperties, LenProperties

\* A message is appended to what goes to TRM: an unanswered request of a helper that
\* is about to leave the loop, or the answer to a cancellation.
LEMMA WrittenInv ==
    ASSUME TypeOK, Inv, NEW m \in Messages, Written(m),
           UNCHANGED <<is_connected, sock, toTrh, msg, lastId, answer>>,
           rx' = rx \/ rx' = "loop",
           \A g \in Helpers : /\ helper'[g].id = helper[g].id /\ helper'[g].kind = helper[g].kind
                              /\ helper'[g].pc \in Posting => helper[g].pc = helper'[g].pc,
           Asks(m)',
           m.kind \in Kinds => \A k \in DOMAIN toTrm : toTrm[k].kind \in Kinds => toTrm[k].id # m.id
    PROVE  Asked' /\ AskedOnce' /\ Answered' /\ AnsweredOnce' /\ OwnIds' /\ ReadToTheEnd'
<1>1. toTrm \in Seq(Messages)
  BY DEF TypeOK
<1>2. \/ toTrm' = toTrm
      \/ /\ DOMAIN toTrm' = DOMAIN toTrm \cup {Len(toTrm) + 1}
         /\ \A k \in DOMAIN toTrm : toTrm'[k] = toTrm[k]
         /\ toTrm'[Len(toTrm) + 1] = m
  BY <1>1, AppendPlaces DEF Written
<1>3. \A x : Asks(x) => Asks(x)'
  BY DEF Asks, Requests
<1>4. Asked'
  BY <1>2, <1>3 DEF Inv, Asked
<1>5. AskedOnce'
  BY <1>2 DEF Inv, AskedOnce
<1>6. Answered'
  BY DEF Inv, Answered, Answers, InHand, Requests
<1>7. AnsweredOnce' /\ OwnIds' /\ ReadToTheEnd'
  BY DEF Inv, AnsweredOnce, InHand, OwnIds, ReadToTheEnd
<1> QED
  BY <1>4, <1>5, <1>6, <1>7

\* The rest of url_request_post puts the request on the socket.
LEMMA WriteInv ==
    ASSUME TypeOK, Inv, NEW h \in Helpers, Write(h)
    PROVE  Inv'
<1>1. helper \in [Helpers -> HelperRecord]
  BY DEF TypeOK, HelperRecord
<1>0. PICK m : m = [kind |-> helper[h].kind, id |-> helper[h].id, ok |-> FALSE,
                    token |-> helper[h].out]
  OBVIOUS
<1>2. /\ UNCHANGED <<is_connected, sock, toTrh, rx, msg, found, lastId, answer>>
      /\ Written(m) /\ helper[h].pc = "write"
      /\ \A g \in Helpers : g # h => helper'[g] = helper[g]
  BY <1>0, <1>1 DEF Write, Return
<1>3. /\ helper'[h].id = helper[h].id /\ helper'[h].kind = helper[h].kind
      /\ helper'[h].token = helper[h].token /\ helper'[h].life = helper[h].life
      /\ helper'[h].got = helper[h].got /\ helper'[h].ok = helper[h].ok
      /\ helper'[h].crossed = helper[h].crossed
      /\ helper'[h].pc = (IF helper[h].kind \in Synchronous THEN "wait" ELSE "idle")
  BY <1>1 DEF Write, Return, HelperRecord
<1>4. m \in Messages
  BY <1>0, <1>1, <1>2 DEF Messages, HelperRecord
<1>5. /\ helper[h].kind \in Kinds /\ helper[h].id \in Requests /\ answer[helper[h].id] = "none"
  BY <1>1, <1>2 DEF Inv, InCall, Posting, OwnIds, Requests, HelperRecord
<1>6. Asks(m)'
  BY <1>0, <1>2, <1>3, <1>5 DEF Asks, Inv, OwnIds, Requests, Posting
<1>7. \A k \in DOMAIN toTrm : toTrm[k].kind \in Kinds => toTrm[k].id # m.id
  BY <1>0, <1>2 DEF Inv, Asked, Asks, Kinds, Posting
<1>8. Asked' /\ AskedOnce' /\ Answered' /\ AnsweredOnce' /\ OwnIds' /\ ReadToTheEnd'
  <2>1. \A g \in Helpers : /\ helper'[g].id = helper[g].id /\ helper'[g].kind = helper[g].kind
                           /\ helper'[g].pc \in Posting => helper[g].pc = helper'[g].pc
    BY <1>2, <1>3 DEF Posting
  <2> QED
    BY <1>2, <1>4, <1>6, <1>7, <2>1, WrittenInv
<1>9. InCall'
  BY <1>2, <1>3 DEF Inv, InCall, Posting, Awaiting
<1>10. Tokens'
  <2>1. \A i : Coming(i)' <=> Coming(i)
    BY <1>2 DEF Coming
  <2>2. \A g \in Helpers : helper'[g].token = helper[g].token /\ helper'[g].id = helper[g].id
    BY <1>2, <1>3
  <2> QED
    BY <1>2, <2>1, <2>2 DEF Inv, Tokens
<1>11. NotLost'
  BY <1>2, <1>3, <1>5 DEF Inv, NotLost, Underway
<1>12. Handling'
  BY <1>2, <1>3, HandlingKept DEF Awaiting
<1> QED
  BY <1>8, <1>9, <1>10, <1>11, <1>12 DEF Inv

\* canceledRecording posts its answer on the same socket.
LEMMA CancelInv ==
    ASSUME TypeOK, Inv, RxCancelRecording
    PROVE  Inv'
<1>1. /\ UNCHANGED <<is_connected, sock, toTrh, msg, found, helper, lastId, answer>>
      /\ rx = "handle" /\ rx' = "loop" /\ msg.kind = "cancel" /\ msg.id = 0
  BY DEF RxCancelRecording, Inv, Answered, Answers, InHand, Kinds
<1>2. InCall'
  BY <1>1 DEF Inv, InCall
<1>3. \A i : i # 0 => (Underway(i)' <=> Underway(i)) /\ (Coming(i)' <=> Coming(i))
  BY <1>1 DEF Underway, Coming
<1>4. Tokens'
  BY <1>1, <1>3 DEF Inv, Tokens, NoToken
<1>5. NotLost'
  BY <1>1, <1>3 DEF Inv, NotLost, InCall
<1>6. Asked' /\ AskedOnce' /\ Answered' /\ AnsweredOnce' /\ OwnIds' /\ ReadToTheEnd'
  <2>1. CASE UNCHANGED toTrm
    <3>1. Quiet
      BY <1>1, <2>1 DEF Quiet, InHand
    <3> QED
      BY <1>1, <3>1, QuietSocket DEF Inv, ReadToTheEnd
  <2>2. CASE ~UNCHANGED toTrm
    <3>0. PICK m : m = [kind |-> "cancelled", id |-> msg.id, ok |-> msg.ok, token |-> msg.token]
      OBVIOUS
    <3>1. Written(m)
      BY <2>2, <3>0 DEF RxCancelRecording
    <3>2. m \in Messages /\ m.kind \notin Kinds
      BY <3>0 DEF TypeOK, Messages, Kinds
    <3>3. Asks(m)'
      BY <3>0 DEF Asks
    <3> QED
      BY <1>1, <3>1, <3>2, <3>3, WrittenInv
  <2> QED
    BY <2>1, <2>2
<1>7. Handling'
  BY <1>1 DEF Inv, Handling, Locked
<1> QED
  BY <1>2, <1>4, <1>5, <1>6, <1>7 DEF Inv

\* The receiver takes the oldest message off the socket.
LEMMA ReadInv ==
    ASSUME TypeOK, Inv, RxRead
    PROVE  Inv'
<1>1. /\ UNCHANGED <<is_connected, sock, toTrm, found, helper, lastId, answer>>
      /\ rx = "loop" /\ rx' = "handle" /\ toTrh # <<>>
      /\ msg' = Head(toTrh) /\ toTrh' = Tail(toTrh) /\ is_connected
  BY DEF RxRead
<1>2. /\ 1 \in DOMAIN toTrh /\ msg' = toTrh[1]
      /\ \A k \in DOMAIN toTrh' : k \in Nat /\ k # 0 /\ k + 1 \in DOMAIN toTrh /\ toTrh'[k] = toTrh[k + 1]
      /\ \A k \in DOMAIN toTrh : k \in Nat /\ (k = 1 \/ k - 1 \in DOMAIN toTrh')
  <2>1. toTrh \in Seq(Messages)
    BY DEF TypeOK
  <2> QED
    BY <1>1, <2>1, TailPlaces
<1>3. Asked' /\ AskedOnce' /\ OwnIds' /\ InCall' /\ ReadToTheEnd'
  BY <1>1 DEF Inv, Asked, Asks, AskedOnce, OwnIds, InCall, ReadToTheEnd, Requests
<1>4. Answered'
  <2>1. \A x : Answers(x) => Answers(x)'
    BY <1>1 DEF Answers, Requests
  <2> QED
    BY <1>1, <1>2, <2>1 DEF Inv, Answered, InHand
<1>5. AnsweredOnce'
  BY <1>1, <1>2 DEF Inv, AnsweredOnce, InHand
<1>6. \A i : Underway(i)' <=> Underway(i)
  <2>1. ASSUME NEW i, Underway(i)
        PROVE  Underway(i)'
    <3>1. PICK k \in DOMAIN toTrh : toTrh[k].id = i
      BY <1>1, <2>1 DEF Underway
    <3>2. CASE k = 1
      BY <1>1, <1>2, <3>1, <3>2 DEF Underway
    <3>3. CASE k # 1
      <4>1. k - 1 \in DOMAIN toTrh' /\ toTrh'[k - 1] = toTrh[k]
        BY <1>2, <3>3
      <4> QED
        BY <3>1, <4>1 DEF Underway
    <3> QED
      BY <3>2, <3>3
  <2>2. ASSUME NEW i, Underway(i)'
        PROVE  Underway(i)
    BY <1>1, <1>2, <2>2 DEF Underway
  <2> QED
    BY <2>1, <2>2
<1>7. Tokens'
  <2>1. \A i : (Coming(i) <=> Underway(i)) /\ (Coming(i)' <=> Underway(i)')
    BY <1>1 DEF Coming, Underway
  <2> QED
    BY <1>1, <1>6, <2>1 DEF Inv, Tokens
<1>8. NotLost'
  BY <1>1, <1>6 DEF Inv, NotLost
<1>9. Handling'
  BY <1>1 DEF Inv, Handling, Locked
<1> QED
  BY <1>3, <1>4, <1>5, <1>7, <1>8, <1>9 DEF Inv

\* getTRH finds the helper that made the request, if it is still there.
LEMMA SearchInv ==
    ASSUME TypeOK, Inv, RxReserveTunerResponse \/ RxGetAllTunerStatesResponse
    PROVE  Inv'
<1>1. /\ UNCHANGED <<is_connected, sock, toTrm, toTrh, msg, helper, lastId, answer>>
      /\ rx = "handle" /\ msg.kind \in Kinds
      /\ \/ ById(msg) = {} /\ rx' = "loop" /\ found' = found
         \/ /\ \E h \in ById(msg) : found' = {h}
            /\ \/ rx' = "token" /\ msg.kind \in Reserving
               \/ rx' = "notify"
  BY DEF RxReserveTunerResponse, RxGetAllTunerStatesResponse, Search, link, Kinds, Reserving
<1>2. msg.id \in Requests
  BY <1>1 DEF Inv, Answered, InHand, Answers, Kinds
<1>3. Quiet /\ KeepsTokens
  BY <1>1 DEF Quiet, KeepsTokens, InHand
<1>4. InCall' /\ ReadToTheEnd'
  BY <1>1 DEF Inv, InCall, ReadToTheEnd
<1>5. CASE ById(msg) = {}
  <2>1. rx' = "loop" /\ found' = found
    BY <1>1, <1>5
  <2>2. \A h \in Helpers : helper[h].pc = "wait" => helper[h].id # msg.id
    BY <1>5 DEF ById, Listed, Inv, InCall
  <2>3. NotLost'
    BY <1>1, <2>2 DEF Inv, NotLost, Underway
  <2>4. Handling'
    BY <1>1, <2>1 DEF Inv, Handling, Locked
  <2> QED
    BY <1>3, <1>4, <2>3, <2>4, QuietSocket, QuietTokens DEF Inv
<1>6. CASE ById(msg) # {}
  <2>1. PICK h \in Helpers : found' = {h} /\ helper[h].id = msg.id
    BY <1>1, <1>6 DEF ById, Listed
  <2>2. \A g \in Helpers : helper[g].id = msg.id => g = h
    BY <1>2, <2>1 DEF Inv, OwnIds, Requests
  <2>3. msg.id <= helper[h].id
    BY <1>2, <2>1, TrhConstants DEF Requests, TypeOK
  <2>4. Handling'
    BY <1>1, <1>6, <2>1, <2>2, <2>3 DEF Handling, Locked
  <2>5. NotLost'
    BY <1>1, <1>6 DEF Inv, NotLost, Underway
  <2> QED
    BY <1>3, <1>4, <2>4, <2>5, QuietSocket, QuietTokens DEF Inv
<1> QED
  BY <1>5, <1>6

\* What the receiver knows while it holds the mutex for an answer.
LEMMA InHandFacts ==
    ASSUME TypeOK, Inv, Locked
    PROVE  /\ msg.id \in Requests /\ answer[msg.id] = Granted(msg.ok)
           /\ msg.kind \in Reserving => msg.token = (IF msg.ok THEN msg.id ELSE NoToken)
           /\ \A k \in DOMAIN toTrh : toTrh[k].id # msg.id
<1>1. Answers(msg) /\ msg.kind \in Kinds
  BY DEF Inv, Answered, InHand, Locked, Handling
<1>2. msg.kind # "cancel"
  BY <1>1 DEF Kinds
<1>3. msg.id \in Requests
  BY <1>1, <1>2, Zenon DEF Answers
<1>4. msg.id # 0
  BY <1>3, TrhConstants DEF Requests, TypeOK
<1> QED
  BY <1>1, <1>2, <1>3, <1>4 DEF Answers, Inv, AnsweredOnce, InHand, Locked

\* setToken: the helper has the token of the request it made, though it may have made
\* another one since.
LEMMA SetTokenInv ==
    ASSUME TypeOK, Inv, RxSetToken
    PROVE  Inv'
<1>1. helper \in [Helpers -> HelperRecord] /\ msg.token \in Nat /\ found \subseteq Helpers
  BY DEF TypeOK, HelperRecord, Messages
<1>2. /\ UNCHANGED <<is_connected, sock, toTrm, toTrh, msg, found, lastId, answer>>
      /\ rx = "token" /\ rx' = "notify" /\ Locked
  BY DEF RxSetToken, link, Locked
<1>3. /\ msg.id \in Requests /\ answer[msg.id] = Granted(msg.ok)
      /\ msg.token = (IF msg.ok THEN msg.id ELSE NoToken)
      /\ \A k \in DOMAIN toTrh : toTrh[k].id # msg.id
  BY <1>2, InHandFacts DEF Inv, Handling
<1>4. PICK h \in found : helper' = [helper EXCEPT ![h].token = msg.token]
  BY DEF RxSetToken
<1>5. /\ \A g \in Helpers : g # h => helper'[g] = helper[g]
      /\ helper'[h].id = helper[h].id /\ helper'[h].kind = helper[h].kind
      /\ helper'[h].life = helper[h].life /\ helper'[h].pc = helper[h].pc
      /\ helper'[h].got = helper[h].got /\ helper'[h].ok = helper[h].ok
      /\ helper'[h].crossed = helper[h].crossed
      /\ helper'[h].token = msg.token
  BY <1>1, <1>4 DEF HelperRecord
<1>6. Quiet
  BY <1>2, <1>5 DEF Quiet, InHand
<1>7. InCall'
  BY <1>2, <1>5 DEF Inv, InCall
<1>8. ReadToTheEnd' /\ NotLost'
  BY <1>2, <1>5 DEF Inv, ReadToTheEnd, NotLost, Underway
<1>9. Handling'
  BY <1>1, <1>2, <1>5 DEF Inv, Handling, Locked
<1>10. Tokens'
  <2>1. \A g \in Helpers : helper[g].token # NoToken => helper[g].token # msg.id
    BY <1>2 DEF Inv, Tokens, Coming
  <2>2. ASSUME NEW i, i # msg.id
        PROVE  Coming(i)' <=> Coming(i)
    BY <1>2, <2>2 DEF Coming
  <2>3. CASE msg.ok
    <3>1. helper'[h].token = msg.id /\ answer[msg.id] = "ok" /\ ~Coming(msg.id)'
      BY <1>2, <1>3, <1>5, <2>3 DEF Granted, Coming
    <3>2. msg.id \in 1..helper'[h].id
      BY <1>1, <1>2, <1>3, <1>5, TrhConstants DEF Requests, Inv, Handling, HelperRecord, TypeOK
    <3> QED
      BY <1>1, <1>2, <1>5, <2>1, <2>2, <3>1, <3>2 DEF Inv, Tokens
  <2>4. CASE ~msg.ok
    <3>1. helper'[h].token = NoToken
      BY <1>3, <1>5, <2>4
    <3> QED
      BY <1>1, <1>2, <1>5, <2>1, <2>2, <3>1 DEF Inv, Tokens
  <2> QED
    BY <2>3, <2>4
<1> QED
  BY <1>6, <1>7, <1>8, <1>9, <1>10, QuietSocket DEF Inv

\* notifyResrvResponse: a call that takes the answer for its own began while the
\* receiver had it in hand, and so knows of it.
LEMMA NotifyInv ==
    ASSUME TypeOK, Inv, RxNotifyResponse
    PROVE  Inv'
<1>1. helper \in [Helpers -> HelperRecord] /\ msg.ok \in BOOLEAN /\ found \subseteq Helpers
  BY DEF TypeOK, HelperRecord, Messages
<1>2. /\ UNCHANGED <<is_connected, sock, toTrm, toTrh, msg, lastId, answer>>
      /\ rx = "notify" /\ rx' = "loop" /\ found' = {} /\ Locked
  BY DEF RxNotifyResponse, link, Locked
<1>3. msg.id \in Requests /\ answer[msg.id] = Granted(msg.ok)
  BY <1>2, InHandFacts
<1>4. PICK h \in found : helper' = Notified(h, msg)
  BY DEF RxNotifyResponse
<1>5. /\ \A g \in Helpers : g # h => helper'[g] = helper[g]
      /\ helper'[h].id = helper[h].id /\ helper'[h].kind = helper[h].kind
      /\ helper'[h].life = helper[h].life /\ helper'[h].pc = helper[h].pc
      /\ helper'[h].token = helper[h].token /\ helper'[h].crossed = helper[h].crossed
      /\ helper'[h].got = TRUE /\ helper'[h].ok = msg.ok
  BY <1>1, <1>4 DEF Notified, HelperRecord
<1>6. /\ \A g \in Helpers : helper[g].id = msg.id => g = h
      /\ msg.id <= helper[h].id
      /\ helper[h].pc \in Awaiting => helper[h].id = msg.id \/ helper[h].crossed = msg.id
  BY <1>2, <1>4 DEF Inv, Handling
<1>7. Quiet /\ KeepsTokens
  BY <1>2, <1>5 DEF Quiet, KeepsTokens, InHand
<1>8. InCall'
  <2>1. helper[h].id = msg.id \/ msg.id \in 1 .. helper[h].id - 1
    BY <1>1, <1>3, <1>6, TrhConstants DEF Requests, HelperRecord, TypeOK
  <2> QED
    BY <1>1, <1>2, <1>3, <1>5, <1>6, <2>1 DEF Inv, InCall
<1>9. ReadToTheEnd' /\ Handling'
  BY <1>2 DEF Inv, ReadToTheEnd, Handling, Locked
<1>10. NotLost'
  BY <1>1, <1>2, <1>5, <1>6 DEF Inv, NotLost, Underway
<1> QED
  BY <1>7, <1>8, <1>9, <1>10, QuietSocket, QuietTokens DEF Inv

\* TRM reads the oldest request: what is left are requests as before.
LEMMA TrmReadsAsked ==
    ASSUME TypeOK, Inv, toTrm # <<>>, toTrm' = Tail(toTrm),
           UNCHANGED <<helper, lastId>>,
           \A i \in Ids : answer'[i] = answer[i] \/ (Head(toTrm).kind \in Kinds /\ i = Head(toTrm).id)
    PROVE  Asked' /\ AskedOnce' /\ Asks(Head(toTrm))
<1>1. toTrm \in Seq(Messages)
  BY DEF TypeOK
<1>2. /\ 1 \in DOMAIN toTrm /\ Head(toTrm) = toTrm[1]
      /\ \A k \in DOMAIN toTrm' : k \in Nat /\ k # 0 /\ k + 1 \in DOMAIN toTrm /\ toTrm'[k] = toTrm[k + 1]
  BY <1>1, TailPlaces
<1>3. Asks(Head(toTrm))
  BY <1>2 DEF Inv, Asked
<1>4. AskedOnce'
  BY <1>2 DEF Inv, AskedOnce
<1>5. ASSUME NEW x, Asks(x),
             x.kind \in Kinds /\ Head(toTrm).kind \in Kinds => x.id # Head(toTrm).id
      PROVE  Asks(x)'
  <2>1. CASE x.kind = "cancelled"
    BY <2>1 DEF Asks
  <2>2. CASE x.kind # "cancelled"
    <3>1. x.id \in Ids /\ x.kind \in Kinds
      BY <1>5, <2>2, TrhConstants DEF Asks, Requests, Ids, TypeOK
    <3> QED
      BY <1>5, <2>2, <3>1 DEF Asks, Requests
  <2> QED
    BY <2>1, <2>2
<1>6. Asked'
  <2>1. ASSUME NEW k \in DOMAIN toTrm'
        PROVE  /\ Asks(toTrm[k + 1]) /\ toTrm'[k] = toTrm[k + 1]
               /\ toTrm[k + 1].kind \in Kinds /\ Head(toTrm).kind \in Kinds
                     => toTrm[k + 1].id # Head(toTrm).id
    <3>1. k + 1 \in DOMAIN toTrm /\ toTrm'[k] = toTrm[k + 1] /\ k + 1 # 1
      BY <1>2
    <3> QED
      BY <1>2, <3>1 DEF Inv, Asked, AskedOnce
  <2>2. ASSUME NEW k \in DOMAIN toTrm', NEW x, x = toTrm[k + 1]
        PROVE  Asks(x)' /\ toTrm'[k] = x
    BY <1>5, <2>1, <2>2
  <2>3. ASSUME NEW k \in DOMAIN toTrm'
        PROVE  \E x : Asks(x)' /\ toTrm'[k] = x
    BY <2>2
  <2> QED
    BY <2>3 DEF Asked
<1> QED
  BY <1>3, <1>4, <1>6

LEMMA IgnoresInv ==
    ASSUME TypeOK, Inv, TrmIgnores
    PROVE  Inv'
<1>1. /\ UNCHANGED <<is_connected, sock, toTrh, rx, msg, found, helper, lastId, answer>>
      /\ toTrm # <<>> /\ toTrm' = Tail(toTrm)
  BY DEF TrmIgnores, TrmReads
<1>2. Asked' /\ AskedOnce'
  BY <1>1, TrmReadsAsked
<1>3. Answered' /\ AnsweredOnce' /\ OwnIds' /\ InCall' /\ ReadToTheEnd'
  BY <1>1 DEF Inv, Answered, Answers, InHand, Requests, AnsweredOnce, OwnIds, InCall, ReadToTheEnd
<1>4. Tokens' /\ NotLost'
  BY <1>1 DEF Inv, Tokens, NotLost, Underway, Coming
<1>5. Handling'
  BY <1>1, HandlingKept
<1> QED
  BY <1>2, <1>3, <1>4, <1>5 DEF Inv

\* A message is appended to what comes from TRM.
LEMMA AnswerPlaces ==
    ASSUME TypeOK, NEW n \in Messages, toTrh' = Append(toTrh, n)
    PROVE  /\ DOMAIN toTrh' = DOMAIN toTrh \cup {Len(toTrh) + 1}
           /\ \A k \in DOMAIN toTrh : toTrh'[k] = toTrh[k]
           /\ toTrh'[Len(toTrh) + 1] = n
BY AppendPlaces DEF TypeOK

\* TRM decides on a request once: no answer to it is on its way, and no helper has
\* its token.
LEMMA AnswersInv ==
    ASSUME TypeOK, Inv, NEW ok \in BOOLEAN, TrmAnswers(ok)
    PROVE  Inv'
<1>1. PICK m, n :
         /\ m = Head(toTrm) /\ toTrm # <<>> /\ toTrm' = Tail(toTrm) /\ toTrh' = Append(toTrh, n)
         /\ n = [kind |-> m.kind, id |-> m.id, ok |-> ok, token |->
                    IF m.kind \in Reserving THEN (IF ok THEN m.id ELSE NoToken) ELSE m.token]
         /\ m.kind # "cancelled" /\ sock = "connected"
         /\ answer' = [answer EXCEPT ![m.id] = IF ok THEN "ok" ELSE "failed"]
         /\ UNCHANGED <<sock, is_connected, rx, msg, found, helper, lastId>>
  BY DEF TrmAnswers, TrmReads
<1>2. m \in Messages
  BY <1>1, TailPlaces DEF TypeOK
<1>3. n \in Messages
  BY <1>1, <1>2 DEF Messages, NoToken
<1>4. /\ DOMAIN toTrh' = DOMAIN toTrh \cup {Len(toTrh) + 1}
      /\ \A k \in DOMAIN toTrh : toTrh'[k] = toTrh[k]
      /\ toTrh'[Len(toTrh) + 1] = n
  BY <1>1, <1>3, AnswerPlaces
<1>5. Asks(m)
  <2>1. toTrm \in Seq(Messages)
    BY DEF TypeOK
  <2> QED
    BY <1>1, <2>1, TailPlaces DEF Inv, Asked
<1>6. /\ m.kind \in Kinds /\ m.id \in Requests /\ m.id \in Ids /\ answer[m.id] = "none"
      /\ \A h \in Helpers : helper[h].id = m.id =>
            helper[h].pc \notin Posting /\ helper[h].kind = m.kind
  BY <1>1, <1>5, TrhConstants DEF Asks, Requests, Ids, TypeOK
<1>7. /\ \A i \in Ids : i # m.id => answer'[i] = answer[i]
      /\ answer'[m.id] = Granted(ok)
  BY <1>1, <1>6 DEF TypeOK, Granted
<1>8. Asked' /\ AskedOnce'
  <2>1. \A i \in Ids : answer'[i] = answer[i] \/ (Head(toTrm).kind \in Kinds /\ i = Head(toTrm).id)
    BY <1>1, <1>6, <1>7
  <2> QED
    BY <1>1, <2>1, TrmReadsAsked
<1>9. \A x : Answers(x) => x.id # m.id /\ (x.kind = "cancel" \/ x.id \in Ids)
  BY <1>6, TrhConstants DEF Answers, Granted, Requests, Ids, TypeOK
<1>10. Answered'
  <2>1. ASSUME NEW x, Answers(x)
        PROVE  Answers(x)'
    BY <1>1, <1>7, <1>9, <2>1 DEF Answers, Requests
  <2>2. n.kind = m.kind /\ n.id = m.id /\ n.ok = ok
        /\ (m.kind \in Reserving => n.token = IF ok THEN m.id ELSE NoToken)
    BY <1>1
  <2>3. Answers(n)'
    BY <1>1, <1>6, <1>7, <2>2 DEF Answers, Requests
  <2> QED
    BY <1>1, <1>4, <2>1, <2>3 DEF Inv, Answered, InHand
<1>11. AnsweredOnce'
  <2>1. \A k \in DOMAIN toTrh : toTrh[k].id # m.id
    BY <1>9 DEF Inv, Answered
  <2>2. InHand => msg.id # m.id
    BY <1>9 DEF Inv, Answered
  <2>3. n.id = m.id
    BY <1>1
  <2> QED
    BY <1>1, <1>4, <2>1, <2>2, <2>3 DEF Inv, AnsweredOnce, InHand
<1>12. OwnIds'
  <2>1. m.id <= lastId /\ lastId \in Int /\ m.id \in Int
    BY <1>6, TrhConstants DEF Requests, TypeOK
  <2>2. \A i \in Ids : i > lastId => answer'[i] = "none"
    BY <1>7, <2>1, TrhConstants DEF Inv, OwnIds, Ids
  <2> QED
    BY <1>1, <2>2 DEF Inv, OwnIds
<1>13. \A h \in Helpers : helper[h].id # 0 => helper[h].id \in Ids
  BY TrhConstants DEF Inv, OwnIds, TypeOK, Ids
<1>14. InCall'
  <2>1. \A h \in Helpers : helper[h].crossed \in 1 .. helper[h].id - 1 => helper[h].crossed \in Ids
    BY TrhConstants DEF Inv, OwnIds, TypeOK, Ids
  <2> QED
    BY <1>1, <1>6, <1>7, <1>13, <2>1 DEF Inv, InCall, Granted
<1>15. \A i : /\ Underway(i)' <=> Underway(i) \/ i = m.id
              /\ Coming(i)' <=> Coming(i) \/ i = m.id
  <2>1. n.id = m.id
    BY <1>1
  <2> QED
    BY <1>1, <1>4, <2>1 DEF Underway, Coming
<1>16. Tokens'
  <2>1. \A h \in Helpers : helper[h].token # NoToken => helper[h].token \in Ids /\ helper[h].token # m.id
    BY <1>6, TrhConstants DEF Inv, Tokens, OwnIds, TypeOK, Ids, NoToken
  <2> QED
    BY <1>1, <1>7, <1>15, <2>1 DEF Inv, Tokens
<1>17. ReadToTheEnd'
  BY <1>1 DEF Inv, ReadToTheEnd
<1>18. NotLost'
  BY <1>1, <1>7, <1>13, <1>15 DEF Inv, NotLost, InCall
<1>19. Handling'
  BY <1>1, HandlingKept
<1> QED
  BY <1>8, <1>10, <1>11, <1>12, <1>14, <1>16, <1>17, <1>18, <1>19 DEF Inv

LEMMA CancelsInv ==
    ASSUME TypeOK, Inv, NEW i \in Ids, TrmCancels(i)
    PROVE  Inv'
<1>1. PICK n :
         /\ n = [kind |-> "cancel", id |-> 0, ok |-> FALSE, token |-> i]
         /\ toTrh' = Append(toTrh, n) /\ sock = "connected"
         /\ UNCHANGED <<sock, is_connected, toTrm, rx, msg, found, helper, lastId, answer>>
  BY DEF TrmCancels
<1>2. n \in Messages /\ n.id = 0 /\ n.kind = "cancel"
  BY <1>1, TrhConstants DEF Messages, Ids
<1>3. /\ DOMAIN toTrh' = DOMAIN toTrh \cup {Len(toTrh) + 1}
      /\ \A k \in DOMAIN toTrh : toTrh'[k] = toTrh[k]
      /\ toTrh'[Len(toTrh) + 1] = n
  BY <1>1, <1>2, AnswerPlaces
<1>4. Asked' /\ AskedOnce' /\ OwnIds' /\ InCall'
  BY <1>1 DEF Inv, Asked, Asks, Requests, AskedOnce, OwnIds, InCall
<1>5. Answered'
  <2>1. \A x : Answers(x) => Answers(x)'
    BY <1>1 DEF Answers, Requests
  <2>2. Answers(n)'
    BY <1>2 DEF Answers
  <2> QED
    BY <1>1, <1>3, <2>1, <2>2 DEF Inv, Answered, InHand
<1>6. AnsweredOnce'
  BY <1>1, <1>2, <1>3 DEF Inv, AnsweredOnce, InHand
<1>7. \A j : j # 0 => (Underway(j)' <=> Underway(j)) /\ (Coming(j)' <=> Coming(j))
  BY <1>1, <1>2, <1>3 DEF Underway, Coming
<1>8. Tokens'
  BY <1>1, <1>7 DEF Inv, Tokens, NoToken
<1>9. NotLost'
  BY <1>1, <1>7 DEF Inv, NotLost, InCall
<1>10. ReadToTheEnd'
  BY <1>1 DEF Inv, ReadToTheEnd
<1>11. Handling'
  BY <1>1, HandlingKept
<1> QED
  BY <1>4, <1>5, <1>6, <1>8, <1>9, <1>10, <1>11 DEF Inv

LEMMA InvStep == TypeOK /\ Inv /\ [Next]_vars => Inv'
<1> SUFFICES ASSUME TypeOK, Inv, [Next]_vars
             PROVE  Inv'
  OBVIOUS
<1>1. ASSUME NEW h \in Helpers, CallStep(h)
      PROVE  Inv'
  <2>1. CASE Connect(h)
    <3>1. \A g \in Helpers :
            /\ helper'[g].id = helper[g].id /\ helper'[g].kind = helper[g].kind
            /\ helper'[g].token = helper[g].token /\ helper'[g].life = helper[g].life
            /\ helper'[g].got = helper[g].got /\ helper'[g].ok = helper[g].ok
            /\ helper'[g].crossed = helper[g].crossed
            /\ \/ helper'[g].pc = helper[g].pc
               \/ helper[g].pc = "connect" /\ helper'[g].pc = "write"
      BY <2>1 DEF Connect, TypeOK
    <3> QED
      BY <2>1, <3>1, ConnectInv DEF Connect
  <2> QED
    BY <1>1, <2>1, EncodeInv, WriteInv, CallInv DEF CallStep
<1>2. ASSUME NEW h \in Helpers, LifeStep(h) \/ \E kind \in Kinds : Call(h, kind)
      PROVE  Inv'
  BY <1>2, CallInv, ConstructInv, CallFreshInv DEF LifeStep
<1>3. CASE Receiver
  <2>1. CASE RxConnect
    BY <2>1, ConnectInv DEF RxConnect
  <2> QED
    BY <1>3, <2>1, ReadInv, LinkInv, SearchInv, SetTokenInv, NotifyInv, CancelInv DEF Receiver, RxHandle
<1>4. CASE TrmStep
  BY <1>4, AnswersInv, IgnoresInv, LinkInv, CancelsInv DEF TrmStep
<1>5. CASE UNCHANGED vars
  <2>1. Quiet /\ KeepsTokens
    BY <1>5 DEF vars, Quiet, KeepsTokens, InHand
  <2>2. InCall' /\ ReadToTheEnd' /\ NotLost'
    BY <1>5 DEF vars, Inv, InCall, ReadToTheEnd, NotLost, Underway
  <2>3. Handling'
    BY <1>5, HandlingKept DEF vars
  <2> QED
    BY <2>1, <2>2, <2>3, QuietSocket, QuietTokens DEF Inv
<1> QED
  BY <1>1, <1>2, <1>3, <1>4, <1>5 DEF Next

LEMMA InvHolds == Spec => [](TypeOK /\ Inv)
<1>1. Init => Inv
  <2> SUFFICES ASSUME Init
               PROVE  Inv
    OBVIOUS
  <2>1. \A h \in Helpers : helper[h].pc = "idle" /\ helper[h].id = 0 /\ helper[h].token = NoToken
    BY DEF Init, Constructed
  <2>2. /\ toTrm = <<>> /\ toTrh = <<>> /\ rx = "loop" /\ sock = "none" /\ found = {}
        /\ lastId = 0 /\ \A i \in Ids : answer[i] = "none"
    BY DEF Init
  <2> QED
    BY <2>1, <2>2 DEF Inv, Asked, AskedOnce, Answered, AnsweredOnce, OwnIds, InCall, Tokens,
       Posting, Awaiting, InHand, Handling, Locked, ReadToTheEnd, NotLost
<1>2. TypeOK /\ Inv /\ [Next]_vars => Inv'
  BY InvStep
<1> QED
  BY <1>1, <1>2, TrhTypes, PTL DEF Spec

-----------------------------------------------------------------------------
(* The properties.                                                         *)

\* A reservation token belongs to one helper, and TRM gave it to that helper: a
\* CancelRecording reaches the recording it is meant for (getTRH by token).
THEOREM TrhTokenIsOwn == Spec => []TokenIsOwn
<1>1. TypeOK /\ Inv => TokenIsOwn
  BY DEF TypeOK, Inv, Tokens, TokenIsOwn
<1> QED
  BY <1>1, InvHolds, PTL

\* A client that waits (waitForResrvResponse) has not missed its answer: it is still on
\* the socket or with the receiver, or the flag is set.
THEOREM TrhNoLostResponse == Spec => []NoLostResponse
<1>1. TypeOK /\ Inv => NoLostResponse
  BY DEF Inv, NotLost, NoLostResponse
<1> QED
  BY <1>1, InvHolds, PTL

\* A synchronous call that ends because an answer came returns what TRM answered to
\* that very request; the answer to an earlier request takes its place only if the
\* receiver had found the helper for it when the call reset its flags, and woke the
\* client after that.  A late answer that is read later never does.
THEOREM TrhAnswerIsOwn == Spec => AnswerIsOwn
<1> DEFINE A == \A h \in Helpers :
          /\ helper[h].pc = "wait" /\ helper[h].got /\ helper[h].life = "live"
          /\ helper'[h].pc # "wait"
          => \/ helper[h].ok <=> answer[helper[h].id] = "ok"
             \/ /\ helper[h].crossed \in 1 .. helper[h].id - 1
                /\ helper[h].ok <=> answer[helper[h].crossed] = "ok"
<1>1. TypeOK /\ Inv => [A]_vars
  BY DEF Inv, InCall, Awaiting, Granted
<1> QED
  BY <1>1, InvHolds, PTL DEF AnswerIsOwn

=============================================================================
