----------------------------- MODULE PodDecrypt -----------------------------
(***************************************************************************)
(* Decrypt sessions on a CableCARD                                         *)
(* (qamsource/podmgr/podserver/src/podmgrImpl.c).  A session is a request  *)
(* in the request table and, while the card works on it, a row of the      *)
(* program index table; table_mutex guards both.  Four threads of the      *)
(* server touch them: the IPC thread (start and stop, one call at a time), *)
(* the card's event handler, the APDU thread, and the card manager, which  *)
(* posts the card's coming and going.  A QAM source keeps the handle of    *)
(* its session, which is the address of the request.                       *)
(*                                                                         *)
(* Left out: transportStreamsUsed, which limits nothing (podmgrImpl.c      *)
(* compares it in a comment only); the limits of podDB, which equal the    *)
(* card's whenever the table exists; the re-activation of suspended        *)
(* requests, which looks for a priority above 0 while the only caller      *)
(* passes 0; copy control information.                                     *)
(***************************************************************************)
EXTENDS Integers, Sequences, FiniteSets, FiniteSetsExt

CONSTANTS Sources,         \* QAM sources, each with its qamContext
          Requests,        \* addresses of request table rows: reused when freed
          MaxPrograms,     \* programs the card descrambles at once
          MaxElemStreams,  \* elementary streams the card descrambles at once
          Streams,         \* per source: noES of its program
          Querying,        \* sources whose start sends a query first
          Failing,         \* calls whose CA_PMT may not be sent
          TransactionIds,  \* transaction ids count modulo this (255)
          MaxCards,        \* bound: insertions
          MaxStarts,       \* bound: calls of podmgrStartDecrypt
          MaxUpdates       \* bound: ca_updates the cards send

NULL == 0             \* no session handle

ASSUME PodConstants ==
    /\ IsFiniteSet(Sources)
    /\ NULL \notin Requests
    /\ MaxPrograms \in 1 .. 254
    /\ MaxElemStreams \in Nat
    /\ Streams \in [Sources -> Nat]
    /\ Querying \subseteq Sources
    /\ Failing \subseteq {"start", "stop", "enable"}
    /\ TransactionIds \in Nat \ {0}
    /\ {MaxCards, MaxStarts, MaxUpdates} \subseteq Nat

VARIABLES rows,     \* programIndexTable.rows: <<>> is NULL
          used,     \* programsUsed and elementaryStreamsUsed
          req,      \* requestTable: per address a request, or Freed
          isReady,  \* podDB.pod_isReady
          cas,      \* casSessionId: 0, or the insertion it belongs to
          card,     \* the card manager's view of the slot
          evq,      \* podImplEvQ: events for the handler thread
          handler,  \* where the handler thread is
          ipc,      \* the request the IPC thread has yet to take off the table
          chip,     \* per program index: the last CA_PMT the card received
          wire,     \* APDUs from the card
          apdu,     \* the APDU in the hands of the APDU thread
          session,  \* per source: the handle it keeps
          told,     \* per source: what the server told it since its last start
          count     \* bounds: starts and updates so far

table == <<rows, used, req>>
server == <<isReady, cas, card, evq, handler, ipc>>
client == <<session, told>>
vars == <<table, server, chip, wire, apdu, client, count>>

NoIndex == 255        \* (uint8_t) -1
ProgramIndex == 0 .. MaxPrograms - 1
Freed == [state |-> "free", owner |-> NULL, idx |-> NoIndex, serial |-> 0]
IdleRow(tid) == [state |-> "NOT_SELECTED", tid |-> tid, cmd |-> "none", streams |-> 0]
NoPmt == [cmd |-> "none", tid |-> 0, serial |-> 0]
NoApdu == [stage |-> "none"]
NoSession == [handle |-> NULL, serial |-> 0]
RowStates == {"NOT_SELECTED", "ISSUED_QUERY", "ISSUED_MMI", "DESCRAMBLING", "FAILED_DESCRAMBLING"}
CardEvents == {"READY", "CA_SYSTEM_READY", "REMOVED"}
SessionEvents == {"lost", "authorized", "failed"}
Apdus == [kind : {"reply", "update"}, idx : ProgramIndex, tid : 0 .. TransactionIds - 1,
          card : 1 .. MaxCards, serial : 1 .. MaxStarts]

TypeOK ==
    /\ \/ rows = <<>>
       \/ rows \in [ProgramIndex -> [state : RowStates, tid : 0 .. TransactionIds - 1,
                                     cmd : {"none", "query", "ok"}, streams : Nat]]
    /\ used \in [programs : Nat, streams : Nat]
    /\ req \in [Requests -> [state : {"free", "UNKNOWN", "ACTIVE", "WAITING"},
                             owner : Sources \cup {NULL},
                             idx : ProgramIndex \cup {NoIndex}, serial : 0 .. MaxStarts]]
    /\ isReady \in BOOLEAN
    /\ cas \in 0 .. MaxCards
    /\ card \in [n : 0 .. MaxCards, present : BOOLEAN,
                 open : SUBSET {"cardres", "ca"}, flags : SUBSET {"cardres", "ca"}]
    /\ evq \in Seq(CardEvents)
    /\ handler \in {"wait", "connect", "unready", "close"} \cup CardEvents
    /\ ipc \in Requests \cup {NULL}
    /\ chip \in [ProgramIndex -> [cmd : {"none", "query", "replied", "ok"},
                                  tid : 0 .. TransactionIds - 1, serial : 0 .. MaxStarts]]
    /\ wire \in Seq(Apdus)
    /\ \/ apdu = NoApdu
       \/ apdu \in [stage : {"checked"}, m : Apdus]
       \/ apdu \in [stage : {"locked"}, m : Apdus, left : 1 .. 2]
    /\ session \in [Sources -> [handle : Requests \cup {NULL}, serial : 0 .. MaxStarts]]
    /\ told \in [Sources -> SUBSET (SessionEvents \cup {"REMOVED"})]
    /\ count \in [starts : 0 .. MaxStarts, updates : 0 .. MaxUpdates]

Init ==
    /\ rows = <<>>
    /\ used = [programs |-> 0, streams |-> 0]
    /\ req = [a \in Requests |-> Freed]
    /\ isReady = FALSE /\ cas = 0
    /\ card = [n |-> 0, present |-> FALSE, open |-> {}, flags |-> {}]
    /\ evq = <<>> /\ handler = "wait" /\ ipc = NULL
    /\ chip = [i \in ProgramIndex |-> NoPmt]
    /\ wire = <<>> /\ apdu = NoApdu
    /\ session = [s \in Sources |-> NoSession]
    /\ told = [s \in Sources |-> {}]
    /\ count = [starts |-> 0, updates |-> 0]

-----------------------------------------------------------------------------
(* The tables.                                                             *)

Listed == {a \in Requests : req[a].state # "free"}
ActiveRows == {i \in DOMAIN rows : rows[i].state # "NOT_SELECTED"}
\* getDecryptSessionsForProgramIndex
SessionsOf(i) == {a \in Listed : req[a].idx = i}
\* Only the APDU thread holds table_mutex over more than one step.
MutexFree == apdu.stage # "locked"

getNextTransactionIdForProgramIndex(i) == (rows[i].tid + 1) % TransactionIds

checkAvailableResources(s) ==
    /\ rows # <<>>
    /\ used.programs + 1 <= MaxPrograms
    /\ used.streams + Streams[s] <= MaxElemStreams

getNextAvailableProgramIndexTableRow ==
    LET free == DOMAIN rows \ ActiveRows
    IN  IF free = {} THEN NoIndex ELSE Min(free)

commitProgramIndexTableRow(i, tid, cmd, state, streams) ==
    /\ rows' = [rows EXCEPT ![i] = [state |-> state, tid |-> tid, cmd |-> cmd,
                                    streams |-> streams]]
    /\ used' = [programs |-> used.programs + 1, streams |-> used.streams + streams]

\* Mutant of releaseProgramIndexRow: the streams are not given back.
releaseKeepsStreams(i, tid) ==
    /\ rows' = [rows EXCEPT ![i] = IdleRow(tid)]
    /\ used' = [used EXCEPT !.programs = @ - 1]

releaseProgramIndexRow(i, tid) ==
    /\ rows' = [rows EXCEPT ![i] = IdleRow(tid)]
    /\ used' = [programs |-> IF used.programs > 0 THEN used.programs - 1 ELSE 0,
                streams |-> IF rows[i].streams > used.streams THEN 0
                            ELSE used.streams - rows[i].streams]

\* createAndSendCaPMTApdu: what a CA_PMT the card accepts leaves there.
Sent(i, cmd, tid, serial) ==
    chip' = [chip EXCEPT ![i] = [cmd |-> cmd, tid |-> tid, serial |-> serial]]

-----------------------------------------------------------------------------
(* podmgrStartDecrypt, on the IPC thread.  It checks the resources in a    *)
(* critical section of its own; nothing takes resources meanwhile, so the  *)
(* call acts as if at one of the two.                                      *)

Starting(s) ==
    /\ session[s] = NoSession /\ ipc = NULL /\ MutexFree
    /\ count.starts < MaxStarts
    /\ count' = [count EXCEPT !.starts = @ + 1]

\* The source keeps the handle; events of earlier sessions stay told.
Returns(s, a, events) ==
    /\ session' = [session EXCEPT ![s] = [handle |-> a, serial |-> count.starts + 1]]
    /\ told' = [told EXCEPT ![s] = (@ \cap {"REMOVED"}) \cup events]

NewRequest(s, state, i) ==
    [state |-> state, owner |-> s, idx |-> i, serial |-> count.starts + 1]

\* RMF_OSAL_ENODATA: no table, or no resources.
StartRefused(s) ==
    /\ Starting(s)
    /\ ~checkAvailableResources(s)
    /\ UNCHANGED <<table, server, chip, wire, apdu, client>>

\* The card is not ready: the request waits, and its source hears so.
StartWaits(s) ==
    /\ Starting(s)
    /\ checkAvailableResources(s) /\ ~isReady
    /\ \E a \in Requests \ Listed :
          /\ req' = [req EXCEPT ![a] = NewRequest(s, "WAITING", NoIndex)]
          /\ Returns(s, a, {"lost"})
    /\ UNCHANGED <<rows, used, server, chip, wire, apdu>>

StartCommits(s) ==
    /\ Starting(s)
    /\ checkAvailableResources(s) /\ isReady /\ cas # 0
    /\ LET i == getNextAvailableProgramIndexTableRow
           tid == getNextTransactionIdForProgramIndex(i)
           query == s \in Querying
       IN  \E a \in Requests \ Listed :
              /\ req' = [req EXCEPT ![a] = NewRequest(s, "ACTIVE", i)]
              /\ Sent(i, IF query THEN "query" ELSE "ok", tid, count.starts + 1)
              /\ commitProgramIndexTableRow(i, tid, IF query THEN "query" ELSE "ok",
                     IF query THEN "ISSUED_QUERY" ELSE "DESCRAMBLING", Streams[s])
              /\ Returns(s, a, IF query THEN {} ELSE {"authorized"})
    /\ UNCHANGED <<server, wire, apdu>>

\* The CA_PMT is not sent (always so without a CA session): the request is
\* on the table and the mutex is released before it is taken off.
StartFails(s) ==
    /\ Starting(s)
    /\ checkAvailableResources(s) /\ isReady
    /\ cas = 0 \/ "start" \in Failing
    /\ \E a \in Requests \ Listed :
          /\ req' = [req EXCEPT ![a] = NewRequest(s, "UNKNOWN", getNextAvailableProgramIndexTableRow)]
          /\ ipc' = a
    /\ UNCHANGED <<rows, used, isReady, cas, card, evq, handler, chip, wire, apdu, client>>

\* removeRequestFromTable and rmf_osal_memFreeP, without the mutex.
StartCleansUp ==
    /\ ipc # NULL
    /\ req' = [req EXCEPT ![ipc] = Freed]
    /\ ipc' = NULL
    /\ UNCHANGED <<rows, used, isReady, cas, card, evq, handler, chip, wire, apdu, client, count>>

-----------------------------------------------------------------------------
(* podmgrStopDecrypt, on the IPC thread.  The source drops the handle      *)
(* whatever the call returns.                                              *)

Stopping(s) ==
    /\ session[s] # NoSession /\ ipc = NULL /\ MutexFree
    /\ session' = [session EXCEPT ![s] = NoSession]

\* RMF_OSAL_EINVAL: no such request.
StopUnknown(s) ==
    /\ Stopping(s)
    /\ session[s].handle \notin Listed
    /\ UNCHANGED <<table, server, chip, wire, apdu, told, count>>

\* VALID_PROGRAM_INDEX fails: the request goes and there is no row to release.
StopWaiting(s) ==
    /\ Stopping(s)
    /\ session[s].handle \in Listed
    /\ req[session[s].handle].idx \notin DOMAIN rows
    /\ req' = [req EXCEPT ![session[s].handle] = Freed]
    /\ UNCHANGED <<rows, used, server, chip, wire, apdu, told, count>>

\* The row goes if the card was told, and stays behind if it could not be.
StopActive(s) ==
    LET a == session[s].handle
        i == req[a].idx
        tid == getNextTransactionIdForProgramIndex(i)
    IN  /\ Stopping(s)
        /\ a \in Listed /\ i \in DOMAIN rows
        /\ req' = [req EXCEPT ![a] = Freed]
        /\ \/ /\ cas # 0
              /\ Sent(i, "none", tid, 0)
              /\ releaseProgramIndexRow(i, tid)
           \/ /\ cas = 0 \/ "stop" \in Failing
              /\ UNCHANGED <<rows, used, chip>>
        /\ UNCHANGED <<server, wire, apdu, told, count>>

\* handlePODRemoval: a source told of a removal drops its handle, whichever
\* session it is of by then.
Forget(s) ==
    /\ "REMOVED" \in told[s]
    /\ session' = [session EXCEPT ![s] = NoSession]
    /\ told' = [told EXCEPT ![s] = @ \ {"REMOVED"}]
    /\ UNCHANGED <<table, server, chip, wire, apdu, count>>

-----------------------------------------------------------------------------
(* The APDU thread: podProcessApduInt.                                     *)

\* The session is compared before the mutex is taken.
ApduReceive ==
    /\ apdu = NoApdu /\ wire # <<>>
    /\ apdu' = IF Head(wire).card = cas THEN [stage |-> "checked", m |-> Head(wire)] ELSE NoApdu
    /\ wire' = Tail(wire)
    /\ UNCHANGED <<table, server, chip, client, count>>

\* Mutant of isValidReply: the transaction is not compared.
isReplyForRow(m) ==
    /\ m.kind = "reply" /\ m.idx \in DOMAIN rows
    /\ rows[m.idx].state = "ISSUED_QUERY"

isValidReply(m) ==
    /\ m.kind = "reply" /\ m.idx \in DOMAIN rows
    /\ rows[m.idx].tid = m.tid /\ rows[m.idx].state = "ISSUED_QUERY"

isValidUpdate(m) ==
    /\ m.kind = "update" /\ m.idx \in DOMAIN rows
    /\ rows[m.idx].tid = m.tid /\ rows[m.idx].state # "ISSUED_QUERY"

\* An APDU holds a program level ca_enable, stream level ones, or both.
ApduValidate ==
    /\ apdu.stage = "checked"
    /\ \/ /\ isValidReply(apdu.m) \/ isValidUpdate(apdu.m)
          /\ \E n \in 1 .. 2 : apdu' = [stage |-> "locked", m |-> apdu.m, left |-> n]
       \/ /\ ~(isValidReply(apdu.m) \/ isValidUpdate(apdu.m))
          /\ apdu' = NoApdu
    /\ UNCHANGED <<table, server, chip, wire, client, count>>

\* handleCaEnable sends RMF_PODMGR_CA_OK_DESCRAMBLE for the first session of
\* the row (no session: an uninitialised handle, which NoWildHandle excludes).
Descramble(i, state) ==
    LET tid == getNextTransactionIdForProgramIndex(i)
    IN  /\ rows' = [rows EXCEPT ![i].state = state, ![i].cmd = "ok", ![i].tid = tid]
        /\ \E a \in SessionsOf(i) : Sent(i, "ok", tid, req[a].serial)

\* A row has one session at most (SessionsOwnRows).
sendEventImpl(ev, i) ==
    \/ SessionsOf(i) = {} /\ UNCHANGED told
    \/ \E a \in SessionsOf(i) : told' = [told EXCEPT ![req[a].owner] = @ \cup {ev}]

handleCaEnable ==
    LET i == apdu.m.idx
        CannotSend == cas = 0 \/ "enable" \in Failing
    IN  /\ apdu.stage = "locked"
        /\ \/ \* NO_CONDITIONS, descrambling already
              /\ rows[i].state = "DESCRAMBLING"
              /\ UNCHANGED <<rows, chip, told>>
           \/ \* NO_CONDITIONS: the state changes even if the CA_PMT is not sent
              /\ rows[i].state # "DESCRAMBLING"
              /\ \/ rows[i].cmd # "ok" /\ cas # 0 /\ Descramble(i, "DESCRAMBLING")
                 \/ /\ rows[i].cmd = "ok" \/ CannotSend
                    /\ rows' = [rows EXCEPT ![i].state = "DESCRAMBLING"]
                    /\ UNCHANGED chip
              /\ sendEventImpl("authorized", i)
           \/ \* WITH_PAYMENT, WITH_TECH
              \/ cas # 0 /\ Descramble(i, "ISSUED_MMI") /\ sendEventImpl("failed", i)
              \/ CannotSend /\ UNCHANGED <<rows, chip, told>>
           \/ \* PAYMENT_FAIL, TECH_FAIL
              /\ rows' = [rows EXCEPT ![i].state = "FAILED_DESCRAMBLING", ![i].cmd = "none"]
              /\ sendEventImpl("failed", i)
              /\ UNCHANGED chip
        /\ apdu' = IF apdu.left = 1 THEN NoApdu ELSE [stage |-> "locked", m |-> apdu.m, left |-> apdu.left - 1]
        /\ UNCHANGED <<used, req, server, wire, session, count>>

-----------------------------------------------------------------------------
(* The card manager and the card.                                          *)

Posts(ev) == evq' = Append(evq, ev)
CardStep == UNCHANGED <<table, cas, handler, ipc, apdu, client, count>>

\* vlMpeosSetCardPresent(1); a new card knows of no program.
CardInserted ==
    /\ ~card.present /\ card.n < MaxCards
    /\ card' = [card EXCEPT !.present = TRUE, !.n = @ + 1, !.open = {}]
    /\ chip' = [i \in ProgramIndex |-> NoPmt]
    /\ CardStep /\ UNCHANGED <<isReady, evq, wire>>

\* vlMpeosSetCardReady(1)
CardBecomesReady ==
    /\ card.present /\ ~isReady
    /\ isReady' = TRUE
    /\ Posts("READY")
    /\ CardStep /\ UNCHANGED <<card, chip, wire>>

\* vlMpeosPostCASystemEvent: the flags outlive the card that set them.
CardOpens(r) ==
    /\ card.present /\ r \notin card.open
    /\ LET flags == card.flags \cup {r}
       IN  /\ card' = [card EXCEPT !.open = @ \cup {r}, !.flags = flags]
           /\ IF flags = {"cardres", "ca"} THEN Posts("CA_SYSTEM_READY") ELSE UNCHANGED evq
    /\ CardStep /\ UNCHANGED <<isReady, chip, wire>>

\* vlMpeosSetCardReady(0); vlMpeosSetCardPresent(0)
CardRemoved ==
    /\ card.present
    /\ card' = [card EXCEPT !.present = FALSE]
    /\ isReady' = FALSE
    /\ Posts("REMOVED")
    /\ CardStep /\ UNCHANGED <<chip, wire>>

\* The card answers a query once.
CardReplies(i) ==
    /\ card.present /\ chip[i].cmd = "query"
    /\ wire' = Append(wire, [kind |-> "reply", idx |-> i, tid |-> chip[i].tid,
                             card |-> card.n, serial |-> chip[i].serial])
    /\ chip' = [chip EXCEPT ![i].cmd = "replied"]
    /\ CardStep /\ UNCHANGED <<isReady, card, evq>>

\* The conditions of a program it descrambles change.
CardUpdates(i) ==
    /\ card.present /\ chip[i].cmd = "ok" /\ count.updates < MaxUpdates
    /\ wire' = Append(wire, [kind |-> "update", idx |-> i, tid |-> chip[i].tid,
                             card |-> card.n, serial |-> chip[i].serial])
    /\ count' = [count EXCEPT !.updates = @ + 1]
    /\ UNCHANGED <<table, server, chip, apdu, client>>

-----------------------------------------------------------------------------
(* The handler thread: podImplEventHandlerThread.                          *)

\* An event goes to the registered queues before the handler acts on it.
HandlerAnnounces ==
    /\ handler = "wait" /\ evq # <<>>
    /\ handler' = Head(evq)
    /\ evq' = Tail(evq)
    /\ told' = [s \in Sources |-> IF Head(evq) = "REMOVED" THEN told[s] \cup {"REMOVED"} ELSE told[s]]
    /\ UNCHANGED <<table, isReady, cas, card, ipc, chip, wire, apdu, session, count>>

HandleReady ==
    /\ handler = "READY"
    /\ isReady' = TRUE
    /\ handler' = "wait"
    /\ UNCHANGED <<table, cas, card, evq, ipc, chip, wire, apdu, client, count>>

\* Mutant of HandleCaSystemReady: one row too many.
HandleCaSystemReadyExtraRow ==
    /\ handler = "CA_SYSTEM_READY" /\ MutexFree
    /\ rows' = IF rows = <<>> THEN [i \in 0 .. MaxPrograms |-> IdleRow(0)] ELSE rows
    /\ handler' = "connect"
    /\ UNCHANGED <<used, req, isReady, cas, card, evq, ipc, chip, wire, apdu, client, count>>

\* initProgramIndexTable keeps the rows there are.
HandleCaSystemReady ==
    /\ handler = "CA_SYSTEM_READY" /\ MutexFree
    /\ rows' = IF rows = <<>> THEN [i \in ProgramIndex |-> IdleRow(0)] ELSE rows
    /\ handler' = "connect"
    /\ UNCHANGED <<used, req, isReady, cas, card, evq, ipc, chip, wire, apdu, client, count>>

\* rmf_podmgrCASConnect finds the CA session of the card, if it has opened one.
HandleConnect ==
    /\ handler = "connect"
    /\ cas' = IF card.present /\ "ca" \in card.open THEN card.n ELSE 0
    /\ handler' = "wait"
    /\ UNCHANGED <<table, isReady, card, evq, ipc, chip, wire, apdu, client, count>>

\* suspendActiveCASessions tells the owner of every active row and gives the
\* request no index; removeUnusedRequestFromRequestTable frees what has none.
Suspended == {a \in Listed : req[a].idx \in ActiveRows}

\* Mutant of HandleRemoved: the owners are not told.
HandleRemovedSilently ==
    /\ handler = "REMOVED" /\ MutexFree
    /\ req' = [a \in Requests |->
                 IF a \in Suspended \/ req[a].idx = NoIndex THEN Freed ELSE req[a]]
    /\ rows' = <<>>
    /\ used' = [programs |-> 0, streams |-> 0]
    /\ handler' = "unready"
    /\ UNCHANGED <<isReady, cas, card, evq, ipc, chip, wire, apdu, client, count>>

\* Mutant of HandleRemoved: waiting requests stay.
HandleRemovedKeepsWaiting ==
    /\ handler = "REMOVED" /\ MutexFree
    /\ req' = [a \in Requests |-> IF a \in Suspended THEN Freed ELSE req[a]]
    /\ told' = [s \in Sources |->
                 IF \E a \in Suspended : req[a].owner = s THEN told[s] \cup {"lost"} ELSE told[s]]
    /\ rows' = <<>>
    /\ used' = [programs |-> 0, streams |-> 0]
    /\ handler' = "unready"
    /\ UNCHANGED <<isReady, cas, card, evq, ipc, chip, wire, apdu, session, count>>

HandleRemoved ==
    /\ handler = "REMOVED" /\ MutexFree
    /\ req' = [a \in Requests |->
                 IF a \in Suspended \/ req[a].idx = NoIndex THEN Freed ELSE req[a]]
    /\ told' = [s \in Sources |->
                 IF \E a \in Suspended : req[a].owner = s THEN told[s] \cup {"lost"} ELSE told[s]]
    /\ rows' = <<>>
    /\ used' = [programs |-> 0, streams |-> 0]
    /\ handler' = "unready"
    /\ UNCHANGED <<isReady, cas, card, evq, ipc, chip, wire, apdu, session, count>>

HandleUnready ==
    /\ handler = "unready"
    /\ isReady' = FALSE
    /\ handler' = "close"
    /\ UNCHANGED <<table, cas, card, evq, ipc, chip, wire, apdu, client, count>>

HandleClose ==
    /\ handler = "close"
    /\ cas' = 0
    /\ handler' = "wait"
    /\ UNCHANGED <<table, isReady, card, evq, ipc, chip, wire, apdu, client, count>>

-----------------------------------------------------------------------------

Ipc(s) ==
    \/ StartRefused(s) \/ StartWaits(s) \/ StartCommits(s) \/ StartFails(s)
    \/ StopUnknown(s) \/ StopWaiting(s) \/ StopActive(s)

Apdu == ApduReceive \/ ApduValidate \/ handleCaEnable

Handler ==
    \/ HandlerAnnounces \/ HandleReady \/ HandleCaSystemReady \/ HandleConnect
    \/ HandleRemoved \/ HandleUnready \/ HandleClose

Card ==
    \/ CardInserted \/ CardBecomesReady \/ CardRemoved
    \/ \E r \in {"cardres", "ca"} : CardOpens(r)
    \/ \E i \in ProgramIndex : CardReplies(i) \/ CardUpdates(i)

Next ==
    \/ Apdu \/ Handler \/ Card \/ StartCleansUp
    \/ \E s \in Sources : Ipc(s) \/ Forget(s)

Spec == Init /\ [][Next]_vars
-----------------------------------------------------------------------------
(* Properties.                                                             *)

\* The elementary streams of the rows in use.
StreamsInUse == UNION {{i} \X (1 .. rows[i].streams) : i \in ActiveRows}

\* The counters that podmgrStartDecrypt checks are those of the rows in use,
\* through commits, releases, failed CA_PMTs and removals: otherwise a start is
\* refused for ever, or passes the check and finds no row (255).
RowsAccounted ==
    /\ used.programs = Cardinality(ActiveRows)
    /\ used.streams = Cardinality(StreamsInUse)

\* The request table and the program index table agree between critical
\* sections: an active request has a row in use, and no two share one, so an
\* answer for the row has one addressee.
SessionsOwnRows ==
    /\ \A a \in Listed : req[a].state = "ACTIVE" => req[a].idx \in ActiveRows
    /\ \A a, b \in Listed :
          req[a].state = "ACTIVE" /\ req[b].state = "ACTIVE" /\ req[a].idx = req[b].idx => a = b

\* The two tables and the counts against the card's limits agree.
TablesAgree == RowsAccounted /\ SessionsOwnRows

\* A reply or an update that passed the checks of podProcessApduInt is about
\* the session that has its row now, however late it comes.
AnswerReachesItsSession ==
    apdu.stage = "locked" =>
        \A a \in SessionsOf(apdu.m.idx) : req[a].serial = apdu.m.serial

\* A source whose handle is no longer its session (card removed, request
\* freed) has been told, by the event of the card or of the session.
LossIsTold ==
    \A s \in Sources :
        session[s] # NoSession =>
            \/ /\ session[s].handle \in Listed
               /\ req[session[s].handle].serial = session[s].serial
            \/ told[s] \cap {"REMOVED", "lost"} # {}

\* Once the handler has dealt with everything, a request left on the table is
\* one some source can still stop; nothing else takes its row back.
NoOrphanSession ==
    handler = "wait" /\ evq = <<>> =>
        \A a \in Listed \ {ipc} :
            \E s \in Sources : session[s] = [handle |-> a, serial |-> req[a].serial]

\* handleCaEnable finds a session on the row it works for: it reads the first
\* handle of the list without asking how many there are.
NoWildHandle == apdu.stage = "locked" => SessionsOf(apdu.m.idx) # {}

\* Neither a session without a source nor an answer without a session.
NobodyIsLeft == NoOrphanSession /\ NoWildHandle

=============================================================================
