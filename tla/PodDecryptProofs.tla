-------------------------- MODULE PodDecryptProofs --------------------------
(***************************************************************************)
(* Proofs about decrypt sessions, for any number of sources, requests,     *)
(* programs and streams.  The types hold without assumptions; the rest is  *)
(* about the life of one card, before a transaction id comes round again:  *)
(* the tables agree, an answer reaches its session, a source that loses    *)
(* its session is told, and nobody is left behind.                         *)
(***************************************************************************)
EXTENDS PodDecrypt, FiniteSetTheorems, SequenceTheorems, WellFoundedInduction, TLAPS

\* What the types need: a listed request and a CA_PMT have the serial of a start, and
\* the APDU thread holds the mutex for a row that exists.
Shape ==
    /\ card.present => card.n # 0
    /\ \A a \in Listed : req[a].serial # 0
    /\ \A i \in ProgramIndex : chip[i].cmd # "none" => chip[i].serial # 0
    /\ apdu.stage = "locked" => apdu.m.idx \in DOMAIN rows

-----------------------------------------------------------------------------
\* The life of one card.
OneCard == MaxCards <= 1

\* Transaction ids do not come round: a start takes one for its CA_PMT, one for its
\* stop and two for the reply to its query, an update takes two.
NoWrap == 4 * MaxStarts + 2 * MaxUpdates + 1 < TransactionIds

Full == {"cardres", "ca"}
Queued(ev) == \E k \in DOMAIN evq : evq[k] = ev
\* The removal has been dealt with: nothing starts any more.
Over == /\ ~card.present /\ evq = <<>> /\ handler \in {"unready", "close", "wait"}
        /\ rows = <<>> /\ Listed \subseteq {ipc} /\ card.n # 0

\* CA_SYSTEM_READY comes once, before REMOVED, and REMOVED comes last.
CardLife ==
    /\ card.n = 0 => ~card.present /\ card.open = {} /\ evq = <<>> /\ handler = "wait"
    /\ card.flags = card.open
    /\ Queued("CA_SYSTEM_READY") \/ handler \in {"CA_SYSTEM_READY", "connect"} \/ rows # <<>>
          => card.flags = Full
    /\ \A j, k \in DOMAIN evq :
          evq[j] = "CA_SYSTEM_READY" /\ evq[k] = "CA_SYSTEM_READY" => j = k
    /\ Queued("CA_SYSTEM_READY") => rows = <<>> /\ handler \in {"wait", "READY"}
    /\ handler = "CA_SYSTEM_READY" => rows = <<>>
    /\ \A k \in DOMAIN evq : evq[k] = "REMOVED" => k = Len(evq) /\ ~card.present
    /\ handler \in {"REMOVED", "unready", "close"} => evq = <<>> /\ ~card.present /\ card.n # 0
    /\ handler \in {"unready", "close"} => Over
    /\ card.n # 0 /\ ~card.present => Queued("REMOVED") \/ handler = "REMOVED" \/ Over

\* Rows come into use while there is a CA session.
CasLife ==
    /\ ActiveRows # {} => cas # 0
    /\ handler = "connect" => cas = 0 /\ rows # <<>>
    /\ rows = <<>> => cas = 0 \/ handler \in {"unready", "close"}

\* Before there is a table nothing was sent to the card.
NothingSent ==
    rows = <<>> => \/ Over
                   \/ wire = <<>> /\ apdu = NoApdu /\ \A i \in ProgramIndex : chip[i] = NoPmt

\* Requests and rows.
Holders ==
    /\ \A a \in Listed :
          \/ req[a].state = "ACTIVE" /\ req[a].idx \in ActiveRows /\ a # ipc
          \/ req[a].state = "WAITING" /\ req[a].idx = NoIndex /\ a # ipc
          \/ req[a].state = "UNKNOWN" /\ req[a].idx \notin ActiveRows /\ a = ipc
    /\ \A a, b \in Listed :
          req[a].state = "ACTIVE" /\ req[b].state = "ACTIVE" /\ req[a].idx = req[b].idx => a = b

\* The row and the card agree on the transaction, and on whose it is.
Chips ==
    rows # <<>> =>
        \A i \in ProgramIndex :
            /\ chip[i].tid = rows[i].tid
            /\ chip[i].cmd # "none" <=> i \in ActiveRows
            /\ i \in ActiveRows => \A a \in SessionsOf(i) : req[a].serial = chip[i].serial

\* An APDU is of the transaction of its row, or of an earlier one.
Timely(m) ==
    rows # <<>> =>
        /\ m.tid <= rows[m.idx].tid
        /\ m.tid = rows[m.idx].tid => chip[m.idx].cmd # "none" /\ m.serial = chip[m.idx].serial

ApdusTimely ==
    /\ \A k \in DOMAIN wire : Timely(wire[k])
    /\ apdu.stage = "checked" => Timely(apdu.m)
    /\ apdu.stage = "locked" =>
          /\ apdu.m.idx \in ActiveRows
          /\ \A a \in SessionsOf(apdu.m.idx) : req[a].serial = apdu.m.serial

\* The handle of a source is its own request, until the removal has been dealt with.
Owned(s) ==
    LET a == session[s].handle
    IN  /\ a \in Listed /\ req[a].state # "UNKNOWN"
        /\ req[a].owner = s /\ req[a].serial = session[s].serial
        /\ req[a].state = "WAITING" => "lost" \in told[s]

Clients ==
    /\ \A s \in Sources : session[s] # NoSession =>
          Owned(s) \/ (Over /\ told[s] \cap {"REMOVED", "lost"} # {})
    /\ \A a \in Listed \ {ipc} :
          \/ handler = "REMOVED"
          \/ \E s \in Sources : session[s] = [handle |-> a, serial |-> req[a].serial]
    /\ \A s \in Sources : "REMOVED" \in told[s] => handler = "REMOVED" \/ Over

\* Steps still to come that take a transaction id.
Asking == {i \in ProgramIndex : chip[i].cmd = "query"}
Open == {s \in Sources : session[s] # NoSession}
Pending ==
    Cardinality(Open) + 2 * Cardinality(Asking) + 2 * Len(wire)
      + (IF apdu.stage = "checked" THEN 2 ELSE IF apdu.stage = "locked" THEN apdu.left ELSE 0)
Budget ==
    /\ Pending <= 4 * count.starts + 2 * count.updates
    /\ \A i \in DOMAIN rows : rows[i].tid + Pending <= 4 * count.starts + 2 * count.updates

Inv == /\ CardLife /\ CasLife /\ NothingSent /\ Holders /\ Chips /\ ApdusTimely /\ Clients
       /\ RowsAccounted

\* Every row in use has a session, if a stop always reaches the card.
Manned == \A i \in ActiveRows : SessionsOf(i) # {}

-----------------------------------------------------------------------------
(* Types.                                                                  *)

RowRecord == [state : RowStates, tid : 0 .. TransactionIds - 1,
              cmd : {"none", "query", "ok"}, streams : Nat]
RequestRecord == [state : {"free", "UNKNOWN", "ACTIVE", "WAITING"}, owner : Sources \cup {NULL},
                  idx : ProgramIndex \cup {NoIndex}, serial : 0 .. MaxStarts]
PmtRecord == [cmd : {"none", "query", "replied", "ok"},
              tid : 0 .. TransactionIds - 1, serial : 0 .. MaxStarts]
SessionRecord == [handle : Requests \cup {NULL}, serial : 0 .. MaxStarts]
CardRecord == [n : 0 .. MaxCards, present : BOOLEAN,
               open : SUBSET {"cardres", "ca"}, flags : SUBSET {"cardres", "ca"}]

\* The types of the tables, of the rest of the server, of the card, of the APDU
\* thread and of the sources.
TableTypes == /\ rows = <<>> \/ rows \in [ProgramIndex -> RowRecord]
              /\ used \in [programs : Nat, streams : Nat]
              /\ req \in [Requests -> RequestRecord]
ServerTypes == /\ isReady \in BOOLEAN /\ cas \in 0 .. MaxCards
               /\ evq \in Seq(CardEvents)
               /\ handler \in {"wait", "connect", "unready", "close"} \cup CardEvents
               /\ ipc \in Requests \cup {NULL}
CardTypes == card \in CardRecord /\ (card.present => card.n # 0)
ChipTypes == chip \in [ProgramIndex -> PmtRecord]
             /\ \A i \in ProgramIndex : chip[i].cmd # "none" => chip[i].serial # 0
ApduTypes == /\ wire \in Seq(Apdus)
             /\ \/ apdu = NoApdu
                \/ apdu \in [stage : {"checked"}, m : Apdus]
                \/ apdu \in [stage : {"locked"}, m : Apdus, left : 1 .. 2]
LockedRow == apdu.stage = "locked" => apdu.m.idx \in DOMAIN rows
ClientTypes == /\ session \in [Sources -> SessionRecord]
               /\ told \in [Sources -> SUBSET (SessionEvents \cup {"REMOVED"})]
CountTypes == count \in [starts : 0 .. MaxStarts, updates : 0 .. MaxUpdates]
ListedSerials == \A a \in Listed : req[a].serial # 0

Types == /\ TableTypes /\ ServerTypes /\ CardTypes /\ ChipTypes /\ ApduTypes /\ LockedRow
         /\ ClientTypes /\ CountTypes /\ ListedSerials

LEMMA TypesAre == Types <=> TypeOK /\ Shape
BY DEF Types, TypeOK, Shape, TableTypes, ServerTypes, CardTypes, ChipTypes, ApduTypes, LockedRow,
   ClientTypes, CountTypes, ListedSerials, RowRecord, RequestRecord, PmtRecord, SessionRecord,
   CardRecord

LEMMA InitTypes == Init => Types
<1> SUFFICES ASSUME Init
             PROVE  Types
  OBVIOUS
<1>1. TableTypes /\ ListedSerials
  BY PodConstants DEF Init, TableTypes, ListedSerials, Listed, RequestRecord, Freed
<1>2. ServerTypes
  <2>1. isReady = FALSE /\ cas = 0 /\ evq = <<>> /\ handler = "wait" /\ ipc = NULL
    BY DEF Init
  <2>2. isReady \in BOOLEAN
    BY <2>1, Zenon
  <2> QED
    BY <2>1, <2>2, PodConstants DEF ServerTypes
<1>3. CardTypes
  BY PodConstants DEF Init, CardTypes, CardRecord
<1>4. ChipTypes
  BY PodConstants DEF Init, ChipTypes, PmtRecord, NoPmt
<1>5. ApduTypes /\ LockedRow
  BY DEF Init, ApduTypes, LockedRow, NoApdu
<1>6. ClientTypes /\ CountTypes
  BY PodConstants DEF Init, ClientTypes, CountTypes, SessionRecord, NoSession
<1> QED
  BY <1>1, <1>2, <1>3, <1>4, <1>5, <1>6 DEF Types

\* Parts that a step leaves alone.
LEMMA FrameTypes ==
    /\ TableTypes /\ ListedSerials /\ UNCHANGED table => TableTypes' /\ ListedSerials'
    /\ ServerTypes /\ UNCHANGED <<isReady, cas, evq, handler, ipc>> => ServerTypes'
    /\ CardTypes /\ UNCHANGED card => CardTypes'
    /\ ChipTypes /\ UNCHANGED chip => ChipTypes'
    /\ ApduTypes /\ UNCHANGED <<wire, apdu>> => ApduTypes'
    /\ LockedRow /\ UNCHANGED <<rows, apdu>> => LockedRow'
    /\ ClientTypes /\ UNCHANGED client => ClientTypes'
    /\ CountTypes /\ UNCHANGED count => CountTypes'
<1>1. TableTypes /\ ListedSerials /\ UNCHANGED table => TableTypes' /\ ListedSerials'
  BY DEF TableTypes, ListedSerials, table, Listed
<1>2. ServerTypes /\ UNCHANGED <<isReady, cas, evq, handler, ipc>> => ServerTypes'
  BY DEF ServerTypes
<1>3. CardTypes /\ UNCHANGED card => CardTypes'
  BY DEF CardTypes
<1>4. ChipTypes /\ UNCHANGED chip => ChipTypes'
  BY DEF ChipTypes
<1>5. ApduTypes /\ UNCHANGED <<wire, apdu>> => ApduTypes'
  BY DEF ApduTypes
<1>6. LockedRow /\ UNCHANGED <<rows, apdu>> => LockedRow'
  BY DEF LockedRow
<1>7. ClientTypes /\ UNCHANGED client => ClientTypes'
  BY DEF ClientTypes, client
<1>8. CountTypes /\ UNCHANGED count => CountTypes'
  BY DEF CountTypes
<1> QED
  BY <1>1, <1>2, <1>3, <1>4, <1>5, <1>6, <1>7, <1>8

\* A start counts itself, and gives its request the count.
LEMMA StartingTypes ==
    ASSUME Types, NEW s \in Sources, Starting(s)
    PROVE  /\ CountTypes' /\ count.starts + 1 \in 1 .. MaxStarts /\ MutexFree /\ ipc = NULL
           /\ \A state \in {"UNKNOWN", "ACTIVE", "WAITING"}, i \in ProgramIndex \cup {NoIndex} :
                 NewRequest(s, state, i) \in RequestRecord /\ NewRequest(s, state, i).serial # 0
<1>1. count \in [starts : 0 .. MaxStarts, updates : 0 .. MaxUpdates]
  BY DEF Types, CountTypes
<1>2. count.starts < MaxStarts /\ count' = [count EXCEPT !.starts = @ + 1] /\ MutexFree /\ ipc = NULL
  BY DEF Starting
<1>3. count.starts + 1 \in 1 .. MaxStarts
  BY <1>1, <1>2, PodConstants
<1>4. CountTypes'
  BY <1>1, <1>2, <1>3, PodConstants DEF CountTypes
<1> QED
  BY <1>2, <1>3, <1>4, PodConstants DEF NewRequest, RequestRecord

LEMMA ReturnsTypes ==
    ASSUME Types, NEW s \in Sources, NEW a \in Requests, NEW events \in SUBSET SessionEvents,
           count.starts + 1 \in 1 .. MaxStarts, Returns(s, a, events)
    PROVE  ClientTypes'
<1>1. [handle |-> a, serial |-> count.starts + 1] \in SessionRecord
  BY PodConstants DEF SessionRecord
<1>2. session' \in [Sources -> SessionRecord]
  BY <1>1 DEF Returns, Types, ClientTypes
<1>3. told' \in [Sources -> SUBSET (SessionEvents \cup {"REMOVED"})]
  BY DEF Returns, Types, ClientTypes
<1> QED
  BY <1>2, <1>3 DEF ClientTypes

LEMMA SmallestIndex ==
    ASSUME NEW S, S \subseteq Nat, S # {}
    PROVE  \E x \in S : \A y \in S : x <= y
<1>1. PICK x \in S : \A y \in S : ~ (<<y, x>> \in OpToRel(<, Nat))
  BY NatLessThanWellFounded, WFMin
<1>2. \A y \in S : ~(y < x)
  BY <1>1 DEF OpToRel
<1> QED
  BY <1>2

\* The row a start would use: a row that is not in use, or none.
LEMMA AvailableRow ==
    ASSUME TableTypes
    PROVE  LET i == getNextAvailableProgramIndexTableRow
               free == DOMAIN rows \ ActiveRows
           IN  (i \in free /\ i \in ProgramIndex) \/ (free = {} /\ i = NoIndex)
<1> DEFINE free == DOMAIN rows \ ActiveRows
<1>1. free \in SUBSET ProgramIndex /\ free \in SUBSET Nat
  BY PodConstants DEF TableTypes, ProgramIndex
<1>2. CASE free = {}
  BY <1>2 DEF getNextAvailableProgramIndexTableRow
<1>3. CASE free # {}
  <2>1. \E x \in free : \A y \in free : x <= y
    <3> HIDE DEF free
    <3> QED
      BY <1>1, <1>3, SmallestIndex
  <2>2. Min(free) \in free
    BY <2>1 DEF Min
  <2> QED
    BY <1>1, <1>3, <2>2 DEF getNextAvailableProgramIndexTableRow
<1> QED
  BY <1>2, <1>3

\* What a CA_PMT leaves on the card.
LEMMA SentTypes ==
    ASSUME ChipTypes, NEW i, NEW cmd \in {"none", "query", "ok"},
           NEW tid, NEW serial \in 0 .. MaxStarts,
           i \in ProgramIndex => tid \in 0 .. TransactionIds - 1,
           cmd = "none" \/ serial # 0,
           Sent(i, cmd, tid, serial)
    PROVE  ChipTypes'
<1>1. CASE i \in ProgramIndex
  <2>1. [cmd |-> cmd, tid |-> tid, serial |-> serial] \in PmtRecord
    BY <1>1 DEF PmtRecord
  <2> QED
    BY <1>1, <2>1 DEF Sent, ChipTypes
<1>2. CASE i \notin ProgramIndex
  BY <1>2 DEF Sent, ChipTypes
<1> QED
  BY <1>1, <1>2

LEMMA NextTid ==
    ASSUME TableTypes, NEW i \in DOMAIN rows
    PROVE  /\ i \in ProgramIndex /\ rows[i] \in RowRecord
           /\ getNextTransactionIdForProgramIndex(i) \in 0 .. TransactionIds - 1
<1>1. i \in ProgramIndex /\ rows[i] \in RowRecord
  BY DEF TableTypes
<1>2. rows[i].tid \in Nat /\ TransactionIds \in Nat \ {0}
  BY <1>1, PodConstants DEF RowRecord
<1>3. \A x \in Nat, n \in Nat \ {0} : (x + 1) % n \in 0 .. n - 1
  OBVIOUS
<1> QED
  BY <1>1, <1>2, <1>3 DEF getNextTransactionIdForProgramIndex

LEMMA IpcTypes ==
    ASSUME Types, NEW s \in Sources, Ipc(s) \/ Forget(s)
    PROVE  Types'
<1>1. CASE StartRefused(s)
  BY <1>1, StartingTypes, FrameTypes DEF StartRefused, server, Types, table
<1>2. CASE StartWaits(s)
  <2>1. PICK a \in Requests : /\ req' = [req EXCEPT ![a] = NewRequest(s, "WAITING", NoIndex)]
                             /\ Returns(s, a, {"lost"})
    BY <1>2 DEF StartWaits
  <2>2. Starting(s) /\ UNCHANGED <<rows, used, server, chip, wire, apdu>>
    BY <1>2 DEF StartWaits
  <2>3. TableTypes' /\ ListedSerials'
    BY <2>1, <2>2, StartingTypes DEF Types, TableTypes, ListedSerials, Listed
  <2>4. ClientTypes' /\ CountTypes'
    BY <2>1, <2>2, StartingTypes, ReturnsTypes DEF SessionEvents
  <2> QED
    BY <2>2, <2>3, <2>4, FrameTypes DEF server, Types
<1>3. CASE StartCommits(s)
  <2> DEFINE i == getNextAvailableProgramIndexTableRow
             tid == getNextTransactionIdForProgramIndex(i)
             cmd == IF s \in Querying THEN "query" ELSE "ok"
             state == IF s \in Querying THEN "ISSUED_QUERY" ELSE "DESCRAMBLING"
  <2>1. PICK a \in Requests :
           /\ req' = [req EXCEPT ![a] = NewRequest(s, "ACTIVE", i)]
           /\ Sent(i, cmd, tid, count.starts + 1)
           /\ commitProgramIndexTableRow(i, tid, cmd, state, Streams[s])
           /\ Returns(s, a, IF s \in Querying THEN {} ELSE {"authorized"})
    BY <1>3 DEF StartCommits
  <2>2. Starting(s) /\ UNCHANGED <<server, wire, apdu>>
    BY <1>3 DEF StartCommits
  <2>3. (i \in DOMAIN rows /\ i \in ProgramIndex) \/ i = NoIndex
    BY AvailableRow DEF Types
  <2>4. i \in ProgramIndex => i \in DOMAIN rows /\ tid \in 0 .. TransactionIds - 1
    BY <2>3, NextTid, PodConstants DEF Types, ProgramIndex, NoIndex
  <2> HIDE DEF i, tid
  <2>5. used' \in [programs : Nat, streams : Nat]
    BY <2>1, PodConstants DEF commitProgramIndexTableRow, Types, TableTypes
  <2>6. rows' = <<>> \/ rows' \in [ProgramIndex -> RowRecord]
    <3>1. CASE i \in ProgramIndex
      <4>1. rows \in [ProgramIndex -> RowRecord]
        BY <2>4, <3>1 DEF Types, TableTypes
      <4>2. [state |-> state, tid |-> tid, cmd |-> cmd, streams |-> Streams[s]] \in RowRecord
        BY <2>4, <3>1, PodConstants DEF RowRecord, RowStates
      <4> QED
        BY <2>1, <4>1, <4>2 DEF commitProgramIndexTableRow
    <3>2. CASE i \notin ProgramIndex
      <4>1. rows \in [ProgramIndex -> RowRecord]
        BY <1>3 DEF StartCommits, checkAvailableResources, Types, TableTypes
      <4> QED
        BY <2>1, <3>2, <4>1 DEF commitProgramIndexTableRow
    <3> QED
      BY <3>1, <3>2
  <2>7. DOMAIN rows' = DOMAIN rows
    BY <2>1 DEF commitProgramIndexTableRow
  <2>8. TableTypes' /\ ListedSerials'
    BY <2>1, <2>2, <2>3, <2>5, <2>6, StartingTypes DEF Types, TableTypes, ListedSerials, Listed
  <2>9. ChipTypes'
    <3>1. count.starts + 1 \in 1 .. MaxStarts
      BY <2>2, StartingTypes
    <3>2. cmd \in {"none", "query", "ok"} /\ count.starts + 1 \in 0 .. MaxStarts /\ count.starts + 1 # 0
      BY <3>1, PodConstants
    <3> HIDE DEF cmd
    <3> QED
      BY <2>1, <2>4, <3>2, SentTypes DEF Types
  <2>10. ClientTypes' /\ CountTypes'
    BY <2>1, <2>2, StartingTypes, ReturnsTypes DEF SessionEvents
  <2>11. LockedRow'
    BY <2>2, <2>7 DEF Types, LockedRow
  <2> QED
    BY <2>2, <2>8, <2>9, <2>10, <2>11, FrameTypes DEF server, Types
<1>4. CASE StartFails(s)
  <2> DEFINE i == getNextAvailableProgramIndexTableRow
  <2>1. PICK a \in Requests : req' = [req EXCEPT ![a] = NewRequest(s, "UNKNOWN", i)] /\ ipc' = a
    BY <1>4 DEF StartFails
  <2>2. /\ Starting(s)
        /\ UNCHANGED <<rows, used, isReady, cas, card, evq, handler, chip, wire, apdu, client>>
    BY <1>4 DEF StartFails
  <2>3. i \in ProgramIndex \cup {NoIndex}
    BY AvailableRow DEF Types
  <2> HIDE DEF i
  <2>4. TableTypes' /\ ListedSerials' /\ CountTypes'
    BY <2>1, <2>2, <2>3, StartingTypes DEF Types, TableTypes, ListedSerials, Listed
  <2>5. ServerTypes'
    BY <2>1, <2>2 DEF Types, ServerTypes
  <2> QED
    BY <2>2, <2>4, <2>5, FrameTypes DEF Types
<1>5. ASSUME Stopping(s)
      PROVE  session' \in [Sources -> SessionRecord]
  BY <1>5, PodConstants DEF Stopping, Types, ClientTypes, SessionRecord, NoSession
<1>6. CASE StopUnknown(s)
  <2>1. ClientTypes'
    BY <1>5, <1>6 DEF StopUnknown, Types, ClientTypes
  <2> QED
    BY <1>6, <2>1, FrameTypes DEF StopUnknown, Types, server, table
<1>7. CASE StopWaiting(s)
  <2>1. ClientTypes'
    BY <1>5, <1>7 DEF StopWaiting, Types, ClientTypes
  <2>2. TableTypes' /\ ListedSerials'
    BY <1>7, PodConstants DEF StopWaiting, Types, TableTypes, ListedSerials, Listed, Freed,
       RequestRecord
  <2> QED
    BY <1>7, <2>1, <2>2, FrameTypes DEF StopWaiting, Types, server
<1>8. CASE StopActive(s)
  <2> DEFINE a == session[s].handle
             i == req[a].idx
             tid == getNextTransactionIdForProgramIndex(i)
  <2>1. /\ Stopping(s) /\ a \in Listed /\ i \in DOMAIN rows /\ req' = [req EXCEPT ![a] = Freed]
        /\ \/ Sent(i, "none", tid, 0) /\ releaseProgramIndexRow(i, tid)
           \/ UNCHANGED <<rows, used, chip>>
        /\ UNCHANGED <<server, wire, apdu, told, count>>
    BY <1>8 DEF StopActive
  <2>2. i \in ProgramIndex /\ rows[i] \in RowRecord /\ tid \in 0 .. TransactionIds - 1
    BY <2>1, NextTid DEF Types
  <2>3. ClientTypes'
    BY <1>5, <2>1 DEF Types, ClientTypes
  <2> HIDE DEF tid
  <2>4. req' \in [Requests -> RequestRecord] /\ ListedSerials'
    BY <2>1, PodConstants DEF Types, TableTypes, ListedSerials, Listed, Freed, RequestRecord
  <2>5. /\ rows' = <<>> \/ rows' \in [ProgramIndex -> RowRecord]
        /\ used' \in [programs : Nat, streams : Nat] /\ ChipTypes' /\ DOMAIN rows' = DOMAIN rows
    <3>1. CASE UNCHANGED <<rows, used, chip>>
      BY <3>1 DEF Types, TableTypes, ChipTypes
    <3>2. CASE Sent(i, "none", tid, 0) /\ releaseProgramIndexRow(i, tid)
      <4>1. IdleRow(tid) \in RowRecord
        BY <2>2 DEF IdleRow, RowRecord, RowStates
      <4>2. rows \in [ProgramIndex -> RowRecord] /\ used \in [programs : Nat, streams : Nat]
            /\ rows[i].streams \in Nat
        BY <2>1, <2>2 DEF Types, TableTypes, RowRecord
      <4>3. rows' \in [ProgramIndex -> RowRecord] /\ DOMAIN rows' = DOMAIN rows
        BY <3>2, <4>1, <4>2 DEF releaseProgramIndexRow
      <4>4. used' \in [programs : Nat, streams : Nat]
        BY <3>2, <4>2 DEF releaseProgramIndexRow
      <4>5. ChipTypes'
        BY <2>2, <3>2, SentTypes, PodConstants DEF Types
      <4> QED
        BY <4>3, <4>4, <4>5
    <3> QED
      BY <2>1, <3>1, <3>2
  <2>6. TableTypes' /\ LockedRow'
    BY <2>1, <2>4, <2>5 DEF TableTypes, Types, LockedRow
  <2> QED
    BY <2>1, <2>3, <2>4, <2>5, <2>6, FrameTypes DEF Types, server
<1>9. CASE Forget(s)
  <2>1. ClientTypes'
    BY <1>9, PodConstants DEF Forget, Types, ClientTypes, SessionRecord, NoSession
  <2> QED
    BY <1>9, <2>1, FrameTypes DEF Forget, Types, server, table
<1> QED
  BY <1>1, <1>2, <1>3, <1>4, <1>6, <1>7, <1>8, <1>9 DEF Ipc

LEMMA CleansUpTypes ==
    ASSUME Types, StartCleansUp
    PROVE  Types'
<1>1. /\ UNCHANGED <<rows, used, isReady, cas, card, evq, handler, chip, wire, apdu, client, count>>
      /\ ipc' = NULL
  BY DEF StartCleansUp
<1>2. TableTypes' /\ ListedSerials'
  <2>1. Freed \in RequestRecord /\ Freed.state = "free"
    BY PodConstants DEF Freed, RequestRecord
  <2>2. req \in [Requests -> RequestRecord] /\ req' = [req EXCEPT ![ipc] = Freed] /\ ipc \in Requests
    BY DEF StartCleansUp, Types, TableTypes, ServerTypes
  <2>3. \A a \in Listed' : a \in Listed /\ req'[a] = req[a]
    BY <2>1, <2>2 DEF Listed
  <2>4. req' \in [Requests -> RequestRecord]
    BY <2>1, <2>2
  <2> QED
    BY <1>1, <2>3, <2>4 DEF Types, TableTypes, ListedSerials
<1>3. ServerTypes'
  BY <1>1 DEF Types, ServerTypes
<1> QED
  BY <1>1, <1>2, <1>3, FrameTypes DEF Types

\* A step of the APDU thread for a row leaves the table with the same rows.
LEMMA RowWritten ==
    ASSUME TableTypes, NEW i \in DOMAIN rows, NEW state \in RowStates,
           NEW cmd \in {"none", "query", "ok"}, NEW tid \in 0 .. TransactionIds - 1,
           \/ rows' = [rows EXCEPT ![i].state = state]
           \/ rows' = [rows EXCEPT ![i].state = state, ![i].cmd = cmd]
           \/ rows' = [rows EXCEPT ![i].state = state, ![i].cmd = cmd, ![i].tid = tid]
    PROVE  rows' \in [ProgramIndex -> RowRecord] /\ DOMAIN rows' = DOMAIN rows
<1>1. rows \in [ProgramIndex -> RowRecord] /\ i \in ProgramIndex
  BY DEF TableTypes
<1>2. CASE rows' = [rows EXCEPT ![i].state = state]
  BY <1>1, <1>2 DEF RowRecord
<1>3. CASE rows' = [rows EXCEPT ![i].state = state, ![i].cmd = cmd]
  BY <1>1, <1>3 DEF RowRecord
<1>4. CASE rows' = [rows EXCEPT ![i].state = state, ![i].cmd = cmd, ![i].tid = tid]
  BY <1>1, <1>4 DEF RowRecord
<1> QED
  BY <1>2, <1>3, <1>4

LEMMA TellTypes ==
    ASSUME ClientTypes, NEW ev \in SessionEvents, NEW i, sendEventImpl(ev, i)
    PROVE  told' \in [Sources -> SUBSET (SessionEvents \cup {"REMOVED"})]
<1>1. told \in [Sources -> SUBSET (SessionEvents \cup {"REMOVED"})]
  BY DEF ClientTypes
<1>2. CASE UNCHANGED told
  BY <1>1, <1>2
<1>3. CASE \E a \in SessionsOf(i) : told' = [told EXCEPT ![req[a].owner] = @ \cup {ev}]
  <2>1. PICK x : told' = [told EXCEPT ![x] = @ \cup {ev}]
    BY <1>3
  <2> QED
    BY <1>1, <2>1
<1> QED
  BY <1>2, <1>3 DEF sendEventImpl

\* The new state of a row, the CA_PMT for it and the event: handleCaEnable.
LEMMA EnableTypes ==
    ASSUME Types, handleCaEnable
    PROVE  /\ rows' \in [ProgramIndex -> RowRecord] /\ DOMAIN rows' = DOMAIN rows
           /\ ChipTypes' /\ told' \in [Sources -> SUBSET (SessionEvents \cup {"REMOVED"})]
<1> DEFINE i == apdu.m.idx
           tid == getNextTransactionIdForProgramIndex(i)
<1>1. apdu.stage = "locked" /\ i \in DOMAIN rows
  BY DEF handleCaEnable, Types, LockedRow
<1>2. rows \in [ProgramIndex -> RowRecord] /\ tid \in 0 .. TransactionIds - 1 /\ i \in ProgramIndex
  BY <1>1, NextTid DEF Types, TableTypes
<1>3. ClientTypes /\ TableTypes /\ ChipTypes /\ told \in [Sources -> SUBSET (SessionEvents \cup {"REMOVED"})]
  BY DEF Types, ClientTypes
<1>4. {"authorized", "failed"} \subseteq SessionEvents
      /\ {"DESCRAMBLING", "ISSUED_MMI", "FAILED_DESCRAMBLING"} \subseteq RowStates
  BY DEF SessionEvents, RowStates
<1>5. UNCHANGED chip => ChipTypes'
  BY <1>3, FrameTypes
<1>6. ASSUME NEW state \in RowStates, Descramble(i, state)
      PROVE  /\ rows' \in [ProgramIndex -> RowRecord] /\ DOMAIN rows' = DOMAIN rows /\ ChipTypes'
  <2>1. PICK a \in SessionsOf(i) : Sent(i, "ok", tid, req[a].serial)
    BY <1>6 DEF Descramble
  <2>2. req[a].serial \in 0 .. MaxStarts /\ req[a].serial # 0
    BY <2>1 DEF SessionsOf, Listed, Types, ListedSerials, TableTypes, RequestRecord
  <2>3. rows' = [rows EXCEPT ![i].state = state, ![i].cmd = "ok", ![i].tid = tid]
    BY <1>6 DEF Descramble
  <2> HIDE DEF i, tid
  <2>4. ChipTypes'
    BY <1>2, <1>3, <2>1, <2>2, SentTypes
  <2> QED
    BY <1>1, <1>2, <1>3, <2>3, <2>4, RowWritten, ZenonT(60)
<1>7. CASE UNCHANGED <<rows, chip, told>>
  BY <1>2, <1>3, <1>5, <1>7
<1>8. CASE /\ rows' = [rows EXCEPT ![i].state = "DESCRAMBLING"]
           /\ UNCHANGED chip /\ sendEventImpl("authorized", i)
  <2> HIDE DEF i, tid
  <2> QED
    BY <1>1, <1>2, <1>3, <1>4, <1>5, <1>8, RowWritten, TellTypes
<1>9. CASE \/ Descramble(i, "DESCRAMBLING") /\ sendEventImpl("authorized", i)
           \/ Descramble(i, "ISSUED_MMI") /\ sendEventImpl("failed", i)
  BY <1>3, <1>4, <1>6, <1>9, TellTypes
<1>10. CASE /\ rows' = [rows EXCEPT ![i].state = "FAILED_DESCRAMBLING", ![i].cmd = "none"]
            /\ sendEventImpl("failed", i) /\ UNCHANGED chip
  <2> HIDE DEF i, tid
  <2> QED
    BY <1>1, <1>2, <1>3, <1>4, <1>5, <1>10, RowWritten, TellTypes
<1> QED
  BY <1>7, <1>8, <1>9, <1>10 DEF handleCaEnable

LEMMA ApduThreadTypes ==
    ASSUME Types, Apdu
    PROVE  Types'
<1>0. wire \in Seq(Apdus) /\ ApduTypes
  BY DEF Types, ApduTypes
<1>1. CASE ApduReceive
  <2>1. wire' \in Seq(Apdus) /\ Head(wire) \in Apdus
    BY <1>0, <1>1 DEF ApduReceive
  <2>2. apdu' = NoApdu \/ apdu' \in [stage : {"checked"}, m : Apdus]
    BY <1>1, <2>1 DEF ApduReceive
  <2>3. ApduTypes' /\ LockedRow'
    BY <2>1, <2>2 DEF ApduTypes, LockedRow, NoApdu
  <2> QED
    BY <1>1, <2>3, FrameTypes DEF ApduReceive, Types, server
<1>2. CASE ApduValidate
  <2>1. apdu.m \in Apdus
    BY <1>0, <1>2 DEF ApduValidate, ApduTypes, NoApdu
  <2>2. CASE apdu' = NoApdu
    BY <1>0, <1>2, <2>2, FrameTypes DEF ApduValidate, Types, server, ApduTypes, LockedRow, NoApdu
  <2>3. CASE apdu' # NoApdu
    <3>1. PICK n \in 1 .. 2 : apdu' = [stage |-> "locked", m |-> apdu.m, left |-> n]
      BY <1>2, <2>3 DEF ApduValidate
    <3>2. apdu.m.idx \in DOMAIN rows
      BY <1>2, <2>3 DEF ApduValidate, isValidReply, isValidUpdate
    <3>3. ApduTypes' /\ LockedRow'
      BY <1>0, <1>2, <2>1, <3>1, <3>2 DEF ApduValidate, ApduTypes, LockedRow, table
    <3> QED
      BY <1>2, <3>3, FrameTypes DEF ApduValidate, Types, server
  <2> QED
    BY <2>2, <2>3
<1>3. CASE handleCaEnable
  <2>1. /\ apdu.stage = "locked" /\ UNCHANGED <<used, req, server, wire, session, count>>
        /\ apdu' = IF apdu.left = 1 THEN NoApdu
                   ELSE [stage |-> "locked", m |-> apdu.m, left |-> apdu.left - 1]
    BY <1>3 DEF handleCaEnable
  <2>2. apdu \in [stage : {"locked"}, m : Apdus, left : 1 .. 2]
    BY <1>0, <2>1 DEF ApduTypes, NoApdu
  <2>3. ApduTypes'
    BY <1>0, <2>1, <2>2 DEF ApduTypes
  <2>4. TableTypes' /\ ListedSerials' /\ ChipTypes' /\ ClientTypes'
    BY <1>3, <2>1, EnableTypes DEF Types, TableTypes, ListedSerials, Listed, ClientTypes
  <2>5. LockedRow'
    BY <1>3, <2>1, EnableTypes DEF Types, LockedRow, NoApdu
  <2> QED
    BY <2>1, <2>3, <2>4, <2>5, FrameTypes DEF Types, server
<1> QED
  BY <1>1, <1>2, <1>3 DEF Apdu

LEMMA CardStepTypes ==
    ASSUME Types, Card
    PROVE  Types'
<1>0. /\ card \in CardRecord /\ chip \in [ProgramIndex -> PmtRecord] /\ wire \in Seq(Apdus)
      /\ ServerTypes /\ CardTypes /\ ChipTypes /\ ApduTypes
  BY DEF Types, CardTypes, ChipTypes, ApduTypes
<1>1. CASE CardInserted
  <2>1. CardTypes'
    <3>1. card' = [card EXCEPT !.present = TRUE, !.n = @ + 1, !.open = {}] /\ card.n < MaxCards
      BY <1>1 DEF CardInserted
    <3>2. card.n + 1 \in 0 .. MaxCards /\ card.n + 1 # 0
      BY <1>0, <3>1, PodConstants DEF CardRecord
    <3>3. card' \in CardRecord /\ card'.n = card.n + 1
      BY <1>0, <3>1, <3>2 DEF CardRecord
    <3> QED
      BY <3>2, <3>3 DEF CardTypes
  <2>2. ChipTypes'
    BY <1>1, PodConstants DEF CardInserted, ChipTypes, PmtRecord, NoPmt
  <2> QED
    BY <1>1, <2>1, <2>2, FrameTypes DEF CardInserted, CardStep, Types, table
<1>2. ASSUME NEW ev \in CardEvents, Posts(ev)
      PROVE  evq' \in Seq(CardEvents)
  BY <1>0, <1>2 DEF Posts, ServerTypes
<1>3. CASE CardBecomesReady
  <2>1. isReady' = TRUE /\ Posts("READY") /\ UNCHANGED <<table, cas, handler, ipc, apdu, client, count, card, chip, wire>>
    BY <1>3 DEF CardBecomesReady, CardStep
  <2>2. isReady' \in BOOLEAN /\ evq' \in Seq(CardEvents)
    <3>1. evq' \in Seq(CardEvents)
      BY <1>2, <2>1 DEF CardEvents
    <3> QED
      BY <2>1, <3>1, Zenon
  <2>3. ServerTypes'
    BY <1>0, <2>1, <2>2 DEF ServerTypes
  <2> QED
    BY <2>1, <2>3, FrameTypes DEF Types, table
<1>4. ASSUME NEW r \in {"cardres", "ca"}, CardOpens(r)
      PROVE  Types'
  <2>1. /\ card' = [card EXCEPT !.open = @ \cup {r}, !.flags = card.flags \cup {r}]
        /\ Posts("CA_SYSTEM_READY") \/ UNCHANGED evq
        /\ UNCHANGED <<table, cas, handler, ipc, apdu, client, count, isReady, chip, wire>>
    BY <1>4 DEF CardOpens, CardStep
  <2>2. evq' \in Seq(CardEvents)
    BY <1>0, <1>2, <2>1 DEF CardEvents, ServerTypes
  <2>3. ServerTypes'
    BY <1>0, <2>1, <2>2 DEF ServerTypes
  <2>4. CardTypes'
    BY <1>0, <2>1 DEF CardTypes, CardRecord
  <2> QED
    BY <2>1, <2>3, <2>4, FrameTypes DEF Types, table
<1>5. CASE CardRemoved
  <2>1. /\ isReady' = FALSE /\ Posts("REMOVED") /\ card' = [card EXCEPT !.present = FALSE]
        /\ UNCHANGED <<table, cas, handler, ipc, apdu, client, count, chip, wire>>
    BY <1>5 DEF CardRemoved, CardStep
  <2>2. isReady' \in BOOLEAN
    BY <2>1, Zenon
  <2>3. evq' \in Seq(CardEvents)
    BY <1>2, <2>1 DEF CardEvents
  <2>4. ServerTypes'
    BY <1>0, <2>1, <2>2, <2>3 DEF ServerTypes
  <2>5. CardTypes'
    BY <1>0, <2>1 DEF CardTypes, CardRecord
  <2> QED
    BY <2>1, <2>4, <2>5, FrameTypes DEF Types, table
<1>6. ASSUME NEW i \in ProgramIndex, NEW kind \in {"reply", "update"}, card.present, chip[i].cmd # "none",
             wire' = Append(wire, [kind |-> kind, idx |-> i, tid |-> chip[i].tid,
                                   card |-> card.n, serial |-> chip[i].serial]),
             UNCHANGED apdu
      PROVE  ApduTypes'
  <2>1. [kind |-> kind, idx |-> i, tid |-> chip[i].tid, card |-> card.n, serial |-> chip[i].serial] \in Apdus
    BY <1>0, <1>6, PodConstants DEF Apdus, CardTypes, ChipTypes, CardRecord, PmtRecord
  <2>2. wire' \in Seq(Apdus)
    BY <1>0, <1>6, <2>1
  <2> QED
    BY <1>0, <1>6, <2>2 DEF ApduTypes
<1>7. ASSUME NEW i \in ProgramIndex, CardReplies(i)
      PROVE  Types'
  <2>1. ApduTypes'
    BY <1>6, <1>7 DEF CardReplies, CardStep
  <2>2. ChipTypes'
    BY <1>0, <1>7 DEF CardReplies, ChipTypes, PmtRecord
  <2> QED
    BY <1>7, <2>1, <2>2, FrameTypes DEF CardReplies, CardStep, Types, table
<1>8. ASSUME NEW i \in ProgramIndex, CardUpdates(i)
      PROVE  Types'
  <2>1. ApduTypes'
    BY <1>6, <1>8 DEF CardUpdates
  <2>2. CountTypes'
    <3>1. count \in [starts : 0 .. MaxStarts, updates : 0 .. MaxUpdates] /\ count.updates < MaxUpdates
          /\ count' = [count EXCEPT !.updates = @ + 1]
      BY <1>8 DEF CardUpdates, Types, CountTypes
    <3>2. count.updates + 1 \in 0 .. MaxUpdates
      BY <3>1, PodConstants
    <3> QED
      BY <3>1, <3>2 DEF CountTypes
  <2> QED
    BY <1>8, <2>1, <2>2, FrameTypes DEF CardUpdates, Types, table, server
<1> QED
  BY <1>1, <1>3, <1>4, <1>5, <1>7, <1>8 DEF Card

LEMMA HandlerTypes ==
    ASSUME Types, Handler
    PROVE  Types'
<1>0. /\ isReady \in BOOLEAN /\ cas \in 0 .. MaxCards /\ evq \in Seq(CardEvents)
      /\ ipc \in Requests \cup {NULL} /\ ServerTypes
  BY DEF Types, ServerTypes
<1>1. CASE HandlerAnnounces
  <2>1. evq # <<>> /\ handler' = Head(evq) /\ evq' = Tail(evq)
        /\ UNCHANGED <<table, isReady, cas, card, ipc, chip, wire, apdu, session, count>>
    BY <1>1 DEF HandlerAnnounces
  <2>2. evq' \in Seq(CardEvents) /\ handler' \in CardEvents
    BY <1>0, <2>1
  <2>3. ServerTypes'
    BY <1>0, <2>1, <2>2 DEF ServerTypes
  <2>4. ClientTypes'
    BY <1>1 DEF HandlerAnnounces, Types, ClientTypes
  <2> QED
    BY <2>1, <2>3, <2>4, FrameTypes DEF Types, table
<1>2. CASE HandleReady \/ HandleUnready
  <2>1. /\ UNCHANGED <<table, cas, card, evq, ipc, chip, wire, apdu, client, count>>
    BY <1>2, Zenon DEF HandleReady, HandleUnready
  <2>2. isReady' \in BOOLEAN /\ handler' \in {"wait", "close"}
    BY <1>2, Zenon DEF HandleReady, HandleUnready
  <2>3. ServerTypes'
    BY <1>0, <2>1, <2>2 DEF ServerTypes
  <2> QED
    BY <2>1, <2>3, FrameTypes DEF Types, table
<1>3. CASE HandleCaSystemReady
  <2>1. /\ rows' = (IF rows = <<>> THEN [i \in ProgramIndex |-> IdleRow(0)] ELSE rows)
        /\ handler' = "connect"
        /\ UNCHANGED <<used, req, isReady, cas, card, evq, ipc, chip, wire, apdu, client, count>>
    BY <1>3 DEF HandleCaSystemReady
  <2>2. IdleRow(0) \in RowRecord
    BY PodConstants DEF IdleRow, RowRecord, RowStates
  <2>3. TableTypes' /\ ListedSerials'
    BY <2>1, <2>2 DEF Types, TableTypes, ListedSerials, Listed
  <2>4. ServerTypes'
    BY <1>0, <2>1 DEF ServerTypes
  <2>5. LockedRow'
    BY <1>3, <2>1 DEF HandleCaSystemReady, MutexFree, LockedRow
  <2> QED
    BY <2>1, <2>3, <2>4, <2>5, FrameTypes DEF Types
<1>4. CASE HandleConnect
  <2>1. cas' \in {0, card.n} /\ handler' = "wait"
        /\ UNCHANGED <<table, isReady, card, evq, ipc, chip, wire, apdu, client, count>>
    BY <1>4 DEF HandleConnect
  <2>2. cas' \in 0 .. MaxCards
    BY <2>1, PodConstants DEF Types, CardTypes, CardRecord
  <2>3. ServerTypes'
    BY <1>0, <2>1, <2>2 DEF ServerTypes
  <2> QED
    BY <2>1, <2>3, FrameTypes DEF Types, table
<1>5. CASE HandleRemoved
  <2>1. /\ rows' = <<>> /\ used' = [programs |-> 0, streams |-> 0] /\ handler' = "unready"
        /\ req' = [a \in Requests |->
                     IF a \in Suspended \/ req[a].idx = NoIndex THEN Freed ELSE req[a]]
        /\ UNCHANGED <<isReady, cas, card, evq, ipc, chip, wire, apdu, session, count>>
    BY <1>5 DEF HandleRemoved
  <2>2. Freed \in RequestRecord /\ Freed.state = "free"
    BY PodConstants DEF Freed, RequestRecord
  <2>3. TableTypes' /\ ListedSerials'
    BY <2>1, <2>2 DEF Types, TableTypes, ListedSerials, Listed
  <2>4. ClientTypes'
    BY <1>5 DEF HandleRemoved, Types, ClientTypes, SessionEvents
  <2>5. ServerTypes'
    BY <1>0, <2>1 DEF ServerTypes
  <2>6. LockedRow'
    BY <1>5, <2>1 DEF HandleRemoved, MutexFree, LockedRow
  <2> QED
    BY <2>1, <2>3, <2>4, <2>5, <2>6, FrameTypes DEF Types
<1>6. CASE HandleClose
  <2>1. cas' = 0 /\ handler' = "wait"
        /\ UNCHANGED <<table, isReady, card, evq, ipc, chip, wire, apdu, client, count>>
    BY <1>6 DEF HandleClose
  <2>2. ServerTypes'
    BY <1>0, <2>1, PodConstants DEF ServerTypes
  <2> QED
    BY <2>1, <2>2, FrameTypes DEF Types, table
<1> QED
  BY <1>1, <1>2, <1>3, <1>4, <1>5, <1>6 DEF Handler

LEMMA TypesStep == Types /\ [Next]_vars => Types'
<1> SUFFICES ASSUME Types, [Next]_vars
             PROVE  Types'
  OBVIOUS
<1>1. CASE UNCHANGED vars
  BY <1>1, FrameTypes DEF vars, Types, table, server, client
<1> QED
  BY <1>1, IpcTypes, CleansUpTypes, ApduThreadTypes, CardStepTypes, HandlerTypes DEF Next

\* Every variable of the session server, the card and the sources keeps its type: an
\* index is one of the table or 255, a transaction id is below its limit, an APDU
\* carries the serial of a start and the number of a card.
THEOREM PodTypes == Spec => []TypeOK
<1>1. Spec => []Types
  BY InitTypes, TypesStep, PTL DEF Spec
<1>2. Types => TypeOK
  BY TypesAre
<1> QED
  BY <1>1, <1>2, PTL

-----------------------------------------------------------------------------
(* The counters and the rows in use.                                       *)

\* The streams of a row, told from those of other rows.
RowStreams(i, n) == {i} \X (1 .. n)

LEMMA RowStreamsCount ==
    ASSUME NEW i, NEW n \in Nat
    PROVE  IsFiniteSet(RowStreams(i, n)) /\ Cardinality(RowStreams(i, n)) = n
<1>1. IsFiniteSet(1 .. n) /\ Cardinality(1 .. n) = n
  BY FS_Interval
<1>2. IsFiniteSet({i}) /\ Cardinality({i}) = 1
  BY FS_Singleton
<1> QED
  BY <1>1, <1>2, FS_Product DEF RowStreams

LEMMA RowsFinite ==
    ASSUME TableTypes
    PROVE  /\ IsFiniteSet(ActiveRows) /\ IsFiniteSet(StreamsInUse)
           /\ IsFiniteSet(ProgramIndex) /\ Cardinality(ProgramIndex) = MaxPrograms
           /\ ActiveRows \subseteq ProgramIndex
           /\ \A i \in ActiveRows : rows[i].streams \in Nat
<1>1. IsFiniteSet(ProgramIndex) /\ Cardinality(ProgramIndex) = MaxPrograms
  <2>1. MaxPrograms \in Int /\ MaxPrograms - 1 \in Int /\ 0 <= MaxPrograms - 1
    BY PodConstants
  <2>2. /\ IsFiniteSet(0 .. MaxPrograms - 1)
        /\ Cardinality(0 .. MaxPrograms - 1) = (MaxPrograms - 1) - 0 + 1
    BY <2>1, FS_Interval
  <2> QED
    BY <2>1, <2>2 DEF ProgramIndex
<1>2. ActiveRows \subseteq ProgramIndex /\ \A i \in ActiveRows : rows[i].streams \in Nat
  BY DEF ActiveRows, TableTypes, RowRecord
<1>3. IsFiniteSet(ActiveRows)
  BY <1>1, <1>2, FS_Subset
<1>4. IsFiniteSet(StreamsInUse)
  <2> DEFINE parts == {RowStreams(i, rows[i].streams) : i \in ActiveRows}
  <2>1. IsFiniteSet(parts)
    <3> DEFINE f == [i \in ActiveRows |-> RowStreams(i, rows[i].streams)]
    <3>1. f \in Surjection(ActiveRows, parts)
      BY DEF Surjection
    <3> HIDE DEF f, parts
    <3> QED
      BY <1>3, <3>1, FS_Surjection
  <2>2. \A x \in parts : IsFiniteSet(x)
    BY <1>2, RowStreamsCount
  <2>3. StreamsInUse = UNION parts
    BY DEF StreamsInUse, RowStreams
  <2> HIDE DEF parts
  <2> QED
    BY <2>1, <2>2, <2>3, FS_UNION
<1> QED
  BY <1>1, <1>2, <1>3, <1>4

\* Steps that neither take nor give back a row keep the accounts.
LEMMA AccountsKept ==
    ASSUME RowsAccounted, UNCHANGED used, ActiveRows' = ActiveRows,
           \A i \in ActiveRows : rows'[i].streams = rows[i].streams
    PROVE  RowsAccounted'
<1>1. StreamsInUse' = StreamsInUse
  BY DEF StreamsInUse
<1> QED
  BY <1>1 DEF RowsAccounted

\* A start that passes checkAvailableResources finds a row.
LEMMA CheckedRow ==
    ASSUME TableTypes, RowsAccounted, NEW s \in Sources, checkAvailableResources(s)
    PROVE  /\ getNextAvailableProgramIndexTableRow \in DOMAIN rows \ ActiveRows
           /\ rows \in [ProgramIndex -> RowRecord]
<1>1. rows \in [ProgramIndex -> RowRecord]
  BY DEF checkAvailableResources, TableTypes
<1>2. Cardinality(ActiveRows) < MaxPrograms
  BY RowsFinite, FS_CardinalityType, PodConstants DEF checkAvailableResources, RowsAccounted
<1>3. DOMAIN rows \ ActiveRows # {}
  <2>1. ActiveRows # ProgramIndex
    BY <1>2, RowsFinite, PodConstants
  <2> QED
    BY <1>1, <2>1, RowsFinite
<1> QED
  BY <1>1, <1>3, AvailableRow

\* The rows in use after commitProgramIndexTableRow, and after releaseProgramIndexRow.
LEMMA CommitAccounts ==
    ASSUME TableTypes, RowsAccounted, NEW i \in DOMAIN rows, i \notin ActiveRows, NEW tid, NEW cmd,
           NEW state, state # "NOT_SELECTED", NEW streams \in Nat,
           commitProgramIndexTableRow(i, tid, cmd, state, streams)
    PROVE  ActiveRows' = ActiveRows \cup {i} /\ RowsAccounted'
<1>1. rows \in [ProgramIndex -> RowRecord] /\ used \in [programs : Nat, streams : Nat]
  BY DEF TableTypes
<1>2. /\ rows'[i] = [state |-> state, tid |-> tid, cmd |-> cmd, streams |-> streams]
      /\ \A j \in DOMAIN rows : j # i => rows'[j] = rows[j]
      /\ DOMAIN rows' = DOMAIN rows
  BY <1>1 DEF commitProgramIndexTableRow
<1>3. ActiveRows' = ActiveRows \cup {i}
  BY <1>2 DEF ActiveRows
<1>4. Cardinality(ActiveRows') = Cardinality(ActiveRows) + 1
  BY <1>3, RowsFinite, FS_AddElement
<1>5. StreamsInUse' = StreamsInUse \cup RowStreams(i, streams)
  <2>1. \A j \in ActiveRows : rows'[j].streams = rows[j].streams
    BY <1>2 DEF ActiveRows
  <2>2. rows'[i].streams = streams
    BY <1>2
  <2> QED
    BY <1>3, <2>1, <2>2 DEF StreamsInUse, RowStreams
<1>6. StreamsInUse \cap RowStreams(i, streams) = {}
  BY DEF StreamsInUse, RowStreams
<1>7. Cardinality(StreamsInUse') = Cardinality(StreamsInUse) + streams
  <2>1. Cardinality(StreamsInUse') =
          Cardinality(StreamsInUse) + Cardinality(RowStreams(i, streams)) - Cardinality({})
    BY <1>5, <1>6, RowsFinite, RowStreamsCount, FS_Union
  <2> QED
    BY <2>1, FS_EmptySet, RowStreamsCount, RowsFinite, FS_CardinalityType
<1> QED
  BY <1>1, <1>3, <1>4, <1>7 DEF RowsAccounted, commitProgramIndexTableRow

LEMMA ReleaseAccounts ==
    ASSUME TableTypes, RowsAccounted, NEW i \in ActiveRows, NEW tid, releaseProgramIndexRow(i, tid)
    PROVE  ActiveRows' = ActiveRows \ {i} /\ RowsAccounted'
<1> DEFINE n == rows[i].streams
<1>1. rows \in [ProgramIndex -> RowRecord] /\ used \in [programs : Nat, streams : Nat] /\ n \in Nat
  BY RowsFinite DEF TableTypes, ActiveRows
<1>2. /\ rows'[i] = IdleRow(tid) /\ DOMAIN rows' = DOMAIN rows
      /\ \A j \in DOMAIN rows : j # i => rows'[j] = rows[j]
  BY <1>1 DEF releaseProgramIndexRow, ActiveRows
<1>3. ActiveRows' = ActiveRows \ {i}
  BY <1>2 DEF ActiveRows, IdleRow
<1>4. Cardinality(ActiveRows') = Cardinality(ActiveRows) - 1
  BY <1>3, RowsFinite, FS_RemoveElement
<1>5. /\ StreamsInUse = StreamsInUse' \cup RowStreams(i, n)
      /\ StreamsInUse' \cap RowStreams(i, n) = {}
  <2>1. \A j \in ActiveRows' : rows'[j].streams = rows[j].streams
    BY <1>2, <1>3 DEF ActiveRows
  <2>2. StreamsInUse' = UNION {RowStreams(j, rows[j].streams) : j \in ActiveRows \ {i}}
    BY <1>3, <2>1 DEF StreamsInUse, RowStreams
  <2>3. StreamsInUse = UNION {RowStreams(j, rows[j].streams) : j \in ActiveRows}
    BY DEF StreamsInUse, RowStreams
  <2> QED
    BY <2>2, <2>3 DEF RowStreams
<1> HIDE DEF n
<1>6. Cardinality(StreamsInUse) = Cardinality(StreamsInUse') + n
  <2>1. IsFiniteSet(StreamsInUse')
    BY <1>5, RowsFinite, FS_Subset
  <2>2. Cardinality(StreamsInUse) =
          Cardinality(StreamsInUse') + Cardinality(RowStreams(i, n)) - Cardinality({})
    BY <1>1, <1>5, <2>1, RowStreamsCount, FS_Union
  <2> QED
    BY <1>1, <2>1, <2>2, FS_EmptySet, RowStreamsCount, FS_CardinalityType
<1>7. Cardinality(StreamsInUse') \in Nat /\ Cardinality(ActiveRows') \in Nat
  <2>1. IsFiniteSet(StreamsInUse') /\ IsFiniteSet(ActiveRows')
    BY <1>3, <1>5, RowsFinite, FS_Subset
  <2> QED
    BY <2>1, FS_CardinalityType
<1>8. Cardinality(ActiveRows) \in Nat
  BY RowsFinite, FS_CardinalityType
<1>9. used'.programs = Cardinality(ActiveRows')
  BY <1>1, <1>4, <1>7, <1>8 DEF RowsAccounted, releaseProgramIndexRow
<1>10. used'.streams = Cardinality(StreamsInUse')
  BY <1>1, <1>6, <1>7 DEF RowsAccounted, releaseProgramIndexRow, n
<1> QED
  BY <1>3, <1>9, <1>10 DEF RowsAccounted

-----------------------------------------------------------------------------
(* The life of the card.                                                   *)

\* What an event appended to the queue, or taken from it, does to its places.
LEMMA PostPlaces ==
    ASSUME ServerTypes, NEW ev \in CardEvents, Posts(ev)
    PROVE  /\ DOMAIN evq' = DOMAIN evq \cup {Len(evq) + 1}
           /\ Len(evq) + 1 \notin DOMAIN evq /\ Len(evq') = Len(evq) + 1
           /\ \A k \in DOMAIN evq : evq'[k] = evq[k]
           /\ evq'[Len(evq) + 1] = ev
BY AppendProperties, LenProperties DEF ServerTypes, Posts

LEMMA TakePlaces ==
    ASSUME ServerTypes, evq # <<>>, evq' = Tail(evq)
    PROVE  /\ 1 \in DOMAIN evq /\ Head(evq) = evq[1] /\ Len(evq) \in Nat /\ Len(evq') = Len(evq) - 1
           /\ \A k \in DOMAIN evq' : k \in Nat /\ k # 0 /\ k + 1 \in DOMAIN evq /\ evq'[k] = evq[k + 1]
           /\ \A k \in DOMAIN evq : k \in Nat /\ (k = 1 \/ (k - 1 \in DOMAIN evq' /\ evq'[k - 1] = evq[k]))
           /\ Len(evq) = 1 => evq' = <<>>
BY HeadTailProperties, LenProperties, EmptySeq DEF ServerTypes

\* The table is gone exactly when it has no rows.
LEMMA NoTable ==
    TableTypes => /\ rows = <<>> <=> DOMAIN rows = {}
                  /\ rows # <<>> => rows \in [ProgramIndex -> RowRecord] /\ DOMAIN rows = ProgramIndex
                  /\ rows = <<>> => ActiveRows = {}
<1>1. 0 \in ProgramIndex
  BY PodConstants DEF ProgramIndex
<1>2. rows = <<>> => DOMAIN rows = {}
  OBVIOUS
<1> QED
  BY <1>1, <1>2 DEF TableTypes, ActiveRows

LEMMA NoTablePrimed == TableTypes' => (rows' = <<>> <=> DOMAIN rows' = {})
<1>1. 0 \in ProgramIndex
  BY PodConstants DEF ProgramIndex
<1>2. rows' = <<>> => DOMAIN rows' = {}
  OBVIOUS
<1> QED
  BY <1>1, <1>2 DEF TableTypes

\* A step of the IPC or of the APDU thread changes neither the card nor its events,
\* makes no table and deletes none.
LEMMA OtherThreads ==
    ASSUME Types, (\E s \in Sources : Ipc(s) \/ Forget(s)) \/ StartCleansUp \/ Apdu
    PROVE  UNCHANGED <<card, evq, handler, cas>> /\ (rows' = <<>> <=> rows = <<>>)
<1>1. UNCHANGED <<card, evq, handler, cas>>
  <2>1. ASSUME NEW s \in Sources, Ipc(s)
        PROVE  UNCHANGED <<card, evq, handler, cas>>
    BY <2>1 DEF Ipc, StartRefused, StartWaits, StartCommits, StartFails, StopUnknown, StopWaiting,
       StopActive, server
  <2>2. CASE (\E s \in Sources : Forget(s)) \/ StartCleansUp \/ Apdu
    BY <2>2 DEF Forget, StartCleansUp, Apdu, ApduReceive, ApduValidate, handleCaEnable, server
  <2> QED
    BY <2>1, <2>2
<1>2. DOMAIN rows' = DOMAIN rows
  <2>1. ASSUME NEW s \in Sources, Ipc(s)
        PROVE  DOMAIN rows' = DOMAIN rows
    <3>1. CASE StartCommits(s)
      BY <3>1 DEF StartCommits, commitProgramIndexTableRow
    <3>2. CASE StopActive(s)
      BY <3>2 DEF StopActive, releaseProgramIndexRow
    <3> QED
      BY <2>1, <3>1, <3>2 DEF Ipc, StartRefused, StartWaits, StartFails, StopUnknown, StopWaiting, table
  <2>2. CASE handleCaEnable
    BY <2>2, EnableTypes
  <2>3. CASE (\E s \in Sources : Forget(s)) \/ StartCleansUp \/ ApduReceive \/ ApduValidate
    BY <2>3 DEF Forget, StartCleansUp, ApduReceive, ApduValidate, table
  <2> QED
    BY <2>1, <2>2, <2>3 DEF Apdu
<1>3. TableTypes /\ TableTypes'
  <2>1. Types'
    BY IpcTypes, CleansUpTypes, ApduThreadTypes
  <2> QED
    BY <2>1 DEF Types
<1> QED
  BY <1>1, <1>2, <1>3, NoTable, NoTablePrimed

\* A request is freed.
LEMMA FreeRequest ==
    ASSUME TableTypes, NEW a \in Requests, req' = [req EXCEPT ![a] = Freed]
    PROVE  /\ Listed' = Listed \ {a}
           /\ \A b \in Requests : b # a => req'[b] = req[b]
BY DEF TableTypes, Listed, Freed

\* A start lists a request.
LEMMA NewListed ==
    ASSUME TableTypes, NEW a \in Requests, NEW s \in Sources, NEW i \in ProgramIndex \cup {NoIndex},
           NEW state \in {"UNKNOWN", "ACTIVE", "WAITING"},
           req' = [req EXCEPT ![a] = NewRequest(s, state, i)]
    PROVE  /\ Listed' = Listed \cup {a}
           /\ req'[a].state = state /\ req'[a].owner = s /\ req'[a].idx = i
           /\ req'[a].serial = count.starts + 1
           /\ \A b \in Requests : b # a => req'[b] = req[b]
BY DEF TableTypes, Listed, NewRequest

\* Once the removal has been dealt with nothing starts, and no card comes.
LEMMA OverStays ==
    ASSUME OneCard, Types, CardLife, Next, Over
    PROVE  Over'
<1>1. /\ rows = <<>> /\ evq = <<>> /\ ~card.present /\ card.n # 0 /\ card.n \in Nat
      /\ handler \in {"unready", "close", "wait"} /\ Listed \subseteq {ipc}
  BY PodConstants DEF Over, Types, CardTypes, CardRecord
<1>2. \A s \in Sources : ~checkAvailableResources(s)
  BY <1>1 DEF checkAvailableResources
<1>3. ASSUME Listed' \subseteq {ipc'}, UNCHANGED <<card, evq, handler>>, rows' = <<>>
      PROVE  Over'
  BY <1>1, <1>3 DEF Over
<1>4. ASSUME NEW s \in Sources, Ipc(s)
      PROVE  Over'
  <2>1. Listed' \subseteq {ipc'}
    <3>1. CASE StartRefused(s) \/ StopUnknown(s)
      BY <1>1, <3>1 DEF StartRefused, StopUnknown, server, table, Listed
    <3>2. CASE StopWaiting(s)
      BY <1>1, <3>2, FreeRequest DEF StopWaiting, server, Listed, Types
    <3> QED
      BY <1>1, <1>2, <1>4, <3>1, <3>2 DEF Ipc, StartWaits, StartCommits, StartFails, StopActive
  <2> QED
    BY <1>1, <1>3, <1>4, <2>1, OtherThreads
<1>5. CASE \E s \in Sources : Forget(s)
  BY <1>1, <1>3, <1>5 DEF Forget, server, table, Listed
<1>6. CASE StartCleansUp
  <2>1. Listed' \subseteq {ipc'}
    BY <1>1, <1>6, FreeRequest DEF StartCleansUp, Types, ServerTypes
  <2> QED
    BY <1>1, <1>3, <1>6, <2>1 DEF StartCleansUp
<1>7. CASE Apdu
  <2>1. UNCHANGED <<req, ipc>>
    BY <1>7 DEF Apdu, ApduReceive, ApduValidate, handleCaEnable, server, table
  <2> QED
    BY <1>1, <1>3, <1>7, <2>1, OtherThreads DEF Listed
<1>8. CASE Card
  <2>1. ~CardInserted
    BY <1>1, PodConstants DEF CardInserted, OneCard
  <2> QED
    BY <1>1, <1>8, <2>1 DEF Card, CardBecomesReady, CardRemoved, CardOpens, CardReplies, CardUpdates
<1>9. CASE Handler
  <2>1. HandleUnready \/ HandleClose
    BY <1>1, <1>9 DEF Handler, HandlerAnnounces, HandleReady, HandleCaSystemReady, HandleConnect,
       HandleRemoved
  <2> QED
    BY <1>1, <2>1 DEF HandleUnready, HandleClose, table, Over, Listed
<1> QED
  BY <1>4, <1>5, <1>6, <1>7, <1>8, <1>9 DEF Next

\* What the removal leaves: the request the IPC thread has yet to take off.
LEMMA RemovalEmpties ==
    ASSUME Types, Holders, HandleRemoved
    PROVE  Listed' \subseteq {ipc}
<1>1. /\ req' = [a \in Requests |->
                   IF a \in Suspended \/ req[a].idx = NoIndex THEN Freed ELSE req[a]]
  BY DEF HandleRemoved
<1>2. ASSUME NEW a \in Listed, a # ipc
      PROVE  a \in Suspended \/ req[a].idx = NoIndex
  BY <1>2 DEF Holders, Suspended
<1>3. \A a \in Listed' : a \in Listed /\ ~(a \in Suspended \/ req[a].idx = NoIndex)
  BY <1>1 DEF Listed, Freed
<1> QED
  BY <1>2, <1>3

LEMMA CardLifeStep ==
    ASSUME OneCard, Types, CardLife, Holders, Next
    PROVE  CardLife'
<1>0. /\ Over => Over'
      /\ card \in CardRecord /\ (card.present => card.n # 0) /\ ServerTypes
      /\ handler \in {"wait", "connect", "unready", "close", "READY", "CA_SYSTEM_READY", "REMOVED"}
  BY OverStays DEF Types, CardTypes, ServerTypes, CardEvents
<1>1. ASSUME UNCHANGED <<card, evq, handler>>, rows' = <<>> <=> rows = <<>>
      PROVE  CardLife'
  BY <1>0, <1>1 DEF CardLife, Queued
<1>2. CASE (\E s \in Sources : Ipc(s) \/ Forget(s)) \/ StartCleansUp \/ Apdu
  BY <1>1, <1>2, OtherThreads
<1>3. CASE Card
  <2>1. CASE CardInserted
    <3>1. card.n = 0
      BY <1>0, <2>1, PodConstants DEF CardInserted, OneCard, CardRecord
    <3>2. /\ card'.n = 1 /\ card'.present /\ card'.open = {} /\ card'.flags = card.flags
          /\ UNCHANGED <<rows, handler, evq>>
      BY <1>0, <2>1, <3>1 DEF CardInserted, CardStep, CardRecord, table
    <3> QED
      BY <3>1, <3>2 DEF CardLife, Queued, Full
  <2>2. CASE CardBecomesReady
    <3>1. card.present /\ Posts("READY") /\ UNCHANGED <<card, handler, rows>>
      BY <2>2 DEF CardBecomesReady, CardStep, table
    <3>2. /\ DOMAIN evq' = DOMAIN evq \cup {Len(evq) + 1} /\ \A k \in DOMAIN evq : evq'[k] = evq[k]
          /\ evq'[Len(evq) + 1] = "READY"
      BY <1>0, <3>1, PostPlaces DEF CardEvents
    <3>3. \A ev \in {"CA_SYSTEM_READY", "REMOVED"} : Queued(ev)' <=> Queued(ev)
      BY <3>2 DEF Queued
    <3>4. \A k \in DOMAIN evq' : evq'[k] # "READY" => k \in DOMAIN evq /\ evq'[k] = evq[k]
      BY <3>2
    <3> QED
      BY <1>0, <3>1, <3>3, <3>4 DEF CardLife
  <2>3. ASSUME NEW r \in {"cardres", "ca"}, CardOpens(r)
        PROVE  CardLife'
    <3>1. /\ card.present /\ r \notin card.open /\ UNCHANGED <<handler, rows>>
          /\ card'.flags = card.flags \cup {r} /\ card'.open = card.open \cup {r}
          /\ card'.n = card.n /\ card'.present = card.present
          /\ IF card'.flags = Full THEN Posts("CA_SYSTEM_READY") ELSE UNCHANGED evq
      BY <1>0, <2>3 DEF CardOpens, CardStep, table, CardRecord, Full
    <3>2. /\ card.flags # Full /\ ~Queued("CA_SYSTEM_READY") /\ rows = <<>>
          /\ handler \in {"wait", "READY"} /\ card.flags = card.open
          /\ \A k \in DOMAIN evq : evq[k] \notin {"CA_SYSTEM_READY", "REMOVED"}
      BY <1>0, <3>1 DEF CardLife, Full, Queued
    <3>3. CASE card'.flags # Full
      BY <1>0, <3>1, <3>2, <3>3 DEF CardLife, Queued
    <3>4. CASE card'.flags = Full
      <4>1. /\ DOMAIN evq' = DOMAIN evq \cup {Len(evq) + 1} /\ \A k \in DOMAIN evq : evq'[k] = evq[k]
            /\ evq'[Len(evq) + 1] = "CA_SYSTEM_READY"
        BY <1>0, <3>1, <3>4, PostPlaces DEF CardEvents
      <4>2. \A k \in DOMAIN evq' : evq'[k] # "REMOVED"
        BY <3>2, <4>1
      <4>3. \A k \in DOMAIN evq' : evq'[k] = "CA_SYSTEM_READY" => k = Len(evq) + 1
        BY <3>2, <4>1
      <4> QED
        BY <1>0, <3>1, <3>2, <3>4, <4>2, <4>3 DEF CardLife
    <3> QED
      BY <3>3, <3>4
  <2>4. CASE CardRemoved
    <3>1. /\ card.present /\ Posts("REMOVED") /\ UNCHANGED <<handler, rows>>
          /\ card'.flags = card.flags /\ card'.open = card.open
          /\ card'.n = card.n /\ ~card'.present
      BY <1>0, <2>4 DEF CardRemoved, CardStep, table, CardRecord
    <3>2. /\ DOMAIN evq' = DOMAIN evq \cup {Len(evq) + 1} /\ \A k \in DOMAIN evq : evq'[k] = evq[k]
          /\ evq'[Len(evq) + 1] = "REMOVED" /\ Len(evq') = Len(evq) + 1
      BY <1>0, <3>1, PostPlaces DEF CardEvents
    <3>3. (Queued("CA_SYSTEM_READY")' <=> Queued("CA_SYSTEM_READY")) /\ Queued("REMOVED")'
      BY <3>2 DEF Queued
    <3>4. \A k \in DOMAIN evq' : evq'[k] # "REMOVED" => k \in DOMAIN evq /\ evq'[k] = evq[k]
      BY <3>2
    <3>5. \A k \in DOMAIN evq' : evq'[k] = "REMOVED" => k = Len(evq')
      BY <3>1, <3>2 DEF CardLife
    <3> QED
      BY <1>0, <3>1, <3>3, <3>4, <3>5 DEF CardLife
  <2>5. CASE \E i \in ProgramIndex : CardReplies(i) \/ CardUpdates(i)
    BY <1>1, <2>5 DEF CardReplies, CardUpdates, CardStep, table, server
  <2> QED
    BY <1>3, <2>1, <2>2, <2>3, <2>4, <2>5 DEF Card
<1>4. CASE Handler
  <2>1. CASE HandlerAnnounces
    <3>1. /\ handler = "wait" /\ evq # <<>> /\ handler' = Head(evq) /\ evq' = Tail(evq)
          /\ UNCHANGED <<rows, card>>
      BY <2>1 DEF HandlerAnnounces, table
    <3>2. /\ 1 \in DOMAIN evq /\ handler' = evq[1] /\ Len(evq) \in Nat /\ Len(evq') = Len(evq) - 1
          /\ \A k \in DOMAIN evq' : k \in Nat /\ k # 0 /\ k + 1 \in DOMAIN evq /\ evq'[k] = evq[k + 1]
          /\ \A k \in DOMAIN evq : k \in Nat /\ (k = 1 \/ (k - 1 \in DOMAIN evq' /\ evq'[k - 1] = evq[k]))
          /\ Len(evq) = 1 => evq' = <<>>
      BY <1>0, <3>1, TakePlaces
    <3>3. handler' \in CardEvents /\ card.n # 0 /\ ~Over
      BY <1>0, <3>1, <3>2 DEF ServerTypes, CardLife, Over
    <3>4. Queued("CA_SYSTEM_READY")' => handler' # "CA_SYSTEM_READY" /\ Queued("CA_SYSTEM_READY")
      BY <3>2 DEF Queued, CardLife
    <3>5. \A k \in DOMAIN evq' : evq'[k] = "REMOVED" => k = Len(evq') /\ ~card.present
      BY <3>2 DEF CardLife
    <3>6. handler' = "REMOVED" => evq' = <<>> /\ ~card.present
      BY <3>2 DEF CardLife
    <3>7. \A j, k \in DOMAIN evq' : evq'[j] = "CA_SYSTEM_READY" /\ evq'[k] = "CA_SYSTEM_READY" => j = k
      BY <3>2 DEF CardLife
    <3>8. ~card.present => Queued("REMOVED")' \/ handler' = "REMOVED"
      BY <3>1, <3>2, <3>3 DEF CardLife, Queued
    <3>9. handler' = "CA_SYSTEM_READY" => Queued("CA_SYSTEM_READY")
      BY <3>2 DEF Queued
    <3>10. handler' = "REMOVED" => ~Queued("CA_SYSTEM_READY")'
      BY <3>6 DEF Queued
    <3> QED
      BY <3>1, <3>3, <3>4, <3>5, <3>6, <3>7, <3>8, <3>9, <3>10 DEF CardLife, CardEvents
  <2>2. CASE HandleReady
    <3>1. handler = "READY" /\ handler' = "wait" /\ UNCHANGED <<rows, card, evq>>
      BY <2>2 DEF HandleReady, table
    <3> QED
      BY <1>0, <3>1 DEF CardLife, Queued, Over
  <2>3. CASE HandleCaSystemReady
    <3>1. handler = "CA_SYSTEM_READY" /\ handler' = "connect" /\ UNCHANGED <<card, evq>>
      BY <2>3 DEF HandleCaSystemReady
    <3> QED
      BY <1>0, <3>1 DEF CardLife, Queued, Over
  <2>4. CASE HandleConnect
    <3>1. handler = "connect" /\ handler' = "wait" /\ UNCHANGED <<rows, card, evq>>
      BY <2>4 DEF HandleConnect, table
    <3> QED
      BY <1>0, <3>1 DEF CardLife, Queued, Over
  <2>5. CASE HandleRemoved
    <3>1. handler = "REMOVED" /\ handler' = "unready" /\ rows' = <<>> /\ UNCHANGED <<card, evq, ipc>>
      BY <2>5 DEF HandleRemoved
    <3>2. evq = <<>> /\ ~card.present /\ card.n # 0 /\ card.flags = card.open
      BY <3>1 DEF CardLife
    <3>3. Over'
      BY <2>5, <3>1, <3>2, RemovalEmpties DEF Over
    <3> QED
      BY <3>1, <3>2, <3>3 DEF CardLife, Queued
  <2>6. CASE HandleUnready \/ HandleClose
    <3>1. /\ handler \in {"unready", "close"} /\ handler' \in {"close", "wait"}
          /\ UNCHANGED <<rows, card, evq>>
      BY <2>6 DEF HandleUnready, HandleClose, table
    <3>2. Over /\ Over' /\ evq = <<>> /\ rows = <<>> /\ card.n # 0 /\ card.flags = card.open
      BY <1>0, <3>1 DEF CardLife, Over
    <3> QED
      BY <3>1, <3>2 DEF CardLife, Queued, Over
  <2> QED
    BY <1>4, <2>1, <2>2, <2>3, <2>4, <2>5, <2>6 DEF Handler
<1> QED
  BY <1>2, <1>3, <1>4 DEF Next

-----------------------------------------------------------------------------
(* What a start, a stop and an answer do to a row, once the invariants     *)
(* hold.                                                                   *)

LEMMA NoIndexIsNoRow == NoIndex \notin ProgramIndex
BY PodConstants DEF NoIndex, ProgramIndex

\* A row in use belongs to one request, which the IPC thread is not taking off.
LEMMA RowHolders ==
    ASSUME Types, Holders, NEW i \in ActiveRows
    PROVE  /\ i \in ProgramIndex
           /\ \A a \in SessionsOf(i) : a \in Listed /\ req[a].state = "ACTIVE" /\ a # ipc
           /\ \A a, b \in SessionsOf(i) : a = b
<1>1. i \in ProgramIndex
  BY RowsFinite DEF Types
<1>2. \A a \in SessionsOf(i) : a \in Listed /\ req[a].state = "ACTIVE" /\ a # ipc /\ req[a].idx = i
  BY <1>1, NoIndexIsNoRow DEF SessionsOf, Holders
<1> QED
  BY <1>1, <1>2 DEF Holders

\* A start that commits takes a row that is not in use and a request that is free.
LEMMA CommitRow ==
    ASSUME Types, RowsAccounted, NEW s \in Sources, StartCommits(s)
    PROVE  \E a \in Requests \ Listed, i \in ProgramIndex \ ActiveRows,
              cmd \in {"query", "ok"}, state \in {"ISSUED_QUERY", "DESCRAMBLING"},
              events \in SUBSET SessionEvents :
              /\ req' = [req EXCEPT ![a] = NewRequest(s, "ACTIVE", i)]
              /\ Sent(i, cmd, getNextTransactionIdForProgramIndex(i), count.starts + 1)
              /\ commitProgramIndexTableRow(i, getNextTransactionIdForProgramIndex(i), cmd, state, Streams[s])
              /\ Returns(s, a, events)
              /\ rows \in [ProgramIndex -> RowRecord]
              /\ rows'[i].tid = getNextTransactionIdForProgramIndex(i)
              /\ \A j \in ProgramIndex : j # i => rows'[j] = rows[j]
              /\ DOMAIN rows' = ProgramIndex /\ ActiveRows' = ActiveRows \cup {i}
              /\ RowsAccounted'
<1> DEFINE i == getNextAvailableProgramIndexTableRow
           tid == getNextTransactionIdForProgramIndex(i)
           cmd == IF s \in Querying THEN "query" ELSE "ok"
           state == IF s \in Querying THEN "ISSUED_QUERY" ELSE "DESCRAMBLING"
           events == IF s \in Querying THEN {} ELSE {"authorized"}
<1>1. PICK a \in Requests \ Listed :
         /\ req' = [req EXCEPT ![a] = NewRequest(s, "ACTIVE", i)]
         /\ Sent(i, cmd, tid, count.starts + 1)
         /\ commitProgramIndexTableRow(i, tid, cmd, state, Streams[s])
         /\ Returns(s, a, events)
  BY DEF StartCommits
<1>2. i \in DOMAIN rows \ ActiveRows /\ rows \in [ProgramIndex -> RowRecord]
  BY CheckedRow DEF StartCommits, Types
<1>3. cmd \in {"query", "ok"} /\ state \in {"ISSUED_QUERY", "DESCRAMBLING"} /\ events \in SUBSET SessionEvents
  BY DEF SessionEvents
<1> HIDE DEF i, cmd, state, events
<1>4. Streams[s] \in Nat /\ TableTypes
  BY PodConstants DEF Types
<1>5. ActiveRows' = ActiveRows \cup {i} /\ RowsAccounted'
  BY <1>1, <1>2, <1>3, <1>4, CommitAccounts
<1>6. /\ rows'[i].tid = tid
      /\ \A j \in ProgramIndex : j # i => rows'[j] = rows[j]
      /\ DOMAIN rows' = ProgramIndex
  BY <1>1, <1>2 DEF commitProgramIndexTableRow
<1> QED
  BY <1>1, <1>2, <1>3, <1>5, <1>6

\* A source that stops a request which is still listed stops its own.
LEMMA StopOwn ==
    ASSUME Types, Holders, Clients, NEW s \in Sources, Stopping(s), session[s].handle \in Listed
    PROVE  LET a == session[s].handle
           IN  /\ Owned(s) /\ a # ipc /\ ipc = NULL
               /\ \/ req[a].state = "ACTIVE" /\ req[a].idx \in ActiveRows
                  \/ req[a].state = "WAITING" /\ req[a].idx = NoIndex
<1>1. ipc = NULL /\ session[s] # NoSession /\ session[s].handle # ipc
  BY PodConstants DEF Stopping, Listed
<1>2. ~Over
  BY <1>1 DEF Over
<1> QED
  BY <1>1, <1>2 DEF Clients, Owned, Holders

\* A stop that finds its row gives it back, unless the CA_PMT is not sent.
LEMMA StopRow ==
    ASSUME Types, Holders, Clients, RowsAccounted, CasLife, NEW s \in Sources, StopActive(s)
    PROVE  LET a == session[s].handle
               i == req[a].idx
               tid == getNextTransactionIdForProgramIndex(i)
           IN  /\ a \in Requests /\ a \in Listed /\ Owned(s) /\ req[a].state = "ACTIVE" /\ i \in ActiveRows
               /\ i \in ProgramIndex
               /\ SessionsOf(i) = {a} /\ req' = [req EXCEPT ![a] = Freed]
               /\ rows \in [ProgramIndex -> RowRecord] /\ DOMAIN rows' = ProgramIndex
               /\ RowsAccounted'
               /\ \/ /\ Sent(i, "none", tid, 0) /\ releaseProgramIndexRow(i, tid)
                     /\ rows'[i] = IdleRow(tid) /\ \A j \in ProgramIndex : j # i => rows'[j] = rows[j]
                     /\ ActiveRows' = ActiveRows \ {i}
                  \/ "stop" \in Failing /\ UNCHANGED <<rows, used, chip>>
<1> DEFINE a == session[s].handle
           i == req[a].idx
           tid == getNextTransactionIdForProgramIndex(i)
<1>1. /\ Stopping(s) /\ a \in Listed /\ i \in DOMAIN rows /\ req' = [req EXCEPT ![a] = Freed]
      /\ \/ Sent(i, "none", tid, 0) /\ releaseProgramIndexRow(i, tid)
         \/ (cas = 0 \/ "stop" \in Failing) /\ UNCHANGED <<rows, used, chip>>
  BY DEF StopActive
<1>2. rows \in [ProgramIndex -> RowRecord] /\ i \in ProgramIndex /\ a \in Requests
  BY <1>1 DEF Types, TableTypes, Listed
<1>3. Owned(s) /\ req[a].state = "ACTIVE" /\ i \in ActiveRows
  BY <1>1, <1>2, StopOwn, NoIndexIsNoRow
<1>4. a \in SessionsOf(i)
  BY <1>1 DEF SessionsOf
<1>5. SessionsOf(i) = {a} /\ cas # 0
  BY <1>3, <1>4, RowHolders DEF CasLife
<1> HIDE DEF a, i, tid
<1>6. CASE Sent(i, "none", tid, 0) /\ releaseProgramIndexRow(i, tid)
  <2>1. rows'[i] = IdleRow(tid) /\ DOMAIN rows' = ProgramIndex
        /\ \A j \in ProgramIndex : j # i => rows'[j] = rows[j]
    BY <1>2, <1>6 DEF releaseProgramIndexRow
  <2>2. ActiveRows' = ActiveRows \ {i} /\ RowsAccounted'
    BY <1>3, <1>6, ReleaseAccounts DEF Types
  <2> QED
    BY <1>1, <1>2, <1>3, <1>5, <1>6, <2>1, <2>2 DEF a, i, tid
<1>7. CASE (cas = 0 \/ "stop" \in Failing) /\ UNCHANGED <<rows, used, chip>>
  <2>1. RowsAccounted'
    BY <1>7, AccountsKept DEF ActiveRows
  <2> QED
    BY <1>1, <1>2, <1>3, <1>5, <1>7, <2>1 DEF a, i, tid
<1> QED
  BY <1>1, <1>6, <1>7

LEMMA RowRewritten ==
    ASSUME TableTypes, NEW i \in ActiveRows, NEW state \in RowStates \ {"NOT_SELECTED"},
           NEW cmd \in {"none", "query", "ok"}, NEW tid \in 0 .. TransactionIds - 1,
           \/ rows' = [rows EXCEPT ![i].state = state]
           \/ rows' = [rows EXCEPT ![i].state = state, ![i].cmd = cmd]
           \/ rows' = [rows EXCEPT ![i].state = state, ![i].cmd = cmd, ![i].tid = tid]
    PROVE  /\ ActiveRows' = ActiveRows
           /\ \A j \in ActiveRows : rows'[j].streams = rows[j].streams
           /\ \A j \in ProgramIndex : j # i => rows'[j] = rows[j]
<1>1. rows \in [ProgramIndex -> RowRecord] /\ i \in ProgramIndex
  BY DEF TableTypes, ActiveRows
<1>2. /\ DOMAIN rows' = ProgramIndex /\ DOMAIN rows = ProgramIndex
      /\ rows'[i].state = state /\ rows'[i].streams = rows[i].streams
      /\ \A j \in ProgramIndex : j # i => rows'[j] = rows[j]
  <2>1. CASE rows' = [rows EXCEPT ![i].state = state]
    BY <1>1, <2>1 DEF RowRecord
  <2>2. CASE rows' = [rows EXCEPT ![i].state = state, ![i].cmd = cmd]
    BY <1>1, <2>2 DEF RowRecord
  <2>3. CASE rows' = [rows EXCEPT ![i].state = state, ![i].cmd = cmd, ![i].tid = tid]
    BY <1>1, <2>3 DEF RowRecord
  <2> QED
    BY <2>1, <2>2, <2>3
<1>3. ActiveRows' = ActiveRows
  BY <1>2 DEF ActiveRows
<1> QED
  BY <1>1, <1>2, <1>3 DEF ActiveRows

\* An answer leaves the rows in use as they are; the transaction of its row stays, or
\* moves on with a CA_PMT for the session that has the row.
LEMMA EnableRow ==
    ASSUME Types, Holders, ApdusTimely, RowsAccounted, handleCaEnable
    PROVE  LET i == apdu.m.idx
               tid == getNextTransactionIdForProgramIndex(i)
           IN  /\ i \in ActiveRows /\ i \in ProgramIndex /\ DOMAIN rows' = DOMAIN rows
               /\ ActiveRows' = ActiveRows /\ RowsAccounted'
               /\ \A j \in ProgramIndex : j # i => rows'[j] = rows[j]
               /\ \/ rows'[i].tid = rows[i].tid /\ UNCHANGED chip
                  \/ rows'[i].tid = tid /\ \E a \in SessionsOf(i) : Sent(i, "ok", tid, req[a].serial)
<1> DEFINE i == apdu.m.idx
           tid == getNextTransactionIdForProgramIndex(i)
           Goal == /\ ActiveRows' = ActiveRows
                   /\ \A j \in ActiveRows : rows'[j].streams = rows[j].streams
                   /\ \A j \in ProgramIndex : j # i => rows'[j] = rows[j]
                   /\ \/ rows'[i].tid = rows[i].tid /\ UNCHANGED chip
                      \/ rows'[i].tid = tid /\ \E a \in SessionsOf(i) : Sent(i, "ok", tid, req[a].serial)
<1>1. apdu.stage = "locked" /\ i \in ActiveRows /\ TableTypes
  BY DEF handleCaEnable, ApdusTimely, Types
<1>2. i \in ProgramIndex /\ i \in DOMAIN rows /\ tid \in 0 .. TransactionIds - 1
  BY <1>1, NextTid DEF ActiveRows
<1>3. /\ "DESCRAMBLING" \in RowStates \ {"NOT_SELECTED"}
      /\ "ISSUED_MMI" \in RowStates \ {"NOT_SELECTED"}
      /\ "FAILED_DESCRAMBLING" \in RowStates \ {"NOT_SELECTED"}
  BY DEF RowStates
<1>4. Goal
  <2>1. CASE UNCHANGED <<rows, chip, told>>
    BY <2>1 DEF ActiveRows
  <2>2. CASE /\ \/ rows' = [rows EXCEPT ![i].state = "DESCRAMBLING"]
                \/ rows' = [rows EXCEPT ![i].state = "FAILED_DESCRAMBLING", ![i].cmd = "none"]
             /\ UNCHANGED chip
    <3> HIDE DEF i, tid
    <3>1. rows'[i].tid = rows[i].tid
      BY <1>1, <1>2, <2>2 DEF TableTypes, RowRecord
    <3>2. CASE rows' = [rows EXCEPT ![i].state = "DESCRAMBLING"]
      BY <1>1, <1>2, <1>3, <2>2, <3>1, <3>2, RowRewritten
    <3>3. CASE rows' = [rows EXCEPT ![i].state = "FAILED_DESCRAMBLING", ![i].cmd = "none"]
      BY <1>1, <1>2, <1>3, <2>2, <3>1, <3>3, RowRewritten
    <3> QED
      BY <2>2, <3>2, <3>3
  <2>3. ASSUME NEW state \in RowStates \ {"NOT_SELECTED"}, Descramble(i, state)
        PROVE  Goal
    <3>1. /\ rows' = [rows EXCEPT ![i].state = state, ![i].cmd = "ok", ![i].tid = tid]
          /\ \E a \in SessionsOf(i) : Sent(i, "ok", tid, req[a].serial)
      BY <2>3 DEF Descramble
    <3> HIDE DEF i, tid
    <3>2. rows \in [ProgramIndex -> RowRecord]
      BY <1>1, <1>2 DEF TableTypes
    <3>3. rows'[i].tid = tid
      BY <1>2, <3>1, <3>2 DEF RowRecord
    <3> QED
      BY <1>1, <1>2, <3>1, <3>3, RowRewritten
  <2> HIDE DEF Goal
  <2> QED
    BY <1>3, <2>1, <2>2, <2>3 DEF handleCaEnable
<1>5. DOMAIN rows' = DOMAIN rows /\ UNCHANGED used
  BY EnableTypes DEF handleCaEnable
<1>6. RowsAccounted'
  BY <1>4, <1>5, AccountsKept
<1> QED
  BY <1>1, <1>2, <1>4, <1>5, <1>6

\* An event told to the owner of a row does not unsay another.
LEMMA EnableTells ==
    ASSUME Types, handleCaEnable, NEW s \in Sources
    PROVE  told[s] \subseteq told'[s] /\ ("REMOVED" \in told'[s] => "REMOVED" \in told[s])
<1>1. told \in [Sources -> SUBSET (SessionEvents \cup {"REMOVED"})]
  BY DEF Types, ClientTypes
<1>2. ASSUME NEW ev \in {"authorized", "failed"}, sendEventImpl(ev, apdu.m.idx)
      PROVE  told[s] \subseteq told'[s] /\ ("REMOVED" \in told'[s] => "REMOVED" \in told[s])
  <2>1. UNCHANGED told \/ \E x : told' = [told EXCEPT ![x] = @ \cup {ev}]
    BY <1>2 DEF sendEventImpl
  <2> QED
    BY <1>1, <2>1
<1>3. UNCHANGED told \/ \E ev \in {"authorized", "failed"} : sendEventImpl(ev, apdu.m.idx)
  BY DEF handleCaEnable
<1> QED
  BY <1>2, <1>3

-----------------------------------------------------------------------------
(* The accounts, the CA session, and who holds a row.                      *)

\* The steps that leave both tables and the IPC thread's cleaning up alone.
Quiet ==
    \/ ApduReceive \/ ApduValidate \/ Card
    \/ HandlerAnnounces \/ HandleReady \/ HandleConnect \/ HandleUnready \/ HandleClose
    \/ \E s \in Sources : StartRefused(s) \/ StopUnknown(s) \/ Forget(s)

LEMMA QuietIs ==
    ASSUME Quiet
    PROVE  UNCHANGED <<rows, used, req, ipc>> /\ ActiveRows' = ActiveRows /\ Listed' = Listed
<1> SUFFICES UNCHANGED <<rows, used, req, ipc>>
  BY DEF ActiveRows, Listed
<1>1. ASSUME NEW s \in Sources, StartRefused(s) \/ StopUnknown(s) \/ Forget(s)
      PROVE  UNCHANGED <<rows, used, req, ipc>>
  BY <1>1 DEF StartRefused, StopUnknown, Forget, table, server
<1>2. CASE ApduReceive \/ ApduValidate
  BY <1>2 DEF ApduReceive, ApduValidate, table, server
<1>3. CASE Card
  BY <1>3 DEF Card, CardInserted, CardBecomesReady, CardRemoved, CardOpens, CardReplies, CardUpdates,
     CardStep, table, server
<1>4. CASE HandlerAnnounces \/ HandleReady \/ HandleConnect \/ HandleUnready \/ HandleClose
  BY <1>4 DEF HandlerAnnounces, HandleReady, HandleConnect, HandleUnready, HandleClose, table
<1> QED
  BY <1>1, <1>2, <1>3, <1>4 DEF Quiet

LEMMA QuietSteps ==
    ASSUME Next
    PROVE  \/ Quiet \/ StartCleansUp \/ handleCaEnable \/ HandleCaSystemReady \/ HandleRemoved
           \/ \E s \in Sources : StartWaits(s) \/ StartCommits(s) \/ StartFails(s)
                                   \/ StopWaiting(s) \/ StopActive(s)
BY DEF Quiet, Next, Ipc, Apdu, Handler

\* Of those only the card's own change what it holds.
LEMMA QuietChips ==
    ASSUME Quiet
    PROVE  UNCHANGED chip \/ CardInserted \/ \E i \in ProgramIndex : CardReplies(i)
BY DEF Quiet, Card, CardBecomesReady, CardRemoved, CardOpens, CardUpdates, ApduReceive, ApduValidate,
   HandlerAnnounces, HandleReady, HandleConnect, HandleUnready, HandleClose, StartRefused, StopUnknown,
   Forget, client

\* CA_SYSTEM_READY finds no table, and leaves one that is not in use.
LEMMA NewTable ==
    ASSUME Types, CardLife, HandleCaSystemReady
    PROVE  /\ rows = <<>> /\ rows' = [i \in ProgramIndex |-> IdleRow(0)] /\ handler' = "connect"
           /\ rows' # <<>> /\ ActiveRows = {} /\ ActiveRows' = {} /\ handler = "CA_SYSTEM_READY"
           /\ UNCHANGED <<used, req, isReady, cas, card, evq, ipc, chip, wire, apdu, client, count>>
<1>1. /\ rows = <<>> /\ rows' = [i \in ProgramIndex |-> IdleRow(0)] /\ handler' = "connect"
      /\ handler = "CA_SYSTEM_READY"
      /\ UNCHANGED <<used, req, isReady, cas, card, evq, ipc, chip, wire, apdu, client, count>>
  BY DEF HandleCaSystemReady, CardLife
<1>2. ActiveRows = {} /\ ActiveRows' = {}
  BY <1>1 DEF ActiveRows, IdleRow
<1>3. 0 \in ProgramIndex
  BY PodConstants DEF ProgramIndex
<1> QED
  BY <1>1, <1>2, <1>3

LEMMA RowsAccountedStep ==
    ASSUME Types, CardLife, CasLife, Holders, ApdusTimely, Clients, RowsAccounted, Next
    PROVE  RowsAccounted'
<1>1. CASE Quiet
  BY <1>1, QuietIs, AccountsKept
<1>2. CASE StartCleansUp \/ \E s \in Sources : StartWaits(s) \/ StartFails(s) \/ StopWaiting(s)
  BY <1>2, AccountsKept DEF StartCleansUp, StartWaits, StartFails, StopWaiting, ActiveRows
<1>3. CASE \E s \in Sources : StartCommits(s)
  BY <1>3, CommitRow
<1>4. CASE \E s \in Sources : StopActive(s)
  BY <1>4, StopRow
<1>5. CASE handleCaEnable
  BY <1>5, EnableRow
<1>6. CASE HandleCaSystemReady
  BY <1>6, NewTable, AccountsKept
<1>7. CASE HandleRemoved
  <2>1. rows' = <<>> /\ used' = [programs |-> 0, streams |-> 0]
    BY <1>7 DEF HandleRemoved
  <2>2. ActiveRows' = {}
    BY <2>1 DEF ActiveRows
  <2>3. StreamsInUse' = {}
    BY <2>2 DEF StreamsInUse
  <2>4. Cardinality({}) = 0
    BY FS_EmptySet
  <2> QED
    BY <2>1, <2>2, <2>3, <2>4 DEF RowsAccounted
<1> QED
  BY <1>1, <1>2, <1>3, <1>4, <1>5, <1>6, <1>7, QuietSteps

LEMMA CasLifeStep ==
    ASSUME OneCard, Types, CardLife, CasLife, Holders, ApdusTimely, Clients, RowsAccounted, Next
    PROVE  CasLife'
<1>1. ASSUME UNCHANGED <<cas, handler>>, rows' = <<>> <=> rows = <<>>,
             ActiveRows' # {} => ActiveRows # {} \/ cas # 0
      PROVE  CasLife'
  BY <1>1 DEF CasLife
<1>2. CASE (\E s \in Sources : Ipc(s) \/ Forget(s)) \/ StartCleansUp \/ Apdu
  <2>1. UNCHANGED <<cas, handler>> /\ (rows' = <<>> <=> rows = <<>>)
    BY <1>2, OtherThreads
  <2>2. ActiveRows' # {} => ActiveRows # {} \/ cas # 0
    <3>1. CASE \E s \in Sources : StartCommits(s)
      BY <3>1 DEF StartCommits
    <3>2. CASE \E s \in Sources : StopActive(s)
      BY <3>2, StopRow
    <3>3. CASE handleCaEnable
      BY <3>3, EnableRow
    <3>4. CASE UNCHANGED rows
      BY <3>4 DEF ActiveRows
    <3> QED
      BY <1>2, <3>1, <3>2, <3>3, <3>4 DEF Ipc, StartRefused, StartWaits, StartFails, StopUnknown,
         StopWaiting, Forget, StartCleansUp, Apdu, ApduReceive, ApduValidate, table
  <2> QED
    BY <1>1, <2>1, <2>2
<1>3. CASE Card
  BY <1>1, <1>3 DEF Card, CardInserted, CardBecomesReady, CardRemoved, CardOpens, CardReplies,
     CardUpdates, CardStep, table, server, ActiveRows
<1>4. CASE Handler
  <2>1. CASE HandlerAnnounces
    <3>1. handler = "wait" /\ handler' \in CardEvents /\ UNCHANGED <<rows, cas>>
      BY <2>1, TakePlaces DEF HandlerAnnounces, table, Types, ServerTypes
    <3> QED
      BY <3>1 DEF CasLife, ActiveRows, CardEvents
  <2>2. CASE HandleReady
    BY <2>2 DEF HandleReady, table, CasLife, ActiveRows
  <2>3. CASE HandleCaSystemReady
    BY <2>3, NewTable DEF CasLife
  <2>4. CASE HandleConnect
    BY <2>4 DEF HandleConnect, table, CasLife, ActiveRows
  <2>5. CASE HandleRemoved
    <3>1. rows' = <<>> /\ handler' = "unready"
      BY <2>5 DEF HandleRemoved
    <3> QED
      BY <3>1 DEF CasLife, ActiveRows
  <2>6. CASE HandleUnready
    BY <2>6 DEF HandleUnready, table, CasLife, ActiveRows
  <2>7. CASE HandleClose
    <3>1. rows = <<>> /\ UNCHANGED rows /\ handler' = "wait" /\ cas' = 0
      BY <2>7 DEF HandleClose, CardLife, Over, table
    <3> QED
      BY <3>1 DEF CasLife, ActiveRows
  <2> QED
    BY <1>4, <2>1, <2>2, <2>3, <2>4, <2>5, <2>6, <2>7 DEF Handler
<1> QED
  BY <1>2, <1>3, <1>4 DEF Next

\* Requests that only leave the table do not disturb who holds a row.
LEMMA HoldersKept ==
    ASSUME Holders, Listed' \subseteq Listed, \A a \in Listed' : req'[a] = req[a],
           ActiveRows' = ActiveRows, \A a \in Listed' : a = ipc' <=> a = ipc
    PROVE  Holders'
BY DEF Holders

LEMMA HoldersStep ==
    ASSUME Types, CardLife, CasLife, Holders, ApdusTimely, Clients, RowsAccounted, Next
    PROVE  Holders'
<1>0. TableTypes /\ NULL \notin Requests /\ Listed \subseteq Requests /\ Listed' \subseteq Requests
  BY PodConstants DEF Types, Listed
<1>1. CASE Quiet
  BY <1>1, QuietIs, HoldersKept
<1>2. CASE StartCleansUp
  <2>1. /\ ipc \in Requests /\ req' = [req EXCEPT ![ipc] = Freed] /\ ipc' = NULL /\ UNCHANGED rows
    BY <1>2 DEF StartCleansUp, Types, ServerTypes
  <2>2. Listed' = Listed \ {ipc} /\ \A a \in Requests : a # ipc => req'[a] = req[a]
    BY <1>0, <2>1, FreeRequest
  <2> QED
    BY <1>0, <2>1, <2>2, HoldersKept DEF ActiveRows
<1>3. ASSUME NEW s \in Sources, StartWaits(s)
      PROVE  Holders'
  <2>1. PICK a \in Requests \ Listed : req' = [req EXCEPT ![a] = NewRequest(s, "WAITING", NoIndex)]
    BY <1>3 DEF StartWaits
  <2>2. UNCHANGED <<rows, ipc>> /\ ipc = NULL
    BY <1>3 DEF StartWaits, Starting, server
  <2>3. /\ Listed' = Listed \cup {a} /\ req'[a].state = "WAITING" /\ req'[a].idx = NoIndex
        /\ \A b \in Requests : b # a => req'[b] = req[b]
    BY <1>0, <2>1, NewListed
  <2> QED
    BY <1>0, <2>1, <2>2, <2>3 DEF Holders, ActiveRows
<1>4. ASSUME NEW s \in Sources, StartFails(s)
      PROVE  Holders'
  <2>0. PICK i : i = getNextAvailableProgramIndexTableRow
    OBVIOUS
  <2>1. PICK a \in Requests \ Listed : req' = [req EXCEPT ![a] = NewRequest(s, "UNKNOWN", i)] /\ ipc' = a
    BY <1>4, <2>0 DEF StartFails
  <2>2. UNCHANGED rows /\ ipc = NULL
    BY <1>4 DEF StartFails, Starting
  <2>3. i \notin ActiveRows
    BY <1>0, <2>0, AvailableRow, RowsFinite, NoIndexIsNoRow
  <2>4. /\ Listed' = Listed \cup {a} /\ req'[a].state = "UNKNOWN" /\ req'[a].idx = i
        /\ \A b \in Requests : b # a => req'[b] = req[b]
    BY <1>0, <2>1 DEF NewRequest, TableTypes, Listed
  <2> QED
    BY <1>0, <2>1, <2>2, <2>3, <2>4 DEF Holders, ActiveRows
<1>5. ASSUME NEW s \in Sources, StartCommits(s)
      PROVE  Holders'
  <2>1. PICK a \in Requests \ Listed, i \in ProgramIndex \ ActiveRows :
            req' = [req EXCEPT ![a] = NewRequest(s, "ACTIVE", i)] /\ ActiveRows' = ActiveRows \cup {i}
    BY <1>5, CommitRow
  <2>2. UNCHANGED ipc /\ ipc = NULL
    BY <1>5 DEF StartCommits, Starting, server
  <2>3. /\ Listed' = Listed \cup {a} /\ req'[a].state = "ACTIVE" /\ req'[a].idx = i
        /\ \A b \in Requests : b # a => req'[b] = req[b]
    BY <1>0, <2>1, NewListed
  <2> QED
    BY <1>0, <2>1, <2>2, <2>3 DEF Holders
<1>6. ASSUME NEW s \in Sources, StopWaiting(s)
      PROVE  Holders'
  <2> DEFINE a == session[s].handle
  <2>1. req' = [req EXCEPT ![a] = Freed] /\ a \in Requests /\ UNCHANGED <<rows, ipc>>
    BY <1>0, <1>6 DEF StopWaiting, server
  <2> HIDE DEF a
  <2>2. Listed' = Listed \ {a} /\ \A b \in Requests : b # a => req'[b] = req[b]
    BY <1>0, <2>1, FreeRequest
  <2> QED
    BY <1>0, <2>1, <2>2, HoldersKept DEF ActiveRows
<1>7. ASSUME NEW s \in Sources, StopActive(s)
      PROVE  Holders'
  <2> DEFINE a == session[s].handle
             i == req[a].idx
  <2>1. /\ a \in Requests /\ SessionsOf(i) = {a} /\ req' = [req EXCEPT ![a] = Freed]
        /\ ActiveRows' = ActiveRows \ {i} \/ UNCHANGED rows
    BY <1>7, StopRow
  <2>2. UNCHANGED ipc
    BY <1>7 DEF StopActive, server
  <2> HIDE DEF a, i
  <2>3. Listed' = Listed \ {a} /\ \A b \in Requests : b # a => req'[b] = req[b]
    BY <1>0, <2>1, FreeRequest
  <2>4. \A b \in Listed' : req[b].idx # i
    BY <2>1, <2>3 DEF SessionsOf
  <2>5. ActiveRows' \subseteq ActiveRows /\ ActiveRows \subseteq ActiveRows' \cup {i}
    BY <2>1 DEF ActiveRows
  <2> QED
    BY <1>0, <2>2, <2>3, <2>4, <2>5 DEF Holders
<1>8. CASE handleCaEnable
  BY <1>8, EnableRow, HoldersKept DEF handleCaEnable, server, Listed
<1>9. CASE HandleCaSystemReady
  BY <1>9, NewTable, HoldersKept DEF Listed
<1>10. CASE HandleRemoved
  <2>1. Listed' \subseteq {ipc} /\ UNCHANGED ipc
    BY <1>10, RemovalEmpties DEF HandleRemoved
  <2>2. \A a \in Listed' : a \in Listed /\ req'[a] = req[a]
    BY <1>10 DEF HandleRemoved, Listed, Freed
  <2>3. ActiveRows' = {}
    BY <1>10 DEF HandleRemoved, ActiveRows
  <2> QED
    BY <2>1, <2>2, <2>3 DEF Holders
<1> QED
  BY <1>1, <1>2, <1>3, <1>4, <1>5, <1>6, <1>7, <1>8, <1>9, <1>10, QuietSteps

-----------------------------------------------------------------------------
(* The rows and the card.                                                  *)

LEMMA NothingSentStep ==
    ASSUME OneCard, Types, CardLife, Holders, NothingSent, Next
    PROVE  NothingSent'
<1> SUFFICES ASSUME rows' = <<>>, ~Over'
             PROVE  wire' = <<>> /\ apdu' = NoApdu /\ \A i \in ProgramIndex : chip'[i] = NoPmt
  BY DEF NothingSent
<1>0. ~Over
  BY OverStays
<1>1. rows = <<>>
  <2>1. CASE (\E s \in Sources : Ipc(s) \/ Forget(s)) \/ StartCleansUp \/ Apdu
    BY <2>1, OtherThreads
  <2>2. CASE Card
    BY <2>2 DEF Card, CardInserted, CardBecomesReady, CardRemoved, CardOpens, CardReplies, CardUpdates,
       CardStep, table
  <2>3. CASE HandleRemoved
    <3>1. CardLife' /\ handler' = "unready"
      BY <2>3, CardLifeStep DEF HandleRemoved
    <3> QED
      BY <3>1 DEF CardLife
  <2>4. CASE HandleCaSystemReady
    BY <2>4, NewTable
  <2>5. CASE HandlerAnnounces \/ HandleReady \/ HandleConnect \/ HandleUnready \/ HandleClose
    BY <2>5 DEF HandlerAnnounces, HandleReady, HandleConnect, HandleUnready, HandleClose, table
  <2> QED
    BY <2>1, <2>2, <2>3, <2>4, <2>5 DEF Next, Handler
<1>2. wire = <<>> /\ apdu = NoApdu /\ (\A i \in ProgramIndex : chip[i] = NoPmt) /\ DOMAIN rows = {}
  BY <1>0, <1>1, NoTable DEF NothingSent, Types
<1>3. CASE (\E s \in Sources : Ipc(s) \/ Forget(s)) \/ StartCleansUp \/ Apdu
  <2>1. \A s \in Sources : ~StartCommits(s) /\ ~StopActive(s)
    BY <1>1, <1>2 DEF StartCommits, checkAvailableResources, StopActive
  <2>2. ~Apdu
    BY <1>2 DEF Apdu, ApduReceive, ApduValidate, handleCaEnable, NoApdu
  <2> QED
    BY <1>2, <1>3, <2>1, <2>2 DEF Ipc, StartRefused, StartWaits, StartFails, StopUnknown, StopWaiting,
       Forget, StartCleansUp
<1>4. CASE Card
  <2>1. \A i \in ProgramIndex : ~CardReplies(i) /\ ~CardUpdates(i)
    BY <1>2 DEF CardReplies, CardUpdates, NoPmt
  <2>2. CASE CardInserted
    BY <1>2, <2>2 DEF CardInserted, CardStep
  <2> QED
    BY <1>2, <1>4, <2>1, <2>2 DEF Card, CardBecomesReady, CardRemoved, CardOpens, CardStep
<1>5. CASE Handler
  BY <1>2, <1>5 DEF Handler, HandlerAnnounces, HandleReady, HandleCaSystemReady, HandleConnect,
     HandleRemoved, HandleUnready, HandleClose
<1> QED
  BY <1>3, <1>4, <1>5 DEF Next

\* Steps that keep the transactions, the CA_PMTs and the rows in use, and give no row
\* another session.
LEMMA ChipsKept ==
    ASSUME Types, Chips, rows' = <<>> <=> rows = <<>>, ActiveRows' = ActiveRows,
           \A i \in ProgramIndex :
              /\ rows # <<>> => rows'[i].tid = rows[i].tid
              /\ chip'[i].tid = chip[i].tid /\ chip'[i].serial = chip[i].serial
              /\ chip'[i].cmd = "none" <=> chip[i].cmd = "none"
              /\ \A a \in SessionsOf(i)' : i \in ActiveRows => a \in SessionsOf(i) /\ req'[a] = req[a]
    PROVE  Chips'
<1> SUFFICES ASSUME rows' # <<>>, NEW i \in ProgramIndex
             PROVE  /\ chip'[i].tid = rows'[i].tid
                    /\ chip'[i].cmd # "none" <=> i \in ActiveRows'
                    /\ i \in ActiveRows' => \A a \in SessionsOf(i)' : req'[a].serial = chip'[i].serial
  BY DEF Chips
<1> QED
  BY DEF Chips

\* The one card comes before there is a table.
LEMMA InsertedFirst ==
    ASSUME OneCard, Types, CardLife, CardInserted
    PROVE  rows = <<>>
<1>1. card.n = 0
  BY PodConstants DEF CardInserted, OneCard, Types, CardTypes, CardRecord
<1>2. card.flags = {}
  BY <1>1 DEF CardLife
<1> QED
  BY <1>2 DEF CardLife, Full

LEMMA ChipsStep ==
    ASSUME OneCard, Types, CardLife, CasLife, NothingSent, Holders, Chips, ApdusTimely, Clients,
           RowsAccounted, Next
    PROVE  Chips'
<1>0. /\ TableTypes /\ chip \in [ProgramIndex -> PmtRecord] /\ NULL \notin Requests
      /\ Listed \subseteq Requests /\ Listed' \subseteq Requests
  BY PodConstants DEF Types, ChipTypes, Listed
<1>1. ASSUME Listed' \subseteq Listed, \A a \in Listed' : req'[a] = req[a], NEW i
      PROVE  \A a \in SessionsOf(i)' : a \in SessionsOf(i) /\ req'[a] = req[a]
  BY <1>1 DEF SessionsOf
<1>2. CASE Quiet
  <2>1. UNCHANGED <<rows, req>> /\ Listed' = Listed /\ ActiveRows' = ActiveRows
    BY <1>2, QuietIs
  <2>2. CASE CardInserted
    <3>1. rows = <<>>
      BY <2>2, InsertedFirst
    <3> QED
      BY <2>1, <3>1 DEF Chips
  <2>3. ASSUME NEW j \in ProgramIndex, CardReplies(j)
        PROVE  Chips'
    <3>1. chip' = [chip EXCEPT ![j].cmd = "replied"] /\ chip[j].cmd = "query"
      BY <2>3 DEF CardReplies
    <3>2. \A i \in ProgramIndex : /\ chip'[i].tid = chip[i].tid /\ chip'[i].serial = chip[i].serial
                                  /\ chip'[i].cmd = "none" <=> chip[i].cmd = "none"
      BY <1>0, <3>1 DEF PmtRecord
    <3> QED
      BY <1>1, <2>1, <3>2, ChipsKept
  <2>4. CASE UNCHANGED chip
    BY <1>1, <2>1, <2>4, ChipsKept
  <2> QED
    BY <1>2, <2>2, <2>3, <2>4, QuietChips
<1>3. CASE StartCleansUp
  <2>1. /\ ipc \in Requests /\ req' = [req EXCEPT ![ipc] = Freed] /\ UNCHANGED <<rows, chip>>
    BY <1>3 DEF StartCleansUp, Types, ServerTypes
  <2>2. Listed' = Listed \ {ipc} /\ \A a \in Requests : a # ipc => req'[a] = req[a]
    BY <1>0, <2>1, FreeRequest
  <2> QED
    BY <1>0, <1>1, <2>1, <2>2, ChipsKept DEF ActiveRows
<1>4. ASSUME NEW a \in Requests \ Listed, NEW s \in Sources, NEW state \in {"WAITING", "UNKNOWN"},
             NEW j \in ProgramIndex \cup {NoIndex}, j \notin ActiveRows, req' = [req EXCEPT ![a] = NewRequest(s, state, j)],
             UNCHANGED <<rows, chip>>
      PROVE  Chips'
  <2>1. /\ Listed' = Listed \cup {a} /\ req'[a].idx = j
        /\ \A b \in Requests : b # a => req'[b] = req[b]
    BY <1>0, <1>4, NewListed
  <2>2. \A i \in ActiveRows : \A b \in SessionsOf(i)' : b \in SessionsOf(i) /\ req'[b] = req[b]
    BY <1>0, <1>4, <2>1 DEF SessionsOf
  <2> QED
    BY <1>4, <2>2, ChipsKept DEF ActiveRows
<1>5. ASSUME NEW s \in Sources, StartWaits(s)
      PROVE  Chips'
  BY <1>0, <1>4, <1>5, RowsFinite, NoIndexIsNoRow DEF StartWaits
<1>6. ASSUME NEW s \in Sources, StartFails(s)
      PROVE  Chips'
  <2>0. PICK i : i = getNextAvailableProgramIndexTableRow
    OBVIOUS
  <2>1. i \notin ActiveRows /\ i \in ProgramIndex \cup {NoIndex}
    BY <1>0, <2>0, AvailableRow, RowsFinite, NoIndexIsNoRow
  <2>2. PICK a \in Requests \ Listed : req' = [req EXCEPT ![a] = NewRequest(s, "UNKNOWN", i)]
    BY <1>6, <2>0 DEF StartFails
  <2>3. UNCHANGED <<rows, chip>>
    BY <1>6 DEF StartFails
  <2> QED
    BY <1>4, <2>1, <2>2, <2>3
<1>7. ASSUME NEW s \in Sources, StopWaiting(s)
      PROVE  Chips'
  <2> DEFINE a == session[s].handle
  <2>1. req' = [req EXCEPT ![a] = Freed] /\ a \in Requests /\ UNCHANGED <<rows, chip>>
    BY <1>0, <1>7 DEF StopWaiting
  <2> HIDE DEF a
  <2>2. Listed' = Listed \ {a} /\ \A b \in Requests : b # a => req'[b] = req[b]
    BY <1>0, <2>1, FreeRequest
  <2> QED
    BY <1>0, <1>1, <2>1, <2>2, ChipsKept DEF ActiveRows
<1>8. ASSUME NEW s \in Sources, StartCommits(s)
      PROVE  Chips'
  <2>1. PICK a \in Requests \ Listed, i \in ProgramIndex \ ActiveRows, cmd \in {"query", "ok"},
             state \in {"ISSUED_QUERY", "DESCRAMBLING"}, events \in SUBSET SessionEvents :
            /\ req' = [req EXCEPT ![a] = NewRequest(s, "ACTIVE", i)]
            /\ Sent(i, cmd, getNextTransactionIdForProgramIndex(i), count.starts + 1)
            /\ rows'[i].tid = getNextTransactionIdForProgramIndex(i)
            /\ \A j \in ProgramIndex : j # i => rows'[j] = rows[j]
            /\ ActiveRows' = ActiveRows \cup {i} /\ rows \in [ProgramIndex -> RowRecord]
    BY <1>8, CommitRow, SMTT(30)
  <2>2. ipc = NULL
    BY <1>8 DEF StartCommits, Starting
  <2>3. /\ Listed' = Listed \cup {a} /\ req'[a].idx = i /\ req'[a].serial = count.starts + 1
        /\ \A b \in Requests : b # a => req'[b] = req[b]
    BY <1>0, <2>1, NewListed
  <2>4. /\ chip'[i].cmd = cmd /\ chip'[i].tid = rows'[i].tid /\ chip'[i].serial = count.starts + 1
        /\ \A j \in ProgramIndex : j # i => chip'[j] = chip[j]
    BY <1>0, <2>1 DEF Sent
  <2>5. SessionsOf(i)' = {a}
    <3>1. \A b \in Listed : req[b].idx # i
      BY <1>0, <2>1, <2>2, NoIndexIsNoRow DEF Holders
    <3> QED
      BY <1>0, <2>1, <2>3, <3>1 DEF SessionsOf
  <2>6. \A j \in ProgramIndex : j # i => \A b \in SessionsOf(j)' : b \in SessionsOf(j) /\ req'[b] = req[b]
    BY <1>0, <2>3 DEF SessionsOf
  <2>7. rows # <<>>
    BY <1>8 DEF StartCommits, checkAvailableResources
  <2> QED
    BY <2>1, <2>3, <2>4, <2>5, <2>6, <2>7 DEF Chips
<1>9. ASSUME NEW s \in Sources, StopActive(s)
      PROVE  Chips'
  <2>0. PICK a, i : a = session[s].handle /\ i = req[a].idx
    OBVIOUS
  <2>1. /\ a \in Requests /\ req' = [req EXCEPT ![a] = Freed] /\ i \in ProgramIndex /\ i \in ActiveRows
        /\ rows \in [ProgramIndex -> RowRecord]
        /\ \/ /\ Sent(i, "none", getNextTransactionIdForProgramIndex(i), 0)
              /\ rows'[i] = IdleRow(getNextTransactionIdForProgramIndex(i))
              /\ \A j \in ProgramIndex : j # i => rows'[j] = rows[j]
              /\ ActiveRows' = ActiveRows \ {i}
           \/ UNCHANGED <<rows, chip>>
    BY <1>9, <2>0, StopRow
  <2>2. Listed' = Listed \ {a} /\ \A b \in Requests : b # a => req'[b] = req[b]
    BY <1>0, <2>1, FreeRequest
  <2>3. \A j \in ProgramIndex : \A b \in SessionsOf(j)' : b \in SessionsOf(j) /\ req'[b] = req[b]
    BY <1>0, <1>1, <2>2
  <2>4. CASE UNCHANGED <<rows, chip>>
    BY <2>3, <2>4, ChipsKept DEF ActiveRows
  <2>5. CASE ~UNCHANGED <<rows, chip>>
    <3>1. /\ chip'[i].cmd = "none" /\ chip'[i].tid = rows'[i].tid
          /\ \A j \in ProgramIndex : j # i => chip'[j] = chip[j]
      BY <1>0, <2>1, <2>5 DEF Sent, IdleRow
    <3>2. rows # <<>>
      BY <2>1, NoTable, <1>0
    <3> QED
      BY <2>1, <2>3, <2>5, <3>1, <3>2 DEF Chips
  <2> QED
    BY <2>4, <2>5
<1>10. CASE handleCaEnable
  <2>0. PICK i : i = apdu.m.idx
    OBVIOUS
  <2>1. /\ i \in ActiveRows /\ i \in ProgramIndex /\ ActiveRows' = ActiveRows /\ DOMAIN rows' = DOMAIN rows
        /\ \A j \in ProgramIndex : j # i => rows'[j] = rows[j]
        /\ \/ rows'[i].tid = rows[i].tid /\ UNCHANGED chip
           \/ /\ rows'[i].tid = getNextTransactionIdForProgramIndex(i)
              /\ \E a \in SessionsOf(i) : Sent(i, "ok", getNextTransactionIdForProgramIndex(i), req[a].serial)
    BY <1>10, <2>0, EnableRow
  <2>2. UNCHANGED req /\ Listed' = Listed /\ (rows' = <<>> <=> rows = <<>>)
    BY <1>10, OtherThreads DEF handleCaEnable, Listed, Apdu
  <2>3. \A j : SessionsOf(j)' = SessionsOf(j)
    BY <2>2 DEF SessionsOf
  <2>4. CASE rows'[i].tid = rows[i].tid /\ UNCHANGED chip
    BY <2>1, <2>2, <2>3, <2>4, ChipsKept
  <2>5. CASE ~(rows'[i].tid = rows[i].tid /\ UNCHANGED chip)
    <3>1. PICK a \in SessionsOf(i) : Sent(i, "ok", getNextTransactionIdForProgramIndex(i), req[a].serial)
      BY <2>1, <2>5
    <3>2. /\ chip'[i].cmd = "ok" /\ chip'[i].tid = rows'[i].tid /\ chip'[i].serial = req[a].serial
          /\ \A j \in ProgramIndex : j # i => chip'[j] = chip[j]
      BY <1>0, <2>1, <2>5, <3>1 DEF Sent
    <3>3. \A b \in SessionsOf(i) : b = a
      BY <2>1, <3>1, RowHolders
    <3>4. rows # <<>>
      BY <1>0, <2>1, NoTable
    <3> QED
      BY <2>1, <2>2, <2>3, <3>2, <3>3, <3>4 DEF Chips
  <2> QED
    BY <2>4, <2>5
<1>11. CASE HandleCaSystemReady
  <2>1. ~Over /\ handler = "CA_SYSTEM_READY"
    BY <1>11, NewTable DEF Over
  <2>2. \A i \in ProgramIndex : chip'[i].tid = 0 /\ chip'[i].cmd = "none" /\ rows'[i].tid = 0
    BY <1>11, <2>1, NewTable DEF NothingSent, NoPmt, IdleRow
  <2> QED
    BY <1>11, <2>2, NewTable DEF Chips
<1>12. CASE HandleRemoved
  BY <1>12 DEF HandleRemoved, Chips
<1> QED
  BY <1>2, <1>3, <1>5, <1>6, <1>7, <1>8, <1>9, <1>10, <1>11, <1>12, QuietSteps

-----------------------------------------------------------------------------
(* Transaction ids and APDUs.                                              *)

\* What the APDU in the hands of the APDU thread may still take.
InHand == IF apdu.stage = "checked" THEN 2 ELSE IF apdu.stage = "locked" THEN apdu.left ELSE 0

LEMMA PendingParts ==
    ASSUME Types
    PROVE  /\ IsFiniteSet(Open) /\ IsFiniteSet(Asking)
           /\ Cardinality(Open) \in Nat /\ Cardinality(Asking) \in Nat
           /\ Len(wire) \in Nat /\ InHand \in 0 .. 2 /\ Pending \in Nat
           /\ Pending = Cardinality(Open) + 2 * Cardinality(Asking) + 2 * Len(wire) + InHand
<1>1. IsFiniteSet(Open) /\ IsFiniteSet(Asking)
  <2>1. IsFiniteSet(ProgramIndex) /\ IsFiniteSet(Sources)
    BY RowsFinite, PodConstants DEF Types
  <2> QED
    BY <2>1, FS_Subset DEF Open, Asking
<1>2. Cardinality(Open) \in Nat /\ Cardinality(Asking) \in Nat
  BY <1>1, FS_CardinalityType
<1>3. Len(wire) \in Nat
  BY LenProperties DEF Types, ApduTypes
<1>4. InHand \in 0 .. 2
  BY DEF Types, ApduTypes, InHand, NoApdu
<1>5. Pending = Cardinality(Open) + 2 * Cardinality(Asking) + 2 * Len(wire) + InHand
  BY DEF Pending, InHand
<1> QED
  BY <1>1, <1>2, <1>3, <1>4, <1>5

\* The next transaction id is greater.
LEMMA TidGrows ==
    ASSUME NoWrap, Types, Budget, NEW i \in DOMAIN rows
    PROVE  getNextTransactionIdForProgramIndex(i) = rows[i].tid + 1
<1>1. rows[i].tid \in Nat
  BY NextTid, PodConstants DEF Types, RowRecord
<1>2. rows[i].tid + Pending <= 4 * count.starts + 2 * count.updates
  BY DEF Budget
<1>3. /\ count.starts \in Nat /\ count.starts <= MaxStarts /\ MaxStarts \in Nat
      /\ count.updates \in Nat /\ count.updates <= MaxUpdates /\ MaxUpdates \in Nat
  BY PodConstants DEF Types, CountTypes
<1>4. rows[i].tid + 1 < TransactionIds
  <2>1. Pending \in Nat /\ TransactionIds \in Nat /\ 4 * MaxStarts + 2 * MaxUpdates + 1 < TransactionIds
    BY PendingParts, PodConstants DEF NoWrap
  <2>2. \A t, p, s, u, S, U, n \in Nat :
           t + p <= 4 * s + 2 * u /\ s <= S /\ u <= U /\ 4 * S + 2 * U + 1 < n => t + 1 < n
    OBVIOUS
  <2> QED
    BY <1>1, <1>2, <1>3, <2>1, <2>2
<1>5. \A x \in Nat, n \in Nat \ {0} : x + 1 < n => (x + 1) % n = x + 1
  OBVIOUS
<1> QED
  BY <1>1, <1>4, <1>5, PodConstants DEF getNextTransactionIdForProgramIndex

\* An APDU stays timely when its row keeps its transaction, or moves on.
LEMMA TimelyKept ==
    ASSUME Types, NEW m \in Apdus, Timely(m), rows' # <<>> => rows # <<>>,
           rows' # <<>> =>
              \A i \in ProgramIndex :
                 \/ /\ rows'[i].tid = rows[i].tid /\ chip'[i].serial = chip[i].serial
                    /\ chip'[i].cmd = "none" <=> chip[i].cmd = "none"
                 \/ rows'[i].tid = rows[i].tid + 1
    PROVE  Timely(m)'
<1> SUFFICES ASSUME rows' # <<>>
             PROVE  /\ m.tid <= rows'[m.idx].tid
                    /\ m.tid = rows'[m.idx].tid => chip'[m.idx].cmd # "none" /\ m.serial = chip'[m.idx].serial
  BY DEF Timely
<1>1. rows # <<>> /\ m.idx \in ProgramIndex /\ m.tid \in Nat /\ rows[m.idx].tid \in Nat
  BY PodConstants DEF Types, TableTypes, RowRecord, Apdus
<1> QED
  BY <1>1 DEF Timely

\* What a step does to the transactions of the rows.
LEMMA RowsMoveOn ==
    ASSUME OneCard, NoWrap, Types, Inv, Budget, Next, rows # <<>>, rows' # <<>>, NEW i \in ProgramIndex
    PROVE  \/ /\ rows'[i].tid = rows[i].tid /\ chip'[i].serial = chip[i].serial
              /\ chip'[i].cmd = "none" <=> chip[i].cmd = "none"
           \/ rows'[i].tid = rows[i].tid + 1
<1>0. /\ rows \in [ProgramIndex -> RowRecord] /\ chip \in [ProgramIndex -> PmtRecord]
      /\ \A j \in ProgramIndex : getNextTransactionIdForProgramIndex(j) = rows[j].tid + 1
  BY NoTable, TidGrows DEF Types, ChipTypes
<1>1. CASE Quiet
  <2>1. UNCHANGED rows
    BY <1>1, QuietIs
  <2>2. CASE CardInserted
    BY <2>2, InsertedFirst DEF Inv
  <2>3. ASSUME NEW j \in ProgramIndex, CardReplies(j)
        PROVE  chip'[i].serial = chip[i].serial /\ (chip'[i].cmd = "none" <=> chip[i].cmd = "none")
    BY <1>0, <2>3 DEF CardReplies, PmtRecord
  <2>4. UNCHANGED chip \/ \E j \in ProgramIndex : CardReplies(j)
    BY <1>1, <2>2, QuietChips, InsertedFirst DEF Inv
  <2> QED
    BY <2>1, <2>3, <2>4
<1>2. CASE StartCleansUp \/ \E s \in Sources : StartWaits(s) \/ StartFails(s) \/ StopWaiting(s)
  BY <1>2 DEF StartCleansUp, StartWaits, StartFails, StopWaiting
<1>3. ASSUME NEW s \in Sources, StartCommits(s)
      PROVE  rows'[i].tid = rows[i].tid + 1 \/ (rows'[i] = rows[i] /\ chip'[i] = chip[i])
  <2>1. PICK a \in Requests \ Listed, j \in ProgramIndex \ ActiveRows, cmd \in {"query", "ok"},
             state \in {"ISSUED_QUERY", "DESCRAMBLING"}, events \in SUBSET SessionEvents :
            /\ Sent(j, cmd, getNextTransactionIdForProgramIndex(j), count.starts + 1)
            /\ rows'[j].tid = getNextTransactionIdForProgramIndex(j)
            /\ \A k \in ProgramIndex : k # j => rows'[k] = rows[k]
    BY <1>3, CommitRow DEF Inv
  <2>2. \A k \in ProgramIndex : k # j => chip'[k] = chip[k]
    BY <1>0, <2>1 DEF Sent
  <2> QED
    BY <1>0, <2>1, <2>2
<1>4. ASSUME NEW s \in Sources, StopActive(s)
      PROVE  rows'[i].tid = rows[i].tid + 1 \/ (rows'[i] = rows[i] /\ chip'[i] = chip[i])
  <2>0. PICK j : j = req[session[s].handle].idx
    OBVIOUS
  <2>1. /\ j \in ProgramIndex
        /\ \/ /\ Sent(j, "none", getNextTransactionIdForProgramIndex(j), 0)
              /\ rows'[j] = IdleRow(getNextTransactionIdForProgramIndex(j))
              /\ \A k \in ProgramIndex : k # j => rows'[k] = rows[k]
           \/ UNCHANGED <<rows, chip>>
    BY <1>4, <2>0, StopRow DEF Inv
  <2>2. UNCHANGED <<rows, chip>> \/ \A k \in ProgramIndex : k # j => chip'[k] = chip[k]
    BY <1>0, <2>1 DEF Sent
  <2>3. IdleRow(getNextTransactionIdForProgramIndex(j)).tid = getNextTransactionIdForProgramIndex(j)
    BY DEF IdleRow
  <2> QED
    BY <1>0, <2>1, <2>2, <2>3
<1>5. CASE handleCaEnable
  <2>0. PICK j : j = apdu.m.idx
    OBVIOUS
  <2>1. /\ j \in ProgramIndex
        /\ \A k \in ProgramIndex : k # j => rows'[k] = rows[k]
        /\ \/ rows'[j].tid = rows[j].tid /\ UNCHANGED chip
           \/ /\ rows'[j].tid = getNextTransactionIdForProgramIndex(j)
              /\ \E a \in SessionsOf(j) : Sent(j, "ok", getNextTransactionIdForProgramIndex(j), req[a].serial)
    BY <1>5, <2>0, EnableRow DEF Inv
  <2>2. UNCHANGED chip \/ \A k \in ProgramIndex : k # j => chip'[k] = chip[k]
    BY <1>0, <2>1 DEF Sent
  <2> QED
    BY <1>0, <2>1, <2>2
<1>6. CASE HandleCaSystemReady \/ HandleRemoved
  BY <1>6, NewTable DEF HandleRemoved, Inv
<1> QED
  BY <1>1, <1>2, <1>3, <1>4, <1>5, <1>6, QuietSteps

\* No step but CA_SYSTEM_READY makes a table.
LEMMA TableStays ==
    ASSUME Types, Next, ~HandleCaSystemReady
    PROVE  rows' # <<>> => rows # <<>>
<1>1. CASE Quiet
  BY <1>1, QuietIs
<1>2. CASE HandleRemoved
  BY <1>2 DEF HandleRemoved
<1> QED
  BY <1>1, <1>2, QuietSteps, OtherThreads DEF Ipc, Apdu

\* While the APDU thread has the mutex its row stays in use, by the session it is about.
LEMMA LockedKept ==
    ASSUME Types, Inv, Next, apdu.stage = "locked", NEW m, m = apdu.m
    PROVE  m.idx \in ActiveRows' /\ \A a \in SessionsOf(m.idx)' : req'[a].serial = m.serial
<1>0. /\ m.idx \in ActiveRows /\ \A a \in SessionsOf(m.idx) : req[a].serial = m.serial
      /\ ~MutexFree /\ TableTypes
  BY DEF Inv, ApdusTimely, MutexFree, Types
<1>1. ASSUME ActiveRows' = ActiveRows, Listed' \subseteq Listed, \A a \in Listed' : req'[a] = req[a]
      PROVE  m.idx \in ActiveRows' /\ \A a \in SessionsOf(m.idx)' : req'[a].serial = m.serial
  BY <1>0, <1>1 DEF SessionsOf
<1>2. CASE Quiet
  BY <1>1, <1>2, QuietIs
<1>3. CASE handleCaEnable
  BY <1>1, <1>3, EnableRow DEF Inv, handleCaEnable, Listed
<1>4. CASE StartCleansUp
  <2>1. /\ ipc \in Requests /\ req' = [req EXCEPT ![ipc] = Freed] /\ UNCHANGED rows
    BY <1>4 DEF StartCleansUp, Types, ServerTypes
  <2>2. Listed' = Listed \ {ipc} /\ \A a \in Requests : a # ipc => req'[a] = req[a]
    BY <1>0, <2>1, FreeRequest
  <2> QED
    BY <1>1, <2>1, <2>2 DEF ActiveRows, Listed
<1>5. ~HandleCaSystemReady /\ ~HandleRemoved
      /\ \A s \in Sources : ~(StartWaits(s) \/ StartCommits(s) \/ StartFails(s) \/ StopWaiting(s) \/ StopActive(s))
  BY <1>0 DEF HandleCaSystemReady, HandleRemoved, StartWaits, StartCommits, StartFails, StopWaiting,
     StopActive, Starting, Stopping
<1> QED
  BY <1>2, <1>3, <1>4, <1>5, QuietSteps

OnWire(m) == \E k \in DOMAIN wire : wire[k] = m

\* What the APDUs after a step have to be.
LEMMA ApdusTimelyIf ==
    ASSUME wire' \in Seq(Apdus),
           \A m \in Apdus : OnWire(m)' => Timely(m)',
           apdu'.stage = "checked" => \A m : m = apdu'.m => Timely(m)',
           apdu'.stage = "locked" => \A m : m = apdu'.m =>
               m.idx \in ActiveRows' /\ \A a \in SessionsOf(m.idx)' : req'[a].serial = m.serial
    PROVE  ApdusTimely'
<1>1. \A k \in DOMAIN wire' : Timely(wire[k])'
  <2> SUFFICES ASSUME NEW k \in DOMAIN wire'
               PROVE  Timely(wire[k])'
    OBVIOUS
  <2>1. PICK m \in Apdus : m = wire'[k]
    OBVIOUS
  <2>2. Timely(m)'
    BY <2>1 DEF OnWire
  <2> QED
    BY <2>1, <2>2 DEF Timely
<1>2. apdu'.stage = "checked" => Timely(apdu.m)'
  BY DEF Timely
<1> QED
  BY <1>1, <1>2 DEF ApdusTimely, SessionsOf

LEMMA ApdusTimelyStep ==
    ASSUME OneCard, NoWrap, Types, Inv, Budget, Next
    PROVE  ApdusTimely'
<1>0. /\ wire \in Seq(Apdus) /\ ApduTypes /\ wire' \in Seq(Apdus)
      /\ \A m \in Apdus : OnWire(m) => Timely(m)
      /\ apdu.stage = "checked" => apdu.m \in Apdus /\ Timely(apdu.m)
  <2>1. Types'
    BY TypesStep
  <2> QED
    BY <2>1 DEF Types, ApduTypes, Inv, ApdusTimely, NoApdu, OnWire
<1>1. CASE HandleCaSystemReady
  <2>1. ~Over
    BY <1>1, NewTable DEF Over, Inv
  <2>2. wire' = <<>> /\ apdu' = NoApdu
    BY <1>1, <2>1, NewTable DEF Inv, NothingSent
  <2> QED
    BY <2>2 DEF ApdusTimely, NoApdu
<1>2. CASE ~HandleCaSystemReady
  <2>1. ASSUME NEW m \in Apdus, Timely(m)
        PROVE  Timely(m)'
    BY <1>2, <2>1, TableStays, RowsMoveOn, TimelyKept
  <2>2. ASSUME apdu' = apdu
        PROVE  /\ apdu'.stage = "checked" => \A m : m = apdu'.m => Timely(m)'
               /\ apdu'.stage = "locked" => \A m : m = apdu'.m =>
                     m.idx \in ActiveRows' /\ \A a \in SessionsOf(m.idx)' : req'[a].serial = m.serial
    BY <1>0, <2>1, <2>2, LockedKept
  <2>3. CASE UNCHANGED <<wire, apdu>>
    <3>1. \A m \in Apdus : OnWire(m)' => Timely(m)'
      BY <1>0, <2>1, <2>3 DEF OnWire
    <3> QED
      BY <1>0, <2>2, <2>3, <3>1, ApdusTimelyIf
  <2>4. CASE ApduReceive
    <3>1. /\ wire # <<>> /\ wire' = Tail(wire)
          /\ apdu' = NoApdu \/ apdu' = [stage |-> "checked", m |-> Head(wire)]
      BY <2>4 DEF ApduReceive
    <3>2. Head(wire) \in Apdus /\ OnWire(Head(wire))
      BY <1>0, <3>1, HeadTailProperties DEF OnWire
    <3>3. \A m \in Apdus : OnWire(m)' => OnWire(m)
      BY <1>0, <3>1, HeadTailProperties DEF OnWire
    <3>4. \A m \in Apdus : OnWire(m)' => Timely(m)'
      BY <1>0, <2>1, <3>3
    <3>5. apdu'.stage # "locked" /\ (apdu'.stage = "checked" => apdu'.m = Head(wire))
      BY <3>1 DEF NoApdu
    <3>6. apdu'.stage = "checked" => \A m : m = apdu'.m => Timely(m)'
      BY <1>0, <2>1, <3>2, <3>5
    <3> QED
      BY <1>0, <3>4, <3>5, <3>6, ApdusTimelyIf
  <2>5. CASE ApduValidate
    <3>1. /\ UNCHANGED <<wire, rows, req>> /\ apdu.stage = "checked"
          /\ apdu'.stage # "checked"
          /\ apdu'.stage = "locked" => apdu'.m = apdu.m /\ (isValidReply(apdu.m) \/ isValidUpdate(apdu.m))
      BY <2>5 DEF ApduValidate, table, NoApdu
    <3>2. \A m \in Apdus : OnWire(m)' => Timely(m)'
      BY <1>0, <2>1, <3>1 DEF OnWire
    <3>3. ASSUME apdu'.stage = "locked", NEW m, m = apdu'.m
          PROVE  m.idx \in ActiveRows' /\ \A a \in SessionsOf(m.idx)' : req'[a].serial = m.serial
      <4>1. m \in Apdus /\ Timely(m) /\ m.idx \in DOMAIN rows /\ rows[m.idx].tid = m.tid
        BY <1>0, <3>1, <3>3 DEF isValidReply, isValidUpdate
      <4>2. rows # <<>> /\ m.idx \in ProgramIndex
        BY <4>1 DEF Types, TableTypes
      <4>3. m.idx \in ActiveRows /\ \A a \in SessionsOf(m.idx) : req[a].serial = m.serial
        BY <4>1, <4>2 DEF Timely, Inv, Chips
      <4> QED
        BY <3>1, <4>3 DEF ActiveRows, SessionsOf, Listed
    <3> QED
      BY <1>0, <3>1, <3>2, <3>3, ApdusTimelyIf
  <2>6. CASE handleCaEnable
    <3>1. /\ UNCHANGED wire /\ apdu.stage = "locked" /\ apdu'.stage # "checked"
          /\ apdu'.stage = "locked" => apdu'.m = apdu.m
      BY <2>6 DEF handleCaEnable, NoApdu
    <3>2. \A m \in Apdus : OnWire(m)' => Timely(m)'
      BY <1>0, <2>1, <3>1 DEF OnWire
    <3> QED
      BY <1>0, <3>1, <3>2, LockedKept, ApdusTimelyIf
  <2>7. ASSUME NEW i \in ProgramIndex, CardReplies(i) \/ CardUpdates(i)
        PROVE  ApdusTimely'
    <3>1. PICK m : /\ wire' = Append(wire, m) /\ m.idx = i /\ m.tid = chip[i].tid
                   /\ m.serial = chip[i].serial
      BY <2>7 DEF CardReplies, CardUpdates
    <3>2. UNCHANGED <<rows, apdu>> /\ chip[i].cmd # "none"
      BY <2>7 DEF CardReplies, CardUpdates, CardStep, table
    <3>3. rows # <<>> => chip[i].tid = rows[i].tid /\ rows[i].tid \in Nat
      BY PodConstants DEF Inv, Chips, Types, TableTypes, RowRecord
    <3>4. Timely(m)
      BY <3>1, <3>2, <3>3 DEF Timely
    <3>5. m \in Apdus
      BY <1>0, <3>1, AppendProperties, LenProperties
    <3>6. \A x \in Apdus : OnWire(x)' => OnWire(x) \/ x = m
      BY <1>0, <3>1, <3>5, AppendProperties, LenProperties DEF OnWire
    <3>7. \A x \in Apdus : OnWire(x)' => Timely(x)'
      BY <1>0, <2>1, <3>4, <3>6
    <3> QED
      BY <1>0, <2>2, <3>2, <3>7, ApdusTimelyIf
  <2>8. UNCHANGED <<wire, apdu>> \/ Apdu \/ \E i \in ProgramIndex : CardReplies(i) \/ CardUpdates(i)
    <3>1. CASE Card
      BY <3>1 DEF Card, CardInserted, CardBecomesReady, CardRemoved, CardOpens, CardStep
    <3>2. CASE Handler
      BY <3>2 DEF Handler, HandlerAnnounces, HandleReady, HandleCaSystemReady, HandleConnect,
         HandleRemoved, HandleUnready, HandleClose
    <3>3. CASE StartCleansUp \/ \E s \in Sources : Ipc(s) \/ Forget(s)
      BY <3>3 DEF StartCleansUp, Ipc, StartRefused, StartWaits, StartCommits, StartFails, StopUnknown,
         StopWaiting, StopActive, Forget
    <3> QED
      BY <3>1, <3>2, <3>3 DEF Next
  <2> QED
    BY <2>3, <2>4, <2>5, <2>6, <2>7, <2>8 DEF Apdu
<1> QED
  BY <1>1, <1>2

-----------------------------------------------------------------------------
(* The sources and their handles.                                          *)

\* Steps that leave the requests of the sources alone and unsay nothing.
LEMMA ClientsKept ==
    ASSUME Types, Clients, Over => Over', UNCHANGED session,
           \A a \in Listed : req[a].state # "UNKNOWN" => a \in Listed' /\ req'[a] = req[a],
           \A a \in Listed' \ {ipc'} : a \in Listed \ {ipc} /\ req'[a] = req[a],
           \A s \in Sources : told[s] \subseteq told'[s],
           handler = "REMOVED" => handler' = "REMOVED",
           \A s \in Sources : "REMOVED" \in told'[s] =>
              "REMOVED" \in told[s] \/ handler' = "REMOVED" \/ Over'
    PROVE  Clients'
<1>1. ASSUME NEW s \in Sources, session'[s] # NoSession
      PROVE  Owned(s)' \/ (Over' /\ told'[s] \cap {"REMOVED", "lost"} # {})
  <2>1. CASE Owned(s)
    BY <2>1 DEF Owned
  <2> QED
    BY <1>1, <2>1 DEF Clients
<1>2. ASSUME NEW a \in Listed' \ {ipc'}
      PROVE  \/ handler' = "REMOVED"
             \/ \E s \in Sources : session'[s] = [handle |-> a, serial |-> req'[a].serial]
  BY DEF Clients
<1>3. \A s \in Sources : "REMOVED" \in told'[s] => handler' = "REMOVED" \/ Over'
  BY DEF Clients
<1> QED
  BY <1>1, <1>2, <1>3 DEF Clients

\* A start that returns a handle.
LEMMA ClientsReturned ==
    ASSUME Types, Clients, ~Over, NEW s \in Sources, session[s] = NoSession, ipc = NULL,
           UNCHANGED <<ipc, handler>>,
           NEW a \in Requests \ Listed, NEW i \in ProgramIndex \cup {NoIndex},
           NEW state \in {"ACTIVE", "WAITING"}, NEW events, state = "WAITING" => "lost" \in events,
           "REMOVED" \notin events,
           req' = [req EXCEPT ![a] = NewRequest(s, state, i)], Returns(s, a, events)
    PROVE  Clients'
<1>0. /\ Listed \subseteq Requests /\ NULL \notin Requests /\ TableTypes
      /\ session \in [Sources -> SessionRecord]
      /\ told \in [Sources -> SUBSET (SessionEvents \cup {"REMOVED"})]
  BY PodConstants DEF Listed, Types, ClientTypes
<1>1. /\ Listed' = Listed \cup {a} /\ req'[a].state = state /\ req'[a].owner = s
      /\ req'[a].serial = count.starts + 1
      /\ \A b \in Requests : b # a => req'[b] = req[b]
  BY <1>0, NewListed
<1>2. /\ session'[s] = [handle |-> a, serial |-> count.starts + 1]
      /\ told'[s] = (told[s] \cap {"REMOVED"}) \cup events
      /\ \A r \in Sources : r # s => session'[r] = session[r] /\ told'[r] = told[r]
  BY <1>0 DEF Returns
<1>3. ASSUME NEW r \in Sources, session'[r] # NoSession
      PROVE  Owned(r)'
  <2>1. CASE r = s
    BY <1>1, <1>2, <2>1 DEF Owned
  <2>2. CASE r # s
    <3>1. Owned(r) /\ session'[r] = session[r] /\ told'[r] = told[r]
      BY <1>2, <1>3, <2>2 DEF Clients
    <3>2. session[r].handle \in Listed /\ session[r].handle # a
      BY <3>1 DEF Owned
    <3> QED
      BY <1>0, <1>1, <3>1, <3>2 DEF Owned
  <2> QED
    BY <2>1, <2>2
<1>4. ASSUME NEW b \in Listed' \ {ipc'}
      PROVE  \/ handler' = "REMOVED"
             \/ \E r \in Sources : session'[r] = [handle |-> b, serial |-> req'[b].serial]
  <2>1. CASE b = a
    BY <1>1, <1>2, <2>1
  <2>2. CASE b # a
    <3>1. b \in Listed \ {ipc} /\ req'[b] = req[b]
      BY <1>0, <1>1, <2>2
    <3>2. CASE \E r \in Sources : session[r] = [handle |-> b, serial |-> req[b].serial]
      <4>1. PICK r \in Sources : session[r] = [handle |-> b, serial |-> req[b].serial]
        BY <3>2
      <4>2. r # s
        BY <1>0, <3>1, <4>1 DEF NoSession
      <4> QED
        BY <1>2, <3>1, <4>1, <4>2
    <3> QED
      BY <3>1, <3>2 DEF Clients
  <2> QED
    BY <2>1, <2>2
<1>5. \A r \in Sources : "REMOVED" \in told'[r] => "REMOVED" \in told[r]
  BY <1>2
<1> QED
  BY <1>3, <1>4, <1>5 DEF Clients

\* A source that stops: its request, if listed, goes with its handle.
LEMMA ClientsStopped ==
    ASSUME Types, Clients, Over => Over', NEW s \in Sources, NEW a, a = session[s].handle,
           session' = [session EXCEPT ![s] = NoSession], UNCHANGED <<ipc, handler, told>>,
           \/ a \notin Listed /\ UNCHANGED req
           \/ a \in Listed /\ Owned(s) /\ req' = [req EXCEPT ![a] = Freed]
    PROVE  Clients'
<1>0. /\ Listed \subseteq Requests /\ TableTypes /\ session \in [Sources -> SessionRecord]
  BY DEF Listed, Types, ClientTypes
<1>1. /\ Listed' = Listed \ {a} /\ \A b \in Listed' : req'[b] = req[b]
  <2>1. CASE a \notin Listed /\ UNCHANGED req
    BY <2>1 DEF Listed
  <2>2. CASE a \in Listed /\ Owned(s) /\ req' = [req EXCEPT ![a] = Freed]
    BY <1>0, <2>2, FreeRequest
  <2> QED
    BY <2>1, <2>2
<1>2. session'[s] = NoSession /\ \A r \in Sources : r # s => session'[r] = session[r]
  BY <1>0
<1>3. ASSUME NEW r \in Sources, session'[r] # NoSession
      PROVE  Owned(r)' \/ (Over' /\ told'[r] \cap {"REMOVED", "lost"} # {})
  <2>1. r # s /\ session'[r] = session[r] /\ session[r] # NoSession
    BY <1>2, <1>3
  <2>2. CASE Owned(r)
    <3>1. session[r].handle # a
      BY <2>1, <2>2 DEF Owned
    <3> QED
      BY <1>1, <2>1, <2>2, <3>1 DEF Owned
  <2> QED
    BY <2>1, <2>2 DEF Clients
<1>4. ASSUME NEW b \in Listed' \ {ipc'}
      PROVE  \/ handler' = "REMOVED"
             \/ \E r \in Sources : session'[r] = [handle |-> b, serial |-> req'[b].serial]
  <2>1. b \in Listed \ {ipc} /\ b # a /\ req'[b] = req[b]
    BY <1>1
  <2>2. ASSUME NEW r \in Sources, session[r] = [handle |-> b, serial |-> req[b].serial]
        PROVE  session'[r] = [handle |-> b, serial |-> req'[b].serial]
    BY <1>2, <2>1, <2>2
  <2> QED
    BY <2>1, <2>2 DEF Clients
<1>5. \A r \in Sources : "REMOVED" \in told'[r] => handler' = "REMOVED" \/ Over'
  BY DEF Clients
<1> QED
  BY <1>3, <1>4, <1>5 DEF Clients

LEMMA ClientsStep ==
    ASSUME OneCard, Types, Inv, Next
    PROVE  Clients'
<1>0. /\ Over => Over'
      /\ TableTypes /\ CardLife /\ CasLife /\ Holders /\ Clients /\ RowsAccounted
      /\ NULL \notin Requests /\ Listed \subseteq Requests
      /\ told \in [Sources -> SUBSET (SessionEvents \cup {"REMOVED"})]
      /\ session \in [Sources -> SessionRecord]
  BY OverStays, PodConstants DEF Types, Inv, Listed, ClientTypes
<1>1. ASSUME UNCHANGED <<req, ipc, handler, session, told>>
      PROVE  Clients'
  BY <1>0, <1>1, ClientsKept DEF Listed
<1>2. ASSUME NEW s \in Sources, StartRefused(s)
      PROVE  Clients'
  BY <1>1, <1>2 DEF StartRefused, table, server, client
<1>3. ASSUME NEW s \in Sources, Starting(s), checkAvailableResources(s)
      PROVE  ~Over /\ session[s] = NoSession /\ ipc = NULL
  BY <1>3 DEF Starting, checkAvailableResources, Over
<1>4. ASSUME NEW s \in Sources, StartWaits(s)
      PROVE  Clients'
  <2>1. PICK a \in Requests \ Listed : req' = [req EXCEPT ![a] = NewRequest(s, "WAITING", NoIndex)]
                                       /\ Returns(s, a, {"lost"})
    BY <1>4 DEF StartWaits
  <2>2. ~Over /\ session[s] = NoSession /\ ipc = NULL /\ UNCHANGED <<ipc, handler>>
    BY <1>3, <1>4 DEF StartWaits, server
  <2> QED
    BY <1>0, <2>1, <2>2, ClientsReturned
<1>5. ASSUME NEW s \in Sources, StartCommits(s)
      PROVE  Clients'
  <2>1. PICK a \in Requests \ Listed, i \in ProgramIndex \ ActiveRows, cmd \in {"query", "ok"},
             state \in {"ISSUED_QUERY", "DESCRAMBLING"}, events \in SUBSET SessionEvents :
            req' = [req EXCEPT ![a] = NewRequest(s, "ACTIVE", i)] /\ Returns(s, a, events)
    BY <1>0, <1>5, CommitRow
  <2>2. ~Over /\ session[s] = NoSession /\ ipc = NULL /\ UNCHANGED <<ipc, handler>>
    BY <1>3, <1>5 DEF StartCommits, server
  <2>3. "REMOVED" \notin events
    BY <2>1 DEF SessionEvents
  <2> QED
    BY <1>0, <2>1, <2>2, <2>3, ClientsReturned
<1>6. ASSUME NEW s \in Sources, StartFails(s)
      PROVE  Clients'
  <2>0. PICK i : i = getNextAvailableProgramIndexTableRow
    OBVIOUS
  <2>1. PICK a \in Requests \ Listed : req' = [req EXCEPT ![a] = NewRequest(s, "UNKNOWN", i)] /\ ipc' = a
    BY <1>6, <2>0 DEF StartFails
  <2>2. ipc = NULL /\ UNCHANGED <<handler, session, told>>
    BY <1>3, <1>6 DEF StartFails, client
  <2>3. Listed' = Listed \cup {a} /\ \A b \in Requests : b # a => req'[b] = req[b]
    BY <1>0, <2>1 DEF NewRequest, TableTypes, Listed
  <2> QED
    BY <1>0, <2>1, <2>2, <2>3, ClientsKept
<1>7. ASSUME NEW s \in Sources, StopUnknown(s)
      PROVE  Clients'
  <2>1. PICK a : a = session[s].handle
    OBVIOUS
  <2>2. /\ session' = [session EXCEPT ![s] = NoSession] /\ UNCHANGED <<ipc, handler, told, req>>
        /\ a \notin Listed
    BY <1>7, <2>1 DEF StopUnknown, Stopping, server, table
  <2> QED
    BY <1>0, <2>1, <2>2, ClientsStopped
<1>8. ASSUME NEW s \in Sources, StopWaiting(s) \/ StopActive(s)
      PROVE  Clients'
  <2>1. PICK a : a = session[s].handle
    OBVIOUS
  <2>2. /\ Stopping(s) /\ UNCHANGED <<ipc, handler, told>> /\ a \in Listed
        /\ req' = [req EXCEPT ![a] = Freed]
    BY <1>8, <2>1 DEF StopWaiting, StopActive, server
  <2>3. Owned(s) /\ session' = [session EXCEPT ![s] = NoSession]
    BY <1>0, <2>1, <2>2, StopOwn DEF Stopping
  <2> QED
    BY <1>0, <2>1, <2>2, <2>3, ClientsStopped
<1>9. ASSUME NEW s \in Sources, Forget(s)
      PROVE  Clients'
  <2>1. /\ "REMOVED" \in told[s] /\ session' = [session EXCEPT ![s] = NoSession]
        /\ told' = [told EXCEPT ![s] = @ \ {"REMOVED"}]
        /\ UNCHANGED <<req, ipc, handler, rows, card, evq>>
    BY <1>9 DEF Forget, table, server
  <2>2. handler' = "REMOVED" \/ Over'
    BY <1>0, <2>1 DEF Clients
  <2>3. \A a \in Listed' \ {ipc'} : handler' = "REMOVED"
    BY <2>2 DEF Over
  <2>4. ASSUME NEW r \in Sources, session'[r] # NoSession
        PROVE  Owned(r)' \/ (Over' /\ told'[r] \cap {"REMOVED", "lost"} # {})
    <3>1. r # s /\ session'[r] = session[r] /\ told'[r] = told[r]
      BY <1>0, <2>1, <2>4
    <3> QED
      BY <1>0, <2>1, <2>4, <3>1 DEF Clients, Owned, Listed
  <2> QED
    BY <2>2, <2>3, <2>4 DEF Clients
<1>10. CASE StartCleansUp
  <2>1. /\ ipc \in Requests /\ req' = [req EXCEPT ![ipc] = Freed] /\ ipc' = NULL
        /\ UNCHANGED <<handler, session, told>>
    BY <1>10 DEF StartCleansUp, Types, ServerTypes, client
  <2>2. Listed' = Listed \ {ipc} /\ \A a \in Requests : a # ipc => req'[a] = req[a]
    BY <1>0, <2>1, FreeRequest
  <2>3. \A a \in Listed : req[a].state # "UNKNOWN" => a # ipc
    BY <1>0 DEF Holders
  <2> QED
    BY <1>0, <2>1, <2>2, <2>3, ClientsKept
<1>11. CASE ApduReceive \/ ApduValidate
  BY <1>1, <1>11 DEF ApduReceive, ApduValidate, table, server, client
<1>12. CASE handleCaEnable
  <2>1. UNCHANGED <<req, ipc, handler, session>>
    BY <1>12 DEF handleCaEnable, server
  <2>2. \A s \in Sources : told[s] \subseteq told'[s] /\ ("REMOVED" \in told'[s] => "REMOVED" \in told[s])
    BY <1>12, EnableTells
  <2> QED
    BY <1>0, <2>1, <2>2, ClientsKept DEF Listed
<1>13. CASE Card
  BY <1>1, <1>13 DEF Card, CardInserted, CardBecomesReady, CardRemoved, CardOpens, CardReplies,
     CardUpdates, CardStep, table, server, client
<1>14. CASE HandlerAnnounces
  <2>1. /\ handler = "wait" /\ evq # <<>> /\ handler' = Head(evq) /\ UNCHANGED <<req, ipc, session>>
        /\ told' = [s \in Sources |-> IF handler' = "REMOVED" THEN told[s] \cup {"REMOVED"} ELSE told[s]]
    BY <1>14 DEF HandlerAnnounces, table
  <2> QED
    BY <1>0, <2>1, ClientsKept DEF Listed
<1>15. CASE HandleReady \/ HandleConnect \/ HandleUnready \/ HandleClose \/ HandleCaSystemReady
  <2>1. handler # "REMOVED" /\ UNCHANGED <<req, ipc, session, told>>
    BY <1>15 DEF HandleReady, HandleConnect, HandleUnready, HandleClose, HandleCaSystemReady, table, client
  <2> QED
    BY <1>0, <2>1, ClientsKept DEF Listed
<1>16. CASE HandleRemoved
  <2>1. /\ handler = "REMOVED" /\ UNCHANGED <<session, ipc>>
        /\ told' = [s \in Sources |->
                     IF \E a \in Suspended : req[a].owner = s THEN told[s] \cup {"lost"} ELSE told[s]]
    BY <1>16 DEF HandleRemoved
  <2>2. Over'
    <3>1. CardLife' /\ handler' = "unready"
      BY <1>0, <1>16, CardLifeStep DEF HandleRemoved
    <3> QED
      BY <3>1 DEF CardLife
  <2>3. \A a \in Listed' \ {ipc'} : FALSE
    BY <2>2 DEF Over
  <2>4. ASSUME NEW s \in Sources, session[s] # NoSession
        PROVE  "lost" \in told'[s]
    <3>1. Owned(s)
      BY <1>0, <2>1, <2>4 DEF Clients, Over
    <3>2. PICK a : a = session[s].handle
      OBVIOUS
    <3>3. a \in Listed /\ req[a].owner = s /\ (a \in Suspended \/ "lost" \in told[s])
      BY <1>0, <3>1, <3>2 DEF Owned, Holders, Suspended
    <3> QED
      BY <2>1, <3>3
  <2> QED
    BY <2>1, <2>2, <2>3, <2>4 DEF Clients
<1> QED
  BY <1>2, <1>4, <1>5, <1>6, <1>7, <1>8, <1>9, <1>10, <1>11, <1>12, <1>13, <1>14, <1>15, <1>16
  DEF Next, Ipc, Apdu, Handler

-----------------------------------------------------------------------------
(* The transaction ids still to be taken.                                  *)

PendingFacts ==
    /\ IsFiniteSet(Open) /\ IsFiniteSet(Asking)
    /\ Cardinality(Open) \in Nat /\ Cardinality(Asking) \in Nat
    /\ Len(wire) \in Nat /\ InHand \in 0 .. 2 /\ Pending \in Nat
    /\ Pending = Cardinality(Open) + 2 * Cardinality(Asking) + 2 * Len(wire) + InHand

LEMMA PendingPrimed == Types' => PendingFacts'
<1>1. Types => PendingFacts
  BY PendingParts DEF PendingFacts
<1> QED
  BY <1>1, PTL

Allowed == 4 * count.starts + 2 * count.updates

\* A step that takes at most as many transaction ids as it gives up.
LEMMA BudgetIf ==
    ASSUME Types, Types', Budget, NEW taken \in 0 .. 1, NEW given \in 0 .. 4,
           \/ given = 4 /\ count'.starts = count.starts + 1 /\ count'.updates = count.updates
           \/ given = 2 /\ count'.starts = count.starts /\ count'.updates = count.updates + 1
           \/ given = 0 /\ UNCHANGED count,
           Pending' + taken <= Pending + given,
           \A i \in DOMAIN rows' :
              rows'[i].tid = 0 \/ (i \in DOMAIN rows /\ rows'[i].tid <= rows[i].tid + taken)
    PROVE  Budget'
<1>1. /\ count.starts \in Nat /\ count.updates \in Nat /\ Pending \in Nat /\ Pending' \in Nat
      /\ count'.starts \in Nat /\ count'.updates \in Nat
  BY PendingParts, PendingPrimed, PodConstants DEF Types, CountTypes, PendingFacts
<1>2. Allowed' = Allowed + given /\ Allowed \in Nat
  BY <1>1 DEF Allowed
<1>3. Pending <= Allowed /\ \A i \in DOMAIN rows : rows[i].tid + Pending <= Allowed
  BY DEF Budget, Allowed
<1>4. Allowed' = 4 * count'.starts + 2 * count'.updates
  BY DEF Allowed
<1> HIDE DEF Allowed
<1>5. Pending' <= Allowed'
  <2>1. \A p, p2, l \in Nat : p2 + taken <= p + given /\ p <= l => p2 <= l + given
    OBVIOUS
  <2> QED
    BY <1>1, <1>2, <1>3, <2>1
<1>6. ASSUME NEW i \in DOMAIN rows'
      PROVE  rows'[i].tid + Pending' <= Allowed'
  <2>1. CASE rows'[i].tid = 0
    BY <1>1, <1>5, <2>1
  <2>2. CASE i \in DOMAIN rows /\ rows'[i].tid <= rows[i].tid + taken
    <3>1. rows[i].tid \in Nat
      BY <2>2, NextTid, PodConstants DEF Types, RowRecord
    <3>2. rows'[i].tid \in Nat
      BY PodConstants DEF Types, TableTypes, RowRecord
    <3>3. rows[i].tid + Pending <= Allowed
      BY <1>3, <2>2
    <3>4. \A t, t2, p, p2, l \in Nat :
             t2 <= t + taken /\ p2 + taken <= p + given /\ t + p <= l => t2 + p2 <= l + given
      OBVIOUS
    <3> QED
      BY <1>1, <1>2, <2>2, <3>1, <3>2, <3>3, <3>4
  <2> QED
    BY <1>6, <2>1, <2>2
<1> QED
  BY <1>4, <1>5, <1>6 DEF Budget

\* The sessions the sources hold.
LEMMA OpenReturned ==
    ASSUME Types, NEW s \in Sources, session[s] = NoSession, NEW a \in Requests, NEW events,
           Returns(s, a, events)
    PROVE  Cardinality(Open') = Cardinality(Open) + 1
<1>1. session \in [Sources -> SessionRecord] /\ a # NULL
  BY PodConstants DEF Types, ClientTypes
<1>2. /\ session'[s] # NoSession /\ \A r \in Sources : r # s => session'[r] = session[r]
  BY <1>1 DEF Returns, NoSession
<1>3. Open' = Open \cup {s} /\ s \notin Open
  BY <1>2 DEF Open
<1> QED
  BY <1>3, PendingParts, FS_AddElement

LEMMA OpenDropped ==
    ASSUME Types, NEW s \in Sources, session' = [session EXCEPT ![s] = NoSession]
    PROVE  /\ Cardinality(Open') <= Cardinality(Open)
           /\ session[s] # NoSession => Cardinality(Open') = Cardinality(Open) - 1
<1>1. session \in [Sources -> SessionRecord]
  BY DEF Types, ClientTypes
<1>2. Open' = Open \ {s}
  BY <1>1 DEF Open
<1>3. session[s] # NoSession => s \in Open
  BY DEF Open
<1> QED
  BY <1>2, <1>3, PendingParts, FS_RemoveElement, FS_Subset

\* The queries the card has yet to answer.
LEMMA AskingSent ==
    ASSUME Types, NEW i \in ProgramIndex, NEW cmd, NEW tid, NEW serial, Sent(i, cmd, tid, serial)
    PROVE  /\ Cardinality(Asking') \in Nat /\ Cardinality(Asking') <= Cardinality(Asking) + 1
           /\ cmd # "query" => Cardinality(Asking') <= Cardinality(Asking)
<1>1. chip'[i].cmd = cmd /\ \A j \in ProgramIndex : j # i => chip'[j] = chip[j]
  BY DEF Types, ChipTypes, Sent
<1>2. Asking' \subseteq Asking \cup {i} /\ (cmd # "query" => Asking' \subseteq Asking)
  BY <1>1 DEF Asking
<1>3. IsFiniteSet(Asking \cup {i}) /\ Cardinality(Asking \cup {i}) <= Cardinality(Asking) + 1
      /\ Cardinality(Asking) \in Nat /\ Cardinality(Asking \cup {i}) \in Nat /\ IsFiniteSet(Asking)
  <2>1. IsFiniteSet(Asking) /\ Cardinality(Asking) \in Nat
    BY PendingParts
  <2>2. IsFiniteSet(Asking \cup {i}) /\ Cardinality(Asking \cup {i}) \in
          {Cardinality(Asking), Cardinality(Asking) + 1}
    BY <2>1, FS_AddElement
  <2> QED
    BY <2>1, <2>2
<1>4. /\ IsFiniteSet(Asking') /\ Cardinality(Asking') <= Cardinality(Asking \cup {i})
      /\ cmd # "query" => Cardinality(Asking') <= Cardinality(Asking)
  BY <1>2, <1>3, FS_Subset
<1>5. Cardinality(Asking') \in Nat
  BY <1>4, FS_CardinalityType
<1> QED
  BY <1>3, <1>4, <1>5

LEMMA BudgetStep ==
    ASSUME OneCard, NoWrap, Types, Inv, Budget, Next
    PROVE  Budget'
<1> DEFINE Started == count'.starts = count.starts + 1 /\ count'.updates = count.updates
           Kept == \A i \in DOMAIN rows' : rows'[i].tid = 0 \/ (i \in DOMAIN rows /\ rows'[i].tid <= rows[i].tid)
           MovedOn == \A i \in DOMAIN rows' : i \in DOMAIN rows /\ rows'[i].tid <= rows[i].tid + 1
<1>0. Types' /\ PendingFacts /\ PendingFacts' /\ count \in [starts : Nat, updates : Nat]
  BY TypesStep, PendingParts, PendingPrimed, PodConstants DEF PendingFacts, Types, CountTypes
<1>1. \A i \in DOMAIN rows : rows[i].tid \in Nat
  BY NextTid, PodConstants DEF Types, RowRecord
<1>2. UNCHANGED rows => Kept
  BY <1>1
<1>3. (rows' = <<>> <=> rows = <<>>) => MovedOn
  <2> SUFFICES ASSUME rows' = <<>> <=> rows = <<>>, NEW i \in DOMAIN rows'
               PROVE  i \in DOMAIN rows /\ rows'[i].tid <= rows[i].tid + 1
    OBVIOUS
  <2>1. rows' # <<>> /\ rows # <<>>
    BY <1>0, NoTablePrimed DEF Types
  <2>2. i \in ProgramIndex /\ i \in DOMAIN rows
    BY <1>0, <2>1 DEF Types, TableTypes
  <2> QED
    BY <1>1, <2>1, <2>2, RowsMoveOn
<1>4. ASSUME UNCHANGED count, Pending' <= Pending, Kept
      PROVE  Budget'
  <2>1. \A i \in DOMAIN rows' : rows'[i].tid = 0 \/ (i \in DOMAIN rows /\ rows'[i].tid <= rows[i].tid + 0)
    BY <1>1, <1>4
  <2>2. Pending' + 0 <= Pending + 0 /\ 0 \in 0 .. 1 /\ 0 \in 0 .. 4
    BY <1>0, <1>4 DEF PendingFacts
  <2> HIDE DEF Kept
  <2> QED
    BY <1>0, <1>4, <2>1, <2>2, BudgetIf
<1>5. ASSUME Started, Pending' <= Pending + 4, Kept
      PROVE  Budget'
  <2>1. \A i \in DOMAIN rows' : rows'[i].tid = 0 \/ (i \in DOMAIN rows /\ rows'[i].tid <= rows[i].tid + 0)
    BY <1>1, <1>5
  <2>2. Pending' + 0 <= Pending + 4 /\ 0 \in 0 .. 1 /\ 4 \in 0 .. 4
    BY <1>0, <1>5 DEF PendingFacts
  <2> HIDE DEF Kept
  <2> QED
    BY <1>0, <1>5, <2>1, <2>2, BudgetIf
<1>6. ASSUME Started, Pending' + 1 <= Pending + 4, MovedOn
      PROVE  Budget'
  <2>1. 1 \in 0 .. 1 /\ 4 \in 0 .. 4
    OBVIOUS
  <2> QED
    BY <1>0, <1>6, <2>1, BudgetIf
<1>7. ASSUME UNCHANGED count, Pending' + 1 <= Pending, MovedOn
      PROVE  Budget'
  <2>1. Pending' + 1 <= Pending + 0 /\ 1 \in 0 .. 1 /\ 0 \in 0 .. 4
    BY <1>0, <1>7 DEF PendingFacts
  <2> QED
    BY <1>0, <1>7, <2>1, BudgetIf
<1>8. ASSUME count'.starts = count.starts, count'.updates = count.updates + 1, Pending' <= Pending + 2, Kept
      PROVE  Budget'
  <2>1. \A i \in DOMAIN rows' : rows'[i].tid = 0 \/ (i \in DOMAIN rows /\ rows'[i].tid <= rows[i].tid + 0)
    BY <1>1, <1>8
  <2>2. Pending' + 0 <= Pending + 2 /\ 0 \in 0 .. 1 /\ 2 \in 0 .. 4
    BY <1>0, <1>8 DEF PendingFacts
  <2> HIDE DEF Kept
  <2> QED
    BY <1>0, <1>8, <2>1, <2>2, BudgetIf
<1> HIDE DEF Kept, MovedOn, Started
<1>9. /\ UNCHANGED session => Open' = Open
      /\ UNCHANGED chip => Asking' = Asking
      /\ UNCHANGED apdu => InHand' = InHand
      /\ UNCHANGED <<session, chip, wire, apdu>> => Pending' = Pending
  <2>1. (UNCHANGED session => Open' = Open) /\ (UNCHANGED chip => Asking' = Asking)
        /\ (UNCHANGED apdu => InHand' = InHand)
    BY DEF Open, Asking, InHand
  <2> QED
    BY <1>0, <2>1 DEF PendingFacts
<1>N. InHand \in Nat /\ InHand' \in Nat /\ InHand' <= 2
  <2>1. InHand \in 0 .. 2 /\ InHand' \in 0 .. 2
    BY <1>0, Zenon DEF PendingFacts
  <2> QED
    BY <2>1
<1>P. PICK o \in Nat, q \in Nat, w \in Nat, h \in Nat :
         /\ o = Cardinality(Open) /\ q = Cardinality(Asking) /\ w = Len(wire) /\ h = InHand
         /\ Pending = o + 2 * q + 2 * w + h
  BY <1>0, <1>N, Zenon DEF PendingFacts
<1>Q. PICK o2 \in Nat, q2 \in Nat, w2 \in Nat, h2 \in Nat :
         /\ o2 = Cardinality(Open') /\ q2 = Cardinality(Asking') /\ w2 = Len(wire') /\ h2 = InHand'
         /\ Pending' = o2 + 2 * q2 + 2 * w2 + h2
  BY <1>0, <1>N, Zenon DEF PendingFacts
<1>S. Pending = o + 2 * q + 2 * w + h /\ Pending' = o2 + 2 * q2 + 2 * w2 + h2
  BY <1>P, <1>Q
<1>R. h2 <= 2
  BY <1>N, <1>Q
<1>10. ASSUME NEW s \in Sources, Starting(s)
       PROVE  Started /\ session[s] = NoSession
  BY <1>0, <1>10 DEF Starting, Started
<1>11. ASSUME NEW s \in Sources, StartRefused(s) \/ StartFails(s)
       PROVE  Budget'
  <2>1. Started /\ UNCHANGED <<rows, session, chip, wire, apdu>>
    BY <1>10, <1>11 DEF StartRefused, StartFails, table, client
  <2> QED
    BY <1>0, <1>2, <1>5, <1>9, <2>1 DEF PendingFacts
<1>12. ASSUME NEW s \in Sources, StartWaits(s)
       PROVE  Budget'
  <2>1. Started /\ UNCHANGED <<rows, chip, wire, apdu>>
    BY <1>10, <1>12 DEF StartWaits
  <2>2. Cardinality(Open') = Cardinality(Open) + 1
    BY <1>10, <1>12, OpenReturned DEF StartWaits
  <2>3. o2 = o + 1 /\ q2 = q /\ w2 = w /\ h2 = h
    BY <1>9, <1>P, <1>Q, <2>1, <2>2
  <2>4. Pending' <= Pending + 4
    BY <1>S, <2>3
  <2> QED
    BY <1>2, <1>5, <2>1, <2>4
<1>13. ASSUME NEW s \in Sources, StartCommits(s)
       PROVE  Budget'
  <2>1. Started /\ session[s] = NoSession /\ UNCHANGED <<wire, apdu>>
    BY <1>10, <1>13 DEF StartCommits
  <2>2. PICK a \in Requests \ Listed, i \in ProgramIndex \ ActiveRows, cmd \in {"query", "ok"},
             state \in {"ISSUED_QUERY", "DESCRAMBLING"}, events \in SUBSET SessionEvents :
            /\ Sent(i, cmd, getNextTransactionIdForProgramIndex(i), count.starts + 1)
            /\ Returns(s, a, events)
    BY <1>13, CommitRow DEF Inv
  <2>3. Cardinality(Open') = Cardinality(Open) + 1
    BY <2>1, <2>2, OpenReturned
  <2>4. Cardinality(Asking') <= Cardinality(Asking) + 1
    BY <2>2, AskingSent
  <2>5. Pending' + 1 <= Pending + 4
    <3>1. o2 = o + 1 /\ q2 <= q + 1 /\ w2 = w /\ h2 = h
      BY <1>9, <1>P, <1>Q, <2>1, <2>3, <2>4
    <3> QED
      BY <1>S, <3>1
  <2>6. MovedOn
    BY <1>3, <1>13, OtherThreads DEF Ipc
  <2> QED
    BY <1>6, <2>1, <2>5, <2>6
<1>14. ASSUME NEW s \in Sources, StopUnknown(s) \/ StopWaiting(s) \/ Forget(s)
       PROVE  Budget'
  <2>1. UNCHANGED <<rows, chip, wire, apdu, count>> /\ session' = [session EXCEPT ![s] = NoSession]
    BY <1>14 DEF StopUnknown, StopWaiting, Forget, Stopping, table
  <2>2. Cardinality(Open') <= Cardinality(Open)
    BY <2>1, OpenDropped
  <2>3. Pending' <= Pending
    BY <1>0, <1>9, <2>1, <2>2, SMTT(30) DEF PendingFacts
  <2> QED
    BY <1>2, <1>4, <2>1, <2>3
<1>15. ASSUME NEW s \in Sources, StopActive(s)
       PROVE  Budget'
  <2>0. PICK i : i = req[session[s].handle].idx
    OBVIOUS
  <2>1. /\ UNCHANGED <<wire, apdu, count>> /\ session' = [session EXCEPT ![s] = NoSession]
        /\ session[s] # NoSession
    BY <1>15 DEF StopActive, Stopping
  <2>2. /\ i \in ProgramIndex
        /\ Sent(i, "none", getNextTransactionIdForProgramIndex(i), 0) \/ UNCHANGED chip
    BY <1>15, <2>0, StopRow DEF Inv
  <2>3. Cardinality(Open') = Cardinality(Open) - 1
    BY <2>1, OpenDropped
  <2>4. Cardinality(Asking') <= Cardinality(Asking)
    <3>1. CASE UNCHANGED chip
      BY <1>9, <1>P, <3>1
    <3>2. CASE Sent(i, "none", getNextTransactionIdForProgramIndex(i), 0)
      BY <2>2, <3>2, AskingSent
    <3> QED
      BY <2>2, <3>1, <3>2
  <2>5. Pending' + 1 <= Pending
    <3>1. o2 = o - 1 /\ q2 <= q /\ w2 = w /\ h2 = h
      BY <1>9, <1>P, <1>Q, <2>1, <2>3, <2>4
    <3> QED
      BY <1>S, <3>1
  <2>6. MovedOn
    BY <1>3, <1>15, OtherThreads DEF Ipc
  <2> QED
    BY <1>7, <2>1, <2>5, <2>6
<1>16. CASE StartCleansUp
  <2>1. UNCHANGED <<rows, session, chip, wire, apdu, count>>
    BY <1>16 DEF StartCleansUp, client
  <2> QED
    BY <1>0, <1>2, <1>4, <1>9, <2>1 DEF PendingFacts
<1>17. CASE ApduReceive
  <2>1. UNCHANGED <<rows, session, chip, count>> /\ apdu = NoApdu /\ wire # <<>> /\ wire' = Tail(wire)
        /\ (apdu' = NoApdu \/ apdu'.stage = "checked")
    BY <1>17 DEF ApduReceive, table, client
  <2>2. InHand = 0 /\ InHand' \in {0, 2}
    BY <2>1 DEF InHand, NoApdu
  <2>3. Len(wire') = Len(wire) - 1
    BY <2>1, HeadTailProperties DEF Types, ApduTypes
  <2>4. Pending' <= Pending
    <3>1. o2 = o /\ q2 = q /\ w2 = w - 1 /\ h = 0 /\ h2 <= 2
      BY <1>9, <1>P, <1>Q, <1>R, <2>1, <2>2, <2>3
    <3> QED
      BY <1>S, <3>1
  <2> QED
    BY <1>2, <1>4, <2>1, <2>4
<1>18. CASE ApduValidate
  <2>1. UNCHANGED <<rows, session, chip, count, wire>> /\ apdu.stage = "checked"
    BY <1>18 DEF ApduValidate, table, client
  <2>2. InHand = 2
    BY <2>1 DEF InHand
  <2>3. Pending' <= Pending
    BY <1>0, <1>9, <2>1, <2>2 DEF PendingFacts
  <2> QED
    BY <1>2, <1>4, <2>1, <2>3
<1>19. CASE handleCaEnable
  <2>0. PICK i : i = apdu.m.idx
    OBVIOUS
  <2>1. /\ UNCHANGED <<wire, session, count>> /\ apdu.stage = "locked"
        /\ apdu' = IF apdu.left = 1 THEN NoApdu
                   ELSE [stage |-> "locked", m |-> apdu.m, left |-> apdu.left - 1]
    BY <1>19 DEF handleCaEnable
  <2>2. InHand' + 1 = InHand
    BY <2>1 DEF InHand, NoApdu, Types, ApduTypes
  <2>3. i \in ProgramIndex
        /\ (UNCHANGED chip \/ \E a \in SessionsOf(i) :
               Sent(i, "ok", getNextTransactionIdForProgramIndex(i), req[a].serial))
    BY <1>19, <2>0, EnableRow DEF Inv
  <2>4. Cardinality(Asking') <= Cardinality(Asking)
    <3>1. CASE UNCHANGED chip
      BY <1>9, <1>P, <3>1
    <3>2. CASE \E tid, serial : Sent(i, "ok", tid, serial)
      BY <2>3, <3>2, AskingSent
    <3> QED
      BY <2>3, <3>1, <3>2
  <2>5. Pending' + 1 <= Pending
    <3>1. o2 = o /\ q2 <= q /\ w2 = w /\ h2 + 1 = h
      BY <1>9, <1>P, <1>Q, <2>1, <2>2, <2>4
    <3> QED
      BY <1>S, <3>1
  <2>6. MovedOn
    BY <1>3, <1>19, OtherThreads DEF Apdu
  <2> QED
    BY <1>7, <2>1, <2>5, <2>6
<1>20. CASE CardInserted
  <2>1. UNCHANGED <<rows, session, wire, apdu, count>> /\ chip' = [i \in ProgramIndex |-> NoPmt]
    BY <1>20 DEF CardInserted, CardStep, table, client
  <2>2. Asking' = {}
    BY <2>1 DEF Asking, NoPmt
  <2>3. Cardinality(Asking') = 0
    BY <2>2, FS_EmptySet
  <2>4. Pending' <= Pending
    BY <1>0, <1>9, <2>1, <2>3, SMTT(30) DEF PendingFacts
  <2> QED
    BY <1>2, <1>4, <2>1, <2>4
<1>21. CASE CardBecomesReady \/ CardRemoved \/ \E r \in {"cardres", "ca"} : CardOpens(r)
  <2>1. UNCHANGED <<rows, session, chip, wire, apdu, count>>
    BY <1>21 DEF CardBecomesReady, CardRemoved, CardOpens, CardStep, table, client
  <2> QED
    BY <1>0, <1>2, <1>4, <1>9, <2>1 DEF PendingFacts
<1>22. ASSUME NEW i \in ProgramIndex, CardReplies(i)
       PROVE  Budget'
  <2>1. /\ UNCHANGED <<rows, session, apdu, count>> /\ chip[i].cmd = "query"
        /\ chip' = [chip EXCEPT ![i].cmd = "replied"] /\ \E m : wire' = Append(wire, m)
    BY <1>22 DEF CardReplies, CardStep, table, client
  <2>2. Asking' = Asking \ {i} /\ i \in Asking
    BY <2>1 DEF Asking, Types, ChipTypes, PmtRecord
  <2>3. Cardinality(Asking') = Cardinality(Asking) - 1
    BY <1>0, <2>2, FS_RemoveElement DEF PendingFacts
  <2>4. Len(wire') = Len(wire) + 1
    BY <2>1 DEF Types, ApduTypes
  <2>5. Pending' <= Pending
    <3>1. o2 = o /\ q2 = q - 1 /\ w2 = w + 1 /\ h2 = h
      BY <1>9, <1>P, <1>Q, <2>1, <2>3, <2>4
    <3> QED
      BY <1>S, <3>1
  <2> QED
    BY <1>2, <1>4, <2>1, <2>5
<1>23. ASSUME NEW i \in ProgramIndex, CardUpdates(i)
       PROVE  Budget'
  <2>1. /\ UNCHANGED <<rows, session, apdu, chip>> /\ count' = [count EXCEPT !.updates = @ + 1]
        /\ \E m : wire' = Append(wire, m)
    BY <1>23 DEF CardUpdates, table, client
  <2>2. count'.starts = count.starts /\ count'.updates = count.updates + 1
    BY <1>0, <2>1
  <2>3. Len(wire') = Len(wire) + 1
    BY <2>1 DEF Types, ApduTypes
  <2>4. Pending' <= Pending + 2
    <3>1. o2 = o /\ q2 = q /\ w2 = w + 1 /\ h2 = h
      BY <1>9, <1>P, <1>Q, <2>1, <2>3
    <3> QED
      BY <1>S, <3>1
  <2> QED
    BY <1>2, <1>8, <2>1, <2>2, <2>4
<1>24. CASE Handler
  <2>1. UNCHANGED <<session, chip, wire, apdu, count>>
    BY <1>24 DEF Handler, HandlerAnnounces, HandleReady, HandleCaSystemReady, HandleConnect,
       HandleRemoved, HandleUnready, HandleClose, client
  <2>2. Kept
    <3>1. CASE HandleCaSystemReady
      BY <3>1, NewTable DEF Kept, IdleRow, Inv
    <3>2. CASE HandleRemoved
      BY <3>2 DEF Kept, HandleRemoved
    <3> QED
      BY <1>2, <1>24, <3>1, <3>2 DEF Handler, HandlerAnnounces, HandleReady, HandleConnect,
         HandleUnready, HandleClose, table
  <2> QED
    BY <1>0, <1>4, <1>9, <2>1, <2>2 DEF PendingFacts
<1> QED
  BY <1>11, <1>12, <1>13, <1>14, <1>15, <1>16, <1>17, <1>18, <1>19, <1>20, <1>21, <1>22, <1>23, <1>24
  DEF Next, Ipc, Apdu, Card

-----------------------------------------------------------------------------
(* The invariant of the life of one card.                                  *)

LEMMA InvInit == Init => Inv /\ Budget
<1> SUFFICES ASSUME Init
             PROVE  Inv /\ Budget
  OBVIOUS
<1>0. /\ rows = <<>> /\ DOMAIN rows = {} /\ ActiveRows = {} /\ Listed = {} /\ DOMAIN evq = {}
      /\ cas = 0 /\ handler = "wait" /\ evq = <<>> /\ ipc = NULL /\ wire = <<>> /\ apdu = NoApdu
      /\ card = [n |-> 0, present |-> FALSE, open |-> {}, flags |-> {}]
      /\ used = [programs |-> 0, streams |-> 0] /\ Types
      /\ \A i \in ProgramIndex : chip[i] = NoPmt
      /\ \A s \in Sources : session[s] = NoSession /\ told[s] = {}
  BY InitTypes DEF Init, ActiveRows, Listed, Freed
<1>1. CardLife /\ CasLife
  BY <1>0 DEF CardLife, CasLife, Queued
<1>2. NothingSent /\ Holders /\ Chips /\ Clients
  BY <1>0 DEF NothingSent, Holders, Chips, Clients
<1>3. ApdusTimely
  BY <1>0 DEF ApdusTimely, NoApdu
<1>4. RowsAccounted
  <2>1. StreamsInUse = {} /\ Cardinality({}) = 0
    BY <1>0, FS_EmptySet DEF StreamsInUse
  <2> QED
    BY <1>0, <2>1 DEF RowsAccounted
<1>5. Budget
  <2>1. Open = {} /\ Asking = {} /\ Len(wire) = 0 /\ InHand = 0
    BY <1>0 DEF Open, Asking, NoPmt, InHand, NoApdu
  <2>2. Cardinality(Open) = 0 /\ Cardinality(Asking) = 0
    BY <2>1, FS_EmptySet
  <2>3. Pending = 0
    BY <1>0, <2>1, <2>2, PendingParts
  <2>4. count.starts = 0 /\ count.updates = 0
    BY DEF Init
  <2> QED
    BY <1>0, <2>3, <2>4 DEF Budget
<1> QED
  BY <1>1, <1>2, <1>3, <1>4, <1>5 DEF Inv

LEMMA InvStutter == Inv /\ Budget /\ UNCHANGED vars => Inv' /\ Budget'
<1> SUFFICES ASSUME Inv, Budget, UNCHANGED vars
             PROVE  Inv' /\ Budget'
  OBVIOUS
<1>0. /\ UNCHANGED <<rows, used, req, isReady, cas, card, evq, handler, ipc, chip, wire, apdu,
                     session, told, count>>
      /\ ActiveRows' = ActiveRows /\ Listed' = Listed /\ StreamsInUse' = StreamsInUse
  BY DEF vars, table, server, client, ActiveRows, Listed, StreamsInUse
<1>1. (CardLife /\ CasLife /\ NothingSent)'
  BY <1>0 DEF Inv, CardLife, CasLife, NothingSent, Queued, Over
<1>2. (Holders /\ Chips /\ Clients /\ RowsAccounted)'
  BY <1>0 DEF Inv, Holders, Chips, Clients, RowsAccounted, SessionsOf, Owned, Over
<1>3. ApdusTimely'
  BY <1>0 DEF Inv, ApdusTimely, Timely, SessionsOf
<1>4. Budget'
  BY <1>0 DEF Budget, Pending, Open, Asking
<1> QED
  BY <1>1, <1>2, <1>3, <1>4 DEF Inv

LEMMA InvStep ==
    ASSUME OneCard, NoWrap
    PROVE  Types /\ Inv /\ Budget /\ [Next]_vars => Inv' /\ Budget'
<1> SUFFICES ASSUME Types, Inv, Budget, Next
             PROVE  Inv' /\ Budget'
  BY InvStutter
<1>1. CardLife' /\ CasLife' /\ NothingSent' /\ Holders' /\ Chips' /\ RowsAccounted'
  BY CardLifeStep, CasLifeStep, NothingSentStep, HoldersStep, ChipsStep, RowsAccountedStep DEF Inv
<1>2. ApdusTimely' /\ Clients' /\ Budget'
  BY ApdusTimelyStep, ClientsStep, BudgetStep
<1> QED
  BY <1>1, <1>2 DEF Inv

LEMMA InvHolds ==
    ASSUME OneCard, NoWrap
    PROVE  Spec => [](Types /\ Inv /\ Budget)
<1>1. Init => Types /\ Inv /\ Budget
  BY InitTypes, InvInit
<1>2. Types /\ Inv /\ Budget /\ [Next]_vars => (Types /\ Inv /\ Budget)'
  BY TypesStep, InvStep
<1> QED
  BY <1>1, <1>2, PTL DEF Spec

\* In the life of one card the request table, the program index table and the counts
\* against the card's limits agree, whichever starts, stops, answers, failed CA_PMTs and
\* removal come, and in whichever order: a start that passes the check finds a row, and
\* no two sessions share one.
THEOREM PodTablesAgree ==
    ASSUME OneCard, NoWrap
    PROVE  Spec => []TablesAgree
<1>1. Types /\ Inv /\ Budget => TablesAgree
  BY DEF Inv, Holders, TablesAgree, SessionsOwnRows
<1> QED
  BY <1>1, InvHolds, PTL

\* In the life of one card, and before its transaction id comes round, a reply or an
\* update that podProcessApduInt accepts is about the session that has its row, however
\* many sessions had it before.
THEOREM PodAnswerReachesItsSession ==
    ASSUME OneCard, NoWrap
    PROVE  Spec => []AnswerReachesItsSession
<1>1. Types /\ Inv /\ Budget => AnswerReachesItsSession
  BY DEF Inv, ApdusTimely, AnswerReachesItsSession
<1> QED
  BY <1>1, InvHolds, PTL

\* In the life of one card a source whose request is gone has been told, by the removal
\* or by the loss of its session: also the one whose request still waited.
THEOREM PodLossIsTold ==
    ASSUME OneCard, NoWrap
    PROVE  Spec => []LossIsTold
<1>1. Types /\ Inv /\ Budget => LossIsTold
  BY DEF Inv, Clients, Owned, LossIsTold
<1> QED
  BY <1>1, InvHolds, PTL

-----------------------------------------------------------------------------
(* Rows and their sessions, when the CA_PMT of a stop is always sent.      *)

LEMMA MannedStep ==
    ASSUME OneCard, "stop" \notin Failing, Types, Inv, Manned, Next
    PROVE  Manned'
<1>0. /\ TableTypes /\ Holders /\ RowsAccounted /\ CasLife /\ Clients /\ CardLife /\ ApdusTimely
      /\ Listed \subseteq Requests
  BY DEF Types, Inv, Listed
<1>1. ASSUME ActiveRows' \subseteq ActiveRows,
             \A i \in ActiveRows' : \A a \in SessionsOf(i) : a \in Listed' /\ req'[a] = req[a]
      PROVE  Manned'
  BY <1>1 DEF Manned, SessionsOf
<1>2. CASE Quiet
  BY <1>1, <1>2, QuietIs DEF SessionsOf
<1>3. ASSUME NEW a, a \in Requests, req' = [req EXCEPT ![a] = Freed], ActiveRows' \subseteq ActiveRows,
             \A i \in ActiveRows' : a \notin SessionsOf(i)
      PROVE  Manned'
  <2>1. Listed' = Listed \ {a} /\ \A b \in Requests : b # a => req'[b] = req[b]
    BY <1>0, <1>3, FreeRequest
  <2> QED
    BY <1>0, <1>1, <1>3, <2>1 DEF SessionsOf
<1>4. CASE StartCleansUp
  <2>1. PICK a : a = ipc
    OBVIOUS
  <2>2. a \in Requests /\ req' = [req EXCEPT ![a] = Freed] /\ ActiveRows' = ActiveRows
    BY <1>4, <2>1 DEF StartCleansUp, Types, ServerTypes, ActiveRows
  <2>3. \A i \in ActiveRows : a \notin SessionsOf(i)
    BY <1>0, <2>1, RowHolders
  <2> QED
    BY <1>3, <2>2, <2>3
<1>5. ASSUME NEW s \in Sources, StopWaiting(s)
      PROVE  Manned'
  <2>1. PICK a : a = session[s].handle
    OBVIOUS
  <2>2. /\ a \in Requests /\ req' = [req EXCEPT ![a] = Freed] /\ ActiveRows' = ActiveRows
        /\ req[a].idx \notin DOMAIN rows
    BY <1>0, <1>5, <2>1 DEF StopWaiting, ActiveRows
  <2>3. \A i \in ActiveRows : a \notin SessionsOf(i)
    BY <2>2 DEF SessionsOf, ActiveRows
  <2> QED
    BY <1>3, <2>2, <2>3
<1>6. ASSUME NEW s \in Sources, StopActive(s)
      PROVE  Manned'
  <2>1. PICK a, j : a = session[s].handle /\ j = req[a].idx
    OBVIOUS
  <2>2. /\ a \in Requests /\ req' = [req EXCEPT ![a] = Freed] /\ ActiveRows' = ActiveRows \ {j}
    BY <1>0, <1>6, <2>1, StopRow
  <2>3. \A i \in ActiveRows' : a \notin SessionsOf(i)
    BY <2>1, <2>2 DEF SessionsOf
  <2> QED
    BY <1>3, <2>2, <2>3
<1>7. ASSUME NEW s \in Sources, StartWaits(s) \/ StartFails(s)
      PROVE  Manned'
  <2>0. PICK i : i = getNextAvailableProgramIndexTableRow
    OBVIOUS
  <2>1. PICK a \in Requests \ Listed : \/ req' = [req EXCEPT ![a] = NewRequest(s, "WAITING", NoIndex)]
                                       \/ req' = [req EXCEPT ![a] = NewRequest(s, "UNKNOWN", i)]
    <3>1. CASE StartWaits(s)
      BY <3>1 DEF StartWaits
    <3>2. CASE StartFails(s)
      BY <2>0, <3>2 DEF StartFails
    <3> QED
      BY <1>7, <3>1, <3>2
  <2>2. ActiveRows' = ActiveRows
    BY <1>7 DEF StartWaits, StartFails, ActiveRows
  <2>3. \A b \in Listed : b \in Listed' /\ req'[b] = req[b]
    BY <1>0, <2>1 DEF Listed, TableTypes, NewRequest
  <2> QED
    BY <1>1, <2>2, <2>3 DEF SessionsOf
<1>8. ASSUME NEW s \in Sources, StartCommits(s)
      PROVE  Manned'
  <2>1. PICK a \in Requests \ Listed, i \in ProgramIndex \ ActiveRows, cmd \in {"query", "ok"},
             state \in {"ISSUED_QUERY", "DESCRAMBLING"}, events \in SUBSET SessionEvents :
            req' = [req EXCEPT ![a] = NewRequest(s, "ACTIVE", i)] /\ ActiveRows' = ActiveRows \cup {i}
    BY <1>0, <1>8, CommitRow
  <2>2. /\ Listed' = Listed \cup {a} /\ req'[a].idx = i
        /\ \A b \in Requests : b # a => req'[b] = req[b]
    BY <1>0, <2>1, NewListed
  <2> QED
    BY <1>0, <2>1, <2>2 DEF Manned, SessionsOf
<1>9. CASE handleCaEnable
  BY <1>0, <1>1, <1>9, EnableRow DEF handleCaEnable, SessionsOf, Listed
<1>10. CASE HandleCaSystemReady
  BY <1>0, <1>1, <1>10, NewTable
<1>11. CASE HandleRemoved
  BY <1>1, <1>11 DEF HandleRemoved, ActiveRows
<1> QED
  BY <1>2, <1>4, <1>5, <1>6, <1>7, <1>8, <1>9, <1>10, <1>11, QuietSteps

\* In the life of one card, when the CA_PMT of a stop is always sent, a session left on
\* the table is one its source can still stop, and an answer always finds a session on
\* its row: handleCaEnable reads no handle that is not there.
THEOREM PodNobodyIsLeft ==
    ASSUME OneCard, NoWrap, "stop" \notin Failing
    PROVE  Spec => []NobodyIsLeft
<1>1. Init => Manned
  BY DEF Init, Manned, ActiveRows
<1>2. Types /\ Inv /\ Budget /\ Manned /\ [Next]_vars => Manned'
  <2>1. UNCHANGED vars /\ Manned => Manned'
    BY DEF vars, table, Manned, ActiveRows, SessionsOf, Listed
  <2> QED
    BY <2>1, MannedStep
<1>3. Types /\ Inv /\ Budget /\ Manned => NobodyIsLeft
  BY DEF Inv, Manned, ApdusTimely, Clients, NobodyIsLeft, NoOrphanSession, NoWildHandle
<1> QED
  BY <1>1, <1>2, <1>3, InvHolds, PTL DEF Spec

=============================================================================
