----------------------------- MODULE QamSource -----------------------------
(***************************************************************************)
(* One RMFQAMSrcImpl (qamsource/main/rmfqamsrcpriv.cpp) composed with its  *)
(* in-band SI manager: the calls of its owner (open, play, pause, close),  *)
(* the SI monitor thread that turns table events into a PID list and a     *)
(* decrypt session, the tuner's lock events, and the manager's thread.     *)
(*                                                                         *)
(* The default PMT policy (PMT_HANDLING_UNOPTIMIZED) and a source with a   *)
(* program number are modelled.  Left out: TSID validation, the channel    *)
(* map lookup of a PAT update, SPTS monitoring, and what the CableCARD     *)
(* does to a session (PodDecrypt).                                         *)
(***************************************************************************)
EXTENDS InbandSi

CONSTANTS StopCaWhenPaused,  \* stopCAWhenPaused(): FALSE for IPPV
          ClosesFailedOpen,  \* whether the owner closes a source whose open failed
          MaxOpens, MaxCalls \* bounds: opens; plays, pauses and losses of lock together

ASSUME SourceConstants ==
    /\ StopCaWhenPaused \in BOOLEAN /\ ClosesFailedOpen \in BOOLEAN
    /\ {MaxOpens, MaxCalls} \subseteq Nat

VARIABLES state,      \* QAM_STATE_...
          flags,      \* patEventSent, pmtEventSent, psiAcqStartTime # 0, pipelineIsPaused
          errors,     \* m_si_error, and the program-number bit of m_error_bitmap
          mediaInfo,  \* its PID list
          session,    \* sessionHandlePtr: the PIDs it was started for
          urgent,     \* events of priority 1 in siEventQHandle, ahead of tables
          monitor,    \* the SI monitor thread: where it is and the event it handles
          owner,      \* the owner's thread: the call it is in
          m_mutex,    \* who holds m_mutex over a step
          used        \* how much of the bounds is used

srcVars == <<state, flags, errors, mediaInfo, session, urgent, monitor, owner, m_mutex, used>>
vars == <<siVars, srcVars>>

NoMedia == {}
NoSession == {}
PidSets == {{}} \cup {Streams[i] : i \in PmtVersions}

Flags == [patEventSent : BOOLEAN, pmtEventSent : BOOLEAN, acquiring : BOOLEAN, paused : BOOLEAN]
Errors ==
    [m_si_error : {"none", "PAT_NOT_AVAILABLE", "PMT_NOT_AVAILABLE", "INVALID", "INVALID_ON_UPDATE"},
     invalidBit : BOOLEAN]
Monitors ==
    [pc : {"none", "wait", "clear", "request", "filter", "report", "program", "setup", "start", "done"},
     event : TableEvents \cup {"none"}]

SourceTypes ==
    /\ state \in {"IDLE", "OPEN", "PLAYING", "PAUSED"}
    /\ flags \in Flags
    /\ errors \in Errors
    /\ mediaInfo \in PidSets
    /\ session \in PidSets
    /\ urgent \in Seq({"PAUSED", "PLAYING", "TERMINATE"})
    /\ monitor \in Monitors
    /\ owner \in {"idle", "open", "opening", "setup", "start", "closing", "stopping", "joining"}
    /\ m_mutex \in {"free", "monitor", "owner"}

TypeOK == FilterTypes /\ ManagerTypes /\ SourceTypes

Init ==
    /\ SiInit
    /\ state = "IDLE"
    /\ flags = [patEventSent |-> FALSE, pmtEventSent |-> FALSE, acquiring |-> FALSE, paused |-> FALSE]
    /\ errors = [m_si_error |-> "none", invalidBit |-> FALSE]
    /\ mediaInfo = NoMedia
    /\ session = NoSession
    /\ urgent = <<>>
    /\ monitor = [pc |-> "none", event |-> "none"]
    /\ owner = "idle"
    /\ m_mutex = "free"
    /\ used = [opens |-> 0, calls |-> 0]

Calls == used.calls < MaxCalls /\ used' = [used EXCEPT !.calls = @ + 1]

-----------------------------------------------------------------------------
(* The tuner.                                                              *)

\* TUNERSRC_EVENT_TUNE_SYNC arms the wait for tables.
TuneSync ==
    /\ mgr.exists /\ ~air.locked
    /\ air' = [air EXCEPT !.locked = TRUE]
    /\ flags' = [flags EXCEPT !.acquiring = TRUE]
    /\ UNCHANGED <<m_filter_list, mgr, psi, tables, state, errors, mediaInfo, session, urgent, monitor,
                   owner, m_mutex, used>>

\* TUNERSRC_EVENT_TUNE_UNSYNC disarms it.
TuneUnsync ==
    /\ mgr.exists /\ air.locked /\ Calls
    /\ air' = [air EXCEPT !.locked = FALSE]
    /\ flags' = [flags EXCEPT !.acquiring = FALSE]
    /\ UNCHANGED <<m_filter_list, mgr, psi, tables, state, errors, mediaInfo, session, urgent, monitor,
                   owner, m_mutex>>

Broadcast ==
    /\ \/ AirChangesPat \/ AirChangesPmt
       \/ \E i \in DOMAIN m_filter_list : section_avail_cb(i)
    /\ UNCHANGED srcVars

-----------------------------------------------------------------------------
(* setupDecryption, called with m_mutex held by the monitor or the owner.  *)

SetMonitor(pc) == monitor' = [monitor EXCEPT !.pc = pc]

\* The old session is stopped and the descriptors are borrowed.
\* Nothing is done, not even a stop, when there are no media PIDs.
SetupBegins(thread) ==
    /\ m_mutex = thread
    /\ mediaInfo # NoMedia
    /\ session' = NoSession
    /\ mgr' = [mgr EXCEPT !.descriptors_in_use = TRUE]
    /\ UNCHANGED <<air, m_filter_list, psi, tables, state, flags, errors, mediaInfo, urgent, m_mutex, used>>

\* rmf_podmgrStartDecrypt, which may fail, and ReleaseDescriptors.
SetupEnds ==
    /\ session' \in {NoSession, mediaInfo}
    /\ mgr' = [mgr EXCEPT !.descriptors_in_use = FALSE]
    /\ m_mutex' = "free"
    /\ UNCHANGED <<air, m_filter_list, psi, tables, flags, mediaInfo, used>>

-----------------------------------------------------------------------------
(* The SI monitor thread.                                                  *)

\* pipelineIsPaused is a local of the thread.
HandleUrgent ==
    /\ monitor.pc = "wait" /\ urgent # <<>>
    /\ urgent' = Tail(urgent)
    /\ IF Head(urgent) = "TERMINATE"
       THEN SetMonitor("done") /\ UNCHANGED flags
       ELSE /\ flags' = [flags EXCEPT !.paused = (Head(urgent) = "PAUSED")]
            /\ UNCHANGED monitor
    /\ UNCHANGED <<siVars, state, errors, mediaInfo, session, owner, m_mutex, used>>

\* The next table event; PAT_ACQUIRED and PMT_ACQUIRED set their flags at once.
TakeTableEvent ==
    /\ monitor.pc = "wait" /\ urgent = <<>> /\ tables # <<>>
    /\ tables' = Tail(tables)
    /\ LET e == Head(tables)
       IN  /\ monitor' = [event |-> e,
                          pc |-> CASE e = "PAT_ACQUIRED" -> "request"
                                   [] e = "PAT_UPDATE" -> "clear"
                                   [] OTHER -> "program"]
           /\ flags' = [flags EXCEPT !.patEventSent = @ \/ e = "PAT_ACQUIRED",
                                     !.pmtEventSent = @ \/ e = "PMT_ACQUIRED"]
    /\ UNCHANGED <<air, m_filter_list, mgr, psi, state, errors, mediaInfo, session, urgent, owner, m_mutex, used>>

\* The timed wait ends with nothing in the queue.
TablesTimeOut ==
    /\ monitor.pc = "wait" /\ urgent = <<>> /\ tables = <<>>
    /\ ~flags.pmtEventSent /\ ~flags.paused /\ flags.acquiring
    /\ errors' = [errors EXCEPT !.m_si_error =
                    IF ~flags.patEventSent THEN "PAT_NOT_AVAILABLE"
                    ELSE IF @ = "INVALID_ON_UPDATE" THEN @ ELSE "PMT_NOT_AVAILABLE"]
    /\ flags' = [flags EXCEPT !.patEventSent = TRUE, !.pmtEventSent = TRUE]
    /\ UNCHANGED <<siVars, state, mediaInfo, session, urgent, monitor, owner, m_mutex, used>>

\* Mutant of ClearForUpdate: the filter of the old PMT PID stays.
ClearForUpdateKeepsFilter ==
    /\ monitor.pc = "clear" /\ PsiMutexFree
    /\ mgr' = [mgr EXCEPT !.pmtVersionNumber = INIT_TABLE_VERSION]
    /\ flags' = [flags EXCEPT !.pmtEventSent = FALSE, !.acquiring = TRUE]
    /\ errors' = [errors EXCEPT !.m_si_error = "none"]
    /\ SetMonitor("request")
    /\ UNCHANGED <<air, m_filter_list, psi, tables, state, mediaInfo, session, urgent, owner, m_mutex, used>>

\* PAT_UPDATE: clearINBProgramInfo, and the wait for the PMT starts again.
ClearForUpdate ==
    /\ monitor.pc = "clear" /\ ClearProgramInfo
    /\ flags' = [flags EXCEPT !.pmtEventSent = FALSE, !.acquiring = TRUE]
    /\ errors' = [errors EXCEPT !.m_si_error = "none"]
    /\ SetMonitor("request")
    /\ UNCHANGED <<air, psi, tables, state, mediaInfo, session, urgent, owner, m_mutex, used>>

\* RequestProgramInfo looks the program up under m_mediainfo_mutex ...
RequestProgram ==
    /\ monitor.pc = "request"
    /\ IF mgr.m_pmtInfo = NoPid
       THEN /\ errors' = [errors EXCEPT !.m_si_error = "INVALID"]
            /\ SetMonitor("report") /\ UNCHANGED mgr
       ELSE /\ mgr' = [mgr EXCEPT !.pmtPid = mgr.m_pmtInfo]
            /\ SetMonitor("filter") /\ UNCHANGED errors
    /\ UNCHANGED <<air, m_filter_list, psi, tables, state, flags, mediaInfo, session, urgent, owner, m_mutex, used>>

\* ... and sets the filter under g_sitp_psi_mutex.  Its priority is the PSI state
\* RMF_PSI_WAIT_INITIAL_PRIMARY_PMT.  A refusal is not reported.
SetPmtFilter ==
    /\ monitor.pc = "filter" /\ PsiMutexFree
    /\ m_filter_list' \in set_filter(m_filter_list, Filter("PMT", mgr.pmtPid, INIT_TABLE_VERSION, 2))
    /\ SetMonitor("report")
    /\ UNCHANGED <<air, mgr, psi, tables, state, flags, errors, mediaInfo, session, urgent, owner, m_mutex, used>>

\* What PAT_ACQUIRED and PAT_UPDATE make of it.
ReportProgram ==
    /\ monitor.pc = "report" /\ m_mutex = "free"
    /\ LET invalid == errors.m_si_error = "INVALID"
           update == monitor.event = "PAT_UPDATE"
       IN  /\ errors' = [m_si_error |-> IF ~invalid THEN "none"
                                        ELSE IF update THEN "INVALID_ON_UPDATE" ELSE "INVALID",
                         invalidBit |-> invalid \/ (errors.invalidBit /\ ~update)]
           /\ flags' = [flags EXCEPT !.pmtEventSent = @ \/ invalid]
    /\ monitor' = [pc |-> "wait", event |-> "none"]
    /\ UNCHANGED <<siVars, state, mediaInfo, session, urgent, owner, m_mutex, used>>

ProgramDone == monitor' = [pc |-> "wait", event |-> "none"] /\ errors' = [errors EXCEPT !.m_si_error = "none"]

\* compareMediaInfo finds a full match: the PIDs alone are compared.
compareMediaInfo(new) == new = mediaInfo

\* Mutant of ProgramInfo: a paused source starts a session too.
ProgramInfoWhilePaused ==
    /\ monitor.pc = "program" /\ m_mutex = "free"
    /\ IF compareMediaInfo(GetMediaInfo) \/ GetMediaInfo = NoMedia
       THEN ProgramDone /\ UNCHANGED <<mediaInfo, flags, m_mutex>>
       ELSE /\ mediaInfo' = GetMediaInfo /\ flags' = [flags EXCEPT !.pmtEventSent = TRUE]
            /\ SetMonitor("setup") /\ m_mutex' = "monitor" /\ UNCHANGED errors
    /\ UNCHANGED <<siVars, state, session, urgent, owner, used>>

\* processProgramInfo, up to setupDecryption.
ProgramInfo ==
    /\ monitor.pc = "program" /\ m_mutex = "free"
    /\ LET new == GetMediaInfo
           setup == ~compareMediaInfo(new) /\ new # NoMedia /\ state # "PAUSED"
       IN  /\ IF compareMediaInfo(new) THEN UNCHANGED <<mediaInfo, flags>>
              ELSE mediaInfo' = new /\ flags' = [flags EXCEPT !.pmtEventSent = TRUE]
           /\ IF setup THEN SetMonitor("setup") /\ m_mutex' = "monitor" /\ UNCHANGED errors
              ELSE ProgramDone /\ UNCHANGED m_mutex
    /\ UNCHANGED <<siVars, state, session, urgent, owner, used>>

MonitorSetup ==
    /\ monitor.pc = "setup" /\ SetupBegins("monitor")
    /\ SetMonitor("start") /\ UNCHANGED owner

MonitorStart ==
    /\ monitor.pc = "start" /\ m_mutex = "monitor" /\ SetupEnds
    /\ ProgramDone
    /\ UNCHANGED <<state, urgent, owner>>

simonitorThread ==
    \/ HandleUrgent \/ TakeTableEvent \/ TablesTimeOut
    \/ ClearForUpdate \/ RequestProgram \/ SetPmtFilter \/ ReportProgram
    \/ ProgramInfo \/ MonitorSetup \/ MonitorStart

-----------------------------------------------------------------------------
(* The owner.                                                              *)

\* open, up to RequestTsInfo: the thread, the manager, the registration.
Open ==
    /\ owner = "idle" /\ ~mgr.exists /\ used.opens < MaxOpens
    /\ used' = [used EXCEPT !.opens = @ + 1]
    /\ flags' = [patEventSent |-> FALSE, pmtEventSent |-> FALSE, acquiring |-> FALSE, paused |-> FALSE]
    /\ errors' = [errors EXCEPT !.m_si_error = "none"]
    /\ monitor' = [pc |-> "wait", event |-> "none"]
    /\ Create
    /\ state' = "OPEN"
    /\ owner' = "opening"
    /\ UNCHANGED <<air, psi, tables, mediaInfo, session, urgent, m_mutex>>

RequestTsInfo(list) == set_filter(list, Filter("PAT", NoPid, INIT_TABLE_VERSION, 40))

OpenSucceeds ==
    /\ owner = "opening"
    /\ m_filter_list' \in RequestTsInfo(m_filter_list) \ {m_filter_list}
    /\ owner' = "open"
    /\ UNCHANGED <<air, mgr, psi, tables, state, flags, errors, mediaInfo, session, urgent, monitor, m_mutex, used>>

\* The registration is undone and the thread stopped; state stays QAM_STATE_OPEN.
OpenFails ==
    /\ owner = "opening"
    /\ m_filter_list \in RequestTsInfo(m_filter_list)
    /\ mgr' = [mgr EXCEPT !.registered = FALSE]
    /\ urgent' = Append(urgent, "TERMINATE")
    /\ owner' = "joining"
    /\ UNCHANGED <<air, m_filter_list, psi, tables, state, flags, errors, mediaInfo, session, monitor, m_mutex, used>>

Posts(e) == urgent' = Append(urgent, e)

\* play with a session, or without media to start one for.
Play ==
    /\ owner = "open" /\ m_mutex = "free" /\ Calls
    /\ state # "PLAYING"
    /\ session # NoSession \/ mediaInfo = NoMedia
    /\ state' = "PLAYING"
    /\ Posts("PLAYING")
    /\ UNCHANGED <<siVars, flags, errors, mediaInfo, session, monitor, owner, m_mutex>>

\* play starts one.
PlaySetup ==
    /\ owner = "open" /\ m_mutex = "free" /\ Calls
    /\ state # "PLAYING" /\ session = NoSession /\ mediaInfo # NoMedia
    /\ m_mutex' = "owner" /\ owner' = "setup"
    /\ UNCHANGED <<siVars, state, flags, errors, mediaInfo, session, urgent, monitor>>

OwnerSetup ==
    /\ owner = "setup" /\ SetupBegins("owner")
    /\ owner' = "start" /\ UNCHANGED monitor

OwnerStart ==
    /\ owner = "start" /\ SetupEnds
    /\ state' = "PLAYING" /\ Posts("PLAYING")
    /\ owner' = "open"
    /\ UNCHANGED <<errors, monitor>>

Pause ==
    /\ owner = "open" /\ m_mutex = "free" /\ Calls
    /\ state' = "PAUSED" /\ Posts("PAUSED")
    /\ session' = IF StopCaWhenPaused THEN NoSession ELSE session
    /\ UNCHANGED <<siVars, flags, errors, mediaInfo, monitor, owner, m_mutex>>

\* close, without m_mutex: the state and the session ...
Close ==
    /\ owner = "open" \/ (ClosesFailedOpen /\ owner = "idle" /\ state # "IDLE")
    /\ state' = "IDLE"
    /\ session' = NoSession
    /\ owner' = "closing"
    /\ UNCHANGED <<siVars, flags, errors, mediaInfo, urgent, monitor, m_mutex, used>>

\* ... the timer, the registration and rmf_osal_eventqueue_clear: what the manager
\* dispatched before the one is dropped by the other ...
CloseUnregisters ==
    /\ owner = "closing"
    /\ flags' = [flags EXCEPT !.acquiring = FALSE]
    /\ mgr' = [mgr EXCEPT !.registered = FALSE]
    /\ tables' = <<>> /\ urgent' = <<>>
    /\ owner' = "stopping"
    /\ UNCHANGED <<air, m_filter_list, psi, state, errors, mediaInfo, session, monitor, m_mutex, used>>

\* Mutant of CloseStops: the queue is cleared after the event is posted.
CloseStopsThenClears ==
    /\ owner = "stopping"
    /\ urgent' = <<>>
    /\ owner' = "joining"
    /\ UNCHANGED <<siVars, state, flags, errors, mediaInfo, session, monitor, m_mutex, used>>

\* ... stopSIMonitorThread posts its event ...
CloseStops ==
    /\ owner = "stopping"
    /\ Posts("TERMINATE")
    /\ owner' = "joining"
    /\ UNCHANGED <<siVars, state, flags, errors, mediaInfo, session, monitor, m_mutex, used>>

\* ... waits for siDoneSem, as open does when it fails, and deletes the manager, whose
\* destructor takes g_sitp_psi_mutex; close also forgets the media and the errors.
Joined ==
    /\ owner = "joining" /\ monitor.pc = "done" /\ PsiMutexFree
    /\ monitor' = [pc |-> "none", event |-> "none"]
    /\ mgr' = NoManager /\ m_filter_list' = <<>>
    /\ air' = [air EXCEPT !.locked = FALSE]
    /\ IF state = "IDLE"
       THEN mediaInfo' = NoMedia /\ errors' = [errors EXCEPT !.invalidBit = FALSE]
       ELSE UNCHANGED <<mediaInfo, errors>>
    /\ owner' = "idle"
    /\ UNCHANGED <<psi, tables, state, flags, session, urgent, m_mutex, used>>

OwnerContinues ==
    \/ OpenSucceeds \/ OpenFails \/ OwnerSetup \/ OwnerStart
    \/ CloseUnregisters \/ CloseStops \/ Joined

Next ==
    \/ Open \/ Play \/ PlaySetup \/ Pause \/ Close \/ OwnerContinues
    \/ simonitorThread
    \/ PsiMonitor /\ UNCHANGED srcVars
    \/ Broadcast
    \/ TuneSync \/ TuneUnsync

PsiStep(A) == A /\ UNCHANGED srcVars

\* The threads run, and the tables on air are repeated for ever.  The PMT is only
\* processed between repetitions of the PAT, whose sections go first.
Fairness ==
    /\ WF_vars(OwnerContinues)
    /\ WF_vars(simonitorThread)
    /\ WF_vars(PsiStep(PatAnnounced))
    /\ WF_vars(PsiStep(\E i \in DOMAIN m_filter_list : PatListed(i) \/ PatRepeated(i)))
    /\ SF_vars(PsiStep(\E i \in DOMAIN m_filter_list : PmtStored(i) \/ PmtDropped(i)))
    /\ \A t \in Tables :
         WF_vars(PsiStep(\E i \in DOMAIN m_filter_list : m_filter_list[i].table = t /\ section_avail_cb(i)))

Spec == Init /\ [][Next]_vars
FairSpec == Spec /\ Fairness

-----------------------------------------------------------------------------
(* Properties.                                                             *)

Filters(t) == {i \in DOMAIN m_filter_list : m_filter_list[i].table = t /\ m_filter_list[i].set}
Quiet ==
    /\ owner = "open" /\ monitor.pc = "wait" /\ psi.pc = "wait"
    /\ urgent = <<>> /\ tables = <<>>

\* Source and manager have the same program, and one filter looks for its PMT.
Agrees ==
    /\ mgr.pmtVersionNumber # INIT_TABLE_VERSION => mediaInfo = StreamsOf(mgr.elementary_streams)
    /\ errors.invalidBit = (mgr.m_pmtInfo = NoPid)
    /\ {m_filter_list[i].pid : i \in Filters("PMT")} = {mgr.m_pmtInfo} \ {NoPid}
    /\ Cardinality(Filters("PMT")) <= 1

(* With no event left to handle, the source agrees with its manager: the   *)
(* PIDs are those of the last PMT stored, the program-number error is set  *)
(* exactly when the last PAT lacks the program, and one filter looks for   *)
(* its PMT, on the PID that PAT gives.  Two threads and two queues of      *)
(* events lie between the tables and the source.                           *)
(* And the monitor never asks for the program of a manager that is gone    *)
(* or has no PAT, where it would wait in RequestProgramInfo.               *)
SourceFollowsTables ==
    /\ Quiet /\ mgr.patVersionNumber # INIT_TABLE_VERSION => Agrees
    /\ monitor.pc = "request" => mgr.exists /\ mgr.m_bIsPATAvailable

(* While the source is open and m_mutex free, a session decrypts the PIDs  *)
(* the source outputs, unless it outputs none, and there is none while     *)
(* the source is paused.                                                   *)
SessionServesMedia ==
    owner = "open" /\ m_mutex = "free" /\ session # NoSession =>
      /\ state # "PAUSED"
      /\ mediaInfo \in {NoMedia, session}

\* The source has the streams on air, or knows that the PAT on air lacks its program.
Current ==
    IF PmtPid[air.pat] = NoPid THEN errors.invalidBit
    ELSE mediaInfo = Streams[air.pmt] /\ ~errors.invalidBit

(* The source settles, once its owner makes no more calls (their number is *)
(* bounded): every call returns, though close waits for a thread that      *)
(* takes both mutexes and borrows the manager, and a source left open with *)
(* lock and its PAT filter has the streams on air, or the program-number   *)
(* error when the PAT on air lacks the program, whatever updates came in   *)
(* what order.                                                             *)
SourceSettles ==
    <>[](owner = "open" => air.locked /\ Filters("PAT") # {}) =>
      <>[](owner = "idle" \/ (owner = "open" /\ Current))

(* "Initial PAT and initial primary PMT have the same priority.  One       *)
(* should not pre-empt the other" (rmf_inbsimgr.h): a PAT filter, once     *)
(* set, stays set.                                                         *)
PatFilterSurvives == \A i \in DOMAIN m_filter_list : m_filter_list[i].table = "PAT" => m_filter_list[i].set

(* A closed source has no decrypt session.                                 *)
ClosedHasNoSession == owner = "idle" => session = NoSession

=============================================================================
