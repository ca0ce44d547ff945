------------------------------ MODULE InbandSi ------------------------------
(***************************************************************************)
(* The in-band SI manager of one tuned source (rmf_inbsimgr.cpp, built     *)
(* without ENABLE_INB_SI_CACHE) over its section filters                   *)
(* (rmf_sectionfilter.cpp) and the broadcast they look at.                 *)
(*                                                                         *)
(* A table is its version: the n-th PAT the multiplex carries lists the    *)
(* program on PmtPid[n] (NoPid: not at all), the n-th PMT of the program   *)
(* lists the elementary streams Streams[n].  0 is INIT_TABLE_VERSION.      *)
(*                                                                         *)
(* Left out: PATs of several sections, version numbers that lap, sections  *)
(* that do not parse, CAT, TDT, TOT and private sections, and the wait of  *)
(* RequestProgramInfo for a PAT (the source only asks once told of one:    *)
(* SourceFollowsTables in QamSource).                                        *)
(***************************************************************************)
EXTENDS Integers, FiniteSets, Sequences, SequencesExt

CONSTANTS PmtPid, Streams,
          MaxFilters,       \* section filters the demux has for this source
          NegativeFilters,  \* m_NegativeFiltersEnabled
          Refuses           \* tables for which the demux may refuse a filter

NoPid == 0
INIT_TABLE_VERSION == 0
Tables == {"PAT", "PMT"}

ASSUME InbandConstants ==
    /\ PmtPid \in Seq(Nat) /\ Len(PmtPid) > 0
    /\ Streams \in Seq(SUBSET UNION Range(Streams)) /\ Len(Streams) > 0
    /\ MaxFilters \in Nat \ {0}
    /\ NegativeFilters \in BOOLEAN
    /\ Refuses \subseteq Tables

VARIABLES air,            \* the versions on air, and whether the tuner has lock
          m_filter_list,  \* filters the manager has set, oldest first
          mgr,            \* the manager object
          psi,            \* the PsiMonitor thread; it holds g_sitp_psi_mutex in "announce"
          tables          \* PAT and PMT events in the registered queue

siVars == <<air, m_filter_list, mgr, psi, tables>>

PatVersions == 1 .. Len(PmtPid)
PmtVersions == 1 .. Len(Streams)
TableEvents == {"PAT_ACQUIRED", "PAT_UPDATE", "PMT_ACQUIRED", "PMT_UPDATE"}

\* rmf_InbSiMgr::rmf_InbSiMgr: nothing seen, nobody registered.
NewManager ==
    [exists |-> TRUE, registered |-> FALSE,
     patVersionNumber |-> INIT_TABLE_VERSION, m_bIsPATAvailable |-> FALSE, m_pmtInfo |-> NoPid,
     pmtVersionNumber |-> INIT_TABLE_VERSION, pmtPid |-> NoPid,
     elementary_streams |-> INIT_TABLE_VERSION, descriptors_in_use |-> FALSE]
NoManager == [NewManager EXCEPT !.exists = FALSE]

FilterTypes ==
    \A i \in DOMAIN m_filter_list :
      m_filter_list[i] \in
        [table : Tables, pid : Nat, neg : PatVersions \cup PmtVersions \cup {0},
         priority : {2, 4, 40}, set : BOOLEAN, found : PatVersions \cup PmtVersions \cup {0}]

Broadcasts == [pat : PatVersions, pmt : PmtVersions, locked : BOOLEAN]
Managers ==
    [exists : BOOLEAN, registered : BOOLEAN,
     patVersionNumber : PatVersions \cup {0}, m_bIsPATAvailable : BOOLEAN, m_pmtInfo : Nat,
     pmtVersionNumber : PmtVersions \cup {0}, pmtPid : Nat,
     elementary_streams : PmtVersions \cup {0}, descriptors_in_use : BOOLEAN]

ManagerTypes ==
    /\ air \in Broadcasts
    /\ mgr \in Managers
    /\ psi \in [pc : {"wait", "announce"}, version : PatVersions \cup {0}]
    /\ tables \in Seq(TableEvents)

SiInit ==
    /\ air \in [pat : PatVersions, pmt : PmtVersions, locked : {FALSE}]
    /\ m_filter_list = <<>>
    /\ mgr = NoManager
    /\ psi = [pc |-> "wait", version |-> 0]
    /\ tables = <<>>

PsiMutexFree == psi.pc = "wait"
\* The program's streams as the manager has them.
StreamsOf(version) == IF version = INIT_TABLE_VERSION THEN {} ELSE Streams[version]

-----------------------------------------------------------------------------
(* Section filters.                                                        *)

Filter(table, pid, neg, priority) ==
    [table |-> table, pid |-> pid, neg |-> neg, priority |-> priority, set |-> TRUE, found |-> 0]

\* The filters of the list that the demux has.
SetIn(list) == {i \in DOMAIN list : list[i].set}

\* The filters getLowestPriorityFilter may pick: the largest priority number above
\* the new one's, among all requests, the cancelled ones included.
Victims(list, priority) ==
    {i \in DOMAIN list :
       /\ list[i].priority > priority
       /\ \A j \in DOMAIN list : list[j].priority <= list[i].priority}

\* rmf_SectionFilter::SetFilter and the manager's bookkeeping in set_filter: the
\* possible filter lists after it.  A cancelled filter stays in the manager's list,
\* which ignores FILTER_PREEMPTED.  Picking one that is cancelled already frees
\* nothing, and SetFilter picks it again: it returns when another step makes room.
set_filter(list, f) ==
    LET full == Cardinality(SetIn(list)) >= MaxFilters
        cancelled(i) == [list EXCEPT ![i].set = FALSE, ![i].found = 0]
    IN  (IF ~full THEN {Append(list, f)}
         ELSE IF Victims(list, f.priority) = {} THEN {list}
         ELSE {Append(cancelled(i), f) : i \in Victims(list, f.priority) \cap SetIn(list)})
        \cup (IF f.table \in Refuses THEN {list} ELSE {})

FirstOf(table, list) == SelectInSeq(list, LAMBDA f : f.table = table)

\* ReleaseFilter of the first filter for the table, with the sections it holds.
Released(table, list) ==
    IF FirstOf(table, list) = 0 THEN list ELSE RemoveAt(list, FirstOf(table, list))

\* configure_negative_filters: the filter is set again, for any other version.
configure_negative_filters(table, list, version) ==
    LET i == FirstOf(table, list)
    IN  IF NegativeFilters /\ i # 0
        THEN set_filter(RemoveAt(list, i), Filter(table, list[i].pid, version, 4))
        ELSE {list}

-----------------------------------------------------------------------------
(* The broadcast.  It changes while the source is tuned to it; any tables  *)
(* may be on air when it comes.                                            *)

AirChangesPat ==
    /\ mgr.registered /\ air.pat < Len(PmtPid)
    /\ air' = [air EXCEPT !.pat = @ + 1]
    /\ UNCHANGED <<m_filter_list, mgr, psi, tables>>

AirChangesPmt ==
    /\ mgr.registered /\ air.pmt < Len(Streams)
    /\ air' = [air EXCEPT !.pmt = @ + 1]
    /\ UNCHANGED <<m_filter_list, mgr, psi, tables>>

\* The version of the filter's table on its pid now, 0 if there is none.
OnAir(f) ==
    IF f.table = "PAT" THEN air.pat
    ELSE IF f.pid = PmtPid[air.pat] THEN air.pmt ELSE 0

\* section_avail_cb: the section is queued for the filter and SECTION_FOUND posted.
\* A table is repeated on air; one section at a time waits for the manager.
section_avail_cb(i) ==
    /\ air.locked
    /\ m_filter_list[i].set /\ m_filter_list[i].found = 0
    /\ OnAir(m_filter_list[i]) \notin {0, m_filter_list[i].neg}
    /\ m_filter_list' = [m_filter_list EXCEPT ![i].found = OnAir(m_filter_list[i])]
    /\ UNCHANGED <<air, mgr, psi, tables>>

-----------------------------------------------------------------------------
(* The PsiMonitor thread.                                                  *)

\* SECTION_FOUND carries the filter's priority: the largest is taken first.
NextSection(i) ==
    /\ psi.pc = "wait"
    /\ m_filter_list[i].found # 0
    /\ \A j \in DOMAIN m_filter_list :
         m_filter_list[j].found # 0 => m_filter_list[j].priority <= m_filter_list[i].priority

Taken(i) == [m_filter_list EXCEPT ![i].found = 0]

\* dispatch_event to the registered queue.
dispatch_event(e) == IF mgr.registered THEN Append(tables, e) ELSE tables

\* parse_and_update_PAT, up to the new program list.
PatListed(i) ==
    /\ NextSection(i) /\ m_filter_list[i].table = "PAT"
    /\ m_filter_list[i].found # mgr.patVersionNumber
    /\ mgr' = [mgr EXCEPT !.m_pmtInfo = PmtPid[m_filter_list[i].found]]
    /\ psi' = [pc |-> "announce", version |-> m_filter_list[i].found]
    /\ m_filter_list' = Taken(i)
    /\ UNCHANGED <<air, tables>>

\* The version the manager has already.
PatRepeated(i) ==
    /\ NextSection(i) /\ m_filter_list[i].table = "PAT"
    /\ m_filter_list[i].found = mgr.patVersionNumber
    /\ mgr' = [mgr EXCEPT !.m_bIsPATAvailable = TRUE]
    /\ m_filter_list' = Taken(i)
    /\ UNCHANGED <<air, psi, tables>>

\* Mutant of PatAnnounced: the version stored is the next one.
PatAnnouncedNext ==
    /\ psi.pc = "announce"
    /\ mgr' = [mgr EXCEPT !.m_bIsPATAvailable = TRUE, !.patVersionNumber = psi.version + 1]
    /\ tables' = dispatch_event("PAT_ACQUIRED")
    /\ m_filter_list' \in configure_negative_filters("PAT", m_filter_list, psi.version)
    /\ psi' = [pc |-> "wait", version |-> 0]
    /\ UNCHANGED air

\* The rest of it: notifySIDB, the stored version, the negative filter.
PatAnnounced ==
    /\ psi.pc = "announce"
    /\ mgr' = [mgr EXCEPT !.m_bIsPATAvailable = TRUE, !.patVersionNumber = psi.version]
    /\ tables' = dispatch_event(IF mgr.patVersionNumber = INIT_TABLE_VERSION
                                THEN "PAT_ACQUIRED" ELSE "PAT_UPDATE")
    /\ m_filter_list' \in configure_negative_filters("PAT", m_filter_list, psi.version)
    /\ psi' = [pc |-> "wait", version |-> 0]
    /\ UNCHANGED air

\* parse_and_update_PMT, under m_mediainfo_mutex.
PmtStored(i) ==
    /\ NextSection(i) /\ m_filter_list[i].table = "PMT"
    /\ m_filter_list[i].found # mgr.pmtVersionNumber /\ ~mgr.descriptors_in_use
    /\ LET v == m_filter_list[i].found
       IN  /\ mgr' = [mgr EXCEPT !.elementary_streams = v, !.pmtVersionNumber = v]
           /\ m_filter_list' \in configure_negative_filters("PMT", Taken(i), v)
    /\ tables' = dispatch_event(IF mgr.pmtVersionNumber = INIT_TABLE_VERSION
                                THEN "PMT_ACQUIRED" ELSE "PMT_UPDATE")
    /\ UNCHANGED <<air, psi>>

\* The same version again, or the descriptors are lent: the section is dropped.
PmtDropped(i) ==
    /\ NextSection(i) /\ m_filter_list[i].table = "PMT"
    /\ m_filter_list[i].found = mgr.pmtVersionNumber \/ mgr.descriptors_in_use
    /\ m_filter_list' = Taken(i)
    /\ UNCHANGED <<air, mgr, psi, tables>>

PsiMonitor ==
    \/ PatAnnounced
    \/ \E i \in DOMAIN m_filter_list :
         PatListed(i) \/ PatRepeated(i) \/ PmtStored(i) \/ PmtDropped(i)

-----------------------------------------------------------------------------
(* The calls of the source.                                                *)

\* createInbandSiManager, TuneInitiated and RegisterForPSIEvents.
Create ==
    /\ mgr' = [NewManager EXCEPT !.registered = TRUE]
    /\ m_filter_list' = <<>>

\* ClearProgramInfo.  Nothing processes a PMT between the release of the filter and
\* the reset of the version, so they are one step.
ClearProgramInfo ==
    /\ PsiMutexFree
    /\ m_filter_list' = Released("PMT", m_filter_list)
    /\ mgr' = [mgr EXCEPT !.pmtVersionNumber = INIT_TABLE_VERSION]

\* GetMediaInfo: what the manager has, whether or not a PMT has come since it was cleared.
GetMediaInfo == StreamsOf(mgr.elementary_streams)

=============================================================================
