-------------------------- MODULE QamSourceProofs --------------------------
(***************************************************************************)
(* Proofs about a source and its in-band SI manager, for any tables, any   *)
(* number of filters and any calls: the types, that the source follows the *)
(* tables, that a session serves the PIDs the source outputs, and that     *)
(* with two filters the PAT filter is never taken for the PMT.             *)
(***************************************************************************)
EXTENDS QamSource, FiniteSetTheorems, SequenceTheorems, WellFoundedInduction, TLAPS

-----------------------------------------------------------------------------
(* The filter list: a filter per table at most, and the demux has room for *)
(* those that are set.                                                     *)

PatFilters == [table : {"PAT"}, pid : Nat, neg : PatVersions \cup {0}, priority : {4, 40},
               set : BOOLEAN, found : PatVersions \cup {0}]
PmtFilters == [table : {"PMT"}, pid : Nat, neg : PmtVersions \cup {0}, priority : {2, 4},
               set : {TRUE}, found : PmtVersions \cup {0}]
AllFilters == PatFilters \cup PmtFilters

OncePerTable(list) == \A i, j \in DOMAIN list : list[i].table = list[j].table => i = j
Single(list) == MaxFilters = 1 => \A i, j \in SetIn(list) : i = j
FilterList(list) == list \in Seq(AllFilters) /\ OncePerTable(list) /\ Single(list)

Has(t, list) == \E i \in DOMAIN list : list[i].table = t
PmtAt(list) == {list[i].pid : i \in {k \in DOMAIN list : list[k].table = "PMT"}}

LEMMA LeastNumber ==
    ASSUME NEW T, T \subseteq Nat, T # {}
    PROVE  \E x \in T : \A y \in T : x <= y
<1>1. PICK x \in T : \A y \in T : ~ (<<y, x>> \in OpToRel(<, Nat))
  BY NatLessThanWellFounded, WFMin
<1>2. \A y \in T : ~(y < x)
  BY <1>1 DEF OpToRel
<1> QED
  BY <1>2

\* Where an element of the shorter list comes from.
LEMMA RemovedFrom ==
    ASSUME NEW S, NEW list \in Seq(S), NEW k \in DOMAIN list, NEW r, r = RemoveAt(list, k)
    PROVE  /\ r \in Seq(S)
           /\ \A i \in DOMAIN r : LET m == IF i < k THEN i ELSE i + 1
                                  IN  m \in DOMAIN list /\ m # k /\ r[i] = list[m]
           /\ \A m \in DOMAIN list : m # k => LET i == IF m < k THEN m ELSE m - 1
                                              IN  i \in DOMAIN r /\ r[i] = list[m]
<1> DEFINE a == SubSeq(list, 1, k - 1)
           b == SubSeq(list, k + 1, Len(list))
<1>0. k \in 1..Len(list) /\ DOMAIN list = 1..Len(list) /\ Len(list) \in Nat
  OBVIOUS
<1>1. r = a \o b
  BY DEF RemoveAt
<1>2. a \in Seq(S) /\ Len(a) = k - 1 /\ \A i \in 1..(k - 1) : a[i] = list[i]
  BY <1>0
<1>3. /\ b \in Seq(S) /\ Len(b) = Len(list) - k
      /\ \A i \in 1..(Len(list) - k) : b[i] = list[k + i]
  BY <1>0
<1> HIDE DEF a, b
<1>4. r \in Seq(S) /\ Len(r) = Len(list) - 1 /\ DOMAIN r = 1..(Len(list) - 1)
  <2>1. r \in Seq(S) /\ Len(r) = Len(a) + Len(b)
    BY <1>1, <1>2, <1>3, ConcatProperties
  <2> QED
    BY <1>0, <1>2, <1>3, <2>1
<1>5. ASSUME NEW i \in 1..(k - 1) PROVE r[i] = list[i]
  BY <1>0, <1>1, <1>2, <1>3
<1>6. ASSUME NEW i \in k..(Len(list) - 1) PROVE r[i] = list[i + 1]
  <2>1. r[i] = b[i - (k - 1)]
    BY <1>0, <1>1, <1>2, <1>3
  <2>2. i - (k - 1) \in 1..(Len(list) - k) /\ k + (i - (k - 1)) = i + 1
    BY <1>0
  <2> QED
    BY <1>3, <2>1, <2>2
<1>7. ASSUME NEW i \in DOMAIN r, NEW m, m = IF i < k THEN i ELSE i + 1
      PROVE  m \in DOMAIN list /\ m # k /\ r[i] = list[m]
  BY <1>0, <1>4, <1>5, <1>6, <1>7
<1>8. ASSUME NEW m \in DOMAIN list, m # k, NEW i, i = IF m < k THEN m ELSE m - 1
      PROVE  i \in DOMAIN r /\ r[i] = list[m]
  <2>1. CASE m < k
    BY <1>0, <1>4, <1>5, <1>8, <2>1
  <2>2. CASE m > k
    <3>1. i \in k..(Len(list) - 1) /\ i + 1 = m /\ i \in DOMAIN r
      BY <1>0, <1>4, <1>8, <2>2
    <3> QED
      BY <1>6, <3>1
  <2> QED
    BY <1>0, <1>8, <2>1, <2>2
<1> QED
  BY <1>4, <1>7, <1>8

\* Taking a filter out leaves those of the other table.
LEMMA ListRemoved ==
    ASSUME NEW list, FilterList(list), NEW k \in DOMAIN list, NEW r, r = RemoveAt(list, k)
    PROVE  /\ FilterList(r) /\ ~Has(list[k].table, r)
           /\ \A t : t # list[k].table => (Has(t, r) <=> Has(t, list))
           /\ list[k].table # "PMT" => PmtAt(r) = PmtAt(list)
           /\ MaxFilters = 1 /\ list[k].set => SetIn(r) = {}
<1>1. /\ r \in Seq(AllFilters)
      /\ \A i \in DOMAIN r : LET m == IF i < k THEN i ELSE i + 1
                             IN  m \in DOMAIN list /\ m # k /\ r[i] = list[m]
      /\ \A m \in DOMAIN list : m # k => LET i == IF m < k THEN m ELSE m - 1
                                         IN  i \in DOMAIN r /\ r[i] = list[m]
  BY RemovedFrom DEF FilterList
<1>2. PICK g : g = [i \in DOMAIN r |-> IF i < k THEN i ELSE i + 1]
  OBVIOUS
<1>3. DOMAIN r \subseteq Int /\ k \in Int /\ DOMAIN list \subseteq Int
  BY <1>1 DEF FilterList
<1>4. /\ \A i \in DOMAIN r : g[i] \in DOMAIN list /\ g[i] # k /\ r[i] = list[g[i]]
      /\ \A i, j \in DOMAIN r : g[i] = g[j] => i = j
      /\ \A m \in DOMAIN list : m # k => \E i \in DOMAIN r : r[i] = list[m]
  BY <1>1, <1>2, <1>3
<1>5. OncePerTable(r) /\ Single(r)
  BY <1>4 DEF OncePerTable, Single, SetIn, FilterList
<1>6. ~Has(list[k].table, r)
  BY <1>4 DEF Has, FilterList, OncePerTable
<1>7. ASSUME NEW t, t # list[k].table PROVE Has(t, r) <=> Has(t, list)
  BY <1>4, <1>7 DEF Has
<1>8. ASSUME list[k].table # "PMT" PROVE PmtAt(r) = PmtAt(list)
  BY <1>4, <1>8 DEF PmtAt
<1>9. ASSUME MaxFilters = 1, list[k].set PROVE SetIn(r) = {}
  BY <1>4, <1>9 DEF SetIn, FilterList, Single
<1> QED
  BY <1>1, <1>5, <1>6, <1>7, <1>8, <1>9 DEF FilterList

\* A filter may find or lose a section, or be cancelled.
Marked(list, k, e) == [list EXCEPT ![k] = e]

LEMMA ListMarked ==
    ASSUME NEW list, FilterList(list), NEW k \in DOMAIN list, NEW e \in AllFilters,
           e.table = list[k].table, e.pid = list[k].pid, e.set => list[k].set,
           NEW r, r = Marked(list, k, e)
    PROVE  /\ FilterList(r) /\ DOMAIN r = DOMAIN list
           /\ \A t : Has(t, r) <=> Has(t, list)
           /\ PmtAt(r) = PmtAt(list)
           /\ SetIn(r) \subseteq SetIn(list) /\ (k \in SetIn(r) => e.set)
<1>1. /\ r \in Seq(AllFilters) /\ DOMAIN r = DOMAIN list
      /\ \A i \in DOMAIN list : r[i] = IF i = k THEN e ELSE list[i]
  BY DEF FilterList, Marked
<1>2. \A i \in DOMAIN list : r[i].table = list[i].table /\ r[i].pid = list[i].pid /\ (r[i].set => list[i].set)
  BY <1>1
<1>3. SetIn(r) \subseteq SetIn(list) /\ (k \in SetIn(r) => e.set)
  BY <1>1, <1>2 DEF SetIn
<1>4. OncePerTable(r) /\ Single(r)
  <2>1. ASSUME NEW i \in DOMAIN r, NEW j \in DOMAIN r, r[i].table = r[j].table PROVE i = j
    <3>1. i \in DOMAIN list /\ j \in DOMAIN list /\ list[i].table = list[j].table
      BY <1>1, <1>2, <2>1
    <3> QED
      BY <3>1 DEF FilterList, OncePerTable
  <2>2. Single(r)
    BY <1>3, Zenon DEF FilterList, Single
  <2> QED
    BY <2>1, <2>2 DEF OncePerTable
<1>5. ASSUME NEW t PROVE Has(t, r) <=> Has(t, list)
  BY <1>1, <1>2 DEF Has
<1>6. PmtAt(r) = PmtAt(list)
  BY <1>1, <1>2 DEF PmtAt
<1> QED
  BY <1>1, <1>3, <1>4, <1>5, <1>6 DEF FilterList

\* A new filter for a table that has none, when the demux has room.
LEMMA ListAppended ==
    ASSUME NEW list, FilterList(list), NEW f \in AllFilters, ~Has(f.table, list),
           MaxFilters = 1 => SetIn(list) = {}, NEW r, r = Append(list, f)
    PROVE  /\ FilterList(r)
           /\ Has(f.table, r) /\ \A t : t # f.table => (Has(t, r) <=> Has(t, list))
           /\ PmtAt(r) = IF f.table = "PMT" THEN {f.pid} ELSE PmtAt(list)
           /\ SetIn(r) \subseteq SetIn(list) \cup {Len(list) + 1}
<1> DEFINE n == Len(list) + 1
<1>1. /\ r \in Seq(AllFilters) /\ n \in Nat /\ n \notin DOMAIN list /\ DOMAIN r = DOMAIN list \cup {n}
      /\ \A i \in DOMAIN list : r[i] = list[i]
      /\ r[n] = f
  BY AppendProperties DEF FilterList
<1> HIDE DEF n
<1>2. SetIn(r) \subseteq SetIn(list) \cup {n}
  BY <1>1 DEF SetIn
<1>3. OncePerTable(r) /\ Single(r)
  BY <1>1, <1>2 DEF OncePerTable, Single, FilterList, Has
<1>4. Has(f.table, r)
  BY <1>1 DEF Has
<1>5. ASSUME NEW t, t # f.table PROVE Has(t, r) <=> Has(t, list)
  BY <1>1, <1>5 DEF Has
<1>6. CASE f.table = "PMT"
  <2>1. {k \in DOMAIN r : r[k].table = "PMT"} = {n}
    BY <1>1, <1>6 DEF Has
  <2>2. PmtAt(r) = {f.pid}
    BY <1>1, <2>1 DEF PmtAt
  <2> QED
    BY <1>1, <1>2, <1>3, <1>4, <1>5, <1>6, <2>2 DEF FilterList, n
<1>7. CASE f.table # "PMT"
  <2>1. {k \in DOMAIN r : r[k].table = "PMT"} = {k \in DOMAIN list : list[k].table = "PMT"}
    BY <1>1, <1>7
  <2>2. PmtAt(r) = PmtAt(list)
    BY <1>1, <2>1 DEF PmtAt
  <2> QED
    BY <1>1, <1>2, <1>3, <1>4, <1>5, <1>7, <2>2 DEF FilterList, n
<1> QED
  BY <1>6, <1>7

\* The demux is full only when it has a filter, and one filter does not fill two places.
LEMMA Room ==
    ASSUME NEW list, FilterList(list)
    PROVE  /\ Cardinality(SetIn(list)) >= MaxFilters => SetIn(list) # {}
           /\ ~(Cardinality(SetIn(list)) >= MaxFilters) /\ MaxFilters = 1 => SetIn(list) = {}
           /\ Cardinality(SetIn(list)) >= MaxFilters /\ MaxFilters # 1 => \E i, j \in SetIn(list) : i # j
<1> DEFINE S == SetIn(list)
<1>1. IsFiniteSet(S) /\ Cardinality(S) \in Nat
  <2>1. IsFiniteSet(1..Len(list)) /\ S \subseteq 1..Len(list)
    BY FS_Interval DEF FilterList, SetIn
  <2> HIDE DEF S
  <2> QED
    BY <2>1, FS_Subset, FS_CardinalityType
<1> HIDE DEF S
<1>2. S = {} <=> Cardinality(S) = 0
  BY <1>1, FS_EmptySet
<1>3. ASSUME \A i, j \in S : i = j PROVE Cardinality(S) <= 1
  <2>1. CASE S = {}
    BY <1>2, <2>1
  <2>2. CASE S # {}
    <3>1. PICK x : S = {x}
      BY <1>3, <2>2
    <3> QED
      BY <3>1, FS_Singleton
  <2> QED
    BY <2>1, <2>2
<1>4. MaxFilters \in Nat \ {0}
  BY InbandConstants
<1> QED
  BY <1>1, <1>2, <1>3, <1>4 DEF S

\* A list without the one table has a filter at most.
LEMMA OtherTable ==
    ASSUME NEW list, FilterList(list), NEW t \in Tables, ~Has(t, list)
    PROVE  /\ \A i, j \in DOMAIN list : i = j
           /\ \A i \in DOMAIN list : list[i] \in AllFilters /\ list[i].table # t
<1>1. \A i \in DOMAIN list : list[i] \in AllFilters
  BY DEF FilterList
<1>2. \A i \in DOMAIN list : list[i].table \in Tables /\ list[i].table # t
  BY <1>1 DEF AllFilters, PatFilters, PmtFilters, Tables, Has
<1>3. \A i, j \in DOMAIN list : list[i].table = list[j].table
  BY <1>2 DEF Tables
<1> QED
  BY <1>1, <1>2, <1>3 DEF FilterList, OncePerTable

\* SetFilter for a table that has no filter.  The PMT is refused for want of room only
\* when its filter is not set at the PSI state's priority, and the place is taken.
LEMMA SetFilterList ==
    ASSUME NEW list, FilterList(list), NEW f \in AllFilters, f.set, ~Has(f.table, list),
           NEW r, r \in set_filter(list, f)
    PROVE  /\ FilterList(r)
           /\ \A t : t # f.table => (Has(t, r) <=> Has(t, list))
           /\ f.table = "PAT" => PmtAt(r) = PmtAt(list)
           /\ f.table = "PMT" => PmtAt(r) \in {PmtAt(list), {f.pid}}
           /\ /\ f.table = "PMT" /\ "PMT" \notin Refuses
              /\ f.priority = 2 \/ MaxFilters # 1 \/ SetIn(list) = {}
              => PmtAt(r) = {f.pid}
           /\ MaxFilters # 1 => r \in {list, Append(list, f)}
<1> DEFINE full == Cardinality(SetIn(list)) >= MaxFilters
           cancelled(i) == [list EXCEPT ![i].set = FALSE, ![i].found = 0]
<1>1. /\ f.table \in Tables
      /\ f.table = "PAT" => f.priority \in {4, 40}
      /\ f.table = "PMT" => f.priority \in {2, 4}
  BY DEF AllFilters, PatFilters, PmtFilters, Tables
<1>2. /\ \A i, j \in DOMAIN list : i = j
      /\ \A i \in DOMAIN list : list[i] \in AllFilters /\ list[i].table # f.table
  BY <1>1, OtherTable
<1>3. \A i \in DOMAIN list :
         /\ list[i].table = "PAT" => list[i] \in PatFilters
         /\ list[i].table = "PMT" => list[i].priority \in {2, 4}
         /\ list[i].table \in Tables
  BY <1>2 DEF AllFilters, PatFilters, PmtFilters, Tables
<1>4. SetIn(list) \subseteq DOMAIN list
  BY DEF SetIn
<1>5. /\ full => SetIn(list) # {}
      /\ ~full /\ MaxFilters = 1 => SetIn(list) = {}
      /\ MaxFilters # 1 => ~full
  BY <1>2, <1>4, Room
<1>6. \/ ~full /\ r = Append(list, f)
      \/ full /\ Victims(list, f.priority) = {} /\ r = list
      \/ full /\ \E i \in Victims(list, f.priority) \cap SetIn(list) : r = Append(cancelled(i), f)
      \/ f.table \in Refuses /\ r = list
  BY DEF set_filter
<1> HIDE DEF full
<1>7. CASE ~full /\ r = Append(list, f)
  <2>1. MaxFilters = 1 => SetIn(list) = {}
    BY <1>5, <1>7
  <2>2. /\ FilterList(r)
        /\ \A t : t # f.table => (Has(t, r) <=> Has(t, list))
        /\ PmtAt(r) = IF f.table = "PMT" THEN {f.pid} ELSE PmtAt(list)
    BY <1>7, <2>1, ListAppended
  <2> QED
    BY <1>1, <1>7, <2>2
<1>8. CASE r = list /\ f.table \in Refuses
  BY <1>8
<1>9. CASE full /\ Victims(list, f.priority) = {} /\ r = list
  <2>1. ~(f.priority = 2 /\ f.table = "PMT")
    <3> SUFFICES ASSUME f.priority = 2, f.table = "PMT" PROVE FALSE
      OBVIOUS
    <3>1. PICK i \in SetIn(list) : TRUE
      BY <1>5, <1>9
    <3>2. i \in DOMAIN list /\ list[i].table = "PAT" /\ \A j \in DOMAIN list : j = i
      BY <1>2, <1>3, <1>4, <3>1 DEF Tables
    <3>3. list[i].priority \in {4, 40}
      BY <1>3, <3>2 DEF PatFilters
    <3>4. i \in Victims(list, f.priority)
      BY <3>2, <3>3 DEF Victims
    <3> QED
      BY <1>9, <3>4
  <2> QED
    BY <1>5, <1>9, <2>1
<1>10. ASSUME full, NEW i \in Victims(list, f.priority) \cap SetIn(list), r = Append(cancelled(i), f)
       PROVE  /\ FilterList(r)
              /\ \A t : t # f.table => (Has(t, r) <=> Has(t, list))
              /\ f.table = "PMT" /\ PmtAt(r) = {f.pid} /\ MaxFilters = 1
  <2>1. i \in SetIn(list) /\ i \in DOMAIN list /\ list[i].priority > f.priority
    BY <1>4, <1>10 DEF Victims
  <2>2. f.table = "PMT" /\ list[i] \in PatFilters
    BY <1>1, <1>2, <1>3, <2>1 DEF Tables
  <2>3. PICK e : e = [list[i] EXCEPT !.set = FALSE, !.found = 0]
    OBVIOUS
  <2>4. e \in AllFilters /\ e.table = list[i].table /\ e.pid = list[i].pid /\ e.set = FALSE
    BY <2>2, <2>3 DEF AllFilters, PatFilters
  <2>5. PICK c : c = Marked(list, i, e)
    OBVIOUS
  <2>6. c = cancelled(i)
    BY <2>1, <2>3, <2>5 DEF FilterList, Marked
  <2>7. /\ FilterList(c)
        /\ \A t : Has(t, c) <=> Has(t, list)
        /\ SetIn(c) \subseteq SetIn(list) /\ i \notin SetIn(c)
    BY <2>1, <2>4, <2>5, ListMarked
  <2>8. SetIn(c) = {}
    BY <1>2, <1>4, <2>1, <2>7
  <2>9. r = Append(c, f) /\ ~Has(f.table, c)
    BY <1>10, <2>6, <2>7
  <2>10. /\ FilterList(r)
         /\ \A t : t # f.table => (Has(t, r) <=> Has(t, c))
         /\ PmtAt(r) = IF f.table = "PMT" THEN {f.pid} ELSE PmtAt(c)
    BY <2>7, <2>8, <2>9, ListAppended
  <2> QED
    BY <1>5, <1>10, <2>2, <2>7, <2>10
<1>11. CASE full /\ \E i \in Victims(list, f.priority) \cap SetIn(list) : r = Append(cancelled(i), f)
  <2>1. /\ FilterList(r)
        /\ \A t : t # f.table => (Has(t, r) <=> Has(t, list))
        /\ f.table = "PMT" /\ PmtAt(r) = {f.pid} /\ MaxFilters = 1
    BY <1>10, <1>11
  <2> QED
    BY <2>1
<1> QED
  BY <1>6, <1>7, <1>8, <1>9, <1>11

LEMMA FirstOfTable ==
    ASSUME NEW list, FilterList(list), NEW t
    PROVE  /\ FirstOf(t, list) = 0 <=> ~Has(t, list)
           /\ Has(t, list) => FirstOf(t, list) \in DOMAIN list /\ list[FirstOf(t, list)].table = t
<1> DEFINE I == {i \in 1..Len(list) : list[i].table = t}
<1>1. FirstOf(t, list) = IF I # {} THEN Min(I) ELSE 0
  BY DEF FirstOf, SelectInSeq
<1>2. DOMAIN list = 1..Len(list) /\ I \subseteq Nat \ {0}
  BY DEF FilterList
<1>3. I # {} <=> Has(t, list)
  BY <1>2 DEF Has
<1>4. I # {} => \E x \in I : \A y \in I : x <= y
  <2> HIDE DEF I
  <2> QED
    BY <1>2, LeastNumber
<1>5. I # {} => Min(I) \in I
  BY <1>4 DEF Min
<1> QED
  BY <1>1, <1>2, <1>3, <1>5

\* ReleaseFilter takes the table's filter.
LEMMA ReleasedList ==
    ASSUME NEW list, FilterList(list), NEW t
    PROVE  /\ FilterList(Released(t, list)) /\ ~Has(t, Released(t, list))
           /\ \A u : u # t => (Has(u, Released(t, list)) <=> Has(u, list))
<1>1. CASE ~Has(t, list)
  BY <1>1, FirstOfTable DEF Released
<1>2. CASE Has(t, list)
  <2>1. PICK k : k = FirstOf(t, list)
    OBVIOUS
  <2>2. k \in DOMAIN list /\ list[k].table = t /\ k # 0
    BY <1>2, <2>1, FirstOfTable
  <2>3. Released(t, list) = RemoveAt(list, k)
    BY <2>1, <2>2 DEF Released
  <2> QED
    BY <2>2, <2>3, ListRemoved
<1> QED
  BY <1>1, <1>2

\* The filter is set again on the same PID, and the place it had is there for it.
LEMMA NegativeList ==
    ASSUME NEW list, FilterList(list), NEW t \in Tables, NEW v,
           t = "PAT" => v \in PatVersions, t = "PMT" => v \in PmtVersions,
           NEW r, r \in configure_negative_filters(t, list, v)
    PROVE  /\ FilterList(r)
           /\ \A u : u # t => (Has(u, r) <=> Has(u, list))
           /\ t = "PAT" => PmtAt(r) = PmtAt(list)
           /\ ~Has(t, list) => r = list
           /\ t = "PMT" /\ "PMT" \notin Refuses => PmtAt(r) = PmtAt(list)
<1>1. CASE ~(NegativeFilters /\ FirstOf(t, list) # 0)
  <2>1. r = list
    BY <1>1 DEF configure_negative_filters
  <2> QED
    BY <2>1
<1>2. CASE NegativeFilters /\ FirstOf(t, list) # 0
  <2>1. PICK k : k = FirstOf(t, list)
    OBVIOUS
  <2>2. k \in DOMAIN list /\ list[k].table = t /\ Has(t, list)
    BY <1>2, <2>1, FirstOfTable
  <2>3. PICK l, f : l = RemoveAt(list, k) /\ f = Filter(t, list[k].pid, v, 4)
    OBVIOUS
  <2>4. r \in set_filter(l, f)
    BY <1>2, <2>1, <2>3 DEF configure_negative_filters
  <2>5. list[k] \in AllFilters /\ list[k].pid \in Nat
    <3>1. list[k] \in AllFilters
      BY <2>2 DEF FilterList
    <3> QED
      BY <3>1 DEF AllFilters, PatFilters, PmtFilters
  <2>6. f \in AllFilters /\ f.table = t /\ f.pid = list[k].pid /\ f.set
    BY <2>3, <2>5 DEF Filter, Tables, AllFilters, PatFilters, PmtFilters
  <2>7. /\ FilterList(l) /\ ~Has(t, l)
        /\ \A u : u # t => (Has(u, l) <=> Has(u, list))
        /\ t # "PMT" => PmtAt(l) = PmtAt(list)
        /\ MaxFilters = 1 /\ list[k].set => SetIn(l) = {}
    BY <2>2, <2>3, ListRemoved
  <2>8. /\ FilterList(r)
        /\ \A u : u # t => (Has(u, r) <=> Has(u, l))
        /\ t = "PAT" => PmtAt(r) = PmtAt(l)
        /\ t = "PMT" /\ "PMT" \notin Refuses /\ (MaxFilters # 1 \/ SetIn(l) = {}) => PmtAt(r) = {f.pid}
    BY <2>4, <2>6, <2>7, SetFilterList
  <2>9. ASSUME t = "PMT" PROVE PmtAt(list) = {f.pid} /\ (MaxFilters # 1 \/ SetIn(l) = {})
    <3>1. list[k].set
      BY <2>2, <2>5, <2>9 DEF AllFilters, PatFilters, PmtFilters
    <3>2. {j \in DOMAIN list : list[j].table = "PMT"} = {k}
      BY <2>2, <2>9 DEF FilterList, OncePerTable
    <3> QED
      BY <2>6, <2>7, <3>1, <3>2 DEF PmtAt
  <2> QED
    BY <2>2, <2>7, <2>8, <2>9
<1> QED
  BY <1>1, <1>2

\* A section comes for a filter, or is taken from it.
WithSection(list, k, v) == [list EXCEPT ![k].found = v]

LEMMA FoundList ==
    ASSUME NEW list, FilterList(list), NEW k \in DOMAIN list, NEW v,
           list[k].table = "PAT" => v \in PatVersions \cup {0},
           list[k].table = "PMT" => v \in PmtVersions \cup {0},
           NEW r, r = WithSection(list, k, v)
    PROVE  /\ FilterList(r) /\ PmtAt(r) = PmtAt(list)
           /\ \A t : Has(t, r) <=> Has(t, list)
<1>1. list[k] \in AllFilters
  BY DEF FilterList
<1>2. PICK e : e = [list[k] EXCEPT !.found = v]
  OBVIOUS
<1>3. e \in AllFilters /\ e.table = list[k].table /\ e.pid = list[k].pid /\ e.set = list[k].set
  BY <1>1, <1>2 DEF AllFilters, PatFilters, PmtFilters
<1>4. r = Marked(list, k, e)
  BY <1>2 DEF FilterList, Marked, WithSection
<1>5. /\ FilterList(r) /\ PmtAt(r) = PmtAt(list)
      /\ \A t : Has(t, r) <=> Has(t, list)
  <2>1. e \in AllFilters /\ e.table = list[k].table /\ e.pid = list[k].pid /\ (e.set => list[k].set)
    BY <1>3
  <2> QED
    BY <1>4, <2>1, ListMarked
<1> QED
  BY <1>5

-----------------------------------------------------------------------------
(* The manager's life, and what comes from it.                             *)

Typed == ManagerTypes /\ SourceTypes /\ FilterList(m_filter_list)

\* The events that make the monitor look the program up.
PatEvents == {"PAT_ACQUIRED", "PAT_UPDATE"}
PmtEvents == {"PMT_ACQUIRED", "PMT_UPDATE"}
Coming(queue, events) == \E k \in DOMAIN queue : queue[k] \in events
FirstOnly(queue) == \A k \in DOMAIN queue : queue[k] = "PAT_ACQUIRED" => k = 1
Looking == monitor.pc \in {"clear", "request", "filter", "report"}

\* Nothing is left of a manager that is gone, and a source that is open has one.
Life ==
    /\ psi.pc = "announce" => psi.version # 0 /\ mgr.exists
    /\ ~mgr.exists => /\ m_filter_list = <<>> /\ monitor.pc = "none"
                      /\ ~mgr.registered /\ mgr.patVersionNumber = INIT_TABLE_VERSION
    /\ ~mgr.registered => tables = <<>>
    /\ owner \in {"opening", "open", "setup", "start"} => mgr.registered
    /\ owner \in {"stopping", "joining"} => ~mgr.registered
    /\ owner = "opening" \/ (owner = "joining" /\ state # "IDLE") =>
         m_filter_list = <<>> /\ mgr.patVersionNumber = INIT_TABLE_VERSION /\ psi.pc = "wait"
    /\ owner \in {"closing", "stopping"} => state = "IDLE"

\* Until the monitor has taken PAT_ACQUIRED, nothing is known of a program.
First ==
    /\ mgr.patVersionNumber = INIT_TABLE_VERSION => tables = <<>> /\ ~Looking
    /\ mgr.patVersionNumber # INIT_TABLE_VERSION => mgr.m_bIsPATAvailable
    /\ FirstOnly(tables) /\ (Coming(tables, {"PAT_ACQUIRED"}) => ~Looking)
    /\ mgr.patVersionNumber = INIT_TABLE_VERSION \/ Coming(tables, {"PAT_ACQUIRED"}) =>
         /\ ~Has("PMT", m_filter_list) /\ ~errors.invalidBit
         /\ mgr.exists => errors.m_si_error # "INVALID"

\* While the monitor looks the program up, there is no filter for its PMT.
Lookup ==
    /\ monitor.pc \in {"request", "filter"} =>
         ~Has("PMT", m_filter_list) /\ errors.m_si_error # "INVALID"
    /\ Looking => monitor.event \in PatEvents
    /\ monitor.pc = "clear" => monitor.event = "PAT_UPDATE"
    /\ Looking /\ monitor.event # "PAT_UPDATE" => ~errors.invalidBit

\* The program the monitor knows of is the manager's, unless it is to look again.
Knows ==
    mgr.registered /\ mgr.patVersionNumber # INIT_TABLE_VERSION /\ psi.pc = "wait" /\ ~Coming(tables, PatEvents) =>
      /\ monitor.pc = "filter" => mgr.pmtPid = mgr.m_pmtInfo /\ mgr.pmtPid # NoPid
      /\ monitor.pc \notin {"clear", "request", "filter"} => PmtAt(m_filter_list) = {mgr.m_pmtInfo} \ {NoPid}
      /\ monitor.pc = "report" => (errors.m_si_error = "INVALID") = (mgr.m_pmtInfo = NoPid)
      /\ ~Looking => errors.invalidBit = (mgr.m_pmtInfo = NoPid)

\* The media are those of the last PMT stored, unless the monitor is to ask for them.
Media ==
    mgr.registered /\ mgr.pmtVersionNumber # INIT_TABLE_VERSION /\ ~Coming(tables, PmtEvents)
    /\ monitor.pc # "program" => mediaInfo = StreamsOf(mgr.elementary_streams)

Inv == Typed /\ Life /\ First /\ Lookup

\* m_mutex is held over setupDecryption, and the session is the source's outside it.
Mutex ==
    /\ m_mutex = "monitor" <=> monitor.pc \in {"setup", "start"}
    /\ m_mutex = "owner" <=> owner \in {"setup", "start"}

Serves ==
    /\ state = "PAUSED" => session = NoSession /\ m_mutex # "monitor"
    /\ m_mutex = "free" => NoMedia = mediaInfo \/ session \in {NoSession, mediaInfo}

-----------------------------------------------------------------------------
(* The queue of table events.                                              *)

LEMMA QueueEmpty ==
    /\ \A events : ~Coming(<<>>, events)
    /\ FirstOnly(<<>>)
BY DEF Coming, FirstOnly

LEMMA QueueAppended ==
    ASSUME NEW q \in Seq(TableEvents), NEW e \in TableEvents
    PROVE  /\ Append(q, e) \in Seq(TableEvents) /\ Append(q, e) # <<>>
           /\ \A events : Coming(Append(q, e), events) <=> Coming(q, events) \/ e \in events
           /\ FirstOnly(q) /\ (e = "PAT_ACQUIRED" => q = <<>>) => FirstOnly(Append(q, e))
<1> DEFINE r == Append(q, e)
           n == Len(q) + 1
<1>1. /\ r \in Seq(TableEvents) /\ r # <<>> /\ n \in Nat /\ DOMAIN r = DOMAIN q \cup {n}
      /\ \A i \in DOMAIN q : r[i] = q[i]
      /\ r[n] = e /\ (q = <<>> => n = 1)
  BY AppendProperties
<1> HIDE DEF r, n
<1>2. ASSUME NEW events PROVE Coming(r, events) <=> Coming(q, events) \/ e \in events
  BY <1>1 DEF Coming
<1>3. FirstOnly(q) /\ (e = "PAT_ACQUIRED" => q = <<>>) => FirstOnly(r)
  BY <1>1 DEF FirstOnly
<1> QED
  BY <1>1, <1>2, <1>3 DEF r

LEMMA QueueTaken ==
    ASSUME NEW q \in Seq(TableEvents), q # <<>>
    PROVE  /\ Tail(q) \in Seq(TableEvents) /\ Head(q) \in TableEvents
           /\ \A events : Coming(q, events) <=> Head(q) \in events \/ Coming(Tail(q), events)
           /\ FirstOnly(q) => FirstOnly(Tail(q)) /\ ~Coming(Tail(q), {"PAT_ACQUIRED"})
<1> DEFINE t == Tail(q)
<1>1. /\ t \in Seq(TableEvents) /\ Head(q) \in TableEvents /\ Head(q) = q[1]
      /\ Len(t) = Len(q) - 1 /\ DOMAIN t = 1..(Len(q) - 1) /\ DOMAIN q = 1..Len(q) /\ Len(q) \in Nat \ {0}
      /\ \A i \in DOMAIN t : t[i] = q[i + 1]
  OBVIOUS
<1> HIDE DEF t
<1>2. /\ \A i \in DOMAIN t : i + 1 \in DOMAIN q /\ t[i] = q[i + 1] /\ i + 1 # 1
      /\ \A i \in DOMAIN q : i # 1 => i - 1 \in DOMAIN t /\ t[i - 1] = q[i]
      /\ 1 \in DOMAIN q
  BY <1>1
<1>3. ASSUME NEW events PROVE Coming(q, events) <=> Head(q) \in events \/ Coming(t, events)
  <2>1. ASSUME Coming(q, events), Head(q) \notin events PROVE Coming(t, events)
    <3>1. PICK i \in DOMAIN q : q[i] \in events
      BY <2>1 DEF Coming
    <3>2. i # 1
      BY <1>1, <2>1, <3>1
    <3> QED
      BY <1>2, <3>1, <3>2 DEF Coming
  <2>2. ASSUME Coming(t, events) PROVE Coming(q, events)
    <3>1. PICK i \in DOMAIN t : t[i] \in events
      BY <2>2 DEF Coming
    <3> QED
      BY <1>2, <3>1 DEF Coming
  <2> QED
    BY <1>1, <1>2, <2>1, <2>2 DEF Coming
<1>4. ASSUME FirstOnly(q) PROVE \A i \in DOMAIN t : t[i] # "PAT_ACQUIRED"
  BY <1>2, <1>4 DEF FirstOnly
<1>5. FirstOnly(q) => FirstOnly(t) /\ ~Coming(t, {"PAT_ACQUIRED"})
  BY <1>4 DEF FirstOnly, Coming
<1> QED
  BY <1>1, <1>3, <1>5 DEF t

-----------------------------------------------------------------------------
(* The types.                                                              *)

\* A section is of the filter's table.
LEMMA SectionTypes ==
    ASSUME NEW list, FilterList(list), NEW i \in DOMAIN list
    PROVE  /\ list[i] \in AllFilters /\ list[i].table \in Tables /\ list[i].pid \in Nat
           /\ list[i].table = "PAT" => list[i].found \in PatVersions \cup {0}
           /\ list[i].table = "PMT" => list[i].found \in PmtVersions \cup {0}
<1>1. list[i] \in AllFilters
  BY DEF FilterList
<1> QED
  BY <1>1 DEF AllFilters, PatFilters, PmtFilters, Tables

LEMMA MediaType ==
    ASSUME Typed
    PROVE  GetMediaInfo \in PidSets
BY DEF Typed, ManagerTypes, Managers, GetMediaInfo, StreamsOf, INIT_TABLE_VERSION, PidSets

LEMMA OpenTypes ==
    ASSUME Typed, Open
    PROVE  ManagerTypes' /\ SourceTypes'
<1>1. flags' \in Flags
  BY DEF Open, Create, NewManager, INIT_TABLE_VERSION, NoPid, Typed, SourceTypes, Flags
<1>2. errors' \in Errors
  BY DEF Open, Create, NewManager, INIT_TABLE_VERSION, NoPid, Typed, SourceTypes, Errors
<1>3. monitor' \in Monitors
  BY DEF Open, Create, NewManager, INIT_TABLE_VERSION, NoPid, Typed, SourceTypes, Monitors, TableEvents
<1>4. mgr' \in Managers
  BY DEF Open, Create, NewManager, INIT_TABLE_VERSION, NoPid, Typed, ManagerTypes, Managers
<1> QED
  BY <1>1, <1>2, <1>3, <1>4 DEF Open, Create, NewManager, INIT_TABLE_VERSION, NoPid, Typed, ManagerTypes,
     SourceTypes

LEMMA PlayTypes ==
    ASSUME Typed, Play
    PROVE  ManagerTypes' /\ SourceTypes'
<1>1. urgent' \in Seq({"PAUSED", "PLAYING", "TERMINATE"})
  BY DEF Play, siVars, Calls, Posts, NoMedia, NoSession, Typed, SourceTypes
<1> QED
  BY <1>1 DEF Play, siVars, Calls, Posts, NoMedia, NoSession, Typed, ManagerTypes, SourceTypes

LEMMA PlaySetupTypes ==
    ASSUME Typed, PlaySetup
    PROVE  ManagerTypes' /\ SourceTypes'
BY DEF PlaySetup, siVars, Calls, NoMedia, NoSession, Typed, ManagerTypes, SourceTypes

LEMMA PauseTypes ==
    ASSUME Typed, Pause
    PROVE  ManagerTypes' /\ SourceTypes'
<1>1. session' \in PidSets
  BY DEF Pause, siVars, Calls, Posts, NoSession, Typed, SourceTypes, PidSets
<1>2. urgent' \in Seq({"PAUSED", "PLAYING", "TERMINATE"})
  BY DEF Pause, siVars, Calls, Posts, NoSession, Typed, SourceTypes
<1> QED
  BY <1>1, <1>2 DEF Pause, siVars, Calls, Posts, NoSession, Typed, ManagerTypes, SourceTypes

LEMMA CloseTypes ==
    ASSUME Typed, Close
    PROVE  ManagerTypes' /\ SourceTypes'
<1>1. session' \in PidSets
  BY DEF Close, siVars, NoSession, Typed, SourceTypes, PidSets
<1> QED
  BY <1>1 DEF Close, siVars, NoSession, Typed, ManagerTypes, SourceTypes

LEMMA OpenSucceedsTypes ==
    ASSUME Typed, OpenSucceeds
    PROVE  ManagerTypes' /\ SourceTypes'
BY DEF OpenSucceeds, Typed, ManagerTypes, SourceTypes

LEMMA OpenFailsTypes ==
    ASSUME Typed, OpenFails
    PROVE  ManagerTypes' /\ SourceTypes'
<1>1. mgr' \in Managers
  BY DEF OpenFails, Typed, ManagerTypes, Managers
<1>2. urgent' \in Seq({"PAUSED", "PLAYING", "TERMINATE"})
  BY DEF OpenFails, Typed, SourceTypes
<1> QED
  BY <1>1, <1>2 DEF OpenFails, Typed, ManagerTypes, SourceTypes

LEMMA OwnerSetupTypes ==
    ASSUME Typed, OwnerSetup
    PROVE  ManagerTypes' /\ SourceTypes'
<1>1. session' \in PidSets
  BY DEF OwnerSetup, SetupBegins, NoMedia, NoSession, Typed, SourceTypes, PidSets
<1>2. mgr' \in Managers
  BY DEF OwnerSetup, SetupBegins, NoMedia, NoSession, Typed, ManagerTypes, Managers
<1> QED
  BY <1>1, <1>2 DEF OwnerSetup, SetupBegins, NoMedia, NoSession, Typed, ManagerTypes, SourceTypes

LEMMA OwnerStartTypes ==
    ASSUME Typed, OwnerStart
    PROVE  ManagerTypes' /\ SourceTypes'
<1>1. session' \in PidSets
  BY DEF OwnerStart, SetupEnds, Posts, NoSession, Typed, SourceTypes, PidSets
<1>2. mgr' \in Managers
  BY DEF OwnerStart, SetupEnds, Posts, NoSession, Typed, ManagerTypes, Managers
<1>3. urgent' \in Seq({"PAUSED", "PLAYING", "TERMINATE"})
  BY DEF OwnerStart, SetupEnds, Posts, NoSession, Typed, SourceTypes
<1> QED
  BY <1>1, <1>2, <1>3 DEF OwnerStart, SetupEnds, Posts, NoSession, Typed, ManagerTypes, SourceTypes

LEMMA CloseUnregistersTypes ==
    ASSUME Typed, CloseUnregisters
    PROVE  ManagerTypes' /\ SourceTypes'
<1>1. flags' \in Flags
  BY DEF CloseUnregisters, Typed, SourceTypes, Flags
<1>2. mgr' \in Managers
  BY DEF CloseUnregisters, Typed, ManagerTypes, Managers
<1>3. tables' \in Seq(TableEvents)
  BY DEF CloseUnregisters, Typed, ManagerTypes, TableEvents
<1>4. urgent' \in Seq({"PAUSED", "PLAYING", "TERMINATE"})
  BY DEF CloseUnregisters, Typed, SourceTypes
<1> QED
  BY <1>1, <1>2, <1>3, <1>4 DEF CloseUnregisters, Typed, ManagerTypes, SourceTypes

LEMMA CloseStopsTypes ==
    ASSUME Typed, CloseStops
    PROVE  ManagerTypes' /\ SourceTypes'
<1>1. urgent' \in Seq({"PAUSED", "PLAYING", "TERMINATE"})
  BY DEF CloseStops, siVars, Posts, Typed, SourceTypes
<1> QED
  BY <1>1 DEF CloseStops, siVars, Posts, Typed, ManagerTypes, SourceTypes

LEMMA JoinedTypes ==
    ASSUME Typed, Joined
    PROVE  ManagerTypes' /\ SourceTypes'
<1>1. monitor' \in Monitors
  BY DEF Joined, NewManager, NoManager, INIT_TABLE_VERSION, NoPid, NoMedia, Typed, SourceTypes, Monitors,
     TableEvents
<1>2. mgr' \in Managers
  BY DEF Joined, NewManager, NoManager, INIT_TABLE_VERSION, NoPid, NoMedia, Typed, ManagerTypes, Managers
<1>3. air' \in Broadcasts
  BY DEF Joined, NewManager, NoManager, INIT_TABLE_VERSION, NoPid, NoMedia, Typed, ManagerTypes, Broadcasts
<1>4. mediaInfo' \in PidSets
  BY DEF Joined, NewManager, NoManager, INIT_TABLE_VERSION, NoPid, NoMedia, Typed, SourceTypes, PidSets
<1>5. errors' \in Errors
  BY DEF Joined, NewManager, NoManager, INIT_TABLE_VERSION, NoPid, NoMedia, Typed, SourceTypes, Errors
<1> QED
  BY <1>1, <1>2, <1>3, <1>4, <1>5 DEF Joined, NewManager, NoManager, INIT_TABLE_VERSION, NoPid, NoMedia,
     Typed, ManagerTypes, SourceTypes

LEMMA HandleUrgentTypes ==
    ASSUME Typed, HandleUrgent
    PROVE  ManagerTypes' /\ SourceTypes'
<1>1. urgent' \in Seq({"PAUSED", "PLAYING", "TERMINATE"})
  BY DEF HandleUrgent, siVars, SetMonitor, Typed, SourceTypes
<1>2. monitor' \in Monitors
  BY DEF HandleUrgent, siVars, SetMonitor, Typed, SourceTypes, Monitors, TableEvents
<1>3. flags' \in Flags
  BY DEF HandleUrgent, siVars, SetMonitor, Typed, SourceTypes, Flags
<1> QED
  BY <1>1, <1>2, <1>3 DEF HandleUrgent, siVars, SetMonitor, Typed, ManagerTypes, SourceTypes

LEMMA TakeTableEventTypes ==
    ASSUME Typed, TakeTableEvent
    PROVE  ManagerTypes' /\ SourceTypes'
<1>1. tables' \in Seq(TableEvents)
  BY DEF TakeTableEvent, Typed, ManagerTypes, TableEvents
<1>2. monitor' \in Monitors
  <2>1. Head(tables) \in TableEvents
    BY QueueTaken DEF TakeTableEvent, Typed, ManagerTypes
  <2> QED
    BY <2>1 DEF TakeTableEvent, Monitors, TableEvents
<1>3. flags' \in Flags
  BY DEF TakeTableEvent, Typed, SourceTypes, Flags
<1> QED
  BY <1>1, <1>2, <1>3 DEF TakeTableEvent, Typed, ManagerTypes, SourceTypes

LEMMA TablesTimeOutTypes ==
    ASSUME Typed, TablesTimeOut
    PROVE  ManagerTypes' /\ SourceTypes'
<1>1. errors' \in Errors
  BY DEF TablesTimeOut, siVars, Typed, SourceTypes, Errors
<1>2. flags' \in Flags
  BY DEF TablesTimeOut, siVars, Typed, SourceTypes, Flags
<1> QED
  BY <1>1, <1>2 DEF TablesTimeOut, siVars, Typed, ManagerTypes, SourceTypes

LEMMA ClearForUpdateTypes ==
    ASSUME Typed, ClearForUpdate
    PROVE  ManagerTypes' /\ SourceTypes'
<1>1. mgr' \in Managers
  BY DEF ClearForUpdate, SetMonitor, ClearProgramInfo, INIT_TABLE_VERSION, Typed, ManagerTypes, Managers
<1>2. flags' \in Flags
  BY DEF ClearForUpdate, SetMonitor, ClearProgramInfo, INIT_TABLE_VERSION, Typed, SourceTypes, Flags
<1>3. errors' \in Errors
  BY DEF ClearForUpdate, SetMonitor, ClearProgramInfo, INIT_TABLE_VERSION, Typed, SourceTypes, Errors
<1>4. monitor' \in Monitors
  BY DEF ClearForUpdate, SetMonitor, ClearProgramInfo, INIT_TABLE_VERSION, Typed, SourceTypes, Monitors,
     TableEvents
<1> QED
  BY <1>1, <1>2, <1>3, <1>4 DEF ClearForUpdate, SetMonitor, ClearProgramInfo, INIT_TABLE_VERSION, Typed,
     ManagerTypes, SourceTypes

LEMMA RequestProgramTypes ==
    ASSUME Typed, RequestProgram
    PROVE  ManagerTypes' /\ SourceTypes'
<1>1. errors' \in Errors
  BY DEF RequestProgram, SetMonitor, NoPid, Typed, SourceTypes, Errors
<1>2. monitor' \in Monitors
  BY DEF RequestProgram, SetMonitor, NoPid, Typed, SourceTypes, Monitors, TableEvents
<1>3. mgr' \in Managers
  BY DEF RequestProgram, SetMonitor, NoPid, Typed, ManagerTypes, Managers
<1> QED
  BY <1>1, <1>2, <1>3 DEF RequestProgram, SetMonitor, NoPid, Typed, ManagerTypes, SourceTypes

LEMMA SetPmtFilterTypes ==
    ASSUME Typed, SetPmtFilter
    PROVE  ManagerTypes' /\ SourceTypes'
<1>1. monitor' \in Monitors
  BY DEF SetPmtFilter, SetMonitor, INIT_TABLE_VERSION, Typed, SourceTypes, Monitors, TableEvents
<1> QED
  BY <1>1 DEF SetPmtFilter, SetMonitor, INIT_TABLE_VERSION, Typed, ManagerTypes, SourceTypes

LEMMA ReportProgramTypes ==
    ASSUME Typed, ReportProgram
    PROVE  ManagerTypes' /\ SourceTypes'
<1>1. errors' \in Errors
  BY DEF ReportProgram, siVars, Typed, SourceTypes, Errors
<1>2. flags' \in Flags
  BY DEF ReportProgram, siVars, Typed, SourceTypes, Flags
<1>3. monitor' \in Monitors
  BY DEF ReportProgram, siVars, Typed, SourceTypes, Monitors, TableEvents
<1> QED
  BY <1>1, <1>2, <1>3 DEF ReportProgram, siVars, Typed, ManagerTypes, SourceTypes

LEMMA ProgramInfoTypes ==
    ASSUME Typed, ProgramInfo
    PROVE  ManagerTypes' /\ SourceTypes'
<1>1. mediaInfo' \in PidSets
  BY MediaType DEF ProgramInfo, Typed, SourceTypes
<1>2. flags' \in Flags
  BY DEF ProgramInfo, siVars, SetMonitor, ProgramDone, NoMedia, Typed, SourceTypes, Flags
<1>3. monitor' \in Monitors
  BY DEF ProgramInfo, siVars, SetMonitor, ProgramDone, NoMedia, Typed, SourceTypes, Monitors, TableEvents
<1>4. errors' \in Errors
  BY DEF ProgramInfo, siVars, SetMonitor, ProgramDone, NoMedia, Typed, SourceTypes, Errors
<1> QED
  BY <1>1, <1>2, <1>3, <1>4 DEF ProgramInfo, siVars, SetMonitor, ProgramDone, NoMedia, Typed,
     ManagerTypes, SourceTypes

LEMMA MonitorSetupTypes ==
    ASSUME Typed, MonitorSetup
    PROVE  ManagerTypes' /\ SourceTypes'
<1>1. session' \in PidSets
  BY DEF MonitorSetup, SetupBegins, SetMonitor, NoMedia, NoSession, Typed, SourceTypes, PidSets
<1>2. mgr' \in Managers
  BY DEF MonitorSetup, SetupBegins, SetMonitor, NoMedia, NoSession, Typed, ManagerTypes, Managers
<1>3. monitor' \in Monitors
  BY DEF MonitorSetup, SetupBegins, SetMonitor, NoMedia, NoSession, Typed, SourceTypes, Monitors, TableEvents
<1> QED
  BY <1>1, <1>2, <1>3 DEF MonitorSetup, SetupBegins, SetMonitor, NoMedia, NoSession, Typed, ManagerTypes,
     SourceTypes

LEMMA MonitorStartTypes ==
    ASSUME Typed, MonitorStart
    PROVE  ManagerTypes' /\ SourceTypes'
<1>1. session' \in PidSets
  BY DEF MonitorStart, SetupEnds, ProgramDone, NoSession, Typed, SourceTypes, PidSets
<1>2. mgr' \in Managers
  BY DEF MonitorStart, SetupEnds, ProgramDone, NoSession, Typed, ManagerTypes, Managers
<1>3. monitor' \in Monitors
  BY DEF MonitorStart, SetupEnds, ProgramDone, NoSession, Typed, SourceTypes, Monitors, TableEvents
<1>4. errors' \in Errors
  BY DEF MonitorStart, SetupEnds, ProgramDone, NoSession, Typed, SourceTypes, Errors
<1> QED
  BY <1>1, <1>2, <1>3, <1>4 DEF MonitorStart, SetupEnds, ProgramDone, NoSession, Typed, ManagerTypes,
     SourceTypes

LEMMA PatAnnouncedTypes ==
    ASSUME Typed, PatAnnounced, UNCHANGED srcVars
    PROVE  ManagerTypes' /\ SourceTypes'
<1>1. mgr' \in Managers
  BY DEF PatAnnounced, dispatch_event, INIT_TABLE_VERSION, Typed, ManagerTypes, Managers
<1>2. tables' \in Seq(TableEvents)
  BY DEF PatAnnounced, dispatch_event, INIT_TABLE_VERSION, Typed, ManagerTypes, TableEvents
<1>3. psi' \in [pc : {"wait", "announce"}, version : PatVersions \cup {0}]
  BY DEF PatAnnounced, dispatch_event, INIT_TABLE_VERSION, Typed, ManagerTypes
<1> QED
  BY <1>1, <1>2, <1>3 DEF PatAnnounced, dispatch_event, INIT_TABLE_VERSION, Typed, ManagerTypes,
     SourceTypes, srcVars

LEMMA PatListedTypes ==
    ASSUME Typed, NEW i \in DOMAIN m_filter_list, PatListed(i), UNCHANGED srcVars
    PROVE  ManagerTypes' /\ SourceTypes'
<1>0. m_filter_list[i].found \in PatVersions /\ PmtPid[m_filter_list[i].found] \in Nat
  BY SectionTypes, InbandConstants DEF PatListed, NextSection, Typed, PatVersions
<1>1. mgr' \in Managers
  BY <1>0 DEF PatListed, Typed, ManagerTypes, Managers
<1>2. psi' \in [pc : {"wait", "announce"}, version : PatVersions \cup {0}]
  BY <1>0 DEF PatListed, Typed, ManagerTypes
<1> QED
  BY <1>1, <1>2 DEF PatListed, NextSection, Typed, ManagerTypes, SourceTypes, srcVars

LEMMA PatRepeatedTypes ==
    ASSUME Typed, NEW i \in DOMAIN m_filter_list, PatRepeated(i), UNCHANGED srcVars
    PROVE  ManagerTypes' /\ SourceTypes'
<1>1. mgr' \in Managers
  BY DEF PatRepeated, NextSection, Typed, ManagerTypes, Managers
<1> QED
  BY <1>1 DEF PatRepeated, NextSection, Typed, ManagerTypes, SourceTypes, srcVars

LEMMA PmtStoredTypes ==
    ASSUME Typed, NEW i \in DOMAIN m_filter_list, PmtStored(i), UNCHANGED srcVars
    PROVE  ManagerTypes' /\ SourceTypes'
<1>0. m_filter_list[i].found \in PmtVersions
  BY SectionTypes DEF PmtStored, NextSection, Typed
<1>1. mgr' \in Managers
  BY <1>0 DEF PmtStored, Typed, ManagerTypes, Managers
<1>2. tables' \in Seq(TableEvents)
  BY DEF PmtStored, dispatch_event, NextSection, INIT_TABLE_VERSION, Typed, ManagerTypes, TableEvents
<1> QED
  BY <1>1, <1>2 DEF PmtStored, dispatch_event, NextSection, INIT_TABLE_VERSION, Typed, ManagerTypes,
     SourceTypes, srcVars

LEMMA PmtDroppedTypes ==
    ASSUME Typed, NEW i \in DOMAIN m_filter_list, PmtDropped(i), UNCHANGED srcVars
    PROVE  ManagerTypes' /\ SourceTypes'
BY DEF PmtDropped, NextSection, Typed, ManagerTypes, SourceTypes, srcVars

LEMMA section_avail_cbTypes ==
    ASSUME Typed, NEW i \in DOMAIN m_filter_list, section_avail_cb(i), UNCHANGED srcVars
    PROVE  ManagerTypes' /\ SourceTypes'
BY DEF section_avail_cb, Typed, ManagerTypes, SourceTypes, srcVars

LEMMA AirChangesPatTypes ==
    ASSUME Typed, AirChangesPat, UNCHANGED srcVars
    PROVE  ManagerTypes' /\ SourceTypes'
<1>0. Len(PmtPid) \in Nat
  BY InbandConstants
<1>1. air.pat \in PatVersions /\ air.pat < Len(PmtPid) /\ air \in Broadcasts
  BY DEF AirChangesPat, Typed, ManagerTypes, Broadcasts
<1>2. air.pat + 1 \in PatVersions
  BY <1>0, <1>1 DEF PatVersions
<1>3. air' \in Broadcasts
  BY <1>1, <1>2 DEF AirChangesPat, Broadcasts
<1> QED
  BY <1>3 DEF AirChangesPat, Typed, ManagerTypes, SourceTypes, srcVars

LEMMA AirChangesPmtTypes ==
    ASSUME Typed, AirChangesPmt, UNCHANGED srcVars
    PROVE  ManagerTypes' /\ SourceTypes'
<1>0. Len(Streams) \in Nat
  BY InbandConstants
<1>1. air.pmt \in PmtVersions /\ air.pmt < Len(Streams) /\ air \in Broadcasts
  BY DEF AirChangesPmt, Typed, ManagerTypes, Broadcasts
<1>2. air.pmt + 1 \in PmtVersions
  BY <1>0, <1>1 DEF PmtVersions
<1>3. air' \in Broadcasts
  BY <1>1, <1>2 DEF AirChangesPmt, Broadcasts
<1> QED
  BY <1>3 DEF AirChangesPmt, Typed, ManagerTypes, SourceTypes, srcVars

LEMMA TuneSyncTypes ==
    ASSUME Typed, TuneSync
    PROVE  ManagerTypes' /\ SourceTypes'
<1>1. air' \in Broadcasts
  BY DEF TuneSync, Typed, ManagerTypes, Broadcasts
<1>2. flags' \in Flags
  BY DEF TuneSync, Typed, SourceTypes, Flags
<1> QED
  BY <1>1, <1>2 DEF TuneSync, Typed, ManagerTypes, SourceTypes

LEMMA TuneUnsyncTypes ==
    ASSUME Typed, TuneUnsync
    PROVE  ManagerTypes' /\ SourceTypes'
<1>1. air' \in Broadcasts
  BY DEF TuneUnsync, Calls, Typed, ManagerTypes, Broadcasts
<1>2. flags' \in Flags
  BY DEF TuneUnsync, Calls, Typed, SourceTypes, Flags
<1> QED
  BY <1>1, <1>2 DEF TuneUnsync, Calls, Typed, ManagerTypes, SourceTypes

-----------------------------------------------------------------------------
(* What the steps do to the filter list.                                   *)

LEMMA EmptyList == FilterList(<<>>) /\ (\A t : ~Has(t, <<>>)) /\ PmtAt(<<>>) = {}
<1>1. OncePerTable(<<>>) /\ Single(<<>>)
  BY DEF OncePerTable, Single, SetIn
<1> QED
  BY <1>1 DEF FilterList, Has, PmtAt

LEMMA NoPmtFilter ==
    ASSUME NEW list
    PROVE  ~Has("PMT", list) <=> PmtAt(list) = {}
BY DEF Has, PmtAt

\* A step of the PSI thread or the demux that sets and releases no filter.
SameFilters ==
    /\ FilterList(m_filter_list') /\ PmtAt(m_filter_list') = PmtAt(m_filter_list)
    /\ \A t : Has(t, m_filter_list') <=> Has(t, m_filter_list)

LEMMA TakenList ==
    ASSUME Typed, NEW i \in DOMAIN m_filter_list, m_filter_list' = Taken(i)
    PROVE  SameFilters
<1>1. FilterList(m_filter_list) /\ m_filter_list' = WithSection(m_filter_list, i, 0)
  BY DEF Typed, Taken, WithSection
<1> QED
  BY <1>1, FoundList DEF SameFilters

LEMMA FoundFilters ==
    ASSUME Typed, NEW i \in DOMAIN m_filter_list, section_avail_cb(i)
    PROVE  SameFilters
<1>1. PICK v : v = OnAir(m_filter_list[i])
  OBVIOUS
<1>2. m_filter_list[i].table \in Tables
  BY SectionTypes DEF Typed
<1>3. /\ m_filter_list[i].table = "PAT" => v \in PatVersions \cup {0}
      /\ m_filter_list[i].table = "PMT" => v \in PmtVersions \cup {0}
  BY <1>1, <1>2 DEF OnAir, Typed, ManagerTypes, Broadcasts, Tables
<1>4. FilterList(m_filter_list) /\ m_filter_list' = WithSection(m_filter_list, i, v)
  BY <1>1 DEF section_avail_cb, Typed, WithSection
<1> QED
  BY <1>3, <1>4, FoundList DEF SameFilters

LEMMA PatAnnouncedFilters ==
    ASSUME Inv, PatAnnounced
    PROVE  /\ FilterList(m_filter_list') /\ PmtAt(m_filter_list') = PmtAt(m_filter_list)
           /\ Has("PMT", m_filter_list') <=> Has("PMT", m_filter_list)
<1>1. psi.version \in PatVersions
  BY DEF PatAnnounced, Inv, Typed, ManagerTypes, Life
<1>2. FilterList(m_filter_list) /\ m_filter_list' \in configure_negative_filters("PAT", m_filter_list, psi.version)
  BY DEF PatAnnounced, Inv, Typed
<1> QED
  BY <1>1, <1>2, NegativeList DEF Tables

LEMMA PmtStoredFilters ==
    ASSUME Typed, NEW i \in DOMAIN m_filter_list, PmtStored(i)
    PROVE  /\ FilterList(m_filter_list') /\ Has("PMT", m_filter_list)
           /\ "PMT" \notin Refuses => PmtAt(m_filter_list') = PmtAt(m_filter_list)
<1>1. PICK v, l : v = m_filter_list[i].found /\ l = Taken(i)
  OBVIOUS
<1>2. m_filter_list[i].table = "PMT" /\ v # 0 /\ m_filter_list' \in configure_negative_filters("PMT", l, v)
  BY <1>1 DEF PmtStored, NextSection
<1>3. FilterList(m_filter_list) /\ v \in PmtVersions
  BY <1>1, <1>2, SectionTypes DEF Typed
<1>4. FilterList(l) /\ PmtAt(l) = PmtAt(m_filter_list)
  <2>1. l = WithSection(m_filter_list, i, 0)
    BY <1>1 DEF Taken, WithSection
  <2> QED
    BY <1>3, <2>1, FoundList
<1>5. Has("PMT", m_filter_list)
  BY <1>2 DEF Has
<1> QED
  BY <1>2, <1>3, <1>4, <1>5, NegativeList DEF Tables

\* The new PMT filter is set: at the PSI state's priority it takes the PAT's place if it must.
LEMMA SetPmtFilterFilters ==
    ASSUME Inv, SetPmtFilter
    PROVE  /\ FilterList(m_filter_list')
           /\ "PMT" \notin Refuses => PmtAt(m_filter_list') = {mgr.pmtPid}
<1>1. PICK f : f = Filter("PMT", mgr.pmtPid, INIT_TABLE_VERSION, 2)
  OBVIOUS
<1>2. mgr.pmtPid \in Nat
  BY DEF Inv, Typed, ManagerTypes, Managers
<1>3. f \in AllFilters /\ f.set /\ f.table = "PMT" /\ f.pid = mgr.pmtPid /\ f.priority = 2
  BY <1>1, <1>2 DEF Filter, INIT_TABLE_VERSION, AllFilters, PmtFilters
<1>4. FilterList(m_filter_list) /\ ~Has("PMT", m_filter_list) /\ m_filter_list' \in set_filter(m_filter_list, f)
  BY <1>1 DEF SetPmtFilter, Inv, Typed, Lookup
<1> QED
  BY <1>3, <1>4, SetFilterList

LEMMA OpenSucceedsFilters ==
    ASSUME Inv, OpenSucceeds
    PROVE  FilterList(m_filter_list') /\ ~Has("PMT", m_filter_list')
<1>1. PICK f : f = Filter("PAT", NoPid, INIT_TABLE_VERSION, 40)
  OBVIOUS
<1>2. f \in AllFilters /\ f.set /\ f.table = "PAT"
  BY <1>1 DEF Filter, NoPid, INIT_TABLE_VERSION, AllFilters, PatFilters
<1>3. m_filter_list = <<>> /\ m_filter_list' \in set_filter(m_filter_list, f)
  BY <1>1 DEF OpenSucceeds, RequestTsInfo, Inv, Life
<1> QED
  BY <1>2, <1>3, EmptyList, SetFilterList

LEMMA ClearForUpdateFilters ==
    ASSUME Typed, ClearForUpdate
    PROVE  FilterList(m_filter_list') /\ ~Has("PMT", m_filter_list')
BY ReleasedList DEF ClearForUpdate, ClearProgramInfo, Typed

-----------------------------------------------------------------------------
(* The invariant is inductive.                                             *)

LEMMA TypedKept ==
    ASSUME Inv, Next
    PROVE  Typed'
<1>1. ManagerTypes' /\ SourceTypes'
  <2>0. Typed
    BY DEF Inv
  <2>1. CASE Open \/ Play \/ PlaySetup \/ Pause \/ Close
    BY <2>0, <2>1, OpenTypes, PlayTypes, PlaySetupTypes, PauseTypes, CloseTypes
  <2>2. CASE OwnerContinues
    BY <2>0, <2>2, OpenSucceedsTypes, OpenFailsTypes, OwnerSetupTypes, OwnerStartTypes, CloseUnregistersTypes,
       CloseStopsTypes, JoinedTypes DEF OwnerContinues
  <2>3. CASE simonitorThread
    BY <2>0, <2>3, HandleUrgentTypes, TakeTableEventTypes, TablesTimeOutTypes, ClearForUpdateTypes,
       RequestProgramTypes, SetPmtFilterTypes, ReportProgramTypes, ProgramInfoTypes, MonitorSetupTypes,
       MonitorStartTypes DEF simonitorThread
  <2>4. CASE PsiMonitor /\ UNCHANGED srcVars
    BY <2>0, <2>4, PatAnnouncedTypes, PatListedTypes, PatRepeatedTypes, PmtStoredTypes, PmtDroppedTypes
       DEF PsiMonitor
  <2>5. CASE Broadcast
    BY <2>0, <2>5, AirChangesPatTypes, AirChangesPmtTypes, section_avail_cbTypes DEF Broadcast
  <2>6. CASE TuneSync \/ TuneUnsync
    BY <2>0, <2>6, TuneSyncTypes, TuneUnsyncTypes
  <2> QED
    BY <2>1, <2>2, <2>3, <2>4, <2>5, <2>6 DEF Next
<1>2. FilterList(m_filter_list')
  <2>0. Typed /\ FilterList(m_filter_list)
    BY DEF Inv, Typed
  <2>1. CASE UNCHANGED m_filter_list \/ m_filter_list' = <<>>
    BY <2>0, <2>1, EmptyList
  <2>2. CASE OpenSucceeds \/ ClearForUpdate \/ SetPmtFilter \/ PatAnnounced
    BY <2>0, <2>2, OpenSucceedsFilters, ClearForUpdateFilters, SetPmtFilterFilters, PatAnnouncedFilters
  <2>3. ASSUME NEW i \in DOMAIN m_filter_list, PatListed(i) \/ PatRepeated(i) \/ PmtDropped(i)
        PROVE  FilterList(m_filter_list')
    BY <2>0, <2>3, TakenList DEF PatListed, PatRepeated, PmtDropped, SameFilters
  <2>4. ASSUME NEW i \in DOMAIN m_filter_list, PmtStored(i) \/ section_avail_cb(i)
        PROVE  FilterList(m_filter_list')
    BY <2>0, <2>4, PmtStoredFilters, FoundFilters DEF SameFilters
  <2>5. CASE Open \/ Joined
    BY <2>1, <2>5 DEF Open, Create, Joined
  <2>6. CASE Play \/ PlaySetup \/ Pause \/ Close \/ OpenFails \/ OwnerSetup \/ OwnerStart
             \/ CloseUnregisters \/ CloseStops
    BY <2>1, <2>6 DEF Play, PlaySetup, Pause, Close, OpenFails, OwnerSetup, SetupBegins, OwnerStart,
       SetupEnds,
       CloseUnregisters, CloseStops, siVars
  <2>7. CASE HandleUrgent \/ TakeTableEvent \/ TablesTimeOut \/ RequestProgram \/ ReportProgram \/ ProgramInfo
             \/ MonitorSetup \/ MonitorStart
    BY <2>1, <2>7 DEF HandleUrgent, TakeTableEvent, TablesTimeOut, RequestProgram, ReportProgram, ProgramInfo,
       MonitorSetup, SetupBegins, MonitorStart, SetupEnds, siVars
  <2>8. CASE AirChangesPat \/ AirChangesPmt \/ TuneSync \/ TuneUnsync
    BY <2>1, <2>8 DEF AirChangesPat, AirChangesPmt, TuneSync, TuneUnsync
  <2> QED
    BY <2>2, <2>3, <2>4, <2>5, <2>6, <2>7, <2>8
       DEF Next, OwnerContinues, simonitorThread, PsiMonitor, Broadcast
<1> QED
  BY <1>1, <1>2 DEF Typed

\* Each part of the invariant is kept by every step.
LEMMA LifeKept ==
    ASSUME Inv, Next
    PROVE  Life'
<1>1. CASE Open
  BY <1>1 DEF Open, Create, NewManager, Inv, Life, Typed, ManagerTypes
<1>2. CASE Play
  BY <1>2 DEF Play, Calls, Posts, siVars, Inv, Life
<1>3. CASE PlaySetup
  BY <1>3 DEF PlaySetup, Calls, siVars, Inv, Life
<1>4. CASE Pause
  BY <1>4 DEF Pause, Calls, Posts, siVars, Inv, Life
<1>5. CASE Close
  BY <1>5 DEF Close, siVars, Inv, Life
<1>6. CASE OpenSucceeds
  BY <1>6 DEF OpenSucceeds, Inv, Life
<1>7. CASE OpenFails
  BY <1>7 DEF OpenFails, Inv, Life, First
<1>8. CASE OwnerSetup
  BY <1>8 DEF OwnerSetup, SetupBegins, Inv, Life
<1>9. CASE OwnerStart
  BY <1>9 DEF OwnerStart, SetupEnds, Posts, Inv, Life
<1>10. CASE CloseUnregisters
  BY <1>10 DEF CloseUnregisters, Inv, Life
<1>11. CASE CloseStops
  BY <1>11 DEF CloseStops, Posts, siVars, Inv, Life
<1>12. CASE Joined
  BY <1>12 DEF Joined, PsiMutexFree, NoManager, NewManager, Inv, Life
<1>13. CASE HandleUrgent
  BY <1>13 DEF HandleUrgent, SetMonitor, siVars, Inv, Life
<1>14. CASE TakeTableEvent
  BY <1>14 DEF TakeTableEvent, Inv, Life
<1>15. CASE TablesTimeOut
  BY <1>15 DEF TablesTimeOut, siVars, Inv, Life
<1>16. CASE ClearForUpdate
  BY <1>16 DEF ClearForUpdate, ClearProgramInfo, Inv, Life, First, Looking
<1>17. CASE RequestProgram
  BY <1>17 DEF RequestProgram, Inv, Life, Typed, ManagerTypes, Managers
<1>18. CASE SetPmtFilter
  BY <1>18 DEF SetPmtFilter, Inv, Life, First, Looking
<1>19. CASE ReportProgram
  BY <1>19 DEF ReportProgram, siVars, Inv, Life
<1>20. CASE ProgramInfo
  BY <1>20 DEF ProgramInfo, GetMediaInfo, compareMediaInfo, SetMonitor, ProgramDone, siVars, Inv, Life
<1>21. CASE MonitorSetup
  BY <1>21 DEF MonitorSetup, SetupBegins, SetMonitor, Inv, Life
<1>22. CASE MonitorStart
  BY <1>22 DEF MonitorStart, SetupEnds, ProgramDone, Inv, Life
<1>23. CASE TuneSync
  BY <1>23 DEF TuneSync, Inv, Life
<1>24. CASE TuneUnsync
  BY <1>24 DEF TuneUnsync, Calls, Inv, Life
<1>25. CASE PatAnnounced /\ UNCHANGED srcVars
  BY <1>25 DEF PatAnnounced, dispatch_event, srcVars, Inv, Life
<1>26. ASSUME NEW i \in DOMAIN m_filter_list, PatListed(i), UNCHANGED srcVars PROVE Life'
  BY <1>26 DEF PatListed, NextSection, srcVars, Inv, Life
<1>27. ASSUME NEW i \in DOMAIN m_filter_list, PatRepeated(i), UNCHANGED srcVars PROVE Life'
  BY <1>27 DEF PatRepeated, NextSection, srcVars, Inv, Life
<1>28. ASSUME NEW i \in DOMAIN m_filter_list, PmtStored(i), UNCHANGED srcVars PROVE Life'
  BY <1>28 DEF PmtStored, NextSection, dispatch_event, srcVars, Inv, Life
<1>29. ASSUME NEW i \in DOMAIN m_filter_list, PmtDropped(i), UNCHANGED srcVars PROVE Life'
  BY <1>29 DEF PmtDropped, NextSection, srcVars, Inv, Life
<1>30. ASSUME NEW i \in DOMAIN m_filter_list, section_avail_cb(i), UNCHANGED srcVars PROVE Life'
  BY <1>30 DEF section_avail_cb, srcVars, Inv, Life
<1>31. CASE AirChangesPat /\ UNCHANGED srcVars
  BY <1>31 DEF AirChangesPat, srcVars, Inv, Life
<1>32. CASE AirChangesPmt /\ UNCHANGED srcVars
  BY <1>32 DEF AirChangesPmt, srcVars, Inv, Life
<1> QED
  BY <1>1, <1>2, <1>3, <1>4, <1>5, <1>6, <1>7, <1>8, <1>9, <1>10, <1>11, <1>12, <1>13, <1>14, <1>15,
     <1>16, <1>17, <1>18, <1>19, <1>20, <1>21, <1>22, <1>23, <1>24, <1>25, <1>26, <1>27, <1>28, <1>29,
     <1>30, <1>31, <1>32 DEF Next, OwnerContinues, simonitorThread, PsiMonitor, Broadcast

LEMMA FirstKept ==
    ASSUME Inv, Next
    PROVE  First'
<1>1. CASE Open
  BY <1>1 DEF Open, Create, NewManager, Inv, First, Looking, Life
<1>2. CASE Play
  BY <1>2 DEF Play, Calls, Posts, siVars, Inv, First, Looking
<1>3. CASE PlaySetup
  BY <1>3 DEF PlaySetup, Calls, siVars, Inv, First, Looking
<1>4. CASE Pause
  BY <1>4 DEF Pause, Calls, Posts, siVars, Inv, First, Looking
<1>5. CASE Close
  BY <1>5 DEF Close, siVars, Inv, First, Looking
<1>6. CASE OpenSucceeds
  BY <1>6, OpenSucceedsFilters DEF OpenSucceeds, Inv, First, Looking
<1>7. CASE OpenFails
  BY <1>7 DEF OpenFails, Inv, First, Looking
<1>8. CASE OwnerSetup
  BY <1>8 DEF OwnerSetup, SetupBegins, Inv, First, Looking
<1>9. CASE OwnerStart
  BY <1>9 DEF OwnerStart, SetupEnds, Posts, Inv, First, Looking
<1>10. CASE CloseUnregisters
  BY <1>10, QueueEmpty DEF CloseUnregisters, Inv, First, Looking
<1>11. CASE CloseStops
  BY <1>11 DEF CloseStops, Posts, siVars, Inv, First, Looking
<1>12. CASE Joined
  BY <1>12, EmptyList DEF Joined, NoManager, NewManager, Inv, First, Looking, Life, Typed, SourceTypes, Errors
<1>13. CASE HandleUrgent
  BY <1>13 DEF HandleUrgent, SetMonitor, siVars, Inv, First, Looking, Typed, SourceTypes, Monitors
<1>14. CASE TakeTableEvent
  BY <1>14, QueueTaken DEF TakeTableEvent, Inv, First, Looking, Typed, ManagerTypes
<1>15. CASE TablesTimeOut
  BY <1>15 DEF TablesTimeOut, siVars, Inv, First, Looking
<1>16. CASE ClearForUpdate
  BY <1>16 DEF ClearForUpdate, ClearProgramInfo, PsiMutexFree, SetMonitor, Inv, First, Looking
<1>17. CASE RequestProgram
  BY <1>17 DEF RequestProgram, Inv, First, Looking, Typed, ManagerTypes, Managers
<1>18. CASE SetPmtFilter
  BY <1>18 DEF SetPmtFilter, PsiMutexFree, SetMonitor, Inv, First, Looking
<1>19. CASE ReportProgram
  BY <1>19 DEF ReportProgram, siVars, Inv, First, Looking
<1>20. CASE ProgramInfo
  BY <1>20 DEF ProgramInfo, SetMonitor, ProgramDone, siVars, Inv, First, Looking, Typed, SourceTypes,
     Monitors, Errors
<1>21. CASE MonitorSetup
  BY <1>21 DEF MonitorSetup, SetupBegins, SetMonitor, Inv, First, Looking
<1>22. CASE MonitorStart
  BY <1>22 DEF MonitorStart, SetupEnds, ProgramDone, Inv, First, Looking
<1>23. CASE TuneSync
  BY <1>23 DEF TuneSync, Inv, First, Looking
<1>24. CASE TuneUnsync
  BY <1>24 DEF TuneUnsync, Calls, Inv, First, Looking
<1>25. CASE PatAnnounced /\ UNCHANGED srcVars
  <2>1. PICK e : e = IF mgr.patVersionNumber = INIT_TABLE_VERSION THEN "PAT_ACQUIRED" ELSE "PAT_UPDATE"
    OBVIOUS
  <2>2. tables' = dispatch_event(e) /\ tables \in Seq(TableEvents) /\ e \in TableEvents
    BY <1>25, <2>1 DEF PatAnnounced, Inv, Typed, ManagerTypes, TableEvents
  <2>3. /\ FirstOnly(tables')
        /\ Coming(tables', {"PAT_ACQUIRED"}) => Coming(tables, {"PAT_ACQUIRED"}) \/ e = "PAT_ACQUIRED"
    BY <2>1, <2>2, QueueAppended DEF dispatch_event, Inv, First
  <2>4. /\ mgr'.patVersionNumber # INIT_TABLE_VERSION /\ mgr'.m_bIsPATAvailable /\ mgr'.exists = mgr.exists
        /\ Has("PMT", m_filter_list') <=> Has("PMT", m_filter_list)
        /\ monitor' = monitor /\ errors' = errors
    BY <1>25, PatAnnouncedFilters DEF PatAnnounced, srcVars, INIT_TABLE_VERSION, Inv, Life, Typed,
       ManagerTypes, Managers
  <2> QED
    BY <2>1, <2>3, <2>4 DEF Inv, First, Looking
<1>26. ASSUME NEW i \in DOMAIN m_filter_list, PatListed(i), UNCHANGED srcVars PROVE First'
  BY <1>26, TakenList DEF PatListed, srcVars, Inv, First, Looking, SameFilters
<1>27. ASSUME NEW i \in DOMAIN m_filter_list, PatRepeated(i), UNCHANGED srcVars PROVE First'
  BY <1>27, TakenList DEF PatRepeated, srcVars, Inv, First, Looking, SameFilters
<1>28. ASSUME NEW i \in DOMAIN m_filter_list, PmtStored(i), UNCHANGED srcVars PROVE First'
  <2>1. PICK e : e = IF mgr.pmtVersionNumber = INIT_TABLE_VERSION THEN "PMT_ACQUIRED" ELSE "PMT_UPDATE"
    OBVIOUS
  <2>2. tables' = dispatch_event(e) /\ tables \in Seq(TableEvents) /\ e \in TableEvents
    BY <1>28, <2>1 DEF PmtStored, Inv, Typed, ManagerTypes, TableEvents
  <2>3. FirstOnly(tables') /\ (Coming(tables', {"PAT_ACQUIRED"}) => Coming(tables, {"PAT_ACQUIRED"}))
    BY <2>1, <2>2, QueueAppended DEF dispatch_event, Inv, First
  <2>4. /\ Has("PMT", m_filter_list) /\ monitor' = monitor /\ errors' = errors
        /\ mgr'.patVersionNumber = mgr.patVersionNumber /\ mgr'.m_bIsPATAvailable = mgr.m_bIsPATAvailable
    BY <1>28, PmtStoredFilters DEF PmtStored, srcVars, Inv, Typed, ManagerTypes, Managers
  <2> QED
    BY <2>3, <2>4 DEF Inv, First, Looking
<1>29. ASSUME NEW i \in DOMAIN m_filter_list, PmtDropped(i), UNCHANGED srcVars PROVE First'
  BY <1>29, TakenList DEF PmtDropped, srcVars, Inv, First, Looking, SameFilters
<1>30. ASSUME NEW i \in DOMAIN m_filter_list, section_avail_cb(i), UNCHANGED srcVars PROVE First'
  BY <1>30, FoundFilters DEF section_avail_cb, srcVars, Inv, First, Looking, SameFilters
<1>31. CASE AirChangesPat /\ UNCHANGED srcVars
  BY <1>31 DEF AirChangesPat, srcVars, Inv, First, Looking
<1>32. CASE AirChangesPmt /\ UNCHANGED srcVars
  BY <1>32 DEF AirChangesPmt, srcVars, Inv, First, Looking
<1> QED
  BY <1>1, <1>2, <1>3, <1>4, <1>5, <1>6, <1>7, <1>8, <1>9, <1>10, <1>11, <1>12, <1>13, <1>14, <1>15,
     <1>16, <1>17, <1>18, <1>19, <1>20, <1>21, <1>22, <1>23, <1>24, <1>25, <1>26, <1>27, <1>28, <1>29,
     <1>30, <1>31, <1>32 DEF Next, OwnerContinues, simonitorThread, PsiMonitor, Broadcast

LEMMA LookupKept ==
    ASSUME Inv, Next
    PROVE  Lookup'
<1>1. CASE Open
  BY <1>1 DEF Open, Create, Inv, Lookup, Looking
<1>2. CASE Play
  BY <1>2 DEF Play, Calls, Posts, siVars, Inv, Lookup, Looking
<1>3. CASE PlaySetup
  BY <1>3 DEF PlaySetup, Calls, siVars, Inv, Lookup, Looking
<1>4. CASE Pause
  BY <1>4 DEF Pause, Calls, Posts, siVars, Inv, Lookup, Looking
<1>5. CASE Close
  BY <1>5 DEF Close, siVars, Inv, Lookup, Looking
<1>6. CASE OpenSucceeds
  BY <1>6 DEF OpenSucceeds, Inv, Lookup, Looking, Life, First
<1>7. CASE OpenFails
  BY <1>7 DEF OpenFails, Inv, Lookup, Looking
<1>8. CASE OwnerSetup
  BY <1>8 DEF OwnerSetup, SetupBegins, Inv, Lookup, Looking
<1>9. CASE OwnerStart
  BY <1>9 DEF OwnerStart, SetupEnds, Posts, Inv, Lookup, Looking
<1>10. CASE CloseUnregisters
  BY <1>10 DEF CloseUnregisters, Inv, Lookup, Looking
<1>11. CASE CloseStops
  BY <1>11 DEF CloseStops, Posts, siVars, Inv, Lookup, Looking
<1>12. CASE Joined
  BY <1>12 DEF Joined, PsiMutexFree, Inv, Lookup, Looking
<1>13. CASE HandleUrgent
  BY <1>13 DEF HandleUrgent, SetMonitor, Inv, Lookup, Looking, Typed, SourceTypes, Monitors
<1>14. CASE TakeTableEvent
  BY <1>14, QueueTaken DEF TakeTableEvent, Inv, Lookup, Looking, Life, First, Typed, ManagerTypes, PatEvents
<1>15. CASE TablesTimeOut
  BY <1>15 DEF TablesTimeOut, siVars, Inv, Lookup, Looking
<1>16. CASE ClearForUpdate
  BY <1>16, ClearForUpdateFilters DEF ClearForUpdate, SetMonitor, Inv, Lookup, Looking
<1>17. CASE RequestProgram
  BY <1>17 DEF RequestProgram, SetMonitor, Inv, Lookup, Looking, Typed, SourceTypes, Monitors, Errors
<1>18. CASE SetPmtFilter
  BY <1>18 DEF SetPmtFilter, PsiMutexFree, SetMonitor, Inv, Lookup, Looking
<1>19. CASE ReportProgram
  BY <1>19 DEF ReportProgram, siVars, Inv, Lookup, Looking
<1>20. CASE ProgramInfo
  BY <1>20 DEF ProgramInfo, SetMonitor, ProgramDone, Inv, Lookup, Looking, Typed, SourceTypes, Monitors
<1>21. CASE MonitorSetup
  BY <1>21 DEF MonitorSetup, SetupBegins, SetMonitor, Inv, Lookup, Looking
<1>22. CASE MonitorStart
  BY <1>22 DEF MonitorStart, SetupEnds, ProgramDone, Inv, Lookup, Looking
<1>23. CASE TuneSync
  BY <1>23 DEF TuneSync, Inv, Lookup, Looking
<1>24. CASE TuneUnsync
  BY <1>24 DEF TuneUnsync, Calls, Inv, Lookup, Looking
<1>25. CASE PatAnnounced /\ UNCHANGED srcVars
  BY <1>25, PatAnnouncedFilters DEF PatAnnounced, srcVars, Inv, Lookup, Looking
<1>26. ASSUME NEW i \in DOMAIN m_filter_list, PatListed(i), UNCHANGED srcVars PROVE Lookup'
  BY <1>26, TakenList DEF PatListed, srcVars, Inv, Lookup, Looking, SameFilters
<1>27. ASSUME NEW i \in DOMAIN m_filter_list, PatRepeated(i), UNCHANGED srcVars PROVE Lookup'
  BY <1>27, TakenList DEF PatRepeated, srcVars, Inv, Lookup, Looking, SameFilters
<1>28. ASSUME NEW i \in DOMAIN m_filter_list, PmtStored(i), UNCHANGED srcVars PROVE Lookup'
  BY <1>28, PmtStoredFilters DEF PmtStored, srcVars, Inv, Lookup, Looking
<1>29. ASSUME NEW i \in DOMAIN m_filter_list, PmtDropped(i), UNCHANGED srcVars PROVE Lookup'
  BY <1>29, TakenList DEF PmtDropped, srcVars, Inv, Lookup, Looking, SameFilters
<1>30. ASSUME NEW i \in DOMAIN m_filter_list, section_avail_cb(i), UNCHANGED srcVars PROVE Lookup'
  BY <1>30, FoundFilters DEF section_avail_cb, srcVars, Inv, Lookup, Looking, SameFilters
<1>31. CASE AirChangesPat /\ UNCHANGED srcVars
  BY <1>31 DEF AirChangesPat, srcVars, Inv, Lookup, Looking
<1>32. CASE AirChangesPmt /\ UNCHANGED srcVars
  BY <1>32 DEF AirChangesPmt, srcVars, Inv, Lookup, Looking
<1> QED
  BY <1>1, <1>2, <1>3, <1>4, <1>5, <1>6, <1>7, <1>8, <1>9, <1>10, <1>11, <1>12, <1>13, <1>14, <1>15,
     <1>16, <1>17, <1>18, <1>19, <1>20, <1>21, <1>22, <1>23, <1>24, <1>25, <1>26, <1>27, <1>28, <1>29,
     <1>30, <1>31, <1>32 DEF Next, OwnerContinues, simonitorThread, PsiMonitor, Broadcast

\* The two agreements.
LEMMA KnowsKept ==
    ASSUME "PMT" \notin Refuses, Inv, Knows, Next
    PROVE  Knows'
<1>1. CASE Open
  BY <1>1 DEF Open, Create, NewManager, Knows
<1>2. CASE Play
  BY <1>2 DEF Play, siVars, Knows, Looking
<1>3. CASE PlaySetup
  BY <1>3 DEF PlaySetup, siVars, Knows, Looking
<1>4. CASE Pause
  BY <1>4 DEF Pause, siVars, Knows, Looking
<1>5. CASE Close
  BY <1>5 DEF Close, siVars, Knows, Looking
<1>6. CASE OpenSucceeds
  BY <1>6 DEF OpenSucceeds, Knows, Inv, Life
<1>7. CASE OpenFails
  BY <1>7 DEF OpenFails, Knows
<1>8. CASE OwnerSetup
  BY <1>8 DEF OwnerSetup, SetupBegins, Knows, Looking
<1>9. CASE OwnerStart
  BY <1>9 DEF OwnerStart, SetupEnds, Knows, Looking
<1>10. CASE CloseUnregisters
  BY <1>10 DEF CloseUnregisters, Knows
<1>11. CASE CloseStops
  BY <1>11 DEF CloseStops, siVars, Knows, Inv, Life
<1>12. CASE Joined
  BY <1>12 DEF Joined, PsiMutexFree, NoManager, NewManager, Knows
<1>13. CASE HandleUrgent
  BY <1>13 DEF HandleUrgent, SetMonitor, siVars, Knows, Inv, Looking, Typed, SourceTypes, Monitors
<1>14. CASE TakeTableEvent
  BY <1>14, QueueTaken DEF TakeTableEvent, Knows, Inv, Looking, Typed, ManagerTypes, PatEvents
<1>15. CASE TablesTimeOut
  BY <1>15 DEF TablesTimeOut, siVars, Knows, Looking
<1>16. CASE ClearForUpdate
  BY <1>16 DEF ClearForUpdate, SetMonitor, Knows, Looking
<1>17. CASE RequestProgram
  <2>1. PmtAt(m_filter_list) = {} /\ m_filter_list' = m_filter_list /\ tables' = tables /\ psi' = psi
    BY <1>17, NoPmtFilter DEF RequestProgram, Inv, Lookup
  <2>2. /\ mgr'.m_pmtInfo = mgr.m_pmtInfo
        /\ monitor'.pc = "filter" => mgr'.pmtPid = mgr.m_pmtInfo /\ mgr.m_pmtInfo # NoPid
        /\ monitor'.pc = "report" => mgr.m_pmtInfo = NoPid /\ errors'.m_si_error = "INVALID"
        /\ monitor'.pc \in {"filter", "report"}
    BY <1>17 DEF RequestProgram, SetMonitor, Inv, Typed, ManagerTypes, Managers, SourceTypes, Monitors, Errors
  <2> QED
    BY <2>1, <2>2 DEF Knows, Looking
<1>18. CASE SetPmtFilter
  BY <1>18, SetPmtFilterFilters DEF SetPmtFilter, SetMonitor, Knows, Inv, Lookup, Looking
<1>19. CASE ReportProgram
  BY <1>19 DEF ReportProgram, siVars, Knows, Inv, Lookup
<1>20. CASE ProgramInfo
  BY <1>20 DEF ProgramInfo, SetMonitor, ProgramDone, siVars, Knows, Inv, Looking, Typed, SourceTypes,
     Monitors, Errors
<1>21. CASE MonitorSetup
  BY <1>21 DEF MonitorSetup, SetupBegins, SetMonitor, Knows, Looking
<1>22. CASE MonitorStart
  BY <1>22 DEF MonitorStart, SetupEnds, ProgramDone, Knows, Looking
<1>23. CASE TuneSync
  BY <1>23 DEF TuneSync, Knows, Looking
<1>24. CASE TuneUnsync
  BY <1>24 DEF TuneUnsync, Knows, Looking
<1>25. CASE PatAnnounced /\ UNCHANGED srcVars
  BY <1>25, QueueAppended DEF PatAnnounced, dispatch_event, Knows, Inv, Typed, ManagerTypes, TableEvents,
     PatEvents
<1>26. ASSUME NEW i \in DOMAIN m_filter_list, PatListed(i), UNCHANGED srcVars PROVE Knows'
  BY <1>26 DEF PatListed, NextSection, srcVars, Knows
<1>27. ASSUME NEW i \in DOMAIN m_filter_list, PatRepeated(i), UNCHANGED srcVars PROVE Knows'
  BY <1>27, TakenList DEF PatRepeated, srcVars, Knows, Inv, Looking, SameFilters
<1>28. ASSUME NEW i \in DOMAIN m_filter_list, PmtStored(i), UNCHANGED srcVars PROVE Knows'
  <2>1. PmtAt(m_filter_list') = PmtAt(m_filter_list) /\ Has("PMT", m_filter_list)
    BY <1>28, PmtStoredFilters DEF Inv
  <2>2. Coming(tables', PatEvents) <=> Coming(tables, PatEvents)
    BY <1>28, QueueAppended DEF PmtStored, dispatch_event, Inv, Typed, ManagerTypes, PatEvents, TableEvents
  <2>3. /\ mgr'.m_pmtInfo = mgr.m_pmtInfo /\ mgr'.pmtPid = mgr.pmtPid /\ mgr'.registered = mgr.registered
        /\ mgr'.patVersionNumber = mgr.patVersionNumber
        /\ psi' = psi /\ monitor' = monitor /\ errors' = errors
    BY <1>28 DEF PmtStored, srcVars, Inv, Typed, ManagerTypes, Managers
  <2> QED
    BY <2>1, <2>2, <2>3 DEF Knows, Looking
<1>29. ASSUME NEW i \in DOMAIN m_filter_list, PmtDropped(i), UNCHANGED srcVars PROVE Knows'
  BY <1>29, TakenList DEF PmtDropped, srcVars, Knows, Inv, Looking, SameFilters
<1>30. ASSUME NEW i \in DOMAIN m_filter_list, section_avail_cb(i), UNCHANGED srcVars PROVE Knows'
  BY <1>30, FoundFilters DEF section_avail_cb, srcVars, Knows, Inv, Looking, SameFilters
<1>31. CASE AirChangesPat /\ UNCHANGED srcVars
  BY <1>31 DEF AirChangesPat, srcVars, Knows, Looking
<1>32. CASE AirChangesPmt /\ UNCHANGED srcVars
  BY <1>32 DEF AirChangesPmt, srcVars, Knows, Looking
<1> QED
  BY <1>1, <1>2, <1>3, <1>4, <1>5, <1>6, <1>7, <1>8, <1>9, <1>10, <1>11, <1>12, <1>13, <1>14, <1>15,
     <1>16, <1>17, <1>18, <1>19, <1>20, <1>21, <1>22, <1>23, <1>24, <1>25, <1>26, <1>27, <1>28, <1>29,
     <1>30, <1>31, <1>32 DEF Next, OwnerContinues, simonitorThread, PsiMonitor, Broadcast

LEMMA MediaKept ==
    ASSUME Inv, Media, Next
    PROVE  Media'
<1>1. CASE Open
  BY <1>1 DEF Open, Create, NewManager, Media
<1>2. CASE Play
  BY <1>2 DEF Play, Calls, Posts, siVars, Media
<1>3. CASE PlaySetup
  BY <1>3 DEF PlaySetup, Calls, siVars, Media
<1>4. CASE Pause
  BY <1>4 DEF Pause, Calls, Posts, siVars, Media
<1>5. CASE Close
  BY <1>5 DEF Close, siVars, Media
<1>6. CASE OpenSucceeds
  BY <1>6 DEF OpenSucceeds, Media
<1>7. CASE OpenFails
  BY <1>7 DEF OpenFails, Media
<1>8. CASE OwnerSetup
  BY <1>8 DEF OwnerSetup, SetupBegins, Media
<1>9. CASE OwnerStart
  BY <1>9 DEF OwnerStart, SetupEnds, Posts, Media
<1>10. CASE CloseUnregisters
  BY <1>10 DEF CloseUnregisters, Media
<1>11. CASE CloseStops
  BY <1>11 DEF CloseStops, Posts, siVars, Media
<1>12. CASE Joined
  BY <1>12 DEF Joined, PsiMutexFree, NoManager, NewManager, Media
<1>13. CASE HandleUrgent
  BY <1>13 DEF HandleUrgent, SetMonitor, siVars, Media
<1>14. CASE TakeTableEvent
  BY <1>14, QueueTaken DEF TakeTableEvent, Media, Inv, Typed, ManagerTypes, PmtEvents
<1>15. CASE TablesTimeOut
  BY <1>15 DEF TablesTimeOut, siVars, Media
<1>16. CASE ClearForUpdate
  BY <1>16 DEF ClearForUpdate, ClearProgramInfo, PsiMutexFree, SetMonitor, Media
<1>17. CASE RequestProgram
  BY <1>17 DEF RequestProgram, Media, Inv, Typed, ManagerTypes, Managers
<1>18. CASE SetPmtFilter
  BY <1>18 DEF SetPmtFilter, PsiMutexFree, SetMonitor, Media
<1>19. CASE ReportProgram
  BY <1>19 DEF ReportProgram, siVars, Media
<1>20. CASE ProgramInfo
  BY <1>20 DEF ProgramInfo, GetMediaInfo, compareMediaInfo, SetMonitor, ProgramDone, siVars, Media
<1>21. CASE MonitorSetup
  BY <1>21 DEF MonitorSetup, SetupBegins, SetMonitor, Media
<1>22. CASE MonitorStart
  BY <1>22 DEF MonitorStart, SetupEnds, ProgramDone, Media
<1>23. CASE TuneSync
  BY <1>23 DEF TuneSync, Media
<1>24. CASE TuneUnsync
  BY <1>24 DEF TuneUnsync, Calls, Media
<1>25. CASE PatAnnounced /\ UNCHANGED srcVars
  BY <1>25, QueueAppended DEF PatAnnounced, dispatch_event, srcVars, Media, Inv, Typed, ManagerTypes,
     TableEvents
<1>26. ASSUME NEW i \in DOMAIN m_filter_list, PatListed(i), UNCHANGED srcVars PROVE Media'
  BY <1>26 DEF PatListed, NextSection, srcVars, Media
<1>27. ASSUME NEW i \in DOMAIN m_filter_list, PatRepeated(i), UNCHANGED srcVars PROVE Media'
  BY <1>27 DEF PatRepeated, NextSection, srcVars, Media
<1>28. ASSUME NEW i \in DOMAIN m_filter_list, PmtStored(i), UNCHANGED srcVars PROVE Media'
  BY <1>28, QueueAppended DEF PmtStored, dispatch_event, Media, Inv, Typed, ManagerTypes, TableEvents,
     PmtEvents
<1>29. ASSUME NEW i \in DOMAIN m_filter_list, PmtDropped(i), UNCHANGED srcVars PROVE Media'
  BY <1>29 DEF PmtDropped, NextSection, srcVars, Media
<1>30. ASSUME NEW i \in DOMAIN m_filter_list, section_avail_cb(i), UNCHANGED srcVars PROVE Media'
  BY <1>30 DEF section_avail_cb, srcVars, Media
<1>31. CASE AirChangesPat /\ UNCHANGED srcVars
  BY <1>31 DEF AirChangesPat, srcVars, Media
<1>32. CASE AirChangesPmt /\ UNCHANGED srcVars
  BY <1>32 DEF AirChangesPmt, srcVars, Media
<1> QED
  BY <1>1, <1>2, <1>3, <1>4, <1>5, <1>6, <1>7, <1>8, <1>9, <1>10, <1>11, <1>12, <1>13, <1>14, <1>15,
     <1>16, <1>17, <1>18, <1>19, <1>20, <1>21, <1>22, <1>23, <1>24, <1>25, <1>26, <1>27, <1>28, <1>29,
     <1>30, <1>31, <1>32 DEF Next, OwnerContinues, simonitorThread, PsiMonitor, Broadcast

\* The session.
LEMMA MutexKept ==
    ASSUME Inv, Mutex, Next
    PROVE  Mutex'
<1>1. CASE Open
  BY <1>1 DEF Open, Mutex, Inv, Life
<1>2. CASE Play
  BY <1>2 DEF Play, Calls, Posts, siVars, Mutex
<1>3. CASE PlaySetup
  BY <1>3 DEF PlaySetup, Calls, siVars, Mutex
<1>4. CASE Pause
  BY <1>4 DEF Pause, Calls, Posts, siVars, Mutex
<1>5. CASE Close
  BY <1>5 DEF Close, siVars, Mutex
<1>6. CASE OpenSucceeds
  BY <1>6 DEF OpenSucceeds, Mutex
<1>7. CASE OpenFails
  BY <1>7 DEF OpenFails, Mutex
<1>8. CASE OwnerSetup
  BY <1>8 DEF OwnerSetup, SetupBegins, Mutex
<1>9. CASE OwnerStart
  BY <1>9 DEF OwnerStart, SetupEnds, Posts, Mutex
<1>10. CASE CloseUnregisters
  BY <1>10 DEF CloseUnregisters, Mutex
<1>11. CASE CloseStops
  BY <1>11 DEF CloseStops, Posts, siVars, Mutex
<1>12. CASE Joined
  BY <1>12 DEF Joined, PsiMutexFree, Mutex
<1>13. CASE HandleUrgent
  BY <1>13 DEF HandleUrgent, SetMonitor, Mutex, Inv, Typed, SourceTypes, Monitors
<1>14. CASE TakeTableEvent
  BY <1>14 DEF TakeTableEvent, Mutex
<1>15. CASE TablesTimeOut
  BY <1>15 DEF TablesTimeOut, siVars, Mutex
<1>16. CASE ClearForUpdate
  BY <1>16 DEF ClearForUpdate, ClearProgramInfo, PsiMutexFree, SetMonitor, Mutex
<1>17. CASE RequestProgram
  BY <1>17 DEF RequestProgram, SetMonitor, Mutex, Inv, Typed, SourceTypes, Monitors
<1>18. CASE SetPmtFilter
  BY <1>18 DEF SetPmtFilter, PsiMutexFree, SetMonitor, Mutex
<1>19. CASE ReportProgram
  BY <1>19 DEF ReportProgram, siVars, Mutex
<1>20. CASE ProgramInfo
  BY <1>20 DEF ProgramInfo, SetMonitor, ProgramDone, Mutex, Inv, Typed, SourceTypes, Monitors
<1>21. CASE MonitorSetup
  BY <1>21 DEF MonitorSetup, SetupBegins, SetMonitor, Mutex
<1>22. CASE MonitorStart
  BY <1>22 DEF MonitorStart, SetupEnds, ProgramDone, Mutex
<1>23. CASE TuneSync
  BY <1>23 DEF TuneSync, Mutex
<1>24. CASE TuneUnsync
  BY <1>24 DEF TuneUnsync, Calls, Mutex
<1>25. CASE UNCHANGED srcVars
  BY <1>25 DEF srcVars, Mutex
<1> QED
  BY <1>1, <1>2, <1>3, <1>4, <1>5, <1>6, <1>7, <1>8, <1>9, <1>10, <1>11, <1>12, <1>13, <1>14, <1>15,
     <1>16, <1>17, <1>18, <1>19, <1>20, <1>21, <1>22, <1>23, <1>24, <1>25 DEF Next, OwnerContinues,
     simonitorThread, PsiMonitor, Broadcast

LEMMA ServesKept ==
    ASSUME StopCaWhenPaused, Serves, Next
    PROVE  Serves'
<1>1. CASE Open
  BY <1>1 DEF Open, Create, Serves
<1>2. CASE Play
  BY <1>2 DEF Play, Calls, Posts, siVars, Serves
<1>3. CASE PlaySetup
  BY <1>3 DEF PlaySetup, Calls, siVars, Serves
<1>4. CASE Pause
  BY <1>4 DEF Pause, Calls, Posts, siVars, Serves
<1>5. CASE Close
  BY <1>5 DEF Close, siVars, Serves
<1>6. CASE OpenSucceeds
  BY <1>6 DEF OpenSucceeds, Serves
<1>7. CASE OpenFails
  BY <1>7 DEF OpenFails, Serves
<1>8. CASE OwnerSetup
  BY <1>8 DEF OwnerSetup, SetupBegins, Serves
<1>9. CASE OwnerStart
  BY <1>9 DEF OwnerStart, SetupEnds, Posts, Serves
<1>10. CASE CloseUnregisters
  BY <1>10 DEF CloseUnregisters, Serves
<1>11. CASE CloseStops
  BY <1>11 DEF CloseStops, Posts, siVars, Serves
<1>12. CASE Joined
  BY <1>12 DEF Joined, PsiMutexFree, Serves
<1>13. CASE HandleUrgent
  BY <1>13 DEF HandleUrgent, SetMonitor, siVars, Serves
<1>14. CASE TakeTableEvent
  BY <1>14 DEF TakeTableEvent, Serves
<1>15. CASE TablesTimeOut
  BY <1>15 DEF TablesTimeOut, siVars, Serves
<1>16. CASE ClearForUpdate
  BY <1>16 DEF ClearForUpdate, ClearProgramInfo, PsiMutexFree, SetMonitor, Serves
<1>17. CASE RequestProgram
  BY <1>17 DEF RequestProgram, SetMonitor, Serves
<1>18. CASE SetPmtFilter
  BY <1>18 DEF SetPmtFilter, PsiMutexFree, SetMonitor, Serves
<1>19. CASE ReportProgram
  BY <1>19 DEF ReportProgram, siVars, Serves
<1>20. CASE ProgramInfo
  BY <1>20 DEF ProgramInfo, GetMediaInfo, compareMediaInfo, SetMonitor, ProgramDone, siVars, Serves
<1>21. CASE MonitorSetup
  BY <1>21 DEF MonitorSetup, SetupBegins, SetMonitor, Serves
<1>22. CASE MonitorStart
  BY <1>22 DEF MonitorStart, SetupEnds, ProgramDone, Serves
<1>23. CASE TuneSync
  BY <1>23 DEF TuneSync, Serves
<1>24. CASE TuneUnsync
  BY <1>24 DEF TuneUnsync, Calls, Serves
<1>25. CASE UNCHANGED srcVars
  BY <1>25 DEF srcVars, Serves
<1> QED
  BY <1>1, <1>2, <1>3, <1>4, <1>5, <1>6, <1>7, <1>8, <1>9, <1>10, <1>11, <1>12, <1>13, <1>14, <1>15,
     <1>16, <1>17, <1>18, <1>19, <1>20, <1>21, <1>22, <1>23, <1>24, <1>25 DEF Next, OwnerContinues,
     simonitorThread, PsiMonitor, Broadcast

-----------------------------------------------------------------------------
(* With two filters or more, none is cancelled.                            *)

PatSet(list) == \A i \in DOMAIN list : list[i].table = "PAT" => list[i].set

LEMMA PatSetRemoved ==
    ASSUME NEW list, FilterList(list), PatSet(list), NEW k \in DOMAIN list, NEW r, r = RemoveAt(list, k)
    PROVE  PatSet(r)
<1>1. \A i \in DOMAIN r : LET m == IF i < k THEN i ELSE i + 1
                          IN  m \in DOMAIN list /\ m # k /\ r[i] = list[m]
  BY RemovedFrom DEF FilterList
<1> QED
  BY <1>1 DEF PatSet

LEMMA PatSetFilter ==
    ASSUME MaxFilters # 1, NEW list, FilterList(list), PatSet(list),
           NEW f \in AllFilters, f.set, ~Has(f.table, list), NEW r, r \in set_filter(list, f)
    PROVE  PatSet(r)
<1>1. r \in {list, Append(list, f)}
  BY SetFilterList
<1>2. CASE r = Append(list, f)
  <2>1. /\ DOMAIN r = DOMAIN list \cup {Len(list) + 1}
        /\ \A i \in DOMAIN list : r[i] = list[i]
        /\ r[Len(list) + 1] = f
    BY <1>2, AppendProperties DEF FilterList
  <2> QED
    BY <2>1 DEF PatSet
<1> QED
  BY <1>1, <1>2

LEMMA PatSetNegative ==
    ASSUME MaxFilters # 1, NEW list, FilterList(list), PatSet(list), NEW t \in Tables, NEW v,
           t = "PAT" => v \in PatVersions, t = "PMT" => v \in PmtVersions,
           NEW r, r \in configure_negative_filters(t, list, v)
    PROVE  PatSet(r)
<1>1. CASE ~(NegativeFilters /\ FirstOf(t, list) # 0)
  BY <1>1 DEF configure_negative_filters
<1>2. CASE NegativeFilters /\ FirstOf(t, list) # 0
  <2>1. PICK k : k = FirstOf(t, list)
    OBVIOUS
  <2>2. k \in DOMAIN list /\ list[k].table = t
    BY <1>2, <2>1, FirstOfTable
  <2>3. PICK l, f : l = RemoveAt(list, k) /\ f = Filter(t, list[k].pid, v, 4)
    OBVIOUS
  <2>4. r \in set_filter(l, f)
    BY <1>2, <2>1, <2>3 DEF configure_negative_filters
  <2>5. list[k].pid \in Nat
    BY <2>2, SectionTypes
  <2>6. f \in AllFilters /\ f.table = t /\ f.set
    BY <2>3, <2>5 DEF Filter, Tables, AllFilters, PatFilters, PmtFilters
  <2>7. FilterList(l) /\ ~Has(t, l) /\ PatSet(l)
    BY <2>2, <2>3, ListRemoved, PatSetRemoved
  <2> QED
    BY <2>4, <2>6, <2>7, PatSetFilter
<1> QED
  BY <1>1, <1>2

LEMMA PatSetFound ==
    ASSUME NEW list, FilterList(list), PatSet(list), NEW k \in DOMAIN list, NEW v,
           NEW r, r = WithSection(list, k, v)
    PROVE  PatSet(r)
<1>1. list[k] \in AllFilters
  BY DEF FilterList
<1>2. PICK e : e = [list[k] EXCEPT !.found = v]
  OBVIOUS
<1>3. e.table = list[k].table /\ e.set = list[k].set
  BY <1>1, <1>2 DEF AllFilters, PatFilters, PmtFilters
<1>4. DOMAIN r = DOMAIN list /\ \A i \in DOMAIN list : r[i] = IF i = k THEN e ELSE list[i]
  BY <1>2 DEF FilterList, WithSection
<1> QED
  BY <1>3, <1>4 DEF PatSet

LEMMA PatFilterStays ==
    ASSUME MaxFilters # 1, Inv, PatFilterSurvives, Next
    PROVE  PatFilterSurvives'
<1>0. FilterList(m_filter_list) /\ PatSet(m_filter_list)
  BY DEF Inv, Typed, PatFilterSurvives, PatSet
<1> SUFFICES PatSet(m_filter_list')
  BY DEF PatFilterSurvives, PatSet
<1>1. CASE UNCHANGED m_filter_list
  BY <1>0, <1>1
<1>2. CASE m_filter_list' = <<>>
  BY <1>2 DEF PatSet
<1>3. CASE OpenSucceeds
  <2>1. PICK f : f = Filter("PAT", NoPid, INIT_TABLE_VERSION, 40)
    OBVIOUS
  <2>2. f \in AllFilters /\ f.set /\ f.table = "PAT"
    BY <2>1 DEF Filter, NoPid, INIT_TABLE_VERSION, AllFilters, PatFilters
  <2>3. ~Has("PAT", m_filter_list) /\ m_filter_list' \in set_filter(m_filter_list, f)
    BY <1>3, <2>1, EmptyList DEF OpenSucceeds, RequestTsInfo, Inv, Life
  <2> QED
    BY <1>0, <2>2, <2>3, PatSetFilter
<1>4. CASE SetPmtFilter
  <2>1. PICK f : f = Filter("PMT", mgr.pmtPid, INIT_TABLE_VERSION, 2)
    OBVIOUS
  <2>2. f \in AllFilters /\ f.set /\ f.table = "PMT"
    <3>1. mgr.pmtPid \in Nat
      BY DEF Inv, Typed, ManagerTypes, Managers
    <3> QED
      BY <2>1, <3>1 DEF Filter, INIT_TABLE_VERSION, AllFilters, PmtFilters
  <2>3. ~Has("PMT", m_filter_list) /\ m_filter_list' \in set_filter(m_filter_list, f)
    BY <1>4, <2>1 DEF SetPmtFilter, Inv, Lookup
  <2> QED
    BY <1>0, <2>2, <2>3, PatSetFilter
<1>5. CASE ClearForUpdate
  <2>1. m_filter_list' = Released("PMT", m_filter_list)
    BY <1>5 DEF ClearForUpdate, ClearProgramInfo
  <2>2. CASE ~Has("PMT", m_filter_list)
    BY <1>0, <2>1, <2>2, FirstOfTable DEF Released
  <2>3. CASE Has("PMT", m_filter_list)
    <3>1. PICK k : k = FirstOf("PMT", m_filter_list)
      OBVIOUS
    <3>2. k \in DOMAIN m_filter_list /\ k # 0
      BY <1>0, <2>3, <3>1, FirstOfTable
    <3>3. m_filter_list' = RemoveAt(m_filter_list, k)
      BY <2>1, <3>1, <3>2 DEF Released
    <3> QED
      BY <1>0, <3>2, <3>3, PatSetRemoved
  <2> QED
    BY <2>2, <2>3
<1>6. CASE PatAnnounced
  <2>1. psi.version \in PatVersions /\ m_filter_list' \in configure_negative_filters("PAT", m_filter_list, psi.version)
    BY <1>6 DEF PatAnnounced, Inv, Typed, ManagerTypes, Life
  <2> QED
    BY <1>0, <2>1, PatSetNegative DEF Tables
<1>7. ASSUME NEW i \in DOMAIN m_filter_list, PatListed(i) \/ PatRepeated(i) \/ PmtDropped(i)
      PROVE  PatSet(m_filter_list')
  <2>1. m_filter_list' = WithSection(m_filter_list, i, 0)
    BY <1>7 DEF PatListed, PatRepeated, PmtDropped, Taken, WithSection
  <2> QED
    BY <1>0, <2>1, PatSetFound
<1>8. ASSUME NEW i \in DOMAIN m_filter_list, PmtStored(i) PROVE PatSet(m_filter_list')
  <2>1. PICK v, l : v = m_filter_list[i].found /\ l = WithSection(m_filter_list, i, 0)
    OBVIOUS
  <2>2. m_filter_list[i].table = "PMT" /\ v # 0 /\ m_filter_list' \in configure_negative_filters("PMT", l, v)
    BY <1>8, <2>1 DEF PmtStored, NextSection, Taken, WithSection
  <2>3. v \in PmtVersions
    BY <1>0, <2>1, <2>2, SectionTypes
  <2>4. FilterList(l) /\ PatSet(l)
    BY <1>0, <2>1, FoundList, PatSetFound
  <2> QED
    BY <2>2, <2>3, <2>4, PatSetNegative DEF Tables
<1>9. ASSUME NEW i \in DOMAIN m_filter_list, section_avail_cb(i) PROVE PatSet(m_filter_list')
  <2>1. m_filter_list' = WithSection(m_filter_list, i, OnAir(m_filter_list[i]))
    BY <1>9 DEF section_avail_cb, WithSection
  <2> QED
    BY <1>0, <2>1, PatSetFound
<1>10. CASE Open \/ Joined
  BY <1>2, <1>10 DEF Open, Create, Joined
<1>11. CASE Play \/ PlaySetup \/ Pause \/ Close \/ OpenFails \/ OwnerSetup \/ OwnerStart
            \/ CloseUnregisters \/ CloseStops
  BY <1>1, <1>11 DEF Play, PlaySetup, Pause, Close, OpenFails, OwnerSetup, SetupBegins, OwnerStart, SetupEnds,
     CloseUnregisters, CloseStops, siVars
<1>12. CASE HandleUrgent \/ TakeTableEvent \/ TablesTimeOut \/ RequestProgram \/ ReportProgram \/ ProgramInfo
            \/ MonitorSetup \/ MonitorStart
  BY <1>1, <1>12 DEF HandleUrgent, TakeTableEvent, TablesTimeOut, RequestProgram, ReportProgram, ProgramInfo,
     MonitorSetup, SetupBegins, MonitorStart, SetupEnds, siVars
<1>13. CASE AirChangesPat \/ AirChangesPmt \/ TuneSync \/ TuneUnsync
  BY <1>1, <1>13 DEF AirChangesPat, AirChangesPmt, TuneSync, TuneUnsync
<1> QED
  BY <1>3, <1>4, <1>5, <1>6, <1>7, <1>8, <1>9, <1>10, <1>11, <1>12, <1>13
     DEF Next, OwnerContinues, simonitorThread, PsiMonitor, Broadcast

\* What a step leaves alone it keeps.
LEMMA StutterKept ==
    ASSUME UNCHANGED vars
    PROVE  /\ Inv => Inv'
           /\ Knows => Knows'
           /\ Media => Media'
           /\ Mutex => Mutex'
           /\ Serves => Serves'
           /\ PatFilterSurvives => PatFilterSurvives'
<1>1. UNCHANGED siVars /\ UNCHANGED srcVars
  BY DEF vars
<1>2. Inv => Inv'
  <2>1. (Typed => Typed') /\ (Life => Life')
    BY <1>1 DEF siVars, srcVars, Typed, ManagerTypes, SourceTypes, Life
  <2>2. (First => First') /\ (Lookup => Lookup')
    BY <1>1 DEF siVars, srcVars, First, Lookup, Looking
  <2> QED
    BY <2>1, <2>2 DEF Inv
<1>3. (Knows => Knows') /\ (Media => Media')
  BY <1>1 DEF siVars, srcVars, Knows, Media, Looking
<1>4. (Mutex => Mutex') /\ (Serves => Serves') /\ (PatFilterSurvives => PatFilterSurvives')
  BY <1>1 DEF siVars, srcVars, Mutex, Serves, PatFilterSurvives
<1> QED
  BY <1>2, <1>3, <1>4

LEMMA InvInit == Init => Inv
<1> SUFFICES ASSUME Init PROVE Inv
  OBVIOUS
<1>1. ManagerTypes
  <2>1. air \in Broadcasts
    BY DEF Init, SiInit, Broadcasts
  <2>2. mgr \in Managers
    BY DEF Init, SiInit, NoManager, NewManager, NoPid, INIT_TABLE_VERSION, Managers
  <2> QED
    BY <2>1, <2>2 DEF Init, SiInit, ManagerTypes, TableEvents
<1>2. SourceTypes
  BY DEF Init, SourceTypes, Flags, Errors, Monitors, PidSets, NoMedia, NoSession
<1>3. Life /\ First /\ Lookup
  BY EmptyList, QueueEmpty
  DEF Init, SiInit, NoManager, NewManager, INIT_TABLE_VERSION, Life, First, Lookup, Looking
<1> QED
  BY <1>1, <1>2, <1>3, EmptyList DEF Inv, Typed, Init, SiInit

LEMMA InvKept ==
    ASSUME Inv, [Next]_vars
    PROVE  Inv'
<1>1. CASE Next
  BY <1>1, TypedKept, LifeKept, FirstKept, LookupKept DEF Inv
<1>2. CASE UNCHANGED vars
  BY <1>2, StutterKept
<1> QED
  BY <1>1, <1>2

-----------------------------------------------------------------------------
(* The results.                                                            *)

\* The source, its manager, the filters and the queues between the threads keep their types
\* for any tables, filters and calls.  It rests on the filter list, where a section is always
\* one of the table its filter is for, so that a version the manager stores is one of it.
THEOREM SourceTypesHold == Spec => []TypeOK
<1>1. Inv => TypeOK
  <2> SUFFICES ASSUME Inv, NEW i \in DOMAIN m_filter_list
               PROVE  m_filter_list[i] \in
                        [table : Tables, pid : Nat, neg : PatVersions \cup PmtVersions \cup {0},
                         priority : {2, 4, 40}, set : BOOLEAN, found : PatVersions \cup PmtVersions \cup {0}]
    BY DEF Inv, Typed, TypeOK, FilterTypes
  <2>1. m_filter_list[i] \in AllFilters
    BY DEF Inv, Typed, FilterList
  <2> QED
    BY <2>1 DEF AllFilters, PatFilters, PmtFilters, Tables
<1> QED
  BY <1>1, InvInit, InvKept, PTL DEF Spec

\* The filters for the PMT that the demux has are those of the list.
LEMMA PmtIsSet ==
    ASSUME Inv
    PROVE  /\ {m_filter_list[i].pid : i \in Filters("PMT")} = PmtAt(m_filter_list)
           /\ Cardinality(Filters("PMT")) <= 1
<1>1. ASSUME NEW i \in DOMAIN m_filter_list, m_filter_list[i].table = "PMT" PROVE m_filter_list[i].set
  <2>1. m_filter_list[i] \in AllFilters
    BY DEF Inv, Typed, FilterList
  <2> QED
    BY <1>1, <2>1 DEF AllFilters, PatFilters, PmtFilters
<1>2. Filters("PMT") = {i \in DOMAIN m_filter_list : m_filter_list[i].table = "PMT"}
  BY <1>1 DEF Filters
<1>3. \A i, j \in Filters("PMT") : i = j
  BY <1>2 DEF Inv, Typed, FilterList, OncePerTable
<1>4. CASE Filters("PMT") = {}
  BY <1>2, <1>4, FS_EmptySet DEF PmtAt
<1>5. CASE Filters("PMT") # {}
  <2>1. PICK i : Filters("PMT") = {i}
    BY <1>3, <1>5
  <2>2. Cardinality(Filters("PMT")) = 1
    BY <2>1, FS_Singleton
  <2> QED
    BY <1>2, <2>2 DEF PmtAt
<1> QED
  BY <1>4, <1>5

\* With no event left the source agrees with its manager, and the monitor asks for a program
\* only of a manager that has a PAT: whatever the tables, the number of filters, the negative
\* filters and the calls of the owner.  The demux must not refuse the PMT its filter, for
\* RequestProgramInfo drops that error.
THEOREM SourceFollows ==
    ASSUME "PMT" \notin Refuses
    PROVE  Spec => []SourceFollowsTables
<1> DEFINE All == Inv /\ Knows /\ Media
<1>1. Init => All
  BY InvInit DEF Init, SiInit, NoManager, NewManager, Knows, Media
<1>2. All /\ [Next]_vars => All'
  <2> SUFFICES ASSUME All, [Next]_vars PROVE All'
    OBVIOUS
  <2>1. CASE Next
    BY <2>1, InvKept, KnowsKept, MediaKept
  <2>2. CASE UNCHANGED vars
    BY <2>2, StutterKept
  <2> QED
    BY <2>1, <2>2
<1>3. All => SourceFollowsTables
  <2> SUFFICES ASSUME All PROVE SourceFollowsTables
    OBVIOUS
  <2>1. ASSUME Quiet, mgr.patVersionNumber # INIT_TABLE_VERSION PROVE Agrees
    <3>1. mgr.registered /\ ~Coming(tables, PatEvents) /\ ~Coming(tables, PmtEvents) /\ ~Looking
      BY <2>1, QueueEmpty DEF Quiet, Inv, Life, Looking
    <3>2. mgr.pmtVersionNumber # INIT_TABLE_VERSION => mediaInfo = StreamsOf(mgr.elementary_streams)
      BY <2>1, <3>1 DEF Quiet, Media
    <3>3. /\ errors.invalidBit = (mgr.m_pmtInfo = NoPid)
          /\ PmtAt(m_filter_list) = {mgr.m_pmtInfo} \ {NoPid}
      BY <2>1, <3>1 DEF Quiet, Knows
    <3> QED
      BY <3>2, <3>3, PmtIsSet DEF Agrees
  <2>2. ASSUME monitor.pc = "request" PROVE mgr.exists /\ mgr.m_bIsPATAvailable
    BY <2>2 DEF Inv, Life, First, Looking
  <2> QED
    BY <2>1, <2>2 DEF SourceFollowsTables
<1> QED
  BY <1>1, <1>2, <1>3, PTL DEF Spec

\* Where a pause stops the conditional access, a session is for the PIDs the source outputs
\* and none is left while it is paused, though the monitor thread may be about to start one
\* when the owner pauses.
THEOREM SessionServes ==
    ASSUME StopCaWhenPaused
    PROVE  Spec => []SessionServesMedia
<1>1. Init => Serves
  BY DEF Init, Serves, NoMedia, NoSession
<1>2. Serves /\ [Next]_vars => Serves'
  <2> SUFFICES ASSUME Serves, [Next]_vars PROVE Serves'
    OBVIOUS
  <2>1. CASE Next
    BY <2>1, ServesKept
  <2>2. CASE UNCHANGED vars
    BY <2>2, StutterKept
  <2> QED
    BY <2>1, <2>2
<1>3. Serves => SessionServesMedia
  BY DEF Serves, SessionServesMedia
<1> QED
  BY <1>1, <1>2, <1>3, PTL DEF Spec

\* setupDecryption is never in both threads at once, and it has m_mutex throughout: the
\* descriptors the one borrows are not given back by the other.
THEOREM SetupIsExclusive ==
    Spec => [](~(monitor.pc \in {"setup", "start"} /\ owner \in {"setup", "start"}))
<1> DEFINE Both == monitor.pc \in {"setup", "start"} /\ owner \in {"setup", "start"}
<1>1. Init => Inv /\ Mutex
  BY InvInit DEF Init, Mutex
<1>2. Inv /\ Mutex /\ [Next]_vars => Inv' /\ Mutex'
  <2> SUFFICES ASSUME Inv /\ Mutex, [Next]_vars PROVE Inv' /\ Mutex'
    OBVIOUS
  <2>1. CASE Next
    BY <2>1, InvKept, MutexKept
  <2>2. CASE UNCHANGED vars
    BY <2>2, StutterKept
  <2> QED
    BY <2>1, <2>2
<1>3. Mutex => ~Both
  BY DEF Mutex
<1> QED
  BY <1>1, <1>2, <1>3, PTL DEF Spec

\* With two filters for the source, the PMT's filter never takes the place of the PAT's: the
\* bound under which what rmf_inbsimgr.h says of their priorities holds.
THEOREM PatFilterKept ==
    ASSUME MaxFilters >= 2
    PROVE  Spec => []PatFilterSurvives
<1>1. MaxFilters # 1
  OBVIOUS
<1>2. Init => Inv /\ PatFilterSurvives
  BY InvInit DEF Init, SiInit, PatFilterSurvives
<1>3. Inv /\ PatFilterSurvives /\ [Next]_vars => Inv' /\ PatFilterSurvives'
  <2> SUFFICES ASSUME Inv /\ PatFilterSurvives, [Next]_vars PROVE Inv' /\ PatFilterSurvives'
    OBVIOUS
  <2>1. CASE Next
    BY <1>1, <2>1, InvKept, PatFilterStays
  <2>2. CASE UNCHANGED vars
    BY <2>2, StutterKept
  <2> QED
    BY <2>1, <2>2
<1> QED
  BY <1>2, <1>3, PTL DEF Spec

=============================================================================
