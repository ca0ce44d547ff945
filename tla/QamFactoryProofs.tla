-------------------------- MODULE QamFactoryProofs --------------------------
(***************************************************************************)
(* Proofs about the QAM source factory, for any clients, services, tuners  *)
(* and usages: the tuners are accounted for, an instance's refcount is the *)
(* number of those that still use it, no service takes two tuners, and     *)
(* pre-emption goes by the usages of those that have the instance.         *)
(***************************************************************************)
EXTENDS QamFactory, FiniteSetTheorems, SequenceTheorems, WellFoundedInduction, TLAPS

-----------------------------------------------------------------------------
(* The list: an entry occurs once, and taking entries out keeps the rest.  *)

Once(seq) == \A j, k \in DOMAIN seq : seq[j] = seq[k] => j = k

\* The ranks of the members of a finite set of numbers are 1, 2, ... up to their number.
LEMMA Ranks ==
    ASSUME NEW K, IsFiniteSet(K), K \subseteq Nat
    PROVE  /\ Cardinality(K) \in Nat
           /\ \A n \in 1..Cardinality(K) : \E k \in K : Cardinality({j \in K : j <= k}) = n
           /\ \A k \in K : Cardinality({j \in K : j <= k}) \in 1..Cardinality(K)
           /\ \A k, l \in K : Cardinality({j \in K : j <= k}) = Cardinality({j \in K : j <= l}) => k = l
<1> DEFINE R(k) == {j \in K : j <= k}
           r == [k \in K |-> Cardinality(R(k))]
<1>0. Cardinality(K) \in Nat
  BY FS_CardinalityType
<1>1. \A k \in K : IsFiniteSet(R(k)) /\ Cardinality(R(k)) \in 1..Cardinality(K)
  <2> SUFFICES ASSUME NEW k \in K
               PROVE  IsFiniteSet(R(k)) /\ Cardinality(R(k)) \in 1..Cardinality(K)
    OBVIOUS
  <2>1. R(k) \in SUBSET K /\ k \in R(k)
    OBVIOUS
  <2> HIDE DEF R
  <2>2. IsFiniteSet(R(k)) /\ Cardinality(R(k)) <= Cardinality(K)
    BY <2>1, FS_Subset
  <2>3. Cardinality(R(k)) \in Nat /\ Cardinality(R(k)) # 0
    BY <2>1, <2>2, FS_CardinalityType, FS_EmptySet
  <2> QED
    BY <1>0, <2>2, <2>3
<1>2. \A k, l \in K : k < l => Cardinality(R(k)) # Cardinality(R(l))
  <2> SUFFICES ASSUME NEW k \in K, NEW l \in K, k < l
               PROVE  Cardinality(R(k)) # Cardinality(R(l))
    OBVIOUS
  <2>0. k \in Nat /\ l \in Nat /\ \A j \in K : j \in Nat /\ (j <= k => j <= l)
    OBVIOUS
  <2>1. R(k) \subseteq R(l)
    BY <2>0
  <2>2. l \in R(l)
    BY <2>0
  <2>3. l \notin R(k)
    BY <2>0
  <2>4. IsFiniteSet(R(l))
    BY <1>1
  <2> HIDE DEF R
  <2> QED
    BY <2>1, <2>2, <2>3, <2>4, FS_Subset
<1>3. \A k, l \in K : Cardinality(R(k)) = Cardinality(R(l)) => k = l
  <2> HIDE DEF R
  <2> QED
    BY <1>2
<1>4. r \in Injection(K, 1..Cardinality(K))
  <2> HIDE DEF R
  <2> QED
    BY <1>1, <1>3 DEF Injection, IsInjective
<1>5. r \in Surjection(K, 1..Cardinality(K))
  <2>1. IsFiniteSet(1..Cardinality(K)) /\ Cardinality(1..Cardinality(K)) = Cardinality(K)
    BY <1>0, FS_Interval
  <2> HIDE DEF r
  <2> QED
    BY <1>4, <2>1, FS_Injection
<1>6. \A n \in 1..Cardinality(K) : \E k \in K : Cardinality(R(k)) = n
  <2> HIDE DEF R
  <2> QED
    BY <1>5 DEF Surjection
<1> QED
  BY <1>0, <1>1, <1>3, <1>6

\* removeFromList and the other walks that unlink entries, on a list without repetition.
LEMMA WithoutIs ==
    ASSUME NEW S, NEW seq \in Seq(S), NEW T
    PROVE  /\ Without(seq, T) \in Seq(S)
           /\ Range(Without(seq, T)) = Range(seq) \ T
           /\ Once(seq) => Once(Without(seq, T))
<1> DEFINE K == {k \in DOMAIN seq : seq[k] \notin T}
           rank(k) == Cardinality({j \in K : j <= k})
           at(n) == CHOOSE k \in K : rank(k) = n
           w == [n \in 1..Cardinality(K) |-> seq[at(n)]]
<1>1. Without(seq, T) = w
  BY DEF Without
<1>2. IsFiniteSet(K) /\ K \subseteq Nat /\ K \subseteq DOMAIN seq
  <2>1. DOMAIN seq = 1..Len(seq) /\ Len(seq) \in Nat
    BY LenProperties
  <2>2. IsFiniteSet(DOMAIN seq)
    BY <2>1, FS_Interval
  <2>3. K \in SUBSET DOMAIN seq
    OBVIOUS
  <2> QED
    BY <2>1, <2>2, <2>3, FS_Subset
<1>3. \A k \in K : seq[k] \in S /\ seq[k] \in Range(seq) \ T
  BY DEF Range
<1>4. \A x \in Range(seq) \ T : \E k \in K : seq[k] = x
  BY DEF Range
<1> HIDE DEF K
<1>5. /\ Cardinality(K) \in Nat
      /\ \A n \in 1..Cardinality(K) : \E k \in K : rank(k) = n
      /\ \A k \in K : rank(k) \in 1..Cardinality(K)
      /\ \A k, l \in K : rank(k) = rank(l) => k = l
  BY <1>2, Ranks
<1> HIDE DEF rank
<1>6. \A n \in 1..Cardinality(K) : at(n) \in K /\ rank(at(n)) = n
  BY <1>5
<1>7. \A k \in K : at(rank(k)) = k
  BY <1>5, <1>6
<1> HIDE DEF at
<1>8. w \in Seq(S) /\ DOMAIN w = 1..Cardinality(K)
  BY <1>3, <1>5, <1>6
<1>9. Range(w) = Range(seq) \ T
  <2>1. \A n \in DOMAIN w : w[n] \in Range(seq) \ T
    BY <1>3, <1>6
  <2>2. \A x \in Range(seq) \ T : \E n \in DOMAIN w : w[n] = x
    BY <1>4, <1>5, <1>7
  <2> QED
    BY <2>1, <2>2 DEF Range
<1>10. ASSUME Once(seq), NEW m \in DOMAIN w, NEW n \in DOMAIN w, w[m] = w[n]
       PROVE  m = n
  <2>1. /\ at(m) \in DOMAIN seq /\ rank(at(m)) = m
        /\ at(n) \in DOMAIN seq /\ rank(at(n)) = n
        /\ seq[at(m)] = seq[at(n)]
    BY <1>2, <1>6, <1>10
  <2> QED
    BY <1>10, <2>1 DEF Once
<1>11. Once(seq) => Once(w)
  <2> HIDE DEF w
  <2> QED
    BY <1>10 DEF Once
<1> QED
  BY <1>1, <1>8, <1>9, <1>11

\* A list without repetition is as long as it has members.
LEMMA OnceLen ==
    ASSUME NEW S, NEW seq \in Seq(S), Once(seq)
    PROVE  IsFiniteSet(Range(seq)) /\ Len(seq) \in Nat /\ Cardinality(Range(seq)) = Len(seq)
<1>1. DOMAIN seq = 1..Len(seq) /\ Len(seq) \in Nat
  BY LenProperties
<1>2. IsFiniteSet(DOMAIN seq) /\ Cardinality(DOMAIN seq) = Len(seq)
  BY <1>1, FS_Interval, SMTT(30)
<1>3. seq \in Surjection(DOMAIN seq, Range(seq)) /\ seq \in Injection(DOMAIN seq, Range(seq))
  BY DEF Surjection, Injection, IsInjective, Range, Once
<1> QED
  BY <1>1, <1>2, <1>3, FS_Surjection

\* g_qamsrc_list_last_entry->next.
LEMMA AppendOnce ==
    ASSUME NEW S, NEW seq \in Seq(S), Once(seq), NEW x \in S, x \notin Range(seq)
    PROVE  /\ Append(seq, x) \in Seq(S)
           /\ Once(Append(seq, x))
           /\ Range(Append(seq, x)) = Range(seq) \cup {x}
<1>1. /\ Append(seq, x) \in Seq(S)
      /\ Len(seq) \in Nat /\ DOMAIN seq = 1..Len(seq)
      /\ DOMAIN Append(seq, x) = 1..(Len(seq) + 1)
      /\ \A k \in 1..Len(seq) : Append(seq, x)[k] = seq[k]
      /\ Append(seq, x)[Len(seq) + 1] = x
  BY AppendProperties, LenProperties
<1>2. Len(seq) + 1 \in DOMAIN Append(seq, x) /\ Len(seq) + 1 \notin DOMAIN seq
      /\ DOMAIN Append(seq, x) = DOMAIN seq \cup {Len(seq) + 1}
  BY <1>1
<1> DEFINE a == Append(seq, x)
           m == Len(seq) + 1
<1>3. /\ DOMAIN a = DOMAIN seq \cup {m} /\ m \notin DOMAIN seq
      /\ \A k \in DOMAIN seq : a[k] = seq[k]
      /\ a[m] = x
  BY <1>1, <1>2
<1> HIDE DEF a, m
<1>4. Once(a)
  BY <1>3 DEF Once, Range
<1>5. Range(a) = Range(seq) \cup {x}
  BY <1>3 DEF Range
<1> QED
  BY <1>1, <1>4, <1>5 DEF a

-----------------------------------------------------------------------------
(* A factory whose accounts are in order, when n[i] clients and            *)
(* pre-emptions have instance i.                                           *)

Entries == [uri : Uris \cup {None, FreedUri}, freq : Nat, refcount : Nat,
            ready : BOOLEAN, usages : [Clients -> SUBSET Usages]]
Factories == [list : Seq(Instances), obj : [Instances -> Entries], no : Nat, low : Nat,
              caching : Caching]
Counts == [Instances -> Nat]

\* The usage that attachUsage can have given to client c.
May(c) == IF c \in Anonymous THEN {} ELSE {UsageOf(c)}

Listing(f) == Once(f.list) /\ f.no = Len(f.list)
Counted(f, n) ==
    /\ \A i \in Listed(f) : f.obj[i].refcount = n[i] /\ (n[i] > 0 => f.obj[i].uri # None)
    /\ \A i \in Instances \ Listed(f) : n[i] = 0 /\ f.obj[i] = Blank
Apart(f) ==
    \A i, j \in Listed(f) : i # j /\ f.obj[i].uri = f.obj[j].uri => f.obj[i].uri \in {FreedUri, None}
OwnUsage(f) ==
    \A i \in Instances, c \in Clients : /\ f.obj[i].usages[c] \subseteq May(c)
                                        /\ f.obj[i].usages[c] # {} => f.obj[i].uri # None

Accounts(f, n) ==
    /\ f \in Factories /\ n \in Counts
    /\ Listing(f)
    /\ f.no + f.low <= numberOfTuners
    /\ Counted(f, n)
    /\ Apart(f)
    /\ OwnUsage(f)

\* No usage was attached on the way from f to g.
Fewer(f, g) == \A i \in Instances, c \in Clients : g.obj[i].usages[c] \subseteq f.obj[i].usages[c]

LEMMA UsageType == \A c \in Clients : UsageOf(c) \in Usages /\ May(c) \subseteq Usages
BY FactoryConstants DEF UsageOf, May, Usages, Priority

LEMMA BlankType == Blank \in Entries /\ \A c \in Clients : Blank.usages[c] = {}
BY DEF Blank, Entries

LEMMA ListedType ==
    ASSUME NEW f \in Factories
    PROVE  Listed(f) \subseteq Instances
BY DEF Factories, Listed, Range

-----------------------------------------------------------------------------
(* What the operations on the list do to its fields.                       *)

\* Entries taken out of the list.
LEMMA UnlistedIs ==
    ASSUME NEW f \in Factories, NEW S \in SUBSET Listed(f), Listing(f), NEW g, g = Unlisted(f, S)
    PROVE  /\ g \in Factories
           /\ Listing(g)
           /\ g.no <= f.no /\ g.low = f.low /\ g.caching = f.caching
           /\ S # {} => g.no < f.no
           /\ Listed(g) = Listed(f) \ S
           /\ \A i \in Instances : g.obj[i] = IF i \in S THEN Blank ELSE f.obj[i]
<1> DEFINE l == Without(f.list, S)
           o == [i \in Instances |-> IF i \in S THEN Blank ELSE f.obj[i]]
           m == f.no - Cardinality(S)
<1>1. f.list \in Seq(Instances) /\ Once(f.list) /\ f.no = Len(f.list) /\ f.no \in Nat
  BY DEF Factories, Listing
<1>2. l \in Seq(Instances) /\ Range(l) = Range(f.list) \ S /\ Once(l)
  BY <1>1, WithoutIs
<1>3. /\ IsFiniteSet(Range(f.list)) /\ Cardinality(Range(f.list)) = f.no
      /\ Cardinality(Range(l)) = Len(l) /\ Len(l) \in Nat
      /\ S \subseteq Range(f.list)
  BY <1>1, <1>2, OnceLen DEF Listed
<1>4. Len(l) = m /\ m \in Nat /\ m <= f.no /\ (S # {} => m < f.no)
  <2>1. IsFiniteSet(S) /\ Cardinality(S) \in Nat
    BY <1>3, FS_Subset, FS_CardinalityType
  <2>2. Cardinality(Range(f.list) \ S) = Cardinality(Range(f.list)) - Cardinality(Range(f.list) \cap S)
    BY <1>3, FS_Difference
  <2>3. Range(f.list) \cap S = S /\ (S # {} => Cardinality(S) # 0)
    BY <1>3, <2>1, FS_EmptySet
  <2> HIDE DEF l
  <2>4. Len(l) = f.no - Cardinality(S)
    BY <1>2, <1>3, <2>2, <2>3
  <2> QED
    BY <1>1, <1>3, <2>1, <2>3, <2>4
<1>5. o \in [Instances -> Entries]
  BY BlankType DEF Factories
<1>6. g = [f EXCEPT !.list = l, !.obj = o, !.no = m]
  BY DEF Unlisted, Factories
<1> HIDE DEF l, o, m
<1>7. g.list = l /\ g.no = m /\ g.low = f.low /\ g.caching = f.caching /\ g.obj = o
  BY <1>6 DEF Factories
<1>8. g \in Factories
  BY <1>2, <1>4, <1>5, <1>6 DEF Factories
<1>9. \A i \in Instances : o[i] = IF i \in S THEN Blank ELSE f.obj[i]
  BY DEF o
<1> QED
  BY <1>2, <1>4, <1>7, <1>8, <1>9 DEF Listing, Listed

\* Taking out instances nobody has keeps the accounts.
LEMMA UnlistedAccounts ==
    ASSUME NEW f, NEW n, Accounts(f, n), NEW S \in SUBSET Listed(f),
           NEW m \in Counts, \A i \in Instances : m[i] = IF i \in S THEN 0 ELSE n[i],
           NEW g, g = Unlisted(f, S)
    PROVE  Accounts(g, m) /\ Fewer(f, g)
<1>1. f \in Factories /\ n \in Counts /\ Listing(f) /\ Listed(f) \subseteq Instances
  BY ListedType DEF Accounts
<1>2. /\ g \in Factories /\ Listing(g)
      /\ g.no <= f.no /\ g.low = f.low
      /\ Listed(g) = Listed(f) \ S
      /\ \A i \in Instances : g.obj[i] = IF i \in S THEN Blank ELSE f.obj[i]
  BY <1>1, UnlistedIs
<1>3. g.no + g.low <= numberOfTuners
  <2>1. f.no \in Nat /\ f.low \in Nat /\ g.no \in Nat /\ numberOfTuners \in Nat
    BY <1>1, <1>2, FactoryConstants DEF Factories
  <2>2. f.no + f.low <= numberOfTuners
    BY DEF Accounts
  <2> QED
    BY <1>2, <2>1, <2>2
<1>4. Counted(g, m)
  BY <1>1, <1>2 DEF Accounts, Counted
<1>5. Apart(g)
  BY <1>1, <1>2 DEF Accounts, Apart
<1>6. OwnUsage(g) /\ Fewer(f, g)
  BY <1>2, BlankType DEF Accounts, OwnUsage, Fewer
<1> QED
  BY <1>1, <1>2, <1>3, <1>4, <1>5, <1>6 DEF Accounts

\* "Move entry to end of list".
LEMMA MovedAccounts ==
    ASSUME NEW f, NEW n, Accounts(f, n), NEW i \in Listed(f), NEW g, g = MovedToEnd(f, i)
    PROVE  /\ Accounts(g, n)
           /\ Listed(g) = Listed(f) /\ g.obj = f.obj
           /\ g.no = f.no /\ g.low = f.low /\ g.caching = f.caching
<1> DEFINE w == Without(f.list, {i})
           l == Append(w, i)
<1>1. f \in Factories /\ n \in Counts /\ Listing(f) /\ Listed(f) \subseteq Instances
  BY ListedType DEF Accounts
<1>2. f.list \in Seq(Instances) /\ Once(f.list) /\ f.no = Len(f.list) /\ f.no \in Nat
  BY <1>1 DEF Factories, Listing
<1>3. w \in Seq(Instances) /\ Range(w) = Range(f.list) \ {i} /\ Once(w)
  BY <1>2, WithoutIs
<1>4. l \in Seq(Instances) /\ Range(l) = Range(f.list) /\ Once(l)
  <2>1. i \in Instances /\ i \notin Range(w) /\ i \in Range(f.list)
    BY <1>1, <1>3 DEF Listed
  <2> HIDE DEF w
  <2>2. l \in Seq(Instances) /\ Range(l) = Range(w) \cup {i} /\ Once(l)
    BY <1>3, <2>1, AppendOnce
  <2> HIDE DEF l
  <2> QED
    BY <1>3, <2>1, <2>2
<1>5. g = [f EXCEPT !.list = l]
  BY <1>1 DEF MovedToEnd, Factories
<1> HIDE DEF w, l
<1>6. g \in Factories /\ g.list = l /\ g.obj = f.obj /\ g.no = f.no /\ g.low = f.low
      /\ g.caching = f.caching
  BY <1>1, <1>4, <1>5 DEF Factories
<1>7. Listed(g) = Listed(f) /\ Listing(g)
  <2>1. Len(l) = Cardinality(Range(l)) /\ Len(f.list) = Cardinality(Range(f.list))
    BY <1>2, <1>4, OnceLen
  <2> QED
    BY <1>2, <1>4, <1>6, <2>1 DEF Listed, Listing
<1>8. Counted(g, n) /\ Apart(g) /\ OwnUsage(g)
  BY <1>6, <1>7 DEF Accounts, Counted, Apart, OwnUsage
<1> QED
  BY <1>1, <1>6, <1>7, <1>8 DEF Accounts

\* A new entry at the end of the list.
Appended(f, i) == [f EXCEPT !.list = Append(@, i), !.no = @ + 1]

LEMMA AppendedAccounts ==
    ASSUME NEW f, NEW n, Accounts(f, n), NEW i \in Instances \ Listed(f),
           f.no + f.low < numberOfTuners,
           NEW g, g = Appended(f, i)
    PROVE  /\ Accounts(g, n)
           /\ Listed(g) = Listed(f) \cup {i} /\ g.obj = f.obj
<1> DEFINE l == Append(f.list, i)
           m == f.no + 1
<1>1. f \in Factories /\ n \in Counts /\ Listing(f) /\ Listed(f) \subseteq Instances
  BY ListedType DEF Accounts
<1>2. f.list \in Seq(Instances) /\ Once(f.list) /\ f.no = Len(f.list) /\ f.no \in Nat /\ f.low \in Nat
  BY <1>1 DEF Factories, Listing
<1>3. l \in Seq(Instances) /\ Range(l) = Range(f.list) \cup {i} /\ Once(l) /\ Len(l) = m
  BY <1>2, AppendOnce, AppendProperties DEF Listed
<1>4. m \in Nat /\ m + f.low <= numberOfTuners
  BY <1>2, FactoryConstants
<1>5. g = [f EXCEPT !.list = l, !.no = m]
  BY <1>1 DEF Appended, Factories
<1> HIDE DEF l, m
<1>6. g \in Factories /\ g.list = l /\ g.obj = f.obj /\ g.no = m /\ g.low = f.low
  BY <1>1, <1>3, <1>4, <1>5 DEF Factories
<1>7. Listed(g) = Listed(f) \cup {i} /\ Listing(g)
  BY <1>3, <1>6 DEF Listed, Listing
<1>8. Counted(g, n) /\ Apart(g) /\ OwnUsage(g)
  <2>0. Blank.uri = None /\ Blank.refcount = 0
    BY DEF Blank
  <2>1. n[i] = 0 /\ f.obj[i].uri = None /\ f.obj[i].refcount = 0
    BY <2>0 DEF Accounts, Counted
  <2> QED
    BY <1>6, <1>7, <2>1 DEF Accounts, Counted, Apart, OwnUsage
<1> QED
  BY <1>1, <1>4, <1>6, <1>7, <1>8 DEF Accounts

\* The entry of a listed instance is rewritten.
Entered(f, i, e) == [f EXCEPT !.obj[i] = e]

\* What is in use is on a service.
Placed(e) == e.uri = None => e.refcount = 0 /\ \A c \in Clients : e.usages[c] = {}

LEMMA EntryAccounts ==
    ASSUME NEW f, NEW n, Accounts(f, n), NEW i \in Listed(f), NEW e \in Entries,
           Placed(e),
           \A c \in Clients : e.usages[c] \subseteq May(c),
           \A j \in Listed(f) : j # i /\ f.obj[j].uri = e.uri => e.uri \in {FreedUri, None},
           NEW m \in Counts, \A j \in Instances : m[j] = IF j = i THEN e.refcount ELSE n[j],
           NEW g, g = Entered(f, i, e)
    PROVE  /\ Accounts(g, m)
           /\ Listed(g) = Listed(f)
           /\ \A j \in Instances : g.obj[j] = IF j = i THEN e ELSE f.obj[j]
           /\ g.no = f.no /\ g.low = f.low /\ g.caching = f.caching
<1>1. f \in Factories /\ n \in Counts /\ Listing(f) /\ Listed(f) \subseteq Instances
  BY ListedType DEF Accounts
<1>2. [f.obj EXCEPT ![i] = e] \in [Instances -> Entries]
  BY <1>1 DEF Factories
<1>3. /\ g \in Factories
      /\ g.list = f.list /\ g.obj = [f.obj EXCEPT ![i] = e]
      /\ g.no = f.no /\ g.low = f.low /\ g.caching = f.caching
  BY <1>1, <1>2 DEF Factories, Entered
<1>4. \A j \in Instances : g.obj[j] = IF j = i THEN e ELSE f.obj[j]
  BY <1>1, <1>3 DEF Factories
<1>5. Listed(g) = Listed(f) /\ Listing(g)
  BY <1>1, <1>3 DEF Listed, Listing
<1>6. Counted(g, m)
  BY <1>1, <1>4, <1>5 DEF Accounts, Counted, Placed
<1>7. Apart(g)
  BY <1>1, <1>4, <1>5 DEF Accounts, Apart
<1>8. OwnUsage(g)
  BY <1>4 DEF Accounts, OwnUsage, Placed
<1> QED
  BY <1>1, <1>3, <1>4, <1>5, <1>6, <1>7, <1>8 DEF Accounts

\* Every non-empty set of numbers has a least element.
LEMMA LeastNumber ==
    ASSUME NEW T, T \subseteq Nat, T # {}
    PROVE  \E x \in T : \A y \in T : x <= y
<1>1. PICK x \in T : \A y \in T : ~ (<<y, x>> \in OpToRel(<, Nat))
  BY NatLessThanWellFounded, WFMin
<1>2. \A y \in T : ~(y < x)
  BY <1>1 DEF OpToRel
<1> QED
  BY <1>2

\* A walk of the list finds an entry if there is one.
LEMMA FirstIs ==
    ASSUME NEW f \in Factories, NEW S
    PROVE  /\ FirstOf(f, S) # None => FirstOf(f, S) \in S \cap Listed(f)
           /\ FirstOf(f, S) = None => S \cap Listed(f) = {}
<1> DEFINE at == {k \in DOMAIN f.list : f.list[k] \in S}
           first == CHOOSE k \in at : \A j \in at : k <= j
<1>1. f.list \in Seq(Instances) /\ at \subseteq Nat /\ at \subseteq DOMAIN f.list
  BY LenProperties DEF Factories
<1>2. FirstOf(f, S) = IF at = {} THEN None ELSE f.list[first]
  BY DEF FirstOf
<1>3. CASE at = {}
  <2>1. S \cap Listed(f) = {}
    BY <1>3 DEF Listed, Range
  <2> QED
    BY <1>2, <1>3, <2>1
<1>4. CASE at # {}
  <2> HIDE DEF at
  <2>1. \E k \in at : \A j \in at : k <= j
    BY <1>1, <1>4, LeastNumber
  <2>2. first \in at
    BY <2>1
  <2> HIDE DEF first
  <2>3. f.list[first] \in S /\ f.list[first] \in Listed(f) /\ f.list[first] \in Instances
    BY <1>1, <2>2 DEF at, Listed, Range
  <2> QED
    BY <1>2, <1>4, <2>3, FactoryConstants
<1> QED
  BY <1>3, <1>4

\* getExistingInstance: what nobody has and cannot be reused is destroyed on the way.
\* When it finds nothing, nothing on the service is left.
LEMMA SweptAccounts ==
    ASSUME NEW f, NEW n, Accounts(f, n), NEW uri, NEW g, g = Swept(f, uri)
    PROVE  /\ Accounts(g, n) /\ Fewer(f, g)
           /\ Listed(g) \subseteq Listed(f)
           /\ \A i \in Listed(g) : g.obj[i] = f.obj[i]
           /\ \A i \in Listed(f) : n[i] > 0 => i \in Listed(g)
           /\ g.no <= f.no /\ g.low = f.low /\ g.caching = f.caching
           /\ Existing(f, uri) = None => \A i \in Listed(g) : g.obj[i].uri # uri
           /\ Existing(f, uri) # None => /\ Existing(f, uri) \in Listed(g)
                                         /\ g.obj[Existing(f, uri)].uri = uri
<1> DEFINE stop == Existing(f, uri)
           before == IF stop = None THEN Listed(f)
                     ELSE {f.list[k] : k \in 1..(SelectInSeq(f.list, LAMBDA x : x = stop) - 1)}
           gone == {i \in before \cap Matching(f, uri) : f.obj[i].refcount = 0 /\ ~f.obj[i].ready}
<1>0. f \in Factories /\ n \in Counts /\ Listing(f) /\ Listed(f) \subseteq Instances
  BY ListedType DEF Accounts
<1>1. g = Unlisted(f, gone)
  BY DEF Swept
<1>2. stop = None => before = Listed(f)
  OBVIOUS
<1>3. /\ stop # None => stop \in Listed(f) /\ f.obj[stop].uri = uri
                        /\ (f.obj[stop].refcount > 0 \/ f.obj[stop].ready)
      /\ stop = None => \A i \in Listed(f) : f.obj[i].uri = uri =>
                            ~(f.obj[i].refcount > 0 \/ f.obj[i].ready)
  BY <1>0, FirstIs DEF Existing, Matching
<1> HIDE DEF before, stop
<1>4. gone \subseteq Listed(f) /\ \A i \in gone : f.obj[i].uri = uri /\ f.obj[i].refcount = 0 /\ ~f.obj[i].ready
  BY DEF Matching
<1>5. stop = None => \A i \in Listed(f) : f.obj[i].uri = uri => i \in gone
  <2>1. \A i \in Listed(f) : f.obj[i].refcount \in Nat
    BY <1>0 DEF Factories, Entries
  <2> QED
    BY <1>2, <1>3, <2>1 DEF Matching
<1> HIDE DEF gone
<1>6. \A i \in gone : n[i] = 0
  BY <1>4 DEF Accounts, Counted
<1>7. Accounts(g, n) /\ Fewer(f, g)
  <2>1. \A i \in Instances : n[i] = IF i \in gone THEN 0 ELSE n[i]
    BY <1>6
  <2> QED
    BY <1>0, <1>1, <1>4, <2>1, UnlistedAccounts
<1>8. /\ g.no <= f.no /\ g.low = f.low /\ g.caching = f.caching
      /\ Listed(g) = Listed(f) \ gone
      /\ \A i \in Instances : g.obj[i] = IF i \in gone THEN Blank ELSE f.obj[i]
  BY <1>0, <1>1, <1>4, UnlistedIs
<1>9. \A i \in Listed(f) : n[i] > 0 => i \in Listed(g)
  BY <1>0, <1>6, <1>8 DEF Counts
<1>10. stop # None => stop \in Listed(g) /\ g.obj[stop].uri = uri
  <2>1. stop # None => stop \notin gone
    BY <1>3, <1>4
  <2> QED
    BY <1>0, <1>3, <1>8, <2>1
<1>11. stop = None => \A i \in Listed(g) : g.obj[i].uri # uri
  BY <1>0, <1>5, <1>8
<1>12. Listed(g) \subseteq Listed(f) /\ \A i \in Listed(g) : g.obj[i] = f.obj[i]
  BY <1>0, <1>8
<1> QED
  BY <1>7, <1>8, <1>9, <1>10, <1>11, <1>12 DEF stop

\* freeQAMSourceInstance, of an instance that is in use.
LEMMA ReleasedAccounts ==
    ASSUME NEW f, NEW n, Accounts(f, n), NEW i \in Listed(f), n[i] > 0,
           NEW m \in Counts, \A j \in Instances : m[j] = IF j = i THEN n[j] - 1 ELSE n[j],
           NEW g, g = Released(f, i)
    PROVE  /\ Accounts(g, m) /\ Fewer(f, g)
           /\ Listed(g) \subseteq Listed(f)
           /\ \A j \in Listed(g) : g.obj[j].uri = f.obj[j].uri
<1> DEFINE o == [f.obj[i] EXCEPT !.refcount = @ - 1]
<1>0. f \in Factories /\ n \in Counts /\ Listing(f) /\ Listed(f) \subseteq Instances
  BY ListedType DEF Accounts
<1>1. f.obj[i] \in Entries /\ f.obj[i].refcount = n[i] /\ n[i] \in Nat /\ f.obj[i].uri # None
  BY <1>0 DEF Accounts, Counted, Factories, Counts
<1>2. /\ o \in Entries /\ o.refcount = n[i] - 1 /\ o.uri = f.obj[i].uri
      /\ o.usages = f.obj[i].usages
  BY <1>1 DEF Entries
<1> HIDE DEF o
<1>3. \/ o.refcount = 0 /\ g = Unlisted(f, {i})
      \/ g = [f EXCEPT !.obj[i] = o]
  BY DEF Released, o
<1>4. CASE o.refcount = 0 /\ g = Unlisted(f, {i})
  <2>1. \A j \in Instances : m[j] = IF j \in {i} THEN 0 ELSE n[j]
    BY <1>2, <1>4
  <2>2. Accounts(g, m) /\ Fewer(f, g)
    BY <1>4, <2>1, UnlistedAccounts
  <2>3. Listed(g) = Listed(f) \ {i} /\ \A j \in Instances : g.obj[j] = IF j \in {i} THEN Blank ELSE f.obj[j]
    BY <1>0, <1>4, UnlistedIs
  <2> QED
    BY <1>0, <2>2, <2>3
<1>5. CASE g = [f EXCEPT !.obj[i] = o]
  <2>0. o \in Entries /\ Placed(o)
    BY <1>1, <1>2 DEF Placed
  <2>1. \A j \in Instances : m[j] = IF j = i THEN o.refcount ELSE n[j]
    BY <1>2
  <2>2. \A c \in Clients : o.usages[c] \subseteq May(c)
    BY <1>0, <1>2 DEF Accounts, OwnUsage
  <2>3. \A j \in Listed(f) : j # i /\ f.obj[j].uri = o.uri => o.uri \in {FreedUri, None}
    BY <1>2 DEF Accounts, Apart
  <2>4. /\ Accounts(g, m) /\ Listed(g) = Listed(f)
        /\ \A j \in Instances : g.obj[j] = IF j = i THEN o ELSE f.obj[j]
    <3>1. g = Entered(f, i, o)
      BY <1>5 DEF Entered
    <3> QED
      BY <2>0, <2>1, <2>2, <2>3, <3>1, EntryAccounts
  <2>5. Fewer(f, g)
    BY <1>2, <2>4 DEF Fewer
  <2> QED
    BY <1>0, <1>2, <2>4, <2>5
<1> QED
  BY <1>3, <1>4, <1>5

\* attachUsage and detachUsage.
LEMMA AttachedIs ==
    ASSUME NEW c \in Clients, NEW o \in Entries, \A d \in Clients : o.usages[d] \subseteq May(d),
           NEW e, e = Attached(o, c)
    PROVE  /\ e \in Entries /\ e.uri = o.uri /\ e.freq = o.freq /\ e.refcount = o.refcount
           /\ \A d \in Clients : e.usages[d] \subseteq May(d)
           /\ \A d \in Clients : d # c => e.usages[d] = o.usages[d]
<1>1. CASE c \in Anonymous
  BY <1>1 DEF Attached
<1>2. CASE c \notin Anonymous
  <2> DEFINE u == [o.usages EXCEPT ![c] = @ \cup {UsageOf(c)}]
  <2>1. o.usages \in [Clients -> SUBSET Usages]
    BY DEF Entries
  <2>2. e = [o EXCEPT !.usages = u]
    BY <1>2 DEF Attached
  <2>3. u \in [Clients -> SUBSET Usages] /\ \A d \in Clients : u[d] \subseteq May(d)
    BY <1>2, <2>1, UsageType DEF May
  <2>4. \A d \in Clients : d # c => u[d] = o.usages[d]
    BY <2>1
  <2> HIDE DEF u
  <2>5. /\ e \in Entries /\ e.uri = o.uri /\ e.freq = o.freq /\ e.refcount = o.refcount
        /\ e.usages = u
    BY <2>2, <2>3 DEF Entries
  <2> QED
    BY <2>3, <2>4, <2>5
<1> QED
  BY <1>1, <1>2

LEMMA DetachedIs ==
    ASSUME NEW c \in Clients, NEW o \in Entries, \A d \in Clients : o.usages[d] \subseteq May(d),
           NEW e, e = Detached(o, c)
    PROVE  /\ e \in Entries /\ e.uri = o.uri /\ e.refcount = o.refcount
           /\ e.usages[c] = {}
           /\ \A d \in Clients : e.usages[d] \subseteq o.usages[d]
<1>1. CASE c \in Anonymous
  BY <1>1 DEF Detached, May
<1>2. CASE c \notin Anonymous
  <2> DEFINE u == [o.usages EXCEPT ![c] = @ \ {UsageOf(c)}]
  <2>1. o.usages \in [Clients -> SUBSET Usages]
    BY DEF Entries
  <2>2. e = [o EXCEPT !.usages = u]
    BY <1>2 DEF Detached
  <2>3. u \in [Clients -> SUBSET Usages] /\ u[c] = {}
    BY <1>2, <2>1 DEF May
  <2>4. \A d \in Clients : u[d] \subseteq o.usages[d]
    BY <2>1
  <2> HIDE DEF u
  <2>5. /\ e \in Entries /\ e.uri = o.uri /\ e.refcount = o.refcount
        /\ e.usages = u
    BY <2>2, <2>3 DEF Entries
  <2> QED
    BY <2>3, <2>4, <2>5
<1> QED
  BY <1>1, <1>2

\* freeQAMSourceInstance, with the token of a client that has the instance.
LEMMA FreeAccounts ==
    ASSUME NEW f, NEW n, Accounts(f, n), NEW i \in Listed(f), n[i] > 0, NEW c \in Clients,
           NEW m \in Counts, \A j \in Instances : m[j] = IF j = i THEN n[j] - 1 ELSE n[j],
           NEW g, g = freeQAMSourceInstance(f, i, c)
    PROVE  /\ Accounts(g, m) /\ Fewer(f, g)
           /\ Listed(g) \subseteq Listed(f)
           /\ \A j \in Listed(g) : g.obj[j].uri = f.obj[j].uri
           /\ g.obj[i].usages[c] = {}
<1>0. f \in Factories /\ n \in Counts /\ Listed(f) \subseteq Instances
  BY ListedType DEF Accounts
<1>1. PICK e : e = Detached(f.obj[i], c)
  OBVIOUS
<1>2. PICK h : h = Entered(f, i, e)
  OBVIOUS
<1>3. g = Released(h, i)
  BY <1>1, <1>2 DEF freeQAMSourceInstance, Entered
<1>4. f.obj[i] \in Entries /\ \A d \in Clients : f.obj[i].usages[d] \subseteq May(d)
  BY <1>0 DEF Accounts, OwnUsage, Factories
<1>5. /\ e \in Entries /\ e.uri = f.obj[i].uri /\ e.refcount = f.obj[i].refcount
      /\ e.usages[c] = {}
      /\ \A d \in Clients : e.usages[d] \subseteq f.obj[i].usages[d]
  BY <1>1, <1>4, DetachedIs
<1>6. f.obj[i].refcount = n[i] /\ f.obj[i].uri # None
  BY DEF Accounts, Counted
<1>7. /\ Accounts(h, n) /\ Listed(h) = Listed(f)
      /\ \A j \in Instances : h.obj[j] = IF j = i THEN e ELSE f.obj[j]
  <2>1. \A j \in Instances : n[j] = IF j = i THEN e.refcount ELSE n[j]
    BY <1>5, <1>6
  <2>2. \A d \in Clients : e.usages[d] \subseteq May(d)
    BY <1>4, <1>5
  <2>3. \A j \in Listed(f) : j # i /\ f.obj[j].uri = e.uri => e.uri \in {FreedUri, None}
    BY <1>5 DEF Accounts, Apart
  <2>4. Placed(e)
    BY <1>5, <1>6 DEF Placed
  <2> QED
    BY <1>0, <1>2, <1>5, <2>1, <2>2, <2>3, <2>4, EntryAccounts
<1>8. /\ Accounts(g, m) /\ Fewer(h, g)
      /\ Listed(g) \subseteq Listed(h)
      /\ \A j \in Listed(g) : g.obj[j].uri = h.obj[j].uri
  BY <1>3, <1>7, ReleasedAccounts
<1>9. Fewer(f, h) /\ h.obj[i].usages[c] = {}
  BY <1>0, <1>5, <1>7 DEF Fewer
<1>10. Fewer(f, g) /\ g.obj[i].usages[c] = {}
  BY <1>0, <1>8, <1>9 DEF Fewer
<1> QED
  BY <1>0, <1>5, <1>7, <1>8, <1>10

-----------------------------------------------------------------------------
(* Who has an instance.                                                    *)

Calls == [pc : {"idle", "get", "preempt", "callback", "recheck", "free"},
          uri : Uris \cup {None}, hold : Instances \cup {None},
          old : Instances \cup {None}, victim : Instances \cup {None},
          told : Clients \cup {None}, short : BOOLEAN]
Typed == client \in [Clients -> Calls] /\ lock \in Clients \cup {NoOne}

\* The references that clients and pre-emptions have to each instance, and those of a
\* client at x.
Refs == [i \in Instances |-> Cardinality(Users(i)) + Cardinality(Preemptors(i))]
Weight(x, i) == (IF x.hold = i \/ x.old = i THEN 1 ELSE 0) + (IF x.victim = i THEN 1 ELSE 0)

\* A call of one client moves only its own references.
LEMMA RefsMove ==
    ASSUME Typed, NEW c \in Clients, NEW x \in Calls, client' = [client EXCEPT ![c] = x]
    PROVE  /\ Refs \in Counts /\ Refs' \in Counts
           /\ \A i \in Instances : /\ Refs[i] >= Weight(client[c], i)
                                   /\ Refs'[i] = Refs[i] - Weight(client[c], i) + Weight(x, i)
<1>0. client \in [Clients -> Calls] /\ IsFiniteSet(Clients)
  BY FactoryConstants DEF Typed
<1>1. ASSUME NEW i \in Instances
      PROVE  /\ Refs[i] \in Nat /\ Refs'[i] \in Nat
             /\ Refs[i] >= Weight(client[c], i)
             /\ Refs'[i] = Refs[i] - Weight(client[c], i) + Weight(x, i)
  <2> DEFINE has(y) == y.hold = i \/ y.old = i
  <2>1. /\ Users(i) \subseteq Clients /\ Preemptors(i) \subseteq Clients
        /\ c \in Users(i) <=> has(client[c])
        /\ c \in Preemptors(i) <=> client[c].victim = i
    BY DEF Users, Preemptors
  <2>2. Users(i)' = IF has(x) THEN Users(i) \cup {c} ELSE Users(i) \ {c}
    BY <1>0 DEF Users
  <2>3. Preemptors(i)' = IF x.victim = i THEN Preemptors(i) \cup {c} ELSE Preemptors(i) \ {c}
    BY <1>0 DEF Preemptors
  <2>4. PICK U, P, V, Q : U = Users(i) /\ P = Preemptors(i) /\ V = Users(i)' /\ Q = Preemptors(i)'
    OBVIOUS
  <2>5. IsFiniteSet(U) /\ IsFiniteSet(P)
    BY <1>0, <2>1, <2>4, FS_Subset
  <2>6. /\ Cardinality(U) \in Nat /\ Cardinality(P) \in Nat
        /\ U # {} => Cardinality(U) # 0
        /\ P # {} => Cardinality(P) # 0
    BY <2>5, FS_CardinalityType, FS_EmptySet
  <2>7. /\ Cardinality(U \cup {c}) = IF c \in U THEN Cardinality(U) ELSE Cardinality(U) + 1
        /\ Cardinality(U \ {c}) = IF c \in U THEN Cardinality(U) - 1 ELSE Cardinality(U)
        /\ Cardinality(P \cup {c}) = IF c \in P THEN Cardinality(P) ELSE Cardinality(P) + 1
        /\ Cardinality(P \ {c}) = IF c \in P THEN Cardinality(P) - 1 ELSE Cardinality(P)
    BY <2>5, FS_AddElement, FS_RemoveElement
  <2>8. PICK u \in Nat, p \in Nat : u = Cardinality(U) /\ p = Cardinality(P)
    BY <2>6
  <2> DEFINE hu == IF c \in U THEN 1 ELSE 0
             hp == IF c \in P THEN 1 ELSE 0
             nu == IF has(x) THEN 1 ELSE 0
             np == IF x.victim = i THEN 1 ELSE 0
  <2>9. Cardinality(V) = u - hu + nu /\ u >= hu
    BY <2>2, <2>4, <2>6, <2>7, <2>8
  <2>10. Cardinality(Q) = p - hp + np /\ p >= hp
    BY <2>3, <2>4, <2>6, <2>7, <2>8
  <2>11. Weight(client[c], i) = hu + hp /\ Weight(x, i) = nu + np
    BY <2>1, <2>4 DEF Weight
  <2>12. Refs[i] = u + p /\ Refs'[i] = Cardinality(V) + Cardinality(Q)
    BY <2>4, <2>8 DEF Refs
  <2>13. hu \in {0, 1} /\ hp \in {0, 1} /\ nu \in {0, 1} /\ np \in {0, 1}
    OBVIOUS
  <2> HIDE DEF hu, hp, nu, np
  <2> QED
    BY <2>8, <2>9, <2>10, <2>11, <2>12, <2>13
<1>2. Refs \in Counts
  BY <1>1 DEF Refs, Counts
<1>3. Refs' \in Counts
  BY <1>1 DEF Refs, Counts
<1> QED
  BY <1>1, <1>2, <1>3

LEMMA HasSome ==
    ASSUME NEW U, NEW P, U \subseteq Clients, P \subseteq Clients, U \cup P # {}
    PROVE  Cardinality(U) + Cardinality(P) > 0
<1>1. IsFiniteSet(U) /\ IsFiniteSet(P)
  BY FactoryConstants, FS_Subset
<1>2. /\ Cardinality(U) \in Nat /\ Cardinality(P) \in Nat
      /\ U # {} => Cardinality(U) # 0
      /\ P # {} => Cardinality(P) # 0
  BY <1>1, FS_CardinalityType, FS_EmptySet
<1> QED
  BY <1>2

\* What a client has or pre-empts is referred to.
LEMMA Held ==
    ASSUME NEW d \in Clients, NEW i \in Instances
    PROVE  /\ i \in {client[d].hold, client[d].old, client[d].victim} => Refs[i] > 0
           /\ i \in {client'[d].hold, client'[d].old, client'[d].victim} => Refs'[i] > 0
<1>1. ASSUME i \in {client[d].hold, client[d].old, client[d].victim}
      PROVE  Refs[i] > 0
  <2>1. /\ Users(i) \subseteq Clients /\ Preemptors(i) \subseteq Clients
        /\ d \in Users(i) \cup Preemptors(i)
    BY <1>1 DEF Users, Preemptors
  <2> QED
    BY <2>1, HasSome DEF Refs
<1>2. ASSUME i \in {client'[d].hold, client'[d].old, client'[d].victim}
      PROVE  Refs'[i] > 0
  <2>1. /\ Users(i)' \subseteq Clients /\ Preemptors(i)' \subseteq Clients
        /\ d \in Users(i)' \cup Preemptors(i)'
    BY <1>2 DEF Users, Preemptors
  <2> QED
    BY <2>1, HasSome DEF Refs
<1> QED
  BY <1>1, <1>2

-----------------------------------------------------------------------------
(* The inductive invariant.                                                *)

\* What a client's record says about its call.
CallShape(x) ==
    /\ x.pc = "idle" => x.old = None
    /\ x.pc \in {"get", "preempt", "callback", "recheck"} => x.uri \in Uris /\ x.hold = x.old
    /\ x.victim # None <=> x.pc = "callback"
    /\ x.pc = "free" => x.old # None /\ x.hold # x.old

\* As long as changeURI has the instance it will replace, it has the mutex, and looks
\* for another service than that instance's.
Replaces(c) ==
    client[c].old # None /\ client[c].pc # "free" =>
        lock = c /\ factory.obj[client[c].old].uri # client[c].uri

Inv ==
    /\ Typed
    /\ Accounts(factory, Refs)
    /\ \A c \in Clients : CallShape(client[c]) /\ Replaces(c)

SameUris(f, g) == \A i \in Listed(g) : g.obj[i].uri = f.obj[i].uri

\* What has references is listed.
LEMMA ReferredListed ==
    ASSUME NEW f, NEW n, Accounts(f, n), NEW i \in Instances, n[i] > 0
    PROVE  i \in Listed(f)
<1>1. n[i] \in Nat /\ (i \notin Listed(f) => n[i] = 0)
  BY DEF Accounts, Counted, Counts
<1> QED
  BY <1>1

\* A step of client c: the accounts follow its references, and the client whose
\* changeURI has the mutex finds its instance as it was.
Moves(c, x) == client' = [client EXCEPT ![c] = x]
Balances(c, x, m) == \A i \in Instances : m[i] = Refs[i] - Weight(client[c], i) + Weight(x, i)
KeepsMutex(c) ==
    /\ lock' \in Clients \cup {NoOne}
    /\ \A d \in Clients : d # c /\ lock = d => lock' = lock /\ SameUris(factory, factory')
MayReplace(c, x) == x.old # None /\ x.pc # "free" => lock' = c /\ factory'.obj[x.old].uri # x.uri

LEMMA OwnStep ==
    ASSUME Inv, NEW c \in Clients, NEW x \in Calls, Moves(c, x), CallShape(x),
           NEW m, Accounts(factory', m), Balances(c, x, m),
           KeepsMutex(c), MayReplace(c, x)
    PROVE  Inv'
<1> USE DEF Moves
<1>1. Typed /\ client \in [Clients -> Calls]
  BY DEF Inv, Typed
<1>2. Typed'
  BY <1>1 DEF Typed, KeepsMutex
<1>3. Refs' \in Counts /\ \A i \in Instances : Refs'[i] = m[i]
  BY <1>1, RefsMove DEF Balances
<1>4. Accounts(factory', Refs')
  <2>1. Refs' = m
    BY <1>3 DEF Accounts, Counts
  <2> QED
    BY <2>1
<1>5. ASSUME NEW d \in Clients
      PROVE  CallShape(client'[d]) /\ Replaces(d)'
  <2>1. CASE d = c
    BY <1>1, <2>1 DEF Replaces, MayReplace
  <2>2. CASE d # c
    <3>1. client'[d] = client[d] /\ CallShape(client[d]) /\ Replaces(d)
      BY <1>1, <2>2 DEF Inv
    <3>2. ASSUME client[d].old # None, client[d].pc # "free"
          PROVE  lock' = d /\ factory'.obj[client[d].old].uri # client[d].uri
      <4>1. lock = d /\ factory.obj[client[d].old].uri # client[d].uri
        BY <3>1, <3>2 DEF Replaces
      <4>2. client[d].old \in Instances
        BY <1>1, <3>2 DEF Calls
      <4>3. Refs'[client[d].old] > 0
        BY <3>1, <4>2, Held
      <4>4. client[d].old \in Listed(factory')
        BY <1>4, <4>2, <4>3, ReferredListed
      <4> QED
        BY <2>2, <4>1, <4>4 DEF SameUris, KeepsMutex
    <3> QED
      BY <3>1, <3>2 DEF Replaces
  <2> QED
    BY <2>1, <2>2
<1> QED
  BY <1>2, <1>4, <1>5 DEF Inv

\* The facts about client c that every step of its call uses.
LEMMA InCall ==
    ASSUME Inv, NEW c \in Clients
    PROVE  /\ client[c] \in Calls /\ CallShape(client[c]) /\ Replaces(c)
           /\ Refs \in Counts /\ Accounts(factory, Refs)
           /\ \A i \in Instances : Refs[i] \in Nat
           /\ client[c].hold \in Instances => client[c].hold \in Listed(factory)
           /\ client[c].old \in Instances => client[c].old \in Listed(factory)
           /\ client[c].victim \in Instances => client[c].victim \in Listed(factory)
           /\ lock \in Clients \cup {NoOne}
<1>1. Typed /\ Accounts(factory, Refs) /\ CallShape(client[c]) /\ Replaces(c)
  BY DEF Inv
<1>2. client[c] \in Calls /\ Refs \in Counts /\ lock \in Clients \cup {NoOne}
  BY <1>1 DEF Typed, Accounts
<1>3. \A i \in Instances : i \in {client[c].hold, client[c].old, client[c].victim} => i \in Listed(factory)
  BY <1>1, Held, ReferredListed
<1> QED
  BY <1>1, <1>2, <1>3 DEF Counts

LEMMA AtType ==
    ASSUME NEW pc \in {"idle", "get", "free"}, NEW uri \in Uris \cup {None},
           NEW hold \in Instances \cup {None}, NEW old \in Instances \cup {None},
           NEW x, x = At(pc, uri, hold, old)
    PROVE  /\ x \in Calls
           /\ x.pc = pc /\ x.uri = uri /\ x.hold = hold /\ x.old = old
           /\ x.victim = None
BY DEF At, Calls

LEMMA UnlockType ==
    ASSUME NEW c \in Clients, lock \in Clients \cup {NoOne}, Unlocks(c)
    PROVE  /\ lock' \in Clients \cup {NoOne}
           /\ \A d \in Clients : d # c /\ lock = d => lock' = lock
           /\ lock' # c
BY FactoryConstants DEF Unlocks

\* freeWithoutToken, of an instance that is in use.
LEMMA FreeWithoutToken ==
    ASSUME NEW f, NEW n, Accounts(f, n), NEW i \in Instances, n[i] > 0,
           NEW m \in Counts, \A j \in Instances : m[j] = IF j = i THEN n[j] - 1 ELSE n[j],
           NEW g, g = freeWithoutToken(f, i)
    PROVE  Accounts(g, m) /\ Fewer(f, g) /\ Listed(g) \subseteq Listed(f) /\ SameUris(f, g)
<1>1. i \in Listed(f)
  BY ReferredListed
<1>2. g = Released(f, i)
  BY <1>1 DEF freeWithoutToken
<1> QED
  BY <1>1, <1>2, ReleasedAccounts DEF SameUris

-----------------------------------------------------------------------------
(* getQAMSourceInstance.                                                   *)

\* The call returns an instance, which c has now; changeURI frees the one it replaces.
LEMMA GrantedInv ==
    ASSUME Inv, NEW c \in Clients, client[c].pc = "get", LockFree(c),
           NEW f, NEW i \in Listed(f), i # client[c].old,
           NEW k, Accounts(f, k), \A j \in Instances : k[j] = IF j = i THEN Refs[j] + 1 ELSE Refs[j],
           Granted(c, f, i)
    PROVE  Inv'
<1>0. /\ client[c] \in Calls /\ CallShape(client[c]) /\ Refs \in Counts
      /\ \A j \in Instances : Refs[j] \in Nat
      /\ lock \in Clients \cup {NoOne}
  BY InCall
<1>1. PICK old : old = client[c].old
  OBVIOUS
<1>2. /\ old \in Instances \cup {None} /\ client[c].hold = old /\ client[c].victim = None
      /\ i \in Instances /\ i # old /\ None \notin Instances
  BY <1>0, <1>1, ListedType, FactoryConstants DEF Calls, CallShape, Accounts
<1>3. KeepsMutex(c)
  <2>1. Unlocks(c)
    BY DEF Granted
  <2> QED
    BY <1>0, <2>1, UnlockType, FactoryConstants DEF LockFree, KeepsMutex
<1>4. CASE old # None /\ client[c].short
  <2>1. PICK x : x = At("free", None, i, old)
    OBVIOUS
  <2>2. factory' = f /\ Moves(c, x)
    BY <1>1, <1>4, <2>1 DEF Granted, Moves
  <2>3. /\ x \in Calls /\ x.pc = "free" /\ x.uri = None /\ x.hold = i /\ x.old = old
        /\ x.victim = None
    BY <1>2, <2>1, AtType
  <2>4. CallShape(x) /\ MayReplace(c, x)
    BY <1>2, <1>4, <2>3 DEF CallShape, MayReplace
  <2>5. Balances(c, x, k)
    BY <1>0, <1>1, <1>2, <1>4, <2>3 DEF Weight, Balances
  <2>6. Accounts(factory', k)
    BY <2>2
  <2> QED
    BY <1>3, <2>2, <2>3, <2>4, <2>5, <2>6, OwnStep
<1>5. CASE ~(old # None /\ client[c].short)
  <2>1. PICK x : x = Idle(i)
    OBVIOUS
  <2>2. /\ factory' = IF old = None THEN f ELSE freeWithoutToken(f, old)
        /\ Moves(c, x)
    BY <1>1, <1>5, <2>1 DEF Granted, Moves
  <2>3. /\ x \in Calls /\ x.pc = "idle" /\ x.hold = i /\ x.old = None
        /\ x.victim = None
    BY <1>2, <2>1, AtType DEF Idle
  <2>4. CallShape(x) /\ MayReplace(c, x)
    BY <2>3 DEF CallShape, MayReplace
  <2>5. PICK m : m = [j \in Instances |-> IF j = old THEN k[j] - 1 ELSE k[j]]
    OBVIOUS
  <2>6. old # None => old \in Instances /\ Refs[old] > 0 /\ k[old] > 0
    <3>1. old # None => old \in Instances /\ Refs[old] > 0
      BY <1>1, <1>2, Held
    <3> QED
      BY <1>2, <3>1
  <2>7. m \in Counts
    <3>1. \A j \in Instances : k[j] \in Nat
      BY DEF Accounts, Counts
    <3>2. \A j \in Instances : m[j] = (IF j = old THEN k[j] - 1 ELSE k[j]) /\ m[j] \in Nat
      BY <1>2, <2>5, <2>6, <3>1
    <3> QED
      BY <2>5, <3>2 DEF Counts
  <2>8. Accounts(factory', m)
    <3>1. CASE old = None
      <4>1. m = k
        BY <1>2, <2>5, <3>1 DEF Accounts, Counts
      <4> QED
        BY <2>2, <3>1, <4>1
    <3>2. CASE old # None
      <4>1. \A j \in Instances : m[j] = IF j = old THEN k[j] - 1 ELSE k[j]
        BY <2>5
      <4> QED
        BY <2>2, <2>6, <2>7, <3>2, <4>1, FreeWithoutToken
    <3> QED
      BY <3>1, <3>2
  <2>9. Balances(c, x, m)
    <3> SUFFICES ASSUME NEW j \in Instances
                 PROVE  m[j] = Refs[j] - Weight(client[c], j) + Weight(x, j)
      BY DEF Balances
    <3>1. /\ Weight(client[c], j) = IF j = old THEN 1 ELSE 0
          /\ Weight(x, j) = IF j = i THEN 1 ELSE 0
      BY <1>1, <1>2, <2>3 DEF Weight
    <3>2. m[j] = IF j = old THEN k[j] - 1 ELSE k[j]
      BY <2>5
    <3> QED
      BY <1>0, <1>2, <3>1, <3>2
  <2> QED
    BY <1>3, <2>2, <2>3, <2>4, <2>8, <2>9, OwnStep
<1> QED
  BY <1>4, <1>5

\* The call returns NULL; changeURI keeps what it had, and a pre-emption is over.
LEMMA RefusedInv ==
    ASSUME Inv, NEW c \in Clients, client[c].pc \in {"get", "preempt", "callback", "recheck"},
           NEW f, f = factory \/ LockFree(c),
           NEW k, Accounts(f, k),
           \A j \in Instances : k[j] = Refs[j] - (IF client[c].victim = j THEN 1 ELSE 0),
           Refused(c, f)
    PROVE  Inv'
<1>0. /\ client[c] \in Calls /\ CallShape(client[c]) /\ Refs \in Counts
      /\ \A j \in Instances : Refs[j] \in Nat
      /\ lock \in Clients \cup {NoOne}
  BY InCall
<1>1. PICK x : x = Idle(client[c].old)
  OBVIOUS
<1>2. client[c].old \in Instances \cup {None} /\ client[c].hold = client[c].old
  BY <1>0 DEF Calls, CallShape
<1>3. x \in Calls /\ x.pc = "idle" /\ x.hold = client[c].old /\ x.old = None /\ x.victim = None
  BY <1>1, <1>2, AtType DEF Idle
<1>4. CallShape(x) /\ MayReplace(c, x)
  BY <1>3 DEF CallShape, MayReplace
<1>5. factory' = f /\ Moves(c, x) /\ Unlocks(c)
  BY <1>1 DEF Refused, Moves
<1>6. KeepsMutex(c)
  BY <1>0, <1>5, UnlockType, FactoryConstants DEF LockFree, SameUris, KeepsMutex
<1>7. Balances(c, x, k)
  <2> SUFFICES ASSUME NEW j \in Instances
               PROVE  k[j] = Refs[j] - Weight(client[c], j) + Weight(x, j)
    BY DEF Balances
  <2>1. PICK h \in {0, 1}, v \in {0, 1} : /\ h = IF j = client[c].old THEN 1 ELSE 0
                                          /\ v = IF client[c].victim = j THEN 1 ELSE 0
    OBVIOUS
  <2>2. Weight(client[c], j) = h + v /\ Weight(x, j) = h
    BY <1>2, <1>3, <2>1, FactoryConstants DEF Weight
  <2>3. k[j] = Refs[j] - v
    BY <2>1
  <2> QED
    BY <1>0, <2>2, <2>3
<1>8. Accounts(factory', k)
  BY <1>5
<1> QED
  BY <1>3, <1>4, <1>5, <1>6, <1>7, <1>8, OwnStep

LEMMA UsingIs ==
    ASSUME NEW c \in Clients, NEW o \in Entries, \A d \in Clients : o.usages[d] \subseteq May(d),
           NEW e, e = Using(c, o)
    PROVE  /\ e \in Entries /\ e.uri = o.uri /\ e.freq = o.freq /\ e.refcount = o.refcount
           /\ \A d \in Clients : e.usages[d] \subseteq May(d)
           /\ \A d \in Clients : d # c => e.usages[d] = o.usages[d]
BY AttachedIs DEF Using

\* open(), on an instance nobody has, when no instance is on the service.
LEMMA OpenedInv ==
    ASSUME Inv, NEW c \in Clients, client[c].pc = "get", LockFree(c),
           NEW f, Accounts(f, Refs), NEW i \in Listed(f), Refs[i] = 0,
           \A j \in Listed(f) : j # i => f.obj[j].uri # client[c].uri,
           Opened(c, f, i)
    PROVE  Inv'
<1>0. /\ client[c] \in Calls /\ CallShape(client[c]) /\ Refs \in Counts
      /\ \A j \in Instances : Refs[j] \in Nat
  BY InCall
<1>1. f \in Factories /\ i \in Instances /\ client[c].uri \in Uris /\ client[c].victim = None
  BY <1>0, ListedType DEF Accounts, CallShape
<1>2. ASSUME NEW ready \in BOOLEAN,
             Granted(c, [f EXCEPT !.obj[i] = Using(c, [@ EXCEPT
                        !.uri = client[c].uri, !.freq = Frequency[client[c].uri],
                        !.refcount = 1, !.ready = ready])], i)
      PROVE  Inv'
  <2>1. PICK o : o = [f.obj[i] EXCEPT !.uri = client[c].uri, !.freq = Frequency[client[c].uri],
                                      !.refcount = 1, !.ready = ready]
    OBVIOUS
  <2>2. PICK e : e = Using(c, o)
    OBVIOUS
  <2>3. PICK h : h = Entered(f, i, e)
    OBVIOUS
  <2>4. Granted(c, h, i)
    BY <1>2, <2>1, <2>2, <2>3 DEF Entered
  <2>5. f.obj[i] \in Entries /\ \A d \in Clients : f.obj[i].usages[d] \subseteq May(d)
    BY <1>1 DEF Accounts, OwnUsage, Factories
  <2>6. client[c].uri \in Uris /\ Frequency[client[c].uri] \in Nat /\ client[c].uri \notin {None, FreedUri}
    BY <1>1, FactoryConstants
  <2>7. o \in Entries /\ o.uri = client[c].uri /\ o.refcount = 1 /\ o.usages = f.obj[i].usages
    BY <2>1, <2>5, <2>6 DEF Entries
  <2>8. e \in Entries /\ e.uri = client[c].uri /\ e.refcount = 1 /\ \A d \in Clients : e.usages[d] \subseteq May(d)
    BY <2>2, <2>5, <2>7, UsingIs
  <2>9. PICK k : k = [j \in Instances |-> IF j = i THEN 1 ELSE Refs[j]]
    OBVIOUS
  <2>10. k \in Counts /\ \A j \in Instances : k[j] = IF j = i THEN e.refcount ELSE Refs[j]
    BY <1>0, <2>8, <2>9 DEF Counts
  <2>11. Accounts(h, k) /\ Listed(h) = Listed(f)
    <3>1. \A j \in Listed(f) : j # i /\ f.obj[j].uri = e.uri => e.uri \in {FreedUri, None}
      BY <2>8
    <3>2. Placed(e)
      BY <2>6, <2>8 DEF Placed
    <3> QED
      BY <2>3, <2>8, <2>10, <3>1, <3>2, EntryAccounts
  <2>12. \A j \in Instances : k[j] = IF j = i THEN Refs[j] + 1 ELSE Refs[j]
    BY <2>8, <2>10
  <2>13. i # client[c].old
    BY <1>1, Held
  <2> QED
    BY <2>4, <2>11, <2>12, <2>13, GrantedInv
<1>3. CASE Refused(c, Unlisted(f, {i}))
  <2>1. PICK g : g = Unlisted(f, {i})
    OBVIOUS
  <2>2. Accounts(g, Refs)
    <3>1. \A j \in Instances : Refs[j] = IF j \in {i} THEN 0 ELSE Refs[j]
      OBVIOUS
    <3> QED
      BY <1>0, <2>1, <3>1, UnlistedAccounts
  <2>3. Refused(c, g)
    BY <1>3, <2>1
  <2>4. \A j \in Instances : Refs[j] = Refs[j] - (IF client[c].victim = j THEN 1 ELSE 0)
    BY <1>0, <1>1, FactoryConstants
  <2> QED
    BY <2>2, <2>3, <2>4, RefusedInv
<1> QED
  BY <1>2, <1>3 DEF Opened

\* A call that goes on: the client moves to x, which has the same references but for a
\* pre-emption that is over.
LEMMA GoesOn ==
    ASSUME Inv, NEW c \in Clients, client[c].pc \in {"get", "preempt", "callback", "recheck"},
           NEW f, f = factory \/ LockFree(c), SameUris(factory, f),
           NEW k, Accounts(f, k),
           \A j \in Instances : k[j] = Refs[j] - (IF client[c].victim = j THEN 1 ELSE 0),
           NEW x \in Calls, x.pc \in {"get", "preempt", "recheck"}, x.uri = client[c].uri,
           x.hold = client[c].hold, x.old = client[c].old, x.victim = None,
           Moves(c, x), factory' = f, lock' = lock \/ (lock' = c /\ LockFree(c))
    PROVE  Inv'
<1>0. /\ client[c] \in Calls /\ CallShape(client[c]) /\ Replaces(c) /\ Refs \in Counts
      /\ \A j \in Instances : Refs[j] \in Nat
      /\ lock \in Clients \cup {NoOne}
  BY InCall
<1>1. CallShape(x) /\ x.pc # "free" /\ client[c].pc # "free"
  BY <1>0 DEF CallShape
<1>2. KeepsMutex(c)
  BY <1>0, FactoryConstants DEF LockFree, KeepsMutex, SameUris
<1>3. Balances(c, x, k)
  <2> SUFFICES ASSUME NEW j \in Instances
               PROVE  k[j] = Refs[j] - Weight(client[c], j) + Weight(x, j)
    BY DEF Balances
  <2>1. PICK h \in {0, 1}, v \in {0, 1} : /\ h = IF client[c].hold = j \/ client[c].old = j THEN 1 ELSE 0
                                          /\ v = IF client[c].victim = j THEN 1 ELSE 0
    OBVIOUS
  <2>2. Weight(client[c], j) = h + v /\ Weight(x, j) = h
    BY <2>1, FactoryConstants DEF Weight
  <2>3. k[j] = Refs[j] - v
    BY <2>1
  <2> QED
    BY <1>0, <2>2, <2>3
<1>4. MayReplace(c, x)
  <2> SUFFICES ASSUME x.old # None
               PROVE  lock' = c /\ factory'.obj[x.old].uri # x.uri
    BY DEF MayReplace
  <2>1. lock = c /\ factory.obj[x.old].uri # x.uri /\ x.old \in Instances
    BY <1>0, <1>1 DEF Replaces, Calls
  <2>2. x.old \in Listed(f)
    <3>1. PICK h \in {0, 1} : h = IF client[c].victim = x.old THEN 1 ELSE 0
      OBVIOUS
    <3>2. Weight(client[c], x.old) = 1 + h
      BY <3>1 DEF Weight
    <3>3. Refs[x.old] >= Weight(client[c], x.old)
      BY <1>0, <2>1, RefsMove DEF Inv, Moves
    <3>4. k[x.old] = Refs[x.old] - h
      BY <2>1, <3>1
    <3>5. k[x.old] > 0
      BY <1>0, <2>1, <3>1, <3>2, <3>3, <3>4
    <3> QED
      BY <2>1, <3>5, ReferredListed
  <2> QED
    BY <2>1, <2>2 DEF SameUris
<1>5. Accounts(factory', k)
  OBVIOUS
<1> QED
  BY <1>1, <1>2, <1>3, <1>4, <1>5, OwnStep

\* An instance on the service is found: the call shares it.
LEMMA FoundInv ==
    ASSUME Inv, NEW c \in Clients, client[c].pc = "get", LockFree(c),
           NEW f, f = Swept(factory, client[c].uri),
           NEW found, found = Existing(factory, client[c].uri), found # None,
           Granted(c, MovedToEnd([f EXCEPT !.obj[found] = Shared(c, @)], found), found)
    PROVE  Inv'
<1>0. /\ client[c] \in Calls /\ CallShape(client[c]) /\ Replaces(c) /\ Refs \in Counts
      /\ Accounts(factory, Refs)
      /\ \A j \in Instances : Refs[j] \in Nat
  BY InCall
<1>1. /\ Accounts(f, Refs) /\ found \in Listed(f) /\ f.obj[found].uri = client[c].uri
      /\ \A j \in Listed(f) : f.obj[j] = factory.obj[j]
  BY <1>0, SweptAccounts
<1>2. f \in Factories /\ found \in Instances /\ client[c].uri \in Uris /\ client[c].uri # None
  BY <1>0, <1>1, ListedType, FactoryConstants DEF Accounts, CallShape
<1>3. PICK o : o = [f.obj[found] EXCEPT !.refcount = @ + 1]
  OBVIOUS
<1>4. PICK e : e = Using(c, o)
  OBVIOUS
<1>5. PICK h : h = Entered(f, found, e)
  OBVIOUS
<1>6. PICK g : g = MovedToEnd(h, found)
  OBVIOUS
<1>7. Granted(c, g, found)
  BY <1>3, <1>4, <1>5, <1>6, ZenonT(60) DEF Entered, Shared
<1>8. /\ f.obj[found] \in Entries /\ \A d \in Clients : f.obj[found].usages[d] \subseteq May(d)
      /\ f.obj[found].refcount = Refs[found]
  BY <1>1, <1>2, ZenonT(60) DEF Accounts, OwnUsage, Factories, Counted
<1>9. /\ o \in Entries /\ o.uri = client[c].uri /\ o.refcount = Refs[found] + 1
      /\ o.usages = f.obj[found].usages
  <2>1. PICK b \in Entries : b = f.obj[found]
    BY <1>8
  <2>2. PICK r \in Nat : r = Refs[found]
    BY <1>0, <1>2, SMTT(30)
  <2>3. o = [b EXCEPT !.refcount = r + 1] /\ b.uri = client[c].uri
    BY <1>1, <1>3, <1>8, <2>1, <2>2 DEF Entries
  <2>4. o \in Entries /\ o.uri = b.uri /\ o.refcount = r + 1 /\ o.usages = b.usages
    BY <2>3 DEF Entries
  <2> QED
    BY <2>1, <2>2, <2>3, <2>4
<1>10. /\ e \in Entries /\ e.uri = client[c].uri /\ e.refcount = Refs[found] + 1
       /\ \A d \in Clients : e.usages[d] \subseteq May(d)
  BY <1>4, <1>8, <1>9, UsingIs
<1>11. PICK k : k = [j \in Instances |-> IF j = found THEN Refs[j] + 1 ELSE Refs[j]]
  OBVIOUS
<1>12. /\ k \in Counts
       /\ \A j \in Instances : k[j] = IF j = found THEN Refs[j] + 1 ELSE Refs[j]
  BY <1>0, <1>11 DEF Counts
<1>13. Accounts(h, k) /\ Listed(h) = Listed(f)
  <2>1. \A j \in Listed(f) : j # found /\ f.obj[j].uri = e.uri => e.uri \in {FreedUri, None}
    BY <1>1, <1>10 DEF Accounts, Apart
  <2>2. Placed(e)
    BY <1>2, <1>10 DEF Placed
  <2>3. \A j \in Instances : k[j] = IF j = found THEN e.refcount ELSE Refs[j]
    BY <1>10, <1>12
  <2> QED
    BY <1>1, <1>5, <1>10, <1>12, <2>1, <2>2, <2>3, EntryAccounts, SMTT(30)
<1>14. Accounts(g, k) /\ found \in Listed(g)
  BY <1>1, <1>6, <1>13, MovedAccounts
<1>15. found # client[c].old
  BY <1>0, <1>1, <1>2, FactoryConstants DEF Replaces
<1> QED
  BY <1>7, <1>12, <1>14, <1>15, GrantedInv

\* The instance to retune is one that nobody has.
LEMMA ReusableIs ==
    ASSUME NEW f, NEW n, Accounts(f, n), NEW uri, NEW used,
           NEW i, i = Reusable(f, uri, used), i # None
    PROVE  i \in Listed(f) /\ n[i] = 0
<1>1. f \in Factories
  BY DEF Accounts
<1>2. i \in Unused(f)
  BY <1>1, FirstIs DEF Reusable
<1> QED
  BY <1>2 DEF Unused, Accounts, Counted

LEMMA getQAMSourceInstanceInv ==
    ASSUME Inv, NEW c \in Clients, getQAMSourceInstance(c)
    PROVE  Inv'
<1>0. /\ client[c] \in Calls /\ CallShape(client[c]) /\ Refs \in Counts
      /\ Accounts(factory, Refs)
      /\ \A j \in Instances : Refs[j] \in Nat
  BY InCall
<1>1. PICK uri, used, f, found, cached :
         /\ uri = client[c].uri /\ used = factory.no + factory.low
         /\ f = Swept(factory, uri)
         /\ found = Existing(factory, uri) /\ cached = Reusable(f, uri, used)
  OBVIOUS
<1>2. client[c].pc = "get" /\ LockFree(c) /\ client[c].victim = None
  BY <1>0 DEF getQAMSourceInstance, CallShape
<1>3. /\ Accounts(f, Refs)
      /\ f.no <= factory.no /\ f.low = factory.low
      /\ \A i \in Listed(f) : f.obj[i] = factory.obj[i]
      /\ found = None => \A i \in Listed(f) : f.obj[i].uri # uri
  BY <1>0, <1>1, SweptAccounts
<1>4. \A j \in Instances : Refs[j] = Refs[j] - (IF client[c].victim = j THEN 1 ELSE 0)
  BY <1>0, <1>2, FactoryConstants
<1>5. CASE found # None
  BY <1>1, <1>2, <1>5, FoundInv DEF getQAMSourceInstance
<1>6. CASE found = None /\ Refused(c, f)
  BY <1>2, <1>3, <1>4, <1>6, RefusedInv
<1>7. CASE found = None /\ cached # None /\ Opened(c, MovedToEnd(f, cached), cached)
  <2>1. PICK g : g = MovedToEnd(f, cached)
    OBVIOUS
  <2>2. cached \in Listed(f) /\ Refs[cached] = 0
    BY <1>1, <1>3, <1>7, ReusableIs
  <2>3. Accounts(g, Refs) /\ Listed(g) = Listed(f) /\ g.obj = f.obj
    BY <1>3, <2>1, <2>2, MovedAccounts
  <2>4. Opened(c, g, cached) /\ cached \in Listed(g)
    BY <1>7, <2>1, <2>2, <2>3
  <2>5. \A j \in Listed(g) : j # cached => g.obj[j].uri # client[c].uri
    BY <1>1, <1>3, <1>7, <2>3
  <2> QED
    BY <1>2, <2>2, <2>3, <2>4, <2>5, OpenedInv
<1>8. CASE /\ factory' = f
           /\ client' = [client EXCEPT ![c].pc = "preempt"]
           /\ UNCHANGED lock
  <2>1. PICK x : x = [client[c] EXCEPT !.pc = "preempt"]
    OBVIOUS
  <2>2. /\ x \in Calls /\ x.pc = "preempt" /\ x.uri = client[c].uri
        /\ x.hold = client[c].hold /\ x.old = client[c].old /\ x.victim = None
    BY <1>0, <1>2, <2>1 DEF Calls
  <2>3. Moves(c, x)
    BY <1>8, <2>1 DEF Moves
  <2>4. SameUris(factory, f)
    BY <1>3 DEF SameUris
  <2>5. factory' = f /\ lock' = lock
    BY <1>8
  <2> QED
    BY <1>2, <1>3, <1>4, <2>2, <2>3, <2>4, <2>5, GoesOn
<1>9. ASSUME found = None, used # numberOfTuners, NEW i \in Instances \ Listed(f),
             Opened(c, [f EXCEPT !.list = Append(@, i), !.no = @ + 1], i)
      PROVE  Inv'
  <2>1. PICK g : g = Appended(f, i)
    OBVIOUS
  <2>2. f.no + f.low < numberOfTuners
    <3>1. /\ factory.no + factory.low <= numberOfTuners
          /\ factory.no \in Nat /\ factory.low \in Nat /\ f.no \in Nat
      BY <1>0, <1>3 DEF Accounts, Factories
    <3> QED
      BY <1>1, <1>3, <1>9, <3>1, FactoryConstants
  <2>3. Accounts(g, Refs) /\ Listed(g) = Listed(f) \cup {i} /\ g.obj = f.obj
    <3>1. Accounts(f, Refs) /\ i \in Instances \ Listed(f)
      BY <1>3, <1>9
    <3> QED
      BY <2>1, <2>2, <3>1, AppendedAccounts
  <2>4. Refs[i] = 0 /\ i \in Listed(g)
    BY <1>3, <2>3 DEF Accounts, Counted
  <2>5. Opened(c, g, i)
    BY <1>9, <2>1 DEF Appended
  <2>6. \A j \in Listed(g) : j # i => g.obj[j].uri # client[c].uri
    BY <1>1, <1>3, <1>9, <2>3, SMTT(30)
  <2> QED
    BY <1>2, <2>3, <2>4, <2>5, <2>6, OpenedInv
<1>10. found = None =>
          \/ Refused(c, f)
          \/ cached # None /\ Opened(c, MovedToEnd(f, cached), cached)
          \/ /\ factory' = f
             /\ client' = [client EXCEPT ![c].pc = "preempt"]
             /\ UNCHANGED lock
          \/ /\ used # numberOfTuners
             /\ \E i \in Instances \ Listed(f) :
                  Opened(c, [f EXCEPT !.list = Append(@, i), !.no = @ + 1], i)
  BY <1>1 DEF getQAMSourceInstance
<1> QED
  BY <1>5, <1>6, <1>7, <1>8, <1>9, <1>10

-----------------------------------------------------------------------------
(* preempt.                                                                *)

LEMMA TryAgainInv ==
    ASSUME Inv, NEW c \in Clients, client[c].pc \in {"preempt", "callback"}, LockFree(c),
           NEW f, SameUris(factory, f), NEW k, Accounts(f, k),
           \A j \in Instances : k[j] = Refs[j] - (IF client[c].victim = j THEN 1 ELSE 0),
           TryAgain(c, f)
    PROVE  Inv'
<1>0. client[c] \in Calls
  BY InCall
<1>1. CASE check_for_free_qamsrc(f)
  <2>1. PICK x : x = [client[c] EXCEPT !.pc = "get", !.victim = None, !.told = None]
    OBVIOUS
  <2>2. /\ x \in Calls /\ x.pc = "get" /\ x.uri = client[c].uri
        /\ x.hold = client[c].hold /\ x.old = client[c].old /\ x.victim = None
    BY <1>0, <2>1 DEF Calls
  <2>3. Moves(c, x) /\ factory' = f /\ lock' = c
    BY <1>1, <2>1 DEF TryAgain, Moves
  <2> QED
    BY <2>2, <2>3, GoesOn
<1>2. CASE ~check_for_free_qamsrc(f)
  <2>1. Refused(c, f)
    BY <1>2 DEF TryAgain
  <2> QED
    BY <2>1, RefusedInv
<1> QED
  BY <1>1, <1>2

\* The release callback is over: the reference it was run with is given back.
LEMMA GivenBack ==
    ASSUME Inv, NEW c \in Clients, client[c].pc = "callback",
           NEW g, g = freeWithoutToken(factory, client[c].victim)
    PROVE  /\ SameUris(factory, g)
           /\ \E k : /\ Accounts(g, k)
                     /\ \A j \in Instances : k[j] = Refs[j] - (IF client[c].victim = j THEN 1 ELSE 0)
<1>0. /\ client[c] \in Calls /\ CallShape(client[c]) /\ Accounts(factory, Refs)
      /\ \A j \in Instances : Refs[j] \in Nat
  BY InCall
<1>1. PICK v : v = client[c].victim
  OBVIOUS
<1>2. v \in Instances /\ Refs[v] > 0
  <2>1. v \in Instances
    BY <1>0, <1>1 DEF Calls, CallShape
  <2> QED
    BY <1>1, <2>1, Held
<1>3. PICK k : k = [j \in Instances |-> IF j = v THEN Refs[j] - 1 ELSE Refs[j]]
  OBVIOUS
<1>4. k \in Counts /\ \A j \in Instances : k[j] = IF j = v THEN Refs[j] - 1 ELSE Refs[j]
  BY <1>0, <1>2, <1>3 DEF Counts
<1>5. Accounts(g, k) /\ SameUris(factory, g)
  BY <1>0, <1>1, <1>2, <1>4, FreeWithoutToken
<1>6. \A j \in Instances : k[j] = Refs[j] - (IF client[c].victim = j THEN 1 ELSE 0)
  BY <1>0, <1>1, <1>4
<1> QED
  BY <1>5, <1>6

LEMMA CallbackReturnsInv ==
    ASSUME Inv, NEW c \in Clients, CallbackReturns(c)
    PROVE  Inv'
<1>1. PICK g : g = freeWithoutToken(factory, client[c].victim)
  OBVIOUS
<1>2. client[c].pc = "callback" /\ LockFree(c) /\ TryAgain(c, g)
  BY <1>1 DEF CallbackReturns
<1>3. SameUris(factory, g)
  BY <1>1, <1>2, GivenBack
<1>4. PICK k : /\ Accounts(g, k)
               /\ \A j \in Instances : k[j] = Refs[j] - (IF client[c].victim = j THEN 1 ELSE 0)
  BY <1>1, <1>2, GivenBack
<1> QED
  BY <1>2, <1>3, <1>4, TryAgainInv

LEMMA CallbackReturnsErrorInv ==
    ASSUME Inv, NEW c \in Clients, CallbackReturnsError(c)
    PROVE  Inv'
<1>0. client[c] \in Calls
  BY InCall
<1>1. PICK g, x : /\ g = freeWithoutToken(factory, client[c].victim)
                  /\ x = [client[c] EXCEPT !.pc = "recheck", !.victim = None, !.told = None,
                                           !.short = (client[c].old # None)]
  OBVIOUS
<1>2. client[c].pc = "callback" /\ LockFree(c) /\ factory' = g /\ lock' = lock /\ Moves(c, x)
  BY <1>1 DEF CallbackReturnsError, Moves
<1>3. SameUris(factory, g)
  BY <1>1, <1>2, GivenBack
<1>4. PICK k : /\ Accounts(g, k)
               /\ \A j \in Instances : k[j] = Refs[j] - (IF client[c].victim = j THEN 1 ELSE 0)
  BY <1>1, <1>2, GivenBack
<1>5. /\ x \in Calls /\ x.pc = "recheck" /\ x.uri = client[c].uri
      /\ x.hold = client[c].hold /\ x.old = client[c].old /\ x.victim = None
  BY <1>0, <1>1 DEF Calls
<1> QED
  BY <1>2, <1>3, <1>4, <1>5, GoesOn

LEMMA RecheckInv ==
    ASSUME Inv, NEW c \in Clients, Recheck(c)
    PROVE  Inv'
<1>0. /\ client[c] \in Calls /\ CallShape(client[c]) /\ Accounts(factory, Refs)
      /\ \A j \in Instances : Refs[j] \in Nat
  BY InCall
<1>1. client[c].pc = "recheck" /\ client[c].victim = None
  BY <1>0 DEF Recheck, CallShape
<1>2. \A j \in Instances : Refs[j] = Refs[j] - (IF client[c].victim = j THEN 1 ELSE 0)
  BY <1>0, <1>1, FactoryConstants
<1>3. CASE client' = [client EXCEPT ![c].pc = "get"] /\ UNCHANGED <<factory, lock>>
  <2>1. PICK x : x = [client[c] EXCEPT !.pc = "get"]
    OBVIOUS
  <2>2. /\ x \in Calls /\ x.pc = "get" /\ x.uri = client[c].uri
        /\ x.hold = client[c].hold /\ x.old = client[c].old /\ x.victim = None
    BY <1>0, <1>1, <2>1 DEF Calls
  <2>3. Moves(c, x) /\ factory' = factory /\ lock' = lock
    BY <1>3, <2>1 DEF Moves
  <2>4. SameUris(factory, factory)
    BY DEF SameUris
  <2> QED
    BY <1>0, <1>1, <1>2, <2>2, <2>3, <2>4, GoesOn
<1>4. CASE Refused(c, factory)
  BY <1>0, <1>1, <1>2, <1>4, RefusedInv
<1> QED
  BY <1>3, <1>4 DEF Recheck

\* What findQAMSrcToPreempt returns is in the list and has a usage.
LEMMA ChosenIs ==
    ASSUME NEW f \in Factories, NEW usage,
           NEW v, v = findQAMSrcToPreempt(f, usage), v # None
    PROVE  /\ v \in Listed(f) /\ getUsage(f, v) # {}
           /\ \/ PriorityOf(getUsage(f, v)) < Priority[usage]
              \/ livePreemptionEnabled /\ getUsage(f, v) = {"LIVE"}
<1> DEFINE lower == {i \in Listed(f) : /\ getUsage(f, i) # {}
                                       /\ getUsage(f, i) \subseteq Releasable
                                       /\ PriorityOf(getUsage(f, i)) < Priority[usage]}
           least == {i \in lower : \A j \in lower :
                        PriorityOf(getUsage(f, i)) <= PriorityOf(getUsage(f, j))}
           live == {i \in Listed(f) : getUsage(f, i) = {"LIVE"}}
<1>1. \/ v = FirstOf(f, least)
      \/ livePreemptionEnabled /\ v = FirstOf(f, live)
  BY DEF findQAMSrcToPreempt
<1>2. CASE v = FirstOf(f, least)
  <2>1. v \in least
    BY <1>2, FirstIs
  <2> QED
    BY <2>1
<1>3. CASE livePreemptionEnabled /\ v = FirstOf(f, live)
  <2>1. v \in live
    BY <1>3, FirstIs
  <2> QED
    BY <1>3, <2>1
<1> QED
  BY <1>1, <1>2, <1>3

LEMMA preemptInv ==
    ASSUME Inv, NEW c \in Clients, preempt(c)
    PROVE  Inv'
<1>0. /\ client[c] \in Calls /\ CallShape(client[c]) /\ Replaces(c) /\ Accounts(factory, Refs)
      /\ \A j \in Instances : Refs[j] \in Nat
      /\ lock \in Clients \cup {NoOne}
  BY InCall
<1>1. PICK v : v = findQAMSrcToPreempt(factory, RequestedUsage(c))
  OBVIOUS
<1>2. client[c].pc = "preempt" /\ LockFree(c) /\ client[c].victim = None
  BY <1>0 DEF preempt, CallShape
<1>3. CASE v = None
  <2>1. TryAgain(c, factory)
    BY <1>1, <1>3 DEF preempt
  <2>2. SameUris(factory, factory)
    BY DEF SameUris
  <2>3. \A j \in Instances : Refs[j] = Refs[j] - (IF client[c].victim = j THEN 1 ELSE 0)
    BY <1>0, <1>2, FactoryConstants
  <2> QED
    BY <1>0, <1>2, <2>1, <2>2, <2>3, TryAgainInv
<1>4. CASE v # None
  <2>1. factory \in Factories
    BY <1>0 DEF Accounts
  <2>2. v \in Listed(factory) /\ getUsage(factory, v) # {} /\ v \in Instances
    BY <1>1, <1>4, <2>1, ChosenIs, ListedType
  <2>3. PICK b \in Entries : b = factory.obj[v]
    BY <2>1, <2>2 DEF Factories
  <2>4. PICK e : e = prepForPreemption(b)
    OBVIOUS
  <2>5. PICK t \in Clients :
           client' = [client EXCEPT ![c] = [@ EXCEPT !.pc = "callback", !.victim = v, !.told = t]]
    BY <1>1, <1>4 DEF preempt
  <2>6. PICK x : x = [client[c] EXCEPT !.pc = "callback", !.victim = v, !.told = t]
    OBVIOUS
  <2>7. Moves(c, x) /\ lock' = lock
    BY <1>1, <1>4, <2>5, <2>6 DEF preempt, Moves
  <2>8. factory' = Entered(factory, v, e)
    BY <1>1, <1>4, <2>3, <2>4 DEF preempt, Entered
  <2>9. /\ e \in Entries /\ e.refcount = b.refcount + 1 /\ e.uri = b.uri
        /\ \A d \in Clients : e.usages[d] = {}
    <3>1. PICK none \in [Clients -> SUBSET Usages] : none = [d \in Clients |-> {}]
      OBVIOUS
    <3>2. PICK r \in Nat : r = b.refcount
      BY <2>3 DEF Entries
    <3>3. e = [b EXCEPT !.usages = none, !.refcount = r + 1]
      BY <2>3, <2>4, <3>1, <3>2 DEF prepForPreemption, Entries
    <3>4. PICK o : o = [b EXCEPT !.usages = none]
      OBVIOUS
    <3>5. o \in Entries /\ o.refcount = r /\ o.uri = b.uri /\ o.usages = none
      BY <2>3, <3>2, <3>4 DEF Entries
    <3>6. e = [o EXCEPT !.refcount = r + 1]
      BY <3>3, <3>4 DEF Entries
    <3>7. e \in Entries /\ e.refcount = r + 1 /\ e.uri = o.uri /\ e.usages = o.usages
      BY <3>5, <3>6 DEF Entries
    <3> QED
      BY <3>1, <3>2, <3>5, <3>7
  <2>10. b.refcount = Refs[v] /\ b.uri # None
    <3>1. PICK d \in Clients : factory.obj[v].usages[d] # {}
      BY <2>2 DEF getUsage
    <3> QED
      BY <1>0, <2>2, <2>3, <3>1 DEF Accounts, Counted, OwnUsage
  <2>11. PICK m : m = [j \in Instances |-> IF j = v THEN Refs[j] + 1 ELSE Refs[j]]
    OBVIOUS
  <2>12. m \in Counts /\ \A j \in Instances : m[j] = IF j = v THEN Refs[j] + 1 ELSE Refs[j]
    BY <1>0, <2>11 DEF Counts
  <2>13. /\ Accounts(factory', m)
         /\ \A j \in Instances : factory'.obj[j].uri = factory.obj[j].uri
    <3>1. \A j \in Instances : m[j] = IF j = v THEN e.refcount ELSE Refs[j]
      BY <2>9, <2>10, <2>12
    <3>2. Placed(e) /\ \A d \in Clients : e.usages[d] \subseteq May(d)
      BY <2>9, <2>10 DEF Placed
    <3>3. \A j \in Listed(factory) : j # v /\ factory.obj[j].uri = e.uri => e.uri \in {FreedUri, None}
      BY <1>0, <2>2, <2>3, <2>9 DEF Accounts, Apart
    <3>4. /\ Accounts(factory', m)
          /\ \A j \in Instances : factory'.obj[j] = IF j = v THEN e ELSE factory.obj[j]
      BY <1>0, <2>2, <2>8, <2>9, <2>12, <3>1, <3>2, <3>3, EntryAccounts
    <3> QED
      BY <2>3, <2>9, <3>4
  <2>14. /\ x \in Calls /\ x.pc = "callback" /\ x.uri = client[c].uri
         /\ x.hold = client[c].hold /\ x.old = client[c].old /\ x.victim = v
    BY <1>0, <2>2, <2>5, <2>6 DEF Calls
  <2>15. CallShape(x)
    BY <1>0, <1>2, <1>4, <2>14 DEF CallShape
  <2>16. KeepsMutex(c)
    BY <1>0, <1>2, <2>7, FactoryConstants DEF KeepsMutex, LockFree
  <2>17. MayReplace(c, x)
    BY <1>0, <1>2, <2>7, <2>13, <2>14 DEF MayReplace, Replaces, Calls
  <2>18. Balances(c, x, m)
    <3> SUFFICES ASSUME NEW j \in Instances
                 PROVE  m[j] = Refs[j] - Weight(client[c], j) + Weight(x, j)
      BY DEF Balances
    <3>1. PICK h \in {0, 1}, w \in {0, 1} :
             /\ h = IF client[c].hold = j \/ client[c].old = j THEN 1 ELSE 0
             /\ w = IF v = j THEN 1 ELSE 0
      OBVIOUS
    <3>2. Weight(client[c], j) = h /\ Weight(x, j) = h + w
      BY <1>2, <2>14, <3>1, FactoryConstants DEF Weight
    <3>3. m[j] = Refs[j] + w /\ Refs[j] \in Nat
      BY <1>0, <2>12, <3>1
    <3> QED
      BY <3>2, <3>3
  <2> QED
    BY <2>7, <2>13, <2>14, <2>15, <2>16, <2>17, <2>18, OwnStep
<1> QED
  BY <1>3, <1>4

-----------------------------------------------------------------------------
(* The other calls of clients.                                             *)

\* One reference less to instance i.
OneLess(i) == [j \in Instances |-> IF j = i THEN Refs[j] - 1 ELSE Refs[j]]

LEMMA OneLessIs ==
    ASSUME Inv, NEW c \in Clients, NEW i \in Instances, i \in {client[c].hold, client[c].old}
    PROVE  /\ OneLess(i) \in Counts /\ Refs[i] > 0
           /\ \A j \in Instances : OneLess(i)[j] = IF j = i THEN Refs[j] - 1 ELSE Refs[j]
<1>1. \A j \in Instances : Refs[j] \in Nat
  BY InCall
<1>2. Refs[i] > 0
  BY Held
<1> QED
  BY <1>1, <1>2 DEF OneLess, Counts

LEMMA FreeOldInv ==
    ASSUME Inv, NEW c \in Clients, FreeOld(c)
    PROVE  Inv'
<1>0. /\ client[c] \in Calls /\ CallShape(client[c]) /\ Accounts(factory, Refs)
      /\ \A j \in Instances : Refs[j] \in Nat
      /\ lock \in Clients \cup {NoOne}
  BY InCall
<1>1. PICK x, i : x = Idle(client[c].hold) /\ i = client[c].old
  OBVIOUS
<1>2. client[c].pc = "free" /\ LockFree(c) /\ lock' = lock /\ Moves(c, x)
      /\ factory' = freeWithoutToken(factory, i)
  BY <1>1 DEF FreeOld, Moves
<1>3. i \in Instances /\ client[c].hold # i /\ client[c].victim = None
  BY <1>0, <1>1, <1>2 DEF CallShape, Calls
<1>4. PICK m : m = OneLess(i)
  OBVIOUS
<1>5. /\ m \in Counts /\ Refs[i] > 0
      /\ \A j \in Instances : m[j] = IF j = i THEN Refs[j] - 1 ELSE Refs[j]
  BY <1>1, <1>3, <1>4, OneLessIs
<1>6. Accounts(factory', m)
  BY <1>0, <1>2, <1>3, <1>5, FreeWithoutToken
<1>7. /\ x \in Calls /\ x.pc = "idle" /\ x.hold = client[c].hold /\ x.old = None /\ x.victim = None
  <2>1. client[c].hold \in Instances \cup {None}
    BY <1>0 DEF Calls
  <2> QED
    BY <1>1, <2>1, AtType DEF Idle
<1>8. CallShape(x) /\ MayReplace(c, x)
  BY <1>7 DEF CallShape, MayReplace
<1>9. KeepsMutex(c)
  BY <1>0, <1>2, FactoryConstants DEF KeepsMutex, LockFree
<1>10. Balances(c, x, m)
  <2> SUFFICES ASSUME NEW j \in Instances
               PROVE  m[j] = Refs[j] - Weight(client[c], j) + Weight(x, j)
    BY DEF Balances
  <2>1. PICK h \in {0, 1}, w \in {0, 1} : /\ h = IF client[c].hold = j THEN 1 ELSE 0
                                          /\ w = IF i = j THEN 1 ELSE 0
    OBVIOUS
  <2>2. Weight(client[c], j) = h + w /\ Weight(x, j) = h
    BY <1>1, <1>3, <1>7, <2>1, FactoryConstants DEF Weight
  <2>3. m[j] = Refs[j] - w /\ Refs[j] \in Nat
    BY <1>0, <1>5, <2>1
  <2> QED
    BY <2>2, <2>3
<1> QED
  BY <1>2, <1>6, <1>7, <1>8, <1>9, <1>10, OwnStep

LEMMA RequestInv ==
    ASSUME Inv, NEW c \in Clients, NEW uri \in Uris, Request(c, uri)
    PROVE  Inv'
<1>0. /\ client[c] \in Calls /\ CallShape(client[c]) /\ Accounts(factory, Refs)
      /\ \A j \in Instances : Refs[j] \in Nat
      /\ lock \in Clients \cup {NoOne}
  BY InCall
<1>1. PICK x : x = At("get", uri, None, None)
  OBVIOUS
<1>2. client[c].pc = "idle" /\ client[c].hold = None /\ lock' = lock /\ Moves(c, x)
      /\ factory' = factory
  BY <1>1 DEF Request, Moves
<1>3. client[c].old = None /\ client[c].victim = None
  BY <1>0, <1>2 DEF CallShape
<1>4. /\ x \in Calls /\ x.pc = "get" /\ x.uri = uri /\ x.hold = None /\ x.old = None
      /\ x.victim = None
  BY <1>1, AtType
<1>5. CallShape(x) /\ MayReplace(c, x)
  BY <1>4 DEF CallShape, MayReplace
<1>6. KeepsMutex(c)
  BY <1>0, <1>2 DEF KeepsMutex, SameUris
<1>7. Balances(c, x, Refs)
  BY <1>0, <1>2, <1>3, <1>4, FactoryConstants DEF Weight, Balances
<1>8. Accounts(factory', Refs)
  BY <1>0, <1>2
<1> QED
  BY <1>2, <1>4, <1>5, <1>6, <1>7, <1>8, OwnStep

LEMMA FreeInv ==
    ASSUME Inv, NEW c \in Clients, Free(c)
    PROVE  Inv'
<1>0. /\ client[c] \in Calls /\ CallShape(client[c]) /\ Accounts(factory, Refs)
      /\ \A j \in Instances : Refs[j] \in Nat
      /\ client[c].hold \in Instances => client[c].hold \in Listed(factory)
      /\ lock \in Clients \cup {NoOne}
  BY InCall
<1>1. PICK x, i : x = Idle(None) /\ i = client[c].hold
  OBVIOUS
<1>2. client[c].pc = "idle" /\ i # None /\ lock' = lock /\ Moves(c, x)
      /\ factory' = freeQAMSourceInstance(factory, i, c)
  BY <1>1 DEF Free, Moves
<1>3. i \in Instances /\ i \in Listed(factory) /\ client[c].old = None /\ client[c].victim = None
  BY <1>0, <1>1, <1>2 DEF CallShape, Calls
<1>4. PICK m : m = OneLess(i)
  OBVIOUS
<1>5. /\ m \in Counts /\ Refs[i] > 0
      /\ \A j \in Instances : m[j] = IF j = i THEN Refs[j] - 1 ELSE Refs[j]
  BY <1>1, <1>3, <1>4, OneLessIs
<1>6. Accounts(factory', m) /\ SameUris(factory, factory')
  BY <1>0, <1>2, <1>3, <1>5, FreeAccounts DEF SameUris
<1>7. /\ x \in Calls /\ x.pc = "idle" /\ x.hold = None /\ x.old = None /\ x.victim = None
  BY <1>1, AtType DEF Idle
<1>8. CallShape(x) /\ MayReplace(c, x)
  BY <1>7 DEF CallShape, MayReplace
<1>9. KeepsMutex(c)
  BY <1>0, <1>2, <1>6 DEF KeepsMutex
<1>10. Balances(c, x, m)
  BY <1>0, <1>1, <1>3, <1>5, <1>7, FactoryConstants DEF Balances, Weight
<1> QED
  BY <1>2, <1>6, <1>7, <1>8, <1>9, <1>10, OwnStep

\* A step in which no client moves.
LEMMA OthersStep ==
    ASSUME Inv, UNCHANGED <<client, lock>>, Accounts(factory', Refs),
           lock = NoOne \/ SameUris(factory, factory')
    PROVE  Inv'
<1>1. Refs' = Refs /\ Typed'
  BY DEF Inv, Typed, Refs, Users, Preemptors
<1>2. ASSUME NEW d \in Clients
      PROVE  CallShape(client'[d]) /\ Replaces(d)'
  <2>1. /\ client[d] \in Calls /\ CallShape(client[d]) /\ Replaces(d)
        /\ lock \in Clients \cup {NoOne}
    BY InCall
  <2>2. ASSUME client[d].old # None, client[d].pc # "free"
        PROVE  lock = d /\ factory'.obj[client[d].old].uri # client[d].uri
    <3>1. lock = d /\ factory.obj[client[d].old].uri # client[d].uri /\ client[d].old \in Instances
      BY <2>1, <2>2 DEF Replaces, Calls
    <3>2. Refs[client[d].old] > 0
      BY <3>1, Held
    <3>3. client[d].old \in Listed(factory')
      BY <3>1, <3>2, ReferredListed
    <3>4. lock # NoOne
      BY <3>1, FactoryConstants, SMTT(30)
    <3> QED
      BY <3>1, <3>3, <3>4 DEF SameUris
  <2> QED
    BY <2>1, <2>2 DEF Replaces
<1> QED
  BY <1>1, <1>2 DEF Inv

LEMMA changeURIInv ==
    ASSUME Inv, NEW c \in Clients, NEW uri \in Changing, changeURI(c, uri)
    PROVE  Inv'
<1>0. /\ client[c] \in Calls /\ CallShape(client[c]) /\ Accounts(factory, Refs)
      /\ \A j \in Instances : Refs[j] \in Nat
      /\ client[c].hold \in Instances => client[c].hold \in Listed(factory)
  BY InCall
<1>1. PICK f, i : f = Swept(factory, uri) /\ i = client[c].hold
  OBVIOUS
<1>2. client[c].pc = "idle" /\ i # None /\ lock = NoOne
  BY <1>1 DEF changeURI
<1>3. /\ i \in Instances /\ i \in Listed(factory) /\ client[c].old = None /\ client[c].victim = None
      /\ uri \in Uris /\ uri \notin {None, FreedUri} /\ None \notin Instances /\ NoOne \notin Clients
  BY <1>0, <1>1, <1>2, FactoryConstants DEF CallShape, Calls
<1>4. Refs[i] > 0
  BY <1>1, <1>3, Held
<1>5. /\ Accounts(f, Refs) /\ i \in Listed(f)
      /\ Existing(factory, uri) = None => \A j \in Listed(f) : f.obj[j].uri # uri
  BY <1>0, <1>1, <1>3, <1>4, SweptAccounts
<1>6. lock' = c => KeepsMutex(c)
  BY <1>2, <1>3 DEF KeepsMutex
<1>7. CASE Existing(factory, uri) # None
  <2>1. PICK x, m : x = At("get", uri, None, None) /\ m = OneLess(i)
    OBVIOUS
  <2>2. factory' = freeQAMSourceInstance(f, i, c) /\ Moves(c, x) /\ lock' = c
    BY <1>1, <1>7, <2>1 DEF changeURI, Moves
  <2>3. /\ m \in Counts
        /\ \A j \in Instances : m[j] = IF j = i THEN Refs[j] - 1 ELSE Refs[j]
    BY <1>1, <1>3, <2>1, OneLessIs
  <2>4. Accounts(factory', m)
    BY <1>4, <1>5, <2>2, <2>3, FreeAccounts
  <2>5. /\ x \in Calls /\ x.pc = "get" /\ x.uri = uri /\ x.hold = None /\ x.old = None
        /\ x.victim = None
    BY <1>3, <2>1, AtType
  <2>6. CallShape(x) /\ MayReplace(c, x)
    BY <1>3, <2>5 DEF CallShape, MayReplace
  <2>7. Balances(c, x, m)
    BY <1>0, <1>1, <1>3, <2>3, <2>5 DEF Balances, Weight
  <2> QED
    BY <1>6, <2>2, <2>4, <2>5, <2>6, <2>7, OwnStep
<1>8. ASSUME Existing(factory, uri) = None,
             NEW ready \in BOOLEAN, NEW to \in {uri, FreedUri},
             factory' = [f EXCEPT !.obj[i].uri = to, !.obj[i].ready = ready],
             UNCHANGED <<client, lock>>
      PROVE  Inv'
  <2>1. PICK b \in Entries : b = f.obj[i]
    BY <1>3, <1>5 DEF Accounts, Factories
  <2>2. PICK e : e = [b EXCEPT !.uri = to, !.ready = ready]
    OBVIOUS
  <2>3. factory' = Entered(f, i, e)
    BY <1>3, <1>5, <1>8, <2>1, <2>2 DEF Entered, Accounts, Factories, Entries
  <2>4. e \in Entries /\ e.uri = to /\ e.refcount = b.refcount /\ e.usages = b.usages
    BY <1>3, <1>8, <2>1, <2>2 DEF Entries
  <2>5. b.refcount = Refs[i] /\ \A d \in Clients : b.usages[d] \subseteq May(d)
    BY <1>3, <1>5, <2>1 DEF Accounts, Counted, OwnUsage
  <2>6. Placed(e)
    BY <1>3, <2>4, FactoryConstants DEF Placed, None, FreedUri
  <2>7. \A j \in Listed(f) : j # i /\ f.obj[j].uri = e.uri => e.uri \in {FreedUri, None}
    BY <1>5, <1>8, <2>4
  <2>8. Refs \in Counts /\ \A j \in Instances : Refs[j] = IF j = i THEN e.refcount ELSE Refs[j]
    BY <1>0, <2>4, <2>5 DEF Accounts
  <2>9. Accounts(factory', Refs)
    BY <1>5, <2>3, <2>4, <2>5, <2>6, <2>7, <2>8, EntryAccounts
  <2> QED
    BY <1>2, <1>8, <2>9, OthersStep
<1>9. CASE /\ Existing(factory, uri) = None
           /\ factory' = f /\ lock' = c
           /\ client' = [client EXCEPT ![c] = At("get", uri, i, i)]
  <2>1. PICK x : x = At("get", uri, i, i)
    OBVIOUS
  <2>2. Moves(c, x)
    BY <1>9, <2>1 DEF Moves
  <2>3. /\ x \in Calls /\ x.pc = "get" /\ x.uri = uri /\ x.hold = i /\ x.old = i
        /\ x.victim = None
    BY <1>3, <2>1, AtType
  <2>4. CallShape(x) /\ MayReplace(c, x)
    BY <1>3, <1>5, <1>9, <2>3 DEF CallShape, MayReplace
  <2>5. Balances(c, x, Refs)
    BY <1>0, <1>1, <1>3, <2>3 DEF Balances, Weight
  <2>6. Accounts(factory', Refs)
    BY <1>5, <1>9, SMTT(30)
  <2> QED
    BY <1>6, <1>9, <2>2, <2>3, <2>4, <2>5, <2>6, OwnStep
<1>10. Existing(factory, uri) = None =>
          \/ /\ \E ready \in BOOLEAN, to \in {uri, FreedUri} :
                   factory' = [f EXCEPT !.obj[i].uri = to, !.obj[i].ready = ready]
             /\ UNCHANGED <<client, lock>>
          \/ /\ factory' = f /\ lock' = c
             /\ client' = [client EXCEPT ![c] = At("get", uri, i, i)]
  BY <1>1, <1>5 DEF changeURI
<1> QED
  BY <1>7, <1>8, <1>9, <1>10

-----------------------------------------------------------------------------
(* What others do.                                                         *)

LEMMA LowAccounts ==
    ASSUME NEW f, NEW n, Accounts(f, n), NEW l \in Nat, f.no + l <= numberOfTuners,
           NEW g, g = [f EXCEPT !.low = l]
    PROVE  Accounts(g, n) /\ Listed(g) = Listed(f) /\ g.obj = f.obj
<1>1. f \in Factories
  BY DEF Accounts
<1>2. /\ g \in Factories
      /\ g.list = f.list /\ g.obj = f.obj /\ g.no = f.no /\ g.low = l
  BY <1>1 DEF Factories
<1>3. Listed(g) = Listed(f)
  BY <1>2 DEF Listed
<1>4. Listing(g) /\ Counted(g, n) /\ Apart(g) /\ OwnUsage(g)
  BY <1>2, <1>3 DEF Accounts, Listing, Counted, Apart, OwnUsage
<1> QED
  BY <1>2, <1>3, <1>4 DEF Accounts

LEMMA getLowLevelElementInv ==
    ASSUME Inv, getLowLevelElement
    PROVE  Inv'
<1>0. Accounts(factory, Refs) /\ factory \in Factories /\ Listing(factory) /\ Refs \in Counts
  BY DEF Inv, Accounts
<1>1. PICK evicted, full, f :
         /\ evicted = FirstOf(factory, Unused(factory))
         /\ full = (factory.no + factory.low = numberOfTuners)
         /\ f = IF full THEN Unlisted(factory, {evicted}) ELSE factory
  OBVIOUS
<1>2. /\ lock = NoOne /\ UNCHANGED <<client, lock>>
      /\ full => evicted # None
      /\ factory' \in {f, [f EXCEPT !.low = @ + 1]}
  BY <1>1 DEF getLowLevelElement
<1>3. factory.no \in Nat /\ factory.low \in Nat /\ factory.no + factory.low <= numberOfTuners
  BY <1>0 DEF Accounts, Factories
<1>4. Accounts(f, Refs) /\ f.no + (f.low + 1) <= numberOfTuners /\ f.low + 1 \in Nat
  <2>1. CASE full
    <3>1. evicted \in Listed(factory) /\ Refs[evicted] = 0
      <4>1. evicted \in Unused(factory)
        BY <1>0, <1>1, <1>2, <2>1, FirstIs
      <4> QED
        BY <1>0, <4>1 DEF Unused, Accounts, Counted
    <3>2. f = Unlisted(factory, {evicted})
      BY <1>1, <2>1
    <3>3. \A j \in Instances : Refs[j] = IF j \in {evicted} THEN 0 ELSE Refs[j]
      BY <3>1
    <3>4. Accounts(f, Refs)
      BY <1>0, <3>1, <3>2, <3>3, UnlistedAccounts
    <3>5. f \in Factories /\ f.no < factory.no /\ f.low = factory.low
      BY <1>0, <3>1, <3>2, UnlistedIs
    <3>6. f.no \in Nat
      BY <3>5 DEF Factories
    <3> QED
      BY <1>3, <3>4, <3>5, <3>6, FactoryConstants
  <2>2. CASE ~full
    <3>1. f = factory /\ factory.no + factory.low # numberOfTuners
      BY <1>1, <2>2
    <3> QED
      BY <1>0, <1>3, <3>1, FactoryConstants
  <2> QED
    BY <2>1, <2>2
<1>5. Accounts([f EXCEPT !.low = @ + 1], Refs)
  BY <1>4, LowAccounts
<1>6. Accounts(factory', Refs)
  BY <1>2, <1>4, <1>5
<1> QED
  BY <1>2, <1>6, OthersStep

LEMMA freeLowLevelElementInv ==
    ASSUME Inv, freeLowLevelElement
    PROVE  Inv'
<1>1. Accounts(factory, Refs)
  BY DEF Inv
<1>2. factory.no \in Nat /\ factory.low \in Nat /\ factory.no + factory.low <= numberOfTuners
  BY <1>1 DEF Accounts, Factories
<1>3. /\ lock = NoOne /\ UNCHANGED <<client, lock>>
      /\ factory.low > 0 /\ factory' = [factory EXCEPT !.low = factory.low - 1]
  BY DEF freeLowLevelElement
<1>4. factory.low - 1 \in Nat /\ factory.no + (factory.low - 1) <= numberOfTuners
  BY <1>2, <1>3, FactoryConstants
<1>5. Accounts(factory', Refs)
  BY <1>1, <1>3, <1>4, LowAccounts
<1> QED
  BY <1>3, <1>5, OthersStep

LEMMA freeCachedQAMSourceInstancesInv ==
    ASSUME Inv, freeCachedQAMSourceInstances
    PROVE  Inv'
<1>1. Accounts(factory, Refs) /\ Refs \in Counts
  BY DEF Inv, Accounts
<1>2. PICK S : S = Unused(factory)
  OBVIOUS
<1>3. lock = NoOne /\ UNCHANGED <<client, lock>> /\ factory' = Unlisted(factory, S)
  BY <1>2 DEF freeCachedQAMSourceInstances
<1>4. S \subseteq Listed(factory) /\ \A j \in Instances : Refs[j] = IF j \in S THEN 0 ELSE Refs[j]
  BY <1>1, <1>2 DEF Unused, Accounts, Counted
<1>5. Accounts(factory', Refs)
  BY <1>1, <1>3, <1>4, UnlistedAccounts
<1> QED
  BY <1>3, <1>5, OthersStep

LEMMA readyForReUseInv ==
    ASSUME Inv, NEW i \in Instances, readyForReUse(i)
    PROVE  Inv'
<1>1. Accounts(factory, Refs) /\ Refs \in Counts /\ factory \in Factories
  BY DEF Inv, Accounts
<1>2. PICK b \in Entries : b = factory.obj[i]
  BY <1>1 DEF Factories
<1>3. PICK e : e = [b EXCEPT !.ready = ~@]
  OBVIOUS
<1>4. i \in Listed(factory) /\ UNCHANGED <<client, lock>> /\ factory' = Entered(factory, i, e)
  BY <1>2, <1>3 DEF readyForReUse, Entered
<1>5. e \in Entries /\ e.uri = b.uri /\ e.refcount = b.refcount /\ e.usages = b.usages
  BY <1>2, <1>3 DEF Entries
<1>6. /\ b.refcount = Refs[i] /\ (Refs[i] > 0 => b.uri # None) /\ Refs[i] \in Nat
      /\ \A d \in Clients : b.usages[d] \subseteq May(d) /\ (b.usages[d] # {} => b.uri # None)
  BY <1>1, <1>2, <1>4 DEF Accounts, Counted, OwnUsage, Counts
<1>7. Placed(e) /\ \A d \in Clients : e.usages[d] \subseteq May(d)
  BY <1>5, <1>6 DEF Placed
<1>8. \A j \in Listed(factory) : j # i /\ factory.obj[j].uri = e.uri => e.uri \in {FreedUri, None}
  BY <1>1, <1>2, <1>4, <1>5 DEF Accounts, Apart
<1>9. \A j \in Instances : Refs[j] = IF j = i THEN e.refcount ELSE Refs[j]
  BY <1>5, <1>6
<1>10. /\ Accounts(factory', Refs)
       /\ \A j \in Instances : factory'.obj[j] = IF j = i THEN e ELSE factory.obj[j]
       /\ Listed(factory') = Listed(factory)
  BY <1>1, <1>4, <1>5, <1>7, <1>8, <1>9, EntryAccounts
<1>11. SameUris(factory, factory')
  BY <1>1, <1>2, <1>5, <1>10, ListedType DEF SameUris
<1> QED
  BY <1>4, <1>10, <1>11, OthersStep

-----------------------------------------------------------------------------
(* Every state of the factory.                                             *)

LEMMA InitInv == Init => Inv
<1> SUFFICES ASSUME Init
             PROVE  Inv
  OBVIOUS
<1>1. /\ factory.list = <<>> /\ factory.no = 0 /\ factory.low = 0 /\ factory.caching \in Caching
      /\ factory.obj = [i \in Instances |-> Blank]
      /\ lock = NoOne
  BY DEF Init
<1>2. PICK x : x = Idle(None)
  OBVIOUS
<1>3. /\ x \in Calls /\ x.pc = "idle" /\ x.hold = None /\ x.old = None /\ x.victim = None
  BY <1>2, AtType DEF Idle
<1>4. client = [c \in Clients |-> x]
  BY <1>2 DEF Init
<1>5. Typed
  BY <1>1, <1>3, <1>4 DEF Typed
<1>6. \A c \in Clients : CallShape(client[c]) /\ Replaces(c)
  BY <1>3, <1>4 DEF CallShape, Replaces
<1>7. \A i \in Instances : Refs[i] = 0
  <2>1. \A i \in Instances : Users(i) = {} /\ Preemptors(i) = {}
    BY <1>3, <1>4, FactoryConstants DEF Users, Preemptors
  <2> QED
    BY <2>1, FS_EmptySet DEF Refs
<1>8. Refs \in Counts
  BY <1>7 DEF Refs, Counts
<1>9. Listed(factory) = {}
  BY <1>1 DEF Listed, Range
<1>10. factory \in Factories
  <2>1. PICK o : o = [i \in Instances |-> Blank]
    OBVIOUS
  <2>2. PICK T : T = [Instances -> Entries]
    OBVIOUS
  <2>3. o \in T
    BY <2>1, <2>2, BlankType
  <2>4. factory \in [list : {<<>>}, obj : {o}, no : {0}, low : {0}, caching : Caching]
    BY <2>1 DEF Init
  <2>5. PICK S, e : S = Seq(Instances) /\ e = <<>>
    OBVIOUS
  <2>6. e \in S
    BY <2>5
  <2>7. factory \in [list : {e}, obj : {o}, no : {0}, low : {0}, caching : Caching]
    BY <2>4, <2>5
  <2>8. /\ factory = [list |-> factory.list, obj |-> factory.obj, no |-> factory.no,
                      low |-> factory.low, caching |-> factory.caching]
        /\ factory.list = e /\ factory.obj = o /\ factory.no = 0 /\ factory.low = 0
        /\ factory.caching \in Caching
    BY <2>7
  <2>9. factory \in [list : S, obj : T, no : Nat, low : Nat, caching : Caching]
    BY <2>3, <2>6, <2>8
  <2> QED
    BY <2>2, <2>5, <2>9 DEF Factories
<1>11. Listing(factory) /\ factory.no + factory.low <= numberOfTuners
  BY <1>1, FactoryConstants DEF Listing, Once
<1>12. Counted(factory, Refs) /\ Apart(factory) /\ OwnUsage(factory)
  BY <1>1, <1>7, <1>9, BlankType DEF Counted, Apart, OwnUsage
<1> QED
  BY <1>5, <1>6, <1>8, <1>10, <1>11, <1>12 DEF Inv, Accounts

LEMMA NextInv ==
    ASSUME Inv, [Next]_vars
    PROVE  Inv'
<1>1. ASSUME NEW c \in Clients, CallStep(c)
      PROVE  Inv'
  BY <1>1, getQAMSourceInstanceInv, preemptInv, CallbackReturnsInv, CallbackReturnsErrorInv,
     RecheckInv, FreeOldInv DEF CallStep
<1>2. ASSUME NEW c \in Clients, Free(c)
      PROVE  Inv'
  BY <1>2, FreeInv
<1>3. ASSUME NEW c \in Clients, NEW uri \in Uris, Request(c, uri)
      PROVE  Inv'
  BY <1>3, RequestInv
<1>4. ASSUME NEW c \in Clients, NEW uri \in Changing, changeURI(c, uri)
      PROVE  Inv'
  BY <1>4, changeURIInv
<1>5. CASE getLowLevelElement
  BY <1>5, getLowLevelElementInv
<1>6. CASE freeLowLevelElement
  BY <1>6, freeLowLevelElementInv
<1>7. CASE freeCachedQAMSourceInstances
  BY <1>7, freeCachedQAMSourceInstancesInv
<1>8. ASSUME NEW i \in Instances, readyForReUse(i)
      PROVE  Inv'
  BY <1>8, readyForReUseInv
<1>9. CASE UNCHANGED vars
  <2>1. UNCHANGED <<client, lock>> /\ factory' = factory /\ Accounts(factory, Refs)
    BY <1>9 DEF vars, Inv
  <2>2. Accounts(factory', Refs) /\ SameUris(factory, factory')
    BY <2>1 DEF SameUris
  <2> QED
    BY <2>1, <2>2, OthersStep
<1> QED
  BY <1>1, <1>2, <1>3, <1>4, <1>5, <1>6, <1>7, <1>8, <1>9 DEF Next

LEMMA InvHolds == Spec => []Inv
<1>1. Inv /\ [Next]_vars => Inv'
  BY NextInv
<1> QED
  BY <1>1, InitInv, PTL DEF Spec

-----------------------------------------------------------------------------
(* What follows from the invariant.                                        *)

LEMMA InvTypes == Inv => TypeOK
BY DEF Inv, Typed, Accounts, Factories, Entries, Calls, TypeOK

LEMMA InvTuners == Inv => TunersAccounted
<1> SUFFICES ASSUME Inv
             PROVE  TunersAccounted
  OBVIOUS
<1>1. /\ factory.list \in Seq(Instances) /\ Once(factory.list)
      /\ factory.no = Len(factory.list) /\ factory.no + factory.low <= numberOfTuners
  BY DEF Inv, Accounts, Factories, Listing
<1>2. Cardinality(Listed(factory)) = Len(factory.list)
  BY <1>1, OnceLen DEF Listed
<1> QED
  BY <1>1, <1>2 DEF TunersAccounted

LEMMA InvRefcounts == Inv => RefcountIsUsers
<1> SUFFICES ASSUME Inv
             PROVE  RefcountIsUsers
  OBVIOUS
<1>1. Accounts(factory, Refs) /\ Listed(factory) \subseteq Instances
  BY ListedType DEF Inv, Accounts
<1>2. \A i \in Listed(factory) :
          factory.obj[i].refcount = Cardinality(Users(i)) + Cardinality(Preemptors(i))
  BY <1>1 DEF Accounts, Counted, Refs
<1>3. ASSUME NEW c \in Clients
      PROVE  {client[c].hold, client[c].victim, client[c].old} \subseteq Listed(factory) \cup {None}
  BY InCall DEF Calls
<1> QED
  BY <1>2, <1>3 DEF RefcountIsUsers

LEMMA InvOneTuner == Inv => OneTunerPerService
<1> SUFFICES ASSUME Inv, NEW i \in Listed(factory), NEW j \in Listed(factory), i # j,
                    factory.obj[i].refcount > 0, factory.obj[i].uri = factory.obj[j].uri
             PROVE  factory.obj[i].uri = FreedUri
  BY DEF OneTunerPerService
<1>1. Accounts(factory, Refs)
  BY DEF Inv
<1>2. factory.obj[i].uri # None
  BY <1>1 DEF Accounts, Counted
<1> QED
  BY <1>1, <1>2 DEF Accounts, Apart

\* The counters, the list, the entries and every client's record stay well formed: a
\* refcount and the two counters never go below zero (RMF_ASSERT(0 <= refcount)).
THEOREM FactoryTypes == Spec => []TypeOK
BY InvHolds, InvTypes, PTL

\* g_qamsrcobjectno is the length of the list, nothing is listed twice, and the box never
\* has more instances and bare elements than tuners, with changeURI and failing release
\* callbacks among the calls.
THEOREM FactoryTunersAccounted == Spec => []TunersAccounted
BY InvHolds, InvTuners, PTL

\* freeQAMSourceInstance deletes an instance only with its last user: the refcount counts
\* exactly the clients that have it and the pre-emptions under way on it.
THEOREM FactoryRefcountIsUsers == Spec => []RefcountIsUsers
BY InvHolds, InvRefcounts, PTL

\* getExistingInstance finds the instance that is on the service whenever there is one in
\* use: no service is tuned twice.
THEOREM FactoryOneTunerPerService == Spec => []OneTunerPerService
BY InvHolds, InvOneTuner, PTL

\* The three together, as the run with changeURI states them.
THEOREM FactoryChangeKeepsAccounts == Spec => []ChangeKeepsAccounts
<1>1. Inv => ChangeKeepsAccounts
  BY InvTuners, InvRefcounts, InvOneTuner DEF ChangeKeepsAccounts
<1> QED
  BY <1>1, InvHolds, PTL

-----------------------------------------------------------------------------
(* Pre-emption goes by the most important use of an instance.              *)

LEMMA PriorityType == \A u \in Usages : Priority[u] \in 1..6
BY DEF Usages, Priority

LEMMA PriorityOfIs ==
    ASSUME NEW us \in SUBSET Usages, us # {}
    PROVE  PriorityOf(us) \in Nat /\ \A u \in us : Priority[u] <= PriorityOf(us)
<1> DEFINE P == {Priority[u] : u \in us}
           T == {6 - p : p \in P}
<1>1. P # {} /\ \A p \in P : p \in Nat /\ 6 - p \in Nat
  BY PriorityType
<1> HIDE DEF P
<1>2. T \subseteq Nat /\ T # {}
  BY <1>1
<1>3. PICK x \in T : \A y \in T : x <= y
  BY <1>2, LeastNumber
<1>4. PICK p \in P : x = 6 - p
  BY <1>3
<1>5. ASSUME NEW q \in P
      PROVE  q <= p
  <2>1. 6 - q \in T
    OBVIOUS
  <2>2. 6 - p <= 6 - q
    BY <1>3, <1>4, <2>1
  <2>3. p \in Nat /\ q \in Nat
    BY <1>1
  <2> QED
    BY <2>2, <2>3
<1>6. \A u \in us : Priority[u] \in P /\ Priority[u] <= p
  BY <1>5 DEF P
<1>7. PriorityOf(us) \in P /\ \A u \in us : Priority[u] <= PriorityOf(us)
  BY <1>6 DEF PriorityOf, P
<1> QED
  BY <1>1, <1>7

\* A call moves the record of its own client only.
LEMMA OwnRecord ==
    ASSUME Inv, NEW d \in Clients, CallStep(d) \/ Free(d) \/ (\E uri \in Uris : Request(d, uri))
                                   \/ (\E uri \in Changing : changeURI(d, uri)),
           NEW c \in Clients, c # d
    PROVE  client'[c] = client[c]
<1>1. client \in [Clients -> Calls]
  BY DEF Inv, Typed
<1>2. (\E x : client' = [client EXCEPT ![d] = x]) \/ client' = client
  <2>1. CASE getQAMSourceInstance(d)
    <3>1. \A f, i : Granted(d, f, i) => \E x : client' = [client EXCEPT ![d] = x]
      BY DEF Granted
    <3>2. \A f : Refused(d, f) => \E x : client' = [client EXCEPT ![d] = x]
      BY DEF Refused
    <3>3. \A f, i : Opened(d, f, i) => \E x : client' = [client EXCEPT ![d] = x]
      BY <3>1, <3>2 DEF Opened
    <3>4. client' = [client EXCEPT ![d].pc = "preempt"] => \E x : client' = [client EXCEPT ![d] = x]
      OBVIOUS
    <3> QED
      BY <2>1, <3>1, <3>2, <3>3, <3>4 DEF getQAMSourceInstance
  <2>2. CASE preempt(d)
    BY <2>2 DEF preempt, TryAgain, Refused
  <2>3. CASE CallbackReturns(d)
    BY <2>3 DEF CallbackReturns, TryAgain, Refused
  <2>4. CASE CallbackReturnsError(d)
    BY <2>4 DEF CallbackReturnsError
  <2>5. CASE Recheck(d)
    BY <2>5 DEF Recheck, Refused
  <2>6. CASE FreeOld(d)
    BY <2>6 DEF FreeOld
  <2>7. CASE Free(d)
    BY <2>7 DEF Free
  <2>8. CASE \E uri \in Uris : Request(d, uri)
    BY <2>8 DEF Request
  <2>9. CASE \E uri \in Changing : changeURI(d, uri)
    BY <2>9, ZenonT(60) DEF changeURI
  <2> QED
    BY <2>1, <2>2, <2>3, <2>4, <2>5, <2>6, <2>7, <2>8, <2>9 DEF CallStep
<1> QED
  BY <1>1, <1>2

\* Only preempt calls a release callback.
LEMMA OnlyPreempt ==
    ASSUME Inv, [Next]_vars, NEW c \in Clients,
           client[c].pc = "preempt", client'[c].pc = "callback"
    PROVE  preempt(c)
<1>1. client'[c] # client[c]
  OBVIOUS
<1>2. PICK d \in Clients : CallStep(d) \/ Free(d) \/ (\E uri \in Uris : Request(d, uri))
                           \/ (\E uri \in Changing : changeURI(d, uri))
  <2>1. ~UNCHANGED client
    BY <1>1
  <2> QED
    BY <2>1 DEF Next, vars, getLowLevelElement, freeLowLevelElement, freeCachedQAMSourceInstances,
                readyForReUse
<1>3. d = c
  BY <1>1, <1>2, OwnRecord
<1> QED
  BY <1>2, <1>3 DEF CallStep, getQAMSourceInstance, CallbackReturns, CallbackReturnsError, Recheck,
                    FreeOld, Free, Request, changeURI

\* findQAMSrcToPreempt takes an instance only from uses of lower priority, or live from
\* live, however the usages changed since getQAMSourceInstance found no tuner.
THEOREM FactoryPreemptsLowerOnly == Spec => PreemptsLowerOnly
<1> DEFINE Lower(c) ==
             client[c].pc = "preempt" /\ client'[c].pc = "callback" =>
                 \A t \in Users(client'[c].victim) :
                     factory.obj[client'[c].victim].usages[t] # {} =>
                         \/ Priority[UsageOf(t)] < Priority[RequestedUsage(c)]
                         \/ livePreemptionEnabled /\ UsageOf(t) = "LIVE"
<1>1. ASSUME Inv, [Next]_vars, NEW c \in Clients
      PROVE  Lower(c)
  <2> SUFFICES ASSUME client[c].pc = "preempt", client'[c].pc = "callback",
                      NEW t \in Users(client'[c].victim),
                      factory.obj[client'[c].victim].usages[t] # {}
               PROVE  \/ Priority[UsageOf(t)] < Priority[RequestedUsage(c)]
                      \/ livePreemptionEnabled /\ UsageOf(t) = "LIVE"
    OBVIOUS
  <2>1. preempt(c)
    BY <1>1, OnlyPreempt
  <2>2. PICK v : v = findQAMSrcToPreempt(factory, RequestedUsage(c))
    OBVIOUS
  <2>3. client \in [Clients -> Calls] /\ Accounts(factory, Refs) /\ factory \in Factories
    BY <1>1 DEF Inv, Typed, Accounts
  <2>4. v # None
    <3> SUFFICES ASSUME v = None
                 PROVE  FALSE
      OBVIOUS
    <3>1. TryAgain(c, factory)
      BY <2>1, <2>2 DEF preempt
    <3>2. client'[c].pc \in {"get", "idle"}
      <4>1. client[c] \in Calls
        BY <2>3
      <4>2. CASE check_for_free_qamsrc(factory)
        <5>1. PICK x : x = [client[c] EXCEPT !.pc = "get", !.victim = None, !.told = None]
          OBVIOUS
        <5>2. x.pc = "get"
          BY <4>1, <5>1 DEF Calls
        <5>3. client' = [client EXCEPT ![c] = x]
          BY <3>1, <4>2, <5>1 DEF TryAgain
        <5> QED
          BY <2>3, <5>2, <5>3
      <4>3. CASE ~check_for_free_qamsrc(factory)
        <5>1. PICK x : x = Idle(client[c].old)
          OBVIOUS
        <5>2. x.pc = "idle"
          BY <5>1 DEF Idle, At
        <5>3. client' = [client EXCEPT ![c] = x]
          BY <3>1, <4>3, <5>1, SMTT(30) DEF TryAgain, Refused
        <5> QED
          BY <2>3, <5>2, <5>3
      <4> QED
        BY <4>2, <4>3
    <3> QED
      BY <3>2
  <2>5. client'[c].victim = v
    BY <2>1, <2>2, <2>3, <2>4 DEF preempt, Calls
  <2>6. /\ v \in Listed(factory) /\ getUsage(factory, v) # {}
        /\ \/ PriorityOf(getUsage(factory, v)) < Priority[RequestedUsage(c)]
           \/ livePreemptionEnabled /\ getUsage(factory, v) = {"LIVE"}
    BY <2>2, <2>3, <2>4, ChosenIs
  <2>7. v \in Instances /\ t \in Clients
    BY <2>3, <2>6, ListedType DEF Users
  <2>8. UsageOf(t) \in getUsage(factory, v)
    <3>1. factory.obj[v].usages[t] # {} /\ factory.obj[v].usages[t] \subseteq {UsageOf(t)}
      BY <2>3, <2>5, <2>7 DEF Accounts, OwnUsage, May
    <3> QED
      BY <2>7, <3>1 DEF getUsage
  <2>9. getUsage(factory, v) \subseteq Usages /\ UsageOf(t) \in Usages /\ RequestedUsage(c) \in Usages
    <3>1. \A d \in Clients : factory.obj[v].usages[d] \subseteq Usages
      BY <2>3, <2>7 DEF Factories, Entries
    <3>2. "LIVE" \in Usages
      BY DEF Usages, Priority
    <3> QED
      BY <2>7, <3>1, <3>2, UsageType DEF getUsage, RequestedUsage
  <2>10. Priority[UsageOf(t)] <= PriorityOf(getUsage(factory, v)) /\ PriorityOf(getUsage(factory, v)) \in Nat
    BY <2>6, <2>8, <2>9, PriorityOfIs
  <2>11. Priority[UsageOf(t)] \in Nat /\ Priority[RequestedUsage(c)] \in Nat
    BY <2>9, PriorityType
  <2>12. CASE PriorityOf(getUsage(factory, v)) < Priority[RequestedUsage(c)]
    BY <2>10, <2>11, <2>12
  <2>13. CASE livePreemptionEnabled /\ getUsage(factory, v) = {"LIVE"}
    BY <2>8, <2>13
  <2> QED
    BY <2>6, <2>12, <2>13
<1>2. Inv /\ [Next]_vars => \A c \in Clients : Lower(c)
  BY <1>1
<1>3. Inv /\ [Next]_vars => [\A c \in Clients : Lower(c)]_vars
  BY <1>2
<1> QED
  BY <1>3, InvHolds, PTL DEF Spec, PreemptsLowerOnly

-----------------------------------------------------------------------------
(* Usages, without changeURI, which moves a client's reference and leaves  *)
(* its usage where it was.                                                 *)

Unchanging == \A c \in Clients : client[c].old = None
Owned == \A i \in Instances, c \in Clients : factory.obj[i].usages[c] # {} => client[c].hold = i

\* From the factory to f, nobody but c, on instance i, is given a usage.
Attaches(c, i, f) ==
    \A j \in Instances, d \in Clients :
        f.obj[j].usages[d] # {} => factory.obj[j].usages[d] # {} \/ (d = c /\ j = i)

LEMMA FewerStep ==
    ASSUME Inv, Unchanging, Owned, NEW c \in Clients, NEW x, Moves(c, x),
           x.old = None, x.hold = client[c].hold, Fewer(factory, factory')
    PROVE  Unchanging' /\ Owned'
<1>1. client \in [Clients -> Calls]
  BY DEF Inv, Typed
<1>2. \A d \in Clients : client'[d].old = None /\ client'[d].hold = client[d].hold
  BY <1>1 DEF Moves, Unchanging
<1> QED
  BY <1>2 DEF Unchanging, Owned, Fewer

LEMMA FewerElsewhere ==
    ASSUME Unchanging, Owned, client' = client, Fewer(factory, factory')
    PROVE  Unchanging' /\ Owned'
BY DEF Unchanging, Owned, Fewer

LEMMA FewerTwice ==
    ASSUME NEW f, NEW g, NEW h, Fewer(f, g), Fewer(g, h)
    PROVE  Fewer(f, h)
BY DEF Fewer

LEMMA FewerSame ==
    ASSUME NEW f, NEW g, g.obj = f.obj
    PROVE  Fewer(f, g)
BY DEF Fewer

LEMMA FewerAttaches ==
    ASSUME NEW c, NEW i, NEW f, NEW g, Attaches(c, i, f), Fewer(f, g)
    PROVE  Attaches(c, i, g)
BY DEF Attaches, Fewer

LEMMA GrantedOwned ==
    ASSUME Inv, Unchanging, Owned, NEW c \in Clients, client[c].pc = "get",
           NEW i \in Instances, NEW f, Attaches(c, i, f), Granted(c, f, i)
    PROVE  Unchanging' /\ Owned'
<1>1. client \in [Clients -> Calls] /\ client[c].old = None /\ client[c].hold = None
  BY DEF Inv, Typed, CallShape, Unchanging
<1>2. PICK x : x = Idle(i)
  OBVIOUS
<1>3. x.old = None /\ x.hold = i
  BY <1>2 DEF Idle, At
<1>4. factory' = f /\ client' = [client EXCEPT ![c] = x]
  BY <1>1, <1>2 DEF Granted
<1>5. \A d \in Clients : client'[d] = IF d = c THEN x ELSE client[d]
  BY <1>1, <1>4
<1>6. \A j \in Instances : factory.obj[j].usages[c] = {}
  BY <1>1, FactoryConstants DEF Owned
<1> QED
  BY <1>3, <1>4, <1>5, <1>6 DEF Unchanging, Owned, Attaches

LEMMA RefusedOwned ==
    ASSUME Inv, Unchanging, Owned, NEW c \in Clients,
           client[c].pc \in {"get", "preempt", "callback", "recheck"},
           NEW f, Fewer(factory, f), Refused(c, f)
    PROVE  Unchanging' /\ Owned'
<1>1. client[c].old = None /\ client[c].hold = None
  BY DEF Inv, CallShape, Unchanging
<1>2. PICK x : x = Idle(client[c].old)
  OBVIOUS
<1>3. x.old = None /\ x.hold = None
  BY <1>1, <1>2 DEF Idle, At
<1>4. factory' = f /\ Moves(c, x)
  BY <1>2 DEF Refused, Moves
<1> QED
  BY <1>1, <1>3, <1>4, FewerStep

\* Rewriting the entry of instance i, with what Using attaches.
LEMMA UsingOwned ==
    ASSUME NEW c \in Clients, NEW f \in Factories, OwnUsage(f), Fewer(factory, f),
           NEW i \in Instances, NEW o \in Entries, o.usages = f.obj[i].usages,
           NEW g, g = Entered(f, i, Using(c, o))
    PROVE  g \in Factories /\ Attaches(c, i, g)
<1>1. PICK e : e = Using(c, o)
  OBVIOUS
<1>2. \A d \in Clients : o.usages[d] \subseteq May(d)
  BY DEF OwnUsage
<1>3. e \in Entries /\ \A d \in Clients : d # c => e.usages[d] = o.usages[d]
  BY <1>1, <1>2, UsingIs
<1>4. g \in Factories /\ \A j \in Instances : g.obj[j] = IF j = i THEN e ELSE f.obj[j]
  BY <1>1, <1>3 DEF Entered, Factories
<1>5. ASSUME NEW j \in Instances, NEW d \in Clients, g.obj[j].usages[d] # {}
      PROVE  factory.obj[j].usages[d] # {} \/ (d = c /\ j = i)
  <2> SUFFICES ASSUME ~(d = c /\ j = i)
               PROVE  factory.obj[j].usages[d] # {}
    OBVIOUS
  <2>1. g.obj[j].usages[d] = f.obj[j].usages[d]
    BY <1>3, <1>4
  <2> QED
    BY <1>5, <2>1 DEF Fewer
<1> QED
  BY <1>4, <1>5 DEF Attaches

LEMMA OpenedOwned ==
    ASSUME Inv, Unchanging, Owned, NEW c \in Clients, client[c].pc = "get",
           NEW f, NEW n, Accounts(f, n), Fewer(factory, f), NEW i \in Listed(f), Opened(c, f, i)
    PROVE  Unchanging' /\ Owned'
<1>1. f \in Factories /\ OwnUsage(f) /\ Listing(f) /\ i \in Instances /\ client[c].uri \in Uris
  BY ListedType DEF Accounts, Inv, CallShape
<1>2. ASSUME NEW ready \in BOOLEAN,
             Granted(c, [f EXCEPT !.obj[i] = Using(c, [@ EXCEPT
                        !.uri = client[c].uri, !.freq = Frequency[client[c].uri],
                        !.refcount = 1, !.ready = ready])], i)
      PROVE  Unchanging' /\ Owned'
  <2>1. PICK o : o = [f.obj[i] EXCEPT !.uri = client[c].uri, !.freq = Frequency[client[c].uri],
                                      !.refcount = 1, !.ready = ready]
    OBVIOUS
  <2>2. PICK g : g = Entered(f, i, Using(c, o))
    OBVIOUS
  <2>3. Granted(c, g, i)
    BY <1>2, <2>1, <2>2 DEF Entered
  <2>4. f.obj[i] \in Entries /\ Frequency[client[c].uri] \in Nat
    BY <1>1, FactoryConstants DEF Factories
  <2>5. o \in Entries /\ o.usages = f.obj[i].usages
    BY <1>1, <2>1, <2>4 DEF Entries
  <2>6. Attaches(c, i, g)
    BY <1>1, <2>2, <2>5, UsingOwned
  <2> QED
    BY <1>1, <2>3, <2>6, GrantedOwned
<1>3. CASE Refused(c, Unlisted(f, {i}))
  <2>1. PICK g : g = Unlisted(f, {i})
    OBVIOUS
  <2>2. \A j \in Instances : g.obj[j] = IF j \in {i} THEN Blank ELSE f.obj[j]
    BY <1>1, <2>1, UnlistedIs
  <2>3. Fewer(f, g)
    BY <2>2, BlankType DEF Fewer
  <2>4. Fewer(factory, g) /\ Refused(c, g)
    BY <1>3, <2>1, <2>3, FewerTwice
  <2> QED
    BY <2>4, RefusedOwned
<1> QED
  BY <1>2, <1>3 DEF Opened

LEMMA getQAMSourceInstanceOwned ==
    ASSUME Inv, Unchanging, Owned, NEW c \in Clients, getQAMSourceInstance(c)
    PROVE  Unchanging' /\ Owned'
<1>0. client[c] \in Calls /\ CallShape(client[c]) /\ Accounts(factory, Refs) /\ client[c].old = None
  BY InCall DEF Unchanging
<1>1. PICK uri, used, f, found, cached :
         /\ uri = client[c].uri /\ used = factory.no + factory.low
         /\ f = Swept(factory, uri)
         /\ found = Existing(factory, uri) /\ cached = Reusable(f, uri, used)
  OBVIOUS
<1>2. client[c].pc = "get"
  BY DEF getQAMSourceInstance
<1>3. /\ Accounts(f, Refs) /\ Fewer(factory, f)
      /\ f.no <= factory.no /\ f.low = factory.low
      /\ found # None => found \in Listed(f)
  BY <1>0, <1>1, SweptAccounts
<1>4. f \in Factories /\ OwnUsage(f) /\ Listed(f) \subseteq Instances
  BY <1>3, ListedType DEF Accounts
<1>5. CASE found # None
  <2>1. PICK o : o = [f.obj[found] EXCEPT !.refcount = @ + 1]
    OBVIOUS
  <2>2. PICK h : h = Entered(f, found, Using(c, o))
    OBVIOUS
  <2>3. PICK g : g = MovedToEnd(h, found)
    OBVIOUS
  <2>4. Granted(c, g, found)
    BY <1>1, <1>5, <2>1, <2>2, <2>3 DEF getQAMSourceInstance, Entered, Shared
  <2>5. found \in Instances /\ f.obj[found] \in Entries
    BY <1>3, <1>4, <1>5 DEF Factories
  <2>6. o \in Entries /\ o.usages = f.obj[found].usages
    BY <2>1, <2>5 DEF Entries
  <2>7. h \in Factories /\ Attaches(c, found, h)
    BY <1>3, <1>4, <2>2, <2>5, <2>6, UsingOwned
  <2>8. g.obj = h.obj
    BY <2>3, <2>7 DEF MovedToEnd, Factories
  <2>9. Attaches(c, found, g)
    BY <2>7, <2>8, FewerSame, FewerAttaches
  <2> QED
    BY <1>2, <2>4, <2>5, <2>9, GrantedOwned
<1>6. CASE found = None /\ Refused(c, f)
  BY <1>2, <1>3, <1>6, RefusedOwned
<1>7. CASE found = None /\ cached # None /\ Opened(c, MovedToEnd(f, cached), cached)
  <2>1. PICK g : g = MovedToEnd(f, cached)
    OBVIOUS
  <2>2. cached \in Listed(f)
    BY <1>1, <1>3, <1>7, ReusableIs
  <2>3. Accounts(g, Refs) /\ Listed(g) = Listed(f) /\ g.obj = f.obj
    BY <1>3, <2>1, <2>2, MovedAccounts
  <2>4. Fewer(factory, g)
    BY <1>3, <2>3, FewerSame, FewerTwice
  <2>5. Opened(c, g, cached) /\ cached \in Listed(g)
    BY <1>7, <2>1, <2>2, <2>3
  <2> QED
    BY <1>2, <2>3, <2>4, <2>5, OpenedOwned
<1>8. CASE factory' = f /\ client' = [client EXCEPT ![c].pc = "preempt"]
  <2>1. PICK x : x = [client[c] EXCEPT !.pc = "preempt"]
    OBVIOUS
  <2>2. x.hold = client[c].hold /\ x.old = client[c].old
    BY <1>0, <2>1 DEF Calls
  <2>3. Moves(c, x)
    BY <1>8, <2>1 DEF Moves
  <2> QED
    BY <1>0, <1>3, <1>8, <2>2, <2>3, FewerStep
<1>9. ASSUME found = None, used # numberOfTuners, NEW i \in Instances \ Listed(f),
             Opened(c, [f EXCEPT !.list = Append(@, i), !.no = @ + 1], i)
      PROVE  Unchanging' /\ Owned'
  <2>1. PICK g : g = Appended(f, i)
    OBVIOUS
  <2>2. f.no + f.low < numberOfTuners
    <3>1. /\ factory.no + factory.low <= numberOfTuners
          /\ factory.no \in Nat /\ factory.low \in Nat /\ f.no \in Nat
      BY <1>0, <1>3 DEF Accounts, Factories
    <3> QED
      BY <1>1, <1>3, <1>9, <3>1, FactoryConstants
  <2>3. Accounts(g, Refs) /\ Listed(g) = Listed(f) \cup {i} /\ g.obj = f.obj
    <3>1. Accounts(f, Refs) /\ i \in Instances \ Listed(f)
      BY <1>3, <1>9
    <3> QED
      BY <2>1, <2>2, <3>1, AppendedAccounts
  <2>4. Fewer(factory, g) /\ i \in Listed(g)
    BY <1>3, <2>3, FewerSame, FewerTwice
  <2>5. Opened(c, g, i)
    BY <1>9, <2>1, SMTT(30) DEF Appended
  <2> QED
    BY <1>2, <2>3, <2>4, <2>5, OpenedOwned
<1>10. found = None =>
          \/ Refused(c, f)
          \/ cached # None /\ Opened(c, MovedToEnd(f, cached), cached)
          \/ factory' = f /\ client' = [client EXCEPT ![c].pc = "preempt"]
          \/ /\ used # numberOfTuners
             /\ \E i \in Instances \ Listed(f) :
                  Opened(c, [f EXCEPT !.list = Append(@, i), !.no = @ + 1], i)
  BY <1>1 DEF getQAMSourceInstance
<1> QED
  BY <1>5, <1>6, <1>7, <1>8, <1>9, <1>10

LEMMA TryAgainOwned ==
    ASSUME Inv, Unchanging, Owned, NEW c \in Clients, client[c].pc \in {"preempt", "callback"},
           NEW f, Fewer(factory, f), TryAgain(c, f)
    PROVE  Unchanging' /\ Owned'
<1>0. client[c] \in Calls /\ client[c].old = None
  BY InCall DEF Unchanging
<1>1. CASE check_for_free_qamsrc(f)
  <2>1. PICK x : x = [client[c] EXCEPT !.pc = "get", !.victim = None, !.told = None]
    OBVIOUS
  <2>2. x.hold = client[c].hold /\ x.old = client[c].old
    BY <1>0, <2>1 DEF Calls
  <2>3. Moves(c, x) /\ factory' = f
    BY <1>1, <2>1 DEF TryAgain, Moves
  <2> QED
    BY <1>0, <2>2, <2>3, FewerStep
<1>2. CASE ~check_for_free_qamsrc(f)
  <2>1. Refused(c, f)
    BY <1>2 DEF TryAgain
  <2> QED
    BY <2>1, RefusedOwned
<1> QED
  BY <1>1, <1>2

LEMMA preemptOwned ==
    ASSUME Inv, Unchanging, Owned, NEW c \in Clients, preempt(c)
    PROVE  Unchanging' /\ Owned'
<1>0. client[c] \in Calls /\ client[c].old = None /\ factory \in Factories
  BY InCall DEF Unchanging, Accounts
<1>1. PICK v : v = findQAMSrcToPreempt(factory, RequestedUsage(c))
  OBVIOUS
<1>2. client[c].pc = "preempt"
  BY DEF preempt
<1>3. CASE v = None
  <2>1. TryAgain(c, factory) /\ Fewer(factory, factory)
    BY <1>1, <1>3 DEF preempt, Fewer
  <2> QED
    BY <1>2, <2>1, TryAgainOwned
<1>4. CASE v # None
  <2>1. v \in Instances
    BY <1>0, <1>1, <1>4, ChosenIs, ListedType
  <2>2. PICK b \in Entries : b = factory.obj[v]
    BY <1>0, <2>1 DEF Factories
  <2>3. PICK e : e = prepForPreemption(b)
    OBVIOUS
  <2>4. \A d \in Clients : e.usages[d] = {}
    BY <2>2, <2>3 DEF prepForPreemption, Entries
  <2>5. factory' = Entered(factory, v, e)
    BY <1>1, <1>4, <2>2, <2>3 DEF preempt, Entered
  <2>6. \A j \in Instances : factory'.obj[j] = IF j = v THEN e ELSE factory.obj[j]
    BY <1>0, <2>1, <2>5 DEF Entered, Factories
  <2>7. Fewer(factory, factory')
    BY <2>4, <2>6 DEF Fewer
  <2>8. PICK t \in Clients :
           client' = [client EXCEPT ![c] = [@ EXCEPT !.pc = "callback", !.victim = v, !.told = t]]
    BY <1>1, <1>4 DEF preempt
  <2>9. PICK x : x = [client[c] EXCEPT !.pc = "callback", !.victim = v, !.told = t]
    OBVIOUS
  <2>10. x.hold = client[c].hold /\ x.old = client[c].old /\ Moves(c, x)
    BY <1>0, <2>8, <2>9 DEF Calls, Moves
  <2> QED
    BY <1>0, <2>7, <2>10, FewerStep
<1> QED
  BY <1>3, <1>4

\* The reference given back after a release callback has no usage.
LEMMA GivenBackOwned ==
    ASSUME Inv, NEW c \in Clients, client[c].pc = "callback",
           NEW g, g = freeWithoutToken(factory, client[c].victim)
    PROVE  Fewer(factory, g)
<1>0. /\ client[c] \in Calls /\ CallShape(client[c]) /\ Accounts(factory, Refs)
      /\ \A j \in Instances : Refs[j] \in Nat
  BY InCall
<1>1. PICK v : v = client[c].victim
  OBVIOUS
<1>2. v \in Instances
  BY <1>0, <1>1 DEF Calls, CallShape
<1>3. Refs[v] > 0
  BY <1>1, <1>2, Held
<1>4. PICK k : k = [j \in Instances |-> IF j = v THEN Refs[j] - 1 ELSE Refs[j]]
  OBVIOUS
<1>5. k \in Counts /\ \A j \in Instances : k[j] = IF j = v THEN Refs[j] - 1 ELSE Refs[j]
  BY <1>0, <1>3, <1>4 DEF Counts
<1> QED
  BY <1>0, <1>1, <1>2, <1>3, <1>5, FreeWithoutToken

LEMMA CallbackReturnsOwned ==
    ASSUME Inv, Unchanging, Owned, NEW c \in Clients, CallbackReturns(c) \/ CallbackReturnsError(c)
    PROVE  Unchanging' /\ Owned'
<1>0. client[c] \in Calls /\ client[c].old = None
  BY InCall DEF Unchanging
<1>1. client[c].pc = "callback"
  BY DEF CallbackReturns, CallbackReturnsError
<1>2. PICK g : g = freeWithoutToken(factory, client[c].victim)
  OBVIOUS
<1>3. Fewer(factory, g)
  BY <1>1, <1>2, GivenBackOwned
<1>4. CASE CallbackReturns(c)
  <2>1. TryAgain(c, g)
    BY <1>2, <1>4 DEF CallbackReturns
  <2> QED
    BY <1>1, <1>3, <2>1, TryAgainOwned
<1>5. CASE CallbackReturnsError(c)
  <2>1. PICK x : x = [client[c] EXCEPT !.pc = "recheck", !.victim = None, !.told = None,
                                       !.short = (client[c].old # None)]
    OBVIOUS
  <2>2. x.hold = client[c].hold /\ x.old = client[c].old
    BY <1>0, <2>1 DEF Calls
  <2>3. Moves(c, x) /\ factory' = g
    BY <1>2, <1>5, <2>1 DEF CallbackReturnsError, Moves
  <2> QED
    BY <1>0, <1>3, <2>2, <2>3, FewerStep
<1> QED
  BY <1>4, <1>5

LEMMA RecheckOwned ==
    ASSUME Inv, Unchanging, Owned, NEW c \in Clients, Recheck(c)
    PROVE  Unchanging' /\ Owned'
<1>0. client[c] \in Calls /\ client[c].old = None /\ client[c].pc = "recheck"
  BY InCall DEF Unchanging, Recheck
<1>1. Fewer(factory, factory)
  BY DEF Fewer
<1>2. CASE client' = [client EXCEPT ![c].pc = "get"] /\ factory' = factory
  <2>1. PICK x : x = [client[c] EXCEPT !.pc = "get"]
    OBVIOUS
  <2>2. x.hold = client[c].hold /\ x.old = client[c].old
    BY <1>0, <2>1 DEF Calls
  <2>3. Moves(c, x) /\ Fewer(factory, factory')
    BY <1>1, <1>2, <2>1 DEF Moves
  <2> QED
    BY <1>0, <2>2, <2>3, FewerStep
<1>3. CASE Refused(c, factory)
  BY <1>0, <1>1, <1>3, RefusedOwned
<1> QED
  BY <1>2, <1>3 DEF Recheck

LEMMA RequestOwned ==
    ASSUME Inv, Unchanging, Owned, NEW c \in Clients, NEW uri \in Uris, Request(c, uri)
    PROVE  Unchanging' /\ Owned'
<1>1. PICK x : x = At("get", uri, None, None)
  OBVIOUS
<1>2. x.hold = None /\ x.old = None
  BY <1>1 DEF At
<1>3. client[c].hold = None /\ Moves(c, x) /\ Fewer(factory, factory')
  BY <1>1 DEF Request, Moves, Fewer
<1> QED
  BY <1>2, <1>3, FewerStep

LEMMA FreeOwned ==
    ASSUME Inv, Unchanging, Owned, NEW c \in Clients, Free(c)
    PROVE  Unchanging' /\ Owned'
<1>0. /\ client[c] \in Calls /\ Accounts(factory, Refs) /\ client \in [Clients -> Calls]
      /\ client[c].hold \in Instances => client[c].hold \in Listed(factory)
  BY InCall DEF Inv, Typed
<1>1. PICK x, i, m : x = Idle(None) /\ i = client[c].hold /\ m = OneLess(i)
  OBVIOUS
<1>2. i # None /\ client' = [client EXCEPT ![c] = x]
      /\ factory' = freeQAMSourceInstance(factory, i, c)
  BY <1>1 DEF Free
<1>3. i \in Instances /\ i \in Listed(factory)
  BY <1>0, <1>1, <1>2 DEF Calls
<1>4. /\ m \in Counts /\ Refs[i] > 0
      /\ \A j \in Instances : m[j] = IF j = i THEN Refs[j] - 1 ELSE Refs[j]
  BY <1>1, <1>3, OneLessIs
<1>5. Fewer(factory, factory') /\ factory'.obj[i].usages[c] = {}
  BY <1>0, <1>2, <1>3, <1>4, FreeAccounts
<1>6. x.hold = None /\ x.old = None
  BY <1>1 DEF Idle, At
<1>7. \A d \in Clients : client'[d] = IF d = c THEN x ELSE client[d]
  BY <1>0, <1>2
<1>8. \A j \in Instances : factory'.obj[j].usages[c] = {}
  BY <1>1, <1>5 DEF Owned, Fewer
<1>9. \A j \in Instances, d \in Clients : factory'.obj[j].usages[d] # {} => client'[d].hold = j
  BY <1>5, <1>7, <1>8 DEF Owned, Fewer
<1> QED
  BY <1>6, <1>7, <1>9 DEF Unchanging, Owned

LEMMA OthersOwned ==
    ASSUME Inv, Unchanging, Owned,
           \/ getLowLevelElement \/ freeLowLevelElement \/ freeCachedQAMSourceInstances
           \/ \E i \in Instances : readyForReUse(i)
    PROVE  Unchanging' /\ Owned'
<1>0. factory \in Factories /\ Listing(factory)
  BY DEF Inv, Accounts
<1>1. client' = client
  BY DEF getLowLevelElement, freeLowLevelElement, freeCachedQAMSourceInstances, readyForReUse
<1>2. ASSUME NEW S \in SUBSET Listed(factory), NEW g, g = Unlisted(factory, S)
      PROVE  g \in Factories /\ Fewer(factory, g)
  <2>1. g \in Factories /\ \A j \in Instances : g.obj[j] = IF j \in S THEN Blank ELSE factory.obj[j]
    BY <1>0, <1>2, UnlistedIs
  <2> QED
    BY <2>1, BlankType DEF Fewer
<1>3. ASSUME getLowLevelElement
      PROVE  Fewer(factory, factory')
  <2>1. PICK evicted, f :
           /\ evicted = FirstOf(factory, Unused(factory))
           /\ f = IF factory.no + factory.low = numberOfTuners THEN Unlisted(factory, {evicted})
                                                               ELSE factory
           /\ factory.no + factory.low = numberOfTuners => evicted # None
           /\ factory' \in {f, [f EXCEPT !.low = @ + 1]}
    BY <1>3 DEF getLowLevelElement
  <2>2. f \in Factories /\ Fewer(factory, f)
    <3>1. CASE factory.no + factory.low = numberOfTuners
      <4>1. evicted \in Listed(factory) /\ f = Unlisted(factory, {evicted})
        BY <1>0, <2>1, <3>1, FirstIs DEF Unused
      <4> QED
        BY <1>2, <4>1
    <3>2. CASE factory.no + factory.low # numberOfTuners
      BY <1>0, <2>1, <3>2 DEF Fewer
    <3> QED
      BY <3>1, <3>2
  <2>3. factory'.obj = f.obj
    BY <2>1, <2>2 DEF Factories
  <2> QED
    BY <2>2, <2>3, FewerSame, FewerTwice
<1>4. ASSUME freeLowLevelElement
      PROVE  Fewer(factory, factory')
  <2>1. factory'.obj = factory.obj
    BY <1>0, <1>4 DEF freeLowLevelElement, Factories
  <2> QED
    BY <2>1, FewerSame
<1>5. ASSUME freeCachedQAMSourceInstances
      PROVE  Fewer(factory, factory')
  <2>1. Unused(factory) \subseteq Listed(factory) /\ factory' = Unlisted(factory, Unused(factory))
    BY <1>5 DEF freeCachedQAMSourceInstances, Unused
  <2> QED
    BY <1>2, <2>1
<1>6. ASSUME NEW i \in Instances, readyForReUse(i)
      PROVE  Fewer(factory, factory')
  <2>1. PICK b \in Entries : b = factory.obj[i]
    BY <1>0 DEF Factories
  <2>2. PICK e : e = [b EXCEPT !.ready = ~@]
    OBVIOUS
  <2>3. e.usages = b.usages /\ factory' = Entered(factory, i, e)
    BY <1>6, <2>1, <2>2 DEF Entries, readyForReUse, Entered
  <2>4. \A j \in Instances : factory'.obj[j] = IF j = i THEN e ELSE factory.obj[j]
    BY <1>0, <2>3 DEF Entered, Factories
  <2> QED
    BY <2>1, <2>3, <2>4 DEF Fewer
<1> QED
  BY <1>1, <1>3, <1>4, <1>5, <1>6, FewerElsewhere

\* The usages pre-emption goes by belong to clients that have the instance, as long as
\* nobody calls changeURI: attachUsage, detachUsage and prepForPreemption keep pace with
\* the references, across failing opens, failing callbacks and pre-emptions.
THEOREM FactoryUsagesAreUsers ==
    ASSUME Changing = {}
    PROVE  Spec => []UsagesAreUsers
<1>1. Init => Unchanging /\ Owned
  <2> SUFFICES ASSUME Init
               PROVE  Unchanging /\ Owned
    OBVIOUS
  <2>1. \A c \in Clients : client[c] = Idle(None)
    BY DEF Init
  <2>2. Idle(None).old = None
    BY DEF Idle, At
  <2>3. \A i \in Instances : factory.obj[i] = Blank
    BY DEF Init
  <2> QED
    BY <2>1, <2>2, <2>3, BlankType DEF Unchanging, Owned
<1>2. ASSUME Inv, Unchanging, Owned, [Next]_vars
      PROVE  Unchanging' /\ Owned'
  <2> USE <1>2
  <2>1. ASSUME NEW c \in Clients, CallStep(c)
        PROVE  Unchanging' /\ Owned'
    <3>1. ~FreeOld(c)
      BY DEF FreeOld, Inv, CallShape, Unchanging
    <3> QED
      BY <2>1, <3>1, getQAMSourceInstanceOwned, preemptOwned, CallbackReturnsOwned, RecheckOwned
      DEF CallStep
  <2>2. ASSUME NEW c \in Clients, Free(c)
        PROVE  Unchanging' /\ Owned'
    BY <2>2, FreeOwned
  <2>3. ASSUME NEW c \in Clients, NEW uri \in Uris, Request(c, uri)
        PROVE  Unchanging' /\ Owned'
    BY <2>3, RequestOwned
  <2>4. CASE UNCHANGED vars
    BY <2>4 DEF vars, Unchanging, Owned
  <2> QED
    BY <2>1, <2>2, <2>3, <2>4, OthersOwned DEF Next
<1>3. Unchanging /\ Owned /\ Inv => UsagesAreUsers
  <2> SUFFICES ASSUME Owned, Inv
               PROVE  UsagesAreUsers
    OBVIOUS
  <2>1. Listed(factory) \subseteq Instances
    BY ListedType DEF Inv, Accounts
  <2> QED
    BY <2>1 DEF Owned, UsagesAreUsers, Users
<1>4. Inv /\ Unchanging /\ Owned /\ [Next]_vars => Unchanging' /\ Owned'
  BY <1>2
<1> QED
  BY <1>1, <1>3, <1>4, InvHolds, PTL DEF Spec

=============================================================================
