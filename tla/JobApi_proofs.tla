---------------------------- MODULE JobApi_proofs ----------------------------
(***************************************************************************)
(* Proofs about JobApi, for any page size, length of the log and number of *)
(* rows, appenders, changes and failures, any batch, and any roots, paths  *)
(* and trees on the NAS.  The NAS half is in Destination_proofs.           *)
(***************************************************************************)
EXTENDS JobApi, Destination_proofs

-----------------------------------------------------------------------------
(* The ends of a finite set of ids, and its newest members. *)

LEMMA LargestExists ==
  ASSUME NEW n \in Nat, NEW S \in SUBSET (1..n), S # {}
  PROVE  \E x \in S : \A y \in S : y <= x
<1> DEFINE T == {k \in Nat : n - k \in S}
<1>1. \A x \in S : x \in Nat /\ x <= n /\ n - x \in Nat /\ n - (n - x) = x
  OBVIOUS
<1>2. T \in SUBSET Nat /\ T # {}
  BY <1>1
<1>3. PICK k \in T : \A i \in T : k <= i
  <2> HIDE DEF T
  <2> QED
    BY <1>2, SmallestExists
<1>4. n - k \in S /\ \A y \in S : n - y \in T
  BY <1>1
<1>5. \A y \in S : y <= n - k
  <2> SUFFICES ASSUME NEW y \in S PROVE y <= n - k
    OBVIOUS
  <2>1. k <= n - y /\ k \in Nat /\ y \in Nat
    BY <1>1, <1>3, <1>4
  <2> QED
    BY <2>1
<1> QED
  BY <1>4, <1>5

LEMMA PartsAreFinite ==
  ASSUME NEW n \in Nat, NEW S \in SUBSET (1..n)
  PROVE  IsFiniteSet(S) /\ Cardinality(S) \in Nat
<1>1. IsFiniteSet(1..n)
  BY FS_Interval
<1> QED
  BY <1>1, FS_Subset, FS_CardinalityType

(* The newest n of S are what has fewer than n members above it: a member      *)
(* above one of them is one of them, they are n at most, and all of S if they  *)
(* are fewer.                                                                  *)
LEMMA NewestFacts ==
  ASSUME NEW N \in Nat, NEW S \in SUBSET (1..N), NEW n \in Nat \ {0}
  PROVE  /\ Newest(S, n) \subseteq S
         /\ \A m \in Newest(S, n), j \in S : j >= m => j \in Newest(S, n)
         /\ Cardinality(Newest(S, n)) <= n
         /\ Cardinality(Newest(S, n)) < n => Newest(S, n) = S
<1> DEFINE Above(x) == {i \in S : i > x}
           New == Newest(S, n)
<1>1. New = {j \in S : Cardinality(Above(j)) < n} /\ New \in SUBSET (1..N)
  BY DEF Newest
<1>2. \A x \in S : Above(x) \in SUBSET (1..N) /\ Cardinality(Above(x)) \in Nat
  BY PartsAreFinite
<1>i. \A x \in S : x \in Int
  OBVIOUS
<1>3. ASSUME NEW m \in New, NEW j \in S, j >= m PROVE j \in New
  <2>1. Above(j) \subseteq Above(m) /\ m \in S
    <3>1. m \in S /\ j \in Int /\ m \in Int /\ \A i \in S : i \in Int
      BY <1>1
    <3>2. ASSUME NEW i \in S, i > j PROVE i > m
      <4>1. i \in Int /\ j \in Int /\ m \in Int
        BY <3>1
      <4> QED
        BY <1>3, <3>2, <4>1
    <3> QED
      BY <3>1, <3>2
  <2>2. Cardinality(Above(j)) <= Cardinality(Above(m))
    BY <1>2, <2>1, PartsAreFinite, FS_Subset
  <2> QED
    BY <1>1, <1>2, <2>1, <2>2
<1>4. Cardinality(New) <= n
  <2>1. CASE New = {}
    BY <2>1, FS_EmptySet
  <2>2. CASE New # {}
    <3>1. PICK m \in New : \A y \in New : m <= y
      <4>1. New \in SUBSET Nat
        BY <1>1
      <4> QED
        BY <2>2, <4>1, SmallestExists
    <3>2. m \in S /\ Cardinality(Above(m)) < n
      BY <1>1
    <3>3. New \ {m} \subseteq Above(m)
      <4>1. \A y \in New \ {m} : y \in S /\ y \in Int /\ m \in Int /\ m <= y /\ y # m
        BY <1>1, <1>i, <3>1, <3>2
      <4> QED
        BY <4>1
    <3>4. Cardinality(New \ {m}) <= Cardinality(Above(m))
      BY <1>2, <3>2, <3>3, PartsAreFinite, FS_Subset
    <3>5. Cardinality(New) \in Nat /\ Cardinality(New \ {m}) = Cardinality(New) - 1
      BY <1>1, <3>1, PartsAreFinite, FS_RemoveElement
    <3> QED
      BY <1>2, <3>2, <3>4, <3>5
  <2> QED
    BY <2>1, <2>2
<1>5. ASSUME Cardinality(New) < n PROVE New = S
  <2> SUFFICES ASSUME S \ New # {} PROVE FALSE
    BY <1>1
  <2>1. PICK m \in S \ New : \A y \in S \ New : y <= m
    BY LargestExists
  <2>2. Above(m) \subseteq New
    <3>1. \A y \in Above(m) : y \in S /\ y \in Int /\ m \in Int /\ y > m
      BY <1>i, <2>1
    <3>2. ASSUME NEW y \in Above(m) PROVE y \in New
      <4>1. ~(y <= m)
        BY <3>1
      <4> HIDE DEF New, Above
      <4> QED
        BY <2>1, <3>1, <4>1
    <3> QED
      BY <3>2
  <2>3. Cardinality(Above(m)) <= Cardinality(New)
    BY <1>1, <2>2, PartsAreFinite, FS_Subset
  <2>4. Cardinality(New) \in Nat /\ Cardinality(Above(m)) \in Nat /\ Cardinality(New) < n
    BY <1>1, <1>2, <1>5, <2>1, PartsAreFinite
  <2>5. Cardinality(Above(m)) < n
    <3> HIDE DEF New, Above
    <3> QED
      BY <2>3, <2>4
  <2> QED
    BY <1>1, <2>1, <2>5
<1> QED
  BY <1>1, <1>3, <1>4, <1>5

-----------------------------------------------------------------------------
(* The steps that touch neither the jobs nor their server. *)
Elsewhere ==
    \/ RequestBegins \/ Validates \/ Refused \/ QueueFails \/ QueueEnds
    \/ MkdirStep \/ MkdirEnds \/ OthersOnNas

LEMMA ElsewhereFrame ==
  ASSUME Elsewhere
  PROVE  UNCHANGED <<use, table, list, ring>>
<1> USE DEF OnlyBatch
<1>1. ASSUME RequestBegins \/ Validates \/ MkdirStep \/ OthersOnNas
      PROVE  UNCHANGED <<use, table, list, ring>>
  BY <1>1 DEF RequestBegins, Validates, MkdirStep, OthersOnNas
<1>2. ASSUME Refused \/ QueueFails \/ QueueEnds \/ MkdirEnds
      PROVE  UNCHANGED <<use, table, list, ring>>
  BY <1>2 DEF Refused, QueueFails, QueueEnds, MkdirEnds
<1> QED
  BY <1>1, <1>2 DEF Elsewhere

(* What a step does to the answer of the request. *)
LEMMA ElsewhereAnswer ==
  ASSUME Elsewhere
  PROVE  answer' = answer \/ (answer' # "none" /\ (use # "list" \/ answer' = "error"))
  BY DEF Elsewhere, RequestBegins, Validates, Refused, QueueFails, QueueEnds, MkdirStep, MkdirEnds,
         OthersOnNas, Queueing, Answers, batch

-----------------------------------------------------------------------------
(* No job outlives its server: the statement that inserts one fails without    *)
(* it, whatever createJobs saw before, and the one that deletes it takes its   *)
(* jobs along.                                                                 *)
LEMMA NextNoOrphans == NoOrphans /\ [Next]_vars => NoOrphans'
<1> SUFFICES ASSUME NoOrphans, [Next]_vars PROVE NoOrphans'
  OBVIOUS
<1> USE DEF NoOrphans
<1>1. ASSUME UNCHANGED <<server, rows>> PROVE NoOrphans'
  BY <1>1 DEF Rows
<1>2. CASE Elsewhere
  <2>1. UNCHANGED <<server, rows>>
    BY <1>2, ElsewhereFrame DEF table
  <2> QED
    BY <1>1, <2>1
<1>3. CASE QueueItem \/ OthersInsert
  <2>1. server /\ UNCHANGED server
    BY <1>3 DEF QueueItem, OthersInsert, Insert
  <2> QED
    BY <2>1
<1>4. CASE OthersMove \/ OthersDelete
  <2>1. Rows # {} /\ UNCHANGED server
    BY <1>4 DEF OthersMove, OthersDelete
  <2> QED
    BY <2>1
<1>5. CASE OthersDeleteServer
  <2>1. rows' = [j \in Ids |-> NoRow]
    BY <1>5 DEF OthersDeleteServer
  <2>2. Rows' = {}
    BY <2>1 DEF Rows
  <2> QED
    BY <2>2
<1>6. CASE ListPage \/ \E a \in Appenders : LogInsert(a) \/ LogTrim(a) \/ LogTrimFails(a)
  <2>1. UNCHANGED <<server, rows>>
    BY <1>6 DEF ListPage, LogInsert, LogTrim, LogTrimFails, table
  <2> QED
    BY <1>1, <2>1
<1>7. CASE UNCHANGED vars
  BY <1>1, <1>7 DEF vars, table
<1> QED
  BY <1>2, <1>3, <1>4, <1>5, <1>6, <1>7 DEF Next, Elsewhere

(* No job is ever left without its server, for any number of batches' rows and *)
(* changes by others.                                                          *)
THEOREM NoOrphansHolds == Spec => []NoOrphans
<1>1. Init => NoOrphans
  BY DEF Init, NoOrphans
<1> QED
  BY <1>1, NextNoOrphans, PTL DEF Spec

-----------------------------------------------------------------------------
(* Paging.  The cursor is the oldest id the client was shown: whatever matched *)
(* all the time is behind it, and shown, or still before it.                   *)
PageInv ==
    /\ DOMAIN rows = Ids
    /\ steady \subseteq {j \in Ids : j < nextId /\ Matches(j)}
    /\ nextId \in Nat \ {0} /\ cursor \in Nat
    /\ seen \in Seq(SUBSET Ids)
    /\ \A i \in 1..Len(seen) : \A x \in seen[i] : cursor # 0 => x >= cursor
    /\ \A i, k \in 1..Len(seen) : i < k => \A x \in seen[i], y \in seen[k] : x > y
    /\ cursor = 0 /\ answer = "none" => seen = << >>
    /\ use = "list" =>
         \A j \in steady : answer = "ok" \/ (cursor # 0 /\ j >= cursor) => \E i \in 1..Len(seen) : j \in seen[i]

LEMMA InitPageInv == Init => PageInv
<1> SUFFICES ASSUME Init PROVE PageInv
  OBVIOUS
<1>1. FirstJobs \in Nat /\ MaxJobs \in Nat /\ FirstJobs <= MaxJobs
  BY SizesAssumption
<1>2. nextId \in {1, FirstJobs + 1} /\ 1..nextId - 1 \subseteq Ids /\ nextId \in Nat \ {0}
  <2>1. nextId = IF use = "list" THEN FirstJobs + 1 ELSE 1
    BY DEF Init
  <2> QED
    BY <1>1, <2>1 DEF Ids
<1>3. PICK M \in SUBSET (1..nextId - 1) :
        rows = [j \in Ids |-> IF j < nextId THEN [dest |-> Nowhere, matches |-> j \in M] ELSE NoRow]
  BY DEF Init
<1>4. steady = {j \in 1..nextId - 1 : rows[j].matches}
  BY DEF Init
<1>5. \A j \in 1..nextId - 1 : j \in Ids /\ j < nextId /\ rows[j] = [dest |-> Nowhere, matches |-> j \in M]
  BY <1>2, <1>3
<1>6. steady \subseteq {j \in Ids : j < nextId /\ Matches(j)}
  <2> SUFFICES ASSUME NEW j \in steady PROVE j \in Ids /\ j < nextId /\ Matches(j)
    OBVIOUS
  <2>1. j \in 1..nextId - 1 /\ rows[j].matches
    BY <1>4
  <2>2. j \in Ids /\ j < nextId /\ rows[j] = [dest |-> Nowhere, matches |-> j \in M]
    BY <1>5, <2>1
  <2>3. (j \in M) \in BOOLEAN
    OBVIOUS
  <2>4. rows[j] # NoRow
    BY <2>2, <2>3, RowsAssumption, Zenon
  <2> QED
    BY <2>1, <2>2, <2>4 DEF Matches
<1>7. cursor = 0 /\ seen = << >> /\ answer = "none"
  BY DEF Init
<1>8. DOMAIN rows = Ids
  BY <1>3
<1> QED
  BY <1>2, <1>6, <1>7, <1>8 DEF PageInv

(* The steps that show nothing. *)
LEMMA PageFrame ==
  ASSUME PageInv, UNCHANGED <<use, cursor, seen>>,
         DOMAIN rows' = Ids, nextId' \in Nat \ {0}, steady' \subseteq steady,
         \A j \in steady' : j < nextId' /\ Matches(j)',
         answer' = answer \/ (answer' # "none" /\ (use # "list" \/ answer' = "error"))
  PROVE  PageInv'
  BY DEF PageInv

(* One page: what matches and is older than the cursor, as far as it fits. *)
LEMMA ListPageKeepsPageInv ==
  ASSUME PageInv, ListPage
  PROVE  PageInv'
<1> DEFINE S == {j \in Rows : Matches(j) /\ (cursor = 0 \/ j < cursor)}
           P == Newest(S, PageSize)
<1>1. /\ Page = P /\ seen' = Append(seen, P) /\ cursor' = nextCursor(P)
      /\ UNCHANGED <<use, rows, nextId, steady>>
      /\ answer = "none" /\ answer' = IF cursor' = 0 THEN "ok" ELSE answer
  BY DEF ListPage, Page, Answers, table
<1>2. S \in SUBSET (1..MaxJobs) /\ MaxJobs \in Nat /\ PageSize \in Nat \ {0}
  BY SizesAssumption DEF Rows, Ids
<1>3. /\ P \subseteq S
      /\ \A m \in P, j \in S : j >= m => j \in P
      /\ Cardinality(P) < PageSize => P = S
  <2> HIDE DEF S
  <2> QED
    BY <1>2, NewestFacts
<1>4. /\ \A j \in S : j \in Nat \ {0} /\ j \in Ids /\ (cursor # 0 => j < cursor)
      /\ seen \in Seq(SUBSET Ids) /\ cursor \in Nat
  BY <1>2 DEF PageInv, Ids
<1>5. \A j \in steady : j \in Nat /\ (j \in S \/ (cursor # 0 /\ j >= cursor))
  BY <1>2 DEF PageInv, Rows, Ids, Matches
<1> HIDE DEF S, P
<1>7. \/ cursor' = 0 /\ P = S
      \/ cursor' \in P /\ \A x \in P : cursor' <= x
  <2>1. CASE Cardinality(P) < PageSize
    BY <1>1, <1>3, <2>1 DEF nextCursor
  <2>2. CASE ~(Cardinality(P) < PageSize)
    <3>1. P # {}
      BY <1>2, <2>2, FS_EmptySet
    <3>2. P \in SUBSET Nat
      BY <1>3, <1>4
    <3>3. \E j \in P : \A i \in P : j <= i
      BY <3>1, <3>2, SmallestExists
    <3>4. cursor' = CHOOSE j \in P : \A i \in P : j <= i
      BY <1>1, <2>2 DEF nextCursor
    <3> QED
      BY <3>3, <3>4, Zenon
  <2> QED
    BY <2>1, <2>2
<1>8. cursor' \in Nat /\ (cursor' # 0 => cursor' \in P /\ \A x \in P : x >= cursor')
  BY <1>3, <1>4, <1>7
<1>9. /\ seen' \in Seq(SUBSET Ids) /\ Len(seen') = Len(seen) + 1 /\ Len(seen) \in Nat
      /\ seen'[Len(seen) + 1] = P /\ \A i \in 1..Len(seen) : seen'[i] = seen[i]
      /\ \A i \in 1..Len(seen') : i \in 1..Len(seen) \/ i = Len(seen) + 1
  BY <1>1, <1>3, <1>4
<1>10. \A i \in 1..Len(seen) : seen[i] \subseteq Nat /\ \A x \in seen[i], y \in P : x > y
  <2> SUFFICES ASSUME NEW i \in 1..Len(seen)
               PROVE  seen[i] \subseteq Nat /\ \A x \in seen[i], y \in P : x > y
    OBVIOUS
  <2>1. seen[i] \subseteq Ids /\ Ids \subseteq Nat
    BY <1>4 DEF Ids
  <2>2. cursor # 0
    BY <1>1, <1>9 DEF PageInv
  <2>3. \A x \in seen[i] : x >= cursor
    BY <2>2 DEF PageInv
  <2>4. \A y \in P : y \in Nat /\ y < cursor
    BY <1>3, <1>4, <2>2
  <2>5. ASSUME NEW x \in seen[i], NEW y \in P PROVE x > y
    <3>1. x \in Nat /\ y \in Nat /\ cursor \in Nat /\ x >= cursor /\ y < cursor
      BY <1>4, <2>1, <2>3, <2>4
    <3> QED
      BY <3>1
  <2> QED
    BY <2>1, <2>5
<1>11. \A i \in 1..Len(seen') : \A x \in seen'[i] : cursor' # 0 => x >= cursor'
  BY <1>3, <1>4, <1>8, <1>9, <1>10
<1>12. \A i, k \in 1..Len(seen') : i < k => \A x \in seen'[i], y \in seen'[k] : x > y
  <2> SUFFICES ASSUME NEW i \in 1..Len(seen'), NEW k \in 1..Len(seen'), i < k
               PROVE  \A x \in seen'[i], y \in seen'[k] : x > y
    OBVIOUS
  <2>1. i \in 1..Len(seen)
    BY <1>9
  <2>2. CASE k = Len(seen) + 1
    BY <1>9, <1>10, <2>1, <2>2
  <2>3. CASE k \in 1..Len(seen)
    BY <1>9, <2>1, <2>3 DEF PageInv
  <2> QED
    BY <1>9, <2>2, <2>3
<1>13. ASSUME use = "list", NEW j \in steady, answer' = "ok" \/ (cursor' # 0 /\ j >= cursor')
       PROVE  \E i \in 1..Len(seen') : j \in seen'[i]
  <2>1. CASE cursor # 0 /\ j >= cursor
    <3>1. PICK i \in 1..Len(seen) : j \in seen[i]
      BY <1>13, <2>1 DEF PageInv
    <3> QED
      BY <1>9, <3>1
  <2>2. CASE j \in S
    <3>1. j \in P
      <4>1. cursor' = 0 \/ (cursor' # 0 /\ j >= cursor')
        BY <1>1, <1>13
      <4>2. cursor' = 0 => P = S
        BY <1>3, <1>4, <1>7
      <4>3. cursor' # 0 => cursor' \in P
        BY <1>8
      <4> QED
        BY <1>3, <2>2, <4>1, <4>2, <4>3
    <3> QED
      BY <1>9, <3>1
  <2> QED
    BY <1>5, <2>1, <2>2
<1>14. cursor' = 0 => answer' # "none"
  BY <1>1
<1>15. steady' \subseteq {j \in Ids : j < nextId' /\ Matches(j)'}
  BY <1>1 DEF PageInv, Matches
<1> QED
  BY <1>1, <1>8, <1>9, <1>11, <1>12, <1>13, <1>14, <1>15 DEF PageInv

LEMMA NextPageInv == PageInv /\ [Next]_vars => PageInv'
<1> SUFFICES ASSUME PageInv, [Next]_vars PROVE PageInv'
  OBVIOUS
<1>0. /\ DOMAIN rows = Ids /\ nextId \in Nat \ {0}
      /\ \A j \in steady : j \in Ids /\ j < nextId /\ Matches(j)
  BY DEF PageInv
<1>1. ASSUME UNCHANGED <<use, table, list>>,
             answer' = answer \/ (answer' # "none" /\ (use # "list" \/ answer' = "error"))
      PROVE  PageInv'
  <2>1. UNCHANGED <<use, rows, nextId, cursor, seen, steady>>
    BY <1>1 DEF table, list
  <2> QED
    BY <1>0, <1>1, <2>1, PageFrame DEF Matches
<1>2. CASE Elsewhere
  BY <1>1, <1>2, ElsewhereFrame, ElsewhereAnswer
<1>3. ASSUME NEW d, Insert(d), UNCHANGED <<use, list, answer>> PROVE PageInv'
  <2>1. /\ rows' = [rows EXCEPT ![nextId] = [dest |-> d, matches |-> TRUE]]
        /\ nextId' = nextId + 1 /\ UNCHANGED <<use, cursor, seen, steady, answer>>
    BY <1>3 DEF Insert, list
  <2>2. \A j \in steady : j < nextId' /\ rows'[j] = rows[j]
    BY <1>0, <2>1 DEF Ids
  <2> QED
    BY <1>0, <2>1, <2>2, PageFrame DEF Matches
<1>4. CASE QueueItem
  BY <1>3, <1>4 DEF QueueItem, OnlyBatch
<1>5. CASE OthersInsert
  BY <1>3, <1>5 DEF OthersInsert, batch
<1>6. CASE OthersMove \/ OthersDelete
  <2>1. PICK j \in Rows : /\ DOMAIN rows' = DOMAIN rows /\ \A k \in Ids \ {j} : rows'[k] = rows[k]
                          /\ steady' = steady \ {j}
    <3>1. CASE OthersMove
      BY <1>0, <3>1 DEF OthersMove
    <3>2. CASE OthersDelete
      BY <1>0, <3>2 DEF OthersDelete
    <3> QED
      BY <1>6, <3>1, <3>2
  <2>2. UNCHANGED <<use, nextId, cursor, seen, answer>>
    BY <1>6 DEF OthersMove, OthersDelete, batch
  <2> QED
    BY <1>0, <2>1, <2>2, PageFrame DEF Matches
<1>7. CASE OthersDeleteServer
  <2>1. /\ rows' = [j \in Ids |-> NoRow] /\ steady' = {}
        /\ UNCHANGED <<use, nextId, cursor, seen, answer>>
    BY <1>7 DEF OthersDeleteServer, batch
  <2> QED
    BY <1>0, <2>1, PageFrame
<1>8. CASE ListPage
  BY <1>8, ListPageKeepsPageInv
<1>9. CASE \E a \in Appenders : LogInsert(a) \/ LogTrim(a) \/ LogTrimFails(a)
  BY <1>1, <1>9 DEF LogInsert, LogTrim, LogTrimFails, batch
<1>10. CASE UNCHANGED vars
  BY <1>1, <1>10 DEF vars, batch
<1> QED
  BY <1>2, <1>4, <1>5, <1>6, <1>7, <1>8, <1>9, <1>10 DEF Next, Elsewhere

(* Paging by the last id is exact, for any page size and however rows come, go *)
(* and change status between the pages.                                        *)
THEOREM PagingIsExactHolds == Spec => []PagingIsExact
<1>1. PageInv => PagingIsExact
  BY DEF PageInv, PagingIsExact
<1> QED
  BY <1>1, InitPageInv, NextPageInv, PTL DEF Spec

-----------------------------------------------------------------------------
(* The log ring. *)
Trimming == {a \in Appenders : appender[a] = "trim"}

LogInv ==
    /\ lines \in Nat /\ log \subseteq 1..lines /\ untrimmed \in Nat
    /\ appender \in [Appenders -> {"idle", "trim"}]
    /\ LogRing

LEMMA TrimmingIsFinite == IsFiniteSet(Trimming) /\ Cardinality(Trimming) \in Nat
  BY AppendersAssumption, FS_Subset, FS_CardinalityType DEF Trimming

(* The newest of all lines are the newest of those that are left, as long as   *)
(* none of them is missing, and stay so when a line is added.                  *)
LEMMA NewestLines ==
  ASSUME NEW n \in Nat, NEW L \in SUBSET (1..n), NEW k \in Nat \ {0}, Newest(1..n, k) \subseteq L
  PROVE  /\ Newest(1..n, k) \subseteq Newest(L, k)
         /\ Newest(1..n + 1, k) \subseteq L \cup {n + 1}
<1>1. ASSUME NEW x \in Newest(1..n, k) PROVE x \in Newest(L, k)
  <2>1. x \in L /\ Cardinality({i \in 1..n : i > x}) < k
    BY DEF Newest
  <2>2. Cardinality({i \in L : i > x}) <= Cardinality({i \in 1..n : i > x})
    <3>1. {i \in L : i > x} \in SUBSET {i \in 1..n : i > x}
      OBVIOUS
    <3>2. {i \in 1..n : i > x} \in SUBSET (1..n)
      OBVIOUS
    <3> QED
      BY <3>1, <3>2, PartsAreFinite, FS_Subset
  <2>3. Cardinality({i \in L : i > x}) \in Nat /\ Cardinality({i \in 1..n : i > x}) \in Nat
    <3>1. {i \in L : i > x} \in SUBSET (1..n) /\ {i \in 1..n : i > x} \in SUBSET (1..n)
      OBVIOUS
    <3> QED
      BY <3>1, PartsAreFinite
  <2>4. Cardinality({i \in L : i > x}) < k
    BY <2>1, <2>2, <2>3
  <2> QED
    BY <2>1, <2>4 DEF Newest
<1>2. ASSUME NEW x \in Newest(1..n + 1, k), x # n + 1 PROVE x \in L
  <2>1. x \in 1..n + 1 /\ Cardinality({i \in 1..n + 1 : i > x}) < k
    BY DEF Newest
  <2>2. x \in 1..n
    BY <1>2, <2>1
  <2>3. {i \in 1..n : i > x} \in SUBSET {i \in 1..n + 1 : i > x}
        /\ {i \in 1..n : i > x} \in SUBSET (1..n) /\ {i \in 1..n + 1 : i > x} \in SUBSET (1..n + 1)
    OBVIOUS
  <2>4. /\ Cardinality({i \in 1..n : i > x}) <= Cardinality({i \in 1..n + 1 : i > x})
        /\ Cardinality({i \in 1..n : i > x}) \in Nat /\ Cardinality({i \in 1..n + 1 : i > x}) \in Nat
    <3>1. n + 1 \in Nat
      OBVIOUS
    <3>2. IsFiniteSet({i \in 1..n + 1 : i > x}) /\ Cardinality({i \in 1..n + 1 : i > x}) \in Nat
      BY <2>3, <3>1, PartsAreFinite
    <3>3. Cardinality({i \in 1..n : i > x}) \in Nat
      BY <2>3, PartsAreFinite
    <3> QED
      BY <2>3, <3>2, <3>3, FS_Subset
  <2>5. Cardinality({i \in 1..n : i > x}) < k
    BY <2>1, <2>4
  <2> QED
    BY <2>2, <2>5 DEF Newest
<1> QED
  BY <1>1, <1>2

LEMMA InitLogInv == Init => LogInv
<1> SUFFICES ASSUME Init PROVE LogInv
  OBVIOUS
<1>1. lines = 0 /\ log = {} /\ untrimmed = 0
  BY DEF Init
<1>2. appender \in [Appenders -> {"idle", "trim"}]
  BY DEF Init
<1>3. Newest(1..lines, KeepLines) \subseteq log
  BY <1>1 DEF Newest
<1>4. Cardinality(log) = 0 /\ KeepLines \in Nat
  BY <1>1, FS_EmptySet, SizesAssumption
<1> QED
  BY <1>1, <1>2, <1>3, <1>4, TrimmingIsFinite DEF LogInv, LogRing, Trimming

LEMMA LogFrame ==
  ASSUME LogInv, UNCHANGED ring, server' => server
  PROVE  LogInv'
  BY DEF LogInv, LogRing, ring

LEMMA LogInsertKeepsLogInv ==
  ASSUME LogInv, NEW a \in Appenders, LogInsert(a)
  PROVE  LogInv'
<1>1. /\ appender[a] = "idle" /\ lines' = lines + 1 /\ log' = log \cup {lines + 1}
      /\ appender' = [appender EXCEPT ![a] = "trim"] /\ UNCHANGED untrimmed /\ server /\ server' = server
  BY DEF LogInsert, table
<1>2. /\ lines \in Nat /\ log \in SUBSET (1..lines) /\ untrimmed \in Nat /\ KeepLines \in Nat \ {0}
      /\ Newest(1..lines, KeepLines) \subseteq log
  BY <1>1, SizesAssumption DEF LogInv, LogRing
<1>3. lines' \in Nat /\ log' \subseteq 1..lines' /\ untrimmed' \in Nat
      /\ appender' \in [Appenders -> {"idle", "trim"}]
  BY <1>1, <1>2 DEF LogInv
<1>4. Newest(1..lines', KeepLines) \subseteq log'
  BY <1>1, <1>2, NewestLines
<1>5. Trimming' = Trimming \cup {a} /\ a \notin Trimming
  BY <1>1 DEF LogInv, Trimming
<1>6. Cardinality(Trimming') = Cardinality(Trimming) + 1
  BY <1>5, TrimmingIsFinite, FS_AddElement
<1>7. Cardinality(log') <= Cardinality(log) + 1 /\ Cardinality(log) \in Nat /\ Cardinality(log') \in Nat
  <2>1. IsFiniteSet(log) /\ Cardinality(log) \in Nat
    BY <1>2, PartsAreFinite
  <2>2. Cardinality(log') = IF lines + 1 \in log THEN Cardinality(log) ELSE Cardinality(log) + 1
    BY <1>1, <2>1, FS_AddElement
  <2> QED
    BY <2>1, <2>2
<1>8. Cardinality(log') <= KeepLines + Cardinality(Trimming') + untrimmed'
  <2>1. Cardinality(log) <= KeepLines + Cardinality(Trimming) + untrimmed
    BY DEF LogInv, LogRing, Trimming
  <2> QED
    BY <1>1, <1>2, <1>6, <1>7, <2>1, TrimmingIsFinite
<1> QED
  BY <1>3, <1>4, <1>8 DEF LogInv, LogRing, Trimming

LEMMA LogTrimKeepsLogInv ==
  ASSUME LogInv, NEW a \in Appenders, LogTrim(a)
  PROVE  LogInv'
<1>1. /\ log' = Newest(log, KeepLines) /\ lines' = lines /\ untrimmed' = 0
      /\ appender' = [appender EXCEPT ![a] = "idle"] /\ server' = server
  BY DEF LogTrim, table
<1>2. lines \in Nat /\ log \in SUBSET (1..lines) /\ KeepLines \in Nat \ {0}
  BY SizesAssumption DEF LogInv
<1>3. log' \subseteq log /\ Cardinality(log') <= KeepLines
  BY <1>1, <1>2, NewestFacts
<1>4. server' => Newest(1..lines', KeepLines) \subseteq log'
  BY <1>1, <1>2, NewestLines DEF LogInv, LogRing
<1>5. IsFiniteSet(Trimming') /\ Cardinality(Trimming') \in Nat
  BY AppendersAssumption, FS_Subset, FS_CardinalityType DEF Trimming
<1>6. Cardinality(log') <= KeepLines + Cardinality(Trimming') + untrimmed'
  <2>1. Cardinality(log') \in Nat
    BY <1>2, <1>3, PartsAreFinite
  <2> QED
    BY <1>1, <1>2, <1>3, <1>5, <2>1
<1>7. appender' \in [Appenders -> {"idle", "trim"}]
  BY <1>1 DEF LogInv
<1> QED
  BY <1>1, <1>2, <1>3, <1>4, <1>6, <1>7 DEF LogInv, LogRing, Trimming

LEMMA LogTrimFailsKeepsLogInv ==
  ASSUME LogInv, NEW a \in Appenders, LogTrimFails(a)
  PROVE  LogInv'
<1>1. /\ appender[a] = "trim" /\ UNCHANGED <<log, lines, server>> /\ untrimmed' = untrimmed + 1
      /\ appender' = [appender EXCEPT ![a] = "idle"]
  BY DEF LogTrimFails, table
<1>2. Trimming' = Trimming \ {a} /\ a \in Trimming
  BY <1>1 DEF LogInv, Trimming
<1>3. Cardinality(Trimming') = Cardinality(Trimming) - 1
  BY <1>2, TrimmingIsFinite, FS_RemoveElement
<1>4. KeepLines + Cardinality(Trimming') + untrimmed' = KeepLines + Cardinality(Trimming) + untrimmed
  BY <1>1, <1>3, TrimmingIsFinite, SizesAssumption DEF LogInv
<1> QED
  BY <1>1, <1>4 DEF LogInv, LogRing, Trimming

LEMMA NextLogInv == LogInv /\ [Next]_vars => LogInv'
<1> SUFFICES ASSUME LogInv, [Next]_vars PROVE LogInv'
  OBVIOUS
<1>1. CASE Elsewhere
  BY <1>1, ElsewhereFrame, LogFrame DEF table
<1>2. CASE QueueItem \/ OthersInsert
  BY <1>2, LogFrame DEF QueueItem, OthersInsert, Insert, OnlyBatch
<1>3. CASE OthersMove \/ OthersDelete
  BY <1>3, LogFrame DEF OthersMove, OthersDelete
<1>4. CASE OthersDeleteServer
  <2>1. log' = {} /\ server' = FALSE /\ UNCHANGED <<appender, lines, untrimmed>>
    BY <1>4 DEF OthersDeleteServer
  <2>2. Cardinality(log') = 0
    BY <2>1, FS_EmptySet
  <2>3. Trimming' = Trimming
    BY <2>1 DEF Trimming
  <2>4. Cardinality(log') <= KeepLines + Cardinality(Trimming') + untrimmed'
    BY <2>1, <2>2, <2>3, TrimmingIsFinite, SizesAssumption DEF LogInv
  <2> QED
    BY <2>1, <2>4 DEF LogInv, LogRing, Trimming
<1>5. CASE ListPage
  BY <1>5, LogFrame DEF ListPage, table
<1>6. ASSUME NEW a \in Appenders, LogInsert(a) \/ LogTrim(a) \/ LogTrimFails(a) PROVE LogInv'
  BY <1>6, LogInsertKeepsLogInv, LogTrimKeepsLogInv, LogTrimFailsKeepsLogInv
<1>7. CASE UNCHANGED vars
  BY <1>7, LogFrame DEF vars, table
<1> QED
  BY <1>1, <1>2, <1>3, <1>4, <1>5, <1>6, <1>7 DEF Next, Elsewhere

(* The log keeps its newest lines between the statements of any number of      *)
(* appenders, and grows no further than trims are waiting or lost.             *)
THEOREM LogRingHolds == Spec => []LogRing
<1>1. LogInv => LogRing
  BY DEF LogInv
<1> QED
  BY <1>1, InitLogInv, NextLogInv, PTL DEF Spec

-----------------------------------------------------------------------------
(* mkdirNAS makes one directory more on the way to what its path means. *)
LEMMA MkdirKeeps ==
  ASSUME ValInv, PlainInv, InsideInv, MadeInside, MkdirStep
  PROVE  ValInv' /\ PlainInv' /\ InsideInv' /\ MadeInside'
<1>1. /\ stage = "accepted" /\ Meant(dest) # Nowhere
      /\ UNCHANGED <<links, relinked, stage, clean, cur, attempt, dest, moves, breaks>>
  BY DEF MkdirStep, validation, nasBounds
<1>2. PICK q \in Missing(dest) : Up(q) \in dirs /\ dirs' = dirs \cup {q} /\ madeDirs' = madeDirs \cup {q}
  BY DEF MkdirStep
<1> DEFINE t == Meant(dest)
<1>3. Tree(dirs, links) /\ dest \in Path /\ t = Leads(dirs, links, dest) /\ t \in Path
  <2>1. Tree(dirs, links) /\ dest \in Path
    BY <1>1 DEF ValInv
  <2> QED
    BY <1>1, <2>1, LeadsIsAPath DEF Meant
<1>4. PICK k \in 1..Len(t) : q = Take(t, k) /\ q \notin dirs
  BY <1>2 DEF Missing, Take
<1>5. q \in Path /\ IsPrefix(q, t) /\ Len(q) = k /\ k \in Nat
  <2>1. k \in 0..Len(t)
    BY <1>4
  <2> QED
    BY <1>3, <1>4, <2>1, TakeFacts, TakeIsPrefix
<1>6. q \notin DOMAIN links
  BY <1>1, <1>2, <1>3, <1>4, MadeIsNew
<1>7. Tree(dirs', links')
  BY <1>1, <1>2, <1>3, <1>4, <1>5, <1>6, TreeGrows
<1>8. Meant(dest)' = t
  <2>1. Leads(dirs \cup {q}, links, dest) = Leads(dirs, links, dest)
    BY <1>1, <1>2, <1>3, <1>4, <1>7, DirMade
  <2> QED
    BY <1>1, <1>2, <1>3, <2>1 DEF Meant
<1> HIDE DEF t
<1>9. ValInv'
  BY <1>1, <1>7 DEF ValInv
<1>10. PlainInv'
  BY <1>1 DEF PlainInv, Looking
<1> SUFFICES ASSUME ~relinked PROVE InsideInv' /\ MadeInside'
  BY <1>1, <1>9, <1>10 DEF InsideInv, MadeInside
<1>11. PICK r \in Roots : IsPrefix(r, t) /\ (moves = 0 => r \in dirs)
  BY <1>1 DEF InsideInv, t
<1>12. Contained(q) \/ (moves > 0 /\ IsPrefix(q, r))
  <2>1. r \in Path /\ Len(r) \in Nat
    BY CleanPaths, TakeAll
  <2>2. CASE Len(r) <= Len(q)
    <3>1. IsPrefix(r, q)
      BY <1>3, <1>5, <1>11, <2>1, <2>2, PrefixesNest
    <3> QED
      BY <3>1 DEF Contained
  <2>3. CASE Len(q) <= Len(r)
    <3>1. IsPrefix(q, r)
      BY <1>3, <1>5, <1>11, <2>1, <2>3, PrefixesNest
    <3>2. r \notin dirs
      <4>1. q = Take(r, Len(q)) /\ Len(q) \in 0..Len(r)
        BY <1>5, <2>1, <2>3, <3>1, PrefixIs
      <4> QED
        BY <1>3, <1>4, <4>1, Ancestors
    <3>3. moves > 0
      BY <1>11, <3>2 DEF ValInv
    <3> QED
      BY <3>1, <3>3
  <2> QED
    BY <1>5, <2>1, <2>2, <2>3
<1>13. MadeInside'
  BY <1>1, <1>2, <1>12 DEF MadeInside
<1>14. InsideInv'
  BY <1>1, <1>2, <1>8, <1>11 DEF InsideInv, Looking
<1> QED
  BY <1>13, <1>14

-----------------------------------------------------------------------------
NasInv == ValInv /\ PlainInv /\ InsideInv /\ MadeInside

LEMMA InitNasInv == Init => NasInv
  BY InitNas DEF Init, NasInv, MadeInside

(* The directories that are made stay inside, whatever others do to them. *)
LEMMA MadeStays ==
  ASSUME MadeInside, UNCHANGED madeDirs,
         \/ UNCHANGED <<relinked, moves>>
         \/ (~relinked' => ~relinked) /\ moves \in Nat /\ moves' = moves + 1
  PROVE  MadeInside'
  BY DEF MadeInside

(* The steps that have nothing to do with the NAS. *)
LEMMA OffNas ==
  ASSUME [Next]_vars
  PROVE  RequestBegins \/ Validates \/ MkdirStep \/ OthersOnNas \/ UNCHANGED onNas
<1> USE DEF OnlyBatch
<1>1. CASE Refused \/ QueueItem \/ QueueFails \/ QueueEnds \/ MkdirEnds
  BY <1>1 DEF Refused, QueueItem, QueueFails, QueueEnds, MkdirEnds
<1>2. CASE ListPage
  BY <1>2 DEF ListPage
<1>3. CASE \E a \in Appenders : LogInsert(a) \/ LogTrim(a) \/ LogTrimFails(a)
  BY <1>3 DEF LogInsert, LogTrim, LogTrimFails
<1>4. CASE OthersMove \/ OthersDelete \/ OthersInsert \/ OthersDeleteServer
  BY <1>4 DEF OthersMove, OthersDelete, OthersInsert, OthersDeleteServer
<1>5. CASE UNCHANGED vars
  BY <1>5 DEF vars
<1> QED
  BY <1>1, <1>2, <1>3, <1>4, <1>5 DEF Next

LEMMA NextNasInv == NasInv /\ [Next]_vars => NasInv'
<1> SUFFICES ASSUME NasInv, [Next]_vars PROVE NasInv'
  OBVIOUS
<1> USE DEF NasInv
<1>1. CASE RequestBegins
  <2>1. PICK p \in Inputs : ValidateBegins(p)
    BY <1>1 DEF RequestBegins
  <2>2. UNCHANGED <<madeDirs, relinked, moves>>
    BY <1>1, <2>1 DEF RequestBegins, ValidateBegins, OnlyValidation, nasBounds
  <2> QED
    BY <2>1, <2>2, BeginsKeeps, MadeStays
<1>2. CASE Validates
  <2>1. Resolve \/ Ancestor \/ ValidateBreaks
    BY <1>2 DEF Validates, Validate
  <2>2. UNCHANGED <<madeDirs, relinked, moves>>
    BY <1>2 DEF Validates, Validate, Resolve, Ancestor, ValidateBreaks, OnlyValidation, nasBounds
  <2> QED
    BY <2>1, <2>2, LooksKeepsVal, LooksKeepsPlain, LooksKeepsInside, BreaksKeeps, MadeStays
<1>3. CASE MkdirStep
  BY <1>3, MkdirKeeps
<1>4. CASE OthersOnNas
  <2>1. Others /\ UNCHANGED madeDirs
    BY <1>4 DEF OthersOnNas
  <2>2. moves \in Nat /\ moves' = moves + 1
    BY <2>1, OthersFrame DEF ValInv
  <2>3. ~relinked' => ~relinked
    BY <2>1 DEF Others, OthersMakeDir, OthersRemove, OthersLink
  <2> QED
    BY <2>1, <2>2, <2>3, OthersKeeps, MadeStays
<1>5. CASE UNCHANGED onNas
  <2>1. UNCHANGED <<dirs, links, relinked, madeDirs, stage, clean, cur, attempt, dest, moves, breaks>>
    BY <1>5 DEF onNas, nas, validation, nasBounds
  <2>2. ValInv'
    BY <2>1 DEF ValInv
  <2>3. PlainInv'
    BY <2>1 DEF PlainInv, Lost, Looking
  <2>4. InsideInv'
    <3>1. Meant(dest)' = Meant(dest)
      BY <2>1 DEF Meant
    <3> QED
      BY <2>1, <3>1 DEF InsideInv, Looking
  <2> QED
    BY <2>1, <2>2, <2>3, <2>4, MadeStays
<1> QED
  BY <1>1, <1>2, <1>3, <1>4, <1>5, OffNas

(* The NAS stays a tree; the place that a validation has come to, what is behind *)
(* it, and what an accepted path means fit together; and so do the directories   *)
(* that were made: the invariant behind the results below.                       *)
THEOREM ValidationInvariance == Spec => []NasInv
  BY InitNasInv, NextNasInv, PTL DEF Spec

(* A path inside a root that is there, with no link on the way, is not refused *)
(* when nobody interferes, however deep it is and however much of it is        *)
(* missing, also if the connection breaks once.                                *)
THEOREM PlainIsAcceptedHolds == Spec => []PlainIsAccepted
<1>1. NasInv => PlainIsAccepted
  <2> SUFFICES ASSUME NasInv, stage = "rejected", clean # Nowhere, moves = 0, breaks < 2 PROVE Lost
    BY DEF PlainIsAccepted, Lost
  <2>1. ~(breaks >= 2)
    BY DEF NasInv, ValInv
  <2> QED
    BY <2>1 DEF NasInv, PlainInv
<1> QED
  BY <1>1, ValidationInvariance, PTL

(* A directory that mkdirNAS makes lies inside an allowed root, or on the way  *)
(* to one that others removed, however many others work there meanwhile.       *)
THEOREM MadeInsideHolds == Spec => []MadeInside
<1>1. NasInv => MadeInside
  BY DEF NasInv
<1> QED
  BY <1>1, ValidationInvariance, PTL

-----------------------------------------------------------------------------
(* What a batch has queued has the destination that was accepted. *)
QueueInv ==
    /\ DOMAIN rows = Ids /\ nextId \in 1..MaxJobs + 1
    /\ \A j \in Rows : j < nextId /\ rows[j] \in [dest : Path \cup {Nowhere}, matches : BOOLEAN]
    /\ made \in Seq(Nat) /\ \A i \in 1..Len(made) : made[i] < nextId
    /\ made # << >> => stage = "accepted"
    /\ \A i \in 1..Len(made) : made[i] \in Rows => rows[made[i]].dest = dest

LEMMA InitQueueInv == Init => QueueInv
<1> SUFFICES ASSUME Init PROVE QueueInv
  OBVIOUS
<1>1. nextId \in 1..MaxJobs + 1
  <2>1. FirstJobs \in Nat /\ MaxJobs \in Nat /\ FirstJobs <= MaxJobs
    BY SizesAssumption
  <2>2. nextId = IF use = "list" THEN FirstJobs + 1 ELSE 1
    BY DEF Init
  <2> QED
    BY <2>1, <2>2
<1>2. PICK M \in SUBSET (1..nextId - 1) :
        rows = [j \in Ids |-> IF j < nextId THEN [dest |-> Nowhere, matches |-> j \in M] ELSE NoRow]
  BY DEF Init
<1>3. ASSUME NEW j \in Rows PROVE j < nextId /\ rows[j] \in [dest : Path \cup {Nowhere}, matches : BOOLEAN]
  <2>1. j \in Ids /\ rows[j] # NoRow
    BY DEF Rows
  <2>2. rows[j] = IF j < nextId THEN [dest |-> Nowhere, matches |-> j \in M] ELSE NoRow
    BY <1>2, <2>1
  <2>3. j < nextId /\ rows[j] = [dest |-> Nowhere, matches |-> j \in M]
    BY <2>1, <2>2, Zenon
  <2>4. PICK b \in BOOLEAN : rows[j] = [dest |-> Nowhere, matches |-> b]
    <3>1. (j \in M) \in BOOLEAN
      OBVIOUS
    <3> QED
      BY <2>3, <3>1, Zenon
  <2> QED
    BY <2>3, <2>4
<1>4. made = << >>
  BY DEF Init
<1> QED
  BY <1>1, <1>2, <1>3, <1>4 DEF QueueInv

(* Rows that go, or change their status, and steps that touch neither rows nor *)
(* the batch.                                                                  *)
LEMMA QueueFrame ==
  ASSUME QueueInv, UNCHANGED <<nextId, made>>, DOMAIN rows' = Ids,
         \A j \in Rows' : /\ j \in Rows /\ rows'[j].dest = rows[j].dest
                          /\ rows'[j] \in [dest : Path \cup {Nowhere}, matches : BOOLEAN],
         stage = "accepted" => stage' = "accepted" /\ dest' = dest
  PROVE  QueueInv'
<1>1. \A i \in 1..Len(made) : made[i] \in Rows => rows[made[i]].dest = dest
  BY DEF QueueInv
<1>2. \A i \in 1..Len(made) : made[i] \in Rows' => rows'[made[i]].dest = dest'
  <2> SUFFICES ASSUME NEW i \in 1..Len(made), made[i] \in Rows' PROVE rows'[made[i]].dest = dest'
    OBVIOUS
  <2>1. made # << >>
    BY DEF QueueInv
  <2> QED
    BY <1>1, <2>1 DEF QueueInv
<1> QED
  BY <1>2 DEF QueueInv

LEMMA InsertKeepsQueueInv ==
  ASSUME QueueInv, NEW d \in Path \cup {Nowhere}, Insert(d), UNCHANGED <<stage, dest>>,
         \/ made' = made
         \/ made' = Append(made, nextId) /\ stage = "accepted" /\ d = dest
  PROVE  QueueInv'
<1>1. /\ nextId \in Ids /\ nextId' = nextId + 1 /\ nextId \in Nat /\ DOMAIN rows' = Ids
      /\ rows'[nextId] = [dest |-> d, matches |-> TRUE] /\ \A j \in Ids \ {nextId} : rows'[j] = rows[j]
      /\ nextId' \in 1..MaxJobs + 1
  BY SizesAssumption DEF QueueInv, Insert, Ids
<1>2. \A j \in Rows' : j \in Ids /\ (j = nextId \/ (j \in Rows /\ j # nextId))
  BY <1>1 DEF Rows
<1>3. \A j \in Rows' : j < nextId' /\ rows'[j] \in [dest : Path \cup {Nowhere}, matches : BOOLEAN]
  <2> SUFFICES ASSUME NEW j \in Rows'
               PROVE  j < nextId' /\ rows'[j] \in [dest : Path \cup {Nowhere}, matches : BOOLEAN]
    OBVIOUS
  <2>1. CASE j = nextId
    <3>1. j < nextId' /\ rows'[j] = [dest |-> d, matches |-> TRUE]
      BY <1>1, <2>1
    <3> QED
      BY <3>1
  <2>2. CASE j \in Rows /\ j # nextId
    <3>1. j \in Nat /\ j < nextId /\ rows'[j] = rows[j]
      BY <1>1, <1>2, <2>2, SizesAssumption DEF QueueInv, Ids
    <3> QED
      BY <1>1, <2>2, <3>1 DEF QueueInv
  <2> QED
    BY <1>2, <2>1, <2>2
<1>4. \A i \in 1..Len(made) : made[i] \in Nat /\ made[i] < nextId
  BY DEF QueueInv
<1>5. \A i \in 1..Len(made) : made[i] \in Rows' => rows'[made[i]].dest = dest
  <2> SUFFICES ASSUME NEW i \in 1..Len(made), made[i] \in Rows' PROVE rows'[made[i]].dest = dest
    OBVIOUS
  <2>1. made[i] # nextId
    BY <1>1, <1>4
  <2>2. made[i] \in Rows /\ rows'[made[i]] = rows[made[i]]
    BY <1>1, <1>2, <2>1
  <2> QED
    BY <2>2 DEF QueueInv
<1>6. CASE made' = made
  BY <1>1, <1>3, <1>4, <1>5, <1>6 DEF QueueInv
<1>7. CASE made' = Append(made, nextId) /\ stage = "accepted" /\ d = dest
  <2>1. /\ made' \in Seq(Nat) /\ Len(made) \in Nat
        /\ \A i \in 1..Len(made') : \/ i \in 1..Len(made) /\ made'[i] = made[i]
                                    \/ made'[i] = nextId
    BY <1>1, <1>7 DEF QueueInv
  <2>2. \A i \in 1..Len(made') : made'[i] < nextId'
    <3> SUFFICES ASSUME NEW i \in 1..Len(made') PROVE made'[i] < nextId'
      OBVIOUS
    <3>1. CASE made'[i] = nextId
      BY <1>1, <3>1
    <3>2. CASE i \in 1..Len(made) /\ made'[i] = made[i]
      <4>1. made[i] \in Nat /\ made[i] < nextId
        BY <1>4, <3>2
      <4> QED
        BY <1>1, <3>2, <4>1
    <3> QED
      BY <2>1, <3>1, <3>2
  <2>3. \A i \in 1..Len(made') : made'[i] \in Rows' => rows'[made'[i]].dest = dest'
    BY <1>1, <1>5, <1>7, <2>1
  <2> QED
    BY <1>1, <1>3, <1>7, <2>1, <2>2, <2>3 DEF QueueInv
<1> QED
  BY <1>6, <1>7

(* An accepted request stays accepted, for the place it was accepted for. *)
LEMMA AcceptedStays ==
  ASSUME [Next]_vars, stage = "accepted"
  PROVE  stage' = "accepted" /\ dest' = dest
<1>1. CASE RequestBegins \/ Validates
  BY <1>1 DEF RequestBegins, Validates, ValidateBegins, Validate, Resolve, Ancestor, ValidateBreaks
<1>2. CASE MkdirStep
  BY <1>2 DEF MkdirStep, validation
<1>3. CASE OthersOnNas
  BY <1>3, OthersFrame DEF OthersOnNas
<1>4. CASE UNCHANGED onNas
  BY <1>4 DEF onNas, validation
<1> QED
  BY <1>1, <1>2, <1>3, <1>4, OffNas

LEMMA NextQueueInv == NasInv /\ QueueInv /\ [Next]_vars => QueueInv'
<1> SUFFICES ASSUME NasInv, QueueInv, [Next]_vars PROVE QueueInv'
  OBVIOUS
<1>0. DOMAIN rows = Ids /\ \A j \in Rows : rows[j] \in [dest : Path \cup {Nowhere}, matches : BOOLEAN]
  BY DEF QueueInv
<1>1. ASSUME UNCHANGED <<rows, nextId, made>> PROVE QueueInv'
  BY <1>0, <1>1, AcceptedStays, QueueFrame DEF Rows
<1> USE DEF OnlyBatch, table, batch
<1>2. CASE RequestBegins \/ Validates \/ MkdirStep \/ OthersOnNas
  BY <1>1, <1>2 DEF RequestBegins, Validates, MkdirStep, OthersOnNas
<1>3. CASE Refused \/ QueueFails \/ QueueEnds \/ MkdirEnds
  BY <1>1, <1>3 DEF Refused, QueueFails, QueueEnds, MkdirEnds
<1>4. CASE ListPage
  BY <1>1, <1>4 DEF ListPage
<1>5. CASE \E a \in Appenders : LogInsert(a) \/ LogTrim(a) \/ LogTrimFails(a)
  BY <1>1, <1>5 DEF LogInsert, LogTrim, LogTrimFails
<1>6. CASE QueueItem
  <2>1. /\ Insert(dest) /\ made' = Append(made, nextId) /\ stage = "accepted"
        /\ UNCHANGED <<stage, dest>>
    BY <1>6 DEF QueueItem, Queueing, onNas, validation
  <2>2. dest \in Path \cup {Nowhere}
    BY DEF NasInv, ValInv
  <2> QED
    BY <2>1, <2>2, InsertKeepsQueueInv
<1>7. CASE OthersInsert
  <2>1. Insert(Nowhere) /\ made' = made /\ UNCHANGED <<stage, dest>>
    BY <1>7 DEF OthersInsert, onNas, validation
  <2> QED
    BY <2>1, InsertKeepsQueueInv
<1>8. CASE OthersMove
  <2>1. PICK j \in Rows : rows' = [rows EXCEPT ![j].matches = ~@]
    BY <1>8 DEF OthersMove
  <2>2. UNCHANGED <<nextId, made>>
    BY <1>8 DEF OthersMove
  <2>3. /\ DOMAIN rows' = Ids /\ \A k \in Ids \ {j} : rows'[k] = rows[k] /\ j \in Ids
        /\ rows'[j].dest = rows[j].dest /\ rows'[j] \in [dest : Path \cup {Nowhere}, matches : BOOLEAN]
    BY <1>0, <2>1 DEF Rows
  <2>4. \A k \in Rows' : k \in Rows /\ (k = j \/ rows'[k] = rows[k])
    BY <2>3 DEF Rows
  <2> QED
    BY <1>0, <2>2, <2>3, <2>4, AcceptedStays, QueueFrame
<1>9. CASE OthersDelete
  <2>1. PICK j \in Rows : rows' = [rows EXCEPT ![j] = NoRow]
    BY <1>9 DEF OthersDelete
  <2>2. UNCHANGED <<nextId, made>>
    BY <1>9 DEF OthersDelete
  <2>3. DOMAIN rows' = Ids /\ rows'[j] = NoRow /\ \A k \in Ids \ {j} : rows'[k] = rows[k]
    BY <1>0, <2>1 DEF Rows
  <2>4. \A k \in Rows' : k \in Rows /\ rows'[k] = rows[k]
    BY <2>3 DEF Rows
  <2> QED
    BY <1>0, <2>2, <2>3, <2>4, AcceptedStays, QueueFrame
<1>10. CASE OthersDeleteServer
  <2>1. rows' = [j \in Ids |-> NoRow] /\ UNCHANGED <<nextId, made>>
    BY <1>10 DEF OthersDeleteServer
  <2>2. Rows' = {} /\ DOMAIN rows' = Ids
    BY <2>1 DEF Rows
  <2> QED
    BY <2>1, <2>2, AcceptedStays, QueueFrame
<1>11. CASE UNCHANGED vars
  BY <1>1, <1>11 DEF vars
<1> QED
  BY <1>2, <1>3, <1>4, <1>5, <1>6, <1>7, <1>8, <1>9, <1>10, <1>11 DEF Next

(* What a batch queues goes to a place inside an allowed root, whatever comes  *)
(* and goes on the NAS while the path is checked and after, as long as no link *)
(* is made, comes to lead somewhere or is removed outside the roots.           *)
THEOREM QueuedStaysInsideHolds == Spec => []QueuedStaysInside
<1>1. NasInv /\ QueueInv => QueuedStaysInside
  <2> SUFFICES ASSUME NasInv, QueueInv, ~relinked, NEW i \in DOMAIN made, made[i] \in Rows
               PROVE  Inside(Meant(rows[made[i]].dest))
    BY DEF QueuedStaysInside
  <2>1. i \in 1..Len(made) /\ made # << >>
    BY DEF QueueInv
  <2>2. rows[made[i]].dest = dest /\ stage = "accepted"
    BY <2>1 DEF QueueInv
  <2>3. Meant(dest) = Nowhere \/ Contained(Meant(dest))
    BY <2>2 DEF NasInv, InsideInv, Contained
  <2> QED
    BY <2>2, <2>3 DEF Inside
<1>2. NasInv /\ QueueInv /\ [Next]_vars => NasInv' /\ QueueInv'
  BY NextNasInv, NextQueueInv
<1> QED
  BY <1>1, <1>2, InitNasInv, InitQueueInv, PTL DEF Spec

-----------------------------------------------------------------------------
(* Type correctness: what the other invariants leave. *)
RestInv ==
    /\ use \in Uses /\ server \in BOOLEAN /\ answer \in {"none", "ok", "error"}
    /\ lines \in 0..MaxLines /\ changes \in 0..MaxChanges
    /\ faults \in 0..MaxFaults /\ untrimmed \in 0..faults

LEMMA InitRestInv == Init => RestInv
  BY SizesAssumption DEF Init, RestInv

LEMMA NextRestInv == RestInv /\ [Next]_vars => RestInv'
<1> SUFFICES ASSUME RestInv, [Next]_vars PROVE RestInv'
  OBVIOUS
<1> USE DEF OnlyBatch, Answers, batch, ring, bounds, table
<1>1. ASSUME UNCHANGED <<use, server, lines, untrimmed, changes, faults>>,
             answer' \in {answer, "ok", "error"}
      PROVE  RestInv'
  BY <1>1 DEF RestInv
<1>2. CASE RequestBegins \/ Validates \/ MkdirStep \/ OthersOnNas
  BY <1>1, <1>2 DEF RequestBegins, Validates, MkdirStep, OthersOnNas
<1>3. CASE Refused \/ QueueEnds \/ MkdirEnds
  BY <1>1, <1>3 DEF Refused, QueueEnds, MkdirEnds
<1>4. CASE QueueItem
  BY <1>1, <1>4 DEF QueueItem, Insert
<1>5. CASE ListPage
  BY <1>1, <1>5 DEF ListPage
<1>6. CASE QueueFails
  BY <1>6, SizesAssumption DEF RestInv, QueueFails, Fault
<1>7. ASSUME NEW a \in Appenders, LogInsert(a) PROVE RestInv'
  BY <1>7, SizesAssumption DEF RestInv, LogInsert
<1>8. ASSUME NEW a \in Appenders, LogTrim(a) PROVE RestInv'
  BY <1>8, SizesAssumption DEF RestInv, LogTrim
<1>9. ASSUME NEW a \in Appenders, LogTrimFails(a) PROVE RestInv'
  BY <1>9, SizesAssumption DEF RestInv, LogTrimFails, Fault
<1>10. CASE OthersMove \/ OthersDelete \/ OthersInsert \/ OthersDeleteServer
  <2>1. changes < MaxChanges /\ changes' = changes + 1 /\ faults' = faults
    BY <1>10 DEF OthersMove, OthersDelete, OthersInsert, OthersDeleteServer, Change
  <2>2. UNCHANGED <<use, answer, lines, untrimmed>> /\ server' \in {server, FALSE}
    BY <1>10 DEF OthersMove, OthersDelete, OthersInsert, OthersDeleteServer, Insert
  <2>3. changes' \in 0..MaxChanges /\ untrimmed' \in 0..faults' /\ faults' \in 0..MaxFaults
    BY <2>1, <2>2, SizesAssumption DEF RestInv
  <2>4. server' \in BOOLEAN
    BY <2>2, Zenon DEF RestInv
  <2> QED
    BY <2>2, <2>3, <2>4 DEF RestInv
<1>11. CASE UNCHANGED vars
  BY <1>1, <1>11 DEF vars
<1> QED
  BY <1>2, <1>3, <1>4, <1>5, <1>6, <1>7, <1>8, <1>9, <1>10, <1>11 DEF Next

(* The variables have their types, for any values of the constants, and a      *)
(* request has a destination when it is accepted, and only then.               *)
THEOREM TypeCorrect == Spec => []TypeOK
<1> DEFINE Inv == NasInv /\ QueueInv /\ PageInv /\ LogInv /\ RestInv
<1>1. Init => Inv
  BY InitNasInv, InitQueueInv, InitPageInv, InitLogInv, InitRestInv
<1>2. Inv /\ [Next]_vars => Inv'
  BY NextNasInv, NextQueueInv, NextPageInv, NextLogInv, NextRestInv
<1>3. Inv => TypeOK
  <2> SUFFICES ASSUME Inv PROVE TypeOK
    OBVIOUS
  <2>1. << >> \in dirs /\ DOMAIN links \cap dirs = {}
    BY TreeFacts DEF NasInv, ValInv
  <2>2. /\ stage \in {"idle", "resolve", "ancestor", "accepted", "rejected"}
        /\ (stage = "accepted" <=> dest # Nowhere)
        /\ (cur = clean \/ IsPrefix(cur, clean))
        /\ attempt \in {0, 1} /\ moves \in 0..MaxMoves /\ breaks \in 0..MaxBreaks
    BY DEF NasInv, ValInv
  <2>3. nextId \in 1..MaxJobs + 1 /\ \A j \in Rows : j < nextId /\ rows[j].matches \in BOOLEAN
    BY DEF QueueInv
  <2>4. cursor \in Nat /\ steady \subseteq Rows
    BY DEF PageInv, Matches, Rows
  <2>5. log \subseteq 1..lines /\ appender \in [Appenders -> {"idle", "trim"}]
    BY DEF LogInv
  <2>6. /\ use \in Uses /\ server \in BOOLEAN /\ answer \in {"none", "ok", "error"}
        /\ lines \in 0..MaxLines /\ changes \in 0..MaxChanges
        /\ faults \in 0..MaxFaults /\ untrimmed \in 0..MaxFaults
    BY SizesAssumption DEF RestInv
  <2> QED
    BY <2>1, <2>2, <2>3, <2>4, <2>5, <2>6, Zenon DEF TypeOK
<1> QED
  BY <1>1, <1>2, <1>3, PTL DEF Spec
=============================================================================
