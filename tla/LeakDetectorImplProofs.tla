----------------------- MODULE LeakDetectorImplProofs -----------------------
(***************************************************************************)
(* Properties of LeakDetectorImpl for any addresses, sizes, call stacks,   *)
(* number of size classes, ranking size and thresholds.  Three inductive   *)
(* invariants build on each other: TypeInv for the types, LiveInv for the  *)
(* counters and the memory in use, ReportInv for what is reported.         *)
(***************************************************************************)
EXTENDS LeakDetectorImplProperties, AnalysisLemmas

SizeValue == {IndexToSize(i) : i \in SizeIndex}

(***************************************************************************)
(* The first part of the inductive invariant.  That a test only creates    *)
(* tables for indices of the array rests on the analyzer suspecting only   *)
(* sizes it was given.                                                     *)
(***************************************************************************)
AnalyzerInv ==
    /\ IsAnalyzerOver(SizeValue, size_leak_analyzer)
    /\ size_leak_analyzer.score_threshold = SizeThreshold

TypeInv == TypeOK /\ AnalyzerInv

-----------------------------------------------------------------------------
(* An index is one of the array, and indices and sizes correspond. *)
LEMMA SizeToIndexType == \A size \in Nat : SizeToIndex(size) \in SizeIndex
    BY DetectorAssumption DEF SizeToIndex, SizeIndex, WordSize

LEMMA SizeValueType == SizeValue \in SUBSET Nat /\ IsFiniteSet(SizeIndex)
<1>1. SizeValue \in SUBSET Nat
    BY DetectorAssumption DEF SizeValue, SizeIndex, IndexToSize, WordSize
<1>2. IsFiniteSet(SizeIndex)
    BY FS_Interval, DetectorAssumption DEF SizeIndex
<1> QED BY <1>1, <1>2

(* Counters stay within their width. *)
LEMMA CounterType == \A x \in Nat : x % Word \in Counter
    BY DetectorAssumption DEF Counter

(* The sizes are ranked into a list the analyzer can take. *)
LEMMA SizeRankedListType == TypeOK => IsListOver(SizeValue, SizeRankedList)
<1> SUFFICES ASSUME TypeOK PROVE IsListOver(SizeValue, SizeRankedList)
    OBVIOUS
<1> DEFINE T == [value : SizeValue, count : Int]
           offered == [i \in SizeIndex |-> Entry(IndexToSize(i), NetAllocs(i))]
<1>1. \A i \in SizeIndex : size_entries[i] \in [num_allocs : Nat, num_frees : Nat]
    BY DEF TypeOK
<1>2. \A i \in SizeIndex : NetAllocs(i) \in Int
    BY <1>1 DEF NetAllocs
<1>3. \A i \in SizeIndex : offered[i] \in T
    BY <1>2 DEF Entry, SizeValue
<1>4. SizeIndex \in SUBSET Int /\ IsFiniteSet(SizeIndex)
    BY SizeValueType, DetectorAssumption DEF SizeIndex
<1>5. IsOffer(offered)
    BY <1>3, <1>4 DEF IsOffer
<1>6. RankingSize \in Nat
    BY RankingAssumption
<1>7. /\ Ranking(offered, RankingSize) \in Seq(T)
      /\ Len(Ranking(offered, RankingSize)) \in 0..RankingSize
  <2> HIDE DEF T, offered
  <2>1. \A i \in DOMAIN offered : offered[i] \in T
      BY <1>3 DEF offered
  <2> QED BY <1>5, <1>6, <2>1, RankingShape
<1> QED BY <1>6, <1>7 DEF IsListOver, SizeRankedList

-----------------------------------------------------------------------------
LEMMA InitTypeInv == Init => TypeInv
<1> SUFFICES ASSUME Init PROVE TypeInv
    OBVIOUS
<1>1. TypeOK
  <2>1. address_map \in [DOMAIN address_map -> AllocInfo]
      BY DEF Init
  <2>2. stats \in Stats
    <3>1. PICK a, f, as, fs, w \in Uninitialized :
             stats = [num_allocs |-> a, num_frees |-> f, alloc_size |-> as, free_size |-> fs,
                      num_allocs_with_call_stack |-> w, num_stack_tables |-> 0]
        BY DEF Init
    <3>2. a \in Counter /\ f \in Counter /\ as \in Counter /\ fs \in Counter /\ w \in Counter
        BY DetectorAssumption DEF Counter
    <3> QED BY <3>1, <3>2 DEF Stats
  <2>3. num_tests \in 0..MaxTests
      BY DetectorAssumption DEF Init
  <2> QED BY <2>1, <2>2, <2>3 DEF Init, TypeOK
<1>2. AnalyzerInv
    BY RankingAssumption, FS_EmptySet
    DEF Init, AnalyzerInv, NewAnalyzer, IsAnalyzerOver, IsListOver
<1> QED BY <1>1, <1>2 DEF TypeInv

LEMMA RecordAllocTypeInv ==
    ASSUME TypeInv, NEW ptr \in Addr, NEW size \in Size, NEW stack \in Stack \union {NoStack},
           RecordAlloc(ptr, size, stack)
    PROVE  TypeInv'
<1> USE DEF RecordAlloc
<1>1. TypeOK /\ AnalyzerInv
    BY DEF TypeInv
<1>2. size \in Nat /\ SizeToIndex(size) \in SizeIndex /\ Word \in Nat \ {0}
    BY SizeToIndexType, DetectorAssumption
<1>3. /\ DOMAIN address_map' \subseteq Addr
      /\ address_map' \in [DOMAIN address_map' -> AllocInfo]
    BY <1>1 DEF TypeOK, AllocInfo
<1>4. size_entries' \in [SizeIndex -> [num_allocs : Nat, num_frees : Nat]]
    BY <1>1, <1>2 DEF TypeOK
<1>5. DOMAIN stack_tables' \subseteq SizeIndex
    BY <1>1 DEF TypeOK
<1>6. call_stacks' \subseteq Stack
    BY <1>1 DEF TypeOK
<1>7. stats' \in Stats
  <2>1. stats \in Stats
      BY <1>1 DEF TypeOK
  <2>2. \A x \in Counter : (x + size) % Word \in Counter /\ (x + 1) % Word \in Counter
      BY <1>2, CounterType DEF Counter
  <2> QED BY <2>1, <2>2 DEF Stats
<1>8. AnalyzerInv'
    BY <1>1 DEF AnalyzerInv
<1> QED BY <1>1, <1>3, <1>4, <1>5, <1>6, <1>7, <1>8 DEF TypeInv, TypeOK

LEMMA RecordFreeTypeInv ==
    ASSUME TypeInv, NEW ptr \in Addr, RecordFree(ptr)
    PROVE  TypeInv'
<1> USE DEF RecordFree, StatsAfterFree
<1>1. TypeOK /\ AnalyzerInv
    BY DEF TypeInv
<1>2. address_map[ptr] \in AllocInfo
    BY <1>1 DEF TypeOK
<1>3. /\ address_map[ptr].size \in Nat /\ Word \in Nat \ {0}
      /\ SizeToIndex(address_map[ptr].size) \in SizeIndex
    BY <1>2, SizeToIndexType, DetectorAssumption DEF AllocInfo
<1>4. /\ DOMAIN address_map' \subseteq Addr
      /\ address_map' \in [DOMAIN address_map' -> AllocInfo]
    BY <1>1 DEF TypeOK
<1>5. size_entries' \in [SizeIndex -> [num_allocs : Nat, num_frees : Nat]]
    BY <1>1, <1>3 DEF TypeOK
<1>6. DOMAIN stack_tables' \subseteq SizeIndex
    BY <1>1 DEF TypeOK
<1>7. stats' \in Stats
  <2>1. stats \in Stats
      BY <1>1 DEF TypeOK
  <2>2. \A x \in Counter : /\ (x + address_map[ptr].size) % Word \in Counter
                           /\ (x + 1) % Word \in Counter
      BY <1>3, CounterType DEF Counter
  <2> QED BY <2>1, <2>2 DEF Stats
<1>8. AnalyzerInv'
    BY <1>1 DEF AnalyzerInv
<1> QED BY <1>1, <1>4, <1>5, <1>6, <1>7, <1>8 DEF TypeInv, TypeOK

(* What a test does to the members it changes. *)
LEMMA TestEffect ==
    ASSUME TypeInv, TestForLeaks
    PROVE  /\ AnalyzerInv'
           /\ size_leak_analyzer' = AddSample(size_leak_analyzer, SizeRankedList)
           /\ DOMAIN stack_tables \subseteq DOMAIN stack_tables'
           /\ DOMAIN stack_tables' \subseteq SizeIndex
           /\ \A i \in DOMAIN stack_tables' :
                 LET old == IF i \in DOMAIN stack_tables THEN stack_tables[i]
                                                        ELSE NewTable(CallStackThreshold)
                 IN  \/ stack_tables'[i] = old
                     \/ \E list : stack_tables'[i] = Sampled(old, list)
           /\ reports' \subseteq SizeIndex \X Stack
           /\ stats'.num_stack_tables \in Nat
<1> DEFINE analyzer == AddSample(size_leak_analyzer, SizeRankedList)
           tables == WithNewTables(analyzer)
           tested == TestedTables(tables)
<1>1. /\ size_leak_analyzer' = analyzer
      /\ \E list \in [tested -> UNION {RankedLists(tables[i]) : i \in tested}] :
            stack_tables' = [i \in DOMAIN tables |->
                                IF i \in tested THEN Sampled(tables[i], list[i]) ELSE tables[i]]
      /\ reports' \subseteq tested \X Stack
      /\ stats' = [stats EXCEPT !.num_stack_tables =
                      @ + Cardinality(DOMAIN tables \ DOMAIN stack_tables)]
    BY DEF TestForLeaks
<1>2. IsListOver(SizeValue, SizeRankedList)
    BY SizeRankedListType DEF TypeInv
<1>3. IsAnalyzerOver(SizeValue, analyzer) /\ analyzer.score_threshold = SizeThreshold
  <2>1. SizeValue \in SUBSET Int /\ size_leak_analyzer.score_threshold \in Nat
      BY SizeValueType, DetectorAssumption DEF TypeInv, AnalyzerInv
  <2> QED BY <1>2, <2>1, AddSampleStep DEF TypeInv, AnalyzerInv, AddSample
<1>4. \A size \in analyzer.suspected_leaks : SizeToIndex(size) \in SizeIndex
  <2>1. analyzer.suspected_leaks \subseteq SizeValue
      BY <1>3 DEF IsAnalyzerOver
  <2> QED BY <2>1, SizeValueType, SizeToIndexType
<1>5. /\ DOMAIN tables = DOMAIN stack_tables \union
                            {SizeToIndex(size) : size \in analyzer.suspected_leaks}
      /\ \A i \in DOMAIN tables :
            tables[i] = IF i \in DOMAIN stack_tables THEN stack_tables[i]
                                                     ELSE NewTable(CallStackThreshold)
    BY DEF WithNewTables, SuspectedClasses
<1>6. DOMAIN stack_tables \subseteq DOMAIN tables /\ DOMAIN tables \subseteq SizeIndex
    BY <1>4, <1>5 DEF TypeInv, TypeOK
<1>7. tested \subseteq DOMAIN tables
    BY DEF TestedTables
<1>8. Cardinality(DOMAIN tables \ DOMAIN stack_tables) \in Nat
  <2>1. DOMAIN tables \ DOMAIN stack_tables \in SUBSET SizeIndex
      BY <1>6
  <2> QED BY <2>1, SizeValueType, FS_Subset, FS_CardinalityType
<1>9. stats'.num_stack_tables \in Nat
    BY <1>1, <1>8 DEF TypeInv, TypeOK, Stats
<1> HIDE DEF analyzer, tables, tested
<1>10. DOMAIN stack_tables' = DOMAIN tables
    BY <1>1
<1>11. \A i \in DOMAIN stack_tables' :
          stack_tables'[i] = tables[i] \/ \E list : stack_tables'[i] = Sampled(tables[i], list)
    BY <1>1
<1>12. AnalyzerInv'
    BY <1>1, <1>3 DEF AnalyzerInv
<1> QED BY <1>1, <1>5, <1>6, <1>7, <1>9, <1>10, <1>11, <1>12 DEF analyzer

LEMMA TestForLeaksTypeInv ==
    ASSUME TypeInv, TestForLeaks
    PROVE  TypeInv'
<1>1. /\ UNCHANGED <<address_map, size_entries, call_stacks>>
      /\ num_tests < MaxTests /\ num_tests' = num_tests + 1
      /\ stats' = [stats EXCEPT !.num_stack_tables = stats'.num_stack_tables]
    BY DEF TestForLeaks, TypeInv, TypeOK, Stats
<1>2. /\ AnalyzerInv'
      /\ DOMAIN stack_tables' \subseteq SizeIndex
      /\ reports' \subseteq SizeIndex \X Stack
      /\ stats'.num_stack_tables \in Nat
    BY TestEffect
<1>3. stats' \in Stats
    BY <1>1, <1>2 DEF TypeInv, TypeOK, Stats
<1>4. num_tests' \in 0..MaxTests
    BY <1>1, DetectorAssumption DEF TypeInv, TypeOK
<1> QED BY <1>1, <1>2, <1>3, <1>4 DEF TypeInv, TypeOK

LEMMA NextTypeInv == TypeInv /\ [Next]_vars => TypeInv'
<1> SUFFICES ASSUME TypeInv, [Next]_vars PROVE TypeInv'
    OBVIOUS
<1>1. CASE UNCHANGED vars
    BY <1>1 DEF vars, TypeInv, TypeOK, AnalyzerInv
<1>2. CASE \E ptr \in Addr, size \in Size, stack \in Stack \union {NoStack} :
              RecordAlloc(ptr, size, stack)
    BY <1>2, RecordAllocTypeInv
<1>3. CASE \E ptr \in Addr : RecordFree(ptr)
    BY <1>3, RecordFreeTypeInv
<1>4. CASE TestForLeaks
    BY <1>4, TestForLeaksTypeInv
<1> QED BY <1>1, <1>2, <1>3, <1>4 DEF Next

LEMMA TypeInvariance == Spec => []TypeInv
    BY InitTypeInv, NextTypeInv, PTL DEF Spec

(***************************************************************************)
(* The members of LeakDetectorImpl keep their types.  In particular every  *)
(* index of a table is one of the array: TestForLeaks creates tables for   *)
(* the sizes the analyzer suspects, and it only suspects sizes it got.     *)
(***************************************************************************)
THEOREM TypeCorrect == Spec => []TypeOK
<1>1. TypeInv => TypeOK
    BY DEF TypeInv
<1> QED BY <1>1, TypeInvariance, PTL

-----------------------------------------------------------------------------
(***************************************************************************)
(* The second part, LiveInv.  Two facts are needed besides the counts      *)
(* themselves: tables keep no entry at zero, so that Remove finds what it  *)
(* is given; and a call stack in the address map belongs to a class that   *)
(* has a table, so that a new table starts out right with no entries.      *)
(***************************************************************************)
TablesAreSound ==
    /\ \A i \in DOMAIN stack_tables : IsTable(stack_tables[i])
    /\ \A a \in DOMAIN address_map :
          address_map[a].call_stack # NoStack => SizeToIndex(address_map[a].size) \in DOMAIN stack_tables

(* A count of some live allocations: exact, unless addresses may repeat. *)
Counts(count, live) ==
    /\ count >= Cardinality(live)
    /\ ~AddrMayRepeat => count = Cardinality(live)

ClassesCount == \A i \in SizeIndex : Counts(NetAllocs(i), LiveIn(i))

TablesCount ==
    \A i \in DOMAIN stack_tables, stack \in Stack : Counts(NetOf(stack_tables[i], stack), LiveFrom(i, stack))

LiveInv == TypeInv /\ TablesAreSound /\ ClassesCount /\ TablesCount

-----------------------------------------------------------------------------
(* Sets of live allocations are finite. *)
LEMMA LiveIsFinite ==
    ASSUME TypeOK, NEW i, NEW stack
    PROVE  /\ IsFiniteSet(LiveIn(i)) /\ Cardinality(LiveIn(i)) \in Nat
           /\ IsFiniteSet(LiveFrom(i, stack)) /\ Cardinality(LiveFrom(i, stack)) \in Nat
<1>1. LiveIn(i) \in SUBSET Addr /\ LiveFrom(i, stack) \in SUBSET Addr
    BY DEF TypeOK, LiveIn, LiveFrom
<1> QED BY <1>1, FS_Subset, FS_CardinalityType, DetectorAssumption

(* The net allocations of a class are a number. *)
LEMMA NetAllocsType == ASSUME TypeOK, NEW i \in SizeIndex PROVE NetAllocs(i) \in Int
<1>1. size_entries[i] \in [num_allocs : Nat, num_frees : Nat]
    BY DEF TypeOK
<1> QED BY <1>1 DEF NetAllocs

(* A count that goes up with a new allocation, and down with a free. *)
LEMMA CountUp ==
    ASSUME NEW n \in Int, NEW live, IsFiniteSet(live), Counts(n, live), NEW ptr,
           ptr \in live => AddrMayRepeat
    PROVE  Counts(n + 1, live \union {ptr}) /\ (AddrMayRepeat => Counts(n + 1, live))
<1>1. /\ Cardinality(live) \in Nat
      /\ Cardinality(live \union {ptr}) =
            IF ptr \in live THEN Cardinality(live) ELSE Cardinality(live) + 1
    BY FS_CardinalityType, FS_AddElement
<1>2. AddrMayRepeat \in BOOLEAN
    BY DetectorAssumption
<1>3. n + 1 >= Cardinality(live \union {ptr}) /\ n + 1 >= Cardinality(live)
    BY <1>1 DEF Counts
<1>4. ASSUME ~AddrMayRepeat PROVE n + 1 = Cardinality(live \union {ptr})
    BY <1>1, <1>4 DEF Counts
<1> QED BY <1>2, <1>3, <1>4 DEF Counts

LEMMA CountDown ==
    ASSUME NEW n \in Int, NEW live, IsFiniteSet(live), Counts(n, live), NEW ptr \in live
    PROVE  n > 0 /\ Counts(n - 1, live \ {ptr})
<1>1. /\ Cardinality(live) \in Nat /\ Cardinality(live \ {ptr}) \in Nat
      /\ Cardinality(live \ {ptr}) = Cardinality(live) - 1
    BY FS_RemoveElement, FS_CardinalityType
<1> QED BY <1>1 DEF Counts

-----------------------------------------------------------------------------
LEMMA InitLiveInv == Init => LiveInv
<1> SUFFICES ASSUME Init PROVE LiveInv
    OBVIOUS
<1>1. TypeInv
    BY InitTypeInv
<1>2. TablesAreSound /\ TablesCount
    BY DEF Init, TablesAreSound, TablesCount
<1>3. ASSUME NEW i \in SizeIndex PROVE Counts(NetAllocs(i), LiveIn(i))
  <2>1. NetAllocs(i) = 0 /\ LiveIn(i) = {}
      BY DEF Init, NetAllocs, LiveIn
  <2> QED BY <2>1, FS_EmptySet DEF Counts
<1> QED BY <1>1, <1>2, <1>3 DEF LiveInv, ClassesCount

(* The step of one class that a recorded allocation or free makes. *)
LEMMA RecordAllocNet ==
    ASSUME TypeOK, NEW ptr \in Addr, NEW size \in Size, NEW stack, RecordAlloc(ptr, size, stack)
    PROVE  \A i \in SizeIndex :
              NetAllocs(i)' = IF i = SizeToIndex(size) THEN NetAllocs(i) + 1 ELSE NetAllocs(i)
<1> DEFINE k == SizeToIndex(size)
<1>1. size_entries \in [SizeIndex -> [num_allocs : Nat, num_frees : Nat]]
    BY DEF TypeOK
<1>2. size_entries' = [size_entries EXCEPT ![k].num_allocs = @ + 1]
    BY DEF RecordAlloc
<1>3. k \in SizeIndex
    BY SizeToIndexType, DetectorAssumption
<1> HIDE DEF k
<1>4. \A i \in SizeIndex : NetAllocs(i)' = IF i = k THEN NetAllocs(i) + 1 ELSE NetAllocs(i)
    BY <1>1, <1>2, <1>3 DEF NetAllocs
<1> QED BY <1>4 DEF k

LEMMA RecordFreeNet ==
    ASSUME TypeOK, NEW ptr, RecordFree(ptr)
    PROVE  LET k == SizeToIndex(address_map[ptr].size)
           IN  /\ k \in SizeIndex
               /\ \A i \in SizeIndex :
                     NetAllocs(i)' = IF i = k THEN NetAllocs(i) - 1 ELSE NetAllocs(i)
<1> DEFINE k == SizeToIndex(address_map[ptr].size)
<1>1. size_entries \in [SizeIndex -> [num_allocs : Nat, num_frees : Nat]]
    BY DEF TypeOK
<1>2. size_entries' = [size_entries EXCEPT ![k].num_frees = @ + 1]
    BY DEF RecordFree
<1>3. k \in SizeIndex
  <2>1. address_map[ptr] \in AllocInfo
      BY DEF RecordFree, TypeOK
  <2> QED BY <2>1, SizeToIndexType, DetectorAssumption DEF AllocInfo
<1> HIDE DEF k
<1>4. \A i \in SizeIndex : NetAllocs(i)' = IF i = k THEN NetAllocs(i) - 1 ELSE NetAllocs(i)
    BY <1>1, <1>2, <1>3 DEF NetAllocs
<1> QED BY <1>3, <1>4 DEF k

(* RecordAlloc adds at most one allocation to what is live. *)
LEMMA RecordAllocLive ==
    ASSUME LiveInv, NEW ptr \in Addr, NEW size \in Size, NEW stack \in Stack \union {NoStack},
           RecordAlloc(ptr, size, stack)
    PROVE  LiveInv'
<1> DEFINE k == SizeToIndex(size)
           profiled == k \in DOMAIN stack_tables /\ stack # NoStack
           fresh == ptr \notin DOMAIN address_map
<1>1. TypeInv /\ TypeOK /\ TypeInv' /\ TypeOK'
    BY RecordAllocTypeInv DEF LiveInv, TypeInv
<1>2. k \in SizeIndex
    BY SizeToIndexType, DetectorAssumption
<1>3. /\ DOMAIN address_map' = DOMAIN address_map \union {ptr}
      /\ \A a \in DOMAIN address_map : address_map'[a] = address_map[a]
      /\ fresh => address_map'[ptr] = [size |-> size, call_stack |-> IF profiled THEN stack ELSE NoStack]
      /\ AddrMayRepeat \/ fresh
    BY DEF RecordAlloc
<1>4. /\ DOMAIN stack_tables' = DOMAIN stack_tables
      /\ \A i \in DOMAIN stack_tables :
            stack_tables'[i] = IF profiled /\ i = k THEN AddToTable(stack_tables[i], stack)
                                                   ELSE stack_tables[i]
    BY DEF RecordAlloc
<1>5. \A i \in SizeIndex : NetAllocs(i)' = IF i = k THEN NetAllocs(i) + 1 ELSE NetAllocs(i)
    BY <1>1, RecordAllocNet
<1>6. \A i : LiveIn(i)' = IF fresh /\ i = k THEN LiveIn(i) \union {ptr} ELSE LiveIn(i)
    BY <1>3 DEF LiveIn
<1>7. \A i : \A c \in Stack :
         LiveFrom(i, c)' = IF fresh /\ profiled /\ i = k /\ c = stack
                           THEN LiveFrom(i, c) \union {ptr} ELSE LiveFrom(i, c)
    BY <1>3, DetectorAssumption DEF LiveFrom, LiveIn, NoStack
<1>8. TablesAreSound'
  <2>1. \A i \in DOMAIN stack_tables' : IsTable(stack_tables'[i])
      BY <1>4, AddToTableStep DEF LiveInv, TablesAreSound
  <2>2. ASSUME NEW a \in DOMAIN address_map', address_map'[a].call_stack # NoStack
        PROVE  SizeToIndex(address_map'[a].size) \in DOMAIN stack_tables'
    <3>1. CASE a \in DOMAIN address_map
        BY <1>3, <1>4, <2>2, <3>1 DEF LiveInv, TablesAreSound
    <3>2. CASE a = ptr /\ fresh
        BY <1>3, <1>4, <2>2, <3>2
    <3> QED BY <1>3, <3>1, <3>2
  <2> QED BY <2>1, <2>2 DEF TablesAreSound, SizeToIndex, IsTable, WordSize
<1>9. ClassesCount'
  <2> SUFFICES ASSUME NEW i \in SizeIndex PROVE Counts(NetAllocs(i)', LiveIn(i)')
      BY DEF ClassesCount, Counts
  <2>1. /\ NetAllocs(i) \in Int /\ IsFiniteSet(LiveIn(i))
        /\ Counts(NetAllocs(i), LiveIn(i))
      BY <1>1, NetAllocsType, LiveIsFinite DEF LiveInv, ClassesCount
  <2>2. fresh => ptr \notin LiveIn(i)
      BY DEF LiveIn
  <2>3. CASE i # k
      BY <1>5, <1>6, <2>1, <2>3
  <2>4. CASE i = k /\ fresh
      BY <1>5, <1>6, <2>1, <2>2, <2>4, CountUp
  <2>5. CASE i = k /\ ~fresh
    <3>1. AddrMayRepeat
        BY <1>3, <2>5
    <3>2. Counts(NetAllocs(i) + 1, LiveIn(i))
        BY <2>1, <3>1, CountUp
    <3> QED BY <1>5, <1>6, <2>5, <3>2
  <2> QED BY <2>3, <2>4, <2>5
<1>10. TablesCount'
  <2> SUFFICES ASSUME NEW i \in DOMAIN stack_tables', NEW c \in Stack
               PROVE  Counts(NetOf(stack_tables'[i], c), LiveFrom(i, c)')
      BY DEF TablesCount, Counts, NetOf
  <2>1. /\ i \in DOMAIN stack_tables /\ IsTable(stack_tables[i])
        /\ NetOf(stack_tables[i], c) \in Int /\ IsFiniteSet(LiveFrom(i, c))
        /\ Counts(NetOf(stack_tables[i], c), LiveFrom(i, c))
      BY <1>1, <1>4, NetOfType, LiveIsFinite DEF LiveInv, TablesAreSound, TablesCount
  <2>2. fresh => ptr \notin LiveFrom(i, c)
      BY DEF LiveFrom, LiveIn
  <2>3. NetOf(stack_tables'[i], c) = IF profiled /\ i = k /\ c = stack
                                     THEN NetOf(stack_tables[i], c) + 1
                                     ELSE NetOf(stack_tables[i], c)
      BY <1>4, <2>1, AddToTableStep
  <2>4. CASE ~(profiled /\ i = k /\ c = stack)
      BY <1>7, <2>1, <2>3, <2>4
  <2>5. CASE profiled /\ i = k /\ c = stack /\ fresh
      BY <1>7, <2>1, <2>2, <2>3, <2>5, CountUp
  <2>6. CASE profiled /\ i = k /\ c = stack /\ ~fresh
    <3>1. AddrMayRepeat
        BY <1>3, <2>6
    <3>2. Counts(NetOf(stack_tables[i], c) + 1, LiveFrom(i, c))
        BY <2>1, <3>1, CountUp
    <3> QED BY <1>7, <2>3, <2>6, <3>2
  <2> QED BY <2>4, <2>5, <2>6
<1> QED BY <1>1, <1>8, <1>9, <1>10 DEF LiveInv

(* RecordFree takes one allocation from what is live. *)
LEMMA RecordFreeLive ==
    ASSUME LiveInv, NEW ptr \in Addr, RecordFree(ptr)
    PROVE  LiveInv'
<1> DEFINE k == SizeToIndex(address_map[ptr].size)
           stack == address_map[ptr].call_stack
           profiled == stack # NoStack /\ k \in DOMAIN stack_tables
<1>1. TypeInv /\ TypeOK /\ TypeInv' /\ TypeOK'
    BY RecordFreeTypeInv DEF LiveInv, TypeInv
<1>2. ptr \in DOMAIN address_map /\ address_map[ptr] \in AllocInfo
    BY <1>1 DEF RecordFree, TypeOK
<1>3. k \in SizeIndex /\ stack \in Stack \union {NoStack}
    BY <1>2, SizeToIndexType, DetectorAssumption DEF AllocInfo
<1>4. address_map' = [a \in DOMAIN address_map \ {ptr} |-> address_map[a]]
    BY DEF RecordFree
<1>5. /\ DOMAIN stack_tables' = DOMAIN stack_tables
      /\ \A i \in DOMAIN stack_tables :
            stack_tables'[i] = IF profiled /\ i = k THEN RemoveFromTable(stack_tables[i], stack)
                                                   ELSE stack_tables[i]
    BY DEF RecordFree
<1>6. \A i \in SizeIndex : NetAllocs(i)' = IF i = k THEN NetAllocs(i) - 1 ELSE NetAllocs(i)
    BY <1>1, RecordFreeNet
<1>7. \A i : LiveIn(i)' = IF i = k THEN LiveIn(i) \ {ptr} ELSE LiveIn(i)
    BY <1>4 DEF LiveIn
<1>8. \A i, c : LiveFrom(i, c)' = IF i = k /\ c = stack THEN LiveFrom(i, c) \ {ptr} ELSE LiveFrom(i, c)
    BY <1>4 DEF LiveFrom, LiveIn
<1>9. stack # NoStack => profiled
    BY <1>2 DEF LiveInv, TablesAreSound
<1>10. ptr \in LiveIn(k) /\ ptr \in LiveFrom(k, stack)
    BY <1>2 DEF LiveIn, LiveFrom
<1>11. profiled => stack \in Stack /\ NetOf(stack_tables[k], stack) > 0
  <2> SUFFICES ASSUME profiled PROVE stack \in Stack /\ NetOf(stack_tables[k], stack) > 0
      OBVIOUS
  <2>1. stack \in Stack
      BY <1>3
  <2>2. /\ IsTable(stack_tables[k]) /\ NetOf(stack_tables[k], stack) \in Int
        /\ IsFiniteSet(LiveFrom(k, stack))
        /\ Counts(NetOf(stack_tables[k], stack), LiveFrom(k, stack))
      BY <1>1, <2>1, NetOfType, LiveIsFinite DEF LiveInv, TablesAreSound, TablesCount
  <2> QED BY <1>10, <2>1, <2>2, CountDown
<1>12. TablesAreSound'
  <2>1. \A i \in DOMAIN stack_tables' : IsTable(stack_tables'[i])
      BY <1>5, <1>11, RemoveFromTableStep DEF LiveInv, TablesAreSound
  <2>2. \A a \in DOMAIN address_map' :
           address_map'[a].call_stack # NoStack => SizeToIndex(address_map'[a].size) \in DOMAIN stack_tables'
      BY <1>4, <1>5 DEF LiveInv, TablesAreSound
  <2> QED BY <2>1, <2>2 DEF TablesAreSound, SizeToIndex, IsTable, WordSize
<1>13. ClassesCount'
  <2> SUFFICES ASSUME NEW i \in SizeIndex PROVE Counts(NetAllocs(i)', LiveIn(i)')
      BY DEF ClassesCount, Counts
  <2>1. /\ NetAllocs(i) \in Int /\ IsFiniteSet(LiveIn(i))
        /\ Counts(NetAllocs(i), LiveIn(i))
      BY <1>1, NetAllocsType, LiveIsFinite DEF LiveInv, ClassesCount
  <2> QED BY <1>6, <1>7, <1>10, <2>1, CountDown
<1>14. TablesCount'
  <2> SUFFICES ASSUME NEW i \in DOMAIN stack_tables', NEW c \in Stack
               PROVE  Counts(NetOf(stack_tables'[i], c), LiveFrom(i, c)')
      BY DEF TablesCount, Counts, NetOf
  <2>1. /\ i \in DOMAIN stack_tables /\ IsTable(stack_tables[i])
        /\ NetOf(stack_tables[i], c) \in Int /\ IsFiniteSet(LiveFrom(i, c))
        /\ Counts(NetOf(stack_tables[i], c), LiveFrom(i, c))
      BY <1>1, <1>5, NetOfType, LiveIsFinite DEF LiveInv, TablesAreSound, TablesCount
  <2>2. CASE i = k /\ c = stack
    <3>1. profiled
        BY <1>9, <2>2, DetectorAssumption
    <3>2. NetOf(stack_tables'[i], c) = NetOf(stack_tables[i], c) - 1
        BY <1>5, <1>11, <2>1, <2>2, <3>1, RemoveFromTableStep
    <3> QED BY <1>8, <1>10, <2>1, <2>2, <3>2, CountDown
  <2>3. CASE ~(i = k /\ c = stack)
    <3>1. NetOf(stack_tables'[i], c) = NetOf(stack_tables[i], c)
        BY <1>5, <1>11, <2>1, <2>3, RemoveFromTableStep
    <3> QED BY <1>8, <2>1, <2>3, <3>1
  <2> QED BY <2>2, <2>3
<1> QED BY <1>1, <1>12, <1>13, <1>14 DEF LiveInv

(* A test creates tables only for classes whose live allocations have no call stack. *)
LEMMA TestForLeaksLive ==
    ASSUME LiveInv, TestForLeaks
    PROVE  LiveInv'
<1>1. TypeInv /\ TypeOK /\ TypeInv'
    BY TestForLeaksTypeInv DEF LiveInv, TypeInv
<1>2. UNCHANGED <<address_map, size_entries>>
    BY DEF TestForLeaks
<1>3. \A table : \A list : Sampled(table, list).entry_map = table.entry_map
                          /\ DOMAIN Sampled(table, list) = DOMAIN table
    BY DEF Sampled
<1>4. DOMAIN stack_tables \subseteq DOMAIN stack_tables'
    BY <1>1, TestEffect
<1>5. ASSUME NEW i \in DOMAIN stack_tables'
      PROVE  LET old == IF i \in DOMAIN stack_tables THEN stack_tables[i] ELSE NewTable(CallStackThreshold)
             IN  /\ stack_tables'[i].entry_map = old.entry_map
                 /\ DOMAIN stack_tables'[i] = DOMAIN old
    BY <1>1, <1>3, TestEffect
<1>6. /\ NewTable(CallStackThreshold).entry_map = [c \in {} |-> 0]
      /\ IsTable(NewTable(CallStackThreshold))
    BY DEF NewTable, IsTable
<1>7. TablesAreSound'
  <2>1. \A i \in DOMAIN stack_tables' : IsTable(stack_tables'[i])
      BY <1>5, <1>6 DEF LiveInv, TablesAreSound, IsTable
  <2> QED BY <1>2, <1>4, <2>1 DEF LiveInv, TablesAreSound, SizeToIndex, IsTable, WordSize
<1>8. ClassesCount'
    BY <1>2 DEF LiveInv, ClassesCount, Counts, NetAllocs, LiveIn, SizeToIndex
<1>9. TablesCount'
  <2> SUFFICES ASSUME NEW i \in DOMAIN stack_tables', NEW c \in Stack
               PROVE  Counts(NetOf(stack_tables'[i], c), LiveFrom(i, c)')
      BY DEF TablesCount, Counts, NetOf
  <2>1. LiveFrom(i, c)' = LiveFrom(i, c)
      BY <1>2 DEF LiveFrom, LiveIn, SizeToIndex
  <2>2. CASE i \in DOMAIN stack_tables
      BY <1>5, <2>1, <2>2 DEF LiveInv, TablesCount, NetOf
  <2>3. CASE i \notin DOMAIN stack_tables
    <3>1. NetOf(stack_tables'[i], c) = 0
        BY <1>5, <1>6, <2>3 DEF NetOf
    <3>2. LiveFrom(i, c) = {}
        BY <2>3, DetectorAssumption DEF LiveInv, TablesAreSound, LiveFrom, LiveIn
    <3> QED BY <2>1, <3>1, <3>2, FS_EmptySet DEF Counts
  <2> QED BY <2>2, <2>3
<1> QED BY <1>1, <1>7, <1>8, <1>9 DEF LiveInv

LEMMA NextLiveInv == LiveInv /\ [Next]_vars => LiveInv'
<1> SUFFICES ASSUME LiveInv, [Next]_vars PROVE LiveInv'
    OBVIOUS
<1>1. CASE UNCHANGED vars
  <2>1. TypeInv'
      BY <1>1, NextTypeInv DEF LiveInv
  <2>2. TablesAreSound'
      BY <1>1 DEF LiveInv, vars, TablesAreSound, IsTable, SizeToIndex
  <2>3. /\ \A i : NetAllocs(i)' = NetAllocs(i) /\ LiveIn(i)' = LiveIn(i)
        /\ \A i, c : LiveFrom(i, c)' = LiveFrom(i, c)
        /\ stack_tables' = stack_tables
      BY <1>1 DEF vars, NetAllocs, LiveIn, LiveFrom, SizeToIndex
  <2>4. ClassesCount'
      BY <2>3 DEF LiveInv, ClassesCount, Counts
  <2>5. TablesCount'
      BY <2>3 DEF LiveInv, TablesCount, Counts, NetOf
  <2> QED BY <2>1, <2>2, <2>4, <2>5 DEF LiveInv
<1>2. CASE \E ptr \in Addr, size \in Size, stack \in Stack \union {NoStack} :
              RecordAlloc(ptr, size, stack)
    BY <1>2, RecordAllocLive
<1>3. CASE \E ptr \in Addr : RecordFree(ptr)
    BY <1>3, RecordFreeLive
<1>4. CASE TestForLeaks
    BY <1>4, TestForLeaksLive
<1> QED BY <1>1, <1>2, <1>3, <1>4 DEF Next

LEMMA LiveInvariance == Spec => []LiveInv
    BY InitLiveInv, NextLiveInv, PTL DEF Spec

-----------------------------------------------------------------------------
(***************************************************************************)
(* Whatever addresses come, freed or not, no class and no table ever       *)
(* counts less than what is live.                                          *)
(***************************************************************************)
THEOREM CountsAlwaysCoverLive == Spec => []CountsCoverLive
<1>1. LiveInv => CountsCoverLive
    BY DEF LiveInv, ClassesCount, TablesCount, Counts, CountsCoverLive
<1> QED BY <1>1, LiveInvariance, PTL

(***************************************************************************)
(* When an address is freed before it comes again, the classes count       *)
(* exactly what is live.                                                   *)
(***************************************************************************)
THEOREM NetAllocsAreAlwaysLive ==
    ASSUME ~AddrMayRepeat PROVE Spec => []NetAllocsAreLive
<1>1. LiveInv => NetAllocsAreLive
    BY DEF LiveInv, ClassesCount, Counts, NetAllocsAreLive
<1> QED BY <1>1, LiveInvariance, PTL

(***************************************************************************)
(* And the tables count exactly what is live of the allocations recorded   *)
(* with a call stack.                                                      *)
(***************************************************************************)
THEOREM TablesAlwaysCountLive ==
    ASSUME ~AddrMayRepeat PROVE Spec => []TablesCountLive
<1>1. LiveInv => TablesCountLive
    BY DEF LiveInv, TablesCount, Counts, TablesCountLive
<1> QED BY <1>1, LiveInvariance, PTL

-----------------------------------------------------------------------------
(***************************************************************************)
(* Tier 1 implements SuspicionRuns: a test is a sample, and no allocation  *)
(* or free changes a score.                                                *)
(***************************************************************************)
LEMMA InitSizeRuns == Init => SizeRuns!Init
    BY DEF Init, NewAnalyzer, SizeRuns!Init, SizeScore

LEMMA NextSizeRuns ==
    TypeInv /\ [Next]_vars =>
        [SizeRuns!Next]_<<[size \in SizeValue |-> SizeScore(size)], size_leak_analyzer.suspected_leaks>>
<1> SUFFICES ASSUME TypeInv, [Next]_vars
             PROVE  [SizeRuns!Next]_<<[size \in SizeValue |-> SizeScore(size)],
                                      size_leak_analyzer.suspected_leaks>>
    OBVIOUS
<1>1. CASE UNCHANGED size_leak_analyzer
    BY <1>1 DEF SizeScore
<1>2. ASSUME TestForLeaks PROVE SizeRuns!Next
  <2> DEFINE S == SuspectsOf(size_leak_analyzer, SizeRankedList)
             histogram == size_leak_analyzer.suspected_histogram
  <2>1. size_leak_analyzer' = AddSample(size_leak_analyzer, SizeRankedList)
      BY <1>2, TestEffect
  <2>2. /\ IsAnalyzerOver(SizeValue, size_leak_analyzer)
        /\ size_leak_analyzer.score_threshold = SizeThreshold
        /\ SizeThreshold \in Nat /\ SizeValue \in SUBSET Int
        /\ IsListOver(SizeValue, SizeRankedList)
      BY SizeValueType, SizeRankedListType, DetectorAssumption DEF TypeInv, AnalyzerInv
  <2>3. /\ S \subseteq SizeValue /\ Cardinality(S) < RankingSize
        /\ histogram' = [v \in S |-> IF v \in DOMAIN histogram THEN histogram[v] + 1 ELSE 1]
        /\ IsAnalyzerOver(SizeValue, size_leak_analyzer')
      BY <2>1, <2>2, AddSampleStep
  <2>4. \A v \in SizeValue : SizeScore(v)' = IF v \in S THEN SizeScore(v) + 1 ELSE 0
      BY <2>3 DEF SizeScore
  <2>5. size_leak_analyzer'.score_threshold = SizeThreshold
      BY <2>1, <2>2 DEF AddSample
  <2>6. size_leak_analyzer'.suspected_leaks = {v \in S : SizeScore(v)' >= SizeThreshold}
      BY <2>3, <2>5 DEF IsAnalyzerOver, SizeScore
  <2>7. SizeRuns!Sample(S)
      BY <2>3, <2>4, <2>6 DEF SizeRuns!Sample, SizeValue
  <2> QED BY <2>3, <2>7 DEF SizeRuns!Next, SizeRuns!Cardinality, SizeRuns!IsFiniteSet,
                            Cardinality, IsFiniteSet, SizeValue
<1>3. [Next]_vars => TestForLeaks \/ UNCHANGED size_leak_analyzer
    BY DEF Next, vars, RecordAlloc, RecordFree
<1> QED BY <1>1, <1>2, <1>3

(***************************************************************************)
(* Tier 1 of the detector implements SuspicionRuns: a size class is        *)
(* reported exactly when it was suspected in SizeThreshold tests in a row, *)
(* for any allocations, frees and tests.                                   *)
(***************************************************************************)
THEOREM SizesRefine == Spec => SizesImplementSuspicionRuns
    BY InitSizeRuns, NextSizeRuns, TypeInvariance, PTL
    DEF Spec, SizesImplementSuspicionRuns, SizeRuns!Spec, SizeValue

-----------------------------------------------------------------------------
(***************************************************************************)
(* The third part, ReportInv.  A score is worth nothing without the list   *)
(* it was scored by: every table's analyzer ranked the call stacks it      *)
(* scores with larger counts than their scores (ScoresTrailCounts, in      *)
(* IsTableOver).  For the times, a table is as old as the test that        *)
(* created it, and a score needs a list from a test before.                *)
(***************************************************************************)
TablesAnalyze ==
    \A i \in DOMAIN stack_tables :
        /\ IsTableOver(Stack, stack_tables[i])
        /\ stack_tables[i].leak_analyzer.score_threshold = CallStackThreshold

SizesTakeTime ==
    /\ \A v \in DOMAIN size_leak_analyzer.suspected_histogram :
          size_leak_analyzer.suspected_histogram[v] < num_tests
    /\ num_tests = 0 => size_leak_analyzer.ranked_entries = <<>>

(* An analyzer of a table is this old, in tests since the table can exist. *)
HasTaken(tests, analyzer) ==
    /\ tests > SizeThreshold
    /\ analyzer.ranked_entries # <<>> => tests > SizeThreshold + 1
    /\ \A v \in DOMAIN analyzer.suspected_histogram :
          tests > SizeThreshold + analyzer.suspected_histogram[v] + 1

TablesTakeTime ==
    /\ \A i \in DOMAIN stack_tables : HasTaken(num_tests, stack_tables[i].leak_analyzer)
    /\ reports # {} => num_tests > SizeThreshold + CallStackThreshold + 1

ReportInv == LiveInv /\ TablesAnalyze /\ ReferencesAreOwned /\ SizesTakeTime /\ TablesTakeTime

-----------------------------------------------------------------------------
LEMMA InitReportInv == Init => ReportInv
<1> SUFFICES ASSUME Init PROVE ReportInv
    OBVIOUS
<1>1. LiveInv
    BY InitLiveInv
<1>2. TablesAnalyze /\ ReferencesAreOwned /\ TablesTakeTime
    BY DEF Init, TablesAnalyze, ReferencesAreOwned, TablesTakeTime
<1>3. SizesTakeTime
    BY DEF Init, SizesTakeTime, NewAnalyzer
<1> QED BY <1>1, <1>2, <1>3 DEF ReportInv

(* Add and Remove leave the analyzer of a table alone. *)
LEMMA TableStepAnalyzes ==
    ASSUME NEW table, IsTableOver(Stack, table), NEW stack \in Stack
    PROVE  /\ IsTableOver(Stack, AddToTable(table, stack))
           /\ NetOf(table, stack) > 0 => IsTableOver(Stack, RemoveFromTable(table, stack))
    BY AddToTableStep, RemoveFromTableStep DEF IsTableOver

(* RecordAlloc gives the call stack its object before anything refers to it. *)
LEMMA RecordAllocReport ==
    ASSUME ReportInv, NEW ptr \in Addr, NEW size \in Size, NEW stack \in Stack \union {NoStack},
           RecordAlloc(ptr, size, stack)
    PROVE  ReportInv'
<1> DEFINE k == SizeToIndex(size)
           profiled == k \in DOMAIN stack_tables /\ stack # NoStack
<1>1. LiveInv'
    BY RecordAllocLive DEF ReportInv
<1>2. /\ DOMAIN stack_tables' = DOMAIN stack_tables
      /\ \A i \in DOMAIN stack_tables :
            stack_tables'[i] = IF profiled /\ i = k THEN AddToTable(stack_tables[i], stack)
                                                   ELSE stack_tables[i]
    BY DEF RecordAlloc
<1>3. /\ UNCHANGED <<size_leak_analyzer, reports, num_tests>>
      /\ call_stacks' = IF profiled THEN call_stacks \union {stack} ELSE call_stacks
    BY DEF RecordAlloc
<1>4. profiled => stack \in Stack
    OBVIOUS
<1>5. \A i \in DOMAIN stack_tables :
         /\ IsTable(stack_tables[i]) /\ IsTableOver(Stack, stack_tables[i])
         /\ stack_tables'[i].leak_analyzer = stack_tables[i].leak_analyzer
         /\ IsTableOver(Stack, stack_tables'[i])
         /\ DOMAIN stack_tables'[i].entry_map \subseteq
               DOMAIN stack_tables[i].entry_map \union (IF profiled THEN {stack} ELSE {})
  <2>1. \A i \in DOMAIN stack_tables : IsTableOver(Stack, stack_tables[i]) /\ IsTable(stack_tables[i])
      BY DEF ReportInv, TablesAnalyze, IsTableOver
  <2>2. \A i \in DOMAIN stack_tables : profiled =>
           LET new == AddToTable(stack_tables[i], stack)
           IN  /\ IsTableOver(Stack, new)
               /\ new.leak_analyzer = stack_tables[i].leak_analyzer
               /\ DOMAIN new.entry_map = DOMAIN stack_tables[i].entry_map \union {stack}
      BY <1>4, <2>1, AddToTableStep, TableStepAnalyzes
  <2> HIDE DEF profiled
  <2> QED BY <1>2, <2>1, <2>2
<1>6. TablesAnalyze'
    BY <1>2, <1>5 DEF ReportInv, TablesAnalyze
<1>7. SizesTakeTime' /\ TablesTakeTime'
    BY <1>2, <1>3, <1>5 DEF ReportInv, SizesTakeTime, TablesTakeTime, HasTaken
<1>8. ReferencesAreOwned'
  <2>1. /\ DOMAIN address_map' = DOMAIN address_map \union {ptr}
        /\ \A a \in DOMAIN address_map : address_map'[a] = address_map[a]
        /\ ptr \notin DOMAIN address_map =>
              address_map'[ptr] = [size |-> size, call_stack |-> IF profiled THEN stack ELSE NoStack]
      BY DEF RecordAlloc
  <2>2. \A a \in DOMAIN address_map' : address_map'[a].call_stack # NoStack =>
           /\ address_map'[a].call_stack \in call_stacks'
           /\ SizeToIndex(address_map'[a].size) \in DOMAIN stack_tables'
    <3> SUFFICES ASSUME NEW a \in DOMAIN address_map', address_map'[a].call_stack # NoStack
                 PROVE  /\ address_map'[a].call_stack \in call_stacks'
                        /\ SizeToIndex(address_map'[a].size) \in DOMAIN stack_tables'
        OBVIOUS
    <3>1. CASE a \in DOMAIN address_map
        BY <1>2, <1>3, <2>1, <3>1 DEF ReportInv, ReferencesAreOwned
    <3>2. CASE a \notin DOMAIN address_map
      <4>1. a = ptr /\ address_map'[a] = [size |-> size, call_stack |-> IF profiled THEN stack ELSE NoStack]
          BY <2>1, <3>2
      <4> QED BY <1>2, <1>3, <4>1
    <3> QED BY <3>1, <3>2
  <2>3. \A i \in DOMAIN stack_tables' :
           /\ DOMAIN stack_tables'[i].entry_map \subseteq call_stacks'
           /\ DOMAIN stack_tables'[i].leak_analyzer.suspected_histogram \subseteq call_stacks'
      BY <1>2, <1>3, <1>5 DEF ReportInv, ReferencesAreOwned
  <2> QED BY <2>2, <2>3 DEF ReferencesAreOwned, SizeToIndex, WordSize
<1> QED BY <1>1, <1>6, <1>7, <1>8 DEF ReportInv

LEMMA RecordFreeReport ==
    ASSUME ReportInv, NEW ptr \in Addr, RecordFree(ptr)
    PROVE  ReportInv'
<1> DEFINE k == SizeToIndex(address_map[ptr].size)
           stack == address_map[ptr].call_stack
           profiled == stack # NoStack /\ k \in DOMAIN stack_tables
<1>1. LiveInv'
    BY RecordFreeLive DEF ReportInv
<1>2. /\ DOMAIN stack_tables' = DOMAIN stack_tables
      /\ \A i \in DOMAIN stack_tables :
            stack_tables'[i] = IF profiled /\ i = k THEN RemoveFromTable(stack_tables[i], stack)
                                                   ELSE stack_tables[i]
    BY DEF RecordFree
<1>3. UNCHANGED <<size_leak_analyzer, call_stacks, reports, num_tests>>
    BY DEF RecordFree
<1>4. \A i \in DOMAIN stack_tables : IsTableOver(Stack, stack_tables[i]) /\ IsTable(stack_tables[i])
    BY DEF ReportInv, TablesAnalyze, IsTableOver
<1>5. profiled => stack \in Stack /\ NetOf(stack_tables[k], stack) > 0
  <2> SUFFICES ASSUME profiled PROVE stack \in Stack /\ NetOf(stack_tables[k], stack) > 0
      OBVIOUS
  <2>1. TypeOK /\ ptr \in DOMAIN address_map
      BY DEF ReportInv, LiveInv, TypeInv, RecordFree
  <2>2. stack \in Stack
      BY <2>1 DEF TypeOK, AllocInfo
  <2>3. /\ NetOf(stack_tables[k], stack) \in Int
        /\ IsFiniteSet(LiveFrom(k, stack))
        /\ Counts(NetOf(stack_tables[k], stack), LiveFrom(k, stack))
      BY <1>4, <2>1, <2>2, NetOfType, LiveIsFinite DEF ReportInv, LiveInv, TablesCount
  <2>4. ptr \in LiveFrom(k, stack)
      BY <2>1 DEF LiveIn, LiveFrom
  <2> QED BY <2>2, <2>3, <2>4, CountDown
<1>6. \A i \in DOMAIN stack_tables :
         /\ stack_tables'[i].leak_analyzer = stack_tables[i].leak_analyzer
         /\ IsTableOver(Stack, stack_tables'[i])
         /\ DOMAIN stack_tables'[i].entry_map \subseteq DOMAIN stack_tables[i].entry_map
  <2>1. profiled =>
           LET new == RemoveFromTable(stack_tables[k], stack)
           IN  /\ IsTableOver(Stack, new)
               /\ new.leak_analyzer = stack_tables[k].leak_analyzer
               /\ DOMAIN new.entry_map \subseteq DOMAIN stack_tables[k].entry_map
      BY <1>4, <1>5, RemoveFromTableStep, TableStepAnalyzes
  <2> QED BY <1>2, <1>4, <2>1
<1>7. TablesAnalyze'
    BY <1>2, <1>6 DEF ReportInv, TablesAnalyze
<1>8. SizesTakeTime' /\ TablesTakeTime'
    BY <1>2, <1>3, <1>6 DEF ReportInv, SizesTakeTime, TablesTakeTime, HasTaken
<1>9. ReferencesAreOwned'
  <2>1. address_map' = [a \in DOMAIN address_map \ {ptr} |-> address_map[a]]
      BY DEF RecordFree
  <2> QED BY <1>2, <1>3, <1>6, <2>1 DEF ReportInv, ReferencesAreOwned, SizeToIndex, WordSize
<1> QED BY <1>1, <1>7, <1>8, <1>9 DEF ReportInv

(***************************************************************************)
(* What a test does to the tables and what it reports: a table that is     *)
(* empty, a new one among them, is passed over.                            *)
(***************************************************************************)
LEMMA TestOfTables ==
    ASSUME TypeInv, TestForLeaks
    PROVE  /\ \A i \in DOMAIN stack_tables' \ DOMAIN stack_tables :
                 /\ stack_tables'[i] = NewTable(CallStackThreshold)
                 /\ size_leak_analyzer'.suspected_leaks # {}
           /\ \A i \in DOMAIN stack_tables :
                 \/ stack_tables'[i] = stack_tables[i]
                 \/ \E list \in RankedLists(stack_tables[i]) :
                       stack_tables'[i] = Sampled(stack_tables[i], list)
           /\ \A r \in reports' :
                 /\ r[1] \in DOMAIN stack_tables /\ r[2] \in Stack
                 /\ r[2] \in SuspectedStacks(stack_tables'[r[1]])
                 /\ \E list \in RankedLists(stack_tables[r[1]]) :
                       stack_tables'[r[1]] = Sampled(stack_tables[r[1]], list)
<1> DEFINE analyzer == AddSample(size_leak_analyzer, SizeRankedList)
           tables == WithNewTables(analyzer)
           tested == TestedTables(tables)
<1>1. /\ size_leak_analyzer' = analyzer
      /\ \E list \in [tested -> UNION {RankedLists(tables[i]) : i \in tested}] :
            /\ \A i \in tested : list[i] \in RankedLists(tables[i])
            /\ stack_tables' = [i \in DOMAIN tables |->
                                   IF i \in tested THEN Sampled(tables[i], list[i]) ELSE tables[i]]
      /\ reports' = {r \in tested \X Stack : r[2] \in SuspectedStacks(stack_tables'[r[1]])}
    BY DEF TestForLeaks
<1>2. /\ DOMAIN tables = DOMAIN stack_tables \union
                            {SizeToIndex(size) : size \in analyzer.suspected_leaks}
      /\ \A i \in DOMAIN tables :
            tables[i] = IF i \in DOMAIN stack_tables THEN stack_tables[i]
                                                     ELSE NewTable(CallStackThreshold)
    BY DEF WithNewTables, SuspectedClasses
<1>3. IsEmpty(NewTable(CallStackThreshold))
    BY DEF IsEmpty, NewTable
<1>4. tested = {i \in DOMAIN tables : ~IsEmpty(tables[i])}
    BY DEF TestedTables
<1> HIDE DEF analyzer, tables, tested
<1>5. tested \subseteq DOMAIN stack_tables
    BY <1>2, <1>3, <1>4
<1>6. PICK list \in [tested -> UNION {RankedLists(tables[i]) : i \in tested}] :
         /\ \A i \in tested : list[i] \in RankedLists(tables[i])
         /\ stack_tables' = [i \in DOMAIN tables |->
                                IF i \in tested THEN Sampled(tables[i], list[i]) ELSE tables[i]]
    BY <1>1
<1>7. /\ DOMAIN stack_tables' = DOMAIN tables
      /\ \A i \in tested : /\ tables[i] = stack_tables[i]
                           /\ list[i] \in RankedLists(stack_tables[i])
                           /\ stack_tables'[i] = Sampled(stack_tables[i], list[i])
      /\ \A i \in DOMAIN tables \ tested : stack_tables'[i] = tables[i]
    BY <1>2, <1>4, <1>5, <1>6
<1>8. \A i \in DOMAIN tables \ DOMAIN stack_tables :
         /\ stack_tables'[i] = NewTable(CallStackThreshold)
         /\ analyzer.suspected_leaks # {}
    BY <1>2, <1>5, <1>7
<1>9. \A i \in DOMAIN stack_tables :
         \/ stack_tables'[i] = stack_tables[i]
         \/ \E l \in RankedLists(stack_tables[i]) : stack_tables'[i] = Sampled(stack_tables[i], l)
    BY <1>2, <1>7
<1>10. \A r \in reports' :
          /\ r[1] \in tested /\ r[2] \in Stack
          /\ r[2] \in SuspectedStacks(stack_tables'[r[1]])
    BY <1>1
<1> QED BY <1>1, <1>5, <1>7, <1>8, <1>9, <1>10

(* The test of one table that existed: what it scores is owned, held and takes its time. *)
LEMMA TableTest ==
    ASSUME ReportInv, NEW i \in DOMAIN stack_tables, NEW list \in RankedLists(stack_tables[i])
    PROVE  LET new == Sampled(stack_tables[i], list)
               scores == new.leak_analyzer.suspected_histogram
           IN  /\ IsTableOver(Stack, new)
               /\ new.leak_analyzer.score_threshold = CallStackThreshold
               /\ new.entry_map = stack_tables[i].entry_map
               /\ DOMAIN scores \subseteq call_stacks
               /\ HasTaken(num_tests + 1, new.leak_analyzer)
               /\ \A v \in DOMAIN scores :
                     /\ scores[v] \in Nat
                     /\ NetOf(stack_tables[i], v) > scores[v]
                     /\ \E w \in DOMAIN stack_tables[i].entry_map : w # v
<1> DEFINE table == stack_tables[i]
           new == Sampled(table, list)
           old == table.leak_analyzer.suspected_histogram
           scores == new.leak_analyzer.suspected_histogram
<1>1. /\ IsTableOver(Stack, table) /\ table.leak_analyzer.score_threshold = CallStackThreshold
      /\ CallStackThreshold \in Nat /\ SizeThreshold \in Nat
      /\ Stack \in SUBSET Int /\ IsFiniteSet(Stack)
    BY DetectorAssumption DEF ReportInv, TablesAnalyze
<1>2. /\ IsTableOver(Stack, new) /\ new.entry_map = table.entry_map
      /\ new.leak_analyzer.score_threshold = CallStackThreshold
      /\ table.leak_analyzer.ranked_entries = <<>> => DOMAIN scores = {}
      /\ DOMAIN scores \subseteq DOMAIN table.entry_map
      /\ \A v \in DOMAIN scores :
            /\ scores[v] = IF v \in DOMAIN old THEN old[v] + 1 ELSE 1
            /\ table.entry_map[v] > scores[v]
            /\ \E w \in DOMAIN table.entry_map : w # v
    BY <1>1, SampledStep
<1>3. DOMAIN table.entry_map \subseteq call_stacks
    BY DEF ReportInv, ReferencesAreOwned
<1>4. HasTaken(num_tests, table.leak_analyzer) /\ num_tests \in Nat
    BY DEF ReportInv, TablesTakeTime, LiveInv, TypeInv, TypeOK
<1>5. old \in [DOMAIN old -> Nat \ {0}]
    BY <1>1 DEF IsTableOver, IsAnalyzerOver
<1> HIDE DEF table, new, old, scores
<1>6. \A v \in DOMAIN scores : scores[v] \in Nat /\ num_tests + 1 > SizeThreshold + scores[v] + 1
  <2> SUFFICES ASSUME NEW v \in DOMAIN scores
               PROVE  scores[v] \in Nat /\ num_tests + 1 > SizeThreshold + scores[v] + 1
      OBVIOUS
  <2>1. table.leak_analyzer.ranked_entries # <<>>
      BY <1>2
  <2>2. num_tests > SizeThreshold + 1
      BY <1>4, <2>1 DEF HasTaken
  <2>3. CASE v \in DOMAIN old
    <3>1. old[v] \in Nat /\ num_tests > SizeThreshold + old[v] + 1
        BY <1>4, <1>5, <2>3 DEF HasTaken, old
    <3> QED BY <1>1, <1>2, <1>4, <2>3, <3>1
  <2>4. CASE v \notin DOMAIN old
      BY <1>1, <1>2, <1>4, <2>2, <2>4
  <2> QED BY <2>3, <2>4
<1>7. HasTaken(num_tests + 1, new.leak_analyzer)
    BY <1>1, <1>4, <1>6 DEF HasTaken, scores
<1>8. \A v \in DOMAIN scores : NetOf(table, v) > scores[v]
    BY <1>2 DEF NetOf
<1> QED BY <1>1, <1>2, <1>3, <1>6, <1>7, <1>8 DEF table, new, scores

(* Tier 1: another sample, which suspects nothing if it is the first. *)
LEMMA SizesTest ==
    ASSUME ReportInv, TestForLeaks
    PROVE  /\ SizesTakeTime'
           /\ size_leak_analyzer'.suspected_leaks # {} => num_tests + 1 > SizeThreshold
<1> DEFINE old == size_leak_analyzer.suspected_histogram
           new == size_leak_analyzer'.suspected_histogram
           S == SuspectsOf(size_leak_analyzer, SizeRankedList)
<1>1. TypeInv /\ TypeOK /\ num_tests \in Nat /\ num_tests' = num_tests + 1
    BY DEF ReportInv, LiveInv, TypeInv, TypeOK, TestForLeaks
<1>2. size_leak_analyzer' = AddSample(size_leak_analyzer, SizeRankedList) /\ AnalyzerInv'
    BY <1>1, TestEffect
<1>3. /\ IsAnalyzerOver(SizeValue, size_leak_analyzer)
      /\ size_leak_analyzer.score_threshold = SizeThreshold /\ SizeThreshold \in Nat
      /\ SizeValue \in SUBSET Int /\ IsListOver(SizeValue, SizeRankedList)
    BY <1>1, SizeValueType, SizeRankedListType, DetectorAssumption DEF TypeInv, AnalyzerInv
<1>4. /\ size_leak_analyzer.ranked_entries = <<>> => S = {}
      /\ new = [v \in S |-> IF v \in DOMAIN old THEN old[v] + 1 ELSE 1]
      /\ old \in [DOMAIN old -> Nat \ {0}]
    BY <1>2, <1>3, AddSampleStep DEF IsAnalyzerOver
<1>5. /\ \A v \in DOMAIN old : old[v] < num_tests
      /\ num_tests = 0 => size_leak_analyzer.ranked_entries = <<>>
    BY DEF ReportInv, SizesTakeTime
<1>6. \A v \in DOMAIN new : new[v] \in Nat /\ new[v] < num_tests + 1
  <2> SUFFICES ASSUME NEW v \in S PROVE new[v] \in Nat /\ new[v] < num_tests + 1
      BY <1>4
  <2>1. num_tests > 0
      BY <1>1, <1>4, <1>5
  <2>2. new[v] = IF v \in DOMAIN old THEN old[v] + 1 ELSE 1
      BY <1>4
  <2>3. v \in DOMAIN old => old[v] \in Nat /\ old[v] < num_tests
      BY <1>4, <1>5
  <2> HIDE DEF old, new, S
  <2> QED BY <1>1, <2>1, <2>2, <2>3
<1>7. SizesTakeTime'
    BY <1>1, <1>6 DEF SizesTakeTime
<1>8. size_leak_analyzer'.suspected_leaks = {v \in DOMAIN new : new[v] >= SizeThreshold}
    BY <1>2 DEF AnalyzerInv, IsAnalyzerOver
<1>9. size_leak_analyzer'.suspected_leaks # {} => num_tests + 1 > SizeThreshold
  <2> HIDE DEF new
  <2> QED BY <1>1, <1>3, <1>6, <1>8
<1> QED BY <1>7, <1>9

LEMMA TestForLeaksReport ==
    ASSUME ReportInv, TestForLeaks
    PROVE  ReportInv'
<1>1. LiveInv' /\ TypeInv
    BY TestForLeaksLive DEF ReportInv, LiveInv
<1>2. /\ UNCHANGED <<address_map, call_stacks>>
      /\ num_tests' = num_tests + 1 /\ num_tests \in Nat
      /\ SizeThreshold \in Nat /\ CallStackThreshold \in Nat
    BY <1>1, DetectorAssumption DEF TestForLeaks, TypeInv, TypeOK
<1>3. SizesTakeTime'
    BY SizesTest
<1>4. DOMAIN stack_tables \subseteq DOMAIN stack_tables'
    BY <1>1, TestEffect
<1>5. ASSUME NEW i \in DOMAIN stack_tables'
      PROVE  LET table == stack_tables'[i]
             IN  /\ IsTableOver(Stack, table)
                 /\ table.leak_analyzer.score_threshold = CallStackThreshold
                 /\ DOMAIN table.entry_map \subseteq call_stacks
                 /\ DOMAIN table.leak_analyzer.suspected_histogram \subseteq call_stacks
                 /\ HasTaken(num_tests + 1, table.leak_analyzer)
  <2>1. CASE i \notin DOMAIN stack_tables
    <3>1. stack_tables'[i] = NewTable(CallStackThreshold) /\ num_tests + 1 > SizeThreshold
        BY <1>1, <2>1, TestOfTables, SizesTest
    <3>2. /\ NewTable(CallStackThreshold).entry_map = [c \in {} |-> 0]
          /\ NewTable(CallStackThreshold).leak_analyzer = NewAnalyzer(CallStackThreshold)
        BY DEF NewTable
    <3>3. HasTaken(num_tests + 1, NewAnalyzer(CallStackThreshold))
        BY <3>1 DEF HasTaken, NewAnalyzer
    <3>4. /\ NewAnalyzer(CallStackThreshold).score_threshold = CallStackThreshold
          /\ DOMAIN NewAnalyzer(CallStackThreshold).suspected_histogram = {}
        BY DEF NewAnalyzer
    <3> QED BY <3>1, <3>2, <3>3, <3>4, NewTableIsTable
  <2>2. CASE i \in DOMAIN stack_tables /\ stack_tables'[i] = stack_tables[i]
    <3>1. HasTaken(num_tests, stack_tables[i].leak_analyzer) /\ IsTableOver(Stack, stack_tables[i])
        BY <2>2 DEF ReportInv, TablesTakeTime, TablesAnalyze
    <3>2. \A v \in DOMAIN stack_tables[i].leak_analyzer.suspected_histogram :
             stack_tables[i].leak_analyzer.suspected_histogram[v] \in Nat
        BY <3>1 DEF IsTableOver, IsAnalyzerOver
    <3>3. HasTaken(num_tests + 1, stack_tables[i].leak_analyzer)
        BY <1>2, <3>1, <3>2 DEF HasTaken
    <3> QED BY <2>2, <3>3 DEF ReportInv, TablesAnalyze, ReferencesAreOwned
  <2>3. ASSUME i \in DOMAIN stack_tables, NEW list \in RankedLists(stack_tables[i]),
               stack_tables'[i] = Sampled(stack_tables[i], list)
        PROVE  LET table == stack_tables'[i]
               IN  /\ IsTableOver(Stack, table)
                   /\ table.leak_analyzer.score_threshold = CallStackThreshold
                   /\ DOMAIN table.entry_map \subseteq call_stacks
                   /\ DOMAIN table.leak_analyzer.suspected_histogram \subseteq call_stacks
                   /\ HasTaken(num_tests + 1, table.leak_analyzer)
    <3>1. DOMAIN stack_tables[i].entry_map \subseteq call_stacks
        BY <2>3 DEF ReportInv, ReferencesAreOwned
    <3> QED BY <2>3, <3>1, TableTest
  <2> QED BY <1>1, <2>1, <2>2, <2>3, TestOfTables
<1>6. TablesAnalyze'
    BY <1>5 DEF TablesAnalyze
<1>7. ReferencesAreOwned'
  <2>1. \A i \in DOMAIN stack_tables' :
           /\ DOMAIN stack_tables'[i].entry_map \subseteq call_stacks'
           /\ DOMAIN stack_tables'[i].leak_analyzer.suspected_histogram \subseteq call_stacks'
      BY <1>2, <1>5
  <2>2. \A a \in DOMAIN address_map' : address_map'[a].call_stack # NoStack =>
           /\ address_map'[a].call_stack \in call_stacks'
           /\ SizeToIndex(address_map'[a].size) \in DOMAIN stack_tables'
      BY <1>2, <1>4 DEF ReportInv, ReferencesAreOwned
  <2> QED BY <2>1, <2>2 DEF ReferencesAreOwned, SizeToIndex, WordSize
<1>8. reports' # {} => num_tests + 1 > SizeThreshold + CallStackThreshold + 1
  <2> SUFFICES ASSUME NEW r \in reports' PROVE num_tests + 1 > SizeThreshold + CallStackThreshold + 1
      OBVIOUS
  <2> DEFINE analyzer == stack_tables'[r[1]].leak_analyzer
             scores == analyzer.suspected_histogram
  <2>1. /\ r[1] \in DOMAIN stack_tables' /\ r[2] \in analyzer.suspected_leaks
      BY <1>1, <1>4, TestOfTables DEF SuspectedStacks
  <2>2. /\ HasTaken(num_tests + 1, analyzer) /\ analyzer.score_threshold = CallStackThreshold
        /\ IsAnalyzerOver(Stack, analyzer)
      BY <1>5, <2>1 DEF IsTableOver
  <2>3. r[2] \in DOMAIN scores /\ scores[r[2]] >= CallStackThreshold /\ scores[r[2]] \in Nat
      BY <2>1, <2>2 DEF IsAnalyzerOver
  <2>4. num_tests + 1 > SizeThreshold + scores[r[2]] + 1
      BY <2>2, <2>3 DEF HasTaken
  <2> HIDE DEF scores
  <2> QED BY <1>2, <2>3, <2>4
<1>9. TablesTakeTime'
    BY <1>2, <1>5, <1>8 DEF TablesTakeTime
<1> QED BY <1>1, <1>3, <1>6, <1>7, <1>9 DEF ReportInv

LEMMA NextReportInv == ReportInv /\ [Next]_vars => ReportInv'
<1> SUFFICES ASSUME ReportInv, [Next]_vars PROVE ReportInv'
    OBVIOUS
<1>1. CASE UNCHANGED vars
  <2>1. LiveInv'
      BY <1>1, NextLiveInv DEF ReportInv
  <2>2. UNCHANGED <<address_map, stack_tables, size_leak_analyzer, call_stacks, reports, num_tests>>
      BY <1>1 DEF vars
  <2>3. TablesAnalyze' /\ SizesTakeTime' /\ TablesTakeTime'
      BY <2>2 DEF ReportInv, TablesAnalyze, SizesTakeTime, TablesTakeTime, HasTaken
  <2>4. ReferencesAreOwned'
      BY <2>2 DEF ReportInv, ReferencesAreOwned, SizeToIndex, WordSize
  <2> QED BY <2>1, <2>3, <2>4 DEF ReportInv
<1>2. CASE \E ptr \in Addr, size \in Size, stack \in Stack \union {NoStack} :
              RecordAlloc(ptr, size, stack)
    BY <1>2, RecordAllocReport
<1>3. CASE \E ptr \in Addr : RecordFree(ptr)
    BY <1>3, RecordFreeReport
<1>4. CASE TestForLeaks
    BY <1>4, TestForLeaksReport
<1> QED BY <1>1, <1>2, <1>3, <1>4 DEF Next

LEMMA ReportInvariance == Spec => []ReportInv
    BY InitReportInv, NextReportInv, PTL DEF Spec

-----------------------------------------------------------------------------
(***************************************************************************)
(* Whatever the map, the tables and their analyzers refer to as a call     *)
(* stack is one that the manager has an object for.                        *)
(***************************************************************************)
THEOREM ReferencesAreAlwaysOwned == Spec => []ReferencesAreOwned
<1>1. ReportInv => ReferencesAreOwned
    BY DEF ReportInv
<1> QED BY <1>1, ReportInvariance, PTL

(***************************************************************************)
(* For any thresholds, no class is profiled before SizeThreshold + 1 tests *)
(* and nothing is reported before CallStackThreshold + 1 more.             *)
(***************************************************************************)
THEOREM ReportsAlwaysTakeTime == Spec => []ReportsTakeTime
<1>1. ReportInv => ReportsTakeTime
    BY DEF ReportInv, TablesTakeTime, HasTaken, ReportsTakeTime
<1> QED BY <1>1, ReportInvariance, PTL

(* What a reported call stack counts, and another one of its class. *)
LEMMA ReportedStacks ==
    ASSUME ReportInv, TestForLeaks, NEW r \in reports'
    PROVE  /\ r[1] \in DOMAIN stack_tables /\ r[2] \in Stack
           /\ NetOf(stack_tables[r[1]], r[2]) > CallStackThreshold
           /\ \E c \in Stack \ {r[2]} : NetOf(stack_tables[r[1]], c) > 0
<1>1. PICK list \in RankedLists(stack_tables[r[1]]) :
         stack_tables'[r[1]] = Sampled(stack_tables[r[1]], list)
    BY TestOfTables DEF ReportInv, LiveInv
<1> DEFINE table == stack_tables[r[1]]
           analyzer == stack_tables'[r[1]].leak_analyzer
           scores == analyzer.suspected_histogram
<1>2. r[1] \in DOMAIN stack_tables /\ r[2] \in Stack /\ r[2] \in analyzer.suspected_leaks
    BY TestOfTables DEF ReportInv, LiveInv, SuspectedStacks
<1>3. /\ IsAnalyzerOver(Stack, analyzer) /\ analyzer.score_threshold = CallStackThreshold
      /\ \A v \in DOMAIN scores : /\ scores[v] \in Nat
                                /\ NetOf(table, v) > scores[v]
                                /\ \E w \in DOMAIN table.entry_map : w # v
    BY <1>1, <1>2, TableTest DEF IsTableOver
<1>4. r[2] \in DOMAIN scores /\ scores[r[2]] >= CallStackThreshold
    BY <1>2, <1>3 DEF IsAnalyzerOver
<1>5. IsTable(table) /\ DOMAIN table.entry_map \subseteq Stack
    BY <1>2 DEF ReportInv, TablesAnalyze, IsTableOver
<1>6. NetOf(table, r[2]) \in Nat /\ CallStackThreshold \in Nat
    BY <1>5, NetOfType, DetectorAssumption
<1>7. NetOf(table, r[2]) > CallStackThreshold
    BY <1>3, <1>4, <1>6
<1>8. \A w \in DOMAIN table.entry_map : NetOf(table, w) > 0 /\ w \in Stack
    BY <1>5 DEF IsTable, NetOf
<1> QED BY <1>2, <1>3, <1>4, <1>7, <1>8

(***************************************************************************)
(* When every address is freed before it comes again: a call stack that a  *)
(* test reports has more than CallStackThreshold live allocations, for any *)
(* thresholds, ranking size and order of the hash tables.                  *)
(***************************************************************************)
THEOREM ReportedStacksAlwaysHoldMemory ==
    ASSUME ~AddrMayRepeat PROVE Spec => ReportedStacksHoldMemory
<1>1. ASSUME ReportInv, [Next]_vars, num_tests' # num_tests, NEW r \in reports'
      PROVE  Cardinality(LiveFrom(r[1], r[2])) > CallStackThreshold
  <2>1. TestForLeaks
      BY <1>1 DEF Next, vars, RecordAlloc, RecordFree
  <2>2. /\ r[1] \in DOMAIN stack_tables /\ r[2] \in Stack
        /\ NetOf(stack_tables[r[1]], r[2]) > CallStackThreshold
      BY <1>1, <2>1, ReportedStacks
  <2> QED BY <1>1, <2>2 DEF ReportInv, LiveInv, TablesCount, Counts
<1>2. ReportInv /\ [Next]_vars =>
         (num_tests' # num_tests =>
             \A r \in reports' : Cardinality(LiveFrom(r[1], r[2])) > CallStackThreshold)
    BY <1>1
<1> QED BY <1>2, ReportInvariance, PTL DEF Spec, ReportedStacksHoldMemory

(***************************************************************************)
(* Under the same condition: another call stack of the same size class has *)
(* live allocations too.                                                   *)
(***************************************************************************)
THEOREM ReportedStacksAlwaysHaveCompany ==
    ASSUME ~AddrMayRepeat PROVE Spec => ReportedStacksHaveCompany
<1>1. ASSUME ReportInv, [Next]_vars, num_tests' # num_tests, NEW r \in reports'
      PROVE  \E stack \in Stack \ {r[2]} : LiveFrom(r[1], stack) # {}
  <2>1. TestForLeaks
      BY <1>1 DEF Next, vars, RecordAlloc, RecordFree
  <2>2. r[1] \in DOMAIN stack_tables
      BY <1>1, <2>1, ReportedStacks
  <2>3. PICK c \in Stack \ {r[2]} : NetOf(stack_tables[r[1]], c) > 0
      BY <1>1, <2>1, ReportedStacks
  <2>4. Cardinality(LiveFrom(r[1], c)) > 0
      BY <1>1, <2>2, <2>3 DEF ReportInv, LiveInv, TablesCount, Counts
  <2> QED BY <2>3, <2>4, FS_EmptySet
<1>2. ReportInv /\ [Next]_vars =>
         (num_tests' # num_tests =>
             \A r \in reports' : \E stack \in Stack \ {r[2]} : LiveFrom(r[1], stack) # {})
    BY <1>1
<1> QED BY <1>2, ReportInvariance, PTL DEF Spec, ReportedStacksHaveCompany

-----------------------------------------------------------------------------
(***************************************************************************)
(* What DumpStats prints as the net size: numbers that differ by a         *)
(* multiple of the width of the counters.                                  *)
(***************************************************************************)
LEMMA Remainder ==
    ASSUME NEW x \in Int, NEW w \in Nat \ {0}
    PROVE  x % w \in 0..(w - 1) /\ \E q \in Int : x = q * w + (x % w)
<1>1. x % w \in 0..(w - 1) /\ x = (x \div w) * w + (x % w) /\ x \div w \in Int
    OBVIOUS
<1> QED BY <1>1

LEMMA TimesPositive ==
    ASSUME NEW q \in Int, NEW w \in Nat \ {0}
    PROVE  q * w \in Int /\ (q > 0 => q * w >= w) /\ (q < 0 => q * w <= -w)
<1>1. q * w \in Int
    OBVIOUS
<1>2. ASSUME q > 0 PROVE q * w >= w
  <2>1. (q - 1) * w \in Nat
      BY <1>2, q - 1 \in Nat
  <2>2. q * w = (q - 1) * w + w
      OBVIOUS
  <2> QED BY <2>1, <2>2
<1>3. ASSUME q < 0 PROVE q * w <= -w
  <2>1. (-q - 1) * w \in Nat
      BY <1>3, -q - 1 \in Nat
  <2>2. q * w = -((-q - 1) * w) - w
      OBVIOUS
  <2> QED BY <2>1, <2>2
<1> QED BY <1>1, <1>2, <1>3

LEMMA SameRemainder ==
    ASSUME NEW w \in Nat \ {0}, NEW x \in Int, NEW y \in Int, NEW q \in Int, x = y + q * w
    PROVE  x % w = y % w
<1>1. PICK a \in Int : x = a * w + (x % w)
    BY Remainder
<1>2. PICK b \in Int : y = b * w + (y % w)
    BY Remainder
<1>3. x % w \in 0..(w - 1) /\ y % w \in 0..(w - 1)
    BY Remainder
<1> DEFINE r == x % w
           s == y % w
           d == b + q - a
<1> HIDE DEF r, s
<1>4. d \in Int /\ d * w = b * w + q * w - a * w
    OBVIOUS
<1>5. r - s = d * w
    BY <1>1, <1>2, <1>4 DEF r, s
<1>6. r \in 0..(w - 1) /\ s \in 0..(w - 1)
    BY <1>3 DEF r, s
<1>7. d = 0
  <2> HIDE DEF d
  <2> QED BY <1>4, <1>5, <1>6, TimesPositive
<1>8. r = s
  <2>1. d * w = 0
      BY <1>7
  <2> QED BY <1>5, <1>6, <2>1
<1> QED BY <1>8 DEF r, s

(***************************************************************************)
(* Two counters, one of which goes up by n, each by itself cut to its      *)
(* width: their difference follows.                                        *)
(***************************************************************************)
LEMMA CountersFollow ==
    ASSUME NEW w \in Nat \ {0}, NEW a \in Int, NEW f \in Int, NEW n \in Int
    PROVE  (((((a + n) % w) - f) % w) - ((a - f) % w)) % w = n % w
<1> DEFINE s == a + n
           p == s % w
           d == a - f
           x == d % w
           e == p - f
           y == e % w
<1>1. s \in Int /\ d \in Int
    OBVIOUS
<1> HIDE DEF s, d
<1>2. p \in Int /\ x \in Int
    BY <1>1, Remainder
<1>3. PICK i \in Int : s = i * w + p
    BY <1>1, Remainder
<1>4. PICK j \in Int : d = j * w + x
    BY <1>1, Remainder
<1> HIDE DEF p, x
<1>5. e \in Int
    BY <1>2
<1> HIDE DEF e
<1>6. y \in Int
    BY <1>5, Remainder
<1>7. PICK k \in Int : e = k * w + y
    BY <1>5, Remainder
<1> HIDE DEF y
<1> DEFINE q == j - i - k
           t == y - x
<1>8. q \in Int /\ q * w = j * w - i * w - k * w
    OBVIOUS
<1>9. i * w \in Int /\ j * w \in Int /\ k * w \in Int
    OBVIOUS
<1>10. t \in Int /\ t = n + q * w
    BY <1>2, <1>3, <1>4, <1>6, <1>7, <1>8, <1>9 DEF s, d, e
<1> HIDE DEF q, t
<1>11. t % w = n % w
    BY <1>8, <1>10, SameRemainder
<1> QED BY <1>11 DEF t, y, e, x, p, d, s

LEMMA CountersFollowBack ==
    ASSUME NEW w \in Nat \ {0}, NEW a \in Int, NEW f \in Int, NEW n \in Int
    PROVE  (((a - ((f + n) % w)) % w) - ((a - f) % w)) % w = (0 - n) % w
<1> DEFINE s == f + n
           p == s % w
           d == a - f
           x == d % w
           e == a - p
           y == e % w
           m == 0 - n
<1>1. s \in Int /\ d \in Int /\ m \in Int
    OBVIOUS
<1> HIDE DEF s, d, m
<1>2. p \in Int /\ x \in Int
    BY <1>1, Remainder
<1>3. PICK i \in Int : s = i * w + p
    BY <1>1, Remainder
<1>4. PICK j \in Int : d = j * w + x
    BY <1>1, Remainder
<1> HIDE DEF p, x
<1>5. e \in Int
    BY <1>2
<1> HIDE DEF e
<1>6. y \in Int
    BY <1>5, Remainder
<1>7. PICK k \in Int : e = k * w + y
    BY <1>5, Remainder
<1> HIDE DEF y
<1> DEFINE q == j + i - k
           t == y - x
<1>8. q \in Int /\ q * w = j * w + i * w - k * w
    OBVIOUS
<1>9. i * w \in Int /\ j * w \in Int /\ k * w \in Int
    OBVIOUS
<1>10. t \in Int /\ t = m + q * w
    BY <1>2, <1>3, <1>4, <1>6, <1>7, <1>8, <1>9 DEF s, d, e, m
<1> HIDE DEF q, t
<1>11. t % w = m % w
    BY <1>1, <1>8, <1>10, SameRemainder
<1> QED BY <1>11 DEF t, y, e, x, p, d, s, m

(* The size that the steps of the detector add to or take from the live bytes. *)
LEMMA LiveBytesAdded ==
    ASSUME TypeOK, NEW ptr \in Addr, NEW size \in Size, NEW stack \in Stack \union {NoStack},
           RecordAlloc(ptr, size, stack), ptr \notin DOMAIN address_map
    PROVE  LiveBytes' - LiveBytes = size
<1> DEFINE D == DOMAIN address_map
           fun == [a \in D |-> address_map[a].size]
           E == DOMAIN address_map'
           gun == [a \in E |-> address_map'[a].size]
<1>1. /\ E = D \union {ptr}
      /\ \A a \in D : address_map'[a] = address_map[a]
      /\ address_map'[ptr].size = size
    BY DEF RecordAlloc
<1>2. IsFiniteSet(D) /\ \A a \in D : address_map[a].size \in Int
    BY FS_Subset, DetectorAssumption DEF TypeOK, AllocInfo
<1>3. IsFiniteSet(E) /\ size \in Int
    BY <1>1, <1>2, FS_AddElement, DetectorAssumption
<1>4. LiveBytes = SumFunctionOnSet(fun, D) /\ LiveBytes' = SumFunctionOnSet(gun, E)
    BY DEF LiveBytes, SumFunction
<1>5. /\ \A a \in D : fun[a] \in Int /\ gun[a] = fun[a]
      /\ \A a \in E : gun[a] \in Int
      /\ gun[ptr] = size
    BY <1>1, <1>2, <1>3
<1> HIDE DEF fun, gun, D, E
<1>6. /\ IsSummable(fun, D) /\ IsSummable(gun, D \union {ptr}) /\ ptr \notin D
      /\ \A a \in D : gun[a] = fun[a]
    BY <1>1, <1>2, <1>3, <1>5 DEF IsSummable, D
<1>7. SumFunctionOnSet(gun, D \union {ptr}) = SumFunctionOnSet(fun, D) + gun[ptr]
    BY <1>6, SumWithOneMore
<1>8. SumFunctionOnSet(fun, D) \in Int
    BY <1>6, SumType
<1> QED BY <1>1, <1>3, <1>4, <1>5, <1>7, <1>8

LEMMA LiveBytesTaken ==
    ASSUME TypeOK, NEW ptr \in Addr, RecordFree(ptr)
    PROVE  /\ address_map[ptr].size \in Int
           /\ LiveBytes' - LiveBytes = 0 - address_map[ptr].size
<1> DEFINE D == DOMAIN address_map
           fun == [a \in D |-> address_map[a].size]
           E == DOMAIN address_map'
           gun == [a \in E |-> address_map'[a].size]
<1>1. /\ ptr \in D /\ E = D \ {ptr}
      /\ \A a \in E : address_map'[a] = address_map[a]
    BY DEF RecordFree
<1>2. IsFiniteSet(D) /\ \A a \in D : address_map[a].size \in Int
    BY FS_Subset, DetectorAssumption DEF TypeOK, AllocInfo
<1>3. IsFiniteSet(E)
    BY <1>1, <1>2, FS_Subset
<1>4. LiveBytes = SumFunctionOnSet(fun, D) /\ LiveBytes' = SumFunctionOnSet(gun, E)
    BY DEF LiveBytes, SumFunction
<1>5. /\ \A a \in D : fun[a] \in Int
      /\ \A a \in E : gun[a] \in Int /\ gun[a] = fun[a]
      /\ fun[ptr] = address_map[ptr].size
    BY <1>1, <1>2
<1> HIDE DEF fun, gun, D, E
<1>6. /\ IsSummable(gun, E) /\ IsSummable(fun, E \union {ptr}) /\ ptr \notin E
      /\ \A a \in E : fun[a] = gun[a]
  <2>1. E \union {ptr} = D
      BY <1>1
  <2>2. IsSummable(fun, D) /\ IsSummable(gun, E)
      BY <1>2, <1>3, <1>5 DEF IsSummable, D
  <2> QED BY <1>1, <1>5, <2>1, <2>2
<1>7. SumFunctionOnSet(fun, E \union {ptr}) = SumFunctionOnSet(gun, E) + fun[ptr]
    BY <1>6, SumWithOneMore
<1>8. SumFunctionOnSet(gun, E) \in Int
    BY <1>6, SumType
<1>9. E \union {ptr} = D
    BY <1>1
<1>10. SumFunctionOnSet(fun, D) = SumFunctionOnSet(gun, E) + fun[ptr]
    BY <1>7, <1>9
<1>11. fun[ptr] \in Int
    BY <1>1, <1>5
<1> QED BY <1>4, <1>5, <1>8, <1>10, <1>11

LEMMA StepNetSize ==
    ASSUME ~AddrMayRepeat, TypeOK, [Next]_vars
    PROVE  (NetAllocSize' - NetAllocSize) % Word = (LiveBytes' - LiveBytes) % Word
<1> DEFINE a == stats.alloc_size
           f == stats.free_size
<1>1. a \in Int /\ f \in Int /\ Word \in Nat \ {0} /\ a - f \in Int
    BY DetectorAssumption DEF TypeOK, Stats, Counter
<1>2. LiveBytes \in Int
  <2> DEFINE D == DOMAIN address_map
             fun == [x \in D |-> address_map[x].size]
  <2>1. IsSummable(fun, D)
      BY FS_Subset, DetectorAssumption DEF TypeOK, AllocInfo, IsSummable
  <2>2. LiveBytes = SumFunctionOnSet(fun, D)
      BY DEF LiveBytes, SumFunction
  <2> HIDE DEF fun, D
  <2> QED BY <2>1, <2>2, SumType
<1>3. ASSUME NEW ptr \in Addr, NEW size \in Size, NEW stack \in Stack \union {NoStack},
             RecordAlloc(ptr, size, stack)
      PROVE  (NetAllocSize' - NetAllocSize) % Word = (LiveBytes' - LiveBytes) % Word
  <2>1. LiveBytes' - LiveBytes = size /\ size \in Int
    <3>1. ptr \notin DOMAIN address_map
        BY <1>3 DEF RecordAlloc
    <3>2. size \in Int
        BY DetectorAssumption
    <3> QED BY <1>3, <3>1, <3>2, LiveBytesAdded
  <2>2. stats'.alloc_size = (a + size) % Word /\ stats'.free_size = f
      BY <1>3 DEF RecordAlloc, TypeOK, Stats
  <2>3. NetAllocSize = (a - f) % Word /\ NetAllocSize' = (((a + size) % Word) - f) % Word
      BY <2>2 DEF NetAllocSize
  <2> HIDE DEF a, f
  <2>4. (NetAllocSize' - NetAllocSize) % Word = size % Word
      BY <1>1, <2>1, <2>3, CountersFollow
  <2> QED BY <2>1, <2>4
<1>4. ASSUME NEW ptr \in Addr, RecordFree(ptr)
      PROVE  (NetAllocSize' - NetAllocSize) % Word = (LiveBytes' - LiveBytes) % Word
  <2> DEFINE size == address_map[ptr].size
  <2>1. LiveBytes' - LiveBytes = 0 - size /\ size \in Int
      BY <1>4, LiveBytesTaken
  <2>2. stats'.free_size = (f + size) % Word /\ stats'.alloc_size = a
      BY <1>4 DEF RecordFree, StatsAfterFree, TypeOK, Stats
  <2>3. NetAllocSize = (a - f) % Word /\ NetAllocSize' = (a - ((f + size) % Word)) % Word
      BY <2>2 DEF NetAllocSize
  <2> HIDE DEF a, f, size
  <2>4. (NetAllocSize' - NetAllocSize) % Word = (0 - size) % Word
      BY <1>1, <2>1, <2>3, CountersFollowBack
  <2> QED BY <2>1, <2>4
<1>5. ASSUME TestForLeaks \/ UNCHANGED vars
      PROVE  (NetAllocSize' - NetAllocSize) % Word = (LiveBytes' - LiveBytes) % Word
  <2>1. /\ address_map' = address_map
        /\ stats'.alloc_size = a /\ stats'.free_size = f
      BY <1>5 DEF TestForLeaks, vars, TypeOK, Stats
  <2>2. LiveBytes' = LiveBytes /\ NetAllocSize' = NetAllocSize
      BY <2>1 DEF LiveBytes, NetAllocSize
  <2>3. NetAllocSize \in Int
      BY <1>1, Remainder DEF NetAllocSize
  <2> QED BY <1>2, <2>2, <2>3
<1> QED BY <1>3, <1>4, <1>5 DEF Next

(***************************************************************************)
(* The net size that DumpStats prints follows the live bytes, whatever the *)
(* counters start with and however often they wrap, when an address is     *)
(* freed before it comes again.                                            *)
(***************************************************************************)
THEOREM NetSizeAlwaysFollowsLiveBytes ==
    ASSUME ~AddrMayRepeat PROVE Spec => NetAllocSizeFollowsLiveBytes
<1>1. TypeInv /\ [Next]_vars =>
         (NetAllocSize' - NetAllocSize) % Word = (LiveBytes' - LiveBytes) % Word
    BY StepNetSize DEF TypeInv
<1> QED BY <1>1, TypeInvariance, PTL DEF Spec, NetAllocSizeFollowsLiveBytes
=============================================================================
