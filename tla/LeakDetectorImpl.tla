-------------------------- MODULE LeakDetectorImpl --------------------------
(***************************************************************************)
(* Class LeakDetectorImpl (leak_detector_impl.h, .cc): it records          *)
(* allocations and frees, and on each test looks for leaks in two tiers.   *)
(* Tier 1 analyzes the net number of allocations of every size class; a    *)
(* class it suspects gets a CallStackTable, and from then on the           *)
(* allocations of that class are counted by call stack.  Tier 2 analyzes   *)
(* the tables, and reports the call stacks suspected there.                *)
(*                                                                         *)
(* A call stack is a natural number, the address of its object; that there *)
(* is one object per stack is what CallStackManager is checked for.        *)
(***************************************************************************)
EXTENDS CallStackTable

CONSTANTS
    Addr,               \* addresses of allocations
    Size,               \* sizes allocated
    Stack,              \* call stacks
    NumSizeEntries,     \* kNumSizeEntries
    SizeThreshold,      \* size_suspicion_threshold
    CallStackThreshold, \* call_stack_suspicion_threshold
    Word,               \* modulus of the uint64_t counters
    Uninitialized,      \* what the counters the constructor leaves alone may start from
    AddrMayRepeat,      \* whether an allocation may come for an address still in use
    MaxAllocs,          \* bound: calls of RecordAlloc
    MaxTests            \* bound: calls of TestForLeaks

WordSize == 4           \* sizeof(uint32_t)
NoStack  == 0           \* no call stack: stack_depth is 0, or the pointer is null

SizeIndex == 0..(NumSizeEntries - 1)

ASSUME DetectorAssumption ==
    /\ IsFiniteSet(Addr)
    /\ Size \subseteq Nat \ {0}
    /\ Stack \subseteq Nat \ {NoStack} /\ IsFiniteSet(Stack)
    /\ NumSizeEntries \in Nat \ {0}
    /\ SizeThreshold \in Nat /\ CallStackThreshold \in Nat
    /\ Word \in Nat \ {0}
    /\ Uninitialized \subseteq 0..(Word - 1)
    /\ AddrMayRepeat \in BOOLEAN
    /\ MaxAllocs \in Nat /\ MaxTests \in Nat

VARIABLES
    address_map,        \* address_map_: address in use -> [size, call_stack]
    size_entries,       \* the counters of size_entries_: index -> [num_allocs, num_frees]
    stack_tables,       \* its tables: index with a stack_table -> CallStackTable
    size_leak_analyzer, \* size_leak_analyzer_
    call_stacks,        \* the stacks call_stack_manager_ has objects for
    stats,              \* the counters that DumpStats prints
    reports,            \* what the latest TestForLeaks returned
    num_tests           \* how many times it was called

vars == <<address_map, size_entries, stack_tables, size_leak_analyzer,
          call_stacks, stats, reports, num_tests>>

(***************************************************************************)
(* SizeToIndex and IndexToSize.  All sizes too large for the array share   *)
(* index 0 with the sizes below a word.                                    *)
(***************************************************************************)
SizeToIndex(size) == IF size \div WordSize < NumSizeEntries THEN size \div WordSize ELSE 0

IndexToSize(i) == WordSize * i

-----------------------------------------------------------------------------
AllocInfo == [size : Size, call_stack : Stack \union {NoStack}]

Counter == 0..(Word - 1)

Stats == [num_allocs : Counter, num_frees : Counter, alloc_size : Counter, free_size : Counter,
          num_allocs_with_call_stack : Counter, num_stack_tables : Nat]

TypeOK ==
    /\ DOMAIN address_map \subseteq Addr
    /\ address_map \in [DOMAIN address_map -> AllocInfo]
    /\ size_entries \in [SizeIndex -> [num_allocs : Nat, num_frees : Nat]]
    /\ DOMAIN stack_tables \subseteq SizeIndex
    /\ call_stacks \subseteq Stack
    /\ stats \in Stats
    /\ reports \subseteq SizeIndex \X Stack
    /\ num_tests \in 0..MaxTests

(***************************************************************************)
(* The constructor.  It gives num_stack_tables_ a value but none to the    *)
(* other counters, which start with whatever the memory held.              *)
(***************************************************************************)
Init ==
    /\ address_map = [a \in {} |-> 0]
    /\ size_entries = [i \in SizeIndex |-> [num_allocs |-> 0, num_frees |-> 0]]
    /\ stack_tables = [i \in {} |-> 0]
    /\ size_leak_analyzer = NewAnalyzer(SizeThreshold)
    /\ call_stacks = {}
    /\ \E a, f, as, fs, w \in Uninitialized :
          stats = [num_allocs |-> a, num_frees |-> f, alloc_size |-> as, free_size |-> fs,
                   num_allocs_with_call_stack |-> w, num_stack_tables |-> 0]
    /\ reports = {}
    /\ num_tests = 0

-----------------------------------------------------------------------------
(* The calls of RecordAlloc so far, which its bound is about. *)
NumRecorded == SumFunction([i \in SizeIndex |-> size_entries[i].num_allocs])

(***************************************************************************)
(* RecordAlloc, for an allocation with a call stack or with none.  The     *)
(* call stack only counts when the size class has a table.  An address     *)
(* already in the map keeps its entry (unordered_map::insert), though      *)
(* everything else is counted as for a new one.                            *)
(***************************************************************************)
RecordAlloc(ptr, size, stack) ==
    LET i == SizeToIndex(size)
        profiled == i \in DOMAIN stack_tables /\ stack # NoStack
        info == [size |-> size, call_stack |-> IF profiled THEN stack ELSE NoStack]
    IN  /\ NumRecorded < MaxAllocs
        /\ AddrMayRepeat \/ ptr \notin DOMAIN address_map
        /\ size_entries' = [size_entries EXCEPT ![i].num_allocs = @ + 1]
        /\ stack_tables' = IF profiled
                           THEN [stack_tables EXCEPT ![i] = AddToTable(@, stack)]
                           ELSE stack_tables
        /\ call_stacks' = IF profiled THEN call_stacks \union {stack} ELSE call_stacks
        /\ stats' = [stats EXCEPT
                        !.alloc_size = (@ + size) % Word,
                        !.num_allocs = (@ + 1) % Word,
                        !.num_allocs_with_call_stack = IF profiled THEN (@ + 1) % Word ELSE @]
        /\ address_map' = [a \in DOMAIN address_map \union {ptr} |->
                              IF a \in DOMAIN address_map THEN address_map[a] ELSE info]
        /\ UNCHANGED <<size_leak_analyzer, reports, num_tests>>

(* Faulty variant: the size of the class is subtracted, not that of the allocation. *)
StatsAfterFreeByClass(size) ==
    [stats EXCEPT !.num_frees = (@ + 1) % Word,
                  !.free_size = (@ + IndexToSize(SizeToIndex(size))) % Word]

StatsAfterFree(size) ==
    [stats EXCEPT !.num_frees = (@ + 1) % Word, !.free_size = (@ + size) % Word]

(***************************************************************************)
(* RecordFree.  The free counts for the size and the call stack that the   *)
(* address was recorded with; for an unknown address nothing happens.      *)
(***************************************************************************)
RecordFree(ptr) ==
    LET info == address_map[ptr]
        i == SizeToIndex(info.size)
    IN  /\ ptr \in DOMAIN address_map
        /\ size_entries' = [size_entries EXCEPT ![i].num_frees = @ + 1]
        /\ stack_tables' = IF info.call_stack # NoStack /\ i \in DOMAIN stack_tables
                           THEN [stack_tables EXCEPT ![i] = RemoveFromTable(@, info.call_stack)]
                           ELSE stack_tables
        /\ stats' = StatsAfterFree(info.size)
        /\ address_map' = [a \in DOMAIN address_map \ {ptr} |-> address_map[a]]
        /\ UNCHANGED <<size_leak_analyzer, call_stacks, reports, num_tests>>

(***************************************************************************)
(* TestForLeaks.  Tier 1: rank all size classes by their net allocations,  *)
(* analyze the ranking, and give the suspected classes a table.  Tier 2:   *)
(* let every table that is not empty analyze its call stacks, and report   *)
(* what it suspects.  (A quantifier over one value names it.)              *)
(***************************************************************************)
GrossAllocs(i) == size_entries[i].num_allocs \* Faulty variant of the next definition

NetAllocs(i) == size_entries[i].num_allocs - size_entries[i].num_frees

SizeRankedList ==
    Ranking([i \in SizeIndex |-> Entry(IndexToSize(i), NetAllocs(i))], RankingSize)

SuspectedSizes(analyzer) == analyzer.suspected_leaks \* Faulty variant of the next definition

SuspectedClasses(analyzer) == {SizeToIndex(size) : size \in analyzer.suspected_leaks}

(* Faulty variants: suspicion renews a table; only suspected classes keep one. *)
TablesRenewed(analyzer) ==
    [i \in DOMAIN stack_tables \union SuspectedClasses(analyzer) |->
        IF i \in SuspectedClasses(analyzer) THEN NewTable(CallStackThreshold) ELSE stack_tables[i]]

TablesOfSuspects(analyzer) ==
    [i \in SuspectedClasses(analyzer) |->
        IF i \in DOMAIN stack_tables THEN stack_tables[i] ELSE NewTable(CallStackThreshold)]

WithNewTables(analyzer) ==
    [i \in DOMAIN stack_tables \union SuspectedClasses(analyzer) |->
        IF i \in DOMAIN stack_tables THEN stack_tables[i] ELSE NewTable(CallStackThreshold)]

TestedTables(tables) == {i \in DOMAIN tables : ~IsEmpty(tables[i])}

TestForLeaks ==
    /\ num_tests < MaxTests
    /\ num_tests' = num_tests + 1
    /\ \E analyzer \in {AddSample(size_leak_analyzer, SizeRankedList)} :
       \E tables \in {WithNewTables(analyzer)} :
          LET tested == TestedTables(tables)
          IN  /\ size_leak_analyzer' = analyzer
              /\ \E list \in [tested -> UNION {RankedLists(tables[i]) : i \in tested}] :
                    /\ \A i \in tested : list[i] \in RankedLists(tables[i])
                    /\ stack_tables' = [i \in DOMAIN tables |->
                                           IF i \in tested THEN Sampled(tables[i], list[i])
                                                           ELSE tables[i]]
              /\ reports' = {r \in tested \X Stack : r[2] \in SuspectedStacks(stack_tables'[r[1]])}
              /\ stats' = [stats EXCEPT !.num_stack_tables =
                              @ + Cardinality(DOMAIN tables \ DOMAIN stack_tables)]
    /\ UNCHANGED <<address_map, size_entries, call_stacks>>

Next ==
    \/ \E ptr \in Addr, size \in Size, stack \in Stack \union {NoStack} :
          RecordAlloc(ptr, size, stack)
    \/ \E ptr \in Addr : RecordFree(ptr)
    \/ TestForLeaks

Spec == Init /\ [][Next]_vars
=============================================================================
