--------------------------- MODULE LifecycleProofs ---------------------------
(***************************************************************************)
(* The lifecycle of the detector for any client: what the hooks record,    *)
(* when tests come, that Shutdown gives all memory back and is final.  And *)
(* for the replay program, a client that may allocate an address in use:   *)
(* what such an allocation costs, and how the replay leaves the detector.  *)
(* At the end, the program of the tests: what it holds, what it loses, and *)
(* what a report says of it.  Its assumption, on addresses and stacks that *)
(* are numbers, is cited there only, and that of the lifecycle is not.     *)
(***************************************************************************)
EXTENDS LeakDetectorSpec, Replay, LeakyProgram, LeakDetectorImplProofs

(***************************************************************************)
(* The inductive invariant has four parts.  The flags: hooks are           *)
(* registered while there is a detector, a test is ahead only then and for *)
(* the allocation just recorded, and nothing is counted before the         *)
(* allocator was initialized, once.                                        *)
(***************************************************************************)
FlagsInv ==
    /\ allocator \in BOOLEAN /\ leak_detector \in BOOLEAN /\ in_new_hook \in BOOLEAN
    /\ hooks = leak_detector
    /\ leak_detector => allocator
    /\ in_new_hook => leak_detector
    /\ total_alloc_size \in Nat /\ last_alloc_dump_size \in Nat /\ last_record_size \in Nat
    /\ in_new_hook => last_record_size = total_alloc_size
    /\ ~allocator => total_alloc_size = 0

(* The heap: before the hooks were first registered, no allocation was hooked. *)
HeapInv ==
    /\ DOMAIN heap \subseteq Addr
    /\ heap \in [DOMAIN heap -> BOOLEAN]
    /\ ~allocator => \A a \in DOMAIN heap : ~heap[a]
    /\ MapIsSampledHeap

(***************************************************************************)
(* The arena: what its blocks hold is what the destructor finds through    *)
(* the members, besides the detector itself and its lock; and the members  *)
(* are empty while there is no detector.                                   *)
(***************************************************************************)
DetectorIsEmpty == DOMAIN address_map = {} /\ DOMAIN stack_tables = {} /\ call_stacks = {}

ArenaInv ==
    /\ ~leak_detector => DetectorIsEmpty
    /\ blocks = BlocksOfDetector \union (IF leak_detector THEN OwnBlocks ELSE {})

(* And the counts, which say that the tables are sound (LeakDetectorImplProofs). *)
ClientInv == LiveInv /\ FlagsInv /\ HeapInv /\ ArenaInv /\ TestsKeepTheirInterval

-----------------------------------------------------------------------------
(* The hooks pass call stack objects on, or none. *)
LEMMA CallStackForType ==
    ASSUME NEW size, NEW trace \in Trace
    PROVE  CallStackFor(size, trace) \in Stack \union {NoStack}
    BY LifecycleAssumption DEF CallStackFor

(* A block is held for a table, for an entry of one, for a call stack, or for an address. *)
Holds(tables, stacks, map, b) ==
    \/ \E i \in DOMAIN tables : b = <<"table", i>>
    \/ \E i \in DOMAIN tables : \E c \in DOMAIN tables[i].entry_map : b = <<"entry", i, c>>
    \/ \E c \in stacks : b = <<"call stack", c>> \/ b = <<"frames", c>>
    \/ \E a \in DOMAIN map : b = <<"address", a>>

BlocksFor(tables, stacks, map) ==
    TableBlocks(DOMAIN tables)
        \union (UNION {EntryBlocks(i, DOMAIN tables[i].entry_map) : i \in DOMAIN tables})
        \union CallStackBlocks(stacks)
        \union AddressBlocks(DOMAIN map)

LEMMA BlocksForHeld ==
    ASSUME NEW tables, NEW stacks, NEW map, NEW b
    PROVE  b \in BlocksFor(tables, stacks, map) <=> Holds(tables, stacks, map, b)
<1> DEFINE entries == {EntryBlocks(i, DOMAIN tables[i].entry_map) : i \in DOMAIN tables}
<1>1. b \in TableBlocks(DOMAIN tables) <=> \E i \in DOMAIN tables : b = <<"table", i>>
    BY DEF TableBlocks
<1>2. b \in UNION entries
          <=> \E i \in DOMAIN tables : b \in EntryBlocks(i, DOMAIN tables[i].entry_map)
    OBVIOUS
<1>3. ASSUME NEW i
      PROVE  b \in EntryBlocks(i, DOMAIN tables[i].entry_map)
                 <=> \E c \in DOMAIN tables[i].entry_map : b = <<"entry", i, c>>
    BY DEF EntryBlocks
<1>4. b \in CallStackBlocks(stacks) <=> \E c \in stacks : b = <<"call stack", c>> \/ b = <<"frames", c>>
    BY DEF CallStackBlocks
<1>5. b \in AddressBlocks(DOMAIN map) <=> \E a \in DOMAIN map : b = <<"address", a>>
    BY DEF AddressBlocks
<1>6. b \in BlocksFor(tables, stacks, map)
          <=> \/ b \in TableBlocks(DOMAIN tables)
              \/ b \in UNION entries
              \/ b \in CallStackBlocks(stacks)
              \/ b \in AddressBlocks(DOMAIN map)
  <2> HIDE DEF entries
  <2> QED BY DEF BlocksFor, entries
<1> HIDE DEF entries
<1> QED BY <1>1, <1>2, <1>3, <1>4, <1>5, <1>6, Zenon DEF Holds

LEMMA BlocksOfDetectorHeld ==
    /\ \A b : b \in BlocksOfDetector <=> Holds(stack_tables, call_stacks, address_map, b)
    /\ \A b : b \in BlocksOfDetector' <=> Holds(stack_tables', call_stacks', address_map', b)
<1>1. /\ BlocksOfDetector = BlocksFor(stack_tables, call_stacks, address_map)
      /\ BlocksOfDetector' = BlocksFor(stack_tables', call_stacks', address_map')
    BY DEF BlocksOfDetector, TablesToFree, BlocksFor
<1> QED BY <1>1, BlocksForHeld

LEMMA EmptyDetectorHoldsNothing ==
    /\ DetectorIsEmpty => BlocksOfDetector = {}
    /\ DetectorIsEmpty' => BlocksOfDetector' = {}
    BY BlocksOfDetectorHeld DEF DetectorIsEmpty, Holds

LEMMA InitClientInv == LifecycleInit => ClientInv
<1> SUFFICES ASSUME LifecycleInit PROVE ClientInv
    OBVIOUS
<1>1. LiveInv
    BY InitLiveInv DEF LifecycleInit
<1>2. FlagsInv
    BY DEF LifecycleInit, FlagsInv
<1>3. HeapInv
    BY DEF LifecycleInit, HeapInv, MapIsSampledHeap
<1>4. ArenaInv
  <2>1. DetectorIsEmpty
      BY DEF LifecycleInit, Init, DetectorIsEmpty
  <2> QED BY <2>1, EmptyDetectorHoldsNothing DEF LifecycleInit, ArenaInv
<1>5. TestsKeepTheirInterval
    BY LifecycleAssumption DEF LifecycleInit, Init, TestsKeepTheirInterval
<1> QED BY <1>1, <1>2, <1>3, <1>4, <1>5 DEF ClientInv

(* The counts only read the members, and the blocks held too. *)
LEMMA LiveInvUnchanged == LiveInv /\ UNCHANGED implVars => LiveInv'
<1> SUFFICES ASSUME LiveInv, UNCHANGED implVars PROVE LiveInv'
    OBVIOUS
<1>1. [Next]_vars
    BY DEF implVars
<1> QED BY <1>1, NextLiveInv

LEMMA BlocksUnchanged ==
    UNCHANGED <<stack_tables, call_stacks, address_map>> => BlocksOfDetector' = BlocksOfDetector
    BY DEF BlocksOfDetector, TablesToFree

LEMMA ClientInvUnchanged == ClientInv /\ UNCHANGED allVars => ClientInv'
<1> SUFFICES ASSUME ClientInv, UNCHANGED allVars PROVE ClientInv'
    OBVIOUS
<1>1. UNCHANGED <<implVars, lifecycleVars, hookVars, blocks, heap>>
    BY DEF allVars, implVars
<1>2. LiveInv'
    BY <1>1, LiveInvUnchanged DEF ClientInv
<1>3. FlagsInv' /\ TestsKeepTheirInterval'
    BY <1>1 DEF ClientInv, FlagsInv, TestsKeepTheirInterval, implVars, vars, lifecycleVars, hookVars
<1>4. HeapInv'
    BY <1>1 DEF ClientInv, HeapInv, MapIsSampledHeap, ShouldSample, implVars, vars, lifecycleVars
<1>5. ArenaInv'
    BY <1>1, BlocksUnchanged DEF ClientInv, ArenaInv, DetectorIsEmpty, implVars, vars, lifecycleVars
<1> QED BY <1>2, <1>3, <1>4, <1>5 DEF ClientInv

-----------------------------------------------------------------------------
LEMMA InitializeStep ==
    ASSUME ClientInv, Initialize
    PROVE  ClientInv'
<1>1. UNCHANGED <<implVars, hookVars, heap>>
    BY DEF Initialize
<1>2. LiveInv'
    BY <1>1, LiveInvUnchanged DEF ClientInv
<1>3. FlagsInv'
  <2>1. \/ UNCHANGED lifecycleVars
        \/ allocator' = TRUE /\ leak_detector' = TRUE /\ hooks' = TRUE
      BY DEF Initialize
  <2>2. UNCHANGED <<total_alloc_size, last_alloc_dump_size, in_new_hook, last_record_size>>
      BY <1>1 DEF hookVars
  <2>3. CASE UNCHANGED <<allocator, leak_detector, hooks>>
      BY <2>2, <2>3 DEF ClientInv, FlagsInv
  <2>4. CASE allocator' = TRUE /\ leak_detector' = TRUE /\ hooks' = TRUE
      BY <2>2, <2>4 DEF ClientInv, FlagsInv
  <2> QED BY <2>1, <2>3, <2>4 DEF lifecycleVars
<1>4. HeapInv'
  <2>1. UNCHANGED <<heap, address_map>>
      BY <1>1 DEF implVars, vars
  <2>2. CASE UNCHANGED lifecycleVars
      BY <2>1, <2>2 DEF ClientInv, HeapInv, MapIsSampledHeap, ShouldSample, lifecycleVars
  <2>3. CASE ~leak_detector /\ ~allocator /\ allocator'
    <3>1. DOMAIN address_map = {}
        BY <2>3 DEF ClientInv, ArenaInv, DetectorIsEmpty
    <3>2. \A a \in DOMAIN heap : ~heap[a]
        BY <2>3 DEF ClientInv, HeapInv
    <3> QED BY <2>1, <2>3, <3>1, <3>2 DEF ClientInv, HeapInv, MapIsSampledHeap, ShouldSample
  <2> QED BY <2>2, <2>3 DEF Initialize
<1>5. ArenaInv'
  <2>1. BlocksOfDetector' = BlocksOfDetector /\ (DetectorIsEmpty => DetectorIsEmpty')
      BY <1>1, BlocksUnchanged DEF implVars, vars, DetectorIsEmpty
  <2>2. CASE UNCHANGED <<lifecycleVars, blocks>>
      BY <2>1, <2>2 DEF ClientInv, ArenaInv, lifecycleVars
  <2>3. CASE ~leak_detector /\ leak_detector' /\ blocks' = OwnBlocks
    <3>1. BlocksOfDetector = {}
        BY <2>3, EmptyDetectorHoldsNothing DEF ClientInv, ArenaInv
    <3> QED BY <2>1, <2>3, <3>1 DEF ArenaInv, OwnBlocks
  <2> QED BY <2>2, <2>3 DEF Initialize
<1>6. TestsKeepTheirInterval'
    BY <1>1 DEF ClientInv, TestsKeepTheirInterval, implVars, vars, hookVars
<1> QED BY <1>2, <1>3, <1>4, <1>5, <1>6 DEF ClientInv

(* The destructor brings the members back to where they started. *)
LEMMA DestroyedLive == ASSUME LiveInv, DetectorDestroyed PROVE LiveInv' /\ DetectorIsEmpty'
<1> USE DEF DetectorDestroyed
<1>1. TypeOK'
    BY DEF LiveInv, TypeInv, TypeOK
<1>2. AnalyzerInv'
    BY RankingAssumption, FS_EmptySet DEF AnalyzerInv, NewAnalyzer, IsAnalyzerOver, IsListOver
<1>3. TablesAreSound' /\ TablesCount' /\ DetectorIsEmpty'
    BY DEF TablesAreSound, TablesCount, DetectorIsEmpty
<1>4. ASSUME NEW i \in SizeIndex PROVE Counts(NetAllocs(i)', LiveIn(i)')
  <2>1. NetAllocs(i)' = 0 /\ LiveIn(i)' = {}
      BY DEF NetAllocs, LiveIn
  <2> QED BY <2>1, FS_EmptySet DEF Counts
<1> QED BY <1>1, <1>2, <1>3, <1>4 DEF LiveInv, TypeInv, ClassesCount, Counts

LEMMA ShutdownStep ==
    ASSUME ClientInv, Shutdown
    PROVE  ClientInv'
<1>1. UNCHANGED <<hookVars, heap>> /\ UNCHANGED <<allocator, num_tests>>
    BY DEF Shutdown, AllocatorAfterShutdown, DetectorDestroyed, implVars, vars, lifecycleVars
<1>2. CASE leak_detector
  <2>1. /\ hooks' = FALSE /\ leak_detector' = FALSE /\ ~in_new_hook
        /\ DetectorDestroyed
        /\ blocks' = blocks \ (BlocksOfDetector \union OwnBlocks)
      BY <1>2 DEF Shutdown
  <2>2. LiveInv' /\ DetectorIsEmpty'
      BY <2>1, DestroyedLive DEF ClientInv
  <2>3. FlagsInv'
      BY <1>1, <1>2, <2>1 DEF ClientInv, FlagsInv, hookVars
  <2>4. HeapInv'
      BY <1>1, <2>1 DEF ClientInv, HeapInv, MapIsSampledHeap
  <2>5. blocks' = {} /\ BlocksOfDetector' = {}
      BY <1>2, <2>1, <2>2, EmptyDetectorHoldsNothing
      DEF ClientInv, ArenaInv
  <2> QED BY <1>1, <2>1, <2>2, <2>3, <2>4, <2>5
          DEF ClientInv, ArenaInv, TestsKeepTheirInterval, hookVars
<1>3. CASE ~leak_detector
  <2>1. UNCHANGED allVars
      BY <1>3 DEF Shutdown, allVars, implVars
  <2> QED BY <2>1, ClientInvUnchanged
<1> QED BY <1>2, <1>3

-----------------------------------------------------------------------------
(* What RecordAlloc, RecordFree and a test take and give back. *)
LEMMA RecordAllocBlocks ==
    ASSUME LiveInv, NEW ptr \in Addr, NEW size \in Size, NEW trace \in Trace,
           RecordAlloc(ptr, size, CallStackFor(size, trace))
    PROVE  BlocksOfDetector' = BlocksOfDetector
                                 \union BlocksOfAlloc(ptr, size, CallStackFor(size, trace))
<1> DEFINE k == SizeToIndex(size)
           stack == CallStackFor(size, trace)
<1>1. DOMAIN address_map' = DOMAIN address_map \union {ptr}
    BY DEF RecordAlloc
<1>2. stack # NoStack => k \in DOMAIN stack_tables
    BY DEF CallStackFor
<1>3. call_stacks' = IF stack = NoStack THEN call_stacks ELSE call_stacks \union {stack}
    BY <1>2 DEF RecordAlloc
<1>4. DOMAIN stack_tables' = DOMAIN stack_tables
    BY DEF RecordAlloc
<1>5. \A i \in DOMAIN stack_tables :
         stack_tables'[i] = IF stack # NoStack /\ i = k THEN AddToTable(stack_tables[i], stack)
                                                       ELSE stack_tables[i]
    BY <1>2 DEF RecordAlloc
<1>6. \A i \in DOMAIN stack_tables :
         DOMAIN stack_tables'[i].entry_map =
             IF stack # NoStack /\ i = k THEN DOMAIN stack_tables[i].entry_map \union {stack}
                                        ELSE DOMAIN stack_tables[i].entry_map
  <2>1. \A i \in DOMAIN stack_tables : IsTable(stack_tables[i])
      BY DEF LiveInv, TablesAreSound
  <2>2. ASSUME NEW table, IsTable(table)
        PROVE  DOMAIN AddToTable(table, stack).entry_map = DOMAIN table.entry_map \union {stack}
      BY <2>2 DEF AddToTable, IsTable
  <2> HIDE DEF k, stack
  <2> QED BY <1>5, <2>1, <2>2
<1>7. ASSUME NEW b
      PROVE  Holds(stack_tables', call_stacks', address_map', b)
                 <=> \/ Holds(stack_tables, call_stacks, address_map, b)
                     \/ b \in BlocksOfAlloc(ptr, size, stack)
  <2>1. b \in BlocksOfAlloc(ptr, size, stack)
            <=> \/ b = <<"address", ptr>>
                \/ /\ stack # NoStack
                   /\ b \in {<<"call stack", stack>>, <<"frames", stack>>, <<"entry", k, stack>>}
      BY DEF BlocksOfAlloc, AddressBlocks, CallStackBlocks, EntryBlocks
  <2> HIDE DEF k, stack
  <2>2. CASE stack = NoStack
      BY <1>1, <1>3, <1>4, <1>6, <2>1, <2>2 DEF Holds
  <2>3. CASE stack # NoStack
      BY <1>1, <1>2, <1>3, <1>4, <1>6, <2>1, <2>3 DEF Holds
  <2> QED BY <2>2, <2>3
<1> QED BY <1>7, BlocksOfDetectorHeld

LEMMA RecordFreeBlocks ==
    ASSUME LiveInv, NEW ptr \in Addr, RecordFree(ptr)
    PROVE  BlocksOfDetector' = BlocksOfDetector \ BlocksOfFree(ptr)
<1> DEFINE k == SizeToIndex(address_map[ptr].size)
           stack == address_map[ptr].call_stack
           profiled == stack # NoStack /\ k \in DOMAIN stack_tables
           erased == profiled /\ NetOf(stack_tables[k], stack) = 1
<1>1. DOMAIN address_map' = DOMAIN address_map \ {ptr} /\ UNCHANGED call_stacks
    BY DEF RecordFree
<1>2. /\ DOMAIN stack_tables' = DOMAIN stack_tables
      /\ \A i \in DOMAIN stack_tables :
            stack_tables'[i] = IF profiled /\ i = k THEN RemoveFromTable(stack_tables[i], stack)
                                                   ELSE stack_tables[i]
    BY DEF RecordFree
<1>3. \A i \in DOMAIN stack_tables :
         DOMAIN stack_tables'[i].entry_map =
             IF erased /\ i = k THEN DOMAIN stack_tables[i].entry_map \ {stack}
                               ELSE DOMAIN stack_tables[i].entry_map
  <2>1. \A i \in DOMAIN stack_tables : IsTable(stack_tables[i])
      BY DEF LiveInv, TablesAreSound
  <2>2. ASSUME NEW table, IsTable(table)
        PROVE  DOMAIN RemoveFromTable(table, stack).entry_map =
                   IF NetOf(table, stack) = 1 THEN DOMAIN table.entry_map \ {stack}
                                              ELSE DOMAIN table.entry_map
      BY <2>2, NetOfType DEF RemoveFromTable, IsTable, NetOf
  <2> HIDE DEF k, stack
  <2> QED BY <1>2, <2>1, <2>2
<1>4. ASSUME NEW b
      PROVE  Holds(stack_tables', call_stacks', address_map', b)
                 <=> /\ Holds(stack_tables, call_stacks, address_map, b)
                     /\ b \notin BlocksOfFree(ptr)
  <2>1. b \in BlocksOfFree(ptr)
            <=> \/ b = <<"address", ptr>>
                \/ erased /\ b = <<"entry", k, stack>>
    <3>1. BlocksOfFree(ptr) = AddressBlocks({ptr}) \union (IF erased THEN EntryBlocks(k, {stack}) ELSE {})
        BY DEF BlocksOfFree
    <3> HIDE DEF k, stack, erased
    <3>2. AddressBlocks({ptr}) = {<<"address", ptr>>} /\ EntryBlocks(k, {stack}) = {<<"entry", k, stack>>}
        BY DEF AddressBlocks, EntryBlocks
    <3> QED BY <3>1, <3>2
  <2>2. erased => k \in DOMAIN stack_tables
      OBVIOUS
  <2> HIDE DEF k, stack, erased
  <2>3. (\E a \in DOMAIN address_map' : b = <<"address", a>>)
            <=> (\E a \in DOMAIN address_map : b = <<"address", a>>) /\ b # <<"address", ptr>>
      BY <1>1
  <2>4. (\E i \in DOMAIN stack_tables' : \E c \in DOMAIN stack_tables'[i].entry_map : b = <<"entry", i, c>>)
            <=> /\ \E i \in DOMAIN stack_tables : \E c \in DOMAIN stack_tables[i].entry_map : b = <<"entry", i, c>>
                /\ ~(erased /\ b = <<"entry", k, stack>>)
    <3>1. ASSUME NEW i, NEW c
          PROVE  i \in DOMAIN stack_tables' /\ c \in DOMAIN stack_tables'[i].entry_map
                     <=> /\ i \in DOMAIN stack_tables /\ c \in DOMAIN stack_tables[i].entry_map
                         /\ ~(erased /\ i = k /\ c = stack)
        BY <1>2, <1>3
    <3> QED BY <3>1
  <2>5. (\E i \in DOMAIN stack_tables' : b = <<"table", i>>)
            <=> (\E i \in DOMAIN stack_tables : b = <<"table", i>>)
      BY <1>2
  <2>6. \A x, y, z :
           /\ <<"address", ptr>> \notin {<<"table", x>>, <<"call stack", x>>, <<"frames", x>>, <<"entry", x, y>>}
           /\ <<"entry", k, stack>> \notin {<<"table", x>>, <<"call stack", x>>, <<"frames", x>>, <<"address", x>>}
      OBVIOUS
  <2> DEFINE T == \E i \in DOMAIN stack_tables : b = <<"table", i>>
             C == \E c \in call_stacks : b = <<"call stack", c>> \/ b = <<"frames", c>>
             E == \E i \in DOMAIN stack_tables : \E c \in DOMAIN stack_tables[i].entry_map : b = <<"entry", i, c>>
             A == \E a \in DOMAIN address_map : b = <<"address", a>>
             freed == erased /\ b = <<"entry", k, stack>>
  <2>7. /\ T \/ C => b # <<"address", ptr>> /\ ~freed
        /\ E => b # <<"address", ptr>>
        /\ A => ~freed
      BY <2>6
  <2>8. /\ Holds(stack_tables, call_stacks, address_map, b) <=> T \/ E \/ C \/ A
        /\ Holds(stack_tables', call_stacks', address_map', b)
              <=> T \/ (E /\ ~freed) \/ C \/ (A /\ b # <<"address", ptr>>)
      BY <1>1, <2>3, <2>4, <2>5 DEF Holds
  <2> HIDE DEF T, C, E, A, freed
  <2> QED BY <2>1, <2>7, <2>8 DEF freed
<1> QED BY <1>4, BlocksOfDetectorHeld

LEMMA TestForLeaksBlocks ==
    ASSUME LiveInv, TestForLeaks
    PROVE  BlocksOfDetector' = BlocksOfDetector \union TableBlocks(DOMAIN stack_tables')
<1>1. UNCHANGED <<address_map, call_stacks>>
    BY DEF TestForLeaks
<1>2. /\ DOMAIN stack_tables \subseteq DOMAIN stack_tables'
      /\ \A i \in DOMAIN stack_tables' :
            DOMAIN stack_tables'[i].entry_map =
                IF i \in DOMAIN stack_tables THEN DOMAIN stack_tables[i].entry_map ELSE {}
  <2>1. \A table : \A list : Sampled(table, list).entry_map = table.entry_map
      BY DEF Sampled
  <2>2. NewTable(CallStackThreshold).entry_map = [c \in {} |-> 0]
      BY DEF NewTable
  <2> QED BY <2>1, <2>2, TestEffect DEF LiveInv
<1>3. ASSUME NEW b
      PROVE  Holds(stack_tables', call_stacks', address_map', b)
                 <=> \/ Holds(stack_tables, call_stacks, address_map, b)
                     \/ b \in TableBlocks(DOMAIN stack_tables')
    BY <1>1, <1>2 DEF Holds, TableBlocks
<1> QED BY <1>3, BlocksOfDetectorHeld

-----------------------------------------------------------------------------
(* The hooks, and the test that NewHook ends with. *)
LEMMA InvokeNewHookStep ==
    ASSUME ClientInv, NEW ptr \in Addr, NEW size \in Size, NEW trace \in Trace,
           ptr \in DOMAIN heap => heap[ptr] = hooks,
           InvokeNewHook(ptr, size, trace)
    PROVE  ClientInv'
<1> DEFINE stack == CallStackFor(size, trace)
<1>1. /\ DOMAIN heap' = DOMAIN heap \union {ptr}
      /\ heap' = [a \in DOMAIN heap' |-> IF a = ptr THEN hooks ELSE heap[a]]
      /\ UNCHANGED <<lifecycleVars, last_alloc_dump_size>>
      /\ ~in_new_hook
    BY DEF InvokeNewHook, NewHook, hookVars
<1>2. size \in Nat \ {0} /\ stack \in Stack \union {NoStack} /\ ptr \in Addr
    BY CallStackForType, DetectorAssumption
<1>3. \/ hooks /\ total_alloc_size' = total_alloc_size + size
      \/ total_alloc_size' = total_alloc_size
    BY DEF InvokeNewHook, NewHook, hookVars
<1>4. /\ FlagsInv /\ HeapInv /\ ArenaInv /\ LiveInv /\ TestsKeepTheirInterval
      /\ UNCHANGED <<allocator, leak_detector, hooks>>
    BY <1>1 DEF ClientInv, lifecycleVars
<1>5. total_alloc_size' \in Nat /\ total_alloc_size' >= total_alloc_size
      /\ (~allocator => total_alloc_size' = 0)
    BY <1>2, <1>3, <1>4 DEF FlagsInv
<1>6. DOMAIN heap' \subseteq Addr /\ heap' \in [DOMAIN heap' -> BOOLEAN]
      /\ (~allocator => \A a \in DOMAIN heap' : ~heap'[a])
    BY <1>1, <1>2, <1>4 DEF FlagsInv, HeapInv
<1>7. UNCHANGED num_tests
    BY DEF InvokeNewHook, NewHook, RecordAlloc, implVars, vars
<1>8. /\ last_record_size' \in Nat /\ last_record_size <= last_record_size'
      /\ last_record_size' <= total_alloc_size'
      /\ in_new_hook' => last_record_size' = total_alloc_size'
      /\ ~in_new_hook' => last_record_size' = last_record_size
  <2>1. \/ last_record_size' = total_alloc_size' /\ in_new_hook'
        \/ UNCHANGED <<last_record_size, in_new_hook>>
      BY DEF InvokeNewHook, NewHook, hookVars
  <2>2. last_record_size <= total_alloc_size /\ last_record_size \in Nat /\ total_alloc_size \in Nat
      BY <1>4 DEF TestsKeepTheirInterval, FlagsInv
  <2> QED BY <1>1, <1>5, <2>1, <2>2
<1>9. TestsKeepTheirInterval'
  <2>1. /\ last_alloc_dump_size \in Nat /\ last_record_size \in Nat
        /\ num_tests * (DumpInterval + 1) <= last_alloc_dump_size
        /\ last_alloc_dump_size <= last_record_size
        /\ last_record_size <= last_alloc_dump_size + DumpInterval
      BY <1>1, <1>4 DEF TestsKeepTheirInterval, FlagsInv
  <2>2. last_alloc_dump_size <= last_record_size'
      BY <1>8, <2>1
  <2> QED BY <1>1, <1>7, <1>8, <2>1, <2>2 DEF TestsKeepTheirInterval
<1>10. CASE hooks /\ RecordsAlloc(ptr)
  <2>1. /\ RecordAlloc(ptr, size, stack)
        /\ blocks' = blocks \union BlocksOfAlloc(ptr, size, stack)
        /\ in_new_hook' = TRUE
      BY <1>10 DEF InvokeNewHook, NewHook
  <2>2. LiveInv'
      BY <1>2, <1>4, <2>1, RecordAllocLive
  <2>3. FlagsInv'
      BY <1>1, <1>4, <1>5, <1>8, <1>10, <2>1 DEF FlagsInv
  <2>4. HeapInv'
    <3>1. DOMAIN address_map' = DOMAIN address_map \union {ptr}
        BY <2>1 DEF RecordAlloc
    <3>2. ShouldSample(ptr) /\ ptr # Null /\ leak_detector
        BY <1>10 DEF RecordsAlloc
    <3>3. MapIsSampledHeap'
        BY <1>1, <1>4, <1>10, <3>1, <3>2 DEF HeapInv, MapIsSampledHeap, ShouldSample
    <3> QED BY <1>4, <1>6, <3>3 DEF HeapInv
  <2>5. ArenaInv'
    <3>1. BlocksOfDetector' = BlocksOfDetector \union BlocksOfAlloc(ptr, size, stack)
        BY <1>2, <1>4, <2>1, RecordAllocBlocks
    <3>2. leak_detector
        BY <1>10 DEF RecordsAlloc
    <3> QED BY <1>4, <2>1, <3>1, <3>2 DEF ArenaInv, OwnBlocks
  <2> QED BY <1>9, <2>2, <2>3, <2>4, <2>5 DEF ClientInv
<1>11. CASE ~(hooks /\ RecordsAlloc(ptr))
  <2>1. UNCHANGED <<implVars, blocks, in_new_hook>>
      BY <1>11 DEF InvokeNewHook, NewHook, hookVars
  <2>2. LiveInv'
      BY <1>4, <2>1, LiveInvUnchanged
  <2>3. FlagsInv'
      BY <1>1, <1>4, <1>5, <1>8, <2>1 DEF FlagsInv
  <2>4. HeapInv'
    <3>1. leak_detector => ~(ShouldSample(ptr) /\ ptr # Null)
        BY <1>4, <1>11 DEF FlagsInv, RecordsAlloc
    <3>2. MapIsSampledHeap'
        BY <1>1, <1>4, <2>1, <3>1 DEF HeapInv, MapIsSampledHeap, ShouldSample, implVars, vars
    <3> QED BY <1>4, <1>6, <3>2 DEF HeapInv
  <2>5. ArenaInv'
      BY <1>4, <2>1, BlocksUnchanged DEF ArenaInv, DetectorIsEmpty, implVars, vars
  <2> QED BY <1>9, <2>2, <2>3, <2>4, <2>5 DEF ClientInv
<1> QED BY <1>10, <1>11

LEMMA InvokeDeleteHookStep ==
    ASSUME ClientInv, NEW ptr \in Addr, InvokeDeleteHook(ptr)
    PROVE  ClientInv'
<1>1. /\ DOMAIN heap' = DOMAIN heap \ {ptr}
      /\ \A a \in DOMAIN heap' : heap'[a] = heap[a]
      /\ heap' = [a \in DOMAIN heap' |-> heap[a]]
      /\ UNCHANGED <<lifecycleVars, hookVars>>
    BY DEF InvokeDeleteHook, DeleteHook
<1>2. /\ FlagsInv /\ HeapInv /\ ArenaInv /\ LiveInv /\ TestsKeepTheirInterval
      /\ UNCHANGED <<allocator, leak_detector, hooks>>
    BY <1>1 DEF ClientInv, lifecycleVars
<1>3. ptr \in Addr
    OBVIOUS
<1>4. FlagsInv'
    BY <1>1, <1>2 DEF FlagsInv, hookVars
<1>5. TestsKeepTheirInterval'
  <2>1. UNCHANGED num_tests
      BY DEF InvokeDeleteHook, DeleteHook, RecordFree, implVars, vars
  <2> QED BY <1>1, <1>2, <2>1 DEF TestsKeepTheirInterval, hookVars
<1>6. DOMAIN heap' \subseteq Addr /\ heap' \in [DOMAIN heap' -> BOOLEAN]
      /\ (~allocator => \A a \in DOMAIN heap' : ~heap'[a])
    BY <1>1, <1>2 DEF HeapInv
<1>7. CASE hooks /\ RecordsFree(ptr) /\ ptr \in DOMAIN address_map
  <2>1. RecordFree(ptr) /\ blocks' = blocks \ BlocksOfFree(ptr)
      BY <1>7 DEF InvokeDeleteHook, DeleteHook
  <2>2. LiveInv'
      BY <1>2, <1>3, <2>1, RecordFreeLive
  <2>3. MapIsSampledHeap'
    <3>1. DOMAIN address_map' = DOMAIN address_map \ {ptr}
        BY <2>1 DEF RecordFree
    <3> QED BY <1>1, <1>2, <3>1 DEF HeapInv, MapIsSampledHeap, ShouldSample
  <2>4. ArenaInv'
    <3>1. BlocksOfDetector' = BlocksOfDetector \ BlocksOfFree(ptr)
        BY <1>2, <1>3, <2>1, RecordFreeBlocks
    <3>2. leak_detector
        BY <1>7 DEF RecordsFree
    <3>3. OwnBlocks \intersect BlocksOfFree(ptr) = {}
        BY DEF OwnBlocks, BlocksOfFree, AddressBlocks, EntryBlocks
    <3> QED BY <1>2, <2>1, <3>1, <3>2, <3>3 DEF ArenaInv
  <2> QED BY <1>2, <1>4, <1>5, <1>6, <2>2, <2>3, <2>4 DEF ClientInv, HeapInv
<1>8. CASE ~(hooks /\ RecordsFree(ptr) /\ ptr \in DOMAIN address_map)
  <2>1. UNCHANGED <<implVars, blocks>>
      BY <1>8 DEF InvokeDeleteHook, DeleteHook
  <2>2. LiveInv'
      BY <1>2, <2>1, LiveInvUnchanged
  <2>3. MapIsSampledHeap'
    <3>1. leak_detector => ptr \notin DOMAIN address_map
        BY <1>2, <1>8 DEF FlagsInv, HeapInv, MapIsSampledHeap, RecordsFree
    <3> QED BY <1>1, <1>2, <2>1, <3>1 DEF HeapInv, MapIsSampledHeap, ShouldSample, implVars, vars
  <2>4. ArenaInv'
      BY <1>2, <2>1, BlocksUnchanged DEF ArenaInv, DetectorIsEmpty, implVars, vars
  <2> QED BY <1>2, <1>4, <1>5, <1>6, <2>2, <2>3, <2>4 DEF ClientInv, HeapInv
<1> QED BY <1>7, <1>8

LEMMA MaybeTestStep ==
    ASSUME ClientInv, MaybeDumpStatsAndCheckForLeaks
    PROVE  ClientInv'
<1>1. /\ UNCHANGED <<lifecycleVars, total_alloc_size, last_record_size, heap>>
      /\ in_new_hook /\ in_new_hook' = FALSE
    BY DEF MaybeDumpStatsAndCheckForLeaks
<1>2. /\ FlagsInv /\ HeapInv /\ ArenaInv /\ LiveInv /\ TestsKeepTheirInterval
      /\ UNCHANGED <<allocator, leak_detector, hooks>>
      /\ leak_detector
    BY <1>1 DEF ClientInv, FlagsInv, lifecycleVars
<1>3. UNCHANGED address_map
    BY DEF MaybeDumpStatsAndCheckForLeaks, TestForLeaks, implVars, vars
<1>4. HeapInv'
    BY <1>1, <1>2, <1>3 DEF HeapInv, MapIsSampledHeap, ShouldSample
<1>5. CASE TestIsDue
  <2>1. /\ last_alloc_dump_size' = total_alloc_size
        /\ TestForLeaks
        /\ blocks' = blocks \union TableBlocks(DOMAIN stack_tables')
      BY <1>5 DEF MaybeDumpStatsAndCheckForLeaks
  <2>2. LiveInv'
      BY <1>2, <2>1, TestForLeaksLive
  <2>3. FlagsInv'
      BY <1>1, <1>2, <2>1 DEF FlagsInv
  <2>4. ArenaInv'
    <3>1. BlocksOfDetector' = BlocksOfDetector \union TableBlocks(DOMAIN stack_tables')
        BY <1>2, <2>1, TestForLeaksBlocks
    <3> QED BY <1>2, <2>1, <3>1 DEF ArenaInv
  <2>5. TestsKeepTheirInterval'
    <3>1. num_tests \in Nat /\ num_tests' = num_tests + 1
        BY <1>2, <2>1, DetectorAssumption DEF LiveInv, TypeInv, TypeOK, TestForLeaks
    <3>2. /\ DumpInterval \in Nat /\ total_alloc_size \in Nat /\ last_alloc_dump_size \in Nat
          /\ last_alloc_dump_size + DumpInterval < total_alloc_size
          /\ last_record_size = total_alloc_size
        BY <1>1, <1>2, <1>5, LifecycleAssumption DEF FlagsInv, TestIsDue
    <3>3. num_tests' * (DumpInterval + 1) = num_tests * (DumpInterval + 1) + (DumpInterval + 1)
        BY <3>1, <3>2
    <3>4. num_tests * (DumpInterval + 1) \in Nat
        BY <3>1, <3>2
    <3>5. num_tests' * (DumpInterval + 1) <= total_alloc_size
        BY <1>2, <3>2, <3>3, <3>4 DEF TestsKeepTheirInterval
    <3> QED BY <1>1, <2>1, <3>2, <3>5 DEF TestsKeepTheirInterval
  <2> QED BY <1>4, <2>2, <2>3, <2>4, <2>5 DEF ClientInv
<1>6. CASE ~TestIsDue
  <2>1. UNCHANGED <<implVars, last_alloc_dump_size, blocks>>
      BY <1>6 DEF MaybeDumpStatsAndCheckForLeaks
  <2>2. LiveInv'
      BY <1>2, <2>1, LiveInvUnchanged
  <2>3. FlagsInv'
      BY <1>1, <1>2, <2>1 DEF FlagsInv
  <2>4. ArenaInv'
      BY <1>2, <2>1, BlocksUnchanged DEF ArenaInv, DetectorIsEmpty, implVars, vars
  <2>5. TestsKeepTheirInterval'
    <3>1. last_record_size <= last_alloc_dump_size + DumpInterval
        BY <1>1, <1>2, <1>6, LifecycleAssumption DEF FlagsInv, TestIsDue
    <3> QED BY <1>1, <1>2, <2>1, <3>1 DEF TestsKeepTheirInterval, implVars, vars
  <2> QED BY <1>4, <2>2, <2>3, <2>4, <2>5 DEF ClientInv
<1> QED BY <1>5, <1>6

-----------------------------------------------------------------------------
LEMMA NextClientInv == ClientInv /\ [ClientNext]_allVars => ClientInv'
<1> SUFFICES ASSUME ClientInv, [ClientNext]_allVars PROVE ClientInv'
    OBVIOUS
<1>1. CASE UNCHANGED allVars
    BY <1>1, ClientInvUnchanged
<1>2. CASE Initialize
    BY <1>2, InitializeStep
<1>3. CASE Shutdown
    BY <1>3, ShutdownStep
<1>4. CASE \E ptr \in Addr \ DOMAIN heap, size \in Size, trace \in Trace :
              InvokeNewHook(ptr, size, trace)
    BY <1>4, InvokeNewHookStep
<1>5. CASE \E ptr \in DOMAIN heap \union {Null} : InvokeDeleteHook(ptr)
    BY <1>5, InvokeDeleteHookStep, LifecycleAssumption DEF ClientInv, HeapInv
<1>6. CASE MaybeDumpStatsAndCheckForLeaks
    BY <1>6, MaybeTestStep
<1> QED BY <1>1, <1>2, <1>3, <1>4, <1>5, <1>6 DEF ClientNext

LEMMA ClientInvariance == ClientSpec => []ClientInv
    BY InitClientInv, NextClientInv, PTL DEF ClientSpec

(***************************************************************************)
(* NewHook and DeleteHook agree on what is sampled, for any sampling       *)
(* factor and hash of pointers: the detector knows exactly the sampled     *)
(* part of the heap that was allocated since it was started.               *)
(***************************************************************************)
THEOREM MapIsAlwaysSampledHeap == ClientSpec => []MapIsSampledHeap
<1>1. ClientInv => MapIsSampledHeap
    BY DEF ClientInv, HeapInv
<1> QED BY <1>1, ClientInvariance, PTL

(***************************************************************************)
(* Tests are more than DumpInterval bytes apart, whatever it is, and the   *)
(* first recorded allocation a test is due at makes it.                    *)
(***************************************************************************)
THEOREM TestsAlwaysKeepTheirInterval == ClientSpec => []TestsKeepTheirInterval
<1>1. ClientInv => TestsKeepTheirInterval
    BY DEF ClientInv
<1> QED BY <1>1, ClientInvariance, PTL

(***************************************************************************)
(* Shutdown gives every block back: what is in the arena is always what    *)
(* the destructor finds through the members of the detector.               *)
(***************************************************************************)
THEOREM NothingIsEverLeftBehind == ClientSpec => []NothingIsLeftBehind
<1>1. ClientInv => NothingIsLeftBehind
    BY EmptyDetectorHoldsNothing DEF ClientInv, ArenaInv, NothingIsLeftBehind
<1> QED BY <1>1, ClientInvariance, PTL

(***************************************************************************)
(* The detector is started once: off after it saw an allocation, it stays  *)
(* off, for the allocator remembers having been initialized.               *)
(***************************************************************************)
THEOREM ShutdownStaysFinal == ClientSpec => ShutdownIsFinal
<1> DEFINE Stays == total_alloc_size > 0 /\ ~leak_detector => ~leak_detector' /\ ~hooks'
<1>1. ASSUME ClientInv, [ClientNext]_allVars PROVE [Stays]_allVars
  <2> SUFFICES ASSUME total_alloc_size > 0, ~leak_detector PROVE ~leak_detector' /\ ~hooks'
      OBVIOUS
  <2>1. allocator /\ ~hooks
      BY <1>1 DEF ClientInv, FlagsInv
  <2>2. UNCHANGED lifecycleVars
    <3>1. CASE UNCHANGED allVars
        BY <3>1 DEF allVars
    <3>2. CASE Initialize
        BY <2>1, <3>2 DEF Initialize
    <3>3. CASE Shutdown
        BY <3>3 DEF Shutdown
    <3>4. CASE \E ptr \in Addr \ DOMAIN heap, size \in Size, trace \in Trace :
                  InvokeNewHook(ptr, size, trace)
        BY <3>4 DEF InvokeNewHook, NewHook
    <3>5. CASE \E ptr \in DOMAIN heap \union {Null} : InvokeDeleteHook(ptr)
        BY <3>5 DEF InvokeDeleteHook, DeleteHook
    <3>6. CASE MaybeDumpStatsAndCheckForLeaks
        BY <3>6 DEF MaybeDumpStatsAndCheckForLeaks
    <3> QED BY <1>1, <3>1, <3>2, <3>3, <3>4, <3>5, <3>6 DEF ClientNext
  <2> QED BY <2>1, <2>2 DEF lifecycleVars
<1> QED BY <1>1, ClientInvariance, PTL DEF ClientSpec, ShutdownIsFinal

-----------------------------------------------------------------------------
(***************************************************************************)
(* The replay is a client too, but one that may allocate an address in     *)
(* use.  Its loop adds to ClientInv that the hooks do not change while     *)
(* there are allocations, what an address in use costs, and where a depth  *)
(* that does not fit stack_trace_ can have come from.                      *)
(***************************************************************************)
DepthHasSource ==
    /\ alloc_read \in BOOLEAN /\ deep_read \in BOOLEAN
    /\ FitsStackTrace(entry.depth) \/ deep_read \/ ~alloc_read
    /\ pc = "lost" => deep_read \/ ~alloc_read

LoopInv ==
    /\ pc \in {"start", "reading", "finished", "done", "lost"}
    /\ entry \in AnyEntry /\ eof \in BOOLEAN /\ num_repeats \in Nat
    /\ pc = "start" => DOMAIN heap = {}
    /\ pc # "done" => \A a \in DOMAIN heap : heap[a] = hooks
    /\ pc = "done" => ~leak_detector
    /\ DepthHasSource
    /\ RepeatsCountOnce

ReplayInv == ClientInv /\ LoopInv

(* A recorded allocation is one count too many if its address was there, a free is none. *)
LEMMA NetTotalType ==
    ASSUME TypeOK
    PROVE  /\ IsSummable([i \in SizeIndex |-> NetAllocs(i)], SizeIndex)
           /\ NetTotal \in Int /\ Cardinality(DOMAIN address_map) \in Nat
           /\ IsFiniteSet(DOMAIN address_map)
<1> DEFINE fun == [i \in SizeIndex |-> NetAllocs(i)]
<1>1. \A i \in SizeIndex : fun[i] \in Int
    BY NetAllocsType
<1>2. IsSummable(fun, SizeIndex)
    BY <1>1, SizeValueType DEF IsSummable
<1>3. NetTotal = SumFunctionOnSet(fun, SizeIndex)
    BY DEF NetTotal, SumFunction
<1>4. NetTotal \in Int
  <2> HIDE DEF fun
  <2> QED BY <1>2, <1>3, SumType
<1>5. IsFiniteSet(DOMAIN address_map)
    BY FS_Subset, DetectorAssumption DEF TypeOK
<1> QED BY <1>2, <1>4, <1>5, FS_CardinalityType

LEMMA NetTotalChanges ==
    ASSUME TypeOK, NEW k \in SizeIndex, NEW d \in Int,
           \A i \in SizeIndex : NetAllocs(i)' = IF i = k THEN NetAllocs(i) + d ELSE NetAllocs(i)
    PROVE  NetTotal' = NetTotal + d
<1> DEFINE fun == [i \in SizeIndex |-> NetAllocs(i)]
           gun == [i \in SizeIndex |-> NetAllocs(i)']
<1>1. IsSummable(fun, SizeIndex) /\ NetTotal \in Int
    BY NetTotalType
<1>2. NetTotal = SumFunctionOnSet(fun, SizeIndex) /\ NetTotal' = SumFunctionOnSet(gun, SizeIndex)
    BY DEF NetTotal, SumFunction, NetAllocs
<1>3. /\ fun[k] \in Int /\ gun[k] = fun[k] + d
      /\ \A i \in SizeIndex \ {k} : gun[i] = fun[i]
      /\ \A i \in SizeIndex : gun[i] \in Int
    BY NetAllocsType
<1> HIDE DEF fun, gun
<1>4. IsSummable(gun, SizeIndex)
    BY <1>1, <1>3 DEF IsSummable
<1>5. SumFunctionOnSet(gun, SizeIndex) = SumFunctionOnSet(fun, SizeIndex) + gun[k] - fun[k]
    BY <1>1, <1>3, <1>4, SumWithOneChanged
<1> QED BY <1>1, <1>2, <1>3, <1>5

NothingCounted == (\A i \in SizeIndex : NetAllocs(i) = 0) /\ DOMAIN address_map = {}

LEMMA NetTotalOfNothing ==
    ASSUME \A i \in SizeIndex : NetAllocs(i) = 0, DOMAIN address_map = {}
    PROVE  ExtraCounts = 0
<1> DEFINE fun == [i \in SizeIndex |-> NetAllocs(i)]
<1>1. \A i \in SizeIndex : fun[i] = 0
    OBVIOUS
<1>2. NetTotal = SumFunctionOnSet(fun, SizeIndex)
    BY DEF NetTotal, SumFunction
<1> HIDE DEF fun
<1>3. NetTotal = 0
    BY <1>1, <1>2, SizeValueType, SumOfZeros
<1> QED BY <1>3, FS_EmptySet DEF ExtraCounts

LEMMA NothingIsExtra == NothingCounted => ExtraCounts = 0
    BY NetTotalOfNothing DEF NothingCounted

LEMMA NothingIsExtraNext == NothingCounted' => (ExtraCounts = 0)'
    BY NothingIsExtra, PTL

LEMMA ExtraOfAlloc ==
    ASSUME TypeOK, NEW ptr \in Addr, NEW size \in Size, NEW stack, RecordAlloc(ptr, size, stack)
    PROVE  ExtraCounts' = IF ptr \in DOMAIN address_map THEN ExtraCounts + 1 ELSE ExtraCounts
<1>1. NetTotal' = NetTotal + 1
  <2> DEFINE k == SizeToIndex(size)
  <2>1. k \in SizeIndex
      BY SizeToIndexType, DetectorAssumption
  <2>2. \A i \in SizeIndex : NetAllocs(i)' = IF i = k THEN NetAllocs(i) + 1 ELSE NetAllocs(i)
      BY RecordAllocNet
  <2> HIDE DEF k
  <2> QED BY <2>1, <2>2, NetTotalChanges
<1>2. NetTotal \in Int /\ Cardinality(DOMAIN address_map) \in Nat /\ IsFiniteSet(DOMAIN address_map)
    BY NetTotalType
<1>3. DOMAIN address_map' = DOMAIN address_map \union {ptr}
    BY DEF RecordAlloc
<1>4. Cardinality(DOMAIN address_map') =
          IF ptr \in DOMAIN address_map THEN Cardinality(DOMAIN address_map)
                                        ELSE Cardinality(DOMAIN address_map) + 1
    BY <1>2, <1>3, FS_AddElement
<1> QED BY <1>1, <1>2, <1>4 DEF ExtraCounts

LEMMA ExtraOfFree ==
    ASSUME TypeOK, NEW ptr, RecordFree(ptr)
    PROVE  ExtraCounts' = ExtraCounts
<1>1. NetTotal' = NetTotal - 1
  <2> DEFINE k == SizeToIndex(address_map[ptr].size)
  <2>1. k \in SizeIndex /\ \A i \in SizeIndex : NetAllocs(i) \in Int
      BY RecordFreeNet, NetAllocsType
  <2>2. \A i \in SizeIndex : NetAllocs(i)' = IF i = k THEN NetAllocs(i) - 1 ELSE NetAllocs(i)
      BY RecordFreeNet
  <2> HIDE DEF k
  <2>3. \A i \in SizeIndex : NetAllocs(i)' = IF i = k THEN NetAllocs(i) + (0 - 1) ELSE NetAllocs(i)
      BY <2>1, <2>2
  <2>4. NetTotal' = NetTotal + (0 - 1)
      BY <2>1, <2>3, 0 - 1 \in Int, NetTotalChanges
  <2> QED BY <2>4, NetTotalType
<1>2. NetTotal \in Int /\ Cardinality(DOMAIN address_map) \in Nat /\ IsFiniteSet(DOMAIN address_map)
    BY NetTotalType
<1>3. ptr \in DOMAIN address_map /\ DOMAIN address_map' = DOMAIN address_map \ {ptr}
    BY DEF RecordFree
<1>4. Cardinality(DOMAIN address_map') = Cardinality(DOMAIN address_map) - 1
    BY <1>2, <1>3, FS_RemoveElement
<1> QED BY <1>1, <1>2, <1>4 DEF ExtraCounts

LEMMA ExtraUnchanged == UNCHANGED <<size_entries, address_map>> => ExtraCounts' = ExtraCounts
    BY DEF ExtraCounts, NetTotal, NetAllocs

(* The hooks: an allocation is one too many at most, and only if its address was in use. *)
LEMMA ExtraOfNewHook ==
    ASSUME ClientInv, NEW ptr \in Addr, NEW size \in Size, NEW trace, InvokeNewHook(ptr, size, trace)
    PROVE  /\ ExtraCounts' = ExtraCounts \/ ExtraCounts' = ExtraCounts + 1
           /\ ptr \notin DOMAIN heap => ExtraCounts' = ExtraCounts
<1>1. CASE hooks /\ RecordsAlloc(ptr)
  <2>1. TypeOK /\ RecordAlloc(ptr, size, CallStackFor(size, trace))
      BY <1>1 DEF InvokeNewHook, NewHook, ClientInv, LiveInv, TypeInv
  <2>2. ptr \in DOMAIN address_map => ptr \in DOMAIN heap
      BY <1>1 DEF RecordsAlloc, ClientInv, HeapInv, MapIsSampledHeap
  <2> QED BY <2>1, <2>2, ExtraOfAlloc
<1>2. CASE ~(hooks /\ RecordsAlloc(ptr))
  <2>1. UNCHANGED implVars
      BY <1>2 DEF InvokeNewHook, NewHook
  <2> QED BY <2>1, ExtraUnchanged DEF implVars, vars
<1> QED BY <1>1, <1>2

LEMMA ExtraOfDeleteHook ==
    ASSUME ClientInv, NEW ptr, InvokeDeleteHook(ptr)
    PROVE  ExtraCounts' = ExtraCounts
<1>1. CASE hooks /\ RecordsFree(ptr) /\ ptr \in DOMAIN address_map
  <2>1. TypeOK /\ RecordFree(ptr)
      BY <1>1 DEF InvokeDeleteHook, DeleteHook, ClientInv, LiveInv, TypeInv
  <2> QED BY <2>1, ExtraOfFree
<1>2. CASE ~(hooks /\ RecordsFree(ptr) /\ ptr \in DOMAIN address_map)
  <2>1. UNCHANGED implVars
      BY <1>2 DEF InvokeDeleteHook, DeleteHook
  <2> QED BY <2>1, ExtraUnchanged DEF implVars, vars
<1> QED BY <1>1, <1>2

(* What delivering a record does, whatever the record. *)
LEMMA DeliverStep ==
    ASSUME ReplayInv, pc = "reading", NEW e \in AnyEntry, Deliver(e)
    PROVE  /\ ClientInv'
           /\ pc' \in {"reading", "finished", "lost"}
           /\ pc' = "lost" => ~FitsStackTrace(e.depth)
           /\ \A a \in DOMAIN heap' : heap'[a] = hooks'
           /\ ExtraCounts' = ExtraCounts \/ ExtraCounts' = ExtraCounts + 1
           /\ ~(IsAllocation(e) /\ e.ptr \in DOMAIN heap) => ExtraCounts' = ExtraCounts
<1>1. /\ ClientInv /\ e.ptr \in Addr /\ e.size \in Size \union {0}
      /\ \A a \in DOMAIN heap : heap[a] = hooks
    BY DEF ReplayInv, LoopInv, AnyEntry
<1>2. CASE /\ UNCHANGED allVars /\ pc' \in {"reading", "finished", "lost"}
           /\ pc' = "lost" => ~FitsStackTrace(e.depth)
  <2>1. ClientInv'
      BY <1>1, <1>2, ClientInvUnchanged
  <2>2. UNCHANGED <<heap, hooks, size_entries, address_map>>
      BY <1>2 DEF allVars, vars, lifecycleVars
  <2> QED BY <1>1, <1>2, <2>1, <2>2, ExtraUnchanged
<1>3. CASE IsAllocation(e) /\ UNCHANGED pc /\ \E trace \in Trace : InvokeNewHook(e.ptr, e.size, trace)
  <2>1. PICK trace \in Trace : InvokeNewHook(e.ptr, e.size, trace)
      BY <1>3
  <2>2. e.size \in Size
      BY <1>1, <1>3 DEF IsAllocation
  <2>3. ClientInv'
      BY <1>1, <2>1, <2>2, InvokeNewHookStep
  <2>4. /\ ExtraCounts' = ExtraCounts \/ ExtraCounts' = ExtraCounts + 1
        /\ e.ptr \notin DOMAIN heap => ExtraCounts' = ExtraCounts
      BY <1>1, <2>1, <2>2, ExtraOfNewHook
  <2>5. hooks' = hooks /\ \A a \in DOMAIN heap' : heap'[a] = hooks
      BY <1>1, <2>1 DEF InvokeNewHook, NewHook, lifecycleVars
  <2> QED BY <1>3, <2>3, <2>4, <2>5
<1>4. CASE DeliverFree(e)
  <2>1. InvokeDeleteHook(e.ptr) /\ UNCHANGED pc
      BY <1>4 DEF DeliverFree
  <2>2. ClientInv' /\ ExtraCounts' = ExtraCounts
      BY <1>1, <2>1, InvokeDeleteHookStep, ExtraOfDeleteHook
  <2>3. hooks' = hooks /\ \A a \in DOMAIN heap' : heap'[a] = hooks
      BY <1>1, <2>1 DEF InvokeDeleteHook, DeleteHook, lifecycleVars
  <2> QED BY <2>1, <2>2, <2>3
<1>5. \/ DeliverFree(e) \/ Quit(e) \/ DeliverTooDeep(e)
      \/ DeliverAlloc(e) /\ IsAllocation(e)
      \/ DeliverAlloc(e) /\ ~IsAllocation(e)
    BY DEF Deliver
<1>6. CASE Quit(e)
    BY <1>2, <1>6 DEF Quit
<1>7. CASE DeliverAlloc(e) /\ IsAllocation(e)
    BY <1>3, <1>7 DEF DeliverAlloc
<1>8. CASE DeliverAlloc(e) /\ ~IsAllocation(e)
    BY <1>2, <1>8 DEF DeliverAlloc
<1>9. CASE DeliverTooDeep(e)
    BY <1>2, <1>9 DEF DeliverTooDeep
<1> QED BY <1>4, <1>5, <1>6, <1>7, <1>8, <1>9

LEMMA InitReplayInv == ReplayInit => ReplayInv
<1> SUFFICES ASSUME ReplayInit PROVE ReplayInv
    OBVIOUS
<1>1. ClientInv
    BY InitClientInv DEF ReplayInit
<1>2. DOMAIN heap = {} /\ DOMAIN address_map = {} /\ \A i \in SizeIndex : NetAllocs(i) = 0
    BY DEF ReplayInit, LifecycleInit, Init, NetAllocs
<1>3. ExtraCounts = 0
    BY <1>2, NothingIsExtra DEF NothingCounted
<1>4. pc = "start" /\ entry \in AnyEntry /\ eof = FALSE /\ num_repeats = 0 /\ leak_detector = FALSE
    BY DEF ReplayInit, LifecycleInit
<1>5. RepeatsCountOnce
    BY <1>3, <1>4 DEF RepeatsCountOnce
<1>6. DepthHasSource
    BY <1>4 DEF ReplayInit, DepthHasSource
<1>7. LoopInv
    BY <1>2, <1>4, <1>5, <1>6 DEF LoopInv
<1> QED BY <1>1, <1>7 DEF ReplayInv

(* Steps of the loop. *)
LEMMA NextReplayInv == ReplayInv /\ [ReplayNext]_replayVars => ReplayInv'
<1> SUFFICES ASSUME ReplayInv, [ReplayNext]_replayVars PROVE ReplayInv'
    OBVIOUS
<1>1. ClientInv /\ LoopInv
    BY DEF ReplayInv
<1>2. ExtraCounts \in Int /\ num_repeats \in Nat /\ eof \in BOOLEAN
      /\ ExtraCounts \in 0..(num_repeats + IF eof THEN 1 ELSE 0)
    BY <1>1 DEF LoopInv, RepeatsCountOnce
<1>3. ASSUME UNCHANGED pc \/ pc' # "lost", UNCHANGED <<entry, alloc_read, deep_read>>
      PROVE  DepthHasSource'
    BY <1>1, <1>3 DEF LoopInv, DepthHasSource
<1>4. CASE UNCHANGED replayVars
  <2>1. ClientInv' /\ UNCHANGED <<allVars, loopVars>>
      BY <1>1, <1>4, ClientInvUnchanged DEF replayVars
  <2>2. ExtraCounts' = ExtraCounts
      BY <2>1, ExtraUnchanged DEF allVars, vars
  <2>3. DepthHasSource'
      BY <1>3, <2>1 DEF loopVars
  <2> QED BY <1>1, <2>1, <2>2, <2>3
          DEF ReplayInv, LoopInv, RepeatsCountOnce, loopVars, allVars, lifecycleVars
<1>5. CASE Start
  <2>1. /\ Initialize /\ pc = "start" /\ pc' = "reading"
        /\ UNCHANGED <<entry, eof, num_repeats, alloc_read, deep_read, heap, size_entries, address_map>>
      BY <1>5 DEF Start, Initialize, implVars, vars
  <2>2. ClientInv' /\ ExtraCounts' = ExtraCounts
      BY <1>1, <2>1, InitializeStep, ExtraUnchanged
  <2>3. DepthHasSource'
      BY <1>3, <2>1
  <2> QED BY <1>1, <2>1, <2>2, <2>3 DEF ReplayInv, LoopInv, RepeatsCountOnce
<1>6. CASE ReadRecord
  <2>1. PICK e \in AnyEntry :
           /\ entry' = e /\ Deliver(e)
           /\ num_repeats' = IF IsAllocation(e) /\ e.ptr \in DOMAIN heap
                             THEN num_repeats + 1 ELSE num_repeats
           /\ alloc_read' = (alloc_read \/ e.code = "alloc")
           /\ deep_read' = (deep_read \/ (e.code = "alloc" /\ ~FitsStackTrace(e.depth)))
           /\ e.depth # entry.depth => e.code = "alloc"
      BY <1>1, <1>6 DEF ReadRecord, LoopInv, AnyEntry, Code
  <2>2. pc = "reading" /\ eof' = eof
      BY <1>6 DEF ReadRecord, Turns
  <2>3. /\ ClientInv'
        /\ pc' \in {"reading", "finished", "lost"}
        /\ pc' = "lost" => ~FitsStackTrace(e.depth)
        /\ \A a \in DOMAIN heap' : heap'[a] = hooks'
        /\ ExtraCounts' = ExtraCounts \/ ExtraCounts' = ExtraCounts + 1
        /\ ~(IsAllocation(e) /\ e.ptr \in DOMAIN heap) => ExtraCounts' = ExtraCounts
      BY <2>1, <2>2, DeliverStep
  <2>4. RepeatsCountOnce'
      BY <1>2, <2>1, <2>2, <2>3 DEF RepeatsCountOnce
  <2>5. num_repeats' \in Nat /\ eof' \in BOOLEAN
      BY <1>2, <2>1, <2>2
  <2>6. DepthHasSource'
      BY <1>1, <2>1, <2>3 DEF LoopInv, DepthHasSource
  <2> QED BY <2>1, <2>3, <2>4, <2>5, <2>6 DEF ReplayInv, LoopInv
<1>7. CASE ReadEnd \/ ReadTruncatedRecord
  <2>1. PICK e \in AnyEntry :
           /\ entry' = e /\ Deliver(e)
           /\ alloc_read' = alloc_read /\ deep_read' \in BOOLEAN
           /\ deep_read => deep_read'
           /\ e.depth # entry.depth => FitsStackTrace(e.depth) \/ deep_read'
    <3>1. CASE ReadEnd
      <4>1. PICK code \in {entry.code, "unknown"} :
               entry' = [entry EXCEPT !.code = code] /\ Deliver([entry EXCEPT !.code = code])
          BY <3>1 DEF ReadEnd
      <4>2. [entry EXCEPT !.code = code] \in AnyEntry /\ [entry EXCEPT !.code = code].depth = entry.depth
          BY <1>1, <4>1 DEF LoopInv, AnyEntry, Code
      <4>3. UNCHANGED <<alloc_read, deep_read>> /\ deep_read \in BOOLEAN
          BY <1>1, <3>1 DEF ReadEnd, LoopInv, DepthHasSource
      <4> QED BY <4>1, <4>2, <4>3
    <3>2. CASE ReadTruncatedRecord
        BY <1>1, <3>2 DEF ReadTruncatedRecord, LoopInv, DepthHasSource
    <3> QED BY <1>7, <3>1, <3>2
  <2>2. pc = "reading" /\ eof = FALSE /\ eof' = TRUE /\ UNCHANGED num_repeats
      BY <1>1, <1>7 DEF ReadEnd, ReadTruncatedRecord, Turns, EndNoticed, LoopInv
  <2>3. /\ ClientInv'
        /\ pc' \in {"reading", "finished", "lost"}
        /\ pc' = "lost" => ~FitsStackTrace(e.depth)
        /\ \A a \in DOMAIN heap' : heap'[a] = hooks'
        /\ ExtraCounts' = ExtraCounts \/ ExtraCounts' = ExtraCounts + 1
      BY <2>1, <2>2, DeliverStep
  <2>4. RepeatsCountOnce'
      BY <1>2, <2>2, <2>3 DEF RepeatsCountOnce
  <2>5. DepthHasSource'
      BY <1>1, <2>1, <2>3 DEF LoopInv, DepthHasSource
  <2> QED BY <1>2, <2>1, <2>2, <2>3, <2>4, <2>5 DEF ReplayInv, LoopInv
<1>8. CASE RunHook
  <2>1. MaybeDumpStatsAndCheckForLeaks /\ UNCHANGED <<pc, entry, eof, num_repeats, alloc_read, deep_read>>
      BY <1>8 DEF RunHook, loopVars
  <2>2. UNCHANGED <<heap, hooks, leak_detector, size_entries, address_map>>
      BY <2>1 DEF MaybeDumpStatsAndCheckForLeaks, TestForLeaks, lifecycleVars, implVars, vars
  <2>3. ClientInv' /\ ExtraCounts' = ExtraCounts
      BY <1>1, <2>1, <2>2, MaybeTestStep, ExtraUnchanged
  <2>4. DepthHasSource'
      BY <1>3, <2>1
  <2> QED BY <1>1, <2>1, <2>2, <2>3, <2>4 DEF ReplayInv, LoopInv, RepeatsCountOnce
<1>9. CASE Finish
  <2>1. Shutdown /\ pc' = "done" /\ UNCHANGED <<entry, eof, num_repeats, alloc_read, deep_read>>
      BY <1>9 DEF Finish
  <2>2. ClientInv' /\ ~leak_detector'
      BY <1>1, <2>1, ShutdownStep DEF Shutdown, lifecycleVars
  <2>3. RepeatsCountOnce'
    <3>1. CASE leak_detector
      <4>1. DOMAIN address_map' = {} /\ \A i \in SizeIndex : NetAllocs(i)' = 0
          BY <2>1, <3>1 DEF Shutdown, DetectorDestroyed, NetAllocs
      <4>2. ExtraCounts' = 0
          BY <4>1, NothingIsExtraNext DEF NothingCounted
      <4> QED BY <1>2, <2>1, <4>2 DEF RepeatsCountOnce
    <3>2. CASE ~leak_detector
      <4>1. ExtraCounts' = ExtraCounts
          BY <2>1, <3>2, ExtraUnchanged DEF Shutdown, implVars, vars
      <4> QED BY <1>2, <2>1, <4>1 DEF RepeatsCountOnce
    <3> QED BY <3>1, <3>2
  <2>4. DepthHasSource'
      BY <1>3, <2>1
  <2> QED BY <1>1, <2>1, <2>2, <2>3, <2>4 DEF ReplayInv, LoopInv
<1> QED BY <1>4, <1>5, <1>6, <1>7, <1>8, <1>9 DEF ReplayNext, Main

LEMMA ReplayInvariance == ReplaySpec => []ReplayInv
    BY InitReplayInv, NextReplayInv, PTL DEF ReplaySpec

(***************************************************************************)
(* Whatever the file holds and wherever it ends, a record costs one count  *)
(* too many only if it allocates an address in use, and the end of the     *)
(* file at most one more.                                                  *)
(***************************************************************************)
THEOREM RepeatsAlwaysCountOnce == ReplaySpec => []RepeatsCountOnce
<1>1. ReplayInv => RepeatsCountOnce
    BY DEF ReplayInv, LoopInv
<1> QED BY <1>1, ReplayInvariance, PTL

(***************************************************************************)
(* And in the replay nothing is counted below what is live either.         *)
(***************************************************************************)
THEOREM ReplayCountsCoverLive == ReplaySpec => []CountsCoverLive
<1>1. ReplayInv => CountsCoverLive
    BY DEF ReplayInv, ClientInv, LiveInv, ClassesCount, TablesCount, Counts, CountsCoverLive
<1> QED BY <1>1, ReplayInvariance, PTL

(***************************************************************************)
(* When the loop is left, through the end of the file or an unknown code,  *)
(* the detector is gone, with its hooks and all it held: what ReplayEnds   *)
(* asks for, except that the loop is left at all.                          *)
(***************************************************************************)
THEOREM ReplayLeavesNothing ==
    ReplaySpec => [](pc = "done" => ~leak_detector /\ ~hooks /\ blocks = {})
<1>1. ReplayInv => (pc = "done" => ~leak_detector /\ ~hooks /\ blocks = {})
    BY EmptyDetectorHoldsNothing DEF ReplayInv, LoopInv, ClientInv, FlagsInv, ArenaInv
<1> QED BY <1>1, ReplayInvariance, PTL

(***************************************************************************)
(* Only a file with an allocation too deep for stack_trace_, or one that   *)
(* ends before its first allocation is complete, can leave the program     *)
(* lost: a depth of a record that fits is not made a larger one by what    *)
(* the union holds from before, nor by the end of the file.                *)
(***************************************************************************)
THEOREM OnlyDeepFilesAreLost ==
    ReplaySpec => [](pc = "lost" => deep_read \/ ~alloc_read)
<1>1. ReplayInv => (pc = "lost" => deep_read \/ ~alloc_read)
    BY DEF ReplayInv, LoopInv, DepthHasSource
<1> QED BY <1>1, ReplayInvariance, PTL

-----------------------------------------------------------------------------
(***************************************************************************)
(* The program of LeakyProgram.  A block is from a site if it has the size *)
(* of the objects allocated there and no other call stack than that of the *)
(* site (the detector may have recorded none): from the first grid, as 0,  *)
(* or from a root.                                                         *)
(***************************************************************************)
HeldBy(g) == {g[c] : c \in Points(g)}

Held == HeldBy(grid) \union HeldBy(next_grid)

SizeAt(n) == IF n = 0 THEN PointSize ELSE RootSize[n]

IsFrom(map, block, n) ==
    /\ map[block].size = SizeAt(n)
    /\ map[block].call_stack \in {kStack(n), NoStack}

(* The roots whose objects are lost when another one takes their cell. *)
LeakingRoot == IF has_leak THEN {3, 4} ELSE {}

CellsOf(r) == {(r - 1) * NumPlaces + p : p \in 1..NumPlaces}

ProgramTypeOK ==
    /\ phase \in {"fill", "roots", "clear", "done"}
    /\ cell \in Cell /\ root \in Root /\ iteration \in 0..NumIterations
    /\ grid \in [Cell -> Addr \union {0}] /\ next_grid \in [Cell -> Addr \union {0}]
    /\ has_leak \in BOOLEAN /\ place \in [Cell -> 1..NumPlaces]
    /\ alloced_ptrs = DOMAIN address_map

(* Both grids point to allocated blocks, and no two cells to the same one. *)
GridsAreLive(g, h, ptrs) ==
    /\ \A c \in Points(g) : g[c] \in ptrs
    /\ \A c \in Points(h) : h[c] \in ptrs
    /\ \A c, d \in Points(g) : g[c] = g[d] => c = d
    /\ \A c, d \in Points(h) : h[c] = h[d] => c = d
    /\ \A c \in Points(g), d \in Points(h) : g[c] # h[d]

PointsAreLive == GridsAreLive(grid, next_grid, alloced_ptrs)

(* What is overwritten at a root is an object from that root. *)
PointsKeepToSectors ==
    \A r \in Root : \A c \in CellsOf(r) \intersect Points(next_grid) :
        IsFrom(address_map, next_grid[c], r)

(* A block that no grid points to was lost, at a root that leaks. *)
LostBlocksAreLeaks ==
    \A block \in alloced_ptrs \ Held : \E r \in LeakingRoot : IsFrom(address_map, block, r)

(* The loops have come to where a point is, and clear a grid in full. *)
LoopsAreInOrder ==
    /\ phase = "fill" =>
          next_grid = EmptyGrid /\ iteration = 0 /\ Points(grid) = {c \in Cell : c < cell}
    /\ phase = "roots" => iteration < NumIterations /\ grid[cell] # 0
    /\ phase = "clear" =>
          /\ grid[cell] # 0 /\ \A c \in Points(grid) : c >= cell
          /\ (iteration < NumIterations) <=> (Points(next_grid) # {})
    /\ phase = "done" => grid = EmptyGrid /\ next_grid = EmptyGrid

ProgramInv ==
    ProgramTypeOK /\ PointsAreLive /\ PointsKeepToSectors /\ LostBlocksAreLeaks /\ LoopsAreInOrder

-----------------------------------------------------------------------------
LEMMA CellsAreNumbers == Cell \subseteq Nat \ {0} /\ \A r \in Root : CellsOf(r) \subseteq Cell
<1>1. NumPlaces \in Nat \ {0}
    BY ProgramAssumption
<1>2. Cell \subseteq Nat \ {0}
    BY <1>1 DEF Cell
<1>3. ASSUME NEW r \in Root, NEW p \in 1..NumPlaces
      PROVE  (r - 1) * NumPlaces + p \in Cell
  <2>1. r = 1 \/ r = 2 \/ r = 3 \/ r = 4 \/ r = 5
      BY DEF Root
  <2> QED BY <1>1, <2>1 DEF Cell
<1> QED BY <1>2, <1>3 DEF CellsOf

(* Sectors do not overlap. *)
LEMMA SectorsAreApart ==
    ASSUME NEW r \in Root, NEW s \in Root, NEW c \in CellsOf(r), c \in CellsOf(s)
    PROVE  r = s
<1>1. NumPlaces \in Nat \ {0}
    BY ProgramAssumption
<1>2. PICK p \in 1..NumPlaces : c = (r - 1) * NumPlaces + p
    BY DEF CellsOf
<1>3. PICK q \in 1..NumPlaces : c = (s - 1) * NumPlaces + q
    BY DEF CellsOf
<1>4. \A t \in Root : /\ t = 1 => (t - 1) * NumPlaces = 0
                      /\ t = 2 => (t - 1) * NumPlaces = NumPlaces
                      /\ t = 3 => (t - 1) * NumPlaces = 2 * NumPlaces
                      /\ t = 4 => (t - 1) * NumPlaces = 3 * NumPlaces
                      /\ t = 5 => (t - 1) * NumPlaces = 4 * NumPlaces
    BY <1>1
<1>5. (r = 1 \/ r = 2 \/ r = 3 \/ r = 4 \/ r = 5) /\ (s = 1 \/ s = 2 \/ s = 3 \/ s = 4 \/ s = 5)
    BY DEF Root
<1> QED BY <1>1, <1>2, <1>3, <1>4, <1>5

LEMMA FreshIsFree ==
    ASSUME Addr \ alloced_ptrs # {}
    PROVE  FreshAddress \in Addr \ alloced_ptrs /\ FreshAddress # 0
<1>1. Addr \ alloced_ptrs \in SUBSET Nat
    BY ProgramAssumption
<1>2. \E a \in Addr \ alloced_ptrs : \A b \in Addr \ alloced_ptrs : a <= b
    BY <1>1, LeastNat
<1>3. FreshAddress \in Addr \ alloced_ptrs
    BY <1>2, Zenon DEF FreshAddress
<1> QED BY <1>3, ProgramAssumption

LEMMA FirstPointIsFirst ==
    ASSUME NEW g, NEW c, PointsAfter(g, c) # {}
    PROVE  FirstPoint(g, c) \in PointsAfter(g, c) /\ \A d \in PointsAfter(g, c) : FirstPoint(g, c) <= d
<1>1. PointsAfter(g, c) \in SUBSET Nat
    BY CellsAreNumbers DEF PointsAfter, Points
<1>2. \E d \in PointsAfter(g, c) : \A e \in PointsAfter(g, c) : d <= e
    BY <1>1, LeastNat
<1> QED BY <1>2 DEF FirstPoint

LEMMA AfterNone == ASSUME NEW g PROVE PointsAfter(g, 0) = Points(g)
<1>1. \A c \in Cell : c > 0
    BY CellsAreNumbers
<1> QED BY <1>1 DEF PointsAfter, Points

-----------------------------------------------------------------------------
(* The sizes and call stacks of the program are ones of the detector. *)
LEMMA SitesAreKnown ==
    ASSUME NEW n \in 0..5
    PROVE  SizeAt(n) \in Size /\ kStack(n) \in Stack
<1>1. SizeAt(n) \in Size
    BY ProgramAssumption DEF SizeAt, Root
<1> QED BY <1>1, ProgramAssumption DEF kStack

(* An allocation adds a block from its site, and leaves the others alone. *)
LEMMA AllocEffect ==
    ASSUME ProgramTypeOK, NEW n \in 0..5, Alloc(SizeAt(n), kStack(n))
    PROVE  /\ FreshAddress \in Addr \ alloced_ptrs /\ FreshAddress # 0
           /\ alloced_ptrs' = alloced_ptrs \union {FreshAddress}
           /\ alloced_ptrs' = DOMAIN address_map'
           /\ IsFrom(address_map', FreshAddress, n)
           /\ \A block \in alloced_ptrs : \A r : IsFrom(address_map, block, r) => IsFrom(address_map', block, r)
           /\ UNCHANGED choices
           /\ Next
<1> DEFINE a == FreshAddress
           info == [size |-> SizeAt(n),
                    call_stack |-> IF SizeToIndex(SizeAt(n)) \in DOMAIN stack_tables /\ kStack(n) # NoStack
                                   THEN kStack(n) ELSE NoStack]
<1>1. a \in Addr \ alloced_ptrs /\ a # 0
    BY FreshIsFree DEF Alloc
<1>2. /\ alloced_ptrs' = alloced_ptrs \union {a} /\ UNCHANGED choices
      /\ RecordAlloc(a, SizeAt(n), kStack(n))
    BY DEF Alloc
<1>3. address_map' = [b \in DOMAIN address_map \union {a} |->
                         IF b \in DOMAIN address_map THEN address_map[b] ELSE info]
    BY <1>2 DEF RecordAlloc
<1> HIDE DEF a
<1>4. a \notin DOMAIN address_map /\ alloced_ptrs = DOMAIN address_map
    BY <1>1 DEF ProgramTypeOK
<1>5. IsFrom(address_map', a, n)
  <2>1. address_map'[a] = info
      BY <1>3, <1>4
  <2> QED BY <2>1 DEF IsFrom
<1>6. \A block \in alloced_ptrs : \A r : IsFrom(address_map, block, r) => IsFrom(address_map', block, r)
  <2>1. \A block \in alloced_ptrs : address_map'[block] = address_map[block]
      BY <1>3, <1>4
  <2> QED BY <2>1 DEF IsFrom
<1>7. Next
    BY <1>1, <1>2, SitesAreKnown DEF Next
<1> QED BY <1>1, <1>2, <1>3, <1>4, <1>5, <1>6, <1>7 DEF a

LEMMA FreeEffect ==
    ASSUME ProgramTypeOK, NEW ptr \in Addr, Free(ptr)
    PROVE  /\ alloced_ptrs' = alloced_ptrs \ {ptr}
           /\ alloced_ptrs' = DOMAIN address_map'
           /\ \A block \in alloced_ptrs' : \A r : IsFrom(address_map, block, r) => IsFrom(address_map', block, r)
           /\ UNCHANGED choices
           /\ Next
<1>1. /\ alloced_ptrs' = alloced_ptrs \ {ptr} /\ UNCHANGED choices
      /\ RecordFree(ptr) /\ alloced_ptrs = DOMAIN address_map
    BY DEF Free, ProgramTypeOK
<1>2. address_map' = [a \in DOMAIN address_map \ {ptr} |-> address_map[a]]
    BY <1>1 DEF RecordFree
<1>3. \A block \in alloced_ptrs' : address_map'[block] = address_map[block]
    BY <1>1, <1>2
<1>4. \A block \in alloced_ptrs' : \A r : IsFrom(address_map, block, r) => IsFrom(address_map', block, r)
    BY <1>3 DEF IsFrom
<1> QED BY <1>1, <1>2, <1>4 DEF Next

-----------------------------------------------------------------------------
(* A grid with a new block at a cell, and without the block of a cell. *)
LEMMA PutPoint ==
    ASSUME NEW g \in [Cell -> Addr \union {0}], NEW k \in Cell, NEW a \in Addr, a # 0,
           NEW put, put = [g EXCEPT ![k] = a]
    PROVE  /\ put \in [Cell -> Addr \union {0}]
           /\ Points(put) = Points(g) \union {k}
           /\ put[k] = a /\ \A c \in Cell \ {k} : put[c] = g[c]
<1>1. put \in [Cell -> Addr \union {0}] /\ put[k] = a /\ \A c \in Cell \ {k} : put[c] = g[c]
    OBVIOUS
<1> QED BY <1>1 DEF Points

LEMMA TakePoint ==
    ASSUME NEW g \in [Cell -> Addr \union {0}], NEW k \in Cell, NEW taken, taken = [g EXCEPT ![k] = 0]
    PROVE  /\ taken \in [Cell -> Addr \union {0}]
           /\ Points(taken) = Points(g) \ {k}
           /\ \A c \in Cell \ {k} : taken[c] = g[c]
<1>1. /\ taken \in [Cell -> Addr \union {0}] /\ taken[k] = 0
      /\ \A c \in Cell \ {k} : taken[c] = g[c]
    OBVIOUS
<1> QED BY <1>1 DEF Points

LEMMA PutKeepsLive ==
    ASSUME NEW g \in [Cell -> Addr \union {0}], NEW h, NEW ptrs, GridsAreLive(g, h, ptrs),
           NEW k \in Cell, NEW a \in Addr, a # 0, a \notin ptrs,
           NEW put, put = [g EXCEPT ![k] = a]
    PROVE  GridsAreLive(put, h, ptrs \union {a})
<1>1. /\ Points(put) = Points(g) \union {k} /\ put[k] = a
      /\ \A c \in Points(put) : c # k => put[c] = g[c] /\ c \in Points(g)
    BY PutPoint DEF Points
<1>2. \A c \in Points(put) : put[c] \in ptrs \union {a}
    BY <1>1 DEF GridsAreLive
<1>3. \A c, d \in Points(put) : put[c] = put[d] => c = d
    BY <1>1 DEF GridsAreLive
<1>4. \A c \in Points(put), d \in Points(h) : put[c] # h[d]
    BY <1>1 DEF GridsAreLive
<1>5. /\ \A c \in Points(h) : h[c] \in ptrs \union {a}
      /\ \A c, d \in Points(h) : h[c] = h[d] => c = d
    BY DEF GridsAreLive
<1> QED BY <1>2, <1>3, <1>4, <1>5 DEF GridsAreLive

LEMMA TakeKeepsLive ==
    ASSUME NEW g \in [Cell -> Addr \union {0}], NEW h, NEW ptrs, GridsAreLive(g, h, ptrs),
           NEW k \in Points(g), NEW taken, taken = [g EXCEPT ![k] = 0]
    PROVE  GridsAreLive(taken, h, ptrs \ {g[k]})
<1>1. \A c \in Points(taken) : c # k /\ c \in Points(g) /\ taken[c] = g[c]
    BY TakePoint DEF Points
<1>2. \A c \in Points(taken) : taken[c] \in ptrs \ {g[k]}
    BY <1>1 DEF GridsAreLive
<1>3. \A c, d \in Points(taken) : taken[c] = taken[d] => c = d
    BY <1>1 DEF GridsAreLive
<1>4. \A c \in Points(taken), d \in Points(h) : taken[c] # h[d]
    BY <1>1 DEF GridsAreLive
<1>5. /\ \A c \in Points(h) : h[c] \in ptrs \ {g[k]}
      /\ \A c, d \in Points(h) : h[c] = h[d] => c = d
    BY DEF GridsAreLive
<1> QED BY <1>2, <1>3, <1>4, <1>5 DEF GridsAreLive

LEMMA GridsSwap ==
    ASSUME NEW g, NEW h, NEW ptrs, GridsAreLive(g, h, ptrs)
    PROVE  GridsAreLive(h, g, ptrs)
    BY DEF GridsAreLive

LEMMA LivePrimed == PointsAreLive' <=> GridsAreLive(grid', next_grid', alloced_ptrs')
    BY DEF PointsAreLive, GridsAreLive, Points

LEMMA HeldPrimed == Held' = HeldBy(grid') \union HeldBy(next_grid')
    BY DEF Held, HeldBy, Points

LEMMA EmptyGridHasNoPoint ==
    ASSUME NEW g \in [Cell -> Addr \union {0}]
    PROVE  Points(g) = {} <=> g = EmptyGrid
<1>1. ASSUME Points(g) = {} PROVE g = EmptyGrid
  <2>1. \A c \in Cell : g[c] = 0
      BY <1>1 DEF Points
  <2> QED BY <2>1 DEF EmptyGrid
<1> QED BY <1>1 DEF Points, EmptyGrid

-----------------------------------------------------------------------------
LEMMA InitProgramInv == ProgramInit => ProgramInv
<1> SUFFICES ASSUME ProgramInit PROVE ProgramInv
    OBVIOUS
<1>1. 1 \in Cell /\ 1 \in Root
    BY ProgramAssumption DEF Cell, Root
<1>2. EmptyGrid \in [Cell -> Addr \union {0}] /\ Points(EmptyGrid) = {}
    BY DEF EmptyGrid, Points
<1>3. \A c \in Cell : ~(c < 1)
    BY CellsAreNumbers
<1>4. ProgramTypeOK
  <2>1. place \in [Cell -> 1..NumPlaces] /\ iteration \in 0..NumIterations
      BY ProgramAssumption DEF ProgramInit
  <2> QED BY <1>1, <1>2, <2>1 DEF ProgramInit, ProgramTypeOK, Init
<1>5. PointsAreLive /\ PointsKeepToSectors /\ LostBlocksAreLeaks
    BY <1>2 DEF ProgramInit, PointsAreLive, GridsAreLive, PointsKeepToSectors, LostBlocksAreLeaks
<1>6. LoopsAreInOrder
    BY <1>2, <1>3 DEF ProgramInit, LoopsAreInOrder
<1> QED BY <1>4, <1>5, <1>6 DEF ProgramInv

LEMMA FillCellStep ==
    ASSUME ProgramInv, FillCell
    PROVE  ProgramInv' /\ Next
<1> DEFINE a == FreshAddress
<1>1. /\ ProgramTypeOK /\ phase = "fill" /\ next_grid = EmptyGrid /\ iteration = 0
      /\ Points(grid) = {c \in Cell : c < cell}
      /\ Alloc(SizeAt(0), kStack(0))
      /\ grid' = [grid EXCEPT ![cell] = a]
      /\ UNCHANGED <<root, iteration, next_grid>>
    BY DEF ProgramInv, LoopsAreInOrder, FillCell, SizeAt
<1>2. /\ a \in Addr \ alloced_ptrs /\ a # 0
      /\ alloced_ptrs' = alloced_ptrs \union {a} /\ alloced_ptrs' = DOMAIN address_map'
      /\ \A block \in alloced_ptrs :
            \A r : IsFrom(address_map, block, r) => IsFrom(address_map', block, r)
      /\ UNCHANGED choices /\ Next
    BY <1>1, AllocEffect
<1> HIDE DEF a
<1>3. /\ grid \in [Cell -> Addr \union {0}] /\ cell \in Cell /\ cell \in Nat /\ cell > 0
      /\ next_grid \in [Cell -> Addr \union {0}] /\ Points(next_grid) = {}
    BY <1>1, EmptyGridHasNoPoint, CellsAreNumbers DEF ProgramTypeOK
<1>4. /\ grid' \in [Cell -> Addr \union {0}] /\ grid'[cell] = a
      /\ Points(grid') = Points(grid) \union {cell}
      /\ \A c \in Points(grid) : grid'[c] = grid[c]
  <2>1. \A c \in Points(grid) : c \in Cell \ {cell}
      BY <1>1, <1>3
  <2>2. /\ a \in Addr /\ a # 0 /\ grid' = [grid EXCEPT ![cell] = a]
        /\ grid \in [Cell -> Addr \union {0}] /\ cell \in Cell
      BY <1>1, <1>2, <1>3
  <2>3. /\ grid' \in [Cell -> Addr \union {0}] /\ grid'[cell] = a
        /\ Points(grid') = Points(grid) \union {cell}
        /\ \A c \in Cell \ {cell} : grid'[c] = grid[c]
      BY <2>2, PutPoint
  <2> QED BY <2>1, <2>3
<1>5. ProgramTypeOK'
  <2>1. cell' \in Cell /\ phase' \in {"fill", "roots"}
    <3>1. 1 \in Cell
        BY ProgramAssumption DEF Cell
    <3> QED BY <3>1, <1>1 DEF FillCell
  <2> QED BY <2>1, <1>1, <1>2, <1>4 DEF ProgramTypeOK, choices
<1>6. PointsAreLive'
  <2>1. GridsAreLive(grid, next_grid, alloced_ptrs) /\ a \in Addr /\ a \notin alloced_ptrs
      BY <1>2 DEF ProgramInv, PointsAreLive
  <2>2. GridsAreLive(grid', next_grid, alloced_ptrs \union {a})
      BY <2>1, <1>1, <1>2, <1>3, PutKeepsLive
  <2> QED BY <2>2, <1>1, <1>2, LivePrimed
<1>7. PointsKeepToSectors'
    BY <1>1, <1>3 DEF PointsKeepToSectors
<1>8. LostBlocksAreLeaks'
  <2>1. Held' = Held \union {a}
    <3>1. HeldBy(grid') = HeldBy(grid) \union {a}
        BY <1>4 DEF HeldBy
    <3> QED BY <3>1, HeldPrimed, <1>1 DEF Held
  <2>2. LeakingRoot' = LeakingRoot
      BY <1>2 DEF LeakingRoot, choices
  <2> QED BY <2>1, <2>2, <1>2 DEF ProgramInv, LostBlocksAreLeaks
<1>9. LoopsAreInOrder'
  <2>1. CASE cell + 1 \in Cell
    <3>1. cell' = cell + 1 /\ phase' = "fill"
        BY <2>1, <1>1 DEF FillCell
    <3>2. Points(grid') = {c \in Cell : c < cell'}
      <4>1. \A c \in Cell : c \in Nat
          BY CellsAreNumbers
      <4>2. \A c \in Cell : c < cell + 1 <=> c < cell \/ c = cell
          BY <4>1, <1>3
      <4>3. {c \in Cell : c < cell} \union {cell} = {c \in Cell : c < cell + 1}
          BY <4>2, <1>3
      <4> QED BY <4>3, <3>1, <1>1, <1>4
    <3>3. Points(grid)' = Points(grid')
        BY DEF Points
    <3> QED BY <3>1, <3>2, <3>3, <1>1 DEF LoopsAreInOrder
  <2>2. CASE cell + 1 \notin Cell
    <3>1. cell' = 1 /\ phase' = "roots"
        BY <2>2, <1>1 DEF FillCell
    <3>2. 1 \in Points(grid')
      <4>1. 1 \in Cell
          BY ProgramAssumption DEF Cell
      <4>2. cell = 1 \/ 1 < cell
          BY <1>3
      <4>3. 1 \in Points(grid) \union {cell}
          BY <4>1, <4>2, <1>1
      <4> QED BY <4>3, <1>4
    <3>3. iteration' < NumIterations
        BY <1>1, ProgramAssumption
    <3>4. grid'[1] # 0
        BY <3>2 DEF Points
    <3> QED BY <3>1, <3>3, <3>4 DEF LoopsAreInOrder
  <2> QED BY <2>1, <2>2
<1> QED BY <1>2, <1>5, <1>6, <1>7, <1>8, <1>9 DEF ProgramInv

-----------------------------------------------------------------------------
(* A new object at a root; what it replaces is an object that leaks. *)
LEMMA PlacePoint ==
    ASSUME ProgramInv, NEW k, k = RootCell(cell, root), k \in CellsOf(root),
           Overwrites(root) \/ next_grid[k] = 0,
           Alloc(RootSize[root], kStack(root)), UNCHANGED grid,
           next_grid' = [next_grid EXCEPT ![k] = FreshAddress]
    PROVE  /\ next_grid' \in [Cell -> Addr \union {0}] /\ next_grid'[k] # 0
           /\ UNCHANGED choices /\ alloced_ptrs' = DOMAIN address_map'
           /\ PointsAreLive' /\ PointsKeepToSectors' /\ LostBlocksAreLeaks'
           /\ Next
<1> DEFINE a == FreshAddress
<1>1. /\ ProgramTypeOK /\ root \in Root /\ k \in Cell
      /\ next_grid \in [Cell -> Addr \union {0}]
    BY CellsAreNumbers DEF ProgramInv, ProgramTypeOK
<1>2. root \in 0..5 /\ SizeAt(root) = RootSize[root]
    BY <1>1 DEF Root, SizeAt
<1>3. /\ a \in Addr \ alloced_ptrs /\ a # 0
      /\ alloced_ptrs' = alloced_ptrs \union {a} /\ alloced_ptrs' = DOMAIN address_map'
      /\ IsFrom(address_map', a, root)
      /\ \A block \in alloced_ptrs :
            \A r : IsFrom(address_map, block, r) => IsFrom(address_map', block, r)
      /\ UNCHANGED choices /\ Next
    BY <1>1, <1>2, AllocEffect
<1>4. next_grid' = [next_grid EXCEPT ![k] = a]
    OBVIOUS
<1> HIDE DEF a
<1>5. GridsAreLive(next_grid, grid, alloced_ptrs)
    BY GridsSwap DEF ProgramInv, PointsAreLive
<1>6. a \in Addr /\ a # 0 /\ a \notin alloced_ptrs
    BY <1>3
<1>7. /\ next_grid' \in [Cell -> Addr \union {0}]
      /\ Points(next_grid') = Points(next_grid) \union {k}
      /\ next_grid'[k] = a /\ \A c \in Cell \ {k} : next_grid'[c] = next_grid[c]
  <2>1. /\ k \in Cell /\ a \in Addr /\ a # 0 /\ next_grid \in [Cell -> Addr \union {0}]
        /\ next_grid' = [next_grid EXCEPT ![k] = a]
      BY <1>1, <1>4, <1>6
  <2>2. /\ next_grid' \in [Cell -> Addr \union {0}] /\ next_grid'[k] = a
        /\ \A c \in Cell \ {k} : next_grid'[c] = next_grid[c]
      BY <2>1
  <2> QED BY <2>1, <2>2 DEF Points
<1>8. PointsAreLive'
  <2>1. GridsAreLive(next_grid', grid, alloced_ptrs \union {a})
      BY <1>1, <1>4, <1>5, <1>6, PutKeepsLive
  <2>2. GridsAreLive(grid', next_grid', alloced_ptrs')
      BY <2>1, <1>3, GridsSwap
  <2> QED BY <2>2, LivePrimed
<1>9. PointsKeepToSectors'
  <2> SUFFICES ASSUME NEW r \in Root, NEW c \in CellsOf(r), c \in Points(next_grid')
               PROVE  IsFrom(address_map', next_grid'[c], r)
    <3>1. Points(next_grid)' = Points(next_grid') /\ \A r : CellsOf(r)' = CellsOf(r)
        BY DEF Points, CellsOf
    <3>2. \A c, r : IsFrom(address_map, next_grid[c], r)' <=> IsFrom(address_map', next_grid'[c], r)
        BY DEF IsFrom, SizeAt, kStack
    <3> QED BY <3>1, <3>2 DEF PointsKeepToSectors
  <2>1. CASE c = k
    <3>1. r = root
        BY <2>1, <1>1, SectorsAreApart
    <3> QED BY <2>1, <3>1, <1>3, <1>7
  <2>2. CASE c # k
    <3>1. c \in Points(next_grid) /\ c \in Cell /\ next_grid'[c] = next_grid[c]
        BY <2>2, <1>7 DEF Points
    <3>2. IsFrom(address_map, next_grid[c], r) /\ next_grid[c] \in alloced_ptrs
        BY <3>1, <1>5 DEF ProgramInv, PointsKeepToSectors, GridsAreLive
    <3> QED BY <3>1, <3>2, <1>3
  <2> QED BY <2>1, <2>2
<1>10. LostBlocksAreLeaks'
  <2>1. LeakingRoot' = LeakingRoot
      BY <1>3 DEF LeakingRoot, choices
  <2>2. ASSUME NEW block \in alloced_ptrs', block \notin Held'
        PROVE  \E r \in LeakingRoot : IsFrom(address_map', block, r)
    <3>1. Held' = HeldBy(grid) \union HeldBy(next_grid')
        BY HeldPrimed
    <3>2. k \in Points(next_grid')
        BY <1>7
    <3>3. block # a /\ block \in alloced_ptrs
        BY <2>2, <3>1, <3>2, <1>3, <1>7 DEF HeldBy
    <3>4. CASE block \in Held
      <4>1. block \in HeldBy(next_grid)
          BY <3>4, <3>1, <2>2 DEF Held
      <4>2. PICK c \in Points(next_grid) : block = next_grid[c]
          BY <4>1 DEF HeldBy
      <4>3. c = k
        <5>1. c # k => next_grid'[c] = block /\ c \in Points(next_grid')
            BY <4>2, <1>7 DEF Points
        <5> QED BY <5>1, <3>1, <2>2 DEF HeldBy
      <4>4. next_grid[k] # 0
          BY <4>2, <4>3 DEF Points
      <4>5. root \in LeakingRoot
          BY <4>4 DEF Overwrites, LeakingRoot
      <4>6. IsFrom(address_map, block, root)
          BY <4>2, <4>3, <1>1 DEF ProgramInv, PointsKeepToSectors
      <4> QED BY <4>5, <4>6, <3>3, <1>3
    <3>5. CASE block \notin Held
      <4>1. \E r \in LeakingRoot : IsFrom(address_map, block, r)
          BY <3>3, <3>5 DEF ProgramInv, LostBlocksAreLeaks
      <4> QED BY <4>1, <3>3, <1>3
    <3> QED BY <3>4, <3>5
  <2>3. \A block, r : IsFrom(address_map, block, r)' <=> IsFrom(address_map', block, r)
      BY DEF IsFrom, SizeAt, kStack
  <2> QED BY <2>1, <2>2, <2>3 DEF LostBlocksAreLeaks
<1> QED BY <1>3, <1>6, <1>7, <1>8, <1>9, <1>10

(* When neither the grids nor the heap change, nor does what is said of them. *)
LEMMA PointsUnchanged ==
    ASSUME PointsAreLive, PointsKeepToSectors, LostBlocksAreLeaks,
           UNCHANGED <<grid, next_grid, alloced_ptrs, address_map, choices>>
    PROVE  PointsAreLive' /\ PointsKeepToSectors' /\ LostBlocksAreLeaks'
    BY DEF PointsAreLive, GridsAreLive, PointsKeepToSectors, LostBlocksAreLeaks, Held, HeldBy, Points,
           LeakingRoot, IsFrom, CellsOf, SizeAt, kStack, choices

LEMMA PlaceRootStep ==
    ASSUME ProgramInv, PlaceRoot
    PROVE  ProgramInv' /\ [Next]_vars
<1> DEFINE k == RootCell(cell, root)
<1>1. /\ ProgramTypeOK /\ PointsAreLive /\ PointsKeepToSectors /\ LostBlocksAreLeaks
      /\ phase = "roots" /\ iteration < NumIterations /\ grid[cell] # 0
      /\ UNCHANGED <<grid, iteration>>
    BY DEF ProgramInv, LoopsAreInOrder, PlaceRoot
<1>2. k \in CellsOf(root) /\ k \in Cell /\ root \in Root
    BY <1>1, CellsAreNumbers DEF ProgramTypeOK, RootCell, CellsOf
<1>3. /\ next_grid' \in [Cell -> Addr \union {0}] /\ next_grid'[k] # 0
      /\ UNCHANGED choices /\ alloced_ptrs' = DOMAIN address_map'
      /\ PointsAreLive' /\ PointsKeepToSectors' /\ LostBlocksAreLeaks'
      /\ [Next]_vars
  <2>1. CASE Overwrites(root) \/ next_grid[k] = 0
    <3>1. /\ Alloc(RootSize[root], kStack(root))
          /\ next_grid' = [next_grid EXCEPT ![k] = FreshAddress]
        BY <2>1 DEF PlaceRoot
    <3> HIDE DEF k
    <3>2. k = RootCell(cell, root) /\ UNCHANGED grid
        BY <1>1 DEF k
    <3> QED BY <2>1, <3>1, <3>2, <1>2, PlacePoint
  <2>2. CASE ~(Overwrites(root) \/ next_grid[k] = 0)
    <3>1. DoNothing /\ UNCHANGED next_grid
        BY <2>2 DEF PlaceRoot
    <3>2. UNCHANGED <<vars, choices, alloced_ptrs>>
        BY <3>1 DEF DoNothing, detectorVars
    <3>3. UNCHANGED address_map
        BY <3>2 DEF vars
    <3>4. PointsAreLive' /\ PointsKeepToSectors' /\ LostBlocksAreLeaks'
        BY <1>1, <3>1, <3>2, <3>3, PointsUnchanged
    <3> QED BY <2>2, <3>1, <3>2, <3>3, <3>4, <1>1 DEF ProgramTypeOK
  <2> QED BY <2>1, <2>2
<1> HIDE DEF k
<1>4. k \in Points(next_grid') /\ cell \in Points(grid)
    BY <1>1, <1>2, <1>3 DEF Points, ProgramTypeOK
<1>5. /\ cell' \in Cell /\ root' \in Root /\ phase' \in {"roots", "clear"}
      /\ phase' = "roots" => grid[cell'] # 0
      /\ phase' = "clear" => grid[cell'] # 0 /\ \A c \in Points(grid) : c >= cell'
  <2>1. CASE root < 5
    <3>1. root' = root + 1 /\ UNCHANGED <<phase, cell>>
        BY <2>1 DEF PlaceRoot
    <3> QED BY <2>1, <3>1, <1>1, <1>2 DEF ProgramTypeOK, Root
  <2>2. CASE ~(root < 5)
    <3>1. CASE PointsAfter(grid, cell) # {}
      <4>1. root' = 1 /\ cell' = FirstPoint(grid, cell) /\ phase' = phase
          BY <2>2, <3>1 DEF PlaceRoot
      <4>2. cell' \in PointsAfter(grid, cell)
          BY <3>1, <4>1, FirstPointIsFirst
      <4> QED BY <4>1, <4>2, <1>1 DEF PointsAfter, Points, Root
    <3>2. CASE PointsAfter(grid, cell) = {}
      <4>1. root' = 1 /\ cell' = FirstPoint(grid, 0) /\ phase' = "clear"
          BY <2>2, <3>2 DEF PlaceRoot
      <4>2. PointsAfter(grid, 0) = Points(grid) /\ PointsAfter(grid, 0) # {}
          BY <1>4, AfterNone
      <4>3. cell' \in Points(grid) /\ \A c \in Points(grid) : cell' <= c
          BY <4>1, <4>2, FirstPointIsFirst
      <4>4. \A c \in Points(grid) : c >= cell'
          BY <4>3, CellsAreNumbers DEF Points
      <4> QED BY <4>1, <4>3, <4>4 DEF Points, Root
    <3> QED BY <3>1, <3>2
  <2> QED BY <2>1, <2>2
<1>6. ProgramTypeOK'
    BY <1>1, <1>3, <1>5 DEF ProgramTypeOK, choices
<1>7. LoopsAreInOrder'
  <2>1. Points(grid)' = Points(grid) /\ Points(next_grid)' = Points(next_grid')
      BY <1>1 DEF Points
  <2> QED BY <2>1, <1>1, <1>4, <1>5 DEF LoopsAreInOrder
<1> QED BY <1>3, <1>6, <1>7 DEF ProgramInv

-----------------------------------------------------------------------------
(* Freeing the block of a point, wherever the two grids go then. *)
LEMMA TakeBlock ==
    ASSUME ProgramInv, cell \in Cell, grid[cell] # 0, Free(grid[cell]),
           NEW taken, taken = [grid EXCEPT ![cell] = 0],
           \/ grid' = taken /\ next_grid' = next_grid
           \/ grid' = next_grid /\ next_grid' = taken /\ Points(taken) = {}
    PROVE  /\ grid' \in [Cell -> Addr \union {0}] /\ next_grid' \in [Cell -> Addr \union {0}]
           /\ UNCHANGED choices /\ alloced_ptrs' = DOMAIN address_map'
           /\ PointsAreLive' /\ PointsKeepToSectors' /\ LostBlocksAreLeaks'
           /\ Next
<1> DEFINE ptr == grid[cell]
<1>1. /\ ProgramTypeOK /\ cell \in Points(grid) /\ ptr \in Addr
      /\ grid \in [Cell -> Addr \union {0}] /\ next_grid \in [Cell -> Addr \union {0}]
    BY DEF ProgramInv, ProgramTypeOK, Points
<1>2. /\ alloced_ptrs' = alloced_ptrs \ {ptr} /\ alloced_ptrs' = DOMAIN address_map'
      /\ \A block \in alloced_ptrs' :
            \A r : IsFrom(address_map, block, r) => IsFrom(address_map', block, r)
      /\ UNCHANGED choices /\ Next
    BY <1>1, FreeEffect
<1> HIDE DEF ptr
<1>3. /\ taken \in [Cell -> Addr \union {0}] /\ Points(taken) = Points(grid) \ {cell}
      /\ \A c \in Cell \ {cell} : taken[c] = grid[c]
    BY <1>1, TakePoint
<1>4. PointsAreLive'
  <2>1. GridsAreLive(taken, next_grid, alloced_ptrs')
    <3>1. GridsAreLive(grid, next_grid, alloced_ptrs)
        BY DEF ProgramInv, PointsAreLive
    <3>2. GridsAreLive(taken, next_grid, alloced_ptrs \ {grid[cell]})
        BY <1>1, <3>1, TakeKeepsLive
    <3> QED BY <3>2, <1>2 DEF ptr
  <2>2. GridsAreLive(next_grid, taken, alloced_ptrs')
      BY <2>1, GridsSwap
  <2> QED BY <2>1, <2>2, LivePrimed
<1>5. PointsKeepToSectors'
  <2> SUFFICES ASSUME NEW r \in Root, NEW c \in CellsOf(r), c \in Points(next_grid')
               PROVE  IsFrom(address_map', next_grid'[c], r)
    <3>1. Points(next_grid)' = Points(next_grid') /\ \A r : CellsOf(r)' = CellsOf(r)
        BY DEF Points, CellsOf
    <3>2. \A c, r : IsFrom(address_map, next_grid[c], r)' <=> IsFrom(address_map', next_grid'[c], r)
        BY DEF IsFrom, SizeAt, kStack
    <3> QED BY <3>1, <3>2 DEF PointsKeepToSectors
  <2>1. next_grid' = next_grid
      OBVIOUS
  <2>2. IsFrom(address_map, next_grid[c], r)
      BY <2>1 DEF ProgramInv, PointsKeepToSectors
  <2>3. next_grid[c] \in alloced_ptrs /\ next_grid[c] # ptr
      BY <2>1, <1>1 DEF ProgramInv, PointsAreLive, GridsAreLive, ptr
  <2> QED BY <2>1, <2>2, <2>3, <1>2
<1>6. LostBlocksAreLeaks'
  <2>1. LeakingRoot' = LeakingRoot
      BY <1>2 DEF LeakingRoot, choices
  <2>2. Held \subseteq Held' \union {ptr}
    <3>1. HeldBy(grid) \subseteq HeldBy(taken) \union {ptr}
      <4>1. \A c \in Points(grid) : c = cell \/ (c \in Points(taken) /\ taken[c] = grid[c])
          BY <1>3 DEF Points
      <4> QED BY <4>1 DEF HeldBy, ptr
    <3>2. Held' = HeldBy(taken) \union HeldBy(next_grid)
        BY HeldPrimed
    <3> QED BY <3>1, <3>2 DEF Held
  <2>3. ASSUME NEW block \in alloced_ptrs', block \notin Held'
        PROVE  \E r \in LeakingRoot : IsFrom(address_map', block, r)
    <3>1. block \in alloced_ptrs /\ block \notin Held
        BY <2>2, <2>3, <1>2
    <3>2. \E r \in LeakingRoot : IsFrom(address_map, block, r)
        BY <3>1 DEF ProgramInv, LostBlocksAreLeaks
    <3> QED BY <3>2, <2>3, <1>2
  <2>4. \A block, r : IsFrom(address_map, block, r)' <=> IsFrom(address_map', block, r)
      BY DEF IsFrom, SizeAt, kStack
  <2> QED BY <2>1, <2>3, <2>4 DEF LostBlocksAreLeaks
<1> QED BY <1>1, <1>2, <1>3, <1>4, <1>5, <1>6

LEMMA ClearPointStep ==
    ASSUME ProgramInv, ClearPoint
    PROVE  ProgramInv' /\ Next
<1> DEFINE taken == [grid EXCEPT ![cell] = 0]
<1>1. /\ ProgramTypeOK /\ phase = "clear" /\ cell \in Cell /\ grid[cell] # 0
      /\ Free(grid[cell]) /\ root' = root /\ root \in Root
      /\ \A c \in Points(grid) : c >= cell
      /\ (iteration < NumIterations) <=> (Points(next_grid) # {})
      /\ grid \in [Cell -> Addr \union {0}] /\ next_grid \in [Cell -> Addr \union {0}]
      /\ iteration \in 0..NumIterations /\ NumIterations \in Nat
    BY ProgramAssumption DEF ProgramInv, LoopsAreInOrder, ClearPoint, ProgramTypeOK
<1>2. /\ taken \in [Cell -> Addr \union {0}] /\ Points(taken) = Points(grid) \ {cell}
      /\ \A c \in Cell \ {cell} : taken[c] = grid[c]
    BY <1>1, TakePoint
<1>3. taken = [grid EXCEPT ![cell] = 0]
    OBVIOUS
<1>4. \A c \in Cell : c \in Nat
    BY CellsAreNumbers
<1>5. CASE PointsAfter(grid, cell) # {}
  <2>1. /\ grid' = taken /\ cell' = FirstPoint(grid, cell)
        /\ UNCHANGED <<phase, iteration, next_grid>>
      BY <1>5 DEF ClearPoint
  <2> HIDE DEF taken
  <2>2. /\ cell' \in PointsAfter(grid, cell) /\ \A d \in PointsAfter(grid, cell) : cell' <= d
      BY <1>5, <2>1, FirstPointIsFirst
  <2>3. cell' \in Cell /\ cell' \in Points(taken) /\ cell' > cell
      BY <2>2, <1>1, <1>2, <1>4 DEF PointsAfter, Points
  <2>4. \A c \in Points(taken) : c >= cell'
    <3> SUFFICES ASSUME NEW c \in Points(taken) PROVE c >= cell'
        OBVIOUS
    <3>1. c \in Points(grid) /\ c # cell /\ c >= cell /\ c \in Nat /\ cell \in Nat /\ cell' \in Nat
        BY <1>1, <1>2, <1>4, <2>3 DEF Points
    <3>2. c \in PointsAfter(grid, cell)
        BY <3>1 DEF PointsAfter
    <3> QED BY <2>2, <3>1, <3>2
  <2>5. /\ grid' \in [Cell -> Addr \union {0}] /\ next_grid' \in [Cell -> Addr \union {0}]
        /\ UNCHANGED choices /\ alloced_ptrs' = DOMAIN address_map'
        /\ PointsAreLive' /\ PointsKeepToSectors' /\ LostBlocksAreLeaks' /\ Next
      BY <1>1, <1>3, <2>1, TakeBlock
  <2>6. ProgramTypeOK'
      BY <1>1, <2>1, <2>3, <2>5 DEF ProgramTypeOK, choices
  <2>7. LoopsAreInOrder'
    <3>1. Points(grid)' = Points(taken) /\ Points(next_grid)' = Points(next_grid)
        BY <2>1 DEF Points
    <3>2. grid'[cell'] # 0
        BY <2>1, <2>3 DEF Points
    <3> QED BY <3>1, <3>2, <1>1, <2>1, <2>4 DEF LoopsAreInOrder
  <2> QED BY <2>5, <2>6, <2>7 DEF ProgramInv
<1>6. CASE PointsAfter(grid, cell) = {}
  <2>1. Points(taken) = {}
    <3>1. \A c \in Points(grid) : c = cell
      <4>1. \A c \in Points(grid) : c \in Nat /\ cell \in Nat /\ c >= cell
          BY <1>1, <1>4 DEF Points
      <4>2. \A c \in Points(grid) : ~(c > cell)
          BY <1>6 DEF PointsAfter
      <4> QED BY <4>1, <4>2
    <3> QED BY <3>1, <1>2
  <2>2. taken = EmptyGrid
      BY <1>2, <2>1, EmptyGridHasNoPoint
  <2>3. CASE iteration < NumIterations
    <3>1. /\ grid' = next_grid /\ next_grid' = taken /\ cell' = FirstPoint(next_grid, 0)
          /\ iteration' = iteration + 1
          /\ phase' = IF iteration' < NumIterations THEN "roots" ELSE "clear"
        BY <1>6, <2>3 DEF ClearPoint
    <3> HIDE DEF taken
    <3>2. cell' \in Points(next_grid) /\ \A c \in Points(next_grid) : cell' <= c
      <4>1. PointsAfter(next_grid, 0) = Points(next_grid) /\ PointsAfter(next_grid, 0) # {}
          BY <1>1, <2>3, AfterNone
      <4> QED BY <4>1, <3>1, FirstPointIsFirst
    <3>3. /\ grid' \in [Cell -> Addr \union {0}] /\ next_grid' \in [Cell -> Addr \union {0}]
          /\ UNCHANGED choices /\ alloced_ptrs' = DOMAIN address_map'
          /\ PointsAreLive' /\ PointsKeepToSectors' /\ LostBlocksAreLeaks' /\ Next
        BY <1>1, <1>3, <2>1, <3>1, TakeBlock
    <3>4. cell' \in Cell /\ iteration' \in 0..NumIterations /\ phase' \in {"roots", "clear"}
        BY <1>1, <2>3, <3>1, <3>2 DEF Points
    <3>5. ProgramTypeOK'
        BY <1>1, <3>3, <3>4 DEF ProgramTypeOK, choices
    <3>6. LoopsAreInOrder'
      <4>1. Points(grid)' = Points(next_grid) /\ Points(next_grid)' = {}
          BY <2>1, <3>1 DEF Points
      <4>2. grid'[cell'] # 0
          BY <3>1, <3>2 DEF Points
      <4>3. \A c \in Points(next_grid) : c >= cell'
          BY <3>2, <1>4 DEF Points
      <4> QED BY <4>1, <4>2, <4>3, <1>1, <2>3, <3>1, <3>4 DEF LoopsAreInOrder
    <3> QED BY <3>3, <3>5, <3>6 DEF ProgramInv
  <2>4. CASE ~(iteration < NumIterations)
    <3>1. grid' = taken /\ phase' = "done" /\ UNCHANGED <<cell, iteration, next_grid>>
        BY <1>6, <2>4 DEF ClearPoint
    <3> HIDE DEF taken
    <3>2. /\ grid' \in [Cell -> Addr \union {0}] /\ next_grid' \in [Cell -> Addr \union {0}]
          /\ UNCHANGED choices /\ alloced_ptrs' = DOMAIN address_map'
          /\ PointsAreLive' /\ PointsKeepToSectors' /\ LostBlocksAreLeaks' /\ Next
        BY <1>1, <1>3, <3>1, TakeBlock
    <3>3. ProgramTypeOK'
        BY <1>1, <3>1, <3>2 DEF ProgramTypeOK, choices
    <3>4. LoopsAreInOrder'
      <4>1. next_grid = EmptyGrid
          BY <1>1, <2>4, EmptyGridHasNoPoint
      <4> QED BY <4>1, <2>2, <3>1 DEF LoopsAreInOrder, EmptyGrid
    <3> QED BY <3>2, <3>3, <3>4 DEF ProgramInv
  <2> QED BY <2>3, <2>4
<1> QED BY <1>5, <1>6

-----------------------------------------------------------------------------
LEMMA AnalyzeStep ==
    ASSUME ProgramInv, Analyze
    PROVE  ProgramInv' /\ Next
<1>1. TestForLeaks /\ UNCHANGED <<programVars, choices, alloced_ptrs>>
    BY DEF Analyze
<1>2. UNCHANGED <<address_map, choices, alloced_ptrs, phase, cell, root, iteration, grid, next_grid>>
    BY <1>1 DEF TestForLeaks, programVars
<1>3. PointsAreLive' /\ PointsKeepToSectors' /\ LostBlocksAreLeaks'
    BY <1>2, PointsUnchanged DEF ProgramInv
<1>4. ProgramTypeOK' /\ LoopsAreInOrder'
    BY <1>2 DEF ProgramInv, ProgramTypeOK, LoopsAreInOrder, Points, EmptyGrid, choices
<1>5. Next
    BY <1>1 DEF Next
<1> QED BY <1>3, <1>4, <1>5 DEF ProgramInv

LEMMA NextProgramInv ==
    ProgramInv /\ [ProgramNext]_testVars => ProgramInv' /\ [Next]_vars
<1> SUFFICES ASSUME ProgramInv, [ProgramNext]_testVars PROVE ProgramInv' /\ [Next]_vars
    OBVIOUS
<1>1. CASE FillCell
    BY <1>1, FillCellStep
<1>2. CASE PlaceRoot
    BY <1>2, PlaceRootStep
<1>3. CASE ClearPoint
    BY <1>3, ClearPointStep
<1>4. CASE Analyze
    BY <1>4, AnalyzeStep
<1>5. CASE UNCHANGED testVars
  <2>1. UNCHANGED <<vars, programVars, choices, alloced_ptrs>>
      BY <1>5 DEF testVars, detectorVars
  <2>2. UNCHANGED <<address_map, choices, alloced_ptrs, phase, cell, root, iteration, grid, next_grid>>
      BY <2>1 DEF vars, programVars
  <2>3. PointsAreLive' /\ PointsKeepToSectors' /\ LostBlocksAreLeaks'
      BY <2>2, PointsUnchanged DEF ProgramInv
  <2>4. ProgramTypeOK' /\ LoopsAreInOrder'
      BY <2>2 DEF ProgramInv, ProgramTypeOK, LoopsAreInOrder, Points, EmptyGrid, choices
  <2> QED BY <2>1, <2>3, <2>4 DEF ProgramInv
<1> QED BY <1>1, <1>2, <1>3, <1>4, <1>5 DEF ProgramNext

LEMMA ProgramInvariance == ProgramSpec => []ProgramInv
<1>1. ProgramInv /\ [ProgramNext]_testVars => ProgramInv'
    BY NextProgramInv
<1> QED BY <1>1, InitProgramInv, PTL DEF ProgramSpec

(***************************************************************************)
(* The program takes only steps that LeakDetectorImpl has, and those that  *)
(* leave the detector alone: what it tells the detector is what the test's *)
(* Alloc and Free pass on, and the grids always point to blocks that the   *)
(* detector knows.  What is proved of the detector holds in the program.   *)
(***************************************************************************)
THEOREM ProgramUsesDetector == ProgramSpec => Spec
<1>1. ProgramInit => Init
    BY DEF ProgramInit
<1>2. ProgramInv /\ [ProgramNext]_testVars => [Next]_vars
    BY NextProgramInv
<1> QED BY <1>1, <1>2, ProgramInvariance, PTL DEF ProgramSpec, Spec

(***************************************************************************)
(* Whatever the loop that clears a grid is about to free was allocated and *)
(* not freed since, whichever points were replaced and whenever the grids  *)
(* were swapped (the test's EXPECT in Free, line 158).                     *)
(***************************************************************************)
FreesAreOfLive == phase = "clear" => grid[cell] \in DOMAIN address_map

THEOREM FreesAreAlwaysOfLive == ProgramSpec => []FreesAreOfLive
<1>1. ProgramInv => FreesAreOfLive
  <2> SUFFICES ASSUME ProgramInv, phase = "clear" PROVE grid[cell] \in DOMAIN address_map
      BY DEF FreesAreOfLive
  <2>1. cell \in Points(grid)
      BY DEF ProgramInv, ProgramTypeOK, LoopsAreInOrder, Points
  <2> QED BY <2>1 DEF ProgramInv, ProgramTypeOK, PointsAreLive, GridsAreLive
<1> QED BY <1>1, ProgramInvariance, PTL

(***************************************************************************)
(* In the end all that is left on the heap is what leaked: objects that    *)
(* the third and fourth roots replaced, and nothing when the program has   *)
(* no leak (the test's EXPECT on alloced_ptrs_, after the last iteration). *)
(***************************************************************************)
OnlyLeaksRemain ==
    phase = "done" =>
        \A block \in alloced_ptrs : \E r \in LeakingRoot : IsFrom(address_map, block, r)

THEOREM OnlyLeaksAlwaysRemain == ProgramSpec => []OnlyLeaksRemain
<1>1. ASSUME ProgramInv, phase = "done" PROVE Held = {}
  <2>1. Points(grid) = {} /\ Points(next_grid) = {}
      BY <1>1 DEF ProgramInv, LoopsAreInOrder, EmptyGrid, Points
  <2> QED BY <2>1 DEF Held, HeldBy
<1>2. ProgramInv => OnlyLeaksRemain
    BY <1>1 DEF ProgramInv, LostBlocksAreLeaks, OnlyLeaksRemain
<1> QED BY <1>2, ProgramInvariance, PTL

(***************************************************************************)
(* Whatever a test reports either leaks, or comes from where more than     *)
(* CallStackThreshold of the objects were allocated that the grids hold    *)
(* right then: for any sizes, thresholds and paths of the points, a false  *)
(* report takes that many points of one sector at once.                    *)
(***************************************************************************)
HeldFrom(i, stack) ==
    {block \in Held : /\ SizeToIndex(address_map[block].size) = i
                      /\ address_map[block].call_stack = stack}

ReportedStacksLeakOrAreHeld ==
    [][num_tests' # num_tests =>
        \A r \in reports' :
            \/ \E n \in LeakingRoot : r = <<SizeToIndex(RootSize[n]), kStack(n)>>
            \/ Cardinality(HeldFrom(r[1], r[2])) > CallStackThreshold]_testVars

THEOREM ReportedStacksAlwaysLeakOrAreHeld ==
    ASSUME ~AddrMayRepeat PROVE ProgramSpec => ReportedStacksLeakOrAreHeld
<1>1. ASSUME ProgramInv, ReportInv, [Next]_vars, num_tests' # num_tests, NEW r \in reports'
      PROVE  \/ \E n \in LeakingRoot : r = <<SizeToIndex(RootSize[n]), kStack(n)>>
             \/ Cardinality(HeldFrom(r[1], r[2])) > CallStackThreshold
  <2>1. TestForLeaks
      BY <1>1 DEF Next, vars, RecordAlloc, RecordFree
  <2>2. /\ r[1] \in DOMAIN stack_tables /\ r[2] \in Stack
        /\ NetOf(stack_tables[r[1]], r[2]) > CallStackThreshold
      BY <1>1, <2>1, ReportedStacks
  <2>3. Cardinality(LiveFrom(r[1], r[2])) > CallStackThreshold
      BY <1>1, <2>2 DEF ReportInv, LiveInv, TablesCount, Counts
  <2>4. r = <<r[1], r[2]>>
      BY <1>1, <2>1 DEF TestForLeaks
  <2>5. CASE LiveFrom(r[1], r[2]) \subseteq Held
    <3>1. \A block \in Held : block \in DOMAIN address_map
        BY <1>1 DEF ProgramInv, ProgramTypeOK, PointsAreLive, GridsAreLive, Held, HeldBy
    <3>2. LiveFrom(r[1], r[2]) = HeldFrom(r[1], r[2])
        BY <2>5, <3>1 DEF LiveFrom, LiveIn, HeldFrom
    <3> QED BY <2>3, <3>2
  <2>6. ASSUME NEW block \in LiveFrom(r[1], r[2]), block \notin Held
        PROVE  \E n \in LeakingRoot : r = <<SizeToIndex(RootSize[n]), kStack(n)>>
    <3>1. /\ block \in DOMAIN address_map /\ SizeToIndex(address_map[block].size) = r[1]
          /\ address_map[block].call_stack = r[2]
        BY DEF LiveFrom, LiveIn
    <3>2. PICK n \in LeakingRoot : IsFrom(address_map, block, n)
        BY <1>1, <2>6, <3>1 DEF ProgramInv, ProgramTypeOK, LostBlocksAreLeaks
    <3>3. SizeAt(n) = RootSize[n]
        BY DEF LeakingRoot, SizeAt
    <3>4. r[2] # NoStack
        BY <2>2, DetectorAssumption
    <3>5. SizeToIndex(RootSize[n]) = r[1] /\ kStack(n) = r[2]
        BY <3>1, <3>2, <3>3, <3>4 DEF IsFrom
    <3> QED BY <2>4, <3>5
  <2> QED BY <2>5, <2>6
<1>2. ProgramInv /\ ReportInv /\ [ProgramNext]_testVars =>
         (num_tests' # num_tests =>
             \A r \in reports' :
                 \/ \E n \in LeakingRoot : r = <<SizeToIndex(RootSize[n]), kStack(n)>>
                 \/ Cardinality(HeldFrom(r[1], r[2])) > CallStackThreshold)
    BY <1>1, NextProgramInv
<1>3. ProgramSpec => []ReportInv
    BY ProgramUsesDetector, ReportInvariance, PTL
<1> QED BY <1>2, <1>3, ProgramInvariance, PTL DEF ProgramSpec, ReportedStacksLeakOrAreHeld
=============================================================================
