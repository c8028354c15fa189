---------------------------- MODULE LeakDetector ----------------------------
(***************************************************************************)
(* Namespace leak_detector (leak_detector.cc): the one detector, the hooks *)
(* that report allocations and frees to it, and its lifecycle; with the    *)
(* registry of hooks (hooks.cc) and the custom allocator's notion of being *)
(* initialized (custom_allocator.cc).                                      *)
(*                                                                         *)
(* The program has one thread, and the lock is an empty class in this      *)
(* build (spin_lock_wrapper.cc): a hook runs to its end once it is called. *)
(* The test for leaks that ends NewHook is a step of its own here, which   *)
(* `in_new_hook' makes the only possible one.                              *)
(***************************************************************************)
EXTENDS LeakDetectorImpl

CONSTANTS
    Null,               \* the null pointer
    HashByte,           \* Addr -> 0..255, what PointerToHash returns
    SamplingFactor,     \* g_sampling_factor
    DumpInterval,       \* g_dump_interval_bytes
    StackDepth,         \* g_stack_depth
    TraceRoom,          \* the frames stack_trace_ has room for (32 in hooks.cc)
    Trace,              \* the stack traces of callers: sequences of code addresses
    CallStackOf         \* the call stack object of a nonempty trace

(* MallocHook::SetCallerStackTrace copies a trace to stack_trace_ without a   *)
(* look at its depth: past the room of stack_trace_ the behaviour is undefined. *)
FitsStackTrace(depth) == depth <= TraceRoom

(* MallocHook::GetCallerStackTrace: the innermost StackDepth frames. *)
GetCallerStackTrace(trace) ==
    SubSeq(trace, 1, IF Len(trace) < StackDepth THEN Len(trace) ELSE StackDepth)

ASSUME LifecycleAssumption ==
    /\ Null \in Addr
    /\ HashByte \in [Addr -> 0..255]
    /\ SamplingFactor \in Int
    /\ DumpInterval \in Nat
    /\ StackDepth \in Nat
    /\ TraceRoom \in Nat
    /\ \A trace \in Trace :
          GetCallerStackTrace(trace) # <<>> => CallStackOf[GetCallerStackTrace(trace)] \in Stack

VARIABLES
    allocator,              \* CustomAllocator::IsInitialized
    leak_detector,          \* whether g_leak_detector is set
    hooks,                  \* whether NewHook and DeleteHook are registered
    total_alloc_size,       \* g_total_alloc_size
    last_alloc_dump_size,   \* g_last_alloc_dump_size
    in_new_hook,            \* whether NewHook has a test for leaks ahead
    last_record_size,       \* history: g_total_alloc_size when an allocation was last recorded
    blocks,                 \* what the blocks in use of g_arena hold
    heap                    \* history: address in use -> whether its allocation was hooked

implVars == vars

lifecycleVars == <<allocator, leak_detector, hooks>>

hookVars == <<total_alloc_size, last_alloc_dump_size, in_new_hook, last_record_size>>

allVars == <<vars, lifecycleVars, hookVars, blocks, heap>>

(* Until the detector is constructed, the variables of LeakDetectorImpl have no meaning. *)
LifecycleInit ==
    /\ Init
    /\ allocator = FALSE /\ leak_detector = FALSE /\ hooks = FALSE
    /\ total_alloc_size = 0 /\ last_alloc_dump_size = 0 /\ last_record_size = 0
    /\ in_new_hook = FALSE
    /\ blocks = {}
    /\ heap = [a \in {} |-> FALSE]

-----------------------------------------------------------------------------
(***************************************************************************)
(* The blocks the detector takes from the custom allocator, each named for *)
(* what it holds: the lock and the detector; a call stack table and a node *)
(* of its hash table for every entry; a CallStack object and the array of  *)
(* its frames; a node of the address map.  (What the analyzers and the     *)
(* reports hold is left out.)                                              *)
(***************************************************************************)
OwnBlocks == {<<"lock">>, <<"detector">>}

EntryBlocks(i, stacks) == {<<"entry", i, c>> : c \in stacks}

CallStackBlocks(stacks) == {<<"call stack", c>> : c \in stacks} \union {<<"frames", c>> : c \in stacks}

AddressBlocks(addrs) == {<<"address", a>> : a \in addrs}

TableBlocks(indices) == {<<"table", i>> : i \in indices}

(* What RecordAlloc and RecordFree take and give back; a block in use is not taken again. *)
BlocksOfAlloc(ptr, size, stack) ==
    AddressBlocks({ptr})
        \union IF stack = NoStack THEN {}
               ELSE CallStackBlocks({stack}) \union EntryBlocks(SizeToIndex(size), {stack})

BlocksOfFree(ptr) ==
    LET i == SizeToIndex(address_map[ptr].size)
        c == address_map[ptr].call_stack
        erased == c # NoStack /\ i \in DOMAIN stack_tables /\ NetOf(stack_tables[i], c) = 1
    IN  AddressBlocks({ptr}) \union (IF erased THEN EntryBlocks(i, {c}) ELSE {})

TablesInUse == {i \in DOMAIN stack_tables : ~IsEmpty(stack_tables[i])} \* Faulty variant of the next definition

TablesToFree == DOMAIN stack_tables

(* ~LeakDetectorImpl, and the destructors of its members. *)
BlocksOfDetector ==
    TableBlocks(TablesToFree)
        \union (UNION {EntryBlocks(i, DOMAIN stack_tables[i].entry_map) : i \in TablesToFree})
        \union CallStackBlocks(call_stacks)
        \union AddressBlocks(DOMAIN address_map)

-----------------------------------------------------------------------------
(***************************************************************************)
(* Initialize.  An allocator that was initialized before, which it stays   *)
(* after Shutdown, makes it give up, and so does a sampling factor of 0.   *)
(***************************************************************************)
Initialize ==
    /\ ~in_new_hook
    /\ IF SamplingFactor >= 1 /\ ~leak_detector /\ ~allocator
       THEN /\ allocator' = TRUE /\ leak_detector' = TRUE /\ hooks' = TRUE
            /\ blocks' = OwnBlocks
       ELSE UNCHANGED <<lifecycleVars, blocks>>
    /\ UNCHANGED <<implVars, hookVars, heap>>

(* CustomAllocator::Shutdown deletes its arena but keeps the pointer to it. *)
AllocatorForgotten == FALSE \* Faulty variant of the next definition

AllocatorAfterShutdown == allocator

(***************************************************************************)
(* Shutdown, with the destructor of LeakDetectorImpl, which frees the      *)
(* tables, the maps and the call stacks.                                   *)
(***************************************************************************)
DetectorDestroyed ==
    /\ address_map' = [a \in {} |-> 0]
    /\ size_entries' = [i \in SizeIndex |-> [num_allocs |-> 0, num_frees |-> 0]]
    /\ stack_tables' = [i \in {} |-> 0]
    /\ size_leak_analyzer' = NewAnalyzer(SizeThreshold)
    /\ call_stacks' = {}
    /\ UNCHANGED <<stats, reports, num_tests>>

Shutdown ==
    /\ ~in_new_hook
    /\ IF leak_detector
       THEN /\ hooks' = FALSE
            /\ leak_detector' = FALSE
            /\ allocator' = AllocatorAfterShutdown
            /\ DetectorDestroyed
            /\ blocks' = blocks \ (BlocksOfDetector \union OwnBlocks)
       ELSE UNCHANGED <<implVars, lifecycleVars, blocks>>
    /\ UNCHANGED <<hookVars, heap>>

-----------------------------------------------------------------------------
ShouldSample(ptr) == HashByte[ptr] < SamplingFactor

EveryPointer(ptr) == ptr # Null /\ leak_detector \* Faulty variant of the next definition

(* Whether NewHook passes a pointer on to the detector, and whether DeleteHook does. *)
RecordsAlloc(ptr) == ShouldSample(ptr) /\ ptr # Null /\ leak_detector

RecordsFree(ptr) == ShouldSample(ptr) /\ ptr # Null /\ leak_detector

(* ShouldGetStackTraceForSize: only classes with a table need a call stack. *)
CallStackFor(size, trace) ==
    IF SizeToIndex(size) \in DOMAIN stack_tables /\ GetCallerStackTrace(trace) # <<>>
    THEN CallStackOf[GetCallerStackTrace(trace)]
    ELSE NoStack

(***************************************************************************)
(* NewHook.  All bytes count towards the next test, but only the recording *)
(* of a sampled allocation looks whether it is time for it.                *)
(***************************************************************************)
NewHook(ptr, size, trace) ==
    /\ total_alloc_size' = total_alloc_size + size
    /\ IF RecordsAlloc(ptr)
       THEN /\ RecordAlloc(ptr, size, CallStackFor(size, trace))
            /\ blocks' = blocks \union BlocksOfAlloc(ptr, size, CallStackFor(size, trace))
            /\ in_new_hook' = TRUE
            /\ last_record_size' = total_alloc_size'
       ELSE UNCHANGED <<implVars, blocks, in_new_hook, last_record_size>>
    /\ UNCHANGED <<lifecycleVars, last_alloc_dump_size>>

TestIsDueFromStart == total_alloc_size > DumpInterval \* Faulty variant of the next definition

TestIsDue == total_alloc_size > last_alloc_dump_size + DumpInterval

MaybeDumpStatsAndCheckForLeaks ==
    /\ in_new_hook
    /\ in_new_hook' = FALSE
    /\ IF TestIsDue
       THEN /\ last_alloc_dump_size' = total_alloc_size
            /\ TestForLeaks
            /\ blocks' = blocks \union TableBlocks(DOMAIN stack_tables')
       ELSE UNCHANGED <<implVars, last_alloc_dump_size, blocks>>
    /\ UNCHANGED <<lifecycleVars, total_alloc_size, last_record_size, heap>>

DeleteHook(ptr) ==
    /\ IF RecordsFree(ptr) /\ ptr \in DOMAIN address_map
       THEN RecordFree(ptr) /\ blocks' = blocks \ BlocksOfFree(ptr)
       ELSE UNCHANGED <<implVars, blocks>>
    /\ UNCHANGED <<lifecycleVars, hookVars>>

(***************************************************************************)
(* MallocHook::InvokeNewHook and InvokeDeleteHook: call the hook, if one   *)
(* is registered.                                                          *)
(***************************************************************************)
InvokeNewHook(ptr, size, trace) ==
    /\ ~in_new_hook
    /\ IF hooks
       THEN NewHook(ptr, size, trace)
       ELSE UNCHANGED <<implVars, lifecycleVars, hookVars, blocks>>
    /\ heap' = [a \in DOMAIN heap \union {ptr} |->
                   IF a \in DOMAIN heap THEN heap[a] ELSE hooks]

InvokeDeleteHook(ptr) ==
    /\ ~in_new_hook
    /\ IF hooks
       THEN DeleteHook(ptr)
       ELSE UNCHANGED <<implVars, lifecycleVars, hookVars, blocks>>
    /\ heap' = [a \in DOMAIN heap \ {ptr} |-> heap[a]]
=============================================================================
