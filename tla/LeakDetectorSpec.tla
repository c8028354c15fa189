-------------------------- MODULE LeakDetectorSpec --------------------------
(***************************************************************************)
(* A client of namespace leak_detector that starts and stops the detector  *)
(* as it likes, and allocates and frees memory all the while.  It frees an *)
(* address before it is allocated again, and may free the null pointer.    *)
(* The stack traces it sets fit the room there is for them (hooks.cc,      *)
(* line 13).                                                               *)
(***************************************************************************)
EXTENDS LeakDetector

CONSTANT MaxTotalSize   \* bound: bytes allocated while the hooks are registered

ASSUME ClientAssumption == MaxTotalSize \in Nat

ClientNext ==
    \/ Initialize
    \/ Shutdown
    \/ \E ptr \in Addr \ DOMAIN heap, size \in Size, trace \in Trace :
          /\ total_alloc_size + size <= MaxTotalSize
          /\ FitsStackTrace(Len(trace))
          /\ InvokeNewHook(ptr, size, trace)
    \/ \E ptr \in DOMAIN heap \union {Null} : InvokeDeleteHook(ptr)
    \/ MaybeDumpStatsAndCheckForLeaks

ClientSpec == LifecycleInit /\ [][ClientNext]_allVars

-----------------------------------------------------------------------------
(***************************************************************************)
(* The two hooks agree on what is sampled: while there is a detector, its  *)
(* address map holds exactly the sampled addresses in use that were        *)
(* allocated since its hooks were registered, whatever was allocated       *)
(* before or freed in between (NewHook and DeleteHook, leak_detector.cc,   *)
(* lines 130 to 160).                                                      *)
(***************************************************************************)
MapIsSampledHeap ==
    leak_detector =>
        DOMAIN address_map = {a \in DOMAIN heap : heap[a] /\ ShouldSample(a) /\ a # Null}

(***************************************************************************)
(* Tests for leaks are more than DumpInterval bytes apart, counted over    *)
(* all allocations, sampled or not.  Nor is one put off beyond the first   *)
(* recorded allocation it is due at: once that has returned, the bytes up  *)
(* to it are at most DumpInterval more than at the last test.  Allocations *)
(* that are not sampled count towards a test but never make one            *)
(* (leak_detector.cc, lines 105 and 130 to 144).                           *)
(***************************************************************************)
TestsKeepTheirInterval ==
    /\ num_tests * (DumpInterval + 1) <= last_alloc_dump_size
    /\ last_alloc_dump_size <= last_record_size
    /\ last_record_size <= total_alloc_size
    /\ ~in_new_hook => last_record_size <= last_alloc_dump_size + DumpInterval

(***************************************************************************)
(* Shutdown leaves no block behind in the arena, which it could not delete *)
(* otherwise: "Memory leak in LeakDetector, allocated objects remain."     *)
(* (leak_detector.cc, line 278), whatever was recorded, freed and found    *)
(* suspect before.                                                         *)
(***************************************************************************)
NothingIsLeftBehind == ~leak_detector => blocks = {}

(***************************************************************************)
(* A detector that saw an allocation and was shut down stays off, and so   *)
(* do its hooks: "Custom allocator can only be initialized once!"          *)
(* (leak_detector.cc, line 230).                                           *)
(***************************************************************************)
ShutdownIsFinal ==
    [][total_alloc_size > 0 /\ ~leak_detector => ~leak_detector' /\ ~hooks']_allVars
=============================================================================
