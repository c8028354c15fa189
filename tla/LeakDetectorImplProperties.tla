--------------------- MODULE LeakDetectorImplProperties ---------------------
(***************************************************************************)
(* What LeakDetectorImpl is meant to guarantee.                            *)
(***************************************************************************)
EXTENDS LeakDetectorImpl

(* The live allocations of a size class, and those recorded with a call stack. *)
LiveIn(i) == {a \in DOMAIN address_map : SizeToIndex(address_map[a].size) = i}

LiveFrom(i, stack) == {a \in LiveIn(i) : address_map[a].call_stack = stack}

(***************************************************************************)
(* The three views of the heap agree: the counters of a size class differ  *)
(* by the number of its live allocations, and its table counts, for every  *)
(* call stack, exactly the live allocations recorded with that stack,      *)
(* though the table came into being in the middle of their lives           *)
(* (RecordAlloc and RecordFree, lines 125 to 170).  Needs an environment   *)
(* that frees an address before it allocates it again.                     *)
(***************************************************************************)
NetAllocsAreLive == \A i \in SizeIndex : NetAllocs(i) = Cardinality(LiveIn(i))

TablesCountLive ==
    \A i \in DOMAIN stack_tables, stack \in Stack :
        NetOf(stack_tables[i], stack) = Cardinality(LiveFrom(i, stack))

(***************************************************************************)
(* An allocation at an address still in the map, which a missed free or    *)
(* the record that main.cc delivers twice at the end of its input brings   *)
(* about, is counted a second time for good.  Even then nothing counts     *)
(* fewer than the live allocations, so no counter wraps below zero.        *)
(***************************************************************************)
CountsCoverLive ==
    /\ \A i \in SizeIndex : NetAllocs(i) >= Cardinality(LiveIn(i))
    /\ \A i \in DOMAIN stack_tables, stack \in Stack :
          NetOf(stack_tables[i], stack) >= Cardinality(LiveFrom(i, stack))

(***************************************************************************)
(* A pointer to a call stack is only kept where the call stack has an      *)
(* object and the size class has a table: "any other class or function     *)
(* that references a call stack must get it from here" (impl.h, line 103). *)
(***************************************************************************)
ReferencesAreOwned ==
    /\ \A a \in DOMAIN address_map :
          address_map[a].call_stack # NoStack =>
              /\ address_map[a].call_stack \in call_stacks
              /\ SizeToIndex(address_map[a].size) \in DOMAIN stack_tables
    /\ \A i \in DOMAIN stack_tables :
          /\ DOMAIN stack_tables[i].entry_map \subseteq call_stacks
          /\ DOMAIN stack_tables[i].leak_analyzer.suspected_histogram \subseteq call_stacks

(***************************************************************************)
(* A report is no accident: when a test reports a call stack, more than    *)
(* CallStackThreshold allocations made from it are live right then, and    *)
(* its size class has as many and more.  Scores that a table kept while it *)
(* was empty are not reported.                                             *)
(***************************************************************************)
ReportedStacksHoldMemory ==
    [][num_tests' # num_tests =>
        \A r \in reports' : Cardinality(LiveFrom(r[1], r[2])) > CallStackThreshold]_vars

(***************************************************************************)
(* A call stack is only suspected ahead of another one: whatever a test    *)
(* reports, the same size class holds live memory from another call stack  *)
(* too.  (A lone leak of its size is never reported: leak_analyzer.cc,     *)
(* line 128, asks for more than one change to compare.)                    *)
(***************************************************************************)
ReportedStacksHaveCompany ==
    [][num_tests' # num_tests =>
        \A r \in reports' : \E stack \in Stack \ {r[2]} : LiveFrom(r[1], stack) # {}]_vars

(***************************************************************************)
(* Both tiers take their time: a size class is first profiled after        *)
(* SizeThreshold + 1 tests, its table is empty in that test, and it takes  *)
(* CallStackThreshold + 1 more tests of the table for a report.            *)
(***************************************************************************)
ReportsTakeTime ==
    /\ DOMAIN stack_tables # {} => num_tests > SizeThreshold
    /\ reports # {} => num_tests > SizeThreshold + CallStackThreshold + 1

(***************************************************************************)
(* The net allocation size that DumpStats prints follows the live bytes    *)
(* (modulo the width of the counters), from whatever values the two        *)
(* counters started with.                                                  *)
(***************************************************************************)
LiveBytes == SumFunction([a \in DOMAIN address_map |-> address_map[a].size])

NetAllocSize == (stats.alloc_size - stats.free_size) % Word

NetAllocSizeFollowsLiveBytes ==
    [][(NetAllocSize' - NetAllocSize) % Word = (LiveBytes' - LiveBytes) % Word]_vars

(***************************************************************************)
(* Tier 1 as a whole: with every test the size analyzer takes one step of  *)
(* SuspicionRuns, and recording allocations and frees in between does not  *)
(* disturb it.                                                             *)
(***************************************************************************)
SizeScore(size) ==
    LET histogram == size_leak_analyzer.suspected_histogram
    IN  IF size \in DOMAIN histogram THEN histogram[size] ELSE 0

SizeRuns == INSTANCE SuspicionRuns WITH
                Value <- {IndexToSize(i) : i \in SizeIndex},
                ScoreThreshold <- SizeThreshold,
                run <- [size \in {IndexToSize(i) : i \in SizeIndex} |-> SizeScore(size)],
                reported <- size_leak_analyzer.suspected_leaks

SizesImplementSuspicionRuns == SizeRuns!Spec

-----------------------------------------------------------------------------
(***************************************************************************)
(* "The max supported allocation size is (kNumSizeEntries * 4 - 1). Any    *)
(* larger sizes are ignored", says leak_detector_impl.cc, lines 29 to 31:  *)
(* the counters should only be about allocations of the supported sizes.   *)
(***************************************************************************)
LargerSizesAreIgnored ==
    \A i \in SizeIndex :
        NetAllocs(i) =
            Cardinality({a \in LiveIn(i) : address_map[a].size < NumSizeEntries * WordSize})

(***************************************************************************)
(* A call stack counts as a suspect for the "number of consecutive times"  *)
(* it triggers suspicion, says leak_detector_impl.h, line 138: every test  *)
(* should either raise the score of a call stack or end its run.           *)
(***************************************************************************)
StackScore(tables, i, stack) ==
    LET histogram == tables[i].leak_analyzer.suspected_histogram
    IN  IF stack \in DOMAIN histogram THEN histogram[stack] ELSE 0

EveryTestScoresEveryStack ==
    [][num_tests' # num_tests =>
        \A i \in DOMAIN stack_tables, stack \in Stack :
            LET score == StackScore(stack_tables, i, stack)
            IN  StackScore(stack_tables', i, stack) \in {0, score + 1}]_vars
=============================================================================
