------------------------- MODULE CallStackTableSpec -------------------------
(***************************************************************************)
(* One CallStackTable, with calls of its operations in any order: the      *)
(* callers may remove a call stack the table never saw.                    *)
(***************************************************************************)
EXTENDS Dumps

CONSTANTS
    Stack,          \* the addresses of the call stack objects
    AllocSize,      \* the size class that the table is for
    ScoreThreshold, \* the constructor argument
    MaxAdds,        \* bound: calls of Add
    MaxFrees,       \* bound: effective calls of Remove
    MaxTests        \* bound: calls of TestForLeaks

ASSUME TableAssumption ==
    /\ Stack \subseteq Nat /\ IsFiniteSet(Stack)
    /\ AllocSize \in Nat
    /\ ScoreThreshold \in Nat
    /\ MaxAdds \in Nat /\ MaxFrees \in Nat /\ MaxTests \in Nat

VARIABLES table, num_tests

vars == <<table, num_tests>>

Init == table = NewTable(ScoreThreshold) /\ num_tests = 0

AddStack(call_stack) ==
    /\ table.num_allocs < MaxAdds
    /\ table' = AddToTable(table, call_stack)
    /\ UNCHANGED num_tests

RemoveStack(call_stack) ==
    /\ table.num_frees < MaxFrees
    /\ table' = RemoveFromTable(table, call_stack)
    /\ UNCHANGED num_tests

(* The entries in the orders that the hash table may iterate over them. *)
Offers ==
    LET stacks == {c \in DOMAIN table.entry_map : table.entry_map[c] > 0}
    IN  {[i \in DOMAIN order |-> Entry(order[i], table.entry_map[order[i]])] :
            order \in Bijection(1..Cardinality(stacks), stacks)}

(* The loop of TestForLeaks that builds the ranked list. *)
AddAll(offered) ==
    FoldLeft(LAMBDA entries, entry : Add(entries, RankingSize, entry), <<>>, offered)

TestForLeaks ==
    /\ num_tests < MaxTests
    /\ \E offered \in Offers : table' = Sampled(table, AddAll(offered))
    /\ num_tests' = num_tests + 1

Next == TestForLeaks \/ \E c \in Stack : AddStack(c) \/ RemoveStack(c)

Spec == Init /\ [][Next]_vars

-----------------------------------------------------------------------------
(***************************************************************************)
(* A list built by Add holds exactly the top RankingSize of the entries    *)
(* offered to it, ties in the order of the calls, however many of them     *)
(* were refused or pushed out on the way: an entry dropped early is never  *)
(* missed later (ranked_list.cc, lines 18 to 34).                          *)
(***************************************************************************)
HoldsTheTop == \A offered \in Offers : AddAll(offered) = Ranking(offered, RankingSize)

(***************************************************************************)
(* The entries account for every allocation not yet freed, and none is     *)
(* kept at zero, so empty() tells whether anything is held (Add and        *)
(* Remove, lines 43 to 67).                                                *)
(***************************************************************************)
EntriesAddUp ==
    /\ table.num_allocs - table.num_frees = SumFunction(table.entry_map)
    /\ \A c \in DOMAIN table.entry_map : table.entry_map[c] > 0

(***************************************************************************)
(* A test only suspects call stacks that hold more than ScoreThreshold     *)
(* allocations: each of the tests in a row saw their number grow.          *)
(***************************************************************************)
SuspectsHoldMemory ==
    [][num_tests' # num_tests =>
        \A c \in SuspectedStacks(table') : NetOf(table, c) > ScoreThreshold]_vars

(***************************************************************************)
(* As long as every call stack fits the ranking, the iteration order of    *)
(* the hash table does not decide which scores rise (TestForLeaks, lines   *)
(* 99 to 106): the same allocations are always judged alike.               *)
(***************************************************************************)
OrderDoesNotDecide ==
    Cardinality(DOMAIN table.entry_map) <= RankingSize =>
        \A one, other \in RankedLists(table) :
            Sampled(table, one).leak_analyzer.suspected_histogram
                = Sampled(table, other).leak_analyzer.suspected_histogram

(***************************************************************************)
(* The texts about a table, its dump and the report of a suspect, stay in  *)
(* their buffer, with the terminating null, and what the program takes to  *)
(* be left is left: no text was cut, after which the rest would be written *)
(* past the end (LeakAnalyzer::Dump, lines 40 to 122, and TestForLeaks of  *)
(* the detector, lines 246 to 256), for call stacks of every depth that    *)
(* the detector unwinds.  Only the limits on the ranking and on that depth *)
(* see to it.                                                              *)
(***************************************************************************)
DumpFits ==
    \A out \in (IF IsEmpty(table) THEN {} ELSE {DumpTable(table)})
                   \union {ReportText(AllocSize, depth) :
                              c \in table.leak_analyzer.suspected_leaks, depth \in 1..Depth} :
        out.written <= BufferSize /\ out.left \in 1..BufferSize
=============================================================================
