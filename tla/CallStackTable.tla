--------------------------- MODULE CallStackTable ---------------------------
(***************************************************************************)
(* The operations of class CallStackTable (call_stack_table.h, .cc) on a   *)
(* record of its members: the net number of allocations of every call      *)
(* stack that holds some, and a LeakAnalyzer of these numbers.             *)
(***************************************************************************)
EXTENDS LeakAnalyzer

(* The constructor; call_stack_suspicion_threshold is its argument. *)
NewTable(threshold) ==
    [entry_map     |-> [c \in {} |-> 0],
     num_allocs    |-> 0,
     num_frees     |-> 0,
     leak_analyzer |-> NewAnalyzer(threshold)]

IsEmpty(table) == DOMAIN table.entry_map = {}

(* The net allocations of a call stack, absent entries counting as none. *)
NetOf(table, c) == IF c \in DOMAIN table.entry_map THEN table.entry_map[c] ELSE 0

AddToTable(table, call_stack) ==
    [table EXCEPT
        !.entry_map = [c \in DOMAIN table.entry_map \union {call_stack} |->
                          IF c = call_stack THEN NetOf(table, c) + 1 ELSE table.entry_map[c]],
        !.num_allocs = @ + 1]

(* Faulty variant: entries are neither looked up nor erased. *)
RemoveWithoutLookup(table, call_stack) ==
    [table EXCEPT
        !.entry_map = [c \in DOMAIN table.entry_map \union {call_stack} |->
                          IF c = call_stack THEN NetOf(table, c) - 1 ELSE table.entry_map[c]],
        !.num_frees = @ + 1]

(***************************************************************************)
(* Remove ignores a call stack without an entry, and erases an entry that  *)
(* comes down to zero.                                                     *)
(***************************************************************************)
RemoveFromTable(table, call_stack) ==
    LET left == NetOf(table, call_stack) - 1
        remaining == IF left = 0
                     THEN DOMAIN table.entry_map \ {call_stack}
                     ELSE DOMAIN table.entry_map
    IN  IF call_stack \notin DOMAIN table.entry_map THEN table
        ELSE [table EXCEPT
                !.entry_map = [c \in remaining |->
                                  IF c = call_stack THEN left ELSE table.entry_map[c]],
                !.num_frees = @ + 1]

(***************************************************************************)
(* The ranked lists TestForLeaks can build.  It offers the entries in the  *)
(* iteration order of an unordered_map keyed on pointers, which may be any *)
(* order, and a full list keeps what it was offered first among equals.    *)
(***************************************************************************)
RankedLists(table) ==
    LET stacks == {c \in DOMAIN table.entry_map : table.entry_map[c] > 0}
        orders == Bijection(1..Cardinality(stacks), stacks)
    IN  {Ranking([i \in DOMAIN order |-> Entry(order[i], table.entry_map[order[i]])],
                 RankingSize) : order \in orders}

(* TestForLeaks, given the list it built. *)
Sampled(table, ranked_list) ==
    [table EXCEPT !.leak_analyzer = AddSample(@, ranked_list)]

SuspectedStacks(table) == table.leak_analyzer.suspected_leaks
=============================================================================
