------------------------------- MODULE Replay -------------------------------
(***************************************************************************)
(* The program (main.cc): it starts the detector, replays a recording of   *)
(* allocations and frees from a file into the hooks, and shuts the         *)
(* detector down.  The file is chosen while it is read, record by record.  *)
(*                                                                         *)
(* Every turn of the loop reads into the same union.  What a read at the   *)
(* end of the file does not deliver keeps its value there from the record  *)
(* before; at first the union holds whatever was in memory.  The loop only *)
(* learns of the end from a read that failed.                              *)
(***************************************************************************)
EXTENDS LeakDetector

CONSTANTS
    Depth,              \* the depths of records, and of what was in memory at first
    MaxRecords          \* bound: records in the file

ASSUME ReplayAssumption ==
    /\ MaxRecords \in Nat
    /\ Depth \subseteq Nat
    /\ {d \in Depth : FitsStackTrace(d)} \subseteq {Len(t) : t \in Trace}

VARIABLES
    pc,                 \* "start", "reading", "finished", "done" or "lost"
    entry,              \* the union of code, AllocEntry and FreeEntry
    eof,                \* feof(fp)
    num_records,        \* records read
    turn,               \* history: alternates with the turns of the loop
    num_repeats,        \* history: how many of them allocate an address in use
    alloc_read,         \* history: whether an allocation was read to its end
    deep_read           \* history: whether one was read that is too deep for stack_trace_

loopVars == <<pc, entry, eof, num_records, turn, num_repeats, alloc_read, deep_read>>

replayVars == <<allVars, loopVars>>

(* kAllocCode and kFreeCode, and any other code. *)
Code == {"alloc", "free", "unknown"}

AnyEntry == [code : Code, ptr : Addr, size : Size \union {0}, depth : Depth]

ReplayInit ==
    /\ LifecycleInit
    /\ pc = "start"
    /\ entry \in AnyEntry
    /\ eof = FALSE
    /\ num_records = 0 /\ num_repeats = 0 /\ turn = 0
    /\ alloc_read = FALSE /\ deep_read = FALSE

-----------------------------------------------------------------------------
Start ==
    /\ pc = "start" /\ pc' = "reading"
    /\ Initialize
    /\ UNCHANGED <<entry, eof, num_records, turn, num_repeats, alloc_read, deep_read>>

(***************************************************************************)
(* The rest of a turn of the loop, once the entry has been read: call the  *)
(* hook it is for.  The frames of the trace are read into a new array of   *)
(* the entry's depth, so that after the end of the file they may be any.   *)
(***************************************************************************)
IsAllocation(e) == e.code = "alloc" /\ e.ptr # Null /\ e.size # 0

DeliverAlloc(e) ==
    /\ e.code = "alloc"
    /\ IF IsAllocation(e)
       THEN \E trace \in Trace : Len(trace) = e.depth /\ InvokeNewHook(e.ptr, e.size, trace)
       ELSE UNCHANGED allVars
    /\ UNCHANGED pc

(***************************************************************************)
(* Nobody looks at the depth on its way from the file to stack_trace_.     *)
(* One that does not fit there may do no harm, and one of a size there is  *)
(* no array for ends the program; of anything else that may come of it no  *)
(* more is said than that the program is lost.                             *)
(***************************************************************************)
DeliverTooDeep(e) ==
    /\ e.code = "alloc" /\ ~FitsStackTrace(e.depth)
    /\ pc' = "lost"
    /\ UNCHANGED allVars

DeliverFree(e) ==
    /\ e.code = "free"
    /\ InvokeDeleteHook(e.ptr)
    /\ UNCHANGED pc

Quit(e) ==
    /\ e.code = "unknown"
    /\ pc' = "finished"
    /\ UNCHANGED allVars

Deliver(e) == DeliverAlloc(e) \/ DeliverTooDeep(e) \/ DeliverFree(e) \/ Quit(e)

(* The loop turns while no read has failed, and no hook is running. *)
Turns ==
    /\ pc = "reading" /\ ~eof /\ ~in_new_hook
    /\ turn' = 1 - turn

(***************************************************************************)
(* A complete record, not always of an allocation or a free that is        *)
(* possible.  A free has no size and depth, the union keeps those.         *)
(***************************************************************************)
ReadRecord ==
    /\ Turns /\ num_records < MaxRecords
    /\ \E e \in AnyEntry :
          /\ e.code = "free" => e.size = entry.size /\ e.depth = entry.depth
          /\ e.code = "unknown" => e = [entry EXCEPT !.code = "unknown"]
          /\ entry' = e
          /\ Deliver(e)
          /\ num_repeats' = IF IsAllocation(e) /\ e.ptr \in DOMAIN heap
                            THEN num_repeats + 1 ELSE num_repeats
          /\ alloc_read' = (alloc_read \/ e.code = "alloc")
          /\ deep_read' = (deep_read \/ (e.code = "alloc" /\ ~FitsStackTrace(e.depth)))
    /\ eof' = eof
    /\ num_records' = num_records + 1

NotNoticed == FALSE \* Faulty variant of the next definition

(* A read that reaches the end of the file makes feof true. *)
EndNoticed == TRUE

(***************************************************************************)
(* The file ends after a record, or in the code of one, which then is that *)
(* of the record before or no code at all.  The record before is delivered *)
(* another time.                                                           *)
(***************************************************************************)
ReadEnd ==
    /\ Turns
    /\ \E code \in {entry.code, "unknown"} :
          /\ entry' = [entry EXCEPT !.code = code]
          /\ Deliver([entry EXCEPT !.code = code])
    /\ eof' = EndNoticed
    /\ UNCHANGED <<num_records, num_repeats, alloc_read, deep_read>>

(***************************************************************************)
(* The file ends in the fields of a record (or in its stack trace): they   *)
(* are a mixture of what was read and what was there.                      *)
(***************************************************************************)
ReadTruncatedRecord ==
    /\ Turns /\ num_records < MaxRecords
    /\ \E e \in AnyEntry :
          /\ e.code # "unknown"
          /\ e.code = "free" => e.size = entry.size /\ e.depth = entry.depth
          /\ entry' = e
          /\ Deliver(e)
          /\ deep_read' = (deep_read \/ (e.depth # entry.depth /\ ~FitsStackTrace(e.depth)))
    /\ eof' = EndNoticed
    /\ num_records' = num_records + 1
    /\ UNCHANGED <<num_repeats, alloc_read>>

RunHook == MaybeDumpStatsAndCheckForLeaks /\ UNCHANGED loopVars

Finish ==
    /\ pc = "finished" \/ (pc = "reading" /\ eof /\ ~in_new_hook)
    /\ pc' = "done"
    /\ Shutdown
    /\ UNCHANGED <<entry, eof, num_records, turn, num_repeats, alloc_read, deep_read>>

Main == Start \/ ReadRecord \/ ReadEnd \/ ReadTruncatedRecord \/ Finish

ReplayNext == Main \/ RunHook

(***************************************************************************)
(* The program has one thread, which the scheduler does not leave waiting  *)
(* for ever: the loop goes on, and a hook that was called returns.         *)
(***************************************************************************)
ReplaySpec ==
    /\ ReplayInit /\ [][ReplayNext]_replayVars
    /\ WF_replayVars(Main)
    /\ WF_in_new_hook(in_new_hook /\ in_new_hook' = FALSE)

-----------------------------------------------------------------------------
(***************************************************************************)
(* The loop ends, though it has no other test for the end of the file than *)
(* feof (main.cc, line 54), and at its end the detector is gone, the hooks *)
(* are no longer registered, and the arena is empty again.  So it is for   *)
(* every file all of whose allocations fit stack_trace_ (hooks.cc,         *)
(* line 13) and whose first one is complete, wherever it ends after that;  *)
(* only another file can leave the program lost (hooks.cc, line 41).       *)
(***************************************************************************)
ReplayEnds ==
    <>(\/ pc = "done" /\ ~leak_detector /\ ~hooks /\ blocks = {}
       \/ pc = "lost" /\ (deep_read \/ ~alloc_read))

(***************************************************************************)
(* Whatever the recording says, a record counts one allocation too many    *)
(* only if its address was in use; and the one that is delivered twice at  *)
(* the end of the file makes one more at most.                             *)
(***************************************************************************)
NetTotal == SumFunction([i \in SizeIndex |-> NetAllocs(i)])

ExtraCounts == NetTotal - Cardinality(DOMAIN address_map)

RepeatsCountOnce == ExtraCounts \in 0..(num_repeats + IF eof THEN 1 ELSE 0)
=============================================================================
