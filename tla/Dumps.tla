------------------------------- MODULE Dumps -------------------------------
(***************************************************************************)
(* The texts that CallStackTable::Dump, LeakAnalyzer::Dump and the reports *)
(* write into a buffer, as far as their lengths go: how much of the buffer *)
(* is left, by the program's reckoning, and how far it was written to.     *)
(*                                                                         *)
(* snprintf writes no more than it is allowed, but returns the length that *)
(* it would have liked to write; the program subtracts that length from an *)
(* unsigned size, which after a cut text leaves more than there ever was.  *)
(***************************************************************************)
EXTENDS CallStackTable

CONSTANTS
    BufferSize,     \* sizeof(buf) in LeakDetectorImpl::TestForLeaks
    PointerLen,     \* length of what "%p" prints
    FrameLen,       \* length of an address in a report
    Depth,          \* frames of the deepest call stack
    SizeModulus     \* modulus of size_t

ASSUME BufferAssumption ==
    /\ SizeModulus \in Nat /\ BufferSize \in 1..(SizeModulus - 1)
    /\ {PointerLen, FrameLen, Depth} \subseteq Nat

(* An untouched buffer; written is the number of bytes up to the last one written. *)
EmptyBuffer == [left |-> BufferSize, at |-> 0, written |-> 0]

(* snprintf of a text, and the two statements that follow it. *)
Snprintf(out, len) ==
    LET last == out.at + (IF len < out.left THEN len + 1 ELSE out.left)
    IN  [left    |-> (out.left - len) % SizeModulus,
         at      |-> out.at + len,
         written |-> IF last > out.written THEN last ELSE out.written]

IfRoom(out, len) == IF out.left > 1 THEN Snprintf(out, len) ELSE out

(* The lengths of a number, and of what "%10u" or "%10s" makes of a text. *)
NumLen(n) == 1 + Cardinality({d \in 1..9 : n >= 10^d})

Padded(len) == IF len < 10 THEN 10 ELSE len

TypeNameLen == 10   \* "call stack"

(* The line of a ranked entry; a change is printed for a value ranked last time. *)
EntryLen(analyzer, entry) ==
    Padded(PointerLen) + 2 + Padded(NumLen(entry.count)) + 1
        + (IF WasRanked(analyzer.prev_ranked_entries, entry.value) THEN 12 ELSE 0) + 1

DumpRanking(analyzer, out) ==
    LET entries == analyzer.ranked_entries
    IN  IF entries = <<>> THEN out
        ELSE FoldLeft(LAMBDA o, entry : IF entry.count = 0 THEN o
                                        ELSE IfRoom(o, EntryLen(analyzer, entry)),
                      IfRoom(out, 10 + NumLen(Len(entries)) + 1 + TypeNameLen + 8),
                      entries)

(* The loop over the suspects does not look at what is left. *)
DumpSuspects(analyzer, out) ==
    LET titled == IfRoom(out, 10 + TypeNameLen + 3)
        listed == FoldLeft(LAMBDA o, k : Snprintf(o, PointerLen + (IF k > 1 THEN 2 ELSE 0)),
                           titled,
                           [k \in 1..Cardinality(analyzer.suspected_leaks) |-> k])
    IN  IF analyzer.suspected_leaks = {} THEN out
        ELSE IfRoom(IF titled.left > 1 THEN listed ELSE titled, 1)

(* CallStackTable::Dump of a table that is not empty. *)
DumpTable(table) ==
    LET counts == Snprintf(EmptyBuffer,
                           29 + NumLen(table.num_allocs) + 1
                         + 23 + NumLen(table.num_frees) + 1
                         + 27 + NumLen(table.num_allocs - table.num_frees) + 1
                         + 39 + NumLen(Cardinality(DOMAIN table.entry_map)) + 1)
    IN  IF counts.left > 1
        THEN DumpSuspects(table.leak_analyzer, DumpRanking(table.leak_analyzer, counts))
        ELSE counts

(* The text of a report: a line for every frame, none of which looks at what is left. *)
ReportText(size, depth) ==
    FoldLeft(LAMBDA out, frame : Snprintf(out, 1 + FrameLen + 1),
             Snprintf(EmptyBuffer, 30 + NumLen(size) + 2 + PointerLen + 2),
             [frame \in 1..depth |-> frame])
=============================================================================
