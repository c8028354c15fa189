----------------------------- MODULE RankedList -----------------------------
(***************************************************************************)
(* The operations of class RankedList (ranked_list.h, ranked_list.cc): a   *)
(* list of value-count entries, kept in descending order of count and cut  *)
(* to a maximum size.  The list is the sequence of its entries.            *)
(*                                                                         *)
(* Ranking is the reference: what a list is meant to hold.  The machine in *)
(* CallStackTableSpec compares the two; modules that only need the outcome *)
(* of a loop of Add calls use Ranking.                                     *)
(***************************************************************************)
EXTENDS Integers, Sequences, FiniteSets, SequencesExt

Entry(value, count) == [value |-> value, count |-> count]

(* Faulty variant: std::lower_bound, which puts an entry before its equals. *)
LowerBound(entries, count) ==
    CHOOSE at \in 1..(Len(entries) + 1) :
        /\ \A i \in 1..(at - 1) : entries[i].count > count
        /\ at \in DOMAIN entries => entries[at].count <= count

(***************************************************************************)
(* std::upper_bound with Entry::operator<, which orders by descending      *)
(* count: the first position whose count is below the new one, or one past *)
(* the end.                                                                *)
(***************************************************************************)
UpperBound(entries, count) ==
    CHOOSE at \in 1..(Len(entries) + 1) :
        /\ \A i \in 1..(at - 1) : entries[i].count >= count
        /\ at \in DOMAIN entries => entries[at].count < count

(* Faulty variant: a full list goes on growing. *)
AddWithoutLimit(entries, max_size, entry) ==
    InsertAt(entries, UpperBound(entries, entry.count), entry)

(***************************************************************************)
(* RankedList::Add.  A full list ignores an entry that would go last.      *)
(***************************************************************************)
Add(entries, max_size, entry) ==
    LET at == UpperBound(entries, entry.count)
    IN  IF Len(entries) = max_size /\ at = Len(entries) + 1
        THEN entries
        ELSE LET grown == InsertAt(entries, at, entry)
             IN  IF Len(grown) > max_size THEN SubSeq(grown, 1, max_size) ELSE grown

-----------------------------------------------------------------------------
(***************************************************************************)
(* The reference.  `offered' is what was passed to Add, as a function from *)
(* a finite set of integers (the order of the calls) to entries.  An entry *)
(* outranks another when its count is larger, or when it is equal and was  *)
(* offered first; the list holds the max_size entries of the lowest rank.  *)
(***************************************************************************)
Outranks(offered, i, j) ==
    \/ offered[i].count > offered[j].count
    \/ offered[i].count = offered[j].count /\ i < j

RankOf(offered, j) == Cardinality({i \in DOMAIN offered : Outranks(offered, i, j)}) + 1

RankingLen(offered, max_size) ==
    IF Cardinality(DOMAIN offered) > max_size THEN max_size ELSE Cardinality(DOMAIN offered)

Ranking(offered, max_size) ==
    [k \in 1..RankingLen(offered, max_size) |->
        offered[CHOOSE j \in DOMAIN offered : RankOf(offered, j) = k]]
=============================================================================
