---------------------------- MODULE LeakAnalyzer ----------------------------
(***************************************************************************)
(* The operations of class LeakAnalyzer (leak_analyzer.h, .cc) on a record *)
(* of its members.  An analyzer is fed ranked lists of value-count         *)
(* entries, one per test.  It ranks how much the count of each value       *)
(* changed since the previous list, suspects the values ranked above the   *)
(* first steep drop, counts for how many samples in a row each value has   *)
(* been suspected, and reports those at or over a threshold.               *)
(*                                                                         *)
(* Values are naturals: sizes, or the addresses of call stack objects; the *)
(* order of naturals stands for LeakDetectorValueType::operator<.          *)
(***************************************************************************)
EXTENDS RankedList

CONSTANT RankingSize    \* ranking_size_, which is kRankedListSize for every analyzer

ASSUME RankingAssumption == RankingSize \in Nat \ {0}

(* The constructor. *)
NewAnalyzer(score_threshold) ==
    [score_threshold     |-> score_threshold,
     ranked_entries      |-> <<>>,
     prev_ranked_entries |-> <<>>,
     suspected_histogram |-> [value \in {} |-> 0],
     suspected_leaks     |-> {}]

(* Faulty variant: the wrong sign. *)
ScoreDecrease == -1

(* kSuspicionScoreIncrease *)
SuspicionScoreIncrease == 1

-----------------------------------------------------------------------------
(***************************************************************************)
(* GetPreviousCountForValue: whether the previous list has the value, and  *)
(* the count of its first entry there.                                     *)
(***************************************************************************)
WasRanked(prev_entries, value) == \E i \in DOMAIN prev_entries : prev_entries[i].value = value

PreviousCount(prev_entries, value) ==
    LET first == CHOOSE i \in DOMAIN prev_entries :
                    /\ prev_entries[i].value = value
                    /\ \A j \in 1..(i - 1) : prev_entries[j].value # value
    IN  prev_entries[first].count

(* Faulty variant: a value that was not ranked last time counts as grown from zero. *)
DeltasFromZero(prev_entries, entries) ==
    LET previous(value) ==
            IF WasRanked(prev_entries, value) THEN PreviousCount(prev_entries, value) ELSE 0
    IN  Ranking([i \in DOMAIN entries |->
                    Entry(entries[i].value, entries[i].count - previous(entries[i].value))],
                RankingSize)

(***************************************************************************)
(* The ranking of the changes.  A value that was not ranked last time has  *)
(* no change to rank.                                                      *)
(***************************************************************************)
Deltas(prev_entries, entries) ==
    LET tracked == {i \in DOMAIN entries : WasRanked(prev_entries, entries[i].value)}
    IN  Ranking([i \in tracked |->
                    Entry(entries[i].value,
                          entries[i].count - PreviousCount(prev_entries, entries[i].value))],
                RankingSize)

(***************************************************************************)
(* The positions right after a steep drop, and the values suspected this   *)
(* time: those ranked before the first drop, provided something grew.      *)
(***************************************************************************)
IsDropByHalf(entry, next_entry) == entry.count >= next_entry.count * 2 \* Faulty variant

IsDrop(entry, next_entry) == entry.count > next_entry.count * 2

(* Faulty variant: the end of the ranking counts as a drop. *)
DropsAtEnd(deltas) ==
    {k \in 2..(Len(deltas) + 1) : k > Len(deltas) \/ IsDrop(deltas[k - 1], deltas[k])}

Drops(deltas) == {k \in 2..Len(deltas) : IsDrop(deltas[k - 1], deltas[k])}

(* Faulty variants: the value at the drop is suspected too; nothing need grow. *)
SuspectsToTheDrop(deltas) ==
    IF Drops(deltas) # {} /\ deltas[1].count > 0
    THEN {deltas[k].value : k \in {i \in DOMAIN deltas : \A drop \in Drops(deltas) : i <= drop}}
    ELSE {}

SuspectsWithoutGrowth(deltas) ==
    IF Drops(deltas) # {}
    THEN {deltas[k].value : k \in {i \in DOMAIN deltas : \A drop \in Drops(deltas) : i < drop}}
    ELSE {}

CurrentSuspects(deltas) ==
    LET before == {k \in DOMAIN deltas : \A drop \in Drops(deltas) : k < drop}
    IN  IF Drops(deltas) # {} /\ deltas[1].count > 0
        THEN {deltas[k].value : k \in before}
        ELSE {}

(* Faulty variant: values no longer suspected keep their score. *)
HistogramWithoutReset(histogram, suspects) ==
    [v \in DOMAIN histogram \union suspects |->
        (IF v \in DOMAIN histogram THEN histogram[v] ELSE 0) + (IF v \in suspects THEN 1 ELSE 0)]

(* What a loop over S in increasing order has met after n turns. *)
FirstOf(S, n) == {v \in S : Cardinality({w \in S : w < v}) < n}

(***************************************************************************)
(* suspected_histogram_ after a sample: values no longer suspected lose    *)
(* their score, the others gain one; values suspected for the first time   *)
(* enter, in value order, while the histogram has room.                    *)
(***************************************************************************)
UpdatedHistogram(histogram, suspects) ==
    LET kept == DOMAIN histogram \intersect suspects
        entering == FirstOf(suspects \ kept, RankingSize - Cardinality(kept))
    IN  [v \in kept \union entering |->
            IF v \in kept THEN histogram[v] + SuspicionScoreIncrease ELSE SuspicionScoreIncrease]

(* The loop that fills suspected_leaks_ stops once it holds more than RankingSize. *)
SuspectedLeaks(histogram, score_threshold) ==
    FirstOf({v \in DOMAIN histogram : histogram[v] >= score_threshold}, RankingSize + 1)

(* AddSample, with the AnalyzeDeltas it ends in. *)
AddSample(analyzer, ranked_list) ==
    LET deltas == Deltas(analyzer.ranked_entries, ranked_list)
        histogram == UpdatedHistogram(analyzer.suspected_histogram, CurrentSuspects(deltas))
    IN  [score_threshold     |-> analyzer.score_threshold,
         ranked_entries      |-> ranked_list,
         prev_ranked_entries |-> analyzer.ranked_entries,
         suspected_histogram |-> histogram,
         suspected_leaks     |-> SuspectedLeaks(histogram, analyzer.score_threshold)]
=============================================================================
