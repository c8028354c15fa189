-------------------------- MODULE LeakAnalyzerSpec --------------------------
(***************************************************************************)
(* One LeakAnalyzer fed arbitrary samples.                                 *)
(***************************************************************************)
EXTENDS LeakAnalyzer

CONSTANTS
    Value,          \* the values an entry can have
    ScoreThreshold, \* the constructor argument
    Samples,        \* the ranked lists its owner may pass
    MaxSamples      \* bound: calls of AddSample

VARIABLES
    analyzer,   \* the members of the analyzer
    num_samples \* how many samples it was given

vars == <<analyzer, num_samples>>

(***************************************************************************)
(* A ranked list as a caller builds it: no longer than the ranking, in     *)
(* descending order of count, every value at most once.                    *)
(***************************************************************************)
IsSample(list) ==
    /\ list \in Seq([value : Value, count : Int])
    /\ Len(list) <= RankingSize
    /\ \A i, j \in DOMAIN list :
          i < j => list[i].count >= list[j].count /\ list[i].value # list[j].value

ASSUME SamplesAssumption ==
    /\ Value \subseteq Nat
    /\ ScoreThreshold \in Nat
    /\ \A list \in Samples : IsSample(list)
    /\ MaxSamples \in Nat

IsHistogram(h) ==
    /\ DOMAIN h \subseteq Value
    /\ h \in [DOMAIN h -> Nat]

TypeOK ==
    /\ analyzer = [score_threshold     |-> ScoreThreshold,
                   ranked_entries      |-> analyzer.ranked_entries,
                   prev_ranked_entries |-> analyzer.prev_ranked_entries,
                   suspected_histogram |-> analyzer.suspected_histogram,
                   suspected_leaks     |-> analyzer.suspected_leaks]
    /\ IsSample(analyzer.ranked_entries)
    /\ IsSample(analyzer.prev_ranked_entries)
    /\ IsHistogram(analyzer.suspected_histogram)
    /\ analyzer.suspected_leaks \subseteq Value
    /\ num_samples \in 0..MaxSamples

Init ==
    /\ analyzer = NewAnalyzer(ScoreThreshold)
    /\ num_samples = 0

Sample(ranked_list) ==
    /\ num_samples < MaxSamples
    /\ analyzer' = AddSample(analyzer, ranked_list)
    /\ num_samples' = num_samples + 1

Next == \E ranked_list \in Samples : Sample(ranked_list)

Spec == Init /\ [][Next]_vars

-----------------------------------------------------------------------------
Histogram == analyzer.suspected_histogram

Score(v) == IF v \in DOMAIN Histogram THEN Histogram[v] ELSE 0

(***************************************************************************)
(* The histogram never reaches ranking_size_ entries, so the guard of      *)
(* leak_analyzer.cc, line 180, never turns a suspect away: the entries of  *)
(* the previous sample are gone before the new ones come in.               *)
(***************************************************************************)
HistogramHasRoom == Cardinality(DOMAIN Histogram) < RankingSize

(***************************************************************************)
(* No value is scored before two samples or more often than samples came,  *)
(* and none is reported before ScoreThreshold + 1 samples: the first       *)
(* sample has no changes (AddSample, lines 29 to 37).                      *)
(***************************************************************************)
ScoresTakeTime ==
    /\ \A v \in DOMAIN Histogram : Histogram[v] < num_samples
    /\ analyzer.suspected_leaks # {} => num_samples > ScoreThreshold

-----------------------------------------------------------------------------
(***************************************************************************)
(* The suspects of a step, told without ranks.  The tracked values are     *)
(* those in this sample and the one before it.                             *)
(***************************************************************************)
ValuesOf(list) == {e.value : e \in ToSet(list)}

CountOf(list, v) == (CHOOSE e \in ToSet(list) : e.value = v).count

Tracked == ValuesOf(analyzer.ranked_entries) \intersect ValuesOf(analyzer'.ranked_entries)

Growth(v) == CountOf(analyzer'.ranked_entries, v) - CountOf(analyzer.ranked_entries, v)

RaisedScores == {v \in Value : Score(v)' > Score(v)}

(* Some but not all tracked values, each growing more than twice as much as any other. *)
Leads(group) ==
    /\ group # {} /\ group # Tracked
    /\ \A v \in group, w \in Tracked \ group : Growth(v) > 2 * Growth(w)

SmallestLeaderRaised ==
    LET groups == {group \in SUBSET Tracked : Leads(group)}
    IN  IF groups # {} /\ \E v \in Tracked : Growth(v) > 0
        THEN /\ RaisedScores \in groups
             /\ \A group \in groups : RaisedScores \subseteq group
        ELSE RaisedScores = {}

(***************************************************************************)
(* A sample raises the scores of the smallest group of tracked values that *)
(* leads all the others, and of no value when nothing grew or no group     *)
(* leads (AnalyzeDeltas, lines 124 to 184).  In particular the order that  *)
(* std::list happens to keep ties in never decides who is suspected, and a *)
(* value that just entered the ranking is never suspected.                 *)
(***************************************************************************)
SuspectsLead == [][SmallestLeaderRaised]_vars

(***************************************************************************)
(* The analyzer implements SuspicionRuns: the score of a value is the      *)
(* length of its present run of suspicions, whatever else is suspected,    *)
(* and the reported values are those whose run reached the threshold.      *)
(***************************************************************************)
Runs == INSTANCE SuspicionRuns WITH
            run <- [v \in Value |-> Score(v)],
            reported <- analyzer.suspected_leaks

ImplementsSuspicionRuns == Runs!Spec

(***************************************************************************)
(* "Find the first major drop in values (i.e. by 50% or more)", says       *)
(* leak_analyzer.cc, line 140: a value that grew while every other tracked *)
(* value grew at most half as much should be suspected.                    *)
(***************************************************************************)
DropByHalfIsADrop ==
    [][\A v \in Tracked :
          /\ Growth(v) > 0
          /\ Tracked # {v}
          /\ \A w \in Tracked \ {v} : 2 * Growth(w) <= Growth(v)
          => v \in RaisedScores]_vars
=============================================================================
