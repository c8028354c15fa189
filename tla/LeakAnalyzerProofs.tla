------------------------- MODULE LeakAnalyzerProofs -------------------------
(***************************************************************************)
(* The properties of LeakAnalyzerSpec, for any values, samples, ranking    *)
(* size and threshold.                                                     *)
(***************************************************************************)
EXTENDS LeakAnalyzerSpec, AnalysisLemmas

(***************************************************************************)
(* The inductive invariant.  TypeOK does not bound the histogram, and the  *)
(* bound on the scores needs to know that the first sample has no list to  *)
(* compare with and that the reported values are those of high score.      *)
(***************************************************************************)
ScoresBelowSamples ==
    /\ \A v \in DOMAIN Histogram : Histogram[v] < num_samples
    /\ num_samples = 0 => analyzer.ranked_entries = <<>>

IInv == TypeOK /\ IsAnalyzerOver(Value, analyzer) /\ ScoresBelowSamples

(* A sample is a list of integer-counted values no longer than the ranking. *)
LEMMA SampleIsList == \A list : IsSample(list) => IsListOver(Value, list)
    BY DEF IsSample, IsListOver

LEMMA InitIInv == Init => IInv
<1> SUFFICES ASSUME Init PROVE IInv
    OBVIOUS
<1> USE DEF Init, NewAnalyzer
<1>1. RankingSize \in Nat \ {0} /\ MaxSamples \in Nat
    BY RankingAssumption, SamplesAssumption
<1>2. IsSample(<<>>)
    BY <1>1 DEF IsSample
<1>3. TypeOK
    BY <1>1, <1>2 DEF TypeOK, IsHistogram
<1>4. IsAnalyzerOver(Value, analyzer)
    BY <1>1, <1>2, SampleIsList, FS_EmptySet DEF IsAnalyzerOver
<1>5. ScoresBelowSamples
    BY DEF ScoresBelowSamples, Histogram
<1> QED BY <1>3, <1>4, <1>5 DEF IInv

(* What one step does, in terms of its suspects. *)
LEMMA SampleStep ==
    ASSUME IInv, NEW list \in Samples, Sample(list)
    PROVE  LET S == SuspectsOf(analyzer, list)
           IN  /\ S \subseteq Value /\ IsFiniteSet(S) /\ Cardinality(S) < RankingSize
               /\ num_samples = 0 => S = {}
               /\ Histogram' = [v \in S |-> IF v \in DOMAIN Histogram THEN Histogram[v] + 1 ELSE 1]
               /\ IsAnalyzerOver(Value, analyzer')
               /\ analyzer' = AddSample(analyzer, list)
<1>1. IsListOver(Value, list)
    BY SamplesAssumption, SampleIsList
<1>2. Value \in SUBSET Int /\ analyzer.score_threshold \in Nat
    BY SamplesAssumption DEF IInv, TypeOK
<1>3. IsAnalyzerOver(Value, analyzer)
    BY DEF IInv
<1>4. analyzer' = AddSample(analyzer, list)
    BY DEF Sample
<1>5. num_samples = 0 => analyzer.ranked_entries = <<>>
    BY DEF IInv, ScoresBelowSamples
<1> QED BY <1>1, <1>2, <1>3, <1>4, <1>5, AddSampleStep DEF Histogram

LEMMA NextIInv == IInv /\ [Next]_vars => IInv'
<1> SUFFICES ASSUME IInv, [Next]_vars PROVE IInv'
    OBVIOUS
<1>1. CASE UNCHANGED vars
    BY <1>1 DEF vars, IInv, TypeOK, ScoresBelowSamples, Histogram
<1>2. ASSUME NEW list \in Samples, Sample(list) PROVE IInv'
  <2> DEFINE S == SuspectsOf(analyzer, list)
  <2>1. /\ S \subseteq Value
        /\ num_samples = 0 => S = {}
        /\ Histogram' = [v \in S |-> IF v \in DOMAIN Histogram THEN Histogram[v] + 1 ELSE 1]
        /\ IsAnalyzerOver(Value, analyzer')
        /\ analyzer' = AddSample(analyzer, list)
      BY <1>2, SampleStep
  <2>2. num_samples \in 0..MaxSamples /\ num_samples < MaxSamples /\ num_samples' = num_samples + 1
      BY <1>2 DEF Sample, IInv, TypeOK
  <2>3. MaxSamples \in Nat
      BY SamplesAssumption
  <2>4. analyzer' = [score_threshold     |-> ScoreThreshold,
                     ranked_entries      |-> list,
                     prev_ranked_entries |-> analyzer.ranked_entries,
                     suspected_histogram |-> analyzer'.suspected_histogram,
                     suspected_leaks     |-> analyzer'.suspected_leaks]
      BY <2>1 DEF AddSample, IInv, TypeOK
  <2>5. TypeOK'
    <3>1. IsSample(list) /\ IsSample(analyzer.ranked_entries)
        BY SamplesAssumption DEF IInv, TypeOK
    <3>2. IsHistogram(analyzer'.suspected_histogram) /\ analyzer'.suspected_leaks \subseteq Value
        BY <2>1 DEF IsAnalyzerOver, IsHistogram
    <3> QED BY <2>2, <2>3, <2>4, <3>1, <3>2 DEF TypeOK
  <2>6. ScoresBelowSamples'
    <3>1. \A v \in S : Histogram'[v] < num_samples + 1
      <4>1. \A v \in DOMAIN Histogram : Histogram[v] < num_samples /\ Histogram[v] \in Nat
          BY DEF IInv, ScoresBelowSamples, IsAnalyzerOver, Histogram
      <4>2. S # {} => num_samples # 0
          BY <2>1
      <4> QED BY <2>1, <2>2, <4>1, <4>2
    <3> QED BY <2>1, <2>2, <3>1 DEF ScoresBelowSamples, Histogram
  <2> QED BY <2>1, <2>5, <2>6 DEF IInv
<1> QED BY <1>1, <1>2 DEF Next

(* The inductive invariant holds of every behaviour. *)
THEOREM Invariance == Spec => []IInv
    BY InitIInv, NextIInv, PTL DEF Spec

(***************************************************************************)
(* The members of an analyzer keep their types, and its lists stay ranked  *)
(* lists, whatever samples it is given.                                    *)
(***************************************************************************)
THEOREM TypeCorrect == Spec => []TypeOK
<1>1. IInv => TypeOK
    BY DEF IInv
<1> QED BY <1>1, Invariance, PTL

(***************************************************************************)
(* The guard on the size of the histogram never turns a suspect away, for  *)
(* any ranking size.                                                       *)
(***************************************************************************)
THEOREM HistogramAlwaysHasRoom == Spec => []HistogramHasRoom
<1>1. IInv => HistogramHasRoom
    BY DEF IInv, IsAnalyzerOver, HistogramHasRoom, Histogram
<1> QED BY <1>1, Invariance, PTL

(***************************************************************************)
(* No score outruns the number of samples, and no value is reported before *)
(* ScoreThreshold + 1 of them.                                             *)
(***************************************************************************)
THEOREM ScoresAlwaysTakeTime == Spec => []ScoresTakeTime
<1>1. ASSUME IInv PROVE ScoresTakeTime
  <2>1. \A v \in DOMAIN Histogram : Histogram[v] < num_samples /\ Histogram[v] \in Nat
      BY <1>1 DEF IInv, ScoresBelowSamples, IsAnalyzerOver, Histogram
  <2>2. analyzer.suspected_leaks = {v \in DOMAIN Histogram : Histogram[v] >= ScoreThreshold}
      BY <1>1 DEF IInv, TypeOK, IsAnalyzerOver, Histogram
  <2>3. num_samples \in Nat /\ ScoreThreshold \in Nat
      BY <1>1, SamplesAssumption DEF IInv, TypeOK
  <2> QED BY <2>1, <2>2, <2>3 DEF ScoresTakeTime
<1> QED BY <1>1, Invariance, PTL

-----------------------------------------------------------------------------
(* The initial states are initial states of SuspicionRuns. *)
LEMMA InitRefines == Init => Runs!Init
    BY DEF Init, NewAnalyzer, Runs!Init, Score, Histogram

(* A step is a step of SuspicionRuns with the suspects of the sample. *)
LEMMA NextRefines ==
    IInv /\ [Next]_vars => [Runs!Next]_<<[v \in Value |-> Score(v)], analyzer.suspected_leaks>>
<1> SUFFICES ASSUME IInv, [Next]_vars
             PROVE  [Runs!Next]_<<[v \in Value |-> Score(v)], analyzer.suspected_leaks>>
    OBVIOUS
<1>1. CASE UNCHANGED vars
    BY <1>1 DEF vars, Score, Histogram
<1>2. ASSUME NEW list \in Samples, Sample(list) PROVE Runs!Next
  <2> DEFINE S == SuspectsOf(analyzer, list)
  <2>1. /\ S \subseteq Value /\ Cardinality(S) < RankingSize
        /\ Histogram' = [v \in S |-> IF v \in DOMAIN Histogram THEN Histogram[v] + 1 ELSE 1]
        /\ IsAnalyzerOver(Value, analyzer')
        /\ analyzer' = AddSample(analyzer, list)
      BY <1>2, SampleStep
  <2>2. \A v \in Value : Score(v)' = IF v \in S THEN Score(v) + 1 ELSE 0
      BY <2>1 DEF Score
  <2>3. analyzer'.score_threshold = ScoreThreshold
      BY <2>1 DEF AddSample, IInv, TypeOK
  <2>4. analyzer'.suspected_leaks = {v \in S : Score(v)' >= ScoreThreshold}
      BY <2>1, <2>3 DEF IsAnalyzerOver, Score, Histogram
  <2>5. Runs!Sample(S)
      BY <2>1, <2>2, <2>4 DEF Runs!Sample
  <2> QED BY <2>1, <2>5 DEF Runs!Next, Runs!Cardinality, Runs!IsFiniteSet, Cardinality, IsFiniteSet
<1> QED BY <1>1, <1>2 DEF Next

(***************************************************************************)
(* The analyzer implements SuspicionRuns: for any ranking size, threshold  *)
(* and samples, scores are lengths of runs of suspicion, and exactly the   *)
(* values whose run reached the threshold are reported.                    *)
(***************************************************************************)
THEOREM Refinement == Spec => ImplementsSuspicionRuns
    BY InitRefines, NextRefines, Invariance, PTL DEF Spec, ImplementsSuspicionRuns, Runs!Spec

-----------------------------------------------------------------------------
(* The values and the counts of a sample. *)
LEMMA SampleIsDistinct == \A list : IsSample(list) => DistinctValues(list)
<1> SUFFICES ASSUME NEW list, IsSample(list), NEW i \in DOMAIN list, NEW j \in DOMAIN list,
                    list[i].value = list[j].value
             PROVE  i = j
    BY DEF DistinctValues
<1>1. i \in Nat /\ j \in Nat
    BY DEF IsSample
<1>2. ~(i < j) /\ ~(j < i)
    BY DEF IsSample
<1> QED BY <1>1, <1>2

LEMMA ValuesAreListed ==
    ASSUME NEW list
    PROVE  /\ ValuesOf(list) = ListedValues(list)
           /\ \A value : WasRanked(list, value) <=> value \in ValuesOf(list)
<1>1. ValuesOf(list) = ListedValues(list)
    BY DEF ValuesOf, ListedValues, ToSet
<1> QED BY <1>1 DEF ListedValues, WasRanked

LEMMA CountIs ==
    ASSUME NEW list, DistinctValues(list), NEW i \in DOMAIN list
    PROVE  CountOf(list, list[i].value) = list[i].count
<1> DEFINE e == CHOOSE x \in ToSet(list) : x.value = list[i].value
<1>1. list[i] \in ToSet(list)
    BY DEF ToSet
<1>2. e \in ToSet(list) /\ e.value = list[i].value
    BY <1>1
<1>3. CountOf(list, list[i].value) = e.count
    BY DEF CountOf
<1> HIDE DEF e
<1>4. PICK j \in DOMAIN list : e = list[j]
    BY <1>2 DEF ToSet
<1> QED BY <1>2, <1>3, <1>4 DEF DistinctValues

(* The deltas of a step rank the tracked values by their growth. *)
LEMMA DeltasAreGrowth ==
    ASSUME IInv, NEW list \in Samples, Sample(list)
    PROVE  LET deltas == Deltas(analyzer.ranked_entries, list)
           IN  /\ IsListOver(Value, deltas) /\ Descends(deltas) /\ DistinctValues(deltas)
               /\ ListedValues(deltas) = Tracked
               /\ \A k \in DOMAIN deltas : Growth(deltas[k].value) = deltas[k].count
<1> DEFINE prev == analyzer.ranked_entries
           deltas == Deltas(prev, list)
<1>1. IsSample(prev) /\ IsSample(list)
    BY SamplesAssumption DEF IInv, TypeOK
<1>2. /\ IsListOver(Value, prev) /\ IsListOver(Value, list)
      /\ DistinctValues(prev) /\ DistinctValues(list)
    BY <1>1, SampleIsList, SampleIsDistinct
<1>3. analyzer'.ranked_entries = list
    BY DEF Sample, AddSample
<1> HIDE DEF prev
<1>4. /\ \A k \in DOMAIN deltas : \E i \in TrackedIn(prev, list) : deltas[k] = Change(prev, list, i)
      /\ \A i \in TrackedIn(prev, list) : \E k \in DOMAIN deltas : deltas[k] = Change(prev, list, i)
      /\ \A j, k \in DOMAIN deltas : j < k => deltas[j].count >= deltas[k].count
      /\ DistinctValues(deltas)
    BY <1>2, DeltasAreChanges
<1>5. IsListOver(Value, deltas)
    BY <1>2, DeltasShape
<1> HIDE DEF deltas
<1>6. \A i \in TrackedIn(prev, list) :
         /\ i \in DOMAIN list /\ list[i].value \in Tracked
         /\ Change(prev, list, i).value = list[i].value
         /\ Change(prev, list, i).count = Growth(list[i].value)
  <2> SUFFICES ASSUME NEW i \in TrackedIn(prev, list)
               PROVE  /\ i \in DOMAIN list /\ list[i].value \in Tracked
                      /\ Change(prev, list, i).value = list[i].value
                      /\ Change(prev, list, i).count = Growth(list[i].value)
      OBVIOUS
  <2>1. i \in DOMAIN list /\ WasRanked(prev, list[i].value)
      BY DEF TrackedIn
  <2>2. PICK j \in DOMAIN prev :
           prev[j].value = list[i].value /\ prev[j].count = PreviousCount(prev, list[i].value)
      BY <1>2, <2>1, PreviousCountType DEF IsListOver
  <2>3. CountOf(list, list[i].value) = list[i].count /\ CountOf(prev, prev[j].value) = prev[j].count
      BY <1>2, <2>1, CountIs
  <2>4. list[i].value \in ValuesOf(list) /\ list[i].value \in ValuesOf(prev)
      BY <2>1, ValuesAreListed DEF ListedValues
  <2> QED BY <1>3, <2>1, <2>2, <2>3, <2>4 DEF Change, Entry, Growth, Tracked, prev
<1>7. \A v \in Tracked : \E i \in TrackedIn(prev, list) : list[i].value = v
  <2> SUFFICES ASSUME NEW v \in Tracked PROVE \E i \in TrackedIn(prev, list) : list[i].value = v
      OBVIOUS
  <2>1. v \in ValuesOf(prev) /\ v \in ValuesOf(list)
      BY <1>3 DEF Tracked, prev
  <2>2. PICK i \in DOMAIN list : list[i].value = v
      BY <2>1, ValuesAreListed DEF ListedValues
  <2> QED BY <2>1, <2>2, ValuesAreListed DEF TrackedIn
<1>8. ListedValues(deltas) = Tracked
  <2>1. \A k \in DOMAIN deltas : deltas[k].value \in Tracked
      BY <1>4, <1>6
  <2>2. \A v \in Tracked : \E k \in DOMAIN deltas : deltas[k].value = v
      BY <1>4, <1>6, <1>7
  <2> QED BY <2>1, <2>2 DEF ListedValues
<1>9. \A k \in DOMAIN deltas : Growth(deltas[k].value) = deltas[k].count
    BY <1>4, <1>6
<1> QED BY <1>4, <1>5, <1>8, <1>9 DEF Descends, deltas, prev

(* Exactly the suspects of a step have a higher score after it. *)
LEMMA SuspectsAreRaised ==
    ASSUME IInv, NEW list \in Samples, Sample(list)
    PROVE  RaisedScores = SuspectsOf(analyzer, list)
<1> DEFINE S == SuspectsOf(analyzer, list)
<1>1. /\ S \subseteq Value
      /\ Histogram' = [v \in S |-> IF v \in DOMAIN Histogram THEN Histogram[v] + 1 ELSE 1]
    BY SampleStep
<1>2. \A v \in DOMAIN Histogram : Histogram[v] \in Nat
    BY DEF IInv, IsAnalyzerOver, Histogram
<1> HIDE DEF S
<1>3. \A v : Score(v) \in Nat /\ Score(v)' = IF v \in S THEN Score(v) + 1 ELSE 0
    BY <1>1, <1>2 DEF Score
<1>4. \A v : Score(v)' > Score(v) <=> v \in S
    BY <1>3
<1> QED BY <1>1, <1>4 DEF RaisedScores, S

(***************************************************************************)
(* The suspects of a sample are the smallest group of tracked values that  *)
(* leads all the others, for any samples and any ranking size: neither the *)
(* ranks nor the order of ties nor the limit of the ranking ever shows     *)
(* (AnalyzeDeltas, lines 124 to 184).                                      *)
(***************************************************************************)
THEOREM SuspectsAlwaysLead == Spec => SuspectsLead
<1>1. ASSUME IInv, NEW list \in Samples, Sample(list) PROVE SmallestLeaderRaised
  <2> DEFINE deltas == Deltas(analyzer.ranked_entries, list)
             S == CurrentSuspects(deltas)
  <2>1. /\ IsListOver(Value, deltas) /\ Descends(deltas) /\ DistinctValues(deltas)
        /\ ListedValues(deltas) = Tracked
        /\ \A k \in DOMAIN deltas : Growth(deltas[k].value) = deltas[k].count
      BY <1>1, DeltasAreGrowth
  <2>2. RaisedScores = S
      BY <1>1, SuspectsAreRaised DEF SuspectsOf
  <2> HIDE DEF deltas
  <2>3. \A group \in SUBSET Tracked : Leads(group) <=> LeadsList(deltas, group)
    <3> SUFFICES ASSUME NEW group \in SUBSET Tracked PROVE Leads(group) <=> LeadsList(deltas, group)
        OBVIOUS
    <3>1. (\A v \in group, w \in Tracked \ group : Growth(v) > 2 * Growth(w)) <=>
          \A j, k \in DOMAIN deltas : deltas[j].value \in group /\ deltas[k].value \notin group =>
                                         deltas[j].count > 2 * deltas[k].count
      <4>1. \A v \in Tracked : \E k \in DOMAIN deltas : deltas[k].value = v
          BY <2>1 DEF ListedValues
      <4>2. \A k \in DOMAIN deltas : deltas[k].value \in Tracked
          BY <2>1 DEF ListedValues
      <4> QED BY <2>1, <4>1, <4>2
    <3> QED BY <2>1, <3>1 DEF Leads, LeadsList
  <2>4. (\E v \in Tracked : Growth(v) > 0) <=> \E k \in DOMAIN deltas : deltas[k].count > 0
      BY <2>1 DEF ListedValues
  <2>5. /\ S \subseteq Tracked
        /\ S # {} => LeadsList(deltas, S) /\ \E k \in DOMAIN deltas : deltas[k].count > 0
        /\ \A group \in SUBSET Tracked :
              LeadsList(deltas, group) /\ (\E k \in DOMAIN deltas : deltas[k].count > 0)
                  => S # {} /\ S \subseteq group
      BY <2>1, SuspectsLeadList
  <2> HIDE DEF S
  <2> QED BY <2>2, <2>3, <2>4, <2>5 DEF SmallestLeaderRaised
<1>2. IInv /\ [Next]_vars => [SmallestLeaderRaised]_vars
    BY <1>1 DEF Next
<1> QED BY <1>2, Invariance, PTL DEF Spec, SuspectsLead
=============================================================================
