--------------------------- MODULE SuspicionRuns ----------------------------
(***************************************************************************)
(* What a LeakAnalyzer promises, without lists, ranks or histograms: each  *)
(* sample suspects some values, and a value is reported exactly while it   *)
(* has been suspected in ScoreThreshold samples in a row.                  *)
(***************************************************************************)
EXTENDS Integers, FiniteSets

CONSTANTS Value, RankingSize, ScoreThreshold

VARIABLES
    run,        \* the number of consecutive samples, up to now, that suspected a value
    reported    \* the values reported after the latest sample

Init ==
    /\ run = [v \in Value |-> 0]
    /\ reported = {}

Sample(suspects) ==
    /\ run' = [v \in Value |-> IF v \in suspects THEN run[v] + 1 ELSE 0]
    /\ reported' = {v \in suspects : run'[v] >= ScoreThreshold}

(* A sample never suspects as many values as it can rank: there is a drop after the last. *)
Next == \E suspects \in {S \in SUBSET Value : Cardinality(S) < RankingSize} : Sample(suspects)

Spec == Init /\ [][Next]_<<run, reported>>
=============================================================================
