--------------------------- MODULE MCLeakAnalyzer ---------------------------
(* Four values compete for three places.  Every list that ranks all the    *)
(* values by counts from a small set, as the size analyzer gets them, and  *)
(* lists that rank a few of them, as the analyzer of a call stack table    *)
(* gets them: values come and go between samples in both ways.             *)
EXTENDS LeakAnalyzerSpec

CONSTANT Counts

ListsOver(S) == {Ranking([v \in S |-> Entry(v, count[v])], RankingSize) : count \in [S -> Counts]}

MCSamples == ListsOver(Value) \union ListsOver({1, 4}) \union ListsOver({})
=============================================================================
