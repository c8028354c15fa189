------------------------- MODULE CallStackTableProofs -------------------------
(***************************************************************************)
(* A CallStackTable and its RankedList, for any call stacks, thresholds,   *)
(* ranking size and bounds: calls of Add build the reference ranking, the  *)
(* counts add up, the iteration order of the hash map does not decide, and *)
(* dumps stay in a buffer that is large enough.                            *)
(***************************************************************************)
EXTENDS CallStackTableSpec, AnalysisLemmas

(***************************************************************************)
(* Adding to a ranked list.  An entry offered after all others goes behind *)
(* those that have its count; it does not change the ranks before it, and  *)
(* moves those behind it on by one.                                        *)
(***************************************************************************)

(* What is left of an offer without its last entry. *)
Before(offered, j) == [i \in DOMAIN offered \ {j} |-> offered[i]]

(* The entry of a rank. *)
Ranked(offered, m) == offered[CHOOSE i \in DOMAIN offered : RankOf(offered, i) = m]

LEMMA RankedIs ==
    ASSUME NEW offered, IsOffer(offered), NEW i \in DOMAIN offered
    PROVE  Ranked(offered, RankOf(offered, i)) = offered[i]
<1>1. (CHOOSE k \in DOMAIN offered : RankOf(offered, k) = RankOf(offered, i)) = i
    BY RankIsBijective
<1> QED BY <1>1 DEF Ranked

LEMMA BeforeIsOffer ==
    ASSUME NEW offered, IsOffer(offered), NEW j \in DOMAIN offered
    PROVE  /\ IsOffer(Before(offered, j))
           /\ DOMAIN Before(offered, j) = DOMAIN offered \ {j}
           /\ Cardinality(DOMAIN Before(offered, j)) = Cardinality(DOMAIN offered) - 1
           /\ Cardinality(DOMAIN offered) \in Nat \ {0}
<1>1. IsFiniteSet(DOMAIN offered)
    BY DEF IsOffer
<1>2. /\ IsFiniteSet(DOMAIN offered \ {j})
      /\ Cardinality(DOMAIN offered \ {j}) = Cardinality(DOMAIN offered) - 1
    BY <1>1, FS_RemoveElement
<1>3. Cardinality(DOMAIN offered) \in Nat /\ Cardinality(DOMAIN offered) # 0
    BY <1>1, FS_CardinalityType, FS_EmptySet
<1>4. DOMAIN Before(offered, j) = DOMAIN offered \ {j}
    BY DEF Before
<1>5. IsOffer(Before(offered, j))
    BY <1>2, <1>4 DEF IsOffer, Before
<1> QED BY <1>2, <1>3, <1>4, <1>5

(* The last entry lowers the rank of the entries with smaller counts, and no others. *)
LEMMA RankWithLast ==
    ASSUME NEW offered, IsOffer(offered), NEW j \in DOMAIN offered, \A i \in DOMAIN offered : i <= j,
           NEW i \in DOMAIN offered, i # j
    PROVE  /\ offered[i].count >= offered[j].count =>
                 /\ RankOf(Before(offered, j), i) = RankOf(offered, i)
                 /\ RankOf(offered, i) < RankOf(offered, j)
           /\ offered[i].count < offered[j].count =>
                 /\ RankOf(Before(offered, j), i) = RankOf(offered, i) - 1
                 /\ RankOf(offered, i) > RankOf(offered, j)
<1> DEFINE b == Before(offered, j)
<1>1. /\ DOMAIN offered \subseteq Int /\ \A k \in DOMAIN offered : offered[k].count \in Int
    BY DEF IsOffer
<1>2. DOMAIN b = DOMAIN offered \ {j} /\ i \in DOMAIN b /\ IsOffer(b)
    BY BeforeIsOffer
<1>3. \A k \in DOMAIN b : b[k] = offered[k]
    BY <1>2 DEF Before
<1>4. Above(b, i) = Above(offered, i) \ {j}
    BY <1>2, <1>3 DEF Above, Outranks
<1>5. j \in Above(offered, i) <=> offered[i].count < offered[j].count
    BY <1>1 DEF Above, Outranks
<1>6. /\ IsFiniteSet(Above(offered, i)) /\ Cardinality(Above(offered, i)) \in Nat
      /\ RankOf(offered, i) = Cardinality(Above(offered, i)) + 1
      /\ RankOf(offered, i) \in Int /\ RankOf(offered, j) \in Int
    BY RankInRange
<1>7. RankOf(b, i) = Cardinality(Above(b, i)) + 1
    BY <1>2, RankInRange
<1>8. CASE offered[i].count >= offered[j].count
  <2>1. Above(b, i) = Above(offered, i)
      BY <1>1, <1>4, <1>5, <1>8
  <2>2. Outranks(offered, i, j)
      BY <1>1, <1>8 DEF Outranks
  <2>3. RankOf(offered, i) < RankOf(offered, j)
      BY <2>2, RankIsMonotone
  <2> QED BY <1>1, <1>6, <1>7, <1>8, <2>1, <2>3
<1>9. CASE offered[i].count < offered[j].count
  <2>1. Cardinality(Above(b, i)) = Cardinality(Above(offered, i)) - 1
      BY <1>4, <1>5, <1>6, <1>9, FS_RemoveElement
  <2>2. Outranks(offered, j, i)
      BY <1>9 DEF Outranks
  <2>3. RankOf(offered, j) < RankOf(offered, i)
      BY <2>2, RankIsMonotone
  <2> QED BY <1>1, <1>6, <1>7, <1>9, <2>1, <2>3
<1> QED BY <1>1, <1>8, <1>9

(* It takes its place, and those behind it move on by one. *)
LEMMA LastTakesItsPlace ==
    ASSUME NEW offered, IsOffer(offered), NEW j \in DOMAIN offered, \A i \in DOMAIN offered : i <= j,
           NEW m \in 1..(Cardinality(DOMAIN offered) - 1)
    PROVE  LET b == Before(offered, j)
               k == RankOf(offered, j)
           IN  /\ m < k => /\ Ranked(b, m) = Ranked(offered, m)
                           /\ Ranked(b, m).count >= offered[j].count
               /\ m >= k => /\ Ranked(b, m) = Ranked(offered, m + 1)
                            /\ Ranked(b, m).count < offered[j].count
               /\ Ranked(b, m).count \in Int
<1> DEFINE b == Before(offered, j)
           k == RankOf(offered, j)
<1>1. /\ IsOffer(b) /\ DOMAIN b = DOMAIN offered \ {j} /\ Cardinality(DOMAIN b) = Cardinality(DOMAIN offered) - 1
      /\ Cardinality(DOMAIN offered) \in Nat
    BY BeforeIsOffer
<1>2. PICK i \in DOMAIN b : RankOf(b, i) = m
    BY <1>1, RankIsBijective
<1>3. i \in DOMAIN offered /\ i # j /\ b[i] = offered[i]
    BY <1>1 DEF Before
<1>4. Ranked(b, m) = offered[i]
    BY <1>1, <1>2, <1>3, RankedIs
<1>5. Ranked(offered, RankOf(offered, i)) = offered[i]
    BY <1>3, RankedIs
<1>6. offered[i].count \in Int /\ offered[j].count \in Int
    BY <1>3 DEF IsOffer
<1>7. k \in Int /\ RankOf(offered, i) \in Int
    BY <1>3, RankInRange
<1>8. /\ offered[i].count >= offered[j].count => RankOf(b, i) = RankOf(offered, i) /\ RankOf(offered, i) < k
      /\ offered[i].count < offered[j].count => RankOf(b, i) = RankOf(offered, i) - 1 /\ RankOf(offered, i) > k
    BY <1>3, RankWithLast
<1> HIDE DEF b, k
<1>9. CASE offered[i].count >= offered[j].count
    BY <1>2, <1>4, <1>5, <1>6, <1>7, <1>8, <1>9 DEF b, k
<1>10. CASE offered[i].count < offered[j].count
    BY <1>2, <1>4, <1>5, <1>6, <1>7, <1>8, <1>10 DEF b, k
<1> QED BY <1>6, <1>9, <1>10

(* Where an entry goes, and what becomes of the list. *)
LEMMA UpperBoundIs ==
    ASSUME NEW T, NEW list \in Seq(T), \A i \in DOMAIN list : list[i].count \in Int, NEW count \in Int,
           NEW at \in 1..(Len(list) + 1), \A i \in 1..(at - 1) : list[i].count >= count,
           at \in DOMAIN list => list[at].count < count
    PROVE  UpperBound(list, count) = at
<1>1. DOMAIN list = 1..Len(list) /\ Len(list) \in Nat
    OBVIOUS
<1>2. ASSUME NEW x \in 1..(Len(list) + 1), \A i \in 1..(x - 1) : list[i].count >= count,
             x \in DOMAIN list => list[x].count < count
      PROVE  x = at
  <2>1. ~(x < at)
      BY <1>1, <1>2
  <2>2. ~(at < x)
      BY <1>1, <1>2
  <2> QED BY <1>2, <2>1, <2>2
<1> QED BY <1>2 DEF UpperBound

LEMMA Inserted ==
    ASSUME NEW T, NEW list \in Seq(T), NEW e \in T, NEW at \in 1..(Len(list) + 1)
    PROVE  /\ InsertAt(list, at, e) \in Seq(T)
           /\ Len(InsertAt(list, at, e)) = Len(list) + 1
           /\ \A m \in 1..(Len(list) + 1) :
                 InsertAt(list, at, e)[m] = IF m < at THEN list[m] ELSE IF m = at THEN e ELSE list[m - 1]
<1> DEFINE left == SubSeq(list, 1, at - 1)
           right == SubSeq(list, at, Len(list))
<1>1. Len(list) \in Nat /\ at \in Nat
    OBVIOUS
<1>2. left \in Seq(T) /\ Len(left) = at - 1 /\ \A m \in 1..(at - 1) : left[m] = list[m]
    BY <1>1
<1>3. /\ right \in Seq(T) /\ Len(right) = Len(list) - at + 1
      /\ \A m \in 1..(Len(list) - at + 1) : right[m] = list[at + m - 1]
    BY <1>1
<1>4. InsertAt(list, at, e) = (left \o <<e>>) \o right
    BY DEF InsertAt
<1> HIDE DEF left, right
<1> DEFINE front == left \o <<e>>
<1>5. /\ front \in Seq(T) /\ Len(front) = at
      /\ \A m \in 1..at : front[m] = IF m < at THEN list[m] ELSE e
    BY <1>1, <1>2
<1> HIDE DEF front
<1> DEFINE whole == front \o right
<1>6. whole \in Seq(T) /\ Len(whole) = Len(list) + 1
  <2>1. front \in Seq(T) /\ right \in Seq(T)
      BY <1>3, <1>5
  <2>2. whole \in Seq(T) /\ Len(whole) = Len(front) + Len(right)
      BY <2>1
  <2> QED BY <1>1, <1>3, <1>5, <2>2
<1>7. \A m \in 1..(Len(list) + 1) : whole[m] = IF m <= at THEN front[m] ELSE right[m - at]
    BY <1>1, <1>3, <1>5
<1>8. InsertAt(list, at, e) = whole
    BY <1>4 DEF front
<1> HIDE DEF whole
<1>9. ASSUME NEW m \in 1..(Len(list) + 1)
      PROVE  whole[m] = IF m < at THEN list[m] ELSE IF m = at THEN e ELSE list[m - 1]
  <2> m \in Int /\ at \in Int
      BY <1>1
  <2>1. CASE m <= at
      BY <1>5, <1>7, <2>1
  <2>2. CASE m > at
    <3>1. m - at \in 1..(Len(list) - at + 1) /\ at + (m - at) - 1 = m - 1
        BY <1>1, <2>2
    <3>2. right[m - at] = list[m - 1]
        BY <1>3, <3>1
    <3>3. whole[m] = right[m - at]
        BY <1>7, <2>2
    <3> QED BY <2>2, <3>2, <3>3
  <2> QED BY <2>1, <2>2
<1> QED BY <1>6, <1>8, <1>9

(* Adding an entry to the ranking of those before it makes the ranking of all. *)
LEMMA AddRanks ==
    ASSUME NEW offered, IsOffer(offered), NEW max_size \in Nat,
           NEW j \in DOMAIN offered, \A i \in DOMAIN offered : i <= j
    PROVE  Add(Ranking(Before(offered, j), max_size), max_size, offered[j]) = Ranking(offered, max_size)
<1> DEFINE b == Before(offered, j)
           e == offered[j]
           k == RankOf(offered, j)
           N == Cardinality(DOMAIN offered)
           list == Ranking(b, max_size)
           n == RankingLen(b, max_size)
           T == {offered[i] : i \in DOMAIN offered}
           at == IF k <= n THEN k ELSE n + 1
           full == Ranking(offered, max_size)
<1> SUFFICES Add(list, max_size, e) = full
    OBVIOUS
<1>1. /\ IsOffer(b) /\ DOMAIN b = DOMAIN offered \ {j} /\ Cardinality(DOMAIN b) = N - 1
      /\ N \in Nat \ {0}
    BY BeforeIsOffer
<1>2. k \in 1..N
    BY RankInRange
<1>3. n = IF N - 1 > max_size THEN max_size ELSE N - 1
    BY <1>1 DEF RankingLen
<1>4. \A i \in DOMAIN b : b[i] \in T
    BY <1>1 DEF Before
<1>5. \A t \in T : t.count \in Int
    BY DEF IsOffer
<1>6. e \in T /\ Ranked(offered, k) = e
    BY RankedIs
<1> HIDE DEF b, e, k, N, T
<1>7. list \in Seq(T) /\ Len(list) = n
    BY <1>1, <1>4, RankingShape
<1>8. \A m \in 1..n : list[m] = Ranked(b, m)
    BY DEF Ranking, Ranked
<1>9. ASSUME NEW m \in 1..n
      PROVE  /\ m < k => list[m] = Ranked(offered, m) /\ list[m].count >= e.count
             /\ m >= k => list[m] = Ranked(offered, m + 1) /\ list[m].count < e.count
  <2>1. m \in 1..(N - 1)
      BY <1>1, <1>3
  <2> QED BY <1>8, <2>1, LastTakesItsPlace DEF b, e, k, N
<1>10. /\ full = [m \in 1..RankingLen(offered, max_size) |-> Ranked(offered, m)]
       /\ RankingLen(offered, max_size) = IF N > max_size THEN max_size ELSE N
    BY DEF Ranking, Ranked, RankingLen, N
<1> HIDE DEF list, full
<1>11. n \in Nat /\ at \in 1..(n + 1) /\ k \in Int
    BY <1>1, <1>2, <1>3
<1> HIDE DEF n
<1>12. UpperBound(list, e.count) = at
  <2>1. \A i \in DOMAIN list : list[i].count \in Int
      BY <1>5, <1>7
  <2>2. e.count \in Int
      BY <1>5, <1>6
  <2>3. \A i \in 1..(at - 1) : list[i].count >= e.count
      BY <1>9, <1>11
  <2>4. at \in DOMAIN list => list[at].count < e.count
      BY <1>7, <1>9, <1>11
  <2> HIDE DEF at
  <2> QED BY <1>7, <1>11, <2>1, <2>2, <2>3, <2>4, UpperBoundIs
<1> DEFINE grown == InsertAt(list, at, e)
<1>13. /\ grown \in Seq(T) /\ Len(grown) = n + 1
       /\ \A m \in 1..(n + 1) : grown[m] = IF m < at THEN list[m] ELSE IF m = at THEN e ELSE list[m - 1]
  <2> HIDE DEF at
  <2>1. at \in 1..(Len(list) + 1)
      BY <1>7, <1>11
  <2>2. list \in Seq(T) /\ e \in T
      BY <1>6, <1>7
  <2>3. /\ grown \in Seq(T) /\ Len(grown) = Len(list) + 1
        /\ \A m \in 1..(Len(list) + 1) :
              grown[m] = IF m < at THEN list[m] ELSE IF m = at THEN e ELSE list[m - 1]
      BY <2>1, <2>2, Inserted
  <2> HIDE DEF grown
  <2> QED BY <1>7, <2>3
<1>14. Add(list, max_size, e) =
          IF n = max_size /\ at = n + 1 THEN list
          ELSE IF n + 1 > max_size THEN SubSeq(grown, 1, max_size) ELSE grown
    BY <1>7, <1>12, <1>13 DEF Add
<1>15. CASE n = max_size /\ at = n + 1
  <2>1. RankingLen(offered, max_size) = n
      BY <1>1, <1>3, <1>10, <1>15
  <2>2. \A m \in 1..n : list[m] = Ranked(offered, m)
      BY <1>9, <1>11, <1>15
  <2>3. list = [m \in 1..n |-> list[m]]
      BY <1>7
  <2>4. list = full
      BY <1>10, <2>1, <2>2, <2>3
  <2> QED BY <1>14, <1>15, <2>4
<1>16. CASE ~(n = max_size /\ at = n + 1)
  <2>1. at = k
      BY <1>1, <1>2, <1>3, <1>11, <1>16
  <2>2. ASSUME NEW m \in 1..(n + 1) PROVE grown[m] = Ranked(offered, m)
    <3>1. m \in Int
        OBVIOUS
    <3> HIDE DEF at, grown
    <3>2. CASE m < k
        BY <1>9, <1>11, <1>13, <2>1, <3>1, <3>2
    <3>3. CASE m = k
        BY <1>6, <1>13, <2>1, <3>1, <3>3
    <3>4. CASE m > k
      <4>1. m - 1 \in 1..n /\ m - 1 >= k /\ (m - 1) + 1 = m
          BY <1>2, <1>11, <3>4
      <4>2. list[m - 1] = Ranked(offered, m)
          BY <1>9, <4>1
      <4> QED BY <1>11, <1>13, <2>1, <3>1, <3>4, <4>2
    <3> QED BY <1>11, <3>1, <3>2, <3>3, <3>4
  <2>3. CASE n + 1 > max_size
    <3>1. max_size = n /\ RankingLen(offered, max_size) = n
        BY <1>1, <1>3, <1>10, <2>3
    <3> HIDE DEF at, grown
    <3>2. SubSeq(grown, 1, n) = [m \in 1..n |-> grown[m]]
        BY <1>11, <1>13
    <3>3. \A m \in 1..n : grown[m] = Ranked(offered, m)
        BY <1>11, <2>2
    <3>4. SubSeq(grown, 1, n) = full
        BY <1>10, <3>1, <3>2, <3>3
    <3> QED BY <1>14, <1>16, <2>3, <3>1, <3>4
  <2>4. CASE ~(n + 1 > max_size)
    <3>1. RankingLen(offered, max_size) = n + 1
        BY <1>1, <1>3, <1>10, <1>11, <2>4
    <3> HIDE DEF at, grown
    <3>2. grown = [m \in 1..(n + 1) |-> grown[m]]
        BY <1>11, <1>13
    <3>3. grown = full
        BY <1>10, <2>2, <3>1, <3>2
    <3> QED BY <1>14, <1>16, <2>4, <3>3
  <2> QED BY <2>3, <2>4
<1> QED BY <1>15, <1>16

-----------------------------------------------------------------------------
(***************************************************************************)
(* The loop of calls of Add.  FoldLeft goes through the subsets of the     *)
(* positions, taking the last position of each; over any of them it comes  *)
(* to the ranking of the entries there.                                    *)
(***************************************************************************)
At(offered, s) == [i \in s |-> offered[i]]

Folds(offered, f) ==
    f = [s \in SUBSET DOMAIN offered |->
            IF s = {} THEN <<>> ELSE Add(f[s \ {Max(s)}], RankingSize, offered[Max(s)])]

LEMMA LastOf ==
    ASSUME NEW S, IsFiniteSet(S), S \subseteq Nat, S # {}
    PROVE  Max(S) \in S /\ \A i \in S : i <= Max(S)
<1> DEFINE Bad == {n \in Nat : \E s \in SUBSET S : s # {} /\ Cardinality(s) = n
                                  /\ ~\E x \in s : \A i \in s : x >= i}
<1>1. \A s \in SUBSET S : IsFiniteSet(s) /\ Cardinality(s) \in Nat
    BY FS_Subset, FS_CardinalityType
<1>2. Bad = {}
  <2> SUFFICES ASSUME Bad # {} PROVE FALSE
      OBVIOUS
  <2>1. PICK n \in Bad : \A m \in Bad : n <= m
    <3>1. Bad \in SUBSET Nat
        OBVIOUS
    <3> HIDE DEF Bad
    <3> QED BY <3>1, LeastNat
  <2>2. PICK s \in SUBSET S : s # {} /\ Cardinality(s) = n /\ ~\E x \in s : \A i \in s : x >= i
      BY <2>1
  <2>3. PICK y \in s : TRUE
      BY <2>2
  <2>4. /\ s \ {y} \in SUBSET S /\ Cardinality(s \ {y}) = n - 1 /\ n - 1 \in Nat
    <3>1. IsFiniteSet(s)
        BY <1>1
    <3>2. Cardinality(s \ {y}) = Cardinality(s) - 1 /\ Cardinality(s) \in Nat \ {0}
        BY <2>2, <2>3, <3>1, WithoutOne
    <3> QED BY <2>2, <3>2
  <2>5. n - 1 \notin Bad
      BY <2>1, <2>4
  <2>6. s \ {y} = {} \/ \E x \in s \ {y} : \A i \in s \ {y} : x >= i
      BY <2>4, <2>5
  <2> QED BY <2>2, <2>3, <2>6
<1>3. \E x \in S : \A i \in S : x >= i
  <2>1. Cardinality(S) \in Nat
      BY <1>1
  <2> QED BY <1>2, <2>1
<1>4. Max(S) \in S /\ \A i \in S : Max(S) >= i
    BY <1>3 DEF Max
<1> QED BY <1>4

LEMMA RankingOfNothing ==
    ASSUME NEW offered, DOMAIN offered = {} PROVE Ranking(offered, RankingSize) = <<>>
<1>1. RankingLen(offered, RankingSize) = 0
    BY FS_EmptySet, RankingAssumption DEF RankingLen
<1> QED BY <1>1 DEF Ranking

(* One more turn of the loop. *)
LEMMA RankingTakesLast ==
    ASSUME NEW offered, IsOffer(offered), DOMAIN offered \subseteq Nat,
           NEW s \in SUBSET DOMAIN offered, s # {}
    PROVE  /\ Max(s) \in s
           /\ Add(Ranking(At(offered, s \ {Max(s)}), RankingSize), RankingSize, offered[Max(s)])
                 = Ranking(At(offered, s), RankingSize)
<1> DEFINE o == At(offered, s)
           j == Max(s)
<1>1. IsFiniteSet(s) /\ s \subseteq Nat
    BY FS_Subset DEF IsOffer
<1>2. j \in s /\ \A i \in s : i <= j
    BY <1>1, LastOf
<1>3. DOMAIN o = s /\ \A i \in s : o[i] = offered[i]
    BY DEF At
<1>4. IsOffer(o)
    BY <1>1, <1>3 DEF IsOffer
<1>5. Before(o, j) = At(offered, s \ {j})
    BY <1>2, <1>3 DEF Before, At
<1> HIDE DEF o, j
<1>6. Add(Ranking(Before(o, j), RankingSize), RankingSize, o[j]) = Ranking(o, RankingSize)
    BY <1>2, <1>3, <1>4, AddRanks, RankingAssumption
<1> QED BY <1>2, <1>3, <1>5, <1>6 DEF o, j

LEMMA AddAllRanks ==
    ASSUME NEW offered, IsOffer(offered), DOMAIN offered \subseteq Nat,
           offered = At(offered, DOMAIN offered)
    PROVE  AddAll(offered) = Ranking(offered, RankingSize)
<1> DEFINE D == DOMAIN offered
           R(s) == Ranking(At(offered, s), RankingSize)
           fold == CHOOSE f : f = [s \in SUBSET DOMAIN offered |->
                       IF s = {} THEN <<>> ELSE Add(f[s \ {Max(s)}], RankingSize, offered[Max(s)])]
           rankings == [s \in SUBSET D |-> R(s)]
<1>1. AddAll(offered) = fold[D]
    BY DEF AddAll, FoldLeft, MapThenFoldSet
<1>2. \A s \in SUBSET D :
         R(s) = IF s = {} THEN <<>> ELSE Add(R(s \ {Max(s)}), RankingSize, offered[Max(s)])
  <2> SUFFICES ASSUME NEW s \in SUBSET D
               PROVE  R(s) = IF s = {} THEN <<>> ELSE Add(R(s \ {Max(s)}), RankingSize, offered[Max(s)])
      OBVIOUS
  <2>1. CASE s = {}
    <3>1. DOMAIN At(offered, s) = {}
        BY <2>1 DEF At
    <3> QED BY <2>1, <3>1, RankingOfNothing
  <2>2. CASE s # {}
      BY <2>2, RankingTakesLast
  <2> QED BY <2>1, <2>2
<1> HIDE DEF R
<1>3. rankings = [s \in SUBSET D |->
          IF s = {} THEN <<>> ELSE Add(rankings[s \ {Max(s)}], RankingSize, offered[Max(s)])]
    BY <1>2
<1>4. fold = [s \in SUBSET D |->
          IF s = {} THEN <<>> ELSE Add(fold[s \ {Max(s)}], RankingSize, offered[Max(s)])]
    BY <1>3
<1> HIDE DEF fold, rankings
<1> DEFINE Bad == {n \in Nat : \E s \in SUBSET D : Cardinality(s) = n /\ fold[s] # R(s)}
<1>5. \A s \in SUBSET D : IsFiniteSet(s) /\ Cardinality(s) \in Nat
    BY FS_Subset, FS_CardinalityType DEF IsOffer
<1>6. Bad = {}
  <2> SUFFICES ASSUME Bad # {} PROVE FALSE
      OBVIOUS
  <2>1. PICK n \in Bad : \A m \in Bad : n <= m
    <3>1. Bad \in SUBSET Nat
        OBVIOUS
    <3> HIDE DEF Bad
    <3> QED BY <3>1, LeastNat
  <2>2. PICK s \in SUBSET D : Cardinality(s) = n /\ fold[s] # R(s)
      BY <2>1
  <2>3. fold[s] = IF s = {} THEN <<>> ELSE Add(fold[s \ {Max(s)}], RankingSize, offered[Max(s)])
      BY <1>4
  <2>4. s # {}
      BY <1>2, <2>2, <2>3
  <2>5. Max(s) \in s
      BY <2>4, RankingTakesLast
  <2>6. s \ {Max(s)} \in SUBSET D /\ Cardinality(s \ {Max(s)}) = n - 1 /\ n - 1 \in Nat
      BY <1>5, <2>2, <2>4, <2>5, WithoutOne
  <2>7. n - 1 \notin Bad
      BY <2>1, <2>6
  <2>8. fold[s \ {Max(s)}] = R(s \ {Max(s)})
      BY <2>6, <2>7
  <2> QED BY <1>2, <2>2, <2>3, <2>4, <2>8
<1>7. fold[D] = R(D)
    BY <1>5, <1>6
<1>8. At(offered, D) = offered
    OBVIOUS
<1> QED BY <1>1, <1>7, <1>8 DEF R

-----------------------------------------------------------------------------
(***************************************************************************)
(* The order of the offers does not matter when there is room for all: the *)
(* same entries are listed, so the same changes, and what suspicion goes   *)
(* by, the group that leads them, does not depend on their positions.      *)
(***************************************************************************)
Elements(list) == {list[k] : k \in DOMAIN list}

(* What a test may be offered is an offer in the sense of the rankings. *)
LEMMA OffersAreOffers ==
    ASSUME IsTable(table), IsFiniteSet(DOMAIN table.entry_map), NEW offered \in Offers
    PROVE  /\ IsOffer(offered) /\ DOMAIN offered \subseteq Nat
           /\ offered = At(offered, DOMAIN offered)
           /\ Ranking(offered, RankingSize) \in RankedLists(table)
<1> DEFINE map == table.entry_map
           stacks == {c \in DOMAIN map : map[c] > 0}
           n == Cardinality(stacks)
<1>1. PICK order \in Bijection(1..n, stacks) :
         offered = [i \in DOMAIN order |-> Entry(order[i], map[order[i]])]
    BY DEF Offers
<1>2. n \in Nat /\ IsFiniteSet(1..n)
    BY FS_Subset, FS_CardinalityType, NatInterval
<1>3. order \in [1..n -> stacks]
    BY <1>1 DEF Bijection, Injection
<1>4. Ranking(offered, RankingSize) \in RankedLists(table)
    BY <1>1 DEF RankedLists
<1> HIDE DEF n
<1>5. DOMAIN offered = 1..n /\ offered = At(offered, DOMAIN offered)
    BY <1>1, <1>3 DEF At
<1>6. ASSUME NEW i \in 1..n PROVE offered[i].count \in Int
  <2>1. order[i] \in DOMAIN map /\ map[order[i]] \in Int
      BY <1>3 DEF IsTable
  <2>2. offered[i] = Entry(order[i], map[order[i]])
      BY <1>1, <1>3
  <2> QED BY <2>1, <2>2 DEF Entry
<1> QED BY <1>2, <1>4, <1>5, <1>6 DEF IsOffer

LEMMA RankedListsComplete ==
    ASSUME NEW any, IsTable(any), IsFiniteSet(DOMAIN any.entry_map),
           Cardinality(DOMAIN any.entry_map) <= RankingSize, NEW list \in RankedLists(any)
    PROVE  Elements(list) = {Entry(c, any.entry_map[c]) : c \in DOMAIN any.entry_map}
<1> DEFINE map == any.entry_map
           stacks == {c \in DOMAIN map : map[c] > 0}
           n == Cardinality(stacks)
<1>1. PICK order \in Bijection(1..n, stacks) :
         list = Ranking([i \in DOMAIN order |-> Entry(order[i], map[order[i]])], RankingSize)
    BY DEF RankedLists
<1> DEFINE offered == [i \in DOMAIN order |-> Entry(order[i], map[order[i]])]
<1>2. stacks = DOMAIN map
    BY DEF IsTable
<1>3. n \in Nat /\ IsFiniteSet(1..n) /\ Cardinality(1..n) = n /\ n <= RankingSize /\ RankingSize \in Nat
    BY <1>2, FS_CardinalityType, NatInterval, RankingAssumption
<1>4. order \in [1..n -> stacks] /\ \A c \in stacks : \E i \in 1..n : order[i] = c
    BY <1>1 DEF Bijection, Injection, Surjection
<1> HIDE DEF n
<1>5. DOMAIN offered = 1..n /\ \A i \in 1..n : offered[i] = Entry(order[i], map[order[i]])
    BY <1>4
<1>6. \A i \in 1..n : order[i] \in DOMAIN map /\ map[order[i]] \in Int
    BY <1>2, <1>4 DEF IsTable
<1> HIDE DEF offered
<1>7. IsOffer(offered)
    BY <1>3, <1>5, <1>6 DEF IsOffer, Entry
<1> DEFINE len == RankingLen(offered, RankingSize)
<1>8. len \in Nat /\ list = Ranking(offered, RankingSize) /\ DOMAIN list = 1..len
  <2>1. list = Ranking(offered, RankingSize)
      BY <1>1 DEF offered
  <2>2. DOMAIN Ranking(offered, RankingSize) = 1..len
      BY DEF Ranking
  <2>3. len \in Nat
      BY <1>3, <1>5 DEF RankingLen
  <2> QED BY <2>1, <2>2, <2>3
<1> HIDE DEF len
<1>9. \A k \in 1..len : \E i \in 1..n : list[k] = offered[i]
    BY <1>3, <1>5, <1>7, <1>8, RankingHolds DEF len
<1>10. \A i \in 1..n : \E k \in 1..len : list[k] = offered[i]
    BY <1>3, <1>5, <1>7, <1>8, RankingIsComplete DEF len
<1>11. Elements(list) = {offered[i] : i \in 1..n}
  <2> HIDE DEF map, stacks
  <2> DEFINE places == 1..len
             offers == 1..n
  <2>1. Elements(list) = {list[k] : k \in places}
      BY <1>8 DEF Elements
  <2>2. /\ \A k \in places : \E i \in offers : list[k] = offered[i]
        /\ \A i \in offers : \E k \in places : list[k] = offered[i]
      BY <1>9, <1>10
  <2> HIDE DEF places, offers
  <2>3. Elements(list) = {offered[i] : i \in offers}
      BY <2>1, <2>2
  <2> QED BY <2>3 DEF offers
<1>12. {offered[i] : i \in 1..n} = {Entry(c, map[c]) : c \in DOMAIN map}
    BY <1>2, <1>4, <1>5
<1> QED BY <1>11, <1>12

(* The changes are made from the entries alone. *)
LEMMA SameChanges ==
    ASSUME NEW V, NEW prev, NEW one, NEW other,
           IsListOver(V, prev), IsListOver(V, one), IsListOver(V, other), Elements(one) = Elements(other)
    PROVE  Elements(Deltas(prev, one)) = Elements(Deltas(prev, other))
<1> DEFINE Changes(list) == {Entry(e.value, e.count - PreviousCount(prev, e.value)) :
                                e \in {x \in Elements(list) : WasRanked(prev, x.value)}}
<1>1. ASSUME NEW list, IsListOver(V, list) PROVE Elements(Deltas(prev, list)) = Changes(list)
  <2> DEFINE deltas == Deltas(prev, list)
  <2>1. /\ \A k \in DOMAIN deltas : \E i \in TrackedIn(prev, list) : deltas[k] = Change(prev, list, i)
        /\ \A i \in TrackedIn(prev, list) : \E k \in DOMAIN deltas : deltas[k] = Change(prev, list, i)
      BY <1>1, DeltasAreChanges
  <2> HIDE DEF deltas
  <2>2. Elements(deltas) = {Change(prev, list, i) : i \in TrackedIn(prev, list)}
      BY <2>1 DEF Elements
  <2>3. {Change(prev, list, i) : i \in TrackedIn(prev, list)} = Changes(list)
      BY DEF Change, TrackedIn, Elements
  <2> QED BY <2>2, <2>3 DEF deltas
<1>2. Changes(one) = Changes(other)
    OBVIOUS
<1> QED BY <1>1, <1>2

(* Whatever list of the same entries is given, the group that leads it is the same. *)
LEMMA SameSuspects ==
    ASSUME NEW V, NEW one, NEW other, IsListOver(V, one), IsListOver(V, other),
           Descends(one), Descends(other), DistinctValues(one), DistinctValues(other),
           Elements(one) = Elements(other)
    PROVE  CurrentSuspects(one) = CurrentSuspects(other)
<1> DEFINE S == CurrentSuspects(one)
           T == CurrentSuspects(other)
           Values(entries) == {e.value : e \in entries}
           Leads(entries, group) ==
               /\ group # {} /\ group # Values(entries)
               /\ \A d, e \in entries : d.value \in group /\ e.value \notin group => d.count > 2 * e.count
           Grows(entries) == \E e \in entries : e.count > 0
<1>1. ASSUME NEW list
      PROVE  /\ ListedValues(list) = Values(Elements(list))
             /\ (\E k \in DOMAIN list : list[k].count > 0) <=> Grows(Elements(list))
             /\ \A group : LeadsList(list, group) <=> Leads(Elements(list), group)
    BY DEF ListedValues, LeadsList, Elements
<1>2. ASSUME NEW list, IsListOver(V, list), Descends(list), DistinctValues(list)
      PROVE  LET U == CurrentSuspects(list)
             IN  /\ U \subseteq Values(Elements(list))
                 /\ U # {} => Leads(Elements(list), U) /\ Grows(Elements(list))
                 /\ \A group \in SUBSET Values(Elements(list)) :
                       Leads(Elements(list), group) /\ Grows(Elements(list))
                           => U # {} /\ U \subseteq group
    BY <1>1, <1>2, SuspectsLeadList
<1> DEFINE E == Elements(one)
<1> HIDE DEF S, T, Values, Leads, Grows, E
<1>3. /\ S \subseteq Values(E)
      /\ S # {} => Leads(E, S) /\ Grows(E)
      /\ \A group \in SUBSET Values(E) : Leads(E, group) /\ Grows(E) => S # {} /\ S \subseteq group
    BY <1>2 DEF E, S
<1>4. /\ T \subseteq Values(E)
      /\ T # {} => Leads(E, T) /\ Grows(E)
      /\ \A group \in SUBSET Values(E) : Leads(E, group) /\ Grows(E) => T # {} /\ T \subseteq group
    BY <1>2 DEF E, T
<1>5. S = T
    BY <1>3, <1>4
<1> QED BY <1>5 DEF S, T

-----------------------------------------------------------------------------
(***************************************************************************)
(* The inductive invariant: the table is sound, its analyzer trails its    *)
(* counts, and the entries add up to the calls that were counted.          *)
(***************************************************************************)
TableInv ==
    /\ IsTableOver(Stack, table)
    /\ table.leak_analyzer.score_threshold = ScoreThreshold
    /\ table.num_allocs \in Nat /\ table.num_frees \in Nat
    /\ EntriesAddUp

LEMMA TableFacts ==
    ASSUME TableInv
    PROVE  /\ IsTable(table) /\ DOMAIN table.entry_map \subseteq Stack /\ IsFiniteSet(DOMAIN table.entry_map)
           /\ IsSummable(table.entry_map, DOMAIN table.entry_map)
           /\ \A c \in DOMAIN table.entry_map : table.entry_map[c] \in Nat \ {0}
<1>1. IsTable(table) /\ DOMAIN table.entry_map \subseteq Stack
    BY DEF TableInv, IsTableOver
<1>2. IsFiniteSet(DOMAIN table.entry_map)
    BY <1>1, TableAssumption, FS_Subset
<1>3. \A c \in DOMAIN table.entry_map : table.entry_map[c] \in Nat \ {0}
    BY <1>1 DEF IsTable
<1> QED BY <1>1, <1>2, <1>3 DEF IsSummable

LEMMA InitTableInv == Init => TableInv
<1> SUFFICES ASSUME Init PROVE TableInv
    OBVIOUS
<1>1. table = NewTable(ScoreThreshold)
    BY DEF Init
<1>2. /\ table.leak_analyzer.score_threshold = ScoreThreshold
      /\ table.num_allocs = 0 /\ table.num_frees = 0 /\ DOMAIN table.entry_map = {}
    BY <1>1 DEF NewTable, NewAnalyzer
<1>3. IsTableOver(Stack, table)
    BY <1>1, NewTableIsTable
<1>4. SumFunction(table.entry_map) = 0
  <2>1. IsSummable(table.entry_map, {})
      BY FS_EmptySet DEF IsSummable
  <2> QED BY <1>2, <2>1, SumType DEF SumFunction
<1>5. EntriesAddUp
    BY <1>2, <1>4 DEF EntriesAddUp
<1> QED BY <1>2, <1>3, <1>5 DEF TableInv

(* What a sound table is after a call of Add or Remove. *)
LEMMA StillSound ==
    ASSUME TableInv, NEW new, IsTable(new), DOMAIN new.entry_map \subseteq Stack,
           new.leak_analyzer = table.leak_analyzer
    PROVE  IsTableOver(Stack, new) /\ new.leak_analyzer.score_threshold = ScoreThreshold
    BY DEF TableInv, IsTableOver

LEMMA AddKeepsTableInv == ASSUME TableInv, NEW c \in Stack, AddStack(c) PROVE TableInv'
<1> DEFINE map == table.entry_map
           new == [d \in DOMAIN map \union {c} |-> IF d = c THEN NetOf(table, d) + 1 ELSE map[d]]
<1>1. /\ IsTable(table) /\ DOMAIN map \subseteq Stack /\ IsFiniteSet(DOMAIN map)
      /\ IsSummable(map, DOMAIN map)
      /\ \A d \in DOMAIN map : map[d] \in Nat \ {0}
    BY TableFacts
<1>2. table' = AddToTable(table, c)
    BY DEF AddStack
<1>3. /\ IsTable(table') /\ DOMAIN table'.entry_map = DOMAIN map \union {c}
      /\ table'.leak_analyzer = table.leak_analyzer
    BY <1>1, <1>2, AddToTableStep
<1>4. table'.entry_map = new /\ table'.num_allocs = table.num_allocs + 1 /\ table'.num_frees = table.num_frees
    BY <1>1, <1>2 DEF AddToTable, IsTable
<1>5. IsTableOver(Stack, table') /\ table'.leak_analyzer.score_threshold = ScoreThreshold
  <2>1. DOMAIN table'.entry_map \subseteq Stack
      BY <1>1, <1>3
  <2> QED BY <1>3, <2>1, StillSound
<1>6. \A d \in DOMAIN new : new[d] \in Nat \ {0}
    BY <1>1 DEF NetOf
<1>7. DOMAIN new = DOMAIN map \union {c} /\ IsSummable(new, DOMAIN new)
  <2>1. IsFiniteSet(DOMAIN map \union {c})
      BY <1>1, FS_AddElement
  <2> QED BY <1>6, <2>1 DEF IsSummable
<1>8. SumFunction(map) \in Int
    BY <1>1, SumType DEF SumFunction
<1>9. SumFunction(new) = SumFunction(map) + 1
  <2>1. CASE c \in DOMAIN map
    <3>1. DOMAIN new = DOMAIN map /\ new[c] = map[c] + 1 /\ map[c] \in Int
        BY <1>1, <2>1 DEF NetOf
    <3>2. \A d \in DOMAIN map \ {c} : new[d] = map[d]
        OBVIOUS
    <3> HIDE DEF new, map
    <3>3. SumFunctionOnSet(new, DOMAIN map) = SumFunctionOnSet(map, DOMAIN map) + new[c] - map[c]
        BY <1>1, <1>7, <2>1, <3>1, <3>2, SumWithOneChanged
    <3> QED BY <1>8, <3>1, <3>3 DEF SumFunction
  <2>2. CASE c \notin DOMAIN map
    <3>1. new[c] = 1 /\ \A d \in DOMAIN map : new[d] = map[d]
        BY <2>2 DEF NetOf
    <3> DEFINE D == DOMAIN map
    <3> HIDE DEF new, map
    <3>2. IsSummable(new, D \union {c}) /\ IsSummable(map, D) /\ c \notin D
        BY <1>1, <1>7, <2>2
    <3>3. \A d \in D : new[d] = map[d]
        BY <3>1
    <3> HIDE DEF D
    <3>4. SumFunctionOnSet(map, D) = SumFunctionOnSet(new, D)
        BY <3>2, <3>3, SumOfEquals
    <3>5. c \in D \union {c} /\ (D \union {c}) \ {c} = D
        BY <3>2
    <3>6. SumFunctionOnSet(new, D \union {c}) = new[c] + SumFunctionOnSet(new, D)
        BY <3>2, <3>5, SumTakesAny
    <3>7. SumFunctionOnSet(map, D) \in Int /\ new[c] = 1
        BY <3>1, <3>2, SumType
    <3> QED BY <1>7, <3>4, <3>6, <3>7 DEF SumFunction, D
  <2> QED BY <2>1, <2>2
<1> HIDE DEF new, map
<1>10. /\ table.num_allocs - table.num_frees = SumFunction(map)
       /\ table.num_allocs \in Nat /\ table.num_frees \in Nat
    BY DEF TableInv, EntriesAddUp, map
<1>11. EntriesAddUp'
    BY <1>4, <1>6, <1>8, <1>9, <1>10 DEF EntriesAddUp
<1> QED BY <1>4, <1>5, <1>10, <1>11 DEF TableInv

LEMMA RemoveKeepsTableInv == ASSUME TableInv, NEW c \in Stack, RemoveStack(c) PROVE TableInv'
<1> DEFINE map == table.entry_map
           left == NetOf(table, c) - 1
           remaining == IF left = 0 THEN DOMAIN map \ {c} ELSE DOMAIN map
           new == [d \in remaining |-> IF d = c THEN left ELSE map[d]]
<1>1. /\ IsTable(table) /\ DOMAIN map \subseteq Stack /\ IsFiniteSet(DOMAIN map)
      /\ IsSummable(map, DOMAIN map)
      /\ \A d \in DOMAIN map : map[d] \in Nat \ {0}
    BY TableFacts
<1>2. table' = RemoveFromTable(table, c)
    BY DEF RemoveStack
<1>3. CASE c \notin DOMAIN map
  <2>1. table' = table
      BY <1>2, <1>3 DEF RemoveFromTable
  <2> QED BY <2>1 DEF TableInv, EntriesAddUp
<1>4. CASE c \in DOMAIN map
  <2>1. NetOf(table, c) = map[c] /\ map[c] \in Nat \ {0} /\ NetOf(table, c) > 0 /\ left = map[c] - 1
      BY <1>1, <1>4 DEF NetOf
  <2>2. /\ IsTable(table') /\ DOMAIN table'.entry_map \subseteq DOMAIN map
        /\ table'.leak_analyzer = table.leak_analyzer
      BY <1>1, <1>2, <2>1, RemoveFromTableStep
  <2>3. table'.entry_map = new /\ table'.num_allocs = table.num_allocs /\ table'.num_frees = table.num_frees + 1
      BY <1>1, <1>2, <1>4 DEF RemoveFromTable, IsTable
  <2>4. IsTableOver(Stack, table') /\ table'.leak_analyzer.score_threshold = ScoreThreshold
    <3>1. DOMAIN table'.entry_map \subseteq Stack
        BY <1>1, <2>2
    <3> QED BY <2>2, <3>1, StillSound
  <2>5. \A d \in DOMAIN new : new[d] \in Nat \ {0}
      BY <1>1, <2>1
  <2>6. DOMAIN new = remaining /\ remaining \in SUBSET DOMAIN map
      OBVIOUS
  <2>7. IsSummable(new, DOMAIN new)
    <3>1. IsFiniteSet(remaining)
        BY <1>1, <2>6, FS_Subset
    <3> HIDE DEF new, remaining
    <3> QED BY <2>5, <2>6, <3>1 DEF IsSummable
  <2>8. SumFunction(new) \in Int
      BY <2>7, SumType DEF SumFunction
  <2>9. SumFunction(map) = SumFunction(new) + 1
    <3>1. CASE left = 0
      <4>1. DOMAIN new = DOMAIN map \ {c} /\ c \notin DOMAIN new /\ DOMAIN new \union {c} = DOMAIN map
          BY <1>4, <3>1
      <4>2. map[c] = 1 /\ \A d \in DOMAIN new : map[d] = new[d]
          BY <2>1, <3>1
      <4> HIDE DEF new, map
      <4>3. IsSummable(map, DOMAIN new \union {c})
          BY <1>1, <4>1
      <4>4. SumFunctionOnSet(map, DOMAIN new \union {c}) = SumFunctionOnSet(new, DOMAIN new) + map[c]
          BY <2>7, <4>1, <4>2, <4>3, SumWithOneMore
      <4> QED BY <4>1, <4>2, <4>4 DEF SumFunction
    <3>2. CASE left # 0
      <4>1. DOMAIN new = DOMAIN map /\ new[c] = map[c] - 1 /\ map[c] \in Int
          BY <1>4, <2>1, <3>2
      <4>2. \A d \in DOMAIN new \ {c} : map[d] = new[d]
          BY <3>2
      <4> HIDE DEF new, map
      <4>3. SumFunctionOnSet(map, DOMAIN new) = SumFunctionOnSet(new, DOMAIN new) + map[c] - new[c]
          BY <1>1, <1>4, <2>7, <4>1, <4>2, SumWithOneChanged
      <4> QED BY <2>8, <4>1, <4>3 DEF SumFunction
    <3> QED BY <3>1, <3>2
  <2> HIDE DEF new, map, remaining, left
  <2>10. /\ table.num_allocs - table.num_frees = SumFunction(map)
         /\ table.num_allocs \in Nat /\ table.num_frees \in Nat
      BY DEF TableInv, EntriesAddUp, map
  <2>11. EntriesAddUp'
      BY <2>3, <2>5, <2>8, <2>9, <2>10 DEF EntriesAddUp
  <2> QED BY <2>3, <2>4, <2>10, <2>11 DEF TableInv
<1> QED BY <1>3, <1>4

(***************************************************************************)
(* A test.  The list is one of RankedLists, so that it does to the         *)
(* analyzer what it would do in the detector.                              *)
(***************************************************************************)
LEMMA ListIsRanking ==
    ASSUME TableInv, NEW offered \in Offers
    PROVE  /\ AddAll(offered) = Ranking(offered, RankingSize)
           /\ AddAll(offered) \in RankedLists(table)
<1>1. IsTable(table) /\ IsFiniteSet(DOMAIN table.entry_map)
    BY TableFacts
<1>2. /\ IsOffer(offered) /\ DOMAIN offered \subseteq Nat /\ offered = At(offered, DOMAIN offered)
      /\ Ranking(offered, RankingSize) \in RankedLists(table)
    BY <1>1, OffersAreOffers
<1> QED BY <1>2, AddAllRanks

LEMMA TestKeepsTableInv ==
    ASSUME TableInv, TestForLeaks
    PROVE  /\ TableInv'
           /\ \A c \in SuspectedStacks(table') : NetOf(table, c) > ScoreThreshold
<1>1. PICK offered \in Offers : table' = Sampled(table, AddAll(offered))
    BY DEF TestForLeaks
<1> DEFINE list == AddAll(offered)
           scores == table'.leak_analyzer.suspected_histogram
<1>2. list \in RankedLists(table)
    BY ListIsRanking
<1>3. /\ Stack \in SUBSET Int /\ IsFiniteSet(Stack) /\ IsTableOver(Stack, table)
      /\ table.leak_analyzer.score_threshold = ScoreThreshold /\ ScoreThreshold \in Nat
    BY TableAssumption DEF TableInv
<1>4. /\ IsTableOver(Stack, table') /\ table'.entry_map = table.entry_map
      /\ table'.leak_analyzer.score_threshold = ScoreThreshold
      /\ DOMAIN scores \subseteq DOMAIN table.entry_map
      /\ \A v \in DOMAIN scores : table.entry_map[v] > scores[v]
  <2> HIDE DEF list
  <2> QED BY <1>1, <1>2, <1>3, SampledStep DEF list
<1>5. table'.num_allocs = table.num_allocs /\ table'.num_frees = table.num_frees
  <2>1. IsTable(table)
      BY TableFacts
  <2> QED BY <1>1, <2>1 DEF Sampled, IsTable
<1>6. TableInv'
    BY <1>4, <1>5 DEF TableInv, EntriesAddUp
<1>7. ASSUME NEW c \in SuspectedStacks(table') PROVE NetOf(table, c) > ScoreThreshold
  <2>1. c \in DOMAIN scores /\ scores[c] >= ScoreThreshold /\ scores[c] \in Nat
      BY <1>4 DEF SuspectedStacks, IsTableOver, IsAnalyzerOver
  <2>2. table.entry_map[c] \in Nat /\ c \in DOMAIN table.entry_map
      BY <1>4, <2>1, TableFacts
  <2>3. table.entry_map[c] > scores[c]
      BY <1>4, <2>1
  <2> QED BY <1>3, <2>1, <2>2, <2>3 DEF NetOf
<1> QED BY <1>6, <1>7

LEMMA NextTableInv == TableInv /\ [Next]_vars => TableInv'
<1> SUFFICES ASSUME TableInv, [Next]_vars PROVE TableInv'
    OBVIOUS
<1>1. CASE TestForLeaks
    BY <1>1, TestKeepsTableInv
<1>2. ASSUME NEW c \in Stack, AddStack(c) PROVE TableInv'
    BY <1>2, AddKeepsTableInv
<1>3. ASSUME NEW c \in Stack, RemoveStack(c) PROVE TableInv'
    BY <1>3, RemoveKeepsTableInv
<1>4. CASE UNCHANGED vars
    BY <1>4 DEF vars, TableInv, EntriesAddUp
<1> QED BY <1>1, <1>2, <1>3, <1>4 DEF Next

LEMMA TableInvariance == Spec => []TableInv
<1>1. Init => TableInv
    BY InitTableInv
<1>2. TableInv /\ [Next]_vars => TableInv'
    BY NextTableInv
<1> QED BY <1>1, <1>2, PTL DEF Spec

-----------------------------------------------------------------------------
(***************************************************************************)
(* However many entries a table offers to a list and in which order, calls *)
(* of RankedList::Add leave the top of the ranking in it, entries that     *)
(* were refused or pushed out included (ranked_list.cc, lines 18 to 34).   *)
(***************************************************************************)
THEOREM ListsAlwaysHoldTheTop == Spec => []HoldsTheTop
<1>1. TableInv => HoldsTheTop
    BY ListIsRanking DEF HoldsTheTop
<1> QED BY <1>1, TableInvariance, PTL

(***************************************************************************)
(* The entries of a table always account for the allocations counted and   *)
(* not freed, and none is at zero (call_stack_table.cc, lines 43 to 67).   *)
(***************************************************************************)
THEOREM EntriesAlwaysAddUp == Spec => []EntriesAddUp
<1>1. TableInv => EntriesAddUp
    BY DEF TableInv
<1> QED BY <1>1, TableInvariance, PTL

(***************************************************************************)
(* Tests only suspect call stacks that hold more allocations than the      *)
(* threshold, scores kept while the table was empty included.              *)
(***************************************************************************)
THEOREM SuspectsAlwaysHoldMemory == Spec => SuspectsHoldMemory
<1>1. TableInv /\ [Next]_vars =>
          (num_tests' # num_tests =>
              \A c \in SuspectedStacks(table') : NetOf(table, c) > ScoreThreshold)
  <2> SUFFICES ASSUME TableInv, [Next]_vars, num_tests' # num_tests
               PROVE  \A c \in SuspectedStacks(table') : NetOf(table, c) > ScoreThreshold
      OBVIOUS
  <2>1. TestForLeaks
      BY DEF Next, vars, AddStack, RemoveStack
  <2> QED BY <2>1, TestKeepsTableInv
<1> QED BY <1>1, TableInvariance, PTL DEF Spec, SuspectsHoldMemory

(***************************************************************************)
(* The changes of a sample, and so its suspects, are the same for any two  *)
(* lists of the same entries, as long as the ranking has room for all.     *)
(***************************************************************************)
LEMMA OrderIsIndifferent ==
    ASSUME TableInv, Cardinality(DOMAIN table.entry_map) <= RankingSize,
           NEW one \in RankedLists(table), NEW other \in RankedLists(table)
    PROVE  Sampled(table, one).leak_analyzer.suspected_histogram
               = Sampled(table, other).leak_analyzer.suspected_histogram
<1> DEFINE analyzer == table.leak_analyzer
           prev == analyzer.ranked_entries
<1>1. /\ IsTable(table) /\ DOMAIN table.entry_map \subseteq Stack
      /\ IsFiniteSet(DOMAIN table.entry_map) /\ IsListOver(Stack, prev)
    BY TableFacts DEF TableInv, IsTableOver, IsAnalyzerOver
<1>2. Elements(one) = Elements(other)
    BY <1>1, RankedListsComplete
<1>3. /\ IsListOver(Stack, one) /\ DistinctValues(one)
      /\ IsListOver(Stack, other) /\ DistinctValues(other)
    BY <1>1, RankedListsShape
<1>4. Elements(Deltas(prev, one)) = Elements(Deltas(prev, other))
    BY <1>1, <1>2, <1>3, SameChanges
<1>5. ASSUME NEW list, IsListOver(Stack, list), DistinctValues(list)
      PROVE  IsListOver(Stack, Deltas(prev, list)) /\ Descends(Deltas(prev, list)) /\ DistinctValues(Deltas(prev, list))
    BY <1>1, <1>5, DeltasShape, DeltasAreChanges DEF Descends
<1>6. CurrentSuspects(Deltas(prev, one)) = CurrentSuspects(Deltas(prev, other))
    BY <1>3, <1>4, <1>5, SameSuspects
<1>7. ASSUME NEW list
      PROVE  Sampled(table, list).leak_analyzer.suspected_histogram
                 = UpdatedHistogram(analyzer.suspected_histogram, CurrentSuspects(Deltas(prev, list)))
    BY <1>1 DEF Sampled, AddSample, IsTable
<1> QED BY <1>6, <1>7

(***************************************************************************)
(* The order in which the hash map yields its entries never decides which  *)
(* scores rise, as long as the ranking has room for all call stacks        *)
(* (call_stack_table.cc, line 99).                                         *)
(***************************************************************************)
THEOREM OrderNeverDecides == Spec => []OrderDoesNotDecide
<1>1. TableInv => OrderDoesNotDecide
    BY OrderIsIndifferent DEF OrderDoesNotDecide
<1> QED BY <1>1, TableInvariance, PTL

-----------------------------------------------------------------------------
(***************************************************************************)
(* The texts in the buffer.  As long as the lengths come to less than the  *)
(* buffer has, nothing is cut, and what the program takes to be left is    *)
(* what is left.                                                           *)
(***************************************************************************)
Out == [left : Int, at : Int, written : Int]

(* A buffer with at most n characters in it. *)
Holds(out, n) ==
    /\ out \in Out
    /\ out.at \in 0..n /\ out.left = BufferSize - out.at
    /\ out.written \in 0..(out.at + 1)

(* The longest line of a ranked entry, name of a suspect and line of a frame. *)
EntryMax == Padded(PointerLen) + 26

NameMax == PointerLen + 2

FrameMax == FrameLen + 2

(***************************************************************************)
(* The condition on the buffer: numbers have up to ten digits, so the      *)
(* counts of a table take 162 characters and the titles 62, there are as   *)
(* many entries as the ranking has places, one suspect less, and the       *)
(* frames of one report, of the deepest call stack.                        *)
(***************************************************************************)
BufferIsLarge ==
    /\ BufferSize > 162 + 62 + 1 + RankingSize * EntryMax + (RankingSize - 1) * NameMax
    /\ BufferSize > 44 + PointerLen + Depth * FrameMax

LEMMA TextFits ==
    ASSUME NEW n \in Nat, NEW out, Holds(out, n), NEW max \in Nat, NEW len \in 0..max, n + max < BufferSize
    PROVE  /\ Holds(Snprintf(out, len), n + max)
           /\ Holds(IfRoom(out, len), n + max)
<1>1. /\ out.at \in Nat /\ out.at <= n /\ out.left = BufferSize - out.at
      /\ out.written \in Nat /\ out.written <= out.at + 1
    BY DEF Holds
<1>2. SizeModulus \in Nat /\ BufferSize \in 1..(SizeModulus - 1)
    BY BufferAssumption
<1>3. len < out.left /\ out.left - len \in 1..BufferSize /\ out.left - len < SizeModulus
    BY <1>1, <1>2
<1>4. (out.left - len) % SizeModulus = out.left - len
    BY <1>2, <1>3
<1>5. Snprintf(out, len) = [left    |-> out.left - len,
                            at      |-> out.at + len,
                            written |-> IF out.at + (len + 1) > out.written THEN out.at + (len + 1) ELSE out.written]
    BY <1>3, <1>4 DEF Snprintf
<1>6. Holds(Snprintf(out, len), n + max)
    BY <1>1, <1>2, <1>5 DEF Holds, Out
<1>7. Holds(out, n + max)
    BY <1>1, <1>2 DEF Holds
<1> QED BY <1>6, <1>7 DEF IfRoom

LEMMA NumLenIs == \A n : NumLen(n) \in 1..10
<1> SUFFICES ASSUME NEW n PROVE NumLen(n) \in 1..10
    OBVIOUS
<1> DEFINE S == {d \in 1..9 : n >= 10^d}
<1>1. S \in SUBSET (1..9) /\ IsFiniteSet(1..9) /\ Cardinality(1..9) = 9
    BY NatInterval
<1> HIDE DEF S
<1>2. Cardinality(S) <= Cardinality(1..9) /\ Cardinality(S) \in Nat
    BY <1>1, FS_Subset, FS_CardinalityType
<1>3. NumLen(n) = 1 + Cardinality(S)
    BY DEF NumLen, S
<1> QED BY <1>1, <1>2, <1>3

LEMMA LengthTypes ==
    /\ PointerLen \in Nat /\ FrameLen \in Nat /\ Depth \in Nat
    /\ EntryMax \in Nat /\ NameMax \in Nat /\ FrameMax \in Nat
    /\ \A len \in Nat : Padded(len) \in Nat /\ len <= Padded(len)
    /\ \A n : Padded(NumLen(n)) = 10
<1>1. PointerLen \in Nat /\ FrameLen \in Nat /\ Depth \in Nat
    BY BufferAssumption
<1> QED BY <1>1, NumLenIs DEF EntryMax, NameMax, FrameMax, Padded

(***************************************************************************)
(* A loop over n texts, as FoldLeft goes through it: what the buffer holds *)
(* after the texts of any of the positions, one text after the other.      *)
(***************************************************************************)
Writes(step, n, base, f) ==
    f = [s \in SUBSET (1..n) |-> IF s = {} THEN base ELSE step[f[s \ {Max(s)}], Max(s)]]

LEMMA PositionsAreFew ==
    ASSUME NEW n \in Nat, NEW s \in SUBSET (1..n)
    PROVE  IsFiniteSet(s) /\ Cardinality(s) \in Nat /\ Cardinality(s) <= n
<1>1. IsFiniteSet(1..n) /\ Cardinality(1..n) = n
    BY NatInterval
<1> QED BY <1>1, FS_Subset, FS_CardinalityType

LEMMA LastPosition ==
    ASSUME NEW n \in Nat, NEW s \in SUBSET (1..n), s # {}
    PROVE  /\ Max(s) \in 1..n /\ s \ {Max(s)} \in SUBSET (1..n)
           /\ Cardinality(s \ {Max(s)}) = Cardinality(s) - 1
           /\ Cardinality(s) \in Nat \ {0}
<1>1. IsFiniteSet(s)
    BY PositionsAreFew
<1>2. s \subseteq Nat
    OBVIOUS
<1>3. Max(s) \in s
    BY <1>1, <1>2, LastOf
<1>4. Cardinality(s \ {Max(s)}) = Cardinality(s) - 1 /\ Cardinality(s) \in Nat \ {0}
    BY <1>1, <1>3, WithoutOne
<1> QED BY <1>3, <1>4

(* The positions of at most k texts. *)
Few(n, k) == {s \in SUBSET (1..n) : Cardinality(s) <= k}

WritesFew(step, n, base, k, f) ==
    f = [s \in Few(n, k) |-> IF s = {} THEN base ELSE step[f[s \ {Max(s)}], Max(s)]]

LEMMA FewPositions ==
    ASSUME NEW n \in Nat, NEW k \in Nat
    PROVE  /\ Few(n, k) \subseteq Few(n, k + 1)
           /\ \A s \in Few(n, k + 1) : s # {} => s \ {Max(s)} \in Few(n, k) /\ Max(s) \in 1..n
<1>1. ASSUME NEW s \in Few(n, k) PROVE s \in Few(n, k + 1)
  <2>1. Cardinality(s) \in Nat
      BY PositionsAreFew DEF Few
  <2> QED BY <2>1 DEF Few
<1>2. ASSUME NEW s \in Few(n, k + 1), s # {}
      PROVE  s \ {Max(s)} \in Few(n, k) /\ Max(s) \in 1..n
  <2>1. s \in SUBSET (1..n) /\ Cardinality(s) <= k + 1
      BY DEF Few
  <2>2. /\ Max(s) \in 1..n /\ s \ {Max(s)} \in SUBSET (1..n)
        /\ Cardinality(s \ {Max(s)}) = Cardinality(s) - 1
        /\ Cardinality(s) \in Nat \ {0}
      BY <1>2, <2>1, LastPosition
  <2>3. Cardinality(s \ {Max(s)}) <= k
      BY <2>1, <2>2
  <2> QED BY <2>2, <2>3 DEF Few
<1> QED BY <1>1, <1>2

LEMMA OneWriteMore ==
    ASSUME NEW n \in Nat, NEW k \in Nat, NEW base \in Out, NEW step \in [Out \X (1..n) -> Out],
           NEW f \in [Few(n, k) -> Out], WritesFew(step, n, base, k, f)
    PROVE  \E g \in [Few(n, k + 1) -> Out] : WritesFew(step, n, base, k + 1, g)
<1> DEFINE F == Few(n, k)
           G == Few(n, k + 1)
           g == [s \in G |-> IF s = {} THEN base ELSE step[f[s \ {Max(s)}], Max(s)]]
<1>1. /\ F \subseteq G
      /\ \A s \in G : s # {} => s \ {Max(s)} \in F /\ Max(s) \in 1..n
    BY FewPositions
<1>2. f = [s \in F |-> IF s = {} THEN base ELSE step[f[s \ {Max(s)}], Max(s)]] /\ f \in [F -> Out]
    BY DEF WritesFew
<1> HIDE DEF F, G, Out
<1>3. \A s \in F : g[s] = f[s]
    BY <1>1, <1>2
<1>4. ASSUME NEW s \in G, s # {}
      PROVE  step[f[s \ {Max(s)}], Max(s)] = step[g[s \ {Max(s)}], Max(s)]
  <2>1. g[s \ {Max(s)}] = f[s \ {Max(s)}]
      BY <1>1, <1>3, <1>4
  <2> HIDE DEF g
  <2> QED BY <2>1
<1>5. \A s \in G : s # {} => step[f[s \ {Max(s)}], Max(s)] \in Out
  <2> SUFFICES ASSUME NEW s \in G, s # {} PROVE step[f[s \ {Max(s)}], Max(s)] \in Out
      OBVIOUS
  <2>1. f[s \ {Max(s)}] \in Out /\ Max(s) \in 1..n
      BY <1>1, <1>2
  <2>2. <<f[s \ {Max(s)}], Max(s)>> \in Out \X (1..n)
      BY <2>1
  <2> QED BY <2>2
<1>6. g \in [G -> Out]
    BY <1>5
<1>7. g = [s \in G |-> IF s = {} THEN base ELSE step[g[s \ {Max(s)}], Max(s)]]
  <2> DEFINE V(s) == IF s = {} THEN base ELSE step[f[s \ {Max(s)}], Max(s)]
             W(s) == IF s = {} THEN base ELSE step[g[s \ {Max(s)}], Max(s)]
  <2>1. \A s \in G : V(s) = W(s)
    <3> HIDE DEF g
    <3> QED BY <1>4
  <2>2. g = [s \in G |-> V(s)]
      OBVIOUS
  <2> HIDE DEF V, W, g
  <2>3. g = [s \in G |-> W(s)]
      BY <2>1, <2>2
  <2> QED BY <2>3 DEF W
<1> HIDE DEF g
<1> QED BY <1>6, <1>7 DEF WritesFew, G

LEMMA WritesExist ==
    ASSUME NEW n \in Nat, NEW base \in Out, NEW step \in [Out \X (1..n) -> Out]
    PROVE  \E f \in [SUBSET (1..n) -> Out] : Writes(step, n, base, f)
<1> DEFINE P(k) == \E f \in [Few(n, k) -> Out] : WritesFew(step, n, base, k, f)
           Bad == {k \in Nat : ~P(k)}
<1>1. P(0)
  <2> DEFINE f == [s \in Few(n, 0) |-> base]
  <2>1. ASSUME NEW s \in Few(n, 0) PROVE s = {}
    <3>1. s \in SUBSET (1..n) /\ Cardinality(s) <= 0
        BY DEF Few
    <3>2. s # {} => Cardinality(s) \in Nat \ {0}
        BY <3>1, LastPosition
    <3> QED BY <3>1, <3>2
  <2>2. f \in [Few(n, 0) -> Out] /\ WritesFew(step, n, base, 0, f)
      BY <2>1 DEF WritesFew
  <2> QED BY <2>2
<1>2. ASSUME NEW k \in Nat, P(k) PROVE P(k + 1)
    BY <1>2, OneWriteMore
<1> HIDE DEF P
<1>3. Bad = {}
  <2> SUFFICES ASSUME Bad # {} PROVE FALSE
      OBVIOUS
  <2>1. PICK k \in Bad : \A m \in Bad : k <= m
    <3>1. Bad \in SUBSET Nat
        OBVIOUS
    <3> HIDE DEF Bad
    <3> QED BY <3>1, LeastNat
  <2>2. k \in Nat /\ ~P(k) /\ k # 0
      BY <1>1
  <2>3. k - 1 \in Nat /\ k - 1 \notin Bad
      BY <2>1, <2>2
  <2>4. P(k - 1)
      BY <2>3
  <2>5. P((k - 1) + 1)
      BY <1>2, <2>3, <2>4
  <2> QED BY <2>2, <2>5
<1>4. Few(n, n) = SUBSET (1..n)
  <2>1. ASSUME NEW s \in SUBSET (1..n) PROVE Cardinality(s) <= n
      BY PositionsAreFew
  <2> QED BY <2>1 DEF Few
<1>5. P(n)
    BY <1>3
<1> QED BY <1>4, <1>5 DEF P, WritesFew, Writes

LEMMA SomeTimes ==
    ASSUME NEW k \in Nat, NEW n \in Nat, k <= n, NEW max \in Nat
    PROVE  k * max \in Nat /\ k * max <= n * max
<1>1. (n - k) * max \in Nat /\ k * max \in Nat
    BY n - k \in Nat
<1>2. n * max = k * max + (n - k) * max
    OBVIOUS
<1> QED BY <1>1, <1>2

(* What a loop leaves in the buffer, when no text of it is longer than max. *)
LEMMA LoopFits ==
    ASSUME NEW n \in Nat, NEW max \in Nat, NEW before \in Nat, before + n * max < BufferSize,
           NEW f, Holds(f[{}], before),
           \A s \in SUBSET (1..n), m \in Nat :
               s # {} /\ Holds(f[s \ {Max(s)}], m) /\ m + max < BufferSize => Holds(f[s], m + max)
    PROVE  Holds(f[1..n], before + n * max)
<1> DEFINE Fits(s) == Holds(f[s], before + Cardinality(s) * max)
           Bad == {k \in Nat : \E s \in SUBSET (1..n) : Cardinality(s) = k /\ ~Fits(s)}
<1>1. Bad = {}
  <2> SUFFICES ASSUME Bad # {} PROVE FALSE
      OBVIOUS
  <2>1. PICK k \in Bad : \A m \in Bad : k <= m
    <3>1. Bad \in SUBSET Nat
        OBVIOUS
    <3> HIDE DEF Bad
    <3> QED BY <3>1, LeastNat
  <2>2. PICK s \in SUBSET (1..n) : Cardinality(s) = k /\ ~Fits(s)
      BY <2>1
  <2>3. s # {}
    <3>1. ASSUME s = {} PROVE Fits(s)
      <4>1. Cardinality(s) = 0
          BY <3>1, FS_EmptySet
      <4>2. before + 0 * max = before
          OBVIOUS
      <4> QED BY <3>1, <4>1, <4>2
    <3> QED BY <2>2, <3>1
  <2>4. /\ s \ {Max(s)} \in SUBSET (1..n) /\ Cardinality(s \ {Max(s)}) = k - 1
        /\ k \in 1..n /\ k - 1 \in Nat
    <3>1. k \in Nat /\ k <= n
        BY <2>2, PositionsAreFew
    <3>2. /\ s \ {Max(s)} \in SUBSET (1..n) /\ Cardinality(s \ {Max(s)}) = Cardinality(s) - 1
          /\ Cardinality(s) \in Nat \ {0}
        BY <2>3, LastPosition
    <3> QED BY <2>2, <3>1, <3>2
  <2>5. Fits(s \ {Max(s)})
    <3>1. k - 1 \notin Bad
        BY <2>1, <2>4
    <3> QED BY <2>4, <3>1
  <2>6. PICK m \in Nat : m = before + (k - 1) * max
      BY <2>4, SomeTimes
  <2>7. m + max = before + k * max
    <3>1. k * max = (k - 1) * max + max
        BY <2>4
    <3>2. (k - 1) * max \in Nat /\ k * max \in Nat
        BY <2>4, SomeTimes
    <3> QED BY <2>6, <3>1, <3>2
  <2>8. m + max < BufferSize
    <3>1. k * max \in Nat /\ n * max \in Nat /\ k * max <= n * max /\ BufferSize \in Nat
        BY <2>4, SomeTimes, BufferAssumption
    <3> QED BY <2>7, <3>1
  <2>9. Holds(f[s \ {Max(s)}], m)
      BY <2>4, <2>5, <2>6
  <2>10. Holds(f[s], m + max)
      BY <2>3, <2>8, <2>9
  <2> QED BY <2>2, <2>7, <2>10
<1>2. Cardinality(1..n) = n /\ 1..n \in SUBSET (1..n)
    BY NatInterval
<1> QED BY <1>1, <1>2

LEMMA HoldsMore ==
    ASSUME NEW n \in Nat, NEW m \in Nat, n <= m, NEW out, Holds(out, n) PROVE Holds(out, m)
    BY DEF Holds

LEMMA TextIsOut ==
    ASSUME NEW out \in Out, NEW len \in Nat
    PROVE  Snprintf(out, len) \in Out /\ IfRoom(out, len) \in Out
<1>1. SizeModulus \in Nat /\ SizeModulus > 0
    BY BufferAssumption
<1>2. out.left \in Int /\ out.at \in Int /\ out.written \in Int
    BY DEF Out
<1>3. (out.left - len) % SizeModulus \in Int
    BY <1>1, <1>2
<1>4. Snprintf(out, len) \in Out
    BY <1>2, <1>3 DEF Snprintf, Out
<1> QED BY <1>4 DEF IfRoom

LEMMA EntryLength ==
    ASSUME NEW analyzer, NEW entry PROVE EntryLen(analyzer, entry) \in 0..EntryMax
<1>1. Padded(PointerLen) \in Nat /\ Padded(NumLen(entry.count)) = 10
    BY LengthTypes
<1> QED BY <1>1 DEF EntryLen, EntryMax

(***************************************************************************)
(* The three loops.  FoldLeft chooses the function that Writes describes,  *)
(* which exists because every text leaves a buffer.                        *)
(***************************************************************************)
LEMMA RankingFits ==
    ASSUME NEW V, NEW analyzer, IsListOver(V, analyzer.ranked_entries),
           NEW before \in Nat, NEW out, Holds(out, before),
           before + 39 + RankingSize * EntryMax < BufferSize
    PROVE  Holds(DumpRanking(analyzer, out), before + 39 + RankingSize * EntryMax)
<1> DEFINE entries == analyzer.ranked_entries
           n == Len(entries)
           titled == IfRoom(out, 10 + NumLen(Len(entries)) + 1 + TypeNameLen + 8)
           Line(o, i) == IF entries[i].count = 0 THEN o ELSE IfRoom(o, EntryLen(analyzer, entries[i]))
           fold == CHOOSE f : f = [s \in SUBSET DOMAIN entries |->
                                      IF s = {} THEN titled ELSE Line(f[s \ {Max(s)}], Max(s))]
           step == [p \in Out \X (1..n) |-> Line(p[1], p[2])]
<1>1. n \in Nat /\ n <= RankingSize /\ RankingSize \in Nat /\ DOMAIN entries = 1..n /\ EntryMax \in Nat
  <2>1. entries \in Seq([value : V, count : Int]) /\ Len(entries) <= RankingSize
      BY DEF IsListOver
  <2>2. EntryMax \in Nat
      BY LengthTypes
  <2> HIDE DEF entries
  <2> QED BY <2>1, <2>2, RankingAssumption
<1>2. DumpRanking(analyzer, out) = IF entries = <<>> THEN out ELSE fold[1..n]
  <2>1. DOMAIN entries = 1..n
      BY <1>1
  <2> QED BY <2>1 DEF DumpRanking, FoldLeft, MapThenFoldSet
<1>3. n * EntryMax \in Nat /\ n * EntryMax <= RankingSize * EntryMax /\ RankingSize * EntryMax \in Nat
    BY <1>1, SomeTimes
<1>4. Holds(titled, before + 39)
  <2> DEFINE digits == NumLen(Len(entries))
  <2>1. digits \in 1..10
      BY NumLenIs
  <2> HIDE DEF digits
  <2>2. 10 + digits + 1 + TypeNameLen + 8 \in 0..39
      BY <2>1 DEF TypeNameLen
  <2>3. before + 39 < BufferSize
      BY <1>3, BufferAssumption
  <2>4. Holds(IfRoom(out, 10 + digits + 1 + TypeNameLen + 8), before + 39)
      BY <2>2, <2>3, TextFits
  <2> QED BY <2>4 DEF digits
<1>5. titled \in Out /\ before + 39 \in Nat
    BY <1>4 DEF Holds
<1>6. \A i : EntryLen(analyzer, entries[i]) \in 0..EntryMax /\ EntryLen(analyzer, entries[i]) \in Nat
    BY <1>1, EntryLength
<1> HIDE DEF titled, n, entries
<1>7. \A o \in Out : \A i \in 1..n : Line(o, i) \in Out
    BY <1>6, TextIsOut
<1>8. step \in [Out \X (1..n) -> Out]
    BY <1>7
<1>9. PICK f \in [SUBSET (1..n) -> Out] : Writes(step, n, titled, f)
  <2> HIDE DEF step
  <2> QED BY <1>1, <1>5, <1>8, WritesExist
<1>10. \A s \in SUBSET (1..n) : s # {} =>
          step[f[s \ {Max(s)}], Max(s)] = Line(f[s \ {Max(s)}], Max(s))
  <2> SUFFICES ASSUME NEW s \in SUBSET (1..n), s # {}
               PROVE  step[f[s \ {Max(s)}], Max(s)] = Line(f[s \ {Max(s)}], Max(s))
      OBVIOUS
  <2>1. Max(s) \in 1..n /\ s \ {Max(s)} \in SUBSET (1..n)
      BY <1>1, LastPosition
  <2>2. f[s \ {Max(s)}] \in Out
      BY <1>9, <2>1
  <2>3. <<f[s \ {Max(s)}], Max(s)>> \in Out \X (1..n)
      BY <2>1, <2>2
  <2> HIDE DEF Line
  <2> QED BY <2>3
<1>11. f = [s \in SUBSET (1..n) |-> IF s = {} THEN titled ELSE Line(f[s \ {Max(s)}], Max(s))]
  <2> HIDE DEF step, Line
  <2> QED BY <1>9, <1>10 DEF Writes
<1>12. fold = [s \in SUBSET (1..n) |-> IF s = {} THEN titled ELSE Line(fold[s \ {Max(s)}], Max(s))]
  <2> HIDE DEF Line
  <2> QED BY <1>1, <1>11
<1> HIDE DEF fold
<1>13. \A s \in SUBSET (1..n), m \in Nat :
          s # {} /\ Holds(fold[s \ {Max(s)}], m) /\ m + EntryMax < BufferSize => Holds(fold[s], m + EntryMax)
  <2> SUFFICES ASSUME NEW s \in SUBSET (1..n), NEW m \in Nat, s # {},
                      Holds(fold[s \ {Max(s)}], m), m + EntryMax < BufferSize
               PROVE  Holds(fold[s], m + EntryMax)
      OBVIOUS
  <2> DEFINE o == fold[s \ {Max(s)}]
  <2>1. fold[s] = Line(o, Max(s))
      BY <1>12
  <2> HIDE DEF o
  <2>2. Holds(o, m)
      BY DEF o
  <2>3. Holds(o, m + EntryMax)
      BY <1>1, <2>2, HoldsMore
  <2>4. Holds(IfRoom(o, EntryLen(analyzer, entries[Max(s)])), m + EntryMax)
      BY <1>1, <1>6, <2>2, TextFits
  <2> QED BY <2>1, <2>3, <2>4
<1>14. fold[{}] = titled
    BY <1>12
<1>15. Holds(fold[1..n], before + 39 + n * EntryMax)
  <2>1. before + 39 + n * EntryMax < BufferSize
      BY <1>3, BufferAssumption
  <2> QED BY <1>1, <1>4, <1>5, <1>13, <1>14, <2>1, LoopFits
<1>16. Holds(fold[1..n], before + 39 + RankingSize * EntryMax) /\ Holds(out, before + 39 + RankingSize * EntryMax)
    BY <1>3, <1>15, HoldsMore
<1> QED BY <1>2, <1>16

LEMMA SuspectsFit ==
    ASSUME NEW analyzer, Cardinality(analyzer.suspected_leaks) \in 0..(RankingSize - 1),
           NEW before \in Nat, NEW out, Holds(out, before),
           before + 23 + (RankingSize - 1) * NameMax + 1 < BufferSize
    PROVE  Holds(DumpSuspects(analyzer, out), before + 23 + (RankingSize - 1) * NameMax + 1)
<1> DEFINE n == Cardinality(analyzer.suspected_leaks)
           most == (RankingSize - 1) * NameMax
           titled == IfRoom(out, 10 + TypeNameLen + 3)
           positions == [k \in 1..n |-> k]
           NameLen(k) == PointerLen + (IF k > 1 THEN 2 ELSE 0)
           Name(o, i) == Snprintf(o, NameLen(positions[i]))
           fold == CHOOSE f : f = [s \in SUBSET DOMAIN positions |->
                                      IF s = {} THEN titled ELSE Name(f[s \ {Max(s)}], Max(s))]
           step == [p \in Out \X (1..n) |-> Name(p[1], p[2])]
<1>1. n \in Nat /\ n <= RankingSize - 1 /\ RankingSize - 1 \in Nat /\ NameMax \in Nat /\ PointerLen \in Nat
    BY RankingAssumption, LengthTypes
<1>2. /\ n * NameMax \in Nat /\ n * NameMax <= most /\ most \in Nat
      /\ before + 23 + most + 1 < BufferSize /\ BufferSize \in Nat
    BY <1>1, SomeTimes, BufferAssumption
<1> HIDE DEF most
<1>3. DumpSuspects(analyzer, out) =
         IF analyzer.suspected_leaks = {} THEN out
         ELSE IfRoom(IF titled.left > 1 THEN fold[1..n] ELSE titled, 1)
  <2>1. DOMAIN positions = 1..n
      OBVIOUS
  <2> QED BY <2>1 DEF DumpSuspects, FoldLeft, MapThenFoldSet
<1>4. Holds(titled, before + 23)
  <2>1. 10 + TypeNameLen + 3 \in 0..23
      BY DEF TypeNameLen
  <2>2. before + 23 < BufferSize
      BY <1>2
  <2> QED BY <2>1, <2>2, TextFits
<1>5. titled \in Out /\ before + 23 \in Nat
    BY <1>4 DEF Holds
<1>6. \A i \in 1..n : NameLen(positions[i]) \in 0..NameMax /\ NameLen(positions[i]) \in Nat
    BY <1>1 DEF NameMax
<1>7. DOMAIN positions = 1..n
    OBVIOUS
<1> HIDE DEF titled, n, positions, NameLen
<1>8. \A o \in Out : \A i \in 1..n : Name(o, i) \in Out
    BY <1>6, TextIsOut
<1>9. step \in [Out \X (1..n) -> Out]
    BY <1>8
<1>10. PICK f \in [SUBSET (1..n) -> Out] : Writes(step, n, titled, f)
  <2> HIDE DEF step
  <2> QED BY <1>1, <1>5, <1>9, WritesExist
<1>11. \A s \in SUBSET (1..n) : s # {} =>
          step[f[s \ {Max(s)}], Max(s)] = Name(f[s \ {Max(s)}], Max(s))
  <2> SUFFICES ASSUME NEW s \in SUBSET (1..n), s # {}
               PROVE  step[f[s \ {Max(s)}], Max(s)] = Name(f[s \ {Max(s)}], Max(s))
      OBVIOUS
  <2>1. Max(s) \in 1..n /\ s \ {Max(s)} \in SUBSET (1..n)
      BY <1>1, LastPosition
  <2>2. f[s \ {Max(s)}] \in Out
      BY <1>10, <2>1
  <2>3. <<f[s \ {Max(s)}], Max(s)>> \in Out \X (1..n)
      BY <2>1, <2>2
  <2> HIDE DEF Name
  <2> QED BY <2>3
<1>12. f = [s \in SUBSET (1..n) |-> IF s = {} THEN titled ELSE Name(f[s \ {Max(s)}], Max(s))]
  <2> HIDE DEF step, Name
  <2> QED BY <1>10, <1>11 DEF Writes
<1>13. fold = [s \in SUBSET (1..n) |-> IF s = {} THEN titled ELSE Name(fold[s \ {Max(s)}], Max(s))]
  <2> HIDE DEF Name
  <2> QED BY <1>7, <1>12
<1> HIDE DEF fold
<1>14. \A s \in SUBSET (1..n), m \in Nat :
          s # {} /\ Holds(fold[s \ {Max(s)}], m) /\ m + NameMax < BufferSize => Holds(fold[s], m + NameMax)
  <2> SUFFICES ASSUME NEW s \in SUBSET (1..n), NEW m \in Nat, s # {},
                      Holds(fold[s \ {Max(s)}], m), m + NameMax < BufferSize
               PROVE  Holds(fold[s], m + NameMax)
      OBVIOUS
  <2> DEFINE o == fold[s \ {Max(s)}]
  <2>1. fold[s] = Name(o, Max(s))
      BY <1>13
  <2> HIDE DEF o
  <2>2. Holds(o, m)
      BY DEF o
  <2>3. Max(s) \in 1..n
      BY <1>1, LastPosition
  <2>4. NameLen(positions[Max(s)]) \in 0..NameMax
      BY <1>6, <2>3
  <2>5. Holds(Snprintf(o, NameLen(positions[Max(s)])), m + NameMax)
      BY <1>1, <2>2, <2>4, TextFits
  <2> QED BY <2>1, <2>5
<1>15. fold[{}] = titled
    BY <1>13
<1>16. Holds(fold[1..n], before + 23 + n * NameMax)
  <2>1. before + 23 + n * NameMax < BufferSize
      BY <1>2
  <2> QED BY <1>1, <1>4, <1>5, <1>14, <1>15, <2>1, LoopFits
<1>17. Holds(IF titled.left > 1 THEN fold[1..n] ELSE titled, before + 23 + most)
  <2>1. Holds(fold[1..n], before + 23 + most)
      BY <1>2, <1>16, HoldsMore
  <2>2. Holds(titled, before + 23 + most)
      BY <1>2, <1>4, HoldsMore
  <2> QED BY <2>1, <2>2
<1>18. Holds(IfRoom(IF titled.left > 1 THEN fold[1..n] ELSE titled, 1), before + 23 + most + 1)
  <2>1. before + 23 + most \in Nat /\ 1 \in 0..1
      BY <1>2
  <2> QED BY <1>2, <1>17, <2>1, TextFits
<1>19. Holds(out, before + 23 + most + 1)
  <2>1. before + 23 + most + 1 \in Nat /\ before <= before + 23 + most + 1
      BY <1>2
  <2> QED BY <2>1, HoldsMore
<1> QED BY <1>3, <1>18, <1>19 DEF most

LEMMA EmptyBufferHolds == Holds(EmptyBuffer, 0)
    BY BufferAssumption DEF EmptyBuffer, Holds, Out

LEMMA ReportFits ==
    ASSUME NEW size, NEW depth \in Nat, 44 + PointerLen + depth * FrameMax < BufferSize
    PROVE  Holds(ReportText(size, depth), 44 + PointerLen + depth * FrameMax)
<1> DEFINE head == 30 + NumLen(size) + 2 + PointerLen + 2
           before == 44 + PointerLen
           titled == Snprintf(EmptyBuffer, head)
           frames == [frame \in 1..depth |-> frame]
           FrameText(o, i) == Snprintf(o, 1 + FrameLen + 1)
           fold == CHOOSE f : f = [s \in SUBSET DOMAIN frames |->
                                      IF s = {} THEN titled ELSE FrameText(f[s \ {Max(s)}], Max(s))]
           step == [p \in Out \X (1..depth) |-> FrameText(p[1], p[2])]
<1>1. depth \in Nat /\ FrameMax \in Nat /\ before \in Nat /\ 1 + FrameLen + 1 \in 0..FrameMax /\ 1 + FrameLen + 1 \in Nat
    BY LengthTypes DEF FrameMax
<1>2. depth * FrameMax \in Nat /\ BufferSize \in Nat
    BY <1>1, SomeTimes, BufferAssumption
<1>3. DOMAIN frames = 1..depth
    OBVIOUS
<1>4. ReportText(size, depth) = fold[1..depth]
    BY <1>3 DEF ReportText, FoldLeft, MapThenFoldSet
<1>5. Holds(titled, before)
  <2>1. NumLen(size) \in 1..10 /\ PointerLen \in Nat
      BY NumLenIs, LengthTypes
  <2>2. head \in 0..before /\ 0 + before < BufferSize /\ 0 + before = before
      BY <1>2, <2>1
  <2> HIDE DEF head, before
  <2> QED BY <1>1, <2>2, EmptyBufferHolds, TextFits
<1>6. titled \in Out
    BY <1>5 DEF Holds
<1> HIDE DEF titled, frames, before
<1>7. \A o \in Out : \A i \in 1..depth : FrameText(o, i) \in Out
    BY <1>1, TextIsOut
<1>8. step \in [Out \X (1..depth) -> Out]
    BY <1>7
<1>9. PICK f \in [SUBSET (1..depth) -> Out] : Writes(step, depth, titled, f)
  <2> HIDE DEF step
  <2> QED BY <1>1, <1>6, <1>8, WritesExist
<1>10. \A s \in SUBSET (1..depth) : s # {} =>
          step[f[s \ {Max(s)}], Max(s)] = FrameText(f[s \ {Max(s)}], Max(s))
  <2> SUFFICES ASSUME NEW s \in SUBSET (1..depth), s # {}
               PROVE  step[f[s \ {Max(s)}], Max(s)] = FrameText(f[s \ {Max(s)}], Max(s))
      OBVIOUS
  <2>1. Max(s) \in 1..depth /\ s \ {Max(s)} \in SUBSET (1..depth)
      BY <1>1, LastPosition
  <2>2. f[s \ {Max(s)}] \in Out
      BY <1>9, <2>1
  <2>3. <<f[s \ {Max(s)}], Max(s)>> \in Out \X (1..depth)
      BY <2>1, <2>2
  <2> HIDE DEF FrameText
  <2> QED BY <2>3
<1>11. f = [s \in SUBSET (1..depth) |-> IF s = {} THEN titled ELSE FrameText(f[s \ {Max(s)}], Max(s))]
  <2> HIDE DEF step, FrameText
  <2> QED BY <1>9, <1>10 DEF Writes
<1>12. fold = [s \in SUBSET (1..depth) |-> IF s = {} THEN titled ELSE FrameText(fold[s \ {Max(s)}], Max(s))]
  <2> HIDE DEF FrameText
  <2> QED BY <1>3, <1>11
<1> HIDE DEF fold
<1>13. \A s \in SUBSET (1..depth), m \in Nat :
          s # {} /\ Holds(fold[s \ {Max(s)}], m) /\ m + FrameMax < BufferSize => Holds(fold[s], m + FrameMax)
  <2> SUFFICES ASSUME NEW s \in SUBSET (1..depth), NEW m \in Nat, s # {},
                      Holds(fold[s \ {Max(s)}], m), m + FrameMax < BufferSize
               PROVE  Holds(fold[s], m + FrameMax)
      OBVIOUS
  <2> DEFINE o == fold[s \ {Max(s)}]
  <2>1. fold[s] = FrameText(o, Max(s))
      BY <1>12
  <2> HIDE DEF o
  <2>2. Holds(o, m)
      BY DEF o
  <2> QED BY <1>1, <2>1, <2>2, TextFits
<1>14. fold[{}] = titled
    BY <1>12
<1>15. Holds(fold[1..depth], before + depth * FrameMax)
  <2>1. before + depth * FrameMax < BufferSize
      BY DEF before
  <2> QED BY <1>1, <1>5, <1>13, <1>14, <2>1, LoopFits
<1> QED BY <1>4, <1>15 DEF before

LEMMA TableTextFits ==
    ASSUME IsTableOver(Stack, table), BufferIsLarge
    PROVE  Holds(DumpTable(table), BufferSize - 1)
<1> DEFINE analyzer == table.leak_analyzer
           entries == RankingSize * EntryMax
           names == (RankingSize - 1) * NameMax
           len == 29 + NumLen(table.num_allocs) + 1
                + 23 + NumLen(table.num_frees) + 1
                + 27 + NumLen(table.num_allocs - table.num_frees) + 1
                + 39 + NumLen(Cardinality(DOMAIN table.entry_map)) + 1
           counts == Snprintf(EmptyBuffer, len)
<1>1. RankingSize \in Nat \ {0} /\ EntryMax \in Nat /\ NameMax \in Nat /\ BufferSize \in Nat
    BY RankingAssumption, LengthTypes, BufferAssumption
<1>2. /\ entries \in Nat /\ names \in Nat /\ BufferSize - 1 \in Nat
      /\ 162 + 39 + entries + 23 + names + 1 <= BufferSize - 1
  <2>1. entries \in Nat
      BY <1>1, SomeTimes
  <2>2. RankingSize - 1 \in Nat
      BY <1>1
  <2>3. names \in Nat
      BY <1>1, <2>2, SomeTimes
  <2>4. BufferSize > 162 + 62 + 1 + entries + names
      BY DEF BufferIsLarge
  <2> HIDE DEF entries, names
  <2> QED BY <1>1, <2>1, <2>3, <2>4
<1>3. Holds(counts, 162)
  <2> DEFINE a == NumLen(table.num_allocs)
             b == NumLen(table.num_frees)
             c == NumLen(table.num_allocs - table.num_frees)
             d == NumLen(Cardinality(DOMAIN table.entry_map))
  <2>1. a \in 1..10 /\ b \in 1..10 /\ c \in 1..10 /\ d \in 1..10
      BY NumLenIs
  <2> HIDE DEF a, b, c, d
  <2>2. 29 + a + 1 + 23 + b + 1 + 27 + c + 1 + 39 + d + 1 \in 0..162
      BY <2>1
  <2>3. len \in 0..162
      BY <2>2 DEF a, b, c, d
  <2> HIDE DEF len, entries, names
  <2>4. 0 + 162 < BufferSize /\ 0 + 162 = 162
      BY <1>1, <1>2
  <2> QED BY <2>3, <2>4, EmptyBufferHolds, TextFits
<1>4. /\ IsListOver(Stack, analyzer.ranked_entries)
      /\ Cardinality(analyzer.suspected_leaks) \in 0..(RankingSize - 1)
  <2> DEFINE D == DOMAIN analyzer.suspected_histogram
  <2>1. /\ IsListOver(Stack, analyzer.ranked_entries) /\ IsFiniteSet(D) /\ Cardinality(D) < RankingSize
        /\ analyzer.suspected_leaks \subseteq D
      BY DEF IsTableOver, IsAnalyzerOver
  <2>2. Cardinality(analyzer.suspected_leaks) <= Cardinality(D)
        /\ Cardinality(analyzer.suspected_leaks) \in Nat /\ Cardinality(D) \in Nat
      BY <2>1, FS_Subset, FS_CardinalityType
  <2> QED BY <1>1, <2>1, <2>2
<1> HIDE DEF len, counts, analyzer, entries, names
<1>5. Holds(DumpRanking(analyzer, counts), 162 + 39 + entries)
  <2>1. 162 + 39 + entries < BufferSize
      BY <1>1, <1>2
  <2> QED BY <1>3, <1>4, <2>1, RankingFits DEF entries
<1>6. Holds(DumpSuspects(analyzer, DumpRanking(analyzer, counts)), 162 + 39 + entries + 23 + names + 1)
  <2>1. 162 + 39 + entries + 23 + names + 1 < BufferSize /\ 162 + 39 + entries \in Nat
      BY <1>1, <1>2
  <2> QED BY <1>4, <1>5, <2>1, SuspectsFit DEF names
<1>7. /\ Holds(DumpSuspects(analyzer, DumpRanking(analyzer, counts)), BufferSize - 1)
      /\ Holds(counts, BufferSize - 1)
  <2>1. 162 + 39 + entries + 23 + names + 1 \in Nat /\ 162 <= BufferSize - 1
      BY <1>2
  <2> QED BY <1>2, <1>3, <1>6, <2>1, HoldsMore
<1>8. DumpTable(table) = IF counts.left > 1 THEN DumpSuspects(analyzer, DumpRanking(analyzer, counts)) ELSE counts
    BY DEF DumpTable, counts, len, analyzer
<1> QED BY <1>7, <1>8

(***************************************************************************)
(* No dump and no report is cut or written past the end of its buffer,     *)
(* whatever is counted and whoever is suspected, if the buffer has room    *)
(* for the longest: the ranking limits the entries and the suspects        *)
(* (LeakAnalyzer::Dump, lines 40 to 122, and TestForLeaks of the detector, *)
(* lines 246 to 256).                                                      *)
(***************************************************************************)
THEOREM DumpsAlwaysFit == ASSUME BufferIsLarge PROVE Spec => []DumpFits
<1>1. TableInv => DumpFits
  <2> SUFFICES ASSUME TableInv PROVE DumpFits
      OBVIOUS
  <2>1. Holds(DumpTable(table), BufferSize - 1)
      BY TableTextFits DEF TableInv
  <2>2. ASSUME NEW depth \in 1..Depth
        PROVE  Holds(ReportText(AllocSize, depth), BufferSize - 1)
    <3>1. depth \in Nat /\ depth * FrameMax \in Nat /\ depth * FrameMax <= Depth * FrameMax
      <4>1. depth \in Nat /\ Depth \in Nat /\ depth <= Depth /\ FrameMax \in Nat
          BY LengthTypes
      <4> QED BY <4>1, SomeTimes
    <3>2. 44 + PointerLen + Depth * FrameMax < BufferSize
        BY DEF BufferIsLarge
    <3>3. PointerLen \in Nat /\ Depth * FrameMax \in Nat /\ BufferSize \in Nat
        BY LengthTypes, SomeTimes, BufferAssumption
    <3>4. /\ 44 + PointerLen + depth * FrameMax \in Nat /\ BufferSize - 1 \in Nat
          /\ 44 + PointerLen + depth * FrameMax < BufferSize
          /\ 44 + PointerLen + depth * FrameMax <= BufferSize - 1
        BY <3>1, <3>2, <3>3
    <3> QED BY <3>1, <3>4, ReportFits, HoldsMore
  <2>3. ASSUME NEW out, Holds(out, BufferSize - 1)
        PROVE  out.written <= BufferSize /\ out.left \in 1..BufferSize
      BY <2>3, BufferAssumption DEF Holds
  <2> QED BY <2>1, <2>2, <2>3 DEF DumpFits
<1> QED BY <1>1, TableInvariance, PTL
=============================================================================
