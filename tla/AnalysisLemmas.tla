--------------------------- MODULE AnalysisLemmas ---------------------------
(***************************************************************************)
(* What the operators of RankedList, LeakAnalyzer and CallStackTable       *)
(* return, for any finite collection of offered entries, any set V of      *)
(* integer values and any ranking size; and sums over finite sets.         *)
(***************************************************************************)
EXTENDS CallStackTable, FiniteSetTheorems, WellFoundedInduction, TLAPS

(***************************************************************************)
(* Rankings: a sequence of offered entries, every rank being held by       *)
(* exactly one of them.                                                    *)
(***************************************************************************)

(* The numbers up to n are n. *)
LEMMA NatInterval == \A n \in Nat : IsFiniteSet(1..n) /\ Cardinality(1..n) = n
    BY FS_Interval

(* The entries offered to a list: finitely many, with integer counts, in an order. *)
IsOffer(offered) ==
    /\ DOMAIN offered \subseteq Int
    /\ IsFiniteSet(DOMAIN offered)
    /\ \A i \in DOMAIN offered : offered[i].count \in Int

Above(offered, j) == {i \in DOMAIN offered : Outranks(offered, i, j)}

(* Outranks is a strict total order. *)
LEMMA OutranksOrders ==
    ASSUME NEW offered, IsOffer(offered)
    PROVE  \A i, j, k \in DOMAIN offered :
              /\ ~Outranks(offered, i, i)
              /\ Outranks(offered, i, j) /\ Outranks(offered, j, k) => Outranks(offered, i, k)
              /\ i # j => Outranks(offered, i, j) \/ Outranks(offered, j, i)
<1> SUFFICES ASSUME NEW i \in DOMAIN offered, NEW j \in DOMAIN offered, NEW k \in DOMAIN offered
             PROVE  /\ ~Outranks(offered, i, i)
                    /\ Outranks(offered, i, j) /\ Outranks(offered, j, k) => Outranks(offered, i, k)
                    /\ i # j => Outranks(offered, i, j) \/ Outranks(offered, j, i)
    OBVIOUS
<1>1. i \in Int /\ j \in Int /\ k \in Int
    BY DEF IsOffer
<1>2. offered[i].count \in Int /\ offered[j].count \in Int /\ offered[k].count \in Int
    BY DEF IsOffer
<1> QED BY <1>1, <1>2 DEF Outranks

(* A rank is a position among the offered entries. *)
LEMMA RankInRange ==
    ASSUME NEW offered, IsOffer(offered), NEW j \in DOMAIN offered
    PROVE  /\ IsFiniteSet(Above(offered, j))
           /\ Cardinality(Above(offered, j)) \in Nat
           /\ RankOf(offered, j) = Cardinality(Above(offered, j)) + 1
           /\ RankOf(offered, j) \in 1..Cardinality(DOMAIN offered)
<1>1. IsFiniteSet(DOMAIN offered)
    BY DEF IsOffer
<1>2. Above(offered, j) \in SUBSET (DOMAIN offered \ {j})
    BY OutranksOrders DEF Above
<1>3. /\ IsFiniteSet(DOMAIN offered \ {j})
      /\ Cardinality(DOMAIN offered \ {j}) = Cardinality(DOMAIN offered) - 1
    BY <1>1, FS_RemoveElement
<1>4. /\ IsFiniteSet(Above(offered, j))
      /\ Cardinality(Above(offered, j)) <= Cardinality(DOMAIN offered) - 1
    BY <1>2, <1>3, FS_Subset
<1>5. Cardinality(Above(offered, j)) \in Nat /\ Cardinality(DOMAIN offered) \in Nat
    BY <1>1, <1>4, FS_CardinalityType
<1>6. RankOf(offered, j) = Cardinality(Above(offered, j)) + 1
    BY DEF RankOf, Above
<1> QED BY <1>4, <1>5, <1>6

(* The order of the ranks is the order of the entries. *)
LEMMA RankIsMonotone ==
    ASSUME NEW offered, IsOffer(offered), NEW i \in DOMAIN offered, NEW j \in DOMAIN offered,
           Outranks(offered, i, j)
    PROVE  RankOf(offered, i) < RankOf(offered, j)
<1>1. Above(offered, i) \in SUBSET Above(offered, j)
    BY OutranksOrders DEF Above
<1>2. i \in Above(offered, j) \ Above(offered, i)
    BY OutranksOrders DEF Above
<1>3. Cardinality(Above(offered, i)) <= Cardinality(Above(offered, j))
    BY <1>1, RankInRange, FS_Subset
<1>4. Cardinality(Above(offered, i)) # Cardinality(Above(offered, j))
    BY <1>1, <1>2, RankInRange, FS_Subset
<1> QED BY <1>3, <1>4, RankInRange

(* Every rank up to the number of entries is held by exactly one entry. *)
LEMMA RankIsBijective ==
    ASSUME NEW offered, IsOffer(offered)
    PROVE  /\ \A i, j \in DOMAIN offered : RankOf(offered, i) = RankOf(offered, j) => i = j
           /\ \A k \in 1..Cardinality(DOMAIN offered) :
                 \E j \in DOMAIN offered : RankOf(offered, j) = k
<1> DEFINE n == Cardinality(DOMAIN offered)
           rank == [j \in DOMAIN offered |-> RankOf(offered, j)]
<1>1. \A i, j \in DOMAIN offered : RankOf(offered, i) = RankOf(offered, j) => i = j
  <2> SUFFICES ASSUME NEW i \in DOMAIN offered, NEW j \in DOMAIN offered, i # j
               PROVE  RankOf(offered, i) # RankOf(offered, j)
      OBVIOUS
  <2>1. Outranks(offered, i, j) \/ Outranks(offered, j, i)
      BY OutranksOrders
  <2>2. RankOf(offered, i) \in Int /\ RankOf(offered, j) \in Int
      BY RankInRange
  <2> QED BY <2>1, <2>2, RankIsMonotone
<1>2. n \in Nat
    BY FS_CardinalityType DEF IsOffer
<1>3. IsFiniteSet(1..n) /\ Cardinality(1..n) = n
    BY <1>2, FS_Interval
<1>4. rank \in Injection(DOMAIN offered, 1..n)
    BY <1>1, RankInRange DEF Injection, IsInjective
<1>5. rank \in Surjection(DOMAIN offered, 1..n)
    BY <1>3, <1>4, FS_Injection
<1>6. \A k \in 1..n : \E j \in DOMAIN offered : rank[j] = k
    BY <1>5 DEF Surjection
<1> QED BY <1>1, <1>6

(* The shape of a ranking: at most max_size of the offered entries, by rank. *)
LEMMA RankingShape ==
    ASSUME NEW offered, IsOffer(offered), NEW max_size \in Nat,
           NEW T, \A j \in DOMAIN offered : offered[j] \in T
    PROVE  /\ RankingLen(offered, max_size) \in 0..max_size
           /\ RankingLen(offered, max_size) <= Cardinality(DOMAIN offered)
           /\ Ranking(offered, max_size) \in Seq(T)
           /\ Len(Ranking(offered, max_size)) = RankingLen(offered, max_size)
           /\ \A k \in 1..RankingLen(offered, max_size) :
                 \E j \in DOMAIN offered :
                    RankOf(offered, j) = k /\ Ranking(offered, max_size)[k] = offered[j]
<1> DEFINE n == RankingLen(offered, max_size)
           r == Ranking(offered, max_size)
<1>1. n \in 0..max_size /\ n <= Cardinality(DOMAIN offered)
    BY FS_CardinalityType DEF IsOffer, RankingLen
<1>2. Cardinality(DOMAIN offered) \in Nat
    BY FS_CardinalityType DEF IsOffer
<1>3. ASSUME NEW k \in 1..n
      PROVE  \E j \in DOMAIN offered : RankOf(offered, j) = k /\ r[k] = offered[j]
  <2>1. \E j \in DOMAIN offered : RankOf(offered, j) = k
      BY <1>1, <1>2, RankIsBijective
  <2>2. r[k] = offered[CHOOSE j \in DOMAIN offered : RankOf(offered, j) = k]
      BY DEF Ranking
  <2> QED BY <2>1, <2>2
<1>4. r = [k \in 1..n |-> r[k]]
    BY DEF Ranking
<1>5. \A k \in 1..n : r[k] \in T
    BY <1>3
<1>6. r \in [1..n -> T]
    BY <1>4, <1>5
<1>7. r \in Seq(T) /\ Len(r) = n
    BY <1>1, <1>6
<1> QED BY <1>1, <1>3, <1>7

(* Every position of a ranking holds the entry of that rank. *)
LEMMA RankingHolds ==
    ASSUME NEW offered, IsOffer(offered), NEW max_size \in Nat
    PROVE  \A k \in 1..RankingLen(offered, max_size) :
              \E j \in DOMAIN offered :
                 RankOf(offered, j) = k /\ Ranking(offered, max_size)[k] = offered[j]
<1> DEFINE T == {offered[i] : i \in DOMAIN offered}
<1>1. \A i \in DOMAIN offered : offered[i] \in T
    OBVIOUS
<1> HIDE DEF T
<1> QED BY <1>1, RankingShape

(* A ranking is in descending order of count, ties in the order they were offered. *)
LEMMA RankingDescends ==
    ASSUME NEW offered, IsOffer(offered), NEW max_size \in Nat,
           NEW j \in 1..RankingLen(offered, max_size), NEW k \in 1..RankingLen(offered, max_size), j < k
    PROVE  Ranking(offered, max_size)[j].count >= Ranking(offered, max_size)[k].count
<1> DEFINE r == Ranking(offered, max_size)
<1>1. \A n \in 1..RankingLen(offered, max_size) :
         \E i \in DOMAIN offered : RankOf(offered, i) = n /\ r[n] = offered[i]
    BY RankingHolds
<1>2. PICK a \in DOMAIN offered : RankOf(offered, a) = j /\ r[j] = offered[a]
    BY <1>1
<1>3. PICK b \in DOMAIN offered : RankOf(offered, b) = k /\ r[k] = offered[b]
    BY <1>1
<1>4. offered[a].count \in Int /\ offered[b].count \in Int
    BY DEF IsOffer
<1>5. ~Outranks(offered, b, a)
  <2> SUFFICES ASSUME Outranks(offered, b, a) PROVE FALSE
      OBVIOUS
  <2>1. RankOf(offered, b) < RankOf(offered, a)
      BY RankIsMonotone
  <2> QED BY <1>2, <1>3, <2>1
<1> QED BY <1>2, <1>3, <1>4, <1>5 DEF Outranks

(* A ranking with room for all that is offered leaves nothing out. *)
LEMMA RankingIsComplete ==
    ASSUME NEW offered, IsOffer(offered), NEW max_size \in Nat,
           Cardinality(DOMAIN offered) <= max_size, NEW i \in DOMAIN offered
    PROVE  \E k \in 1..RankingLen(offered, max_size) : Ranking(offered, max_size)[k] = offered[i]
<1> DEFINE k == RankOf(offered, i)
<1>1. Cardinality(DOMAIN offered) \in Nat /\ k \in 1..Cardinality(DOMAIN offered)
    BY FS_CardinalityType, RankInRange DEF IsOffer
<1>2. k \in 1..RankingLen(offered, max_size)
    BY <1>1 DEF RankingLen
<1>3. (CHOOSE j \in DOMAIN offered : RankOf(offered, j) = k) = i
    BY RankIsBijective
<1>4. Ranking(offered, max_size)[k] = offered[i]
    BY <1>2, <1>3 DEF Ranking
<1> QED BY <1>2, <1>4

-----------------------------------------------------------------------------
(* A ranked list over the values V, as far as the analyzer relies on it. *)
IsListOver(V, list) ==
    /\ list \in Seq([value : V, count : Int])
    /\ Len(list) <= RankingSize

(* The members of an analyzer over the values V, between two samples. *)
IsAnalyzerOver(V, analyzer) ==
    LET histogram == analyzer.suspected_histogram
    IN  /\ IsListOver(V, analyzer.ranked_entries)
        /\ histogram \in [DOMAIN histogram -> Nat \ {0}]
        /\ DOMAIN histogram \subseteq V
        /\ IsFiniteSet(DOMAIN histogram)
        /\ Cardinality(DOMAIN histogram) < RankingSize
        /\ analyzer.suspected_leaks =
              {v \in DOMAIN histogram : histogram[v] >= analyzer.score_threshold}

(* The suspects of a sample. *)
SuspectsOf(analyzer, list) == CurrentSuspects(Deltas(analyzer.ranked_entries, list))

-----------------------------------------------------------------------------
(* A nonempty set of naturals has a least element. *)
LEMMA LeastNat ==
    ASSUME NEW S \in SUBSET Nat, S # {}
    PROVE  \E x \in S : \A y \in S : x <= y
<1>1. \E x \in S : \A y \in S : ~(<<y, x>> \in OpToRel(<, Nat))
    BY NatLessThanWellFounded, WFMin
<1>2. PICK x \in S : \A y \in S : ~(<<y, x>> \in OpToRel(<, Nat))
    BY <1>1
<1>3. \A y \in S : ~(y < x)
    BY <1>2 DEF OpToRel
<1> QED BY <1>3

-----------------------------------------------------------------------------
(***************************************************************************)
(* Sums over a finite set: SumFunctionOnSet of the community modules takes *)
(* the elements one after the other, as CHOOSE has it.  That there is a    *)
(* function of partial sums, that it is unique, and that any element may   *)
(* be taken first, is shown by taking a smallest set for which it fails.   *)
(***************************************************************************)
One(S) == CHOOSE x \in S : TRUE

(* iter has the partial sums of fun, over the subsets of S. *)
SumsUp(fun, S, iter) ==
    iter = [s \in SUBSET S |-> IF s = {} THEN 0 ELSE fun[One(s)] + iter[s \ {One(s)}]]

IsSummable(fun, S) == IsFiniteSet(S) /\ \A x \in S : fun[x] \in Int

(* The function that SumFunctionOnSet(fun, S) follows. *)
PartialSums(fun, S) == CHOOSE iter : SumsUp(fun, S, iter)

(* A finite set has fewer elements without one of them. *)
LEMMA WithoutOne ==
    ASSUME NEW S, IsFiniteSet(S), S # {}, NEW x \in S
    PROVE  /\ One(S) \in S
           /\ IsFiniteSet(S \ {x}) /\ Cardinality(S \ {x}) = Cardinality(S) - 1
           /\ Cardinality(S) \in Nat \ {0}
<1>1. One(S) \in S
    BY DEF One
<1>2. IsFiniteSet(S \ {x}) /\ Cardinality(S \ {x}) = Cardinality(S) - 1
    BY FS_RemoveElement
<1>3. Cardinality(S) \in Nat /\ Cardinality(S) # 0
    BY FS_CardinalityType, FS_EmptySet
<1> QED BY <1>1, <1>2, <1>3

LEMMA SumExists ==
    ASSUME NEW fun, NEW S, IsSummable(fun, S)
    PROVE  \E iter \in [SUBSET S -> Int] : SumsUp(fun, S, iter)
<1> DEFINE Small(n) == {s \in SUBSET S : Cardinality(s) <= n}
           Step(f, n) == [s \in Small(n) |-> IF s = {} THEN 0 ELSE fun[One(s)] + f[s \ {One(s)}]]
           P(n) == \E f \in [Small(n) -> Int] : f = Step(f, n)
           Bad == {n \in Nat : ~P(n)}
<1>1. \A s \in SUBSET S : IsFiniteSet(s) /\ Cardinality(s) \in Nat
    BY FS_Subset, FS_CardinalityType DEF IsSummable
<1>2. \A s \in SUBSET S : s # {} =>
          /\ One(s) \in s /\ s \ {One(s)} \in SUBSET S
          /\ Cardinality(s \ {One(s)}) = Cardinality(s) - 1
          /\ Cardinality(s) \in Nat \ {0}
          /\ fun[One(s)] \in Int
  <2> SUFFICES ASSUME NEW s \in SUBSET S, s # {}
               PROVE  /\ One(s) \in s /\ s \ {One(s)} \in SUBSET S
                      /\ Cardinality(s \ {One(s)}) = Cardinality(s) - 1
                      /\ Cardinality(s) \in Nat \ {0}
                      /\ fun[One(s)] \in Int
      OBVIOUS
  <2>1. One(s) \in s
      BY DEF One
  <2>2. /\ Cardinality(s \ {One(s)}) = Cardinality(s) - 1
        /\ Cardinality(s) \in Nat \ {0}
      BY <1>1, <2>1, WithoutOne
  <2> QED BY <2>1, <2>2 DEF IsSummable
<1>3. P(0)
  <2>1. ASSUME NEW s \in Small(0) PROVE s = {}
    <3>1. s \in SUBSET S /\ Cardinality(s) <= 0
        OBVIOUS
    <3>2. Cardinality(s) \notin Nat \ {0}
        BY <3>1
    <3> QED BY <1>2, <3>1, <3>2
  <2> DEFINE f == [s \in Small(0) |-> 0]
  <2>2. f \in [Small(0) -> Int]
      OBVIOUS
  <2>3. f = Step(f, 0)
      BY <2>1
  <2> QED BY <2>2, <2>3
<1>4. ASSUME NEW n \in Nat, P(n) PROVE P(n + 1)
  <2>1. PICK f \in [Small(n) -> Int] : f = Step(f, n)
      BY <1>4
  <2> DEFINE g == Step(f, n + 1)
  <2>2. \A s \in Small(n + 1) : s # {} => s \ {One(s)} \in Small(n)
      BY <1>2
  <2>3. \A s \in Small(n) : s \in Small(n + 1)
      BY <1>1
  <2>4. \A s \in Small(n) : g[s] = f[s]
      BY <2>1, <2>3
  <2>5. g \in [Small(n + 1) -> Int]
    <3>1. \A s \in Small(n + 1) : s # {} => fun[One(s)] \in Int /\ f[s \ {One(s)}] \in Int
        BY <1>2, <2>2
    <3> QED BY <3>1
  <2>6. \A s \in Small(n + 1) : s # {} => f[s \ {One(s)}] = g[s \ {One(s)}]
      BY <2>2, <2>4
  <2>7. g = Step(g, n + 1)
    <3>1. \A s \in Small(n + 1) :
              (IF s = {} THEN 0 ELSE fun[One(s)] + f[s \ {One(s)}])
                  = (IF s = {} THEN 0 ELSE fun[One(s)] + g[s \ {One(s)}])
        BY <2>6
    <3> HIDE DEF Small
    <3> QED BY <3>1
  <2> QED BY <2>5, <2>7
<1>5. Bad = {}
  <2> SUFFICES ASSUME Bad # {} PROVE FALSE
      OBVIOUS
  <2>1. PICK n \in Bad : \A m \in Bad : n <= m
    <3>1. Bad \in SUBSET Nat
        OBVIOUS
    <3> HIDE DEF Bad
    <3> QED BY <3>1, LeastNat
  <2> HIDE DEF P
  <2>2. n \in Nat /\ ~P(n) /\ n # 0
      BY <1>3
  <2>3. n - 1 \in Nat /\ n - 1 \notin Bad
      BY <2>1, <2>2
  <2>4. P(n - 1)
      BY <2>3
  <2>5. P((n - 1) + 1)
      BY <1>4, <2>3, <2>4
  <2> QED BY <2>2, <2>5
<1> DEFINE N == Cardinality(S)
<1>6. N \in Nat /\ Small(N) = SUBSET S
  <2>1. \A s \in SUBSET S : Cardinality(s) <= N
      BY FS_Subset DEF IsSummable
  <2> QED BY <1>1, <2>1
<1>7. P(N)
  <2> HIDE DEF P
  <2> QED BY <1>5, <1>6
<1>8. PICK f \in [Small(N) -> Int] : f = Step(f, N)
    BY <1>7
<1> HIDE DEF N
<1> QED BY <1>6, <1>8 DEF SumsUp

(* Such functions agree where their arguments do. *)
LEMMA SumIsUnique ==
    ASSUME NEW S, NEW T, NEW fun, NEW gun, NEW f, NEW g, SumsUp(fun, S, f), SumsUp(gun, T, g),
           NEW U \in SUBSET (S \intersect T), IsFiniteSet(U), \A x \in U : fun[x] = gun[x]
    PROVE  f[U] = g[U]
<1> DEFINE Bad == {n \in Nat : \E s \in SUBSET U : Cardinality(s) = n /\ f[s] # g[s]}
<1>1. \A s \in SUBSET U : IsFiniteSet(s) /\ Cardinality(s) \in Nat
    BY FS_Subset, FS_CardinalityType
<1>2. SUFFICES ASSUME Bad # {} PROVE FALSE
    BY <1>1
<1>3. PICK n \in Bad : \A m \in Bad : n <= m
  <2>1. Bad \in SUBSET Nat
      OBVIOUS
  <2> HIDE DEF Bad
  <2> QED BY <1>2, <2>1, LeastNat
<1>4. PICK s \in SUBSET U : Cardinality(s) = n /\ f[s] # g[s]
    BY <1>3
<1>5. f[s] = IF s = {} THEN 0 ELSE fun[One(s)] + f[s \ {One(s)}]
    BY DEF SumsUp
<1>6. g[s] = IF s = {} THEN 0 ELSE gun[One(s)] + g[s \ {One(s)}]
    BY DEF SumsUp
<1>7. s # {}
    BY <1>4, <1>5, <1>6
<1>8. /\ One(s) \in s
      /\ Cardinality(s \ {One(s)}) = n - 1
      /\ n \in Nat \ {0}
  <2>1. IsFiniteSet(s) /\ One(s) \in s
      BY <1>1, <1>7 DEF One
  <2> QED BY <1>4, <1>7, <2>1, WithoutOne
<1>9. f[s \ {One(s)}] = g[s \ {One(s)}]
  <2>1. n - 1 \in Nat /\ n - 1 \notin Bad
      BY <1>3, <1>8
  <2> QED BY <1>8, <2>1
<1>10. fun[One(s)] = gun[One(s)]
    BY <1>8
<1> HIDE DEF Bad
<1> QED BY <1>4, <1>5, <1>6, <1>9, <1>10

(* The sum over a set is what this function comes to. *)
LEMMA SumIs ==
    ASSUME NEW fun, NEW S, IsSummable(fun, S)
    PROVE  /\ PartialSums(fun, S) \in [SUBSET S -> Int]
           /\ SumsUp(fun, S, PartialSums(fun, S))
           /\ SumFunctionOnSet(fun, S) = PartialSums(fun, S)[S]
<1> DEFINE iter == CHOOSE f : f = [s \in SUBSET S |-> IF s = {} THEN 0 ELSE fun[One(s)] + f[s \ {One(s)}]]
           sums == PartialSums(fun, S)
<1>1. SumFunctionOnSet(fun, S) = iter[S]
    BY DEF SumFunctionOnSet, FoldFunctionOnSet, MapThenFoldSet, One
<1>2. PICK f \in [SUBSET S -> Int] : SumsUp(fun, S, f)
    BY SumExists
<1>3. SumsUp(fun, S, sums)
    BY <1>2 DEF PartialSums
<1>4. SumsUp(fun, S, iter)
  <2>1. f = [s \in SUBSET S |-> IF s = {} THEN 0 ELSE fun[One(s)] + f[s \ {One(s)}]]
      BY <1>2 DEF SumsUp
  <2> QED BY <2>1 DEF SumsUp
<1> HIDE DEF iter, sums
<1>5. \A s \in SUBSET S : IsFiniteSet(s)
    BY FS_Subset DEF IsSummable
<1>6. \A s \in SUBSET S : sums[s] = f[s] /\ sums[s] = iter[s]
    BY <1>2, <1>3, <1>4, <1>5, SumIsUnique
<1>7. sums = [s \in SUBSET S |-> sums[s]]
    BY <1>3 DEF SumsUp
<1>8. sums \in [SUBSET S -> Int]
  <2>1. \A s \in SUBSET S : f[s] \in Int
      BY <1>2
  <2> QED BY <1>6, <1>7, <2>1
<1>9. iter[S] = sums[S]
    BY <1>6
<1> QED BY <1>1, <1>3, <1>8, <1>9 DEF sums

(* Sums are integers, that of nothing is zero, and they only depend on what is summed up. *)
LEMMA SumType ==
    ASSUME NEW fun, NEW S, IsSummable(fun, S)
    PROVE  /\ SumFunctionOnSet(fun, S) \in Int
           /\ S = {} => SumFunctionOnSet(fun, S) = 0
<1> DEFINE f == PartialSums(fun, S)
<1>1. f \in [SUBSET S -> Int] /\ SumsUp(fun, S, f) /\ SumFunctionOnSet(fun, S) = f[S]
    BY SumIs
<1> HIDE DEF f
<1>2. f[S] \in Int
    BY <1>1
<1>3. f[S] = IF S = {} THEN 0 ELSE fun[One(S)] + f[S \ {One(S)}]
    BY <1>1 DEF SumsUp
<1> QED BY <1>1, <1>2, <1>3

LEMMA SumOfEquals ==
    ASSUME NEW fun, NEW gun, NEW S, IsSummable(fun, S), \A x \in S : fun[x] = gun[x]
    PROVE  SumFunctionOnSet(fun, S) = SumFunctionOnSet(gun, S)
<1>1. IsSummable(gun, S) /\ IsFiniteSet(S)
    BY DEF IsSummable
<1>2. SumsUp(fun, S, PartialSums(fun, S)) /\ SumFunctionOnSet(fun, S) = PartialSums(fun, S)[S]
    BY SumIs
<1>3. SumsUp(gun, S, PartialSums(gun, S)) /\ SumFunctionOnSet(gun, S) = PartialSums(gun, S)[S]
    BY <1>1, SumIs
<1>4. PartialSums(fun, S)[S] = PartialSums(gun, S)[S]
    BY <1>1, <1>2, <1>3, SumIsUnique
<1> QED BY <1>2, <1>3, <1>4

(* Any element can be taken from a sum first, not only the one that the definition takes. *)
LEMMA SumTakesOne ==
    ASSUME NEW fun, NEW S, IsSummable(fun, S), S # {}
    PROVE  SumFunctionOnSet(fun, S) = fun[One(S)] + SumFunctionOnSet(fun, S \ {One(S)})
<1> DEFINE R == S \ {One(S)}
           f == PartialSums(fun, S)
           g == PartialSums(fun, R)
<1>1. SumsUp(fun, S, f) /\ SumFunctionOnSet(fun, S) = f[S]
    BY SumIs
<1>2. R \in SUBSET S /\ R \in SUBSET (S \intersect R) /\ IsFiniteSet(R)
    BY FS_Subset DEF IsSummable
<1>3. IsSummable(fun, R)
    BY <1>2 DEF IsSummable
<1>4. f[S] = fun[One(S)] + f[R]
    BY <1>1 DEF SumsUp
<1> HIDE DEF R, f
<1>5. SumsUp(fun, R, g) /\ SumFunctionOnSet(fun, R) = g[R]
    BY <1>3, SumIs
<1> HIDE DEF g
<1>6. f[R] = g[R]
    BY <1>1, <1>2, <1>5, SumIsUnique
<1> QED BY <1>1, <1>4, <1>5, <1>6 DEF R

LEMMA SumTakesAny ==
    ASSUME NEW fun, NEW S, IsSummable(fun, S), NEW x \in S
    PROVE  SumFunctionOnSet(fun, S) = fun[x] + SumFunctionOnSet(fun, S \ {x})
<1> DEFINE Holds(s) == \A y \in s : SumFunctionOnSet(fun, s) = fun[y] + SumFunctionOnSet(fun, s \ {y})
           Bad == {n \in Nat : \E s \in SUBSET S : Cardinality(s) = n /\ ~Holds(s)}
<1>1. \A s \in SUBSET S : IsFiniteSet(s) /\ Cardinality(s) \in Nat
    BY FS_Subset, FS_CardinalityType DEF IsSummable
<1>2. SUFFICES ASSUME Bad # {} PROVE FALSE
  <2>1. Bad = {} => Holds(S)
      BY <1>1
  <2> QED BY <2>1
<1>3. PICK n \in Bad : \A m \in Bad : n <= m
  <2>1. Bad \in SUBSET Nat
      OBVIOUS
  <2> HIDE DEF Bad
  <2> QED BY <1>2, <2>1, LeastNat
<1>4. PICK s \in SUBSET S : Cardinality(s) = n /\ ~Holds(s)
    BY <1>3
<1>5. ASSUME NEW y \in s
      PROVE  SumFunctionOnSet(fun, s) = fun[y] + SumFunctionOnSet(fun, s \ {y})
  <2> DEFINE c == One(s)
  <2>1. IsFiniteSet(s) /\ s # {} /\ IsSummable(fun, s)
      BY <1>1, <1>5 DEF IsSummable
  <2>2. c \in s /\ n \in Nat \ {0}
      BY <1>4, <2>1, WithoutOne
  <2>3. SumFunctionOnSet(fun, s) = fun[c] + SumFunctionOnSet(fun, s \ {c})
      BY <2>1, SumTakesOne
  <2> HIDE DEF c
  <2>4. CASE y = c
      BY <2>3, <2>4
  <2>5. CASE y # c
    <3>1. /\ s \ {c} \in SUBSET S /\ Cardinality(s \ {c}) = n - 1
          /\ s \ {y} \in SUBSET S /\ Cardinality(s \ {y}) = n - 1
        BY <1>4, <2>1, <2>2, WithoutOne
    <3>2. n - 1 \in Nat /\ n - 1 \notin Bad
        BY <1>3, <2>2
    <3>3. Holds(s \ {c}) /\ Holds(s \ {y})
        BY <3>1, <3>2
    <3>4. SumFunctionOnSet(fun, s \ {c}) = fun[y] + SumFunctionOnSet(fun, (s \ {c}) \ {y})
        BY <2>5, <3>3
    <3>5. SumFunctionOnSet(fun, s \ {y}) = fun[c] + SumFunctionOnSet(fun, (s \ {y}) \ {c})
        BY <2>2, <2>5, <3>3
    <3>6. (s \ {c}) \ {y} = (s \ {y}) \ {c}
        OBVIOUS
    <3> DEFINE rest == SumFunctionOnSet(fun, (s \ {y}) \ {c})
    <3>7. rest \in Int
      <4>1. IsFiniteSet((s \ {y}) \ {c})
          BY <2>1, FS_Subset
      <4>2. IsSummable(fun, (s \ {y}) \ {c})
          BY <2>1, <4>1 DEF IsSummable
      <4> QED BY <4>2, SumType
    <3>8. fun[c] \in Int /\ fun[y] \in Int
        BY <2>1, <2>2 DEF IsSummable
    <3>9. SumFunctionOnSet(fun, s) = fun[c] + (fun[y] + rest)
        BY <2>3, <3>4, <3>6
    <3>10. SumFunctionOnSet(fun, s \ {y}) = fun[c] + rest
        BY <3>5
    <3> HIDE DEF rest, Holds
    <3> QED BY <3>7, <3>8, <3>9, <3>10
  <2> QED BY <2>4, <2>5
<1> QED BY <1>4, <1>5

(* Sums that have one element more, or differ in one. *)
LEMMA SumWithOneMore ==
    ASSUME NEW fun, NEW gun, NEW S, NEW x, x \notin S,
           IsSummable(fun, S), IsSummable(gun, S \union {x}), \A y \in S : gun[y] = fun[y]
    PROVE  SumFunctionOnSet(gun, S \union {x}) = SumFunctionOnSet(fun, S) + gun[x]
<1> DEFINE T == S \union {x}
<1>1. IsSummable(gun, T) /\ x \in T /\ T \ {x} = S /\ gun[x] \in Int
    BY DEF IsSummable
<1> HIDE DEF T
<1>2. SumFunctionOnSet(gun, T) = gun[x] + SumFunctionOnSet(gun, S)
    BY <1>1, SumTakesAny
<1>3. SumFunctionOnSet(fun, S) = SumFunctionOnSet(gun, S)
    BY SumOfEquals
<1>4. SumFunctionOnSet(fun, S) \in Int
    BY SumType
<1> QED BY <1>1, <1>2, <1>3, <1>4 DEF T

LEMMA SumWithOneChanged ==
    ASSUME NEW fun, NEW gun, NEW S, NEW x \in S,
           IsSummable(fun, S), IsSummable(gun, S), \A y \in S \ {x} : gun[y] = fun[y]
    PROVE  SumFunctionOnSet(gun, S) = SumFunctionOnSet(fun, S) + gun[x] - fun[x]
<1> DEFINE R == S \ {x}
<1>1. IsFiniteSet(R)
    BY FS_Subset DEF IsSummable
<1>2. IsSummable(fun, R) /\ fun[x] \in Int /\ gun[x] \in Int
    BY <1>1 DEF IsSummable
<1>3. SumFunctionOnSet(gun, S) = gun[x] + SumFunctionOnSet(gun, R)
    BY SumTakesAny
<1>4. SumFunctionOnSet(fun, S) = fun[x] + SumFunctionOnSet(fun, R)
    BY SumTakesAny
<1>5. \A y \in R : fun[y] = gun[y]
    OBVIOUS
<1> HIDE DEF R
<1>6. SumFunctionOnSet(fun, R) = SumFunctionOnSet(gun, R)
    BY <1>2, <1>5, SumOfEquals
<1>7. SumFunctionOnSet(fun, R) \in Int
    BY <1>2, SumType
<1> QED BY <1>2, <1>3, <1>4, <1>6, <1>7

LEMMA SumOfZeros ==
    ASSUME NEW fun, NEW S, IsFiniteSet(S), \A x \in S : fun[x] = 0
    PROVE  SumFunctionOnSet(fun, S) = 0
<1> DEFINE Bad == {n \in Nat : \E s \in SUBSET S : Cardinality(s) = n /\ SumFunctionOnSet(fun, s) # 0}
<1>1. \A s \in SUBSET S : IsFiniteSet(s) /\ Cardinality(s) \in Nat /\ IsSummable(fun, s)
    BY FS_Subset, FS_CardinalityType DEF IsSummable
<1>2. SUFFICES ASSUME Bad # {} PROVE FALSE
    BY <1>1
<1>3. PICK n \in Bad : \A m \in Bad : n <= m
    BY <1>2, LeastNat, Bad \in SUBSET Nat
<1>4. PICK s \in SUBSET S : Cardinality(s) = n /\ SumFunctionOnSet(fun, s) # 0
    BY <1>3
<1>5. s # {}
    BY <1>1, <1>4, SumType
<1> DEFINE x == One(s)
<1>6. /\ x \in s /\ s \ {x} \in SUBSET S
      /\ Cardinality(s \ {x}) = n - 1 /\ n - 1 \in Nat
    BY <1>1, <1>4, <1>5, WithoutOne DEF One
<1> HIDE DEF x
<1>7. n - 1 \notin Bad
    BY <1>3, <1>6
<1>8. SumFunctionOnSet(fun, s \ {x}) = 0
    BY <1>6, <1>7
<1>9. SumFunctionOnSet(fun, s) = fun[x] + SumFunctionOnSet(fun, s \ {x})
    BY <1>1, <1>6, SumTakesAny
<1> QED BY <1>4, <1>6, <1>8, <1>9

-----------------------------------------------------------------------------
(* What a sequence holds. *)
LEMMA SeqElement ==
    ASSUME NEW T, NEW s \in Seq(T), NEW i \in DOMAIN s
    PROVE  s[i] \in T /\ i \in 1..Len(s) /\ Len(s) \in Nat
    OBVIOUS

(* A count looked up in the previous list is that of an entry there. *)
LEMMA PreviousCountType ==
    ASSUME NEW V, NEW list \in Seq([value : V, count : Int]), NEW value, WasRanked(list, value)
    PROVE  /\ PreviousCount(list, value) \in Int
           /\ \E i \in DOMAIN list : list[i].value = value /\ list[i].count = PreviousCount(list, value)
<1> DEFINE S == {i \in DOMAIN list : list[i].value = value}
<1>1. S \in SUBSET Nat /\ S # {}
    BY DEF WasRanked
<1>2. PICK i \in S : \A j \in S : i <= j
    BY <1>1, LeastNat
<1>3. /\ i \in DOMAIN list /\ list[i].value = value
      /\ \A j \in 1..(i - 1) : list[j].value # value
  <2>1. ASSUME NEW j \in 1..(i - 1), list[j].value = value PROVE FALSE
    <3>1. i \in 1..Len(list) /\ Len(list) \in Nat
        BY <1>2
    <3>2. j \in S
        BY <2>1, <3>1
    <3> QED BY <1>2, <3>1, <3>2
  <2> QED BY <1>2, <2>1
<1> DEFINE first == CHOOSE k \in DOMAIN list :
                       list[k].value = value /\ \A j \in 1..(k - 1) : list[j].value # value
<1>4. first \in DOMAIN list /\ list[first].value = value
    BY <1>3
<1>5. list[first] \in [value : V, count : Int]
    BY <1>4, SeqElement
<1>6. PreviousCount(list, value) = list[first].count
    BY DEF PreviousCount
<1> HIDE DEF first
<1> QED BY <1>4, <1>5, <1>6

(* The deltas are a list over V again, and empty as long as there is no previous list. *)
LEMMA DeltasShape ==
    ASSUME NEW V, NEW prev, NEW list, IsListOver(V, prev), IsListOver(V, list)
    PROVE  /\ IsListOver(V, Deltas(prev, list))
           /\ prev = <<>> => Deltas(prev, list) = <<>>
<1> DEFINE tracked == {i \in DOMAIN list : WasRanked(prev, list[i].value)}
           change == [i \in tracked |-> Entry(list[i].value,
                                              list[i].count - PreviousCount(prev, list[i].value))]
<1>1. RankingSize \in Nat \ {0}
    BY RankingAssumption
<1>2. list \in Seq([value : V, count : Int]) /\ prev \in Seq([value : V, count : Int])
    BY DEF IsListOver
<1>3. ASSUME NEW i \in tracked PROVE change[i] \in [value : V, count : Int]
  <2>1. list[i] \in [value : V, count : Int]
      BY <1>2, SeqElement
  <2>2. PreviousCount(prev, list[i].value) \in Int
      BY <1>2, PreviousCountType
  <2> QED BY <2>1, <2>2 DEF Entry
<1>4. DOMAIN list = 1..Len(list) /\ Len(list) \in Nat
    BY <1>2
<1>5. tracked \in SUBSET (1..Len(list)) /\ IsFiniteSet(1..Len(list))
    BY <1>4, FS_Interval
<1>6. IsFiniteSet(tracked)
    BY <1>5, FS_Subset
<1>7. IsOffer(change)
    BY <1>3, <1>5, <1>6 DEF IsOffer
<1>8. /\ RankingLen(change, RankingSize) \in 0..RankingSize
      /\ RankingLen(change, RankingSize) <= Cardinality(DOMAIN change)
      /\ Ranking(change, RankingSize) \in Seq([value : V, count : Int])
      /\ Len(Ranking(change, RankingSize)) = RankingLen(change, RankingSize)
    BY <1>1, <1>3, <1>7, RankingShape
<1>9. Deltas(prev, list) = Ranking(change, RankingSize)
    BY DEF Deltas
<1>10. ASSUME prev = <<>> PROVE Deltas(prev, list) = <<>>
  <2>1. tracked = {}
      BY <1>10 DEF WasRanked
  <2>2. Cardinality(DOMAIN change) = 0
      BY <2>1, FS_EmptySet
  <2> QED BY <1>1, <1>8, <1>9, <2>2
<1> QED BY <1>1, <1>8, <1>9, <1>10 DEF IsListOver

(***************************************************************************)
(* The deltas are the changes of the values ranked both times, each once   *)
(* if the list has no value twice, and in descending order.                *)
(***************************************************************************)
DistinctValues(list) == \A i, j \in DOMAIN list : list[i].value = list[j].value => i = j

TrackedIn(prev, list) == {i \in DOMAIN list : WasRanked(prev, list[i].value)}

Change(prev, list, i) ==
    Entry(list[i].value, list[i].count - PreviousCount(prev, list[i].value))

LEMMA DeltasAreChanges ==
    ASSUME NEW V, NEW prev, NEW list, IsListOver(V, prev), IsListOver(V, list)
    PROVE  LET deltas == Deltas(prev, list)
           IN  /\ \A k \in DOMAIN deltas :
                     \E i \in TrackedIn(prev, list) : deltas[k] = Change(prev, list, i)
               /\ \A i \in TrackedIn(prev, list) :
                     \E k \in DOMAIN deltas : deltas[k] = Change(prev, list, i)
               /\ \A j, k \in DOMAIN deltas : j < k => deltas[j].count >= deltas[k].count
               /\ DistinctValues(list) => DistinctValues(deltas)
               /\ \A i \in TrackedIn(prev, list) : Change(prev, list, i) \in [value : V, count : Int]
<1> DEFINE tracked == TrackedIn(prev, list)
           changes == [i \in tracked |-> Change(prev, list, i)]
           deltas == Deltas(prev, list)
           n == RankingLen(changes, RankingSize)
<1>1. /\ list \in Seq([value : V, count : Int]) /\ prev \in Seq([value : V, count : Int])
      /\ DOMAIN list = 1..Len(list) /\ Len(list) \in Nat /\ Len(list) <= RankingSize
      /\ RankingSize \in Nat
    BY RankingAssumption DEF IsListOver
<1>2. ASSUME NEW i \in tracked PROVE changes[i] \in [value : V, count : Int]
  <2>1. list[i] \in [value : V, count : Int]
      BY <1>1, SeqElement DEF TrackedIn
  <2>2. PreviousCount(prev, list[i].value) \in Int
      BY <1>1, PreviousCountType DEF TrackedIn
  <2> QED BY <2>1, <2>2 DEF Entry, Change
<1>3. /\ tracked \in SUBSET (1..Len(list))
      /\ IsFiniteSet(1..Len(list)) /\ Cardinality(1..Len(list)) = Len(list)
  <2>1. tracked \in SUBSET (1..Len(list))
      BY <1>1 DEF TrackedIn
  <2>2. Len(list) \in Nat
      BY <1>1
  <2>3. IsFiniteSet(1..Len(list)) /\ Cardinality(1..Len(list)) = Len(list)
      BY <2>2, NatInterval
  <2> QED BY <2>1, <2>3
<1>4. IsFiniteSet(tracked) /\ Cardinality(tracked) <= RankingSize
  <2>1. IsFiniteSet(tracked) /\ Cardinality(tracked) <= Len(list)
      BY <1>3, FS_Subset
  <2> QED BY <1>1, <2>1, FS_CardinalityType
<1>5. IsOffer(changes) /\ DOMAIN changes = tracked
    BY <1>2, <1>3, <1>4 DEF IsOffer
<1>6. deltas = Ranking(changes, RankingSize)
    BY DEF Deltas, TrackedIn, Change
<1>7. \A i \in DOMAIN changes : changes[i] \in [value : V, count : Int]
    BY <1>2
<1>8. changes = [i \in tracked |-> changes[i]] /\ \A i \in tracked : changes[i] = Change(prev, list, i)
    OBVIOUS
<1> HIDE DEF changes, tracked
<1>9. /\ DOMAIN deltas = 1..n
      /\ \A k \in 1..n : \E i \in tracked : RankOf(changes, i) = k /\ deltas[k] = changes[i]
  <2> DEFINE T == [value : V, count : Int]
  <2>1. \A i \in DOMAIN changes : changes[i] \in T
      BY <1>7
  <2>2. RankingSize \in Nat
      BY <1>1
  <2> HIDE DEF T
  <2>3. deltas \in Seq(T) /\ Len(deltas) = n
      BY <1>5, <1>6, <2>1, <2>2, RankingShape
  <2>4. \A k \in 1..RankingLen(changes, RankingSize) :
           \E i \in DOMAIN changes :
              RankOf(changes, i) = k /\ Ranking(changes, RankingSize)[k] = changes[i]
      BY <1>5, <2>2, RankingHolds
  <2> QED BY <1>5, <1>6, <2>3, <2>4
<1>10. \A i \in tracked : \E k \in 1..n : deltas[k] = changes[i]
    BY <1>1, <1>4, <1>5, <1>6, RankingIsComplete
<1>11. \A j, k \in 1..n : j < k => deltas[j].count >= deltas[k].count
    BY <1>1, <1>5, <1>6, RankingDescends
<1>12. ASSUME DistinctValues(list), NEW j \in 1..n, NEW k \in 1..n, deltas[j].value = deltas[k].value
       PROVE  j = k
  <2>1. PICK a \in tracked : RankOf(changes, a) = j /\ deltas[j] = changes[a]
      BY <1>9
  <2>2. PICK b \in tracked : RankOf(changes, b) = k /\ deltas[k] = changes[b]
      BY <1>9
  <2>3. changes[a].value = list[a].value /\ changes[b].value = list[b].value
      BY <1>8 DEF Change, Entry
  <2>4. a = b
      BY <1>12, <2>1, <2>2, <2>3 DEF DistinctValues, tracked, TrackedIn
  <2> QED BY <2>1, <2>2, <2>4
<1>13. \A i \in tracked : Change(prev, list, i) \in [value : V, count : Int]
    BY <1>2, <1>8
<1>14. /\ \A k \in DOMAIN deltas : \E i \in tracked : deltas[k] = Change(prev, list, i)
       /\ \A i \in tracked : \E k \in DOMAIN deltas : deltas[k] = Change(prev, list, i)
    BY <1>8, <1>9, <1>10
<1>15. DistinctValues(list) => DistinctValues(deltas)
    BY <1>9, <1>12 DEF DistinctValues
<1> HIDE DEF deltas
<1> QED BY <1>9, <1>11, <1>13, <1>14, <1>15 DEF tracked, deltas

(* There are fewer suspects than deltas: the drop they end at is not one of them. *)
LEMMA SuspectsShape ==
    ASSUME NEW V, NEW deltas, IsListOver(V, deltas)
    PROVE  /\ CurrentSuspects(deltas) \subseteq V
           /\ IsFiniteSet(CurrentSuspects(deltas))
           /\ Cardinality(CurrentSuspects(deltas)) < RankingSize
           /\ deltas = <<>> => CurrentSuspects(deltas) = {}
<1> DEFINE S == CurrentSuspects(deltas)
           before == {k \in DOMAIN deltas : \A drop \in Drops(deltas) : k < drop}
<1>1. RankingSize \in Nat \ {0} /\ Len(deltas) \in Nat /\ Len(deltas) <= RankingSize
    BY RankingAssumption DEF IsListOver
<1>2. DOMAIN deltas = 1..Len(deltas)
    BY DEF IsListOver
<1>3. CASE Drops(deltas) = {} \/ ~(deltas[1].count > 0)
  <2>1. S = {}
      BY <1>3 DEF CurrentSuspects
  <2> QED BY <1>1, <2>1, FS_EmptySet
<1>4. CASE Drops(deltas) # {} /\ deltas[1].count > 0
  <2>1. S = {deltas[k].value : k \in before}
      BY <1>4 DEF CurrentSuspects
  <2>2. PICK drop \in Drops(deltas) : TRUE
      BY <1>4
  <2>3. drop \in 2..Len(deltas)
      BY <2>2 DEF Drops
  <2>4. before \in SUBSET (1..(Len(deltas) - 1))
      BY <1>1, <1>2, <2>2, <2>3
  <2>5. /\ IsFiniteSet(1..(Len(deltas) - 1))
        /\ Cardinality(1..(Len(deltas) - 1)) = Len(deltas) - 1
      BY <1>1, <2>3, FS_Interval
  <2>6. IsFiniteSet(before) /\ Cardinality(before) <= Len(deltas) - 1
      BY <2>4, <2>5, FS_Subset
  <2> DEFINE f == [k \in before |-> deltas[k].value]
  <2>7. f \in Surjection(before, S)
      BY <2>1 DEF Surjection
  <2>8. IsFiniteSet(S) /\ Cardinality(S) <= Cardinality(before)
      BY <2>6, <2>7, FS_Surjection
  <2>9. Cardinality(S) \in Nat /\ Cardinality(before) \in Nat
      BY <2>6, <2>8, FS_CardinalityType
  <2>10. ASSUME NEW k \in before PROVE deltas[k].value \in V
    <3>1. deltas[k] \in [value : V, count : Int]
        BY <2>10, SeqElement DEF IsListOver
    <3> QED BY <3>1
  <2>11. Drops(deltas) # {} => deltas # <<>>
      BY <1>1, <2>3
  <2> QED BY <1>1, <1>4, <2>1, <2>6, <2>8, <2>9, <2>10, <2>11
<1> QED BY <1>3, <1>4

(* Whatever is ranked before the first drop grew, and the drop is after it. *)
LEMMA SuspectsAreAhead ==
    ASSUME NEW V, NEW deltas, IsListOver(V, deltas), NEW v \in CurrentSuspects(deltas)
    PROVE  \E k, d \in DOMAIN deltas :
              k < d /\ deltas[k].value = v /\ deltas[k].count > 0
<1> DEFINE before == {k \in DOMAIN deltas : \A drop \in Drops(deltas) : k < drop}
<1>1. Drops(deltas) # {} /\ deltas[1].count > 0
    BY DEF CurrentSuspects
<1>2. PICK k \in before : deltas[k].value = v
    BY <1>1 DEF CurrentSuspects
<1>3. DOMAIN deltas = 1..Len(deltas) /\ Len(deltas) \in Nat
    BY DEF IsListOver
<1>4. PICK d \in Drops(deltas) : TRUE
    BY <1>1
<1>5. d \in DOMAIN deltas /\ k < d
    BY <1>2, <1>3 DEF Drops
<1>6. \A i \in DOMAIN deltas : deltas[i].count \in Int
  <2> SUFFICES ASSUME NEW i \in DOMAIN deltas PROVE deltas[i].count \in Int
      OBVIOUS
  <2>1. deltas[i] \in [value : V, count : Int]
      BY SeqElement DEF IsListOver
  <2> QED BY <2>1
<1>7. \A i \in before : deltas[i].count > 0
  <2> DEFINE S == {i \in before : ~(deltas[i].count > 0)}
  <2> SUFFICES ASSUME S # {} PROVE FALSE
      OBVIOUS
  <2>1. S \in SUBSET Nat
      BY <1>3
  <2>2. PICK i \in S : \A j \in S : i <= j
      BY <2>1, LeastNat
  <2>3. i \in 2..Len(deltas)
      BY <1>1, <1>3
  <2>4. i - 1 \in before
    <3>1. i - 1 \in DOMAIN deltas
        BY <1>3, <2>3
    <3>2. \A drop \in Drops(deltas) : drop \in Int /\ i < drop
        BY DEF Drops
    <3> QED BY <2>3, <3>1, <3>2
  <2>5. deltas[i - 1].count > 0
    <3>1. i - 1 \notin S
        BY <2>2, <2>3
    <3> QED BY <2>4, <3>1
  <2>6. ~IsDrop(deltas[i - 1], deltas[i])
    <3>1. i \notin Drops(deltas)
        BY <2>3 DEF Drops
    <3> QED BY <2>3, <3>1 DEF Drops
  <2>7. deltas[i - 1].count \in Int /\ deltas[i].count \in Int /\ ~(deltas[i].count > 0)
      BY <1>6, <2>4
  <2> QED BY <2>5, <2>6, <2>7 DEF IsDrop
<1> QED BY <1>2, <1>5, <1>7

(***************************************************************************)
(* The suspects without ranks.  A group of the listed values leads when it *)
(* is neither empty nor all of them and each of its counts is more than    *)
(* twice any other.  The suspects are the smallest group that leads, and   *)
(* there are none when no group leads or nothing grew.                     *)
(***************************************************************************)
ListedValues(list) == {list[k].value : k \in DOMAIN list}

LeadsList(list, group) ==
    /\ group # {} /\ group # ListedValues(list)
    /\ \A j, k \in DOMAIN list :
          list[j].value \in group /\ list[k].value \notin group => list[j].count > 2 * list[k].count

Descends(list) == \A j, k \in DOMAIN list : j < k => list[j].count >= list[k].count

LEMMA LeadersTakeTheTop ==
    ASSUME NEW V, NEW deltas, IsListOver(V, deltas), Descends(deltas),
           NEW group \in SUBSET ListedValues(deltas), LeadsList(deltas, group),
           \E k \in DOMAIN deltas : deltas[k].count > 0
    PROVE  /\ 1 \in DOMAIN deltas /\ deltas[1].count > 0
           /\ \E d \in Drops(deltas) :
                 \A k \in DOMAIN deltas : k < d => deltas[k].value \in group
<1>1. DOMAIN deltas = 1..Len(deltas) /\ Len(deltas) \in Nat
    BY DEF IsListOver
<1>2. \A k \in DOMAIN deltas : deltas[k].count \in Int
  <2> SUFFICES ASSUME NEW k \in DOMAIN deltas PROVE deltas[k].count \in Int
      OBVIOUS
  <2>1. deltas[k] \in [value : V, count : Int]
      BY SeqElement DEF IsListOver
  <2> QED BY <2>1
<1>3. 1 \in DOMAIN deltas /\ deltas[1].count > 0
  <2>1. PICK k \in DOMAIN deltas : deltas[k].count > 0
      OBVIOUS
  <2>2. 1 \in DOMAIN deltas
      BY <1>1, <2>1
  <2>3. k = 1 \/ 1 < k
      BY <1>1, <2>1
  <2> QED BY <1>2, <2>1, <2>2, <2>3 DEF Descends
<1> DEFINE S == {k \in DOMAIN deltas : deltas[k].value \notin group}
<1>4. S \in SUBSET Nat /\ S # {}
    BY <1>1 DEF LeadsList, ListedValues
<1>5. PICK d \in S : \A k \in S : d <= k
    BY <1>4, LeastNat
<1>6. d # 1
  <2> SUFFICES ASSUME d = 1 PROVE FALSE
      OBVIOUS
  <2>1. PICK j \in DOMAIN deltas : deltas[j].value \in group
      BY DEF LeadsList, ListedValues
  <2>2. deltas[j].count > 2 * deltas[1].count
      BY <1>5, <2>1 DEF LeadsList
  <2>3. 1 < j
      BY <1>1, <1>5, <2>1
  <2> QED BY <1>2, <1>3, <2>1, <2>2, <2>3 DEF Descends
<1>7. /\ d \in 2..Len(deltas) /\ d - 1 \in DOMAIN deltas
      /\ \A k \in DOMAIN deltas : k < d => deltas[k].value \in group
    BY <1>1, <1>5, <1>6
<1>8. deltas[d - 1].value \in group
    BY <1>7
<1>9. deltas[d - 1].count > 2 * deltas[d].count
    BY <1>5, <1>7, <1>8 DEF LeadsList
<1>10. d \in Drops(deltas)
    BY <1>2, <1>5, <1>7, <1>9 DEF Drops, IsDrop
<1> QED BY <1>3, <1>7, <1>10

LEMMA SuspectsLeadList ==
    ASSUME NEW V, NEW deltas, IsListOver(V, deltas), Descends(deltas), DistinctValues(deltas)
    PROVE  LET S == CurrentSuspects(deltas)
           IN  /\ S \subseteq ListedValues(deltas)
               /\ S # {} => LeadsList(deltas, S) /\ \E k \in DOMAIN deltas : deltas[k].count > 0
               /\ \A group \in SUBSET ListedValues(deltas) :
                     LeadsList(deltas, group) /\ (\E k \in DOMAIN deltas : deltas[k].count > 0)
                         => S # {} /\ S \subseteq group
<1> DEFINE S == CurrentSuspects(deltas)
           before == {k \in DOMAIN deltas : \A drop \in Drops(deltas) : k < drop}
<1>1. DOMAIN deltas = 1..Len(deltas) /\ Len(deltas) \in Nat
    BY DEF IsListOver
<1>2. \A k \in DOMAIN deltas : deltas[k].count \in Int
  <2> SUFFICES ASSUME NEW k \in DOMAIN deltas PROVE deltas[k].count \in Int
      OBVIOUS
  <2>1. deltas[k] \in [value : V, count : Int]
      BY SeqElement DEF IsListOver
  <2> QED BY <2>1
<1>3. Drops(deltas) \in SUBSET (2..Len(deltas))
    BY DEF Drops
<1>4. S = IF Drops(deltas) # {} /\ deltas[1].count > 0 THEN {deltas[k].value : k \in before} ELSE {}
    BY DEF CurrentSuspects
<1>5. S \subseteq ListedValues(deltas)
    BY <1>4 DEF ListedValues
<1> HIDE DEF S
<1>6. ASSUME S # {}
      PROVE  LeadsList(deltas, S) /\ \E k \in DOMAIN deltas : deltas[k].count > 0
  <2>1. Drops(deltas) # {} /\ deltas[1].count > 0 /\ S = {deltas[k].value : k \in before}
      BY <1>4, <1>6
  <2>2. PICK d \in Drops(deltas) : \A drop \in Drops(deltas) : d <= drop
    <3>1. Drops(deltas) \in SUBSET Nat
        BY <1>3
    <3> QED BY <2>1, <3>1, LeastNat
  <2>3. d \in 2..Len(deltas) /\ d \in DOMAIN deltas /\ d - 1 \in DOMAIN deltas
        /\ deltas[d - 1].count > deltas[d].count * 2
      BY <1>1, <1>3, <2>2 DEF Drops, IsDrop
  <2>4. \A k \in DOMAIN deltas : k \in before <=> k < d
    <3>1. \A drop \in Drops(deltas) : drop \in Nat
        BY <1>3
    <3> QED BY <1>1, <2>2, <2>3, <3>1
  <2>5. \A k \in DOMAIN deltas : deltas[k].value \in S <=> k < d
    <3> SUFFICES ASSUME NEW k \in DOMAIN deltas, deltas[k].value \in S PROVE k < d
        BY <2>1, <2>4
    <3>1. PICK j \in before : deltas[j].value = deltas[k].value
        BY <2>1
    <3>2. j = k
        BY <3>1 DEF DistinctValues
    <3> QED BY <2>4, <3>1, <3>2
  <2>6. ASSUME NEW j \in DOMAIN deltas, NEW k \in DOMAIN deltas, j < d, ~(k < d)
        PROVE  deltas[j].count > 2 * deltas[k].count
    <3>1. j = d - 1 \/ j < d - 1
        BY <1>1, <2>3, <2>6
    <3>2. k = d \/ d < k
        BY <1>1, <2>3, <2>6
    <3>3. deltas[j].count >= deltas[d - 1].count
        BY <1>2, <2>3, <3>1 DEF Descends
    <3>4. deltas[d].count >= deltas[k].count
        BY <1>2, <2>3, <3>2 DEF Descends
    <3>5. /\ deltas[j].count \in Int /\ deltas[k].count \in Int
          /\ deltas[d].count \in Int /\ deltas[d - 1].count \in Int
        BY <1>2, <2>3
    <3> QED BY <2>3, <3>3, <3>4, <3>5
  <2>7. S # ListedValues(deltas)
    <3>1. deltas[d].value \notin S
        BY <1>1, <2>3, <2>5
    <3> QED BY <2>3, <3>1 DEF ListedValues
  <2>8. 1 \in DOMAIN deltas
      BY <1>1, <2>3
  <2> QED BY <1>6, <2>1, <2>5, <2>6, <2>7, <2>8 DEF LeadsList
<1>7. ASSUME NEW group \in SUBSET ListedValues(deltas), LeadsList(deltas, group),
             \E k \in DOMAIN deltas : deltas[k].count > 0
      PROVE  S # {} /\ S \subseteq group
  <2>1. /\ 1 \in DOMAIN deltas /\ deltas[1].count > 0
        /\ \E d \in Drops(deltas) : \A k \in DOMAIN deltas : k < d => deltas[k].value \in group
      BY <1>7, LeadersTakeTheTop
  <2>2. PICK d \in Drops(deltas) : \A k \in DOMAIN deltas : k < d => deltas[k].value \in group
      BY <2>1
  <2>3. S = {deltas[k].value : k \in before}
      BY <1>4, <2>1, <2>2
  <2>4. 1 \in before
      BY <1>3, <2>1
  <2> QED BY <2>2, <2>3, <2>4
<1> QED BY <1>5, <1>6, <1>7 DEF S

(***************************************************************************)
(* A suspect was ranked last time too, and its count grew since; if the    *)
(* list has no value twice, another one is ranked in it.                   *)
(***************************************************************************)
LEMMA SuspectsGrow ==
    ASSUME NEW V, NEW prev, NEW list, IsListOver(V, prev), IsListOver(V, list),
           NEW v \in CurrentSuspects(Deltas(prev, list))
    PROVE  /\ WasRanked(prev, v) /\ PreviousCount(prev, v) \in Int
           /\ \E i \in DOMAIN list :
                 list[i].value = v /\ list[i].count \in Int /\ list[i].count > PreviousCount(prev, v)
           /\ DistinctValues(list) => \E i \in DOMAIN list : list[i].value # v
<1> DEFINE deltas == Deltas(prev, list)
<1>1. IsListOver(V, deltas)
    BY DeltasShape
<1>2. PICK k \in DOMAIN deltas, d \in DOMAIN deltas :
         k < d /\ deltas[k].value = v /\ deltas[k].count > 0
    BY <1>1, SuspectsAreAhead
<1>3. PICK i \in TrackedIn(prev, list) : deltas[k] = Change(prev, list, i)
    BY DeltasAreChanges
<1>4. /\ i \in DOMAIN list /\ list[i].value = v /\ WasRanked(prev, v)
      /\ list[i].count - PreviousCount(prev, v) > 0
    BY <1>2, <1>3 DEF TrackedIn, Change, Entry
<1>5. PreviousCount(prev, v) \in Int
    BY <1>4, PreviousCountType DEF IsListOver
<1>6. list[i].count \in Int
  <2>1. list[i] \in [value : V, count : Int]
      BY <1>4, SeqElement DEF IsListOver
  <2> QED BY <2>1
<1>7. ASSUME DistinctValues(list) PROVE \E j \in DOMAIN list : list[j].value # v
  <2>1. PICK j \in TrackedIn(prev, list) : deltas[d] = Change(prev, list, j)
      BY DeltasAreChanges
  <2>2. j \in DOMAIN list /\ deltas[d].value = list[j].value
      BY <2>1 DEF TrackedIn, Change, Entry
  <2>3. DistinctValues(deltas)
      BY <1>7, DeltasAreChanges
  <2>4. k \in Nat /\ d \in Nat
      BY <1>1 DEF IsListOver
  <2> QED BY <1>2, <2>2, <2>3, <2>4 DEF DistinctValues
<1> QED BY <1>4, <1>5, <1>6, <1>7

(* A loop with at least as many turns as there are elements meets them all. *)
LEMMA FirstOfAll ==
    ASSUME NEW S \in SUBSET Int, IsFiniteSet(S), NEW n \in Int, Cardinality(S) <= n
    PROVE  FirstOf(S, n) = S
<1> SUFFICES ASSUME NEW v \in S PROVE Cardinality({w \in S : w < v}) < n
    BY DEF FirstOf
<1>1. IsFiniteSet(S \ {v}) /\ Cardinality(S \ {v}) = Cardinality(S) - 1
    BY FS_RemoveElement
<1>2. {w \in S : w < v} \in SUBSET (S \ {v})
    OBVIOUS
<1>3. IsFiniteSet({w \in S : w < v}) /\ Cardinality({w \in S : w < v}) <= Cardinality(S) - 1
    BY <1>1, <1>2, FS_Subset
<1>4. Cardinality({w \in S : w < v}) \in Nat /\ Cardinality(S) \in Nat
    BY <1>3, FS_CardinalityType
<1> QED BY <1>3, <1>4

(* The guard on the size of the histogram turns no suspect away. *)
LEMMA HistogramUpdate ==
    ASSUME NEW histogram, NEW suspects \in SUBSET Int, IsFiniteSet(suspects),
           Cardinality(suspects) < RankingSize
    PROVE  UpdatedHistogram(histogram, suspects) =
              [v \in suspects |-> IF v \in DOMAIN histogram THEN histogram[v] + 1 ELSE 1]
<1> DEFINE kept == DOMAIN histogram \intersect suspects
           fresh == suspects \ kept
           room == RankingSize - Cardinality(kept)
<1>1. /\ IsFiniteSet(kept) /\ Cardinality(kept) \in Nat
      /\ IsFiniteSet(fresh) /\ Cardinality(fresh) \in Nat
      /\ RankingSize \in Nat /\ Cardinality(suspects) \in Nat
    BY FS_Subset, FS_CardinalityType, RankingAssumption
<1>2. Cardinality(fresh) + Cardinality(kept) = Cardinality(suspects)
  <2>1. kept \intersect fresh = {} /\ kept \union fresh = suspects
      OBVIOUS
  <2>2. Cardinality(kept \union fresh) =
           Cardinality(kept) + Cardinality(fresh) - Cardinality(kept \intersect fresh)
      BY <1>1, FS_Union
  <2>3. Cardinality(kept \intersect fresh) = 0
      BY <2>1, FS_EmptySet
  <2>4. Cardinality(kept \union fresh) = Cardinality(suspects)
      BY <2>1
  <2> HIDE DEF kept, fresh
  <2> QED BY <1>1, <2>2, <2>3, <2>4
<1>3. FirstOf(fresh, room) = fresh
    BY <1>1, <1>2, FirstOfAll
<1>4. kept \union fresh = suspects
    OBVIOUS
<1> QED BY <1>3, <1>4 DEF UpdatedHistogram, SuspicionScoreIncrease

(***************************************************************************)
(* One AddSample: the suspects gain a score and everything else loses it,  *)
(* and the analyzer stays one over V.  The first sample suspects nothing.  *)
(***************************************************************************)
LEMMA AddSampleStep ==
    ASSUME NEW V \in SUBSET Int, NEW analyzer, IsAnalyzerOver(V, analyzer),
           analyzer.score_threshold \in Nat,
           NEW list, IsListOver(V, list)
    PROVE  LET S == SuspectsOf(analyzer, list)
               new == AddSample(analyzer, list)
               old == analyzer.suspected_histogram
           IN  /\ S \subseteq V /\ IsFiniteSet(S) /\ Cardinality(S) < RankingSize
               /\ analyzer.ranked_entries = <<>> => S = {}
               /\ new.suspected_histogram =
                     [v \in S |-> IF v \in DOMAIN old THEN old[v] + 1 ELSE 1]
               /\ IsAnalyzerOver(V, new)
<1> DEFINE S == SuspectsOf(analyzer, list)
           new == AddSample(analyzer, list)
           old == analyzer.suspected_histogram
           h == [v \in S |-> IF v \in DOMAIN old THEN old[v] + 1 ELSE 1]
           deltas == Deltas(analyzer.ranked_entries, list)
<1>1. IsListOver(V, deltas) /\ (analyzer.ranked_entries = <<>> => deltas = <<>>)
    BY DeltasShape DEF IsAnalyzerOver
<1>2. /\ S \subseteq V /\ IsFiniteSet(S) /\ Cardinality(S) < RankingSize
      /\ analyzer.ranked_entries = <<>> => S = {}
    BY <1>1, SuspectsShape DEF SuspectsOf
<1>3. UpdatedHistogram(old, S) = h
    BY <1>2, HistogramUpdate
<1>4. /\ new.suspected_histogram = h
      /\ new.ranked_entries = list
      /\ new.score_threshold = analyzer.score_threshold
      /\ new.suspected_leaks = SuspectedLeaks(h, analyzer.score_threshold)
    BY <1>3 DEF AddSample, SuspectsOf
<1>5. h \in [DOMAIN h -> Nat \ {0}]
  <2>1. old \in [DOMAIN old -> Nat \ {0}]
      BY DEF IsAnalyzerOver
  <2> QED BY <2>1
<1>6. DOMAIN h = S
    OBVIOUS
<1>7. new.suspected_leaks = {v \in DOMAIN h : h[v] >= analyzer.score_threshold}
  <2> DEFINE L == {v \in DOMAIN h : h[v] >= analyzer.score_threshold}
  <2>1. L \in SUBSET S /\ L \in SUBSET Int
      BY <1>2, <1>6
  <2>2. IsFiniteSet(L) /\ Cardinality(L) <= Cardinality(S)
      BY <1>2, <2>1, FS_Subset
  <2>3. Cardinality(L) \in Nat /\ Cardinality(S) \in Nat /\ RankingSize \in Nat
      BY <1>2, <2>2, FS_CardinalityType, RankingAssumption
  <2>4. RankingSize + 1 \in Int /\ Cardinality(L) <= RankingSize + 1
      BY <1>2, <2>2, <2>3
  <2>5. FirstOf(L, RankingSize + 1) = L
    <3> HIDE DEF L
    <3> QED BY <2>1, <2>2, <2>4, FirstOfAll
  <2> QED BY <1>4, <2>5 DEF SuspectedLeaks
<1>8. IsAnalyzerOver(V, new)
    BY <1>2, <1>4, <1>5, <1>6, <1>7 DEF IsAnalyzerOver
<1> QED BY <1>2, <1>4, <1>8

-----------------------------------------------------------------------------
(***************************************************************************)
(* Tables.  No entry is kept at zero, so that Remove finds what it is      *)
(* given.                                                                  *)
(***************************************************************************)
IsTable(table) ==
    /\ DOMAIN table = {"entry_map", "num_allocs", "num_frees", "leak_analyzer"}
    /\ table.entry_map \in [DOMAIN table.entry_map -> Nat \ {0}]

(* The net allocations of a call stack are a number. *)
LEMMA NetOfType == ASSUME NEW table, IsTable(table), NEW stack PROVE NetOf(table, stack) \in Nat
    BY DEF IsTable, NetOf

(* What Add and Remove do to a sound table. *)
LEMMA AddToTableStep ==
    ASSUME NEW table, IsTable(table), NEW stack
    PROVE  LET new == AddToTable(table, stack)
           IN  /\ IsTable(new)
               /\ NetOf(new, stack) = NetOf(table, stack) + 1
               /\ \A other : other # stack => NetOf(new, other) = NetOf(table, other)
               /\ DOMAIN new.entry_map = DOMAIN table.entry_map \union {stack}
               /\ new.leak_analyzer = table.leak_analyzer
<1> DEFINE map == [c \in DOMAIN table.entry_map \union {stack} |->
                      IF c = stack THEN NetOf(table, c) + 1 ELSE table.entry_map[c]]
           new == AddToTable(table, stack)
<1>1. /\ DOMAIN new = DOMAIN table /\ new.entry_map = map
      /\ new.leak_analyzer = table.leak_analyzer
    BY DEF AddToTable, IsTable
<1>2. NetOf(table, stack) \in Nat
    BY NetOfType
<1> QED BY <1>1, <1>2 DEF IsTable, NetOf

LEMMA RemoveFromTableStep ==
    ASSUME NEW table, IsTable(table), NEW stack, NetOf(table, stack) > 0
    PROVE  LET new == RemoveFromTable(table, stack)
           IN  /\ IsTable(new)
               /\ NetOf(new, stack) = NetOf(table, stack) - 1
               /\ \A other : other # stack => NetOf(new, other) = NetOf(table, other)
               /\ DOMAIN new.entry_map \subseteq DOMAIN table.entry_map
               /\ new.leak_analyzer = table.leak_analyzer
<1> DEFINE left == NetOf(table, stack) - 1
           remaining == IF left = 0 THEN DOMAIN table.entry_map \ {stack} ELSE DOMAIN table.entry_map
           map == [c \in remaining |-> IF c = stack THEN left ELSE table.entry_map[c]]
           new == RemoveFromTable(table, stack)
<1>1. stack \in DOMAIN table.entry_map
    BY DEF NetOf
<1>2. /\ DOMAIN new = DOMAIN table /\ new.entry_map = map
      /\ new.leak_analyzer = table.leak_analyzer
    BY <1>1 DEF RemoveFromTable, IsTable
<1>3. NetOf(table, stack) \in Nat
    BY NetOfType
<1> QED BY <1>1, <1>2, <1>3 DEF IsTable, NetOf

(***************************************************************************)
(* Whatever order the hash table iterates in, a list built from a table    *)
(* holds entries of it, with their counts, and none twice.                 *)
(***************************************************************************)
LEMMA RankedListsShape ==
    ASSUME NEW V, NEW table, IsTable(table),
           DOMAIN table.entry_map \subseteq V, IsFiniteSet(DOMAIN table.entry_map),
           NEW list \in RankedLists(table)
    PROVE  /\ IsListOver(V, list)
           /\ DistinctValues(list)
           /\ \A k \in DOMAIN list :
                 /\ list[k].value \in DOMAIN table.entry_map
                 /\ list[k].count = table.entry_map[list[k].value]
<1> DEFINE map == table.entry_map
           stacks == {c \in DOMAIN map : map[c] > 0}
           T == [value : V, count : Int]
<1>1. map \in [DOMAIN map -> Nat \ {0}] /\ RankingSize \in Nat
    BY RankingAssumption DEF IsTable
<1>2. IsFiniteSet(stacks) /\ Cardinality(stacks) \in Nat
    BY FS_Subset, FS_CardinalityType
<1>3. PICK order \in Bijection(1..Cardinality(stacks), stacks) :
         list = Ranking([i \in DOMAIN order |-> Entry(order[i], map[order[i]])], RankingSize)
    BY DEF RankedLists
<1> DEFINE n == Cardinality(stacks)
           offered == [i \in DOMAIN order |-> Entry(order[i], map[order[i]])]
<1>4. /\ order \in [1..n -> stacks]
      /\ \A i, j \in 1..n : order[i] = order[j] => i = j
    BY <1>3 DEF Bijection, Injection, IsInjective
<1>5. \A i \in 1..n : /\ offered[i].value = order[i] /\ offered[i].count = map[order[i]]
                      /\ offered[i] \in [value : V, count : Int]
                      /\ order[i] \in DOMAIN map
  <2> SUFFICES ASSUME NEW i \in 1..n
               PROVE  /\ offered[i].value = order[i] /\ offered[i].count = map[order[i]]
                      /\ offered[i] \in [value : V, count : Int]
                      /\ order[i] \in DOMAIN map
      OBVIOUS
  <2>1. order[i] \in stacks /\ i \in DOMAIN order
      BY <1>4
  <2>2. offered[i] = Entry(order[i], map[order[i]])
      BY <2>1
  <2>3. order[i] \in V /\ order[i] \in DOMAIN map /\ map[order[i]] \in Int
      BY <1>1, <2>1
  <2> HIDE DEF offered, stacks
  <2> QED BY <2>2, <2>3 DEF Entry
<1>6. DOMAIN offered = 1..n
    BY <1>4
<1> HIDE DEF offered, n
<1>7. \A i \in DOMAIN offered : offered[i] \in T
    BY <1>5, <1>6
<1>8. IsFiniteSet(1..n) /\ n \in Nat
    BY <1>2, NatInterval DEF n
<1>9. IsOffer(offered)
    BY <1>6, <1>7, <1>8 DEF IsOffer
<1>10. list = Ranking(offered, RankingSize)
    BY <1>3 DEF offered
<1> HIDE DEF T
<1>11. /\ RankingLen(offered, RankingSize) \in 0..RankingSize
       /\ list \in Seq(T)
       /\ Len(list) = RankingLen(offered, RankingSize)
    BY <1>1, <1>7, <1>9, <1>10, RankingShape
<1>12. \A k \in 1..RankingLen(offered, RankingSize) :
          \E j \in DOMAIN offered :
             RankOf(offered, j) = k /\ Ranking(offered, RankingSize)[k] = offered[j]
    BY <1>1, <1>9, RankingHolds
<1>13. \A k \in DOMAIN list : \E j \in 1..n : RankOf(offered, j) = k /\ list[k] = offered[j]
    BY <1>6, <1>10, <1>11, <1>12
<1>14. IsListOver(V, list)
    BY <1>1, <1>11 DEF IsListOver, T
<1>15. DistinctValues(list)
  <2> SUFFICES ASSUME NEW k \in DOMAIN list, NEW l \in DOMAIN list, list[k].value = list[l].value
               PROVE  k = l
      BY DEF DistinctValues
  <2>1. PICK i \in 1..n : RankOf(offered, i) = k /\ list[k] = offered[i]
      BY <1>13
  <2>2. PICK j \in 1..n : RankOf(offered, j) = l /\ list[l] = offered[j]
      BY <1>13
  <2>3. order[i] = order[j]
      BY <1>5, <2>1, <2>2
  <2> QED BY <1>4, <2>1, <2>2, <2>3
<1>16. \A k \in DOMAIN list : list[k].value \in DOMAIN map /\ list[k].count = map[list[k].value]
    BY <1>5, <1>13
<1> QED BY <1>14, <1>15, <1>16

(***************************************************************************)
(* A table over the call stacks V, between two operations.  Its analyzer   *)
(* only ranked call stacks with allocations, and whatever it scores had    *)
(* more allocations than its score when it was last ranked, because every  *)
(* test that scored it saw it grow.                                        *)
(***************************************************************************)
ScoresTrailCounts(analyzer) ==
    LET list == analyzer.ranked_entries
        histogram == analyzer.suspected_histogram
    IN  \A i \in DOMAIN list :
            /\ list[i].count > 0
            /\ list[i].value \in DOMAIN histogram => list[i].count > histogram[list[i].value]

IsTableOver(V, table) ==
    /\ IsTable(table)
    /\ DOMAIN table.entry_map \subseteq V
    /\ IsAnalyzerOver(V, table.leak_analyzer)
    /\ ScoresTrailCounts(table.leak_analyzer)

LEMMA NewTableIsTable ==
    ASSUME NEW V, NEW threshold PROVE IsTableOver(V, NewTable(threshold))
<1>1. IsTable(NewTable(threshold)) /\ DOMAIN NewTable(threshold).entry_map \subseteq V
    BY DEF NewTable, IsTable
<1>2. IsAnalyzerOver(V, NewAnalyzer(threshold))
    BY RankingAssumption, FS_EmptySet DEF NewAnalyzer, IsAnalyzerOver, IsListOver
<1>3. ScoresTrailCounts(NewAnalyzer(threshold))
    BY DEF NewAnalyzer, ScoresTrailCounts
<1> QED BY <1>1, <1>2, <1>3 DEF IsTableOver, NewTable

(* A test of a table, whatever list it builds. *)
LEMMA SampledStep ==
    ASSUME NEW V \in SUBSET Int, IsFiniteSet(V), NEW table, IsTableOver(V, table),
           table.leak_analyzer.score_threshold \in Nat,
           NEW list \in RankedLists(table)
    PROVE  LET new == Sampled(table, list)
               old == table.leak_analyzer.suspected_histogram
               scores == new.leak_analyzer.suspected_histogram
           IN  /\ IsTableOver(V, new)
               /\ new.entry_map = table.entry_map
               /\ new.leak_analyzer.score_threshold = table.leak_analyzer.score_threshold
               /\ table.leak_analyzer.ranked_entries = <<>> => DOMAIN scores = {}
               /\ DOMAIN scores \subseteq DOMAIN table.entry_map
               /\ \A v \in DOMAIN scores :
                     /\ scores[v] = IF v \in DOMAIN old THEN old[v] + 1 ELSE 1
                     /\ table.entry_map[v] > scores[v]
                     /\ \E w \in DOMAIN table.entry_map : w # v
<1> DEFINE analyzer == table.leak_analyzer
           new == AddSample(analyzer, list)
           old == analyzer.suspected_histogram
           scores == new.suspected_histogram
           map == table.entry_map
           prev == analyzer.ranked_entries
           S == SuspectsOf(analyzer, list)
<1>1. /\ IsTable(table) /\ DOMAIN map \subseteq V /\ IsAnalyzerOver(V, analyzer)
      /\ map \in [DOMAIN map -> Nat \ {0}]
    BY DEF IsTableOver, IsTable
<1>2. IsFiniteSet(DOMAIN map)
    BY <1>1, FS_Subset
<1>3. /\ IsListOver(V, list) /\ DistinctValues(list)
      /\ \A k \in DOMAIN list : list[k].value \in DOMAIN map /\ list[k].count = map[list[k].value]
    BY <1>1, <1>2, RankedListsShape
<1>4. /\ prev = <<>> => S = {}
      /\ scores = [v \in S |-> IF v \in DOMAIN old THEN old[v] + 1 ELSE 1]
      /\ IsAnalyzerOver(V, new)
    BY <1>1, <1>3, AddSampleStep
<1>5. new.ranked_entries = list /\ new.score_threshold = analyzer.score_threshold
    BY DEF AddSample
<1>6. /\ DOMAIN Sampled(table, list) = DOMAIN table
      /\ Sampled(table, list).entry_map = map /\ Sampled(table, list).leak_analyzer = new
    BY <1>1 DEF Sampled, IsTable
<1>7. IsListOver(V, prev) /\ old \in [DOMAIN old -> Nat \ {0}] /\ ScoresTrailCounts(analyzer)
    BY <1>1 DEF IsAnalyzerOver, IsTableOver
<1> HIDE DEF analyzer, new, scores, S, old, map, prev
<1>8. ASSUME NEW v \in S
      PROVE  /\ v \in DOMAIN map
             /\ map[v] > scores[v]
             /\ \E w \in DOMAIN map : w # v
  <2>1. v \in CurrentSuspects(Deltas(prev, list))
      BY DEF S, SuspectsOf, prev
  <2>2. /\ WasRanked(prev, v) /\ PreviousCount(prev, v) \in Int
        /\ \E i \in DOMAIN list : list[i].value = v /\ list[i].count > PreviousCount(prev, v)
        /\ \E i \in DOMAIN list : list[i].value # v
      BY <1>3, <1>7, <2>1, SuspectsGrow
  <2>3. PICK i \in DOMAIN prev : prev[i].value = v /\ prev[i].count = PreviousCount(prev, v)
      BY <1>7, <2>2, PreviousCountType DEF IsListOver
  <2>4. /\ PreviousCount(prev, v) > 0
        /\ v \in DOMAIN old => PreviousCount(prev, v) > old[v]
      BY <1>7, <2>3 DEF ScoresTrailCounts, prev, old
  <2>5. v \in DOMAIN map /\ map[v] \in Nat /\ map[v] > PreviousCount(prev, v)
      BY <1>1, <1>3, <2>2 DEF map
  <2>6. map[v] > scores[v]
    <3>1. scores[v] = IF v \in DOMAIN old THEN old[v] + 1 ELSE 1
        BY <1>4
    <3>2. v \in DOMAIN old => old[v] \in Nat
        BY <1>7
    <3> QED BY <2>2, <2>4, <2>5, <3>1, <3>2
  <2> QED BY <1>3, <2>2, <2>5, <2>6
<1>9. ScoresTrailCounts(new)
  <2> SUFFICES ASSUME NEW i \in DOMAIN list
               PROVE  /\ list[i].count > 0
                      /\ list[i].value \in DOMAIN scores => list[i].count > scores[list[i].value]
      BY <1>5 DEF ScoresTrailCounts, scores
  <2>1. list[i].value \in DOMAIN map /\ list[i].count = map[list[i].value]
      BY <1>3
  <2>2. map[list[i].value] \in Nat \ {0}
      BY <1>1, <2>1 DEF map
  <2>3. list[i].value \in DOMAIN scores => map[list[i].value] > scores[list[i].value]
      BY <1>4, <1>8
  <2> QED BY <2>1, <2>2, <2>3
<1>10. IsTableOver(V, Sampled(table, list))
    BY <1>1, <1>4, <1>6, <1>9 DEF IsTableOver, IsTable, map
<1>11. DOMAIN scores = S
    BY <1>4
<1>12. /\ prev = <<>> => DOMAIN scores = {}
       /\ DOMAIN scores \subseteq DOMAIN map
       /\ \A v \in DOMAIN scores :
             /\ scores[v] = IF v \in DOMAIN old THEN old[v] + 1 ELSE 1
             /\ map[v] > scores[v]
             /\ \E w \in DOMAIN map : w # v
    BY <1>4, <1>8, <1>11
<1> QED BY <1>5, <1>6, <1>10, <1>12 DEF analyzer, scores, old, map, prev
=============================================================================
