------------------------- MODULE LowLevelAllocProofs -------------------------
(***************************************************************************)
(* The arenas of LowLevelAlloc, for any sizes of blocks, pages and of the  *)
(* memory, any levels drawn and any calls of CustomAllocator: the skip     *)
(* list of the free blocks is in order and complete, the blocks tile the   *)
(* mapped memory, an arena that is emptied consists of whole pages, and    *)
(* the arenas are first-fit allocators.                                    *)
(***************************************************************************)
EXTENDS LowLevelAllocProperties, FiniteSetTheorems, WellFoundedInduction, TLAPS

LEMMA LeastNat ==
    ASSUME NEW S \in SUBSET Nat, S # {}
    PROVE  \E x \in S : \A y \in S : x <= y
<1>1. \E x \in S : \A y \in S : ~(<<y, x>> \in OpToRel(<, Nat))
    BY NatLessThanWellFounded, WFMin
<1>2. PICK x \in S : \A y \in S : ~(<<y, x>> \in OpToRel(<, Nat))
    BY <1>1
<1>3. \A y \in S : ~(y < x)
    BY <1>2 DEF OpToRel
<1> QED BY <1>3

LEMMA GreatestNat ==
    ASSUME NEW S \in SUBSET Nat, S # {}, NEW e \in Nat, \A x \in S : x <= e
    PROVE  \E x \in S : \A y \in S : y <= x
<1> DEFINE Distances == {n \in Nat : \E x \in S : n = e - x}
<1>1. Distances # {}
  <2>1. PICK x \in S : TRUE
      OBVIOUS
  <2>2. x <= e /\ x \in Nat
      BY <2>1
  <2>3. e - x \in Nat
      BY <2>2
  <2> QED BY <2>3
<1>2. PICK n \in Distances : \A m \in Distances : n <= m
    BY <1>1, LeastNat
<1>3. PICK x \in S : n = e - x
    BY <1>2
<1>4. ASSUME NEW y \in S
      PROVE  y <= x
  <2>1. y \in Nat /\ x \in Nat /\ y <= e
      OBVIOUS
  <2>2. e - y \in Distances
      BY <2>1
  <2> QED BY <2>1, <2>2, <1>2, <1>3
<1> QED BY <1>4

-----------------------------------------------------------------------------
(***************************************************************************)
(* A skip list: the pointers next of the blocks and of the head.  On every *)
(* level, a block points to the first one after it that has this level.    *)
(***************************************************************************)
IsFirstAfter(next, b, level, n) ==
    \/ /\ n = Null
       /\ \A m \in DOMAIN next : m > b => Len(next[m]) < level
    \/ /\ n \in DOMAIN next /\ n > b /\ level <= Len(next[n])
       /\ \A m \in DOMAIN next : m > b /\ m < n => Len(next[m]) < level

IsSkipList(next) ==
    /\ next = [b \in DOMAIN next |-> next[b]]
    /\ DOMAIN next \subseteq Nat \ {0}
    /\ FreeList \in DOMAIN next
    /\ \A b \in DOMAIN next : next[b] \in Seq(Nat) /\ Len(next[b]) \in 0..(MaxLevel - 1)
    /\ Len(next[FreeList]) = MaxLevel - 1
    /\ \A b \in DOMAIN next : \A level \in 1..Len(next[b]) :
          IsFirstAfter(next, b, level, next[b][level])

IsLastBefore(next, e, level, b) ==
    /\ b \in DOMAIN next /\ b < e /\ level <= Len(next[b])
    /\ \A m \in DOMAIN next : m > b /\ m < e => Len(next[m]) < level

LEMMA LastBeforeIsUnique ==
    ASSUME NEW next, IsSkipList(next), NEW e \in Nat, NEW level \in Levels,
           NEW b, NEW c, IsLastBefore(next, e, level, b), IsLastBefore(next, e, level, c)
    PROVE  b = c
<1>1. b \in Nat /\ c \in Nat
    BY DEF IsSkipList, IsLastBefore
<1>2. Len(next[b]) \in Nat /\ Len(next[c]) \in Nat /\ level \in Nat
    BY ArenaAssumption DEF IsSkipList, IsLastBefore, Levels
<1>3. ~(b > c) /\ ~(c > b)
    BY <1>1, <1>2 DEF IsLastBefore
<1> QED BY <1>1, <1>3

LEMMA LastBeforeExists ==
    ASSUME NEW next, IsSkipList(next), NEW e \in Nat, NEW level \in Levels,
           NEW p \in DOMAIN next, p < e, level <= Len(next[p])
    PROVE  \E b : IsLastBefore(next, e, level, b)
<1> DEFINE S == {b \in DOMAIN next : b < e /\ level <= Len(next[b])}
<1>1. S \in SUBSET Nat /\ S # {}
    BY DEF IsSkipList
<1>2. \A b \in S : b <= e
    BY <1>1
<1>3. PICK b \in S : \A c \in S : c <= b
    BY <1>1, <1>2, GreatestNat
<1>4. ASSUME NEW m \in DOMAIN next, m > b, m < e
      PROVE  Len(next[m]) < level
  <2>1. m \in Nat
      BY DEF IsSkipList
  <2>2. b \in Nat
      BY <1>1
  <2>3. next[m] \in Seq(Nat)
      BY DEF IsSkipList
  <2>4. m \notin S
      BY <1>3, <1>4, <2>1, <2>2
  <2>5. level \in Nat
      BY ArenaAssumption DEF Levels
  <2> QED BY <2>1, <2>3, <2>4, <2>5, <1>4
<1> QED BY <1>3, <1>4 DEF IsLastBefore

(* The search along a level finds the last block before the address. *)
Advances(h, e, level, last) ==
    last = [p \in WithLevel(h, level) |->
               IF h.next[p][level] # Null /\ h.next[p][level] < e
               THEN last[h.next[p][level]]
               ELSE p]

LEMMA NextOnLevel ==
    ASSUME NEW h, IsSkipList(h.next), NEW level \in Levels, NEW p \in WithLevel(h, level)
    PROVE  /\ p \in Nat /\ p \in DOMAIN h.next /\ level <= Len(h.next[p])
           /\ IsFirstAfter(h.next, p, level, h.next[p][level])
           /\ h.next[p][level] \in Nat
           /\ h.next[p][level] # Null => h.next[p][level] \in WithLevel(h, level)
                                         /\ h.next[p][level] > p
<1>1. p \in Nat /\ p \in DOMAIN h.next /\ level <= Len(h.next[p])
    BY DEF WithLevel, IsSkipList
<1>2. level \in 1..Len(h.next[p])
    BY <1>1, ArenaAssumption DEF Levels, IsSkipList
<1>3. IsFirstAfter(h.next, p, level, h.next[p][level])
    BY <1>1, <1>2 DEF IsSkipList
<1>4. h.next[p] \in Seq(Nat)
    BY <1>1 DEF IsSkipList
<1>5. h.next[p][level] \in Nat
    BY <1>2, <1>4
<1> QED BY <1>1, <1>3, <1>5 DEF IsFirstAfter, WithLevel

LEMMA LastFrom ==
    ASSUME NEW h, IsSkipList(h.next), NEW e \in Nat, NEW level \in Levels,
           NEW p \in WithLevel(h, level), p < e,
           ~(h.next[p][level] # Null /\ h.next[p][level] < e)
    PROVE  IsLastBefore(h.next, e, level, p)
<1>1. /\ p \in Nat /\ p \in DOMAIN h.next /\ level <= Len(h.next[p])
      /\ IsFirstAfter(h.next, p, level, h.next[p][level])
      /\ h.next[p][level] \in Nat
    BY NextOnLevel
<1>2. ASSUME NEW m \in DOMAIN h.next, m > p, m < e
      PROVE  Len(h.next[m]) < level
  <2> DEFINE n == h.next[p][level]
  <2>1. m \in Nat /\ n \in Nat
      BY <1>1 DEF IsSkipList
  <2>2. n = Null \/ m < n
      BY <1>2, <2>1
  <2> QED BY <1>1, <1>2, <2>1, <2>2 DEF IsFirstAfter, Null
<1> QED BY <1>1, <1>2 DEF IsLastBefore

LEMMA AdvancesExists ==
    ASSUME NEW h, IsSkipList(h.next), NEW e \in Nat, NEW level \in Levels
    PROVE  \E last : Advances(h, e, level, last)
<1> DEFINE Last == CHOOSE b : IsLastBefore(h.next, e, level, b)
           Goes(p) == h.next[p][level] # Null /\ h.next[p][level] < e
           last == [p \in WithLevel(h, level) |-> IF Goes(p) THEN Last ELSE p]
<1>1. ASSUME NEW p \in WithLevel(h, level), Goes(p)
      PROVE  last[h.next[p][level]] = Last
  <2> DEFINE n == h.next[p][level]
  <2>1. n \in WithLevel(h, level) /\ n < e
      BY <1>1, NextOnLevel
  <2>2. CASE Goes(n)
      BY <2>1, <2>2
  <2>3. CASE ~Goes(n)
    <3>1. IsLastBefore(h.next, e, level, n)
        BY <2>1, <2>3, LastFrom
    <3>2. IsLastBefore(h.next, e, level, Last)
        BY <3>1
    <3>3. n = Last
        BY <3>1, <3>2, LastBeforeIsUnique
    <3> QED BY <3>3, <2>1, <2>3
  <2> QED BY <2>2, <2>3
<1>2. last = [p \in WithLevel(h, level) |-> IF Goes(p) THEN last[h.next[p][level]] ELSE p]
    BY <1>1
<1>3. Advances(h, e, level, last)
    BY <1>2 DEF Advances
<1> QED BY <1>3

LEMMA AdvanceFinds ==
    ASSUME NEW h, IsSkipList(h.next), NEW e \in Nat, NEW level \in Levels,
           NEW p \in WithLevel(h, level), p < e
    PROVE  IsLastBefore(h.next, e, level, Advance(h, e, level, p))
<1> DEFINE last == CHOOSE last : Advances(h, e, level, last)
<1>1. Advances(h, e, level, last)
    BY AdvancesExists
<1>2. Advance(h, e, level, p) = last[p]
    BY DEF Advance, Advances
<1> HIDE DEF last
<1> DEFINE Bad == {q \in WithLevel(h, level) : q < e /\ ~IsLastBefore(h.next, e, level, last[q])}
<1>3. Bad = {}
  <2> SUFFICES ASSUME Bad # {}
               PROVE  FALSE
      OBVIOUS
  <2>1. Bad \in SUBSET Nat /\ \A q \in Bad : q <= e
      BY DEF WithLevel, IsSkipList
  <2>2. PICK q \in Bad : \A r \in Bad : r <= q
      BY <2>1, GreatestNat
  <2> DEFINE n == h.next[q][level]
  <2>3. CASE n # Null /\ n < e
    <3>1. n \in WithLevel(h, level) /\ n > q /\ n \in Nat /\ q \in Nat
        BY <2>3, NextOnLevel
    <3>2. n \notin Bad
        BY <2>2, <3>1
    <3>3. IsLastBefore(h.next, e, level, last[n])
        BY <3>1, <3>2, <2>3
    <3>4. last[q] = last[n]
        BY <1>1, <2>3 DEF Advances
    <3> QED BY <3>3, <3>4
  <2>4. CASE ~(n # Null /\ n < e)
    <3>1. IsLastBefore(h.next, e, level, q)
        BY <2>4, LastFrom
    <3>2. last[q] = q
        BY <1>1, <2>4 DEF Advances
    <3> QED BY <3>1, <3>2
  <2> QED BY <2>3, <2>4
<1> QED BY <1>2, <1>3

(* LLA_SkiplistSearch finds it on every level. *)
Searches(h, e, prev) ==
    prev = [level \in Levels |->
               Advance(h, e, level, IF level = MaxLevel - 1 THEN FreeList ELSE prev[level + 1])]

LEMMA SearchGoesOn ==
    ASSUME NEW h, IsSkipList(h.next), NEW e \in Nat, e > FreeList, NEW level \in Levels, NEW above,
           level = MaxLevel - 1 => above = FreeList,
           level # MaxLevel - 1 => IsLastBefore(h.next, e, level + 1, above)
    PROVE  IsLastBefore(h.next, e, level, Advance(h, e, level, above))
<1>1. above \in WithLevel(h, level) /\ above < e
  <2>1. CASE level = MaxLevel - 1
      BY <2>1, ArenaAssumption DEF IsSkipList, WithLevel, Levels, FreeList
  <2>2. CASE level # MaxLevel - 1
    <3>1. above \in DOMAIN h.next /\ above < e /\ level + 1 <= Len(h.next[above])
        BY <2>2 DEF IsLastBefore
    <3>2. Len(h.next[above]) \in Nat /\ level \in Nat
        BY <3>1, ArenaAssumption DEF IsSkipList, Levels
    <3> QED BY <3>1, <3>2 DEF WithLevel
  <2> QED BY <2>1, <2>2
<1> QED BY <1>1, AdvanceFinds

LEMMA LevelUp == \A level \in Levels : level \in Nat /\ (level # MaxLevel - 1 => level + 1 \in Levels)
    BY ArenaAssumption DEF Levels

LEMMA SearchFinds ==
    ASSUME NEW h, IsSkipList(h.next), NEW e \in Nat, e > FreeList, NEW level \in Levels
    PROVE  IsLastBefore(h.next, e, level, SkiplistSearch(h, e)[level])
<1> DEFINE Last(l) == CHOOSE b : IsLastBefore(h.next, e, l, b)
<1>1. ASSUME NEW l \in Levels
      PROVE  IsLastBefore(h.next, e, l, Last(l))
  <2>1. FreeList \in DOMAIN h.next /\ FreeList < e /\ l <= Len(h.next[FreeList])
      BY ArenaAssumption DEF IsSkipList, Levels
  <2>2. \E b : IsLastBefore(h.next, e, l, b)
      BY <2>1, LastBeforeExists
  <2> QED BY <2>2
<1> HIDE DEF Last
<1>2. \E prev : Searches(h, e, prev)
  <2> DEFINE prev == [l \in Levels |-> Last(l)]
  <2>1. ASSUME NEW l \in Levels
        PROVE  Last(l) = Advance(h, e, l, IF l = MaxLevel - 1 THEN FreeList ELSE prev[l + 1])
    <3> DEFINE above == IF l = MaxLevel - 1 THEN FreeList ELSE prev[l + 1]
    <3>1. l # MaxLevel - 1 => IsLastBefore(h.next, e, l + 1, above)
        BY <1>1, LevelUp
    <3>2. l = MaxLevel - 1 => above = FreeList
        OBVIOUS
    <3> HIDE DEF above
    <3>3. IsLastBefore(h.next, e, l, Advance(h, e, l, above))
        BY <3>1, <3>2, SearchGoesOn
    <3>4. Last(l) = Advance(h, e, l, above)
        BY <3>3, <1>1, LastBeforeIsUnique
    <3> QED BY <3>4 DEF above
  <2>2. Searches(h, e, prev)
      BY <2>1 DEF Searches
  <2> QED BY <2>2
<1> DEFINE prev == CHOOSE prev : Searches(h, e, prev)
<1>3. Searches(h, e, prev)
    BY <1>2
<1>4. SkiplistSearch(h, e) = prev
    BY DEF SkiplistSearch, Searches
<1> HIDE DEF prev
<1> DEFINE Bad == {l \in Levels : ~IsLastBefore(h.next, e, l, prev[l])}
<1>5. Bad = {}
  <2> SUFFICES ASSUME Bad # {}
               PROVE  FALSE
      OBVIOUS
  <2>1. Bad \in SUBSET Nat /\ MaxLevel \in Nat /\ \A l \in Bad : l <= MaxLevel
      BY ArenaAssumption DEF Levels
  <2>2. PICK l \in Bad : \A k \in Bad : k <= l
      BY <2>1, GreatestNat
  <2> DEFINE above == IF l = MaxLevel - 1 THEN FreeList ELSE prev[l + 1]
  <2>3. l # MaxLevel - 1 => IsLastBefore(h.next, e, l + 1, above)
    <3> SUFFICES ASSUME l # MaxLevel - 1
                 PROVE  IsLastBefore(h.next, e, l + 1, prev[l + 1])
        OBVIOUS
    <3>1. l + 1 \in Levels /\ l \in Nat
        BY LevelUp
    <3>2. l + 1 \notin Bad
        BY <3>1, <2>2
    <3> QED BY <3>1, <3>2
  <2>4. l = MaxLevel - 1 => above = FreeList
      OBVIOUS
  <2>5. prev[l] = Advance(h, e, l, above)
      BY <1>3 DEF Searches
  <2> HIDE DEF above
  <2>6. IsLastBefore(h.next, e, l, Advance(h, e, l, above))
      BY <2>3, <2>4, SearchGoesOn
  <2> QED BY <2>5, <2>6
<1> QED BY <1>4, <1>5

(* What a search for e has to return. *)
IsSearched(next, e, prev) ==
    /\ IsSkipList(next) /\ e \in Nat /\ e > FreeList
    /\ \A level \in Levels : IsLastBefore(next, e, level, prev[level])

-----------------------------------------------------------------------------
(* LLA_SkiplistInsert, once it has gone up to a level. *)
InsertedUpTo(next, e, prev, i) ==
    [b \in DOMAIN next \union {e} |->
        IF b = e
        THEN [level \in 1..i |-> next[prev[level]][level]]
        ELSE [level \in 1..Len(next[b]) |->
                 IF level <= i /\ b = prev[level] THEN e ELSE next[b][level]]]

InsertAt(x, next, e, prev, i) ==
    [x EXCEPT ![e] = Append(@, next[prev[i]][i]), ![prev[i]][i] = e]

Inserts(next, e, prev, levels, inserted) ==
    inserted = [i \in 0..levels |->
        IF i = 0
        THEN Put(next, e, <<>>)
        ELSE InsertAt(inserted[i - 1], next, e, prev, i)]

LEMMA PrevIs ==
    ASSUME NEW next, NEW e, NEW prev, IsSearched(next, e, prev), NEW i \in Levels
    PROVE  /\ prev[i] \in DOMAIN next /\ prev[i] # e /\ prev[i] \in Nat /\ i \in 1..Len(next[prev[i]])
           /\ next[prev[i]] \in Seq(Nat)
<1>1. IsLastBefore(next, e, i, prev[i]) /\ IsSkipList(next) /\ e \in Nat
    BY DEF IsSearched
<1>2. prev[i] \in DOMAIN next /\ prev[i] < e /\ i <= Len(next[prev[i]])
    BY <1>1 DEF IsLastBefore
<1>3. prev[i] \in Nat /\ next[prev[i]] \in Seq(Nat)
    BY <1>1, <1>2 DEF IsSkipList
<1>4. i \in 1..Len(next[prev[i]])
    BY <1>2, <1>3, LevelUp DEF Levels
<1> QED BY <1>1, <1>2, <1>3, <1>4

LEMMA InsertStarts ==
    ASSUME NEW next, NEW e, NEW prev, IsSearched(next, e, prev), e \notin DOMAIN next
    PROVE  Put(next, e, <<>>) = InsertedUpTo(next, e, prev, 0)
<1> DEFINE first == Put(next, e, <<>>)
           upto == InsertedUpTo(next, e, prev, 0)
<1>1. first = [b \in {e} \union DOMAIN next |-> IF b = e THEN <<>> ELSE next[b]]
    BY DEF Put
<1>2. \A b \in DOMAIN next : next[b] = [level \in 1..Len(next[b]) |-> next[b][level]]
    BY DEF IsSearched, IsSkipList
<1>3. ASSUME NEW b \in DOMAIN next
      PROVE  upto[b] = next[b]
  <2>1. b # e
      OBVIOUS
  <2>2. upto[b] = [level \in 1..Len(next[b]) |->
                      IF level <= 0 /\ b = prev[level] THEN e ELSE next[b][level]]
      BY <2>1 DEF InsertedUpTo
  <2>3. \A level \in 1..Len(next[b]) : ~(level <= 0)
      OBVIOUS
  <2> QED BY <2>2, <2>3, <1>2
<1>4. upto[e] = [level \in 1..0 |-> next[prev[level]][level]]
    BY DEF InsertedUpTo
<1>5. upto[e] = <<>>
    BY <1>4
<1>6. upto = [b \in {e} \union DOMAIN next |-> upto[b]]
    BY DEF InsertedUpTo
<1> QED BY <1>1, <1>3, <1>5, <1>6

LEMMA InsertGoesOn ==
    ASSUME NEW next, NEW e, NEW prev, IsSearched(next, e, prev), e \notin DOMAIN next,
           NEW levels \in 0..(MaxLevel - 1), NEW i \in 1..levels
    PROVE  InsertedUpTo(next, e, prev, i) =
              InsertAt(InsertedUpTo(next, e, prev, i - 1), next, e, prev, i)
<1> DEFINE before == InsertedUpTo(next, e, prev, i - 1)
           after == InsertedUpTo(next, e, prev, i)
           p == prev[i]
           step == [before EXCEPT ![e] = Append(@, next[p][i]), ![p][i] = e]
<1>1. i \in Levels /\ i \in Nat /\ i - 1 \in Nat
    BY ArenaAssumption DEF Levels
<1>2. p \in DOMAIN next /\ p # e /\ i \in 1..Len(next[p]) /\ next[p] \in Seq(Nat)
    BY <1>1, PrevIs
<1>3. /\ DOMAIN before = DOMAIN next \union {e}
      /\ before[e] = [level \in 1..(i - 1) |-> next[prev[level]][level]]
      /\ \A b \in DOMAIN next :
            before[b] = [level \in 1..Len(next[b]) |->
                            IF level <= i - 1 /\ b = prev[level] THEN e ELSE next[b][level]]
    BY DEF InsertedUpTo
<1>4. /\ after = [b \in DOMAIN next \union {e} |-> after[b]]
      /\ after[e] = [level \in 1..i |-> next[prev[level]][level]]
      /\ \A b \in DOMAIN next :
            after[b] = [level \in 1..Len(next[b]) |->
                           IF level <= i /\ b = prev[level] THEN e ELSE next[b][level]]
    BY DEF InsertedUpTo
<1>5. /\ step = [b \in DOMAIN next \union {e} |-> step[b]]
      /\ step[e] = Append(before[e], next[p][i])
      /\ step[p] = [before[p] EXCEPT ![i] = e]
      /\ \A b \in DOMAIN next \ {p} : step[b] = before[b]
  <2> HIDE DEF before
  <2> QED BY <1>2, <1>3
<1> HIDE DEF before, after, step
<1>6. step[e] = after[e]
  <2>1. ASSUME NEW level \in 1..(i - 1)
        PROVE  next[prev[level]][level] \in Nat
    <3>1. level \in Levels
        BY ArenaAssumption, <1>1 DEF Levels
    <3> QED BY <3>1, PrevIs
  <2>2. before[e] \in Seq(Nat) /\ Len(before[e]) = i - 1
      BY <2>1, <1>3, <1>1
  <2>3. next[p][i] \in Nat
      BY <1>2
  <2>4. Append(before[e], next[p][i]) =
            [level \in 1..i |-> IF level = i THEN next[p][i] ELSE before[e][level]]
      BY <2>2, <2>3, <1>1
  <2>5. \A level \in 1..i :
            (IF level = i THEN next[p][i] ELSE before[e][level]) = next[prev[level]][level]
      BY <1>3, <1>1
  <2>6. Append(before[e], next[p][i]) = [level \in 1..i |-> next[prev[level]][level]]
      BY <2>4, <2>5
  <2> QED BY <2>6, <1>4, <1>5
<1>7. step[p] = after[p]
  <2>1. step[p] = [level \in 1..Len(next[p]) |-> IF level = i THEN e ELSE before[p][level]]
      BY <1>2, <1>3, <1>5
  <2>2. \A level \in 1..Len(next[p]) : level <= i <=> level <= i - 1 \/ level = i
      BY <1>1
  <2>3. \A level \in 1..Len(next[p]) :
            (IF level = i THEN e ELSE before[p][level]) =
                (IF level <= i /\ p = prev[level] THEN e ELSE next[p][level])
      BY <2>2, <1>2, <1>3
  <2>4. after[p] = [level \in 1..Len(next[p]) |->
                       IF level <= i /\ p = prev[level] THEN e ELSE next[p][level]]
      BY <1>2, <1>4
  <2> HIDE DEF p
  <2> QED BY <2>1, <2>3, <2>4
<1>8. ASSUME NEW b \in DOMAIN next, b # p
      PROVE  step[b] = after[b]
  <2>1. \A level \in 1..Len(next[b]) :
            (level <= i /\ b = prev[level]) <=> (level <= i - 1 /\ b = prev[level])
      BY <1>1, <1>8
  <2>2. step[b] = before[b]
      BY <1>5, <1>8
  <2>3. before[b] = [level \in 1..Len(next[b]) |->
                        IF level <= i - 1 /\ b = prev[level] THEN e ELSE next[b][level]]
      BY <1>3
  <2>4. after[b] = [level \in 1..Len(next[b]) |->
                       IF level <= i /\ b = prev[level] THEN e ELSE next[b][level]]
      BY <1>4
  <2> QED BY <2>1, <2>2, <2>3, <2>4
<1>9. step = after
    BY <1>4, <1>5, <1>6, <1>7, <1>8
<1> QED BY <1>9 DEF step, after, before, InsertAt

LEMMA InsertEnds ==
    ASSUME NEW next, NEW e, NEW prev, IsSearched(next, e, prev), e \notin DOMAIN next,
           NEW levels \in 0..(MaxLevel - 1)
    PROVE  (CHOOSE inserted : Inserts(next, e, prev, levels, inserted))[levels] =
              InsertedUpTo(next, e, prev, levels)
<1> DEFINE UpTo(i) == InsertedUpTo(next, e, prev, i)
           Step(x, i) == InsertAt(x, next, e, prev, i)
<1>1. levels \in Nat
    BY ArenaAssumption
<1>2. UpTo(0) = Put(next, e, <<>>)
    BY InsertStarts
<1>3. ASSUME NEW i \in 1..levels
      PROVE  UpTo(i) = Step(UpTo(i - 1), i)
    BY InsertGoesOn
<1> HIDE DEF UpTo
<1>4. \E inserted : Inserts(next, e, prev, levels, inserted)
  <2> DEFINE inserted == [i \in 0..levels |-> UpTo(i)]
  <2>1. ASSUME NEW i \in 0..levels
        PROVE  UpTo(i) = IF i = 0 THEN Put(next, e, <<>>) ELSE Step(inserted[i - 1], i)
    <3>1. CASE i = 0
        BY <3>1, <1>2
    <3>2. CASE i # 0
      <4>1. i \in 1..levels /\ i - 1 \in 0..levels
          BY <3>2, <1>1
      <4>2. inserted[i - 1] = UpTo(i - 1)
          BY <4>1
      <4> HIDE DEF Step, inserted
      <4> QED BY <3>2, <4>1, <4>2, <1>3
    <3> QED BY <3>1, <3>2
  <2>2. Inserts(next, e, prev, levels, inserted)
    <3> HIDE DEF Step
    <3>1. inserted = [i \in 0..levels |->
                         IF i = 0 THEN Put(next, e, <<>>) ELSE Step(inserted[i - 1], i)]
        BY <2>1
    <3> HIDE DEF inserted
    <3> QED BY <3>1 DEF Inserts, Step
  <2> QED BY <2>2
<1> DEFINE inserted == CHOOSE inserted : Inserts(next, e, prev, levels, inserted)
<1>5. Inserts(next, e, prev, levels, inserted)
    BY <1>4
<1> HIDE DEF inserted
<1>6. /\ inserted[0] = Put(next, e, <<>>)
      /\ \A i \in 1..levels : inserted[i] = Step(inserted[i - 1], i)
  <2>1. \A i \in 0..levels :
            inserted[i] = IF i = 0 THEN Put(next, e, <<>>) ELSE Step(inserted[i - 1], i)
      BY <1>5 DEF Inserts
  <2>2. 0 \in 0..levels /\ \A i \in 1..levels : i \in 0..levels /\ i # 0
      BY <1>1
  <2> HIDE DEF Step
  <2> QED BY <2>1, <2>2
<1> HIDE DEF Step
<1> DEFINE Bad == {i \in 0..levels : inserted[i] # UpTo(i)}
<1>7. Bad = {}
  <2> SUFFICES ASSUME Bad # {}
               PROVE  FALSE
      OBVIOUS
  <2>1. Bad \in SUBSET Nat
      BY <1>1
  <2>2. PICK i \in Bad : \A j \in Bad : i <= j
      BY <2>1, LeastNat
  <2>3. i # 0
      BY <1>2, <1>6
  <2>4. i \in 1..levels /\ i - 1 \in 0..levels /\ ~(i <= i - 1)
      BY <2>3, <1>1
  <2>5. inserted[i - 1] = UpTo(i - 1)
      BY <2>2, <2>4
  <2> QED BY <2>4, <2>5, <1>3, <1>6
<1>8. levels \in 0..levels
    BY <1>1
<1>9. inserted[levels] = UpTo(levels)
    BY <1>7, <1>8
<1> QED BY <1>9 DEF inserted, UpTo

LEMMA SkiplistInsertIs ==
    ASSUME NEW h, NEW e \in Nat, e > FreeList, IsSkipList(h.next), e \notin DOMAIN h.next,
           NEW levels \in 0..(MaxLevel - 1)
    PROVE  /\ SkiplistInsert(h, e, levels) =
                 [h EXCEPT !.next = InsertedUpTo(h.next, e, SkiplistSearch(h, e), levels)]
           /\ IsSearched(h.next, e, SkiplistSearch(h, e))
<1> DEFINE prev == SkiplistSearch(h, e)
<1>1. IsSearched(h.next, e, prev)
    BY SearchFinds DEF IsSearched
<1> HIDE DEF prev
<1> DEFINE inserted == CHOOSE inserted : Inserts(h.next, e, prev, levels, inserted)
<1>2. inserted[levels] = InsertedUpTo(h.next, e, prev, levels)
    BY <1>1, InsertEnds
<1>3. SkiplistInsert(h, e, levels) = [h EXCEPT !.next = inserted[levels]]
    BY DEF SkiplistInsert, Inserts, InsertAt, prev
<1> HIDE DEF inserted
<1> QED BY <1>1, <1>2, <1>3 DEF prev

(* Inserting keeps the list in order. *)
WithInserted(next, e, levels, inserted) ==
    /\ IsSkipList(inserted)
    /\ DOMAIN inserted = DOMAIN next \union {e}
    /\ Len(inserted[e]) = levels
    /\ \A b \in DOMAIN next : Len(inserted[b]) = Len(next[b])

LEMMA InsertKeepsSkipList ==
    ASSUME NEW next, NEW e, NEW prev, IsSearched(next, e, prev), e \notin DOMAIN next,
           NEW levels \in 0..(MaxLevel - 1)
    PROVE  WithInserted(next, e, levels, InsertedUpTo(next, e, prev, levels))
<1> DEFINE inserted == InsertedUpTo(next, e, prev, levels)
<1>1. levels \in Nat /\ e \in Nat /\ e > 1 /\ IsSkipList(next) /\ MaxLevel \in Nat
    BY ArenaAssumption DEF IsSearched, FreeList
<1>2. /\ inserted = [b \in DOMAIN inserted |-> inserted[b]]
      /\ DOMAIN inserted = DOMAIN next \union {e}
      /\ inserted[e] = [level \in 1..levels |-> next[prev[level]][level]]
      /\ \A b \in DOMAIN next :
            inserted[b] = [level \in 1..Len(next[b]) |->
                              IF level <= levels /\ b = prev[level] THEN e ELSE next[b][level]]
    BY DEF InsertedUpTo
<1> HIDE DEF inserted
<1>3. ASSUME NEW level \in 1..levels
      PROVE  /\ level \in Levels /\ level \in Nat
             /\ prev[level] \in DOMAIN next /\ prev[level] \in Nat /\ prev[level] < e
             /\ level \in 1..Len(next[prev[level]])
             /\ IsFirstAfter(next, prev[level], level, next[prev[level]][level])
             /\ next[prev[level]][level] \in Nat
             /\ \A m \in DOMAIN next : m > prev[level] /\ m < e => Len(next[m]) < level
  <2>1. level \in Levels /\ level \in Nat
      BY <1>1 DEF Levels
  <2>2. /\ prev[level] \in DOMAIN next /\ prev[level] \in Nat
        /\ level \in 1..Len(next[prev[level]]) /\ next[prev[level]] \in Seq(Nat)
      BY <2>1, PrevIs
  <2>3. IsFirstAfter(next, prev[level], level, next[prev[level]][level])
      BY <1>1, <2>2 DEF IsSkipList
  <2>4. next[prev[level]][level] \in Nat
      BY <2>2
  <2>5. IsLastBefore(next, e, level, prev[level])
      BY <2>1 DEF IsSearched
  <2> QED BY <2>1, <2>2, <2>3, <2>4, <2>5 DEF IsLastBefore
<1>4. inserted[e] \in Seq(Nat) /\ Len(inserted[e]) = levels
  <2>1. \A level \in 1..levels : next[prev[level]][level] \in Nat
      BY <1>3
  <2>2. inserted[e] = [level \in 1..levels |-> next[prev[level]][level]]
      BY <1>2
  <2> QED BY <2>1, <2>2, <1>1
<1>5. ASSUME NEW b \in DOMAIN next
      PROVE  /\ inserted[b] \in Seq(Nat) /\ Len(inserted[b]) = Len(next[b])
             /\ b \in Nat /\ b > 0 /\ b # e /\ Len(next[b]) \in Nat /\ next[b] \in Seq(Nat)
             /\ Len(next[b]) \in 0..(MaxLevel - 1)
  <2>1. /\ next[b] \in Seq(Nat) /\ b \in Nat /\ b > 0 /\ b # e
        /\ Len(next[b]) \in 0..(MaxLevel - 1)
      BY <1>1 DEF IsSkipList
  <2>2. Len(next[b]) \in Nat
      BY <2>1
  <2>3. \A level \in 1..Len(next[b]) :
            (IF level <= levels /\ b = prev[level] THEN e ELSE next[b][level]) \in Nat
      BY <2>1, <1>1
  <2>4. inserted[b] = [level \in 1..Len(next[b]) |->
                          IF level <= levels /\ b = prev[level] THEN e ELSE next[b][level]]
      BY <1>2
  <2>5. inserted[b] \in Seq(Nat) /\ Len(inserted[b]) = Len(next[b])
      BY <2>2, <2>3, <2>4
  <2> QED BY <2>1, <2>2, <2>5
<1>6. ASSUME NEW level \in 1..Len(inserted[e])
      PROVE  IsFirstAfter(inserted, e, level, inserted[e][level])
  <2> DEFINE p == prev[level]
             n == next[p][level]
  <2>1. level \in 1..levels
      BY <1>4
  <2>2. inserted[e][level] = n
      BY <1>2, <2>1
  <2>3. /\ level \in Nat /\ p \in DOMAIN next /\ p \in Nat /\ p < e
        /\ IsFirstAfter(next, p, level, n) /\ n \in Nat
        /\ \A m \in DOMAIN next : m > p /\ m < e => Len(next[m]) < level
      BY <1>3, <2>1
  <2> HIDE DEF p, n
  <2>4. CASE n = Null
    <3>1. \A m \in DOMAIN next : m > p => Len(next[m]) < level
        BY <2>3, <2>4 DEF IsFirstAfter, Null
    <3>2. \A m \in DOMAIN inserted : m > e => Len(inserted[m]) < level
        BY <3>1, <1>1, <1>2, <1>5, <2>3
    <3> QED BY <3>2, <2>2, <2>4 DEF IsFirstAfter
  <2>5. CASE n # Null
    <3>1. /\ n \in DOMAIN next /\ n > p /\ level <= Len(next[n])
          /\ \A m \in DOMAIN next : m > p /\ m < n => Len(next[m]) < level
        BY <2>3, <2>5 DEF IsFirstAfter
    <3>2. n > e
      <4>1. n # e /\ Len(next[n]) \in Nat
          BY <3>1, <1>5
      <4>2. ~(n < e)
          BY <3>1, <4>1, <2>3
      <4> QED BY <4>1, <4>2, <2>3, <1>1
    <3>3. n \in DOMAIN inserted /\ level <= Len(inserted[n])
        BY <3>1, <1>2, <1>5
    <3>4. ASSUME NEW m \in DOMAIN inserted, m > e, m < n
          PROVE  Len(inserted[m]) < level
      <4>1. m \in DOMAIN next /\ m \in Nat
          BY <3>4, <1>1, <1>2, <1>5
      <4> QED BY <4>1, <3>4, <3>1, <2>3, <1>1, <1>5
    <3> QED BY <2>2, <3>2, <3>3, <3>4 DEF IsFirstAfter
  <2> QED BY <2>4, <2>5
<1>7. ASSUME NEW b \in DOMAIN next, NEW level \in 1..Len(inserted[b])
      PROVE  IsFirstAfter(inserted, b, level, inserted[b][level])
  <2> DEFINE n == next[b][level]
  <2>1. level \in 1..Len(next[b]) /\ level \in Nat /\ b \in Nat /\ b # e
      BY <1>5
  <2>2. IsFirstAfter(next, b, level, n)
      BY <2>1, <1>1 DEF IsSkipList
  <2>5. n \in Nat
      BY <2>1, <1>5
  <2>3. CASE level <= levels /\ b = prev[level]
    <3>1. inserted[b][level] = e
        BY <2>1, <2>3, <1>2
    <3>2. level \in 1..levels
        BY <2>1, <2>3, <1>1
    <3>3. b < e /\ \A m \in DOMAIN next : m > b /\ m < e => Len(next[m]) < level
        BY <3>2, <2>3, <1>3
    <3>4. e \in DOMAIN inserted /\ e > b /\ level <= Len(inserted[e])
        BY <1>2, <1>4, <3>2, <3>3
    <3>5. \A m \in DOMAIN inserted : m > b /\ m < e => Len(inserted[m]) < level
        BY <3>3, <1>1, <1>2, <1>5
    <3> QED BY <3>1, <3>4, <3>5 DEF IsFirstAfter
  <2>4. CASE ~(level <= levels /\ b = prev[level])
    <3>1. inserted[b][level] = n
        BY <2>1, <2>4, <1>2
    <3> HIDE DEF n
    <3>2. e > b /\ level <= levels => n # Null /\ n \in DOMAIN next /\ n > b /\ n < e
      <4> SUFFICES ASSUME e > b, level <= levels
                   PROVE  n # Null /\ n \in DOMAIN next /\ n > b /\ n < e
          OBVIOUS
      <4> DEFINE p == prev[level]
      <4>1. level \in 1..levels
          BY <2>1, <1>1
      <4>2. /\ p \in DOMAIN next /\ p \in Nat /\ p < e /\ level <= Len(next[p])
            /\ \A m \in DOMAIN next : m > p /\ m < e => Len(next[m]) < level
        <5>1. level \in 1..Len(next[p])
            BY <4>1, <1>3
        <5> QED BY <5>1, <4>1, <1>3
      <4>3. b # p
          BY <2>4
      <4> HIDE DEF p
      <4>4. level <= Len(next[b]) /\ Len(next[b]) \in Nat /\ Len(next[p]) \in Nat
          BY <2>1, <4>2, <1>5
      <4>5. b < p
          BY <4>2, <4>3, <4>4, <2>1
      <4>6. ~(Len(next[p]) < level)
          BY <4>2, <4>4, <2>1
      <4>7. n # Null
        <5>1. ~(\A m \in DOMAIN next : m > b => Len(next[m]) < level)
            BY <4>2, <4>5, <4>6, <2>1
        <5> QED BY <5>1, <2>1, <2>2, <2>5 DEF IsFirstAfter, Null
      <4>8. n \in DOMAIN next /\ n > b /\ \A m \in DOMAIN next : m > b /\ m < n => Len(next[m]) < level
          BY <4>7, <2>2 DEF IsFirstAfter
      <4>9. n <= p
          BY <4>8, <4>2, <4>5, <4>6, <2>1, <2>5
      <4> QED BY <4>7, <4>8, <4>9, <4>2, <2>5, <1>1
    <3>3. CASE n = Null
      <4>1. \A m \in DOMAIN next : m > b => Len(next[m]) < level
          BY <2>1, <2>2, <3>3 DEF IsFirstAfter, Null
      <4>2. e > b => levels < level
          BY <3>2, <3>3, <1>1, <2>1
      <4>3. \A m \in DOMAIN inserted : m > b => Len(inserted[m]) < level
          BY <4>1, <4>2, <1>2, <1>4, <1>5
      <4> QED BY <3>1, <3>3, <4>3 DEF IsFirstAfter
    <3>4. CASE n # Null
      <4>1. /\ n \in DOMAIN next /\ n > b /\ level <= Len(next[n])
            /\ \A m \in DOMAIN next : m > b /\ m < n => Len(next[m]) < level
          BY <3>4, <2>2 DEF IsFirstAfter
      <4>2. e > b /\ e < n => levels < level
          BY <3>2, <1>1, <2>1, <2>5
      <4>3. n \in DOMAIN inserted /\ level <= Len(inserted[n])
          BY <4>1, <1>2, <1>5
      <4>4. \A m \in DOMAIN inserted : m > b /\ m < n => Len(inserted[m]) < level
          BY <4>1, <4>2, <1>2, <1>4, <1>5
      <4> QED BY <3>1, <4>1, <4>3, <4>4 DEF IsFirstAfter
    <3> QED BY <3>3, <3>4
  <2> QED BY <2>3, <2>4
<1>8. IsSkipList(inserted)
  <2>1. DOMAIN inserted \subseteq Nat \ {0} /\ FreeList \in DOMAIN inserted
      BY <1>1, <1>2, <1>5 DEF IsSkipList
  <2>2. \A b \in DOMAIN inserted :
            inserted[b] \in Seq(Nat) /\ Len(inserted[b]) \in 0..(MaxLevel - 1)
      BY <1>2, <1>4, <1>5
  <2>3. Len(inserted[FreeList]) = MaxLevel - 1
      BY <1>1, <1>5 DEF IsSkipList
  <2>4. \A b \in DOMAIN inserted : \A level \in 1..Len(inserted[b]) :
            IsFirstAfter(inserted, b, level, inserted[b][level])
      BY <1>2, <1>6, <1>7
  <2> QED BY <1>2, <2>1, <2>2, <2>3, <2>4 DEF IsSkipList
<1>9. WithInserted(next, e, levels, inserted)
    BY <1>2, <1>4, <1>5, <1>8 DEF WithInserted
<1> QED BY <1>9 DEF inserted

-----------------------------------------------------------------------------
(* LLA_SkiplistDelete, once it has gone up to a level. *)
DeletedUpTo(next, e, prev, i) ==
    [b \in DOMAIN next |->
        [level \in 1..Len(next[b]) |->
            IF level <= i /\ b = prev[level] THEN next[e][level] ELSE next[b][level]]]

DeleteAt(x, next, e, prev, i) ==
    IF \A j \in 1..i : next[prev[j]][j] = e THEN [x EXCEPT ![prev[i]][i] = next[e][i]] ELSE x

Deletes(next, e, prev, deleted) ==
    deleted = [i \in 0..Len(next[e]) |->
        IF i = 0 THEN next ELSE DeleteAt(deleted[i - 1], next, e, prev, i)]

(* The block is found on every level that it has. *)
LEMMA BlockIsLinked ==
    ASSUME NEW next, NEW e, NEW prev, IsSearched(next, e, prev), e \in DOMAIN next,
           NEW level \in 1..Len(next[e])
    PROVE  level \in Levels /\ next[prev[level]][level] = e
<1> DEFINE p == prev[level]
           n == next[p][level]
<1>1. IsSkipList(next) /\ e \in Nat /\ e > 0
    BY DEF IsSearched, FreeList
<1>2. Len(next[e]) \in 0..(MaxLevel - 1) /\ MaxLevel \in Nat
    BY <1>1, ArenaAssumption DEF IsSkipList
<1>3. level \in Levels /\ level \in Nat
    BY <1>2 DEF Levels
<1>4. p \in DOMAIN next /\ p \in Nat /\ level \in 1..Len(next[p]) /\ next[p] \in Seq(Nat)
    BY <1>3, PrevIs
<1>5. IsFirstAfter(next, p, level, n)
    BY <1>1, <1>4 DEF IsSkipList
<1>6. n \in Nat
    BY <1>4
<1>7. IsLastBefore(next, e, level, p)
    BY <1>3 DEF IsSearched
<1>8. p < e /\ \A m \in DOMAIN next : m > p /\ m < e => Len(next[m]) < level
    BY <1>7 DEF IsLastBefore
<1> HIDE DEF p, n
<1>9. ~(Len(next[e]) < level)
    BY <1>2, <1>3
<1>10. n # Null
    BY <1>1, <1>4, <1>5, <1>6, <1>8, <1>9 DEF IsFirstAfter, Null
<1>11. /\ n \in DOMAIN next /\ n > p /\ level <= Len(next[n])
       /\ \A m \in DOMAIN next : m > p /\ m < n => Len(next[m]) < level
    BY <1>5, <1>10 DEF IsFirstAfter
<1>12. Len(next[n]) \in Nat
    BY <1>1, <1>2, <1>11 DEF IsSkipList
<1>13. ~(n < e)
    BY <1>3, <1>8, <1>11, <1>12
<1>14. ~(e < n)
    BY <1>4, <1>8, <1>9, <1>11, <1>1
<1>15. n = e
    BY <1>13, <1>14, <1>1, <1>6
<1> QED BY <1>3, <1>15 DEF n, p

LEMMA DeleteStarts ==
    ASSUME NEW next, IsSkipList(next), NEW e, NEW prev
    PROVE  next = DeletedUpTo(next, e, prev, 0)
<1> DEFINE upto == DeletedUpTo(next, e, prev, 0)
<1>1. ASSUME NEW b \in DOMAIN next
      PROVE  upto[b] = next[b]
  <2>1. next[b] = [level \in 1..Len(next[b]) |-> next[b][level]]
      BY DEF IsSkipList
  <2>2. \A level \in 1..Len(next[b]) :
            (IF level <= 0 /\ b = prev[level] THEN next[e][level] ELSE next[b][level]) = next[b][level]
      OBVIOUS
  <2>3. upto[b] = [level \in 1..Len(next[b]) |->
            IF level <= 0 /\ b = prev[level] THEN next[e][level] ELSE next[b][level]]
      BY DEF DeletedUpTo
  <2> QED BY <2>1, <2>2, <2>3
<1>2. upto = [b \in DOMAIN next |-> upto[b]]
    BY DEF DeletedUpTo
<1> HIDE DEF upto
<1>3. next = [b \in DOMAIN next |-> next[b]]
    BY DEF IsSkipList
<1> QED BY <1>1, <1>2, <1>3 DEF upto

LEMMA DeleteGoesOn ==
    ASSUME NEW next, NEW e, NEW prev, IsSearched(next, e, prev), e \in DOMAIN next,
           NEW i \in 1..Len(next[e])
    PROVE  DeletedUpTo(next, e, prev, i) =
              DeleteAt(DeletedUpTo(next, e, prev, i - 1), next, e, prev, i)
<1> DEFINE before == DeletedUpTo(next, e, prev, i - 1)
           after == DeletedUpTo(next, e, prev, i)
           p == prev[i]
           step == [before EXCEPT ![p][i] = next[e][i]]
<1>1. Len(next[e]) \in Nat
    BY ArenaAssumption DEF IsSearched, IsSkipList
<1>2. i \in Nat /\ i \in Levels
    BY <1>1, BlockIsLinked
<1>3. \A j \in 1..i : next[prev[j]][j] = e
  <2>1. \A j \in 1..i : j \in 1..Len(next[e])
      BY <1>1
  <2> QED BY <2>1, BlockIsLinked
<1>4. p \in DOMAIN next /\ i \in 1..Len(next[p]) /\ next[p] \in Seq(Nat)
    BY <1>2, PrevIs
<1>5. /\ DOMAIN before = DOMAIN next
      /\ \A b \in DOMAIN next :
            before[b] = [level \in 1..Len(next[b]) |->
                IF level <= i - 1 /\ b = prev[level] THEN next[e][level] ELSE next[b][level]]
    BY DEF DeletedUpTo
<1>6. /\ after = [b \in DOMAIN next |-> after[b]]
      /\ \A b \in DOMAIN next :
            after[b] = [level \in 1..Len(next[b]) |->
                IF level <= i /\ b = prev[level] THEN next[e][level] ELSE next[b][level]]
    BY DEF DeletedUpTo
<1>7. /\ step = [b \in DOMAIN next |-> step[b]]
      /\ step[p] = [before[p] EXCEPT ![i] = next[e][i]]
      /\ \A b \in DOMAIN next \ {p} : step[b] = before[b]
  <2> HIDE DEF before
  <2> QED BY <1>4, <1>5
<1>8. DeleteAt(before, next, e, prev, i) = step
    BY <1>3 DEF DeleteAt
<1> HIDE DEF before, after, step
<1>9. step[p] = after[p]
  <2>1. step[p] = [level \in 1..Len(next[p]) |-> IF level = i THEN next[e][i] ELSE before[p][level]]
      BY <1>4, <1>5, <1>7
  <2>2. \A level \in 1..Len(next[p]) : level <= i <=> level <= i - 1 \/ level = i
      BY <1>2
  <2>3. \A level \in 1..Len(next[p]) :
            (IF level = i THEN next[e][i] ELSE before[p][level]) =
                (IF level <= i /\ p = prev[level] THEN next[e][level] ELSE next[p][level])
      BY <2>2, <1>4, <1>5
  <2>4. after[p] = [level \in 1..Len(next[p]) |->
            IF level <= i /\ p = prev[level] THEN next[e][level] ELSE next[p][level]]
      BY <1>4, <1>6
  <2> HIDE DEF p
  <2> QED BY <2>1, <2>3, <2>4
<1>10. ASSUME NEW b \in DOMAIN next, b # p
       PROVE  step[b] = after[b]
  <2>1. \A level \in 1..Len(next[b]) :
            (level <= i /\ b = prev[level]) <=> (level <= i - 1 /\ b = prev[level])
      BY <1>2, <1>10
  <2>2. step[b] = before[b]
      BY <1>7, <1>10
  <2>3. before[b] = [level \in 1..Len(next[b]) |->
            IF level <= i - 1 /\ b = prev[level] THEN next[e][level] ELSE next[b][level]]
      BY <1>5
  <2>4. after[b] = [level \in 1..Len(next[b]) |->
            IF level <= i /\ b = prev[level] THEN next[e][level] ELSE next[b][level]]
      BY <1>6
  <2> QED BY <2>1, <2>2, <2>3, <2>4
<1>11. step = after
    BY <1>6, <1>7, <1>9, <1>10
<1> QED BY <1>8, <1>11 DEF after, before

LEMMA DeleteEnds ==
    ASSUME NEW next, NEW e, NEW prev, IsSearched(next, e, prev), e \in DOMAIN next
    PROVE  (CHOOSE deleted : Deletes(next, e, prev, deleted))[Len(next[e])] =
              DeletedUpTo(next, e, prev, Len(next[e]))
<1> DEFINE levels == Len(next[e])
           UpTo(i) == DeletedUpTo(next, e, prev, i)
           Step(x, i) == DeleteAt(x, next, e, prev, i)
<1>1. levels \in Nat
    BY ArenaAssumption DEF IsSearched, IsSkipList
<1>2. UpTo(0) = next
    BY DeleteStarts DEF IsSearched
<1>3. ASSUME NEW i \in 1..levels
      PROVE  UpTo(i) = Step(UpTo(i - 1), i)
    BY DeleteGoesOn
<1> HIDE DEF UpTo
<1>4. \E deleted : Deletes(next, e, prev, deleted)
  <2> DEFINE deleted == [i \in 0..levels |-> UpTo(i)]
  <2>1. ASSUME NEW i \in 0..levels
        PROVE  UpTo(i) = IF i = 0 THEN next ELSE Step(deleted[i - 1], i)
    <3>1. CASE i = 0
        BY <3>1, <1>2
    <3>2. CASE i # 0
      <4> HIDE DEF levels
      <4>1. i \in 1..levels /\ i - 1 \in 0..levels
          BY <3>2, <1>1
      <4>2. deleted[i - 1] = UpTo(i - 1)
          BY <4>1
      <4> HIDE DEF Step, deleted
      <4> QED BY <3>2, <4>1, <4>2, <1>3
    <3> QED BY <3>1, <3>2
  <2>2. Deletes(next, e, prev, deleted)
    <3> HIDE DEF Step
    <3>1. deleted = [i \in 0..levels |-> IF i = 0 THEN next ELSE Step(deleted[i - 1], i)]
        BY <2>1
    <3> HIDE DEF deleted
    <3> QED BY <3>1 DEF Deletes, Step
  <2> QED BY <2>2
<1> DEFINE deleted == CHOOSE deleted : Deletes(next, e, prev, deleted)
<1>5. Deletes(next, e, prev, deleted)
    BY <1>4
<1> HIDE DEF deleted
<1>6. /\ deleted[0] = next
      /\ \A i \in 1..levels : deleted[i] = Step(deleted[i - 1], i)
  <2>1. \A i \in 0..levels : deleted[i] = IF i = 0 THEN next ELSE Step(deleted[i - 1], i)
      BY <1>5 DEF Deletes
  <2> HIDE DEF levels
  <2>2. 0 \in 0..levels /\ \A i \in 1..levels : i \in 0..levels /\ i # 0
      BY <1>1
  <2> HIDE DEF Step
  <2> QED BY <2>1, <2>2
<1> HIDE DEF Step, levels
<1> DEFINE Bad == {i \in 0..levels : deleted[i] # UpTo(i)}
<1>7. Bad = {}
  <2> SUFFICES ASSUME Bad # {}
               PROVE  FALSE
      OBVIOUS
  <2>1. Bad \in SUBSET Nat
      BY <1>1
  <2>2. PICK i \in Bad : \A j \in Bad : i <= j
      BY <2>1, LeastNat
  <2>3. i # 0
      BY <1>2, <1>6
  <2>4. i \in 1..levels /\ i - 1 \in 0..levels /\ ~(i <= i - 1)
      BY <2>3, <1>1
  <2>5. deleted[i - 1] = UpTo(i - 1)
      BY <2>2, <2>4
  <2> QED BY <2>4, <2>5, <1>3, <1>6
<1>8. levels \in 0..levels
    BY <1>1
<1>9. deleted[levels] = UpTo(levels)
    BY <1>7, <1>8
<1> QED BY <1>9 DEF deleted, UpTo, levels

Deleted(next, e, prev) ==
    [b \in DOMAIN next \ {e} |-> DeletedUpTo(next, e, prev, Len(next[e]))[b]]

LEMMA SkiplistDeleteIs ==
    ASSUME NEW h, NEW e, IsSkipList(h.next), e \in DOMAIN h.next, e # FreeList
    PROVE  /\ SkiplistDelete(h, e) =
                 [h EXCEPT !.next = Deleted(h.next, e, SkiplistSearch(h, e))]
           /\ IsSearched(h.next, e, SkiplistSearch(h, e))
<1> DEFINE prev == SkiplistSearch(h, e)
<1>1. e \in Nat /\ e > FreeList
    BY DEF IsSkipList, FreeList
<1>2. IsSearched(h.next, e, prev)
    BY <1>1, SearchFinds DEF IsSearched
<1> HIDE DEF prev
<1> DEFINE deleted == CHOOSE deleted : Deletes(h.next, e, prev, deleted)
           unlinked == deleted[Len(h.next[e])]
<1>3. unlinked = DeletedUpTo(h.next, e, prev, Len(h.next[e]))
    BY <1>2, DeleteEnds
<1>4. SkiplistDelete(h, e) = [h EXCEPT !.next = [b \in DOMAIN h.next \ {e} |-> unlinked[b]]]
    BY DEF SkiplistDelete, Deletes, DeleteAt, prev
<1> HIDE DEF unlinked
<1> QED BY <1>2, <1>3, <1>4 DEF prev, Deleted

(* Deleting keeps the list in order. *)
WithDeleted(next, e, deleted) ==
    /\ IsSkipList(deleted)
    /\ DOMAIN deleted = DOMAIN next \ {e}
    /\ \A b \in DOMAIN next \ {e} : Len(deleted[b]) = Len(next[b])

LEMMA DeleteKeepsSkipList ==
    ASSUME NEW next, NEW e, NEW prev, IsSearched(next, e, prev), e \in DOMAIN next
    PROVE  WithDeleted(next, e, Deleted(next, e, prev))
<1> DEFINE deleted == [b \in DOMAIN next \ {e} |-> DeletedUpTo(next, e, prev, Len(next[e]))[b]]
           levels == Len(next[e])
<1>1. /\ e \in Nat /\ e > 1 /\ IsSkipList(next) /\ MaxLevel \in Nat
      /\ next[e] \in Seq(Nat) /\ levels \in Nat /\ levels \in 0..(MaxLevel - 1)
    BY ArenaAssumption DEF IsSearched, IsSkipList, FreeList
<1>2. /\ deleted = [b \in DOMAIN deleted |-> deleted[b]]
      /\ DOMAIN deleted = DOMAIN next \ {e}
      /\ \A b \in DOMAIN next \ {e} :
            deleted[b] = [level \in 1..Len(next[b]) |->
                IF level <= levels /\ b = prev[level] THEN next[e][level] ELSE next[b][level]]
    BY DEF DeletedUpTo
<1> HIDE DEF deleted, levels
<1>3. ASSUME NEW level \in 1..levels
      PROVE  /\ level \in Levels /\ level \in Nat
             /\ IsFirstAfter(next, e, level, next[e][level]) /\ next[e][level] \in Nat
             /\ prev[level] < e
             /\ \A m \in DOMAIN next : m > prev[level] /\ m < e => Len(next[m]) < level
  <2>1. level \in Levels /\ level \in Nat
      BY <1>1, BlockIsLinked DEF levels
  <2>2. IsFirstAfter(next, e, level, next[e][level])
      BY <1>1 DEF IsSkipList, levels
  <2>3. next[e][level] \in Nat
      BY <1>1 DEF levels
  <2>4. IsLastBefore(next, e, level, prev[level])
      BY <2>1 DEF IsSearched
  <2> QED BY <2>1, <2>2, <2>3, <2>4 DEF IsLastBefore
<1>4. ASSUME NEW b \in DOMAIN next
      PROVE  /\ b \in Nat /\ b > 0 /\ Len(next[b]) \in Nat /\ next[b] \in Seq(Nat)
             /\ Len(next[b]) \in 0..(MaxLevel - 1)
    BY <1>1 DEF IsSkipList
<1>5. ASSUME NEW b \in DOMAIN next, b # e
      PROVE  deleted[b] \in Seq(Nat) /\ Len(deleted[b]) = Len(next[b])
  <2>1. \A level \in 1..Len(next[b]) :
            (IF level <= levels /\ b = prev[level] THEN next[e][level] ELSE next[b][level]) \in Nat
    <3> SUFFICES ASSUME NEW level \in 1..Len(next[b])
                 PROVE  /\ level <= levels => next[e][level] \in Nat
                        /\ next[b][level] \in Nat
        OBVIOUS
    <3>1. next[b][level] \in Nat
        BY <1>4
    <3>2. level <= levels => level \in 1..levels
        BY <1>1, <1>4
    <3> QED BY <3>1, <3>2, <1>3
  <2>2. deleted[b] = [level \in 1..Len(next[b]) |->
            IF level <= levels /\ b = prev[level] THEN next[e][level] ELSE next[b][level]]
      BY <1>2, <1>5
  <2> QED BY <2>1, <2>2, <1>4
<1>6. ASSUME NEW b \in DOMAIN next, b # e, NEW level \in 1..Len(deleted[b])
      PROVE  IsFirstAfter(deleted, b, level, deleted[b][level])
  <2> DEFINE n == next[b][level]
  <2>1. level \in 1..Len(next[b]) /\ level \in Nat /\ b \in Nat
      BY <1>4, <1>5, <1>6
  <2>2. IsFirstAfter(next, b, level, n)
      BY <2>1, <1>1 DEF IsSkipList
  <2>3. n \in Nat
      BY <2>1, <1>4
  <2>4. CASE level <= levels /\ b = prev[level]
    <3> DEFINE k == next[e][level]
    <3>1. deleted[b][level] = k
        BY <2>1, <2>4, <1>2, <1>6
    <3>2. level \in 1..levels
        BY <2>1, <2>4, <1>1
    <3>3. /\ IsFirstAfter(next, e, level, k) /\ k \in Nat /\ b < e
          /\ \A m \in DOMAIN next : m > b /\ m < e => Len(next[m]) < level
        BY <3>2, <2>4, <1>3
    <3> HIDE DEF k, n
    <3>4. CASE k = Null
      <4>1. \A m \in DOMAIN next : m > e => Len(next[m]) < level
          BY <3>3, <3>4, <1>1 DEF IsFirstAfter, Null
      <4>2. ASSUME NEW m \in DOMAIN deleted, m > b
            PROVE  Len(deleted[m]) < level
        <5>1. m \in DOMAIN next /\ m # e /\ m \in Nat
            BY <1>2, <1>4
        <5>2. m < e \/ m > e
            BY <5>1, <1>1
        <5> QED BY <5>1, <5>2, <4>1, <4>2, <3>3, <1>5
      <4> QED BY <3>1, <3>4, <4>2 DEF IsFirstAfter
    <3>5. CASE k # Null
      <4>1. /\ k \in DOMAIN next /\ k > e /\ level <= Len(next[k])
            /\ \A m \in DOMAIN next : m > e /\ m < k => Len(next[m]) < level
          BY <3>3, <3>5 DEF IsFirstAfter
      <4>2. k \in DOMAIN deleted /\ k > b /\ level <= Len(deleted[k])
        <5>1. k # e
            BY <4>1, <1>1
        <5> QED BY <5>1, <4>1, <3>3, <2>1, <1>1, <1>2, <1>5
      <4>3. ASSUME NEW m \in DOMAIN deleted, m > b, m < k
            PROVE  Len(deleted[m]) < level
        <5>1. m \in DOMAIN next /\ m # e /\ m \in Nat
            BY <1>2, <1>4
        <5>2. m < e \/ m > e
            BY <5>1, <1>1
        <5> QED BY <5>1, <5>2, <4>1, <4>3, <3>3, <1>5
      <4> QED BY <3>1, <4>2, <4>3 DEF IsFirstAfter
    <3> QED BY <3>4, <3>5
  <2>5. CASE ~(level <= levels /\ b = prev[level])
    <3>1. deleted[b][level] = n
        BY <2>1, <2>5, <1>2, <1>6
    <3> HIDE DEF n
    <3>2. n # e
      <4> SUFFICES ASSUME n = e
                   PROVE  FALSE
          OBVIOUS
      <4>1. /\ e > b /\ level <= levels
            /\ \A m \in DOMAIN next : m > b /\ m < e => Len(next[m]) < level
          BY <2>2, <1>1 DEF IsFirstAfter, Null, levels
      <4>2. level \in Levels
          BY <4>1, <2>1, <1>1, <1>3
      <4>3. IsLastBefore(next, e, level, b)
          BY <4>1, <2>1 DEF IsLastBefore
      <4>4. IsLastBefore(next, e, level, prev[level])
          BY <4>2 DEF IsSearched
      <4>5. b = prev[level]
          BY <4>2, <4>3, <4>4, <1>1, LastBeforeIsUnique
      <4> QED BY <4>1, <4>5, <2>5
    <3>3. CASE n = Null
      <4>1. \A m \in DOMAIN next : m > b => Len(next[m]) < level
          BY <2>1, <2>2, <3>3 DEF IsFirstAfter, Null
      <4>2. \A m \in DOMAIN deleted : m > b => Len(deleted[m]) < level
          BY <4>1, <1>2, <1>5
      <4> QED BY <3>1, <3>3, <4>2 DEF IsFirstAfter
    <3>4. CASE n # Null
      <4>1. /\ n \in DOMAIN next /\ n > b /\ level <= Len(next[n])
            /\ \A m \in DOMAIN next : m > b /\ m < n => Len(next[m]) < level
          BY <3>4, <2>2 DEF IsFirstAfter
      <4>2. n \in DOMAIN deleted /\ level <= Len(deleted[n])
          BY <3>2, <4>1, <1>2, <1>5
      <4>3. \A m \in DOMAIN deleted : m > b /\ m < n => Len(deleted[m]) < level
          BY <4>1, <1>2, <1>5
      <4> QED BY <3>1, <4>1, <4>2, <4>3 DEF IsFirstAfter
    <3> QED BY <3>3, <3>4
  <2> QED BY <2>4, <2>5
<1>7. IsSkipList(deleted)
  <2>1. DOMAIN deleted \subseteq Nat \ {0} /\ FreeList \in DOMAIN deleted
      BY <1>1, <1>2, <1>4 DEF IsSkipList, FreeList
  <2>2. \A b \in DOMAIN deleted :
            deleted[b] \in Seq(Nat) /\ Len(deleted[b]) \in 0..(MaxLevel - 1)
      BY <1>2, <1>4, <1>5
  <2>3. Len(deleted[FreeList]) = MaxLevel - 1
      BY <2>1, <1>1, <1>2, <1>5 DEF IsSkipList
  <2>4. \A b \in DOMAIN deleted : \A level \in 1..Len(deleted[b]) :
            IsFirstAfter(deleted, b, level, deleted[b][level])
      BY <1>2, <1>6
  <2> QED BY <1>2, <2>1, <2>2, <2>3, <2>4 DEF IsSkipList
<1>8. WithDeleted(next, e, deleted)
    BY <1>2, <1>5, <1>7 DEF WithDeleted
<1> QED BY <1>8 DEF deleted, levels, Deleted

-----------------------------------------------------------------------------
(***************************************************************************)
(* The number of levels of a block grows with its size, and its pointers   *)
(* have room in it.                                                        *)
(***************************************************************************)
LEMMA TimesMonotone ==
    ASSUME NEW a \in Nat, NEW b \in Nat, NEW n \in Nat, a < b
    PROVE  a * n + n <= b * n
<1>1. PICK d \in Nat : b = a + 1 + d
    BY b - a - 1 \in Nat
<1>2. d * n \in Nat
    OBVIOUS
<1>3. b * n = a * n + n + d * n
    BY <1>1
<1> QED BY <1>2, <1>3

LEMMA Split ==
    ASSUME NEW n \in Nat \ {0}, NEW x \in Nat
    PROVE  /\ x \div n \in Nat /\ x % n \in Nat /\ x % n < n
           /\ x = (x \div n) * n + (x % n)
    OBVIOUS

LEMMA MinIs ==
    ASSUME NEW S \in SUBSET Nat, S # {}
    PROVE  Min(S) \in S /\ \A x \in S : Min(S) <= x
<1>1. \E x \in S : \A y \in S : x <= y
    BY LeastNat
<1> QED BY <1>1 DEF Min

LEMMA DivMonotone ==
    ASSUME NEW n \in Nat \ {0}, NEW x \in Nat, NEW y \in Nat, x <= y
    PROVE  x \div n <= y \div n
<1> DEFINE a == x \div n
           b == y \div n
<1>1. a \in Nat /\ b \in Nat /\ x % n \in Nat /\ y % n \in Nat /\ y % n < n
    BY Split
<1>2. x = a * n + (x % n) /\ y = b * n + (y % n)
    BY Split
<1> HIDE DEF a, b
<1>3. ASSUME b < a
      PROVE  FALSE
  <2>1. b * n + n <= a * n
      BY <1>1, <1>3, TimesMonotone
  <2>2. a * n \in Nat /\ b * n \in Nat
      BY <1>1
  <2> QED BY <1>1, <1>2, <2>1, <2>2
<1>4. a <= b
    BY <1>1, <1>3
<1> QED BY <1>4 DEF a, b

(* The pointers that fit into a block. *)
LEMMA FittingPointers ==
    ASSUME NEW n \in Nat \ {0}, NEW x \in Nat, n <= x
    PROVE  /\ x \div n \in Nat /\ x \div n >= 1
           /\ \A k \in Nat : k <= x \div n => n * k <= x
<1> DEFINE q == x \div n
<1>1. q \in Nat /\ x % n \in Nat /\ x % n < n /\ x = q * n + (x % n)
    BY Split
<1> HIDE DEF q
<1>2. q # 0
    BY <1>1
<1>3. ASSUME NEW k \in Nat, k <= q
      PROVE  n * k <= x
  <2>1. k * n \in Nat /\ q * n \in Nat /\ n * k = k * n
      BY <1>1
  <2>2. CASE k = q
      BY <2>1, <2>2, <1>1
  <2>3. CASE k < q
    <3>1. k * n + n <= q * n
        BY <2>3, <1>1, TimesMonotone
    <3> QED BY <3>1, <2>1, <1>1
  <2> QED BY <2>2, <2>3, <1>1, <1>3
<1> QED BY <1>1, <1>2, <1>3 DEF q

Halves(base, size, halvings) ==
    halvings = [i \in 0..size |-> IF i > base THEN 1 + halvings[i \div 2] ELSE 0]

LEMMA HalvesExists ==
    ASSUME NEW base \in Nat, NEW size \in Nat
    PROVE  \E halvings : Halves(base, size, halvings)
<1> DEFINE Bad == {n \in Nat : ~\E halvings : Halves(base, n, halvings)}
<1>1. Bad = {}
  <2> SUFFICES ASSUME Bad # {}
               PROVE  FALSE
      OBVIOUS
  <2>1. PICK n \in Bad : \A m \in Bad : n <= m
      BY LeastNat
  <2>2. CASE n = 0
    <3> DEFINE f == [i \in 0..0 |-> 0]
    <3>1. f = [i \in 0..0 |-> IF i > base THEN 1 + f[i \div 2] ELSE 0]
        OBVIOUS
    <3>2. Halves(base, 0, f)
        BY <3>1 DEF Halves
    <3> QED BY <2>2, <3>2
  <2>3. CASE n # 0
    <3>1. n - 1 \in Nat /\ n \in Nat
        BY <2>3
    <3>2. n - 1 \notin Bad
        BY <3>1, <2>1
    <3>3. PICK g : Halves(base, n - 1, g)
        BY <3>1, <3>2
    <3> DEFINE f == [i \in 0..n |->
                        IF i = n THEN (IF n > base THEN 1 + g[n \div 2] ELSE 0) ELSE g[i]]
    <3>4. ASSUME NEW i \in 0..n
          PROVE  f[i] = IF i > base THEN 1 + f[i \div 2] ELSE 0
      <4>1. CASE i > base
        <5>1. i \div 2 \in 0..n /\ i \div 2 # n /\ i \div 2 \in 0..(n - 1)
            BY <4>1, <3>1
        <5>2. f[i \div 2] = g[i \div 2]
            BY <5>1
        <5>3. i # n => i \in 0..(n - 1)
            BY <3>1
        <5> QED BY <5>2, <5>3, <4>1, <3>3 DEF Halves
      <4>2. CASE ~(i > base)
        <5>1. i # n => i \in 0..(n - 1)
            BY <3>1
        <5> QED BY <5>1, <4>2, <3>3 DEF Halves
      <4> QED BY <4>1, <4>2
    <3>5. f = [i \in 0..n |-> f[i]]
        OBVIOUS
    <3> HIDE DEF f
    <3>6. Halves(base, n, f)
        BY <3>4, <3>5 DEF Halves
    <3> QED BY <3>6
  <2> QED BY <2>2, <2>3
<1> QED BY <1>1

LEMMA HalvesType ==
    ASSUME NEW base \in Nat, NEW size \in Nat, NEW f, Halves(base, size, f)
    PROVE  \A i \in 0..size : f[i] \in Nat
<1> DEFINE Bad == {i \in 0..size : f[i] \notin Nat}
<1> SUFFICES ASSUME Bad # {}
             PROVE  FALSE
    OBVIOUS
<1>1. Bad \in SUBSET Nat
    OBVIOUS
<1>2. PICK i \in Bad : \A j \in Bad : i <= j
    BY <1>1, LeastNat
<1>3. i \in 0..size /\ f[i] = IF i > base THEN 1 + f[i \div 2] ELSE 0
    BY DEF Halves
<1>4. i > base
    BY <1>2, <1>3
<1>5. i \div 2 \in 0..size /\ ~(i <= i \div 2)
    BY <1>3, <1>4
<1>6. f[i \div 2] \in Nat
    BY <1>2, <1>5
<1> QED BY <1>2, <1>3, <1>6

LEMMA HalvesMonotone ==
    ASSUME NEW base \in Nat, NEW m \in Nat, NEW f, Halves(base, m, f),
           NEW n \in Nat, NEW g, Halves(base, n, g), m <= n
    PROVE  f[m] <= g[n]
<1> DEFINE Bad == {i \in 0..m : \E j \in 0..n : i <= j /\ ~(f[i] <= g[j])}
<1>1. Bad = {}
  <2> SUFFICES ASSUME Bad # {}
               PROVE  FALSE
      OBVIOUS
  <2>1. Bad \in SUBSET Nat
      OBVIOUS
  <2>2. PICK i \in Bad : \A k \in Bad : i <= k
      BY <2>1, LeastNat
  <2>3. PICK j \in 0..n : i <= j /\ ~(f[i] <= g[j])
      BY <2>2
  <2>4. i \in 0..m /\ f[i] \in Nat /\ g[j] \in Nat
      BY HalvesType
  <2>5. /\ f[i] = IF i > base THEN 1 + f[i \div 2] ELSE 0
        /\ g[j] = IF j > base THEN 1 + g[j \div 2] ELSE 0
      BY <2>4 DEF Halves
  <2>6. i > base /\ j > base
      BY <2>3, <2>4, <2>5
  <2>7. /\ i \div 2 \in 0..m /\ j \div 2 \in 0..n
        /\ i \div 2 <= j \div 2 /\ ~(i <= i \div 2)
      BY <2>3, <2>4, <2>6
  <2>8. f[i \div 2] <= g[j \div 2]
      BY <2>2, <2>7
  <2>9. f[i \div 2] \in Nat /\ g[j \div 2] \in Nat
      BY <2>7, HalvesType
  <2> QED BY <2>3, <2>5, <2>6, <2>8, <2>9
<1> QED BY <1>1

LEMMA IntLog2Is ==
    ASSUME NEW size \in Nat, NEW base \in Nat
    PROVE  /\ IntLog2(size, base) \in Nat
           /\ \A larger \in Nat : size <= larger => IntLog2(size, base) <= IntLog2(larger, base)
<1> DEFINE H(n) == CHOOSE halvings : Halves(base, n, halvings)
<1>1. \A n \in Nat : Halves(base, n, H(n))
    BY HalvesExists
<1>2. \A n \in Nat : IntLog2(n, base) = H(n)[n]
    BY DEF IntLog2, Halves
<1> HIDE DEF H
<1>3. H(size)[size] \in Nat
    BY <1>1, HalvesType
<1>4. ASSUME NEW larger \in Nat, size <= larger
      PROVE  H(size)[size] <= H(larger)[larger]
    BY <1>1, <1>4, HalvesMonotone
<1> QED BY <1>2, <1>3, <1>4

LEMMA Constants ==
    /\ {HeaderSize, PointerSize, Roundup, PageSize, PagesPerRegion, ArenaSize} \subseteq Nat \ {0}
    /\ HeaderSize \in Nat /\ PointerSize \in Nat \ {0} /\ Roundup \in Nat \ {0}
    /\ PageSize \in Nat \ {0} /\ PagesPerRegion \in Nat \ {0} /\ ArenaSize \in Nat \ {0}
    /\ NextOffset \in Nat /\ MinSize \in Nat /\ MinSize > 0 /\ NextOffset + PointerSize <= MinSize
    /\ MaxLevel \in Nat /\ MaxLevel - 1 >= 1 /\ MaxLevel - 1 \in Nat
    BY ArenaAssumption DEF MinSize

(* LLA_SkiplistLevels returns a number of levels that fits and suffices for every search. *)
LEMMA SkiplistLevelsIs ==
    ASSUME NEW size \in Nat, size >= MinSize, NEW random \in Nat \ {0}
    PROVE  /\ SkiplistLevels(size, random) \in Nat
           /\ SkiplistLevels(size, random) >= 1 /\ SkiplistLevels(size, random) <= MaxLevel - 1
           /\ NextOffset + PointerSize * SkiplistLevels(size, random) <= size
           /\ LevelFor(size) <= SkiplistLevels(size, random)
           /\ \A larger \in Nat : size <= larger => LevelFor(size) <= LevelFor(larger)
<1> DEFINE Log(n) == IntLog2(n, MinSize)
           Fit(n) == (n - NextOffset) \div PointerSize
           Chosen(n, r) == {Log(n) + r, Fit(n), MaxLevel - 1}
<1>1. ASSUME NEW n \in Nat, n >= size
      PROVE  /\ Log(n) \in Nat /\ Log(size) <= Log(n)
             /\ n - NextOffset \in Nat /\ n - NextOffset >= PointerSize
             /\ Fit(n) \in Nat /\ Fit(n) >= 1 /\ Fit(size) <= Fit(n)
             /\ \A k \in Nat : k <= Fit(n) => PointerSize * k <= n - NextOffset
  <2>1. n - NextOffset \in Nat /\ n - NextOffset >= PointerSize
      BY <1>1, Constants
  <2>2. size - NextOffset \in Nat /\ size - NextOffset <= n - NextOffset
      BY <1>1, Constants
  <2>3. Fit(size) <= Fit(n)
      BY <2>1, <2>2, DivMonotone, Constants
  <2>4. /\ Fit(n) \in Nat /\ Fit(n) >= 1
        /\ \A k \in Nat : k <= Fit(n) => PointerSize * k <= n - NextOffset
      BY <2>1, FittingPointers, Constants
  <2>5. Log(n) \in Nat /\ Log(size) <= Log(n)
      BY <1>1, IntLog2Is, Constants
  <2> QED BY <2>1, <2>3, <2>4, <2>5
<1> HIDE DEF Log, Fit
<1>2. ASSUME NEW n \in Nat, n >= size, NEW r \in Nat \ {0}
      PROVE  /\ SkiplistLevels(n, r) \in Chosen(n, r)
             /\ \A x \in Chosen(n, r) : SkiplistLevels(n, r) <= x
             /\ Chosen(n, r) \in SUBSET Nat
  <2>1. Chosen(n, r) \in SUBSET Nat /\ Chosen(n, r) # {}
      BY <1>1, <1>2, Constants
  <2>2. SkiplistLevels(n, r) = Min(Chosen(n, r))
      BY DEF SkiplistLevels, Log, Fit
  <2> HIDE DEF Chosen
  <2> QED BY <2>1, <2>2, MinIs
<1>3. ASSUME NEW n \in Nat, n >= size, NEW r \in Nat \ {0}
      PROVE  /\ SkiplistLevels(n, r) \in Nat
             /\ SkiplistLevels(n, r) >= 1 /\ SkiplistLevels(n, r) <= MaxLevel - 1
             /\ SkiplistLevels(n, r) <= Fit(n)
             /\ SkiplistLevels(n, r) <= Log(n) + r
             /\ SkiplistLevels(n, r) \in {Log(n) + r, Fit(n), MaxLevel - 1}
  <2> DEFINE levels == SkiplistLevels(n, r)
  <2>1. /\ levels \in {Log(n) + r, Fit(n), MaxLevel - 1}
        /\ levels <= MaxLevel - 1 /\ levels <= Fit(n) /\ levels <= Log(n) + r
      BY <1>2, <1>3
  <2> HIDE DEF levels
  <2>2. levels \in Nat /\ levels >= 1
      BY <2>1, <1>1, <1>3, Constants
  <2> QED BY <2>1, <2>2 DEF levels
<1>4. size >= size /\ 1 \in Nat \ {0}
    OBVIOUS
<1>5. NextOffset + PointerSize * SkiplistLevels(size, random) <= size
  <2> DEFINE levels == SkiplistLevels(size, random)
  <2>1. levels \in Nat /\ levels <= Fit(size)
      BY <1>3, <1>4
  <2> HIDE DEF levels
  <2>2. PointerSize * levels <= size - NextOffset
      BY <1>1, <1>4, <2>1
  <2>3. PointerSize * levels \in Nat
      BY <2>1, Constants
  <2> QED BY <2>2, <2>3, Constants DEF levels
<1>6. ASSUME NEW n \in Nat, n >= size, NEW r \in Nat \ {0}
      PROVE  LevelFor(size) <= SkiplistLevels(n, r)
  <2> DEFINE few == SkiplistLevels(size, 1)
             levels == SkiplistLevels(n, r)
  <2>1. few \in Nat /\ few <= MaxLevel - 1 /\ few <= Fit(size) /\ few <= Log(size) + 1
      BY <1>3, <1>4
  <2>2. levels \in Nat /\ levels \in {Log(n) + r, Fit(n), MaxLevel - 1}
      BY <1>3, <1>6
  <2>3. Log(size) <= Log(n) /\ Fit(size) <= Fit(n) /\ {Log(size), Log(n), Fit(size), Fit(n)} \subseteq Nat
      BY <1>1, <1>4, <1>6
  <2> HIDE DEF few, levels
  <2>4. few <= levels
      BY <2>1, <2>2, <2>3, Constants
  <2> QED BY <2>4 DEF few, levels, LevelFor
<1>7. \A larger \in Nat : size <= larger => LevelFor(size) <= LevelFor(larger)
    BY <1>4, <1>6 DEF LevelFor
<1> QED BY <1>3, <1>4, <1>5, <1>6, <1>7

LEMMA LevelForIs ==
    ASSUME NEW size \in Nat, size >= MinSize
    PROVE  LevelFor(size) \in Levels /\ LevelFor(size) \in Nat
<1>1. 1 \in Nat \ {0}
    OBVIOUS
<1> DEFINE levels == SkiplistLevels(size, 1)
<1>2. levels \in Nat /\ levels >= 1 /\ levels <= MaxLevel - 1
    BY <1>1, SkiplistLevelsIs
<1> HIDE DEF levels
<1> QED BY <1>2, Constants DEF levels, LevelFor, Levels

-----------------------------------------------------------------------------
(***************************************************************************)
(* The heap of an arena: its blocks do not overlap, the free ones are in   *)
(* the skip list, with the levels that a search expects and has room for.  *)
(***************************************************************************)
IsRecord(h) == h = [header |-> h.header, next |-> h.next]

SizeIn(h, b) == h.header[b].size

AllocatedIn(h) == {b \in DOMAIN h.header : h.header[b].allocated}

HeadersOK(h) ==
    /\ h.header = [b \in DOMAIN h.header |-> h.header[b]]
    /\ \A b \in DOMAIN h.header : h.header[b] \in [size : Nat, allocated : BOOLEAN]
    /\ FreeList \in DOMAIN h.header
    /\ h.header[FreeList].size = 0 /\ ~h.header[FreeList].allocated
    /\ \A b \in DOMAIN h.header \ {FreeList} :
          b \in Nat /\ b >= MemoryStart /\ SizeIn(h, b) >= MinSize /\ b + SizeIn(h, b) <= MemoryEnd
    /\ \A b, c \in DOMAIN h.header : b < c => b + SizeIn(h, b) <= c

FreelistOK(h) ==
    /\ IsSkipList(h.next)
    /\ DOMAIN h.next = {b \in DOMAIN h.header : ~h.header[b].allocated}
    /\ \A b \in FreeBlocks(h) :
          /\ LevelFor(SizeIn(h, b)) <= Len(h.next[b])
          /\ NextOffset + PointerSize * Len(h.next[b]) <= SizeIn(h, b)

IsHeap(h) == IsRecord(h) /\ HeadersOK(h) /\ FreelistOK(h)

(* No two free blocks touch. *)
NoNeighbours(h) == \A b, c \in FreeBlocks(h) : b + SizeIn(h, b) # c

(* An address lies in a block of the heap. *)
Covers(h, x) == \E b \in DOMAIN h.header : b <= x /\ x < b + SizeIn(h, b)

LEMMA BlockType ==
    ASSUME NEW h, HeadersOK(h), NEW b \in DOMAIN h.header
    PROVE  /\ b \in Nat /\ b >= 1 /\ SizeIn(h, b) \in Nat /\ h.header[b].allocated \in BOOLEAN
           /\ h.header[b] = [size |-> SizeIn(h, b), allocated |-> h.header[b].allocated]
           /\ b # FreeList => /\ b > 2 /\ b > FreeList /\ b >= MemoryStart
                              /\ SizeIn(h, b) >= MinSize /\ SizeIn(h, b) > 0
                              /\ b + SizeIn(h, b) <= MemoryEnd
           /\ b = FreeList => SizeIn(h, b) = 0 /\ ~h.header[b].allocated
<1>1. h.header[b] \in [size : Nat, allocated : BOOLEAN]
    BY DEF HeadersOK
<1>2. SizeIn(h, b) \in Nat
    BY <1>1 DEF SizeIn
<1>3. b # FreeList => /\ b \in Nat /\ b >= MemoryStart /\ SizeIn(h, b) >= MinSize
                      /\ b + SizeIn(h, b) <= MemoryEnd
    BY DEF HeadersOK
<1>4. b = FreeList => SizeIn(h, b) = 0 /\ ~h.header[b].allocated /\ b = 1
    BY DEF HeadersOK, SizeIn, FreeList
<1>5. MemoryStart \in Nat /\ MemoryStart > 2
    BY ArenaAssumption
<1>6. b # FreeList => b > 2 /\ b > FreeList /\ SizeIn(h, b) > 0
    BY <1>2, <1>3, <1>5, Constants DEF FreeList
<1>7. b \in Nat /\ b >= 1
    BY <1>3, <1>4, <1>6
<1>8. h.header[b] = [size |-> SizeIn(h, b), allocated |-> h.header[b].allocated]
      /\ h.header[b].allocated \in BOOLEAN
    BY <1>1 DEF SizeIn
<1> QED BY <1>2, <1>3, <1>4, <1>6, <1>7, <1>8

LEMMA FreeBlockType ==
    ASSUME NEW h, IsHeap(h), NEW b \in FreeBlocks(h)
    PROVE  /\ b \in DOMAIN h.header /\ b \in DOMAIN h.next /\ b # FreeList /\ ~h.header[b].allocated
           /\ b \in Nat /\ b > 2 /\ SizeIn(h, b) \in Nat /\ SizeIn(h, b) >= MinSize /\ SizeIn(h, b) > 0
           /\ Len(h.next[b]) \in Nat /\ Len(h.next[b]) >= 1
           /\ LevelFor(SizeIn(h, b)) <= Len(h.next[b])
<1>1. b \in DOMAIN h.header /\ b \in DOMAIN h.next /\ b # FreeList /\ ~h.header[b].allocated
    BY DEF FreeBlocks, IsHeap, FreelistOK
<1>2. /\ b \in Nat /\ b > 2 /\ SizeIn(h, b) \in Nat
      /\ SizeIn(h, b) >= MinSize /\ SizeIn(h, b) > 0
    BY <1>1, BlockType DEF IsHeap
<1>3. h.next[b] \in Seq(Nat)
    BY <1>1 DEF IsHeap, FreelistOK, IsSkipList
<1>4. Len(h.next[b]) \in Nat
    BY <1>3
<1>5. LevelFor(SizeIn(h, b)) <= Len(h.next[b])
    BY DEF IsHeap, FreelistOK
<1>6. LevelFor(SizeIn(h, b)) \in Nat /\ LevelFor(SizeIn(h, b)) >= 1
    BY <1>2, LevelForIs DEF Levels
<1> QED BY <1>1, <1>2, <1>4, <1>5, <1>6

(* Every block of the free list has the lowest level. *)
LEMMA LowestLevel ==
    ASSUME NEW h, IsHeap(h), NEW b \in DOMAIN h.next
    PROVE  1 \in Levels /\ 1 \in 1..Len(h.next[b]) /\ ~(Len(h.next[b]) < 1) /\ b \in WithLevel(h, 1)
<1>1. 1 \in Levels
    BY Constants DEF Levels
<1>2. CASE b = FreeList
  <2>1. Len(h.next[b]) = MaxLevel - 1
      BY <1>2 DEF IsHeap, FreelistOK, IsSkipList
  <2> QED BY <1>1, <2>1, Constants DEF WithLevel
<1>3. CASE b # FreeList
  <2>1. b \in FreeBlocks(h)
      BY <1>3 DEF FreeBlocks
  <2>2. Len(h.next[b]) \in Nat /\ Len(h.next[b]) >= 1
      BY <2>1, FreeBlockType
  <2> QED BY <1>1, <2>2 DEF WithLevel
<1> QED BY <1>2, <1>3

LEMMA DeleteStep ==
    ASSUME NEW h, IsRecord(h), IsSkipList(h.next), NEW e \in DOMAIN h.next, e # FreeList
    PROVE  /\ IsRecord(SkiplistDelete(h, e)) /\ SkiplistDelete(h, e).header = h.header
           /\ WithDeleted(h.next, e, SkiplistDelete(h, e).next)
<1> DEFINE prev == SkiplistSearch(h, e)
           next == Deleted(h.next, e, prev)
<1>1. SkiplistDelete(h, e) = [h EXCEPT !.next = next] /\ IsSearched(h.next, e, prev)
    BY SkiplistDeleteIs
<1>2. WithDeleted(h.next, e, next)
    BY <1>1, DeleteKeepsSkipList
<1> HIDE DEF next
<1>3. [h EXCEPT !.next = next] = [header |-> h.header, next |-> next]
    BY DEF IsRecord
<1> QED BY <1>1, <1>2, <1>3 DEF IsRecord

LEMMA InsertStep ==
    ASSUME NEW h, IsRecord(h), IsSkipList(h.next), NEW e \in Nat, e > FreeList, e \notin DOMAIN h.next,
           NEW levels \in 0..(MaxLevel - 1)
    PROVE  /\ IsRecord(SkiplistInsert(h, e, levels)) /\ SkiplistInsert(h, e, levels).header = h.header
           /\ WithInserted(h.next, e, levels, SkiplistInsert(h, e, levels).next)
<1> DEFINE prev == SkiplistSearch(h, e)
           next == InsertedUpTo(h.next, e, prev, levels)
<1>1. SkiplistInsert(h, e, levels) = [h EXCEPT !.next = next] /\ IsSearched(h.next, e, prev)
    BY SkiplistInsertIs
<1>2. WithInserted(h.next, e, levels, next)
    BY <1>1, InsertKeepsSkipList
<1> HIDE DEF next
<1>3. [h EXCEPT !.next = next] = [header |-> h.header, next |-> next]
    BY DEF IsRecord
<1> QED BY <1>1, <1>2, <1>3 DEF IsRecord

-----------------------------------------------------------------------------
(* Coalesce: what two free blocks that touch become. *)
MergedHeader(header, a, n) ==
    [b \in DOMAIN header \ {n} |->
        IF b = a THEN [header[a] EXCEPT !.size = header[a].size + header[n].size] ELSE header[b]]

(* A heap g has the allocated blocks of h, and covers the same memory. *)
SameMemory(h, g) ==
    /\ AllocatedIn(g) = AllocatedIn(h)
    /\ \A b \in AllocatedIn(h) : g.header[b] = h.header[b]
    /\ \A x \in Nat : Covers(g, x) <=> Covers(h, x)

LEMMA SameMemoryIsTransitive ==
    ASSUME NEW f, NEW g, NEW h, SameMemory(f, g), SameMemory(g, h)
    PROVE  SameMemory(f, h)
<1>1. AllocatedIn(h) = AllocatedIn(f) /\ \A x \in Nat : Covers(h, x) <=> Covers(f, x)
    BY DEF SameMemory
<1>2. \A b \in AllocatedIn(f) : h.header[b] = f.header[b]
    BY DEF SameMemory
<1> QED BY <1>1, <1>2 DEF SameMemory

IsMerged(h, a, n, g) ==
    /\ HeadersOK(g)
    /\ DOMAIN g.header = DOMAIN h.header \ {n} /\ n # a /\ n # FreeList
    /\ SizeIn(g, a) = SizeIn(h, a) + SizeIn(h, n)
    /\ ~g.header[a].allocated
    /\ \A b \in DOMAIN h.header \ {n, a} : g.header[b] = h.header[b]
    /\ SameMemory(h, g)

LEMMA MergedHeaders ==
    ASSUME NEW h, HeadersOK(h), NEW a \in DOMAIN h.header, a # FreeList, NEW n \in DOMAIN h.header,
           ~h.header[a].allocated, ~h.header[n].allocated, n = a + SizeIn(h, a),
           NEW g, g.header = MergedHeader(h.header, a, n)
    PROVE  IsMerged(h, a, n, g)
<1>1. /\ a \in Nat /\ SizeIn(h, a) \in Nat /\ SizeIn(h, a) > 0 /\ a > 2 /\ a >= MemoryStart
      /\ SizeIn(h, a) >= MinSize
      /\ h.header[a] = [size |-> SizeIn(h, a), allocated |-> h.header[a].allocated]
    BY BlockType
<1>2. n # FreeList
    BY <1>1 DEF FreeList
<1>3. n \in Nat /\ SizeIn(h, n) \in Nat /\ SizeIn(h, n) > 0 /\ n + SizeIn(h, n) <= MemoryEnd
    BY <1>2, BlockType
<1>4. n # a
    BY <1>1
<1>5. DOMAIN g.header = DOMAIN h.header \ {n}
    BY DEF MergedHeader
<1>6. \A b \in DOMAIN h.header \ {n, a} : g.header[b] = h.header[b]
    BY DEF MergedHeader
<1>7. g.header[a] = [size |-> SizeIn(h, a) + SizeIn(h, n), allocated |-> FALSE]
  <2>1. g.header[a] = [h.header[a] EXCEPT !.size = SizeIn(h, a) + SizeIn(h, n)]
      BY <1>4 DEF MergedHeader, SizeIn
  <2>2. h.header[a].allocated = FALSE
      BY BlockType
  <2> QED BY <2>1, <2>2, <1>1
<1>8. /\ SizeIn(g, a) = SizeIn(h, a) + SizeIn(h, n) /\ ~g.header[a].allocated
      /\ \A b \in DOMAIN h.header \ {n, a} : SizeIn(g, b) = SizeIn(h, b)
    BY <1>6, <1>7 DEF SizeIn
<1>9. ASSUME NEW b \in DOMAIN h.header
      PROVE  /\ b \in Nat /\ SizeIn(h, b) \in Nat
             /\ b < a => b + SizeIn(h, b) <= a
             /\ b > a /\ b # n => n + SizeIn(h, n) <= b
             /\ \A c \in DOMAIN h.header : b < c => b + SizeIn(h, b) <= c
  <2>1. b \in Nat /\ SizeIn(h, b) \in Nat
      BY BlockType
  <2>2. \A c \in DOMAIN h.header : b < c => b + SizeIn(h, b) <= c
      BY DEF HeadersOK
  <2>3. b > a => a + SizeIn(h, a) <= b
      BY <2>1, <1>1 DEF HeadersOK
  <2>4. b > n => n + SizeIn(h, n) <= b
      BY <2>1, <1>3 DEF HeadersOK
  <2> QED BY <2>1, <2>2, <2>3, <2>4, <1>1, <1>3
<1>10. HeadersOK(g)
  <2>1. g.header = [b \in DOMAIN g.header |-> g.header[b]]
      BY DEF MergedHeader
  <2>2. \A b \in DOMAIN g.header : g.header[b] \in [size : Nat, allocated : BOOLEAN]
    <3>1. g.header[a] \in [size : Nat, allocated : BOOLEAN]
      <4>1. SizeIn(h, a) + SizeIn(h, n) \in Nat
          BY <1>1, <1>3
      <4>2. \A s \in Nat : [size |-> s, allocated |-> FALSE] \in [size : Nat, allocated : BOOLEAN]
          OBVIOUS
      <4> QED BY <4>1, <4>2, <1>7
    <3>2. \A b \in DOMAIN h.header \ {n, a} : g.header[b] \in [size : Nat, allocated : BOOLEAN]
        BY <1>6 DEF HeadersOK
    <3> QED BY <3>1, <3>2, <1>5
  <2>3. FreeList \in DOMAIN h.header \ {n, a}
      BY <1>2 DEF HeadersOK
  <2>4. FreeList \in DOMAIN g.header /\ g.header[FreeList].size = 0 /\ ~g.header[FreeList].allocated
      BY <2>3, <1>5, <1>6 DEF HeadersOK
  <2>5. ASSUME NEW b \in DOMAIN g.header \ {FreeList}
        PROVE  b \in Nat /\ b >= MemoryStart /\ SizeIn(g, b) >= MinSize /\ b + SizeIn(g, b) <= MemoryEnd
    <3>1. CASE b = a
      <4>1. SizeIn(g, a) >= MinSize
          BY <1>1, <1>3, <1>8, Constants
      <4>2. a + SizeIn(g, a) <= MemoryEnd
          BY <1>1, <1>3, <1>8
      <4> QED BY <3>1, <4>1, <4>2, <1>1
    <3>2. CASE b # a
      <4>1. b \in DOMAIN h.header \ {n, a}
          BY <3>2, <1>5
      <4>2. b \in Nat /\ b >= MemoryStart /\ SizeIn(h, b) >= MinSize /\ b + SizeIn(h, b) <= MemoryEnd
          BY <4>1 DEF HeadersOK
      <4> QED BY <4>1, <4>2, <1>8
    <3> QED BY <3>1, <3>2
  <2>6. ASSUME NEW b \in DOMAIN g.header, NEW c \in DOMAIN g.header, b < c
        PROVE  b + SizeIn(g, b) <= c
    <3>1. b \in DOMAIN h.header /\ c \in DOMAIN h.header /\ b # n /\ c # n
        BY <1>5
    <3>2. CASE b = a
      <4>1. n + SizeIn(h, n) <= c
          BY <3>1, <3>2, <2>6, <1>9
      <4> QED BY <3>2, <4>1, <1>1, <1>3, <1>8
    <3>3. CASE b # a
        BY <3>1, <3>3, <2>6, <1>8, <1>9
    <3> QED BY <3>2, <3>3
  <2> QED BY <2>1, <2>2, <2>4, <2>5, <2>6 DEF HeadersOK
<1>11. AllocatedIn(g) = AllocatedIn(h)
    BY <1>5, <1>6, <1>8 DEF AllocatedIn
<1>12. \A b \in AllocatedIn(h) : g.header[b] = h.header[b]
    BY <1>6 DEF AllocatedIn
<1>13. ASSUME NEW x \in Nat
       PROVE  Covers(g, x) <=> Covers(h, x)
  <2>1. ASSUME Covers(g, x)
        PROVE  Covers(h, x)
    <3>1. PICK b \in DOMAIN g.header : b <= x /\ x < b + SizeIn(g, b)
        BY <2>1 DEF Covers
    <3>2. CASE b = a
      <4>1. (a <= x /\ x < a + SizeIn(h, a)) \/ (n <= x /\ x < n + SizeIn(h, n))
          BY <3>1, <3>2, <1>1, <1>3, <1>8
      <4> QED BY <4>1 DEF Covers
    <3>3. CASE b # a
      <4>1. b \in DOMAIN h.header /\ SizeIn(g, b) = SizeIn(h, b)
          BY <3>3, <1>5, <1>8
      <4> QED BY <3>1, <4>1 DEF Covers
    <3> QED BY <3>2, <3>3
  <2>2. ASSUME Covers(h, x)
        PROVE  Covers(g, x)
    <3>1. PICK b \in DOMAIN h.header : b <= x /\ x < b + SizeIn(h, b)
        BY <2>2 DEF Covers
    <3>2. CASE b = a \/ b = n
      <4>1. a <= x /\ x < a + SizeIn(g, a)
          BY <3>1, <3>2, <1>1, <1>3, <1>8
      <4>2. a \in DOMAIN g.header
          BY <1>4, <1>5
      <4> QED BY <4>1, <4>2 DEF Covers
    <3>3. CASE b # a /\ b # n
      <4>1. b \in DOMAIN g.header /\ SizeIn(g, b) = SizeIn(h, b)
          BY <3>3, <1>5, <1>8
      <4> QED BY <3>1, <4>1 DEF Covers
    <3> QED BY <3>2, <3>3
  <2> QED BY <2>1, <2>2
<1>14. SameMemory(h, g)
    BY <1>11, <1>12, <1>13 DEF SameMemory
<1> QED BY <1>2, <1>4, <1>5, <1>6, <1>8, <1>10, <1>14 DEF IsMerged

(* Two blocks touch if the second is the next of the free list, and starts where the first ends. *)
LEMMA TouchesSuccessorIs ==
    ASSUME NEW h, IsHeap(h), NEW a \in DOMAIN h.next
    PROVE  /\ TouchesSuccessor(h, a) <=> a # FreeList /\ a + SizeIn(h, a) \in FreeBlocks(h)
           /\ TouchesSuccessor(h, a) => h.next[a][1] = a + SizeIn(h, a)
<1> DEFINE n == h.next[a][1]
<1>1. 1 \in 1..Len(h.next[a])
    BY LowestLevel
<1>2. IsFirstAfter(h.next, a, 1, n)
    BY <1>1 DEF IsHeap, FreelistOK, IsSkipList
<1> HIDE DEF n
<1>3. a \in DOMAIN h.header /\ a \in Nat /\ a >= 1 /\ SizeIn(h, a) \in Nat
    BY BlockType DEF IsHeap, FreelistOK
<1>4. TouchesSuccessor(h, a) <=> n # Null /\ a + SizeIn(h, a) = n
    BY DEF TouchesSuccessor, SizeIn, n
<1>5. ASSUME n # Null, a + SizeIn(h, a) = n
      PROVE  a # FreeList /\ n \in FreeBlocks(h)
  <2>1. n \in DOMAIN h.next /\ n > a
      BY <1>2, <1>5 DEF IsFirstAfter
  <2>2. a # FreeList
    <3> SUFFICES ASSUME a = FreeList
                 PROVE  FALSE
        OBVIOUS
    <3>1. SizeIn(h, a) = 0
        BY <1>3, BlockType DEF IsHeap
    <3> QED BY <3>1, <2>1, <1>3, <1>5
  <2>3. n # FreeList
      BY <2>1, <1>3 DEF FreeList
  <2> QED BY <2>1, <2>2, <2>3 DEF FreeBlocks
<1>6. ASSUME a # FreeList, a + SizeIn(h, a) \in FreeBlocks(h)
      PROVE  n # Null /\ a + SizeIn(h, a) = n
  <2> DEFINE c == a + SizeIn(h, a)
  <2>1. c \in DOMAIN h.next /\ c \in Nat /\ c > a
    <3>1. SizeIn(h, a) > 0
        BY <1>3, <1>6, BlockType DEF IsHeap
    <3> QED BY <3>1, <1>3, <1>6 DEF FreeBlocks
  <2> HIDE DEF c
  <2>2. ~(Len(h.next[c]) < 1)
      BY <2>1, LowestLevel
  <2>3. /\ n # Null /\ n \in DOMAIN h.next /\ n > a
        /\ \A m \in DOMAIN h.next : m > a /\ m < n => Len(h.next[m]) < 1
      BY <2>1, <2>2, <1>2, <1>3 DEF IsFirstAfter, Null
  <2>4. n \in DOMAIN h.header /\ n \in Nat
      BY <2>3, BlockType DEF IsHeap, FreelistOK
  <2>5. c <= n
      BY <2>3, <2>4, <1>3 DEF IsHeap, HeadersOK, c
  <2>6. ~(c < n)
      BY <2>1, <2>2, <2>3
  <2> QED BY <2>1, <2>3, <2>4, <2>5, <2>6 DEF c
<1> QED BY <1>4, <1>5, <1>6 DEF n

LEMMA CoalesceStep ==
    ASSUME NEW h, IsHeap(h), NEW a \in DOMAIN h.next, NEW random \in Nat \ {0}
    PROVE  IF a # FreeList /\ a + SizeIn(h, a) \in FreeBlocks(h)
           THEN /\ IsHeap(Coalesce(h, a, random))
                /\ IsMerged(h, a, a + SizeIn(h, a), Coalesce(h, a, random))
           ELSE Coalesce(h, a, random) = h
<1>1. CASE ~(a # FreeList /\ a + SizeIn(h, a) \in FreeBlocks(h))
  <2>1. ~TouchesSuccessor(h, a)
      BY <1>1, TouchesSuccessorIs
  <2>2. Coalesce(h, a, random) = h
      BY <2>1 DEF Coalesce
  <2> QED BY <1>1, <2>2
<1>2. CASE a # FreeList /\ a + SizeIn(h, a) \in FreeBlocks(h)
  <2> DEFINE n == h.next[a][1]
             size == SizeIn(h, a) + SizeIn(h, n)
             merged == [h EXCEPT !.header = MergedHeader(h.header, a, n)]
             first == SkiplistDelete(merged, n)
             without == SkiplistDelete(first, a)
             levels == SkiplistLevels(size, random)
             result == SkiplistInsert(without, a, levels)
  <2>1. TouchesSuccessor(h, a) /\ n = a + SizeIn(h, a)
      BY <1>2, TouchesSuccessorIs
  <2>2. Coalesce(h, a, random) = result
      BY <2>1 DEF Coalesce, MergedHeader, SizeIn
  <2> HIDE DEF n
  <2>3. n \in FreeBlocks(h) /\ a \in FreeBlocks(h)
      BY <1>2, <2>1 DEF FreeBlocks
  <2>4. /\ n \in DOMAIN h.header /\ n \in DOMAIN h.next /\ n # FreeList /\ ~h.header[n].allocated
        /\ SizeIn(h, n) \in Nat /\ SizeIn(h, n) >= MinSize
      BY <2>3, FreeBlockType
  <2>5. /\ a \in DOMAIN h.header /\ a \in DOMAIN h.next /\ a # FreeList /\ ~h.header[a].allocated
        /\ a \in Nat /\ a > FreeList /\ SizeIn(h, a) \in Nat /\ SizeIn(h, a) > 0
    <3>1. a > 2 /\ a \in Nat
        BY <2>3, FreeBlockType
    <3> QED BY <2>3, <3>1, FreeBlockType DEF FreeList
  <2>6. n # a
      BY <2>1, <2>5
  <2>7. merged = [header |-> MergedHeader(h.header, a, n), next |-> h.next]
      BY DEF IsHeap, IsRecord
  <2>8. IsRecord(merged) /\ merged.header = MergedHeader(h.header, a, n) /\ merged.next = h.next
      BY <2>7 DEF IsRecord
  <2>9. IsSkipList(h.next)
      BY DEF IsHeap, FreelistOK
  <2> HIDE DEF merged
  <2>10. /\ IsRecord(first) /\ first.header = merged.header
         /\ WithDeleted(h.next, n, first.next)
      BY <2>4, <2>8, <2>9, DeleteStep
  <2> HIDE DEF first
  <2>11. /\ IsRecord(without) /\ without.header = merged.header
         /\ WithDeleted(first.next, a, without.next)
    <3>1. IsSkipList(first.next) /\ a \in DOMAIN first.next
        BY <2>5, <2>6, <2>10 DEF WithDeleted
    <3> QED BY <3>1, <2>5, <2>10, DeleteStep
  <2> HIDE DEF without
  <2>12. size \in Nat /\ size >= MinSize
      BY <2>4, <2>5, Constants
  <2> HIDE DEF size
  <2>13. /\ levels \in 0..(MaxLevel - 1) /\ levels \in Nat
         /\ NextOffset + PointerSize * levels <= size /\ LevelFor(size) <= levels
      BY <2>12, SkiplistLevelsIs, Constants
  <2> HIDE DEF levels
  <2>14. DOMAIN without.next = DOMAIN h.next \ {n, a}
      BY <2>10, <2>11 DEF WithDeleted
  <2>15. /\ IsRecord(result) /\ result.header = merged.header
         /\ WithInserted(without.next, a, levels, result.next)
    <3>1. IsSkipList(without.next) /\ a \notin DOMAIN without.next
        BY <2>11 DEF WithDeleted
    <3> QED BY <3>1, <2>5, <2>11, <2>13, InsertStep
  <2> HIDE DEF result
  <2>16. result.header = MergedHeader(h.header, a, n)
      BY <2>8, <2>15
  <2>17. HeadersOK(h)
      BY DEF IsHeap
  <2>18. IsMerged(h, a, n, result)
      BY <2>1, <2>4, <2>5, <2>16, <2>17, MergedHeaders
  <2>19. /\ HeadersOK(result)
         /\ DOMAIN result.header = DOMAIN h.header \ {n}
         /\ SizeIn(result, a) = SizeIn(h, a) + SizeIn(h, n)
         /\ ~result.header[a].allocated
         /\ \A b \in DOMAIN h.header \ {n, a} : result.header[b] = h.header[b]
      BY <2>18 DEF IsMerged
  <2>20. /\ IsSkipList(result.next) /\ DOMAIN result.next = DOMAIN h.next \ {n}
         /\ Len(result.next[a]) = levels
         /\ \A b \in DOMAIN h.next \ {n, a} : Len(result.next[b]) = Len(h.next[b])
    <3>1. IsSkipList(result.next) /\ Len(result.next[a]) = levels
        BY <2>15 DEF WithInserted
    <3>2. DOMAIN result.next = DOMAIN h.next \ {n}
        BY <2>5, <2>6, <2>14, <2>15 DEF WithInserted
    <3>3. ASSUME NEW b \in DOMAIN h.next \ {n, a}
          PROVE  Len(result.next[b]) = Len(h.next[b])
      <4>1. Len(result.next[b]) = Len(without.next[b])
          BY <2>14, <2>15 DEF WithInserted
      <4>2. b \in DOMAIN first.next \ {a}
          BY <2>10 DEF WithDeleted
      <4>3. Len(without.next[b]) = Len(first.next[b])
          BY <4>2, <2>11 DEF WithDeleted
      <4>4. Len(first.next[b]) = Len(h.next[b])
          BY <2>10 DEF WithDeleted
      <4> QED BY <4>1, <4>3, <4>4
    <3> QED BY <3>1, <3>2, <3>3
  <2>21. FreelistOK(result)
    <3>1. DOMAIN h.next = {b \in DOMAIN h.header : ~h.header[b].allocated}
        BY DEF IsHeap, FreelistOK
    <3>2. DOMAIN result.next = {b \in DOMAIN result.header : ~result.header[b].allocated}
        BY <3>1, <2>5, <2>19, <2>20
    <3>3. ASSUME NEW b \in FreeBlocks(result)
          PROVE  /\ LevelFor(SizeIn(result, b)) <= Len(result.next[b])
                 /\ NextOffset + PointerSize * Len(result.next[b]) <= SizeIn(result, b)
      <4>1. CASE b = a
        <5>1. SizeIn(result, b) = size /\ Len(result.next[b]) = levels
            BY <4>1, <2>19, <2>20 DEF size
        <5> QED BY <5>1, <2>13
      <4>2. CASE b # a
        <5>1. b \in FreeBlocks(h) /\ b \in DOMAIN h.next \ {n, a}
            BY <4>2, <2>20 DEF FreeBlocks
        <5>2. SizeIn(result, b) = SizeIn(h, b) /\ Len(result.next[b]) = Len(h.next[b])
            BY <5>1, <3>1, <2>19, <2>20 DEF SizeIn
        <5> QED BY <5>1, <5>2 DEF IsHeap, FreelistOK
      <4> QED BY <4>1, <4>2
    <3> QED BY <3>2, <3>3, <2>20 DEF FreelistOK
  <2>22. IsHeap(result)
      BY <2>15, <2>19, <2>21 DEF IsHeap
  <2> QED BY <1>2, <2>1, <2>2, <2>22, <2>18
<1> QED BY <1>1, <1>2

-----------------------------------------------------------------------------
(* AddToFreelist: f is no longer allocated, and nothing else has changed. *)
IsFreed(h, f, g) ==
    /\ IsHeap(g) /\ NoNeighbours(g)
    /\ AllocatedIn(g) = AllocatedIn(h) \ {f}
    /\ \A b \in AllocatedIn(g) : g.header[b] = h.header[b]
    /\ \A x \in Nat : Covers(g, x) <=> Covers(h, x)

LEMMA FreeHeaders ==
    ASSUME NEW h, HeadersOK(h), NEW f \in DOMAIN h.header, h.header[f].allocated,
           NEW g, g.header = [h.header EXCEPT ![f].allocated = FALSE]
    PROVE  /\ HeadersOK(g)
           /\ DOMAIN g.header = DOMAIN h.header
           /\ \A b \in DOMAIN h.header : SizeIn(g, b) = SizeIn(h, b)
           /\ ~g.header[f].allocated
           /\ \A b \in DOMAIN h.header \ {f} : g.header[b] = h.header[b]
           /\ AllocatedIn(g) = AllocatedIn(h) \ {f}
           /\ \A x \in Nat : Covers(g, x) <=> Covers(h, x)
<1>1. /\ DOMAIN g.header = DOMAIN h.header
      /\ g.header = [b \in DOMAIN g.header |-> g.header[b]]
      /\ \A b \in DOMAIN h.header \ {f} : g.header[b] = h.header[b]
      /\ g.header[f] = [h.header[f] EXCEPT !.allocated = FALSE]
    BY DEF HeadersOK
<1>2. /\ SizeIn(h, f) \in Nat /\ f # FreeList
      /\ h.header[f] = [size |-> SizeIn(h, f), allocated |-> h.header[f].allocated]
    BY BlockType
<1>3. g.header[f] = [size |-> SizeIn(h, f), allocated |-> FALSE]
  <2>1. \A r, v : r = [size |-> r.size, allocated |-> r.allocated] =>
                      [r EXCEPT !.allocated = v] = [size |-> r.size, allocated |-> v]
      OBVIOUS
  <2>2. h.header[f] = [size |-> h.header[f].size, allocated |-> h.header[f].allocated]
      BY <1>2 DEF SizeIn
  <2>3. [h.header[f] EXCEPT !.allocated = FALSE] = [size |-> h.header[f].size, allocated |-> FALSE]
      BY <2>1, <2>2
  <2> QED BY <2>3, <1>1 DEF SizeIn
<1>4. \A b \in DOMAIN h.header : SizeIn(g, b) = SizeIn(h, b)
    BY <1>1, <1>3 DEF SizeIn
<1>5. HeadersOK(g)
  <2>1. \A b \in DOMAIN g.header : g.header[b] \in [size : Nat, allocated : BOOLEAN]
    <3>1. \A s \in Nat : [size |-> s, allocated |-> FALSE] \in [size : Nat, allocated : BOOLEAN]
        OBVIOUS
    <3>2. g.header[f] \in [size : Nat, allocated : BOOLEAN]
        BY <3>1, <1>2, <1>3
    <3>3. \A b \in DOMAIN h.header \ {f} : g.header[b] \in [size : Nat, allocated : BOOLEAN]
        BY <1>1 DEF HeadersOK
    <3> QED BY <3>2, <3>3, <1>1
  <2>2. /\ FreeList \in DOMAIN g.header
        /\ g.header[FreeList].size = 0 /\ ~g.header[FreeList].allocated
      BY <1>1, <1>2 DEF HeadersOK
  <2>3. \A b \in DOMAIN g.header \ {FreeList} :
            b \in Nat /\ b >= MemoryStart /\ SizeIn(g, b) >= MinSize /\ b + SizeIn(g, b) <= MemoryEnd
      BY <1>1, <1>4 DEF HeadersOK
  <2>4. \A b, c \in DOMAIN g.header : b < c => b + SizeIn(g, b) <= c
      BY <1>1, <1>4 DEF HeadersOK
  <2> QED BY <1>1, <2>1, <2>2, <2>3, <2>4 DEF HeadersOK
<1>6. AllocatedIn(g) = AllocatedIn(h) \ {f}
    BY <1>1, <1>3 DEF AllocatedIn
<1>7. \A x \in Nat : Covers(g, x) <=> Covers(h, x)
    BY <1>1, <1>4 DEF Covers
<1> QED BY <1>1, <1>3, <1>4, <1>5, <1>6, <1>7

(* Coalescing keeps the allocated blocks and the memory covered. *)
LEMMA CoalesceKeeps ==
    ASSUME NEW h, IsHeap(h), NEW a \in DOMAIN h.next, NEW random \in Nat \ {0}
    PROVE  IsHeap(Coalesce(h, a, random)) /\ SameMemory(h, Coalesce(h, a, random))
<1>1. SameMemory(h, h)
    BY DEF SameMemory
<1> QED BY <1>1, CoalesceStep DEF IsMerged

LEMMA FreeBlocksAre ==
    ASSUME NEW h, IsHeap(h)
    PROVE  /\ FreeBlocks(h) = {b \in DOMAIN h.header \ {FreeList} : ~h.header[b].allocated}
           /\ DOMAIN h.next = FreeBlocks(h) \union {FreeList}
    BY DEF FreeBlocks, IsHeap, FreelistOK, HeadersOK

LEMMA AddToFreelistStep ==
    ASSUME NEW h, IsHeap(h), NoNeighbours(h), NEW f \in AllocatedIn(h), NEW random \in Nat \ {0}
    PROVE  IsFreed(h, f, AddToFreelist(h, f, random))
<1> DEFINE free == [h EXCEPT !.header[f].allocated = FALSE]
           levels == SkiplistLevels(h.header[f].size, random)
           inserted == SkiplistInsert(free, f, levels)
           pred == SkiplistSearch(free, f)[1]
           first == Coalesce(inserted, f, random)
           result == Coalesce(first, pred, random)
<1>1. AddToFreelist(h, f, random) = result
    BY DEF AddToFreelist
<1>2. /\ f \in DOMAIN h.header /\ h.header[f].allocated
      /\ f \in Nat /\ f > FreeList /\ f # FreeList /\ SizeIn(h, f) \in Nat
      /\ SizeIn(h, f) >= MinSize /\ SizeIn(h, f) > 0
    BY BlockType DEF AllocatedIn, IsHeap
<1>3. /\ IsRecord(free) /\ free.next = h.next
      /\ free.header = [h.header EXCEPT ![f].allocated = FALSE]
  <2>1. h = [header |-> h.header, next |-> h.next]
      BY DEF IsHeap, IsRecord
  <2>2. free = [h EXCEPT !.header = [h.header EXCEPT ![f].allocated = FALSE]]
      BY <2>1
  <2>3. \A x : [h EXCEPT !.header = x] = [header |-> x, next |-> h.next]
      BY <2>1
  <2>4. free = [header |-> [h.header EXCEPT ![f].allocated = FALSE], next |-> h.next]
      BY <2>2, <2>3
  <2> HIDE DEF free
  <2> QED BY <2>4 DEF IsRecord
<1> HIDE DEF free
<1>4. HeadersOK(h) /\ IsSkipList(h.next) /\ f \notin DOMAIN h.next
    BY <1>2 DEF IsHeap, FreelistOK
<1>5. /\ HeadersOK(free)
      /\ DOMAIN free.header = DOMAIN h.header
      /\ \A b \in DOMAIN h.header : SizeIn(free, b) = SizeIn(h, b)
      /\ ~free.header[f].allocated
      /\ \A b \in DOMAIN h.header \ {f} : free.header[b] = h.header[b]
      /\ AllocatedIn(free) = AllocatedIn(h) \ {f}
      /\ \A x \in Nat : Covers(free, x) <=> Covers(h, x)
    BY <1>2, <1>3, <1>4, FreeHeaders
<1>6. /\ levels \in 0..(MaxLevel - 1)
      /\ NextOffset + PointerSize * levels <= SizeIn(h, f) /\ LevelFor(SizeIn(h, f)) <= levels
    BY <1>2, SkiplistLevelsIs, Constants DEF SizeIn
<1> HIDE DEF levels
<1>7. /\ IsRecord(inserted) /\ inserted.header = free.header
      /\ WithInserted(h.next, f, levels, inserted.next)
    BY <1>2, <1>3, <1>4, <1>6, InsertStep
<1> HIDE DEF inserted
<1>8. /\ \A b \in DOMAIN h.header : SizeIn(inserted, b) = SizeIn(h, b)
      /\ AllocatedIn(inserted) = AllocatedIn(free)
      /\ \A x \in Nat : Covers(inserted, x) <=> Covers(free, x)
    BY <1>5, <1>7 DEF SizeIn, AllocatedIn, Covers
<1>9. IsHeap(inserted) /\ FreeBlocks(inserted) = FreeBlocks(h) \union {f}
  <2>1. HeadersOK(inserted)
      BY <1>5, <1>7 DEF HeadersOK, SizeIn
  <2>2. /\ IsSkipList(inserted.next) /\ DOMAIN inserted.next = DOMAIN h.next \union {f}
        /\ Len(inserted.next[f]) = levels
        /\ \A b \in DOMAIN h.next : Len(inserted.next[b]) = Len(h.next[b])
      BY <1>7 DEF WithInserted
  <2>3. FreeBlocks(inserted) = FreeBlocks(h) \union {f}
      BY <2>2, <1>2 DEF FreeBlocks
  <2>4. DOMAIN h.next = {b \in DOMAIN h.header : ~h.header[b].allocated}
      BY DEF IsHeap, FreelistOK
  <2>5. DOMAIN inserted.next = {b \in DOMAIN inserted.header : ~inserted.header[b].allocated}
      BY <2>2, <2>4, <1>2, <1>5, <1>7
  <2>6. ASSUME NEW b \in FreeBlocks(inserted)
        PROVE  /\ LevelFor(SizeIn(inserted, b)) <= Len(inserted.next[b])
               /\ NextOffset + PointerSize * Len(inserted.next[b]) <= SizeIn(inserted, b)
    <3>1. CASE b = f
        BY <3>1, <2>2, <1>2, <1>6, <1>8
    <3>2. CASE b # f
      <4>1. b \in FreeBlocks(h)
          BY <3>2, <2>3
      <4>2. b \in DOMAIN h.next /\ b \in DOMAIN h.header
          BY <4>1, FreeBlockType
      <4> QED BY <4>1, <4>2, <2>2, <1>8 DEF IsHeap, FreelistOK
    <3> QED BY <3>1, <3>2
  <2>7. FreelistOK(inserted)
      BY <2>2, <2>5, <2>6 DEF FreelistOK
  <2> QED BY <2>1, <2>3, <2>7, <1>7 DEF IsHeap
<1>10. /\ pred \in DOMAIN h.next /\ pred < f
       /\ \A b \in DOMAIN h.next : b < f => b <= pred
  <2>1. 1 \in Levels
      BY Constants DEF Levels
  <2>2. IsLastBefore(h.next, f, 1, pred)
      BY <2>1, <1>2, <1>3, <1>4, SearchFinds
  <2> HIDE DEF pred
  <2>3. pred \in DOMAIN h.next /\ pred < f /\ \A b \in DOMAIN h.next : b > pred /\ b < f => Len(h.next[b]) < 1
      BY <2>2 DEF IsLastBefore
  <2>4. \A b \in DOMAIN h.next : b \in Nat /\ ~(Len(h.next[b]) < 1)
      BY <1>4, LowestLevel DEF IsSkipList
  <2> QED BY <2>3, <2>4
<1> HIDE DEF pred
<1>11. f \in DOMAIN inserted.next /\ f \in FreeBlocks(inserted)
    BY <1>9 DEF FreeBlocks
<1>12. IsHeap(first) /\ SameMemory(inserted, first)
    BY <1>9, <1>11, CoalesceKeeps
(* Only the block before f can touch another one now, namely f. *)
<1>13. /\ f \in FreeBlocks(first) /\ pred \in DOMAIN first.next
       /\ pred \in FreeBlocks(h) => pred \in FreeBlocks(first)
       /\ \A b, c \in FreeBlocks(first) : b + SizeIn(first, b) = c => b = pred /\ c = f
  <2>1. ASSUME NEW b \in FreeBlocks(h)
        PROVE  /\ b \in Nat /\ b \in DOMAIN h.header /\ SizeIn(h, b) \in Nat /\ b # f /\ b \in DOMAIN h.next
               /\ SizeIn(inserted, b) = SizeIn(h, b)
               /\ b + SizeIn(h, b) = f => b = pred
    <3>1. /\ b \in Nat /\ b \in DOMAIN h.header /\ SizeIn(h, b) \in Nat /\ b # f /\ b \in DOMAIN h.next
          /\ SizeIn(h, b) > 0
        BY <1>4, FreeBlockType
    <3>2. ASSUME b + SizeIn(h, b) = f
          PROVE  b = pred
      <4>1. b < f
          BY <3>1, <3>2, <1>2
      <4>2. b <= pred /\ pred < f /\ pred \in DOMAIN h.header /\ pred \in Nat
          BY <3>1, <4>1, <1>10, BlockType DEF IsHeap, FreelistOK
      <4>3. ~(b < pred)
        <5>1. b < pred => b + SizeIn(h, b) <= pred
            BY <3>1, <4>2, <1>4 DEF HeadersOK
        <5> QED BY <5>1, <4>2, <3>1, <3>2, <1>2
      <4> QED BY <4>2, <4>3, <3>1
    <3> QED BY <3>1, <3>2, <1>8
  <2>2. SizeIn(inserted, f) = SizeIn(h, f) /\ f \notin FreeBlocks(h)
      BY <1>2, <1>4, <1>8 DEF FreeBlocks
  <2>3. CASE f + SizeIn(inserted, f) \notin FreeBlocks(inserted)
    <3>1. first = inserted
        BY <2>3, <1>9, <1>11, CoalesceStep
    <3>2. pred \in DOMAIN inserted.next
        BY <1>7, <1>10 DEF WithInserted
    <3>3. ASSUME NEW b \in FreeBlocks(inserted), NEW c \in FreeBlocks(inserted),
                 b + SizeIn(inserted, b) = c
          PROVE  b = pred /\ c = f
      <4>1. b # f
          BY <2>3, <3>3
      <4>2. b \in FreeBlocks(h)
          BY <4>1, <1>9
      <4>3. c = f
          BY <4>2, <3>3, <2>1, <1>9 DEF NoNeighbours
      <4> QED BY <4>2, <4>3, <3>3, <2>1
    <3> HIDE DEF first
    <3> QED BY <3>1, <3>2, <3>3, <1>9, <1>11
  <2>4. CASE f + SizeIn(inserted, f) \in FreeBlocks(inserted)
    <3> DEFINE n == f + SizeIn(inserted, f)
    <3>1. IsMerged(inserted, f, n, first)
        BY <2>4, <1>2, <1>9, <1>11, CoalesceStep
    <3> HIDE DEF first
    <3>2. n # f /\ n \in FreeBlocks(h) /\ n > f /\ n \in Nat
        BY <2>2, <2>4, <1>2, <1>9
    <3> HIDE DEF n
    <3>3. /\ DOMAIN first.header = DOMAIN inserted.header \ {n} /\ n # FreeList
          /\ SizeIn(first, f) = SizeIn(inserted, f) + SizeIn(inserted, n)
          /\ ~first.header[f].allocated
          /\ \A b \in DOMAIN inserted.header \ {n, f} : first.header[b] = inserted.header[b]
        BY <3>1 DEF IsMerged
    <3>4. FreeBlocks(first) = FreeBlocks(inserted) \ {n}
        BY <3>2, <3>3, <1>9, <1>11, <1>12, FreeBlocksAre
    <3>5. pred # n /\ pred \in DOMAIN inserted.next
        BY <3>2, <1>2, <1>7, <1>10 DEF WithInserted
    <3>6. pred \in DOMAIN first.next
        BY <3>4, <3>5, <1>9, <1>12, FreeBlocksAre
    <3>7. SizeIn(first, f) = SizeIn(h, f) + SizeIn(h, n)
        BY <3>2, <3>3, <2>1, <2>2
    <3>8. \A b \in FreeBlocks(first) : b # f => b \in FreeBlocks(h) /\ SizeIn(first, b) = SizeIn(h, b)
      <4> SUFFICES ASSUME NEW b \in FreeBlocks(first), b # f
                   PROVE  b \in FreeBlocks(h) /\ SizeIn(first, b) = SizeIn(h, b)
          OBVIOUS
      <4>1. b \in FreeBlocks(h) /\ b # n
          BY <3>4, <1>9
      <4>2. b \in DOMAIN inserted.header
          BY <4>1, <2>1, <1>5, <1>7
      <4>3. first.header[b] = inserted.header[b]
          BY <4>1, <4>2, <3>3
      <4> QED BY <4>1, <4>3, <2>1 DEF SizeIn
    <3>9. ASSUME NEW b \in FreeBlocks(first), NEW c \in FreeBlocks(first), b + SizeIn(first, b) = c
          PROVE  b = pred /\ c = f
      <4>1. b # f
        <5> SUFFICES ASSUME b = f
                     PROVE  FALSE
            OBVIOUS
        <5>1. n = f + SizeIn(h, f) /\ SizeIn(h, n) \in Nat
            BY <2>1, <2>2, <3>2 DEF n
        <5>2. c = n + SizeIn(h, n)
            BY <5>1, <3>7, <3>9, <1>2
        <5>3. c # f
            BY <5>1, <5>2, <3>2, <1>2
        <5>4. c \in FreeBlocks(h)
            BY <5>3, <3>8
        <5> QED BY <5>2, <5>4, <3>2 DEF NoNeighbours
      <4>2. b \in FreeBlocks(h) /\ b + SizeIn(h, b) = c
          BY <4>1, <3>8, <3>9
      <4>3. c = f
          BY <4>2, <3>8 DEF NoNeighbours
      <4> QED BY <4>2, <4>3, <2>1
    <3> QED BY <3>2, <3>4, <3>5, <3>6, <3>9, <1>9, <1>11 DEF FreeBlocks
  <2> QED BY <2>3, <2>4
<1> HIDE DEF first
<1>14. IsHeap(result) /\ SameMemory(first, result)
    BY <1>12, <1>13, CoalesceKeeps
<1>15. NoNeighbours(result)
  <2>1. CASE ~(pred # FreeList /\ pred + SizeIn(first, pred) \in FreeBlocks(first))
    <3>1. result = first
        BY <2>1, <1>12, <1>13, CoalesceStep
    <3> HIDE DEF result
    <3>2. ASSUME NEW b \in FreeBlocks(first), NEW c \in FreeBlocks(first)
          PROVE  b + SizeIn(first, b) # c
        BY <2>1, <1>13 DEF FreeBlocks
    <3> QED BY <3>1, <3>2 DEF NoNeighbours
  <2>2. CASE pred # FreeList /\ pred + SizeIn(first, pred) \in FreeBlocks(first)
    <3>1. pred \in FreeBlocks(first) /\ pred + SizeIn(first, pred) = f
        BY <2>2, <1>13 DEF FreeBlocks
    <3>2. IsMerged(first, pred, f, result)
        BY <2>2, <3>1, <1>12, <1>13, CoalesceStep
    <3> HIDE DEF result
    <3>3. /\ DOMAIN result.header = DOMAIN first.header \ {f} /\ f # pred
          /\ SizeIn(result, pred) = SizeIn(first, pred) + SizeIn(first, f)
          /\ ~result.header[pred].allocated
          /\ \A b \in DOMAIN first.header \ {f, pred} : result.header[b] = first.header[b]
        BY <3>2 DEF IsMerged
    <3>4. FreeBlocks(result) = FreeBlocks(first) \ {f}
        BY <3>1, <3>3, <1>12, <1>14, FreeBlocksAre
    <3>5. ASSUME NEW b \in FreeBlocks(result), NEW c \in FreeBlocks(result), b + SizeIn(result, b) = c
          PROVE  FALSE
      <4>1. b \in FreeBlocks(first) /\ c \in FreeBlocks(first) /\ b # f /\ c # f
          BY <3>4
      <4>2. CASE b = pred
        <5>1. /\ pred \in Nat /\ SizeIn(first, pred) \in Nat /\ SizeIn(first, f) \in Nat
            BY <3>1, <1>12, <1>13, FreeBlockType
        <5>2. f + SizeIn(first, f) = c
            BY <4>2, <5>1, <3>1, <3>3, <3>5
        <5> QED BY <5>2, <4>1, <1>13
      <4>3. CASE b # pred
        <5>1. b \in DOMAIN first.header
            BY <4>1, <1>12, FreeBlockType
        <5>2. SizeIn(result, b) = SizeIn(first, b)
            BY <5>1, <4>1, <4>3, <3>3 DEF SizeIn
        <5> QED BY <5>2, <4>1, <4>3, <3>5, <1>13
      <4> QED BY <4>2, <4>3
    <3> QED BY <3>5 DEF NoNeighbours
  <2> QED BY <2>1, <2>2
<1> HIDE DEF result
<1>16. SameMemory(inserted, result)
    BY <1>12, <1>14, SameMemoryIsTransitive
<1>17. AllocatedIn(result) = AllocatedIn(h) \ {f}
    BY <1>16, <1>5, <1>8 DEF SameMemory
<1>18. \A b \in AllocatedIn(result) : result.header[b] = h.header[b]
  <2> SUFFICES ASSUME NEW b \in AllocatedIn(result)
               PROVE  result.header[b] = h.header[b]
      OBVIOUS
  <2>1. b \in AllocatedIn(inserted)
      BY <1>16 DEF SameMemory
  <2>2. result.header[b] = inserted.header[b]
      BY <2>1, <1>16 DEF SameMemory
  <2>3. b \in DOMAIN h.header \ {f}
      BY <1>17 DEF AllocatedIn
  <2> QED BY <2>2, <2>3, <1>5, <1>7
<1>19. \A x \in Nat : Covers(result, x) <=> Covers(h, x)
    BY <1>16, <1>5, <1>8 DEF SameMemory
<1>20. IsFreed(h, f, result)
    BY <1>14, <1>15, <1>17, <1>18, <1>19 DEF IsFreed
<1> QED BY <1>1, <1>20

-----------------------------------------------------------------------------
(* An allocated block of this size that takes the place of others or of none. *)
WithHeader(h, b, size, g) ==
    /\ IsHeap(g) /\ NoNeighbours(g)
    /\ DOMAIN g.header = DOMAIN h.header \union {b}
    /\ SizeIn(g, b) = size
    /\ \A c \in DOMAIN h.header \ {b} : g.header[c] = h.header[c]
    /\ FreeBlocks(g) = FreeBlocks(h) \ {b}
    /\ AllocatedIn(g) = AllocatedIn(h) \union {b}

IsPut(h, b, size, g) ==
    /\ HeadersOK(g)
    /\ DOMAIN g.header = DOMAIN h.header \union {b}
    /\ SizeIn(g, b) = size
    /\ g.header[b].allocated
    /\ \A c \in DOMAIN h.header \ {b} : g.header[c] = h.header[c] /\ SizeIn(g, c) = SizeIn(h, c)
    /\ AllocatedIn(g) = AllocatedIn(h) \union {b}

LEMMA PutHeaders ==
    ASSUME NEW h, HeadersOK(h), NEW b \in Nat, b # FreeList, b >= MemoryStart,
           NEW size \in Nat, size >= MinSize, b + size <= MemoryEnd,
           \A c \in DOMAIN h.header \ {b} : /\ c < b => c + SizeIn(h, c) <= b
                                            /\ b < c => b + size <= c,
           NEW g, g.header = Put(h.header, b, [size |-> size, allocated |-> TRUE])
    PROVE  IsPut(h, b, size, g)
<1>1. /\ DOMAIN g.header = DOMAIN h.header \union {b}
      /\ g.header = [c \in DOMAIN g.header |-> g.header[c]]
      /\ g.header[b] = [size |-> size, allocated |-> TRUE]
      /\ \A c \in DOMAIN h.header \ {b} : g.header[c] = h.header[c]
    BY DEF Put
<1>2. /\ SizeIn(g, b) = size /\ g.header[b].allocated
      /\ \A c \in DOMAIN h.header \ {b} : SizeIn(g, c) = SizeIn(h, c)
  <2>1. g.header[b].allocated = TRUE /\ g.header[b].size = size
      BY <1>1
  <2> QED BY <2>1, <1>1 DEF SizeIn
<1>3. HeadersOK(g)
  <2>1. \A c \in DOMAIN g.header : g.header[c] \in [size : Nat, allocated : BOOLEAN]
    <3>1. \A s \in Nat : [size |-> s, allocated |-> TRUE] \in [size : Nat, allocated : BOOLEAN]
        OBVIOUS
    <3>2. g.header[b] \in [size : Nat, allocated : BOOLEAN]
        BY <3>1, <1>1
    <3>3. \A c \in DOMAIN h.header \ {b} : g.header[c] \in [size : Nat, allocated : BOOLEAN]
        BY <1>1 DEF HeadersOK
    <3> QED BY <3>2, <3>3, <1>1
  <2>2. /\ FreeList \in DOMAIN g.header
        /\ g.header[FreeList].size = 0 /\ ~g.header[FreeList].allocated
      BY <1>1 DEF HeadersOK
  <2>3. ASSUME NEW c \in DOMAIN g.header \ {FreeList}
        PROVE  c \in Nat /\ c >= MemoryStart /\ SizeIn(g, c) >= MinSize /\ c + SizeIn(g, c) <= MemoryEnd
    <3>1. CASE c = b
        BY <3>1, <1>2
    <3>2. CASE c # b
      <4>1. c \in DOMAIN h.header \ {FreeList} /\ c \in DOMAIN h.header \ {b}
          BY <3>2, <1>1
      <4>2. c \in Nat /\ c >= MemoryStart /\ SizeIn(h, c) >= MinSize /\ c + SizeIn(h, c) <= MemoryEnd
          BY <4>1 DEF HeadersOK
      <4> QED BY <4>1, <4>2, <1>2
    <3> QED BY <3>1, <3>2
  <2>4. ASSUME NEW c \in DOMAIN g.header, NEW d \in DOMAIN g.header, c < d
        PROVE  c + SizeIn(g, c) <= d
    <3>1. CASE c # b /\ d # b
      <4>1. c \in DOMAIN h.header \ {b} /\ d \in DOMAIN h.header
          BY <3>1, <1>1
      <4>2. c + SizeIn(h, c) <= d
          BY <4>1, <2>4 DEF HeadersOK
      <4> QED BY <4>1, <4>2, <1>2
    <3>2. CASE c = b /\ d # b
      <4>1. d \in DOMAIN h.header \ {b}
          BY <3>2, <1>1
      <4> QED BY <4>1, <3>2, <2>4, <1>2
    <3>3. CASE c # b /\ d = b
      <4>1. c \in DOMAIN h.header \ {b}
          BY <3>3, <1>1
      <4> QED BY <4>1, <3>3, <2>4, <1>2
    <3>4. CASE c = b /\ d = b
        BY <3>4, <2>4
    <3> QED BY <3>1, <3>2, <3>3, <3>4
  <2> QED BY <1>1, <2>1, <2>2, <2>3, <2>4 DEF HeadersOK
<1>4. AllocatedIn(g) = AllocatedIn(h) \union {b}
    BY <1>1, <1>2 DEF AllocatedIn
<1> QED BY <1>1, <1>2, <1>3, <1>4 DEF IsPut

LEMMA WithBlockIs ==
    ASSUME NEW h, IsRecord(h), NEW b, NEW size
    PROVE  /\ IsRecord(WithBlock(h, b, size)) /\ WithBlock(h, b, size).next = h.next
           /\ WithBlock(h, b, size).header = Put(h.header, b, [size |-> size, allocated |-> TRUE])
<1>1. h = [header |-> h.header, next |-> h.next]
    BY DEF IsRecord
<1>2. \A x : [h EXCEPT !.header = x] = [header |-> x, next |-> h.next]
    BY <1>1
<1>3. WithBlock(h, b, size) =
          [header |-> Put(h.header, b, [size |-> size, allocated |-> TRUE]), next |-> h.next]
    BY <1>2 DEF WithBlock
<1> QED BY <1>3 DEF IsRecord

(* A block where there was none. *)
LEMMA NewBlockStep ==
    ASSUME NEW h, IsHeap(h), NoNeighbours(h), NEW b \in Nat, b \notin DOMAIN h.header,
           b >= MemoryStart, NEW size \in Nat, size >= MinSize, b + size <= MemoryEnd,
           \A c \in DOMAIN h.header : /\ c < b => c + SizeIn(h, c) <= b
                                      /\ b < c => b + size <= c
    PROVE  WithHeader(h, b, size, WithBlock(h, b, size))
<1> DEFINE g == WithBlock(h, b, size)
<1>1. IsRecord(h) /\ HeadersOK(h) /\ FreelistOK(h)
    BY DEF IsHeap
<1>2. /\ IsRecord(g) /\ g.next = h.next
      /\ g.header = Put(h.header, b, [size |-> size, allocated |-> TRUE])
    BY <1>1, WithBlockIs
<1> HIDE DEF g
<1>3. b # FreeList
    BY <1>1 DEF HeadersOK
<1>4. /\ HeadersOK(g)
      /\ DOMAIN g.header = DOMAIN h.header \union {b}
      /\ SizeIn(g, b) = size
      /\ g.header[b].allocated
      /\ \A c \in DOMAIN h.header \ {b} : g.header[c] = h.header[c] /\ SizeIn(g, c) = SizeIn(h, c)
      /\ AllocatedIn(g) = AllocatedIn(h) \union {b}
  <2>1. IsPut(h, b, size, g)
      BY <1>1, <1>2, <1>3, PutHeaders
  <2> QED BY <2>1 DEF IsPut
<1>5. FreeBlocks(g) = FreeBlocks(h) /\ \A c \in FreeBlocks(h) : c \in DOMAIN h.header \ {b}
  <2>1. \A c \in FreeBlocks(h) : c \in DOMAIN h.header
      BY FreeBlockType
  <2> QED BY <2>1, <1>2 DEF FreeBlocks
<1>6. FreelistOK(g)
  <2>1. DOMAIN h.next = {c \in DOMAIN h.header : ~h.header[c].allocated}
      BY <1>1 DEF FreelistOK
  <2>2. DOMAIN g.next = {c \in DOMAIN g.header : ~g.header[c].allocated}
      BY <2>1, <1>2, <1>4
  <2> QED BY <2>2, <1>1, <1>2, <1>4, <1>5 DEF FreelistOK
<1>7. NoNeighbours(g)
    BY <1>4, <1>5 DEF NoNeighbours
<1>8. FreeBlocks(g) = FreeBlocks(h) \ {b}
    BY <1>5
<1> QED BY <1>2, <1>4, <1>6, <1>7, <1>8 DEF WithHeader, IsHeap, g

(* A free block that is taken from the list, or the start of it. *)
LEMMA TakeStep ==
    ASSUME NEW h, IsHeap(h), NoNeighbours(h), NEW s \in FreeBlocks(h),
           NEW size \in Nat, size >= MinSize, size <= SizeIn(h, s)
    PROVE  WithHeader(h, s, size, WithBlock(SkiplistDelete(h, s), s, size))
<1> DEFINE without == SkiplistDelete(h, s)
           g == WithBlock(without, s, size)
<1>1. IsRecord(h) /\ HeadersOK(h) /\ FreelistOK(h)
    BY DEF IsHeap
<1>2. /\ s \in DOMAIN h.header /\ s \in DOMAIN h.next /\ s # FreeList /\ s \in Nat
      /\ SizeIn(h, s) \in Nat /\ s >= MemoryStart /\ s + SizeIn(h, s) <= MemoryEnd
    BY <1>1, FreeBlockType, BlockType
<1>3. IsRecord(without) /\ without.header = h.header /\ WithDeleted(h.next, s, without.next)
    BY <1>1, <1>2, DeleteStep DEF FreelistOK
<1> HIDE DEF without
<1>4. /\ IsRecord(g) /\ g.next = without.next
      /\ g.header = Put(h.header, s, [size |-> size, allocated |-> TRUE])
    BY <1>3, WithBlockIs
<1> HIDE DEF g
<1>5. s + size <= MemoryEnd
    BY <1>2, ArenaAssumption
<1>6. ASSUME NEW c \in DOMAIN h.header \ {s}
      PROVE  /\ c < s => c + SizeIn(h, c) <= s
             /\ s < c => s + size <= c
  <2>1. c \in Nat
      BY <1>1, BlockType
  <2> QED BY <2>1, <1>1, <1>2 DEF HeadersOK
<1>7. /\ HeadersOK(g)
      /\ DOMAIN g.header = DOMAIN h.header \union {s}
      /\ SizeIn(g, s) = size
      /\ g.header[s].allocated
      /\ \A c \in DOMAIN h.header \ {s} : g.header[c] = h.header[c] /\ SizeIn(g, c) = SizeIn(h, c)
      /\ AllocatedIn(g) = AllocatedIn(h) \union {s}
  <2>1. \A c \in DOMAIN h.header \ {s} : /\ c < s => c + SizeIn(h, c) <= s
                                         /\ s < c => s + size <= c
      BY <1>6
  <2>2. HeadersOK(h) /\ s \in Nat /\ s # FreeList /\ s >= MemoryStart
      BY <1>1, <1>2
  <2>3. g.header = Put(h.header, s, [size |-> size, allocated |-> TRUE])
      BY <1>4
  <2>4. ASSUME NEW b \in Nat, b = s
        PROVE  IsPut(h, b, size, g)
    <3>1. ASSUME NEW c \in DOMAIN h.header \ {b}
          PROVE  /\ c < b => c + SizeIn(h, c) <= b
                 /\ b < c => b + size <= c
      <4>1. c \in Nat /\ SizeIn(h, c) \in Nat
          BY <2>2, BlockType
      <4>2. c \in DOMAIN h.header \ {s}
          BY <2>4
      <4>3. /\ c < s => c + SizeIn(h, c) <= s
            /\ s < c => s + size <= c
          BY <1>6, <4>1, <4>2
      <4> QED BY <4>1, <4>3, <2>4
    <3>2. b # FreeList /\ b >= MemoryStart /\ b + size <= MemoryEnd
        BY <2>2, <2>4, <1>5
    <3>3. g.header = Put(h.header, b, [size |-> size, allocated |-> TRUE])
        BY <2>3, <2>4
    <3> QED BY <3>1, <3>2, <3>3, <2>2, PutHeaders
  <2>5. IsPut(h, s, size, g)
      BY <2>2, <2>4
  <2> QED BY <2>5 DEF IsPut
<1>8. /\ IsSkipList(g.next) /\ DOMAIN g.next = DOMAIN h.next \ {s}
      /\ \A c \in DOMAIN h.next \ {s} : Len(g.next[c]) = Len(h.next[c])
    BY <1>3, <1>4 DEF WithDeleted
<1>9. FreeBlocks(g) = FreeBlocks(h) \ {s}
    BY <1>8 DEF FreeBlocks
<1>10. \A c \in FreeBlocks(g) : c \in DOMAIN h.header \ {s} /\ c \in DOMAIN h.next \ {s} /\ c \in FreeBlocks(h)
    BY <1>9, FreeBlockType
<1>11. FreelistOK(g)
  <2>1. DOMAIN h.next = {c \in DOMAIN h.header : ~h.header[c].allocated}
      BY <1>1 DEF FreelistOK
  <2>2. DOMAIN g.next = {c \in DOMAIN g.header : ~g.header[c].allocated}
      BY <2>1, <1>7, <1>8
  <2>3. ASSUME NEW c \in FreeBlocks(g)
        PROVE  /\ LevelFor(SizeIn(g, c)) <= Len(g.next[c])
               /\ NextOffset + PointerSize * Len(g.next[c]) <= SizeIn(g, c)
    <3>1. SizeIn(g, c) = SizeIn(h, c) /\ Len(g.next[c]) = Len(h.next[c]) /\ c \in FreeBlocks(h)
        BY <1>7, <1>8, <1>10
    <3> QED BY <3>1, <1>1 DEF FreelistOK
  <2> QED BY <2>2, <2>3, <1>8 DEF FreelistOK
<1>12. NoNeighbours(g)
    BY <1>7, <1>10 DEF NoNeighbours
<1> QED BY <1>4, <1>7, <1>9, <1>11, <1>12 DEF WithHeader, IsHeap, g, without

LEMMA EmptyHeapIs ==
    /\ IsHeap(EmptyHeap) /\ NoNeighbours(EmptyHeap)
    /\ DOMAIN EmptyHeap.header = {FreeList}
    /\ AllocatedIn(EmptyHeap) = {} /\ \A x \in Nat : ~Covers(EmptyHeap, x)
<1> DEFINE h == EmptyHeap
<1>1. /\ h.header = [b \in {FreeList} |-> [size |-> 0, allocated |-> FALSE]]
      /\ h.next = [b \in {FreeList} |-> [level \in Levels |-> Null]]
      /\ IsRecord(h)
    BY DEF EmptyHeap, IsRecord
<1> HIDE DEF h
<1>2. /\ DOMAIN h.header = {FreeList} /\ SizeIn(h, FreeList) = 0 /\ ~h.header[FreeList].allocated
      /\ h.header[FreeList] = [size |-> 0, allocated |-> FALSE]
      /\ DOMAIN h.next = {FreeList} /\ h.next[FreeList] = [level \in Levels |-> Null]
    BY <1>1 DEF SizeIn
<1>3. HeadersOK(h)
  <2>1. [size |-> 0, allocated |-> FALSE] \in [size : Nat, allocated : BOOLEAN]
      OBVIOUS
  <2>2. \A b, c \in DOMAIN h.header : ~(b < c)
      BY <1>2 DEF FreeList
  <2> QED BY <1>1, <1>2, <2>1, <2>2 DEF HeadersOK, SizeIn
<1>4. IsSkipList(h.next)
  <2>1. Levels = 1..(MaxLevel - 1)
      BY DEF Levels
  <2>2. h.next[FreeList] \in Seq(Nat) /\ Len(h.next[FreeList]) = MaxLevel - 1
      BY <1>2, <2>1, Constants DEF Null
  <2>3. \A level \in 1..(MaxLevel - 1) : h.next[FreeList][level] = Null
      BY <1>2, <2>1
  <2>4. \A level : IsFirstAfter(h.next, FreeList, level, Null)
      BY <1>2 DEF IsFirstAfter, FreeList
  <2>5. FreeList \in Nat \ {0} /\ MaxLevel - 1 \in 0..(MaxLevel - 1)
      BY Constants DEF FreeList
  <2>6. h.next = [b \in DOMAIN h.next |-> h.next[b]]
      BY <1>1
  <2>7. \A b \in DOMAIN h.next : \A level \in 1..Len(h.next[b]) :
            IsFirstAfter(h.next, b, level, h.next[b][level])
    <3> SUFFICES ASSUME NEW level \in 1..Len(h.next[FreeList])
                 PROVE  IsFirstAfter(h.next, FreeList, level, h.next[FreeList][level])
        BY <1>2
    <3>1. h.next[FreeList][level] = Null
        BY <2>2, <2>3
    <3> QED BY <3>1, <2>4
  <2>8. \A b \in DOMAIN h.next :
            h.next[b] \in Seq(Nat) /\ Len(h.next[b]) \in 0..(MaxLevel - 1)
      BY <1>2, <2>2, <2>5
  <2> QED BY <1>2, <2>2, <2>5, <2>6, <2>7, <2>8 DEF IsSkipList
<1>5. FreeBlocks(h) = {}
    BY <1>2 DEF FreeBlocks
<1>6. FreelistOK(h)
    BY <1>2, <1>4, <1>5 DEF FreelistOK
<1>7. AllocatedIn(h) = {} /\ \A x \in Nat : ~Covers(h, x)
  <2>1. \A x \in Nat : ~(1 <= x /\ x < 1 + 0)
      OBVIOUS
  <2>2. \A x \in Nat : ~Covers(h, x)
      BY <1>2, <2>1 DEF Covers, FreeList
  <2> QED BY <1>2, <2>2 DEF AllocatedIn
<1>8. IsHeap(h) /\ NoNeighbours(h)
    BY <1>1, <1>3, <1>5, <1>6 DEF IsHeap, NoNeighbours
<1> QED BY <1>2, <1>7, <1>8 DEF h

-----------------------------------------------------------------------------
(* The lowest level of the free list leads to every free block. *)
Follows(h, after) ==
    after = [p \in WithLevel(h, 1) |->
                IF h.next[p][1] = Null THEN {} ELSE {h.next[p][1]} \union after[h.next[p][1]]]

LEMMA BlocksAfterAreFree ==
    ASSUME NEW h, IsHeap(h)
    PROVE  BlocksAfter(h, FreeList) = FreeBlocks(h)
<1> DEFINE W == WithLevel(h, 1)
           n(p) == h.next[p][1]
           Rest(p) == {c \in W : c > p}
<1>1. W = DOMAIN h.next
    BY LowestLevel DEF WithLevel
<1>2. FreeList \in W /\ IsSkipList(h.next) /\ 1 \in Levels
    BY <1>1, LowestLevel DEF IsHeap, FreelistOK, IsSkipList
<1>3. \A p \in W : /\ p \in Nat /\ IsFirstAfter(h.next, p, 1, n(p)) /\ n(p) \in Nat
                   /\ (n(p) # Null => n(p) \in W /\ n(p) > p)
    BY <1>2, NextOnLevel
<1>4. ASSUME NEW p \in W
      PROVE  Rest(p) = IF n(p) = Null THEN {} ELSE {n(p)} \union Rest(n(p))
  <2>1. \A c \in W : c \in Nat /\ ~(Len(h.next[c]) < 1)
      BY <1>1, <1>3, LowestLevel
  <2>2. CASE n(p) = Null
    <3>1. p \in Nat /\ IsFirstAfter(h.next, p, 1, n(p))
        BY <1>3, <1>4
    <3>2. ~(n(p) > p)
        BY <2>2, <3>1 DEF Null
    <3>3. \A c \in W : ~(c > p)
        BY <2>1, <3>1, <3>2, <1>1 DEF IsFirstAfter
    <3> QED BY <2>2, <3>3
  <2>3. CASE n(p) # Null
    <3>1. n(p) \in W /\ n(p) > p /\ n(p) \in Nat
        BY <2>3, <1>3, <1>4
    <3>2. \A c \in W : c > p => ~(c < n(p))
        BY <2>1, <2>3, <1>1, <1>3, <1>4 DEF IsFirstAfter, Null
    <3>3. \A c \in W : c > p <=> c = n(p) \/ c > n(p)
        BY <2>1, <3>1, <3>2, <1>3, <1>4
    <3> QED BY <2>3, <3>1, <3>3
  <2> QED BY <2>2, <2>3
<1>5. BlocksAfter(h, FreeList) = (CHOOSE after : Follows(h, after))[FreeList]
    BY DEF BlocksAfter, Follows
<1> HIDE DEF W, Rest, n
<1>6. \E after : Follows(h, after)
  <2> DEFINE after == [p \in W |-> Rest(p)]
  <2>1. \A p \in W : Rest(p) = IF n(p) = Null THEN {} ELSE {n(p)} \union after[n(p)]
      BY <1>3, <1>4
  <2>2. after = [p \in W |-> IF n(p) = Null THEN {} ELSE {n(p)} \union after[n(p)]]
      BY <2>1
  <2> HIDE DEF after
  <2>3. Follows(h, after)
      BY <2>2 DEF Follows, W, n
  <2> QED BY <2>3
<1> DEFINE after == CHOOSE after : Follows(h, after)
<1>7. Follows(h, after)
    BY <1>6
<1> HIDE DEF after
<1>8. \A p \in W : after[p] = IF n(p) = Null THEN {} ELSE {n(p)} \union after[n(p)]
    BY <1>7 DEF Follows, W, n
<1> DEFINE Bad == {p \in W : after[p] # Rest(p)}
<1>9. Bad = {}
  <2> SUFFICES ASSUME Bad # {}
               PROVE  FALSE
      OBVIOUS
  <2>1. Bad \in SUBSET Nat
      BY <1>3
  <2>2. \A p \in Bad : p <= MemoryEnd + 1
    <3>1. \A p \in Bad : p \in DOMAIN h.header
        BY <1>1 DEF IsHeap, FreelistOK
    <3>2. \A p \in Bad : p = 1 \/ (p \in Nat /\ SizeIn(h, p) \in Nat /\ p + SizeIn(h, p) <= MemoryEnd)
        BY <3>1, BlockType DEF IsHeap, FreeList
    <3> QED BY <3>2, ArenaAssumption
  <2>3. MemoryEnd + 1 \in Nat
      BY ArenaAssumption
  <2>4. PICK p \in Bad : \A c \in Bad : c <= p
      BY <2>1, <2>2, <2>3, GreatestNat
  <2>5. p \in W /\ p \in Nat
      BY <1>3
  <2>6. CASE n(p) = Null
      BY <2>4, <2>5, <2>6, <1>4, <1>8
  <2>7. CASE n(p) # Null
    <3>1. n(p) \in W /\ n(p) > p /\ n(p) \in Nat
        BY <2>5, <2>7, <1>3
    <3>2. n(p) \notin Bad
        BY <2>4, <2>5, <3>1
    <3>3. after[n(p)] = Rest(n(p))
        BY <3>1, <3>2
    <3> QED BY <2>4, <2>5, <2>7, <3>3, <1>4, <1>8
  <2> QED BY <2>6, <2>7
<1>10. after[FreeList] = Rest(FreeList)
    BY <1>2, <1>9
<1>11. Rest(FreeList) = FreeBlocks(h)
  <2>1. \A b \in FreeBlocks(h) : b \in W /\ b > FreeList
      BY <1>1, FreeBlockType DEF FreeBlocks, FreeList
  <2>2. \A b \in W : b > FreeList => b \in FreeBlocks(h)
      BY <1>1 DEF FreeBlocks, FreeList
  <2>3. FreeBlocks(h) \subseteq Rest(FreeList)
      BY <2>1 DEF Rest
  <2>4. Rest(FreeList) \subseteq FreeBlocks(h)
      BY <2>2 DEF Rest
  <2> QED BY <2>3, <2>4
<1> QED BY <1>5, <1>10, <1>11 DEF after

-----------------------------------------------------------------------------
(* The search for a block finds the first free one that is large enough. *)
LargeAfter(h, level, size, b) ==
    {s \in WithLevel(h, level) : s > b /\ SizeIn(h, s) >= size}

FirstLarge(h, level, size, b) ==
    IF LargeAfter(h, level, size, b) = {} THEN Null ELSE Min(LargeAfter(h, level, size, b))

FitsFrom(h, level, size, fitting) ==
    fitting = [b \in WithLevel(h, level) |->
                  IF h.next[b][level] = Null \/ h.header[h.next[b][level]].size >= size
                  THEN h.next[b][level]
                  ELSE fitting[h.next[b][level]]]

LEMMA MinOfIs ==
    ASSUME NEW S \in SUBSET Nat, NEW x \in S, \A y \in S : x <= y
    PROVE  Min(S) = x
<1>1. Min(S) \in S /\ Min(S) <= x
    BY MinIs
<1>2. Min(S) \in Nat /\ x \in Nat /\ x <= Min(S)
    BY <1>1
<1> QED BY <1>1, <1>2

LEMMA FirstLargeStep ==
    ASSUME NEW h, IsHeap(h), NEW level \in Levels, NEW size \in Nat, NEW b \in WithLevel(h, level)
    PROVE  LET s == h.next[b][level]
           IN  IF s = Null \/ SizeIn(h, s) >= size
               THEN FirstLarge(h, level, size, b) = s
               ELSE FirstLarge(h, level, size, b) = FirstLarge(h, level, size, s)
<1> DEFINE s == h.next[b][level]
           large == LargeAfter(h, level, size, b)
<1>1. IsSkipList(h.next)
    BY DEF IsHeap, FreelistOK
<1>2. /\ b \in Nat /\ b \in DOMAIN h.next /\ level <= Len(h.next[b])
      /\ IsFirstAfter(h.next, b, level, s)
      /\ s \in Nat
      /\ s # Null => s \in WithLevel(h, level) /\ s > b
    BY <1>1, NextOnLevel
<1>3. \A c \in WithLevel(h, level) :
          c \in Nat /\ c \in DOMAIN h.next /\ level <= Len(h.next[c]) /\ Len(h.next[c]) \in Nat
    BY <1>1, Constants DEF WithLevel, IsSkipList
<1>4. level \in Nat
    BY LevelUp
<1> HIDE DEF s
<1>5. \A c \in WithLevel(h, level) : c > b => s # Null /\ s <= c
  <2> SUFFICES ASSUME NEW c \in WithLevel(h, level), c > b
               PROVE  s # Null /\ s <= c
      OBVIOUS
  <2>1. c \in Nat /\ c \in DOMAIN h.next /\ ~(Len(h.next[c]) < level)
      BY <1>3, <1>4
  <2> QED BY <2>1, <1>2 DEF IsFirstAfter, Null
<1>6. large \in SUBSET Nat
    BY <1>3 DEF LargeAfter
<1>7. CASE s = Null
  <2>1. large = {}
      BY <1>5, <1>7 DEF LargeAfter
  <2> QED BY <2>1, <1>7 DEF FirstLarge, s
<1>8. CASE s # Null /\ SizeIn(h, s) >= size
  <2>1. s \in large /\ \A c \in large : s <= c
      BY <1>2, <1>5, <1>8 DEF LargeAfter
  <2>2. Min(large) = s
      BY <2>1, <1>6, MinOfIs
  <2>3. FirstLarge(h, level, size, b) = s
      BY <2>1, <2>2 DEF FirstLarge
  <2> QED BY <2>3, <1>8 DEF s
<1>9. CASE s # Null /\ ~(SizeIn(h, s) >= size)
  <2>1. large = LargeAfter(h, level, size, s)
    <3>1. ASSUME NEW c \in WithLevel(h, level), SizeIn(h, c) >= size
          PROVE  c > b <=> c > s
      <4>1. c # s /\ c \in Nat
          BY <1>3, <1>9, <3>1
      <4> QED BY <4>1, <1>2, <1>5, <1>9
    <3> QED BY <3>1 DEF LargeAfter
  <2>2. FirstLarge(h, level, size, b) = FirstLarge(h, level, size, s)
      BY <2>1 DEF FirstLarge
  <2> QED BY <2>2, <1>9 DEF s
<1> QED BY <1>7, <1>8, <1>9

LEMMA FirstFittingIsLarge ==
    ASSUME NEW h, IsHeap(h), NEW size \in Nat, size >= MinSize
    PROVE  FirstFitting(h, size) = FirstLarge(h, LevelFor(size), size, FreeList)
<1> DEFINE level == LevelFor(size)
           W == WithLevel(h, level)
           Large(b) == FirstLarge(h, level, size, b)
           Stops(b) == h.next[b][level] = Null \/ h.header[h.next[b][level]].size >= size
<1>1. level \in Levels /\ level \in Nat
    BY LevelForIs
<1> HIDE DEF level
<1>2. IsSkipList(h.next)
    BY DEF IsHeap, FreelistOK
<1>3. ASSUME NEW b \in W
      PROVE  Large(b) = IF Stops(b) THEN h.next[b][level] ELSE Large(h.next[b][level])
    BY <1>1, FirstLargeStep DEF SizeIn
<1>4. \A b \in W : b \in Nat /\ h.next[b][level] \in Nat
                   /\ (h.next[b][level] # Null => h.next[b][level] \in W /\ h.next[b][level] > b)
    BY <1>1, <1>2, NextOnLevel
<1>5. FirstFitting(h, size) = (CHOOSE fitting : FitsFrom(h, level, size, fitting))[FreeList]
    BY DEF FirstFitting, FitsFrom, level
<1> HIDE DEF Large, W
<1>6. \E fitting : FitsFrom(h, level, size, fitting)
  <2> DEFINE fitting == [b \in W |-> Large(b)]
  <2>1. \A b \in W : Large(b) = IF Stops(b) THEN h.next[b][level] ELSE fitting[h.next[b][level]]
      BY <1>3, <1>4
  <2>2. fitting = [b \in W |-> IF Stops(b) THEN h.next[b][level] ELSE fitting[h.next[b][level]]]
      BY <2>1
  <2> HIDE DEF fitting
  <2>3. FitsFrom(h, level, size, fitting)
      BY <2>2 DEF FitsFrom, W
  <2> QED BY <2>3
<1> DEFINE fitting == CHOOSE fitting : FitsFrom(h, level, size, fitting)
<1>7. FitsFrom(h, level, size, fitting)
    BY <1>6
<1> HIDE DEF fitting
<1>8. \A b \in W : fitting[b] = IF Stops(b) THEN h.next[b][level] ELSE fitting[h.next[b][level]]
    BY <1>7 DEF FitsFrom, W
<1> DEFINE Bad == {b \in W : fitting[b] # Large(b)}
<1>9. Bad = {}
  <2> SUFFICES ASSUME Bad # {}
               PROVE  FALSE
      OBVIOUS
  <2>1. Bad \in SUBSET Nat
      BY <1>4
  <2>2. \A b \in Bad : b <= MemoryEnd + 1
    <3>1. \A b \in Bad : b \in DOMAIN h.header
        BY DEF IsHeap, FreelistOK, W, WithLevel
    <3>2. \A b \in Bad : b = 1 \/ (b \in Nat /\ SizeIn(h, b) \in Nat /\ b + SizeIn(h, b) <= MemoryEnd)
        BY <3>1, BlockType DEF IsHeap, FreeList
    <3> QED BY <3>2, ArenaAssumption
  <2>3. MemoryEnd + 1 \in Nat
      BY ArenaAssumption
  <2>4. PICK b \in Bad : \A c \in Bad : c <= b
      BY <2>1, <2>2, <2>3, GreatestNat
  <2>5. b \in W /\ b \in Nat
      BY <1>4
  <2>6. CASE Stops(b)
      BY <2>4, <2>5, <2>6, <1>3, <1>8
  <2>7. CASE ~Stops(b)
    <3> DEFINE s == h.next[b][level]
    <3>1. s \in W /\ s > b /\ s \in Nat
        BY <2>5, <2>7, <1>4
    <3>2. s \notin Bad
        BY <2>4, <2>5, <3>1
    <3>3. fitting[s] = Large(s)
        BY <3>1, <3>2
    <3> QED BY <2>4, <2>5, <2>7, <3>3, <1>3, <1>8
  <2> QED BY <2>6, <2>7
<1>10. FreeList \in W
    BY <1>1, <1>2, Constants DEF IsSkipList, W, WithLevel, Levels
<1>11. fitting[FreeList] = Large(FreeList)
    BY <1>9, <1>10
<1> QED BY <1>5, <1>11 DEF fitting, Large, level

LEMMA FirstFittingIs ==
    ASSUME NEW h, IsHeap(h), NEW size \in Nat, size >= MinSize
    PROVE  IF \E s \in FreeBlocks(h) : SizeIn(h, s) >= size
           THEN /\ FirstFitting(h, size) \in FreeBlocks(h)
                /\ SizeIn(h, FirstFitting(h, size)) >= size
                /\ \A c \in FreeBlocks(h) : SizeIn(h, c) >= size => FirstFitting(h, size) <= c
           ELSE FirstFitting(h, size) = Null
<1> DEFINE level == LevelFor(size)
           large == {s \in FreeBlocks(h) : SizeIn(h, s) >= size}
<1>1. level \in Levels /\ level \in Nat
    BY LevelForIs
<1>2. LargeAfter(h, level, size, FreeList) = large
  <2>1. ASSUME NEW s \in FreeBlocks(h), SizeIn(h, s) >= size
        PROVE  s \in WithLevel(h, level) /\ s > FreeList
    <3>1. /\ s \in DOMAIN h.next /\ s > 2 /\ s \in Nat
          /\ SizeIn(h, s) \in Nat /\ SizeIn(h, s) >= MinSize
          /\ LevelFor(SizeIn(h, s)) <= Len(h.next[s]) /\ Len(h.next[s]) \in Nat
        BY FreeBlockType
    <3>2. LevelFor(size) <= LevelFor(SizeIn(h, s))
        BY <2>1, <3>1, SkiplistLevelsIs
    <3>3. LevelFor(SizeIn(h, s)) \in Nat
        BY <3>1, LevelForIs
    <3>4. level <= Len(h.next[s])
        BY <3>1, <3>2, <3>3, <1>1
    <3> QED BY <3>1, <3>4 DEF WithLevel, FreeList
  <2>2. \A s \in WithLevel(h, level) : s > FreeList => s \in FreeBlocks(h)
      BY DEF WithLevel, FreeBlocks, FreeList
  <2> QED BY <2>1, <2>2 DEF LargeAfter
<1>3. FirstFitting(h, size) = IF large = {} THEN Null ELSE Min(large)
    BY <1>2, FirstFittingIsLarge DEF FirstLarge
<1>4. large \in SUBSET Nat
    BY FreeBlockType
<1>5. CASE large = {}
    BY <1>3, <1>5
<1>6. CASE large # {}
  <2>1. Min(large) \in large /\ \A c \in large : Min(large) <= c
      BY <1>4, <1>6, MinIs
  <2> QED BY <2>1, <1>3, <1>6
<1> QED BY <1>5, <1>6

-----------------------------------------------------------------------------
(***************************************************************************)
(* DoAllocWithArena takes a free block, or its first part.  The rest of    *)
(* the block stays free, and nothing else changes.                         *)
(***************************************************************************)
IsTaken(h, s, size, g) ==
    /\ IsHeap(g) /\ NoNeighbours(g)
    /\ AllocatedIn(g) = AllocatedIn(h) \union {s}
    /\ \A b \in AllocatedIn(h) : g.header[b] = h.header[b]
    /\ SizeIn(g, s) = IF CanBeBlock(SizeIn(h, s) - size) THEN size ELSE SizeIn(h, s)
    /\ \A x \in Nat : Covers(g, x) <=> Covers(h, x)

(* What is covered with a block written over. *)
LEMMA CoversWithHeader ==
    ASSUME NEW h, NEW b, NEW size, NEW g, WithHeader(h, b, size, g), NEW x
    PROVE  Covers(g, x) <=> \/ \E c \in DOMAIN h.header \ {b} : c <= x /\ x < c + SizeIn(h, c)
                            \/ b <= x /\ x < b + size
<1>1. DOMAIN g.header = (DOMAIN h.header \ {b}) \union {b} /\ SizeIn(g, b) = size
    BY DEF WithHeader
<1>2. \A c \in DOMAIN h.header \ {b} : SizeIn(g, c) = SizeIn(h, c)
    BY DEF WithHeader, SizeIn
<1> QED BY <1>1, <1>2, Zenon DEF Covers

(* A free block is not an allocated one. *)
LEMMA FreeIsNotAllocated ==
    ASSUME NEW h, IsHeap(h), NEW s \in FreeBlocks(h)
    PROVE  s \notin AllocatedIn(h) /\ s \in DOMAIN h.header
    BY FreeBlockType DEF AllocatedIn

(* The whole block is taken. *)
LEMMA WholeBlockTaken ==
    ASSUME NEW h, IsHeap(h), NoNeighbours(h), NEW s \in FreeBlocks(h), NEW size,
           ~CanBeBlock(SizeIn(h, s) - size)
    PROVE  IsTaken(h, s, size, WithBlock(SkiplistDelete(h, s), s, SizeIn(h, s)))
<1> DEFINE g == WithBlock(SkiplistDelete(h, s), s, SizeIn(h, s))
<1>1. SizeIn(h, s) \in Nat /\ SizeIn(h, s) >= MinSize /\ SizeIn(h, s) <= SizeIn(h, s)
    BY FreeBlockType
<1>2. WithHeader(h, s, SizeIn(h, s), g)
    BY <1>1, TakeStep
<1> HIDE DEF g
<1>3. s \notin AllocatedIn(h) /\ s \in DOMAIN h.header
    BY FreeIsNotAllocated
<1>4. \A b \in AllocatedIn(h) : g.header[b] = h.header[b]
  <2>1. AllocatedIn(h) \subseteq DOMAIN h.header \ {s}
      BY <1>3 DEF AllocatedIn
  <2> QED BY <2>1, <1>2 DEF WithHeader
<1>5. ASSUME NEW x \in Nat
      PROVE  Covers(g, x) <=> Covers(h, x)
  <2>1. Covers(g, x) <=> \/ \E c \in DOMAIN h.header \ {s} : c <= x /\ x < c + SizeIn(h, c)
                         \/ s <= x /\ x < s + SizeIn(h, s)
      BY <1>2, CoversWithHeader
  <2> QED BY <2>1, <1>3, Zenon DEF Covers
<1>6. IsTaken(h, s, size, g)
    BY <1>2, <1>4, <1>5 DEF IsTaken, WithHeader
<1> QED BY <1>6 DEF g

(* The block is split, and its rest is put into the list. *)
LEMMA PartOfBlockTaken ==
    ASSUME NEW h, IsHeap(h), NoNeighbours(h), NEW s \in FreeBlocks(h), NEW size \in Nat,
           size >= MinSize, CanBeBlock(SizeIn(h, s) - size), NEW random \in Nat \ {0}
    PROVE  LET part == WithBlock(SkiplistDelete(h, s), s, size)
               rest == WithBlock(part, s + size, SizeIn(h, s) - size)
           IN  IsTaken(h, s, size, AddToFreelist(rest, s + size, random))
<1> DEFINE rest == SizeIn(h, s) - size
           g1 == WithBlock(SkiplistDelete(h, s), s, size)
           g2 == WithBlock(g1, s + size, rest)
           g3 == AddToFreelist(g2, s + size, random)
<1>1. /\ s \in Nat /\ s \in DOMAIN h.header /\ s # FreeList /\ SizeIn(h, s) \in Nat
      /\ MinSize \in Nat /\ MinSize > 0
    BY FreeBlockType, Constants
<1>2. /\ rest \in Nat /\ rest >= MinSize /\ size <= SizeIn(h, s) /\ SizeIn(h, s) = size + rest
      /\ s + size \in Nat /\ s + size # s
    BY <1>1 DEF CanBeBlock
<1>3. s >= MemoryStart /\ s + SizeIn(h, s) <= MemoryEnd
    BY <1>1 DEF IsHeap, HeadersOK
<1>4. WithHeader(h, s, size, g1)
    BY <1>2, TakeStep
<1>5. \A c \in DOMAIN h.header : /\ c \in Nat /\ SizeIn(h, c) \in Nat
                                 /\ c < s => c + SizeIn(h, c) <= s
                                 /\ s < c => s + SizeIn(h, s) <= c
    BY <1>1, BlockType DEF IsHeap, HeadersOK
<1>6. \A c \in DOMAIN h.header \ {s} : c < s \/ s + size + rest <= c
  <2>1. s + SizeIn(h, s) = s + size + rest
      BY <1>1, <1>2
  <2> HIDE DEF rest
  <2> TAKE c \in DOMAIN h.header \ {s}
  <2>2. c \in Nat /\ s \in Nat /\ c # s /\ (s < c => s + SizeIn(h, s) <= c)
      BY <1>1, <1>5
  <2>3. c < s \/ s < c
      BY <2>2
  <2> QED BY <2>1, <2>2, <2>3
<1> HIDE DEF g1
<1>7. /\ DOMAIN g1.header = DOMAIN h.header /\ SizeIn(g1, s) = size
      /\ \A c \in DOMAIN h.header \ {s} : SizeIn(g1, c) = SizeIn(h, c)
      /\ IsHeap(g1) /\ NoNeighbours(g1)
    BY <1>1, <1>4 DEF WithHeader, SizeIn
<1>8. s + size \notin DOMAIN h.header
    BY <1>1, <1>2, <1>6
<1>9. WithHeader(g1, s + size, rest, g2)
  <2> HIDE DEF rest
  <2>1. ASSUME NEW c \in DOMAIN g1.header
        PROVE  /\ c < s + size => c + SizeIn(g1, c) <= s + size
               /\ s + size < c => s + size + rest <= c
    <3>1. CASE c = s
        BY <3>1, <1>1, <1>2, <1>7
    <3>2. CASE c # s
      <4>1. c \in DOMAIN h.header \ {s} /\ SizeIn(g1, c) = SizeIn(h, c)
          BY <3>2, <1>7
      <4>2. /\ c \in Nat /\ SizeIn(h, c) \in Nat /\ (c < s => c + SizeIn(h, c) <= s)
            /\ (c < s \/ s + size + rest <= c)
          BY <4>1, <1>5, <1>6
      <4>3. rest \in Nat /\ MinSize \in Nat /\ rest > 0 /\ s \in Nat
          BY <1>1, <1>2
      <4> QED BY <4>1, <4>2, <4>3
    <3> QED BY <3>1, <3>2
  <2>2. /\ s + size \in Nat /\ s + size \notin DOMAIN g1.header
        /\ s + size >= MemoryStart /\ s + size + rest <= MemoryEnd
    <3>1. MemoryStart \in Nat /\ MemoryEnd \in Nat
        BY ArenaAssumption
    <3> QED BY <3>1, <1>1, <1>2, <1>3, <1>7, <1>8
  <2>3. IsHeap(g1) /\ NoNeighbours(g1) /\ rest \in Nat /\ rest >= MinSize
      BY <1>2, <1>7
  <2> QED BY <2>1, <2>2, <2>3, NewBlockStep
<1> HIDE DEF g2
<1>10. IsHeap(g2) /\ NoNeighbours(g2) /\ s + size \in AllocatedIn(g2)
    BY <1>9 DEF WithHeader
<1>11. IsFreed(g2, s + size, g3)
    BY <1>10, AddToFreelistStep
<1> HIDE DEF g3, rest
<1>12. s \notin AllocatedIn(h) /\ s + size \notin AllocatedIn(h)
    BY <1>8, FreeIsNotAllocated DEF AllocatedIn
<1>13. AllocatedIn(g3) = AllocatedIn(h) \union {s}
  <2>1. AllocatedIn(g3) = AllocatedIn(g2) \ {s + size}
      BY <1>11 DEF IsFreed
  <2>2. AllocatedIn(g2) = AllocatedIn(g1) \union {s + size}
      BY <1>9 DEF WithHeader
  <2>3. AllocatedIn(g1) = AllocatedIn(h) \union {s}
      BY <1>4 DEF WithHeader
  <2> QED BY <2>1, <2>2, <2>3, <1>12, <1>2
<1>14. ASSUME NEW b \in AllocatedIn(h) \union {s}
       PROVE  b \in DOMAIN h.header /\ g3.header[b] = g1.header[b]
  <2>1. b \in DOMAIN h.header /\ b # s + size
      BY <1>1, <1>2, <1>12 DEF AllocatedIn
  <2>2. g2.header[b] = g1.header[b]
      BY <2>1, <1>7, <1>9 DEF WithHeader
  <2>3. g3.header[b] = g2.header[b]
      BY <1>11, <1>13 DEF IsFreed
  <2> QED BY <2>1, <2>2, <2>3
<1>15. \A b \in AllocatedIn(h) : g3.header[b] = h.header[b]
  <2> SUFFICES ASSUME NEW b \in AllocatedIn(h)
               PROVE  g3.header[b] = h.header[b]
      OBVIOUS
  <2>1. b \in DOMAIN h.header \ {s} /\ g3.header[b] = g1.header[b]
      BY <1>14, <1>12
  <2> QED BY <2>1, <1>4 DEF WithHeader
<1>16. SizeIn(g3, s) = size
    BY <1>14, <1>7 DEF SizeIn
<1>17. ASSUME NEW x \in Nat
       PROVE  Covers(g3, x) <=> Covers(h, x)
  <2> DEFINE Other == \E c \in DOMAIN h.header \ {s} : c <= x /\ x < c + SizeIn(h, c)
  <2>1. Covers(h, x) <=> Other \/ (s <= x /\ x < s + SizeIn(h, s))
      BY <1>1, Zenon DEF Covers
  <2>2. Covers(g1, x) <=> Other \/ (s <= x /\ x < s + size)
      BY <1>4, CoversWithHeader
  <2>3. Covers(g2, x) <=> Covers(g1, x) \/ (s + size <= x /\ x < s + size + rest)
    <3>1. Covers(g2, x) <=>
              \/ \E c \in DOMAIN g1.header \ {s + size} : c <= x /\ x < c + SizeIn(g1, c)
              \/ s + size <= x /\ x < s + size + rest
        BY <1>9, CoversWithHeader
    <3>2. DOMAIN g1.header \ {s + size} = DOMAIN g1.header
        BY <1>7, <1>8
    <3> QED BY <3>1, <3>2 DEF Covers
  <2>4. Covers(g3, x) <=> Covers(g2, x)
      BY <1>11 DEF IsFreed
  <2>5. (s <= x /\ x < s + SizeIn(h, s)) <=>
            (s <= x /\ x < s + size) \/ (s + size <= x /\ x < s + size + rest)
    <3>1. x \in Nat /\ s \in Nat /\ size \in Nat /\ rest \in Nat /\ SizeIn(h, s) = size + rest
        BY <1>1, <1>2
    <3> QED BY <3>1
  <2> QED BY <2>1, <2>2, <2>3, <2>4, <2>5
<1>18. IsTaken(h, s, size, g3)
  <2>1. CanBeBlock(SizeIn(h, s) - size)
      OBVIOUS
  <2>2. IsHeap(g3) /\ NoNeighbours(g3)
      BY <1>11 DEF IsFreed
  <2> QED BY <2>1, <2>2, <1>13, <1>15, <1>16, <1>17 DEF IsTaken
<1> QED BY <1>18 DEF g3, g2, g1, rest

LEMMA TakeBlockStep ==
    ASSUME NEW h, IsHeap(h), NoNeighbours(h), NEW s \in FreeBlocks(h), NEW size \in Nat,
           size >= MinSize, NEW random \in Nat \ {0}
    PROVE  IsTaken(h, s, size, TakeBlock(h, s, size, random))
<1>1. CASE CanBeBlock(SizeIn(h, s) - size)
  <2>1. IsTaken(h, s, size,
            AddToFreelist(WithBlock(WithBlock(SkiplistDelete(h, s), s, size), s + size, SizeIn(h, s) - size),
                          s + size, random))
      BY <1>1, PartOfBlockTaken
  <2> QED BY <2>1, <1>1 DEF TakeBlock, SizeIn
<1>2. CASE ~CanBeBlock(SizeIn(h, s) - size)
    BY <1>2, WholeBlockTaken DEF TakeBlock, SizeIn
<1> QED BY <1>1, <1>2

-----------------------------------------------------------------------------
(***************************************************************************)
(* Multiples: what RoundUp returns, and how pages lie.                     *)
(***************************************************************************)
LEMMA TimesIsMultiple ==
    ASSUME NEW n \in Nat \ {0}, NEW k \in Nat
    PROVE  k * n \in Nat /\ (k * n) % n = 0
<1> DEFINE x == k * n
           q == x \div n
           r == x % n
<1>1. x \in Nat
    OBVIOUS
<1> HIDE DEF x
<1>2. q \in Nat /\ r \in Nat /\ r < n /\ x = q * n + r
    BY <1>1, Split
<1> HIDE DEF q, r
<1>3. ~(q < k)
  <2> SUFFICES ASSUME q < k PROVE FALSE
      OBVIOUS
  <2>1. q * n + n <= k * n
      BY <1>2, TimesMonotone
  <2>2. q * n \in Nat /\ x = k * n
      BY <1>2 DEF x
  <2> QED BY <2>1, <2>2, <1>1, <1>2
<1>4. ~(k < q)
  <2> SUFFICES ASSUME k < q PROVE FALSE
      OBVIOUS
  <2>1. k * n + n <= q * n
      BY <1>2, TimesMonotone
  <2>2. q * n \in Nat /\ x = k * n
      BY <1>2 DEF x
  <2> QED BY <2>1, <2>2, <1>1, <1>2
<1>5. q = k
    BY <1>2, <1>3, <1>4
<1>6. x = k * n
    BY DEF x
<1>7. r = 0
    BY <1>1, <1>2, <1>5, <1>6
<1> QED BY <1>1, <1>7 DEF r, x

LEMMA MultipleIsTimes ==
    ASSUME NEW n \in Nat \ {0}, NEW x \in Nat, x % n = 0
    PROVE  \E k \in Nat : x = k * n
<1>1. x \div n \in Nat /\ x = (x \div n) * n + (x % n)
    BY Split
<1>2. (x \div n) * n \in Nat
    BY <1>1
<1> DEFINE k == x \div n
<1>3. k \in Nat /\ x = k * n
    BY <1>1, <1>2
<1> HIDE DEF k
<1> QED BY <1>3

LEMMA MultiplesApart ==
    ASSUME NEW n \in Nat \ {0}, NEW x \in Nat, NEW y \in Nat, x % n = 0, y % n = 0, x < y
    PROVE  x + n <= y
<1>1. PICK k \in Nat : x = k * n
    BY MultipleIsTimes
<1>2. PICK j \in Nat : y = j * n
    BY MultipleIsTimes
<1>3. ~(j <= k)
  <2> SUFFICES ASSUME j <= k PROVE FALSE
      OBVIOUS
  <2>1. CASE j = k
      BY <2>1, <1>1, <1>2
  <2>2. CASE j < k
    <3>1. j * n + n <= k * n
        BY <2>2, TimesMonotone
    <3> QED BY <3>1, <1>1, <1>2
  <2> QED BY <2>1, <2>2
<1>4. k * n + n <= j * n
    BY <1>3, TimesMonotone
<1> QED BY <1>4, <1>1, <1>2

LEMMA DifferenceOfMultiples ==
    ASSUME NEW n \in Nat \ {0}, NEW x \in Nat, NEW y \in Nat, x % n = 0, y % n = 0, x <= y
    PROVE  (y - x) % n = 0
<1>1. PICK k \in Nat : x = k * n
    BY MultipleIsTimes
<1>2. PICK j \in Nat : y = j * n
    BY MultipleIsTimes
<1>3. k <= j
  <2> SUFFICES ASSUME j < k PROVE FALSE
      OBVIOUS
  <2>1. j * n + n <= k * n
      BY TimesMonotone
  <2> QED BY <2>1, <1>1, <1>2
<1>4. j - k \in Nat
    BY <1>3
<1>5. ((j - k) * n) % n = 0
    BY <1>4, TimesIsMultiple
<1>6. y - x = (j - k) * n
    BY <1>1, <1>2
<1> QED BY <1>5, <1>6

(* The page that an address is in. *)
LEMMA PageOf ==
    ASSUME NEW n \in Nat \ {0}, NEW x \in Nat
    PROVE  \E p \in Nat : p % n = 0 /\ p <= x /\ x < p + n
<1> DEFINE k == x \div n
<1>1. k \in Nat /\ x = k * n + (x % n) /\ x % n \in Nat /\ x % n < n
    BY Split
<1> HIDE DEF k
<1>2. k * n \in Nat /\ (k * n) % n = 0
    BY <1>1, TimesIsMultiple
<1>3. k * n <= x /\ x < k * n + n
    BY <1>1, <1>2
<1> QED BY <1>2, <1>3

LEMMA RoundUpIs ==
    ASSUME NEW n \in Nat, NEW align \in Nat \ {0}
    PROVE  /\ RoundUp(n, align) \in Nat /\ RoundUp(n, align) % align = 0
           /\ n <= RoundUp(n, align)
<1> DEFINE m == n + align - 1
           k == m \div align
<1>1. m \in Nat
    OBVIOUS
<1>2. k \in Nat /\ m = k * align + (m % align) /\ m % align \in Nat /\ m % align < align
    BY <1>1, Split
<1>3. RoundUp(n, align) = k * align
    BY DEF RoundUp
<1>4. m = n + align - 1
    OBVIOUS
<1> HIDE DEF m, k
<1>5. k * align \in Nat /\ (k * align) % align = 0
    BY <1>2, TimesIsMultiple
<1>6. \A q \in Nat, r \in Nat : n + align - 1 = q + r /\ r < align => n <= q
    OBVIOUS
<1>7. n <= k * align
    BY <1>2, <1>4, <1>5, <1>6
<1> QED BY <1>3, <1>5, <1>7

(* The size of a block for a request is at least the smallest size of a block. *)
LEMMA SizeOfIs ==
    ASSUME NEW request \in Request \union {ArenaSize}
    PROVE  SizeOf(request) \in Nat /\ SizeOf(request) >= MinSize
<1>1. request \in Nat /\ request + HeaderSize > Roundup /\ Roundup \in Nat \ {0} /\ HeaderSize \in Nat
    BY ArenaAssumption
<1>2. request + HeaderSize \in Nat
    BY <1>1
<1>3. /\ SizeOf(request) \in Nat /\ SizeOf(request) % Roundup = 0
      /\ request + HeaderSize <= SizeOf(request)
    BY <1>1, <1>2, RoundUpIs DEF SizeOf
<1>4. Roundup % Roundup = 0
  <2>1. (1 * Roundup) % Roundup = 0
      BY <1>1, TimesIsMultiple
  <2> QED BY <2>1, <1>1
<1>5. Roundup < SizeOf(request)
    BY <1>1, <1>3
<1>6. Roundup + Roundup <= SizeOf(request)
    BY <1>1, <1>3, <1>4, <1>5, MultiplesApart
<1> QED BY <1>1, <1>3, <1>6 DEF MinSize

(* A region has room for the block it is mapped for, and consists of pages. *)
LEMMA RegionIs ==
    ASSUME NEW size \in Nat
    PROVE  LET region == RoundUp(size, RegionSize)
           IN  region \in Nat /\ size <= region /\ region % PageSize = 0
<1> DEFINE region == RoundUp(size, RegionSize)
<1>1. PagesPerRegion \in Nat \ {0} /\ PageSize \in Nat \ {0}
    BY Constants
<1>2. RegionSize \in Nat \ {0}
    BY <1>1 DEF RegionSize
<1>3. region \in Nat /\ size <= region /\ region % RegionSize = 0
    BY <1>2, RoundUpIs
<1> HIDE DEF region
<1>4. PICK k \in Nat : region = k * RegionSize
    BY <1>2, <1>3, MultipleIsTimes
<1>5. region = (k * PagesPerRegion) * PageSize
    BY <1>1, <1>4 DEF RegionSize
<1>6. k * PagesPerRegion \in Nat
    BY <1>1
<1>7. region % PageSize = 0
    BY <1>1, <1>5, <1>6, TimesIsMultiple
<1> QED BY <1>3, <1>7 DEF region

-----------------------------------------------------------------------------
(***************************************************************************)
(* A block that was freed is in a free block, which may reach further.     *)
(***************************************************************************)
LEMMA CoveredByAllocated ==
    ASSUME NEW h, IsHeap(h), NEW f \in AllocatedIn(h), NEW g, IsFreed(h, f, g),
           NEW x \in Nat, f <= x, x < f + SizeIn(h, f)
    PROVE  \E c \in FreeBlocks(g) : c <= x /\ x < c + SizeIn(g, c)
<1>1. HeadersOK(h) /\ IsHeap(g) /\ HeadersOK(g) /\ f \in DOMAIN h.header
    BY DEF IsFreed, IsHeap, AllocatedIn
<1>2. Covers(h, x)
    BY <1>1 DEF Covers
<1>3. PICK c \in DOMAIN g.header : c <= x /\ x < c + SizeIn(g, c)
    BY <1>2 DEF IsFreed, Covers
<1>4. c # FreeList
  <2>1. c \in Nat /\ (c = FreeList => SizeIn(g, c) = 0)
      BY <1>1, BlockType
  <2>2. SizeIn(g, c) = 0 => ~(c <= x /\ x < c + SizeIn(g, c))
      BY <2>1
  <2> QED BY <2>1, <2>2, <1>3
<1>5. ~g.header[c].allocated
  <2> SUFFICES ASSUME g.header[c].allocated PROVE FALSE
      OBVIOUS
  <2>1. c \in AllocatedIn(g)
      BY DEF AllocatedIn
  <2>2. c \in AllocatedIn(h) \ {f} /\ g.header[c] = h.header[c]
      BY <2>1 DEF IsFreed
  <2>3. c \in DOMAIN h.header /\ c # f /\ SizeIn(g, c) = SizeIn(h, c)
      BY <2>2 DEF AllocatedIn, SizeIn
  <2>4. c < f => c + SizeIn(h, c) <= f
      BY <1>1, <2>3 DEF HeadersOK
  <2>5. f < c => f + SizeIn(h, f) <= c
      BY <1>1, <2>3 DEF HeadersOK
  <2>6. c \in Nat /\ f \in Nat /\ SizeIn(h, c) \in Nat /\ SizeIn(h, f) \in Nat
      BY <1>1, <2>3, BlockType
  <2> QED BY <1>3, <2>3, <2>4, <2>5, <2>6
<1>6. c \in FreeBlocks(g)
    BY <1>1, <1>4, <1>5, FreeBlocksAre
<1> QED BY <1>3, <1>6

LEMMA FreedIsInFreeBlock ==
    ASSUME NEW h, IsHeap(h), NEW f \in AllocatedIn(h), NEW g, IsFreed(h, f, g)
    PROVE  \E c \in FreeBlocks(g) : SizeIn(g, c) >= SizeIn(h, f)
<1>1. HeadersOK(h) /\ IsHeap(g) /\ HeadersOK(g) /\ NoNeighbours(g) /\ f \in DOMAIN h.header /\ f # FreeList
    BY DEF IsFreed, IsHeap, AllocatedIn, HeadersOK
<1>2. f \in Nat /\ SizeIn(h, f) \in Nat /\ SizeIn(h, f) > 0
    BY <1>1, BlockType
<1>3. PICK c \in FreeBlocks(g) : c <= f /\ f < c + SizeIn(g, c)
    BY <1>2, CoveredByAllocated
<1>4. c \in Nat /\ SizeIn(g, c) \in Nat /\ c \in DOMAIN g.header
    BY <1>1, FreeBlockType
<1> DEFINE end == c + SizeIn(g, c)
<1>5. ~(end < f + SizeIn(h, f))
  <2> SUFFICES ASSUME end < f + SizeIn(h, f) PROVE FALSE
      OBVIOUS
  <2>1. end \in Nat /\ f <= end
      BY <1>2, <1>3, <1>4
  <2>2. PICK d \in FreeBlocks(g) : d <= end /\ end < d + SizeIn(g, d)
      BY <2>1, CoveredByAllocated
  <2>3. d \in Nat /\ SizeIn(g, d) \in Nat /\ d \in DOMAIN g.header
      BY <1>1, FreeBlockType
  <2>4. d # end
      BY <1>1 DEF NoNeighbours
  <2>5. d < c => d + SizeIn(g, d) <= c
      BY <1>1, <1>4, <2>3 DEF HeadersOK
  <2>6. c < d => end <= d
      BY <1>1, <1>4, <2>3 DEF HeadersOK
  <2>7. d # c
    <3> SUFFICES ASSUME d = c PROVE FALSE
        OBVIOUS
    <3>1. d + SizeIn(g, d) = end
        OBVIOUS
    <3> QED BY <3>1, <2>1, <2>2
  <2> HIDE DEF end
  <2>8. end >= c
      BY <1>4 DEF end
  <2> QED BY <1>4, <2>1, <2>2, <2>3, <2>4, <2>5, <2>6, <2>7, <2>8
<1>6. SizeIn(g, c) >= SizeIn(h, f)
    BY <1>2, <1>3, <1>4, <1>5
<1> QED BY <1>6

-----------------------------------------------------------------------------
(***************************************************************************)
(* What every state of the arenas has: the blocks of an arena are well     *)
(* formed and their allocations counted, arenas share no memory, every     *)
(* page mapped belongs to one arena, and every arena but the static one    *)
(* lies in a block in use.                                                 *)
(***************************************************************************)
InPage(x, p) == p <= x /\ x < p + PageSize

IsArena(h, count) ==
    /\ IsHeap(h) /\ NoNeighbours(h)
    /\ IsFiniteSet(AllocatedIn(h)) /\ count = Cardinality(AllocatedIn(h))

ArenasOK ==
    /\ UnhookedArena \in DOMAIN heap
    /\ DOMAIN allocation_count = DOMAIN heap
    /\ allocation_count = [arena \in DOMAIN allocation_count |-> allocation_count[arena]]
    /\ \A arena \in DOMAIN heap : IsArena(heap[arena], allocation_count[arena])
    /\ AllocatedIn(heap[UnhookedArena]) = DOMAIN heap \ {UnhookedArena}

MemoryOK ==
    /\ mapped \subseteq Pages(MemoryStart, MemoryEnd - MemoryStart)
    /\ \A a, c \in DOMAIN heap : \A x \in Nat : Covers(heap[a], x) /\ Covers(heap[c], x) => a = c
    /\ \A p \in mapped : \E a \in DOMAIN heap : \A x \in Nat : InPage(x, p) => Covers(heap[a], x)
    /\ \A a \in DOMAIN heap : \A x \in Nat : Covers(heap[a], x) => \E p \in mapped : InPage(x, p)

RequestedOK == DOMAIN requested = UNION {AllocatedIn(heap[arena]) : arena \in DOMAIN heap}

AllocatorOK ==
    /\ DOMAIN heap \subseteq {UnhookedArena, g_arena}
    /\ g_arena \in {Null} \union (MemoryStart..MemoryEnd)
    /\ g_is_initalized_for_unit_test \in BOOLEAN

ArenaInvariant == ArenasOK /\ MemoryOK /\ RequestedOK /\ AllocatorOK

LEMMA SamePage ==
    ASSUME NEW x \in Nat, NEW p \in Nat, NEW q \in Nat, p % PageSize = 0, q % PageSize = 0,
           InPage(x, p), InPage(x, q)
    PROVE  p = q
<1>1. PageSize \in Nat \ {0}
    BY Constants
<1>2. p < q => p + PageSize <= q
    BY <1>1, MultiplesApart
<1>3. q < p => q + PageSize <= p
    BY <1>1, MultiplesApart
<1> QED BY <1>1, <1>2, <1>3 DEF InPage

LEMMA PagesIs ==
    ASSUME NEW start \in Nat, NEW size \in Nat, NEW p
    PROVE  p \in Pages(start, size) <=>
               p \in Nat /\ start <= p /\ p < start + size /\ p % PageSize = 0
    BY DEF Pages

LEMMA MemoryPagesIs ==
    ASSUME NEW p
    PROVE  p \in Pages(MemoryStart, MemoryEnd - MemoryStart) <=>
               p \in Nat /\ MemoryStart <= p /\ p < MemoryEnd /\ p % PageSize = 0
    BY ArenaAssumption DEF Pages

(* The bytes of a region are those of its pages. *)
LEMMA RegionBytes ==
    ASSUME NEW start \in Nat, NEW size \in Nat, start % PageSize = 0, size % PageSize = 0, NEW x \in Nat
    PROVE  start <= x /\ x < start + size <=> \E p \in Pages(start, size) : InPage(x, p)
<1>1. PageSize \in Nat \ {0}
    BY Constants
<1>2. ASSUME start <= x, x < start + size
      PROVE  \E p \in Pages(start, size) : InPage(x, p)
  <2>1. PICK p \in Nat : p % PageSize = 0 /\ p <= x /\ x < p + PageSize
      BY <1>1, PageOf
  <2>2. p < start => p + PageSize <= start
      BY <1>1, <2>1, MultiplesApart
  <2>3. start <= p /\ p < start + size
      BY <1>1, <1>2, <2>1, <2>2
  <2> QED BY <2>1, <2>3, PagesIs DEF InPage
<1>3. ASSUME NEW p \in Pages(start, size), InPage(x, p)
      PROVE  start <= x /\ x < start + size
  <2>1. p \in Nat /\ start <= p /\ p < start + size /\ p % PageSize = 0
      BY PagesIs
  <2>2. PICK k \in Nat : start = k * PageSize
      BY <1>1, MultipleIsTimes
  <2>3. PICK j \in Nat : size = j * PageSize
      BY <1>1, MultipleIsTimes
  <2>4. (k + j) * PageSize = start + size
      BY <1>1, <2>2, <2>3
  <2>5. k + j \in Nat
      OBVIOUS
  <2>6. (start + size) % PageSize = 0
      BY <1>1, <2>4, <2>5, TimesIsMultiple
  <2> DEFINE end == start + size
  <2>7. end \in Nat /\ end % PageSize = 0 /\ p < end
      BY <2>1, <2>6
  <2> HIDE DEF end
  <2>8. p + PageSize <= end
      BY <1>1, <2>1, <2>7, MultiplesApart
  <2>9. start <= x /\ x < end
      BY <1>1, <1>3, <2>1, <2>7, <2>8 DEF InPage
  <2> QED BY <2>9 DEF end
<1> QED BY <1>2, <1>3

(* What mmap returns is not in use. *)
LEMMA NewPagesAreNew ==
    ASSUME MemoryOK, NEW size \in Nat, size % PageSize = 0, NEW start \in NewPages(size),
           NEW x \in Nat, start <= x, x < start + size, NEW a \in DOMAIN heap
    PROVE  ~Covers(heap[a], x)
<1>1. /\ start \in Pages(MemoryStart, MemoryEnd - MemoryStart)
      /\ Pages(start, size) \intersect mapped = {}
    BY DEF NewPages
<1>2. start \in Nat /\ start % PageSize = 0
    BY <1>1, MemoryPagesIs
<1>3. PICK q \in Pages(start, size) : InPage(x, q)
    BY <1>2, RegionBytes
<1> SUFFICES ASSUME Covers(heap[a], x) PROVE FALSE
    OBVIOUS
<1>4. PICK p \in mapped : InPage(x, p)
    BY DEF MemoryOK
<1>5. p \in Nat /\ p % PageSize = 0
    BY MemoryPagesIs DEF MemoryOK
<1>6. q \in Nat /\ q % PageSize = 0
    BY <1>2, PagesIs
<1>7. p = q
    BY <1>3, <1>4, <1>5, <1>6, SamePage
<1> QED BY <1>1, <1>3, <1>7

(* The region that was mapped becomes a block of the arena. *)
LEMMA RegionStep ==
    ASSUME MemoryOK, NEW arena \in DOMAIN heap, IsHeap(heap[arena]), NoNeighbours(heap[arena]),
           NEW size \in Nat, size >= MinSize, size % PageSize = 0, NEW start \in NewPages(size)
    PROVE  /\ start \in Nat /\ start % PageSize = 0 /\ start >= MemoryStart /\ start + size <= MemoryEnd
           /\ start \notin DOMAIN heap[arena].header
           /\ WithHeader(heap[arena], start, size, WithBlock(heap[arena], start, size))
<1> DEFINE h == heap[arena]
<1>1. /\ start \in Pages(MemoryStart, MemoryEnd - MemoryStart) /\ start + size <= MemoryEnd
    BY DEF NewPages
<1>2. start \in Nat /\ start % PageSize = 0 /\ start >= MemoryStart /\ MemoryStart > 2 /\ MemoryStart \in Nat
    BY <1>1, MemoryPagesIs, ArenaAssumption
<1>3. MinSize \in Nat /\ MinSize > 0 /\ size > 0
    BY Constants
<1>4. HeadersOK(h)
    BY DEF IsHeap
<1>5. ASSUME NEW x \in Nat, start <= x, x < start + size
      PROVE  ~Covers(h, x)
    BY <1>5, NewPagesAreNew
<1> HIDE DEF h
<1>6. ASSUME NEW c \in DOMAIN h.header
      PROVE  /\ c # start
             /\ c < start => c + SizeIn(h, c) <= start
             /\ start < c => start + size <= c
  <2>1. /\ c \in Nat /\ c >= 1 /\ SizeIn(h, c) \in Nat
        /\ c # FreeList => SizeIn(h, c) > 0
        /\ c = FreeList => SizeIn(h, c) = 0
      BY <1>4, BlockType
  <2>2. c = FreeList => c = 1
      BY DEF FreeList
  <2>3. \A x \in Nat : c <= x /\ x < c + SizeIn(h, c) => Covers(h, x)
      BY DEF Covers
  <2>4. ~Covers(h, start)
      BY <1>2, <1>3, <1>5
  <2>5. start <= c /\ c < start + size => ~Covers(h, c)
      BY <1>5, <2>1
  <2>6. start < c \/ start = c => c # FreeList /\ Covers(h, c)
    <3>1. start < c \/ start = c => c # FreeList
        BY <1>2, <2>1, <2>2
    <3> QED BY <3>1, <2>1, <2>3
  <2>7. c < start => c + SizeIn(h, c) <= start
      BY <1>2, <2>1, <2>3, <2>4
  <2>8. start < c => start + size <= c
      BY <1>2, <2>1, <2>5, <2>6
  <2>9. c # start
      BY <2>4, <2>6
  <2> QED BY <2>7, <2>8, <2>9
<1>7. start \notin DOMAIN h.header
    BY <1>6
<1>8. WithHeader(h, start, size, WithBlock(h, start, size))
  <2>1. IsHeap(h) /\ NoNeighbours(h)
      BY DEF h
  <2> QED BY <2>1, <1>1, <1>2, <1>6, <1>7, NewBlockStep
<1> QED BY <1>1, <1>2, <1>7, <1>8 DEF h

(***************************************************************************)
(* What an allocation does to an arena, wherever it finds the block.       *)
(***************************************************************************)
IsAllocated(arena, taken) ==
    /\ IsHeap(taken.heap) /\ NoNeighbours(taken.heap)
    /\ taken.block \notin AllocatedIn(heap[arena])
    /\ AllocatedIn(taken.heap) = AllocatedIn(heap[arena]) \union {taken.block}
    /\ \A b \in AllocatedIn(heap[arena]) : taken.heap.header[b] = heap[arena].header[b]
    /\ taken.block \in MemoryStart..MemoryEnd
    /\ \E new \in SUBSET Pages(MemoryStart, MemoryEnd - MemoryStart) :
          /\ taken.mapped = mapped \union new /\ new \intersect mapped = {}
          /\ \A x \in Nat : Covers(taken.heap, x) <=>
                                Covers(heap[arena], x) \/ \E p \in new : InPage(x, p)

LEMMA AllocatedBlockType ==
    ASSUME NEW h, IsHeap(h), NEW b \in AllocatedIn(h)
    PROVE  /\ b \in DOMAIN h.header /\ b \in MemoryStart..MemoryEnd /\ b > 2
           /\ SizeIn(h, b) \in Nat /\ SizeIn(h, b) > 0 /\ Covers(h, b)
<1>1. HeadersOK(h) /\ b \in DOMAIN h.header /\ h.header[b].allocated
    BY DEF IsHeap, AllocatedIn
<1>2. b # FreeList
    BY <1>1 DEF HeadersOK
<1>3. /\ b \in Nat /\ SizeIn(h, b) \in Nat /\ b > 2 /\ b >= MemoryStart /\ SizeIn(h, b) > 0
      /\ b + SizeIn(h, b) <= MemoryEnd
    BY <1>1, <1>2, BlockType
<1>4. MemoryStart \in Nat /\ MemoryEnd \in Nat
    BY ArenaAssumption
<1>5. b \in MemoryStart..MemoryEnd
    BY <1>3, <1>4
<1>6. b <= b /\ b < b + SizeIn(h, b)
    BY <1>3
<1>7. Covers(h, b)
    BY <1>1, <1>6 DEF Covers
<1> QED BY <1>1, <1>3, <1>5, <1>7

LEMMA AllocFromFreeBlock ==
    ASSUME NEW arena \in DOMAIN heap, IsHeap(heap[arena]), NoNeighbours(heap[arena]),
           NEW s \in FreeBlocks(heap[arena]), NEW size \in Nat, size >= MinSize,
           NEW taken \in Taken(heap[arena], mapped, s, size)
    PROVE  IsAllocated(arena, taken)
<1> DEFINE h == heap[arena]
<1>1. PICK random \in Random :
          taken = [block |-> s, heap |-> TakeBlock(h, s, size, random), mapped |-> mapped]
    BY DEF Taken
<1>2. random \in Nat \ {0}
    BY ArenaAssumption
<1>3. taken.block = s /\ taken.heap = TakeBlock(h, s, size, random) /\ taken.mapped = mapped
    BY <1>1
<1>4. IsTaken(h, s, size, taken.heap)
    BY <1>2, <1>3, TakeBlockStep
<1>5. s \notin AllocatedIn(h)
    BY FreeIsNotAllocated
<1>6. IsHeap(taken.heap) /\ s \in AllocatedIn(taken.heap)
    BY <1>4 DEF IsTaken
<1>7. s \in MemoryStart..MemoryEnd
    BY <1>6, AllocatedBlockType
<1>8. \A x \in Nat : Covers(taken.heap, x) <=> Covers(h, x) \/ \E p \in {} : InPage(x, p)
    BY <1>4 DEF IsTaken
<1>9. taken.mapped = mapped \union {} /\ {} \intersect mapped = {}
    BY <1>3
<1>10. \E new \in SUBSET Pages(MemoryStart, MemoryEnd - MemoryStart) :
          /\ taken.mapped = mapped \union new /\ new \intersect mapped = {}
          /\ \A x \in Nat : Covers(taken.heap, x) <=>
                                Covers(h, x) \/ \E p \in new : InPage(x, p)
    BY <1>8, <1>9
<1> QED BY <1>3, <1>4, <1>5, <1>7, <1>10 DEF IsTaken, IsAllocated

(* What the new region does to an arena: it is free memory of it. *)
IsGrown(h, start, region, g) ==
    /\ IsHeap(g) /\ NoNeighbours(g)
    /\ AllocatedIn(g) = AllocatedIn(h)
    /\ \A b \in AllocatedIn(h) : g.header[b] = h.header[b]
    /\ \A x \in Nat : Covers(g, x) <=> Covers(h, x) \/ (start <= x /\ x < start + region)

LEMMA RegionIsFreed ==
    ASSUME NEW h, NEW start, NEW region, start \notin DOMAIN h.header,
           NEW with, WithHeader(h, start, region, with), NEW g, IsFreed(with, start, g)
    PROVE  IsGrown(h, start, region, g)
<1>1. AllocatedIn(g) = AllocatedIn(h)
  <2>1. start \notin AllocatedIn(h)
      BY DEF AllocatedIn
  <2>2. AllocatedIn(with) = AllocatedIn(h) \union {start}
      BY DEF WithHeader
  <2>3. AllocatedIn(g) = AllocatedIn(with) \ {start}
      BY DEF IsFreed
  <2> QED BY <2>1, <2>2, <2>3
<1>2. \A b \in AllocatedIn(h) : g.header[b] = h.header[b]
  <2> SUFFICES ASSUME NEW b \in AllocatedIn(h)
               PROVE  g.header[b] = h.header[b]
      OBVIOUS
  <2>1. b \in DOMAIN h.header \ {start} /\ b \in AllocatedIn(g)
      BY <1>1 DEF AllocatedIn
  <2>2. with.header[b] = h.header[b]
      BY <2>1 DEF WithHeader
  <2>3. g.header[b] = with.header[b]
      BY <2>1 DEF IsFreed
  <2> QED BY <2>2, <2>3
<1>3. ASSUME NEW x \in Nat
      PROVE  Covers(g, x) <=> Covers(h, x) \/ (start <= x /\ x < start + region)
  <2>1. Covers(g, x) <=> Covers(with, x)
      BY DEF IsFreed
  <2>2. Covers(with, x) <=> \/ \E c \in DOMAIN h.header \ {start} : c <= x /\ x < c + SizeIn(h, c)
                            \/ start <= x /\ x < start + region
      BY CoversWithHeader
  <2>3. DOMAIN h.header \ {start} = DOMAIN h.header
      OBVIOUS
  <2> QED BY <2>1, <2>2, <2>3 DEF Covers
<1> QED BY <1>1, <1>2, <1>3 DEF IsGrown, IsFreed

LEMMA NewRegionGrows ==
    ASSUME MemoryOK, NEW arena \in DOMAIN heap, IsHeap(heap[arena]), NoNeighbours(heap[arena]),
           NEW size \in Nat, size >= MinSize, NEW region, region = RoundUp(size, RegionSize),
           NEW taken \in TakenFromNewRegion(heap[arena], size)
    PROVE  \E start \in NewPages(region) : \E grown :
              /\ IsGrown(heap[arena], start, region, grown)
              /\ FirstFitting(grown, size) \in FreeBlocks(grown)
              /\ taken \in Taken(grown, mapped \union Pages(start, region),
                                 FirstFitting(grown, size), size)
<1> DEFINE h == heap[arena]
           Grown(start, random) == AddToFreelist(WithBlock(h, start, region), start, random)
<1>1. PICK start \in NewPages(region), random \in Random :
          taken \in Taken(Grown(start, random), mapped \union Pages(start, region),
                          FirstFitting(Grown(start, random), size), size)
    BY DEF TakenFromNewRegion
<1> DEFINE with == WithBlock(h, start, region)
           grown == Grown(start, random)
<1>2. random \in Nat \ {0}
    BY ArenaAssumption
<1>3. region \in Nat /\ size <= region /\ region % PageSize = 0 /\ MinSize \in Nat
    BY RegionIs, Constants
<1>4. region >= MinSize
    BY <1>3
<1>5. start \notin DOMAIN h.header /\ WithHeader(h, start, region, with)
    BY <1>3, <1>4, RegionStep
<1> HIDE DEF with
<1>6. IsHeap(with) /\ NoNeighbours(with) /\ start \in AllocatedIn(with) /\ SizeIn(with, start) = region
    BY <1>5 DEF WithHeader
<1>7. IsFreed(with, start, grown)
    BY <1>2, <1>6, AddToFreelistStep DEF with
<1>8. taken \in Taken(grown, mapped \union Pages(start, region), FirstFitting(grown, size), size)
    BY <1>1
<1> HIDE DEF grown
<1>9. IsHeap(grown)
    BY <1>7 DEF IsFreed
<1>10. \E c \in FreeBlocks(grown) : SizeIn(grown, c) >= size
  <2>1. PICK c \in FreeBlocks(grown) : SizeIn(grown, c) >= region
      BY <1>6, <1>7, FreedIsInFreeBlock
  <2>2. SizeIn(grown, c) \in Nat
      BY <1>9, FreeBlockType
  <2> QED BY <2>1, <2>2, <1>3
<1>11. FirstFitting(grown, size) \in FreeBlocks(grown)
    BY <1>9, <1>10, FirstFittingIs
<1>12. IsGrown(h, start, region, grown)
    BY <1>5, <1>7, RegionIsFreed
<1> QED BY <1>8, <1>11, <1>12

LEMMA AllocFromNewRegion ==
    ASSUME MemoryOK, NEW arena \in DOMAIN heap, IsHeap(heap[arena]), NoNeighbours(heap[arena]),
           NEW size \in Nat, size >= MinSize, NEW taken \in TakenFromNewRegion(heap[arena], size)
    PROVE  IsAllocated(arena, taken)
<1> DEFINE h == heap[arena]
           region == RoundUp(size, RegionSize)
<1>1. region \in Nat /\ size <= region /\ region % PageSize = 0 /\ MinSize \in Nat
    BY RegionIs, Constants
<1>2. region >= MinSize
    BY <1>1
<1>3. PICK start \in NewPages(region) : \E grown :
              /\ IsGrown(h, start, region, grown)
              /\ FirstFitting(grown, size) \in FreeBlocks(grown)
              /\ taken \in Taken(grown, mapped \union Pages(start, region),
                                 FirstFitting(grown, size), size)
    BY NewRegionGrows
<1>4. PICK grown :
              /\ IsGrown(h, start, region, grown)
              /\ FirstFitting(grown, size) \in FreeBlocks(grown)
              /\ taken \in Taken(grown, mapped \union Pages(start, region),
                                 FirstFitting(grown, size), size)
    BY <1>3
<1> DEFINE s == FirstFitting(grown, size)
<1> HIDE DEF region, h, s
<1>5. /\ start \in Nat /\ start % PageSize = 0 /\ start >= MemoryStart /\ start + region <= MemoryEnd
    BY <1>1, <1>2, RegionStep
<1>6. IsHeap(grown) /\ NoNeighbours(grown) /\ s \in FreeBlocks(grown)
    BY <1>4 DEF IsGrown, s
<1>7. PICK random \in Random :
          taken = [block |-> s, heap |-> TakeBlock(grown, s, size, random),
                   mapped |-> mapped \union Pages(start, region)]
    BY <1>4 DEF Taken, s
<1>8. /\ random \in Nat \ {0}
      /\ taken.block = s /\ taken.heap = TakeBlock(grown, s, size, random)
      /\ taken.mapped = mapped \union Pages(start, region)
    BY <1>7, ArenaAssumption
<1>9. IsTaken(grown, s, size, taken.heap)
    BY <1>6, <1>8, TakeBlockStep
<1>10. AllocatedIn(taken.heap) = AllocatedIn(h) \union {s} /\ s \notin AllocatedIn(h)
    BY <1>4, <1>6, <1>9, FreeIsNotAllocated DEF IsTaken, IsGrown
<1>11. \A b \in AllocatedIn(h) : taken.heap.header[b] = h.header[b]
    BY <1>4, <1>9 DEF IsTaken, IsGrown
<1>12. IsHeap(taken.heap) /\ NoNeighbours(taken.heap)
    BY <1>9 DEF IsTaken
<1>13. s \in MemoryStart..MemoryEnd
    BY <1>10, <1>12, AllocatedBlockType
<1>14. /\ Pages(start, region) \in SUBSET Pages(MemoryStart, MemoryEnd - MemoryStart)
       /\ Pages(start, region) \intersect mapped = {}
  <2>1. Pages(start, region) \intersect mapped = {}
      BY DEF NewPages
  <2>2. ASSUME NEW p \in Pages(start, region)
        PROVE  p \in Pages(MemoryStart, MemoryEnd - MemoryStart)
    <3>1. p \in Nat /\ start <= p /\ p < start + region /\ p % PageSize = 0
        BY <1>1, <1>5, PagesIs
    <3>2. MemoryStart <= p /\ p < MemoryEnd
        BY <3>1, <1>1, <1>5, ArenaAssumption
    <3> QED BY <3>1, <3>2, MemoryPagesIs
  <2> QED BY <2>1, <2>2
<1>15. ASSUME NEW x \in Nat
       PROVE  Covers(taken.heap, x) <=> Covers(h, x) \/ \E p \in Pages(start, region) : InPage(x, p)
  <2>1. Covers(taken.heap, x) <=> Covers(h, x) \/ (start <= x /\ x < start + region)
      BY <1>4, <1>9 DEF IsTaken, IsGrown
  <2>2. start <= x /\ x < start + region <=> \E p \in Pages(start, region) : InPage(x, p)
      BY <1>1, <1>5, RegionBytes
  <2> QED BY <2>1, <2>2
<1>16. \E new \in SUBSET Pages(MemoryStart, MemoryEnd - MemoryStart) :
          /\ taken.mapped = mapped \union new /\ new \intersect mapped = {}
          /\ \A x \in Nat : Covers(taken.heap, x) <=> Covers(h, x) \/ \E p \in new : InPage(x, p)
    BY <1>8, <1>14, <1>15
<1> QED BY <1>8, <1>10, <1>11, <1>12, <1>13, <1>16 DEF IsAllocated, h

LEMMA DoAllocStep ==
    ASSUME MemoryOK, NEW arena \in DOMAIN heap, IsHeap(heap[arena]), NoNeighbours(heap[arena]),
           NEW request \in Request \union {ArenaSize},
           NEW taken \in DoAllocWithArena(request, arena)
    PROVE  IsAllocated(arena, taken)
<1> DEFINE size == SizeOf(request)
           s == FirstFitting(heap[arena], size)
<1>1. size \in Nat /\ size >= MinSize
    BY SizeOfIs
<1> HIDE DEF size
<1>2. taken \in IF s # Null THEN Taken(heap[arena], mapped, s, size)
                ELSE TakenFromNewRegion(heap[arena], size)
    BY DEF DoAllocWithArena, size
<1>3. s # Null => s \in FreeBlocks(heap[arena])
    BY <1>1, FirstFittingIs
<1> HIDE DEF s
<1>4. CASE s # Null
    BY <1>1, <1>2, <1>3, <1>4, AllocFromFreeBlock
<1>5. CASE s = Null
    BY <1>1, <1>2, <1>5, AllocFromNewRegion
<1> QED BY <1>4, <1>5

-----------------------------------------------------------------------------
(***************************************************************************)
(* The steps preserve the invariant.                                       *)
(***************************************************************************)
LEMMA AllocKeepsMemory ==
    ASSUME MemoryOK, NEW arena \in DOMAIN heap, NEW taken, IsAllocated(arena, taken),
           mapped' = taken.mapped, DOMAIN heap \subseteq DOMAIN heap',
           heap'[arena] = taken.heap,
           \A a \in DOMAIN heap \ {arena} : heap'[a] = heap[a],
           \A a \in DOMAIN heap' \ DOMAIN heap : \A x \in Nat : ~Covers(heap'[a], x)
    PROVE  MemoryOK'
<1>1. PICK new \in SUBSET Pages(MemoryStart, MemoryEnd - MemoryStart) :
          /\ taken.mapped = mapped \union new /\ new \intersect mapped = {}
          /\ \A x \in Nat : Covers(taken.heap, x) <=>
                                Covers(heap[arena], x) \/ \E p \in new : InPage(x, p)
    BY DEF IsAllocated
<1> DEFINE Was(a, x) == a \in DOMAIN heap /\ Covers(heap[a], x)
           IsNew(a, x) == a = arena /\ \E p \in new : InPage(x, p)
<1>2. ASSUME NEW a \in DOMAIN heap', NEW x \in Nat
      PROVE  Covers(heap'[a], x) <=> Was(a, x) \/ IsNew(a, x)
  <2>1. CASE a = arena
      BY <2>1, <1>1
  <2>2. CASE a # arena /\ a \in DOMAIN heap
      BY <2>2
  <2>3. CASE a \notin DOMAIN heap
      BY <2>3
  <2> QED BY <2>1, <2>2, <2>3
<1>3. ASSUME NEW a, NEW c, NEW x \in Nat, Was(a, x), IsNew(c, x)
      PROVE  FALSE
  <2>1. PICK p \in mapped : InPage(x, p)
      BY <1>3 DEF MemoryOK
  <2>2. PICK q \in new : InPage(x, q)
      BY <1>3
  <2>3. p \in Nat /\ p % PageSize = 0 /\ q \in Nat /\ q % PageSize = 0
      BY MemoryPagesIs DEF MemoryOK
  <2>4. p = q
      BY <2>1, <2>2, <2>3, SamePage
  <2> QED BY <2>4, <1>1
<1>4. mapped' = mapped \union new
    BY <1>1
<1>5. mapped' \subseteq Pages(MemoryStart, MemoryEnd - MemoryStart)
    BY <1>4 DEF MemoryOK
<1>6. ASSUME NEW a \in DOMAIN heap', NEW c \in DOMAIN heap', NEW x \in Nat,
             Covers(heap'[a], x), Covers(heap'[c], x)
      PROVE  a = c
  <2>1. (Was(a, x) \/ IsNew(a, x)) /\ (Was(c, x) \/ IsNew(c, x))
      BY <1>2, <1>6
  <2>2. CASE Was(a, x) /\ Was(c, x)
      BY <2>2 DEF MemoryOK
  <2>3. CASE IsNew(a, x) /\ IsNew(c, x)
      BY <2>3
  <2>4. ~(Was(a, x) /\ IsNew(c, x)) /\ ~(IsNew(a, x) /\ Was(c, x))
      BY <1>3
  <2> HIDE DEF Was, IsNew
  <2> QED BY <2>1, <2>2, <2>3, <2>4
<1>7. ASSUME NEW p \in mapped'
      PROVE  \E a \in DOMAIN heap' : \A x \in Nat : InPage(x, p) => Covers(heap'[a], x)
  <2>1. CASE p \in mapped
    <3>1. PICK a \in DOMAIN heap : \A x \in Nat : InPage(x, p) => Covers(heap[a], x)
        BY <2>1 DEF MemoryOK
    <3>2. a \in DOMAIN heap' /\ \A x \in Nat : InPage(x, p) => Covers(heap'[a], x)
        BY <3>1, <1>2
    <3> QED BY <3>2
  <2>2. CASE p \in new
      BY <2>2, <1>2
  <2> QED BY <2>1, <2>2, <1>4
<1>8. ASSUME NEW a \in DOMAIN heap', NEW x \in Nat, Covers(heap'[a], x)
      PROVE  \E p \in mapped' : InPage(x, p)
  <2>1. CASE Was(a, x)
      BY <2>1, <1>4 DEF MemoryOK
  <2>2. CASE IsNew(a, x)
      BY <2>2, <1>4
  <2> HIDE DEF Was, IsNew
  <2> QED BY <2>1, <2>2, <1>2, <1>8
<1> QED BY <1>5, <1>6, <1>7, <1>8 DEF MemoryOK

LEMMA AllocKeepsArena ==
    ASSUME NEW arena \in DOMAIN heap, NEW count, IsArena(heap[arena], count),
           NEW taken, IsAllocated(arena, taken)
    PROVE  IsArena(taken.heap, count + 1)
<1> DEFINE S == AllocatedIn(heap[arena])
           b == taken.block
<1>1. IsFiniteSet(S) /\ count = Cardinality(S) /\ b \notin S /\ AllocatedIn(taken.heap) = S \union {b}
    BY DEF IsArena, IsAllocated
<1> HIDE DEF S, b
<1>2. IsFiniteSet(S \union {b}) /\ Cardinality(S \union {b}) = count + 1
    BY <1>1, FS_AddElement
<1> QED BY <1>1, <1>2 DEF IsArena, IsAllocated

LEMMA GArenaIs ==
    ASSUME AllocatorOK
    PROVE  g_arena # UnhookedArena /\ UnhookedArena = 2 /\ UnhookedArena < MemoryStart
    BY ArenaAssumption DEF AllocatorOK, UnhookedArena, Null

LEMMA AllocateKeepsInvariant ==
    ASSUME ArenaInvariant, NEW size \in Request, Allocate(size)
    PROVE  ArenaInvariant'
<1>1. CASE UNCHANGED vars
    BY <1>1 DEF vars, arenaVars, allocatorVars, ArenaInvariant, ArenasOK, MemoryOK, RequestedOK,
                AllocatorOK
<1>2. CASE HasArena /\ Alloc(size, g_arena) /\ UNCHANGED allocatorVars
  <2> DEFINE arena == g_arena
  <2>1. /\ arena \in DOMAIN heap /\ arena # UnhookedArena
        /\ IsArena(heap[arena], allocation_count[arena]) /\ MemoryOK
      BY <1>2, GArenaIs DEF HasArena, ArenaInvariant, ArenasOK
  <2>2. PICK taken \in DoAllocWithArena(size, arena) :
            /\ heap' = [heap EXCEPT ![arena] = taken.heap]
            /\ allocation_count' = [allocation_count EXCEPT ![arena] = @ + 1]
            /\ mapped' = taken.mapped
            /\ requested' = Put(requested, taken.block, SizeOf(size))
      BY <1>2 DEF Alloc
  <2>3. IsAllocated(arena, taken)
      BY <2>1, DoAllocStep DEF IsArena
  <2> HIDE DEF arena
  <2>4. /\ DOMAIN heap' = DOMAIN heap /\ heap'[arena] = taken.heap
        /\ \A a \in DOMAIN heap \ {arena} : heap'[a] = heap[a]
      BY <2>1, <2>2
  <2>5. MemoryOK'
      BY <2>1, <2>2, <2>3, <2>4, AllocKeepsMemory
  <2>6. /\ DOMAIN allocation_count' = DOMAIN allocation_count
        /\ DOMAIN allocation_count = DOMAIN heap
        /\ allocation_count'[arena] = allocation_count[arena] + 1
        /\ \A a \in DOMAIN heap \ {arena} : allocation_count'[a] = allocation_count[a]
      BY <2>1, <2>2 DEF ArenaInvariant, ArenasOK
  <2>7. IsArena(taken.heap, allocation_count[arena] + 1)
      BY <2>1, <2>3, AllocKeepsArena
  <2>8. ASSUME NEW a \in DOMAIN heap'
        PROVE  IsArena(heap'[a], allocation_count'[a])
    <3>1. CASE a = arena
        BY <3>1, <2>4, <2>6, <2>7
    <3>2. CASE a # arena
        BY <3>2, <2>4, <2>6 DEF ArenaInvariant, ArenasOK
    <3> QED BY <3>1, <3>2
  <2>9. ArenasOK'
    <3>1. UnhookedArena \in DOMAIN heap' /\ heap'[UnhookedArena] = heap[UnhookedArena]
        BY <2>1, <2>4 DEF ArenaInvariant, ArenasOK
    <3>2. AllocatedIn(heap'[UnhookedArena]) = DOMAIN heap' \ {UnhookedArena}
        BY <3>1, <2>4 DEF ArenaInvariant, ArenasOK
    <3>3. allocation_count' = [a \in DOMAIN allocation_count' |-> allocation_count'[a]]
        BY <2>2
    <3> QED BY <3>1, <3>2, <3>3, <2>4, <2>6, <2>8 DEF ArenasOK
  <2>10. RequestedOK'
    <3>1. DOMAIN requested' = DOMAIN requested \union {taken.block}
        BY <2>2 DEF Put
    <3>2. AllocatedIn(heap'[arena]) = AllocatedIn(heap[arena]) \union {taken.block}
        BY <2>3, <2>4 DEF IsAllocated
    <3>3. \A a \in DOMAIN heap \ {arena} : AllocatedIn(heap'[a]) = AllocatedIn(heap[a])
        BY <2>4
    <3>4. UNION {AllocatedIn(heap'[a]) : a \in DOMAIN heap'} =
              (UNION {AllocatedIn(heap[a]) : a \in DOMAIN heap}) \union {taken.block}
        BY <3>2, <3>3, <2>1, <2>4
    <3> QED BY <3>1, <3>4 DEF RequestedOK, ArenaInvariant
  <2>11. AllocatorOK'
      BY <1>2, <2>4 DEF AllocatorOK, ArenaInvariant, allocatorVars
  <2> QED BY <2>5, <2>9, <2>10, <2>11 DEF ArenaInvariant
<1> QED BY <1>1, <1>2 DEF Allocate

LEMMA InitializeKeepsInvariant ==
    ASSUME ArenaInvariant, Initialize
    PROVE  ArenaInvariant'
<1>1. PICK result \in MemoryStart..MemoryEnd : NewArena(result) /\ g_arena' = result
    BY DEF Initialize
<1>2. /\ UnhookedArena \in DOMAIN heap /\ MemoryOK
      /\ IsArena(heap[UnhookedArena], allocation_count[UnhookedArena])
    BY DEF ArenaInvariant, ArenasOK
<1>3. DOMAIN heap = {UnhookedArena}
    BY <1>2 DEF ArenaInvariant, AllocatorOK, Initialize, HasArena
<1>4. PICK taken \in DoAllocWithArena(ArenaSize, UnhookedArena) :
          /\ taken.block = result
          /\ heap' = Put([heap EXCEPT ![UnhookedArena] = taken.heap], result, EmptyHeap)
          /\ allocation_count' = Put([allocation_count EXCEPT ![UnhookedArena] = @ + 1], result, 0)
          /\ mapped' = taken.mapped
          /\ requested' = Put(requested, result, SizeOf(ArenaSize))
    BY <1>1 DEF NewArena
<1>5. IsAllocated(UnhookedArena, taken)
    BY <1>2, DoAllocStep DEF IsArena
<1>6. result # UnhookedArena
    BY GArenaIs, ArenaAssumption DEF ArenaInvariant
<1>7. /\ DOMAIN heap' = {UnhookedArena, result}
      /\ heap'[UnhookedArena] = taken.heap /\ heap'[result] = EmptyHeap
    BY <1>3, <1>4, <1>6 DEF Put
<1>8. MemoryOK'
  <2>1. \A a \in DOMAIN heap' \ DOMAIN heap : \A x \in Nat : ~Covers(heap'[a], x)
      BY <1>3, <1>7, EmptyHeapIs
  <2>2. \A a \in DOMAIN heap \ {UnhookedArena} : heap'[a] = heap[a]
      BY <1>3
  <2>3. DOMAIN heap \subseteq DOMAIN heap'
      BY <1>3, <1>7
  <2> QED BY <2>1, <2>2, <2>3, <1>2, <1>4, <1>5, <1>7, AllocKeepsMemory
<1>9. DOMAIN allocation_count = {UnhookedArena}
    BY <1>3 DEF ArenaInvariant, ArenasOK
<1>10. /\ DOMAIN allocation_count' = {UnhookedArena, result}
       /\ allocation_count'[UnhookedArena] = allocation_count[UnhookedArena] + 1
       /\ allocation_count'[result] = 0
    BY <1>4, <1>6, <1>9 DEF Put
<1>11. IsArena(taken.heap, allocation_count[UnhookedArena] + 1)
    BY <1>2, <1>5, AllocKeepsArena
<1>12. IsArena(EmptyHeap, 0)
    BY EmptyHeapIs, FS_EmptySet DEF IsArena
<1>13. ArenasOK'
  <2>1. AllocatedIn(heap[UnhookedArena]) = {}
      BY <1>3 DEF ArenaInvariant, ArenasOK
  <2>2. AllocatedIn(heap'[UnhookedArena]) = {result}
      BY <2>1, <1>4, <1>5, <1>7 DEF IsAllocated
  <2>3. \A a \in DOMAIN heap' : IsArena(heap'[a], allocation_count'[a])
      BY <1>7, <1>10, <1>11, <1>12
  <2>4. AllocatedIn(heap'[UnhookedArena]) = DOMAIN heap' \ {UnhookedArena}
      BY <2>2, <1>6, <1>7
  <2>5. allocation_count' = [a \in DOMAIN allocation_count' |-> allocation_count'[a]]
      BY <1>4 DEF Put
  <2> QED BY <2>3, <2>4, <2>5, <1>7, <1>10 DEF ArenasOK
<1>14. RequestedOK'
  <2>1. DOMAIN requested' = DOMAIN requested \union {result}
      BY <1>4 DEF Put
  <2>2. DOMAIN requested = AllocatedIn(heap[UnhookedArena])
      BY <1>3 DEF ArenaInvariant, RequestedOK
  <2>3. AllocatedIn(heap'[UnhookedArena]) = AllocatedIn(heap[UnhookedArena]) \union {result}
      BY <1>4, <1>5, <1>7 DEF IsAllocated
  <2>4. AllocatedIn(heap'[result]) = {}
      BY <1>7, EmptyHeapIs
  <2>5. UNION {AllocatedIn(heap'[a]) : a \in DOMAIN heap'} = AllocatedIn(heap'[UnhookedArena])
      BY <2>4, <1>7
  <2> QED BY <2>1, <2>2, <2>3, <2>5 DEF RequestedOK
<1>15. AllocatorOK'
    BY <1>1, <1>7 DEF AllocatorOK, ArenaInvariant, Initialize
<1> QED BY <1>8, <1>13, <1>14, <1>15 DEF ArenaInvariant

LEMMA FreeKeepsArena ==
    ASSUME NEW h, NEW count, IsArena(h, count), NEW b \in AllocatedIn(h), NEW g, IsFreed(h, b, g)
    PROVE  IsArena(g, count - 1)
<1> DEFINE S == AllocatedIn(h)
<1>1. IsFiniteSet(S) /\ count = Cardinality(S) /\ b \in S /\ AllocatedIn(g) = S \ {b}
    BY DEF IsArena, IsFreed
<1> HIDE DEF S
<1>2. IsFiniteSet(S \ {b}) /\ Cardinality(S \ {b}) = count - 1
    BY <1>1, FS_RemoveElement
<1> QED BY <1>1, <1>2 DEF IsArena, IsFreed

(* A block is allocated in one arena only. *)
LEMMA AllocatedInOneArena ==
    ASSUME ArenaInvariant, NEW a \in DOMAIN heap, NEW c \in DOMAIN heap,
           NEW b \in AllocatedIn(heap[a]), b \in AllocatedIn(heap[c])
    PROVE  a = c
<1>1. IsHeap(heap[a]) /\ IsHeap(heap[c])
    BY DEF ArenaInvariant, ArenasOK, IsArena
<1>2. Covers(heap[a], b) /\ Covers(heap[c], b) /\ b \in Nat
  <2>1. Covers(heap[a], b) /\ Covers(heap[c], b) /\ b \in MemoryStart..MemoryEnd
      BY <1>1, AllocatedBlockType
  <2> QED BY <2>1, ArenaAssumption
<1> QED BY <1>2 DEF ArenaInvariant, MemoryOK

LEMMA FreeBlockKeepsInvariant ==
    ASSUME ArenaInvariant, NEW b, FreeBlock(b)
    PROVE  ArenaInvariant'
<1> DEFINE arena == g_arena
<1>1. /\ arena \in DOMAIN heap /\ arena # UnhookedArena /\ b \in AllocatedIn(heap[arena])
      /\ IsArena(heap[arena], allocation_count[arena])
    BY GArenaIs DEF FreeBlock, HasArena, AllocatedIn, ArenaInvariant, ArenasOK
<1>2. PICK random \in Random : heap' = [heap EXCEPT ![arena] = AddToFreelist(@, b, random)]
    BY DEF FreeBlock, Free
<1>3. /\ allocation_count' = [allocation_count EXCEPT ![arena] = @ - 1]
      /\ requested' = WithoutRequest(b) /\ mapped' = mapped
      /\ g_arena' = g_arena
      /\ g_is_initalized_for_unit_test' = g_is_initalized_for_unit_test
    BY DEF FreeBlock, Free, CountAfterFree, allocatorVars
<1>4. random \in Nat \ {0}
    BY ArenaAssumption
<1> DEFINE g == AddToFreelist(heap[arena], b, random)
<1>5. IsFreed(heap[arena], b, g)
    BY <1>1, <1>4, AddToFreelistStep DEF IsArena
<1>6. DOMAIN heap' = DOMAIN heap /\ heap'[arena] = g /\ \A a \in DOMAIN heap \ {arena} : heap'[a] = heap[a]
    BY <1>1, <1>2
<1> HIDE DEF g
<1>7. /\ DOMAIN allocation_count' = DOMAIN heap
      /\ allocation_count'[arena] = allocation_count[arena] - 1
      /\ \A a \in DOMAIN heap \ {arena} : allocation_count'[a] = allocation_count[a]
    BY <1>1, <1>3 DEF ArenaInvariant, ArenasOK
<1>8. AllocatorOK'
    BY <1>3, <1>6 DEF ArenaInvariant, AllocatorOK
<1> HIDE DEF arena
<1>9. \A a \in DOMAIN heap : \A x \in Nat : Covers(heap'[a], x) <=> Covers(heap[a], x)
    BY <1>5, <1>6 DEF IsFreed
<1>10. MemoryOK'
    BY <1>3, <1>6, <1>9 DEF ArenaInvariant, MemoryOK
<1>11. IsArena(g, allocation_count[arena] - 1)
    BY <1>1, <1>5, FreeKeepsArena
<1>12. ArenasOK'
  <2>1. ASSUME NEW a \in DOMAIN heap'
        PROVE  IsArena(heap'[a], allocation_count'[a])
    <3>1. CASE a = arena
        BY <3>1, <1>6, <1>7, <1>11
    <3>2. CASE a # arena
        BY <3>2, <1>6, <1>7 DEF ArenaInvariant, ArenasOK
    <3> QED BY <3>1, <3>2
  <2>2. UnhookedArena \in DOMAIN heap' /\ heap'[UnhookedArena] = heap[UnhookedArena]
      BY <1>1, <1>6 DEF ArenaInvariant, ArenasOK
  <2>3. AllocatedIn(heap'[UnhookedArena]) = DOMAIN heap' \ {UnhookedArena}
      BY <2>2, <1>6 DEF ArenaInvariant, ArenasOK
  <2>4. allocation_count' = [a \in DOMAIN allocation_count' |-> allocation_count'[a]]
      BY <1>3
  <2> QED BY <2>1, <2>2, <2>3, <2>4, <1>6, <1>7 DEF ArenasOK
<1>13. RequestedOK'
  <2>1. DOMAIN requested' = DOMAIN requested \ {b}
      BY <1>3 DEF WithoutRequest
  <2>2. AllocatedIn(heap'[arena]) = AllocatedIn(heap[arena]) \ {b}
      BY <1>5, <1>6 DEF IsFreed
  <2>3. \A a \in DOMAIN heap \ {arena} :
            AllocatedIn(heap'[a]) = AllocatedIn(heap[a]) /\ b \notin AllocatedIn(heap[a])
      BY <1>1, <1>6, AllocatedInOneArena
  <2>4. UNION {AllocatedIn(heap'[a]) : a \in DOMAIN heap'} =
            (UNION {AllocatedIn(heap[a]) : a \in DOMAIN heap}) \ {b}
      BY <2>2, <2>3, <1>1, <1>6
  <2> QED BY <2>1, <2>4 DEF RequestedOK, ArenaInvariant
<1> QED BY <1>8, <1>10, <1>12, <1>13 DEF ArenaInvariant

LEMMA DeleteArenaKeepsInvariant ==
    ASSUME ArenaInvariant, HasArena, DeleteArena(g_arena), UNCHANGED allocatorVars
    PROVE  ArenaInvariant'
<1> DEFINE arena == g_arena
           h == heap[UnhookedArena]
           regions == UNION {Pages(b, heap[arena].header[b].size) : b \in FreeBlocks(heap[arena])}
<1>1. /\ arena \in DOMAIN heap /\ arena # UnhookedArena /\ UnhookedArena \in DOMAIN heap
      /\ IsArena(heap[arena], allocation_count[arena])
      /\ IsArena(h, allocation_count[UnhookedArena])
    BY GArenaIs DEF HasArena, ArenaInvariant, ArenasOK
<1>2. DOMAIN heap = {UnhookedArena, arena}
    BY <1>1 DEF ArenaInvariant, AllocatorOK
<1>3. PICK random \in Random :
          heap' = [a \in DOMAIN heap \ {arena} |->
                      IF a = UnhookedArena THEN AddToFreelist(heap[a], arena, random) ELSE heap[a]]
    BY DEF DeleteArena
<1>4. /\ allocation_count[arena] = 0
      /\ allocation_count' = [a \in DOMAIN heap \ {arena} |->
              IF a = UnhookedArena THEN allocation_count[a] - 1 ELSE allocation_count[a]]
      /\ mapped' = mapped \ regions
      /\ requested' = WithoutRequest(arena)
  <2>1. BlocksAfter(heap[arena], FreeList) = FreeBlocks(heap[arena])
      BY <1>1, BlocksAfterAreFree DEF IsArena
  <2> QED BY <2>1 DEF DeleteArena, CanBeDeleted, CountAfterFree
<1>5. AllocatedIn(h) = {arena}
    BY <1>1, <1>2 DEF ArenaInvariant, ArenasOK
<1>6. AllocatedIn(heap[arena]) = {}
    BY <1>1, <1>4, FS_EmptySet DEF IsArena
<1> DEFINE g == AddToFreelist(h, arena, random)
<1>7. IsFreed(h, arena, g)
  <2>1. random \in Nat \ {0}
      BY ArenaAssumption
  <2> QED BY <2>1, <1>1, <1>5, AddToFreelistStep DEF IsArena
<1>8. DOMAIN heap' = {UnhookedArena} /\ heap'[UnhookedArena] = g
    BY <1>1, <1>2, <1>3
<1> HIDE DEF g
<1>9. /\ DOMAIN allocation_count' = {UnhookedArena}
      /\ allocation_count'[UnhookedArena] = allocation_count[UnhookedArena] - 1
    BY <1>1, <1>2, <1>4
<1>10. AllocatedIn(g) = {}
    BY <1>5, <1>7 DEF IsFreed
<1>11. ArenasOK'
  <2>1. IsArena(g, allocation_count[UnhookedArena] - 1)
      BY <1>1, <1>5, <1>7, FreeKeepsArena
  <2>2. allocation_count' = [a \in DOMAIN allocation_count' |-> allocation_count'[a]]
      BY <1>4
  <2> QED BY <2>1, <2>2, <1>8, <1>9, <1>10 DEF ArenasOK
<1>12. RequestedOK'
  <2>1. DOMAIN requested' = DOMAIN requested \ {arena}
      BY <1>4 DEF WithoutRequest
  <2>2. DOMAIN requested = {arena}
      BY <1>2, <1>5, <1>6 DEF ArenaInvariant, RequestedOK
  <2>3. UNION {AllocatedIn(heap'[a]) : a \in DOMAIN heap'} = {}
      BY <1>8, <1>10
  <2> QED BY <2>1, <2>2, <2>3 DEF RequestedOK
<1>13. AllocatorOK'
    BY <1>8 DEF ArenaInvariant, AllocatorOK, allocatorVars
<1>14. ASSUME NEW p \in mapped
       PROVE  p \in regions <=> Covers(heap[arena], p)
  <2>1. p \in Nat /\ p % PageSize = 0
      BY MemoryPagesIs DEF ArenaInvariant, MemoryOK
  <2>2. IsHeap(heap[arena]) /\ HeadersOK(heap[arena])
      BY <1>1 DEF IsArena, IsHeap
  <2> HIDE DEF arena
  <2>3. ASSUME NEW b \in FreeBlocks(heap[arena])
        PROVE  p \in Pages(b, SizeIn(heap[arena], b)) <=> b <= p /\ p < b + SizeIn(heap[arena], b)
    <3>1. b \in Nat /\ SizeIn(heap[arena], b) \in Nat
        BY <2>2, FreeBlockType
    <3> QED BY <3>1, <2>1, PagesIs
  <2>4. Covers(heap[arena], p) <=>
            \E b \in FreeBlocks(heap[arena]) : b <= p /\ p < b + SizeIn(heap[arena], b)
    <3>1. SizeIn(heap[arena], FreeList) = 0 /\ FreeList = 1
        BY <2>2 DEF HeadersOK, SizeIn, FreeList
    <3>2. ~(FreeList <= p /\ p < FreeList + SizeIn(heap[arena], FreeList))
        BY <3>1, <2>1
    <3>3. DOMAIN heap[arena].header = FreeBlocks(heap[arena]) \union {FreeList}
      <4>1. FreeBlocks(heap[arena]) =
                {b \in DOMAIN heap[arena].header \ {FreeList} : ~heap[arena].header[b].allocated}
          BY <2>2, FreeBlocksAre
      <4>2. FreeList \in DOMAIN heap[arena].header
          BY <2>2 DEF HeadersOK
      <4> QED BY <4>1, <4>2, <1>6 DEF AllocatedIn
    <3> QED BY <3>2, <3>3 DEF Covers
  <2> QED BY <2>3, <2>4 DEF SizeIn
<1> HIDE DEF regions
<1>15. \A x \in Nat : Covers(heap'[UnhookedArena], x) <=> Covers(h, x)
    BY <1>7, <1>8 DEF IsFreed
<1>16. MemoryOK'
  <2>1. mapped' \subseteq Pages(MemoryStart, MemoryEnd - MemoryStart)
      BY <1>4 DEF ArenaInvariant, MemoryOK
  <2>2. ASSUME NEW p \in mapped
        PROVE  p \in Nat /\ InPage(p, p)
    <3>1. p \in Nat
        BY MemoryPagesIs DEF ArenaInvariant, MemoryOK
    <3> QED BY <3>1, Constants DEF InPage
  <2>3. ASSUME NEW p \in mapped'
        PROVE  \A x \in Nat : InPage(x, p) => Covers(heap'[UnhookedArena], x)
    <3>1. p \in mapped /\ p \notin regions
        BY <1>4
    <3>2. PICK a \in DOMAIN heap : \A x \in Nat : InPage(x, p) => Covers(heap[a], x)
        BY <3>1 DEF ArenaInvariant, MemoryOK
    <3>3. a # arena
        BY <3>1, <3>2, <2>2, <1>14
    <3>4. a = UnhookedArena
        BY <3>3, <1>2
    <3> QED BY <3>2, <3>4, <1>15
  <2>4. ASSUME NEW x \in Nat, Covers(h, x)
        PROVE  \E p \in mapped' : InPage(x, p)
    <3>1. PICK p \in mapped : InPage(x, p)
        BY <2>4, <1>1 DEF ArenaInvariant, MemoryOK
    <3>2. PICK a \in DOMAIN heap : \A y \in Nat : InPage(y, p) => Covers(heap[a], y)
        BY DEF ArenaInvariant, MemoryOK
    <3>3. a = UnhookedArena
        BY <3>1, <3>2, <2>4, <1>1 DEF ArenaInvariant, MemoryOK
    <3>4. Covers(h, p)
        BY <3>2, <3>3, <2>2
    <3>5. ~Covers(heap[arena], p)
        BY <3>4, <2>2, <1>1 DEF ArenaInvariant, MemoryOK
    <3> QED BY <3>1, <3>5, <1>4, <1>14
  <2> QED BY <2>1, <2>3, <2>4, <1>8, <1>15 DEF MemoryOK
<1> QED BY <1>11, <1>12, <1>13, <1>16 DEF ArenaInvariant

LEMMA ArenaInvariantInductive == Spec => []ArenaInvariant
<1>1. AllocatorInit => ArenaInvariant
  <2> SUFFICES ASSUME AllocatorInit PROVE ArenaInvariant
      OBVIOUS
  <2>1. /\ DOMAIN heap = {UnhookedArena} /\ heap[UnhookedArena] = EmptyHeap
        /\ DOMAIN allocation_count = {UnhookedArena} /\ allocation_count[UnhookedArena] = 0
        /\ allocation_count = [arena \in DOMAIN allocation_count |-> allocation_count[arena]]
        /\ mapped = {} /\ DOMAIN requested = {}
        /\ g_arena = Null /\ g_is_initalized_for_unit_test = FALSE
      BY DEF AllocatorInit, Init
  <2>2. IsArena(EmptyHeap, 0)
      BY EmptyHeapIs, FS_EmptySet DEF IsArena
  <2>3. ArenasOK
      BY <2>1, <2>2, EmptyHeapIs DEF ArenasOK
  <2>4. MemoryOK
      BY <2>1, EmptyHeapIs DEF MemoryOK
  <2>5. RequestedOK
      BY <2>1, EmptyHeapIs DEF RequestedOK
  <2>6. AllocatorOK
      BY <2>1 DEF AllocatorOK
  <2> QED BY <2>3, <2>4, <2>5, <2>6 DEF ArenaInvariant
<1>2. ArenaInvariant /\ [Next]_vars => ArenaInvariant'
  <2> SUFFICES ASSUME ArenaInvariant, [Next]_vars PROVE ArenaInvariant'
      OBVIOUS
  <2>1. CASE Initialize
      BY <2>1, InitializeKeepsInvariant
  <2>2. CASE InitializeForUnitTest
      BY <2>2 DEF InitializeForUnitTest, arenaVars, ArenaInvariant, ArenasOK, MemoryOK, RequestedOK,
                  AllocatorOK
  <2>3. CASE Shutdown
    <3>1. CASE HasArena /\ DeleteArena(g_arena) /\ UNCHANGED allocatorVars
        BY <3>1, DeleteArenaKeepsInvariant
    <3>2. CASE UNCHANGED arenaVars /\ UNCHANGED allocatorVars
        BY <3>2 DEF arenaVars, allocatorVars, ArenaInvariant, ArenasOK, MemoryOK, RequestedOK,
                    AllocatorOK
    <3>3. CASE g_is_initalized_for_unit_test' = FALSE /\ UNCHANGED <<arenaVars, g_arena>>
      <4>1. heap' = heap /\ g_arena' = g_arena /\ g_is_initalized_for_unit_test' \in BOOLEAN
          BY <3>3 DEF arenaVars
      <4>2. AllocatorOK'
          BY <4>1 DEF ArenaInvariant, AllocatorOK
      <4>3. ArenasOK' /\ MemoryOK' /\ RequestedOK'
          BY <3>3 DEF arenaVars, ArenaInvariant, ArenasOK, MemoryOK, RequestedOK
      <4> QED BY <4>2, <4>3 DEF ArenaInvariant
    <3> QED BY <2>3, <3>1, <3>2, <3>3 DEF Shutdown
  <2>4. CASE \E size \in Request : Allocate(size)
      BY <2>4, AllocateKeepsInvariant
  <2>5. CASE \E b \in MemoryStart..MemoryEnd : FreeBlock(b)
      BY <2>5, FreeBlockKeepsInvariant
  <2>6. CASE UNCHANGED vars
      BY <2>6 DEF vars, arenaVars, allocatorVars, ArenaInvariant, ArenasOK, MemoryOK, RequestedOK,
                  AllocatorOK
  <2> QED BY <2>1, <2>2, <2>3, <2>4, <2>5, <2>6 DEF Next
<1> QED BY <1>1, <1>2, PTL DEF Spec

-----------------------------------------------------------------------------
(* What the invariant says of one arena, in the terms of the properties. *)
LEMMA ArenaIs ==
    ASSUME ArenaInvariant, NEW arena \in Arenas
    PROVE  /\ arena \in DOMAIN heap /\ IsHeap(heap[arena]) /\ HeadersOK(heap[arena])
           /\ NoNeighbours(heap[arena])
           /\ Allocated(arena) = AllocatedIn(heap[arena])
           /\ Blocks(arena) = DOMAIN heap[arena].header \ {FreeList}
<1>1. arena \in DOMAIN heap /\ IsArena(heap[arena], allocation_count[arena])
    BY DEF ArenaInvariant, ArenasOK, Arenas
<1>2. HeadersOK(heap[arena])
    BY <1>1 DEF IsArena, IsHeap
<1>3. Allocated(arena) = AllocatedIn(heap[arena])
    BY <1>2 DEF Allocated, Blocks, AllocatedIn, HeadersOK
<1> QED BY <1>1, <1>2, <1>3 DEF IsArena, Blocks

LEMMA HeapHasType ==
    ASSUME NEW h, IsHeap(h)
    PROVE  HeapOK(h)
<1>1. HeadersOK(h) /\ FreelistOK(h) /\ IsSkipList(h.next)
    BY DEF IsHeap, FreelistOK
<1>2. ASSUME NEW b \in DOMAIN h.next
      PROVE  h.next[b] \in Seq(FreeBlocks(h) \union {Null})
  <2>1. h.next[b] \in Seq(Nat) /\ Len(h.next[b]) \in 0..(MaxLevel - 1) /\ b \in Nat \ {0}
      BY <1>1 DEF IsSkipList
  <2>2. ASSUME NEW level \in 1..Len(h.next[b])
        PROVE  h.next[b][level] \in FreeBlocks(h) \union {Null}
    <3>1. IsFirstAfter(h.next, b, level, h.next[b][level])
        BY <1>1 DEF IsSkipList
    <3>2. CASE h.next[b][level] # Null
      <4>1. h.next[b][level] \in DOMAIN h.next /\ h.next[b][level] > b
          BY <3>1, <3>2 DEF IsFirstAfter
      <4>2. h.next[b][level] \in Nat
          BY <2>1
      <4> QED BY <4>1, <4>2, <2>1 DEF FreeBlocks, FreeList
    <3> QED BY <3>2
  <2> QED BY <2>1, <2>2
<1> QED BY <1>1, <1>2 DEF HeapOK, HeadersOK, FreelistOK, IsSkipList, SizeIn

(***************************************************************************)
(* The state of the arenas keeps its type, and every free block has room   *)
(* for the pointers it holds: LLA_SkiplistLevels never gives a block more  *)
(* levels than its memory carries, whatever it is split or merged from.    *)
(***************************************************************************)
THEOREM TypeAlwaysOK == Spec => []TypeOK
<1>1. ArenaInvariant => TypeOK
  <2> SUFFICES ASSUME ArenaInvariant PROVE TypeOK
      OBVIOUS
  <2>1. \A arena \in Arenas : HeapOK(heap[arena])
      BY ArenaIs, HeapHasType
  <2>2. allocation_count \in [Arenas -> Nat]
    <3>1. \A arena \in Arenas : allocation_count[arena] \in Nat
        BY FS_CardinalityType DEF ArenaInvariant, ArenasOK, IsArena, Arenas
    <3> QED BY <3>1 DEF ArenaInvariant, ArenasOK, Arenas
  <2>3. DOMAIN requested = UNION {Allocated(arena) : arena \in Arenas}
      BY ArenaIs DEF ArenaInvariant, RequestedOK, Arenas
  <2> QED BY <2>1, <2>2, <2>3 DEF TypeOK, ArenaInvariant, MemoryOK, AllocatorOK
<1> QED BY <1>1, ArenaInvariantInductive, PTL

(***************************************************************************)
(* Through any splitting, merging, mapping and unmapping, every mapped     *)
(* byte is in exactly one block of one arena, and the static arena holds   *)
(* exactly the objects of the arenas there are.                            *)
(***************************************************************************)
THEOREM BlocksAlwaysTileMemory == Spec => []BlocksTileMemory
<1>1. ArenaInvariant => BlocksTileMemory
  <2> SUFFICES ASSUME ArenaInvariant PROVE BlocksTileMemory
      OBVIOUS
  <2>1. ASSUME NEW a \in Arenas, NEW b \in Blocks(a), NEW x
        PROVE  /\ x \in Bytes(a, b) <=> x \in Nat /\ b <= x /\ x < b + SizeIn(heap[a], b)
               /\ b \in DOMAIN heap[a].header /\ b \in Nat /\ SizeIn(heap[a], b) \in Nat
    <3>1. b \in DOMAIN heap[a].header /\ HeadersOK(heap[a])
        BY ArenaIs
    <3>2. b \in Nat /\ SizeIn(heap[a], b) \in Nat
        BY <3>1, BlockType
    <3>3. Bytes(a, b) = b..(b + SizeIn(heap[a], b) - 1)
        BY DEF Bytes, SizeIn
    <3>4. \A size \in Nat : x \in b..(b + size - 1) <=> x \in Nat /\ b <= x /\ x < b + size
        BY <3>2
    <3> QED BY <3>1, <3>2, <3>3, <3>4
  <2>2. ASSUME NEW a \in Arenas, NEW x \in Nat
        PROVE  (\E b \in Blocks(a) : x \in Bytes(a, b)) <=> Covers(heap[a], x)
    <3>1. HeadersOK(heap[a]) /\ Blocks(a) = DOMAIN heap[a].header \ {FreeList}
        BY ArenaIs
    <3>2. SizeIn(heap[a], FreeList) = 0 /\ FreeList = 1 /\ FreeList \in DOMAIN heap[a].header
        BY <3>1 DEF HeadersOK, SizeIn, FreeList
    <3>3. ~(FreeList <= x /\ x < FreeList + SizeIn(heap[a], FreeList))
        BY <3>2
    <3> QED BY <3>1, <3>3, <2>1 DEF Covers
  <2>3. ASSUME NEW a \in Arenas, NEW c \in Arenas, NEW b \in Blocks(a), NEW d \in Blocks(c),
               a # c \/ b # d
        PROVE  Bytes(a, b) \intersect Bytes(c, d) = {}
    <3> SUFFICES ASSUME NEW x \in Bytes(a, b), x \in Bytes(c, d) PROVE FALSE
        OBVIOUS
    <3>1. x \in Nat /\ Covers(heap[a], x) /\ Covers(heap[c], x)
        BY <2>1, <2>2
    <3>2. a = c
        BY <3>1 DEF ArenaInvariant, MemoryOK, Arenas
    <3>3. HeadersOK(heap[a])
        BY ArenaIs
    <3>4. /\ b \in DOMAIN heap[a].header /\ b \in Nat /\ SizeIn(heap[a], b) \in Nat
          /\ b <= x /\ x < b + SizeIn(heap[a], b)
        BY <2>1
    <3>5. /\ d \in DOMAIN heap[a].header /\ d \in Nat /\ SizeIn(heap[a], d) \in Nat
          /\ d <= x /\ x < d + SizeIn(heap[a], d)
        BY <3>2, <2>1
    <3>6. (b < d => b + SizeIn(heap[a], b) <= d) /\ (d < b => d + SizeIn(heap[a], d) <= b)
        BY <3>3, <3>4, <3>5 DEF HeadersOK
    <3> QED BY <2>3, <3>1, <3>2, <3>4, <3>5, <3>6
  <2>4. UNION {UNION {Bytes(a, b) : b \in Blocks(a)} : a \in Arenas} =
            UNION {p..(p + PageSize - 1) : p \in mapped}
    <3>1. ASSUME NEW p \in mapped, NEW x
          PROVE  x \in p..(p + PageSize - 1) <=> x \in Nat /\ InPage(x, p)
      <4>1. p \in Nat /\ PageSize \in Nat
          BY MemoryPagesIs, Constants DEF ArenaInvariant, MemoryOK
      <4> QED BY <4>1 DEF InPage
    <3>2. ASSUME NEW x, NEW a \in Arenas, NEW b \in Blocks(a), x \in Bytes(a, b)
          PROVE  \E p \in mapped : x \in p..(p + PageSize - 1)
      <4>1. x \in Nat /\ Covers(heap[a], x)
          BY <3>2, <2>1, <2>2
      <4>2. PICK p \in mapped : InPage(x, p)
          BY <4>1 DEF ArenaInvariant, MemoryOK, Arenas
      <4> QED BY <4>1, <4>2, <3>1
    <3>3. ASSUME NEW p \in mapped, NEW x \in p..(p + PageSize - 1)
          PROVE  \E a \in Arenas : \E b \in Blocks(a) : x \in Bytes(a, b)
      <4>1. x \in Nat /\ InPage(x, p)
          BY <3>1
      <4>2. PICK a \in Arenas : \A y \in Nat : InPage(y, p) => Covers(heap[a], y)
          BY DEF ArenaInvariant, MemoryOK, Arenas
      <4>3. Covers(heap[a], x)
          BY <4>1, <4>2
      <4> QED BY <4>1, <4>3, <2>2
    <3> QED BY <3>2, <3>3
  <2>5. Allocated(UnhookedArena) = Arenas \ {UnhookedArena}
      BY ArenaIs DEF ArenaInvariant, ArenasOK, Arenas
  <2> QED BY <2>3, <2>4, <2>5 DEF BlocksTileMemory
<1> QED BY <1>1, ArenaInvariantInductive, PTL

(***************************************************************************)
(* The free list is what Next() checks of it, and at every level it leads  *)
(* to the next block that has this level: a search that skips along the    *)
(* higher levels misses no block.                                          *)
(***************************************************************************)
THEOREM FreelistAlwaysWellFormed == Spec => []FreelistWellFormed
<1>1. ArenaInvariant => FreelistWellFormed
  <2> SUFFICES ASSUME ArenaInvariant, NEW h \in {heap[arena] : arena \in Arenas}
               PROVE  /\ \A b \in DOMAIN h.next : \A level \in DOMAIN h.next[b] :
                            h.next[b][level] =
                                IF FollowersAt(h, b, level) = {} THEN Null
                                ELSE Min(FollowersAt(h, b, level))
                      /\ \A b \in FreeBlocks(h) :
                            /\ ~h.header[b].allocated
                            /\ b + h.header[b].size \notin FreeBlocks(h)
                            /\ Len(h.next[b]) >= LevelFor(h.header[b].size)
      BY Zenon DEF FreelistWellFormed
  <2>1. IsHeap(h) /\ NoNeighbours(h)
      BY ArenaIs
  <2>2. IsSkipList(h.next)
      BY <2>1 DEF IsHeap, FreelistOK
  <2>3. ASSUME NEW b \in DOMAIN h.next, NEW level \in DOMAIN h.next[b]
        PROVE  h.next[b][level] =
                   IF FollowersAt(h, b, level) = {} THEN Null ELSE Min(FollowersAt(h, b, level))
    <3> DEFINE n == h.next[b][level]
               F == FollowersAt(h, b, level)
    <3>1. /\ b \in Nat \ {0} /\ h.next[b] \in Seq(Nat) /\ level \in 1..Len(h.next[b])
          /\ \A m \in DOMAIN h.next : m \in Nat /\ Len(h.next[m]) \in Nat
        BY <2>2, Constants DEF IsSkipList
    <3>2. IsFirstAfter(h.next, b, level, n) /\ n \in Nat /\ level \in Nat
        BY <2>2, <3>1 DEF IsSkipList
    <3>3. \A m : m \in F <=> m \in DOMAIN h.next /\ m > b /\ Len(h.next[m]) >= level
      <4>1. \A m \in DOMAIN h.next : m > b => m # FreeList
          BY <3>1 DEF FreeList
      <4> QED BY <4>1 DEF FollowersAt, FreeBlocks
    <3> HIDE DEF n, F
    <3>4. F \in SUBSET Nat
        BY <3>1, <3>3
    <3>5. n = IF F = {} THEN Null ELSE Min(F)
      <4>1. CASE n = Null
        <5>1. n \notin DOMAIN h.next
            BY <4>1, <3>1, <2>2 DEF IsSkipList, Null
        <5>2. \A m \in DOMAIN h.next : m > b => Len(h.next[m]) < level
            BY <5>1, <3>2 DEF IsFirstAfter
        <5>3. F = {}
            BY <5>2, <3>1, <3>2, <3>3
        <5> QED BY <4>1, <5>3
      <4>2. CASE n # Null
        <5>1. /\ n \in DOMAIN h.next /\ n > b /\ level <= Len(h.next[n])
              /\ \A m \in DOMAIN h.next : m > b /\ m < n => Len(h.next[m]) < level
            BY <4>2, <3>2 DEF IsFirstAfter
        <5>2. n \in F
            BY <5>1, <3>1, <3>2, <3>3
        <5>3. \A m \in F : n <= m
            BY <5>1, <3>1, <3>2, <3>3
        <5>4. Min(F) = n
            BY <5>2, <5>3, <3>4, MinOfIs
        <5> QED BY <5>2, <5>4
      <4> QED BY <4>1, <4>2
    <3> QED BY <3>5 DEF n, F
  <2>4. ASSUME NEW b \in FreeBlocks(h)
        PROVE  /\ ~h.header[b].allocated
               /\ b + h.header[b].size \notin FreeBlocks(h)
               /\ Len(h.next[b]) >= LevelFor(h.header[b].size)
    <3>1. ~h.header[b].allocated /\ LevelFor(SizeIn(h, b)) <= Len(h.next[b])
          /\ SizeIn(h, b) \in Nat /\ SizeIn(h, b) >= MinSize /\ Len(h.next[b]) \in Nat
        BY <2>1, FreeBlockType
    <3>2. LevelFor(SizeIn(h, b)) \in Nat
        BY <3>1, LevelForIs
    <3>3. b + SizeIn(h, b) \notin FreeBlocks(h)
        BY <2>1 DEF NoNeighbours
    <3>4. Len(h.next[b]) >= LevelFor(SizeIn(h, b))
        BY <3>1, <3>2
    <3> QED BY <3>1, <3>3, <3>4 DEF SizeIn
  <2> QED BY <2>3, <2>4
<1> QED BY <1>1, ArenaInvariantInductive, PTL

(***************************************************************************)
(* The page argument behind what DeleteArena checks and munmap needs: in   *)
(* an arena without allocations, the block before and the block after a    *)
(* free block would be free and would touch it, if they began in the       *)
(* middle of a page, for a page belongs to one arena only.                 *)
(***************************************************************************)
LEMMA PageIsInOneArena ==
    ASSUME ArenaInvariant, NEW arena \in Arenas, NEW x \in Nat, Covers(heap[arena], x),
           NEW p \in Nat, p % PageSize = 0, InPage(x, p), NEW y \in Nat, InPage(y, p)
    PROVE  Covers(heap[arena], y)
<1>1. arena \in DOMAIN heap
    BY DEF Arenas
<1>2. PICK q \in mapped : InPage(x, q)
    BY <1>1 DEF ArenaInvariant, MemoryOK
<1>3. q \in Nat /\ q % PageSize = 0
    BY MemoryPagesIs DEF ArenaInvariant, MemoryOK
<1>4. q = p
    BY <1>2, <1>3, SamePage
<1>5. PICK a \in DOMAIN heap : \A z \in Nat : InPage(z, q) => Covers(heap[a], z)
    BY DEF ArenaInvariant, MemoryOK
<1>6. a = arena
    BY <1>1, <1>2, <1>5 DEF ArenaInvariant, MemoryOK
<1> QED BY <1>4, <1>5, <1>6

LEMMA EmptyArenaBlock ==
    ASSUME ArenaInvariant, NEW arena \in Arenas, AllocatedIn(heap[arena]) = {},
           NEW b \in FreeBlocks(heap[arena])
    PROVE  b % PageSize = 0 /\ SizeIn(heap[arena], b) % PageSize = 0
<1> DEFINE h == heap[arena]
<1>1. IsHeap(h) /\ HeadersOK(h) /\ NoNeighbours(h)
    BY ArenaIs
<1>2. PageSize \in Nat \ {0}
    BY Constants
<1>3. \A x, y, p \in Nat : Covers(h, x) /\ p % PageSize = 0 /\ InPage(x, p) /\ InPage(y, p) => Covers(h, y)
    BY PageIsInOneArena
<1> HIDE DEF h
<1>4. /\ b \in Nat /\ b > 2 /\ SizeIn(h, b) \in Nat /\ SizeIn(h, b) > 0
      /\ b \in DOMAIN h.header
    BY <1>1, FreeBlockType DEF h
<1> DEFINE end == b + SizeIn(h, b)
<1>5. ASSUME NEW x \in Nat, Covers(h, x)
      PROVE  \E c \in FreeBlocks(h) : c \in DOMAIN h.header /\ c \in Nat /\ SizeIn(h, c) \in Nat
                                      /\ c <= x /\ x < c + SizeIn(h, c)
  <2>1. PICK c \in DOMAIN h.header : c <= x /\ x < c + SizeIn(h, c)
      BY <1>5 DEF Covers
  <2>2. c \in Nat /\ SizeIn(h, c) \in Nat /\ (c = FreeList => SizeIn(h, c) = 0)
      BY <1>1, BlockType
  <2>3. c # FreeList
    <3>1. SizeIn(h, c) # 0
        BY <2>1, <2>2
    <3> QED BY <3>1, <2>2
  <2>4. c \in FreeBlocks(h)
      BY <2>3, <1>1, FreeBlocksAre DEF h, AllocatedIn
  <2> QED BY <2>1, <2>2, <2>4
<1>6. Covers(h, b) /\ Covers(h, end - 1) /\ end \in Nat /\ end - 1 \in Nat /\ b < end
  <2>1. end \in Nat /\ end - 1 \in Nat /\ b < end
      BY <1>4
  <2>2. b <= end - 1 /\ end - 1 < end
      BY <2>1, <1>4
  <2>3. Covers(h, b)
      BY <2>1, <1>4 DEF Covers
  <2>4. Covers(h, end - 1)
      BY <2>2, <1>4 DEF Covers
  <2> QED BY <2>1, <2>3, <2>4
<1>7. \A c \in FreeBlocks(h) : c + SizeIn(h, c) # b /\ end # c
    BY <1>1 DEF NoNeighbours, h
<1> HIDE DEF end
<1>8. b % PageSize = 0
  <2> SUFFICES ASSUME b % PageSize # 0 PROVE FALSE
      OBVIOUS
  <2>1. PICK p \in Nat : p % PageSize = 0 /\ p <= b /\ b < p + PageSize
      BY <1>2, <1>4, PageOf
  <2>2. p # b
      BY <2>1
  <2>3. b - 1 \in Nat /\ InPage(b, p) /\ InPage(b - 1, p)
      BY <2>1, <2>2, <1>2, <1>4 DEF InPage
  <2>4. Covers(h, b - 1)
      BY <2>1, <2>3, <1>3, <1>4, <1>6
  <2>5. PICK c \in FreeBlocks(h) : c \in DOMAIN h.header /\ c \in Nat /\ SizeIn(h, c) \in Nat
                                   /\ c <= b - 1 /\ b - 1 < c + SizeIn(h, c)
      BY <2>3, <2>4, <1>5
  <2>6. c + SizeIn(h, c) <= b
      BY <2>5, <1>1, <1>4 DEF HeadersOK
  <2>7. c + SizeIn(h, c) # b
      BY <1>7
  <2> QED BY <2>5, <2>6, <2>7, <1>4
<1>9. end % PageSize = 0
  <2> SUFFICES ASSUME end % PageSize # 0 PROVE FALSE
      OBVIOUS
  <2>1. PICK p \in Nat : p % PageSize = 0 /\ p <= end /\ end < p + PageSize
      BY <1>2, <1>6, PageOf
  <2>2. p # end
      BY <2>1
  <2>3. InPage(end, p) /\ InPage(end - 1, p)
      BY <2>1, <2>2, <1>2, <1>6 DEF InPage
  <2>4. Covers(h, end)
      BY <2>1, <2>3, <1>3, <1>6
  <2>5. PICK c \in FreeBlocks(h) : c \in DOMAIN h.header /\ c \in Nat /\ SizeIn(h, c) \in Nat
                                   /\ c <= end /\ end < c + SizeIn(h, c)
      BY <2>4, <1>5, <1>6
  <2>6. c # b
    <3> SUFFICES ASSUME c = b PROVE FALSE
        OBVIOUS
    <3>1. c + SizeIn(h, c) = end
        BY DEF end
    <3> QED BY <3>1, <2>5, <1>6
  <2>7. c < b => c + SizeIn(h, c) <= b
      BY <2>5, <1>1, <1>4 DEF HeadersOK
  <2>8. b < c => end <= c
      BY <2>5, <1>1, <1>4 DEF HeadersOK, end
  <2>9. c # end
      BY <1>7
  <2> QED BY <2>5, <2>6, <2>7, <2>8, <2>9, <1>4, <1>6
<1>10. (end - b) % PageSize = 0
  <2>1. b <= end
      BY <1>4, <1>6
  <2> QED BY <2>1, <1>2, <1>4, <1>6, <1>8, <1>9, DifferenceOfMultiples
<1>11. end - b = SizeIn(h, b)
    BY <1>4 DEF end
<1> QED BY <1>8, <1>10, <1>11 DEF h

(***************************************************************************)
(* Once all that was allocated is freed, an arena consists of free blocks  *)
(* of whole pages, so that DeleteArena can unmap each of them: no page is  *)
(* shared with another arena, and merging never stops short of the end of  *)
(* a region.                                                               *)
(***************************************************************************)
THEOREM EmptyArenaAlwaysAllPages == Spec => []EmptyArenaIsAllPages
<1>1. ArenaInvariant => EmptyArenaIsAllPages
  <2> SUFFICES ASSUME ArenaInvariant, NEW arena \in Arenas
               PROVE  allocation_count[arena] = 0 <=>
                          /\ Allocated(arena) = {}
                          /\ \A b \in FreeBlocks(heap[arena]) :
                                b % PageSize = 0 /\ heap[arena].header[b].size % PageSize = 0
      BY DEF EmptyArenaIsAllPages
  <2>1. allocation_count[arena] = 0 <=> AllocatedIn(heap[arena]) = {}
      BY FS_EmptySet DEF ArenaInvariant, ArenasOK, IsArena, Arenas
  <2>2. Allocated(arena) = AllocatedIn(heap[arena])
      BY ArenaIs
  <2>3. AllocatedIn(heap[arena]) = {} =>
            \A b \in FreeBlocks(heap[arena]) :
                b % PageSize = 0 /\ SizeIn(heap[arena], b) % PageSize = 0
      BY EmptyArenaBlock
  <2> QED BY <2>1, <2>2, <2>3 DEF SizeIn
<1> QED BY <1>1, ArenaInvariantInductive, PTL

-----------------------------------------------------------------------------
(***************************************************************************)
(* First fit is stated in units of Roundup bytes, so it takes that blocks  *)
(* begin and end at such units.                                            *)
(***************************************************************************)
IsAligned(h) ==
    \A b \in DOMAIN h.header \ {FreeList} : b % Roundup = 0 /\ SizeIn(h, b) % Roundup = 0

LEMMA SumOfMultiples ==
    ASSUME NEW n \in Nat \ {0}, NEW x \in Nat, NEW y \in Nat, x % n = 0, y % n = 0
    PROVE  (x + y) % n = 0
<1>1. PICK k \in Nat : x = k * n
    BY MultipleIsTimes
<1>2. PICK j \in Nat : y = j * n
    BY MultipleIsTimes
<1>3. ((k + j) * n) % n = 0
    BY TimesIsMultiple
<1>4. x + y = (k + j) * n
    BY <1>1, <1>2
<1> QED BY <1>3, <1>4

(* Pages begin at such units, too. *)
LEMMA PagesAreAligned ==
    ASSUME NEW x \in Nat, x % PageSize = 0
    PROVE  x % Roundup = 0
<1>1. PageSize \in Nat \ {0} /\ Roundup \in Nat \ {0} /\ PageSize % Roundup = 0
    BY ArenaAssumption
<1>2. PICK k \in Nat : x = k * PageSize
    BY <1>1, MultipleIsTimes
<1>3. PICK j \in Nat : PageSize = j * Roundup
    BY <1>1, MultipleIsTimes
<1>4. k * j \in Nat
    OBVIOUS
<1>5. ((k * j) * Roundup) % Roundup = 0
    BY <1>1, <1>4, TimesIsMultiple
<1>6. x = (k * j) * Roundup
    BY <1>1, <1>2, <1>3
<1> QED BY <1>5, <1>6

(* What is covered is covered by a block; two that meet are not both free. *)
LEMMA CoveringBlock ==
    ASSUME NEW h, IsHeap(h), NEW x \in Nat, Covers(h, x)
    PROVE  \E b \in DOMAIN h.header \ {FreeList} :
              /\ b \in Nat /\ SizeIn(h, b) \in Nat /\ b <= x /\ x < b + SizeIn(h, b)
              /\ b \in FreeBlocks(h) \/ b \in AllocatedIn(h)
<1>1. HeadersOK(h)
    BY DEF IsHeap
<1>2. PICK b \in DOMAIN h.header : b <= x /\ x < b + SizeIn(h, b)
    BY DEF Covers
<1>3. b \in Nat /\ SizeIn(h, b) \in Nat /\ (b = FreeList => SizeIn(h, b) = 0)
    BY <1>1, BlockType
<1>4. b # FreeList
  <2>1. SizeIn(h, b) # 0
      BY <1>2, <1>3
  <2> QED BY <2>1, <1>3
<1>5. b \in FreeBlocks(h) \/ b \in AllocatedIn(h)
    BY <1>4, FreeBlocksAre DEF AllocatedIn
<1> QED BY <1>2, <1>3, <1>4, <1>5

(* An end of a block that lies inside of another one, which covers the same memory in the *)
(* other heap, is an end of an allocated block.                                           *)
LEMMA StartsAligned ==
    ASSUME NEW h, IsHeap(h), IsAligned(h), NEW g, IsHeap(g), NoNeighbours(g),
           \A x \in Nat : Covers(g, x) <=> Covers(h, x),
           \A b \in AllocatedIn(g) : b % Roundup = 0 /\ SizeIn(g, b) % Roundup = 0,
           NEW c \in FreeBlocks(g)
    PROVE  c % Roundup = 0
<1>1. c \in Nat /\ c \in DOMAIN g.header /\ SizeIn(g, c) \in Nat /\ SizeIn(g, c) > 0 /\ c > 2
    BY FreeBlockType
<1>2. HeadersOK(g) /\ HeadersOK(h)
    BY DEF IsHeap
<1>3. Covers(h, c)
  <2>1. c <= c /\ c < c + SizeIn(g, c)
      BY <1>1
  <2> QED BY <2>1, <1>1 DEF Covers
<1>4. PICK d \in DOMAIN h.header \ {FreeList} :
          d \in Nat /\ SizeIn(h, d) \in Nat /\ d <= c /\ c < d + SizeIn(h, d)
    BY <1>1, <1>3, CoveringBlock
<1>5. CASE d = c
    BY <1>5 DEF IsAligned
<1>6. CASE d # c
  <2>1. c - 1 \in Nat /\ d <= c - 1 /\ c - 1 < d + SizeIn(h, d)
      BY <1>1, <1>4, <1>6
  <2>2. Covers(g, c - 1)
      BY <2>1 DEF Covers
  <2>3. PICK e \in DOMAIN g.header \ {FreeList} :
            /\ e \in Nat /\ SizeIn(g, e) \in Nat /\ e <= c - 1 /\ c - 1 < e + SizeIn(g, e)
            /\ e \in FreeBlocks(g) \/ e \in AllocatedIn(g)
      BY <2>1, <2>2, CoveringBlock
  <2>4. e < c => e + SizeIn(g, e) <= c
      BY <1>1, <1>2, <2>3 DEF HeadersOK
  <2>5. e + SizeIn(g, e) = c
      BY <1>1, <2>3, <2>4
  <2>6. e \in AllocatedIn(g)
      BY <2>3, <2>5 DEF NoNeighbours
  <2>7. (e + SizeIn(g, e)) % Roundup = 0
      BY <2>3, <2>6, Constants, SumOfMultiples
  <2> QED BY <2>5, <2>7
<1> QED BY <1>5, <1>6

LEMMA EndsAligned ==
    ASSUME NEW h, IsHeap(h), IsAligned(h), NEW g, IsHeap(g), NoNeighbours(g),
           \A x \in Nat : Covers(g, x) <=> Covers(h, x),
           \A b \in AllocatedIn(g) : b % Roundup = 0 /\ SizeIn(g, b) % Roundup = 0,
           NEW c \in FreeBlocks(g)
    PROVE  (c + SizeIn(g, c)) % Roundup = 0
<1> DEFINE end == c + SizeIn(g, c)
<1>1. c \in Nat /\ c \in DOMAIN g.header /\ SizeIn(g, c) \in Nat /\ SizeIn(g, c) > 0 /\ c > 2
    BY FreeBlockType
<1>2. HeadersOK(g) /\ HeadersOK(h)
    BY DEF IsHeap
<1>3. end \in Nat /\ end - 1 \in Nat /\ c <= end - 1 /\ end - 1 < end /\ c < end
    BY <1>1
<1>4. Covers(h, end - 1)
    BY <1>1, <1>3 DEF Covers
<1>5. PICK d \in DOMAIN h.header \ {FreeList} :
          d \in Nat /\ SizeIn(h, d) \in Nat /\ d <= end - 1 /\ end - 1 < d + SizeIn(h, d)
    BY <1>3, <1>4, CoveringBlock
<1>6. \A e \in DOMAIN g.header : e > c => e >= end
    BY <1>1, <1>2 DEF HeadersOK
<1>7. \A e \in DOMAIN g.header : e < c => e + SizeIn(g, e) <= c
    BY <1>1, <1>2 DEF HeadersOK
<1>8. \A e \in FreeBlocks(g) : e # end
    BY DEF NoNeighbours
<1> HIDE DEF end
<1>9. CASE end = d + SizeIn(h, d)
    BY <1>5, <1>9, Constants, SumOfMultiples DEF IsAligned, end
<1>10. CASE end # d + SizeIn(h, d)
  <2>1. d <= end /\ end < d + SizeIn(h, d)
      BY <1>3, <1>5, <1>10
  <2>2. Covers(g, end)
      BY <2>1, <1>3 DEF Covers
  <2>3. PICK e \in DOMAIN g.header \ {FreeList} :
            /\ e \in Nat /\ SizeIn(g, e) \in Nat /\ e <= end /\ end < e + SizeIn(g, e)
            /\ e \in FreeBlocks(g) \/ e \in AllocatedIn(g)
      BY <2>2, <1>3, CoveringBlock
  <2>4. e # c
    <3> SUFFICES ASSUME e = c PROVE FALSE
        OBVIOUS
    <3>1. e + SizeIn(g, e) = end
        BY DEF end
    <3> QED BY <3>1, <2>3, <1>3
  <2>5. e = end
      BY <2>3, <2>4, <1>1, <1>3, <1>6, <1>7
  <2>6. e \in AllocatedIn(g)
      BY <2>3, <2>5, <1>8
  <2> QED BY <2>5, <2>6 DEF end
<1> QED BY <1>9, <1>10

LEMMA AlignmentFollowsMemory ==
    ASSUME NEW h, IsHeap(h), IsAligned(h), NEW g, IsHeap(g), NoNeighbours(g),
           \A x \in Nat : Covers(g, x) <=> Covers(h, x),
           \A b \in AllocatedIn(g) : b % Roundup = 0 /\ SizeIn(g, b) % Roundup = 0
    PROVE  IsAligned(g)
<1> SUFFICES ASSUME NEW c \in DOMAIN g.header \ {FreeList}
             PROVE  c % Roundup = 0 /\ SizeIn(g, c) % Roundup = 0
    BY DEF IsAligned
<1>1. c \in FreeBlocks(g) \/ c \in AllocatedIn(g)
    BY FreeBlocksAre DEF AllocatedIn
<1>2. CASE c \in FreeBlocks(g)
  <2> DEFINE end == c + SizeIn(g, c)
  <2>1. c % Roundup = 0 /\ end % Roundup = 0
      BY <1>2, StartsAligned, EndsAligned
  <2>2. c \in Nat /\ SizeIn(g, c) \in Nat
      BY <1>2, FreeBlockType
  <2>3. end \in Nat /\ c <= end /\ end - c = SizeIn(g, c)
      BY <2>2
  <2> HIDE DEF end
  <2>4. (end - c) % Roundup = 0
      BY <2>1, <2>2, <2>3, Constants, DifferenceOfMultiples
  <2> QED BY <2>1, <2>3, <2>4
<1> QED BY <1>1, <1>2

LEMMA FreedIsAligned ==
    ASSUME NEW h, IsHeap(h), IsAligned(h), NEW f, NEW g, IsFreed(h, f, g)
    PROVE  IsAligned(g)
<1>1. \A b \in AllocatedIn(g) : b % Roundup = 0 /\ SizeIn(g, b) % Roundup = 0
  <2> TAKE b \in AllocatedIn(g)
  <2>1. b \in AllocatedIn(h) /\ SizeIn(g, b) = SizeIn(h, b)
      BY DEF IsFreed, SizeIn
  <2>2. b \in DOMAIN h.header \ {FreeList}
      BY <2>1 DEF AllocatedIn, IsHeap, HeadersOK
  <2> QED BY <2>1, <2>2 DEF IsAligned
<1>2. IsHeap(g) /\ NoNeighbours(g) /\ \A x \in Nat : Covers(g, x) <=> Covers(h, x)
    BY DEF IsFreed
<1> QED BY <1>1, <1>2, AlignmentFollowsMemory

LEMMA TakenIsAligned ==
    ASSUME NEW h, IsHeap(h), IsAligned(h), NEW s \in FreeBlocks(h), NEW size, size % Roundup = 0,
           NEW g, IsTaken(h, s, size, g)
    PROVE  IsAligned(g)
<1>1. s \in DOMAIN h.header \ {FreeList}
    BY FreeBlockType
<1>2. \A b \in AllocatedIn(g) : b % Roundup = 0 /\ SizeIn(g, b) % Roundup = 0
  <2> TAKE b \in AllocatedIn(g)
  <2>1. CASE b = s
      BY <2>1, <1>1 DEF IsAligned, IsTaken
  <2>2. CASE b # s
    <3>1. b \in AllocatedIn(h) /\ SizeIn(g, b) = SizeIn(h, b)
        BY <2>2 DEF IsTaken, SizeIn
    <3>2. b \in DOMAIN h.header \ {FreeList}
        BY <3>1 DEF AllocatedIn, IsHeap, HeadersOK
    <3> QED BY <3>1, <3>2 DEF IsAligned
  <2> QED BY <2>1, <2>2
<1>3. IsHeap(g) /\ NoNeighbours(g) /\ \A x \in Nat : Covers(g, x) <=> Covers(h, x)
    BY DEF IsTaken
<1> QED BY <1>2, <1>3, AlignmentFollowsMemory

-----------------------------------------------------------------------------
(***************************************************************************)
(* The units of memory that an arena has, and those that are free, and     *)
(* what FirstFit says of them.                                             *)
(***************************************************************************)
UnitsOf(h) == {a \in Memory : Covers(h, a)}

FreeUnits(h) == {a \in Memory : \E b \in FreeBlocks(h) : b <= a /\ a < b + SizeIn(h, b)}

SpanOf(start, size) == {a \in Memory : start <= a /\ a < start + size}

FitsIn(free, size) ==
    {a \in free : a - Roundup \notin free /\ \A b \in a..(a + size - 1) : b % Roundup = 0 => b \in free}

Extent(free, start) == {a \in free : start <= a /\ (start..a) \intersect Memory \subseteq free}

SizeTaken(free, start, size) ==
    IF SpanOf(start, size + MinSize) \subseteq free /\ start + size + MinSize - Roundup \in free
    THEN size
    ELSE Cardinality(Extent(free, start)) * Roundup

LEMMA MemoryIs ==
    ASSUME NEW a
    PROVE  a \in Memory <=> a \in Nat /\ MemoryStart <= a /\ a < MemoryEnd /\ a % Roundup = 0
    BY ArenaAssumption DEF Memory

LEMMA FreeUnitsIs ==
    ASSUME NEW h, NEW a \in FreeUnits(h)
    PROVE  /\ a \in Nat /\ a % Roundup = 0
           /\ \E b \in FreeBlocks(h) : b <= a /\ a < b + SizeIn(h, b)
    BY MemoryIs DEF FreeUnits

(* The units of a free block are free. *)
LEMMA UnitsOfFreeBlock ==
    ASSUME NEW h, IsHeap(h), NEW b \in FreeBlocks(h), NEW a \in Nat, a % Roundup = 0,
           b <= a, a < b + SizeIn(h, b)
    PROVE  a \in FreeUnits(h)
<1>1. /\ b \in Nat /\ SizeIn(h, b) \in Nat /\ MemoryStart \in Nat /\ MemoryEnd \in Nat
    BY FreeBlockType, ArenaAssumption
<1>2. b >= MemoryStart /\ b + SizeIn(h, b) <= MemoryEnd
  <2>1. HeadersOK(h) /\ b \in DOMAIN h.header \ {FreeList}
      BY FreeBlockType DEF IsHeap
  <2> QED BY <2>1 DEF HeadersOK
<1>3. a \in Memory
    BY <1>1, <1>2, MemoryIs
<1> QED BY <1>3 DEF FreeUnits

(* A free block ends where what is free ends, and begins where it begins. *)
LEMMA EndIsNotFree ==
    ASSUME NEW h, IsHeap(h), NoNeighbours(h), NEW b \in FreeBlocks(h), NEW end, end = b + SizeIn(h, b)
    PROVE  end \notin FreeUnits(h)
<1> SUFFICES ASSUME end \in FreeUnits(h) PROVE FALSE
    OBVIOUS
<1>1. PICK c \in FreeBlocks(h) : c <= end /\ end < c + SizeIn(h, c)
    BY FreeUnitsIs
<1>2. /\ b \in Nat /\ SizeIn(h, b) \in Nat /\ SizeIn(h, b) > 0 /\ b \in DOMAIN h.header
      /\ c \in Nat /\ SizeIn(h, c) \in Nat /\ c \in DOMAIN h.header
    BY FreeBlockType
<1>3. end \in Nat /\ b < end /\ c # end
    BY <1>2 DEF NoNeighbours
<1>4. c # b
  <2> SUFFICES ASSUME c = b PROVE FALSE
      OBVIOUS
  <2>1. c + SizeIn(h, c) = end
      OBVIOUS
  <2> QED BY <2>1, <1>1, <1>3
<1>5. (c < b => c + SizeIn(h, c) <= b) /\ (b < c => end <= c)
    BY <1>2 DEF IsHeap, HeadersOK
<1> QED BY <1>1, <1>2, <1>3, <1>4, <1>5

LEMMA StartIsNotAfterFree ==
    ASSUME NEW h, IsHeap(h), NoNeighbours(h), IsAligned(h), NEW b \in FreeBlocks(h)
    PROVE  b - Roundup \notin FreeUnits(h)
<1> DEFINE a == b - Roundup
<1> SUFFICES ASSUME a \in FreeUnits(h) PROVE FALSE
    OBVIOUS
<1>1. a \in Nat /\ a % Roundup = 0
    BY FreeUnitsIs
<1>2. PICK c \in FreeBlocks(h) : c <= a /\ a < c + SizeIn(h, c)
    BY FreeUnitsIs
<1>3. /\ b \in Nat /\ b \in DOMAIN h.header \ {FreeList}
      /\ c \in Nat /\ SizeIn(h, c) \in Nat /\ c \in DOMAIN h.header \ {FreeList}
      /\ Roundup \in Nat \ {0}
    BY FreeBlockType, Constants
<1>4. a + Roundup = b /\ a < b
    BY <1>1, <1>3
<1> HIDE DEF a
<1> DEFINE end == c + SizeIn(h, c)
<1>5. end \in Nat /\ end % Roundup = 0
    BY <1>3, SumOfMultiples DEF IsAligned
<1>6. end # b
    BY DEF NoNeighbours
<1>7. c < b => end <= b
    BY <1>3 DEF IsHeap, HeadersOK
<1>8. a < end
    BY <1>2
<1> HIDE DEF end
<1>9. a + Roundup <= end
    BY <1>1, <1>3, <1>5, <1>8, MultiplesApart
<1> QED BY <1>1, <1>2, <1>3, <1>4, <1>5, <1>6, <1>7, <1>9

(* Where a size fits: at the free blocks that are large enough. *)
LEMMA FitsAreBlocks ==
    ASSUME NEW h, IsHeap(h), NoNeighbours(h), IsAligned(h),
           NEW size \in Nat, size % Roundup = 0, size > 0
    PROVE  FitsIn(FreeUnits(h), size) = {b \in FreeBlocks(h) : SizeIn(h, b) >= size}
<1>1. Roundup \in Nat \ {0}
    BY Constants
<1>2. ASSUME NEW b \in FreeBlocks(h)
      PROVE  /\ b \in Nat /\ b % Roundup = 0 /\ b \in DOMAIN h.header /\ b # FreeList
             /\ SizeIn(h, b) \in Nat /\ SizeIn(h, b) > 0
             /\ b + SizeIn(h, b) \in Nat /\ (b + SizeIn(h, b)) % Roundup = 0
  <2>1. /\ b \in Nat /\ b \in DOMAIN h.header \ {FreeList}
        /\ SizeIn(h, b) \in Nat /\ SizeIn(h, b) > 0
      BY FreeBlockType
  <2>2. b % Roundup = 0 /\ SizeIn(h, b) % Roundup = 0
      BY <2>1 DEF IsAligned
  <2> QED BY <2>1, <2>2, <1>1, SumOfMultiples
<1>3. ASSUME NEW b \in FreeBlocks(h), SizeIn(h, b) >= size
      PROVE  b \in FitsIn(FreeUnits(h), size)
  <2>1. b \in Nat /\ SizeIn(h, b) \in Nat /\ SizeIn(h, b) > 0 /\ b % Roundup = 0
      BY <1>2
  <2>2. b \in FreeUnits(h)
    <3>1. b <= b /\ b < b + SizeIn(h, b)
        BY <2>1
    <3> QED BY <2>1, <3>1, UnitsOfFreeBlock
  <2>3. b - Roundup \notin FreeUnits(h)
      BY StartIsNotAfterFree
  <2>4. ASSUME NEW a \in b..(b + size - 1), a % Roundup = 0
        PROVE  a \in FreeUnits(h)
    <3>1. a \in Nat /\ b <= a /\ a < b + SizeIn(h, b)
        BY <2>1, <1>3
    <3> QED BY <2>4, <3>1, UnitsOfFreeBlock
  <2> QED BY <2>2, <2>3, <2>4 DEF FitsIn
<1>4. ASSUME NEW a \in FitsIn(FreeUnits(h), size)
      PROVE  a \in FreeBlocks(h) /\ SizeIn(h, a) >= size
  <2>1. /\ a \in FreeUnits(h) /\ a - Roundup \notin FreeUnits(h)
        /\ \A b \in a..(a + size - 1) : b % Roundup = 0 => b \in FreeUnits(h)
      BY DEF FitsIn
  <2>2. a \in Nat /\ a % Roundup = 0
      BY <2>1, FreeUnitsIs
  <2>3. PICK c \in FreeBlocks(h) : c <= a /\ a < c + SizeIn(h, c)
      BY <2>1, FreeUnitsIs
  <2>4. c \in Nat /\ c % Roundup = 0 /\ SizeIn(h, c) \in Nat
      BY <1>2
  <2>5. c = a
    <3> SUFFICES ASSUME c < a PROVE FALSE
        BY <2>2, <2>3, <2>4
    <3>1. c + Roundup <= a
        BY <1>1, <2>2, <2>4, MultiplesApart
    <3>2. a - Roundup \in Nat /\ c <= a - Roundup /\ a - Roundup < c + SizeIn(h, c)
        BY <1>1, <2>2, <2>3, <2>4, <3>1
    <3>3. Roundup % Roundup = 0
        BY <1>1
    <3>4. Roundup <= a
        BY <1>1, <2>2, <2>4, <3>1
    <3>5. (a - Roundup) % Roundup = 0
        BY <1>1, <2>2, <3>3, <3>4, DifferenceOfMultiples
    <3>6. a - Roundup \in FreeUnits(h)
        BY <3>2, <3>5, UnitsOfFreeBlock
    <3> QED BY <3>6, <2>1
  <2>6. SizeIn(h, c) >= size
    <3> SUFFICES ASSUME SizeIn(h, c) < size PROVE FALSE
        BY <2>4
    <3> DEFINE end == c + SizeIn(h, c)
    <3>1. end \in Nat /\ end % Roundup = 0 /\ c < end
        BY <1>2
    <3>2. end < c + size
        BY <2>4
    <3>3. end \notin FreeUnits(h)
        BY EndIsNotFree
    <3> HIDE DEF end
    <3>4. end \in a..(a + size - 1)
        BY <2>4, <2>5, <3>1, <3>2
    <3> QED BY <3>1, <3>3, <3>4, <2>1
  <2> QED BY <2>3, <2>5, <2>6
<1> QED BY <1>3, <1>4

(* The units of a stretch of memory, counted. *)
LEMMA CountOfUnits ==
    ASSUME NEW start \in Nat, start % Roundup = 0, start >= MemoryStart,
           NEW n \in Nat, start + n * Roundup <= MemoryEnd
    PROVE  Cardinality(SpanOf(start, n * Roundup)) = n
<1> DEFINE S == SpanOf(start, n * Roundup)
           unit == [i \in 1..n |-> start + (i - 1) * Roundup]
<1>1. Roundup \in Nat \ {0} /\ MemoryStart \in Nat /\ MemoryEnd \in Nat /\ n * Roundup \in Nat
    BY ArenaAssumption
<1>2. PICK k \in Nat : start = k * Roundup
    BY <1>1, MultipleIsTimes
<1>3. ASSUME NEW i \in 1..n
      PROVE  unit[i] \in S
  <2> DEFINE below == (i - 1) * Roundup
             a == start + below
  <2>1. i - 1 \in Nat /\ i - 1 < n
      OBVIOUS
  <2>2. below \in Nat /\ below % Roundup = 0
      BY <1>1, <2>1, TimesIsMultiple
  <2>3. below + Roundup <= n * Roundup
      BY <1>1, <2>1, TimesMonotone
  <2> HIDE DEF below
  <2>4. a \in Nat /\ a % Roundup = 0
    <3>1. (start + below) % Roundup = 0
        BY <1>1, <2>2, SumOfMultiples
    <3> QED BY <3>1, <2>2
  <2>5. start <= a /\ a < start + n * Roundup /\ a >= MemoryStart /\ a < MemoryEnd
      BY <1>1, <2>2, <2>3
  <2>6. a \in S
      BY <2>4, <2>5, MemoryIs DEF SpanOf
  <2>7. unit[i] = a
      BY DEF below
  <2> QED BY <2>6, <2>7
<1>4. ASSUME NEW i \in 1..n, NEW j \in 1..n, unit[i] = unit[j]
      PROVE  i = j
  <2>1. (i - 1) * Roundup = (j - 1) * Roundup
    <3>1. (i - 1) * Roundup \in Nat /\ (j - 1) * Roundup \in Nat
        BY <1>1
    <3> QED BY <1>4, <3>1
  <2>2. i - 1 < j - 1 => (i - 1) * Roundup + Roundup <= (j - 1) * Roundup
      BY <1>1, TimesMonotone
  <2>3. j - 1 < i - 1 => (j - 1) * Roundup + Roundup <= (i - 1) * Roundup
      BY <1>1, TimesMonotone
  <2>4. (i - 1) * Roundup \in Nat
      BY <1>1
  <2> DEFINE x == (i - 1) * Roundup
             y == (j - 1) * Roundup
  <2>5. x = y /\ x \in Nat /\ (i - 1 < j - 1 => x + Roundup <= y) /\ (j - 1 < i - 1 => y + Roundup <= x)
      BY <2>1, <2>2, <2>3, <2>4
  <2> HIDE DEF x, y
  <2> QED BY <2>5, <1>1
<1>5. ASSUME NEW a \in S
      PROVE  \E i \in 1..n : unit[i] = a
  <2>1. a \in Nat /\ a % Roundup = 0 /\ start <= a /\ a < start + n * Roundup
      BY MemoryIs DEF SpanOf
  <2>2. PICK j \in Nat : a = j * Roundup
      BY <1>1, <2>1, MultipleIsTimes
  <2>3. k <= j
    <3> SUFFICES ASSUME j < k PROVE FALSE
        OBVIOUS
    <3>1. j * Roundup + Roundup <= k * Roundup
        BY <1>1, TimesMonotone
    <3> QED BY <3>1, <1>1, <1>2, <2>1, <2>2
  <2>4. j < k + n
    <3> SUFFICES ASSUME k + n <= j PROVE FALSE
        OBVIOUS
    <3>1. (k + n) * Roundup <= j * Roundup
      <4>1. CASE k + n = j
          BY <4>1, <1>1
      <4>2. CASE k + n < j
        <5>1. (k + n) * Roundup + Roundup <= j * Roundup
            BY <4>2, <1>1, TimesMonotone
        <5>2. (k + n) * Roundup \in Nat /\ j * Roundup \in Nat
            BY <1>1
        <5> QED BY <5>1, <5>2, <1>1
      <4> QED BY <4>1, <4>2
    <3>2. (k + n) * Roundup = start + n * Roundup
        BY <1>1, <1>2
    <3> QED BY <3>1, <3>2, <1>1, <2>1, <2>2
  <2> DEFINE i == j - k + 1
  <2>5. i \in 1..n
      BY <2>3, <2>4
  <2>6. (j - k) * Roundup + k * Roundup = j * Roundup
      BY <1>1
  <2>7. unit[i] = start + (j - k) * Roundup
    <3>1. i - 1 = j - k
        OBVIOUS
    <3> HIDE DEF i
    <3> QED BY <2>5, <3>1
  <2>8. unit[i] = a
    <3>1. (j - k) * Roundup \in Int /\ k * Roundup \in Int
        BY <1>1
    <3> QED BY <3>1, <2>2, <2>6, <2>7, <1>2
  <2> QED BY <2>5, <2>8
<1> HIDE DEF S
<1>6. unit \in Bijection(1..n, S)
  <2>1. unit \in [1..n -> S]
      BY <1>3
  <2> HIDE DEF unit
  <2> QED BY <2>1, <1>4, <1>5, Zenon DEF Bijection, Injection, Surjection, IsInjective
<1>7. ExistsBijection(1..n, S)
    BY <1>6 DEF ExistsBijection
<1>8. IsFiniteSet(1..n) /\ Cardinality(1..n) = n
    BY FS_Interval
<1>9. Cardinality(S) = n
    BY <1>7, <1>8, FS_Bijection
<1> QED BY <1>9 DEF S

(* What is taken of a free block: as much as was asked for, or all of it. *)
LEMMA SizeTakenIs ==
    ASSUME NEW h, IsHeap(h), NoNeighbours(h), IsAligned(h), NEW s \in FreeBlocks(h),
           NEW size \in Nat, size % Roundup = 0, SizeIn(h, s) >= size
    PROVE  SizeTaken(FreeUnits(h), s, size) =
               IF CanBeBlock(SizeIn(h, s) - size) THEN size ELSE SizeIn(h, s)
<1> DEFINE free == FreeUnits(h)
           end == s + SizeIn(h, s)
           room == s + size + MinSize
           Splits == SpanOf(s, size + MinSize) \subseteq free /\ room - Roundup \in free
<1>1. /\ Roundup \in Nat \ {0} /\ MinSize \in Nat /\ MinSize = Roundup + Roundup
      /\ MemoryStart \in Nat /\ MemoryEnd \in Nat
    BY Constants, ArenaAssumption DEF MinSize
<1>2. s \in Nat /\ s \in DOMAIN h.header \ {FreeList} /\ SizeIn(h, s) \in Nat /\ SizeIn(h, s) > 0
    BY FreeBlockType
<1>3. s >= MemoryStart /\ end <= MemoryEnd
    BY <1>2 DEF IsHeap, HeadersOK
<1>4. s % Roundup = 0 /\ SizeIn(h, s) % Roundup = 0
    BY <1>2 DEF IsAligned
<1>5. end \in Nat /\ end % Roundup = 0 /\ s < end
  <2>1. (s + SizeIn(h, s)) % Roundup = 0
      BY <1>1, <1>2, <1>4, SumOfMultiples
  <2> QED BY <2>1, <1>2
<1>6. end \notin free
    BY EndIsNotFree
<1>7. room \in Nat /\ room % Roundup = 0
  <2>1. Roundup % Roundup = 0
      BY <1>1
  <2>2. MinSize % Roundup = 0
      BY <1>1, <2>1, SumOfMultiples
  <2>3. (s + size) % Roundup = 0 /\ s + size \in Nat
      BY <1>1, <1>2, <1>4, SumOfMultiples
  <2>4. ((s + size) + MinSize) % Roundup = 0
      BY <1>1, <2>2, <2>3, SumOfMultiples
  <2> QED BY <2>3, <2>4, <1>1
<1>8. CanBeBlock(SizeIn(h, s) - size) <=> room <= end
    BY <1>1, <1>2 DEF CanBeBlock
<1>9. \A a \in Nat : a % Roundup = 0 /\ s <= a /\ a < end => a \in free
    BY UnitsOfFreeBlock
<1>10. SizeIn(h, s) = end - s
    BY <1>2
<1> HIDE DEF free, end
<1>11. ASSUME room <= end
       PROVE  Splits
  <2>1. \A a \in SpanOf(s, size + MinSize) : a \in free
    <3> TAKE a \in SpanOf(s, size + MinSize)
    <3>1. a \in Nat /\ a % Roundup = 0 /\ s <= a /\ a < s + (size + MinSize)
        BY MemoryIs DEF SpanOf
    <3>2. a < end
        BY <3>1, <1>1, <1>2, <1>5, <1>11
    <3> QED BY <3>1, <3>2, <1>9
  <2>2. room - Roundup \in Nat /\ s <= room - Roundup /\ room - Roundup < end
      BY <1>1, <1>2, <1>5, <1>11
  <2>3. (room - Roundup) % Roundup = 0
    <3>1. Roundup % Roundup = 0 /\ Roundup <= room
        BY <1>1, <1>2
    <3> HIDE DEF room
    <3> QED BY <3>1, <1>1, <1>7, DifferenceOfMultiples
  <2>4. room - Roundup \in free
      BY <2>2, <2>3, <1>9
  <2> QED BY <2>1, <2>4
<1>12. ASSUME Splits
       PROVE  room <= end
  <2> SUFFICES ASSUME end < room PROVE FALSE
      BY <1>5, <1>7
  <2>1. end + Roundup <= room
    <3> HIDE DEF room
    <3> QED BY <1>1, <1>5, <1>7, MultiplesApart
  <2>2. room - Roundup \in free
      BY <1>12
  <2>3. room - Roundup \in Memory
      BY <2>2 DEF free, FreeUnits
  <2>4. room - Roundup < MemoryEnd
      BY <2>3, MemoryIs
  <2>5. end < MemoryEnd /\ MemoryStart <= end
      BY <2>1, <2>4, <1>1, <1>3, <1>2, <1>5
  <2>6. end \in Memory
      BY <2>5, <1>5, MemoryIs
  <2>7. end < s + (size + MinSize) /\ s <= end
      BY <1>1, <1>2, <1>5
  <2>8. end \in SpanOf(s, size + MinSize)
      BY <2>6, <2>7 DEF SpanOf
  <2> QED BY <2>8, <1>6, <1>12
<1>13. Cardinality(Extent(free, s)) * Roundup = SizeIn(h, s)
  <2>1. PICK n \in Nat : SizeIn(h, s) = n * Roundup
      BY <1>1, <1>2, <1>4, MultipleIsTimes
  <2>2. ASSUME NEW a
        PROVE  a \in Extent(free, s) <=> a \in SpanOf(s, SizeIn(h, s))
    <3>1. ASSUME a \in Extent(free, s)
          PROVE  a \in SpanOf(s, SizeIn(h, s))
      <4>1. a \in Memory /\ s <= a /\ (s..a) \intersect Memory \subseteq free
          BY <3>1 DEF Extent, free, FreeUnits
      <4>2. a \in Nat /\ a < MemoryEnd
          BY <4>1, MemoryIs
      <4>3. ~(end <= a)
        <5> SUFFICES ASSUME end <= a PROVE FALSE
            OBVIOUS
        <5>1. end < MemoryEnd /\ MemoryStart <= end
            BY <4>2, <1>1, <1>2, <1>3, <1>5
        <5>2. end \in Memory
            BY <5>1, <1>5, MemoryIs
        <5>3. end \in s..a
            BY <4>2, <1>2, <1>5
        <5> QED BY <5>2, <5>3, <4>1, <1>6
      <4>4. a < end
          BY <4>2, <4>3, <1>5
      <4> QED BY <4>1, <4>4 DEF SpanOf, end
    <3>2. ASSUME a \in SpanOf(s, SizeIn(h, s))
          PROVE  a \in Extent(free, s)
      <4>1. a \in Nat /\ a % Roundup = 0 /\ s <= a /\ a < end
          BY <3>2, MemoryIs DEF SpanOf, end
      <4>2. \A b \in (s..a) \intersect Memory : b \in free
        <5> TAKE b \in (s..a) \intersect Memory
        <5>1. b \in Nat /\ b % Roundup = 0 /\ s <= b /\ b <= a
            BY <4>1, <1>2, MemoryIs
        <5>2. b < end
            BY <5>1, <4>1, <1>5
        <5> QED BY <5>1, <5>2, <1>9
      <4> QED BY <4>1, <4>2, <1>9 DEF Extent
    <3> QED BY <3>1, <3>2
  <2>3. Extent(free, s) = SpanOf(s, SizeIn(h, s))
      BY <2>2 DEF Extent, SpanOf
  <2>4. Cardinality(SpanOf(s, n * Roundup)) = n
    <3>1. s + n * Roundup <= MemoryEnd
        BY <2>1, <1>3 DEF end
    <3> QED BY <3>1, <1>2, <1>3, <1>4, CountOfUnits
  <2> QED BY <2>1, <2>3, <2>4
<1>14. SizeTaken(free, s, size) = IF Splits THEN size ELSE Cardinality(Extent(free, s)) * Roundup
  <2>1. s + size + MinSize - Roundup = room - Roundup
      BY <1>1, <1>2
  <2> QED BY <2>1, Zenon DEF SizeTaken
<1>15. Splits <=> CanBeBlock(SizeIn(h, s) - size)
    BY <1>8, <1>11, <1>12
<1> HIDE DEF Splits
<1> QED BY <1>13, <1>14, <1>15 DEF free

(* What is free is what no allocation lies in. *)
InAllocation(h, x) == \E b \in AllocatedIn(h) : b <= x /\ x < b + SizeIn(h, b)

LEMMA FreeUnitsAre ==
    ASSUME NEW h, IsHeap(h)
    PROVE  FreeUnits(h) = {a \in UnitsOf(h) : ~InAllocation(h, a)}
<1>1. HeadersOK(h)
    BY DEF IsHeap
<1>2. ASSUME NEW a \in FreeUnits(h)
      PROVE  a \in UnitsOf(h) /\ ~InAllocation(h, a)
  <2>1. a \in Memory /\ a \in Nat
      BY MemoryIs DEF FreeUnits
  <2>2. PICK b \in FreeBlocks(h) : b <= a /\ a < b + SizeIn(h, b)
      BY FreeUnitsIs
  <2>3. b \in DOMAIN h.header /\ b \in Nat /\ SizeIn(h, b) \in Nat /\ ~h.header[b].allocated
      BY FreeBlockType
  <2>4. ASSUME NEW c \in AllocatedIn(h), c <= a, a < c + SizeIn(h, c)
        PROVE  FALSE
    <3>1. c \in DOMAIN h.header /\ h.header[c].allocated /\ c # b
        BY <2>3 DEF AllocatedIn
    <3>2. c \in Nat /\ SizeIn(h, c) \in Nat
        BY <1>1, <3>1, BlockType
    <3>3. (c < b => c + SizeIn(h, c) <= b) /\ (b < c => b + SizeIn(h, b) <= c)
        BY <1>1, <2>3, <3>1 DEF HeadersOK
    <3> QED BY <2>1, <2>2, <2>3, <2>4, <3>1, <3>2, <3>3
  <2> QED BY <2>1, <2>2, <2>3, <2>4 DEF UnitsOf, Covers, InAllocation
<1>3. ASSUME NEW a \in UnitsOf(h), ~InAllocation(h, a)
      PROVE  a \in FreeUnits(h)
  <2>1. a \in Memory /\ a \in Nat /\ Covers(h, a)
      BY MemoryIs DEF UnitsOf
  <2>2. PICK b \in DOMAIN h.header \ {FreeList} :
            /\ b <= a /\ a < b + SizeIn(h, b)
            /\ b \in FreeBlocks(h) \/ b \in AllocatedIn(h)
      BY <2>1, CoveringBlock
  <2>3. b \in FreeBlocks(h)
      BY <2>2, <1>3 DEF InAllocation
  <2> QED BY <2>1, <2>2, <2>3 DEF FreeUnits
<1> QED BY <1>2, <1>3

LEMMA SizeOfIsAligned ==
    ASSUME NEW request \in Request \union {ArenaSize}
    PROVE  /\ SizeOf(request) \in Nat /\ SizeOf(request) >= MinSize /\ SizeOf(request) > 0
           /\ SizeOf(request) % Roundup = 0
<1>1. request + HeaderSize \in Nat /\ Roundup \in Nat \ {0} /\ MinSize \in Nat /\ MinSize > 0
    BY ArenaAssumption, Constants
<1>2. SizeOf(request) % Roundup = 0
    BY <1>1, RoundUpIs DEF SizeOf
<1>3. SizeOf(request) \in Nat /\ SizeOf(request) >= MinSize
    BY SizeOfIs
<1> QED BY <1>1, <1>2, <1>3

(***************************************************************************)
(* A block is placed in an arena as FirstFit does it: at the lowest place  *)
(* where the size fits, and everything else stays where it is.             *)
(***************************************************************************)
IsPlaced(h, free, size, block, g) ==
    /\ block = Min(FitsIn(free, size))
    /\ block \notin AllocatedIn(h) /\ AllocatedIn(g) = AllocatedIn(h) \union {block}
    /\ \A b \in AllocatedIn(h) : g.header[b] = h.header[b]
    /\ SizeIn(g, block) = SizeTaken(free, block, size)

LEMMA WhereItFits ==
    ASSUME NEW h, IsHeap(h), NoNeighbours(h), IsAligned(h),
           NEW size \in Nat, size % Roundup = 0, size >= MinSize, NEW free, free = FreeUnits(h)
    PROVE  IF FirstFitting(h, size) = Null
           THEN FitsIn(free, size) = {}
           ELSE /\ FirstFitting(h, size) \in FreeBlocks(h)
                /\ SizeIn(h, FirstFitting(h, size)) >= size
                /\ FitsIn(free, size) # {} /\ FirstFitting(h, size) = Min(FitsIn(free, size))
<1> DEFINE large == {b \in FreeBlocks(h) : SizeIn(h, b) >= size}
           s == FirstFitting(h, size)
<1>1. size > 0
    BY Constants
<1>2. FitsIn(free, size) = large
    BY <1>1, FitsAreBlocks
<1>3. large \in SUBSET Nat /\ Null \notin large
    BY FreeBlockType DEF Null
<1>4. IF large # {} THEN s \in large /\ \A c \in large : s <= c ELSE s = Null
  <2>1. IF \E c \in FreeBlocks(h) : SizeIn(h, c) >= size
        THEN /\ s \in FreeBlocks(h) /\ SizeIn(h, s) >= size
             /\ \A c \in FreeBlocks(h) : SizeIn(h, c) >= size => s <= c
        ELSE s = Null
      BY FirstFittingIs
  <2> HIDE DEF s
  <2> QED BY <2>1
<1> HIDE DEF s
<1>5. CASE large = {}
    BY <1>2, <1>4, <1>5 DEF s
<1>6. CASE large # {}
  <2>1. s \in large /\ \A c \in large : s <= c
      BY <1>4, <1>6
  <2>2. s \in FreeBlocks(h) /\ SizeIn(h, s) >= size
      BY <2>1
  <2> HIDE DEF large
  <2>3. Min(large) = s
      BY <2>1, <1>3, MinOfIs
  <2>4. s # Null
      BY <2>1, <1>3
  <2> QED BY <2>2, <2>3, <2>4, <1>2, <1>6 DEF s
<1> QED BY <1>5, <1>6

(* From a free block of the arena. *)
LEMMA TakenIsPlaced ==
    ASSUME NEW h, IsHeap(h), NoNeighbours(h), IsAligned(h),
           NEW size \in Nat, size % Roundup = 0, size >= MinSize,
           NEW s, s = FirstFitting(h, size), s \in FreeBlocks(h),
           NEW g, IsTaken(h, s, size, g)
    PROVE  IsPlaced(h, FreeUnits(h), size, s, g) /\ IsAligned(g) /\ UnitsOf(g) = UnitsOf(h)
<1>1. s # Null
    BY FreeBlockType DEF Null
<1>2. SizeIn(h, s) >= size /\ s = Min(FitsIn(FreeUnits(h), size))
    BY <1>1, WhereItFits
<1>3. SizeIn(g, s) = SizeTaken(FreeUnits(h), s, size)
    BY <1>2, SizeTakenIs DEF IsTaken
<1>4. s \notin AllocatedIn(h)
    BY FreeIsNotAllocated
<1>5. IsAligned(g)
    BY TakenIsAligned
<1>6. UnitsOf(g) = UnitsOf(h)
  <2>1. \A x \in Memory : x \in Nat
      BY MemoryIs
  <2> QED BY <2>1 DEF UnitsOf, IsTaken
<1> QED BY <1>2, <1>3, <1>4, <1>5, <1>6 DEF IsPlaced, IsTaken

(* With a new region, which is free memory like any other. *)
LEMMA GrownIsAligned ==
    ASSUME NEW h, IsAligned(h), NEW start \in Nat, start % PageSize = 0,
           NEW region \in Nat, region % PageSize = 0, start \notin DOMAIN h.header,
           NEW with, WithHeader(h, start, region, with), NEW g, IsGrown(h, start, region, g)
    PROVE  IsAligned(g)
<1>1. IsHeap(with) /\ IsHeap(g) /\ NoNeighbours(g)
    BY DEF WithHeader, IsGrown
<1>2. start % Roundup = 0 /\ region % Roundup = 0
    BY PagesAreAligned
<1>3. IsAligned(with)
  <2> SUFFICES ASSUME NEW b \in DOMAIN with.header \ {FreeList}
               PROVE  b % Roundup = 0 /\ SizeIn(with, b) % Roundup = 0
      BY DEF IsAligned
  <2>1. CASE b = start
      BY <2>1, <1>2 DEF WithHeader
  <2>2. CASE b # start
    <3>1. b \in DOMAIN h.header \ {start} /\ b \in DOMAIN h.header \ {FreeList}
        BY <2>2 DEF WithHeader
    <3>2. SizeIn(with, b) = SizeIn(h, b)
        BY <3>1 DEF WithHeader, SizeIn
    <3> QED BY <3>1, <3>2 DEF IsAligned
  <2> QED BY <2>1, <2>2
<1>4. ASSUME NEW x \in Nat
      PROVE  Covers(g, x) <=> Covers(with, x)
  <2>1. Covers(with, x) <=> \/ \E c \in DOMAIN h.header \ {start} : c <= x /\ x < c + SizeIn(h, c)
                            \/ start <= x /\ x < start + region
      BY CoversWithHeader
  <2>2. DOMAIN h.header \ {start} = DOMAIN h.header
      OBVIOUS
  <2>3. Covers(g, x) <=> Covers(h, x) \/ (start <= x /\ x < start + region)
      BY DEF IsGrown
  <2> QED BY <2>1, <2>2, <2>3 DEF Covers
<1>5. \A b \in AllocatedIn(g) : b % Roundup = 0 /\ SizeIn(g, b) % Roundup = 0
  <2> TAKE b \in AllocatedIn(g)
  <2>1. b \in AllocatedIn(h) /\ g.header[b] = h.header[b]
      BY DEF IsGrown
  <2>2. b \in DOMAIN h.header /\ h.header[b].allocated /\ b # start
      BY <2>1 DEF AllocatedIn
  <2>3. b \in AllocatedIn(with) /\ b # FreeList
    <3>1. b \in AllocatedIn(with)
        BY <2>1 DEF WithHeader
    <3>2. ~with.header[FreeList].allocated
        BY <1>1 DEF IsHeap, HeadersOK
    <3> QED BY <3>1, <3>2 DEF AllocatedIn
  <2>4. b \in DOMAIN h.header \ {FreeList}
      BY <2>2, <2>3
  <2> QED BY <2>1, <2>4 DEF IsAligned, SizeIn
<1> QED BY <1>1, <1>3, <1>4, <1>5, AlignmentFollowsMemory

LEMMA GrownUnits ==
    ASSUME NEW h, IsHeap(h), NEW start \in Nat, NEW region \in Nat,
           \A x \in Nat : start <= x /\ x < start + region => ~Covers(h, x),
           NEW g, IsGrown(h, start, region, g)
    PROVE  /\ SpanOf(start, region) \intersect UnitsOf(h) = {}
           /\ UnitsOf(g) = UnitsOf(h) \union SpanOf(start, region)
           /\ FreeUnits(g) = FreeUnits(h) \union SpanOf(start, region)
<1>1. \A x \in Memory : x \in Nat
    BY MemoryIs
<1>2. SpanOf(start, region) \intersect UnitsOf(h) = {}
    BY <1>1 DEF SpanOf, UnitsOf
<1>3. UnitsOf(g) = UnitsOf(h) \union SpanOf(start, region)
    BY <1>1 DEF SpanOf, UnitsOf, IsGrown
<1>4. ASSUME NEW x
      PROVE  InAllocation(g, x) <=> InAllocation(h, x)
    BY DEF InAllocation, IsGrown, SizeIn
<1>5. ASSUME NEW x \in SpanOf(start, region)
      PROVE  ~InAllocation(h, x)
  <2>1. ~Covers(h, x)
      BY <1>1 DEF SpanOf
  <2> QED BY <2>1 DEF InAllocation, Covers, AllocatedIn
<1>6. IsHeap(g)
    BY DEF IsGrown
<1>7. /\ FreeUnits(h) = {a \in UnitsOf(h) : ~InAllocation(h, a)}
      /\ FreeUnits(g) = {a \in UnitsOf(g) : ~InAllocation(g, a)}
    BY <1>6, FreeUnitsAre
<1>8. FreeUnits(g) = FreeUnits(h) \union SpanOf(start, region)
    BY <1>3, <1>4, <1>5, <1>7, Zenon
<1> QED BY <1>2, <1>3, <1>8

(* The ranges of pages of which FirstFit takes one, and its two ways to allocate. *)
RegionsFor(size) ==
    {SpanOf(a, RoundUp(size, RegionSize)) :
        a \in {b \in Memory : b % PageSize = 0 /\ b + RoundUp(size, RegionSize) - Roundup \in Memory}}

PlacedInFree(h, size, block, g) ==
    /\ FitsIn(FreeUnits(h), size) # {}
    /\ IsPlaced(h, FreeUnits(h), size, block, g) /\ UnitsOf(g) = UnitsOf(h)

PlacedInRegion(h, size, block, g) ==
    /\ FitsIn(FreeUnits(h), size) = {}
    /\ \E region \in RegionsFor(size) :
          /\ region \intersect UnitsOf(h) = {}
          /\ UnitsOf(g) = UnitsOf(h) \union region
          /\ IsPlaced(h, FreeUnits(h) \union region, size, block, g)

LEMMA FreeBlockIsPlaced ==
    ASSUME NEW h, IsHeap(h), NoNeighbours(h), IsAligned(h),
           NEW size \in Nat, size % Roundup = 0, size >= MinSize,
           NEW s, s = FirstFitting(h, size), s \in FreeBlocks(h),
           NEW pages, NEW taken \in Taken(h, pages, s, size)
    PROVE  /\ taken.block = s
           /\ IsPlaced(h, FreeUnits(h), size, taken.block, taken.heap)
           /\ IsAligned(taken.heap) /\ UnitsOf(taken.heap) = UnitsOf(h)
<1>1. PICK random \in Random :
          taken = [block |-> s, heap |-> TakeBlock(h, s, size, random), mapped |-> pages]
    BY DEF Taken
<1>2. random \in Nat \ {0} /\ taken.block = s /\ taken.heap = TakeBlock(h, s, size, random)
    BY <1>1, ArenaAssumption
<1>3. IsTaken(h, s, size, taken.heap)
    BY <1>2, TakeBlockStep
<1> DEFINE g == taken.heap
<1>4. IsTaken(h, s, size, g) /\ taken.block = s
    BY <1>2, <1>3
<1> HIDE DEF g
<1>5. IsPlaced(h, FreeUnits(h), size, s, g) /\ IsAligned(g) /\ UnitsOf(g) = UnitsOf(h)
    BY <1>4, TakenIsPlaced
<1> QED BY <1>4, <1>5 DEF g

LEMMA NewRegionIsFor ==
    ASSUME NEW size \in Nat, size > 0, NEW region, region = RoundUp(size, RegionSize),
           NEW start \in Nat, start % PageSize = 0, start >= MemoryStart, start + region <= MemoryEnd
    PROVE  SpanOf(start, region) \in RegionsFor(size)
<1>1. region \in Nat /\ region % PageSize = 0 /\ size <= region /\ region > 0
    BY RegionIs
<1>2. start % Roundup = 0 /\ region % Roundup = 0
    BY <1>1, PagesAreAligned
<1>3. Roundup \in Nat \ {0} /\ MemoryStart \in Nat /\ MemoryEnd \in Nat
    BY ArenaAssumption
<1>4. 0 % Roundup = 0 /\ 0 \in Nat
    BY <1>3
<1>5. 0 + Roundup <= region
    BY <1>1, <1>2, <1>3, <1>4, MultiplesApart
<1> DEFINE end == start + region
<1>6. end \in Nat /\ end % Roundup = 0 /\ Roundup <= end /\ Roundup % Roundup = 0
  <2>1. end % Roundup = 0
      BY <1>1, <1>2, <1>3, SumOfMultiples
  <2>2. end \in Nat /\ Roundup <= end
      BY <1>1, <1>3, <1>5
  <2>3. Roundup % Roundup = 0
      BY <1>3
  <2> QED BY <2>1, <2>2, <2>3
<1>7. end - Roundup \in Nat /\ MemoryStart <= end - Roundup /\ end - Roundup < MemoryEnd
    BY <1>1, <1>3, <1>5
<1>8. start < MemoryEnd
    BY <1>1, <1>3
<1> HIDE DEF end
<1>9. (end - Roundup) % Roundup = 0
    BY <1>3, <1>6, DifferenceOfMultiples
<1>10. end - Roundup \in Memory
    BY <1>7, <1>9, MemoryIs
<1>11. start \in Memory
    BY <1>2, <1>8, MemoryIs
<1>12. start + region - Roundup = end - Roundup
    BY <1>1, <1>3 DEF end
<1>13. start + region - Roundup \in Memory
    BY <1>10, <1>12
<1> QED BY <1>11, <1>13 DEF RegionsFor

LEMMA NewRegionIsPlaced ==
    ASSUME MemoryOK, NEW arena \in DOMAIN heap, NEW h, h = heap[arena],
           IsHeap(h), NoNeighbours(h), IsAligned(h),
           NEW size \in Nat, size % Roundup = 0, size >= MinSize, FirstFitting(h, size) = Null,
           NEW taken \in TakenFromNewRegion(h, size)
    PROVE  IsAligned(taken.heap) /\ PlacedInRegion(h, size, taken.block, taken.heap)
<1> DEFINE region == RoundUp(size, RegionSize)
<1>1. region \in Nat /\ size <= region /\ region % PageSize = 0 /\ MinSize \in Nat /\ MinSize > 0
    BY RegionIs, Constants
<1>2. region >= MinSize /\ size > 0
    BY <1>1
<1>3. PICK start \in NewPages(region) : \E grown :
              /\ IsGrown(h, start, region, grown)
              /\ FirstFitting(grown, size) \in FreeBlocks(grown)
              /\ taken \in Taken(grown, mapped \union Pages(start, region),
                                 FirstFitting(grown, size), size)
    BY NewRegionGrows
<1>4. PICK grown :
              /\ IsGrown(h, start, region, grown)
              /\ FirstFitting(grown, size) \in FreeBlocks(grown)
              /\ taken \in Taken(grown, mapped \union Pages(start, region),
                                 FirstFitting(grown, size), size)
    BY <1>3
<1>5. SpanOf(start, region) \in RegionsFor(size)
  <2>1. start \in Nat /\ start % PageSize = 0 /\ start >= MemoryStart /\ start + region <= MemoryEnd
      BY <1>1, <1>2, RegionStep
  <2> QED BY <2>1, <1>2, NewRegionIsFor
<1>6. \A x \in Nat : start <= x /\ x < start + region => ~Covers(h, x)
    BY <1>1, NewPagesAreNew
<1> DEFINE with == WithBlock(h, start, region)
<1>7. /\ start \in Nat /\ start % PageSize = 0 /\ start \notin DOMAIN h.header
      /\ WithHeader(h, start, region, with)
    BY <1>1, <1>2, RegionStep
<1> HIDE DEF region, with
<1>8. IsHeap(grown) /\ NoNeighbours(grown) /\ IsAligned(grown)
    BY <1>1, <1>4, <1>7, GrownIsAligned DEF IsGrown
<1>9. /\ SpanOf(start, region) \intersect UnitsOf(h) = {}
      /\ UnitsOf(grown) = UnitsOf(h) \union SpanOf(start, region)
      /\ FreeUnits(grown) = FreeUnits(h) \union SpanOf(start, region)
    BY <1>1, <1>4, <1>6, <1>7, GrownUnits
<1> DEFINE s == FirstFitting(grown, size)
           block == taken.block
           g == taken.heap
<1>10. /\ IsPlaced(grown, FreeUnits(grown), size, block, g)
       /\ IsAligned(g) /\ UnitsOf(g) = UnitsOf(grown)
    BY <1>4, <1>8, FreeBlockIsPlaced
<1> HIDE DEF s, block, g
<1>11. IsPlaced(h, FreeUnits(h) \union SpanOf(start, region), size, block, g)
  <2>1. AllocatedIn(grown) = AllocatedIn(h) /\ \A b \in AllocatedIn(h) : grown.header[b] = h.header[b]
      BY <1>4 DEF IsGrown
  <2> QED BY <2>1, <1>9, <1>10 DEF IsPlaced
<1>12. FitsIn(FreeUnits(h), size) = {}
    BY WhereItFits
<1>13. PlacedInRegion(h, size, block, g)
    BY <1>5, <1>9, <1>10, <1>11, <1>12 DEF PlacedInRegion
<1> QED BY <1>10, <1>13 DEF block, g

LEMMA DoAllocPlaces ==
    ASSUME MemoryOK, NEW arena \in DOMAIN heap, NEW h, h = heap[arena],
           IsHeap(h), NoNeighbours(h), IsAligned(h),
           NEW request \in Request \union {ArenaSize}, NEW size, size = SizeOf(request),
           NEW taken \in DoAllocWithArena(request, arena)
    PROVE  /\ IsAligned(taken.heap)
           /\ \/ PlacedInFree(h, size, taken.block, taken.heap)
              \/ PlacedInRegion(h, size, taken.block, taken.heap)
<1> DEFINE s == FirstFitting(h, size)
<1>1. size \in Nat /\ size >= MinSize /\ size > 0 /\ size % Roundup = 0
    BY SizeOfIsAligned
<1>2. taken \in IF s # Null THEN Taken(h, mapped, s, size) ELSE TakenFromNewRegion(h, size)
    BY DEF DoAllocWithArena
<1>3. CASE s # Null
  <2>1. s \in FreeBlocks(h) /\ FitsIn(FreeUnits(h), size) # {}
      BY <1>1, <1>3, WhereItFits
  <2>2. taken \in Taken(h, mapped, s, size)
      BY <1>2, <1>3
  <2>3. /\ IsPlaced(h, FreeUnits(h), size, taken.block, taken.heap)
        /\ IsAligned(taken.heap) /\ UnitsOf(taken.heap) = UnitsOf(h)
      BY <1>1, <2>1, <2>2, FreeBlockIsPlaced
  <2> QED BY <2>1, <2>3 DEF PlacedInFree
<1>4. CASE s = Null
  <2>1. taken \in TakenFromNewRegion(h, size)
      BY <1>2, <1>4
  <2> QED BY <2>1, <1>1, <1>4, NewRegionIsPlaced
<1> QED BY <1>3, <1>4

-----------------------------------------------------------------------------
(***************************************************************************)
(* The steps of the two arenas as steps of FirstFit.  First, its terms.    *)
(***************************************************************************)
LEMMA CustomTerms ==
    ASSUME NEW free, NEW start, NEW size
    PROVE  /\ CustomArena!Fits(free, size) = FitsIn(free, size)
           /\ CustomArena!Taken(free, start, size) = SizeTaken(free, start, size)
           /\ CustomArena!Region(size) = RegionsFor(size)
           /\ CustomArena!Span(start, size) = SpanOf(start, size)
<1>1. CustomArena!Fits(free, size) = FitsIn(free, size)
    BY DEF CustomArena!Fits, FitsIn
<1>2. CustomArena!Span(start, size) = SpanOf(start, size)
    BY DEF CustomArena!Span, SpanOf
<1>3. CustomArena!Taken(free, start, size) = SizeTaken(free, start, size)
    BY DEF CustomArena!Taken, SizeTaken, Extent, CustomArena!Span, SpanOf, CustomArena!Cardinality, Cardinality
<1>4. CustomArena!Region(size) = RegionsFor(size)
    BY Zenon DEF CustomArena!Region, RegionsFor, CustomArena!Span, SpanOf, CustomArena!RoundUp, RoundUp
<1> QED BY <1>1, <1>2, <1>3, <1>4

LEMMA MetadataTerms ==
    ASSUME NEW free, NEW start, NEW size
    PROVE  /\ MetadataArena!Fits(free, size) = FitsIn(free, size)
           /\ MetadataArena!Taken(free, start, size) = SizeTaken(free, start, size)
           /\ MetadataArena!Region(size) = RegionsFor(size)
           /\ MetadataArena!Span(start, size) = SpanOf(start, size)
<1>1. MetadataArena!Fits(free, size) = FitsIn(free, size)
    BY DEF MetadataArena!Fits, FitsIn
<1>2. MetadataArena!Span(start, size) = SpanOf(start, size)
    BY DEF MetadataArena!Span, SpanOf
<1>3. MetadataArena!Taken(free, start, size) = SizeTaken(free, start, size)
    BY DEF MetadataArena!Taken, SizeTaken, Extent, MetadataArena!Span, SpanOf, MetadataArena!Cardinality, Cardinality
<1>4. MetadataArena!Region(size) = RegionsFor(size)
    BY Zenon DEF MetadataArena!Region, RegionsFor, MetadataArena!Span, SpanOf, MetadataArena!RoundUp, RoundUp
<1> QED BY <1>1, <1>2, <1>3, <1>4

LEMMA SameMin ==
    ASSUME NEW S
    PROVE  CustomArena!Min(S) = Min(S) /\ MetadataArena!Min(S) = Min(S)
    BY DEF CustomArena!Min, MetadataArena!Min, Min

(* The memory and the allocations of an arena in terms of its heap. *)
AllocationsIn(h, r) == [b \in AllocatedIn(h) |-> [size |-> SizeIn(h, b), request |-> r[b]]]

LEMMA HeapTerms ==
    ASSUME NEW h, IsHeap(h)
    PROVE  /\ {a \in Memory : \E b \in DOMAIN h.header \ {FreeList} : a \in b..(b + h.header[b].size - 1)}
                  = UnitsOf(h)
           /\ {b \in DOMAIN h.header \ {FreeList} : h.header[b].allocated} = AllocatedIn(h)
<1>1. HeadersOK(h)
    BY DEF IsHeap
<1>2. {b \in DOMAIN h.header \ {FreeList} : h.header[b].allocated} = AllocatedIn(h)
    BY <1>1 DEF AllocatedIn, HeadersOK
<1>3. ASSUME NEW a \in Memory
      PROVE  (\E b \in DOMAIN h.header \ {FreeList} : a \in b..(b + h.header[b].size - 1)) <=> Covers(h, a)
  <2>1. a \in Nat
      BY MemoryIs
  <2>2. ASSUME NEW b \in DOMAIN h.header
        PROVE  a \in b..(b + h.header[b].size - 1) <=> b <= a /\ a < b + SizeIn(h, b)
    <3>1. b \in Nat /\ SizeIn(h, b) \in Nat
        BY <1>1, BlockType
    <3> QED BY <2>1, <3>1 DEF SizeIn
  <2>3. ~(FreeList <= a /\ a < FreeList + SizeIn(h, FreeList))
      BY <1>1, <2>1 DEF HeadersOK, SizeIn, FreeList
  <2> QED BY <2>2, <2>3 DEF Covers
<1> QED BY <1>2, <1>3 DEF UnitsOf

LEMMA FreeMemoryIs ==
    ASSUME NEW h, IsHeap(h), NEW r, NEW allocations, allocations = AllocationsIn(h, r)
    PROVE  UnitsOf(h) \ (UNION {SpanOf(b, allocations[b].size) : b \in DOMAIN allocations}) = FreeUnits(h)
<1>1. DOMAIN allocations = AllocatedIn(h) /\ \A b \in AllocatedIn(h) : allocations[b].size = SizeIn(h, b)
    BY DEF AllocationsIn
<1>2. FreeUnits(h) = {a \in UnitsOf(h) : ~InAllocation(h, a)}
    BY FreeUnitsAre
<1>3. ASSUME NEW a \in UnitsOf(h)
      PROVE  InAllocation(h, a) <=> a \in UNION {SpanOf(b, allocations[b].size) : b \in DOMAIN allocations}
  <2>1. a \in Memory
      BY DEF UnitsOf
  <2>2. \A b \in AllocatedIn(h) :
            a \in SpanOf(b, allocations[b].size) <=> b <= a /\ a < b + SizeIn(h, b)
      BY <1>1, <2>1 DEF SpanOf
  <2> QED BY <1>1, <2>2, Zenon DEF InAllocation
<1> QED BY <1>2, <1>3, Zenon

LEMMA PlacedAllocations ==
    ASSUME NEW h, NEW free, NEW size, NEW block, NEW g, IsPlaced(h, free, size, block, g),
           NEW r, AllocatedIn(h) \subseteq DOMAIN r, NEW q, q = Put(r, block, size),
           NEW allocations, allocations = AllocationsIn(h, r)
    PROVE  AllocationsIn(g, q) =
               [b \in DOMAIN allocations \union {block} |->
                   IF b = block THEN [size |-> SizeTaken(free, block, size), request |-> size]
                   ELSE allocations[b]]
<1>1. DOMAIN allocations = AllocatedIn(h) /\ AllocatedIn(g) = AllocatedIn(h) \union {block}
    BY DEF AllocationsIn, IsPlaced
<1>2. SizeIn(g, block) = SizeTaken(free, block, size) /\ q[block] = size
    BY DEF IsPlaced, Put
<1>3. ASSUME NEW b \in AllocatedIn(h)
      PROVE  b # block /\ SizeIn(g, b) = SizeIn(h, b) /\ q[b] = r[b]
             /\ allocations[b] = [size |-> SizeIn(h, b), request |-> r[b]]
    BY DEF IsPlaced, SizeIn, Put, AllocationsIn
<1>4. ASSUME NEW b \in AllocatedIn(g)
      PROVE  [size |-> SizeIn(g, b), request |-> q[b]] =
                 IF b = block THEN [size |-> SizeTaken(free, block, size), request |-> size]
                 ELSE allocations[b]
  <2>1. CASE b = block
      BY <2>1, <1>2
  <2>2. CASE b # block
      BY <2>2, <1>1, <1>3
  <2> QED BY <2>1, <2>2
<1> QED BY <1>1, <1>4 DEF AllocationsIn

LEMMA FreedAllocations ==
    ASSUME NEW h, NEW f, NEW g, IsFreed(h, f, g),
           NEW r, AllocatedIn(h) \subseteq DOMAIN r, NEW q, q = [b \in DOMAIN r \ {f} |-> r[b]],
           NEW allocations, allocations = AllocationsIn(h, r)
    PROVE  /\ AllocationsIn(g, q) = [b \in DOMAIN allocations \ {f} |-> allocations[b]]
           /\ UnitsOf(g) = UnitsOf(h)
<1>1. DOMAIN allocations = AllocatedIn(h) /\ AllocatedIn(g) = AllocatedIn(h) \ {f}
    BY DEF AllocationsIn, IsFreed
<1>2. ASSUME NEW b \in AllocatedIn(g)
      PROVE  [size |-> SizeIn(g, b), request |-> q[b]] = allocations[b]
  <2>1. b \in AllocatedIn(h) /\ SizeIn(g, b) = SizeIn(h, b) /\ q[b] = r[b]
      BY <1>1 DEF IsFreed, SizeIn
  <2> QED BY <2>1 DEF AllocationsIn
<1>3. \A x \in Memory : x \in Nat
    BY MemoryIs
<1>4. UnitsOf(g) = UnitsOf(h)
    BY <1>3 DEF UnitsOf, IsFreed
<1> QED BY <1>1, <1>2, <1>4 DEF AllocationsIn

(* What the steps of CustomAllocator do to the two arenas. *)
AllocatesIn(arena, request) ==
    \E taken \in DoAllocWithArena(request, arena) :
        /\ heap'[arena] = taken.heap
        /\ requested' = Put(requested, taken.block, SizeOf(request))

LEMMA InitializeIs ==
    ASSUME ArenaInvariant, Initialize
    PROVE  /\ DOMAIN heap = {UnhookedArena} /\ g_arena \notin DOMAIN heap
           /\ DOMAIN heap' = {UnhookedArena, g_arena'} /\ g_arena' # UnhookedArena
           /\ heap'[g_arena'] = EmptyHeap
           /\ AllocatesIn(UnhookedArena, ArenaSize)
<1>1. PICK result \in MemoryStart..MemoryEnd : NewArena(result) /\ g_arena' = result
    BY DEF Initialize
<1>2. UnhookedArena \in DOMAIN heap /\ g_arena \notin DOMAIN heap /\ DOMAIN heap = {UnhookedArena}
    BY DEF ArenaInvariant, ArenasOK, AllocatorOK, Initialize, HasArena
<1>3. PICK taken \in DoAllocWithArena(ArenaSize, UnhookedArena) :
          /\ taken.block = result
          /\ heap' = Put([heap EXCEPT ![UnhookedArena] = taken.heap], result, EmptyHeap)
          /\ requested' = Put(requested, result, SizeOf(ArenaSize))
    BY <1>1 DEF NewArena
<1>4. result # UnhookedArena
    BY GArenaIs, ArenaAssumption DEF ArenaInvariant
<1>5. /\ DOMAIN heap' = {UnhookedArena, result}
      /\ heap'[UnhookedArena] = taken.heap /\ heap'[result] = EmptyHeap
    BY <1>2, <1>3, <1>4 DEF Put
<1>6. AllocatesIn(UnhookedArena, ArenaSize)
    BY <1>3, <1>5 DEF AllocatesIn
<1> QED BY <1>1, <1>2, <1>4, <1>5, <1>6

LEMMA AllocateIs ==
    ASSUME ArenaInvariant, NEW size \in Request, Allocate(size), ~UNCHANGED vars
    PROVE  /\ g_arena \in DOMAIN heap /\ g_arena # UnhookedArena /\ g_arena' = g_arena
           /\ DOMAIN heap' = DOMAIN heap /\ heap'[UnhookedArena] = heap[UnhookedArena]
           /\ AllocatesIn(g_arena, size)
<1>1. HasArena /\ Alloc(size, g_arena) /\ UNCHANGED allocatorVars
    BY DEF Allocate
<1>2. g_arena \in DOMAIN heap /\ g_arena # UnhookedArena /\ UnhookedArena \in DOMAIN heap
    BY <1>1, GArenaIs DEF HasArena, ArenaInvariant, ArenasOK
<1>3. PICK taken \in DoAllocWithArena(size, g_arena) :
          /\ heap' = [heap EXCEPT ![g_arena] = taken.heap]
          /\ requested' = Put(requested, taken.block, SizeOf(size))
    BY <1>1 DEF Alloc
<1>4. /\ DOMAIN heap' = DOMAIN heap /\ heap'[UnhookedArena] = heap[UnhookedArena]
      /\ heap'[g_arena] = taken.heap
    BY <1>2, <1>3
<1>5. AllocatesIn(g_arena, size)
    BY <1>3, <1>4 DEF AllocatesIn
<1> QED BY <1>1, <1>2, <1>4, <1>5 DEF allocatorVars

LEMMA FreeBlockIs ==
    ASSUME ArenaInvariant, NEW b, FreeBlock(b)
    PROVE  /\ g_arena \in DOMAIN heap /\ g_arena # UnhookedArena /\ g_arena' = g_arena
           /\ DOMAIN heap' = DOMAIN heap /\ heap'[UnhookedArena] = heap[UnhookedArena]
           /\ b \in AllocatedIn(heap[g_arena]) /\ b \notin AllocatedIn(heap[UnhookedArena])
           /\ IsFreed(heap[g_arena], b, heap'[g_arena])
           /\ requested' = WithoutRequest(b)
<1>1. /\ g_arena \in DOMAIN heap /\ g_arena # UnhookedArena /\ UnhookedArena \in DOMAIN heap
      /\ b \in AllocatedIn(heap[g_arena]) /\ IsArena(heap[g_arena], allocation_count[g_arena])
    BY GArenaIs DEF FreeBlock, HasArena, AllocatedIn, ArenaInvariant, ArenasOK
<1>2. PICK random \in Random : heap' = [heap EXCEPT ![g_arena] = AddToFreelist(@, b, random)]
    BY DEF FreeBlock, Free
<1>3. IsFreed(heap[g_arena], b, AddToFreelist(heap[g_arena], b, random))
  <2>1. random \in Nat \ {0}
      BY ArenaAssumption
  <2> QED BY <2>1, <1>1, AddToFreelistStep DEF IsArena
<1>4. /\ DOMAIN heap' = DOMAIN heap /\ heap'[UnhookedArena] = heap[UnhookedArena]
      /\ heap'[g_arena] = AddToFreelist(heap[g_arena], b, random)
    BY <1>1, <1>2
<1>5. b \notin AllocatedIn(heap[UnhookedArena])
    BY <1>1, AllocatedInOneArena
<1>6. requested' = WithoutRequest(b) /\ g_arena' = g_arena
    BY DEF FreeBlock, Free, allocatorVars
<1> QED BY <1>1, <1>3, <1>4, <1>5, <1>6

LEMMA DeleteArenaIs ==
    ASSUME ArenaInvariant, HasArena, DeleteArena(g_arena)
    PROVE  /\ g_arena \in DOMAIN heap /\ g_arena # UnhookedArena /\ DOMAIN heap' = {UnhookedArena}
           /\ AllocatedIn(heap[g_arena]) = {} /\ g_arena \in AllocatedIn(heap[UnhookedArena])
           /\ IsFreed(heap[UnhookedArena], g_arena, heap'[UnhookedArena])
           /\ requested' = WithoutRequest(g_arena)
<1>1. /\ g_arena \in DOMAIN heap /\ g_arena # UnhookedArena /\ UnhookedArena \in DOMAIN heap
      /\ IsArena(heap[g_arena], allocation_count[g_arena])
      /\ IsArena(heap[UnhookedArena], allocation_count[UnhookedArena])
    BY GArenaIs DEF HasArena, ArenaInvariant, ArenasOK
<1>2. DOMAIN heap = {UnhookedArena, g_arena}
    BY <1>1 DEF ArenaInvariant, AllocatorOK
<1>3. PICK random \in Random :
          heap' = [a \in DOMAIN heap \ {g_arena} |->
                      IF a = UnhookedArena THEN AddToFreelist(heap[a], g_arena, random) ELSE heap[a]]
    BY DEF DeleteArena
<1>4. allocation_count[g_arena] = 0 /\ requested' = WithoutRequest(g_arena)
    BY DEF DeleteArena, CanBeDeleted
<1>5. AllocatedIn(heap[UnhookedArena]) = {g_arena}
    BY <1>1, <1>2 DEF ArenaInvariant, ArenasOK
<1>6. AllocatedIn(heap[g_arena]) = {}
    BY <1>1, <1>4, FS_EmptySet DEF IsArena
<1>7. IsFreed(heap[UnhookedArena], g_arena, AddToFreelist(heap[UnhookedArena], g_arena, random))
  <2>1. random \in Nat \ {0}
      BY ArenaAssumption
  <2> QED BY <2>1, <1>1, <1>5, AddToFreelistStep DEF IsArena
<1>8. /\ DOMAIN heap' = {UnhookedArena}
      /\ heap'[UnhookedArena] = AddToFreelist(heap[UnhookedArena], g_arena, random)
    BY <1>1, <1>2, <1>3
<1> QED BY <1>1, <1>4, <1>5, <1>6, <1>7, <1>8

(* The blocks of all arenas are aligned, in every state. *)
AlignedInvariant == ArenaInvariant /\ \A arena \in DOMAIN heap : IsAligned(heap[arena])

LEMMA ArenaParts ==
    ASSUME ArenaInvariant, NEW arena \in DOMAIN heap
    PROVE  /\ IsHeap(heap[arena]) /\ NoNeighbours(heap[arena]) /\ MemoryOK
           /\ AllocatedIn(heap[arena]) \subseteq DOMAIN requested
    BY DEF ArenaInvariant, ArenasOK, IsArena, RequestedOK

LEMMA AllocationStep ==
    ASSUME AlignedInvariant, NEW arena \in DOMAIN heap, NEW request \in Request \union {ArenaSize},
           AllocatesIn(arena, request), NEW size, size = SizeOf(request)
    PROVE  /\ IsAligned(heap'[arena])
           /\ \E block :
                 /\ requested' = Put(requested, block, size)
                 /\ \/ PlacedInFree(heap[arena], size, block, heap'[arena])
                    \/ PlacedInRegion(heap[arena], size, block, heap'[arena])
<1>1. /\ IsHeap(heap[arena]) /\ NoNeighbours(heap[arena]) /\ MemoryOK /\ IsAligned(heap[arena])
    BY ArenaParts DEF AlignedInvariant
<1>2. PICK taken \in DoAllocWithArena(request, arena) :
        /\ heap'[arena] = taken.heap
        /\ requested' = Put(requested, taken.block, SizeOf(request))
    BY DEF AllocatesIn
<1>3. /\ IsAligned(taken.heap)
      /\ \/ PlacedInFree(heap[arena], size, taken.block, taken.heap)
         \/ PlacedInRegion(heap[arena], size, taken.block, taken.heap)
    BY <1>1, <1>2, DoAllocPlaces
<1> QED BY <1>2, <1>3

LEMMA AlignedStep ==
    ASSUME AlignedInvariant, ArenaInvariant', [Next]_vars
    PROVE  AlignedInvariant'
<1>1. /\ ArenaInvariant /\ UnhookedArena \in DOMAIN heap /\ DOMAIN heap \subseteq {UnhookedArena, g_arena}
      /\ \A arena \in DOMAIN heap : IsAligned(heap[arena])
    BY DEF AlignedInvariant, ArenaInvariant, ArenasOK, AllocatorOK
<1>2. ASSUME UNCHANGED heap PROVE AlignedInvariant'
    BY <1>2 DEF AlignedInvariant
<1>3. CASE Initialize
  <2>1. /\ DOMAIN heap' = {UnhookedArena, g_arena'} /\ heap'[g_arena'] = EmptyHeap
        /\ AllocatesIn(UnhookedArena, ArenaSize)
      BY <1>1, <1>3, InitializeIs
  <2>2. IsAligned(EmptyHeap)
      BY EmptyHeapIs DEF IsAligned
  <2>3. IsAligned(heap'[UnhookedArena])
      BY <1>1, <2>1, AllocationStep
  <2> QED BY <2>1, <2>2, <2>3 DEF AlignedInvariant
<1>4. ASSUME NEW size \in Request, Allocate(size) PROVE AlignedInvariant'
  <2>1. CASE UNCHANGED vars
      BY <2>1, <1>2 DEF vars, arenaVars
  <2>2. CASE ~UNCHANGED vars
    <3>1. /\ g_arena \in DOMAIN heap /\ DOMAIN heap' = DOMAIN heap
          /\ heap'[UnhookedArena] = heap[UnhookedArena] /\ AllocatesIn(g_arena, size)
        BY <1>1, <1>4, <2>2, AllocateIs
    <3>2. IsAligned(heap'[g_arena])
        BY <3>1, AllocationStep
    <3> QED BY <3>1, <3>2, <1>1 DEF AlignedInvariant
  <2> QED BY <2>1, <2>2
<1>5. ASSUME NEW b, FreeBlock(b) PROVE AlignedInvariant'
  <2>1. /\ g_arena \in DOMAIN heap /\ DOMAIN heap' = DOMAIN heap
        /\ heap'[UnhookedArena] = heap[UnhookedArena]
        /\ IsFreed(heap[g_arena], b, heap'[g_arena])
      BY <1>1, <1>5, FreeBlockIs
  <2>2. IsAligned(heap'[g_arena])
      BY <2>1, <1>1, ArenaParts, FreedIsAligned
  <2> QED BY <2>1, <2>2, <1>1 DEF AlignedInvariant
<1>6. ASSUME HasArena, DeleteArena(g_arena) PROVE AlignedInvariant'
  <2>1. /\ DOMAIN heap' = {UnhookedArena}
        /\ IsFreed(heap[UnhookedArena], g_arena, heap'[UnhookedArena])
      BY <1>1, <1>6, DeleteArenaIs
  <2>2. IsAligned(heap'[UnhookedArena])
      BY <2>1, <1>1, ArenaParts, FreedIsAligned
  <2> QED BY <2>1, <2>2 DEF AlignedInvariant
<1>7. CASE Shutdown
    BY <1>2, <1>6, <1>7 DEF Shutdown, arenaVars
<1>8. CASE InitializeForUnitTest
    BY <1>2, <1>8 DEF InitializeForUnitTest, arenaVars
<1>9. CASE UNCHANGED vars
    BY <1>2, <1>9 DEF vars, arenaVars
<1> QED BY <1>3, <1>4, <1>5, <1>7, <1>8, <1>9 DEF Next

LEMMA AlwaysAligned == Spec => []AlignedInvariant
<1>1. AllocatorInit /\ ArenaInvariant => AlignedInvariant
    BY EmptyHeapIs DEF AllocatorInit, Init, AlignedInvariant, IsAligned
<1>2. AlignedInvariant /\ ArenaInvariant' /\ [Next]_vars => AlignedInvariant'
    BY AlignedStep
<1> QED BY <1>1, <1>2, ArenaInvariantInductive, PTL DEF Spec

(* The refinement mapping, before and after a step. *)
LEMMA TermsNow ==
    ASSUME NEW arena \in DOMAIN heap, IsHeap(heap[arena])
    PROVE  /\ MemoryOf(arena) = UnitsOf(heap[arena])
           /\ AllocationsOf(arena) = AllocationsIn(heap[arena], requested)
    BY HeapTerms DEF MemoryOf, AllocationsOf, Allocated, Blocks, Bytes, AllocationsIn, SizeIn

LEMMA MetadataNext ==
    ASSUME UnhookedArena \in DOMAIN heap', IsHeap(heap'[UnhookedArena])
    PROVE  /\ MemoryOf(UnhookedArena)' = UnitsOf(heap'[UnhookedArena])
           /\ AllocationsOf(UnhookedArena)' = AllocationsIn(heap'[UnhookedArena], requested')
    BY HeapTerms DEF MemoryOf, AllocationsOf, Allocated, Blocks, Bytes, AllocationsIn, SizeIn, UnhookedArena

LEMMA CustomNext ==
    ASSUME g_arena' \in DOMAIN heap', IsHeap(heap'[g_arena'])
    PROVE  /\ MemoryOf(g_arena)' = UnitsOf(heap'[g_arena'])
           /\ AllocationsOf(g_arena)' = AllocationsIn(heap'[g_arena'], requested')
    BY HeapTerms DEF MemoryOf, AllocationsOf, Allocated, Blocks, Bytes, AllocationsIn, SizeIn

LEMMA PrimedParts ==
    ASSUME ArenaInvariant', NEW arena \in DOMAIN heap'
    PROVE  IsHeap(heap'[arena]) /\ UnhookedArena \in DOMAIN heap'
    BY DEF ArenaInvariant, ArenasOK, IsArena

(* The arena of the Arena objects allocates one, and frees it. *)
LEMMA MetadataAllocates ==
    ASSUME AlignedInvariant, ArenaInvariant', AllocatesIn(UnhookedArena, ArenaSize)
    PROVE  MetadataArena!Next
<1> DEFINE h == heap[UnhookedArena]
           g == heap'[UnhookedArena]
           size == SizeOf(ArenaSize)
           allocations == AllocationsOf(UnhookedArena)
           free == MetadataArena!FreeMemory
<1>1. /\ UnhookedArena \in DOMAIN heap /\ IsHeap(h) /\ AllocatedIn(h) \subseteq DOMAIN requested
      /\ UnhookedArena \in DOMAIN heap' /\ IsHeap(g)
    BY ArenaParts, PrimedParts DEF AlignedInvariant, ArenaInvariant, ArenasOK
<1>2. MemoryOf(UnhookedArena) = UnitsOf(h) /\ allocations = AllocationsIn(h, requested)
    BY <1>1, TermsNow
<1>3. /\ MemoryOf(UnhookedArena)' = UnitsOf(g)
      /\ AllocationsOf(UnhookedArena)' = AllocationsIn(g, requested')
    BY <1>1, MetadataNext
<1>4. free = FreeUnits(h)
  <2>1. UnitsOf(h) \ (UNION {SpanOf(b, allocations[b].size) : b \in DOMAIN allocations}) = FreeUnits(h)
      BY <1>1, <1>2, FreeMemoryIs
  <2>2. free = MemoryOf(UnhookedArena) \ (UNION {MetadataArena!Span(b, allocations[b].size) : b \in DOMAIN allocations})
      BY DEF MetadataArena!FreeMemory
  <2> QED BY <2>1, <2>2, <1>2, MetadataTerms
<1>5. PICK block :
          /\ requested' = Put(requested, block, size)
          /\ PlacedInFree(h, size, block, g) \/ PlacedInRegion(h, size, block, g)
    BY <1>1, AllocationStep
<1> HIDE DEF h, g, size, allocations, free
<1>6. ASSUME NEW available, IsPlaced(h, available, size, block, g)
      PROVE  MetadataArena!Place(available, size)
  <2>1. block = MetadataArena!Min(MetadataArena!Fits(available, size))
      BY <1>6, MetadataTerms, SameMin DEF IsPlaced
  <2>2. AllocationsIn(g, requested') =
            [b \in DOMAIN allocations \union {block} |->
                IF b = block THEN [size |-> SizeTaken(available, block, size), request |-> size]
                ELSE allocations[b]]
      BY <1>1, <1>2, <1>5, <1>6, PlacedAllocations
  <2>3. SizeTaken(available, block, size) = MetadataArena!Taken(available, block, size)
      BY MetadataTerms
  <2> QED BY <2>1, <2>2, <2>3, <1>3 DEF MetadataArena!Place, allocations
<1>7. CASE PlacedInFree(h, size, block, g)
  <2>1. MetadataArena!Fits(free, size) # {}
      BY <1>4, <1>7, MetadataTerms DEF PlacedInFree
  <2>2. MetadataArena!Place(free, size)
      BY <1>4, <1>6, <1>7 DEF PlacedInFree
  <2>3. MemoryOf(UnhookedArena)' = MemoryOf(UnhookedArena)
      BY <1>2, <1>3, <1>7 DEF PlacedInFree
  <2>4. MetadataArena!Alloc(size)
      BY <2>1, <2>2, <2>3 DEF MetadataArena!Alloc, free
  <2> QED BY <2>4 DEF MetadataArena!Next, size
<1>8. CASE PlacedInRegion(h, size, block, g)
  <2>1. MetadataArena!Fits(free, size) = {}
      BY <1>4, <1>8, MetadataTerms DEF PlacedInRegion
  <2>2. PICK region \in RegionsFor(size) :
            /\ region \intersect UnitsOf(h) = {}
            /\ UnitsOf(g) = UnitsOf(h) \union region
            /\ IsPlaced(h, FreeUnits(h) \union region, size, block, g)
      BY <1>8 DEF PlacedInRegion
  <2>3. MetadataArena!Place(free \union region, size)
      BY <2>2, <1>4, <1>6
  <2>4. region \in MetadataArena!Region(size)
      BY <2>2, MetadataTerms
  <2>5. /\ region \intersect MemoryOf(UnhookedArena) = {}
        /\ MemoryOf(UnhookedArena)' = MemoryOf(UnhookedArena) \union region
      BY <2>2, <1>2, <1>3
  <2>6. MetadataArena!AllocFromNewRegion(size)
      BY <2>1, <2>3, <2>4, <2>5 DEF MetadataArena!AllocFromNewRegion, free
  <2> QED BY <2>6 DEF MetadataArena!Next, size
<1> QED BY <1>5, <1>7, <1>8

LEMMA MetadataFrees ==
    ASSUME ArenaInvariant, ArenaInvariant', NEW b \in AllocatedIn(heap[UnhookedArena]),
           IsFreed(heap[UnhookedArena], b, heap'[UnhookedArena]), requested' = WithoutRequest(b)
    PROVE  MetadataArena!Next
<1> DEFINE h == heap[UnhookedArena]
           g == heap'[UnhookedArena]
           allocations == AllocationsOf(UnhookedArena)
<1>1. /\ UnhookedArena \in DOMAIN heap /\ IsHeap(h) /\ AllocatedIn(h) \subseteq DOMAIN requested
      /\ UnhookedArena \in DOMAIN heap' /\ IsHeap(g)
    BY ArenaParts, PrimedParts DEF ArenaInvariant, ArenasOK
<1>2. MemoryOf(UnhookedArena) = UnitsOf(h) /\ allocations = AllocationsIn(h, requested)
    BY <1>1, TermsNow
<1>3. /\ MemoryOf(UnhookedArena)' = UnitsOf(g)
      /\ AllocationsOf(UnhookedArena)' = AllocationsIn(g, requested')
    BY <1>1, MetadataNext
<1>4. b \in DOMAIN allocations
    BY <1>2 DEF AllocationsIn
<1>5. /\ AllocationsIn(g, requested') = [a \in DOMAIN allocations \ {b} |-> allocations[a]]
      /\ UnitsOf(g) = UnitsOf(h)
  <2> HIDE DEF allocations
  <2> QED BY <1>1, <1>2, FreedAllocations DEF WithoutRequest
<1>6. MetadataArena!Free(b)
    BY <1>2, <1>3, <1>5 DEF MetadataArena!Free
<1> QED BY <1>4, <1>6 DEF MetadataArena!Next

(* Otherwise it is left alone. *)
LEMMA MetadataStutters ==
    ASSUME ArenaInvariant, ArenaInvariant', heap'[UnhookedArena] = heap[UnhookedArena],
           \A b \in AllocatedIn(heap[UnhookedArena]) : requested'[b] = requested[b]
    PROVE  UNCHANGED <<MemoryOf(UnhookedArena), AllocationsOf(UnhookedArena)>>
<1> DEFINE h == heap[UnhookedArena]
<1>1. UnhookedArena \in DOMAIN heap /\ IsHeap(h) /\ UnhookedArena \in DOMAIN heap'
    BY ArenaParts, PrimedParts DEF ArenaInvariant, ArenasOK
<1>2. MemoryOf(UnhookedArena) = UnitsOf(h) /\ AllocationsOf(UnhookedArena) = AllocationsIn(h, requested)
    BY <1>1, TermsNow
<1>3. /\ MemoryOf(UnhookedArena)' = UnitsOf(h)
      /\ AllocationsOf(UnhookedArena)' = AllocationsIn(h, requested')
    BY <1>1, MetadataNext
<1>4. AllocationsIn(h, requested') = AllocationsIn(h, requested)
    BY DEF AllocationsIn
<1> QED BY <1>2, <1>3, <1>4

(* The arena of CustomAllocator, once there is one. *)
CustomMemory == IF HasArena THEN MemoryOf(g_arena) ELSE {}
CustomAllocations == IF HasArena THEN AllocationsOf(g_arena) ELSE [b \in {} |-> 0]

LEMMA CustomNow ==
    ASSUME ArenaInvariant, g_arena \in DOMAIN heap
    PROVE  /\ IsHeap(heap[g_arena]) /\ AllocatedIn(heap[g_arena]) \subseteq DOMAIN requested
           /\ CustomMemory = UnitsOf(heap[g_arena])
           /\ CustomAllocations = AllocationsIn(heap[g_arena], requested)
    BY ArenaParts, TermsNow DEF CustomMemory, CustomAllocations, HasArena

LEMMA CustomThen ==
    ASSUME ArenaInvariant', g_arena' \in DOMAIN heap'
    PROVE  /\ CustomMemory' = UnitsOf(heap'[g_arena'])
           /\ CustomAllocations' = AllocationsIn(heap'[g_arena'], requested')
    BY PrimedParts, CustomNext DEF CustomMemory, CustomAllocations, HasArena

LEMMA CustomAllocates ==
    ASSUME AlignedInvariant, ArenaInvariant', g_arena \in DOMAIN heap, g_arena' = g_arena,
           DOMAIN heap' = DOMAIN heap, NEW request \in Request, AllocatesIn(g_arena, request)
    PROVE  CustomArena!Next
<1> DEFINE h == heap[g_arena]
           g == heap'[g_arena]
           size == SizeOf(request)
           allocations == CustomAllocations
           free == CustomArena!FreeMemory
<1>1. /\ IsHeap(h) /\ AllocatedIn(h) \subseteq DOMAIN requested
      /\ CustomMemory = UnitsOf(h) /\ allocations = AllocationsIn(h, requested)
    BY CustomNow DEF AlignedInvariant
<1>2. CustomMemory' = UnitsOf(g) /\ CustomAllocations' = AllocationsIn(g, requested')
    BY CustomThen
<1>3. free = FreeUnits(h)
  <2>1. UnitsOf(h) \ (UNION {SpanOf(b, allocations[b].size) : b \in DOMAIN allocations}) = FreeUnits(h)
      BY <1>1, FreeMemoryIs
  <2>2. free = CustomMemory \ (UNION {CustomArena!Span(b, allocations[b].size) : b \in DOMAIN allocations})
      BY DEF CustomArena!FreeMemory, CustomMemory, CustomAllocations
  <2>3. \A b : CustomArena!Span(b, allocations[b].size) = SpanOf(b, allocations[b].size)
      BY CustomTerms
  <2> HIDE DEF free, allocations
  <2> QED BY <2>1, <2>2, <2>3, <1>1
<1>4. PICK block :
          /\ requested' = Put(requested, block, size)
          /\ PlacedInFree(h, size, block, g) \/ PlacedInRegion(h, size, block, g)
    BY AllocationStep
<1>5. size \in {SizeOf(r) : r \in Request}
    OBVIOUS
<1> HIDE DEF h, g, size, allocations, free
<1>6. ASSUME NEW available, IsPlaced(h, available, size, block, g)
      PROVE  CustomArena!Place(available, size)
  <2>1. block = CustomArena!Min(CustomArena!Fits(available, size))
      BY <1>6, CustomTerms, SameMin DEF IsPlaced
  <2>2. AllocationsIn(g, requested') =
            [b \in DOMAIN allocations \union {block} |->
                IF b = block THEN [size |-> SizeTaken(available, block, size), request |-> size]
                ELSE allocations[b]]
      BY <1>1, <1>4, <1>6, PlacedAllocations
  <2>3. SizeTaken(available, block, size) = CustomArena!Taken(available, block, size)
      BY CustomTerms
  <2> QED BY <2>1, <2>2, <2>3, <1>2 DEF CustomArena!Place, CustomAllocations, allocations
<1>7. CASE PlacedInFree(h, size, block, g)
  <2>1. CustomArena!Fits(free, size) # {}
      BY <1>3, <1>7, CustomTerms DEF PlacedInFree
  <2>2. CustomArena!Place(free, size)
      BY <1>3, <1>6, <1>7 DEF PlacedInFree
  <2>3. CustomMemory' = CustomMemory
      BY <1>1, <1>2, <1>7 DEF PlacedInFree
  <2>4. CustomArena!Alloc(size)
      BY <2>1, <2>2, <2>3 DEF CustomArena!Alloc, CustomMemory, free
  <2> QED BY <2>4, <1>5 DEF CustomArena!Next
<1>8. CASE PlacedInRegion(h, size, block, g)
  <2>1. CustomArena!Fits(free, size) = {}
      BY <1>3, <1>8, CustomTerms DEF PlacedInRegion
  <2>2. PICK region \in RegionsFor(size) :
            /\ region \intersect UnitsOf(h) = {}
            /\ UnitsOf(g) = UnitsOf(h) \union region
            /\ IsPlaced(h, FreeUnits(h) \union region, size, block, g)
      BY <1>8 DEF PlacedInRegion
  <2>3. CustomArena!Place(free \union region, size)
      BY <2>2, <1>3, <1>6
  <2>4. region \in CustomArena!Region(size)
      BY <2>2, CustomTerms
  <2>5. region \intersect CustomMemory = {} /\ CustomMemory' = CustomMemory \union region
      BY <2>2, <1>1, <1>2
  <2>6. CustomArena!AllocFromNewRegion(size)
      BY <2>1, <2>3, <2>4, <2>5 DEF CustomArena!AllocFromNewRegion, CustomMemory, free
  <2> QED BY <2>6, <1>5 DEF CustomArena!Next
<1> QED BY <1>4, <1>7, <1>8

LEMMA CustomFrees ==
    ASSUME ArenaInvariant, ArenaInvariant', g_arena \in DOMAIN heap, g_arena' = g_arena,
           DOMAIN heap' = DOMAIN heap, NEW b \in AllocatedIn(heap[g_arena]),
           IsFreed(heap[g_arena], b, heap'[g_arena]), requested' = WithoutRequest(b)
    PROVE  CustomArena!Next
<1> DEFINE h == heap[g_arena]
           g == heap'[g_arena]
           allocations == CustomAllocations
<1>1. /\ IsHeap(h) /\ AllocatedIn(h) \subseteq DOMAIN requested
      /\ CustomMemory = UnitsOf(h) /\ allocations = AllocationsIn(h, requested)
    BY CustomNow
<1>2. CustomMemory' = UnitsOf(g) /\ CustomAllocations' = AllocationsIn(g, requested')
    BY CustomThen
<1>3. b \in DOMAIN allocations
    BY <1>1 DEF AllocationsIn
<1>4. /\ AllocationsIn(g, requested') = [a \in DOMAIN allocations \ {b} |-> allocations[a]]
      /\ UnitsOf(g) = UnitsOf(h)
  <2> HIDE DEF allocations
  <2> QED BY <1>1, FreedAllocations DEF WithoutRequest
<1>5. CustomArena!Free(b)
  <2>1. CustomMemory' = CustomMemory
      BY <1>1, <1>2, <1>4
  <2>2. CustomAllocations' = [a \in DOMAIN allocations \ {b} |-> allocations[a]]
      BY <1>2, <1>4
  <2> QED BY <2>1, <2>2 DEF CustomArena!Free, CustomMemory, CustomAllocations
<1> QED BY <1>3, <1>5 DEF CustomArena!Next, CustomAllocations

(* When it is deleted, it holds no allocation; a new one holds no memory either. *)
LEMMA CustomIsDeleted ==
    ASSUME ArenaInvariant, g_arena \in DOMAIN heap, AllocatedIn(heap[g_arena]) = {},
           g_arena' \notin DOMAIN heap'
    PROVE  CustomArena!Next
<1>1. DOMAIN CustomAllocations = {}
    BY CustomNow DEF AllocationsIn
<1>2. CustomAllocations = [b \in {} |-> 0]
    BY <1>1, CustomNow DEF AllocationsIn
<1>3. CustomMemory' = {} /\ CustomAllocations' = [b \in {} |-> 0]
    BY DEF CustomMemory, CustomAllocations, HasArena
<1>4. CustomArena!DeleteArena
    BY <1>1, <1>2, <1>3 DEF CustomArena!DeleteArena, CustomMemory, CustomAllocations
<1> QED BY <1>4 DEF CustomArena!Next

LEMMA CustomStarts ==
    ASSUME ArenaInvariant', g_arena \notin DOMAIN heap, g_arena' \in DOMAIN heap',
           heap'[g_arena'] = EmptyHeap
    PROVE  UNCHANGED <<CustomMemory, CustomAllocations>>
<1>1. CustomMemory = {} /\ CustomAllocations = [b \in {} |-> 0]
    BY DEF CustomMemory, CustomAllocations, HasArena
<1>2. /\ CustomMemory' = UnitsOf(EmptyHeap)
      /\ CustomAllocations' = AllocationsIn(EmptyHeap, requested')
    BY CustomThen
<1>3. UnitsOf(EmptyHeap) = {}
  <2>1. \A a \in Memory : a \in Nat
      BY MemoryIs
  <2> QED BY <2>1, EmptyHeapIs DEF UnitsOf
<1>4. AllocationsIn(EmptyHeap, requested') = [b \in {} |-> 0]
    BY EmptyHeapIs DEF AllocationsIn
<1> QED BY <1>1, <1>2, <1>3, <1>4

(* What is allocated in one arena is not allocated in the other. *)
LEMMA OtherRequestsStay ==
    ASSUME AlignedInvariant, ArenaInvariant', g_arena \in DOMAIN heap, g_arena # UnhookedArena,
           DOMAIN heap' = DOMAIN heap, heap'[UnhookedArena] = heap[UnhookedArena],
           NEW request \in Request, AllocatesIn(g_arena, request),
           NEW b \in AllocatedIn(heap[UnhookedArena])
    PROVE  requested'[b] = requested[b]
<1> DEFINE size == SizeOf(request)
<1>1. PICK block :
          /\ requested' = Put(requested, block, size)
          /\ \/ PlacedInFree(heap[g_arena], size, block, heap'[g_arena])
             \/ PlacedInRegion(heap[g_arena], size, block, heap'[g_arena])
    BY AllocationStep
<1> HIDE DEF size
<1>2. block \in AllocatedIn(heap'[g_arena])
    BY <1>1 DEF PlacedInFree, PlacedInRegion, IsPlaced
<1>3. /\ UnhookedArena \in DOMAIN heap' /\ IsHeap(heap'[g_arena]) /\ IsHeap(heap'[UnhookedArena])
    BY PrimedParts DEF AlignedInvariant, ArenaInvariant, ArenasOK
<1>4. ASSUME b = block PROVE FALSE
  <2>1. b \in AllocatedIn(heap'[UnhookedArena])
      OBVIOUS
  <2>2. b \in MemoryStart..MemoryEnd /\ Covers(heap'[UnhookedArena], b) /\ Covers(heap'[g_arena], b)
      BY <2>1, <1>2, <1>3, <1>4, AllocatedBlockType
  <2>3. b \in Nat
      BY <2>2, ArenaAssumption
  <2>4. g_arena = UnhookedArena
      BY <2>2, <2>3, <1>3 DEF ArenaInvariant, MemoryOK
  <2> QED BY <2>4
<1>5. b \in DOMAIN requested
    BY ArenaParts DEF AlignedInvariant, ArenaInvariant, ArenasOK
<1> QED BY <1>1, <1>4, <1>5 DEF Put

MetadataStep == MetadataArena!Next \/ UNCHANGED <<MemoryOf(UnhookedArena), AllocationsOf(UnhookedArena)>>
CustomStep == CustomArena!Next \/ UNCHANGED <<CustomMemory, CustomAllocations>>

LEMMA ArenaStep ==
    ASSUME AlignedInvariant, ArenaInvariant', [Next]_vars
    PROVE  MetadataStep /\ CustomStep
<1>1. ArenaInvariant /\ UnhookedArena \in DOMAIN heap
    BY DEF AlignedInvariant, ArenaInvariant, ArenasOK
<1>2. ASSUME UNCHANGED <<heap, requested, g_arena>>
      PROVE  MetadataStep /\ CustomStep
  <2>1. UNCHANGED <<MemoryOf(UnhookedArena), AllocationsOf(UnhookedArena)>>
      BY <1>1, <1>2, MetadataStutters
  <2>2. UNCHANGED <<CustomMemory, CustomAllocations>>
      BY <1>2 DEF CustomMemory, CustomAllocations, HasArena, MemoryOf, AllocationsOf, Allocated, Blocks, Bytes
  <2> QED BY <2>1, <2>2 DEF MetadataStep, CustomStep
<1>3. CASE Initialize
  <2>1. /\ g_arena \notin DOMAIN heap /\ g_arena' \in DOMAIN heap' /\ heap'[g_arena'] = EmptyHeap
        /\ AllocatesIn(UnhookedArena, ArenaSize)
      BY <1>1, <1>3, InitializeIs
  <2>2. MetadataArena!Next
      BY <2>1, MetadataAllocates
  <2>3. UNCHANGED <<CustomMemory, CustomAllocations>>
      BY <2>1, CustomStarts
  <2> QED BY <2>2, <2>3 DEF MetadataStep, CustomStep
<1>4. ASSUME NEW size \in Request, Allocate(size), ~UNCHANGED vars
      PROVE  MetadataStep /\ CustomStep
  <2>1. /\ g_arena \in DOMAIN heap /\ g_arena # UnhookedArena /\ g_arena' = g_arena
        /\ DOMAIN heap' = DOMAIN heap /\ heap'[UnhookedArena] = heap[UnhookedArena]
        /\ AllocatesIn(g_arena, size)
      BY <1>1, <1>4, AllocateIs
  <2>2. CustomArena!Next
      BY <2>1, CustomAllocates
  <2>3. UNCHANGED <<MemoryOf(UnhookedArena), AllocationsOf(UnhookedArena)>>
      BY <1>1, <2>1, OtherRequestsStay, MetadataStutters
  <2> QED BY <2>2, <2>3 DEF MetadataStep, CustomStep
<1>5. ASSUME NEW b, FreeBlock(b)
      PROVE  MetadataStep /\ CustomStep
  <2>1. /\ g_arena \in DOMAIN heap /\ g_arena' = g_arena
        /\ DOMAIN heap' = DOMAIN heap /\ heap'[UnhookedArena] = heap[UnhookedArena]
        /\ b \in AllocatedIn(heap[g_arena]) /\ b \notin AllocatedIn(heap[UnhookedArena])
        /\ IsFreed(heap[g_arena], b, heap'[g_arena])
        /\ requested' = WithoutRequest(b)
      BY <1>1, <1>5, FreeBlockIs
  <2>2. CustomArena!Next
      BY <1>1, <2>1, CustomFrees
  <2>3. \A c \in AllocatedIn(heap[UnhookedArena]) : requested'[c] = requested[c]
    <3>1. AllocatedIn(heap[UnhookedArena]) \subseteq DOMAIN requested
        BY <1>1, ArenaParts
    <3> QED BY <3>1, <2>1 DEF WithoutRequest
  <2>4. UNCHANGED <<MemoryOf(UnhookedArena), AllocationsOf(UnhookedArena)>>
      BY <1>1, <2>1, <2>3, MetadataStutters
  <2> QED BY <2>2, <2>4 DEF MetadataStep, CustomStep
<1>6. ASSUME HasArena, DeleteArena(g_arena), UNCHANGED allocatorVars
      PROVE  MetadataStep /\ CustomStep
  <2>1. /\ g_arena \in DOMAIN heap /\ g_arena # UnhookedArena /\ DOMAIN heap' = {UnhookedArena}
        /\ AllocatedIn(heap[g_arena]) = {} /\ g_arena \in AllocatedIn(heap[UnhookedArena])
        /\ IsFreed(heap[UnhookedArena], g_arena, heap'[UnhookedArena])
        /\ requested' = WithoutRequest(g_arena)
      BY <1>1, <1>6, DeleteArenaIs
  <2>2. MetadataArena!Next
      BY <1>1, <2>1, MetadataFrees
  <2>3. g_arena' \notin DOMAIN heap'
      BY <1>6, <2>1 DEF allocatorVars
  <2>4. CustomArena!Next
      BY <1>1, <2>1, <2>3, CustomIsDeleted
  <2> QED BY <2>2, <2>4 DEF MetadataStep, CustomStep
<1>7. CASE Shutdown
    BY <1>2, <1>6, <1>7 DEF Shutdown, arenaVars, allocatorVars
<1>8. CASE InitializeForUnitTest
    BY <1>2, <1>8 DEF InitializeForUnitTest, arenaVars
<1>9. CASE UNCHANGED vars
    BY <1>2, <1>9 DEF vars, arenaVars, allocatorVars
<1> QED BY <1>3, <1>4, <1>5, <1>7, <1>8, <1>9 DEF Next

(***************************************************************************)
(* DoAllocWithArena, Free, NewArena and DeleteArena implement first fit, in*)
(* the arena of CustomAllocator and in the one of the Arena objects, for   *)
(* all sizes and whatever levels the blocks draw: the search of the skip   *)
(* list from the level of the size on passes over no block that would do.  *)
(***************************************************************************)
THEOREM ArenasImplementFirstFit == Spec => ImplementsFirstFit
<1>1. ASSUME AllocatorInit
      PROVE  CustomArena!Init /\ MetadataArena!Init
  <2>1. /\ UnhookedArena \in DOMAIN heap /\ heap[UnhookedArena] = EmptyHeap /\ ~HasArena
      BY <1>1 DEF AllocatorInit, Init, HasArena, Null, UnhookedArena
  <2>2. CustomArena!Init
      BY <2>1 DEF CustomArena!Init
  <2>3. /\ MemoryOf(UnhookedArena) = UnitsOf(EmptyHeap)
        /\ AllocationsOf(UnhookedArena) = AllocationsIn(EmptyHeap, requested)
      BY <2>1, EmptyHeapIs, TermsNow
  <2>4. UnitsOf(EmptyHeap) = {}
    <3>1. \A a \in Memory : a \in Nat
        BY MemoryIs
    <3> QED BY <3>1, EmptyHeapIs DEF UnitsOf
  <2>5. AllocationsIn(EmptyHeap, requested) = [b \in {} |-> 0]
      BY EmptyHeapIs DEF AllocationsIn
  <2>6. MetadataArena!Init
      BY <2>3, <2>4, <2>5 DEF MetadataArena!Init
  <2> QED BY <2>2, <2>6
<1>2. AlignedInvariant /\ ArenaInvariant' /\ [Next]_vars => MetadataStep /\ CustomStep
    BY ArenaStep
<1>3. Spec => MetadataArena!Spec
  <2>1. AllocatorInit => MetadataArena!Init
      BY <1>1
  <2> QED BY <2>1, <1>2, AlwaysAligned, ArenaInvariantInductive, PTL
          DEF Spec, MetadataStep, MetadataArena!Spec
<1>4. Spec => CustomArena!Spec
  <2>1. AllocatorInit => CustomArena!Init
      BY <1>1
  <2> QED BY <2>1, <1>2, AlwaysAligned, ArenaInvariantInductive, PTL
          DEF Spec, CustomStep, CustomMemory, CustomAllocations, CustomArena!Spec
<1> QED BY <1>3, <1>4, PTL DEF ImplementsFirstFit
=============================================================================
