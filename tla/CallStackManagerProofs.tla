----------------------- MODULE CallStackManagerProofs -----------------------
(***************************************************************************)
(* The properties of CallStackManager, for any call stacks, any addresses  *)
(* and any hash function whatever, even a constant one.                    *)
(***************************************************************************)
EXTENDS CallStackHashing, FiniteSetTheorems, SequenceTheorems, WellFoundedInduction, TLAPS

(***************************************************************************)
(* The inductive invariant.  The objects in the set are all there are, no  *)
(* array is shared between two of them or with the caller, and every       *)
(* object stores the hash of the copy it points to: a lookup that compares *)
(* hashes first then never misses an object.                               *)
(***************************************************************************)
ArrayOf(p) == arrays[objects[p].stack]

ObjectIsSound(p) ==
    /\ p \in Address /\ p \notin DOMAIN arrays
    /\ objects[p] = [depth |-> Len(ArrayOf(p)),
                     stack |-> objects[p].stack,
                     hash  |-> StackHash(ArrayOf(p))]
    /\ objects[p].stack \in Address \intersect DOMAIN arrays
    /\ ArrayOf(p) \in Stack

MemoryIsSound ==
    /\ call_stacks = DOMAIN objects
    /\ DOMAIN arrays = {Buffer} \union {objects[p].stack : p \in DOMAIN objects}
    /\ \A p \in DOMAIN objects : ObjectIsSound(p)
    /\ \A p, q \in DOMAIN objects : ArrayOf(p) = ArrayOf(q) => p = q

PointersAreKept ==
    \A r \in returned : r[2] \in DOMAIN objects /\ r[1] = ArrayOf(r[2])

PointersAgree == \A r, s \in returned : (r[1] = s[1]) <=> (r[2] = s[2])

IInv ==
    /\ destroyed \in BOOLEAN
    /\ ~destroyed => MemoryIsSound /\ PointersAreKept
    /\ destroyed => DestructorFreesWhatItOwns
    /\ PointersAgree

-----------------------------------------------------------------------------
LEMMA InitIInv == Init => IInv
<1> SUFFICES ASSUME Init PROVE IInv
    OBVIOUS
<1>1. MemoryIsSound
    BY DEF Init, MemoryIsSound
<1> QED BY <1>1 DEF Init, IInv, PointersAreKept, PointersAgree

(* Call stacks are equal when CallStackPointerEqual finds no difference. *)
LEMMA EqualStacks ==
    ASSUME NEW s \in Stack, NEW t \in Stack, Len(s) = Len(t),
           \A i \in 1..Len(s) : s[i] = t[i]
    PROVE  s = t
<1>1. s \in Seq(Frame) /\ t \in Seq(Frame)
    BY ManagerAssumption
<1>2. DOMAIN s = 1..Len(s) /\ DOMAIN t = 1..Len(t) /\ s = [i \in DOMAIN s |-> s[i]] /\ t = [i \in DOMAIN t |-> t[i]]
    BY <1>1
<1> QED BY <1>2

(* While blocks are left, Allocate returns one that is not in use. *)
LEMMA AllocateIsFresh ==
    ASSUME NEW in_use, Address \ in_use # {}
    PROVE  Allocate(in_use) \in Address /\ Allocate(in_use) \notin in_use
<1>1. \E a \in Address : a \notin in_use
    OBVIOUS
<1> QED BY <1>1 DEF Allocate

LEMMA TwoBlocksAreLeft ==
    ASSUME NEW in_use, Cardinality(Address \ in_use) >= 2
    PROVE  /\ Address \ in_use # {}
           /\ \A p : Address \ (in_use \union {p}) # {}
<1>1. IsFiniteSet(Address \ in_use)
    BY ManagerAssumption, FS_Difference
<1>2. Address \ in_use # {}
    BY FS_EmptySet
<1>3. ASSUME NEW p, Address \ (in_use \union {p}) = {} PROVE FALSE
  <2>1. Address \ in_use \subseteq {p}
      BY <1>3
  <2>2. IsFiniteSet({p}) /\ Cardinality({p}) = 1
      BY FS_Singleton
  <2>3. Cardinality(Address \ in_use) <= 1 /\ Cardinality(Address \ in_use) \in Nat
      BY <1>1, <2>1, <2>2, FS_Subset, FS_CardinalityType
  <2> QED BY <2>3
<1> QED BY <1>2, <1>3

-----------------------------------------------------------------------------
(* A lookup finds the objects of the stack it looks for and no others. *)
LEMMA LookupIsExact ==
    ASSUME MemoryIsSound, NEW stack \in Stack, NEW memory,
           memory = [arrays EXCEPT ![Buffer] = stack]
    PROVE  Matches(memory, Temp(stack)) = {p \in DOMAIN objects : ArrayOf(p) = stack}
<1>1. \A p \in DOMAIN objects :
         /\ memory[objects[p].stack] = ArrayOf(p)
         /\ memory[Buffer] = stack
  <2>1. Buffer \in DOMAIN arrays /\ Buffer \notin Address
      BY ManagerAssumption DEF MemoryIsSound
  <2> QED BY <2>1 DEF MemoryIsSound, ObjectIsSound, ArrayOf
<1>2. ASSUME NEW p \in DOMAIN objects
      PROVE  (objects[p].hash = Temp(stack).hash /\ Equal(memory, objects[p], Temp(stack)))
                 <=> ArrayOf(p) = stack
  <2>1. /\ ArrayOf(p) \in Stack
        /\ objects[p].depth = Len(ArrayOf(p))
        /\ objects[p].hash = StackHash(ArrayOf(p))
      BY DEF MemoryIsSound, ObjectIsSound
  <2>2. Temp(stack).depth = Len(stack) /\ Temp(stack).hash = StackHash(stack) /\ Temp(stack).stack = Buffer
      BY DEF Temp
  <2>3. ASSUME Equal(memory, objects[p], Temp(stack)) PROVE ArrayOf(p) = stack
    <3>1. Len(ArrayOf(p)) = Len(stack)
        BY <2>1, <2>2, <2>3 DEF Equal
    <3>2. \A i \in 1..Len(ArrayOf(p)) : ArrayOf(p)[i] = stack[i]
        BY <1>1, <2>1, <2>2, <2>3 DEF Equal
    <3> QED BY <2>1, <3>1, <3>2, EqualStacks
  <2>4. ASSUME ArrayOf(p) = stack
        PROVE  objects[p].hash = Temp(stack).hash /\ Equal(memory, objects[p], Temp(stack))
      BY <1>1, <2>1, <2>2, <2>4 DEF Equal
  <2> QED BY <2>3, <2>4
<1>3. call_stacks = DOMAIN objects
    BY DEF MemoryIsSound
<1> QED BY <1>2, <1>3 DEF Matches

(* The caller's array is no object's: filling it again changes none. *)
LEMMA FoundStep ==
    ASSUME IInv, ~destroyed, UNCHANGED <<destroyed, objects, call_stacks>>, NEW stack \in Stack,
           NEW p \in DOMAIN objects, ArrayOf(p) = stack,
           arrays' = [arrays EXCEPT ![Buffer] = stack],
           returned' = returned \union {<<stack, p>>}
    PROVE  IInv'
<1>1. MemoryIsSound /\ PointersAreKept /\ PointersAgree
    BY DEF IInv
<1>2. /\ DOMAIN arrays' = DOMAIN arrays
      /\ \A q \in DOMAIN objects : ArrayOf(q)' = ArrayOf(q)
    BY <1>1, ManagerAssumption DEF MemoryIsSound, ObjectIsSound, ArrayOf
<1>3. MemoryIsSound'
  <2>1. \A q \in DOMAIN objects : ObjectIsSound(q)'
      BY <1>1, <1>2 DEF MemoryIsSound, ObjectIsSound
  <2> QED BY <1>1, <1>2, <2>1 DEF MemoryIsSound
<1>4. PointersAreKept'
    BY <1>1, <1>2 DEF PointersAreKept
<1>5. PointersAgree'
    BY <1>1 DEF PointersAreKept, PointersAgree, MemoryIsSound
<1> QED BY <1>3, <1>4, <1>5 DEF IInv

-----------------------------------------------------------------------------
(* A stack no object has gets an object and a copy of its own. *)
LEMMA NewObjectStep ==
    ASSUME IInv, ~destroyed, UNCHANGED destroyed, NEW stack \in Stack,
           \A q \in DOMAIN objects : ArrayOf(q) # stack,
           NEW p \in Address, p \notin InUse,
           NEW copy \in Address, copy \notin InUse, copy # p,
           arrays' = [a \in DOMAIN arrays \union {copy} |->
                         IF a = copy THEN stack ELSE [arrays EXCEPT ![Buffer] = stack][a]],
           objects' = [q \in DOMAIN objects \union {p} |->
                          IF q = p THEN [Temp(stack) EXCEPT !.stack = copy] ELSE objects[q]],
           call_stacks' = call_stacks \union {p},
           returned' = returned \union {<<stack, p>>}
    PROVE  IInv'
<1>1. MemoryIsSound /\ PointersAreKept /\ PointersAgree
    BY DEF IInv
<1>2. /\ DOMAIN arrays' = DOMAIN arrays \union {copy}
      /\ DOMAIN objects' = DOMAIN objects \union {p}
      /\ p \notin DOMAIN arrays /\ p \notin DOMAIN objects
      /\ copy \notin DOMAIN arrays /\ copy \notin DOMAIN objects
    BY DEF InUse
<1>3. /\ objects'[p] = [depth |-> Len(stack), stack |-> copy, hash |-> StackHash(stack)]
      /\ ArrayOf(p)' = stack
  <2>1. objects'[p] = [depth |-> Len(stack), stack |-> copy, hash |-> StackHash(stack)]
      BY DEF Temp
  <2> QED BY <2>1 DEF ArrayOf
<1>4. \A q \in DOMAIN objects :
         /\ objects'[q] = objects[q]
         /\ objects[q].stack \in Address \intersect DOMAIN arrays
         /\ ArrayOf(q)' = ArrayOf(q)
  <2> SUFFICES ASSUME NEW q \in DOMAIN objects
               PROVE  /\ objects'[q] = objects[q]
                      /\ objects[q].stack \in Address \intersect DOMAIN arrays
                      /\ ArrayOf(q)' = ArrayOf(q)
      OBVIOUS
  <2>1. objects'[q] = objects[q]
      BY <1>2
  <2>2. objects[q].stack \in Address \intersect DOMAIN arrays
      BY <1>1 DEF MemoryIsSound, ObjectIsSound
  <2>3. objects[q].stack # copy /\ objects[q].stack # Buffer
      BY <1>2, <2>2, ManagerAssumption
  <2>4. arrays'[objects[q].stack] = arrays[objects[q].stack]
      BY <2>2, <2>3
  <2> QED BY <2>1, <2>2, <2>4 DEF ArrayOf
<1>5. MemoryIsSound'
  <2>1. call_stacks' = DOMAIN objects'
      BY <1>1, <1>2 DEF MemoryIsSound
  <2>2. DOMAIN arrays' = {Buffer} \union {objects'[q].stack : q \in DOMAIN objects'}
    <3>1. objects'[p].stack = copy
        BY <1>3
    <3>2. {objects'[q].stack : q \in DOMAIN objects'} = {copy} \union {objects[q].stack : q \in DOMAIN objects}
      <4> DEFINE S == {objects[q].stack : q \in DOMAIN objects}
                 T == {objects'[q].stack : q \in DOMAIN objects'}
      <4>1. copy \in T
          BY <1>2, <3>1
      <4>2. ASSUME NEW a \in S PROVE a \in T
          BY <1>2, <1>4, <4>2
      <4>3. ASSUME NEW a \in T PROVE a \in {copy} \union S
          BY <1>2, <1>4, <3>1, <4>3
      <4> QED BY <4>1, <4>2, <4>3
    <3> QED BY <1>1, <1>2, <3>2 DEF MemoryIsSound
  <2>3. ObjectIsSound(p)'
      BY <1>2, <1>3 DEF ObjectIsSound
  <2>4. \A q \in DOMAIN objects : ObjectIsSound(q)'
    <3> SUFFICES ASSUME NEW q \in DOMAIN objects PROVE ObjectIsSound(q)'
        OBVIOUS
    <3>1. ObjectIsSound(q) /\ q # copy
        BY <1>1, <1>2 DEF MemoryIsSound
    <3>2. /\ q \in Address /\ q \notin DOMAIN arrays'
          /\ objects'[q].stack \in Address \intersect DOMAIN arrays'
          /\ ArrayOf(q)' \in Stack
        BY <1>2, <1>4, <3>1 DEF ObjectIsSound
    <3>3. objects'[q] = [depth |-> Len(ArrayOf(q)'), stack |-> objects'[q].stack,
                         hash |-> StackHash(ArrayOf(q)')]
        BY <1>4, <3>1 DEF ObjectIsSound
    <3> QED BY <3>2, <3>3 DEF ObjectIsSound
  <2>5. \A q, r \in DOMAIN objects' : ArrayOf(q)' = ArrayOf(r)' => q = r
      BY <1>1, <1>2, <1>3, <1>4 DEF MemoryIsSound
  <2> QED BY <1>2, <2>1, <2>2, <2>3, <2>4, <2>5 DEF MemoryIsSound
<1>6. PointersAreKept'
  <2>1. \A r \in returned : r[2] \in DOMAIN objects' /\ r[1] = ArrayOf(r[2])'
      BY <1>1, <1>2, <1>4 DEF PointersAreKept
  <2> QED BY <1>2, <1>3, <2>1 DEF PointersAreKept
<1>7. PointersAgree'
  <2>1. \A r \in returned : r[1] # stack /\ r[2] # p
      BY <1>1, <1>2 DEF PointersAreKept
  <2> QED BY <1>1, <2>1 DEF PointersAgree
<1> QED BY <1>5, <1>6, <1>7 DEF IInv

LEMMA GetCallStackStep ==
    ASSUME IInv, NEW stack \in Stack, GetCallStack(stack)
    PROVE  IInv'
<1> DEFINE memory == [arrays EXCEPT ![Buffer] = stack]
           found == Matches(memory, Temp(stack))
           p == Allocate(InUse)
           copy == Allocate(InUse \union {p})
<1>1. ~destroyed /\ UNCHANGED destroyed /\ MemoryIsSound
    BY DEF GetCallStack, IInv
<1>2. found = {q \in DOMAIN objects : ArrayOf(q) = stack}
    BY <1>1, LookupIsExact
<1>3. CASE found # {}
  <2>1. /\ \E q \in found : returned' = returned \union {<<stack, q>>}
        /\ arrays' = memory
        /\ UNCHANGED <<objects, call_stacks>>
      BY <1>3 DEF GetCallStack
  <2>2. PICK q \in found : returned' = returned \union {<<stack, q>>}
      BY <2>1
  <2>3. q \in DOMAIN objects /\ ArrayOf(q) = stack
      BY <1>2
  <2> QED BY <1>1, <2>1, <2>2, <2>3, FoundStep
<1>4. CASE found = {}
  <2>1. /\ Cardinality(Address \ InUse) >= 2
        /\ arrays' = [a \in DOMAIN memory \union {copy} |-> IF a = copy THEN stack ELSE memory[a]]
        /\ objects' = [q \in DOMAIN objects \union {p} |->
                          IF q = p THEN [Temp(stack) EXCEPT !.stack = copy] ELSE objects[q]]
        /\ call_stacks' = call_stacks \union {p}
        /\ returned' = returned \union {<<stack, p>>}
      BY <1>4 DEF GetCallStack
  <2>2. p \in Address /\ p \notin InUse
      BY <2>1, TwoBlocksAreLeft, AllocateIsFresh
  <2>3. copy \in Address /\ copy \notin InUse /\ copy # p
      BY <2>1, TwoBlocksAreLeft, AllocateIsFresh
  <2>4. DOMAIN memory = DOMAIN arrays
      OBVIOUS
  <2>5. \A q \in DOMAIN objects : ArrayOf(q) # stack
      BY <1>2, <1>4
  <2> HIDE DEF p, copy
  <2> QED BY <1>1, <2>1, <2>2, <2>3, <2>4, <2>5, NewObjectStep
<1> QED BY <1>3, <1>4

(* The destructor frees every object, and every array but the caller's. *)
LEMMA DestroyStep == ASSUME IInv, Destroy PROVE IInv'
<1>1. /\ MemoryIsSound /\ PointersAgree
      /\ destroyed' = TRUE /\ UNCHANGED returned
      /\ arrays' = Restrict(arrays, DOMAIN arrays \ OwnedArrays)
      /\ objects' = Restrict(objects, DOMAIN objects \ call_stacks)
    BY DEF IInv, Destroy
<1>2. DOMAIN objects \ call_stacks = {}
    BY <1>1 DEF MemoryIsSound
<1>3. objects' = <<>>
    BY <1>1, <1>2 DEF Restrict
<1>4. DOMAIN arrays' = {Buffer}
  <2>1. Buffer \notin OwnedArrays
      BY <1>1, ManagerAssumption DEF MemoryIsSound, ObjectIsSound, OwnedArrays
  <2>2. DOMAIN arrays \ OwnedArrays = {Buffer}
      BY <1>1, <2>1 DEF MemoryIsSound, OwnedArrays
  <2> QED BY <1>1, <2>2 DEF Restrict
<1>5. PointersAgree'
    BY <1>1 DEF PointersAgree
<1> QED BY <1>1, <1>3, <1>4, <1>5 DEF IInv, DestructorFreesWhatItOwns

LEMMA NextIInv == IInv /\ [Next]_vars => IInv'
<1> SUFFICES ASSUME IInv, [Next]_vars PROVE IInv'
    OBVIOUS
<1>1. ASSUME NEW stack \in Stack, GetCallStack(stack) PROVE IInv'
    BY <1>1, GetCallStackStep
<1>2. CASE Destroy
    BY <1>2, DestroyStep
<1>3. CASE UNCHANGED vars
    BY <1>3 DEF vars, IInv, MemoryIsSound, ObjectIsSound, ArrayOf, PointersAreKept,
                PointersAgree, DestructorFreesWhatItOwns
<1> QED BY <1>1, <1>2, <1>3 DEF Next

LEMMA IInvAlways == Spec => []IInv
<1> QED BY InitIInv, NextIInv, PTL DEF Spec

-----------------------------------------------------------------------------
(***************************************************************************)
(* For as long as the manager lives, a pointer identifies a call stack:    *)
(* the same one for the same stack, another for another stack, and the     *)
(* object it points to still reads as that stack, whatever the hash        *)
(* function and however often the caller filled its array again            *)
(* (GetCallStack and CallStackPointerEqual, lines 28 to 63).               *)
(***************************************************************************)
THEOREM PointersAlwaysIdentifyStacks == Spec => []PointersIdentifyStacks
<1>1. IInv => PointersIdentifyStacks
  <2> SUFFICES ASSUME IInv PROVE PointersIdentifyStacks
      OBVIOUS
  <2>1. \A r, s \in returned : (r[1] = s[1]) <=> (r[2] = s[2])
      BY DEF IInv, PointersAgree
  <2>2. ASSUME ~destroyed, NEW r \in returned
        PROVE  r[2] \in call_stacks /\ Reads(r[2], r[1])
    <3>1. r[2] \in DOMAIN objects /\ r[1] = ArrayOf(r[2]) /\ MemoryIsSound
        BY <2>2 DEF IInv, PointersAreKept
    <3>2. /\ r[2] \in call_stacks
          /\ objects[r[2]].depth = Len(r[1]) /\ r[1] \in Seq(Frame)
        BY <3>1, ManagerAssumption DEF MemoryIsSound, ObjectIsSound
    <3>3. SubSeq(r[1], 1, Len(r[1])) = r[1]
        BY <3>2
    <3> QED BY <3>1, <3>2, <3>3 DEF Reads, ArrayOf
  <2> QED BY <2>1, <2>2 DEF PointersIdentifyStacks
<1> QED BY <1>1, IInvAlways, PTL

(***************************************************************************)
(* The destructor frees all the memory the manager took and nothing else   *)
(* (lines 19 to 26).                                                       *)
(***************************************************************************)
THEOREM DestructorAlwaysFreesWhatItOwns == Spec => []DestructorFreesWhatItOwns
<1>1. IInv => DestructorFreesWhatItOwns
    BY DEF IInv, DestructorFreesWhatItOwns
<1> QED BY <1>1, IInvAlways, PTL

-----------------------------------------------------------------------------
(* A nonempty set of naturals has a least element. *)
LEMMA LeastNat ==
    ASSUME NEW S \in SUBSET Nat, S # {}
    PROVE  \E x \in S : \A y \in S : x <= y
<1>1. \E x \in S : \A y \in S : ~(<<y, x>> \in OpToRel(<, Nat))
    BY NatLessThanWellFounded, WFMin
<1>2. PICK x \in S : \A y \in S : ~(<<y, x>> \in OpToRel(<, Nat))
    BY <1>1
<1>3. \A y \in S : ~(y < x)
    BY <1>2 DEF OpToRel
<1> QED BY <1>3

(***************************************************************************)
(* The hash after each turn of the main loop, as MixWords has it.  That    *)
(* there is such a function, is shown by taking a smallest number of turns *)
(* for which there is none.                                                *)
(***************************************************************************)
IsMixing(mixed, hash, bytes, turns) ==
    mixed = [k \in 0..turns |->
                IF k = 0 THEN hash ELSE MixWord(mixed[k - 1], bytes, 4 * k - 3)]

LEMMA MixingExists ==
    ASSUME NEW hash, NEW bytes, NEW turns \in Nat
    PROVE  \E mixed : IsMixing(mixed, hash, bytes, turns)
<1> DEFINE Failing == {n \in Nat : ~\E mixed : IsMixing(mixed, hash, bytes, n)}
<1> SUFFICES ASSUME Failing # {} PROVE FALSE
    OBVIOUS
<1>1. PICK n \in Failing : \A m \in Failing : n <= m
    <2> HIDE DEF Failing
    <2>1. Failing \in SUBSET Nat
        BY DEF Failing
    <2> QED BY <2>1, LeastNat
<1>2. n \in Nat /\ ~\E mixed : IsMixing(mixed, hash, bytes, n)
    OBVIOUS
<1>3. CASE n = 0
  <2>1. IsMixing([k \in 0..0 |-> hash], hash, bytes, 0)
      BY DEF IsMixing
  <2> QED BY <2>1, <1>2, <1>3
<1>4. CASE n # 0
  <2>1. n - 1 \in Nat /\ n - 1 \notin Failing
      BY <1>1, <1>2, <1>4
  <2>2. PICK shorter : IsMixing(shorter, hash, bytes, n - 1)
      BY <2>1
  <2> DEFINE longer ==
          [k \in 0..n |-> IF k < n THEN shorter[k] ELSE MixWord(shorter[n - 1], bytes, 4 * n - 3)]
  <2>3. ASSUME NEW k \in 0..n
        PROVE  longer[k] = IF k = 0 THEN hash ELSE MixWord(longer[k - 1], bytes, 4 * k - 3)
    <3>1. k = 0 \/ longer[k - 1] = shorter[k - 1]
        BY <1>2
    <3>2. CASE k < n
      <4>1. k \in 0..(n - 1)
          BY <3>2, <1>2
      <4>2. shorter[k] = IF k = 0 THEN hash ELSE MixWord(shorter[k - 1], bytes, 4 * k - 3)
          BY <4>1, <2>2 DEF IsMixing
      <4>3. longer[k] = shorter[k]
          BY <3>2
      <4> QED BY <4>2, <4>3, <3>1
    <3>3. CASE k = n
        BY <3>3, <3>1, <1>4
    <3> QED BY <3>2, <3>3, <1>2
  <2>4. IsMixing(longer, hash, bytes, n)
    <3>1. longer = [k \in 0..n |-> longer[k]]
        OBVIOUS
    <3> HIDE DEF longer
    <3>2. longer = [k \in 0..n |-> IF k = 0 THEN hash ELSE MixWord(longer[k - 1], bytes, 4 * k - 3)]
        BY <2>3, <3>1
    <3> QED BY <3>2 DEF IsMixing
  <2> QED BY <2>4, <1>2
<1> QED BY <1>3, <1>4

LEMMA MixWordsIsMixing ==
    ASSUME NEW hash, NEW bytes, Len(bytes) \div 4 \in Nat
    PROVE  \E mixed : /\ IsMixing(mixed, hash, bytes, Len(bytes) \div 4)
                      /\ MixWords(hash, bytes) = mixed[Len(bytes) \div 4]
<1> DEFINE turns == Len(bytes) \div 4
           mixed == CHOOSE mixed : mixed = [k \in 0..turns |->
                        IF k = 0 THEN hash ELSE MixWord(mixed[k - 1], bytes, 4 * k - 3)]
<1>1. \E m : IsMixing(m, hash, bytes, turns)
    <2>1. turns \in Nat
        OBVIOUS
    <2> HIDE DEF turns
    <2> QED BY <2>1, MixingExists
<1>2. mixed = [k \in 0..turns |-> IF k = 0 THEN hash ELSE MixWord(mixed[k - 1], bytes, 4 * k - 3)]
    BY <1>1 DEF IsMixing
<1>3. MixWords(hash, bytes) = mixed[turns]
    BY DEF MixWords
<1> QED BY <1>2, <1>3 DEF IsMixing

-----------------------------------------------------------------------------
(* A turn only reads the four bytes it mixes. *)
LEMMA MixWordReadsFour ==
    ASSUME NEW hash, NEW s, NEW t, NEW i \in Int, NEW j \in Int,
           \A d \in 0..3 : s[i + d] = t[j + d]
    PROVE  MixWord(hash, s, i) = MixWord(hash, t, j)
<1>1. s[i] = t[j] /\ s[i + 1] = t[j + 1] /\ s[i + 2] = t[j + 2] /\ s[i + 2 + 1] = t[j + 2 + 1]
  <2>1. s[i + 0] = t[j + 0] /\ s[i + 1] = t[j + 1] /\ s[i + 2] = t[j + 2] /\ s[i + 3] = t[j + 3]
      OBVIOUS
  <2>2. i + 0 = i /\ j + 0 = j /\ i + 2 + 1 = i + 3 /\ j + 2 + 1 = j + 3
      OBVIOUS
  <2> QED BY <2>1, <2>2
<1>2. Get16bits(s, i) = Get16bits(t, j) /\ Get16bits(s, i + 2) = Get16bits(t, j + 2)
    BY <1>1 DEF Get16bits
<1> QED BY <1>2 DEF MixWord

SameBytes(s, t, turns, done) == \A i \in 1..(4 * turns) : s[i] = t[4 * done + i]

(* From where they agree on, two loops over the same bytes go on alike. *)
LEMMA MixingsAgree ==
    ASSUME NEW f, NEW g, NEW first, NEW hash, NEW s, NEW t,
           NEW turns \in Nat, NEW all \in Nat, NEW done \in Nat, done + turns <= all,
           IsMixing(f, first, s, turns), IsMixing(g, hash, t, all), g[done] = first,
           SameBytes(s, t, turns, done)
    PROVE  \A k \in 0..turns : f[k] = g[done + k]
<1> DEFINE Failing == {k \in 0..turns : f[k] # g[done + k]}
<1> SUFFICES ASSUME Failing # {} PROVE FALSE
    OBVIOUS
<1>1. PICK k \in Failing : \A j \in Failing : k <= j
  <2>1. Failing \in SUBSET Nat
      OBVIOUS
  <2> HIDE DEF Failing
  <2> QED BY <2>1, LeastNat
<1>2. k \in 0..turns /\ f[k] # g[done + k]
    OBVIOUS
<1>3. f[k] = IF k = 0 THEN g[done] ELSE MixWord(f[k - 1], s, 4 * k - 3)
    BY <1>2 DEF IsMixing
<1>4. k # 0
    BY <1>2, <1>3
<1>5. f[k - 1] = g[done + k - 1]
  <2>1. k - 1 \in 0..turns /\ k - 1 \notin Failing
      BY <1>1, <1>2, <1>4
  <2>2. done + (k - 1) = done + k - 1
      BY <1>2
  <2> QED BY <2>1, <2>2
<1>6. g[done + k] = MixWord(g[done + k - 1], t, 4 * (done + k) - 3)
  <2>1. done + k \in 0..all /\ done + k # 0
      BY <1>2, <1>4
  <2> QED BY <2>1 DEF IsMixing
<1>7. MixWord(f[k - 1], s, 4 * k - 3) = MixWord(f[k - 1], t, 4 * (done + k) - 3)
  <2>1. ASSUME NEW d \in 0..3
        PROVE  s[4 * k - 3 + d] = t[4 * (done + k) - 3 + d]
    <3>1. 4 * k - 3 + d \in 1..(4 * turns)
        BY <1>2, <1>4
    <3>2. 4 * done + (4 * k - 3 + d) = 4 * (done + k) - 3 + d
        BY <1>2
    <3> QED BY <3>1, <3>2 DEF SameBytes
  <2>2. 4 * k - 3 \in Int /\ 4 * (done + k) - 3 \in Int
      BY <1>2
  <2> QED BY <2>1, <2>2, MixWordReadsFour
<1> QED BY <1>2, <1>3, <1>4, <1>5, <1>6, <1>7

(* What is left after the loop only depends on the last one to three bytes. *)
LEMMA MixRestReadsRest ==
    ASSUME NEW hash, NEW s, NEW t, Len(s) \in Nat, Len(t) \in Nat, Len(s) % 4 = Len(t) % 4,
           \A d \in 1..(Len(s) % 4) :
               s[4 * (Len(s) \div 4) + d] = t[4 * (Len(t) \div 4) + d]
    PROVE  MixRest(hash, s) = MixRest(hash, t)
<1> DEFINE i == 4 * (Len(s) \div 4) + 1
           j == 4 * (Len(t) \div 4) + 1
<1>1. i \in Nat /\ j \in Nat
    OBVIOUS
<1>2. Len(s) % 4 >= 1 => s[i] = t[j]
    OBVIOUS
<1>3. Len(s) % 4 >= 2 => s[i + 1] = t[j + 1]
    OBVIOUS
<1>4. Len(s) % 4 >= 3 => s[i + 2] = t[j + 2]
    OBVIOUS
<1>5. Len(s) % 4 \in 0..3
    OBVIOUS
<1>6. Len(s) % 4 >= 2 => Get16bits(s, i) = Get16bits(t, j)
    BY <1>2, <1>3, <1>5 DEF Get16bits
<1>7. CASE Len(s) % 4 = 0
    BY <1>7 DEF MixRest
<1>8. CASE Len(s) % 4 = 1
    BY <1>8, <1>2 DEF MixRest
<1>9. CASE Len(s) % 4 = 2
    BY <1>9, <1>6 DEF MixRest
<1>10. CASE Len(s) % 4 = 3
    BY <1>10, <1>6, <1>4 DEF MixRest
<1> QED BY <1>5, <1>7, <1>8, <1>9, <1>10

-----------------------------------------------------------------------------
(***************************************************************************)
(* HashStep and HashFinish have copies of their own of the main loop, the  *)
(* end cases and the avalanching: they compute what those of Hash do.      *)
(***************************************************************************)
LEMMA CopiesAgree ==
    ASSUME NEW hash, NEW bytes
    PROVE  /\ HashStep(hash, bytes) = MixRest(MixWords(hash, bytes), bytes)
           /\ HashFinish(hash) = Avalanche(hash)
<1>1. StepWords(hash, bytes) = MixWords(hash, bytes)
    BY DEF StepWords, MixWords, StepWord, MixWord
<1>2. StepRest(MixWords(hash, bytes), bytes) = MixRest(MixWords(hash, bytes), bytes)
    BY DEF StepRest, MixRest
<1>3. HashFinish(hash) = Avalanche(hash)
    BY DEF HashFinish, Avalanche
<1> QED BY <1>1, <1>2, <1>3 DEF HashStep

LEMMA StagesAddUp ==
    ASSUME NEW S, NEW bytes \in Seq(S), NEW hash, NEW n \in 0..Len(bytes), NEW k \in 0..(n \div 4)
    PROVE  HashStep(HashStep(hash, SubSeq(bytes, 1, 4 * k)), SubSeq(bytes, 4 * k + 1, n))
             = HashStep(hash, SubSeq(bytes, 1, n))
<1> DEFINE first == SubSeq(bytes, 1, 4 * k)
           rest == SubSeq(bytes, 4 * k + 1, n)
           whole == SubSeq(bytes, 1, n)
<1>1. n \in Nat /\ k \in Nat /\ 4 * k <= n /\ Len(bytes) \in Nat /\ n <= Len(bytes)
    OBVIOUS
<1>2. \A i \in 1..Len(bytes) : bytes[i] \in S
    OBVIOUS
<1>3. Len(first) = 4 * k /\ \A i \in 1..(4 * k) : first[i] = bytes[i]
  <2>1. \A i \in 1..(4 * k) : bytes[i] \in S
      BY <1>1, <1>2
  <2>2. Len(first) = 4 * k
      BY <2>1, <1>1, SubSeqProperties
  <2>3. \A i \in 1..(4 * k - 1 + 1) : first[i] = bytes[1 + i - 1]
      BY <2>1, <1>1, SubSeqProperties
  <2> HIDE DEF first
  <2> QED BY <2>2, <2>3, <1>1
<1>4. Len(rest) = n - 4 * k /\ \A i \in 1..(n - 4 * k) : rest[i] = bytes[4 * k + i]
  <2>1. \A i \in (4 * k + 1)..n : bytes[i] \in S
      BY <1>1, <1>2
  <2>2. Len(rest) = n - 4 * k
      BY <2>1, <1>1, SubSeqProperties
  <2>3. \A i \in 1..(n - (4 * k + 1) + 1) : rest[i] = bytes[4 * k + 1 + i - 1]
      BY <2>1, <1>1, SubSeqProperties
  <2> HIDE DEF rest
  <2> QED BY <2>2, <2>3, <1>1
<1>5. Len(whole) = n /\ \A i \in 1..n : whole[i] = bytes[i]
  <2>1. \A i \in 1..n : bytes[i] \in S
      BY <1>1, <1>2
  <2>2. Len(whole) = n
      BY <2>1, <1>1, SubSeqProperties
  <2>3. \A i \in 1..(n - 1 + 1) : whole[i] = bytes[1 + i - 1]
      BY <2>1, <1>1, SubSeqProperties
  <2> HIDE DEF whole
  <2> QED BY <2>2, <2>3, <1>1
<1> HIDE DEF first, rest, whole
<1> DEFINE turns == (n - 4 * k) \div 4
<1>6. /\ Len(first) \div 4 = k /\ Len(first) % 4 = 0
      /\ Len(rest) \div 4 = turns /\ turns \in Nat /\ n \div 4 = k + turns
      /\ Len(rest) % 4 = n % 4
    BY <1>1, <1>3, <1>4
<1>7. PICK f : IsMixing(f, hash, first, k) /\ MixWords(hash, first) = f[k]
    BY <1>6, <1>1, MixWordsIsMixing
<1>8. PICK g : IsMixing(g, f[k], rest, turns) /\ MixWords(f[k], rest) = g[turns]
    BY <1>6, MixWordsIsMixing
<1>9. PICK h : IsMixing(h, hash, whole, n \div 4) /\ MixWords(hash, whole) = h[n \div 4]
    BY <1>5, <1>1, MixWordsIsMixing
<1> HIDE DEF turns
<1>10. f[k] = h[k]
  <2>1. PICK start \in Nat : start = 0
      OBVIOUS
  <2>2. h[start] = hash
      BY <2>1, <1>9, <1>6, <1>1 DEF IsMixing
  <2>3. SameBytes(first, whole, k, start)
      BY <2>1, <1>1, <1>3, <1>5 DEF SameBytes
  <2>4. start + k <= n \div 4 /\ n \div 4 \in Nat /\ k \in Nat
      BY <2>1, <1>1, <1>6
  <2>5. IsMixing(f, hash, first, k) /\ IsMixing(h, hash, whole, n \div 4)
      BY <1>7, <1>9
  <2>6. \A i \in 0..k : f[i] = h[start + i]
      BY <2>2, <2>3, <2>4, <2>5, MixingsAgree
  <2>7. start + k = k /\ k \in 0..k
      BY <2>1, <2>4
  <2> QED BY <2>6, <2>7, Zenon
<1>11. g[turns] = h[n \div 4]
  <2>1. SameBytes(rest, whole, turns, k)
    <3>1. 4 * turns <= n - 4 * k
        BY <1>1 DEF turns
    <3>2. ASSUME NEW i \in 1..(4 * turns)
          PROVE  rest[i] = whole[4 * k + i]
      <4>1. i \in 1..(n - 4 * k) /\ 4 * k + i \in 1..n
          BY <3>1, <1>1, <1>6
      <4> QED BY <4>1, <1>4, <1>5
    <3> QED BY <3>2 DEF SameBytes
  <2>2. IsMixing(g, f[k], rest, turns) /\ h[k] = f[k]
      BY <1>8, <1>10
  <2>3. \A i \in 0..turns : g[i] = h[k + i]
      BY <2>1, <2>2, <1>1, <1>6, <1>9, MixingsAgree
  <2>4. turns \in 0..turns /\ n \div 4 = k + turns
      BY <1>6
  <2>5. g[turns] = h[k + turns]
      BY <2>3, <2>4
  <2> QED BY <2>4, <2>5, Zenon
<1>12. HashStep(hash, first) = f[k]
    BY <1>6, <1>7, CopiesAgree DEF MixRest
<1>13. MixRest(h[n \div 4], rest) = MixRest(h[n \div 4], whole)
  <2>1. \A d \in 1..(n % 4) : rest[4 * turns + d] = whole[4 * (n \div 4) + d]
    <3> SUFFICES ASSUME NEW d \in 1..(n % 4)
                 PROVE  rest[4 * turns + d] = whole[4 * (n \div 4) + d]
        OBVIOUS
    <3>1. n = 4 * (n \div 4) + (n % 4) /\ n % 4 \in 0..3
        BY <1>1
    <3>2. 4 * turns + d \in 1..(n - 4 * k) /\ 4 * (n \div 4) + d \in 1..n
        BY <3>1, <1>1, <1>6
    <3>3. 4 * k + (4 * turns + d) = 4 * (n \div 4) + d
        BY <1>1, <1>6
    <3> QED BY <3>2, <3>3, <1>4, <1>5
  <2>2. \A d \in 1..(Len(rest) % 4) : rest[4 * (Len(rest) \div 4) + d] = whole[4 * (Len(whole) \div 4) + d]
      BY <2>1, <1>5, <1>6
  <2>3. Len(rest) \in Nat /\ Len(whole) \in Nat /\ Len(rest) % 4 = Len(whole) % 4
      BY <1>1, <1>4, <1>5, <1>6
  <2> QED BY <2>2, <2>3, MixRestReadsRest
<1>14. HashStep(f[k], rest) = MixRest(h[n \div 4], rest)
    BY <1>8, <1>11, CopiesAgree
<1>15. HashStep(hash, whole) = MixRest(h[n \div 4], whole)
    BY <1>9, CopiesAgree
<1>16. HashStep(HashStep(hash, first), rest) = HashStep(hash, whole)
    BY <1>12, <1>13, <1>14, <1>15
<1> QED BY <1>16 DEF first, rest, whole

(* Hash of no bytes is 0, and so is what the stages come to. *)
LEMMA AvalancheOfZero == Avalanche(Zero) = Zero
<1>1. XorShl(Zero, 3) = Zero /\ XorShl(Zero, 4) = Zero /\ XorShl(Zero, 25) = Zero
    BY XorAssumption DEF XorShl, Xor32, Shl, Zero, Half
<1>2. PlusShr(Zero, 5) = Zero /\ PlusShr(Zero, 17) = Zero /\ PlusShr(Zero, 6) = Zero
    BY DEF PlusShr, Plus, Shr, Zero, Half
<1> QED BY <1>1, <1>2, Zenon DEF Avalanche

-----------------------------------------------------------------------------
(***************************************************************************)
(* The bytes of the frames of a stack are bytes: FlattenSeq appends one    *)
(* frame after the other.                                                  *)
(***************************************************************************)
IsFlattening(flat, seqs, n) ==
    flat = [i \in 1..n |-> IF i = 1 THEN seqs[i] ELSE flat[i - 1] \o seqs[i]]

LEMMA FlatteningExists ==
    ASSUME NEW S, NEW seqs \in Seq(Seq(S))
    PROVE  \E flat \in [1..Len(seqs) -> Seq(S)] : IsFlattening(flat, seqs, Len(seqs))
<1> DEFINE Failing == {n \in 0..Len(seqs) : ~\E flat \in [1..n -> Seq(S)] : IsFlattening(flat, seqs, n)}
<1>0. Len(seqs) \in Nat /\ \A i \in 1..Len(seqs) : seqs[i] \in Seq(S)
    OBVIOUS
<1> SUFFICES ASSUME Failing # {} PROVE FALSE
    BY <1>0
<1>1. PICK n \in Failing : \A m \in Failing : n <= m
  <2>1. Failing \in SUBSET Nat
      BY <1>0
  <2> HIDE DEF Failing
  <2> QED BY <2>1, LeastNat
<1>2. n \in 0..Len(seqs) /\ ~\E flat \in [1..n -> Seq(S)] : IsFlattening(flat, seqs, n)
    OBVIOUS
<1>3. CASE n = 0
  <2>1. IsFlattening([i \in 1..0 |-> <<>>], seqs, 0) /\ [i \in 1..0 |-> <<>>] \in [1..0 -> Seq(S)]
      BY DEF IsFlattening
  <2> QED BY <2>1, <1>2, <1>3
<1>4. CASE n # 0
  <2>1. n \in Nat /\ n - 1 \in 0..Len(seqs) /\ n - 1 \notin Failing
    <3>1. n \in Nat /\ n - 1 \in 0..Len(seqs) /\ ~(n <= n - 1)
        BY <1>0, <1>2, <1>4
    <3> HIDE DEF Failing
    <3> QED BY <3>1, <1>1
  <2>2. PICK shorter \in [1..(n - 1) -> Seq(S)] : IsFlattening(shorter, seqs, n - 1)
      BY <2>1
  <2> DEFINE last == IF n = 1 THEN seqs[n] ELSE shorter[n - 1] \o seqs[n]
             longer == [i \in 1..n |-> IF i < n THEN shorter[i] ELSE last]
  <2>3. last \in Seq(S)
    <3>1. seqs[n] \in Seq(S)
        BY <1>0, <1>2, <1>4
    <3>2. n # 1 => shorter[n - 1] \in Seq(S)
        BY <2>1, <1>4
    <3>3. n # 1 => shorter[n - 1] \o seqs[n] \in Seq(S)
        BY <3>1, <3>2, ConcatProperties
    <3> QED BY <3>1, <3>3
  <2>4. ASSUME NEW i \in 1..n
        PROVE  longer[i] = IF i = 1 THEN seqs[i] ELSE longer[i - 1] \o seqs[i]
    <3> HIDE DEF last
    <3>1. i = 1 \/ longer[i - 1] = shorter[i - 1]
        BY <2>1
    <3>2. CASE i < n
      <4>1. i \in 1..(n - 1)
          BY <3>2, <2>1
      <4>2. shorter[i] = IF i = 1 THEN seqs[i] ELSE shorter[i - 1] \o seqs[i]
          BY <4>1, <2>2 DEF IsFlattening
      <4>3. longer[i] = shorter[i]
          BY <3>2
      <4> QED BY <4>2, <4>3, <3>1
    <3>3. CASE i = n
      <4>1. longer[i] = last
          BY <3>3
      <4> QED BY <4>1, <3>1, <3>3 DEF last
    <3> QED BY <3>2, <3>3, <2>1
  <2>5. longer \in [1..n -> Seq(S)]
    <3> HIDE DEF last
    <3>1. \A i \in 1..n : i < n => shorter[i] \in Seq(S)
        BY <2>1
    <3> QED BY <3>1, <2>3
  <2>6. IsFlattening(longer, seqs, n)
    <3>1. longer = [i \in 1..n |-> longer[i]]
        OBVIOUS
    <3> HIDE DEF longer
    <3>2. longer = [i \in 1..n |-> IF i = 1 THEN seqs[i] ELSE longer[i - 1] \o seqs[i]]
        BY <2>4, <3>1
    <3> QED BY <3>2 DEF IsFlattening
  <2> QED BY <2>5, <2>6, <1>2
<1> QED BY <1>3, <1>4

LEMMA FlatteningIsUnique ==
    ASSUME NEW f, NEW g, NEW seqs, NEW n \in Nat, IsFlattening(f, seqs, n), IsFlattening(g, seqs, n)
    PROVE  f = g
<1> DEFINE Failing == {i \in 1..n : f[i] # g[i]}
<1>1. Failing = {}
  <2> SUFFICES ASSUME Failing # {} PROVE FALSE
      OBVIOUS
  <2>1. PICK i \in Failing : \A j \in Failing : i <= j
    <3>1. Failing \in SUBSET Nat
        OBVIOUS
    <3> HIDE DEF Failing
    <3> QED BY <3>1, LeastNat
  <2>2. i \in 1..n /\ f[i] # g[i]
      OBVIOUS
  <2>3. i = 1 \/ f[i - 1] = g[i - 1]
    <3>1. i = 1 \/ (i - 1 \in 1..n /\ i - 1 \notin Failing)
        BY <2>1, <2>2
    <3> QED BY <3>1
  <2>4. /\ f[i] = IF i = 1 THEN seqs[i] ELSE f[i - 1] \o seqs[i]
        /\ g[i] = IF i = 1 THEN seqs[i] ELSE g[i - 1] \o seqs[i]
      BY <2>2 DEF IsFlattening
  <2> QED BY <2>2, <2>3, <2>4
<1>2. f = [i \in 1..n |-> f[i]] /\ g = [i \in 1..n |-> g[i]]
    BY DEF IsFlattening
<1> QED BY <1>1, <1>2

LEMMA FlattenIsSeq ==
    ASSUME NEW S, NEW seqs \in Seq(Seq(S))
    PROVE  FlattenSeq(seqs) \in Seq(S)
<1>1. CASE Len(seqs) = 0
  <2>1. seqs = <<>>
      BY <1>1
  <2> QED BY <2>1, <1>1 DEF FlattenSeq
<1>2. CASE Len(seqs) # 0
  <2> DEFINE n == Len(seqs)
             flatten == CHOOSE f : f = [i \in 1..Len(seqs) |->
                            IF i = 1 THEN seqs[i] ELSE f[i - 1] \o seqs[i]]
  <2>1. PICK flat \in [1..n -> Seq(S)] : IsFlattening(flat, seqs, n)
      BY FlatteningExists
  <2>2. IsFlattening(flatten, seqs, n)
    <3>1. \E f : f = [i \in 1..Len(seqs) |-> IF i = 1 THEN seqs[i] ELSE f[i - 1] \o seqs[i]]
        BY <2>1 DEF IsFlattening
    <3>2. flatten = [i \in 1..Len(seqs) |-> IF i = 1 THEN seqs[i] ELSE flatten[i - 1] \o seqs[i]]
        BY <3>1
    <3> QED BY <3>2 DEF IsFlattening
  <2>3. FlattenSeq(seqs) = flatten[n]
      BY <1>2 DEF FlattenSeq
  <2> HIDE DEF flatten
  <2>4. n \in Nat /\ n \in 1..n
      BY <1>2
  <2>5. flatten = flat
      BY <2>1, <2>2, <2>4, FlatteningIsUnique
  <2> QED BY <2>1, <2>3, <2>4, <2>5
<1> QED BY <1>1, <1>2

-----------------------------------------------------------------------------
(* The caller's array holds a call stack, or nothing yet, and outlives the manager. *)
BufferIsSound == Buffer \in DOMAIN arrays /\ arrays[Buffer] \in Seq(Frame)

LEMMA BufferStep == IInv /\ BufferIsSound /\ [Next]_vars => BufferIsSound'
<1> SUFFICES ASSUME IInv, BufferIsSound, [Next]_vars PROVE BufferIsSound'
    OBVIOUS
<1>1. ASSUME NEW stack \in Stack, GetCallStack(stack) PROVE BufferIsSound'
  <2> DEFINE memory == [arrays EXCEPT ![Buffer] = stack]
             copy == Allocate(InUse \union {Allocate(InUse)})
  <2>1. memory[Buffer] = stack /\ Buffer \in DOMAIN memory /\ stack \in Seq(Frame)
      BY ManagerAssumption DEF BufferIsSound
  <2>2. CASE arrays' = memory
      BY <2>1, <2>2 DEF BufferIsSound
  <2>3. CASE /\ Cardinality(Address \ InUse) >= 2
             /\ arrays' = [a \in DOMAIN memory \union {copy} |-> IF a = copy THEN stack ELSE memory[a]]
    <3> HIDE DEF memory, copy
    <3> QED BY <2>1, <2>3 DEF BufferIsSound
  <2> QED BY <1>1, <2>2, <2>3 DEF GetCallStack
<1>2. CASE Destroy
  <2>1. MemoryIsSound /\ arrays' = Restrict(arrays, DOMAIN arrays \ OwnedArrays)
      BY <1>2 DEF IInv, Destroy
  <2>2. Buffer \notin OwnedArrays
      BY <2>1, ManagerAssumption DEF MemoryIsSound, ObjectIsSound, OwnedArrays
  <2> QED BY <2>1, <2>2 DEF BufferIsSound, Restrict
<1>3. CASE UNCHANGED vars
    BY <1>3 DEF vars, BufferIsSound
<1> QED BY <1>1, <1>2, <1>3 DEF Next

(***************************************************************************)
(* Hashing the bytes of a stack in two stages, the first of them a number  *)
(* of whole words, comes to the same as hashing them at once, for stacks   *)
(* and shorter inputs of any length (hash.cc; tests StartFinish and        *)
(* Progressive).  Of exclusive or nothing is used but that of 0 and 0.     *)
(***************************************************************************)
THEOREM HashesAlwaysInStages == Spec => []HashesInStages
<1>1. Init => BufferIsSound
    BY DEF Init, BufferIsSound
<1>2. BufferIsSound => HashesInStages
  <2> SUFFICES ASSUME BufferIsSound PROVE HashesInStages
      OBVIOUS
  <2> DEFINE bytes == FlattenSeq(arrays[Buffer])
  <2>1. bytes \in Seq(Byte)
    <3>1. \A f \in Frame : f \in Seq(Byte)
        BY FrameAssumption, SeqDef
    <3>2. arrays[Buffer] \in Seq(Seq(Byte))
        BY <3>1 DEF BufferIsSound
    <3> QED BY <3>2, FlattenIsSeq
  <2> HIDE DEF bytes
  <2>2. ASSUME NEW n \in 0..Len(bytes), NEW k \in 0..(n \div 4)
        PROVE  HashFinish(HashStep(HashStep(Zero, SubSeq(bytes, 1, 4 * k)),
                                   SubSeq(bytes, 4 * k + 1, n)))
                   = Hash(SubSeq(bytes, 1, n))
    <3>1. HashStep(HashStep(Zero, SubSeq(bytes, 1, 4 * k)), SubSeq(bytes, 4 * k + 1, n))
              = HashStep(Zero, SubSeq(bytes, 1, n))
        BY <2>1, StagesAddUp
    <3>2. CASE SubSeq(bytes, 1, n) # <<>>
        BY <3>1, <3>2, CopiesAgree DEF Hash
    <3>3. CASE SubSeq(bytes, 1, n) = <<>>
      <4>1. HashStep(Zero, <<>>) = Zero
        <5>1. Len(<<>>) \div 4 = 0 /\ Len(<<>>) % 4 = 0
            OBVIOUS
        <5>2. MixWords(Zero, <<>>) = Zero
            BY <5>1, MixWordsIsMixing DEF IsMixing
        <5> QED BY <5>1, <5>2, CopiesAgree DEF MixRest
      <4>2. HashFinish(Zero) = Zero
          BY AvalancheOfZero, CopiesAgree
      <4> QED BY <3>1, <3>3, <4>1, <4>2 DEF Hash
    <3> QED BY <3>2, <3>3
  <2> QED BY <2>2 DEF HashesInStages, bytes
<1> QED BY <1>1, <1>2, BufferStep, IInvAlways, PTL DEF Spec
=============================================================================
