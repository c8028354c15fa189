-------------------------- MODULE AddressMapProofs --------------------------
(***************************************************************************)
(* The properties of CompactAddressMap, and that it implements AddressMap, *)
(* for any sizes of its blocks, pages, clusters and tables.                *)
(***************************************************************************)
EXTENDS CompactAddressMapProperties, FiniteSetTheorems, WellFoundedInduction, TLAPS

-----------------------------------------------------------------------------
(* Division with remainder, by numbers that are not given. *)
LEMMA TimesMonotone ==
    ASSUME NEW a \in Nat, NEW b \in Nat, NEW n \in Nat, a < b
    PROVE  a * n + n <= b * n
<1>1. PICK d \in Nat : b = a + 1 + d
    BY b - a - 1 \in Nat
<1>2. d * n \in Nat
    OBVIOUS
<1>3. b * n = a * n + n + d * n
    BY <1>1
<1> QED BY <1>2, <1>3

LEMMA SplitIsUnique ==
    ASSUME NEW n \in Nat \ {0}, NEW a \in Nat, NEW b \in 0..(n - 1),
           NEW c \in Nat, NEW d \in 0..(n - 1), a * n + b = c * n + d
    PROVE  a = c /\ b = d
<1>1. CASE a < c
    BY <1>1, TimesMonotone
<1>2. CASE c < a
    BY <1>2, TimesMonotone
<1> QED BY <1>1, <1>2

LEMMA Split ==
    ASSUME NEW n \in Nat \ {0}, NEW x \in Nat
    PROVE  /\ x \div n \in Nat /\ x % n \in Nat /\ x % n \in 0..(n - 1)
           /\ x = (x \div n) * n + (x % n)
    OBVIOUS

LEMMA SplitOfSum ==
    ASSUME NEW n \in Nat \ {0}, NEW a \in Nat, NEW b \in 0..(n - 1)
    PROVE  (a * n + b) \div n = a /\ (a * n + b) % n = b
<1>1. a * n + b \in Nat
    OBVIOUS
<1> QED BY <1>1, Split, SplitIsUnique

(* What is left after a division by m * n, divided by n. *)
LEMMA SplitOfRest ==
    ASSUME NEW n \in Nat \ {0}, NEW m \in Nat \ {0}, NEW x \in Nat
    PROVE  /\ m * n \in Nat \ {0}
           /\ (x % (m * n)) \div n \in 0..(m - 1)
           /\ x % (m * n) = ((x % (m * n)) \div n) * n + (x % n)
<1> DEFINE q == x \div (m * n)
           r == x % (m * n)
           d == r \div n
           o == r % n
<1>1. m * n \in Nat \ {0}
    OBVIOUS
<1>2. q \in Nat /\ r \in 0..(m * n - 1) /\ r \in Nat /\ x = q * (m * n) + r
    BY <1>1, Split
<1>3. d \in Nat /\ o \in 0..(n - 1) /\ r = d * n + o
  <2> HIDE DEF r
  <2> QED BY <1>2, Split
<1>4. d < m
  <2> SUFFICES ASSUME m <= d PROVE FALSE
      BY <1>3
  <2>1. m * n <= d * n
    <3>1. CASE m = d
        BY <3>1, <1>1
    <3>2. CASE m < d
      <4>1. m * n + n <= d * n
          BY <1>3, <3>2, TimesMonotone
      <4> HIDE DEF d
      <4> QED BY <1>1, <1>3, <4>1
    <3> HIDE DEF d
    <3> QED BY <1>3, <3>1, <3>2
  <2> QED BY <1>2, <1>3, <2>1
<1>5. x = (q * m + d) * n + o /\ q * m + d \in Nat
  <2> HIDE DEF q, r, d, o
  <2>1. x = q * (m * n) + (d * n + o)
      BY <1>2, <1>3
  <2>2. q * m \in Nat /\ q * (m * n) = (q * m) * n
      BY <1>2
  <2>3. ((q * m) + d) * n = (q * m) * n + d * n
      BY <2>2, <1>3
  <2> QED BY <1>2, <1>3, <2>1, <2>2, <2>3
<1>6. x % n = o
  <2> HIDE DEF q, d, o
  <2> QED BY <1>3, <1>5, SplitOfSum
<1> QED BY <1>1, <1>3, <1>4, <1>6

(* Adding one multiple of n adds one to the quotient. *)
LEMMA DivOfNext ==
    ASSUME NEW n \in Nat \ {0}, NEW x \in Nat
    PROVE  (x + n) \div n = x \div n + 1
<1>1. x \div n \in Nat /\ x % n \in 0..(n - 1) /\ x = (x \div n) * n + (x % n)
    BY Split
<1> DEFINE q == x \div n
           r == x % n
<1>2. x + n = (q + 1) * n + r /\ q + 1 \in Nat /\ r \in 0..(n - 1)
  <2>1. q \in Nat /\ r \in 0..(n - 1) /\ x = q * n + r
      BY <1>1
  <2> HIDE DEF q, r
  <2> QED BY <2>1
<1> HIDE DEF q, r
<1>3. (x + n) \div n = q + 1
    BY <1>2, SplitOfSum
<1> QED BY <1>3 DEF q

-----------------------------------------------------------------------------
(* An address is where its place and its offset say, and nowhere else. *)
LEMMA Sizes ==
    /\ BlockSize \in Nat \ {0} /\ NumBlocksPerPage \in Nat \ {0}
    /\ NumPagesPerSubcluster \in Nat \ {0} /\ NumSubclustersPerCluster \in Nat \ {0}
    /\ ClusterHashTableSize \in Nat \ {0} /\ EntryBulkAllocCount \in Nat \ {0}
    /\ SizeWord \in Nat \ {0} /\ IdWord \in Nat \ {0}
    /\ PageSize \in Nat \ {0} /\ SubclusterSize \in Nat \ {0} /\ ClusterSize \in Nat \ {0}
<1>1. /\ BlockSize \in Nat \ {0} /\ NumBlocksPerPage \in Nat \ {0}
      /\ NumPagesPerSubcluster \in Nat \ {0} /\ NumSubclustersPerCluster \in Nat \ {0}
      /\ ClusterHashTableSize \in Nat \ {0} /\ EntryBulkAllocCount \in Nat \ {0}
      /\ SizeWord \in Nat \ {0} /\ IdWord \in Nat \ {0}
    BY AddressMapAssumption
<1>2. PageSize \in Nat \ {0}
    BY <1>1 DEF PageSize
<1>3. SubclusterSize \in Nat \ {0}
    BY <1>1, <1>2 DEF SubclusterSize
<1>4. ClusterSize \in Nat \ {0}
    BY <1>1, <1>3 DEF ClusterSize
<1> QED BY <1>1, <1>2, <1>3, <1>4

SubclusterIndex(addr) == (addr % ClusterSize) \div SubclusterSize

PageIndex(addr) == (addr % SubclusterSize) \div PageSize

PlaceAddress(id, subcluster, page, block, offset) ==
    id * ClusterSize + subcluster * SubclusterSize + page * PageSize + block * BlockSize + offset

LEMMA PlaceOfAddress ==
    ASSUME NEW addr \in Addr
    PROVE  /\ addr \in Nat
           /\ ClusterId(addr) \in 0..(IdWord - 1)
           /\ SubclusterIndex(addr) \in 0..(NumSubclustersPerCluster - 1)
           /\ PageIndex(addr) \in 0..(NumPagesPerSubcluster - 1)
           /\ Block(addr) \in 0..(NumBlocksPerPage - 1)
           /\ Offset(addr) \in 0..(BlockSize - 1)
           /\ addr = PlaceAddress(ClusterId(addr), SubclusterIndex(addr), PageIndex(addr),
                                  Block(addr), Offset(addr))
<1>1. addr \in Nat /\ addr < ClusterSize * IdWord
  <2>1. addr \in 0..(ClusterSize * IdWord - 1)
      BY AddressMapAssumption
  <2>2. ClusterSize * IdWord \in Nat
      BY Sizes
  <2> QED BY <2>1, <2>2
<1>2. ClusterId(addr) \in Nat /\ addr % ClusterSize \in Nat
      /\ addr = ClusterId(addr) * ClusterSize + (addr % ClusterSize)
    BY <1>1, Sizes, Split DEF ClusterId
<1>3. ClusterId(addr) < IdWord
  <2> SUFFICES ASSUME IdWord <= ClusterId(addr) PROVE FALSE
      BY <1>2, Sizes
  <2>1. CASE IdWord = ClusterId(addr)
      BY <1>1, <1>2, <2>1, Sizes
  <2>2. CASE IdWord < ClusterId(addr)
      BY <1>1, <1>2, <2>2, Sizes, TimesMonotone
  <2> QED BY <1>2, <2>1, <2>2, Sizes
<1>4. /\ SubclusterIndex(addr) \in 0..(NumSubclustersPerCluster - 1)
      /\ addr % ClusterSize = SubclusterIndex(addr) * SubclusterSize + (addr % SubclusterSize)
    BY <1>1, Sizes, SplitOfRest DEF SubclusterIndex, ClusterSize
<1>5. /\ PageIndex(addr) \in 0..(NumPagesPerSubcluster - 1)
      /\ addr % SubclusterSize = PageIndex(addr) * PageSize + (addr % PageSize)
    BY <1>1, Sizes, SplitOfRest DEF PageIndex, SubclusterSize
<1>6. /\ Block(addr) \in 0..(NumBlocksPerPage - 1)
      /\ addr % PageSize = Block(addr) * BlockSize + Offset(addr)
    BY <1>1, Sizes, SplitOfRest DEF Block, Offset, PageSize
<1>7. Offset(addr) \in 0..(BlockSize - 1)
    BY <1>1, Sizes, Split DEF Offset
<1> QED BY <1>1, <1>2, <1>3, <1>4, <1>5, <1>6, <1>7, Sizes DEF PlaceAddress

LEMMA PlaceIsUnique ==
    ASSUME NEW addr \in Addr, NEW id \in 0..(IdWord - 1),
           NEW s \in 0..(NumSubclustersPerCluster - 1), NEW p \in 0..(NumPagesPerSubcluster - 1),
           NEW b \in 0..(NumBlocksPerPage - 1), NEW o \in 0..(BlockSize - 1),
           PlaceAddress(id, s, p, b, o) = addr
    PROVE  /\ id = ClusterId(addr) /\ s = SubclusterIndex(addr) /\ p = PageIndex(addr)
           /\ b = Block(addr) /\ o = Offset(addr)
<1> DEFINE r3 == b * BlockSize + o
           r2 == p * PageSize + r3
           r1 == s * SubclusterSize + r2
<1>1. r3 \in 0..(PageSize - 1)
  <2>1. b * BlockSize + BlockSize <= PageSize /\ b * BlockSize \in Nat
      BY Sizes, TimesMonotone DEF PageSize
  <2> QED BY <2>1, Sizes
<1>2. r2 \in 0..(SubclusterSize - 1)
  <2>1. p * PageSize + PageSize <= SubclusterSize /\ p * PageSize \in Nat
      BY Sizes, TimesMonotone DEF SubclusterSize
  <2> HIDE DEF r3
  <2> QED BY <1>1, <2>1, Sizes
<1>3. r1 \in 0..(ClusterSize - 1)
  <2>1. s * SubclusterSize + SubclusterSize <= ClusterSize /\ s * SubclusterSize \in Nat
      BY Sizes, TimesMonotone DEF ClusterSize
  <2> HIDE DEF r2
  <2> QED BY <1>2, <2>1, Sizes
<1>4. PlaceAddress(id, s, p, b, o) = id * ClusterSize + r1
    BY Sizes DEF PlaceAddress
<1> DEFINE q1 == addr % ClusterSize
           q2 == addr % SubclusterSize
           q3 == addr % PageSize
<1>5. /\ addr = ClusterId(addr) * ClusterSize + q1 /\ q1 \in 0..(ClusterSize - 1)
      /\ ClusterId(addr) \in Nat
    BY PlaceOfAddress, Sizes, Split DEF ClusterId
<1>6. /\ q1 = SubclusterIndex(addr) * SubclusterSize + q2 /\ q2 \in 0..(SubclusterSize - 1)
      /\ SubclusterIndex(addr) \in Nat
    BY PlaceOfAddress, Sizes, Split, SplitOfRest DEF SubclusterIndex, ClusterSize
<1>7. /\ q2 = PageIndex(addr) * PageSize + q3 /\ q3 \in 0..(PageSize - 1)
      /\ PageIndex(addr) \in Nat
    BY PlaceOfAddress, Sizes, Split, SplitOfRest DEF PageIndex, SubclusterSize
<1>8. /\ q3 = Block(addr) * BlockSize + Offset(addr) /\ Offset(addr) \in 0..(BlockSize - 1)
      /\ Block(addr) \in Nat
    BY PlaceOfAddress, Sizes, Split, SplitOfRest DEF Block, Offset, PageSize
<1> HIDE DEF r3, r2, r1, q1, q2, q3
<1>9. id = ClusterId(addr) /\ r1 = q1
  <2>1. id * ClusterSize + r1 = ClusterId(addr) * ClusterSize + q1
      BY <1>4, <1>5
  <2>2. id \in Nat /\ ClusterSize \in Nat \ {0}
      BY Sizes
  <2> QED BY <1>3, <1>5, <2>1, <2>2, SplitIsUnique
<1>10. s = SubclusterIndex(addr) /\ r2 = q2
  <2>1. s * SubclusterSize + r2 = SubclusterIndex(addr) * SubclusterSize + q2
      BY <1>6, <1>9 DEF r1
  <2>2. s \in Nat /\ SubclusterSize \in Nat \ {0}
      BY Sizes
  <2> QED BY <1>2, <1>6, <2>1, <2>2, SplitIsUnique
<1>11. p = PageIndex(addr) /\ r3 = q3
  <2>1. p * PageSize + r3 = PageIndex(addr) * PageSize + q3
      BY <1>7, <1>10 DEF r2
  <2>2. p \in Nat /\ PageSize \in Nat \ {0}
      BY Sizes
  <2> QED BY <1>1, <1>7, <2>1, <2>2, SplitIsUnique
<1>12. b = Block(addr) /\ o = Offset(addr)
  <2>1. b * BlockSize + o = Block(addr) * BlockSize + Offset(addr)
      BY <1>8, <1>11 DEF r3
  <2>2. b \in Nat /\ BlockSize \in Nat \ {0}
      BY Sizes
  <2> QED BY <1>8, <2>1, <2>2, SplitIsUnique
<1> QED BY <1>9, <1>10, <1>11, <1>12

-----------------------------------------------------------------------------
(***************************************************************************)
(* The inductive invariant.  Clusters have different ids, and are in the   *)
(* chain their id belongs to; no chain of a block holds an offset twice;   *)
(* the pages and the stored addresses are finitely many.                   *)
(***************************************************************************)
PageNames(clusters) ==
    clusters \X (0..(NumSubclustersPerCluster - 1)) \X (0..(NumPagesPerSubcluster - 1))

TypeOK ==
    /\ cluster_id \in Seq(0..(IdWord - 1))
    /\ cluster_hash_table \in [0..(ClusterHashTableSize - 1) -> Seq(DOMAIN cluster_id)]
    /\ IsFiniteSet(DOMAIN pages) /\ DOMAIN pages \subseteq PageNames(DOMAIN cluster_id)
    /\ \A p \in DOMAIN pages : pages[p] \in [Blocks -> Seq(DOMAIN entries)]
    /\ entries \in Seq(Entry)
    /\ free_entries \in Seq(DOMAIN entries)
    /\ num_entries \in Nat /\ allocated_objects \in Nat
    /\ stats \in [num_clusters : Nat, num_subclusters : Nat, num_pages : Nat,
                  num_entries : Nat, max_num_steps : Nat]

ClustersAreFound ==
    /\ \A c, d \in DOMAIN cluster_id : cluster_id[c] = cluster_id[d] => c = d
    /\ \A i \in DOMAIN cluster_hash_table : \A c \in DOMAIN cluster_id :
          (\E k \in DOMAIN cluster_hash_table[i] : cluster_hash_table[i][k] = c)
              <=> cluster_id[c] % ClusterHashTableSize = i

OffsetsOccurOnce ==
    \A p \in DOMAIN pages, block \in Blocks : \A i, j \in DOMAIN pages[p][block] :
        entries[pages[p][block][i]].offset = entries[pages[p][block][j]].offset => i = j

Subclusters == {<<p[1], p[2]>> : p \in DOMAIN pages}

StoredAddresses == {s[1] : s \in Stored}

MapInv ==
    /\ TypeOK /\ ClustersAreFound /\ OffsetsOccurOnce /\ EntriesHaveOnePlace
    /\ IsFiniteSet(Subclusters) /\ StatsTellStructure
    /\ IsFiniteSet(StoredAddresses) /\ SizeCoversMap

-----------------------------------------------------------------------------
LEMMA LeastNat ==
    ASSUME NEW S \in SUBSET Nat, S # {}
    PROVE  Min(S) \in S
<1>1. \E x \in S : \A y \in S : ~(<<y, x>> \in OpToRel(<, Nat))
    BY NatLessThanWellFounded, WFMin
<1>2. PICK x \in S : \A y \in S : ~(<<y, x>> \in OpToRel(<, Nat))
    BY <1>1
<1>3. \A y \in S : ~(y < x)
    BY <1>2 DEF OpToRel
<1>4. \A y \in S : x <= y
    BY <1>3
<1> QED BY <1>4 DEF Min

LEMMA MaxOfTwo ==
    ASSUME NEW a \in Nat, NEW b \in Nat
    PROVE  Max({a, b}) = IF a >= b THEN a ELSE b
<1>1. \A x \in {a, b} : (\A y \in {a, b} : x >= y) <=> x = (IF a >= b THEN a ELSE b)
    OBVIOUS
<1> QED BY <1>1 DEF Max

(* GetCluster finds the cluster of an address when there is one. *)
LEMMA ClusterIsFound ==
    ASSUME TypeOK, ClustersAreFound, NEW addr \in Addr
    PROVE  /\ ClusterStep(addr) = 0 =>
                 /\ ClusterOf(addr) = Len(cluster_id) + 1
                 /\ \A c \in DOMAIN cluster_id : cluster_id[c] # ClusterId(addr)
           /\ ClusterStep(addr) # 0 =>
                 ClusterOf(addr) \in DOMAIN cluster_id /\ cluster_id[ClusterOf(addr)] = ClusterId(addr)
<1> DEFINE table == cluster_hash_table[ClusterIndex(addr)]
           found == {k \in 1..Len(table) : cluster_id[table[k]] = ClusterId(addr)}
<1>1. ClusterIndex(addr) \in 0..(ClusterHashTableSize - 1) /\ ClusterId(addr) \in Nat
    BY PlaceOfAddress, Sizes, Split DEF ClusterIndex
<1>2. table \in Seq(DOMAIN cluster_id)
    BY <1>1 DEF TypeOK
<1>3. ClusterStep(addr) = IF found # {} THEN Min(found) ELSE 0
    BY DEF ClusterStep, SelectInSeq
<1>4. found # {} => Min(found) \in found
  <2>1. found \in SUBSET Nat
      OBVIOUS
  <2> HIDE DEF found
  <2> QED BY <2>1, LeastNat
<1>5. CASE found # {}
  <2>1. /\ ClusterStep(addr) \in 1..Len(table) /\ ClusterStep(addr) # 0
        /\ cluster_id[table[ClusterStep(addr)]] = ClusterId(addr)
    <3> HIDE DEF table
    <3> QED BY <1>2, <1>3, <1>4, <1>5
  <2>2. ClusterOf(addr) = table[ClusterStep(addr)]
      BY <2>1 DEF ClusterOf
  <2> HIDE DEF table
  <2> QED BY <1>2, <2>1, <2>2
<1>6. CASE found = {}
  <2>1. ClusterStep(addr) = 0 /\ ClusterOf(addr) = Len(cluster_id) + 1
      BY <1>3, <1>6 DEF ClusterOf
  <2>2. ASSUME NEW c \in DOMAIN cluster_id, cluster_id[c] = ClusterId(addr) PROVE FALSE
    <3>1. \E k \in DOMAIN table : table[k] = c
        BY <1>1, <2>2 DEF ClustersAreFound, ClusterIndex, TypeOK
    <3> HIDE DEF table
    <3> QED BY <1>2, <1>6, <2>2, <3>1
  <2> QED BY <2>1, <2>2
<1> QED BY <1>5, <1>6

(* It creates the cluster when there is none, and leaves the others as they are. *)
LEMMA GetClusterStep ==
    ASSUME TypeOK, ClustersAreFound, NEW addr \in Addr, GetCluster(addr)
    PROVE  /\ cluster_id' \in Seq(0..(IdWord - 1))
           /\ cluster_hash_table' \in [0..(ClusterHashTableSize - 1) -> Seq(DOMAIN cluster_id')]
           /\ ClustersAreFound'
           /\ Len(cluster_id') = Len(cluster_id) + MissingClusters(addr)
           /\ DOMAIN cluster_id \subseteq DOMAIN cluster_id'
           /\ \A c \in DOMAIN cluster_id : cluster_id'[c] = cluster_id[c]
           /\ ClusterOf(addr) \in DOMAIN cluster_id'
           /\ cluster_id'[ClusterOf(addr)] = ClusterId(addr)
<1>1. CASE ClusterStep(addr) # 0
    BY <1>1, ClusterIsFound DEF GetCluster, TypeOK, ClustersAreFound, MissingClusters, One
<1>2. CASE ClusterStep(addr) = 0
  <2> DEFINE n == Len(cluster_id) + 1
             index == ClusterIndex(addr)
  <2>1. /\ ClusterId(addr) \in 0..(IdWord - 1) /\ ClusterId(addr) % IdWord = ClusterId(addr)
        /\ index \in 0..(ClusterHashTableSize - 1)
        /\ index = ClusterId(addr) % ClusterHashTableSize
    <3>1. ClusterId(addr) \in 0..(IdWord - 1) /\ ClusterId(addr) \in Nat
        BY PlaceOfAddress
    <3>2. ClusterId(addr) % IdWord = ClusterId(addr)
        BY <3>1, Sizes, SplitOfSum, 0 * IdWord + ClusterId(addr) = ClusterId(addr)
    <3> QED BY <3>1, <3>2, Sizes, Split DEF ClusterIndex
  <2>2. /\ ClusterOf(addr) = n
        /\ \A c \in DOMAIN cluster_id : cluster_id[c] # ClusterId(addr)
      BY <1>2, ClusterIsFound
  <2>3. /\ cluster_id' = Append(cluster_id, ClusterId(addr))
        /\ cluster_hash_table' = [cluster_hash_table EXCEPT ![index] = <<n>> \o @]
      BY <1>2, <2>1, <2>2 DEF GetCluster
  <2>4. /\ cluster_id' \in Seq(0..(IdWord - 1)) /\ Len(cluster_id') = n
        /\ DOMAIN cluster_id' = DOMAIN cluster_id \union {n} /\ n \notin DOMAIN cluster_id
        /\ \A c \in DOMAIN cluster_id : cluster_id'[c] = cluster_id[c]
        /\ cluster_id'[n] = ClusterId(addr)
      BY <2>1, <2>3 DEF TypeOK
  <2> HIDE DEF n, index
  <2>5. \A i \in 0..(ClusterHashTableSize - 1) :
           /\ cluster_hash_table[i] \in Seq(DOMAIN cluster_id)
           /\ cluster_hash_table[i] \in Seq(DOMAIN cluster_id')
           /\ cluster_hash_table'[i] = IF i = index THEN <<n>> \o cluster_hash_table[i]
                                                    ELSE cluster_hash_table[i]
      BY <2>3, <2>4 DEF TypeOK
  <2>6. cluster_hash_table' \in [0..(ClusterHashTableSize - 1) -> Seq(DOMAIN cluster_id')]
    <3>1. <<n>> \in Seq(DOMAIN cluster_id')
        BY <2>4
    <3>2. \A i \in 0..(ClusterHashTableSize - 1) : cluster_hash_table'[i] \in Seq(DOMAIN cluster_id')
      <4> SUFFICES ASSUME NEW i \in 0..(ClusterHashTableSize - 1)
                   PROVE  cluster_hash_table'[i] \in Seq(DOMAIN cluster_id')
          OBVIOUS
      <4>1. <<n>> \o cluster_hash_table[i] \in Seq(DOMAIN cluster_id')
          BY <2>5, <3>1
      <4> QED BY <2>5, <4>1
    <3> QED BY <2>3, <3>2 DEF TypeOK
  <2>7. ASSUME NEW i \in DOMAIN cluster_hash_table', NEW c \in DOMAIN cluster_id'
        PROVE  (\E k \in DOMAIN cluster_hash_table'[i] : cluster_hash_table'[i][k] = c)
                   <=> cluster_id'[c] % ClusterHashTableSize = i
    <3>1. i \in 0..(ClusterHashTableSize - 1) /\ i \in DOMAIN cluster_hash_table
        BY <2>6, <2>7 DEF TypeOK
    <3> DEFINE old == cluster_hash_table[i]
               new == cluster_hash_table'[i]
    <3>2. (\E k \in DOMAIN new : new[k] = c) <=> (i = index /\ c = n) \/ \E k \in DOMAIN old : old[k] = c
      <4>1. old \in Seq(DOMAIN cluster_id) /\ new = IF i = index THEN <<n>> \o old ELSE old
          BY <2>5, <3>1
      <4> HIDE DEF old, new
      <4>2. CASE i = index
        <5>1. new = <<n>> \o old
            BY <4>1, <4>2
        <5>2. /\ 1 \in DOMAIN new /\ new[1] = n
              /\ \A k \in DOMAIN old : k + 1 \in DOMAIN new /\ new[k + 1] = old[k]
              /\ \A k \in DOMAIN new : k = 1 \/ (k - 1 \in DOMAIN old /\ new[k] = old[k - 1])
            BY <4>1, <5>1
        <5> QED BY <4>2, <5>2
      <4> QED BY <4>1, <4>2
    <3>3. CASE c = n
      <4>1. ~ \E k \in DOMAIN old : old[k] = c
          BY <2>4, <2>5, <3>1, <3>3
      <4> QED BY <2>1, <2>4, <3>2, <3>3, <4>1
    <3>4. CASE c \in DOMAIN cluster_id
        BY <2>4, <3>1, <3>2, <3>4 DEF ClustersAreFound
    <3> QED BY <2>4, <3>3, <3>4
  <2>8. ClustersAreFound'
    <3>1. \A c, d \in DOMAIN cluster_id' : cluster_id'[c] = cluster_id'[d] => c = d
        BY <2>2, <2>4 DEF ClustersAreFound
    <3> QED BY <2>7, <3>1 DEF ClustersAreFound
  <2> QED BY <1>2, <2>2, <2>4, <2>6, <2>8 DEF MissingClusters, One, n
<1> QED BY <1>1, <1>2

-----------------------------------------------------------------------------
(* The place of an address: its page exists or can be created. *)
LEMMA PageOfType ==
    ASSUME TypeOK, ClustersAreFound, NEW addr \in Addr
    PROVE  /\ PageOf(addr) \in PageNames(Nat)
           /\ PageOf(addr) = <<ClusterOf(addr), SubclusterIndex(addr), PageIndex(addr)>>
           /\ Block(addr) \in Blocks
           /\ Chain(addr) \in Seq(DOMAIN entries)
           /\ DOMAIN entries = 1..Len(entries) /\ Len(entries) \in Nat
<1>1. ClusterOf(addr) \in Nat
    BY ClusterIsFound DEF TypeOK
<1>2. Block(addr) \in Blocks
    BY PlaceOfAddress DEF Blocks
<1>3. PageOf(addr) = <<ClusterOf(addr), SubclusterIndex(addr), PageIndex(addr)>>
    BY DEF PageOf, SubclusterIndex, PageIndex
<1>4. Chain(addr) \in Seq(DOMAIN entries)
  <2>1. PageOf(addr) \in DOMAIN pages => pages[PageOf(addr)][Block(addr)] \in Seq(DOMAIN entries)
      BY <1>2 DEF TypeOK
  <2>2. <<>> \in Seq(DOMAIN entries)
      OBVIOUS
  <2> QED BY <2>1, <2>2 DEF Chain
<1>5. PageOf(addr) \in PageNames(Nat)
    BY <1>1, <1>3, PlaceOfAddress DEF PageNames
<1> QED BY <1>2, <1>3, <1>4, <1>5 DEF TypeOK

(* The walk along a chain finds the entry with the offset of the address when there is one. *)
LEMMA EntryIsFound ==
    ASSUME TypeOK, ClustersAreFound, NEW addr \in Addr
    PROVE  /\ FoundAt(addr) = 0 =>
                 \A i \in DOMAIN Chain(addr) : entries[Chain(addr)[i]].offset # Offset(addr)
           /\ FoundAt(addr) # 0 =>
                 /\ FoundAt(addr) \in DOMAIN Chain(addr)
                 /\ entries[Chain(addr)[FoundAt(addr)]].offset = Offset(addr)
<1> DEFINE chain == Chain(addr)
           found == {i \in 1..Len(chain) : entries[chain[i]].offset = Offset(addr)}
<1>1. chain \in Seq(DOMAIN entries)
    BY PageOfType
<1>2. FoundAt(addr) = IF found # {} THEN Min(found) ELSE 0
    BY DEF FoundAt, SelectInSeq
<1> HIDE DEF chain
<1>3. found # {} => Min(found) \in found
  <2>1. found \in SUBSET Nat
      OBVIOUS
  <2> HIDE DEF found
  <2> QED BY <2>1, LeastNat
<1>4. DOMAIN chain = 1..Len(chain)
    BY <1>1
<1>5. /\ FoundAt(addr) = 0 => \A i \in DOMAIN chain : entries[chain[i]].offset # Offset(addr)
      /\ FoundAt(addr) # 0 =>
            FoundAt(addr) \in DOMAIN chain /\ entries[chain[FoundAt(addr)]].offset = Offset(addr)
  <2>1. CASE found = {}
      BY <1>2, <1>4, <2>1
  <2>2. CASE found # {}
    <3>1. FoundAt(addr) \in found
        BY <1>2, <1>3, <2>2
    <3> QED BY <1>4, <3>1
  <2> QED BY <2>1, <2>2
<1> QED BY <1>5 DEF chain

(* An entry is in one chain of one block, or free; what is stored is what is in chains. *)
LEMMA ChainedIs ==
    \A e : e \in Chained <=> \E p \in DOMAIN pages, block \in Blocks : e \in ToSet(pages[p][block])
    BY DEF Chained

LEMMA StoredIs ==
    \A x : x \in Stored <=>
        \E p \in DOMAIN pages, block \in Blocks : \E e \in ToSet(pages[p][block]) :
            x = <<AddressAt(p, block, e), e>>
<1>1. \A p, block : \A x : x \in StoredIn(p, block) <=>
          \E e \in ToSet(pages[p][block]) : x = <<AddressAt(p, block, e), e>>
    BY DEF StoredIn
<1>2. \A x : x \in Stored <=> \E p \in DOMAIN pages, block \in Blocks : x \in StoredIn(p, block)
    BY DEF Stored
<1> QED BY <1>1, <1>2

-----------------------------------------------------------------------------
(* What is stored at an address is what the walk along its chain finds. *)
LEMMA StoredAtPlace ==
    ASSUME TypeOK, ClustersAreFound, NEW addr \in Addr,
           NEW p \in DOMAIN pages, NEW block \in Blocks, NEW e \in ToSet(pages[p][block]),
           AddressAt(p, block, e) = addr
    PROVE  p = PageOf(addr) /\ block = Block(addr) /\ entries[e].offset = Offset(addr)
<1>1. /\ e \in DOMAIN entries /\ entries[e].offset \in 0..(BlockSize - 1)
      /\ p \in PageNames(DOMAIN cluster_id)
  <2>1. pages[p][block] \in Seq(DOMAIN entries)
      BY DEF TypeOK
  <2>2. e \in DOMAIN entries
      BY <2>1 DEF ToSet
  <2>3. entries[e] \in Entry
      BY <2>2 DEF TypeOK
  <2> QED BY <2>2, <2>3 DEF TypeOK, Entry
<1>2. /\ p[1] \in DOMAIN cluster_id /\ cluster_id[p[1]] \in 0..(IdWord - 1)
      /\ p[2] \in 0..(NumSubclustersPerCluster - 1) /\ p[3] \in 0..(NumPagesPerSubcluster - 1)
      /\ p = <<p[1], p[2], p[3]>>
  <2>1. \A c \in DOMAIN cluster_id : cluster_id[c] \in 0..(IdWord - 1)
    <3> DEFINE Ids == 0..(IdWord - 1)
    <3>1. cluster_id \in Seq(Ids)
        BY DEF TypeOK
    <3> HIDE DEF Ids
    <3>2. \A c \in DOMAIN cluster_id : cluster_id[c] \in Ids
        BY <3>1
    <3> QED BY <3>2 DEF Ids
  <2>2. p \in (DOMAIN cluster_id) \X (0..(NumSubclustersPerCluster - 1)) \X (0..(NumPagesPerSubcluster - 1))
      BY <1>1 DEF PageNames
  <2>3. /\ p[1] \in DOMAIN cluster_id /\ p = <<p[1], p[2], p[3]>>
        /\ p[2] \in 0..(NumSubclustersPerCluster - 1) /\ p[3] \in 0..(NumPagesPerSubcluster - 1)
      BY <2>2
  <2> QED BY <2>1, <2>3
<1>3. PlaceAddress(cluster_id[p[1]], p[2], p[3], block, entries[e].offset) = addr
    BY DEF AddressAt, PlaceAddress
<1>4. /\ cluster_id[p[1]] = ClusterId(addr) /\ p[2] = SubclusterIndex(addr)
      /\ p[3] = PageIndex(addr) /\ block = Block(addr) /\ entries[e].offset = Offset(addr)
    BY <1>1, <1>2, <1>3, PlaceIsUnique DEF Blocks
<1>5. p[1] = ClusterOf(addr)
    BY <1>2, <1>4, ClusterIsFound DEF ClustersAreFound
<1> QED BY <1>2, <1>4, <1>5, PageOfType

LEMMA StoredIsFound ==
    ASSUME TypeOK, ClustersAreFound, OffsetsOccurOnce, NEW addr \in Addr
    PROVE  /\ FoundAt(addr) = 0 => \A e : <<addr, e>> \notin Stored
           /\ FoundAt(addr) # 0 =>
                 \A e : <<addr, e>> \in Stored <=> e = Chain(addr)[FoundAt(addr)]
<1> DEFINE chain == Chain(addr)
           k == FoundAt(addr)
<1>1. chain \in Seq(DOMAIN entries) /\ Block(addr) \in Blocks
    BY PageOfType
<1>2. ASSUME NEW e, <<addr, e>> \in Stored
      PROVE  /\ PageOf(addr) \in DOMAIN pages
             /\ \E i \in DOMAIN chain : chain[i] = e /\ entries[e].offset = Offset(addr)
  <2>1. PICK p \in DOMAIN pages, block \in Blocks : \E f \in ToSet(pages[p][block]) :
            <<addr, e>> = <<AddressAt(p, block, f), f>>
      BY <1>2, StoredIs
  <2>2. e \in ToSet(pages[p][block]) /\ AddressAt(p, block, e) = addr
      BY <2>1
  <2>3. p = PageOf(addr) /\ block = Block(addr) /\ entries[e].offset = Offset(addr)
      BY <2>2, StoredAtPlace
  <2> QED BY <2>2, <2>3 DEF Chain, ToSet
<1>3. ASSUME k # 0 PROVE <<addr, chain[k]>> \in Stored
  <2>1. k \in DOMAIN chain /\ entries[chain[k]].offset = Offset(addr)
      BY <1>3, EntryIsFound
  <2>2. PageOf(addr) \in DOMAIN pages /\ chain = pages[PageOf(addr)][Block(addr)]
      BY <2>1 DEF Chain
  <2>3. chain[k] \in ToSet(pages[PageOf(addr)][Block(addr)])
      BY <2>1, <2>2 DEF ToSet
  <2>4. ClusterOf(addr) \in DOMAIN cluster_id
      BY <2>2, PageOfType DEF TypeOK, PageNames
  <2>5. cluster_id[ClusterOf(addr)] = ClusterId(addr)
      BY <2>4, ClusterIsFound DEF TypeOK
  <2>6. AddressAt(PageOf(addr), Block(addr), chain[k])
            = PlaceAddress(ClusterId(addr), SubclusterIndex(addr), PageIndex(addr), Block(addr), Offset(addr))
      BY <2>1, <2>5, PageOfType DEF AddressAt, PlaceAddress
  <2>7. AddressAt(PageOf(addr), Block(addr), chain[k]) = addr
      BY <2>6, PlaceOfAddress
  <2> QED BY <1>1, <2>2, <2>3, <2>7, StoredIs
<1>4. k = 0 => \A e : <<addr, e>> \notin Stored
    BY <1>2, EntryIsFound
<1>5. ASSUME k # 0, NEW e, <<addr, e>> \in Stored PROVE e = chain[k]
  <2>1. PICK i \in DOMAIN chain : chain[i] = e /\ entries[e].offset = Offset(addr)
      BY <1>2, <1>5
  <2>2. k \in DOMAIN chain /\ entries[chain[k]].offset = Offset(addr)
      BY <1>5, EntryIsFound
  <2>3. PageOf(addr) \in DOMAIN pages /\ chain = pages[PageOf(addr)][Block(addr)]
      BY <1>2, <1>5 DEF Chain
  <2> QED BY <1>1, <2>1, <2>2, <2>3 DEF OffsetsOccurOnce
<1> QED BY <1>3, <1>4, <1>5

-----------------------------------------------------------------------------
(***************************************************************************)
(* A step leaves one chain behind at the place of the address, and every   *)
(* other chain as it was; no chained entry changes its offset.             *)
(***************************************************************************)
PlaceStep(addr, chain) ==
    /\ GetCluster(addr)
    /\ pages' = [p \in DOMAIN pages \union {PageOf(addr)} |-> [block \in Blocks |->
                    IF p = PageOf(addr) /\ block = Block(addr) THEN chain
                    ELSE IF p \in DOMAIN pages THEN pages[p][block]
                    ELSE <<>>]]
    /\ entries' \in Seq(Entry) /\ DOMAIN entries \subseteq DOMAIN entries'
    /\ chain \in Seq(DOMAIN entries')
    /\ \A e \in Chained : entries'[e].offset = entries[e].offset

LEMMA PagesStep ==
    ASSUME TypeOK, ClustersAreFound, NEW addr \in Addr, NEW chain,
           pages' = [PagesWith(addr) EXCEPT ![PageOf(addr)][Block(addr)] = chain]
    PROVE  pages' = [p \in DOMAIN pages \union {PageOf(addr)} |-> [block \in Blocks |->
                        IF p = PageOf(addr) /\ block = Block(addr) THEN chain
                        ELSE IF p \in DOMAIN pages THEN pages[p][block]
                        ELSE <<>>]]
<1> DEFINE P == PageOf(addr)
           B == Block(addr)
           with == PagesWith(addr)
<1>1. B \in Blocks
    BY PageOfType
<1>2. /\ DOMAIN with = DOMAIN pages \union {P} /\ with = [p \in DOMAIN with |-> with[p]]
      /\ \A p \in DOMAIN with : with[p] = IF p \in DOMAIN pages THEN pages[p] ELSE EmptyPage
    BY DEF PagesWith
<1>3. \A p \in DOMAIN with :
         with[p] = [block \in Blocks |-> IF p \in DOMAIN pages THEN pages[p][block] ELSE <<>>]
  <2>1. \A p \in DOMAIN pages : pages[p] = [block \in Blocks |-> pages[p][block]]
      BY DEF TypeOK
  <2> HIDE DEF P, with
  <2> QED BY <1>2, <2>1 DEF EmptyPage
<1>4. pages' = [p \in DOMAIN with |-> IF p = P THEN [with[p] EXCEPT ![B] = chain] ELSE with[p]]
  <2> HIDE DEF P, B
  <2> QED BY <1>2 DEF P, B
<1>5. [with[P] EXCEPT ![B] = chain] = [block \in Blocks |-> IF block = B THEN chain ELSE with[P][block]]
  <2>1. P \in DOMAIN with
      BY <1>2
  <2> HIDE DEF P, with, B
  <2> QED BY <1>1, <1>3, <2>1
<1> HIDE DEF P, with, B
<1>6. pages' = [p \in DOMAIN with |-> [block \in Blocks |->
                   IF p = P /\ block = B THEN chain
                   ELSE IF p \in DOMAIN pages THEN pages[p][block]
                   ELSE <<>>]]
  <2>1. ASSUME NEW p \in DOMAIN with
        PROVE  pages'[p] = [block \in Blocks |->
                   IF p = P /\ block = B THEN chain
                   ELSE IF p \in DOMAIN pages THEN pages[p][block]
                   ELSE <<>>]
    <3>1. CASE p = P
      <4>1. with[P] = [block \in Blocks |-> IF P \in DOMAIN pages THEN pages[P][block] ELSE <<>>]
          BY <1>3, <3>1
      <4>2. pages'[P] = [block \in Blocks |-> IF block = B THEN chain ELSE with[P][block]]
          BY <1>4, <1>5, <3>1
      <4> QED BY <3>1, <4>1, <4>2
    <3>2. CASE p # P
        BY <1>3, <1>4, <3>2
    <3> QED BY <3>1, <3>2
  <2> QED BY <1>4, <2>1
<1> QED BY <1>2, <1>6 DEF P, B

(* What is in which chain after the step. *)
LEMMA PlaceStepPages ==
    ASSUME TypeOK, ClustersAreFound, NEW addr \in Addr, NEW chain, PlaceStep(addr, chain)
    PROVE  /\ DOMAIN pages' = DOMAIN pages \union {PageOf(addr)}
           /\ pages'[PageOf(addr)][Block(addr)] = chain
           /\ \A p \in DOMAIN pages', block \in Blocks :
                 \/ p = PageOf(addr) /\ block = Block(addr)
                 \/ p \in DOMAIN pages /\ pages'[p][block] = pages[p][block]
                 \/ p \notin DOMAIN pages /\ pages'[p][block] = <<>>
    BY PageOfType DEF PlaceStep

LEMMA EmptyChain == ToSet(<<>>) = {} /\ IsInjective(<<>>)
    BY DEF ToSet, IsInjective

LEMMA ChainHolds ==
    \A addr, e : e \in ToSet(Chain(addr)) <=>
        PageOf(addr) \in DOMAIN pages /\ e \in ToSet(pages[PageOf(addr)][Block(addr)])
    BY EmptyChain DEF Chain

LEMMA PlaceStepHolds ==
    ASSUME TypeOK, ClustersAreFound, NEW addr \in Addr, NEW chain, PlaceStep(addr, chain)
    PROVE  \A p \in DOMAIN pages', block \in Blocks : \A e :
               e \in ToSet(pages'[p][block]) <=>
                   IF p = PageOf(addr) /\ block = Block(addr) THEN e \in ToSet(chain)
                   ELSE p \in DOMAIN pages /\ e \in ToSet(pages[p][block])
<1> SUFFICES ASSUME NEW p \in DOMAIN pages', NEW block \in Blocks
             PROVE  \A e : e \in ToSet(pages'[p][block]) <=>
                        IF p = PageOf(addr) /\ block = Block(addr) THEN e \in ToSet(chain)
                        ELSE p \in DOMAIN pages /\ e \in ToSet(pages[p][block])
    OBVIOUS
<1>1. \/ p = PageOf(addr) /\ block = Block(addr) /\ pages'[p][block] = chain
      \/ ~(p = PageOf(addr) /\ block = Block(addr))
            /\ p \in DOMAIN pages /\ pages'[p][block] = pages[p][block]
      \/ ~(p = PageOf(addr) /\ block = Block(addr))
            /\ p \notin DOMAIN pages /\ pages'[p][block] = <<>>
    BY PlaceStepPages
<1> QED BY <1>1, EmptyChain

LEMMA PlaceStepType ==
    ASSUME TypeOK, ClustersAreFound, NEW addr \in Addr, NEW chain, PlaceStep(addr, chain)
    PROVE  \A p \in DOMAIN pages' : pages'[p] \in [Blocks -> Seq(DOMAIN entries')]
<1>1. \A p \in DOMAIN pages, block \in Blocks : pages[p][block] \in Seq(DOMAIN entries')
  <2>1. \A p \in DOMAIN pages, block \in Blocks : pages[p][block] \in Seq(DOMAIN entries)
      BY DEF TypeOK
  <2>2. \A s \in Seq(DOMAIN entries) : s \in Seq(DOMAIN entries')
      BY DEF PlaceStep
  <2> QED BY <2>1, <2>2
<1>2. <<>> \in Seq(DOMAIN entries') /\ chain \in Seq(DOMAIN entries')
    BY DEF PlaceStep
<1>3. \A p \in DOMAIN pages' : pages'[p] = [block \in Blocks |-> pages'[p][block]]
    BY DEF PlaceStep
<1>4. \A p \in DOMAIN pages', block \in Blocks : pages'[p][block] \in Seq(DOMAIN entries')
  <2> SUFFICES ASSUME NEW p \in DOMAIN pages', NEW block \in Blocks
               PROVE  pages'[p][block] \in Seq(DOMAIN entries')
      OBVIOUS
  <2>1. \/ pages'[p][block] = chain
        \/ p \in DOMAIN pages /\ pages'[p][block] = pages[p][block]
        \/ pages'[p][block] = <<>>
      BY PlaceStepPages
  <2> QED BY <1>1, <1>2, <2>1
<1> QED BY <1>3, <1>4

LEMMA PlaceStepOffsets ==
    ASSUME TypeOK, ClustersAreFound, OffsetsOccurOnce,
           NEW addr \in Addr, NEW chain, PlaceStep(addr, chain),
           \A i, j \in DOMAIN chain : entries'[chain[i]].offset = entries'[chain[j]].offset => i = j
    PROVE  OffsetsOccurOnce'
<1> SUFFICES ASSUME NEW p \in DOMAIN pages', NEW block \in Blocks,
                    NEW i \in DOMAIN pages'[p][block], NEW j \in DOMAIN pages'[p][block],
                    entries'[pages'[p][block][i]].offset = entries'[pages'[p][block][j]].offset
             PROVE  i = j
    BY DEF OffsetsOccurOnce
<1>1. CASE p = PageOf(addr) /\ block = Block(addr)
  <2>1. pages'[p][block] = chain
      BY <1>1, PlaceStepPages
  <2> QED BY <2>1
<1>2. CASE p \in DOMAIN pages /\ pages'[p][block] = pages[p][block]
  <2> DEFINE old == pages[p][block]
  <2>1. old[i] \in Chained /\ old[j] \in Chained
      BY <1>2, ChainedIs DEF ToSet
  <2>2. entries[old[i]].offset = entries[old[j]].offset
      BY <1>2, <2>1 DEF PlaceStep
  <2> QED BY <1>2, <2>2 DEF OffsetsOccurOnce
<1>3. CASE pages'[p][block] = <<>>
    BY <1>3
<1>4. \/ p = PageOf(addr) /\ block = Block(addr)
      \/ p \in DOMAIN pages /\ pages'[p][block] = pages[p][block]
      \/ pages'[p][block] = <<>>
    BY PlaceStepPages
<1> QED BY <1>1, <1>2, <1>3, <1>4

(* No entry is in the chains of two blocks. *)
LEMMA PlacesAreApart ==
    ASSUME EntriesHaveOnePlace
    PROVE  \A p, q \in DOMAIN pages, b, c \in Blocks : \A e :
              e \in ToSet(pages[p][b]) /\ e \in ToSet(pages[q][c]) => p = q /\ b = c
<1> SUFFICES ASSUME NEW p \in DOMAIN pages, NEW q \in DOMAIN pages, NEW b \in Blocks, NEW c \in Blocks,
                    NEW e \in ToSet(pages[p][b]), e \in ToSet(pages[q][c])
             PROVE  p = q /\ b = c
    OBVIOUS
<1>1. PICK i \in DOMAIN pages[p][b] : e = pages[p][b][i]
    BY DEF ToSet
<1>2. PICK j \in DOMAIN pages[q][c] : e = pages[q][c][j]
    BY DEF ToSet
<1> QED BY <1>1, <1>2 DEF EntriesHaveOnePlace

(* The entries of the free list and of the one chain may be exchanged between them. *)
LEMMA PlaceStepKeepsPlaces ==
    ASSUME TypeOK, ClustersAreFound, EntriesHaveOnePlace,
           NEW addr \in Addr, NEW chain, PlaceStep(addr, chain),
           IsInjective(free_entries'), IsInjective(chain),
           ToSet(free_entries') \intersect ToSet(chain) = {},
           ToSet(free_entries') \union ToSet(chain) =
               ToSet(free_entries) \union ToSet(Chain(addr)) \union (DOMAIN entries' \ DOMAIN entries)
    PROVE  EntriesHaveOnePlace'
<1> DEFINE P == PageOf(addr)
           B == Block(addr)
           In(e, p, b) == p \in DOMAIN pages /\ e \in ToSet(pages[p][b])
           InNow(e, p, b) == p \in DOMAIN pages' /\ e \in ToSet(pages'[p][b])
<1>1. P \in DOMAIN pages' /\ B \in Blocks
    BY PlaceStepPages, PageOfType
<1>2. \A p, b, e : b \in Blocks =>
         (InNow(e, p, b) <=> IF p = P /\ b = B THEN e \in ToSet(chain) ELSE In(e, p, b))
  <2>1. DOMAIN pages \subseteq DOMAIN pages'
      BY PlaceStepPages
  <2>2. \A p \in DOMAIN pages', b \in Blocks : \A e :
           e \in ToSet(pages'[p][b]) <=>
               IF p = P /\ b = B THEN e \in ToSet(chain)
               ELSE p \in DOMAIN pages /\ e \in ToSet(pages[p][b])
      BY PlaceStepHolds
  <2> HIDE DEF P, B
  <2> QED BY <1>1, <2>1, <2>2
<1>3. \A e : e \in ToSet(Chain(addr)) <=> In(e, P, B)
    BY ChainHolds
<1>4. /\ \A e : e \in DOMAIN entries <=> e \in ToSet(free_entries) \/ \E p : \E b \in Blocks : In(e, p, b)
      /\ \A e : \A p : \A b \in Blocks : ~(e \in ToSet(free_entries) /\ In(e, p, b))
      /\ \A e : \A p, q : \A b, c \in Blocks : In(e, p, b) /\ In(e, q, c) => p = q /\ b = c
  <2>1. ToSet(free_entries) \union Chained = DOMAIN entries /\ ToSet(free_entries) \intersect Chained = {}
      BY DEF EntriesHaveOnePlace
  <2>2. \A e : e \in Chained <=> \E p : \E b \in Blocks : In(e, p, b)
      BY ChainedIs
  <2>3. \A e : \A p, q : \A b, c \in Blocks : In(e, p, b) /\ In(e, q, c) => p = q /\ b = c
      BY PlacesAreApart
  <2> HIDE DEF In
  <2> QED BY <2>1, <2>2, <2>3
<1>5. DOMAIN entries \subseteq DOMAIN entries'
    BY DEF PlaceStep
<1> HIDE DEF P, B, In, InNow
<1>6. /\ \A e : e \in DOMAIN entries' <=> e \in ToSet(free_entries') \/ \E p : \E b \in Blocks : InNow(e, p, b)
      /\ \A e : \A p : \A b \in Blocks : ~(e \in ToSet(free_entries') /\ InNow(e, p, b))
      /\ \A e : \A p, q : \A b, c \in Blocks : InNow(e, p, b) /\ InNow(e, q, c) => p = q /\ b = c
  <2>1. \A e : e \in ToSet(free_entries') \/ e \in ToSet(chain) <=>
           e \in ToSet(free_entries) \/ In(e, P, B) \/ (e \in DOMAIN entries' /\ e \notin DOMAIN entries)
      BY <1>3
  <2>2. \A e : ~(e \in ToSet(free_entries') /\ e \in ToSet(chain))
      OBVIOUS
  <2>3. \A e : e \in DOMAIN entries' <=> e \in ToSet(free_entries') \/ \E p : \E b \in Blocks : InNow(e, p, b)
      BY <1>1, <1>2, <1>4, <1>5, <2>1
  <2>4. \A e : \A p : \A b \in Blocks : ~(e \in ToSet(free_entries') /\ InNow(e, p, b))
      BY <1>1, <1>2, <1>4, <2>1, <2>2
  <2>5. \A e : \A p, q : \A b, c \in Blocks : InNow(e, p, b) /\ InNow(e, q, c) => p = q /\ b = c
      BY <1>1, <1>2, <1>4, <2>1, <2>2
  <2> QED BY <2>3, <2>4, <2>5
<1>7. \A e : e \in Chained' <=> \E p : \E b \in Blocks : InNow(e, p, b)
    BY DEF Chained, InNow
<1>8. \A p \in DOMAIN pages', b \in Blocks : IsInjective(pages'[p][b])
  <2> SUFFICES ASSUME NEW p \in DOMAIN pages', NEW b \in Blocks PROVE IsInjective(pages'[p][b])
      OBVIOUS
  <2>1. \/ pages'[p][b] = chain
        \/ p \in DOMAIN pages /\ pages'[p][b] = pages[p][b]
        \/ pages'[p][b] = <<>>
      BY PlaceStepPages
  <2> QED BY <2>1, EmptyChain DEF EntriesHaveOnePlace
<1>9. \A p, q \in DOMAIN pages', b, c \in Blocks :
         p # q \/ b # c => \A i \in DOMAIN pages'[p][b], j \in DOMAIN pages'[q][c] :
                              pages'[p][b][i] # pages'[q][c][j]
  <2> SUFFICES ASSUME NEW p \in DOMAIN pages', NEW q \in DOMAIN pages', NEW b \in Blocks, NEW c \in Blocks,
                      NEW i \in DOMAIN pages'[p][b], NEW j \in DOMAIN pages'[q][c],
                      pages'[p][b][i] = pages'[q][c][j]
               PROVE  p = q /\ b = c
      OBVIOUS
  <2> DEFINE e == pages'[p][b][i]
  <2>1. e \in ToSet(pages'[p][b]) /\ e \in ToSet(pages'[q][c])
      BY DEF ToSet
  <2> HIDE DEF e
  <2>2. InNow(e, p, b) /\ InNow(e, q, c)
      BY <2>1 DEF InNow
  <2> QED BY <1>6, <2>2
<1>10. ToSet(free_entries') \union Chained' = DOMAIN entries' /\ ToSet(free_entries') \intersect Chained' = {}
    BY <1>6, <1>7
<1> QED BY <1>8, <1>9, <1>10 DEF EntriesHaveOnePlace

-----------------------------------------------------------------------------
(* The addresses of the place of an address differ in their offsets only. *)
NearbyAddress(addr, offset) ==
    PlaceAddress(ClusterId(addr), SubclusterIndex(addr), PageIndex(addr), Block(addr), offset)

LEMMA NearbyIs ==
    ASSUME TypeOK, ClustersAreFound, NEW addr \in Addr
    PROVE  /\ NearbyAddress(addr, Offset(addr)) = addr
           /\ PageOf(addr) \in DOMAIN pages => \A e : e \in Chained =>
                 AddressAt(PageOf(addr), Block(addr), e) = NearbyAddress(addr, entries[e].offset)
<1>1. NearbyAddress(addr, Offset(addr)) = addr
    BY PlaceOfAddress DEF NearbyAddress
<1>2. ASSUME PageOf(addr) \in DOMAIN pages
      PROVE  cluster_id[ClusterOf(addr)] = ClusterId(addr)
  <2>1. ClusterOf(addr) \in DOMAIN cluster_id
      BY <1>2, PageOfType DEF TypeOK, PageNames
  <2> QED BY <2>1, ClusterIsFound DEF TypeOK
<1> QED BY <1>1, <1>2, PageOfType DEF AddressAt, NearbyAddress, PlaceAddress

(* What is stored after the step: what the one chain holds, and what others held. *)
LEMMA PlaceStepStored ==
    ASSUME TypeOK, ClustersAreFound, EntriesHaveOnePlace,
           NEW addr \in Addr, NEW chain, PlaceStep(addr, chain)
    PROVE  \A a, e : <<a, e>> \in Stored' <=>
               \/ e \in ToSet(chain) /\ a = NearbyAddress(addr, entries'[e].offset)
               \/ <<a, e>> \in Stored /\ e \notin ToSet(Chain(addr))
<1> DEFINE P == PageOf(addr)
           B == Block(addr)
<1>1. /\ DOMAIN pages' = DOMAIN pages \union {P}
      /\ P = <<ClusterOf(addr), SubclusterIndex(addr), PageIndex(addr)>>
      /\ B \in Blocks
    BY PlaceStepPages, PageOfType
<1>2. /\ cluster_id'[ClusterOf(addr)] = ClusterId(addr)
      /\ \A c \in DOMAIN cluster_id : cluster_id'[c] = cluster_id[c]
    BY GetClusterStep DEF PlaceStep
<1> DEFINE Now(p, b, e) == cluster_id'[p[1]] * ClusterSize + p[2] * SubclusterSize + p[3] * PageSize
                               + b * BlockSize + entries'[e].offset
<1>3. \A e : Now(P, B, e) = NearbyAddress(addr, entries'[e].offset)
    BY <1>1, <1>2 DEF NearbyAddress, PlaceAddress
<1>4. ASSUME NEW p \in DOMAIN pages, NEW b \in Blocks, NEW e \in ToSet(pages[p][b])
      PROVE  Now(p, b, e) = AddressAt(p, b, e)
  <2>1. p[1] \in DOMAIN cluster_id
      BY DEF TypeOK, PageNames
  <2>2. e \in Chained
      BY ChainedIs
  <2> QED BY <1>2, <2>1, <2>2 DEF AddressAt, PlaceStep
<1>5. \A p \in DOMAIN pages', b \in Blocks : \A e :
         e \in ToSet(pages'[p][b]) <=>
             IF p = P /\ b = B THEN e \in ToSet(chain)
             ELSE p \in DOMAIN pages /\ e \in ToSet(pages[p][b])
    BY PlaceStepHolds
<1>6. \A a, e : <<a, e>> \in Stored' <=>
         \E p \in DOMAIN pages', b \in Blocks : e \in ToSet(pages'[p][b]) /\ a = Now(p, b, e)
  <2>1. \A x : x \in Stored' <=>
           \E p \in DOMAIN pages', b \in Blocks : \E f \in ToSet(pages'[p][b]) : x = <<Now(p, b, f), f>>
    <3>1. \A p, b : \A x : x \in StoredIn(p, b)' <=>
             \E f \in ToSet(pages'[p][b]) : x = <<Now(p, b, f), f>>
        BY DEF StoredIn, AddressAt
    <3>2. \A x : x \in Stored' <=> \E p \in DOMAIN pages', b \in Blocks : x \in StoredIn(p, b)'
        BY DEF Stored
    <3> HIDE DEF Now
    <3> QED BY <3>1, <3>2
  <2> HIDE DEF Now
  <2> QED BY <2>1
<1>7. \A a, e : <<a, e>> \in Stored <=>
         \E p \in DOMAIN pages, b \in Blocks : e \in ToSet(pages[p][b]) /\ a = AddressAt(p, b, e)
    BY StoredIs
<1>8. \A e : e \in ToSet(Chain(addr)) <=> P \in DOMAIN pages /\ e \in ToSet(pages[P][B])
    BY ChainHolds
<1>9. \A p, q \in DOMAIN pages, b, c \in Blocks : \A e :
         e \in ToSet(pages[p][b]) /\ e \in ToSet(pages[q][c]) => p = q /\ b = c
    BY PlacesAreApart
<1> HIDE DEF P, B, Now
<1> SUFFICES ASSUME NEW a, NEW e
             PROVE  <<a, e>> \in Stored' <=>
                        \/ e \in ToSet(chain) /\ a = Now(P, B, e)
                        \/ <<a, e>> \in Stored /\ e \notin ToSet(Chain(addr))
    BY <1>3
<1>10. ASSUME <<a, e>> \in Stored'
       PROVE  \/ e \in ToSet(chain) /\ a = Now(P, B, e)
              \/ <<a, e>> \in Stored /\ e \notin ToSet(Chain(addr))
  <2>1. PICK p \in DOMAIN pages', b \in Blocks : e \in ToSet(pages'[p][b]) /\ a = Now(p, b, e)
      BY <1>6, <1>10
  <2>2. CASE p = P /\ b = B
      BY <1>5, <2>1, <2>2
  <2>3. CASE ~(p = P /\ b = B)
    <3>1. p \in DOMAIN pages /\ e \in ToSet(pages[p][b])
        BY <1>5, <2>1, <2>3
    <3>2. <<a, e>> \in Stored
        BY <1>4, <1>7, <2>1, <3>1
    <3> QED BY <1>1, <1>8, <1>9, <2>3, <3>1, <3>2
  <2> QED BY <2>2, <2>3
<1>11. ASSUME e \in ToSet(chain), a = Now(P, B, e) PROVE <<a, e>> \in Stored'
    BY <1>1, <1>5, <1>6, <1>11
<1>12. ASSUME <<a, e>> \in Stored, e \notin ToSet(Chain(addr)) PROVE <<a, e>> \in Stored'
  <2>1. PICK p \in DOMAIN pages, b \in Blocks : e \in ToSet(pages[p][b]) /\ a = AddressAt(p, b, e)
      BY <1>7, <1>12
  <2>2. ~(p = P /\ b = B)
      BY <1>8, <1>12, <2>1
  <2>3. p \in DOMAIN pages' /\ e \in ToSet(pages'[p][b]) /\ a = Now(p, b, e)
      BY <1>1, <1>4, <1>5, <2>1, <2>2
  <2> QED BY <1>6, <2>3
<1> QED BY <1>10, <1>11, <1>12

(* And what the one chain held before. *)
LEMMA StoredInChain ==
    ASSUME TypeOK, ClustersAreFound, EntriesHaveOnePlace, NEW addr \in Addr,
           NEW e \in ToSet(Chain(addr))
    PROVE  e \in Chained /\ \A a : <<a, e>> \in Stored <=> a = NearbyAddress(addr, entries[e].offset)
<1>1. /\ PageOf(addr) \in DOMAIN pages /\ Block(addr) \in Blocks
      /\ e \in ToSet(pages[PageOf(addr)][Block(addr)])
    BY ChainHolds, PageOfType
<1>2. e \in Chained
    BY <1>1, ChainedIs
<1>3. AddressAt(PageOf(addr), Block(addr), e) = NearbyAddress(addr, entries[e].offset)
    BY <1>1, <1>2, NearbyIs
<1>4. \A a : <<a, e>> \in Stored <=>
         \E p \in DOMAIN pages, b \in Blocks : e \in ToSet(pages[p][b]) /\ a = AddressAt(p, b, e)
    BY StoredIs
<1>5. \A p \in DOMAIN pages, b \in Blocks : e \in ToSet(pages[p][b]) =>
         p = PageOf(addr) /\ b = Block(addr)
    BY <1>1, PlacesAreApart
<1> QED BY <1>1, <1>2, <1>3, <1>4, <1>5

-----------------------------------------------------------------------------
(* A chain whose entries have different offsets is no longer than a block. *)
LEMMA ChainIsShort ==
    ASSUME NEW es \in Seq(Entry), NEW chain \in Seq(DOMAIN es),
           \A i, j \in DOMAIN chain : es[chain[i]].offset = es[chain[j]].offset => i = j
    PROVE  Len(chain) <= BlockSize
<1> DEFINE n == Len(chain)
           f == [i \in 1..n |-> es[chain[i]].offset]
<1>1. f \in [1..n -> 0..(BlockSize - 1)]
  <2>1. \A i \in 1..n : es[chain[i]] \in Entry
      OBVIOUS
  <2> QED BY <2>1 DEF Entry
<1>2. n \in Nat /\ DOMAIN chain = 1..n
    OBVIOUS
<1>3. /\ IsFiniteSet(1..n) /\ Cardinality(1..n) = n
      /\ IsFiniteSet(0..(BlockSize - 1)) /\ Cardinality(0..(BlockSize - 1)) = BlockSize
  <2>1. IsFiniteSet(1..n) /\ Cardinality(1..n) = n
    <3> HIDE DEF n
    <3>1. IsFiniteSet(1..n) /\ Cardinality(1..n) = IF 1 > n THEN 0 ELSE n - 1 + 1
        BY <1>2, FS_Interval
    <3> QED BY <1>2, <3>1
  <2>2. /\ IsFiniteSet(0..(BlockSize - 1))
        /\ Cardinality(0..(BlockSize - 1)) = IF 0 > BlockSize - 1 THEN 0 ELSE BlockSize - 1 - 0 + 1
    <3>1. 0 \in Int /\ BlockSize - 1 \in Int
        BY Sizes
    <3> QED BY <3>1, FS_Interval
  <2> QED BY <2>1, <2>2, Sizes
<1>4. \A i, j \in 1..n : f[i] = f[j] => i = j
    BY <1>2
<1> HIDE DEF n, f
<1> SUFFICES ASSUME BlockSize < n PROVE FALSE
    BY <1>2, Sizes DEF n
<1>5. \E i, j \in 1..n : i # j /\ f[i] = f[j]
  <2> DEFINE S == 1..n
             T == 0..(BlockSize - 1)
  <2>1. f \in [S -> T] /\ IsFiniteSet(S) /\ IsFiniteSet(T) /\ Cardinality(T) < Cardinality(S)
      BY <1>1, <1>3
  <2> HIDE DEF S, T
  <2>2. \E i, j \in S : i # j /\ f[i] = f[j]
      BY <2>1, FS_PigeonHole
  <2> QED BY <2>2 DEF S
<1> QED BY <1>4, <1>5

(* New counts what GetPage and Insert create. *)
LEMMA MissingAre ==
    ASSUME NEW addr
    PROVE  /\ MissingClusters(addr) \in Nat /\ MissingSubclusters(addr) \in Nat
           /\ MissingPages(addr) \in Nat
    BY DEF MissingClusters, MissingSubclusters, MissingPages, One

LEMMA PlaceStepKeepsType ==
    ASSUME TypeOK, ClustersAreFound, NEW addr \in Addr, NEW chain, PlaceStep(addr, chain),
           NEW batches \in {0, 1}, NEW steps \in Nat, New(addr, batches, steps),
           free_entries' \in Seq(DOMAIN entries'), num_entries' \in Nat
    PROVE  TypeOK' /\ ClustersAreFound'
<1>1. /\ cluster_id' \in Seq(0..(IdWord - 1))
      /\ cluster_hash_table' \in [0..(ClusterHashTableSize - 1) -> Seq(DOMAIN cluster_id')]
      /\ ClustersAreFound'
      /\ DOMAIN cluster_id \subseteq DOMAIN cluster_id' /\ ClusterOf(addr) \in DOMAIN cluster_id'
    BY GetClusterStep DEF PlaceStep
<1>2. IsFiniteSet(DOMAIN pages')
  <2>1. DOMAIN pages' = DOMAIN pages \union {PageOf(addr)} /\ IsFiniteSet(DOMAIN pages)
      BY PlaceStepPages DEF TypeOK
  <2> QED BY <2>1, FS_AddElement
<1>3. DOMAIN pages' \subseteq PageNames(DOMAIN cluster_id')
  <2>1. PageOf(addr) \in PageNames(DOMAIN cluster_id')
      BY <1>1, PageOfType, PlaceOfAddress DEF PageNames
  <2>2. DOMAIN pages \subseteq PageNames(DOMAIN cluster_id')
      BY <1>1 DEF TypeOK, PageNames
  <2>3. DOMAIN pages' = DOMAIN pages \union {PageOf(addr)}
      BY PlaceStepPages
  <2> QED BY <2>1, <2>2, <2>3
<1>4. \A p \in DOMAIN pages' : pages'[p] \in [Blocks -> Seq(DOMAIN entries')]
    BY PlaceStepType
<1>5. batches * EntryBulkAllocCount \in Nat
    BY Sizes
<1>6. allocated_objects' \in Nat
  <2>1. allocated_objects \in Nat
      BY DEF TypeOK
  <2>2. /\ MissingClusters(addr) \in Nat /\ MissingSubclusters(addr) \in Nat
        /\ MissingPages(addr) \in Nat
      BY MissingAre
  <2>3. allocated_objects' = allocated_objects + MissingClusters(addr) + MissingSubclusters(addr)
                                 + MissingPages(addr) + batches
      BY DEF New
  <2> QED BY <2>1, <2>2, <2>3
<1>7. stats' \in [num_clusters : Nat, num_subclusters : Nat, num_pages : Nat,
                  num_entries : Nat, max_num_steps : Nat]
  <2>1. Max({stats.max_num_steps, steps}) \in Nat
      BY MaxOfTwo DEF TypeOK
  <2>2. /\ stats.num_clusters \in Nat /\ stats.num_subclusters \in Nat
        /\ stats.num_pages \in Nat /\ stats.num_entries \in Nat
      BY DEF TypeOK
  <2>3. /\ MissingClusters(addr) \in Nat /\ MissingSubclusters(addr) \in Nat
        /\ MissingPages(addr) \in Nat
      BY MissingAre
  <2> DEFINE c == stats.num_clusters + MissingClusters(addr)
             s == stats.num_subclusters + MissingSubclusters(addr)
             p == stats.num_pages + MissingPages(addr)
             e == stats.num_entries + batches * EntryBulkAllocCount
             m == Max({stats.max_num_steps, steps})
  <2>4. c \in Nat /\ s \in Nat /\ p \in Nat /\ e \in Nat /\ m \in Nat
    <3>1. \A i, j \in Nat : i + j \in Nat
        OBVIOUS
    <3>2. c \in Nat /\ s \in Nat /\ p \in Nat
        BY <2>2, <2>3, <3>1
    <3>3. e \in Nat
        BY <1>5, <2>2, <3>1
    <3> QED BY <2>1, <3>2, <3>3
  <2>5. stats' = [num_clusters |-> c, num_subclusters |-> s, num_pages |-> p,
                  num_entries |-> e, max_num_steps |-> m]
      BY DEF New
  <2> HIDE DEF c, s, p, e, m
  <2> QED BY <2>4, <2>5
<1> QED BY <1>1, <1>2, <1>3, <1>4, <1>6, <1>7 DEF TypeOK, PlaceStep

LEMMA PlaceStepKeepsStats ==
    ASSUME TypeOK, ClustersAreFound, IsFiniteSet(Subclusters), StatsTellStructure,
           NEW addr \in Addr, NEW chain, PlaceStep(addr, chain),
           NEW batches \in {0, 1}, NEW steps \in Nat, New(addr, batches, steps),
           steps <= BlockSize, Len(entries') = Len(entries) + batches * EntryBulkAllocCount,
           TypeOK', OffsetsOccurOnce'
    PROVE  StatsTellStructure' /\ IsFiniteSet(Subclusters')
<1> DEFINE P == PageOf(addr)
<1>1. Len(cluster_id') = Len(cluster_id) + MissingClusters(addr)
    BY GetClusterStep DEF PlaceStep
<1>2. DOMAIN pages' = DOMAIN pages \union {P}
    BY PlaceStepPages
<1>3. /\ IsFiniteSet(DOMAIN pages)
      /\ Cardinality(DOMAIN pages') = Cardinality(DOMAIN pages) + MissingPages(addr)
  <2>1. MissingPages(addr) = IF P \in DOMAIN pages THEN 0 ELSE 1
      BY DEF MissingPages, One
  <2>2. IsFiniteSet(DOMAIN pages)
      BY DEF TypeOK
  <2> HIDE DEF P
  <2> QED BY <1>2, <2>1, <2>2, FS_AddElement, FS_CardinalityType
<1>4. /\ IsFiniteSet(Subclusters')
      /\ Cardinality(Subclusters') = Cardinality(Subclusters) + MissingSubclusters(addr)
  <2>1. Subclusters' = Subclusters \union {<<P[1], P[2]>>}
      BY <1>2 DEF Subclusters
  <2>2. MissingSubclusters(addr) = IF <<P[1], P[2]>> \in Subclusters THEN 0 ELSE 1
      BY DEF MissingSubclusters, Subclusters, One
  <2> QED BY <2>1, <2>2, FS_AddElement, FS_CardinalityType
<1>5. Len(entries') \div EntryBulkAllocCount = Len(entries) \div EntryBulkAllocCount + batches
  <2>1. Len(entries) \in Nat /\ Len(entries) \div EntryBulkAllocCount \in Nat
    <3>1. Len(entries) \in Nat
        BY DEF TypeOK
    <3> QED BY <3>1, Sizes, Split
  <2>2. CASE batches = 0
      BY <2>1, <2>2, Sizes
  <2>3. CASE batches = 1
    <3>1. Len(entries') = Len(entries) + EntryBulkAllocCount
        BY <2>3, Sizes
    <3> QED BY <2>1, <2>3, <3>1, Sizes, DivOfNext
  <2> QED BY <2>2, <2>3
<1>6. /\ allocated_objects' = allocated_objects + MissingClusters(addr) + MissingSubclusters(addr)
                                  + MissingPages(addr) + batches
      /\ stats'.num_clusters = stats.num_clusters + MissingClusters(addr)
      /\ stats'.num_subclusters = stats.num_subclusters + MissingSubclusters(addr)
      /\ stats'.num_pages = stats.num_pages + MissingPages(addr)
      /\ stats'.num_entries = stats.num_entries + batches * EntryBulkAllocCount
      /\ stats'.max_num_steps = Max({stats.max_num_steps, steps})
    BY DEF New
<1>7. stats'.max_num_steps <= BlockSize
  <2>1. stats.max_num_steps <= BlockSize /\ stats.max_num_steps \in Nat
      BY DEF StatsTellStructure, TypeOK
  <2> QED BY <1>6, <2>1, MaxOfTwo
<1>8. \A p \in DOMAIN pages', block \in Blocks : Len(pages'[p][block]) <= BlockSize
  <2> SUFFICES ASSUME NEW p \in DOMAIN pages', NEW block \in Blocks
               PROVE  Len(pages'[p][block]) <= BlockSize
      OBVIOUS
  <2>1. entries' \in Seq(Entry) /\ pages'[p][block] \in Seq(DOMAIN entries')
      BY DEF TypeOK
  <2>2. \A i, j \in DOMAIN pages'[p][block] :
           entries'[pages'[p][block][i]].offset = entries'[pages'[p][block][j]].offset => i = j
      BY DEF OffsetsOccurOnce
  <2> QED BY <2>1, <2>2, ChainIsShort
<1>9. /\ Len(cluster_id) \in Nat /\ Cardinality(DOMAIN pages) \in Nat /\ Cardinality(Subclusters) \in Nat
      /\ Len(entries) \div EntryBulkAllocCount \in Nat /\ Len(entries) \in Nat
      /\ batches * EntryBulkAllocCount \in Nat
  <2>1. Len(cluster_id) \in Nat /\ Len(entries) \in Nat
    <3>1. \E T : cluster_id \in Seq(T)
        BY DEF TypeOK
    <3>2. \E T : entries \in Seq(T)
        BY DEF TypeOK
    <3> QED BY <3>1, <3>2
  <2>2. Len(entries) \div EntryBulkAllocCount \in Nat
    <3> DEFINE x == Len(entries)
    <3>1. x \in Nat /\ EntryBulkAllocCount \in Nat \ {0}
        BY <2>1, Sizes
    <3> HIDE DEF x
    <3>2. x \div EntryBulkAllocCount \in Nat
        BY <3>1, Split
    <3> QED BY <3>2 DEF x
  <2>3. Cardinality(DOMAIN pages) \in Nat /\ Cardinality(Subclusters) \in Nat
      BY <1>3, FS_CardinalityType
  <2>4. batches * EntryBulkAllocCount \in Nat
      BY Sizes
  <2> QED BY <2>1, <2>2, <2>3, <2>4
<1>10. /\ stats.num_clusters = Len(cluster_id)
       /\ stats.num_subclusters = Cardinality(Subclusters)
       /\ stats.num_pages = Cardinality(DOMAIN pages)
       /\ stats.num_entries = Len(entries)
       /\ allocated_objects = 1 + Len(cluster_id) + stats.num_subclusters
                             + Cardinality(DOMAIN pages) + Len(entries) \div EntryBulkAllocCount
    BY DEF StatsTellStructure, Subclusters
<1>11. /\ stats'.num_clusters = Len(cluster_id')
       /\ stats'.num_subclusters = Cardinality(Subclusters')
       /\ stats'.num_pages = Cardinality(DOMAIN pages')
       /\ stats'.num_entries = Len(entries')
    BY <1>1, <1>3, <1>4, <1>6, <1>10
<1>12. allocated_objects' = 1 + Len(cluster_id') + stats'.num_subclusters
                              + Cardinality(DOMAIN pages') + Len(entries') \div EntryBulkAllocCount
  <2> DEFINE d == Len(entries) \div EntryBulkAllocCount
             dd == Len(entries') \div EntryBulkAllocCount
  <2>1. /\ dd = d + batches /\ d \in Nat
        /\ allocated_objects = 1 + Len(cluster_id) + stats.num_subclusters + Cardinality(DOMAIN pages) + d
      BY <1>5, <1>9, <1>10
  <2> HIDE DEF d, dd
  <2>2. /\ MissingClusters(addr) \in Nat /\ MissingSubclusters(addr) \in Nat
        /\ MissingPages(addr) \in Nat /\ stats.num_subclusters \in Nat
      BY <1>9, <1>10, MissingAre
  <2> DEFINE x == MissingClusters(addr)
             y == MissingSubclusters(addr)
             z == MissingPages(addr)
             a == Len(cluster_id)
             b == stats.num_subclusters
             c == Cardinality(DOMAIN pages)
             aa == Len(cluster_id')
             bb == stats'.num_subclusters
             cc == Cardinality(DOMAIN pages')
  <2>3. /\ allocated_objects' = allocated_objects + x + y + z + batches
        /\ allocated_objects = 1 + a + b + c + d
        /\ aa = a + x /\ bb = b + y /\ cc = c + z
        /\ x \in Nat /\ y \in Nat /\ z \in Nat /\ a \in Nat /\ b \in Nat /\ c \in Nat
      BY <1>1, <1>3, <1>6, <1>9, <2>1, <2>2
  <2> HIDE DEF x, y, z, a, b, c, aa, bb, cc
  <2>4. allocated_objects' = 1 + aa + bb + cc + dd
      BY <2>1, <2>3, SMTT(60)
  <2> QED BY <2>4 DEF dd, aa, bb, cc
<1> QED BY <1>4, <1>7, <1>8, <1>11, <1>12 DEF StatsTellStructure, Subclusters

-----------------------------------------------------------------------------
(* What the operations do to a chain or a list: put in front, take from it. *)
LEMMA InFront ==
    ASSUME NEW T, NEW s \in Seq(T), NEW x \in T
    PROVE  LET t == <<x>> \o s
           IN  /\ t \in Seq(T) /\ ToSet(t) = {x} \union ToSet(s)
               /\ Len(t) = Len(s) + 1 /\ t[1] = x
               /\ \A i \in DOMAIN t : i = 1 \/ (i - 1 \in DOMAIN s /\ t[i] = s[i - 1])
               /\ IsInjective(s) /\ x \notin ToSet(s) => IsInjective(t)
<1> DEFINE t == <<x>> \o s
<1>1. /\ t \in Seq(T) /\ Len(t) = Len(s) + 1 /\ t[1] = x /\ 1 \in DOMAIN t
      /\ \A i \in DOMAIN t : i = 1 \/ (i - 1 \in DOMAIN s /\ t[i] = s[i - 1])
      /\ \A i \in DOMAIN s : i + 1 \in DOMAIN t /\ t[i + 1] = s[i]
    OBVIOUS
<1>2. \A i \in DOMAIN t : i \in Nat
    OBVIOUS
<1> HIDE DEF t
<1>3. ToSet(t) = {x} \union ToSet(s)
    BY <1>1 DEF ToSet
<1>4. IsInjective(s) /\ x \notin ToSet(s) => IsInjective(t)
    BY <1>1, <1>2 DEF ToSet, IsInjective
<1> QED BY <1>1, <1>3, <1>4 DEF t

LEMMA TakeHead ==
    ASSUME NEW T, NEW s \in Seq(T), s # <<>>, IsInjective(s)
    PROVE  /\ Head(s) \in T /\ Tail(s) \in Seq(T) /\ IsInjective(Tail(s))
           /\ Head(s) \in ToSet(s) /\ ToSet(Tail(s)) = ToSet(s) \ {Head(s)}
<1> DEFINE t == Tail(s)
<1>1. /\ t \in Seq(T) /\ Head(s) = s[1] /\ 1 \in DOMAIN s
      /\ \A i \in DOMAIN t : i + 1 \in DOMAIN s /\ t[i] = s[i + 1] /\ i \in Nat \ {0}
      /\ \A i \in DOMAIN s : i \in Nat /\ (i = 1 \/ (i - 1 \in DOMAIN t /\ t[i - 1] = s[i]))
    OBVIOUS
<1> HIDE DEF t
<1>2. ToSet(t) = ToSet(s) \ {s[1]}
  <2>1. ASSUME NEW e \in ToSet(t) PROVE e \in ToSet(s) /\ e # s[1]
    <3>1. PICK i \in DOMAIN t : e = t[i]
        BY <2>1 DEF ToSet
    <3> QED BY <1>1, <3>1 DEF ToSet, IsInjective
  <2>2. ASSUME NEW e \in ToSet(s), e # s[1] PROVE e \in ToSet(t)
    <3>1. PICK i \in DOMAIN s : e = s[i]
        BY <2>2 DEF ToSet
    <3>2. i - 1 \in DOMAIN t /\ t[i - 1] = e
        BY <1>1, <2>2, <3>1
    <3> QED BY <3>2 DEF ToSet
  <2> QED BY <2>1, <2>2
<1>3. IsInjective(t)
    BY <1>1 DEF IsInjective
<1>4. s[1] \in T /\ s[1] \in ToSet(s)
    BY <1>1 DEF ToSet
<1> QED BY <1>1, <1>2, <1>3, <1>4 DEF t

LEMMA TakeAt ==
    ASSUME NEW T, NEW s \in Seq(T), NEW k \in DOMAIN s
    PROVE  LET t == RemoveAt(s, k)
           IN  /\ t \in Seq(T)
               /\ \A i \in DOMAIN t : i \in Nat /\
                     IF i < k THEN i \in DOMAIN s /\ t[i] = s[i]
                     ELSE i + 1 \in DOMAIN s /\ t[i] = s[i + 1]
               /\ IsInjective(s) => IsInjective(t) /\ ToSet(t) = ToSet(s) \ {s[k]}
<1> DEFINE t == RemoveAt(s, k)
           a == SubSeq(s, 1, k - 1)
           b == SubSeq(s, k + 1, Len(s))
<1>1. k \in 1..Len(s) /\ Len(s) \in Nat /\ DOMAIN s = 1..Len(s)
    OBVIOUS
<1>2. /\ a \in Seq(T) /\ Len(a) = k - 1
      /\ \A i \in 1..(k - 1) : a[i] = s[i]
    BY <1>1
<1>3. /\ b \in Seq(T) /\ Len(b) = Len(s) - k
      /\ \A i \in 1..(Len(s) - k) : b[i] = s[k + i]
    BY <1>1
<1>4. t = a \o b
    BY DEF RemoveAt
<1> HIDE DEF a, b, t
<1>5. /\ t \in Seq(T) /\ Len(t) = Len(s) - 1 /\ DOMAIN t = 1..(Len(s) - 1)
      /\ \A i \in 1..(Len(s) - 1) : t[i] = IF i < k THEN s[i] ELSE s[i + 1]
  <2>1. t \in Seq(T) /\ Len(t) = Len(s) - 1
    <3>1. a \in Seq(T) /\ b \in Seq(T)
        BY <1>2, <1>3
    <3>2. t \in Seq(T) /\ Len(t) = Len(a) + Len(b)
        BY <1>4, <3>1
    <3> QED BY <1>1, <1>2, <1>3, <3>2
  <2>2. ASSUME NEW i \in 1..(Len(s) - 1) PROVE t[i] = IF i < k THEN s[i] ELSE s[i + 1]
    <3>1. t[i] = IF i <= Len(a) THEN a[i] ELSE b[i - Len(a)]
        BY <1>1, <1>2, <1>3, <1>4, <2>2
    <3>2. CASE i < k
        BY <1>1, <1>2, <3>1, <3>2
    <3>3. CASE ~(i < k)
      <4>1. i - (k - 1) \in 1..(Len(s) - k) /\ k + (i - (k - 1)) = i + 1
          BY <1>1, <3>3
      <4>2. t[i] = b[i - (k - 1)]
          BY <1>1, <1>2, <3>1, <3>3
      <4> QED BY <1>3, <3>3, <4>1, <4>2
    <3> QED BY <3>2, <3>3
  <2> QED BY <1>1, <2>1, <2>2
<1>6. \A i \in DOMAIN t : i \in Nat /\
         IF i < k THEN i \in DOMAIN s /\ t[i] = s[i] ELSE i + 1 \in DOMAIN s /\ t[i] = s[i + 1]
    BY <1>1, <1>5
<1>7. \A i \in DOMAIN s : i \in Nat /\
         \/ i = k
         \/ i < k /\ i \in DOMAIN t /\ t[i] = s[i]
         \/ i > k /\ i - 1 \in DOMAIN t /\ t[i - 1] = s[i]
    BY <1>1, <1>5
<1>8. ASSUME IsInjective(s) PROVE IsInjective(t) /\ ToSet(t) = ToSet(s) \ {s[k]}
  <2>1. IsInjective(t)
      BY <1>1, <1>6, <1>8 DEF IsInjective
  <2>2. ASSUME NEW e \in ToSet(t) PROVE e \in ToSet(s) /\ e # s[k]
    <3>1. PICK i \in DOMAIN t : e = t[i]
        BY <2>2 DEF ToSet
    <3> QED BY <1>1, <1>6, <1>8, <3>1 DEF ToSet, IsInjective
  <2>3. ASSUME NEW e \in ToSet(s), e # s[k] PROVE e \in ToSet(t)
    <3>1. PICK i \in DOMAIN s : e = s[i]
        BY <2>3 DEF ToSet
    <3> QED BY <1>7, <2>3, <3>1 DEF ToSet
  <2> QED BY <2>1, <2>2, <2>3
<1> QED BY <1>5, <1>6, <1>8 DEF t

-----------------------------------------------------------------------------
(* The chain of an address and the free list, by the invariant. *)
LEMMA ChainIsSound ==
    ASSUME TypeOK, ClustersAreFound, OffsetsOccurOnce, EntriesHaveOnePlace, NEW addr \in Addr
    PROVE  /\ Chain(addr) \in Seq(DOMAIN entries)
           /\ \A i, j \in DOMAIN Chain(addr) :
                 entries[Chain(addr)[i]].offset = entries[Chain(addr)[j]].offset => i = j
           /\ IsInjective(Chain(addr)) /\ ToSet(Chain(addr)) \subseteq Chained
           /\ ToSet(free_entries) \intersect ToSet(Chain(addr)) = {}
           /\ free_entries \in Seq(DOMAIN entries) /\ IsInjective(free_entries)
<1>1. Chain(addr) \in Seq(DOMAIN entries) /\ Block(addr) \in Blocks
    BY PageOfType
<1>2. \A i, j \in DOMAIN Chain(addr) :
         entries[Chain(addr)[i]].offset = entries[Chain(addr)[j]].offset => i = j
    BY <1>1 DEF Chain, OffsetsOccurOnce
<1>3. IsInjective(Chain(addr))
    BY <1>1, EmptyChain DEF Chain, EntriesHaveOnePlace
<1>4. ToSet(Chain(addr)) \subseteq Chained
    BY <1>1, ChainHolds, ChainedIs
<1> QED BY <1>1, <1>2, <1>3, <1>4 DEF EntriesHaveOnePlace, TypeOK

(* A step that creates no more than the page. *)
LEMMA PagesWithStep ==
    ASSUME TypeOK, ClustersAreFound, NEW addr \in Addr, pages' = PagesWith(addr)
    PROVE  pages' = [p \in DOMAIN pages \union {PageOf(addr)} |-> [block \in Blocks |->
                        IF p = PageOf(addr) /\ block = Block(addr) THEN Chain(addr)
                        ELSE IF p \in DOMAIN pages THEN pages[p][block]
                        ELSE <<>>]]
<1> DEFINE P == PageOf(addr)
           value(p) == [block \in Blocks |->
                           IF p = P /\ block = Block(addr) THEN Chain(addr)
                           ELSE IF p \in DOMAIN pages THEN pages[p][block]
                           ELSE <<>>]
<1>1. pages' = [p \in DOMAIN pages \union {P} |-> IF p \in DOMAIN pages THEN pages[p] ELSE EmptyPage]
    BY DEF PagesWith
<1>2. \A p \in DOMAIN pages \union {P} : (IF p \in DOMAIN pages THEN pages[p] ELSE EmptyPage) = value(p)
  <2>1. \A p \in DOMAIN pages : pages[p] = [block \in Blocks |-> pages[p][block]]
      BY DEF TypeOK
  <2>2. ASSUME NEW p \in DOMAIN pages PROVE pages[p] = value(p)
      BY <2>1 DEF Chain
  <2>3. ASSUME NEW p, p \notin DOMAIN pages PROVE EmptyPage = value(p)
      BY <2>3 DEF EmptyPage, Chain
  <2> QED BY <2>2, <2>3
<1> QED BY <1>1, <1>2

LEMMA StoreIs ==
    ASSUME NEW entry \in Entry, NEW addr \in Addr, NEW size \in Size, NEW hash \in Hash \union {NoHash}
    PROVE  /\ Store(entry, addr, size, hash) \in Entry
           /\ Store(entry, addr, size, hash).offset = Offset(addr)
           /\ Contents(Store(entry, addr, size, hash)) = [size |-> size % SizeWord, hash |-> hash]
<1>1. size % SizeWord \in 0..(SizeWord - 1) /\ Offset(addr) \in 0..(BlockSize - 1)
    BY AddressMapAssumption, Sizes, Split, PlaceOfAddress
<1>2. (IF hash # NoHash THEN hash ELSE entry.call_stack_hash) \in Nat
    BY AddressMapAssumption DEF Entry
<1> DEFINE stored == [offset |-> Offset(addr), size |-> size % SizeWord,
                      has_call_stack |-> hash # NoHash,
                      call_stack_hash |-> IF hash # NoHash THEN hash ELSE entry.call_stack_hash]
<1>3. Store(entry, addr, size, hash) = stored
  <2>1. entry = [offset |-> entry.offset, size |-> entry.size, has_call_stack |-> entry.has_call_stack,
                 call_stack_hash |-> entry.call_stack_hash]
      BY DEF Entry
  <2> DEFINE new == Store(entry, addr, size, hash)
  <2>2. /\ DOMAIN new = {"offset", "size", "has_call_stack", "call_stack_hash"}
        /\ new = [field \in DOMAIN new |-> new[field]]
        /\ new.offset = stored.offset /\ new.size = stored.size
        /\ new.has_call_stack = stored.has_call_stack
        /\ new.call_stack_hash = stored.call_stack_hash
      BY <2>1 DEF Store
  <2>3. /\ DOMAIN stored = {"offset", "size", "has_call_stack", "call_stack_hash"}
        /\ stored = [field \in DOMAIN stored |-> stored[field]]
      OBVIOUS
  <2> HIDE DEF new, stored
  <2>4. new = stored
      BY <2>2, <2>3
  <2> QED BY <2>4 DEF new
<1>4. stored \in Entry
    BY <1>1, <1>2 DEF Entry
<1>5. Contents(stored) = [size |-> size % SizeWord, hash |-> hash]
  <2>1. CASE hash = NoHash
      BY <2>1 DEF Contents
  <2>2. CASE hash # NoHash
      BY <2>2 DEF Contents
  <2> QED BY <2>1, <2>2
<1>6. stored.offset = Offset(addr)
    OBVIOUS
<1> HIDE DEF stored
<1> QED BY <1>3, <1>4, <1>5, <1>6

-----------------------------------------------------------------------------
(* Whatever a step stores, it stores nothing twice and its addresses are counted. *)
LEMMA StoredAddressesAre ==
    /\ \A a : a \in StoredAddresses <=> \E e : <<a, e>> \in Stored
    /\ \A a : a \in StoredAddresses' <=> \E e : <<a, e>> \in Stored'
<1>1. \A x \in Stored : x = <<x[1], x[2]>>
    BY StoredIs
<1>2. \A x \in Stored' : x = <<x[1], x[2]>>
  <2>1. \A p, block : \A x \in StoredIn(p, block)' : x = <<x[1], x[2]>>
      BY DEF StoredIn
  <2>2. \A x \in Stored' : \E p, block : x \in StoredIn(p, block)'
      BY DEF Stored
  <2> QED BY <2>1, <2>2
<1>3. ASSUME NEW stored, \A x \in stored : x = <<x[1], x[2]>>
      PROVE  \A a : a \in {s[1] : s \in stored} <=> \E e : <<a, e>> \in stored
  <2> TAKE a
  <2>1. ASSUME a \in {s[1] : s \in stored} PROVE \E e : <<a, e>> \in stored
    <3>1. PICK s \in stored : a = s[1]
        BY <2>1
    <3>2. <<a, s[2]>> \in stored
        BY <1>3, <3>1
    <3> QED BY <3>2
  <2>2. ASSUME NEW e, <<a, e>> \in stored PROVE a \in {s[1] : s \in stored}
    <3>1. <<a, e>>[1] = a
        OBVIOUS
    <3> QED BY <2>2, <3>1
  <2> QED BY <2>1, <2>2
<1> QED BY <1>1, <1>2, <1>3 DEF StoredAddresses

(* What a step does to the stored pairs decides what it does to their number. *)
LEMMA SameStoredSize ==
    ASSUME TypeOK, IsFiniteSet(StoredAddresses), SizeCoversMap,
           \A a, e : <<a, e>> \in Stored' <=> <<a, e>> \in Stored,
           num_entries' \in Nat, num_entries' >= num_entries
    PROVE  IsFiniteSet(StoredAddresses') /\ SizeCoversMap'
<1>1. StoredAddresses' = StoredAddresses
    BY StoredAddressesAre
<1>2. num_entries >= Cardinality(StoredAddresses) /\ Cardinality(StoredAddresses) \in Nat /\ num_entries \in Nat
    BY FS_CardinalityType DEF SizeCoversMap, StoredAddresses, TypeOK
<1>3. num_entries' >= Cardinality(StoredAddresses')
    BY <1>1, <1>2
<1> QED BY <1>1, <1>3 DEF SizeCoversMap, StoredAddresses

LEMMA OneMoreStoredSize ==
    ASSUME TypeOK, IsFiniteSet(StoredAddresses), SizeCoversMap, NEW addr,
           StoredAddresses' = StoredAddresses \union {addr}, num_entries' = num_entries + 1
    PROVE  IsFiniteSet(StoredAddresses') /\ SizeCoversMap'
<1>1. num_entries >= Cardinality(StoredAddresses) /\ Cardinality(StoredAddresses) \in Nat /\ num_entries \in Nat
    BY FS_CardinalityType DEF SizeCoversMap, StoredAddresses, TypeOK
<1>2. /\ IsFiniteSet(StoredAddresses')
      /\ Cardinality(StoredAddresses') \in {Cardinality(StoredAddresses), Cardinality(StoredAddresses) + 1}
    BY FS_AddElement
<1>3. num_entries' >= Cardinality(StoredAddresses')
    BY <1>1, <1>2
<1> QED BY <1>2, <1>3 DEF SizeCoversMap, StoredAddresses

LEMMA OneLessStoredSize ==
    ASSUME TypeOK, IsFiniteSet(StoredAddresses), SizeCoversMap, NEW addr \in StoredAddresses,
           StoredAddresses' = StoredAddresses \ {addr}, num_entries' = num_entries - 1
    PROVE  IsFiniteSet(StoredAddresses') /\ SizeCoversMap' /\ num_entries' \in Nat
<1>1. num_entries >= Cardinality(StoredAddresses) /\ Cardinality(StoredAddresses) \in Nat /\ num_entries \in Nat
    BY FS_CardinalityType DEF SizeCoversMap, StoredAddresses, TypeOK
<1>2. /\ IsFiniteSet(StoredAddresses')
      /\ Cardinality(StoredAddresses') = Cardinality(StoredAddresses) - 1
    BY FS_RemoveElement
<1>3. Cardinality(StoredAddresses') \in Nat
    BY <1>2, FS_CardinalityType
<1>4. num_entries' >= Cardinality(StoredAddresses') /\ num_entries' \in Nat
    BY <1>1, <1>2, <1>3
<1> QED BY <1>2, <1>4 DEF SizeCoversMap, StoredAddresses

-----------------------------------------------------------------------------
(* A new map: what Init and the destructor leave. *)
IsNew ==
    /\ cluster_hash_table = [index \in 0..(ClusterHashTableSize - 1) |-> <<>>]
    /\ cluster_id = <<>> /\ entries = <<>> /\ free_entries = <<>>
    /\ DOMAIN pages = {}
    /\ num_entries = 0 /\ allocated_objects = 1
    /\ stats = [num_clusters |-> 0, num_subclusters |-> 0, num_pages |-> 0,
                num_entries |-> 0, max_num_steps |-> 0]

LEMMA NewIsSound == IsNew => MapInv
<1> SUFFICES ASSUME IsNew PROVE MapInv
    OBVIOUS
<1>1. Chained = {} /\ Stored = {} /\ StoredAddresses = {} /\ Subclusters = {}
    BY DEF IsNew, Chained, Stored, StoredAddresses, Subclusters
<1>2. IsFiniteSet({}) /\ Cardinality({}) = 0
    BY FS_EmptySet
<1>3. TypeOK
    BY <1>2 DEF IsNew, TypeOK
<1>4. ClustersAreFound /\ OffsetsOccurOnce
    BY DEF IsNew, ClustersAreFound, OffsetsOccurOnce
<1>5. EntriesHaveOnePlace
    BY <1>1, EmptyChain DEF IsNew, EntriesHaveOnePlace
<1>6. StatsTellStructure
  <2>1. Len(cluster_id) = 0 /\ Len(entries) = 0
      BY DEF IsNew
  <2>2. 0 \div EntryBulkAllocCount = 0
      BY Sizes, SplitOfSum, 0 * EntryBulkAllocCount + 0 = 0
  <2>3. stats.num_subclusters = 0 /\ Cardinality(Subclusters) = 0 /\ Cardinality(DOMAIN pages) = 0
      BY <1>1, <1>2 DEF IsNew
  <2>4. stats.max_num_steps <= BlockSize
      BY Sizes DEF IsNew
  <2> QED BY <2>1, <2>2, <2>3, <2>4 DEF IsNew, StatsTellStructure, Subclusters
<1>7. IsFiniteSet(Subclusters) /\ IsFiniteSet(StoredAddresses) /\ SizeCoversMap
  <2>1. IsFiniteSet(Subclusters) /\ IsFiniteSet(StoredAddresses)
      BY <1>1, <1>2
  <2>2. num_entries >= Cardinality(StoredAddresses)
      BY <1>1, <1>2 DEF IsNew
  <2> QED BY <2>1, <2>2 DEF SizeCoversMap, StoredAddresses
<1> QED BY <1>3, <1>4, <1>5, <1>6, <1>7 DEF MapInv

LEMMA NewIsSoundNext == IsNew' => MapInv'
    BY NewIsSound, PTL

LEMMA InitMapInv == Init => MapInv
    BY NewIsSound DEF Init, IsNew

LEMMA DestructorKeepsMapInv == MapInv /\ Destructor => MapInv'
<1> SUFFICES ASSUME MapInv, Destructor PROVE IsNew'
    BY NewIsSoundNext
<1>1. DOMAIN stats = {"num_clusters", "num_subclusters", "num_pages", "num_entries", "max_num_steps"}
    BY DEF MapInv, TypeOK
<1>2. stats' = [num_clusters |-> 0, num_subclusters |-> 0, num_pages |-> 0,
                num_entries |-> 0, max_num_steps |-> 0]
    BY <1>1 DEF Destructor
<1>3. DOMAIN cluster_hash_table = 0..(ClusterHashTableSize - 1)
    BY DEF MapInv, TypeOK
<1> QED BY <1>2, <1>3 DEF Destructor, IsNew

-----------------------------------------------------------------------------
(* Every operation keeps the invariant, first an insertion at an address that has an entry. *)
LEMMA OverwriteStep ==
    ASSUME MapInv, NEW addr \in Addr, NEW size \in Size, NEW hash \in Hash \union {NoHash},
           GetCluster(addr), Overwrite(addr, size, hash)
    PROVE  LET h == Chain(addr)[FoundAt(addr)]
           IN  /\ PlaceStep(addr, Chain(addr)) /\ h \in ToSet(Chain(addr))
               /\ FoundAt(addr) \in DOMAIN Chain(addr)
               /\ entries' \in Seq(Entry) /\ Len(entries') = Len(entries)
               /\ DOMAIN entries' = DOMAIN entries
               /\ entries'[h] = Store(entries[h], addr, size, hash)
               /\ \A e \in DOMAIN entries : /\ e # h => entries'[e] = entries[e]
                                            /\ entries'[e].offset = entries[e].offset
<1> DEFINE chain == Chain(addr)
           k == FoundAt(addr)
           h == chain[k]
<1>1. TypeOK /\ ClustersAreFound /\ OffsetsOccurOnce /\ EntriesHaveOnePlace
    BY DEF MapInv
<1>2. chain \in Seq(DOMAIN entries) /\ ToSet(chain) \subseteq Chained
    BY <1>1, ChainIsSound
<1>3. k \in DOMAIN chain /\ entries[h].offset = Offset(addr)
    BY <1>1, EntryIsFound DEF Overwrite
<1>4. h \in ToSet(chain) /\ h \in DOMAIN entries
  <2> HIDE DEF chain, k
  <2> QED BY <1>2, <1>3 DEF ToSet
<1>5. pages' = PagesWith(addr) /\ entries' = [entries EXCEPT ![h] = Store(entries[h], addr, size, hash)]
    BY DEF Overwrite
<1> HIDE DEF chain, k, h
<1>6. entries \in Seq(Entry) /\ entries[h] \in Entry
    BY <1>1, <1>4 DEF TypeOK
<1>7. Store(entries[h], addr, size, hash) \in Entry /\ Store(entries[h], addr, size, hash).offset = Offset(addr)
    BY <1>6, StoreIs
<1>8. /\ entries' \in Seq(Entry) /\ Len(entries') = Len(entries) /\ DOMAIN entries' = DOMAIN entries
      /\ entries'[h] = Store(entries[h], addr, size, hash)
      /\ \A e \in DOMAIN entries : e # h => entries'[e] = entries[e]
    BY <1>4, <1>5, <1>6, <1>7
<1>9. \A e \in DOMAIN entries : entries'[e].offset = entries[e].offset
    BY <1>3, <1>7, <1>8
<1>10. Chained \subseteq DOMAIN entries
    BY <1>1 DEF EntriesHaveOnePlace
<1>11. PlaceStep(addr, Chain(addr))
  <2>1. pages' = [p \in DOMAIN pages \union {PageOf(addr)} |-> [block \in Blocks |->
                        IF p = PageOf(addr) /\ block = Block(addr) THEN Chain(addr)
                        ELSE IF p \in DOMAIN pages THEN pages[p][block]
                        ELSE <<>>]]
      BY <1>1, <1>5, PagesWithStep
  <2>2. Chain(addr) \in Seq(DOMAIN entries') /\ \A e \in Chained : entries'[e].offset = entries[e].offset
      BY <1>2, <1>8, <1>9, <1>10 DEF chain
  <2> QED BY <1>8, <2>1, <2>2 DEF PlaceStep
<1> QED BY <1>3, <1>4, <1>8, <1>9, <1>11 DEF chain, k, h

LEMMA OverwriteKeepsMapInv ==
    ASSUME MapInv, NEW addr \in Addr, NEW size \in Size, NEW hash \in Hash \union {NoHash},
           GetCluster(addr), Overwrite(addr, size, hash), num_entries' = num_entries + 1
    PROVE  MapInv' /\ \A a, e : <<a, e>> \in Stored' <=> <<a, e>> \in Stored
<1> DEFINE chain == Chain(addr)
           k == FoundAt(addr)
<1>1. /\ TypeOK /\ ClustersAreFound /\ OffsetsOccurOnce /\ EntriesHaveOnePlace
      /\ IsFiniteSet(Subclusters) /\ StatsTellStructure
      /\ IsFiniteSet(StoredAddresses) /\ SizeCoversMap
    BY DEF MapInv
<1>2. /\ PlaceStep(addr, chain) /\ k \in DOMAIN chain
      /\ entries' \in Seq(Entry) /\ Len(entries') = Len(entries) /\ DOMAIN entries' = DOMAIN entries
      /\ \A e \in DOMAIN entries : entries'[e].offset = entries[e].offset
    BY OverwriteStep
<1>3. /\ chain \in Seq(DOMAIN entries) /\ IsInjective(chain) /\ ToSet(chain) \subseteq Chained
      /\ \A i, j \in DOMAIN chain : entries[chain[i]].offset = entries[chain[j]].offset => i = j
      /\ ToSet(free_entries) \intersect ToSet(chain) = {}
      /\ free_entries \in Seq(DOMAIN entries) /\ IsInjective(free_entries)
    BY <1>1, ChainIsSound
<1>4. New(addr, 0, k) /\ free_entries' = free_entries
    BY DEF Overwrite
<1> HIDE DEF chain, k
<1>5. k \in Nat /\ k <= BlockSize
  <2>1. Len(chain) <= BlockSize
      BY <1>1, <1>3, ChainIsShort DEF TypeOK
  <2> QED BY <1>2, <1>3, <2>1, Sizes
<1>6. num_entries \in Nat /\ num_entries' \in Nat /\ num_entries' >= num_entries
    BY <1>1 DEF TypeOK
<1>7. TypeOK' /\ ClustersAreFound'
  <2>1. free_entries' \in Seq(DOMAIN entries')
      BY <1>2, <1>3, <1>4
  <2> QED BY <1>1, <1>2, <1>4, <1>5, <1>6, <2>1, PlaceStepKeepsType
<1>8. OffsetsOccurOnce'
  <2>1. \A i, j \in DOMAIN chain : entries'[chain[i]].offset = entries'[chain[j]].offset => i = j
      BY <1>2, <1>3
  <2> QED BY <1>1, <1>2, <2>1, PlaceStepOffsets
<1>9. EntriesHaveOnePlace'
  <2>1. /\ IsInjective(free_entries') /\ ToSet(free_entries') \intersect ToSet(chain) = {}
        /\ ToSet(free_entries') \union ToSet(chain) =
               ToSet(free_entries) \union ToSet(Chain(addr)) \union (DOMAIN entries' \ DOMAIN entries)
      BY <1>2, <1>3, <1>4 DEF chain
  <2> QED BY <1>1, <1>2, <1>3, <2>1, PlaceStepKeepsPlaces
<1>10. StatsTellStructure' /\ IsFiniteSet(Subclusters')
  <2>1. Len(entries') = Len(entries) + 0 * EntryBulkAllocCount
    <3>1. entries \in Seq(Entry)
        BY <1>1 DEF TypeOK
    <3>2. Len(entries) \in Nat /\ 0 * EntryBulkAllocCount = 0
        BY <3>1, Sizes
    <3> QED BY <1>2, <3>2
  <2> QED BY <1>1, <1>2, <1>4, <1>5, <1>7, <1>8, <2>1, PlaceStepKeepsStats
<1>11. \A a, e : <<a, e>> \in Stored' <=> <<a, e>> \in Stored
  <2>1. \A a, e : <<a, e>> \in Stored' <=>
               \/ e \in ToSet(chain) /\ a = NearbyAddress(addr, entries'[e].offset)
               \/ <<a, e>> \in Stored /\ e \notin ToSet(chain)
      BY <1>1, <1>2, PlaceStepStored DEF chain
  <2>2. \A e \in ToSet(chain) :
           /\ entries'[e].offset = entries[e].offset
           /\ \A a : <<a, e>> \in Stored <=> a = NearbyAddress(addr, entries[e].offset)
    <3>1. Chained \subseteq DOMAIN entries
        BY <1>1 DEF EntriesHaveOnePlace
    <3> QED BY <1>1, <1>2, <1>3, <3>1, StoredInChain DEF chain
  <2> QED BY <2>1, <2>2
<1>12. IsFiniteSet(StoredAddresses') /\ SizeCoversMap'
    BY <1>1, <1>6, <1>11, SameStoredSize
<1> QED BY <1>7, <1>8, <1>9, <1>10, <1>11, <1>12 DEF MapInv

-----------------------------------------------------------------------------
(* What an insertion at an address without an entry allocates and takes. *)
LEMMA BatchIs ==
    ASSUME NEW n \in Nat, NEW m \in Nat
    PROVE  LET batch == [k \in 1..m |-> n + k]
           IN  batch \in Seq(Nat) /\ Len(batch) = m /\ IsInjective(batch) /\ ToSet(batch) = (n + 1)..(n + m)
<1> DEFINE batch == [k \in 1..m |-> n + k]
<1>1. batch \in Seq(Nat) /\ Len(batch) = m /\ DOMAIN batch = 1..m /\ \A k \in 1..m : batch[k] = n + k
    OBVIOUS
<1> HIDE DEF batch
<1>2. IsInjective(batch)
    BY <1>1 DEF IsInjective
<1>3. ASSUME NEW e \in (n + 1)..(n + m) PROVE e \in ToSet(batch)
  <2>1. e - n \in 1..m /\ n + (e - n) = e
      BY <1>3
  <2> QED BY <1>1, <2>1 DEF ToSet
<1>4. ASSUME NEW e \in ToSet(batch) PROVE e \in (n + 1)..(n + m)
  <2>1. PICK k \in 1..m : e = n + k
      BY <1>1, <1>4 DEF ToSet
  <2> QED BY <2>1
<1> QED BY <1>1, <1>2, <1>3, <1>4 DEF batch

LEMMA FreeEntriesAre ==
    ASSUME TypeOK, EntriesHaveOnePlace
    PROVE  /\ AllocatedEntries \in Seq(Entry)
           /\ Len(AllocatedEntries) = Len(entries) + One(free_entries = <<>>) * EntryBulkAllocCount
           /\ DOMAIN entries \subseteq DOMAIN AllocatedEntries
           /\ \A e \in DOMAIN entries : AllocatedEntries[e] = entries[e]
           /\ FreeEntries \in Seq(DOMAIN AllocatedEntries) /\ FreeEntries # <<>>
           /\ IsInjective(FreeEntries)
           /\ ToSet(FreeEntries) = ToSet(free_entries) \union (DOMAIN AllocatedEntries \ DOMAIN entries)
<1> DEFINE n == Len(entries)
           m == EntryBulkAllocCount
           zeros == [k \in 1..m |-> ZeroEntry]
           batch == [k \in 1..m |-> n + k]
<1>1. /\ entries \in Seq(Entry) /\ n \in Nat /\ DOMAIN entries = 1..n
      /\ free_entries \in Seq(DOMAIN entries) /\ IsInjective(free_entries)
      /\ m \in Nat \ {0}
  <2>1. entries \in Seq(Entry)
      BY DEF TypeOK
  <2> QED BY <2>1, Sizes DEF TypeOK, EntriesHaveOnePlace
<1>2. CASE free_entries # <<>>
  <2>1. AllocatedEntries = entries /\ FreeEntries = free_entries /\ One(free_entries = <<>>) = 0
      BY <1>2 DEF AllocatedEntries, FreeEntries, One
  <2>2. n = n + 0 * m
    <3>1. \A x, y \in Nat : x = x + 0 * y
        OBVIOUS
    <3> HIDE DEF n, m
    <3> QED BY <1>1, <3>1
  <2>3. ToSet(free_entries) = ToSet(free_entries) \union (DOMAIN entries \ DOMAIN entries)
      OBVIOUS
  <2> QED BY <1>1, <1>2, <2>1, <2>2, <2>3
<1>3. CASE free_entries = <<>>
  <2>1. ZeroEntry \in Entry
      BY Sizes DEF ZeroEntry, Entry
  <2>2. zeros \in Seq(Entry) /\ Len(zeros) = m
      BY <1>1, <2>1
  <2>3. AllocatedEntries = entries \o zeros /\ FreeEntries = batch /\ One(free_entries = <<>>) * m = m
      BY <1>1, <1>3 DEF AllocatedEntries, FreeEntries, One
  <2>4. batch \in Seq(Nat) /\ Len(batch) = m /\ IsInjective(batch) /\ ToSet(batch) = (n + 1)..(n + m)
    <3> HIDE DEF n, m
    <3> QED BY <1>1, BatchIs
  <2> HIDE DEF zeros, batch
  <2>5. /\ AllocatedEntries \in Seq(Entry) /\ Len(AllocatedEntries) = n + m
        /\ DOMAIN AllocatedEntries = 1..(n + m)
        /\ \A e \in 1..n : AllocatedEntries[e] = entries[e]
    <3>1. /\ entries \o zeros \in Seq(Entry) /\ Len(entries \o zeros) = n + m
          /\ \A e \in 1..n : (entries \o zeros)[e] = entries[e]
      <4> HIDE DEF m
      <4> QED BY <1>1, <2>2
    <3> QED BY <1>1, <2>3, <3>1
  <2>6. DOMAIN AllocatedEntries \ DOMAIN entries = (n + 1)..(n + m) /\ DOMAIN entries \subseteq 1..(n + m)
    <3> HIDE DEF n, m
    <3> QED BY <1>1, <2>5
  <2>7. ToSet(free_entries) = {}
      BY <1>3, EmptyChain
  <2>8. FreeEntries \in Seq(DOMAIN AllocatedEntries) /\ FreeEntries # <<>>
    <3>1. \A k \in DOMAIN batch : batch[k] \in (n + 1)..(n + m)
        BY <2>4 DEF ToSet
    <3>2. (n + 1)..(n + m) \subseteq DOMAIN AllocatedEntries
        BY <2>6
    <3>3. batch \in Seq(DOMAIN AllocatedEntries)
      <4>1. \A k \in DOMAIN batch : batch[k] \in DOMAIN AllocatedEntries
          BY <3>1, <3>2
      <4>2. batch \in [1..Len(batch) -> DOMAIN AllocatedEntries] /\ Len(batch) \in Nat
          BY <2>4, <4>1
      <4> QED BY <4>2
    <3>4. batch # <<>>
        BY <1>1, <2>4
    <3> QED BY <2>3, <3>3, <3>4
  <2> QED BY <1>1, <2>3, <2>4, <2>5, <2>6, <2>7, <2>8
<1> QED BY <1>2, <1>3

LEMMA PagesWithAt ==
    ASSUME TypeOK, ClustersAreFound, NEW addr \in Addr
    PROVE  PagesWith(addr)[PageOf(addr)][Block(addr)] = Chain(addr)
<1>1. Block(addr) \in Blocks
    BY PageOfType
<1>2. PagesWith(addr)[PageOf(addr)] = IF PageOf(addr) \in DOMAIN pages THEN pages[PageOf(addr)] ELSE EmptyPage
    BY DEF PagesWith
<1> QED BY <1>1, <1>2 DEF Chain, EmptyPage

(* An insertion at an address that has no entry. *)
LEMMA InsertNewStep ==
    ASSUME MapInv, NEW addr \in Addr, NEW size \in Size, NEW hash \in Hash \union {NoHash},
           GetCluster(addr), InsertNew(addr, size, hash)
    PROVE  LET h == Head(FreeEntries)
               chain == <<h>> \o Chain(addr)
           IN  /\ PlaceStep(addr, chain)
               /\ ToSet(chain) = {h} \union ToSet(Chain(addr)) /\ IsInjective(chain)
               /\ h \in DOMAIN entries' /\ h \notin Chained
               /\ entries' \in Seq(Entry) /\ DOMAIN entries \subseteq DOMAIN entries'
               /\ Len(entries') = Len(entries) + One(free_entries = <<>>) * EntryBulkAllocCount
               /\ \E entry \in Entry : entries'[h] = Store(entry, addr, size, hash)
               /\ \A e \in DOMAIN entries : e # h => entries'[e] = entries[e]
               /\ \A i, j \in DOMAIN chain : entries'[chain[i]].offset = entries'[chain[j]].offset => i = j
               /\ free_entries' \in Seq(DOMAIN entries') /\ IsInjective(free_entries')
               /\ ToSet(free_entries') \intersect ToSet(chain) = {}
               /\ ToSet(free_entries') \union ToSet(chain) =
                     ToSet(free_entries) \union ToSet(Chain(addr)) \union (DOMAIN entries' \ DOMAIN entries)
<1> DEFINE free == FreeEntries
           all == AllocatedEntries
           h == Head(free)
           old == Chain(addr)
           chain == <<h>> \o old
<1>1. TypeOK /\ ClustersAreFound /\ OffsetsOccurOnce /\ EntriesHaveOnePlace
    BY DEF MapInv
<1>2. /\ all \in Seq(Entry)
      /\ Len(all) = Len(entries) + One(free_entries = <<>>) * EntryBulkAllocCount
      /\ DOMAIN entries \subseteq DOMAIN all
      /\ \A e \in DOMAIN entries : all[e] = entries[e]
      /\ free \in Seq(DOMAIN all) /\ free # <<>> /\ IsInjective(free)
      /\ ToSet(free) = ToSet(free_entries) \union (DOMAIN all \ DOMAIN entries)
    BY <1>1, FreeEntriesAre
<1>3. /\ old \in Seq(DOMAIN entries) /\ IsInjective(old) /\ ToSet(old) \subseteq Chained
      /\ \A i, j \in DOMAIN old : entries[old[i]].offset = entries[old[j]].offset => i = j
      /\ ToSet(free_entries) \intersect ToSet(old) = {}
    BY <1>1, ChainIsSound
<1>4. \A i \in DOMAIN old : entries[old[i]].offset # Offset(addr)
    BY <1>1, EntryIsFound DEF InsertNew
<1>5. PagesWith(addr)[PageOf(addr)][Block(addr)] = old
    BY <1>1, PagesWithAt
<1>6. /\ pages' = [PagesWith(addr) EXCEPT ![PageOf(addr)][Block(addr)] = chain]
      /\ entries' = [all EXCEPT ![h] = Store(all[h], addr, size, hash)]
      /\ free_entries' = Tail(free)
  <2>1. pages' = [PagesWith(addr) EXCEPT
                     ![PageOf(addr)][Block(addr)] = <<h>> \o PagesWith(addr)[PageOf(addr)][Block(addr)]]
      BY DEF InsertNew
  <2> HIDE DEF h, old, free, all
  <2> QED BY <1>5, <2>1 DEF InsertNew, h, old, free, all
<1> HIDE DEF free, all, old
<1>7. /\ h \in DOMAIN all /\ Tail(free) \in Seq(DOMAIN all) /\ IsInjective(Tail(free))
      /\ h \in ToSet(free) /\ ToSet(Tail(free)) = ToSet(free) \ {h}
    BY <1>2, TakeHead
<1> HIDE DEF h
<1>8. Chained \subseteq DOMAIN entries /\ ToSet(free_entries) \intersect Chained = {}
    BY <1>1 DEF EntriesHaveOnePlace
<1>9. h \notin Chained /\ h \notin ToSet(old)
    BY <1>2, <1>3, <1>7, <1>8
<1>10. all[h] \in Entry
    BY <1>2, <1>7
<1>11. Store(all[h], addr, size, hash) \in Entry /\ Store(all[h], addr, size, hash).offset = Offset(addr)
    BY <1>10, StoreIs
<1>12. /\ entries' \in Seq(Entry) /\ Len(entries') = Len(all) /\ DOMAIN entries' = DOMAIN all
       /\ entries'[h] = Store(all[h], addr, size, hash)
       /\ \A e \in DOMAIN all : e # h => entries'[e] = all[e]
    BY <1>2, <1>6, <1>7, <1>11
<1>13. \A e \in DOMAIN entries : e # h => entries'[e] = entries[e]
    BY <1>2, <1>12
<1>14. old \in Seq(DOMAIN all)
    BY <1>2, <1>3
<1>15. /\ chain \in Seq(DOMAIN all) /\ ToSet(chain) = {h} \union ToSet(old) /\ chain[1] = h
       /\ \A i \in DOMAIN chain : i = 1 \/ (i - 1 \in DOMAIN old /\ chain[i] = old[i - 1])
       /\ IsInjective(chain)
    BY <1>3, <1>7, <1>9, <1>14, InFront
<1> HIDE DEF chain
<1>16. PlaceStep(addr, chain)
  <2>1. pages' = [p \in DOMAIN pages \union {PageOf(addr)} |-> [block \in Blocks |->
                        IF p = PageOf(addr) /\ block = Block(addr) THEN chain
                        ELSE IF p \in DOMAIN pages THEN pages[p][block]
                        ELSE <<>>]]
      BY <1>1, <1>6, PagesStep
  <2>2. chain \in Seq(DOMAIN entries') /\ \A e \in Chained : entries'[e].offset = entries[e].offset
      BY <1>8, <1>9, <1>12, <1>13, <1>15
  <2> QED BY <1>2, <1>12, <2>1, <2>2 DEF PlaceStep
<1>17. \A i, j \in DOMAIN chain : entries'[chain[i]].offset = entries'[chain[j]].offset => i = j
  <2>1. entries'[chain[1]].offset = Offset(addr)
      BY <1>11, <1>12, <1>15
  <2>2. \A i \in DOMAIN old : entries'[old[i]].offset = entries[old[i]].offset
      BY <1>3, <1>8, <1>9, <1>13 DEF ToSet
  <2>3. \A i \in DOMAIN chain : i \in Nat
      BY <1>15
  <2> QED BY <1>3, <1>4, <1>15, <2>1, <2>2, <2>3
<1>18. /\ free_entries' \in Seq(DOMAIN entries') /\ IsInjective(free_entries')
       /\ ToSet(free_entries') \intersect ToSet(chain) = {}
  <2>1. ToSet(free) \intersect ToSet(old) = {}
      BY <1>2, <1>3, <1>8
  <2> QED BY <1>6, <1>7, <1>12, <1>15, <2>1
<1>19. ToSet(free_entries') \union ToSet(chain) =
          ToSet(free_entries) \union ToSet(old) \union (DOMAIN entries' \ DOMAIN entries)
    BY <1>2, <1>6, <1>7, <1>12, <1>15
<1> QED BY <1>2, <1>7, <1>9, <1>10, <1>12, <1>13, <1>15, <1>16, <1>17, <1>18, <1>19 DEF chain, h, old, free, all

LEMMA InsertNewKeepsMapInv ==
    ASSUME MapInv, NEW addr \in Addr, NEW size \in Size, NEW hash \in Hash \union {NoHash},
           GetCluster(addr), InsertNew(addr, size, hash), num_entries' = num_entries + 1
    PROVE  /\ MapInv'
           /\ \A a, e : <<a, e>> \in Stored' <=> <<a, e>> \in Stored \/ (a = addr /\ e = Head(FreeEntries))
<1> DEFINE h == Head(FreeEntries)
           old == Chain(addr)
           chain == <<h>> \o old
           batches == One(free_entries = <<>>)
<1>1. /\ TypeOK /\ ClustersAreFound /\ OffsetsOccurOnce /\ EntriesHaveOnePlace
      /\ IsFiniteSet(Subclusters) /\ StatsTellStructure
      /\ IsFiniteSet(StoredAddresses) /\ SizeCoversMap
    BY DEF MapInv
<1>2. /\ PlaceStep(addr, chain)
      /\ ToSet(chain) = {h} \union ToSet(old) /\ IsInjective(chain)
      /\ h \in DOMAIN entries' /\ h \notin Chained
      /\ Len(entries') = Len(entries) + batches * EntryBulkAllocCount
      /\ \A i, j \in DOMAIN chain : entries'[chain[i]].offset = entries'[chain[j]].offset => i = j
      /\ free_entries' \in Seq(DOMAIN entries') /\ IsInjective(free_entries')
      /\ ToSet(free_entries') \intersect ToSet(chain) = {}
      /\ ToSet(free_entries') \union ToSet(chain) =
            ToSet(free_entries) \union ToSet(Chain(addr)) \union (DOMAIN entries' \ DOMAIN entries)
    BY InsertNewStep
<1>3. \E entry \in Entry : entries'[h] = Store(entry, addr, size, hash)
    BY InsertNewStep
<1>4. entries'[h].offset = Offset(addr)
    BY <1>3, StoreIs
<1>5. /\ old \in Seq(DOMAIN entries) /\ ToSet(old) \subseteq Chained
      /\ \A i, j \in DOMAIN old : entries[old[i]].offset = entries[old[j]].offset => i = j
    BY <1>1, ChainIsSound
<1>6. New(addr, batches, Len(old))
    BY DEF InsertNew
<1>7. batches \in {0, 1}
    BY DEF One
<1> HIDE DEF h, old, chain, batches
<1>8. Len(old) \in Nat /\ Len(old) <= BlockSize
  <2>1. Len(old) <= BlockSize
      BY <1>1, <1>5, ChainIsShort DEF TypeOK
  <2> QED BY <1>5, <2>1
<1>9. num_entries \in Nat /\ num_entries' \in Nat
    BY <1>1 DEF TypeOK
<1>10. TypeOK' /\ ClustersAreFound'
    BY <1>1, <1>2, <1>6, <1>7, <1>8, <1>9, PlaceStepKeepsType
<1>11. OffsetsOccurOnce'
    BY <1>1, <1>2, PlaceStepOffsets
<1>12. EntriesHaveOnePlace'
    BY <1>1, <1>2, PlaceStepKeepsPlaces
<1>13. StatsTellStructure' /\ IsFiniteSet(Subclusters')
    BY <1>1, <1>2, <1>6, <1>7, <1>8, <1>10, <1>11, PlaceStepKeepsStats
<1>14. \A a, e : <<a, e>> \in Stored' <=> <<a, e>> \in Stored \/ (a = addr /\ e = h)
  <2>1. \A a, e : <<a, e>> \in Stored' <=>
               \/ e \in ToSet(chain) /\ a = NearbyAddress(addr, entries'[e].offset)
               \/ <<a, e>> \in Stored /\ e \notin ToSet(old)
      BY <1>1, <1>2, PlaceStepStored DEF old
  <2>2. \A e \in ToSet(old) :
           /\ entries'[e].offset = entries[e].offset
           /\ \A a : <<a, e>> \in Stored <=> a = NearbyAddress(addr, entries[e].offset)
      BY <1>1, <1>2, <1>5, StoredInChain DEF old, PlaceStep
  <2>3. NearbyAddress(addr, entries'[h].offset) = addr
      BY <1>1, <1>4, NearbyIs
  <2> QED BY <1>2, <2>1, <2>2, <2>3
<1>15. IsFiniteSet(StoredAddresses') /\ SizeCoversMap'
  <2>1. StoredAddresses' = StoredAddresses \union {addr}
      BY <1>14, StoredAddressesAre
  <2> QED BY <1>1, <2>1, OneMoreStoredSize
<1> QED BY <1>10, <1>11, <1>12, <1>13, <1>14, <1>15 DEF MapInv, h

-----------------------------------------------------------------------------
(* A removal that finds nothing, and one that does. *)
LEMMA MissKeepsMapInv ==
    ASSUME MapInv, NEW addr \in Addr, FindAndRemove(addr), FoundAt(addr) = 0
    PROVE  MapInv' /\ \A a, e : <<a, e>> \in Stored' <=> <<a, e>> \in Stored
<1> DEFINE chain == Chain(addr)
<1>1. /\ TypeOK /\ ClustersAreFound /\ OffsetsOccurOnce /\ EntriesHaveOnePlace
      /\ IsFiniteSet(Subclusters) /\ StatsTellStructure
      /\ IsFiniteSet(StoredAddresses) /\ SizeCoversMap
    BY DEF MapInv
<1>2. /\ GetCluster(addr) /\ New(addr, 0, 0) /\ entries' = entries /\ free_entries' = free_entries
      /\ pages' = PagesWith(addr) /\ num_entries' = num_entries
  <2>1. num_entries' = CountWithout(FoundAt(addr) # 0)
      BY DEF FindAndRemove
  <2>2. num_entries' = num_entries
      BY <2>1 DEF CountWithout
  <2> QED BY <2>2 DEF FindAndRemove
<1>3. /\ chain \in Seq(DOMAIN entries) /\ IsInjective(chain) /\ ToSet(chain) \subseteq Chained
      /\ \A i, j \in DOMAIN chain : entries[chain[i]].offset = entries[chain[j]].offset => i = j
      /\ ToSet(free_entries) \intersect ToSet(chain) = {}
      /\ free_entries \in Seq(DOMAIN entries) /\ IsInjective(free_entries)
    BY <1>1, ChainIsSound
<1>4. entries \in Seq(Entry) /\ num_entries \in Nat
    BY <1>1 DEF TypeOK
<1>5. PlaceStep(addr, chain)
  <2>1. pages' = [p \in DOMAIN pages \union {PageOf(addr)} |-> [block \in Blocks |->
                        IF p = PageOf(addr) /\ block = Block(addr) THEN Chain(addr)
                        ELSE IF p \in DOMAIN pages THEN pages[p][block]
                        ELSE <<>>]]
      BY <1>1, <1>2, PagesWithStep
  <2> QED BY <1>2, <1>3, <1>4, <2>1 DEF PlaceStep
<1> HIDE DEF chain
<1>6. 0 <= BlockSize
    BY Sizes
<1>7. TypeOK' /\ ClustersAreFound'
    BY <1>1, <1>2, <1>3, <1>4, <1>5, PlaceStepKeepsType
<1>8. OffsetsOccurOnce'
  <2>1. \A i, j \in DOMAIN chain : entries'[chain[i]].offset = entries'[chain[j]].offset => i = j
      BY <1>2, <1>3
  <2> QED BY <1>1, <1>5, <2>1, PlaceStepOffsets
<1>9. EntriesHaveOnePlace'
  <2>1. /\ IsInjective(free_entries') /\ ToSet(free_entries') \intersect ToSet(chain) = {}
        /\ ToSet(free_entries') \union ToSet(chain) =
               ToSet(free_entries) \union ToSet(Chain(addr)) \union (DOMAIN entries' \ DOMAIN entries)
      BY <1>2, <1>3 DEF chain
  <2> QED BY <1>1, <1>3, <1>5, <2>1, PlaceStepKeepsPlaces
<1>10. StatsTellStructure' /\ IsFiniteSet(Subclusters')
  <2>1. Len(entries') = Len(entries) + 0 * EntryBulkAllocCount
    <3>1. Len(entries) \in Nat /\ 0 * EntryBulkAllocCount = 0
        BY <1>4, Sizes
    <3> QED BY <1>2, <3>1
  <2> QED BY <1>1, <1>2, <1>5, <1>6, <1>7, <1>8, <2>1, PlaceStepKeepsStats
<1>11. \A a, e : <<a, e>> \in Stored' <=> <<a, e>> \in Stored
  <2>1. \A a, e : <<a, e>> \in Stored' <=>
               \/ e \in ToSet(chain) /\ a = NearbyAddress(addr, entries'[e].offset)
               \/ <<a, e>> \in Stored /\ e \notin ToSet(chain)
      BY <1>1, <1>5, PlaceStepStored DEF chain
  <2>2. \A e \in ToSet(chain) : \A a : <<a, e>> \in Stored <=> a = NearbyAddress(addr, entries[e].offset)
      BY <1>1, StoredInChain DEF chain
  <2> QED BY <1>2, <2>1, <2>2
<1>12. IsFiniteSet(StoredAddresses') /\ SizeCoversMap'
    BY <1>1, <1>2, <1>4, <1>11, SameStoredSize
<1> QED BY <1>7, <1>8, <1>9, <1>10, <1>11, <1>12 DEF MapInv

LEMMA RemoveStep ==
    ASSUME MapInv, NEW addr \in Addr, FindAndRemove(addr), FoundAt(addr) # 0
    PROVE  LET old == Chain(addr)
               h == old[FoundAt(addr)]
               chain == RemoveAt(old, FoundAt(addr))
           IN  /\ PlaceStep(addr, chain) /\ New(addr, 0, 0)
               /\ h \in ToSet(old) /\ ToSet(chain) = ToSet(old) \ {h} /\ IsInjective(chain)
               /\ entries[h].offset = Offset(addr)
               /\ entries' = entries /\ num_entries' = num_entries - 1 /\ result' = entries[h]
               /\ \A i, j \in DOMAIN chain : entries'[chain[i]].offset = entries'[chain[j]].offset => i = j
               /\ free_entries' \in Seq(DOMAIN entries') /\ IsInjective(free_entries')
               /\ ToSet(free_entries') = ToSet(free_entries) \union {h}
<1> DEFINE old == Chain(addr)
           k == FoundAt(addr)
           h == old[k]
           chain == RemoveAt(old, k)
<1>1. TypeOK /\ ClustersAreFound /\ OffsetsOccurOnce /\ EntriesHaveOnePlace
    BY DEF MapInv
<1>2. /\ old \in Seq(DOMAIN entries) /\ IsInjective(old) /\ ToSet(old) \subseteq Chained
      /\ \A i, j \in DOMAIN old : entries[old[i]].offset = entries[old[j]].offset => i = j
      /\ ToSet(free_entries) \intersect ToSet(old) = {}
      /\ free_entries \in Seq(DOMAIN entries) /\ IsInjective(free_entries)
    BY <1>1, ChainIsSound
<1>3. k \in DOMAIN old /\ entries[h].offset = Offset(addr)
    BY <1>1, EntryIsFound
<1>4. /\ GetCluster(addr) /\ New(addr, 0, 0) /\ entries' = entries /\ result' = entries[h]
      /\ pages' = [PagesWith(addr) EXCEPT ![PageOf(addr)][Block(addr)] = chain]
      /\ free_entries' = <<h>> \o free_entries
  <2>1. PagesWith(addr)[PageOf(addr)][Block(addr)] = old
      BY <1>1, PagesWithAt
  <2>2. pages' = [PagesWith(addr) EXCEPT ![PageOf(addr)][Block(addr)] =
                     RemoveAt(PagesWith(addr)[PageOf(addr)][Block(addr)], k)]
      BY DEF FindAndRemove, ChainWithout
  <2>3. pages' = [PagesWith(addr) EXCEPT ![PageOf(addr)][Block(addr)] = chain]
      BY <2>1, <2>2
  <2> QED BY <2>3 DEF FindAndRemove
<1>5. num_entries' = num_entries - 1
  <2>1. num_entries' = CountWithout(k # 0)
      BY DEF FindAndRemove
  <2> QED BY <2>1 DEF CountWithout
<1> HIDE DEF old, k, h
<1>6. h \in ToSet(old) /\ h \in DOMAIN entries
    BY <1>2, <1>3 DEF ToSet, h
<1>7. /\ chain \in Seq(DOMAIN entries)
      /\ \A i \in DOMAIN chain : i \in Nat /\
            IF i < k THEN i \in DOMAIN old /\ chain[i] = old[i]
            ELSE i + 1 \in DOMAIN old /\ chain[i] = old[i + 1]
      /\ IsInjective(chain) /\ ToSet(chain) = ToSet(old) \ {h}
    BY <1>2, <1>3, TakeAt DEF h
<1> HIDE DEF chain
<1>8. PlaceStep(addr, chain)
  <2>1. pages' = [p \in DOMAIN pages \union {PageOf(addr)} |-> [block \in Blocks |->
                        IF p = PageOf(addr) /\ block = Block(addr) THEN chain
                        ELSE IF p \in DOMAIN pages THEN pages[p][block]
                        ELSE <<>>]]
      BY <1>1, <1>4, PagesStep
  <2>2. entries \in Seq(Entry)
      BY <1>1 DEF TypeOK
  <2> QED BY <1>4, <1>7, <2>1, <2>2 DEF PlaceStep
<1>9. \A i, j \in DOMAIN chain : entries'[chain[i]].offset = entries'[chain[j]].offset => i = j
  <2>1. k \in Nat
      BY <1>2, <1>3
  <2> SUFFICES ASSUME NEW i \in DOMAIN chain, NEW j \in DOMAIN chain,
                      entries[chain[i]].offset = entries[chain[j]].offset
               PROVE  i = j
      BY <1>4
  <2>2. PICK x \in DOMAIN old : chain[i] = old[x] /\ x = IF i < k THEN i ELSE i + 1
      BY <1>7
  <2>3. PICK y \in DOMAIN old : chain[j] = old[y] /\ y = IF j < k THEN j ELSE j + 1
      BY <1>7
  <2>4. x = y
      BY <1>2, <2>2, <2>3
  <2> QED BY <1>7, <2>1, <2>2, <2>3, <2>4
<1>10. /\ free_entries' \in Seq(DOMAIN entries') /\ IsInjective(free_entries')
       /\ ToSet(free_entries') = ToSet(free_entries) \union {h}
  <2>1. h \notin ToSet(free_entries)
      BY <1>2, <1>6
  <2> DEFINE T == DOMAIN entries
             free == <<h>> \o free_entries
  <2>2. free \in Seq(T) /\ ToSet(free) = {h} \union ToSet(free_entries) /\ IsInjective(free)
    <3>1. free_entries \in Seq(T) /\ h \in T /\ IsInjective(free_entries)
        BY <1>2, <1>6
    <3> HIDE DEF T
    <3> QED BY <2>1, <3>1, InFront
  <2>3. free_entries' = free /\ DOMAIN entries' = T
      BY <1>4
  <2> HIDE DEF T, free
  <2> QED BY <2>2, <2>3
<1> QED BY <1>3, <1>4, <1>5, <1>6, <1>7, <1>8, <1>9, <1>10 DEF chain, h, k, old

LEMMA RemoveKeepsMapInv ==
    ASSUME MapInv, NEW addr \in Addr, FindAndRemove(addr), FoundAt(addr) # 0
    PROVE  MapInv' /\ \A a, e : <<a, e>> \in Stored' <=> <<a, e>> \in Stored /\ a # addr
<1> DEFINE old == Chain(addr)
           h == old[FoundAt(addr)]
           chain == RemoveAt(old, FoundAt(addr))
<1>1. /\ TypeOK /\ ClustersAreFound /\ OffsetsOccurOnce /\ EntriesHaveOnePlace
      /\ IsFiniteSet(Subclusters) /\ StatsTellStructure
      /\ IsFiniteSet(StoredAddresses) /\ SizeCoversMap
    BY DEF MapInv
<1>2. /\ PlaceStep(addr, chain) /\ New(addr, 0, 0)
      /\ h \in ToSet(old) /\ ToSet(chain) = ToSet(old) \ {h} /\ IsInjective(chain)
      /\ entries[h].offset = Offset(addr)
      /\ entries' = entries /\ num_entries' = num_entries - 1
      /\ \A i, j \in DOMAIN chain : entries'[chain[i]].offset = entries'[chain[j]].offset => i = j
      /\ free_entries' \in Seq(DOMAIN entries') /\ IsInjective(free_entries')
      /\ ToSet(free_entries') = ToSet(free_entries) \union {h}
    BY RemoveStep
<1>3. \A e : <<addr, e>> \in Stored <=> e = h
    BY <1>1, StoredIsFound
<1>4. ToSet(free_entries) \intersect ToSet(old) = {}
    BY <1>1, ChainIsSound
<1> HIDE DEF old, h, chain
<1>5. \A a, e : <<a, e>> \in Stored' <=> <<a, e>> \in Stored /\ a # addr
  <2>1. \A a, e : <<a, e>> \in Stored' <=>
               \/ e \in ToSet(chain) /\ a = NearbyAddress(addr, entries'[e].offset)
               \/ <<a, e>> \in Stored /\ e \notin ToSet(old)
      BY <1>1, <1>2, PlaceStepStored DEF old
  <2>2. \A e \in ToSet(old) : \A a : <<a, e>> \in Stored <=> a = NearbyAddress(addr, entries[e].offset)
      BY <1>1, StoredInChain DEF old
  <2>3. \A a, e : <<a, e>> \in Stored' <=> <<a, e>> \in Stored /\ e # h
      BY <1>2, <2>1, <2>2
  <2>4. \A a : <<a, h>> \in Stored => a = addr
      BY <1>1, <1>2, <2>2, NearbyIs
  <2> QED BY <1>3, <2>3, <2>4
<1>6. IsFiniteSet(StoredAddresses') /\ SizeCoversMap' /\ num_entries' \in Nat
  <2>1. addr \in StoredAddresses /\ StoredAddresses' = StoredAddresses \ {addr}
      BY <1>3, <1>5, StoredAddressesAre
  <2> QED BY <1>1, <1>2, <2>1, OneLessStoredSize
<1>7. TypeOK' /\ ClustersAreFound'
    BY <1>1, <1>2, <1>6, PlaceStepKeepsType
<1>8. OffsetsOccurOnce'
    BY <1>1, <1>2, PlaceStepOffsets
<1>9. EntriesHaveOnePlace'
  <2>1. /\ ToSet(free_entries') \intersect ToSet(chain) = {}
        /\ ToSet(free_entries') \union ToSet(chain) =
               ToSet(free_entries) \union ToSet(Chain(addr)) \union (DOMAIN entries' \ DOMAIN entries)
      BY <1>2, <1>4 DEF old
  <2> QED BY <1>1, <1>2, <2>1, PlaceStepKeepsPlaces
<1>10. StatsTellStructure' /\ IsFiniteSet(Subclusters')
  <2>1. Len(entries') = Len(entries) + 0 * EntryBulkAllocCount
    <3>1. entries \in Seq(Entry)
        BY <1>1 DEF TypeOK
    <3>2. Len(entries) \in Nat /\ 0 * EntryBulkAllocCount = 0
        BY <3>1, Sizes
    <3> QED BY <1>2, <3>2
  <2>2. 0 <= BlockSize
      BY Sizes
  <2> QED BY <1>1, <1>2, <1>7, <1>8, <2>1, <2>2, PlaceStepKeepsStats
<1> QED BY <1>5, <1>6, <1>7, <1>8, <1>9, <1>10 DEF MapInv

-----------------------------------------------------------------------------
LEMMA NextMapInv == MapInv /\ [Next]_vars => MapInv'
<1> SUFFICES ASSUME MapInv, [Next]_vars PROVE MapInv'
    OBVIOUS
<1>1. ASSUME NEW addr \in Addr, NEW size \in Size, NEW hash \in Hash \union {NoHash},
             Insert(addr, size, hash)
      PROVE  MapInv'
  <2>1. CASE Overwrite(addr, size, hash)
      BY <1>1, <2>1, OverwriteKeepsMapInv DEF Insert
  <2>2. CASE InsertNew(addr, size, hash)
      BY <1>1, <2>2, InsertNewKeepsMapInv DEF Insert
  <2> QED BY <1>1, <2>1, <2>2 DEF Insert
<1>2. ASSUME NEW addr \in Addr, FindAndRemove(addr) PROVE MapInv'
    BY <1>2, MissKeepsMapInv, RemoveKeepsMapInv
<1>3. CASE Destructor
    BY <1>3, DestructorKeepsMapInv
<1>4. CASE UNCHANGED vars
  <2>1. Stored' = Stored /\ Chained' = Chained
      BY <1>4 DEF Stored, StoredIn, AddressAt, Chained, vars, structure
  <2>2. TypeOK' /\ ClustersAreFound' /\ OffsetsOccurOnce' /\ IsFiniteSet(Subclusters')
      BY <1>4 DEF MapInv, TypeOK, ClustersAreFound, OffsetsOccurOnce, Subclusters, vars, structure, memory
  <2>3. EntriesHaveOnePlace'
      BY <1>4, <2>1 DEF MapInv, EntriesHaveOnePlace, vars, structure
  <2>4. StatsTellStructure'
      BY <1>4 DEF MapInv, StatsTellStructure, vars, structure, memory
  <2>5. IsFiniteSet(StoredAddresses') /\ SizeCoversMap'
      BY <1>4, <2>1 DEF MapInv, SizeCoversMap, StoredAddresses, vars, structure
  <2> QED BY <2>2, <2>3, <2>4, <2>5 DEF MapInv
<1> QED BY <1>1, <1>2, <1>3, <1>4 DEF Next

LEMMA AlwaysMapInv == Spec => []MapInv
<1>1. Init => MapInv
    BY InitMapInv
<1>2. MapInv /\ [Next]_vars => MapInv'
    BY NextMapInv
<1> QED BY <1>1, <1>2, PTL DEF Spec

(***************************************************************************)
(* Every entry ever allocated is free or in one chain, once, whatever the  *)
(* sizes of blocks, batches and tables (compact_address_map.cc, lines 96   *)
(* to 134).                                                                *)
(***************************************************************************)
THEOREM EntriesAlwaysHaveOnePlace == Spec => []EntriesHaveOnePlace
<1>1. MapInv => EntriesHaveOnePlace
    BY DEF MapInv
<1> QED BY <1>1, AlwaysMapInv, PTL

(***************************************************************************)
(* stats() tells what there is, the destructor finds every object in its   *)
(* list, and no walk takes more steps than a block has addresses           *)
(* (compact_address_map.cc, lines 13 to 20 and 62 to 91).                  *)
(***************************************************************************)
THEOREM StatsAlwaysTellStructure == Spec => []StatsTellStructure
<1>1. MapInv => StatsTellStructure
    BY DEF MapInv
<1> QED BY <1>1, AlwaysMapInv, PTL

(***************************************************************************)
(* size() never falls below the number of addresses the map holds, though  *)
(* it counts an overwritten entry again (compact_address_map.cc, line 90). *)
(***************************************************************************)
THEOREM SizeAlwaysCoversMap == Spec => []SizeCoversMap
<1>1. MapInv => SizeCoversMap
    BY DEF MapInv
<1> QED BY <1>1, AlwaysMapInv, PTL

-----------------------------------------------------------------------------
(* The map that a set of stored pairs stands for. *)
MapOf(stored, es) ==
    [addr \in Addr |->
        IF \E s \in stored : s[1] = addr
        THEN Contents(es[(CHOOSE s \in stored : s[1] = addr)[2]])
        ELSE NotFound]

LEMMA MapOfIs ==
    ASSUME NEW stored, NEW es, \A x \in stored : x = <<x[1], x[2]>>, NEW addr \in Addr
    PROVE  /\ (\A e : <<addr, e>> \notin stored) => MapOf(stored, es)[addr] = NotFound
           /\ \A e : <<addr, e>> \in stored /\ (\A f : <<addr, f>> \in stored => f = e) =>
                 MapOf(stored, es)[addr] = Contents(es[e])
<1>1. ASSUME \A e : <<addr, e>> \notin stored PROVE MapOf(stored, es)[addr] = NotFound
  <2>1. ~ \E s \in stored : s[1] = addr
    <3> SUFFICES ASSUME NEW s \in stored, s[1] = addr PROVE FALSE
        OBVIOUS
    <3>1. s = <<addr, s[2]>>
        OBVIOUS
    <3> QED BY <1>1, <3>1
  <2> QED BY <2>1 DEF MapOf
<1>2. ASSUME NEW e, <<addr, e>> \in stored, \A f : <<addr, f>> \in stored => f = e
      PROVE  MapOf(stored, es)[addr] = Contents(es[e])
  <2> DEFINE s == CHOOSE x \in stored : x[1] = addr
  <2>1. <<addr, e>>[1] = addr
      OBVIOUS
  <2>2. \E x \in stored : x[1] = addr
      BY <1>2, <2>1
  <2>3. s \in stored /\ s[1] = addr
      BY <2>2
  <2>4. MapOf(stored, es)[addr] = Contents(es[s[2]])
      BY <2>2 DEF MapOf
  <2> HIDE DEF s
  <2>5. s = <<addr, s[2]>>
      BY <2>3
  <2>6. s[2] = e
      BY <1>2, <2>3, <2>5
  <2> QED BY <2>4, <2>6
<1> QED BY <1>1, <1>2

LEMMA StoredPairs ==
    (\A x \in Stored : x = <<x[1], x[2]>>) /\ (\A x \in Stored' : x = <<x[1], x[2]>>)
<1>1. \A x \in Stored : x = <<x[1], x[2]>>
    BY StoredIs
<1>2. \A p, block : \A x \in StoredIn(p, block)' : x = <<x[1], x[2]>>
    BY DEF StoredIn
<1>3. \A x \in Stored' : \E p, block : x \in StoredIn(p, block)'
    BY DEF Stored
<1> QED BY <1>1, <1>2, <1>3

LEMMA StoredMapIs == StoredMap = MapOf(Stored, entries) /\ StoredMap' = MapOf(Stored', entries')
    BY DEF StoredMap, MapOf

LEMMA StoredMapDomain ==
    /\ DOMAIN StoredMap = Addr /\ StoredMap = [a \in Addr |-> StoredMap[a]]
    /\ DOMAIN StoredMap' = Addr /\ StoredMap' = [a \in Addr |-> StoredMap'[a]]
    BY DEF StoredMap

(* What the map holds for an address, before a step and after it. *)
LEMMA MapHolds ==
    ASSUME MapInv, NEW addr \in Addr
    PROVE  /\ FoundAt(addr) = 0 => StoredMap[addr] = NotFound
           /\ FoundAt(addr) # 0 => StoredMap[addr] = Contents(entries[Chain(addr)[FoundAt(addr)]])
<1>1. /\ FoundAt(addr) = 0 => \A e : <<addr, e>> \notin Stored
      /\ FoundAt(addr) # 0 => \A e : <<addr, e>> \in Stored <=> e = Chain(addr)[FoundAt(addr)]
    BY StoredIsFound DEF MapInv
<1>2. /\ (\A e : <<addr, e>> \notin Stored) => StoredMap[addr] = NotFound
      /\ \A e : <<addr, e>> \in Stored /\ (\A f : <<addr, f>> \in Stored => f = e) =>
            StoredMap[addr] = Contents(entries[e])
    BY StoredPairs, StoredMapIs, MapOfIs
<1> QED BY <1>1, <1>2

LEMMA MapGains ==
    ASSUME NEW addr \in Addr, NEW h, <<addr, h>> \in Stored', \A e : <<addr, e>> \in Stored' => e = h
    PROVE  StoredMap'[addr] = Contents(entries'[h])
    BY StoredPairs, StoredMapIs, MapOfIs

LEMMA MapLoses ==
    ASSUME NEW addr \in Addr, \A e : <<addr, e>> \notin Stored'
    PROVE  StoredMap'[addr] = NotFound
    BY StoredPairs, StoredMapIs, MapOfIs

LEMMA MapKeeps ==
    ASSUME MapInv, NEW a \in Addr,
           \A e : <<a, e>> \in Stored' <=> <<a, e>> \in Stored,
           \A e : <<a, e>> \in Stored => entries'[e] = entries[e]
    PROVE  StoredMap'[a] = StoredMap[a]
<1>1. CASE FoundAt(a) = 0
  <2>1. \A e : <<a, e>> \notin Stored
      BY <1>1, StoredIsFound DEF MapInv
  <2> QED BY <1>1, <2>1, MapHolds, MapLoses
<1>2. CASE FoundAt(a) # 0
  <2> DEFINE h == Chain(a)[FoundAt(a)]
  <2>1. \A e : <<a, e>> \in Stored <=> e = h
      BY <1>2, StoredIsFound DEF MapInv
  <2>2. StoredMap[a] = Contents(entries[h])
      BY <1>2, MapHolds
  <2> HIDE DEF h
  <2>3. StoredMap'[a] = Contents(entries'[h])
      BY <2>1, MapGains
  <2> QED BY <2>1, <2>2, <2>3
<1> QED BY <1>1, <1>2

-----------------------------------------------------------------------------
(* Each operation is that of the abstract map. *)
LEMMA InsertImplements ==
    ASSUME MapInv, NEW addr \in Addr, NEW size \in Size, NEW hash \in Hash \union {NoHash},
           Insert(addr, size, hash)
    PROVE  AbstractMap!Insert(addr, size, hash)
<1> DEFINE new == [size |-> size % SizeWord, hash |-> hash]
<1>1. TypeOK /\ ClustersAreFound /\ OffsetsOccurOnce /\ EntriesHaveOnePlace
    BY DEF MapInv
<1>2. Chained \subseteq DOMAIN entries
    BY <1>1 DEF EntriesHaveOnePlace
<1>3. GetCluster(addr) /\ num_entries' = num_entries + 1
    BY DEF Insert
<1>4. \A a, e : <<a, e>> \in Stored => e \in Chained
    BY StoredIs, ChainedIs
<1>5. ASSUME Overwrite(addr, size, hash)
      PROVE  StoredMap'[addr] = new /\ \A a \in Addr : a # addr => StoredMap'[a] = StoredMap[a]
  <2> DEFINE h == Chain(addr)[FoundAt(addr)]
  <2>1. \A a, e : <<a, e>> \in Stored' <=> <<a, e>> \in Stored
      BY <1>3, <1>5, OverwriteKeepsMapInv
  <2>2. /\ h \in ToSet(Chain(addr)) /\ entries'[h] = Store(entries[h], addr, size, hash)
        /\ \A e \in DOMAIN entries : e # h => entries'[e] = entries[e]
      BY <1>3, <1>5, OverwriteStep
  <2>3. entries[h].offset = Offset(addr) /\ \A e : <<addr, e>> \in Stored <=> e = h
      BY <1>1, <1>5, EntryIsFound, StoredIsFound DEF Overwrite
  <2> HIDE DEF h
  <2>4. \A a : <<a, h>> \in Stored => a = addr
      BY <1>1, <2>2, <2>3, StoredInChain, NearbyIs
  <2>5. entries[h] \in Entry
    <3>1. h \in DOMAIN entries
        BY <1>2, <1>4, <2>3
    <3>2. entries \in Seq(Entry)
        BY <1>1 DEF TypeOK
    <3> QED BY <3>1, <3>2
  <2>6. StoredMap'[addr] = new
    <3>1. StoredMap'[addr] = Contents(entries'[h])
        BY <2>1, <2>3, MapGains
    <3> QED BY <2>2, <2>5, <3>1, StoreIs
  <2>7. ASSUME NEW a \in Addr, a # addr PROVE StoredMap'[a] = StoredMap[a]
    <3>1. \A e : <<a, e>> \in Stored => entries'[e] = entries[e]
        BY <1>2, <1>4, <2>2, <2>4, <2>7
    <3> QED BY <2>1, <3>1, MapKeeps
  <2> QED BY <2>6, <2>7
<1>6. ASSUME InsertNew(addr, size, hash)
      PROVE  StoredMap'[addr] = new /\ \A a \in Addr : a # addr => StoredMap'[a] = StoredMap[a]
  <2> DEFINE h == Head(FreeEntries)
  <2>1. \A a, e : <<a, e>> \in Stored' <=> <<a, e>> \in Stored \/ (a = addr /\ e = h)
      BY <1>3, <1>6, InsertNewKeepsMapInv
  <2>2. /\ h \notin Chained /\ \E entry \in Entry : entries'[h] = Store(entry, addr, size, hash)
        /\ \A e \in DOMAIN entries : e # h => entries'[e] = entries[e]
      BY <1>3, <1>6, InsertNewStep
  <2>3. \A e : <<addr, e>> \notin Stored
      BY <1>1, <1>6, StoredIsFound DEF InsertNew
  <2> HIDE DEF h
  <2>4. StoredMap'[addr] = new
    <3>1. <<addr, h>> \in Stored' /\ \A e : <<addr, e>> \in Stored' => e = h
        BY <2>1, <2>3
    <3>2. StoredMap'[addr] = Contents(entries'[h])
        BY <3>1, MapGains
    <3> QED BY <2>2, <3>2, StoreIs
  <2>5. ASSUME NEW a \in Addr, a # addr PROVE StoredMap'[a] = StoredMap[a]
    <3>1. \A e : <<a, e>> \in Stored' <=> <<a, e>> \in Stored
        BY <2>1, <2>5
    <3>2. \A e : <<a, e>> \in Stored => entries'[e] = entries[e]
        BY <1>2, <1>4, <2>2
    <3> QED BY <3>1, <3>2, MapKeeps
  <2> QED BY <2>4, <2>5
<1>7. StoredMap'[addr] = new /\ \A a \in Addr : a # addr => StoredMap'[a] = StoredMap[a]
    BY <1>5, <1>6 DEF Insert
<1>8. StoredMap' = [StoredMap EXCEPT ![addr] = new]
  <2> HIDE DEF new
  <2> QED BY <1>7, StoredMapDomain
<1>9. call' = <<addr, size, hash>> /\ result' = NotFound
    BY DEF Insert
<1> QED BY <1>8, <1>9 DEF AbstractMap!Insert

LEMMA FindAndRemoveImplements ==
    ASSUME MapInv, NEW addr \in Addr, FindAndRemove(addr)
    PROVE  AbstractMap!FindAndRemove(addr)
<1> DEFINE found == IF result' = NotFound THEN NotFound ELSE Contents(result')
<1>1. TypeOK /\ ClustersAreFound /\ OffsetsOccurOnce /\ EntriesHaveOnePlace
    BY DEF MapInv
<1>2. ASSUME FoundAt(addr) = 0
      PROVE  /\ found = StoredMap[addr] /\ StoredMap'[addr] = NotFound
             /\ \A a \in Addr : a # addr => StoredMap'[a] = StoredMap[a]
  <2>1. result' = NotFound /\ entries' = entries
      BY <1>2 DEF FindAndRemove
  <2>2. \A a, e : <<a, e>> \in Stored' <=> <<a, e>> \in Stored
      BY <1>2, MissKeepsMapInv
  <2>3. StoredMap[addr] = NotFound
      BY <1>2, MapHolds
  <2>4. \A a \in Addr : StoredMap'[a] = StoredMap[a]
      BY <2>1, <2>2, MapKeeps
  <2> QED BY <2>1, <2>3, <2>4
<1>3. ASSUME FoundAt(addr) # 0
      PROVE  /\ found = StoredMap[addr] /\ StoredMap'[addr] = NotFound
             /\ \A a \in Addr : a # addr => StoredMap'[a] = StoredMap[a]
  <2> DEFINE h == Chain(addr)[FoundAt(addr)]
  <2>1. result' = entries[h] /\ entries' = entries /\ h \in ToSet(Chain(addr))
      BY <1>3, RemoveStep
  <2>2. \A a, e : <<a, e>> \in Stored' <=> <<a, e>> \in Stored /\ a # addr
      BY <1>3, RemoveKeepsMapInv
  <2>3. StoredMap[addr] = Contents(entries[h])
      BY <1>3, MapHolds
  <2> HIDE DEF h
  <2>4. result' # NotFound
    <3>1. h \in DOMAIN entries
        BY <1>1, <2>1, StoredInChain DEF EntriesHaveOnePlace
    <3>2. entries[h] \in Entry
        BY <1>1, <3>1 DEF TypeOK
    <3> QED BY <2>1, <3>2, AddressMapAssumption
  <2>5. StoredMap'[addr] = NotFound
      BY <2>2, MapLoses
  <2>6. \A a \in Addr : a # addr => StoredMap'[a] = StoredMap[a]
      BY <2>1, <2>2, MapKeeps
  <2> QED BY <2>1, <2>3, <2>4, <2>5, <2>6
<1>4. /\ found = StoredMap[addr] /\ StoredMap'[addr] = NotFound
      /\ \A a \in Addr : a # addr => StoredMap'[a] = StoredMap[a]
    BY <1>2, <1>3
<1>5. StoredMap' = [StoredMap EXCEPT ![addr] = NotFound]
    BY <1>4, StoredMapDomain
<1>6. call' = <<addr>>
    BY DEF FindAndRemove
<1> QED BY <1>4, <1>5, <1>6 DEF AbstractMap!FindAndRemove

LEMMA EmptyMaps ==
    /\ DOMAIN pages = {} => StoredMap = [addr \in Addr |-> NotFound]
    /\ DOMAIN pages' = {} => StoredMap' = [addr \in Addr |-> NotFound]
<1>1. DOMAIN pages = {} => Stored = {}
    BY DEF Stored
<1>2. DOMAIN pages' = {} => Stored' = {}
    BY DEF Stored
<1> QED BY <1>1, <1>2 DEF StoredMap

(***************************************************************************)
(* The hash table, the arrays of pages, the chains and the recycled        *)
(* entries together are a map: FindAndRemove finds what Insert stored last *)
(* for the address, and nothing else (compact_address_map.cc, lines 76 to  *)
(* 139).                                                                   *)
(***************************************************************************)
THEOREM AddressMapImplementsMap == Spec => ImplementsAddressMap
<1>1. Init => AbstractMap!Init
    BY EmptyMaps DEF Init, AbstractMap!Init
<1>2. MapInv /\ [Next]_vars => [AbstractMap!Next]_(AbstractMap!vars)
  <2> SUFFICES ASSUME MapInv, [Next]_vars PROVE [AbstractMap!Next]_(AbstractMap!vars)
      OBVIOUS
  <2>1. ASSUME NEW addr \in Addr, NEW size \in Size, NEW hash \in Hash \union {NoHash},
               Insert(addr, size, hash)
        PROVE  AbstractMap!Next
      BY <2>1, InsertImplements DEF AbstractMap!Next
  <2>2. ASSUME NEW addr \in Addr, FindAndRemove(addr) PROVE AbstractMap!Next
      BY <2>2, FindAndRemoveImplements DEF AbstractMap!Next
  <2>3. CASE Destructor
    <3>1. AbstractMap!Clear
        BY <2>3, EmptyMaps DEF Destructor, AbstractMap!Clear
    <3> QED BY <3>1 DEF AbstractMap!Next
  <2>4. CASE UNCHANGED vars
    <3>1. Stored' = Stored
        BY <2>4 DEF Stored, StoredIn, AddressAt, vars, structure
    <3>2. StoredMap' = StoredMap
        BY <2>4, <3>1 DEF StoredMap, vars, structure
    <3> QED BY <2>4, <3>2 DEF vars, AbstractMap!vars
  <2> QED BY <2>1, <2>2, <2>3, <2>4 DEF Next
<1>3. Spec => []MapInv
    BY AlwaysMapInv
<1> QED BY <1>1, <1>2, <1>3, PTL DEF Spec, ImplementsAddressMap, AbstractMap!Spec
=============================================================================
