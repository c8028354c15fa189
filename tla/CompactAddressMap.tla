------------------------- MODULE CompactAddressMap -------------------------
(***************************************************************************)
(* Class CompactAddressMap (compact_address_map.h, .cc).  An address is    *)
(* found in four steps: its cluster in a hash table of chains, its         *)
(* subcluster and page in arrays of the cluster, and its entry in the      *)
(* chain of its block of the page.  All that is missing on the way is      *)
(* created, by removals too.  Entries come in batches and go back to a     *)
(* list of free ones.                                                      *)
(*                                                                         *)
(* Pointers to clusters and entries are their numbers in the order of      *)
(* their creation.  A page is named by its cluster and its indices; a      *)
(* subcluster exists once it has a page.                                   *)
(***************************************************************************)
EXTENDS SequencesExt, FiniteSetsExt, Integers

CONSTANTS
    Addr,                       \* addresses
    Size,                       \* sizes inserted
    Hash,                       \* hashes of call stacks
    NoHash,                     \* no hash: the pointer is null
    NotFound,                   \* FindAndRemove returned false
    BlockSize,                  \* kBlockSize
    NumBlocksPerPage,           \* kNumBlocksPerPage
    NumPagesPerSubcluster,      \* kNumPagesPerSubcluster
    NumSubclustersPerCluster,   \* kNumSubclustersPerCluster
    ClusterHashTableSize,       \* kClusterHashTableSize
    EntryBulkAllocCount,        \* kEntryBulkAllocCount
    SizeWord,                   \* modulus of the uint8_t size that Store gets
    IdWord,                     \* modulus of the uint32_t id of a cluster
    MaxNumEntries               \* bound: num_entries_

PageSize == NumBlocksPerPage * BlockSize

SubclusterSize == NumPagesPerSubcluster * PageSize

ClusterSize == NumSubclustersPerCluster * SubclusterSize

Entry == [offset : 0..(BlockSize - 1), size : 0..(SizeWord - 1), has_call_stack : BOOLEAN,
          call_stack_hash : Nat]

(* An address has at most 47 bits, so that the id of its cluster fits. *)
ASSUME AddressMapAssumption ==
    /\ {BlockSize, NumBlocksPerPage, NumPagesPerSubcluster, NumSubclustersPerCluster,
        ClusterHashTableSize, EntryBulkAllocCount, SizeWord, IdWord} \subseteq Nat \ {0}
    /\ Addr \subseteq 0..(ClusterSize * IdWord - 1)
    /\ Size \subseteq Nat /\ Hash \subseteq Nat
    /\ NoHash \notin Hash /\ NotFound \notin Entry
    /\ MaxNumEntries \in Nat

VARIABLES
    cluster_hash_table, \* chains of clusters
    cluster_id,         \* cluster -> its id
    pages,              \* <<cluster, subcluster, page>> -> its chains of entries
    entries,            \* entry -> [offset, size, has_call_stack, call_stack_hash]
    free_entries,       \* free_entries_
    num_entries,        \* num_entries_
    allocated_objects,  \* the number of objects in the list allocated_objects_
    stats,              \* stats_, without its heap_size
    call,               \* history: the arguments of the latest call
    result              \* what the latest call found

memory == <<allocated_objects, stats>>

structure == <<cluster_hash_table, cluster_id, pages, entries, free_entries, num_entries, memory>>

vars == <<structure, call, result>>

ZeroEntry == [offset |-> 0, size |-> 0, has_call_stack |-> FALSE, call_stack_hash |-> 0]

Blocks == 0..(NumBlocksPerPage - 1)

EmptyPage == [block \in Blocks |-> <<>>]

Init ==
    /\ cluster_hash_table = [index \in 0..(ClusterHashTableSize - 1) |-> <<>>]
    /\ cluster_id = <<>>
    /\ pages = [p \in {} |-> EmptyPage]
    /\ entries = <<>> /\ free_entries = <<>>
    /\ num_entries = 0
    /\ allocated_objects = 1
    /\ stats = [num_clusters |-> 0, num_subclusters |-> 0, num_pages |-> 0,
                num_entries |-> 0, max_num_steps |-> 0]
    /\ call = <<>> /\ result = NotFound

-----------------------------------------------------------------------------
(* GetCluster.  The id in the hash table has fewer bits than the one looked for. *)
ClusterId(addr) == addr \div ClusterSize

ClusterIndex(addr) == ClusterId(addr) % ClusterHashTableSize

ClusterStep(addr) ==
    SelectInSeq(cluster_hash_table[ClusterIndex(addr)],
                LAMBDA c : cluster_id[c] = ClusterId(addr))

ClusterOf(addr) ==
    LET k == ClusterStep(addr)
    IN  IF k = 0 THEN Len(cluster_id) + 1 ELSE cluster_hash_table[ClusterIndex(addr)][k]

GetCluster(addr) ==
    IF ClusterStep(addr) = 0
    THEN /\ cluster_id' = Append(cluster_id, ClusterId(addr) % IdWord)
         /\ cluster_hash_table' =
                [cluster_hash_table EXCEPT ![ClusterIndex(addr)] = <<ClusterOf(addr)>> \o @]
    ELSE UNCHANGED <<cluster_id, cluster_hash_table>>

(* GetSubcluster and GetPage. *)
PageOf(addr) ==
    <<ClusterOf(addr), (addr % ClusterSize) \div SubclusterSize, (addr % SubclusterSize) \div PageSize>>

One(condition) == IF condition THEN 1 ELSE 0

MissingClusters(addr) == One(ClusterStep(addr) = 0)

MissingSubclusters(addr) ==
    LET page == PageOf(addr)
    IN  One(\A p \in DOMAIN pages : <<p[1], p[2]>> # <<page[1], page[2]>>)

MissingPages(addr) == One(PageOf(addr) \notin DOMAIN pages)

(* New and the counters: what GetPage creates, batches of entries, and the length of a walk. *)
New(addr, batches, num_steps) ==
    /\ allocated_objects' = allocated_objects + MissingClusters(addr) + MissingSubclusters(addr)
                               + MissingPages(addr) + batches
    /\ stats' = [num_clusters |-> stats.num_clusters + MissingClusters(addr),
                 num_subclusters |-> stats.num_subclusters + MissingSubclusters(addr),
                 num_pages |-> stats.num_pages + MissingPages(addr),
                 num_entries |-> stats.num_entries + batches * EntryBulkAllocCount,
                 max_num_steps |-> Max({stats.max_num_steps, num_steps})]

PagesWith(addr) ==
    [p \in DOMAIN pages \union {PageOf(addr)} |-> IF p \in DOMAIN pages THEN pages[p] ELSE EmptyPage]

Block(addr) == (addr % PageSize) \div BlockSize

Offset(addr) == addr % BlockSize

(* The chain of entries of the block: empty when the page is yet to be created. *)
Chain(addr) ==
    LET page == PageOf(addr)
    IN  IF page \in DOMAIN pages THEN pages[page][Block(addr)] ELSE <<>>

(* Faulty variant of the next definition: a whole address is compared. *)
FoundByAddress(addr) == SelectInSeq(Chain(addr), LAMBDA e : entries[e].offset = addr)

(* The step along its chain at which the entry of an address is found, or 0. *)
FoundAt(addr) ==
    LET chain == Chain(addr)
    IN  SelectInSeq(chain, LAMBDA e : entries[e].offset = Offset(addr))

(* Faulty variant of the next definition: the flag of the entry's former use stays. *)
StoreWithoutClear(entry, addr, size, hash) ==
    [entry EXCEPT !.offset = Offset(addr),
                  !.size = size % SizeWord,
                  !.has_call_stack = @ \/ hash # NoHash,
                  !.call_stack_hash = IF hash # NoHash THEN hash ELSE @]

(* Entry::Store, which leaves the hash of the entry's former use where there is none. *)
Store(entry, addr, size, hash) ==
    [entry EXCEPT !.offset = Offset(addr),
                  !.size = size % SizeWord,
                  !.has_call_stack = hash # NoHash,
                  !.call_stack_hash = IF hash # NoHash THEN hash ELSE @]

-----------------------------------------------------------------------------
(* What Insert finds in the free list: a new batch when it was empty. *)
FreeEntries ==
    IF free_entries = <<>>
    THEN [k \in 1..EntryBulkAllocCount |-> Len(entries) + k]
    ELSE free_entries

AllocatedEntries ==
    IF free_entries = <<>>
    THEN entries \o [k \in 1..EntryBulkAllocCount |-> ZeroEntry]
    ELSE entries

(***************************************************************************)
(* Insert.  The number of entries grows even if the address has an entry,  *)
(* which then is overwritten.                                              *)
(***************************************************************************)
Overwrite(addr, size, hash) ==
    /\ FoundAt(addr) # 0
    /\ entries' = [entries EXCEPT ![Chain(addr)[FoundAt(addr)]] = Store(@, addr, size, hash)]
    /\ pages' = PagesWith(addr)
    /\ New(addr, 0, FoundAt(addr))
    /\ UNCHANGED free_entries

InsertNew(addr, size, hash) ==
    /\ FoundAt(addr) = 0
    /\ free_entries' = Tail(FreeEntries)
    /\ entries' = [AllocatedEntries EXCEPT ![Head(FreeEntries)] = Store(@, addr, size, hash)]
    /\ pages' = [PagesWith(addr) EXCEPT ![PageOf(addr)][Block(addr)] = <<Head(FreeEntries)>> \o @]
    /\ New(addr, One(free_entries = <<>>), Len(Chain(addr)))

Insert(addr, size, hash) ==
    /\ num_entries < MaxNumEntries
    /\ GetCluster(addr)
    /\ Overwrite(addr, size, hash) \/ InsertNew(addr, size, hash)
    /\ num_entries' = num_entries + 1
    /\ call' = <<addr, size, hash>> /\ result' = NotFound

(* Faulty variants: the rest of the chain goes with the entry; every call is counted. *)
ChainCut(chain, k) == SubSeq(chain, 1, k - 1)

ChainWithout(chain, k) == RemoveAt(chain, k)

CountWithoutAny(found) == num_entries - 1

CountWithout(found) == IF found THEN num_entries - 1 ELSE num_entries

(***************************************************************************)
(* FindAndRemove.                                                          *)
(***************************************************************************)
FindAndRemove(addr) ==
    LET k == FoundAt(addr)
    IN  /\ GetCluster(addr)
        /\ IF k = 0
           THEN /\ pages' = PagesWith(addr)
                /\ result' = NotFound
                /\ UNCHANGED free_entries
           ELSE /\ result' = entries[Chain(addr)[k]]
                /\ pages' = [PagesWith(addr) EXCEPT
                                ![PageOf(addr)][Block(addr)] = ChainWithout(@, k)]
                /\ free_entries' = <<Chain(addr)[k]>> \o free_entries
        /\ num_entries' = CountWithout(k # 0)
        /\ New(addr, 0, 0)
        /\ call' = <<addr>>
        /\ UNCHANGED entries

(***************************************************************************)
(* The destructor frees the objects in the list, and with them everything  *)
(* that the constructor and New created; the next map starts anew.         *)
(***************************************************************************)
Destructor ==
    /\ cluster_hash_table' = [index \in DOMAIN cluster_hash_table |-> <<>>]
    /\ cluster_id' = <<>> /\ pages' = [p \in {} |-> EmptyPage]
    /\ entries' = <<>> /\ free_entries' = <<>>
    /\ num_entries' = 0
    /\ allocated_objects' = 1
    /\ stats' = [counter \in DOMAIN stats |-> 0]
    /\ call' = <<>> /\ result' = NotFound

Next ==
    \/ \E addr \in Addr, size \in Size, hash \in Hash \union {NoHash} : Insert(addr, size, hash)
    \/ \E addr \in Addr : FindAndRemove(addr)
    \/ Destructor

Spec == Init /\ [][Next]_vars
=============================================================================
