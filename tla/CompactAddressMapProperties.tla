-------------------- MODULE CompactAddressMapProperties --------------------
(***************************************************************************)
(* What CompactAddressMap is meant to guarantee.                           *)
(***************************************************************************)
EXTENDS CompactAddressMap

(* The address an entry is for, from its place; all entries with their addresses. *)
AddressAt(p, block, entry) ==
    cluster_id[p[1]] * ClusterSize + p[2] * SubclusterSize + p[3] * PageSize
    + block * BlockSize + entries[entry].offset

StoredIn(p, block) == {<<AddressAt(p, block, e), e>> : e \in ToSet(pages[p][block])}

Stored == UNION {UNION {StoredIn(p, block) : block \in Blocks} : p \in DOMAIN pages}

Contents(entry) ==
    [size |-> entry.size, hash |-> IF entry.has_call_stack THEN entry.call_stack_hash ELSE NoHash]

(***************************************************************************)
(* The structure behaves as a map (AddressMap): what is found is what was  *)
(* inserted last, however addresses share clusters, blocks and recycled    *)
(* entries, and whatever lookups create on their way.                      *)
(***************************************************************************)
StoredMap ==
    LET stored == Stored
    IN  [addr \in Addr |->
            IF \E s \in stored : s[1] = addr
            THEN Contents(entries[(CHOOSE s \in stored : s[1] = addr)[2]])
            ELSE NotFound]

AbstractMap ==
    INSTANCE AddressMap WITH
        map <- StoredMap,
        result <- IF result = NotFound THEN NotFound ELSE Contents(result)

ImplementsAddressMap == AbstractMap!Spec

Chained == UNION {UNION {ToSet(pages[p][block]) : block \in Blocks} : p \in DOMAIN pages}

(***************************************************************************)
(* Every entry ever allocated is in exactly one place, once: in the free   *)
(* list or in the chain of one block (compact_address_map.cc, lines 96 to  *)
(* 113 and 126 to 134).                                                    *)
(***************************************************************************)
EntriesHaveOnePlace ==
    /\ ToSet(free_entries) \union Chained = DOMAIN entries
    /\ ToSet(free_entries) \intersect Chained = {}
    /\ IsInjective(free_entries)
    /\ \A p \in DOMAIN pages, block \in Blocks : IsInjective(pages[p][block])
    /\ \A p, q \in DOMAIN pages, b, c \in Blocks :
          p # q \/ b # c => \A i \in DOMAIN pages[p][b], j \in DOMAIN pages[q][c] :
                               pages[p][b][i] # pages[q][c][j]

(***************************************************************************)
(* stats() tells what there is, and the destructor finds all of it in its  *)
(* list (compact_address_map.cc, lines 13 to 20).  A chain holds an offset *)
(* once, so that no walk takes more steps than a block has addresses,      *)
(* however often the same address is inserted.                             *)
(***************************************************************************)
StatsTellStructure ==
    /\ stats.num_clusters = Len(cluster_id)
    /\ stats.num_subclusters = Cardinality({<<p[1], p[2]>> : p \in DOMAIN pages})
    /\ stats.num_pages = Cardinality(DOMAIN pages)
    /\ stats.num_entries = Len(entries)
    /\ allocated_objects = 1 + Len(cluster_id) + stats.num_subclusters
                             + Cardinality(DOMAIN pages) + Len(entries) \div EntryBulkAllocCount
    /\ \A p \in DOMAIN pages, block \in Blocks : Len(pages[p][block]) <= BlockSize
    /\ stats.max_num_steps <= BlockSize

(***************************************************************************)
(* size() counts an overwritten entry twice, but never less than what the  *)
(* map holds, so that it does not wrap below zero.                         *)
(***************************************************************************)
SizeCoversMap == num_entries >= Cardinality({s[1] : s \in Stored})
=============================================================================
