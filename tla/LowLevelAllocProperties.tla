---------------------- MODULE LowLevelAllocProperties ----------------------
(***************************************************************************)
(* What an arena of LowLevelAlloc is meant to guarantee.                   *)
(***************************************************************************)
EXTENDS CustomAllocator

Arenas == DOMAIN heap

Blocks(arena) == DOMAIN heap[arena].header \ {FreeList}

Allocated(arena) == {b \in Blocks(arena) : heap[arena].header[b].allocated}

FreeBlocks(h) == DOMAIN h.next \ {FreeList}

Bytes(arena, b) == b..(b + heap[arena].header[b].size - 1)

(***************************************************************************)
(* The type invariant.  The pointers of a free block have room in it ("the *)
(* AllocList node may not have room for all kMaxLevel entries", line 41).  *)
(***************************************************************************)
HeapOK(h) ==
    /\ \A b \in DOMAIN h.header : h.header[b] \in [size : Nat, allocated : BOOLEAN]
    /\ DOMAIN h.next = {b \in DOMAIN h.header : ~h.header[b].allocated}
    /\ \A b \in DOMAIN h.next : h.next[b] \in Seq(FreeBlocks(h) \union {Null})
    /\ \A b \in FreeBlocks(h) : NextOffset + PointerSize * Len(h.next[b]) <= h.header[b].size
    /\ Len(h.next[FreeList]) = MaxLevel - 1

TypeOK ==
    /\ \A arena \in Arenas : HeapOK(heap[arena])
    /\ allocation_count \in [Arenas -> Nat]
    /\ DOMAIN requested = UNION {Allocated(arena) : arena \in Arenas}
    /\ mapped \subseteq Pages(MemoryStart, MemoryEnd - MemoryStart)
    /\ g_arena \in {Null} \union (MemoryStart..MemoryEnd)
    /\ g_is_initalized_for_unit_test \in BOOLEAN

(***************************************************************************)
(* The blocks of all arenas tile the mapped memory: no byte is in two of   *)
(* them, none is lost, through any splitting and merging, nor does one     *)
(* stay mapped after its arena was deleted.  Every arena but the static    *)
(* one lies in a block in use, and no block is in use for an arena that    *)
(* was deleted.                                                            *)
(***************************************************************************)
BlocksTileMemory ==
    /\ \A a, c \in Arenas : \A b \in Blocks(a), d \in Blocks(c) :
          a # c \/ b # d => Bytes(a, b) \intersect Bytes(c, d) = {}
    /\ UNION {UNION {Bytes(a, b) : b \in Blocks(a)} : a \in Arenas} =
          UNION {p..(p + PageSize - 1) : p \in mapped}
    /\ Allocated(UnhookedArena) = Arenas \ {UnhookedArena}

(***************************************************************************)
(* What the code checks in Next(): "that the freelist is in the correct    *)
(* order, that it consists of regions marked `unallocated', and that no    *)
(* two regions are adjacent in memory" (lines 316 to 318); and that each   *)
(* level of the skip list leads to the next block with that many levels,   *)
(* of which a block has at least as many as the search expects of it.      *)
(***************************************************************************)
FollowersAt(h, b, level) == {n \in FreeBlocks(h) : n > b /\ Len(h.next[n]) >= level}

FreelistWellFormed ==
    \A h \in {heap[arena] : arena \in Arenas} :
        /\ \A b \in DOMAIN h.next : \A level \in DOMAIN h.next[b] :
              h.next[b][level] =
                  IF FollowersAt(h, b, level) = {} THEN Null ELSE Min(FollowersAt(h, b, level))
        /\ \A b \in FreeBlocks(h) :
              /\ ~h.header[b].allocated
              /\ b + h.header[b].size \notin FreeBlocks(h)
              /\ Len(h.next[b]) >= LevelFor(h.header[b].size)

(***************************************************************************)
(* What DeleteArena checks: once all allocations are freed, the free       *)
(* blocks consist of whole pages (lines 286 to 291).                       *)
(***************************************************************************)
EmptyArenaIsAllPages ==
    \A arena \in Arenas :
        allocation_count[arena] = 0 <=>
            /\ Allocated(arena) = {}
            /\ \A b \in FreeBlocks(heap[arena]) :
                  b % PageSize = 0 /\ heap[arena].header[b].size % PageSize = 0

(***************************************************************************)
(* The skip list does its job: an arena is a first-fit allocator ("A       *)
(* first-fit allocator", line 19), whatever levels the blocks draw, the    *)
(* arena of CustomAllocator as well as the one that holds its Arena object.*)
(***************************************************************************)
Memory == {a \in MemoryStart..(MemoryEnd - 1) : a % Roundup = 0}

MemoryOf(arena) == {a \in Memory : \E b \in Blocks(arena) : a \in Bytes(arena, b)}

AllocationsOf(arena) ==
    [b \in Allocated(arena) |-> [size |-> heap[arena].header[b].size, request |-> requested[b]]]

CustomArena ==
    INSTANCE FirstFit WITH
        Request <- {SizeOf(request) : request \in Request},
        mapped <- IF HasArena THEN MemoryOf(g_arena) ELSE {},
        allocated <- IF HasArena THEN AllocationsOf(g_arena) ELSE [b \in {} |-> 0]

MetadataArena ==
    INSTANCE FirstFit WITH
        Request <- {SizeOf(ArenaSize)},
        mapped <- MemoryOf(UnhookedArena),
        allocated <- AllocationsOf(UnhookedArena)

ImplementsFirstFit == CustomArena!Spec /\ MetadataArena!Spec
=============================================================================
