--------------------------- MODULE LowLevelAlloc ---------------------------
(***************************************************************************)
(* The arenas of LowLevelAlloc (base/low_level_alloc.cc): memory mapped in *)
(* regions and cut into blocks, the free ones in a skip list in the order  *)
(* of their addresses.  Free blocks that touch are merged.  An arena is    *)
(* itself an object in a block of another one.                             *)
(*                                                                         *)
(* A heap h is a record of h.header, the headers of all blocks, and        *)
(* h.next, the pointers of the free ones: h.next[b][i] is next[i - 1] of   *)
(* the code, and Len(h.next[b]) is levels.  A header that was merged into  *)
(* the block before is gone, as its cleared magic number tells.  The head  *)
(* of the list is a block of size 0 outside of the mapped memory; its      *)
(* pointers at levels not in use are null, so that freelist.levels, which  *)
(* only tells them apart, is left out.                                     *)
(*                                                                         *)
(* The code that checks its data structures on the way (RAW_CHECK) is      *)
(* stated as properties.                                                   *)
(***************************************************************************)
EXTENDS Integers, Sequences, FiniteSets, FiniteSetsExt

CONSTANTS
    Request,            \* sizes requested
    Random,             \* what Random() may return
    MemoryStart,        \* the addresses mmap may return are from MemoryStart
    MemoryEnd,          \* up to this one
    HeaderSize,         \* sizeof(AllocList::Header)
    NextOffset,         \* offsetof(AllocList, next)
    PointerSize,        \* sizeof(AllocList *)
    MaxLevel,           \* kMaxLevel
    Roundup,            \* arena->roundup
    PageSize,           \* arena->pagesize
    PagesPerRegion,     \* 16 in the code
    ArenaSize           \* sizeof(LowLevelAlloc::Arena)

Null == 0
FreeList == 1           \* &arena->freelist

MinSize == 2 * Roundup

RegionSize == PagesPerRegion * PageSize

ASSUME ArenaAssumption ==
    /\ Request \subseteq Nat \ {0}
    /\ Random \subseteq Nat \ {0}
    /\ {HeaderSize, PointerSize, Roundup, PageSize, PagesPerRegion, ArenaSize} \subseteq Nat \ {0}
    /\ HeaderSize <= Roundup /\ PageSize % Roundup = 0
    /\ \A request \in Request \union {ArenaSize} : request + HeaderSize > Roundup
    /\ NextOffset \in Nat /\ NextOffset + PointerSize <= MinSize
    /\ MaxLevel \in Nat \ {0, 1}
    /\ MemoryStart \in Nat /\ MemoryStart > 2 /\ MemoryStart % PageSize = 0
    /\ MemoryEnd \in Nat /\ MemoryEnd % PageSize = 0

VARIABLES
    heap,               \* arena -> its blocks and its free list
    allocation_count,   \* arena -> its number of allocated blocks
    mapped,             \* the pages mapped and not unmapped
    requested           \* history: allocated block -> the size requested, rounded up

arenaVars == <<heap, allocation_count, mapped, requested>>

(* &unhooked_arena; any other arena is known by the block its Arena object lies in. *)
UnhookedArena == 2

Levels == 1..(MaxLevel - 1)

(* ArenaInit: the free list of an arena without memory. *)
EmptyHeap ==
    [header |-> [b \in {FreeList} |-> [size |-> 0, allocated |-> FALSE]],
     next |-> [b \in {FreeList} |-> [level \in Levels |-> Null]]]

Init ==
    /\ heap = [arena \in {UnhookedArena} |-> EmptyHeap]
    /\ allocation_count = [arena \in {UnhookedArena} |-> 0]
    /\ mapped = {}
    /\ requested = [b \in {} |-> 0]

(* The function f with another value at x, which may be new to it. *)
Put(f, x, value) == [y \in DOMAIN f \union {x} |-> IF y = x THEN value ELSE f[y]]

-----------------------------------------------------------------------------
(* IntLog2: how often the size has to be halved not to exceed the base. *)
IntLog2(size, base) ==
    LET halvings[i \in 0..size] == IF i > base THEN 1 + halvings[i \div 2] ELSE 0
    IN  halvings[size]

(* Faulty variant of the next definition: a block has as many levels as it draws. *)
LevelsUnclipped(size, random) == Min({IntLog2(size, MinSize) + random, MaxLevel - 1})

(* LLA_SkiplistLevels, where random is 1 unless a random number is asked for. *)
SkiplistLevels(size, random) ==
    Min({IntLog2(size, MinSize) + random, (size - NextOffset) \div PointerSize, MaxLevel - 1})

(* The free blocks with this many levels, and the head. *)
WithLevel(h, level) == {b \in DOMAIN h.next : level <= Len(h.next[b])}

(* The last block before address e on a level, from b on. *)
Advance(h, e, level, b) ==
    LET last[p \in WithLevel(h, level)] ==
            LET n == h.next[p][level]
            IN  IF n # Null /\ n < e THEN last[n] ELSE p
    IN  last[b]

(***************************************************************************)
(* LLA_SkiplistSearch: for every level, from the highest down, the last    *)
(* block before address e.                                                 *)
(***************************************************************************)
SkiplistSearch(h, e) ==
    LET prev[level \in Levels] ==
            Advance(h, e, level, IF level = MaxLevel - 1 THEN FreeList ELSE prev[level + 1])
    IN  prev

(* LLA_SkiplistInsert, of a block that gets this many levels. *)
SkiplistInsert(h, e, levels) ==
    LET prev == SkiplistSearch(h, e)
        next[i \in 0..levels] ==
            IF i = 0
            THEN Put(h.next, e, <<>>)
            ELSE [next[i - 1] EXCEPT ![e] = Append(@, h.next[prev[i]][i]), ![prev[i]][i] = e]
    IN  [h EXCEPT !.next = next[levels]]

(* LLA_SkiplistDelete: unlink e from level to level, as long as it is found. *)
SkiplistDelete(h, e) ==
    LET prev == SkiplistSearch(h, e)
        IsLinked(i) == \A j \in 1..i : h.next[prev[j]][j] = e
        next[i \in 0..Len(h.next[e])] ==
            IF i = 0 THEN h.next
            ELSE IF IsLinked(i) THEN [next[i - 1] EXCEPT ![prev[i]][i] = h.next[e][i]]
            ELSE next[i - 1]
        unlinked == next[Len(h.next[e])]
    IN  [h EXCEPT !.next = [b \in DOMAIN h.next \ {e} |-> unlinked[b]]]

-----------------------------------------------------------------------------
(* Faulty variant of the next definition: blocks are merged across a gap. *)
HasSuccessor(h, a) == a # FreeList /\ h.next[a][1] # Null

TouchesSuccessor(h, a) ==
    h.next[a][1] # Null /\ a + h.header[a].size = h.next[a][1]

(* Coalesce *)
Coalesce(h, a, random) ==
    LET n == h.next[a][1]
        size == h.header[a].size + h.header[n].size
        merged == [h EXCEPT !.header = [b \in DOMAIN @ \ {n} |->
                                           IF b = a THEN [@[a] EXCEPT !.size = size] ELSE @[b]]]
        without == SkiplistDelete(SkiplistDelete(merged, n), a)
    IN  IF TouchesSuccessor(h, a)
        THEN SkiplistInsert(without, a, SkiplistLevels(size, random))
        ELSE h

(* Faulty variant of the next definition: only the successor is merged. *)
AddWithoutPredecessor(h, f, random) ==
    LET free == [h EXCEPT !.header[f].allocated = FALSE]
        levels == SkiplistLevels(h.header[f].size, random)
    IN  Coalesce(SkiplistInsert(free, f, levels), f, random)

(***************************************************************************)
(* AddToFreelist: insert the block, and merge it with its successor and    *)
(* its predecessor.  A merged block draws its levels anew; only the last   *)
(* drawing matters, so that one random number does for all.                *)
(***************************************************************************)
AddToFreelist(h, f, random) ==
    LET free == [h EXCEPT !.header[f].allocated = FALSE]
        levels == SkiplistLevels(h.header[f].size, random)
        inserted == SkiplistInsert(free, f, levels)
    IN  Coalesce(Coalesce(inserted, f, random), SkiplistSearch(free, f)[1], random)

(* The header of a block that counts as allocated. *)
WithBlock(h, b, size) == [h EXCEPT !.header = Put(@, b, [size |-> size, allocated |-> TRUE])]

RoundUp(n, align) == ((n + align - 1) \div align) * align

(* The level that every block of a size and more has. *)
LevelFor(size) == SkiplistLevels(size, 1)

(***************************************************************************)
(* The search of DoAllocWithArena: the first block that is large enough    *)
(* among those that have the levels of such a block.                       *)
(***************************************************************************)
FirstFitting(h, size) ==
    LET level == LevelFor(size)
        fitting[b \in WithLevel(h, level)] ==
            LET s == h.next[b][level]
            IN  IF s = Null \/ h.header[s].size >= size THEN s ELSE fitting[s]
    IN  fitting[FreeList]

IsLarger(rest) == rest > MinSize \* Faulty variant of the next definition

CanBeBlock(rest) == rest >= MinSize

(* The rest of DoAllocWithArena: take the block, and split it if the rest can be one. *)
TakeBlock(h, s, size, random) ==
    LET rest == h.header[s].size - size
        without == SkiplistDelete(h, s)
        split == AddToFreelist(WithBlock(WithBlock(without, s, size), s + size, rest), s + size, random)
    IN  IF CanBeBlock(rest) THEN split ELSE WithBlock(without, s, h.header[s].size)

-----------------------------------------------------------------------------
SizeOf(request) == RoundUp(request + HeaderSize, Roundup)

Pages(start, size) == {p \in start..(start + size - 1) : p % PageSize = 0}

(* What mmap may return. *)
NewPages(size) ==
    {p \in Pages(MemoryStart, MemoryEnd - MemoryStart) :
        p + size <= MemoryEnd /\ Pages(p, size) \intersect mapped = {}}

(* What DoAllocWithArena can do with a free block that is large enough. *)
Taken(h, pages, s, size) ==
    {[block |-> s, heap |-> TakeBlock(h, s, size, random), mapped |-> pages] : random \in Random}

(* With no block to be found, mmap a new region, put it into the list, and search again: *)
(* the region is large enough.                                                           *)
TakenFromNewRegion(h, size) ==
    LET new_pages_size == RoundUp(size, RegionSize)
        WithRegion(new_pages, random) ==
            AddToFreelist(WithBlock(h, new_pages, new_pages_size), new_pages, random)
    IN  UNION {LET grown == WithRegion(new_pages, random)
               IN  Taken(grown, mapped \union Pages(new_pages, new_pages_size),
                         FirstFitting(grown, size), size) :
                  new_pages \in NewPages(new_pages_size), random \in Random}

(* The outcomes of DoAllocWithArena, for a request other than 0, which has none. *)
DoAllocWithArena(request, arena) ==
    LET size == SizeOf(request)
        s == FirstFitting(heap[arena], size)
    IN  IF s # Null THEN Taken(heap[arena], mapped, s, size) ELSE TakenFromNewRegion(heap[arena], size)

Alloc(request, arena) ==
    \E taken \in DoAllocWithArena(request, arena) :
        /\ heap' = [heap EXCEPT ![arena] = taken.heap]
        /\ allocation_count' = [allocation_count EXCEPT ![arena] = @ + 1]
        /\ mapped' = taken.mapped
        /\ requested' = Put(requested, taken.block, SizeOf(request))

NoCount(count) == count \* Faulty variant of the next definition

CountAfterFree(count) == count - 1

WithoutRequest(b) == [a \in DOMAIN requested \ {b} |-> requested[a]]

(* Free, of a block whose header names this arena. *)
Free(b, arena) ==
    /\ \E random \in Random : heap' = [heap EXCEPT ![arena] = AddToFreelist(@, b, random)]
    /\ allocation_count' = [allocation_count EXCEPT ![arena] = CountAfterFree(@)]
    /\ requested' = WithoutRequest(b)
    /\ UNCHANGED mapped

-----------------------------------------------------------------------------
(***************************************************************************)
(* NewArena, without flags and with the default arena for its metadata, in *)
(* place of which it takes unhooked_arena.  Whatever the memory held, the  *)
(* new arena starts out empty.                                             *)
(***************************************************************************)
NewArena(result) ==
    \E taken \in DoAllocWithArena(ArenaSize, UnhookedArena) :
        /\ taken.block = result
        /\ heap' = Put([heap EXCEPT ![UnhookedArena] = taken.heap], result, EmptyHeap)
        /\ allocation_count' = Put([allocation_count EXCEPT ![UnhookedArena] = @ + 1], result, 0)
        /\ mapped' = taken.mapped
        /\ requested' = Put(requested, result, SizeOf(ArenaSize))

(* The blocks that follow block b in the free list, from next[0] to next[0]. *)
BlocksAfter(h, b) ==
    LET after[p \in WithLevel(h, 1)] ==
            LET n == h.next[p][1]
            IN  IF n = Null THEN {} ELSE {n} \union after[n]
    IN  after[b]

CanBeDeleted(arena) == allocation_count[arena] = 0

(* DeleteArena unmaps the free list of an empty arena, and frees the Arena object. *)
DeleteArena(arena) ==
    LET h == heap[arena]
        regions == {Pages(b, h.header[b].size) : b \in BlocksAfter(h, FreeList)}
        others == DOMAIN heap \ {arena}
    IN  /\ CanBeDeleted(arena)
        /\ \E random \in Random :
              heap' = [a \in others |->
                          IF a = UnhookedArena THEN AddToFreelist(heap[a], arena, random) ELSE heap[a]]
        /\ allocation_count' = [a \in others |->
              IF a = UnhookedArena THEN CountAfterFree(allocation_count[a]) ELSE allocation_count[a]]
        /\ mapped' = mapped \ UNION regions
        /\ requested' = WithoutRequest(arena)
=============================================================================
