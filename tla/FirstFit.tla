------------------------------ MODULE FirstFit ------------------------------
(***************************************************************************)
(* What an arena of LowLevelAlloc promises: first fit.  An allocation gets *)
(* the start of the lowest extent of free memory that is large enough, and *)
(* memory is only mapped when no extent is.                                *)
(***************************************************************************)
EXTENDS Integers, FiniteSets, FiniteSetsExt

CONSTANTS
    Memory,     \* addresses, in steps of Roundup
    Request,    \* sizes requested, with their header and rounded up
    Roundup, MinSize, RegionSize, PageSize

VARIABLES
    mapped,     \* addresses mapped for the arena
    allocated   \* start of an allocation -> its size and the size requested

Span(start, size) == {a \in Memory : start <= a /\ a < start + size}

FreeMemory == mapped \ UNION {Span(b, allocated[b].size) : b \in DOMAIN allocated}

(* The lowest start of `size' bytes in one extent of `free', which starts there. *)
Fits(free, size) ==
    {a \in free : a - Roundup \notin free /\ \A b \in a..(a + size - 1) : b % Roundup = 0 => b \in free}

(* What is left of an extent goes with the allocation if it is too small for a block. *)
Taken(free, start, size) ==
    IF Span(start, size + MinSize) \subseteq free /\ start + size + MinSize - Roundup \in free
    THEN size
    ELSE Cardinality({a \in free : start <= a /\ (start..a) \intersect Memory \subseteq free}) * Roundup

Place(free, size) ==
    LET start == Min(Fits(free, size))
    IN  allocated' = [b \in DOMAIN allocated \union {start} |->
                         IF b = start THEN [size |-> Taken(free, start, size), request |-> size]
                         ELSE allocated[b]]

RoundUp(n, align) == ((n + align - 1) \div align) * align

(* The ranges of pages that can be mapped for an allocation. *)
Region(size) ==
    {Span(a, RoundUp(size, RegionSize)) :
        a \in {b \in Memory : b % PageSize = 0 /\ b + RoundUp(size, RegionSize) - Roundup \in Memory}}

Init == mapped = {} /\ allocated = [b \in {} |-> 0]

Alloc(size) ==
    /\ Fits(FreeMemory, size) # {}
    /\ Place(FreeMemory, size)
    /\ UNCHANGED mapped

AllocFromNewRegion(size) ==
    /\ Fits(FreeMemory, size) = {}
    /\ \E region \in Region(size) :
          /\ region \intersect mapped = {}
          /\ mapped' = mapped \union region
          /\ Place(FreeMemory \union region, size)

Free(b) ==
    /\ allocated' = [a \in DOMAIN allocated \ {b} |-> allocated[a]]
    /\ UNCHANGED mapped

DeleteArena ==
    /\ DOMAIN allocated = {}
    /\ mapped' = {}
    /\ UNCHANGED allocated

Next ==
    \/ \E size \in Request : Alloc(size) \/ AllocFromNewRegion(size)
    \/ \E b \in DOMAIN allocated : Free(b)
    \/ DeleteArena

Spec == Init /\ [][Next]_<<mapped, allocated>>
=============================================================================
