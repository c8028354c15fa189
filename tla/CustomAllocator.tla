--------------------------- MODULE CustomAllocator ---------------------------
(***************************************************************************)
(* CustomAllocator (custom_allocator.cc): the allocator of everything the  *)
(* detector owns, over an arena of its own, or for unit tests over new and *)
(* delete.                                                                 *)
(*                                                                         *)
(* Its clients call Initialize, Shutdown and InitializeForUnitTest in      *)
(* pairs, and free what they got before, in the same mode.                 *)
(***************************************************************************)
EXTENDS LowLevelAlloc

VARIABLES
    g_arena,                            \* the arena, by the block that its object is in
    g_is_initalized_for_unit_test

allocatorVars == <<g_arena, g_is_initalized_for_unit_test>>

vars == <<arenaVars, allocatorVars>>

(* Whether g_arena exists.  After Shutdown the pointer is left as it was. *)
HasArena == g_arena \in DOMAIN heap

AllocatorInit == Init /\ g_arena = Null /\ g_is_initalized_for_unit_test = FALSE

Initialize ==
    /\ ~HasArena /\ ~g_is_initalized_for_unit_test
    /\ \E arena \in MemoryStart..MemoryEnd : NewArena(arena) /\ g_arena' = arena
    /\ UNCHANGED g_is_initalized_for_unit_test

InitializeForUnitTest ==
    /\ ~HasArena
    /\ g_is_initalized_for_unit_test' = TRUE
    /\ UNCHANGED <<arenaVars, g_arena>>

(* Shutdown: the arena stays if there are allocations left in it. *)
Shutdown ==
    \/ /\ ~g_is_initalized_for_unit_test /\ HasArena
       /\ IF CanBeDeleted(g_arena) THEN DeleteArena(g_arena) ELSE UNCHANGED arenaVars
       /\ UNCHANGED allocatorVars
    \/ /\ g_is_initalized_for_unit_test
       /\ g_is_initalized_for_unit_test' = FALSE
       /\ UNCHANGED <<arenaVars, g_arena>>

(* Whether Allocate and Free leave the arena alone: they use new and delete, or, before *)
(* the first Initialize, do nothing.                                                    *)
BypassesArena == g_is_initalized_for_unit_test \/ g_arena = Null

Allocate(size) ==
    \/ ~BypassesArena /\ HasArena /\ Alloc(size, g_arena) /\ UNCHANGED allocatorVars
    \/ BypassesArena /\ UNCHANGED vars

FreeBlock(b) ==
    /\ ~BypassesArena /\ HasArena
    /\ b \in DOMAIN heap[g_arena].header /\ heap[g_arena].header[b].allocated
    /\ Free(b, g_arena)
    /\ UNCHANGED allocatorVars

Next ==
    \/ Initialize
    \/ InitializeForUnitTest
    \/ Shutdown
    \/ \E size \in Request : Allocate(size)
    \/ \E b \in MemoryStart..MemoryEnd : FreeBlock(b)

Spec == AllocatorInit /\ [][Next]_vars
=============================================================================
