-------------------------- MODULE CallStackManager --------------------------
(***************************************************************************)
(* Class CallStackManager (call_stack_manager.h, .cc): it keeps one        *)
(* CallStack object per distinct call stack and hands out pointers to      *)
(* them, which the address map and the call stack tables compare instead   *)
(* of the stacks.  Memory is explicit: the caller passes the stack in an   *)
(* array of its own, which it fills again for every call, so what the      *)
(* manager keeps must not depend on it.                                    *)
(***************************************************************************)
EXTENDS Integers, Sequences, FiniteSets, Functions

CONSTANTS
    Address,        \* addresses the custom allocator can return; their number is a bound
    Buffer,         \* address of the caller's array
    Frame,          \* code addresses
    Stack,          \* the call stacks that occur: nonempty sequences of code addresses
    StackHash(_)    \* base::Hash of the bytes of a call stack; nothing depends on its values

ASSUME ManagerAssumption ==
    /\ IsFiniteSet(Address)
    /\ Buffer \notin Address
    /\ Stack \subseteq Seq(Frame) \ {<<>>}

VARIABLES
    arrays,      \* arrays of code addresses in memory: address -> contents
    objects,     \* CallStack objects in memory: address -> [depth, stack, hash]
    call_stacks, \* call_stacks_: the addresses in the hash set
    destroyed,   \* whether the destructor ran
    returned     \* history: pairs of a stack asked for and the pointer returned

vars == <<arrays, objects, call_stacks, destroyed, returned>>

Init ==
    /\ arrays = [a \in {Buffer} |-> <<>>]
    /\ objects = [p \in {} |-> 0]
    /\ call_stacks = {}
    /\ destroyed = FALSE
    /\ returned = {}

-----------------------------------------------------------------------------
InUse == DOMAIN arrays \union DOMAIN objects

(***************************************************************************)
(* CustomAllocator::Allocate: the address of a block not in use.  Which    *)
(* one is immaterial, addresses being only compared for equality.          *)
(***************************************************************************)
Allocate(in_use) == CHOOSE a \in Address : a \notin in_use

(* The object GetCallStack looks up with: it points into the caller's array. *)
Temp(stack) == [depth |-> Len(stack), stack |-> Buffer, hash |-> StackHash(stack)]

(* CallStackPointerEqual: same depth, same code addresses. *)
Equal(memory, c1, c2) ==
    /\ c1.depth = c2.depth
    /\ \A i \in 1..c1.depth : memory[c1.stack][i] = memory[c2.stack][i]

(* Faulty variant: stacks of the same hash are taken for the same stack. *)
HashMatches(memory, temp) == {p \in call_stacks : objects[p].hash = temp.hash}

(* unordered_set::find: same stored hash, and equal. *)
Matches(memory, temp) ==
    {p \in call_stacks : objects[p].hash = temp.hash /\ Equal(memory, objects[p], temp)}

(***************************************************************************)
(* GetCallStack: return the object found, or copy the stack into a new     *)
(* array and insert a new object that points to the copy.                  *)
(***************************************************************************)
GetCallStack(stack) ==
    /\ ~destroyed
    /\ LET memory == [arrays EXCEPT ![Buffer] = stack]
           temp == Temp(stack)
           found == Matches(memory, temp)
       IN  \/ /\ found # {}
              /\ \E p \in found : returned' = returned \union {<<stack, p>>}
              /\ arrays' = memory
              /\ UNCHANGED <<objects, call_stacks>>
           \/ /\ found = {}
              /\ Cardinality(Address \ InUse) >= 2
              /\ LET p == Allocate(InUse)
                     copy == Allocate(InUse \union {p})
                 IN /\ arrays' = [a \in DOMAIN memory \union {copy} |->
                                      IF a = copy THEN stack ELSE memory[a]]
                    /\ objects' = [q \in DOMAIN objects \union {p} |->
                                      IF q = p THEN [temp EXCEPT !.stack = copy] ELSE objects[q]]
                    /\ call_stacks' = call_stacks \union {p}
                    /\ returned' = returned \union {<<stack, p>>}
    /\ UNCHANGED destroyed

NoArrays == {} \* Faulty variant of the next definition

OwnedArrays == {objects[p].stack : p \in call_stacks}

(* The destructor: free every object in the set, and the array it points to. *)
Destroy ==
    /\ ~destroyed
    /\ destroyed' = TRUE
    /\ arrays' = Restrict(arrays, DOMAIN arrays \ OwnedArrays)
    /\ objects' = Restrict(objects, DOMAIN objects \ call_stacks)
    /\ call_stacks' = {}
    /\ UNCHANGED returned

Next == Destroy \/ \E stack \in Stack : GetCallStack(stack)

Spec == Init /\ [][Next]_vars

-----------------------------------------------------------------------------
(***************************************************************************)
(* A pointer identifies a call stack for as long as the manager lives:     *)
(* asking for the same stack again gives the same pointer, different       *)
(* stacks never share one even when their hashes collide or one is a       *)
(* prefix of the other, and the object still reads as the stack that was   *)
(* asked for, however often the caller reused its array since              *)
(* (GetCallStack and CallStackPointerEqual, lines 28 to 63).  The tables   *)
(* and the address map key on these pointers.                              *)
(***************************************************************************)
Reads(p, stack) == SubSeq(arrays[objects[p].stack], 1, objects[p].depth) = stack

PointersIdentifyStacks ==
    /\ \A r, s \in returned : (r[1] = s[1]) <=> (r[2] = s[2])
    /\ ~destroyed => \A r \in returned : r[2] \in call_stacks /\ Reads(r[2], r[1])

(***************************************************************************)
(* The destructor gives back all the memory the manager took and nothing   *)
(* else; the caller's array is not the manager's to free (lines 19 to 26). *)
(***************************************************************************)
DestructorFreesWhatItOwns == destroyed => objects = <<>> /\ DOMAIN arrays = {Buffer}
=============================================================================
