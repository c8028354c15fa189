------------------------------ MODULE MCReplay ------------------------------
(* Two addresses whose hash is sampled, one whose hash is just not, and    *)
(* null, whose hash is 0.                                                  *)
EXTENDS Replay, LeakDetectorImplProperties, PointerHash, TLC

CONSTANTS sampled1, sampled2, unsampled

MCAddr == {Null, sampled1, sampled2, unsampled}

(* 0x7f3a5c000ce0, 0x7f3a5c0025d0 and 0x7f3a5c0004e0. *)
MCPointer ==
    (Null :> NullPointer)
        @@ (sampled1 :> <<224, 12, 0, 92, 58, 127, 0, 0>>)
        @@ (sampled2 :> <<208, 37, 0, 92, 58, 127, 0, 0>>)
        @@ (unsampled :> <<224, 4, 0, 92, 58, 127, 0, 0>>)

MCHashByte == [a \in MCAddr |-> PointerToHash(MCPointer[a])]

(* One frame is unwound and one fits; for a depth of 3 there is no array. *)
MCTrace == {<<>>, <<1>>, <<2>>, <<1, 2>>}

MCCallStackOf == (<<1>> :> 1) @@ (<<2>> :> 2)
=============================================================================
