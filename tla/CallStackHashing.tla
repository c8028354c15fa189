-------------------------- MODULE CallStackHashing --------------------------
(***************************************************************************)
(* The call stacks of CallStackManager with the hashes that base/hash.cc   *)
(* gives them.                                                             *)
(***************************************************************************)
EXTENDS CallStackManager, Hashing, SequencesExt

(* A code address is the sequence of its bytes in memory. *)
ASSUME FrameAssumption == Frame \subseteq [1..8 -> Byte]

HashOf(stack) == Hash(FlattenSeq(stack))

(***************************************************************************)
(* Hashing the bytes of a stack in two stages, the first of them a number  *)
(* of whole words, comes to the same as hashing them at once; and so for   *)
(* every shorter input, whether it ends in whole words or in one to three  *)
(* bytes, of either sign (hash.cc; tests StartFinish and Progressive).     *)
(***************************************************************************)
HashesInStages ==
    LET bytes == FlattenSeq(arrays[Buffer])
    IN  \A n \in 0..Len(bytes) : \A k \in 0..(n \div 4) :
            HashFinish(HashStep(HashStep(Zero, SubSeq(bytes, 1, 4 * k)),
                                SubSeq(bytes, 4 * k + 1, n)))
                = Hash(SubSeq(bytes, 1, n))
=============================================================================
