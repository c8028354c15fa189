------------------------- MODULE MCCallStackManager -------------------------
(***************************************************************************)
(* Stacks that are prefixes and permutations of each other, over two code  *)
(* addresses and the null address, which is taken like any other.           *)
(* A null address in front does not change the hash of a stack, so two     *)
(* pairs of stacks collide here.                                           *)
(***************************************************************************)
EXTENDS CallStackHashing, Bitwise

BitXor(x, y) == x ^^ y

(* 0x7f3a80c4d2e1, 0x00400b5e and 0, least significant byte first. *)
f1 == <<225, 210, 196, 128, 58, 127, 0, 0>>

f2 == <<94, 11, 64, 0, 0, 0, 0, 0>>

null == <<0, 0, 0, 0, 0, 0, 0, 0>>

MCFrame == {f1, f2, null}

MCStack == {<<f1>>, <<null, f1>>, <<f1, f2>>, <<null>>, <<null, null>>}
=============================================================================
