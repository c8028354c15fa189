----------------------------- MODULE PointerHash -----------------------------
(***************************************************************************)
(* PointerToHash (leak_detector.cc): the upper eight bits of a pointer     *)
(* times a constant, modulo 2^64.  A number of 64 bits is the sequence of  *)
(* its eight bytes, the lowest first, so that it is multiplied byte by     *)
(* byte, with integers that TLC has.                                       *)
(***************************************************************************)
EXTENDS Integers, FiniteSetsExt

kMultiplier == <<105, 45, 56, 235, 8, 234, 223, 157>>   \* 0x9ddfea08eb382d69

PointerToHash(ptr) ==
    LET column[k \in 0..8] ==
            IF k = 0 THEN 0
            ELSE MapThenSumSet(LAMBDA i : ptr[i] * kMultiplier[k + 1 - i], 1..k)
                     + column[k - 1] \div 256
    IN  column[8] % 256

NullPointer == [i \in 1..8 |-> 0]
=============================================================================
