------------------------------ MODULE Hashing ------------------------------
(***************************************************************************)
(* The functions of base/hash.cc: Hash, and HashStep and HashFinish, which *)
(* are to compute the same in stages and have a copy of their own of every *)
(* part of it.  The input is the sequence of its bytes.                    *)
(*                                                                         *)
(* A uint32_t is a pair of its upper and lower 16 bits, which keeps every  *)
(* product below within the integers that TLC has.                         *)
(***************************************************************************)
EXTENDS Integers, Sequences

CONSTANT Xor16(_, _)    \* x ^ y, of 16 bits; the stages agree whatever its other values

ASSUME XorAssumption == Xor16(0, 0) = 0

Byte == 0..255

Half == 65536   \* 2^16

Word32 == (0..(Half - 1)) \X (0..(Half - 1))

Zero == <<0, 0>>

Plus(x, y) ==
    <<(x[1] + y[1] + (x[2] + y[2]) \div Half) % Half, (x[2] + y[2]) % Half>>

Xor32(x, y) == <<Xor16(x[1], y[1]), Xor16(x[2], y[2])>>

(* x << n and x >> n. *)
Shl(x, n) ==
    IF n >= 16 THEN <<(x[2] * 2^(n - 16)) % Half, 0>>
    ELSE <<(x[1] * 2^n + (x[2] * 2^n) \div Half) % Half, (x[2] * 2^n) % Half>>

Shr(x, n) ==
    IF n >= 16 THEN <<0, x[1] \div 2^(n - 16)>>
    ELSE <<x[1] \div 2^n, x[2] \div 2^n + (x[1] % 2^n) * 2^(16 - n)>>

(* The two statements the mixing is made of: x ^= x << n and x += x >> n. *)
XorShl(x, n) == Xor32(x, Shl(x, n))

PlusShr(x, n) == Plus(x, Shr(x, n))

(* get16bits of the bytes from at on, as it is on every machine. *)
Get16bits(bytes, at) == <<0, bytes[at] + 256 * bytes[at + 1]>>

(* A byte as a signed char, converted to uint32_t. *)
SignedChar(byte) == IF byte < 128 THEN <<0, byte>> ELSE <<Half - 1, Half - 256 + byte>>

-----------------------------------------------------------------------------
(* A turn of the main loop, for the four bytes from at on. *)
MixWord(hash, bytes, at) ==
    LET sum == Plus(hash, Get16bits(bytes, at))
        tmp == Xor32(Shl(Get16bits(bytes, at + 2), 11), sum)
    IN  PlusShr(Xor32(Shl(sum, 16), tmp), 11)

MixWords(hash, bytes) ==
    LET mixed[k \in 0..(Len(bytes) \div 4)] ==
            IF k = 0 THEN hash ELSE MixWord(mixed[k - 1], bytes, 4 * k - 3)
    IN  mixed[Len(bytes) \div 4]

(* The end cases: the last one, two or three bytes. *)
MixRest(hash, bytes) ==
    LET at == 4 * (Len(bytes) \div 4) + 1
        sum == Plus(hash, Get16bits(bytes, at))
    IN  CASE Len(bytes) % 4 = 3 ->
                PlusShr(Xor32(XorShl(sum, 16), Shl(SignedChar(bytes[at + 2]), 18)), 11)
          [] Len(bytes) % 4 = 2 -> PlusShr(XorShl(sum, 11), 17)
          [] Len(bytes) % 4 = 1 -> PlusShr(XorShl(Plus(hash, SignedChar(bytes[at])), 10), 1)
          [] OTHER -> hash

Avalanche(hash) ==
    PlusShr(XorShl(PlusShr(XorShl(PlusShr(XorShl(hash, 3), 5), 4), 17), 25), 6)

Hash(bytes) ==
    IF bytes = <<>> THEN Zero ELSE Avalanche(MixRest(MixWords(Zero, bytes), bytes))

-----------------------------------------------------------------------------
(* Faulty variant of the next definition: tmp is of the hash before it is changed. *)
StepWordOfOld(hash, bytes, at) ==
    LET sum == Plus(hash, Get16bits(bytes, at))
        tmp == Xor32(Shl(Get16bits(bytes, at + 2), 11), hash)
    IN  PlusShr(Xor32(Shl(sum, 16), tmp), 11)

(* The main loop of HashStep, whose tmp is an int: the same bits. *)
StepWord(hash, bytes, at) ==
    LET sum == Plus(hash, Get16bits(bytes, at))
        tmp == Xor32(Shl(Get16bits(bytes, at + 2), 11), sum)
    IN  PlusShr(Xor32(Shl(sum, 16), tmp), 11)

StepWords(hash, bytes) ==
    LET mixed[k \in 0..(Len(bytes) \div 4)] ==
            IF k = 0 THEN hash ELSE StepWord(mixed[k - 1], bytes, 4 * k - 3)
    IN  mixed[Len(bytes) \div 4]

(* The end cases of HashStep. *)
StepRest(hash, bytes) ==
    LET at == 4 * (Len(bytes) \div 4) + 1
        sum == Plus(hash, Get16bits(bytes, at))
    IN  CASE Len(bytes) % 4 = 3 ->
                PlusShr(Xor32(XorShl(sum, 16), Shl(SignedChar(bytes[at + 2]), 18)), 11)
          [] Len(bytes) % 4 = 2 -> PlusShr(XorShl(sum, 11), 17)
          [] Len(bytes) % 4 = 1 -> PlusShr(XorShl(Plus(hash, SignedChar(bytes[at])), 10), 1)
          [] OTHER -> hash

HashStep(hash, bytes) == StepRest(StepWords(hash, bytes), bytes)

HashFinish(hash) ==
    PlusShr(XorShl(PlusShr(XorShl(PlusShr(XorShl(hash, 3), 5), 4), 17), 25), 6)
=============================================================================
