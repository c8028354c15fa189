------------------------- MODULE MCLeakDetectorImpl -------------------------
(* Addresses are interchangeable: no property names one.                   *)
EXTENDS LeakDetectorImplProperties, TLC

AddrSymmetry == Permutations(Addr)
=============================================================================
