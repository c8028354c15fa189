--------------------------- MODULE MCLeakyProgram ---------------------------
EXTENDS LeakyProgram

CONSTANT NumAddr

MCAddr == 1..NumAddr

(* sizeof(Complex) plus 24, 40, 40, 52 and 52. *)
MCRootSize == <<40, 56, 56, 68, 68>>

(***************************************************************************)
(* The points of a sector share one place, or have one each; the places    *)
(* come in order, in disorder, or in the reverse order.                    *)
(***************************************************************************)
MCPlaceMaps ==
    {[c \in Cell |-> ((c - 1) \div 5) + 1],
     [c \in Cell |-> ((c - 1) % NumPlaces) + 1],
     [c \in Cell |-> ((2 * c) % NumPlaces) + 1],
     [c \in Cell |-> NumPlaces - (c - 1) \div 5]}

(* The call stacks of the test, without their lowest two hexadecimal digits. *)
MCRawStack ==
    <<<<\h8001, \h9000, \h8800, \h8100>>,
      <<\h9400, \h9800, \hdeadbe, \h9a00>>,
      <<\h8f0d, \h803a, \h9100>>,
      <<\h90fc, \h900df0, \h8010, \h8800, \hdeadca, \h9f00, \h8700, \h9603>>,
      <<\h8c00, \h85d0, \h9213, \h7800>>,
      <<\h9900, \h8888, \h830a, \h8e00, \hc000>>>>
=============================================================================
