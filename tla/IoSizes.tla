------------------------------ MODULE IoSizes ------------------------------
(***************************************************************************)
(* The sizes of the I/O registers that count and shift.                    *)
(***************************************************************************)
EXTENDS Naturals

CONSTANTS
    TimaSize,    \* 256: how far TIMA counts before it begins again
    DivSize,     \* 65536, for the divider; the timer looks at no bit above 512
    Width        \* bits of SB, 8

ASSUME SizesAssumption == TimaSize \in Nat \ {0} /\ DivSize \in Nat \ {0}
ASSUME WidthAssumption == Width \in Nat /\ Width >= 2
=============================================================================
