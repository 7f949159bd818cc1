------------------------------- MODULE RdmUid -------------------------------
(***************************************************************************)
(* RDM UIDs as the discovery code handles them: unsigned numbers of        *)
(* UID_BITS bits (48 in the code), the broadcast UID, the range that       *)
(* discovery searches, and the midpoint at which it halves a branch.       *)
(***************************************************************************)
EXTENDS Naturals

CONSTANTS
    UID_BITS,       \* width of a UID: 48 in the code, 3 or 4 in the runs
    PowerOfTwo      \* the function [k \in 0 .. UID_BITS |-> 2^k]

ASSUME UidAssumption ==
    /\ UID_BITS \in Nat \ {0, 1}
    /\ PowerOfTwo \in [0 .. UID_BITS -> Nat \ {0}]
    /\ PowerOfTwo[0] = 1
    /\ \A k \in 1 .. UID_BITS : PowerOfTwo[k] = 2 * PowerOfTwo[k - 1]

(* UID_ALL, ff:ff:ff:ff:ff:ff: addresses every responder. *)
UID_ALL == PowerOfTwo[UID_BITS] - 1

(* The bounds of the first branch that Start pushes: 0 .. 0xfffffffffffe. *)
FirstUid == 0
LastUid == PowerOfTwo[UID_BITS] - 2

Uid == FirstUid .. LastUid

Branch == [lower : Uid, upper : Uid]

(* The sign bit of a UID, 0x800000000000, and half of it. *)
TopBit == PowerOfTwo[UID_BITS - 1]
HalfTopBit == PowerOfTwo[UID_BITS - 2]

HasTopBit(uid) == uid >= TopBit

(* uid & (0x800000000000 - 1) *)
WithoutTopBit(uid) == IF HasTopBit(uid) THEN uid - TopBit ELSE uid

(* Mutant: the top bit of the lower bound is forgotten. *)
MidPosition_UpperOnly(lower, upper) ==
    (WithoutTopBit(lower) + WithoutTopBit(upper)) \div 2
        + (IF HasTopBit(upper) THEN HalfTopBit ELSE 0)

(* The code halves the sum of the lower 47 bits and adds half of each top  *)
(* bit, so that no intermediate sum needs more than 48 bits.               *)
MidPosition(lower, upper) ==
    (WithoutTopBit(lower) + WithoutTopBit(upper)) \div 2
        + (IF HasTopBit(upper) THEN HalfTopBit ELSE 0)
        + (IF HasTopBit(lower) THEN HalfTopBit ELSE 0)
=============================================================================
