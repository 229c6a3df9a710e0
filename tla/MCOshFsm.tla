------------------------------ MODULE MCOshFsm ------------------------------
(* The event state machine for TLC: two states, an EventBits_t of two bits,   *)
(* two orthogonal masks and one that overlaps both; the mask {1, 2} has a bit *)
(* beyond the width and is truncated to {1}.                                  *)
EXTENDS OshFsm

(* The order of masks is the order of the numbers they are.                   *)
ASSUME BelowIsLess ==
    \A a, b \in SUBSET (0 .. 5) : Below(a, b) <=> BitsValue(a) < BitsValue(b)
=============================================================================
