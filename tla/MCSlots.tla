------------------------------ MODULE MCSlots ------------------------------
(* Instances of Slots for TLC. *)
EXTENDS Slots, TLC

CONSTANTS small, large, wide, legacy

\* Two models of one width, as shipped, and one of another.
Widths == (small :> 1) @@ (large :> 1) @@ (wide :> 2)
=============================================================================
