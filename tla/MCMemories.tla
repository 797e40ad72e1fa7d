----------------------------- MODULE MCMemories -----------------------------
(* Instances of Memories for TLC. *)
EXTENDS Memories, TLC

CONSTANTS town, coast, nowhere

At(t, c) == [time |-> t, cell |-> c]

\* A day at home and a stay at the coast over a night, and a free row.
TwoDays == {[i \in 1..5 |-> IF i <= 2 THEN At(0, town)
                            ELSE IF i <= 4 THEN At(30, coast) ELSE NoShot]}

\* One more photo of the coast.
Coast == {At(30, coast)}

\* Hours apart, a night apart, more than a trip's gap apart, with and without GPS.
ManyShots == {At(0, town), At(4, nowhere), At(9, coast), At(20, nowhere), At(30, coast), At(50, coast)}
AllLibraries == [1..5 -> ManyShots]
=============================================================================
