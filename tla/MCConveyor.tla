------------------------------ MODULE MCConveyor ------------------------------
(* Instances of Conveyor for TLC. *)
EXTENDS Conveyor

\* Two units fit the budget side by side, three do not; the text embedder's
\* declared cost is over the budget, as llm_vision's once was.
SomeCosts == [u \in Units |-> CASE u = "image_embed" -> 2 [] u = "text_embed" -> 9 [] OTHER -> 2]

OpSymmetry == Permutations(Ops)
=============================================================================
