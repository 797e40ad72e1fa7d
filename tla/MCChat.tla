------------------------------- MODULE MCChat -------------------------------
(* Instances of Chat for TLC. *)
EXTENDS Chat

CONSTANTS p1, p2

\* One question of each kind; one cites a photo itself.
SomeQuestions ==
    {[kind |-> k, names |-> IF k = "topic" THEN {p2} ELSE {}] : k \in Kinds}

\* A character at a time, and pieces that carry more than one.
Pieces == {<<"[">>, <<"photo:", p1>>, <<"photo:", p2>>, <<"]">>, <<"[", "photo:", p1, "]">>}
=============================================================================
