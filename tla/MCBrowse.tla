------------------------------ MODULE MCBrowse ------------------------------
(* Instances of Browse for TLC. *)
EXTENDS Browse

\* One label of a content tier, one that is not.
TwoLabels == [dog |-> "subject", beach |-> "where"]

\* log(n/m) / log n.
Logs == << <<1000>>, <<1000, 0>>, <<1000, 369, 0>>, <<1000, 500, 207, 0>> >>

\* Below the gates, between the loose and the strict, above both.
Pair(image, caption, moment, soon, dog, beach) ==
    [image |-> image, caption |-> caption, moment |-> moment, soon |-> soon,
     tags |-> [dog |-> dog, beach |-> beach]]

SomePairs ==
    {Pair(900, 600, 50, FALSE, 0, 0), Pair(700, 850, 50, FALSE, 0, 400),
     Pair(550, 850, 950, TRUE, 0, 900), Pair(550, 600, 950, TRUE, 0, 0),
     Pair(550, 700, 120, TRUE, 600, 900), Pair(550, 600, 120, FALSE, 900, 900),
     Pair(700, 700, 300, TRUE, 900, 0)}

\* The library, and an album that has the seed and another photo.
LibraryAndAlbum == {{}, {1, 2}}
=============================================================================
