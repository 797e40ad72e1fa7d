----------------------------- MODULE MCLibrary -----------------------------
(* Instances of Library for TLC. *)
EXTENDS Library

\* Two folders that share a content, one of them with two copies of it.
TwoFolders ==
    {[label |-> "A", files |-> {<<"A/1", "x">>, <<"A/2", "y">>}],
     [label |-> "B", files |-> {<<"B/1", "x">>, <<"B/2", "x">>}]}

\* And both in one pick, which go under the first one's label.
TwoFoldersAndBoth ==
    TwoFolders \union
    {[label |-> "A", files |-> {<<"A/1", "x">>, <<"A/2", "y">>, <<"B/1", "x">>, <<"B/2", "x">>}]}
=============================================================================
