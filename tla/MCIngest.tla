------------------------------ MODULE MCIngest ------------------------------
EXTENDS Ingest, TLC

\* The application's captions are interchangeable: no action compares two words.
TextSymmetry == Permutations(Texts)

\* Re-embed and re-tag: an upstream and a downstream stage, reset one by one.
ReEmbed == {<<"embed", "taxonomy">>}
=============================================================================
