------------------------- MODULE MCCorpusActivation -------------------------
(* One thread that activates corpora, for TLC.                             *)
EXTENDS CorpusActivation

CONSTANTS w1, production
=============================================================================
