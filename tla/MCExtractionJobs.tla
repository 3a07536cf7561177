-------------------------- MODULE MCExtractionJobs --------------------------
(* Instances of ExtractionJobs for TLC.                                     *)
EXTENDS ExtractionJobs, TLC

CONSTANTS w1, w2, alice, bob, cfgA, cfgB, runA

\* Both configurations derive one run identity: they differ in the prompt only.
OneRun == [c \in Configs |-> runA]

Symmetric == Permutations(Workers)
=============================================================================
