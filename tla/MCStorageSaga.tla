--------------------------- MODULE MCStorageSaga ---------------------------
(* Instances of StorageSaga for TLC.                                       *)
EXTENDS StorageSaga, TLC

CONSTANTS w1, w2, w3, alice, bob, k1, k2, k3, m1, m2, m3, main, other, p1, p2, corpus1, corpus2

\* m1 and m2 are meant for one collection and have an artifact in common; m3 goes
\* to another collection but claims m1's corpus identity.
TwoCollections == [m \in Manifests |-> IF m = m3 THEN other ELSE main]
Projected == [m \in Manifests |-> IF m = m1 THEN {p1, p2} ELSE {p2}]
TwoCorpora == [m \in Manifests |-> IF m = m2 THEN corpus2 ELSE corpus1]

Symmetric == Permutations(Workers) \cup Permutations(Keys)
=============================================================================
