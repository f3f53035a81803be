---------------------------- MODULE MCAppServer ----------------------------
(* Small instances of AppServer for TLC. *)
EXTENDS AppServer, TLC

CONSTANTS c1, c2, c3

TwoClients == {c1, c2}
ThreeClients == {c1, c2, c3}
OneEach == [c \in Client |-> 1]
TwoEachButC1 == [c \in Client |-> IF c = c1 THEN 1 ELSE 2]
\* One client asks, the others come and go and hold descriptors.
OneAsks == [c \in Client |-> IF c = c1 THEN 2 ELSE 0]
OneClient == {c1}
Symmetry2 == Permutations(TwoClients)
\* The two that do not abort.
SymmetryOthers == Permutations({c2, c3})
Symmetry3 == Permutations(ThreeClients)
=============================================================================
