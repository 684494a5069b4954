------------------------------ MODULE MCTable ------------------------------
EXTENDS Table, TLC
CONSTANTS u1, u2, u3, g1, g2, c1, c2, x1, x2, q1, q2

\* Half of the characters are the first person's.
Keepers == [c \in Characters |-> IF c = c1 THEN u1 ELSE u2]
\* Every game is made at the first group.
GamesGroup == [x \in Games |-> g1]

\* Nothing tells people apart who own no character, or two requests.
Symmetry == Permutations({u2, u3}) \cup Permutations({q1, q2})
=============================================================================
