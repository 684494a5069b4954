--------------------------- MODULE MCAgentWizard ---------------------------
EXTENDS AgentWizard, TLC
CONSTANTS p1, p2, c1, q1, q2
Symmetry == Permutations({p1, p2})
=============================================================================
