--------------------------- MODULE MCAccountLoads ---------------------------
(***************************************************************************)
(* What a comment says of how an account is read, and the isolation level  *)
(* of its transaction does not give.                                       *)
(***************************************************************************)
EXTENDS PostgresUsers
CONSTANTS a1, a2

\* "a concurrent write cannot produce an account whose credential list is from
\* a different instant than its header" (the comment on load): an account
\* found by a proof lists that proof.
LoadedAtOneInstant == \A q \in Calls :
    tx[q].at = "loaded" => tx[q].on \subseteq tx[q].wrote
=============================================================================
