------------------------------ MODULE MCStores ------------------------------
(***************************************************************************)
(* The table under two requests at once and, beside it, the account store  *)
(* in PostgreSQL against what its port promises (UsersInPostgres).  The    *)
(* two share no variable, so a step of one changes nothing another reads:  *)
(* each is explored with the other as it begins.                           *)
(***************************************************************************)
EXTENDS MCTable, PostgresUsers

CONSTANTS a1, a2, l1, i1

StoresInit == Init /\ PostgresInit

StoresNext ==
    \/ PostgresInit /\ Next /\ UNCHANGED postgresVars
    \/ Init /\ PostgresNext /\ UNCHANGED vars

StoresSpec == StoresInit /\ [][StoresNext]_<<vars, postgresVars>>

\* No step reads the answer the step before gave.
View == <<vars, users, ways, tx>>

StoresSymmetry == Symmetry \cup Permutations({a1, a2})
=============================================================================
