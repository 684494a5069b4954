------------------------------- MODULE Shelf -------------------------------
(***************************************************************************)
(* What people keep apart from a game in play: accounts, folders, rule     *)
(* packs, and the releases a character is played by.  The four share no    *)
(* variable, so a step of one changes nothing another reads.               *)
(***************************************************************************)
EXTENDS Accounts, Folders, Packs, Solver

shelfVars == <<accountVars, folderVars, packVars, solverVars>>

ShelfInit == AccountsInit /\ FoldersInit /\ PacksInit /\ SolverInit

ShelfNext ==
    \/ AccountsNext /\ UNCHANGED <<folderVars, packVars, solverVars>>
    \/ FoldersNext /\ UNCHANGED <<accountVars, packVars, solverVars>>
    \/ PacksNext /\ UNCHANGED <<accountVars, folderVars, solverVars>>
    \/ SolverNext /\ UNCHANGED <<accountVars, folderVars, packVars>>

ShelfSpec == ShelfInit /\ [][ShelfNext]_shelfVars

\* Every table holds what its columns allow, whatever races whatever.
ShelfTypeOK == AccountsTypeOK /\ FoldersTypeOK /\ PacksTypeOK /\ SolverTypeOK

=============================================================================
