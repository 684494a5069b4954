------------------------------ MODULE MCShelf ------------------------------
(***************************************************************************)
(* The four parts of Shelf share no variable: each is explored with the    *)
(* others as they begin, and not in every combination.                     *)
(***************************************************************************)
EXTENDS Shelf, TLC
CONSTANTS a1, a2, g1, k1, s1, o1, o2, c1, h1, secret, t1, q1, q2

SheetsOf == [c \in Sheets |-> o1]
AuthorsOf == [h \in Homebrew |-> o1]
Sits == [t \in Tables |-> Authors]

\* Releases of three packs: chains, a pack whose newer release narrows what
\* it admits, a circle, and one of another edition.
Need(i, v) == [id |-> i, admits |-> v]
Doc(i, v, n) == [id |-> i, version |-> v, edition |-> 1, needs |-> n]
Docs == {
    Doc(1, 1, {}), Doc(1, 1, {Need(2, {1, 2})}),
    Doc(1, 2, {Need(2, {2})}), Doc(1, 2, {Need(2, {1}), Need(3, {1, 2})}),
    Doc(2, 1, {}), Doc(2, 1, {Need(3, {1, 2})}),
    Doc(2, 2, {Need(3, {1})}), Doc(2, 2, {Need(1, {1, 2})}),
    Doc(3, 1, {}), Doc(3, 2, {Need(2, {1})}),
    [Doc(3, 2, {}) EXCEPT !.edition = 2]}
Asks == {
    {Need(1, {1, 2})}, {Need(1, {2})}, {Need(2, {1, 2}), Need(3, {1, 2})},
    {Need(1, {1, 2}), Need(3, {2})}, {Need(1, {1, 2}), Need(2, {1})},
    {Need(2, {2}), Need(3, {1, 2})}}

\* The solver begins in many states; the others are explored from one of them.
SolverRests == installed = {} /\ lock = {} /\ asked = {Need(1, {2})}

\* Bound: characters are filed among three folders; a fourth is made only
\* where none is, for the orders of three and the folders made meanwhile.
FourthAlone ==
    lastId' = 4 => \A c \in Sheets, q \in Tasks : filed'[c] = 0 /\ task'[q].sheet = NoSheet

Next ==
    \/ /\ FoldersInit /\ PacksInit /\ SolverRests
       /\ AccountsNext /\ UNCHANGED <<folderVars, packVars, solverVars>>
    \/ /\ AccountsInit /\ PacksInit /\ SolverRests
       /\ FoldersNext /\ FourthAlone /\ UNCHANGED <<accountVars, packVars, solverVars>>
    \/ /\ AccountsInit /\ FoldersInit /\ SolverRests
       /\ PacksNext /\ UNCHANGED <<accountVars, folderVars, solverVars>>
    \/ /\ AccountsInit /\ FoldersInit /\ PacksInit
       /\ SolverNext /\ UNCHANGED <<accountVars, folderVars, packVars>>

\* Every step is one of ShelfNext.
Spec == ShelfInit /\ [][Next]_shelfVars

Symmetry == Permutations({a1, a2}) \cup Permutations({q1, q2})
=============================================================================
