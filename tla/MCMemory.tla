------------------------------ MODULE MCMemory ------------------------------
(***************************************************************************)
(* The table under requests that are cut short and, beside it, the stores  *)
(* in memory, each against what its port promises.  They share no          *)
(* variable, so a step of one changes nothing another reads: each is       *)
(* explored with the others as they begin.                                 *)
(***************************************************************************)
EXTENDS MCTable, MemoryStores

CONSTANTS a1, a2, l1, l2, i1, m1, k1, k2, d1, h1, h2, r1

\* Logs of no entry, of one, of two, and one that does not validate.
LogsKept == {<<>>, <<k1>>, <<k1, k2>>, BadLog}
EntriesKept == [l \in LogsKept \ {BadLog} |-> Len(l)]

BesideInit == Init /\ StoresInit

\* Every step is one of Next or one of StoresNext.
BesideNext ==
    \/ StoresInit /\ Next /\ UNCHANGED storesKept
    \/ /\ Init /\ Tables!TablesInit /\ Files!FilesInit
       /\ MemoryNext /\ UNCHANGED <<vars, tablesKept, filesKept>>
    \/ /\ Init /\ MemoryInit /\ Files!FilesInit
       /\ \/ Tables!PoolsBegin /\ Tables!GamesBegin /\ GroupsStep
          \/ Tables!GroupsBegin /\ Tables!GamesBegin /\ PoolsStep
          \/ Tables!GroupsBegin /\ Tables!PoolsBegin /\ GamesStep
       /\ UNCHANGED <<vars, memoryVars, filesKept>>
    \/ /\ Init /\ MemoryInit /\ Tables!TablesInit
       /\ \/ Files!SheetsBegin /\ Files!PacksBegin /\ FoldersStep
          \/ Files!FoldersBegin /\ Files!PacksBegin /\ SheetsStep
          \/ Files!FoldersBegin /\ Files!SheetsBegin /\ PacksStep
       /\ UNCHANGED <<vars, memoryVars, tablesKept>>

BesideSpec == BesideInit /\ [][BesideNext]_<<vars, storesKept>>

\* Nothing tells two people apart who trade places with what they keep.
Trades == {p \in Permutations(People \cup Characters) :
               \A c \in Characters : p[c] \in Characters /\ p[Keeper[c]] = Keeper[p[c]]}

\* No step reads the answer the step before gave.
View == <<vars, items, index, groups, members, pooled, poolOrder, games, rosters,
          folders, nextFolder, sheets, nextSheet, records, shares, private, grants>>
=============================================================================
