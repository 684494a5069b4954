---------------------------- MODULE MemoryStores ----------------------------
(***************************************************************************)
(* Every store in memory, as an application built without a database holds *)
(* them (app.go, newRepositories): accounts, groups, what they share and   *)
(* their games, folders, characters and packs.  They share no variable,    *)
(* and a call goes to one of them.                                         *)
(***************************************************************************)
EXTENDS MemoryUsers, Naturals, Sequences, FiniteSets

CONSTANTS GroupIds, PersonIds, CharacterIds, MonsterIds, GameIds,
          Nameless,                              \* a character without an id
          Owners, LastFolder, Filings,           \* folders
          Logs, EntriesOf, BadLog, LastSheet,    \* characters
          PackIds, Drafts, PackGroups, Releases, \* packs
          Revisions

VARIABLES groups, members, groupTold,                   \* groups,
          pooled, poolOrder, poolTold,                  \* what they share,
          games, rosters, gameTold,                     \* and their games
          folders, nextFolder, folderTold,              \* folders
          sheets, nextSheet, sheetTold,                 \* characters
          records, shares, private, grants, packTold    \* packs

groupsKept == <<groups, members, groupTold>>
poolsKept == <<pooled, poolOrder, poolTold>>
gamesKept == <<games, rosters, gameTold>>
foldersKept == <<folders, nextFolder, folderTold>>
sheetsKept == <<sheets, nextSheet, sheetTold>>
packsKept == <<records, shares, private, grants, packTold>>

Tables == INSTANCE MemoryTables WITH
    Groups <- GroupIds, People <- PersonIds, Characters <- CharacterIds,
    Monsters <- MonsterIds, Games <- GameIds, items <- pooled, order <- poolOrder
Files == INSTANCE MemoryFiles WITH Groups <- PackGroups, Entries <- EntriesOf

\* What says that nothing is stored is nothing that is, as nil is in the code;
\* a roster tells a character from a monster; a log that validates has so many
\* entries, and a character begins with none.
ASSUME StoresAssumption ==
    /\ Absent \notin {"owner", "dm", "player"}
    /\ Absent \notin [PersonIds -> {"owner", "dm", "player", Absent}]
    /\ Absent \notin [owner : PersonIds, rank : [PersonIds -> {"none", "player", "dm"}]]
    /\ Absent \notin GroupIds
    /\ CharacterIds \cap MonsterIds = {} /\ Nameless \notin CharacterIds
    /\ IsFiniteSet(CharacterIds) /\ IsFiniteSet(MonsterIds)
    /\ Absent \notin [group : GroupIds, roster : Seq(CharacterIds \cup MonsterIds)]
    /\ Absent \notin Nat /\ LastFolder \in Nat /\ LastSheet \in Nat
    /\ Absent \notin [owner : Owners, folder : Filings, public : BOOLEAN, log : Logs, revision : Nat]
    /\ <<>> \in Logs /\ BadLog # <<>>
    /\ \A l \in Logs \ {BadLog} : EntriesOf[l] \in Nat
    /\ Absent \notin [PackIds -> Owners \cup {Absent}]

StoresInit ==
    /\ MemoryInit
    /\ Tables!GroupsBegin /\ Tables!PoolsBegin /\ Tables!GamesBegin
    /\ Files!FoldersBegin /\ Files!SheetsBegin /\ Files!PacksBegin

GroupsStep == Tables!GroupsNext /\ UNCHANGED <<poolsKept, gamesKept>>
PoolsStep == Tables!PoolsNext /\ UNCHANGED <<groupsKept, gamesKept>>
GamesStep == Tables!GamesNext /\ UNCHANGED <<groupsKept, poolsKept>>
FoldersStep == Files!FoldersNext /\ UNCHANGED <<sheetsKept, packsKept>>
SheetsStep == Files!SheetsNext /\ UNCHANGED <<foldersKept, packsKept>>
PacksStep == Files!PacksNext /\ UNCHANGED <<foldersKept, sheetsKept>>

tablesKept == <<groupsKept, poolsKept, gamesKept>>
filesKept == <<foldersKept, sheetsKept, packsKept>>
storesKept == <<memoryVars, tablesKept, filesKept>>

StoresNext ==
    \/ MemoryNext /\ UNCHANGED <<tablesKept, filesKept>>
    \/ (GroupsStep \/ PoolsStep \/ GamesStep) /\ UNCHANGED <<memoryVars, filesKept>>
    \/ (FoldersStep \/ SheetsStep \/ PacksStep) /\ UNCHANGED <<memoryVars, tablesKept>>

StoresSpec == StoresInit /\ [][StoresNext]_storesKept

\* The stores in memory (memory/user.go, group.go, game.go, folder.go,
\* character.go, pack.go) keep what their ports promise although each keeps one
\* thing in two places: the index of proofs never tells of an account that is
\* not there nor misses one that is, no seat outlives its group or roster its
\* game, a pool's order and content tell the same, and positions that are
\* counted and never closed up still make the order that was asked for.
StoresInMemory == UsersInMemory /\ Tables!TablesInMemory /\ Files!FilesInMemory
=============================================================================
