----------------------------- MODULE MemoryFiles -----------------------------
(***************************************************************************)
(* The stores of folders, characters and packs in memory                   *)
(* (adapter/repository/memory/folder.go, character.go, pack.go).  A mutex  *)
(* makes every method of a store one step.  Ids are issued by a counter:   *)
(* written with six digits they sort as the numbers do, below a million.   *)
(* Listings by pack id are sets here.                                      *)
(***************************************************************************)
EXTENDS FiniteSets, Filter

CONSTANTS Owners, Logs, Entries, BadLog,
          LastFolder,      \* bound: the folders made
          Filings,         \* bound: the folders a character is filed in
          LastSheet,       \* bound: the characters made
          PackIds, Drafts, Groups, Releases,
          Revisions,       \* bound: the revisions of a character or a pack
          Absent           \* a key the map does not have

FolderIds == 1..LastFolder
SheetIds == 1..LastSheet

VARIABLES folders, nextFolder, folderTold,     \* FolderRepository
          sheets, nextSheet, sheetTold,        \* CharacterRepository
          records, shares, private, grants, packTold   \* PackRepository

Answer(call, on, says, got) == [call |-> call, on |-> on, says |-> says, got |-> got]

FilesTypeOK ==
    /\ nextFolder \in 0..LastFolder /\ nextSheet \in 0..LastSheet
    /\ DOMAIN folders \subseteq 1..nextFolder
    /\ \A f \in DOMAIN folders : folders[f].owner \in Owners
    /\ \A c \in SheetIds : sheets[c] # Absent => c <= nextSheet /\ sheets[c].revision \in 0..Revisions
    /\ \A p \in PackIds : records[p] # Absent => records[p].revision \in 1..Revisions
    /\ shares \in [Groups -> [PackIds -> Owners \cup {Absent}] \cup {Absent}]
    /\ private \subseteq Releases
    /\ grants \in [Owners -> SUBSET PackIds]

FoldersBegin ==
    /\ folders = <<>> /\ nextFolder = 0
    /\ folderTold = Answer("none", <<Absent>>, "done", {})

SheetsBegin ==
    /\ sheets = [c \in SheetIds |-> Absent] /\ nextSheet = 0
    /\ sheetTold = Answer("none", <<Absent>>, "done", {})

PacksBegin ==
    /\ records = [p \in PackIds |-> Absent]
    /\ shares = [g \in Groups |-> Absent]
    /\ private = {}
    /\ grants = [o \in Owners |-> {}]
    /\ packTold = Answer("none", <<Absent>>, "done", {})

FilesInit == FoldersBegin /\ SheetsBegin /\ PacksBegin

-----------------------------------------------------------------------------
(* FolderRepository.                                                       *)

FolderTells(call, on, says, got) ==
    folderTold' = Answer(call, on, says, got) /\ UNCHANGED <<folders, nextFolder>>
Of(o) == {f \in DOMAIN folders : folders[f].owner = o}
DefaultOf(o) == {f \in Of(o) : folders[f].main}

\* insert: behind as many folders as the owner has.
Insert(call, o, main) ==
    /\ nextFolder < LastFolder
    /\ nextFolder' = nextFolder + 1
    /\ folders' = [f \in DOMAIN folders \cup {nextFolder + 1} |->
                      IF f \in DOMAIN folders THEN folders[f]
                      ELSE [owner |-> o, main |-> main, position |-> Cardinality(Of(o))]]
    /\ folderTold' = Answer(call, <<o>>, "done", {nextFolder + 1})

EnsureDefault(o) ==
    \/ DefaultOf(o) # {} /\ FolderTells("EnsureDefault", <<o>>, "done", DefaultOf(o))
    \/ DefaultOf(o) = {} /\ Insert("EnsureDefault", o, TRUE)

CreateFolder(o) == Insert("Create", o, FALSE)

GetFolder(f) ==
    \/ f \notin DOMAIN folders /\ FolderTells("Get", <<f>>, "missing", {})
    \/ /\ f \in DOMAIN folders
       /\ FolderTells("Get", <<f>>, "done", {<<folders[f].owner, folders[f].main>>})

\* The default first, then by position, then by id.
Before(f, h) ==
    \/ folders[f].main /\ ~folders[h].main
    \/ /\ folders[f].main = folders[h].main
       /\ \/ folders[f].position < folders[h].position
          \/ folders[f].position = folders[h].position /\ f < h
Listing(o) ==
    [i \in 1..Cardinality(Of(o)) |->
        CHOOSE f \in Of(o) : Cardinality({h \in Of(o) : Before(h, f)}) = i - 1]

ListFolders(o) == FolderTells("List", <<o>>, "done", {Listing(o)})

Movable(o) == Of(o) \ DefaultOf(o)

\* A mutant: one folder named twice passes for two.
MutantOrders(o, ids) == Len(ids) = Cardinality(Movable(o)) /\ ToSet(ids) \subseteq Movable(o)

\* CheckReorder: as many as the owner can move, each of them, none twice.
Orders(o, ids) ==
    /\ Len(ids) = Cardinality(Movable(o))
    /\ \A i \in DOMAIN ids : ids[i] \in Movable(o) \ {ids[k] : k \in 1..(i - 1)}

Reorder(o, ids) ==
    \/ ~Orders(o, ids) /\ FolderTells("Reorder", <<o, ids>>, "refused", {})
    \/ /\ Orders(o, ids)
       /\ folders' = [f \in DOMAIN folders |->
                          IF f \in ToSet(ids)
                          THEN [folders[f] EXCEPT !.position =
                                  CHOOSE i \in DOMAIN ids : ids[i] = f]
                          ELSE folders[f]]
       /\ folderTold' = Answer("Reorder", <<o, ids>>, "done", {})
       /\ UNCHANGED nextFolder

DeleteFolder(f) ==
    \/ f \notin DOMAIN folders /\ FolderTells("DeleteFolder", <<f>>, "missing", {})
    \/ /\ f \in DOMAIN folders /\ folders[f].main
       /\ FolderTells("DeleteFolder", <<f>>, "refused", {})
    \/ /\ f \in DOMAIN folders /\ ~folders[f].main
       /\ folders' = [h \in DOMAIN folders \ {f} |-> folders[h]]
       /\ folderTold' = Answer("DeleteFolder", <<f>>, "done", {})
       /\ UNCHANGED nextFolder

FoldersNext ==
    \/ \E o \in Owners :
        \/ EnsureDefault(o) \/ CreateFolder(o) \/ ListFolders(o)
        \/ \E ids \in SeqOf(FolderIds, 2) : Reorder(o, ids)
    \/ \E f \in FolderIds : GetFolder(f) \/ DeleteFolder(f)

-----------------------------------------------------------------------------
(* CharacterRepository.                                                    *)

SheetTells(call, on, says, got) ==
    sheetTold' = Answer(call, on, says, got) /\ UNCHANGED <<sheets, nextSheet>>

Creates(call, on, new) ==
    /\ nextSheet < LastSheet
    /\ nextSheet' = nextSheet + 1
    /\ sheets' = [sheets EXCEPT ![nextSheet + 1] = new]
    /\ sheetTold' = Answer(call, on, "done", {nextSheet + 1})

\* The character is looked up, changed and put back.
Changes(call, c, on, new) ==
    \/ sheets[c] = Absent /\ SheetTells(call, on, "missing", {})
    \/ /\ sheets[c] # Absent
       /\ sheets' = [sheets EXCEPT ![c] = new]
       /\ sheetTold' = Answer(call, on, "done", {})
       /\ UNCHANGED nextSheet

CreateSheet(o, f) ==
    Creates("CreateSheet", <<o>>,
            [owner |-> o, folder |-> f, public |-> FALSE, log |-> <<>>, revision |-> 0])

AtLeastOne(n) == IF n < 1 THEN 1 ELSE n

\* NewWithLog.
CreateWithLog(o, f, log) ==
    \/ log = BadLog /\ SheetTells("CreateWithLog", <<o, log>>, "refused", {})
    \/ /\ log # BadLog
       /\ Creates("CreateWithLog", <<o, log>>,
                  [owner |-> o, folder |-> f, public |-> FALSE, log |-> log,
                   revision |-> AtLeastOne(Entries[log])])

GetSheet(c) ==
    \/ sheets[c] = Absent /\ SheetTells("GetSheet", <<c>>, "missing", {})
    \/ sheets[c] # Absent /\ SheetTells("GetSheet", <<c>>, "done", {sheets[c]})

ById(cs) == [i \in 1..Cardinality(cs) |->
               CHOOSE c \in cs : Cardinality({d \in cs : d < c}) = i - 1]
Stored == {c \in SheetIds : sheets[c] # Absent}

ListSheets(o) ==
    SheetTells("ListSheets", <<o>>, "done", {ById({c \in Stored : sheets[c].owner = o})})

SetFolder(c, f) == Changes("SetFolder", c, <<c>>, [sheets[c] EXCEPT !.folder = f])
SetPublic(c, b) == Changes("SetPublic", c, <<c>>, [sheets[c] EXCEPT !.public = b])
DeleteSheet(c) == Changes("DeleteSheet", c, <<c>>, Absent)

\* Character.Commit.
Growth(c, log) == AtLeastOne(Entries[log] - Entries[sheets[c].log])

Commit(c, seen, log) ==
    \/ /\ sheets[c] # Absent
       /\ sheets[c].revision # seen \/ log = BadLog
       /\ SheetTells("Commit", <<c, seen, log>>, "refused", {})
    \/ /\ sheets[c] # Absent => sheets[c].revision = seen /\ log # BadLog
       /\ sheets[c] # Absent => seen + Growth(c, log) <= Revisions
       /\ Changes("Commit", c, <<c, seen, log>>,
                  [sheets[c] EXCEPT !.log = log, !.revision = @ + Growth(c, log)])

\* owners and open: what is asked for, {} for any.
Search(owners, open, skip, limit) ==
    LET found == Reverse(ById({c \in Stored : /\ owners # {} => sheets[c].owner \in owners
                                              /\ open # {} => sheets[c].public \in open}))
        Least(a, b) == IF a < b THEN a ELSE b
        total == Len(found)
    IN  SheetTells("Search", <<owners, open, skip, limit>>, "done",
                   {[page |-> SubSeq(found, Least(skip, total) + 1, Least(skip + limit, total)),
                     total |-> total]})

SheetsNext ==
    \/ \E o \in Owners :
        \/ ListSheets(o)
        \/ \E f \in Filings : CreateSheet(o, f) \/ \E l \in Logs : CreateWithLog(o, f, l)
    \/ \E c \in SheetIds :
        \/ GetSheet(c) \/ DeleteSheet(c)
        \/ \E f \in Filings : SetFolder(c, f)
        \/ \E b \in BOOLEAN : SetPublic(c, b)
        \/ \E r \in 0..Revisions, l \in Logs : Commit(c, r, l)
    \/ \E owners \in SUBSET Owners, open \in {{}, {TRUE}, {FALSE}} :
        \E skip \in 0..2, limit \in 0..1 : Search(owners, open, skip, limit)

-----------------------------------------------------------------------------
(* PackRepository.                                                         *)

PackTells(call, on, says, got) ==
    packTold' = Answer(call, on, says, got) /\ UNCHANGED <<records, shares, private, grants>>
PackDoes(call, on) == packTold' = Answer(call, on, "done", {})

\* A record that is not there reads as one at revision 0 of nobody's.
Old(p) == IF records[p] = Absent THEN [owner |-> Absent, revision |-> 0] ELSE records[p]

Save(p, o, draft, expected) ==
    \/ /\ Old(p).revision # expected \/ (expected > 0 /\ Old(p).owner # o)
       /\ PackTells("Save", <<p, o>>, "refused", {})
    \/ /\ Old(p).revision = expected /\ (expected > 0 => Old(p).owner = o)
       /\ expected < Revisions
       /\ records' = [records EXCEPT ![p] =
                        [owner |-> o, draft |-> draft, revision |-> expected + 1]]
       /\ PackDoes("Save", <<p, o>>)
       /\ UNCHANGED <<shares, private, grants>>

GetPack(p) ==
    \/ records[p] = Absent /\ PackTells("GetPack", <<p>>, "missing", {})
    \/ records[p] # Absent /\ PackTells("GetPack", <<p>>, "done", {records[p]})

\* by: the owner asked for, {} for the empty id.
ListFor(by, ids) ==
    PackTells("ListFor", <<by, ids>>, "done",
              {p \in PackIds : /\ records[p] # Absent
                               /\ \/ by # {} /\ records[p].owner \in by
                                  \/ p \in ids})

\* The group's map is made when the first pack is shared with it.
PutShare(g, p, o) ==
    /\ shares' = [shares EXCEPT ![g] =
                    [q \in PackIds |-> IF q = p THEN o ELSE IF @ = Absent THEN Absent ELSE @[q]]]
    /\ PackDoes("PutShare", <<g, p>>)
    /\ UNCHANGED <<records, private, grants>>

DeleteShare(g, p) ==
    /\ shares' = [shares EXCEPT ![g] = IF @ = Absent THEN Absent ELSE [@ EXCEPT ![p] = Absent]]
    /\ PackDoes("DeleteShare", <<g, p>>)
    /\ UNCHANGED <<records, private, grants>>

SharedBy(g, p) == IF shares[g] = Absent THEN Absent ELSE shares[g][p]
Shares(g) ==
    PackTells("Shares", <<g>>, "done",
              {<<p, SharedBy(g, p)>> : p \in {q \in PackIds : SharedBy(g, q) # Absent}})

\* Sorted and compacted: a set.
SetGrants(o, packs) ==
    /\ grants' = [grants EXCEPT ![o] = ToSet(packs)]
    /\ PackDoes("SetGrants", <<o, packs>>)
    /\ UNCHANGED <<records, shares, private>>
Grants(o) == PackTells("Grants", <<o>>, "done", grants[o])

PutPrivate(r) ==
    /\ private' = private \cup {r}
    /\ PackDoes("PutPrivate", <<r>>)
    /\ UNCHANGED <<records, shares, grants>>
GetPrivate(r) ==
    \/ r \notin private /\ PackTells("GetPrivate", <<r>>, "missing", {})
    \/ r \in private /\ PackTells("GetPrivate", <<r>>, "done", {r})

PacksNext ==
    \/ \E p \in PackIds :
        \/ GetPack(p)
        \/ \E o \in Owners, d \in Drafts, r \in 0..Revisions : Save(p, o, d, r)
        \/ \E g \in Groups : DeleteShare(g, p) \/ \E o \in Owners : PutShare(g, p, o)
    \/ \E ids \in SUBSET PackIds, o \in Owners : ListFor({}, ids) \/ ListFor({o}, ids)
    \/ \E g \in Groups : Shares(g)
    \/ \E o \in Owners :
        \/ Grants(o)
        \/ \E packs \in SeqOf(PackIds, 2) : SetGrants(o, packs)
    \/ \E r \in Releases : PutPrivate(r) \/ GetPrivate(r)

-----------------------------------------------------------------------------
\* The gap a new folder would land in: before a position beyond the count.
MayLandBefore(o) == \E f \in Movable(o) : folders[f].position > Cardinality(Of(o))

Contract == INSTANCE FilesContract WITH
    Ids <- FolderIds,
    base <- [o \in Owners |-> IF DefaultOf(o) = {} THEN Absent ELSE CHOOSE f \in DefaultOf(o) : TRUE],
    shelf <- [o \in Owners |-> Only(Listing(o), Movable(o))],
    gap <- [o \in Owners |-> MayLandBefore(o)], folderSaid <- folderTold,
    made <- [i \in 1..nextSheet |-> i], sheet <- sheets, sheetSaid <- sheetTold,
    pack <- records,
    share <- [g \in Groups |-> [p \in PackIds |-> SharedBy(g, p)]],
    kept <- private, grant <- grants, packSaid <- packTold

\* The stores keep the contract of their ports: one default folder and an order
\* although positions are counted and never closed up, a character's revision
\* the same whichever way its log came, and a listing of the owner's alone.
FilesInMemory == Contract!Spec
=============================================================================
