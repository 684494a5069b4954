---------------------------- MODULE FilesContract ----------------------------
(***************************************************************************)
(* What any store of folders, of characters and of packs promises          *)
(* (domain/character, domain/pack, as the conformance suites               *)
(* repotest/folder.go, repotest/character.go and repotest/pack.go have     *)
(* it).  Each of the three is a store of its own: a step of one is a call  *)
(* of one method, with the answer it gives.  Ids are numbers here and tell *)
(* nothing of what was made first.  Names and titles are left out; what a  *)
(* log, a draft or a release holds is one value.                           *)
(***************************************************************************)
EXTENDS FiniteSets, Filter

CONSTANTS Owners,
          Ids, Filings,   \* folders, and those a character may be filed in
          SheetIds, Logs,
          Entries,        \* how many entries a log has
          BadLog,         \* a log that does not validate
          PackIds, Drafts, Groups, Releases, Revisions,
          Absent          \* nothing is stored under the id

VARIABLES base, shelf, gap, folderSaid,    \* an owner's folders
          made, sheet, sheetSaid,          \* the characters, in the order made
          pack, share, kept, grant, packSaid

folderVars == <<base, shelf, gap, folderSaid>>
sheetVars == <<made, sheet, sheetSaid>>
packVars == <<pack, share, kept, grant, packSaid>>

\* A call, what it was about, what it was told and what it was given.
Answer(call, on, says, got) == [call |-> call, on |-> on, says |-> says, got |-> got]

FoldersInit ==
    /\ base = [o \in Owners |-> Absent]
    /\ shelf = [o \in Owners |-> <<>>]
    /\ gap = [o \in Owners |-> FALSE]
    /\ folderSaid = Answer("none", <<Absent>>, "done", {})

SheetsInit ==
    /\ made = <<>>
    /\ sheet = [c \in SheetIds |-> Absent]
    /\ sheetSaid = Answer("none", <<Absent>>, "done", {})

PacksInit ==
    /\ pack = [p \in PackIds |-> Absent]
    /\ share = [g \in Groups |-> [p \in PackIds |-> Absent]]
    /\ kept = {}
    /\ grant = [o \in Owners |-> {}]
    /\ packSaid = Answer("none", <<Absent>>, "done", {})

-----------------------------------------------------------------------------
(* Folders.                                                                *)

Ordered(o) == ToSet(shelf[o])
Shelved == UNION {Ordered(o) : o \in Owners}
Defaults == {base[o] : o \in Owners} \ {Absent}

FolderSays(call, on, says, got) ==
    folderSaid' = Answer(call, on, says, got) /\ UNCHANGED <<base, shelf, gap>>

\* A gap is closed, or stays, with another folder.
MayClose(o) == \E b \in BOOLEAN : (b => gap[o]) /\ gap' = [gap EXCEPT ![o] = b]

\* However often it is asked for, an owner has one default folder.
EnsureDefault(o) ==
    \/ base[o] # Absent /\ FolderSays("EnsureDefault", <<o>>, "done", {base[o]})
    \/ /\ base[o] = Absent
       /\ \E f \in Ids \ (Shelved \cup Defaults) :
            /\ folderSaid' = Answer("EnsureDefault", <<o>>, "done", {f})
            /\ base' = [base EXCEPT ![o] = f]
       /\ MayClose(o)
       /\ UNCHANGED shelf

\* A new folder lands last, unless deletions since the last order left a gap.
Create(o) ==
    \E f \in Ids \ (Shelved \cup Defaults) :
        /\ folderSaid' = Answer("Create", <<o>>, "done", {f})
        /\ \E i \in 1 .. Len(shelf[o]) + 1 :
             /\ gap[o] \/ i = Len(shelf[o]) + 1
             /\ shelf' = [shelf EXCEPT ![o] = InsertAt(@, i, f)]
        /\ MayClose(o)
        /\ UNCHANGED base

\* Get and Rename: a name is all that changes.
Get(f) ==
    \/ \E o \in Owners :
        \/ f = base[o] /\ FolderSays("Get", <<f>>, "done", {<<o, TRUE>>})
        \/ f \in Ordered(o) /\ FolderSays("Get", <<f>>, "done", {<<o, FALSE>>})
    \/ f \notin Shelved \cup Defaults /\ FolderSays("Get", <<f>>, "missing", {})

\* The default comes first.
List(o) ==
    FolderSays("List", <<o>>, "done",
               {IF base[o] = Absent THEN shelf[o] ELSE <<base[o]>> \o shelf[o]})

\* An order names every folder but the default, once, and nobody else's.
Reorder(o, ids) ==
    \/ /\ ToSet(ids) = Ordered(o) /\ IsInjective(ids)
       /\ folderSaid' = Answer("Reorder", <<o, ids>>, "done", {})
       /\ shelf' = [shelf EXCEPT ![o] = ids]
       /\ gap' = [gap EXCEPT ![o] = FALSE]
       /\ UNCHANGED base
    \/ /\ ToSet(ids) # Ordered(o) \/ ~IsInjective(ids)
       /\ FolderSays("Reorder", <<o, ids>>, "refused", {})

DeleteFolder(f) ==
    \/ \E o \in Owners :
        /\ f \in Ordered(o)
        /\ folderSaid' = Answer("DeleteFolder", <<f>>, "done", {})
        /\ shelf' = [shelf EXCEPT ![o] = Only(@, ToSet(@) \ {f})]
        /\ \E b \in BOOLEAN : gap' = [gap EXCEPT ![o] = b]
        /\ UNCHANGED base
    \/ f \in Defaults /\ FolderSays("DeleteFolder", <<f>>, "refused", {})
    \/ f \notin Shelved \cup Defaults /\ FolderSays("DeleteFolder", <<f>>, "missing", {})

\* The answer tells what the step was about.
FoldersNext ==
    /\ folderSaid'.call # "none"
    /\ \/ \E o \in Owners :
           \/ EnsureDefault(o) \/ Create(o) \/ List(o)
           \/ folderSaid'.call = "Reorder" /\ Reorder(o, folderSaid'.on[2])
       \/ \E f \in Ids : Get(f) \/ DeleteFolder(f)

-----------------------------------------------------------------------------
(* Characters.                                                             *)

SheetSays(call, on, says, got) == sheetSaid' = Answer(call, on, says, got) /\ UNCHANGED <<made, sheet>>
Has(c) == sheet[c] # Absent

\* A character is made under an id no character ever had.
Makes(call, on, new) ==
    \E c \in SheetIds \ ToSet(made) :
        /\ sheetSaid' = Answer(call, on, "done", {c})
        /\ made' = Append(made, c)
        /\ sheet' = [sheet EXCEPT ![c] = new]

Writes(call, c, on, new) ==
    \/ Has(c) /\ sheet' = [sheet EXCEPT ![c] = new]
       /\ sheetSaid' = Answer(call, on, "done", {}) /\ UNCHANGED made
    \/ ~Has(c) /\ SheetSays(call, on, "missing", {})

Sheet(o, folder, log, revision) ==
    [owner |-> o, folder |-> folder, public |-> FALSE, log |-> log, revision |-> revision]

CreateSheet(o, folder) == Makes("CreateSheet", <<o>>, Sheet(o, folder, <<>>, 0))

\* The revision an empty character reaches by one commit of the log.
AtLeastOne(n) == IF n < 1 THEN 1 ELSE n
CreateWithLog(o, folder, log) ==
    \/ /\ log # BadLog
       /\ Makes("CreateWithLog", <<o, log>>, Sheet(o, folder, log, AtLeastOne(Entries[log])))
    \/ log = BadLog /\ SheetSays("CreateWithLog", <<o, log>>, "refused", {})

GetSheet(c) ==
    \/ Has(c) /\ SheetSays("GetSheet", <<c>>, "done", {sheet[c]})
    \/ ~Has(c) /\ SheetSays("GetSheet", <<c>>, "missing", {})

ListSheets(o) ==
    SheetSays("ListSheets", <<o>>, "done",
              {Only(made, {c \in SheetIds : Has(c) /\ sheet[c].owner = o})})

\* A move or a publication is not a change of the log.
SetFolder(c, folder) == Writes("SetFolder", c, <<c>>, [sheet[c] EXCEPT !.folder = folder])
SetPublic(c, public) == Writes("SetPublic", c, <<c>>, [sheet[c] EXCEPT !.public = public])

DeleteSheet(c) == Writes("DeleteSheet", c, <<c>>, Absent)

\* At the revision the caller saw, and one further for each entry added, at
\* least one.
Commit(c, seen, log) ==
    \/ ~Has(c) /\ SheetSays("Commit", <<c, seen, log>>, "missing", {})
    \/ /\ Has(c) /\ (sheet[c].revision # seen \/ log = BadLog)
       /\ SheetSays("Commit", <<c, seen, log>>, "refused", {})
    \/ /\ Has(c) /\ sheet[c].revision = seen /\ log # BadLog
       /\ LET added == IF Entries[log] > Entries[sheet[c].log]
                       THEN Entries[log] - Entries[sheet[c].log] ELSE 1
          IN  Writes("Commit", c, <<c, seen, log>>,
                     [sheet[c] EXCEPT !.log = log, !.revision = seen + added])

\* Newest first, across owners; the total counts what the page leaves out.
Search(owners, open, skip, limit) ==
    LET found == Reverse(Only(made, {c \in SheetIds :
                            /\ Has(c)
                            /\ owners = {} \/ sheet[c].owner \in owners
                            /\ open = {} \/ sheet[c].public \in open}))
        page == {i \in DOMAIN found : skip < i /\ i <= skip + limit}
    IN  SheetSays("Search", <<owners, open, skip, limit>>, "done",
                  {[page |-> [i \in 1..Cardinality(page) |-> found[skip + i]],
                    total |-> Len(found)]})

\* The answer tells what the step was about.
SheetsNext ==
    /\ sheetSaid'.call # "none"
    /\ \/ \E o \in Owners :
           /\ sheetSaid'.on[1] = o
           /\ \/ ListSheets(o)
              \/ \E f \in Filings : CreateSheet(o, f) \/ \E l \in Logs : CreateWithLog(o, f, l)
       \/ /\ sheetSaid'.call # "Search"
          /\ \E c \in SheetIds :
               /\ sheetSaid'.on[1] = c
               /\ \/ GetSheet(c) \/ DeleteSheet(c)
                  \/ \E f \in Filings : SetFolder(c, f)
                  \/ \E p \in BOOLEAN : SetPublic(c, p)
                  \/ /\ sheetSaid'.call = "Commit"
                     /\ Commit(c, sheetSaid'.on[2], sheetSaid'.on[3])
       \/ /\ sheetSaid'.call = "Search"
          /\ LET q == sheetSaid'.on IN Search(q[1], q[2], q[3], q[4])

-----------------------------------------------------------------------------
(* Packs.                                                                  *)

PackSays(call, on, says, got) ==
    packSaid' = Answer(call, on, says, got) /\ UNCHANGED <<pack, share, kept, grant>>
PackDone(call, on) == packSaid' = Answer(call, on, "done", {})

\* A pack is saved at the revision its author saw, 0 for a new one, and stays
\* its author's.
Save(p, o, draft, seen) ==
    LET now == IF pack[p] = Absent THEN 0 ELSE pack[p].revision
        mayWrite == now = seen /\ (seen > 0 => pack[p].owner = o)
    IN
    \/ /\ mayWrite
       /\ PackDone("Save", <<p, o>>)
       /\ pack' = [pack EXCEPT ![p] = [owner |-> o, draft |-> draft, revision |-> seen + 1]]
       /\ UNCHANGED <<share, kept, grant>>
    \/ ~mayWrite /\ PackSays("Save", <<p, o>>, "refused", {})

GetPack(p) ==
    \/ pack[p] # Absent /\ PackSays("GetPack", <<p>>, "done", {pack[p]})
    \/ pack[p] = Absent /\ PackSays("GetPack", <<p>>, "missing", {})

\* Somebody's packs, those named, and never the whole table.
ListFor(by, ps) ==
    PackSays("ListFor", <<by, ps>>, "done",
             {p \in PackIds : pack[p] # Absent /\ (p \in ps \/ pack[p].owner \in by)})

\* A pack nobody stored can be shared: it is on the disk.
PutShare(g, p, o) ==
    /\ PackDone("PutShare", <<g, p>>)
    /\ share' = [share EXCEPT ![g][p] = o]
    /\ UNCHANGED <<pack, kept, grant>>
DeleteShare(g, p) ==
    /\ PackDone("DeleteShare", <<g, p>>)
    /\ share' = [share EXCEPT ![g][p] = Absent]
    /\ UNCHANGED <<pack, kept, grant>>
Shares(g) ==
    PackSays("Shares", <<g>>, "done",
             {<<p, share[g][p]>> : p \in {q \in PackIds : share[g][q] # Absent}})

\* A set, replaced whole.
SetGrants(o, ps) ==
    /\ PackDone("SetGrants", <<o, ps>>)
    /\ grant' = [grant EXCEPT ![o] = ToSet(ps)]
    /\ UNCHANGED <<pack, share, kept>>
Grants(o) == PackSays("Grants", <<o>>, "done", grant[o])

PutPrivate(r) ==
    /\ PackDone("PutPrivate", <<r>>)
    /\ kept' = kept \cup {r}
    /\ UNCHANGED <<pack, share, grant>>
GetPrivate(r) ==
    PackSays("GetPrivate", <<r>>, IF r \in kept THEN "done" ELSE "missing", kept \cap {r})

\* The answer tells what the step was about.
PacksNext ==
    /\ packSaid'.call # "none"
    /\ \/ \E p \in PackIds :
           /\ packSaid'.on[1] = p
           /\ \/ GetPack(p)
              \/ \E o \in Owners, d \in Drafts, r \in 0..Revisions : Save(p, o, d, r)
       \/ packSaid'.call = "ListFor" /\ ListFor(packSaid'.on[1], packSaid'.on[2])
       \/ \E g \in Groups :
           /\ packSaid'.on[1] = g
           /\ \/ Shares(g)
              \/ \E p \in PackIds : DeleteShare(g, p) \/ \E o \in Owners : PutShare(g, p, o)
       \/ \E o \in Owners :
           /\ packSaid'.on[1] = o
           /\ Grants(o) \/ \E ps \in SeqOf(PackIds, 2) : SetGrants(o, ps)
       \/ \E r \in Releases : PutPrivate(r) \/ GetPrivate(r)

-----------------------------------------------------------------------------
FoldersSpec == FoldersInit /\ [][FoldersNext]_folderVars
SheetsSpec == SheetsInit /\ [][SheetsNext]_sheetVars
PacksSpec == PacksInit /\ [][PacksNext]_packVars

Spec == FoldersSpec /\ SheetsSpec /\ PacksSpec
=============================================================================
