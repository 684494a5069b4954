------------------------------ MODULE Folders ------------------------------
(***************************************************************************)
(* Folders, their order, and the characters filed in them                  *)
(* (usecase/character/folder.go).  Folders and characters are two stores:  *)
(* the database does not know which folder a character names, so what a    *)
(* request read of the one may have changed when it writes to the other.   *)
(*                                                                         *)
(* Names are left out, and so are limits, which only refuse.  A character  *)
(* is deleted in one step: Table has the steps of that.                    *)
(***************************************************************************)
EXTENDS Naturals, FiniteSets, SequencesExt

\* Mutant...: see Membership.

CONSTANTS Owners,
          Sheets,          \* character ids, each drawn once
          SheetOf,         \* whose character it is
          Tasks,           \* the requests being served at once
          NoSheet,
          FolderIds        \* bound: the ids the sequence has drawn

ASSUME FoldersAssumption ==
    /\ SheetOf \in [Sheets -> Owners]
    /\ NoSheet \notin Sheets /\ NoSheet \notin Owners
    /\ FolderIds \in Nat

VARIABLES folders,   \* the rows of folders
          lastId,    \* the last value of folders_id_seq
          filed,     \* the folder a character is filed in, 0 before it is made
          gone,      \* the characters that were deleted
          task

folderVars == <<folders, lastId, filed, gone, task>>

Folder == [id : 1..FolderIds, owner : Owners, main : BOOLEAN, position : Nat]

\* folder: what the request is about, 0 for none.  left: the characters a
\* deletion has still to delete of those it listed.  order: what a
\* reordering asks for.  seen: the folders its transaction reads to lock.
Task == [step : {"idle", "make", "move", "order", "lock", "write", "list", "empty"},
         by : Owners \cup {NoSheet}, folder : 0..FolderIds, sheet : Sheets \cup {NoSheet},
         listed : SUBSET Sheets, left : SUBSET Sheets,
         order : Seq(1..FolderIds), seen : SUBSET (1..FolderIds)]

NoTask == [step |-> "idle", by |-> NoSheet, folder |-> 0, sheet |-> NoSheet,
           listed |-> {}, left |-> {}, order |-> <<>>, seen |-> {}]

FoldersTypeOK ==
    /\ folders \subseteq Folder
    /\ lastId \in 0..FolderIds
    /\ filed \in [Sheets -> 0..lastId] /\ gone \subseteq Sheets
    /\ task \in [Tasks -> Task]
    /\ \A f, h \in folders : f.id = h.id => f = h

FoldersInit ==
    /\ folders = {} /\ lastId = 0
    /\ filed = [c \in Sheets |-> 0] /\ gone = {}
    /\ task = [q \in Tasks |-> NoTask]

Of(o) == {f \in folders : f.owner = o}
Mains(o) == {f \in Of(o) : f.main}
Owned(o, id) == \E f \in Of(o) : f.id = id
Movable(o, id) == \E f \in Of(o) : f.id = id /\ ~f.main

\* FolderRepository.List: the default first, then by position, then by id.
Before(f, h) ==
    \/ f.main /\ ~h.main
    \/ f.main = h.main /\ f.position < h.position
    \/ f.main = h.main /\ f.position = h.position /\ f.id < h.id

Listing(o) == CHOOSE l \in SetToSeqs(Of(o)) : \A i, j \in DOMAIN l : i < j => Before(l[i], l[j])

Stored(c) == filed[c] # 0 /\ c \notin gone

-----------------------------------------------------------------------------
(* The statements of FolderRepository.                                     *)

\* The position of a new folder is the number of its owner's folders.
Insert(o, main) ==
    /\ lastId < FolderIds
    /\ lastId' = lastId + 1
    /\ folders' = folders \cup
          {[id |-> lastId + 1, owner |-> o, main |-> main, position |-> Cardinality(Of(o))]}

MutantEnsureDefault(o) == Insert(o, TRUE)

\* ON CONFLICT on folders_one_default_idx: the second of two does nothing.
EnsureDefault(o) == IF Mains(o) = {} THEN Insert(o, TRUE) ELSE UNCHANGED <<folders, lastId>>

MutantLockedRows == {}

\* What transactions that are under way have locked: an UPDATE, a DELETE and
\* another FOR UPDATE wait for it, an INSERT does not.
LockedRows == UNION {task[q].seen : q \in {r \in Tasks : task[r].step = "write"}}

\* CheckReorder: each folder but the default, once.
CheckReorder(have, order) ==
    LET movable == {f.id : f \in {h \in have : ~h.main}} IN
    ToSet(order) = movable /\ Len(order) = Cardinality(movable)

\* The folders named are numbered from one on, zero being the default's.
SetPositions(order) ==
    LET moved == {f \in folders : f.id \in ToSet(order)} IN
    folders' = (folders \ moved) \cup
        {[f EXCEPT !.position = CHOOSE i \in DOMAIN order : order[i] = f.id] : f \in moved}

-----------------------------------------------------------------------------
(* The requests.                                                           *)

Ask(q, asked) ==
    /\ task[q].step = "idle"
    /\ task' = [task EXCEPT ![q] = asked]

Finish(q) == task' = [task EXCEPT ![q] = NoTask]

\* The first listing of an account makes its default folder.
ListFolders(o) ==
    /\ EnsureDefault(o)
    /\ UNCHANGED <<filed, gone, task>>

CreateFolder(o) ==
    /\ Insert(o, FALSE)
    /\ UNCHANGED <<filed, gone, task>>

\* Each folder named must be the owner's and not the default, which is made
\* if it is not there.  Whether any is missing only the store asks.
AskReorder(q, o, order) ==
    /\ \A i \in DOMAIN order : Movable(o, order[i])
    /\ Ask(q, [NoTask EXCEPT !.step = "order", !.by = o, !.order = order])
    /\ EnsureDefault(o)
    /\ UNCHANGED <<filed, gone>>

\* Reorder is one transaction of two statements.  The first, SELECT ... FOR
\* UPDATE, reads the rows as they are when it begins,
ReadOrder(q) ==
    /\ task[q].step = "order"
    /\ task' = [task EXCEPT ![q].step = "lock", ![q].seen = {f.id : f \in Of(task[q].by)}]
    /\ UNCHANGED <<folders, lastId, filed, gone>>

\* waits for whoever has locked one, and returns those that are still there.
LockOrder(q) ==
    /\ task[q].step = "lock" /\ task[q].seen \cap LockedRows = {}
    /\ CheckReorder({f \in Of(task[q].by) : f.id \in task[q].seen}, task[q].order)
    /\ task' = [task EXCEPT ![q].step = "write"]
    /\ UNCHANGED <<folders, lastId, filed, gone>>

\* The second writes the positions, and the commit unlocks the rows.
PutOrder(q) ==
    /\ task[q].step = "write"
    /\ SetPositions(task[q].order)
    /\ Finish(q)
    /\ UNCHANGED <<lastId, filed, gone>>

\* ResolveFolder, for a character moved, or one made, imported or copied: the
\* folder must be the owner's, and none means the default.
AskFile(q, c, id) ==
    LET asked == [NoTask EXCEPT !.step = IF filed[c] = 0 THEN "make" ELSE "move",
                                !.by = SheetOf[c], !.sheet = c] IN
    /\ c \notin gone
    /\ \/ /\ Owned(SheetOf[c], id)
          /\ Ask(q, [asked EXCEPT !.folder = id])
          /\ UNCHANGED <<folders, lastId>>
       \/ /\ id = 0
          /\ EnsureDefault(SheetOf[c])
          /\ \E f \in folders' : /\ f.owner = SheetOf[c] /\ f.main
                                /\ Ask(q, [asked EXCEPT !.folder = f.id])
    /\ UNCHANGED <<filed, gone>>

\* CreateWithLog and SetFolder.
File(q) ==
    /\ \/ task[q].step = "make" /\ filed[task[q].sheet] = 0
       \/ task[q].step = "move" /\ Stored(task[q].sheet)
    /\ filed' = [filed EXCEPT ![task[q].sheet] = task[q].folder]
    /\ Finish(q)
    /\ UNCHANGED <<folders, lastId, gone>>

\* A character deleted by itself.
DeleteSheet(c) ==
    /\ Stored(c)
    /\ gone' = gone \cup {c}
    /\ UNCHANGED <<folders, lastId, filed, task>>

AskDeleteFolder(q, o, id) ==
    /\ Movable(o, id)
    /\ Ask(q, [NoTask EXCEPT !.step = "list", !.by = o, !.folder = id])
    /\ UNCHANGED <<folders, lastId, filed, gone>>

ListSheets(q) ==
    LET inside == {c \in Sheets : /\ Stored(c) /\ SheetOf[c] = task[q].by
                                  /\ filed[c] = task[q].folder} IN
    /\ task[q].step = "list"
    /\ task' = [task EXCEPT ![q].step = "empty", ![q].listed = inside, ![q].left = inside]
    /\ UNCHANGED <<folders, lastId, filed, gone>>

\* One that is gone by now is not found, and ends the request; one that was
\* moved is deleted where it is.
EmptyFolder(q) ==
    /\ task[q].step = "empty"
    /\ \E c \in task[q].left :
          /\ Stored(c)
          /\ gone' = gone \cup {c}
          /\ task' = [task EXCEPT ![q].left = @ \ {c}]
    /\ UNCHANGED <<folders, lastId, filed>>

MutantDropFolder(q) ==
    /\ task[q].step = "empty"
    /\ folders' = {f \in folders : f.id # task[q].folder}
    /\ Finish(q)
    /\ UNCHANGED <<lastId, filed, gone>>

\* The characters went first, the folder goes last, and never the default.
DropFolder(q) ==
    /\ task[q].step = "empty" /\ task[q].left = {}
    /\ Movable(task[q].by, task[q].folder) /\ task[q].folder \notin LockedRows
    /\ folders' = {f \in folders : f.id # task[q].folder}
    /\ Finish(q)
    /\ UNCHANGED <<lastId, filed, gone>>

\* A refusal, a failure or a crash: what is done stays done, and what a
\* transaction locked is free.
Fail(q) ==
    /\ task[q].step # "idle"
    /\ Finish(q)
    /\ UNCHANGED <<folders, lastId, filed, gone>>

FoldersNext ==
    \/ \E o \in Owners : ListFolders(o) \/ CreateFolder(o)
    \/ \E c \in Sheets : DeleteSheet(c)
    \/ \E q \in Tasks :
          \/ \E o \in Owners : \E some \in SUBSET {f.id : f \in Of(o) \ Mains(o)} :
                \E order \in SetToSeqs(some) : AskReorder(q, o, order)
          \/ \E o \in Owners, id \in 1..FolderIds : AskDeleteFolder(q, o, id)
          \/ \E c \in Sheets, id \in 0..FolderIds : AskFile(q, c, id)
          \/ ReadOrder(q) \/ LockOrder(q) \/ PutOrder(q)
          \/ File(q) \/ ListSheets(q) \/ EmptyFolder(q) \/ DropFolder(q) \/ Fail(q)

FoldersSpec == FoldersInit /\ [][FoldersNext]_folderVars

-----------------------------------------------------------------------------
(* Properties.                                                             *)

\* Two first requests of an account together make one default folder, and it
\* is never deleted: who has folders has exactly one they cannot delete.
OneDefault == [][\A o \in Owners : Mains(o) # {} => Mains(o)' = Mains(o)]_folderVars

\* A reordering that is done lists the default first and then every folder
\* asked for, in the order asked for; and of the folders its transaction read,
\* those asked for are there and no other but the default, whatever was made,
\* deleted or reordered since the request was checked.  A folder made since
\* that reading is in neither set, and is listed wherever its position puts it.
OrderedAsAsked ==
    [][\A q \in Tasks, o \in Owners :
        task[q].step = "write" /\ task[q].by = o /\ folders' # folders /\ task'[q] # task[q] =>
        \A order \in {task[q].order}, listed \in {Listing(o)'} :
            /\ listed[1] \in Mains(o)
            /\ {f.id : f \in Of(o)' \ Mains(o)'} \cap task[q].seen = ToSet(order)
            /\ \A i, j \in DOMAIN listed, m, n \in DOMAIN order :
                  listed[i].id = order[m] /\ listed[j].id = order[n] /\ m < n => i < j]_folderVars

\* When a folder goes, so has every character that its deletion found in it: a
\* deletion cut short leaves a folder with fewer characters, and never
\* characters without a folder but those filed there after the finding.
EmptiedFirst ==
    [][\A f \in folders : (\A h \in folders' : h.id # f.id) =>
        \E q \in Tasks : /\ task[q].folder = f.id /\ task'[q] # task[q]
                         /\ \A c \in Sheets : Stored(c) /\ filed[c] = f.id => c \notin task[q].listed
      ]_folderVars

=============================================================================
