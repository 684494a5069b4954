------------------------------- MODULE Tracker -------------------------------
(***************************************************************************)
(* The roster of one game as the people at its table change it at once     *)
(* (usecase/game/tracker.go).  A request first reads the actor's rank and, *)
(* where it needs sheets, the roster and the sheets of those on it; then   *)
(* one change runs under the game's row lock (MutateEntries), on the       *)
(* roster as it is by then.  Ranks, locks, sheets and the order move in    *)
(* between.                                                                *)
(*                                                                         *)
(* Hit points, tags and a monster's stats are written as spent counts are, *)
(* each to the field named, and are left out with their bounds.            *)
(***************************************************************************)
EXTENDS Naturals, SequencesExt

\* Mutant...: see Membership.

CONSTANTS Players,       \* the characters' entries: an id is "pc_" and the character's
          Monsters,      \* the monsters' entries
          Masters,       \* who may run the table; their rank may come and go
          OwnerOf,       \* whose a player's entry is
          Short, Long,   \* the pools a short rest restores, and the others
          Patches,       \* the requests being served at once
          Nobody,
          GameEntries,   \* limits.GameEntries
          MaxUses,       \* bound: the capacity of a pool
          MaxInitiative  \* bound: an initiative count, 0 being none

ASSUME TrackerAssumption ==
    /\ Nobody \notin Players \cup Monsters
    /\ {GameEntries, MaxUses, MaxInitiative} \subseteq Nat
    /\ Players \cap Monsters = {} /\ Short \cap Long = {}

VARIABLES entries,    \* games.roster
          running,    \* the masters who are a DM or the owner now
          patch       \* the requests

trackerVars == <<entries, running, patch>>

Ids == Players \cup Monsters
Pools == Short \cup Long
People == Masters \cup {OwnerOf[p] : p \in Players}

Entry == [id : Ids, used : [Pools -> 0..MaxUses], initiative : 0..MaxInitiative, locked : BOOLEAN]

\* seatEntries and AddMonster: a new entry has spent nothing and is not locked.
NewEntry(id) == [id |-> id, used |-> [p \in Pools |-> 0], initiative |-> 0, locked |-> FALSE]

Operations == {"idle", "seat", "monster", "delete", "spend", "initiative", "lock",
               "long rest", "short rest", "sort", "move", "up", "down"}

\* master is the rank as read; n a count, an initiative or a lock; before the
\* entry a move is to precede, or Nobody for the end; restored what a short
\* rest will give back.
Patch == [op : Operations, by : People \cup {Nobody}, master : BOOLEAN,
          id : Ids \cup {Nobody}, pool : Pools \cup {Nobody}, n : Nat,
          before : Ids \cup {Nobody},
          restored : SUBSET (Players \X Pools)]

NoPatch == [op |-> "idle", by |-> Nobody, master |-> FALSE, id |-> Nobody,
            pool |-> Nobody, n |-> 0, before |-> Nobody, restored |-> {}]

TrackerTypeOK ==
    /\ entries \in Seq(Entry)
    /\ running \subseteq Masters
    /\ patch \in [Patches -> Patch]

TrackerInit ==
    /\ entries = <<>>
    /\ running = Masters
    /\ patch = [q \in Patches |-> NoPatch]

Listed == {entries[i].id : i \in DOMAIN entries}
PlaceOf(s, id) == CHOOSE i \in DOMAIN s : s[i].id = id

-----------------------------------------------------------------------------
(* What a request reads before the lock.                                   *)

\* dm: only whoever runs the table.
AskMaster(q, u, asked) ==
    /\ patch[q].op = "idle"
    /\ u \in running
    /\ patch' = [patch EXCEPT ![q] = [asked EXCEPT !.by = u, !.master = TRUE]]
    /\ UNCHANGED <<entries, running>>

\* PatchEntry: anybody at the table; the change decides what they may.  What
\* it would refuse whatever happens meanwhile is left out.
AskPatch(q, u, asked) ==
    /\ patch[q].op = "idle"
    /\ u \in Masters \/ (asked.id \in Players /\ OwnerOf[asked.id] = u)
    /\ patch' = [patch EXCEPT ![q] = [asked EXCEPT !.by = u, !.master = u \in running]]
    /\ UNCHANGED <<entries, running>>

\* Spending reads the roster and the sheet for what the pool holds.  Owners
\* edit their sheets, so that may be anything: n is a count it allowed.
AskSpend(q, u, id, pool, n) ==
    /\ id \in Listed \cap Players
    /\ AskPatch(q, u, [NoPatch EXCEPT !.op = "spend", !.id = id, !.pool = pool, !.n = n])

\* A short rest lists what was spent of the pools it restores.
AskShortRest(q, u) ==
    AskMaster(q, u, [NoPatch EXCEPT !.op = "short rest", !.restored =
        {r \in (Listed \cap Players) \X Short : entries[PlaceOf(entries, r[1])].used[r[2]] > 0}])

\* The rank of a master is changed.
Rerank(u) ==
    /\ running' = IF u \in running THEN running \ {u} ELSE running \cup {u}
    /\ UNCHANGED <<entries, patch>>

-----------------------------------------------------------------------------
(* The change under the lock.                                              *)

Mutate(q, op, change) ==
    /\ patch[q].op = op
    /\ entries' = change
    /\ patch' = [patch EXCEPT ![q] = NoPatch]
    /\ UNCHANGED running

MutantSeat(q) ==
    /\ Len(entries) < GameEntries
    /\ Mutate(q, "seat", Append(entries, NewEntry(patch[q].id)))

\* Somebody seated already keeps their entry; more seats than the limit are
\* refused, but not a change that adds none.
Seat(q) ==
    \/ patch[q].id \in Listed /\ Mutate(q, "seat", entries)
    \/ /\ patch[q].id \notin Listed /\ Len(entries) < GameEntries
       /\ Mutate(q, "seat", Append(entries, NewEntry(patch[q].id)))

\* A monster's id is drawn at random: it is never one that is listed.
AddMonster(q) ==
    /\ patch[q].id \notin Listed /\ Len(entries) < GameEntries
    /\ Mutate(q, "monster", Append(entries, NewEntry(patch[q].id)))

DeleteEntry(q) ==
    /\ patch[q].id \in Listed
    /\ Mutate(q, "delete", RemoveAt(entries, PlaceOf(entries, patch[q].id)))

MutantEditable(q) ==
    /\ patch[q].id \in Listed
    /\ patch[q].master \/ (patch[q].id \in Players /\ OwnerOf[patch[q].id] = patch[q].by)

\* A player may change their own entry while it is not locked.
Editable(q) ==
    /\ patch[q].id \in Listed
    /\ \/ patch[q].master
       \/ /\ patch[q].id \in Players /\ OwnerOf[patch[q].id] = patch[q].by
          /\ ~entries[PlaceOf(entries, patch[q].id)].locked

\* The count is one the sheet allowed when it was read, and the other pools
\* keep theirs.
Spend(q) ==
    /\ Editable(q)
    /\ Mutate(q, "spend",
           [entries EXCEPT ![PlaceOf(entries, patch[q].id)].used[patch[q].pool] = patch[q].n])

SetInitiative(q) ==
    /\ Editable(q)
    /\ Mutate(q, "initiative",
           [entries EXCEPT ![PlaceOf(entries, patch[q].id)].initiative = patch[q].n])

\* Only players' entries are locked, and only by whoever runs the table.
Lock(q) ==
    /\ patch[q].master /\ patch[q].id \in Listed \cap Players
    /\ Mutate(q, "lock", [entries EXCEPT ![PlaceOf(entries, patch[q].id)].locked = (patch[q].n = 1)])

LongRest(q) ==
    Mutate(q, "long rest", [i \in DOMAIN entries |-> [entries[i] EXCEPT !.used = [p \in Pools |-> 0]]])

\* What was listed is given back, to the entries that are still there.
ShortRest(q) ==
    Mutate(q, "short rest", [i \in DOMAIN entries |-> [entries[i] EXCEPT !.used =
        [p \in Pools |-> IF <<entries[i].id, p>> \in patch[q].restored THEN 0 ELSE @[p]]]])

\* OrderEntries by initiative: the higher first, who has none last, and who
\* are equal as they were.
Ahead(s, i, j) ==
    \/ s[i].initiative > s[j].initiative
    \/ s[i].initiative = s[j].initiative /\ i < j

Sorted(s) ==
    [k \in DOMAIN s |->
        s[CHOOSE i \in DOMAIN s : Cardinality({j \in DOMAIN s : Ahead(s, j, i)}) = k - 1]]

Sort(q) == Mutate(q, "sort", Sorted(entries))

MutantMoved(s, from, to) == InsertAt(RemoveAt(s, from), IF to > Len(s) THEN Len(s) ELSE to, s[from])

\* MoveEntryBefore takes the entry out, which moves the place it goes to when
\* that is behind it.
Moved(s, from, to) == InsertAt(RemoveAt(s, from), IF from < to THEN to - 1 ELSE to, s[from])

Move(q) ==
    /\ patch[q].id \in Listed /\ patch[q].before \in Listed \cup {Nobody}
    /\ Mutate(q, "move",
           IF patch[q].id = patch[q].before THEN entries
           ELSE Moved(entries, PlaceOf(entries, patch[q].id),
                      IF patch[q].before = Nobody THEN Len(entries) + 1
                      ELSE PlaceOf(entries, patch[q].before)))

\* OrderEntries one step up or down, past the neighbour it has by then.
Step(q, op) ==
    /\ patch[q].id \in Listed
    /\ LET i == PlaceOf(entries, patch[q].id)  j == IF op = "up" THEN i - 1 ELSE i + 1
       IN Mutate(q, op, IF j \in DOMAIN entries
                        THEN [entries EXCEPT ![i] = entries[j], ![j] = entries[i]]
                        ELSE entries)

\* The change is refused, fails or never runs.
Drop(q) ==
    /\ patch[q].op # "idle"
    /\ patch' = [patch EXCEPT ![q] = NoPatch]
    /\ UNCHANGED <<entries, running>>

-----------------------------------------------------------------------------

Asks(q) ==
    \/ \E u \in Masters :
          \/ \E p \in Players : AskMaster(q, u, [NoPatch EXCEPT !.op = "seat", !.id = p])
          \/ \E m \in Monsters : AskMaster(q, u, [NoPatch EXCEPT !.op = "monster", !.id = m])
          \/ \E id \in Ids, op \in {"delete", "up", "down"} :
                AskMaster(q, u, [NoPatch EXCEPT !.op = op, !.id = id])
          \/ \E id \in Ids, b \in Ids \cup {Nobody} :
                AskMaster(q, u, [NoPatch EXCEPT !.op = "move", !.id = id, !.before = b])
          \/ \E op \in {"long rest", "sort"} : AskMaster(q, u, [NoPatch EXCEPT !.op = op])
          \/ AskShortRest(q, u)
          \/ \E p \in Players, n \in 0..1 :
                AskMaster(q, u, [NoPatch EXCEPT !.op = "lock", !.id = p, !.n = n])
    \/ \E u \in People, id \in Ids :
          \/ \E n \in 0..MaxInitiative :
                AskPatch(q, u, [NoPatch EXCEPT !.op = "initiative", !.id = id, !.n = n])
          \/ \E pool \in Pools, n \in 0..MaxUses : AskSpend(q, u, id, pool, n)

Changes(q) ==
    \/ Seat(q) \/ AddMonster(q) \/ DeleteEntry(q) \/ Spend(q) \/ SetInitiative(q) \/ Lock(q)
    \/ LongRest(q) \/ ShortRest(q) \/ Sort(q) \/ Move(q) \/ Drop(q)
    \/ Step(q, "up") \/ Step(q, "down")

TrackerNext ==
    \/ \E q \in Patches : Asks(q) \/ Changes(q)
    \/ \E u \in Masters : Rerank(u)

TrackerSpec == TrackerInit /\ [][TrackerNext]_trackerVars

-----------------------------------------------------------------------------
(* Properties.                                                             *)

\* However many masters seat the same character at once, it has one entry.
SeatedOnce == \A i, j \in DOMAIN entries : entries[i].id = entries[j].id => i = j

\* The request that changes the roster in a step.
Changing(q, op) == patch[q].op = op /\ patch'[q] # patch[q] /\ entries' # entries

\* The roster without the entry of an id, which is listed once.
Others(s, id) == RemoveAt(s, PlaceOf(s, id))

\* A move puts one entry right before the one it was asked to precede, and
\* keeps the order of all the others, whatever other masters added, removed or
\* moved since the request was made.
MovesOne ==
    [][\A q \in Patches : Changing(q, "move") =>
        /\ Others(entries', patch[q].id) = Others(entries, patch[q].id)
        /\ patch[q].before = Nobody => entries'[Len(entries)].id = patch[q].id
        /\ patch[q].before # Nobody =>
              PlaceOf(entries', patch[q].before) = PlaceOf(entries', patch[q].id) + 1]_trackerVars

\* An entry whose lock was set while its player's change was under way is not
\* changed by it: only somebody who was running the table writes to it.
LockHolds ==
    [][\A q \in Patches, i \in DOMAIN entries :
        /\ entries[i].locked /\ patch[q].id = entries[i].id
        /\ Changing(q, "spend") \/ Changing(q, "initiative")
        => patch[q].master]_trackerVars

=============================================================================
