----------------------------- MODULE AgentStore -----------------------------
(***************************************************************************)
(* The table agent_sessions, where the AI Wizard keeps its chats, and the  *)
(* operations of its Store port as the PostgreSQL adapter runs them.  Each *)
(* operation is one statement or one transaction on one row, so each is    *)
(* one step here.  The transcript is abstracted to the number of tool      *)
(* calls in it that have no output, the event log to how many writes       *)
(* added to it.                                                            *)
(***************************************************************************)
EXTENDS Naturals

\* An operator named Mutant... is the one below it as a plausible mistake would
\* have it.  Nothing uses it but the runs that show a property notices.

CONSTANTS Sessions,    \* chat ids; an id is drawn at random and never reused
          Instances,   \* API processes: each names itself at random on start
          NoOne        \* no lease owner, and no chat

ASSUME NoOneAssumption == NoOne \notin Instances \cup Sessions

VARIABLES row,         \* the chats, by id
          lease        \* their lease columns: lease_owner, and lease_until < now()

storeVars == <<row, lease>>

Statuses == {"opening", "queued", "running", "waiting", "review", "paused", "failed"}

\* "none": an id not drawn yet.  "gone": a row that was deleted.
Absent == {"none", "gone"}

\* seen is the character's revision as the chat last read or wrote it, and
\* told how many of the owner's own edits of the character the assistant has
\* been told about.  The code keeps no such number: it is what the edit
\* events in the transcript amount to.
Record == [status : Statuses \cup Absent, revision : Nat, generation : Nat,
           finished : BOOLEAN, made : BOOLEAN, seen : Nat, told : Nat,
           turns : Nat, unanswered : Nat, events : Nat]

Blank == [status |-> "none", revision |-> 0, generation |-> 0,
          finished |-> FALSE, made |-> FALSE, seen |-> 0, told |-> 0,
          turns |-> 0, unanswered |-> 0, events |-> 0]

Unleased == [holder |-> NoOne, lapsed |-> FALSE]

StoreTypeOK ==
    /\ row \in [Sessions -> Record]
    /\ lease \in [Sessions -> [holder : Instances \cup {NoOne}, lapsed : BOOLEAN]]

StoreInit ==
    /\ row = [s \in Sessions |-> Blank]
    /\ lease = [s \in Sessions |-> Unleased]

-----------------------------------------------------------------------------

\* Every move a status may make; it may also stay what it is.
transitions ==
    [opening |-> {"queued"},
     queued  |-> {"running", "paused"},
     running |-> {"queued", "waiting", "review", "paused", "failed"},
     waiting |-> {"queued", "paused"},
     review  |-> {"queued", "paused"},
     paused  |-> {"queued"},
     failed  |-> {"queued", "paused"}]

\* The record moved to a status, or as it was when the table refuses the move.
setStatus(rec, to) ==
    IF to \in transitions[rec.status] THEN [rec EXCEPT !.status = to] ELSE rec

Exists(s) == row[s].status \notin Absent

Create(s, rec) ==
    /\ row[s].status = "none"
    /\ row' = [row EXCEPT ![s] = rec]
    /\ UNCHANGED lease

MutantUpdate(s, rec) == row' = [row EXCEPT ![s] = rec] /\ UNCHANGED lease

\* Update writes whatever it is given, whoever holds the lease; a row it
\* leaves not running gives its lease up.
Update(s, rec) ==
    /\ row' = [row EXCEPT ![s] = rec]
    /\ lease' = IF rec.status = "running" THEN lease
                ELSE [lease EXCEPT ![s] = Unleased]

MutantClaimable(s) == row[s].status = "queued"

Claimable(s) ==
    \/ row[s].status = "queued"
    \/ row[s].status = "running" /\ lease[s].lapsed

MutantClaimed(s) == [row[s] EXCEPT !.status = "running"]

Claimed(s) == [row[s] EXCEPT !.status = "running", !.revision = @ + 1]

Claim(s, p) ==
    /\ Claimable(s)
    /\ row' = [row EXCEPT ![s] = Claimed(s)]
    /\ lease' = [lease EXCEPT ![s] = [holder |-> p, lapsed |-> FALSE]]

MutantHeldByGeneration(s, p, generation) == Exists(s) /\ row[s].generation = generation

\* The WHERE clause every write of a turn carries.
Held(s, p, generation) ==
    /\ Exists(s)
    /\ lease[s].holder = p
    /\ row[s].generation = generation

\* A turn's record, whose events past the first known are new: their ids must
\* be free, and a log that grew meanwhile stays as long as it is.
Save(s, p, rec, known) ==
    /\ Held(s, p, rec.generation)
    /\ rec.events > known => row[s].events = known
    /\ Update(s, [rec EXCEPT !.events = IF @ > known THEN @ ELSE row[s].events])

MutantAppend(s, p, generation, id) ==
    Exists(s) /\ row' = [row EXCEPT ![s].events = @ + 1] /\ UNCHANGED lease

\* An event's id is its place in the log, and the log's primary key.
Append(s, p, generation, id) ==
    /\ Held(s, p, generation)
    /\ id = row[s].events + 1
    /\ row' = [row EXCEPT ![s].events = id]
    /\ UNCHANGED lease

Delete(s) ==
    /\ row' = [row EXCEPT ![s] = [Blank EXCEPT !.status = "gone"]]
    /\ lease' = [lease EXCEPT ![s] = Unleased]

\* A day without use can pass between any two steps, so it is no guard here.
Sweep(s) ==
    /\ Exists(s)
    /\ row[s].status = "running" => lease[s].lapsed
    /\ Delete(s)

=============================================================================
