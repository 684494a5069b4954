---------------------------- MODULE AgentWizard ----------------------------
(***************************************************************************)
(* The AI Wizard: several API processes work on the chats of one           *)
(* AgentStore.  In every process a fixed number of workers each claim a    *)
(* queued chat, run one turn of the model on a copy of it and save the     *)
(* copy back; the owner's requests change the stored chat at any moment,   *)
(* and edit or delete the character the turn is writing.                   *)
(*                                                                         *)
(* One step is one round trip to the database, so that everything another  *)
(* process can do between two of them is explored.  What a turn works out  *)
(* between two round trips is part of the step that makes the second one.  *)
(* Mutant... are as in AgentStore.                                         *)
(***************************************************************************)
EXTENDS AgentStore

CONSTANTS Slots,           \* the workers of a process
          Requests,        \* the owner's requests being served at once
          MaxTurns,        \* the code's own budget of turns per message
          MaxCalls,        \* bound: the tool calls of one response
          MaxGeneration,   \* bound: the controls a chat is sent
          MaxEdits,        \* bound: what the owner does to a character
          MaxRules,        \* bound: how often the rules are chosen
          MaxFaults,       \* bound: database failures and turns out of time
          MayOverrun       \* whether a live turn may outlast its lease

ASSUME BoundsAssumption ==
    /\ Slots \subseteq Nat \ {0}
    /\ MaxTurns \in Nat \ {0}
    /\ {MaxCalls, MaxGeneration, MaxEdits, MaxRules, MaxFaults} \subseteq Nat
    /\ MayOverrun \in BOOLEAN

VARIABLES char,      \* the character each chat makes: the row in characters
          proc,      \* whether an API process serves, drains or is gone
          running,   \* Agent.running: the slot that can cancel a chat's turn, or 0
          worker,    \* the worker goroutines
          request,   \* the owner's requests, between two of their steps
          faults     \* how many of MaxFaults have been spent

vars == <<row, lease, char, proc, running, worker, request, faults>>

Workers == Instances \X Slots

\* Where a worker is: "asking" waits for Claim, "claimed" has not registered
\* its turn yet, "model" waits for the response, "tools" is between two calls,
\* "pushing" and "pushed" are before and after a call's Commit.
InTurn == {"claimed", "model", "tools", "pushing", "pushed"}

\* copy is the turn's own AgentSession; batch the calls of the response and
\* left those not answered yet; streamed, whether part of the response was
\* appended already; cancelled, whether the turn's context was, by its
\* deadline or by Agent.stop.
Worker == [pc : {"idle", "asking"} \cup InTurn,
           chat : Sessions \cup {NoOne}, busy : SUBSET Sessions,
           copy : Record, batch : Nat, left : Nat,
           streamed : BOOLEAN, cancelled : BOOLEAN]

Idle == [pc |-> "idle", chat |-> NoOne, busy |-> {}, copy |-> Blank,
            batch |-> 0, left |-> 0, streamed |-> FALSE, cancelled |-> FALSE]

\* Where a request is: "keeping" made a character and is about to store its
\* chat; "beginning" and "finishing" hold the chat's row lock; "discarding"
\* and "discarded" have loaded the chat and dealt with its character;
\* "stopping" has changed the chat and is about to call Agent.stop.
Request == [pc : {"none", "keeping", "beginning", "finishing", "discarding",
                  "discarded", "stopping"},
            at : Instances \cup {NoOne}, chat : Sessions \cup {NoOne}]

Answered == [pc |-> "none", at |-> NoOne, chat |-> NoOne]

TypeOK ==
    /\ StoreTypeOK
    /\ char \in [Sessions -> [stored : BOOLEAN, revision : Nat, edits : Nat]]
    /\ proc \in [Instances -> {"up", "draining", "gone"}]
    /\ running \in [Instances -> [Sessions -> Slots \cup {0}]]
    /\ worker \in [Workers -> Worker]
    /\ request \in [Requests -> Request]
    /\ faults \in Nat

NoCharacter == [stored |-> FALSE, revision |-> 0, edits |-> 0]

Init ==
    /\ StoreInit
    /\ char = [s \in Sessions |-> NoCharacter]
    /\ proc = [p \in Instances |-> "up"]
    /\ running = [p \in Instances |-> [s \in Sessions |-> 0]]
    /\ worker = [w \in Workers |-> Idle]
    /\ request = [q \in Requests |-> Answered]
    /\ faults = 0

\* A failure the environment may inflict, at most MaxFaults times.
Fault == faults < MaxFaults /\ faults' = faults + 1

\* An Update that does more than compute its record holds the row lock
\* meanwhile: writers wait for it and a claim skips the row.
Locked(s) == \E q \in Requests :
                /\ request[q].chat = s
                /\ request[q].pc \in {"beginning", "finishing"}

\* The worker's turn becomes as given.
Goes(w, turn) == worker' = [worker EXCEPT ![w] = turn]

\* What a worker's step leaves alone, and a request's.
outside == <<char, proc, request>>
turns == <<proc, running, worker>>

-----------------------------------------------------------------------------
(* A worker: claiming a turn.                                              *)

\* tick signals every second: a worker looks, having noted the busy chats.
\* Looking while there is nothing to claim is left out.
Look(w) ==
    /\ worker[w].pc = "idle"
    /\ proc[w[1]] = "up"
    /\ \E s \in Sessions : Claimable(s)
    /\ Goes(w, [Idle EXCEPT !.pc = "asking",
                            !.busy = {s \in Sessions : running[w[1]][s] # 0}])
    /\ UNCHANGED <<row, lease, running, faults, outside>>

Offered(w) == {s \in Sessions \ worker[w].busy : Claimable(s) /\ ~Locked(s)}

ClaimTurn(w) ==
    /\ worker[w].pc = "asking"
    /\ proc[w[1]] = "up"
    /\ \E s \in Offered(w) :
          /\ Claim(s, w[1])
          /\ Goes(w, [Idle EXCEPT !.pc = "claimed", !.chat = s, !.copy = Claimed(s)])
    /\ UNCHANGED <<running, faults, outside>>

ClaimNothing(w) ==
    /\ worker[w].pc = "asking"
    /\ proc[w[1]] # "up" \/ Offered(w) = {}
    /\ Goes(w, Idle)
    /\ UNCHANGED <<row, lease, running, faults, outside>>

\* The turn returns, however it ended: its registration goes with it.
Leaves(w) ==
    /\ Goes(w, Idle)
    /\ running' = [running EXCEPT ![w[1]][worker[w].chat] = 0]

-----------------------------------------------------------------------------
(* A worker: saving its turn.                                              *)

MutantEncode(rec, pending) == rec

MutantEncodeOffByOne(rec, pending) == [rec EXCEPT !.unanswered = @ - (pending + 1)]

\* A session as the store keeps it: pending are the calls that have not run
\* yet, stored as answered "not run".
encode(rec, pending) == [rec EXCEPT !.unanswered = @ - pending]

\* The store takes the turn's record as rec, were the database to run at all.
Savable(w, rec) ==
    LET s == worker[w].chat
        known == worker[w].copy.events
    IN Held(s, w[1], rec.generation) /\ (rec.events > known => row[s].events = known)

\* A save refused, or lost by the database: the turn is dropped where it is.
Dropped(w, rec) ==
    /\ IF Savable(w, rec) THEN Fault ELSE UNCHANGED faults
    /\ Leaves(w)
    /\ UNCHANGED storeVars

\* save(nil, true): the turn ended as rec.
SaveLast(w, rec) ==
    /\ ~Locked(worker[w].chat)
    /\ \/ /\ Save(worker[w].chat, w[1], encode(rec, 0), worker[w].copy.events)
          /\ Leaves(w)
          /\ UNCHANGED faults
       \/ Dropped(w, rec)

\* save(pending, false) after a call that left the session as rec, with an
\* event to show for it: whatever the call made of the status, the turn goes on,
\* unless nobody tells it that it was saved.
SaveCall(w, rec) ==
    LET pending == worker[w].left - 1
        answered == [rec EXCEPT !.unanswered = @ - 1, !.events = @ + 1]
    IN /\ ~Locked(worker[w].chat)
       /\ \/ /\ Save(worker[w].chat, w[1],
                     [encode(answered, pending) EXCEPT !.status = "running"],
                     worker[w].copy.events)
             /\ \/ /\ Goes(w, [worker[w] EXCEPT !.pc = "tools", !.left = pending,
                                                !.copy = answered])
                   /\ UNCHANGED <<running, faults>>
                \/ Leaves(w) /\ Fault
          \/ Dropped(w, answered)

-----------------------------------------------------------------------------
(* A worker: the turn, up to the model's response.                         *)

\* The turn's context is done: stopped, out of time, or the process draining.
Interrupted(w) == worker[w].cancelled \/ proc[w[1]] = "draining"

DeadlinePasses(w) ==
    /\ worker[w].pc \in InTurn \ {"claimed"}
    /\ ~worker[w].cancelled
    /\ Fault
    /\ Goes(w, [worker[w] EXCEPT !.cancelled = TRUE])
    /\ UNCHANGED <<row, lease, running, outside>>

\* From here the turn can be found by Agent.stop and by a worker that looks.
Load(w) ==
    /\ worker[w].pc = "claimed"
    /\ running' = [running EXCEPT ![w[1]][worker[w].chat] = w[2]]
    /\ Goes(w, [worker[w] EXCEPT !.pc = "model"])
    /\ UNCHANGED <<row, lease, faults, outside>>

\* The attachments could not be read: nothing is saved, the lease runs out.
LoadFails(w) ==
    /\ worker[w].pc = "claimed"
    /\ IF Interrupted(w) THEN UNCHANGED faults ELSE Fault
    /\ Leaves(w)
    /\ UNCHANGED <<row, lease, outside>>

Ended(rec, to) == setStatus([rec EXCEPT !.revision = @ + 1], to)

WithEvent(rec) == [rec EXCEPT !.events = @ + 1]

\* Before the model is asked: there is no character left to build.
CharacterGone(w) ==
    /\ worker[w].pc = "model"
    /\ ~worker[w].streamed
    /\ ~Interrupted(w)
    /\ ~char[worker[w].chat].stored
    /\ SaveLast(w, WithEvent(Ended(worker[w].copy, "failed")))
    /\ UNCHANGED outside

\* A streamed chunk.  One stands for them all.  The turn that is not told that
\* it was appended ends.
Delta(w) ==
    LET s == worker[w].chat
        id == worker[w].copy.events + 1
    IN /\ worker[w].pc = "model"
       /\ ~worker[w].streamed
       /\ ~Interrupted(w)
       /\ ~Locked(s)
       /\ Append(s, w[1], worker[w].copy.generation, id)
       /\ \/ /\ Goes(w, [worker[w] EXCEPT !.streamed = TRUE, !.copy = WithEvent(@)])
             /\ UNCHANGED <<running, faults>>
          \/ Leaves(w) /\ Fault
       /\ UNCHANGED outside

\* A chunk that is refused, lost, or whose context is done ends the turn
\* without another word.
DeltaRefused(w) ==
    /\ worker[w].pc = "model"
    /\ ~Locked(worker[w].chat)
    /\ IF Interrupted(w) \/ ~Savable(w, WithEvent(worker[w].copy))
       THEN UNCHANGED faults ELSE Fault
    /\ Leaves(w)
    /\ UNCHANGED <<row, lease, outside>>

\* The provider failed, or the context ended the request.  A process that is
\* draining puts the turn back; the revision does not move for that.
ModelFails(w) ==
    /\ worker[w].pc = "model"
    /\ SaveLast(w, IF proc[w[1]] = "draining" THEN setStatus(worker[w].copy, "queued")
                   ELSE WithEvent(Ended(worker[w].copy, "failed")))
    /\ UNCHANGED outside

WithCalls(rec, calls) == [rec EXCEPT !.turns = @ + 1, !.unanswered = calls]

ModelAnswers(w) ==
    /\ worker[w].pc = "model"
    /\ ~Interrupted(w)
    /\ \E calls \in 0..MaxCalls :
          Goes(w, [worker[w] EXCEPT
                      !.pc = "tools", !.batch = calls, !.left = calls,
                      !.copy = WithCalls(@, calls)])
    /\ UNCHANGED <<row, lease, running, faults, outside>>

-----------------------------------------------------------------------------
(* A worker: the response's tool calls, one at a time.                     *)

Calling(w) == worker[w].pc = "tools" /\ worker[w].left > 0

MayCall(w) == Calling(w) /\ ~Interrupted(w) /\ worker[w].copy.status = "running"

\* A call answered with an error before it has touched anything: the turn is
\* interrupted, an earlier call ended it with a question or a review, or the
\* character could not be read.
CallNotRun(w) ==
    /\ Calling(w)
    /\ SaveCall(w, worker[w].copy)
    /\ UNCHANGED outside

CallFindsNoCharacter(w) ==
    /\ MayCall(w)
    /\ ~char[worker[w].chat].stored
    /\ SaveCall(w, setStatus(worker[w].copy, "failed"))
    /\ UNCHANGED outside

\* pull: the working copy becomes the stored character if that has moved.
Edited(w) == char[worker[w].chat].revision # worker[w].copy.seen

Pulled(w) ==
    LET c == char[worker[w].chat]
    IN IF Edited(w) THEN [worker[w].copy EXCEPT !.seen = c.revision, !.told = c.edits]
       ELSE worker[w].copy

\* What a tool leaves the session as: it ends the turn with a question, with
\* a review, or not at all.  Over an edit it has not shown yet only
\* get_build_context runs, and that ends nothing.
AfterTool(w) ==
    {setStatus(Pulled(w), to) :
        to \in IF Edited(w) THEN {"running"} ELSE {"running", "waiting", "review"}}

\* A call that leaves the log as it was: a tool that only reads, was refused,
\* or was not run over the owner's edit.
CallReads(w) ==
    /\ MayCall(w)
    /\ char[worker[w].chat].stored
    /\ \E rec \in AfterTool(w) : SaveCall(w, rec)
    /\ UNCHANGED outside

CallWrites(w) ==
    /\ MayCall(w)
    /\ char[worker[w].chat].stored
    /\ \E rec \in AfterTool(w) :
          Goes(w, [worker[w] EXCEPT !.pc = "pushing", !.copy = rec])
    /\ UNCHANGED <<row, lease, running, faults, outside>>

\* push: Commit at the revision read.
Fits(w) ==
    /\ char[worker[w].chat].stored
    /\ char[worker[w].chat].revision = worker[w].copy.seen

Push(w) ==
    /\ worker[w].pc = "pushing"
    /\ Fits(w)
    /\ char' = [char EXCEPT ![worker[w].chat].revision = @ + 1]
    /\ Goes(w, [worker[w] EXCEPT !.pc = "pushed"])
    /\ UNCHANGED <<row, lease, proc, running, request, faults>>

PushRefused(w) ==
    /\ worker[w].pc = "pushing"
    /\ Interrupted(w) \/ ~Fits(w)
    /\ SaveCall(w, worker[w].copy)
    /\ UNCHANGED outside

\* push: Get.  Whatever is stored by now becomes the working copy, which is
\* kept as it was when that cannot be read.
Reread(w) ==
    LET c == char[worker[w].chat]
    IN /\ worker[w].pc = "pushed"
       /\ \/ c.stored /\ SaveCall(w, [worker[w].copy EXCEPT !.seen = c.revision])
          \/ SaveCall(w, worker[w].copy)
       /\ UNCHANGED outside

\* The last call is answered: what becomes of the turn.
EndTurn(w) ==
    LET rec == worker[w].copy
    IN /\ worker[w].pc = "tools"
       /\ worker[w].left = 0
       /\ SaveLast(w,
              IF rec.status # "running" THEN [rec EXCEPT !.revision = @ + 1]
              ELSE IF worker[w].batch = 0 \/ rec.turns >= MaxTurns
                   THEN WithEvent(Ended(rec, "paused"))
                   ELSE Ended(rec, "queued"))
       /\ UNCHANGED outside

-----------------------------------------------------------------------------
(* The owner's requests, each served by some process.  One that is refused *)
(* changes nothing and is no step.                                         *)

Serving(q, p) == request[q].pc = "none" /\ proc[p] = "up"

Becomes(q, p, s, pc) ==
    request' = [request EXCEPT ![q] = [pc |-> pc, at |-> p, chat |-> s]]

\* An id nobody has drawn.
Undrawn(s) == row[s].status = "none" /\ \A q \in Requests : request[q].chat # s

opening == [Blank EXCEPT !.status = "opening", !.revision = 1, !.events = 1]

\* choose: the rules the character is built under.
Chosen(rec) == [rec EXCEPT !.revision = @ + 1, !.events = @ + 1]

\* start: the first message.  The character was created at revision 0.
Started(rec) ==
    setStatus([rec EXCEPT !.made = TRUE, !.seen = 0, !.told = 0,
                          !.revision = @ + 1, !.events = @ + 1], "queued")

CreateCharacter(s) == char' = [char EXCEPT ![s] = [NoCharacter EXCEPT !.stored = TRUE]]

DeleteCharacter(s) == char' = [char EXCEPT ![s].stored = FALSE]

Open(q, p, s) ==
    /\ Serving(q, p)
    /\ Undrawn(s)
    /\ Create(s, opening)
    /\ UNCHANGED <<char, request, faults, turns>>

\* create: a chat opened, given its rules and its first message in one step.
CreateStart(q, p, s) ==
    /\ Serving(q, p)
    /\ Undrawn(s)
    /\ char[s] = NoCharacter
    /\ CreateCharacter(s)
    /\ Becomes(q, p, s, "keeping")
    /\ UNCHANGED <<row, lease, faults, turns>>

\* keep may be refused, by the capacity or by the database, or seem so.
CreateKeep(q) ==
    LET s == request[q].chat
    IN /\ request[q].pc = "keeping"
       /\ request' = [request EXCEPT ![q] = Answered]
       /\ \/ Create(s, Started(Chosen(opening))) /\ UNCHANGED <<char, faults>>
          \/ DeleteCharacter(s) /\ UNCHANGED <<row, lease, faults>>
          \/ Create(s, Started(Chosen(opening))) /\ DeleteCharacter(s) /\ Fault
       /\ UNCHANGED turns

Rules(q, p, s) ==
    /\ Serving(q, p)
    /\ ~Locked(s)
    /\ row[s].status = "opening"
    /\ row[s].revision <= MaxRules
    /\ Update(s, Chosen(row[s]))
    /\ Becomes(q, p, s, "stopping")
    /\ UNCHANGED <<char, faults, turns>>

\* begin: the character is created on a connection of its own while the
\* chat's row is locked.
Begin(q, p, s) ==
    /\ Serving(q, p)
    /\ ~Locked(s)
    /\ row[s].status = "opening"
    /\ char[s] = NoCharacter
    /\ CreateCharacter(s)
    /\ Becomes(q, p, s, "beginning")
    /\ UNCHANGED <<row, lease, faults, turns>>

\* Nobody may be told: then the character is deleted though the chat began.
BeginCommits(q) ==
    LET s == request[q].chat
    IN /\ request[q].pc = "beginning"
       /\ Update(s, Started(row[s]))
       /\ \/ /\ request' = [request EXCEPT ![q].pc = "stopping"]
             /\ UNCHANGED <<char, faults>>
          \/ /\ request' = [request EXCEPT ![q] = Answered]
             /\ DeleteCharacter(s)
             /\ Fault
       /\ UNCHANGED turns

MutantInvalidate(rec) == [rec EXCEPT !.revision = @ + 1]

\* invalidate: the generation fences whatever turn is in flight.
invalidate(rec) == [rec EXCEPT !.generation = @ + 1, !.revision = @ + 1]

\* What the controls make of a chat: stop, resume or retry, a message or more
\* files, and finish.
Stopped(rec) == [invalidate(rec) EXCEPT !.status = "paused", !.events = @ + 1]

Resumed(rec) == setStatus([invalidate(rec) EXCEPT !.turns = 0], "queued")

Replied(rec) == setStatus([invalidate(rec) EXCEPT !.turns = 0, !.events = @ + 1], "queued")

Finished(rec) ==
    LET closed == [invalidate(rec) EXCEPT !.finished = TRUE]
    IN IF rec.status \in {"queued", "running"} THEN setStatus(closed, "paused") ELSE closed

Controllable(s) ==
    /\ Exists(s)
    /\ row[s].status # "opening"
    /\ ~Locked(s)
    /\ row[s].generation < MaxGeneration

\* A stop that comes too late is accepted and changes nothing.
Control(q, p, s) ==
    /\ Serving(q, p)
    /\ Controllable(s)
    /\ ~row[s].finished
    /\ \/ \E rec \in {Stopped(row[s]), Resumed(row[s]), Replied(row[s])} : Update(s, rec)
       \/ row[s].status \notin {"queued", "running"} /\ Update(s, row[s])
    /\ Becomes(q, p, s, "stopping")
    /\ UNCHANGED <<char, faults, turns>>

\* AddFiles does not ask whether the chat is finished.
AddFiles(q, p, s) ==
    /\ Serving(q, p)
    /\ Controllable(s)
    /\ Update(s, Replied(row[s]))
    /\ Becomes(q, p, s, "stopping")
    /\ UNCHANGED <<char, faults, turns>>

\* finish dresses the character under the chat's row lock, if there is
\* anything to wear and nobody else has just written it.
Finish(q, p, s) ==
    /\ Serving(q, p)
    /\ Controllable(s)
    /\ \/ char[s].stored /\ char' = [char EXCEPT ![s].revision = @ + 1]
       \/ UNCHANGED char
    /\ Becomes(q, p, s, "finishing")
    /\ UNCHANGED <<row, lease, faults, turns>>

FinishCommits(q) ==
    LET s == request[q].chat
    IN /\ request[q].pc = "finishing"
       /\ Update(s, Finished(row[s]))
       /\ request' = [request EXCEPT ![q].pc = "stopping"]
       /\ UNCHANGED <<char, faults, turns>>

\* The database fails a request on its way, or its commit seems to have
\* failed: a character it began goes with it.
RequestFails(q) ==
    /\ request[q].pc \notin {"none", "keeping"}
    /\ Fault
    /\ IF request[q].pc = "beginning" THEN DeleteCharacter(request[q].chat)
       ELSE UNCHANGED char
    /\ request' = [request EXCEPT ![q] = Answered]
    /\ UNCHANGED <<row, lease, turns>>

\* Agent.stop: the turn this process runs for the chat, if any, is cancelled.
Stop(q) ==
    LET p == request[q].at
        w == <<p, running[p][request[q].chat]>>
    IN /\ request[q].pc = "stopping"
       /\ worker' = IF w \in Workers THEN [worker EXCEPT ![w].cancelled = TRUE] ELSE worker
       /\ request' = [request EXCEPT ![q] = Answered]
       /\ UNCHANGED <<row, lease, char, proc, running, faults>>

DiscardLoads(q, p, s) ==
    /\ Serving(q, p)
    /\ Exists(s)
    /\ ~Locked(s)
    /\ ~row[s].finished
    /\ Becomes(q, p, s, IF row[s].made THEN "discarding" ELSE "discarded")
    /\ UNCHANGED <<row, lease, char, faults, turns>>

DiscardCharacter(q) ==
    /\ request[q].pc = "discarding"
    /\ DeleteCharacter(request[q].chat)
    /\ request' = [request EXCEPT ![q].pc = "discarded"]
    /\ UNCHANGED <<row, lease, faults, turns>>

DiscardRow(q) ==
    /\ request[q].pc = "discarded"
    /\ ~Locked(request[q].chat)
    /\ Delete(request[q].chat)
    /\ request' = [request EXCEPT ![q].pc = "stopping"]
    /\ UNCHANGED <<char, faults, turns>>

\* The builder is open all the time: the owner edits the character, or
\* deletes it, without the chat knowing.
OwnerEdits(s) ==
    /\ char[s].stored
    /\ char[s].edits < MaxEdits
    /\ char' = [char EXCEPT ![s].revision = @ + 1, ![s].edits = @ + 1]
    /\ UNCHANGED <<row, lease, request, faults, turns>>

OwnerDeletes(s) ==
    /\ char[s].stored
    /\ char[s].edits < MaxEdits
    /\ DeleteCharacter(s)
    /\ UNCHANGED <<row, lease, request, faults, turns>>

-----------------------------------------------------------------------------
(* The processes and the clock.                                            *)

\* The turn still passes the WHERE clause of the store's writes.
Fenced(w) ==
    worker[w].pc \in InTurn /\ Held(worker[w].chat, w[1], worker[w].copy.generation)

\* A lease that nobody is going to give up runs out.  One whose turn is
\* alive does only where turns may outlast their deadline.
LeaseLapses(s) ==
    /\ row[s].status = "running"
    /\ ~lease[s].lapsed
    /\ IF \E w \in Workers : Fenced(w) /\ worker[w].chat = s
       THEN MayOverrun /\ Fault
       ELSE UNCHANGED faults
    /\ lease' = [lease EXCEPT ![s].lapsed = TRUE]
    /\ UNCHANGED <<row, char, request, turns>>

SweepIdle(s) ==
    /\ ~Locked(s)
    /\ Sweep(s)
    /\ UNCHANGED <<char, request, faults, turns>>

\* Close comes after the requests being served are answered.
Drain(p) ==
    /\ proc[p] = "up"
    /\ \A q \in Requests : request[q].at # p
    /\ proc' = [proc EXCEPT ![p] = "draining"]
    /\ UNCHANGED <<row, lease, char, running, worker, request, faults>>

Exit(p) ==
    /\ proc[p] = "draining"
    /\ \A n \in Slots : worker[<<p, n>>].pc = "idle"
    /\ proc' = [proc EXCEPT ![p] = "gone"]
    /\ UNCHANGED <<row, lease, char, running, worker, request, faults>>

\* Everything in the process goes with it; the transactions it had open are
\* rolled back, a character already created is not.
Crash(p) ==
    /\ proc[p] # "gone"
    /\ proc' = [proc EXCEPT ![p] = "gone"]
    /\ running' = [running EXCEPT ![p] = [s \in Sessions |-> 0]]
    /\ worker' = [w \in Workers |-> IF w[1] = p THEN Idle ELSE worker[w]]
    /\ request' = [q \in Requests |-> IF request[q].at = p THEN Answered ELSE request[q]]
    /\ UNCHANGED <<row, lease, char, faults>>

-----------------------------------------------------------------------------

TurnStep(w) ==
    \/ Look(w) \/ ClaimTurn(w) \/ ClaimNothing(w)
    \/ Load(w) \/ LoadFails(w) \/ CharacterGone(w)
    \/ Delta(w) \/ DeltaRefused(w) \/ ModelFails(w) \/ ModelAnswers(w)
    \/ CallNotRun(w) \/ CallFindsNoCharacter(w) \/ CallReads(w) \/ CallWrites(w)
    \/ Push(w) \/ PushRefused(w) \/ Reread(w) \/ EndTurn(w)

Serve(q) ==
    \/ CreateKeep(q) \/ BeginCommits(q) \/ RequestFails(q) \/ FinishCommits(q)
    \/ Stop(q) \/ DiscardCharacter(q) \/ DiscardRow(q)

Ask(q, p, s) ==
    \/ Open(q, p, s) \/ CreateStart(q, p, s) \/ Rules(q, p, s) \/ Begin(q, p, s)
    \/ Control(q, p, s) \/ AddFiles(q, p, s) \/ Finish(q, p, s) \/ DiscardLoads(q, p, s)

Environment(s) ==
    OwnerEdits(s) \/ OwnerDeletes(s) \/ LeaseLapses(s) \/ SweepIdle(s)

Next ==
    \/ \E w \in Workers : TurnStep(w) \/ DeadlinePasses(w)
    \/ \E q \in Requests : Serve(q)
    \/ \E q \in Requests, p \in Instances, s \in Sessions : Ask(q, p, s)
    \/ \E s \in Sessions : Environment(s)
    \/ \E p \in Instances : Drain(p) \/ Exit(p) \/ Crash(p)

Spec == Init /\ [][Next]_vars

-----------------------------------------------------------------------------
(* Safety.                                                                 *)

\* Where no turn outlives its lease, at most one worker can still write a chat:
\* the lease and the generation shut out the turn that was stopped, answered or
\* given up (Store.Claim, Save and Append).  Among the workers of one process
\* this rests on the deadline, for they share the holder's name: one that looked
\* before the other's turn began may be handed its chat when the lease lapses.
OneWriter ==
    \A v, w \in Workers :
        Fenced(v) /\ Fenced(w) /\ worker[v].chat = worker[w].chat => v = w

\* agent_sessions_lease_check: a row is running exactly when it has a lease,
\* whichever of Update, Claim, Save and Append wrote it last.
LeaseIffRunning ==
    \A s \in Sessions : row[s].status = "running" <=> lease[s].holder # NoOne

\* Whoever continues from the stored transcript can send it: every tool call
\* in it has an output, also after a turn was cut short in the middle of a
\* response (encode, and the comment over it).
SendableTranscript ==
    \A s \in Sessions : row[s].unanswered = 0

\* Finishing a chat is never undone: a turn claimed before the owner pressed
\* Finish saves its own copy, which says it is not finished (change, Save).
FinishedStays ==
    [][\A s \in Sessions :
          row[s].finished /\ row[s]'.status # "gone" => row[s]'.finished]_vars

\* A turn whose chat was stopped, answered, finished or deleted since it was
\* claimed, or given up or taken over by another process when the lease lapsed,
\* changes nothing of the chat, whatever it does from then on.
LateTurnWritesNothing ==
    [][\A w \in Workers :
          /\ worker[w].pc \in InTurn
          /\ \/ ~Exists(worker[w].chat)
             \/ worker[w].copy.generation # row[worker[w].chat].generation
             \/ lease[worker[w].chat].holder # w[1]
          /\ worker'[w] # worker[w]
          => row' = row]_vars

\* What a reader of the chats sees is what the contract promises: the table of
\* status moves, when the revision moves, and a log that is only added to.
Contract(s) == INSTANCE WizardContract WITH
    status <- row[s].status, revision <- row[s].revision,
    generation <- row[s].generation, finished <- row[s].finished,
    events <- row[s].events

\* Contract(s)!Spec for every chat, in the form TLC can check.
KeepsContract ==
    /\ \A s \in Sessions : Contract(s)!Init
    /\ [][\A s \in Sessions : [Contract(s)!Next]_(Contract(s)!chat)]_row

-----------------------------------------------------------------------------
(* Liveness.                                                               *)

\* The code's scheduling: tick wakes the workers every second, a turn and a
\* request run until they are done, and the clock reaches a lease's end.
Fairness ==
    /\ \A w \in Workers : WF_vars(TurnStep(w))
    /\ \A q \in Requests : WF_vars(Serve(q))
    /\ \A s \in Sessions : WF_vars(LeaseLapses(s))

FairSpec == Spec /\ Fairness

Resting == {"waiting", "review", "paused", "failed", "gone"}

\* As long as some process keeps serving, a chat that was sent a message comes
\* to rest, whatever processes stop or die on the way and whatever is lost:
\* turns given up are taken over, and none goes on forever.
ComesToRest ==
    <>[](\E p \in Instances : proc[p] = "up") =>
        \A s \in Sessions :
            row[s].status \in {"queued", "running"} ~> row[s].status \in Resting

=============================================================================
