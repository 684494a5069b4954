------------------------- MODULE AgentWizardProofs -------------------------
(***************************************************************************)
(* The inductive invariant of AgentWizard, the lemmas its proof rests on   *)
(* (what the operators on records return, what the store's operations      *)
(* preserve, which steps leave the turns, the requests and the leases in   *)
(* order), that every action keeps it, and the theorems that follow.       *)
(* Everything holds for any number of processes, workers, chats and        *)
(* requests, and for any of the bounds.                                    *)
(***************************************************************************)
EXTENDS AgentWizard, TLAPS

-----------------------------------------------------------------------------
(* What the operators on records return.                                   *)

\* Another state of the same turn's record.
Kin(rec, new) ==
    /\ new \in Record
    /\ new.generation = rec.generation
    /\ new.finished = rec.finished
    /\ rec.status \in Statuses => new.status \in Statuses

\* The fields of a chat's record, and what the steps add to them.
LEMMA RecordFields ==
    ASSUME NEW rec \in Record
    PROVE  /\ rec.status \in Statuses \cup Absent
           /\ rec.revision \in Nat /\ rec.generation \in Nat
           /\ rec.finished \in BOOLEAN /\ rec.made \in BOOLEAN
           /\ rec.seen \in Nat /\ rec.told \in Nat /\ rec.turns \in Nat
           /\ rec.unanswered \in Nat /\ rec.events \in Nat
           /\ rec.revision + 1 \in Nat /\ rec.generation + 1 \in Nat
           /\ rec.turns + 1 \in Nat /\ rec.events + 1 \in Nat
  BY DEF Record

\* An id that was not drawn yet has a record too.
LEMMA BlankType == Blank \in Record
  BY DEF Blank, Record, Absent

\* setStatus moves the status or leaves it, and nothing else.
LEMMA SetStatusKin ==
    ASSUME NEW rec \in Record, NEW to \in Statuses
    PROVE  /\ Kin(rec, setStatus(rec, to))
           /\ setStatus(rec, to).status \in {rec.status, to}
           /\ setStatus(rec, to).unanswered = rec.unanswered
  <1>1. CASE to \in transitions[rec.status]
    BY <1>1, RecordFields, Zenon DEF setStatus, Record, Kin
  <1>2. CASE to \notin transitions[rec.status]
    BY <1>2, RecordFields, Zenon DEF setStatus, Record, Kin
  <1> QED
    BY <1>1, <1>2

\* An event in the log is all that WithEvent adds.
LEMMA WithEventKin ==
    ASSUME NEW rec \in Record
    PROVE  Kin(rec, WithEvent(rec)) /\ WithEvent(rec).unanswered = rec.unanswered
  BY RecordFields, Zenon DEF WithEvent, Record, Kin

\* A turn that ends keeps its generation and answers no call.
LEMMA EndedKin ==
    ASSUME NEW rec \in Record, NEW to \in Statuses
    PROVE  Kin(rec, Ended(rec, to)) /\ Ended(rec, to).unanswered = rec.unanswered
  <1> DEFINE moved == [rec EXCEPT !.revision = @ + 1]
  <1>1. Kin(rec, moved) /\ moved.unanswered = rec.unanswered
    BY RecordFields, Zenon DEF Record, Kin
  <1>2. Ended(rec, to) = setStatus(moved, to)
    BY DEF Ended
  <1> HIDE DEF moved
  <1> QED
    BY <1>1, <1>2, SetStatusKin DEF Kin

\* encode answers the calls that have not run: none is left without an output.
LEMMA EncodeKin ==
    ASSUME NEW rec \in Record, NEW pending \in Nat, rec.unanswered = pending
    PROVE  Kin(rec, encode(rec, pending)) /\ encode(rec, pending).unanswered = 0
  <1>1. rec.unanswered - pending = 0 /\ 0 \in Nat
    BY RecordFields
  <1> QED
    BY <1>1, Zenon DEF encode, Record, Kin

\* invalidate moves the generation, and nothing that matters to the transcript.
LEMMA InvalidateFences ==
    ASSUME NEW rec \in Record
    PROVE  /\ invalidate(rec) \in Record
           /\ invalidate(rec).generation = rec.generation + 1
           /\ invalidate(rec).finished = rec.finished
           /\ invalidate(rec).unanswered = rec.unanswered
           /\ invalidate(rec).status = rec.status
  BY RecordFields, Zenon DEF invalidate, Record

\* A record as a control of the owner's leaves it.
Fencing(rec, new) ==
    /\ new \in Record
    /\ new.generation = rec.generation + 1
    /\ rec.finished => new.finished
    /\ new.unanswered = rec.unanswered
    /\ new.status \in {rec.status, "queued", "paused"}

\* Each of the owner's controls fences the turn in flight (change, Control).
LEMMA ControlsFence ==
    ASSUME NEW rec \in Record
    PROVE  /\ Fencing(rec, Stopped(rec))
           /\ Fencing(rec, Resumed(rec))
           /\ Fencing(rec, Replied(rec))
           /\ Fencing(rec, Finished(rec))
  <1> DEFINE new == invalidate(rec)
  <1>1. new \in Record /\ Fencing(rec, new) /\ new.status = rec.status
    BY InvalidateFences DEF Fencing
  <1> HIDE DEF new
  <1>2. Fencing(rec, Stopped(rec))
    <2>1. Stopped(rec) = [new EXCEPT !.status = "paused", !.events = @ + 1]
      BY DEF Stopped, new
    <2> QED
      BY <1>1, <2>1, RecordFields, Zenon DEF Fencing, Record, Statuses
  <1>3. Fencing(rec, Resumed(rec))
    <2> DEFINE again == [new EXCEPT !.turns = 0]
    <2>1. again \in Record /\ Fencing(rec, again)
      BY <1>1, RecordFields, 0 \in Nat, Zenon DEF Fencing, Record
    <2>2. Resumed(rec) = setStatus(again, "queued")
      BY DEF Resumed, new
    <2> HIDE DEF again
    <2> QED
      BY <2>1, <2>2, SetStatusKin DEF Fencing, Kin, Statuses
  <1>4. Fencing(rec, Replied(rec))
    <2> DEFINE again == [new EXCEPT !.turns = 0, !.events = @ + 1]
    <2>1. again \in Record /\ Fencing(rec, again)
      BY <1>1, RecordFields, 0 \in Nat, Zenon DEF Fencing, Record
    <2>2. Replied(rec) = setStatus(again, "queued")
      BY DEF Replied, new
    <2> HIDE DEF again
    <2> QED
      BY <2>1, <2>2, SetStatusKin DEF Fencing, Kin, Statuses
  <1>5. Fencing(rec, Finished(rec))
    <2> DEFINE closed == [new EXCEPT !.finished = TRUE]
    <2>1. closed \in Record /\ Fencing(rec, closed)
      BY <1>1, RecordFields, Zenon DEF Fencing, Record
    <2>2. Finished(rec) \in {closed, setStatus(closed, "paused")}
      BY DEF Finished, new
    <2> HIDE DEF closed
    <2> QED
      BY <2>1, <2>2, SetStatusKin DEF Fencing, Kin, Statuses
  <1> QED
    BY <1>2, <1>3, <1>4, <1>5

\* A chat opens with nothing in its transcript to answer.
LEMMA OpeningType ==
    /\ opening \in Record
    /\ opening.status = "opening" /\ opening.unanswered = 0
  BY DEF opening, Blank, Record, Statuses

\* Choosing the rules keeps the chat's status.
LEMMA ChosenKin ==
    ASSUME NEW rec \in Record
    PROVE  /\ Kin(rec, Chosen(rec))
           /\ Chosen(rec).status = rec.status
           /\ Chosen(rec).unanswered = rec.unanswered
  BY RecordFields, Zenon DEF Chosen, Kin, Record

\* The first message queues the chat, or leaves its status.
LEMMA StartedKin ==
    ASSUME NEW rec \in Record
    PROVE  /\ Kin(rec, Started(rec))
           /\ Started(rec).status \in {rec.status, "queued"}
           /\ Started(rec).unanswered = rec.unanswered
  <1> DEFINE begun == [rec EXCEPT !.made = TRUE, !.seen = 0, !.told = 0,
                                  !.revision = @ + 1, !.events = @ + 1]
  <1>1. Kin(rec, begun) /\ begun.status = rec.status /\ begun.unanswered = rec.unanswered
    BY RecordFields, 0 \in Nat, Zenon DEF Kin, Record
  <1>2. Started(rec) = setStatus(begun, "queued")
    BY DEF Started
  <1> HIDE DEF begun
  <1> QED
    BY <1>1, <1>2, SetStatusKin DEF Kin, Statuses

-----------------------------------------------------------------------------
(* The inductive invariant.                                                *)

\* Only a chat that was opened can have been finished.
FinishedLater == \A s \in Sessions : row[s].status = "none" => ~row[s].finished

StoreInv == StoreTypeOK /\ SendableTranscript /\ LeaseIffRunning /\ FinishedLater

\* The turn still works at its chat's generation.
Current(w) ==
    /\ worker[w].pc \in InTurn
    /\ Exists(worker[w].chat)
    /\ worker[w].copy.generation = row[worker[w].chat].generation

\* A turn's copy is of its chat, is not ahead of it, and knows whether it is
\* finished unless it is fenced; the calls in it without an output are those
\* still to run.
TurnOK(w) ==
    worker[w].pc \in InTurn =>
        /\ worker[w].chat \in Sessions
        /\ row[worker[w].chat].status # "none"
        /\ worker[w].copy.status \in Statuses
        /\ Exists(worker[w].chat) =>
               worker[w].copy.generation <= row[worker[w].chat].generation
        /\ Current(w) => worker[w].copy.finished = row[worker[w].chat].finished
        /\ worker[w].copy.unanswered =
               IF worker[w].pc \in {"claimed", "model"} THEN 0 ELSE worker[w].left
        /\ worker[w].pc \in {"pushing", "pushed"} => worker[w].left > 0

TurnsInv == worker \in [Workers -> Worker] /\ \A w \in Workers : TurnOK(w)

HoldsLock(q) == request[q].pc \in {"beginning", "finishing"}

RequestOK(q) ==
    request[q].pc # "none" =>
        /\ request[q].chat \in Sessions
        /\ request[q].pc = "beginning" => row[request[q].chat].status = "opening"
        /\ request[q].pc = "finishing" => Exists(request[q].chat)

\* A row lock has one holder, and what the holder found still holds.
RequestsInv ==
    /\ request \in [Requests -> Request]
    /\ \A q \in Requests : RequestOK(q)
    /\ \A q, r \in Requests :
          HoldsLock(q) /\ HoldsLock(r) /\ request[q].chat = request[r].chat => q = r

RestType ==
    /\ char \in [Sessions -> [stored : BOOLEAN, revision : Nat, edits : Nat]]
    /\ proc \in [Instances -> {"up", "draining", "gone"}]
    /\ running \in [Instances -> [Sessions -> Slots \cup {0}]]
    /\ faults \in Nat

IInv == StoreInv /\ TurnsInv /\ RequestsInv /\ RestType

-----------------------------------------------------------------------------
(* What the store's operations preserve.                                   *)

\* Update keeps the table in order when it makes no row running that was not,
\* and touches no lease but the row's.
LEMMA UpdateKeeps ==
    ASSUME StoreInv, NEW s \in Sessions, NEW rec \in Record,
           rec.unanswered = 0, rec.status = "running" => row[s].status = "running",
           rec.status # "none", Update(s, rec)
    PROVE  /\ StoreInv' /\ row' = [row EXCEPT ![s] = rec]
           /\ rec.status = "running" => lease' = lease
           /\ \A t \in Sessions \ {s} : lease'[t] = lease[t]
  <1>1. row' = [row EXCEPT ![s] = rec]
    BY DEF Update
  <1>2. StoreTypeOK'
    BY DEF StoreInv, StoreTypeOK, Update, Unleased
  <1>3. SendableTranscript' /\ FinishedLater'
    BY <1>1 DEF StoreInv, StoreTypeOK, SendableTranscript, FinishedLater
  <1>4. LeaseIffRunning'
    BY DEF StoreInv, StoreTypeOK, LeaseIffRunning, Update, Unleased
  <1>5. /\ rec.status = "running" => lease' = lease
        /\ \A t \in Sessions \ {s} : lease'[t] = lease[t]
    BY DEF StoreInv, StoreTypeOK, Update
  <1> QED
    BY <1>1, <1>2, <1>3, <1>4, <1>5 DEF StoreInv

\* Claim keeps the table in order, and leaves the row running.
LEMMA ClaimKeeps ==
    ASSUME StoreInv, NEW s \in Sessions, NEW p \in Instances, Claim(s, p)
    PROVE  /\ StoreInv'
           /\ row' = [row EXCEPT ![s] = Claimed(s)]
           /\ Kin(row[s], Claimed(s))
           /\ Claimed(s).status = "running" /\ Claimed(s).unanswered = 0
  <1>1. row[s] \in Record /\ row[s].unanswered = 0
    BY DEF StoreInv, StoreTypeOK, SendableTranscript
  <1>2. Kin(row[s], Claimed(s)) /\ Claimed(s).status = "running" /\ Claimed(s).unanswered = 0
    <2>1. "running" \in Statuses /\ "running" \in Statuses \cup Absent
      BY DEF Statuses
    <2> QED
      BY <1>1, <2>1, RecordFields, Zenon DEF Claimed, Kin, Record
  <1>3. row' = [row EXCEPT ![s] = Claimed(s)]
    BY DEF Claim
  <1>4. StoreTypeOK'
    BY <1>2, <1>3 DEF StoreInv, StoreTypeOK, Claim, Kin
  <1>5. SendableTranscript'
    BY <1>2, <1>3 DEF StoreInv, StoreTypeOK, SendableTranscript
  <1>6. LeaseIffRunning'
    BY <1>2, <1>3, NoOneAssumption DEF StoreInv, StoreTypeOK, LeaseIffRunning, Claim
  <1>7. FinishedLater'
    BY <1>2, <1>3 DEF StoreInv, StoreTypeOK, FinishedLater
  <1> QED
    BY <1>2, <1>3, <1>4, <1>5, <1>6, <1>7 DEF StoreInv

\* Append keeps the table in order: one more event is all it writes.
LEMMA AppendKeeps ==
    ASSUME StoreInv, NEW s \in Sessions, NEW p \in Instances, NEW g, NEW id, Append(s, p, g, id)
    PROVE  /\ StoreInv'
           /\ Held(s, p, g)
           /\ row' = [row EXCEPT ![s] = WithEvent(row[s])] /\ lease' = lease
  <1>1. row[s] \in Record
    BY DEF StoreInv, StoreTypeOK
  <1>2. row' = [row EXCEPT ![s] = WithEvent(row[s])] /\ UNCHANGED lease /\ Held(s, p, g)
    BY DEF Append, WithEvent
  <1>3. /\ WithEvent(row[s]) \in Record
        /\ WithEvent(row[s]).unanswered = row[s].unanswered
        /\ WithEvent(row[s]).status = row[s].status
        /\ WithEvent(row[s]).finished = row[s].finished
    BY <1>1, RecordFields, Zenon DEF WithEvent, Record
  <1>4. StoreTypeOK'
    BY <1>2, <1>3 DEF StoreInv, StoreTypeOK
  <1>5. SendableTranscript' /\ LeaseIffRunning' /\ FinishedLater'
    BY <1>2, <1>3 DEF StoreInv, StoreTypeOK, SendableTranscript, LeaseIffRunning, FinishedLater
  <1> QED
    BY <1>2, <1>4, <1>5 DEF StoreInv

\* Delete keeps the table in order, and leaves nothing behind.
LEMMA DeleteKeeps ==
    ASSUME StoreInv, NEW s \in Sessions, Delete(s)
    PROVE  /\ StoreInv' /\ row' = [row EXCEPT ![s] = [Blank EXCEPT !.status = "gone"]]
           /\ \A t \in Sessions \ {s} : lease'[t] = lease[t]
  <1> DEFINE gone == [Blank EXCEPT !.status = "gone"]
  <1>1. gone \in Record /\ gone.unanswered = 0 /\ gone.status = "gone"
    BY DEF Blank, Record, Absent
  <1>2. row' = [row EXCEPT ![s] = gone] /\ lease' = [lease EXCEPT ![s] = Unleased]
    BY DEF Delete
  <1> HIDE DEF gone
  <1>3. StoreTypeOK'
    BY <1>1, <1>2 DEF StoreInv, StoreTypeOK, Unleased
  <1>4. SendableTranscript' /\ LeaseIffRunning'
    BY <1>1, <1>2 DEF StoreInv, StoreTypeOK, SendableTranscript, LeaseIffRunning, Unleased
  <1>5. FinishedLater' /\ \A t \in Sessions \ {s} : lease'[t] = lease[t]
    BY <1>1, <1>2 DEF StoreInv, StoreTypeOK, FinishedLater
  <1> QED
    BY <1>2, <1>3, <1>4, <1>5 DEF StoreInv, gone

\* Create keeps the table in order, and writes an id nobody has drawn.
LEMMA CreateKeeps ==
    ASSUME StoreInv, NEW s \in Sessions, NEW rec \in Record,
           rec.unanswered = 0, rec.status \notin {"none", "running"}, Create(s, rec)
    PROVE  /\ StoreInv' /\ row' = [row EXCEPT ![s] = rec] /\ lease' = lease
           /\ row[s].status = "none"
  <1>1. row' = [row EXCEPT ![s] = rec] /\ UNCHANGED lease /\ row[s].status = "none"
    BY DEF Create
  <1>2. StoreTypeOK' /\ SendableTranscript' /\ LeaseIffRunning' /\ FinishedLater'
    BY <1>1 DEF StoreInv, StoreTypeOK, SendableTranscript, LeaseIffRunning, FinishedLater
  <1> QED
    BY <1>1, <1>2 DEF StoreInv

-----------------------------------------------------------------------------
(* What keeps the turns in order.                                          *)

\* A step of the chats that no turn in flight need know of: a chat is drawn,
\* deleted, fenced, or stays as finished as it was.
RowsStep ==
    \A s \in Sessions :
        \/ row'[s] = row[s]
        \/ row[s].status = "none"
        \/ /\ row'[s].status # "none"
           /\ row'[s].status \notin Absent =>
                 /\ Exists(s)
                 /\ row[s].finished => row'[s].finished
                 /\ \/ row[s].generation < row'[s].generation
                    \/ /\ row[s].generation = row'[s].generation
                       /\ row[s].finished = row'[s].finished

\* A worker that leaves its turn, or goes on with it.
Follows(w, turn) ==
    /\ turn \in Worker
    /\ turn.pc \in InTurn =>
          /\ worker[w].pc \in InTurn
          /\ turn.chat = worker[w].chat
          /\ Kin(worker[w].copy, turn.copy)
          /\ turn.copy.unanswered =
                 IF turn.pc \in {"claimed", "model"} THEN 0 ELSE turn.left
          /\ turn.pc \in {"pushing", "pushed"} => turn.left > 0

\* A turn goes on only as itself.
TurnsFollow ==
    \A w \in Workers :
        worker'[w].pc \in InTurn =>
            /\ worker[w].pc \in InTurn
            /\ worker'[w].chat = worker[w].chat
            /\ worker'[w].copy.generation = worker[w].copy.generation

\* A step of a turn changes a chat only if the turn holds it.
LateStep ==
    \A w \in Workers :
        worker[w].pc \in InTurn /\ worker'[w] # worker[w] => Fenced(w) \/ row' = row

\* A lease changes hands when its chat does not run, is deleted or fenced, when
\* its turn ends, or when nobody can write under it.
LeaseStep ==
    \A s \in Sessions :
        \/ lease'[s] = lease[s]
        \/ row[s].status # "running"
        \/ row'[s].status \in Absent
        \/ row[s].generation < row'[s].generation
        \/ \E w \in Workers : /\ Current(w) /\ worker[w].chat = s
                              /\ worker'[w].pc \notin InTurn
        \/ (\E w \in Workers : Fenced(w) /\ worker[w].chat = s) => MayOverrun

\* What every step keeps, and what every step but a claim does.
Kept == IInv' /\ RowsStep /\ LateStep
KeptCalmly == Kept /\ LeaseStep /\ TurnsFollow

\* The fields of a worker.
LEMMA WorkerFields ==
    ASSUME NEW turn \in Worker
    PROVE  /\ turn.pc \in {"idle", "asking"} \cup InTurn
           /\ turn.chat \in Sessions \cup {NoOne}
           /\ turn.busy \in SUBSET Sessions
           /\ turn.copy \in Record
           /\ turn.batch \in Nat /\ turn.left \in Nat
           /\ turn.streamed \in BOOLEAN /\ turn.cancelled \in BOOLEAN
  BY DEF Worker

\* Any turn may be left.
LEMMA IdleFollows ==
    ASSUME NEW w
    PROVE  Follows(w, Idle)
  <1>1. 0 \in Nat /\ NoOne \in Sessions \cup {NoOne} /\ {} \in SUBSET Sessions
    OBVIOUS
  <1> QED
    BY <1>1, BlankType, Zenon DEF Follows, Idle, Worker, InTurn

\* A turn that is left or goes on stays in order while the chats move.
LEMMA TurnMoves ==
    ASSUME StoreTypeOK, StoreTypeOK', RowsStep,
           NEW w \in Workers, worker[w] \in Worker, TurnOK(w), Follows(w, worker'[w])
    PROVE  TurnOK(w)'
  <1> SUFFICES ASSUME worker'[w].pc \in InTurn
               PROVE  TurnOK(w)'
    BY DEF TurnOK
  <1> DEFINE s == worker[w].chat
  <1>1. /\ worker[w].pc \in InTurn
        /\ worker'[w].chat = s
        /\ worker'[w].copy \in Record /\ worker[w].copy \in Record
        /\ worker'[w].copy.generation = worker[w].copy.generation
        /\ worker'[w].copy.finished = worker[w].copy.finished
        /\ worker'[w].copy.status \in Statuses
    BY WorkerFields DEF Follows, Kin, TurnOK
  <1>2. s \in Sessions /\ row[s].status # "none"
    BY <1>1 DEF TurnOK
  <1>3. row[s] \in Record /\ row'[s] \in Record
    BY <1>2 DEF StoreTypeOK
  <1>4. /\ worker[w].copy.generation \in Nat
        /\ row[s].generation \in Nat /\ row'[s].generation \in Nat
    BY <1>1, <1>3, RecordFields
  <1>5. row'[s].status # "none"
    BY <1>2 DEF RowsStep
  <1>6. ASSUME row'[s].status \notin Absent
        PROVE  /\ worker[w].copy.generation <= row'[s].generation
               /\ worker[w].copy.generation = row'[s].generation =>
                     worker[w].copy.finished = row'[s].finished
    <2>1. /\ Exists(s)
          /\ \/ row[s].generation < row'[s].generation
             \/ /\ row[s].generation = row'[s].generation
                /\ row[s].finished = row'[s].finished
      BY <1>2, <1>6 DEF RowsStep, Exists
    <2>2. /\ worker[w].copy.generation <= row[s].generation
          /\ worker[w].copy.generation = row[s].generation =>
                worker[w].copy.finished = row[s].finished
      BY <1>1, <2>1 DEF TurnOK, Current
    <2> QED
      BY <1>4, <2>1, <2>2
  <1>7. /\ worker'[w].copy.unanswered =
               IF worker'[w].pc \in {"claimed", "model"} THEN 0 ELSE worker'[w].left
        /\ worker'[w].pc \in {"pushing", "pushed"} => worker'[w].left > 0
    BY DEF Follows
  <1> HIDE DEF s
  <1> QED
    BY <1>1, <1>2, <1>5, <1>6, <1>7 DEF TurnOK, Current, Exists

\* The turns stay in order while only the chats move.
LEMMA TurnsStay ==
    ASSUME StoreTypeOK, StoreTypeOK', TurnsInv, RowsStep, UNCHANGED worker
    PROVE  TurnsInv'
  <1>1. worker' \in [Workers -> Worker]
    BY DEF TurnsInv
  <1>2. ASSUME NEW w \in Workers
        PROVE  TurnOK(w)'
    <2>1. worker[w] \in Worker /\ TurnOK(w) /\ worker'[w] = worker[w]
      BY DEF TurnsInv
    <2>2. worker[w].copy \in Record
      BY <2>1, WorkerFields
    <2>3. worker[w].pc \in InTurn => Follows(w, worker'[w])
      BY <2>1, <2>2 DEF Follows, Kin, TurnOK
    <2>4. worker[w].pc \notin InTurn => TurnOK(w)'
      BY <2>1 DEF TurnOK
    <2> QED
      BY <2>1, <2>3, <2>4, TurnMoves
  <1> QED
    BY <1>1, <1>2 DEF TurnsInv

\* The turns stay in order when one of them moves.
LEMMA TurnsKept ==
    ASSUME StoreTypeOK, StoreTypeOK', TurnsInv, RowsStep,
           NEW w \in Workers, NEW turn, Follows(w, turn), Goes(w, turn)
    PROVE  TurnsInv'
  <1>1. turn \in Worker
    BY DEF Follows
  <1>2. worker' = [worker EXCEPT ![w] = turn] /\ worker \in [Workers -> Worker]
    BY DEF Goes, TurnsInv
  <1>3. worker' \in [Workers -> Worker]
    BY <1>1, <1>2
  <1>4. ASSUME NEW v \in Workers
        PROVE  TurnOK(v)'
    <2>1. worker[v] \in Worker /\ TurnOK(v)
      BY DEF TurnsInv
    <2>2. CASE v = w
      <3>1. worker'[v] = turn
        BY <1>2, <2>2
      <3> QED
        BY <2>1, <2>2, <3>1, TurnMoves
    <2>3. CASE v # w
      <3>1. worker'[v] = worker[v]
        BY <1>2, <2>3
      <3>2. worker[v].copy \in Record
        BY <2>1, WorkerFields
      <3>3. worker[v].pc \in InTurn => Follows(v, worker'[v])
        BY <2>1, <3>1, <3>2 DEF Follows, Kin, TurnOK
      <3>4. worker[v].pc \notin InTurn => TurnOK(v)'
        BY <3>1 DEF TurnOK
      <3> QED
        BY <2>1, <3>3, <3>4, TurnMoves
    <2> QED
      BY <2>2, <2>3
  <1> QED
    BY <1>3, <1>4 DEF TurnsInv

\* Which writes of one row no turn in flight need know of.
LEMMA RowWritten ==
    ASSUME StoreTypeOK, NEW s \in Sessions, NEW rec, row' = [row EXCEPT ![s] = rec],
           \/ row[s].status = "none"
           \/ rec.status = "gone"
           \/ Exists(s) /\ Fencing(row[s], rec)
           \/ Exists(s) /\ Kin(row[s], rec) /\ rec.status # "none"
    PROVE  RowsStep
  <1> SUFFICES ASSUME NEW t \in Sessions, row'[t] # row[t], row[t].status # "none"
               PROVE  /\ row'[t].status # "none"
                      /\ row'[t].status \notin Absent =>
                            /\ Exists(t)
                            /\ row[t].finished => row'[t].finished
                            /\ \/ row[t].generation < row'[t].generation
                               \/ /\ row[t].generation = row'[t].generation
                                  /\ row[t].finished = row'[t].finished
    BY DEF RowsStep
  <1>1. t = s /\ row'[t] = rec
    BY DEF StoreTypeOK
  <1>2. row[s] \in Record
    BY DEF StoreTypeOK
  <1>3. CASE rec.status = "gone"
    BY <1>1, <1>3 DEF Absent
  <1>4. CASE Exists(s) /\ Fencing(row[s], rec)
    <2>1. row[s].generation \in Nat
      BY <1>2, RecordFields
    <2> QED
      BY <1>1, <1>4, <2>1 DEF Fencing, Exists, Absent
  <1>5. CASE Exists(s) /\ Kin(row[s], rec) /\ rec.status # "none"
    BY <1>1, <1>5 DEF Kin
  <1> QED
    BY <1>1, <1>3, <1>4, <1>5

\* Save keeps the table in order, and only a current turn's save gets through.
LEMMA SaveKeeps ==
    ASSUME StoreInv, TurnsInv, NEW w \in Workers, worker[w].pc \in InTurn,
           NEW rec, Kin(worker[w].copy, rec), rec.unanswered = 0,
           NEW known \in Nat, Save(worker[w].chat, w[1], rec, known)
    PROVE  /\ StoreInv' /\ RowsStep
           /\ worker[w].chat \in Sessions /\ Current(w) /\ Fenced(w)
           /\ rec.status = "running" => lease' = lease
           /\ \A t \in Sessions \ {worker[w].chat} :
                  row'[t] = row[t] /\ lease'[t] = lease[t]
  <1> DEFINE s == worker[w].chat
             new == [rec EXCEPT !.events = IF @ > known THEN @ ELSE row[s].events]
  <1>1. s \in Sessions /\ w[1] \in Instances /\ TurnOK(w)
    BY DEF TurnsInv, TurnOK, Workers
  <1>2. row[s] \in Record /\ rec \in Record
    BY <1>1 DEF StoreInv, StoreTypeOK, Kin
  <1>3. Held(s, w[1], rec.generation) /\ Update(s, new)
    BY DEF Save
  <1>4. (IF rec.events > known THEN rec.events ELSE row[s].events) \in Nat
    BY <1>2, RecordFields
  <1>5. /\ new \in Record
        /\ new.status = rec.status /\ new.unanswered = 0
        /\ new.generation = rec.generation /\ new.finished = rec.finished
    BY <1>2, <1>4, RecordFields, Zenon DEF Record
  <1> HIDE DEF new
  <1>6. row[s].status = "running" /\ Exists(s) /\ Current(w) /\ Fenced(w)
    <2>1. lease[s].holder = w[1] /\ w[1] # NoOne
      BY <1>1, <1>3, NoOneAssumption DEF Held
    <2> QED
      BY <1>1, <1>3, <2>1 DEF StoreInv, LeaseIffRunning, Held, Current, Fenced, Kin
  <1>7. row[s].generation = new.generation /\ row[s].finished = new.finished
    BY <1>1, <1>3, <1>5, <1>6 DEF TurnOK, Held, Kin
  <1>8. /\ StoreInv' /\ row' = [row EXCEPT ![s] = new]
        /\ rec.status = "running" => lease' = lease
        /\ \A t \in Sessions \ {s} : lease'[t] = lease[t]
    <2>1. rec.status # "none"
      BY <1>1 DEF TurnOK, Kin, Statuses
    <2> QED
      BY <1>1, <1>3, <1>5, <1>6, <2>1, UpdateKeeps
  <1>9. \A t \in Sessions \ {s} : row'[t] = row[t] /\ lease'[t] = lease[t]
    BY <1>1, <1>8 DEF StoreInv, StoreTypeOK
  <1>10. RowsStep
    <2>1. ASSUME NEW t \in Sessions
          PROVE  \/ row'[t] = row[t]
                 \/ t = s /\ row'[t].generation = row[t].generation
                          /\ row'[t].finished = row[t].finished
                          /\ row'[t].status = new.status
      BY <1>1, <1>7, <1>8 DEF StoreInv, StoreTypeOK
    <2>2. new.status # "none"
      BY <1>1, <1>5 DEF TurnOK, Kin, Statuses
    <2> QED
      BY <1>6, <2>1, <2>2 DEF RowsStep
  <1> QED
    BY <1>1, <1>6, <1>8, <1>9, <1>10

-----------------------------------------------------------------------------
(* What keeps the requests in order.                                       *)

\* A locked chat is left alone.
LocksRespected == \A s \in Sessions : Locked(s) => row'[s] = row[s]

\* The requests stay in order while nobody writes a locked chat.
LEMMA RequestsStay ==
    ASSUME RequestsInv, LocksRespected, UNCHANGED request
    PROVE  RequestsInv'
  <1>1. ASSUME NEW q \in Requests
        PROVE  RequestOK(q)'
    <2>1. RequestOK(q) /\ request'[q] = request[q]
      BY DEF RequestsInv
    <2>2. HoldsLock(q) /\ request[q].chat \in Sessions =>
              row'[request[q].chat] = row[request[q].chat]
      BY DEF LocksRespected, Locked, HoldsLock
    <2> QED
      BY <2>1, <2>2 DEF RequestOK, HoldsLock, Exists
  <1>2. (\A q, r \in Requests :
          HoldsLock(q) /\ HoldsLock(r) /\ request[q].chat = request[r].chat => q = r)'
    BY DEF RequestsInv, HoldsLock
  <1> QED
    BY <1>1, <1>2 DEF RequestsInv

\* A request takes its next step: it may change only a chat that nobody else
\* has locked, and lock only such a chat.
LEMMA RequestsKept ==
    ASSUME RequestsInv, NEW q \in Requests, NEW next \in Request,
           request' = [request EXCEPT ![q] = next],
           next.pc # "none" => next.chat \in Sessions,
           next.pc = "beginning" => row'[next.chat].status = "opening",
           next.pc = "finishing" => row'[next.chat].status \notin Absent,
           next.pc \in {"beginning", "finishing"} =>
               ~Locked(next.chat) /\ next.chat \in Sessions,
           \A r \in Requests \ {q} : HoldsLock(r) =>
               row'[request[r].chat] = row[request[r].chat]
    PROVE  RequestsInv'
  <1>1. request' \in [Requests -> Request] /\ request'[q] = next
        /\ \A r \in Requests \ {q} : request'[r] = request[r]
    BY DEF RequestsInv
  <1>2. ASSUME NEW r \in Requests
        PROVE  RequestOK(r)'
    <2>1. CASE r = q
      BY <1>1, <2>1 DEF RequestOK, Exists
    <2>2. CASE r # q
      <3>1. RequestOK(r) /\ request'[r] = request[r]
        BY <1>1, <2>2 DEF RequestsInv
      <3>2. HoldsLock(r) => row'[request[r].chat] = row[request[r].chat]
        BY <2>2
      <3> QED
        BY <3>1, <3>2 DEF RequestOK, HoldsLock, Exists
    <2> QED
      BY <2>1, <2>2
  <1>3. ASSUME NEW r \in Requests \ {q}, HoldsLock(q)', HoldsLock(r)',
               request'[q].chat = request'[r].chat
        PROVE  FALSE
    <2>1. ~Locked(next.chat) /\ request[r].chat = next.chat /\ HoldsLock(r)
      BY <1>1, <1>3 DEF HoldsLock
    <2> QED
      BY <2>1 DEF Locked, HoldsLock
  <1>4. (\A r, t \in Requests :
          HoldsLock(r) /\ HoldsLock(t) /\ request[r].chat = request[t].chat => r = t)'
    <2> SUFFICES ASSUME NEW r \in Requests, NEW t \in Requests, HoldsLock(r)', HoldsLock(t)',
                        request'[r].chat = request'[t].chat
                 PROVE  r = t
      BY DEF HoldsLock
    <2>1. CASE r = q \/ t = q
      BY <1>3, <2>1 DEF HoldsLock
    <2>2. CASE r # q /\ t # q
      BY <1>1, <2>2 DEF RequestsInv, HoldsLock
    <2> QED
      BY <2>1, <2>2
  <1> QED
    BY <1>1, <1>2, <1>4 DEF RequestsInv

-----------------------------------------------------------------------------
(* The worker's steps.                                                     *)

RunningType == running \in [Instances -> [Sessions -> Slots \cup {0}]]

\* A worker's step that respects the locks leaves the requests in order.
LEMMA WorkerFrame ==
    ASSUME IInv, UNCHANGED outside, LocksRespected, RunningType',
           UNCHANGED faults \/ Fault
    PROVE  RequestsInv' /\ RestType'
  <1>1. RequestsInv'
    BY RequestsStay DEF IInv, outside
  <1>2. faults' \in Nat
    BY DEF IInv, RestType, Fault
  <1> QED
    BY <1>1, <1>2 DEF IInv, RestType, RunningType, outside

\* When one worker moves, the others' turns stay theirs.
LEMMA OneGoes ==
    ASSUME IInv, NEW w \in Workers, NEW turn, Follows(w, turn), Goes(w, turn)
    PROVE  /\ TurnsFollow
           /\ worker'[w] = turn
           /\ \A v \in Workers \ {w} : worker'[v] = worker[v]
  <1>1. /\ worker'[w] = turn
        /\ \A v \in Workers \ {w} : worker'[v] = worker[v]
    BY DEF Goes, IInv, TurnsInv
  <1> QED
    BY <1>1 DEF TurnsFollow, Follows, Kin

\* A turn that moves on, or is left, without touching a chat.
LEMMA StepAside ==
    ASSUME IInv, NEW w \in Workers, UNCHANGED <<row, lease>>, UNCHANGED outside,
           RunningType', UNCHANGED faults \/ Fault,
           NEW turn, Follows(w, turn), Goes(w, turn)
    PROVE  KeptCalmly
  <1>1. StoreInv'
    BY DEF IInv, StoreInv, StoreTypeOK, SendableTranscript, LeaseIffRunning, FinishedLater
  <1>2. RowsStep /\ LocksRespected /\ LateStep /\ LeaseStep
    BY DEF RowsStep, LocksRespected, LateStep, LeaseStep
  <1>3. TurnsInv'
    BY <1>1, <1>2, TurnsKept DEF IInv, StoreInv
  <1>4. TurnsFollow
    BY OneGoes
  <1> QED
    BY <1>1, <1>2, <1>3, <1>4, WorkerFrame DEF IInv, Kept, KeptCalmly

\* A turn that returns takes its registration with it.
LEMMA LeavesIdle ==
    ASSUME IInv, NEW w \in Workers, worker[w].pc \in InTurn, Leaves(w)
    PROVE  RunningType' /\ Follows(w, Idle) /\ Goes(w, Idle)
  <1>1. worker[w].chat \in Sessions /\ w[1] \in Instances
    BY DEF IInv, TurnsInv, TurnOK, Workers
  <1>2. RunningType'
    BY <1>1 DEF IInv, RestType, RunningType, Leaves
  <1> QED
    BY <1>2, IdleFollows DEF Leaves

\* A turn whose save went through, and which goes on or is over.
LEMMA SavedKeeps ==
    ASSUME IInv, NEW w \in Workers, worker[w].pc \in InTurn,
           NEW rec, Kin(worker[w].copy, rec), rec.unanswered = 0,
           Save(worker[w].chat, w[1], rec, worker[w].copy.events),
           ~Locked(worker[w].chat), UNCHANGED outside,
           RunningType', UNCHANGED faults \/ Fault,
           NEW turn, Follows(w, turn), Goes(w, turn),
           turn.pc = "idle" \/ rec.status = "running"
    PROVE  KeptCalmly
  <1> DEFINE s == worker[w].chat
  <1>1. worker[w].copy.events \in Nat
    BY WorkerFields, RecordFields DEF IInv, TurnsInv
  <1>2. /\ StoreInv' /\ RowsStep /\ Current(w) /\ Fenced(w)
        /\ \A t \in Sessions \ {s} : row'[t] = row[t] /\ lease'[t] = lease[t]
        /\ rec.status = "running" => lease' = lease
    BY <1>1, SaveKeeps DEF IInv
  <1>3. LocksRespected
    BY <1>2 DEF LocksRespected
  <1>4. TurnsInv'
    BY <1>2, TurnsKept DEF IInv, StoreInv
  <1>5. TurnsFollow /\ worker'[w] = turn /\ \A v \in Workers \ {w} : worker'[v] = worker[v]
    BY OneGoes
  <1>6. LateStep /\ LeaseStep
    BY <1>2, <1>5 DEF LateStep, LeaseStep, InTurn
  <1> QED
    BY <1>2, <1>3, <1>4, <1>5, <1>6, WorkerFrame DEF IInv, Kept, KeptCalmly

\* The last save of a turn, taken, refused or lost, keeps everything in order.
LEMMA SaveLastKeeps ==
    ASSUME IInv, NEW w \in Workers, worker[w].pc \in InTurn,
           NEW rec, Kin(worker[w].copy, rec), rec.unanswered = 0,
           SaveLast(w, rec), UNCHANGED outside
    PROVE  KeptCalmly
  <1> DEFINE s == worker[w].chat
  <1>1. Leaves(w) /\ ~Locked(s) /\ (UNCHANGED faults \/ Fault)
    BY DEF SaveLast, Dropped
  <1>2. RunningType' /\ Follows(w, Idle) /\ Goes(w, Idle)
    BY <1>1, LeavesIdle
  <1>3. CASE Dropped(w, rec)
    BY <1>1, <1>2, <1>3, StepAside DEF Dropped, storeVars
  <1>4. CASE Save(s, w[1], encode(rec, 0), worker[w].copy.events)
    <2>1. Kin(worker[w].copy, encode(rec, 0)) /\ encode(rec, 0).unanswered = 0
      <3>1. Kin(rec, encode(rec, 0)) /\ encode(rec, 0).unanswered = 0
        BY EncodeKin DEF Kin
      <3> QED
        BY <3>1 DEF Kin
    <2>2. Idle.pc = "idle"
      BY DEF Idle
    <2> QED
      BY <1>1, <1>2, <1>4, <2>1, <2>2, SavedKeeps
  <1> QED
    BY <1>3, <1>4 DEF SaveLast

\* The save after a tool call, taken, refused or lost, keeps everything in order.
LEMMA SaveCallKeeps ==
    ASSUME IInv, NEW w \in Workers, worker[w].pc \in {"tools", "pushing", "pushed"},
           worker[w].left > 0,
           NEW rec, Kin(worker[w].copy, rec), rec.unanswered = worker[w].left,
           SaveCall(w, rec), UNCHANGED outside
    PROVE  KeptCalmly
  <1> DEFINE s == worker[w].chat
             pending == worker[w].left - 1
             answered == [rec EXCEPT !.unanswered = @ - 1, !.events = @ + 1]
             saved == [encode(answered, pending) EXCEPT !.status = "running"]
             turn == [worker[w] EXCEPT !.pc = "tools", !.left = pending,
                                       !.copy = answered]
  <1>1. /\ worker[w] \in Worker /\ rec \in Record /\ pending \in Nat
        /\ rec.unanswered - 1 = pending
        /\ worker[w].pc \in InTurn
    BY WorkerFields DEF IInv, TurnsInv, Kin, InTurn
  <1>2. Kin(rec, answered) /\ answered.unanswered = pending
    BY <1>1, RecordFields, Zenon DEF Kin, Record
  <1>3. Kin(worker[w].copy, answered)
    BY <1>2 DEF Kin
  <1> HIDE DEF answered
  <1>4. Kin(worker[w].copy, saved) /\ saved.unanswered = 0 /\ saved.status = "running"
    <2>1. Kin(answered, encode(answered, pending)) /\ encode(answered, pending).unanswered = 0
      BY <1>1, <1>2, EncodeKin DEF Kin
    <2>2. "running" \in Statuses \cup Absent /\ "running" \in Statuses
      BY DEF Statuses
    <2>3. Kin(encode(answered, pending), saved) /\ saved.unanswered = 0
          /\ saved.status = "running"
      BY <2>1, <2>2, Zenon DEF Kin, Record
    <2> QED
      BY <1>3, <2>1, <2>3 DEF Kin
  <1>5. Follows(w, turn)
    <2>1. turn \in Worker
      BY <1>1, <1>2, WorkerFields, Zenon DEF Worker, Kin, InTurn
    <2>2. /\ turn.pc = "tools" /\ turn.left = pending
          /\ turn.chat = worker[w].chat /\ turn.copy = answered
      BY <1>1, Zenon DEF Worker
    <2> HIDE DEF turn
    <2> QED
      BY <1>1, <1>2, <1>3, <2>1, <2>2 DEF Follows
  <1> HIDE DEF saved, turn, pending
  <1>6. ~Locked(s) /\ (UNCHANGED faults \/ Fault)
    BY DEF SaveCall, Dropped
  <1>7. CASE Dropped(w, answered)
    <2>1. RunningType' /\ Follows(w, Idle) /\ Goes(w, Idle)
      BY <1>1, <1>7, LeavesIdle DEF Dropped
    <2> QED
      BY <1>6, <1>7, <2>1, StepAside DEF Dropped, storeVars
  <1>8. CASE /\ Save(s, w[1], saved, worker[w].copy.events)
             /\ Goes(w, turn)
             /\ UNCHANGED <<running, faults>>
    <2>1. RunningType'
      BY <1>8 DEF IInv, RestType, RunningType
    <2> QED
      BY <1>1, <1>4, <1>5, <1>6, <1>8, <2>1, SavedKeeps
  <1>9. CASE /\ Save(s, w[1], saved, worker[w].copy.events)
             /\ Leaves(w)
    <2>1. RunningType' /\ Follows(w, Idle) /\ Goes(w, Idle)
      BY <1>1, <1>9, LeavesIdle
    <2> QED
      BY <1>1, <1>4, <1>6, <1>9, <2>1, SavedKeeps
  <1> QED
    BY <1>7, <1>8, <1>9 DEF SaveCall, answered, saved, turn, pending


-----------------------------------------------------------------------------
(* A worker's turn, up to the model's response.                            *)

\* A worker looks for a chat to claim.
LEMMA LookKeeps ==
    ASSUME IInv, NEW w \in Workers, Look(w)
    PROVE  KeptCalmly
  <1> DEFINE turn == [Idle EXCEPT !.pc = "asking",
                                  !.busy = {s \in Sessions : running[w[1]][s] # 0}]
  <1>1. turn \in Worker /\ turn.pc \notin InTurn
    <2>1. 0 \in Nat /\ NoOne \in Sessions \cup {NoOne}
          /\ {s \in Sessions : running[w[1]][s] # 0} \in SUBSET Sessions
      OBVIOUS
    <2> QED
      BY <2>1, BlankType, Zenon DEF Idle, Worker, InTurn
  <1>2. Goes(w, turn) /\ UNCHANGED <<row, lease, running, faults, outside>>
    BY DEF Look
  <1> HIDE DEF turn
  <1>3. Follows(w, turn)
    BY <1>1 DEF Follows
  <1>4. RunningType'
    BY <1>2 DEF IInv, RestType, RunningType
  <1> QED
    BY <1>2, <1>3, <1>4, StepAside DEF outside

\* A worker finds nothing to claim.
LEMMA ClaimNothingKeeps ==
    ASSUME IInv, NEW w \in Workers, ClaimNothing(w)
    PROVE  KeptCalmly
  <1>1. Goes(w, Idle) /\ UNCHANGED <<row, lease, running, faults, outside>>
    BY DEF ClaimNothing, Goes
  <1>2. RunningType'
    BY <1>1 DEF IInv, RestType, RunningType
  <1> QED
    BY <1>1, <1>2, IdleFollows, StepAside DEF outside

\* Nobody works at the generation of a chat that is claimed from the queue,
\* so the claim may be any worker's.
LEMMA ClaimTurnKeeps ==
    ASSUME IInv, NEW w \in Workers, ClaimTurn(w)
    PROVE  Kept
  <1>1. PICK s \in Offered(w) :
            /\ Claim(s, w[1])
            /\ Goes(w, [Idle EXCEPT !.pc = "claimed", !.chat = s, !.copy = Claimed(s)])
    BY DEF ClaimTurn
  <1> DEFINE turn == [Idle EXCEPT !.pc = "claimed", !.chat = s, !.copy = Claimed(s)]
  <1>2. s \in Sessions /\ ~Locked(s) /\ w[1] \in Instances /\ Claimable(s)
    BY <1>1 DEF Offered, Workers
  <1>3. /\ StoreInv' /\ row' = [row EXCEPT ![s] = Claimed(s)]
        /\ Kin(row[s], Claimed(s))
        /\ Claimed(s).status = "running" /\ Claimed(s).unanswered = 0
    BY <1>1, <1>2, ClaimKeeps DEF IInv
  <1>4. Exists(s)
    BY <1>2 DEF Claimable, Exists, Absent
  <1>5. RowsStep
    BY <1>2, <1>3, <1>4, RowWritten DEF IInv, StoreInv
  <1>6. /\ turn \in Worker
        /\ turn.pc = "claimed" /\ turn.chat = s /\ turn.copy = Claimed(s)
    <2>1. 0 \in Nat /\ s \in Sessions \cup {NoOne} /\ {} \in SUBSET Sessions
          /\ Claimed(s) \in Record
      BY <1>2, <1>3 DEF Kin
    <2> QED
      BY <2>1, Zenon DEF Idle, Worker, InTurn
  <1> HIDE DEF turn
  <1>7. row'[s] = Claimed(s)
    BY <1>2, <1>3 DEF IInv, StoreInv, StoreTypeOK
  <1>8. TurnsInv'
    <2>1. worker \in [Workers -> Worker] /\ worker' = [worker EXCEPT ![w] = turn]
      BY <1>1 DEF IInv, TurnsInv, Goes, turn
    <2>2. worker' \in [Workers -> Worker]
      BY <1>6, <2>1
    <2>3. ASSUME NEW v \in Workers
          PROVE  TurnOK(v)'
      <3>1. CASE v = w
        <4>1. worker'[v] = turn
          BY <2>1, <3>1
        <4>2. Claimed(s).generation <= Claimed(s).generation
          BY <1>3, RecordFields DEF Kin
        <4> QED
          BY <1>2, <1>3, <1>6, <1>7, <4>1, <4>2 DEF TurnOK, Current, Exists, Statuses
      <3>2. CASE v # w
        <4>1. worker'[v] = worker[v] /\ worker[v] \in Worker /\ TurnOK(v)
          BY <2>1, <3>2 DEF IInv, TurnsInv
        <4>2. worker[v].copy \in Record
          BY <4>1, WorkerFields
        <4>3. worker[v].pc \in InTurn => Follows(v, worker'[v])
          BY <4>1, <4>2 DEF Follows, Kin, TurnOK
        <4>4. worker[v].pc \notin InTurn => TurnOK(v)'
          BY <4>1 DEF TurnOK
        <4> QED
          BY <1>3, <1>5, <4>1, <4>3, <4>4, TurnMoves DEF IInv, StoreInv
      <3> QED
        BY <3>1, <3>2
    <2> QED
      BY <2>2, <2>3 DEF TurnsInv
  <1>9. LocksRespected
    BY <1>2, <1>3 DEF LocksRespected, IInv, StoreInv, StoreTypeOK
  <1>10. UNCHANGED outside /\ RunningType' /\ UNCHANGED faults
    BY DEF ClaimTurn, IInv, RestType, RunningType
  <1>11. LateStep
    BY <1>1 DEF LateStep, ClaimTurn, Goes, InTurn, IInv, TurnsInv
  <1> QED
    BY <1>3, <1>5, <1>8, <1>9, <1>10, <1>11, WorkerFrame DEF IInv, Kept

\* A turn goes on with its copy as it is.
LEMMA OnlyPcFollows ==
    ASSUME IInv, NEW w \in Workers, worker[w].pc \in InTurn,
           NEW to \in InTurn,
           to \in {"claimed", "model"} <=> worker[w].pc \in {"claimed", "model"},
           to \in {"pushing", "pushed"} => worker[w].left > 0
    PROVE  Follows(w, [worker[w] EXCEPT !.pc = to])
  <1> DEFINE turn == [worker[w] EXCEPT !.pc = to]
  <1>1. worker[w] \in Worker /\ TurnOK(w)
    BY DEF IInv, TurnsInv
  <1>2. /\ turn \in Worker
        /\ turn.pc = to /\ turn.chat = worker[w].chat
        /\ turn.copy = worker[w].copy /\ turn.left = worker[w].left
    BY <1>1, WorkerFields, Zenon DEF Worker, InTurn
  <1>3. worker[w].copy \in Record
    BY <1>1, WorkerFields
  <1> HIDE DEF turn
  <1>4. Follows(w, turn)
    BY <1>1, <1>2, <1>3 DEF Follows, Kin, TurnOK
  <1> QED
    BY <1>4 DEF turn

\* A turn is registered and has its attachments.
LEMMA LoadKeeps ==
    ASSUME IInv, NEW w \in Workers, Load(w)
    PROVE  KeptCalmly
  <1>1. worker[w].pc \in InTurn
    BY DEF Load, InTurn
  <1>2. worker[w].chat \in Sessions /\ w[1] \in Instances /\ w[2] \in Slots
    BY <1>1 DEF IInv, TurnsInv, TurnOK, Workers
  <1>3. RunningType'
    BY <1>2 DEF Load, IInv, RestType, RunningType
  <1>4. Follows(w, [worker[w] EXCEPT !.pc = "model"])
    BY <1>1, OnlyPcFollows DEF Load, InTurn
  <1> QED
    BY <1>3, <1>4, StepAside DEF Load, outside

\* A turn is dropped before it asked the model.
LEMMA LoadFailsKeeps ==
    ASSUME IInv, NEW w \in Workers, LoadFails(w)
    PROVE  KeptCalmly
  <1>1. worker[w].pc \in InTurn
    BY DEF LoadFails, InTurn
  <1>2. RunningType' /\ Follows(w, Idle) /\ Goes(w, Idle)
    BY <1>1, LeavesIdle DEF LoadFails
  <1> QED
    BY <1>2, StepAside DEF LoadFails, outside

\* A turn is dropped over a chunk it could not append.
LEMMA DeltaRefusedKeeps ==
    ASSUME IInv, NEW w \in Workers, DeltaRefused(w)
    PROVE  KeptCalmly
  <1>1. worker[w].pc \in InTurn
    BY DEF DeltaRefused, InTurn
  <1>2. RunningType' /\ Follows(w, Idle) /\ Goes(w, Idle)
    BY <1>1, LeavesIdle DEF DeltaRefused
  <1> QED
    BY <1>2, StepAside DEF DeltaRefused, outside

\* A turn whose character is gone ends as failed.
LEMMA CharacterGoneKeeps ==
    ASSUME IInv, NEW w \in Workers, CharacterGone(w)
    PROVE  KeptCalmly
  <1> DEFINE rec == Ended(worker[w].copy, "failed")
  <1>1. /\ worker[w].pc = "model" /\ worker[w].pc \in InTurn
        /\ worker[w].copy \in Record /\ worker[w].copy.unanswered = 0
    BY WorkerFields DEF CharacterGone, IInv, TurnsInv, TurnOK, InTurn
  <1>2. Kin(worker[w].copy, rec) /\ rec.unanswered = 0
    BY <1>1, EndedKin DEF Statuses
  <1> HIDE DEF rec
  <1>3. Kin(worker[w].copy, WithEvent(rec)) /\ WithEvent(rec).unanswered = 0
    BY <1>2, WithEventKin DEF Kin
  <1> QED
    BY <1>1, <1>3, SaveLastKeeps DEF CharacterGone, rec

\* A turn whose model failed ends as failed, or goes back to the queue.
LEMMA ModelFailsKeeps ==
    ASSUME IInv, NEW w \in Workers, ModelFails(w)
    PROVE  KeptCalmly
  <1> DEFINE back == setStatus(worker[w].copy, "queued")
             ended == Ended(worker[w].copy, "failed")
  <1>1. /\ worker[w].pc = "model" /\ worker[w].pc \in InTurn
        /\ worker[w].copy \in Record /\ worker[w].copy.unanswered = 0
    BY WorkerFields DEF ModelFails, IInv, TurnsInv, TurnOK, InTurn
  <1>2. Kin(worker[w].copy, back) /\ back.unanswered = 0
    BY <1>1, SetStatusKin DEF Statuses
  <1>3. Kin(worker[w].copy, ended) /\ ended.unanswered = 0
    BY <1>1, EndedKin DEF Statuses
  <1>4. SaveLast(w, back) \/ SaveLast(w, WithEvent(ended))
    BY DEF ModelFails
  <1> HIDE DEF back, ended
  <1>5. Kin(worker[w].copy, WithEvent(ended)) /\ WithEvent(ended).unanswered = 0
    BY <1>3, WithEventKin DEF Kin
  <1> QED
    BY <1>1, <1>2, <1>4, <1>5, SaveLastKeeps DEF ModelFails

\* A chunk of the response is appended to the log.
LEMMA DeltaKeeps ==
    ASSUME IInv, NEW w \in Workers, Delta(w)
    PROVE  KeptCalmly
  <1> DEFINE s == worker[w].chat
             turn == [worker[w] EXCEPT !.streamed = TRUE, !.copy = WithEvent(@)]
  <1>1. /\ worker[w].pc = "model" /\ worker[w].pc \in InTurn
        /\ worker[w] \in Worker /\ worker[w].copy \in Record
        /\ worker[w].copy.unanswered = 0 /\ s \in Sessions /\ w[1] \in Instances
    BY WorkerFields DEF Delta, IInv, TurnsInv, TurnOK, InTurn, Workers
  <1>2. Kin(worker[w].copy, WithEvent(worker[w].copy))
        /\ WithEvent(worker[w].copy).unanswered = 0
    BY <1>1, WithEventKin
  <1>3. Follows(w, turn)
    <2>1. /\ turn \in Worker
          /\ turn.pc = worker[w].pc /\ turn.chat = s
          /\ turn.copy = WithEvent(worker[w].copy)
      BY <1>1, <1>2, WorkerFields, Zenon DEF Worker, Kin
    <2> HIDE DEF turn
    <2> QED
      BY <1>1, <1>2, <2>1 DEF Follows
  <1>4. ~Locked(s) /\ UNCHANGED outside /\ (UNCHANGED faults \/ Fault)
    BY DEF Delta
  <1>5. /\ StoreInv' /\ Exists(s)
        /\ row' = [row EXCEPT ![s] = WithEvent(row[s])] /\ lease' = lease
        /\ Current(w) /\ Fenced(w)
    BY <1>1, AppendKeeps DEF Delta, Append, IInv, Held, Current, Fenced
  <1> HIDE DEF turn
  <1>6. RowsStep
    <2>1. row[s] \in Record
      BY <1>1 DEF IInv, StoreInv, StoreTypeOK
    <2>2. Kin(row[s], WithEvent(row[s])) /\ WithEvent(row[s]).status \in Statuses
      BY <1>5, <2>1, WithEventKin, RecordFields DEF Kin, Exists
    <2> HIDE DEF s
    <2> QED
      BY <1>1, <1>5, <2>2, RowWritten DEF IInv, StoreInv, Statuses, s
  <1>7. LocksRespected
    BY <1>1, <1>4, <1>5 DEF LocksRespected, IInv, StoreInv, StoreTypeOK
  <1>8. PICK next : Follows(w, next) /\ Goes(w, next) /\ RunningType'
    <2>1. CASE Goes(w, turn) /\ UNCHANGED running
      BY <1>3, <2>1 DEF IInv, RestType, RunningType
    <2>2. CASE Leaves(w)
      BY <1>1, <2>2, LeavesIdle
    <2> QED
      BY <2>1, <2>2 DEF Delta, turn
  <1>9. TurnsInv'
    BY <1>5, <1>6, <1>8, TurnsKept DEF IInv, StoreInv
  <1>10. TurnsFollow /\ \A v \in Workers \ {w} : worker'[v] = worker[v]
    BY <1>8, OneGoes
  <1>11. LateStep /\ LeaseStep
    BY <1>5, <1>10 DEF LateStep, LeaseStep
  <1> QED
    BY <1>4, <1>5, <1>6, <1>7, <1>8, <1>9, <1>10, <1>11, WorkerFrame DEF IInv, Kept, KeptCalmly

\* The response brings calls that have no output yet.
LEMMA ModelAnswersKeeps ==
    ASSUME IInv, NEW w \in Workers, ModelAnswers(w)
    PROVE  KeptCalmly
  <1>1. PICK calls \in 0..MaxCalls :
          Goes(w, [worker[w] EXCEPT
                      !.pc = "tools", !.batch = calls, !.left = calls,
                      !.copy = WithCalls(@, calls)])
    BY DEF ModelAnswers
  <1> DEFINE copy == WithCalls(worker[w].copy, calls)
             turn == [worker[w] EXCEPT !.pc = "tools", !.batch = calls, !.left = calls,
                                       !.copy = copy]
  <1>2. calls \in Nat
    BY BoundsAssumption
  <1>3. /\ worker[w].pc = "model" /\ worker[w].pc \in InTurn
        /\ worker[w] \in Worker /\ worker[w].copy \in Record
    BY WorkerFields DEF ModelAnswers, IInv, TurnsInv, InTurn
  <1>4. Kin(worker[w].copy, copy) /\ copy.unanswered = calls
    BY <1>2, <1>3, RecordFields, Zenon DEF Kin, Record, WithCalls
  <1>5. Goes(w, turn)
    BY <1>1
  <1> HIDE DEF copy
  <1>6. /\ turn \in Worker
        /\ turn.pc = "tools" /\ turn.chat = worker[w].chat
        /\ turn.copy = copy /\ turn.left = calls
    BY <1>2, <1>3, <1>4, WorkerFields, Zenon DEF Worker, Kin, InTurn
  <1> HIDE DEF turn
  <1>7. Follows(w, turn)
    BY <1>3, <1>4, <1>6 DEF Follows
  <1>8. RunningType'
    BY DEF ModelAnswers, IInv, RestType, RunningType
  <1> QED
    BY <1>5, <1>7, <1>8, StepAside DEF ModelAnswers, outside

-----------------------------------------------------------------------------
(* The tool calls.                                                         *)

\* What the invariant says of a turn between two calls.
LEMMA CopyInTools ==
    ASSUME IInv, NEW w \in Workers, worker[w].pc \in {"tools", "pushing", "pushed"}
    PROVE  /\ worker[w].pc \in InTurn
           /\ worker[w] \in Worker /\ worker[w].copy \in Record
           /\ worker[w].chat \in Sessions
           /\ worker[w].copy.unanswered = worker[w].left
           /\ Kin(worker[w].copy, worker[w].copy)
           /\ worker[w].pc # "tools" => worker[w].left > 0
  <1>1. worker[w].pc \in InTurn
    BY DEF InTurn
  <1> QED
    BY <1>1, WorkerFields DEF IInv, TurnsInv, TurnOK, Kin

\* A tool changes neither the generation nor the calls still to run.
LEMMA PulledKin ==
    ASSUME IInv, NEW w \in Workers, worker[w].pc = "tools",
           NEW rec \in AfterTool(w)
    PROVE  Kin(worker[w].copy, rec) /\ rec.unanswered = worker[w].left
  <1>1. /\ worker[w].copy \in Record /\ worker[w].chat \in Sessions
        /\ worker[w].copy.unanswered = worker[w].left
        /\ Kin(worker[w].copy, worker[w].copy)
    BY CopyInTools
  <1>2. Kin(worker[w].copy, Pulled(w)) /\ Pulled(w).unanswered = worker[w].left
    <2> DEFINE c == char[worker[w].chat]
    <2>1. c.revision \in Nat /\ c.edits \in Nat
      BY <1>1 DEF IInv, RestType
    <2> HIDE DEF c
    <2>2. \/ Pulled(w) = worker[w].copy
          \/ Pulled(w) = [worker[w].copy EXCEPT !.seen = c.revision, !.told = c.edits]
      BY DEF Pulled, c
    <2>3. CASE Pulled(w) = [worker[w].copy EXCEPT !.seen = c.revision, !.told = c.edits]
      BY <1>1, <2>1, <2>3, RecordFields, Zenon DEF Kin, Record
    <2> QED
      BY <1>1, <2>2, <2>3
  <1>3. PICK to \in Statuses : rec = setStatus(Pulled(w), to)
    BY DEF AfterTool, Statuses
  <1>4. Kin(Pulled(w), rec) /\ rec.unanswered = Pulled(w).unanswered
    BY <1>2, <1>3, SetStatusKin DEF Kin
  <1> QED
    BY <1>2, <1>4 DEF Kin

\* A call that is not run is answered and saved.
LEMMA CallNotRunKeeps ==
    ASSUME IInv, NEW w \in Workers, CallNotRun(w)
    PROVE  KeptCalmly
  BY CopyInTools, SaveCallKeeps DEF CallNotRun, Calling

\* A call that finds no character is answered and saved.
LEMMA CallFindsNoCharacterKeeps ==
    ASSUME IInv, NEW w \in Workers, CallFindsNoCharacter(w)
    PROVE  KeptCalmly
  <1>1. worker[w].pc = "tools" /\ worker[w].left > 0
    BY DEF CallFindsNoCharacter, MayCall, Calling
  <1>2. /\ Kin(worker[w].copy, setStatus(worker[w].copy, "failed"))
        /\ setStatus(worker[w].copy, "failed").unanswered = worker[w].left
    BY <1>1, CopyInTools, SetStatusKin DEF Statuses
  <1> QED
    BY <1>1, <1>2, SaveCallKeeps DEF CallFindsNoCharacter

\* A call that only reads is answered and saved.
LEMMA CallReadsKeeps ==
    ASSUME IInv, NEW w \in Workers, CallReads(w)
    PROVE  KeptCalmly
  <1>1. worker[w].pc = "tools" /\ worker[w].left > 0
    BY DEF CallReads, MayCall, Calling
  <1>2. PICK rec \in AfterTool(w) : SaveCall(w, rec)
    BY DEF CallReads
  <1>3. Kin(worker[w].copy, rec) /\ rec.unanswered = worker[w].left
    BY <1>1, PulledKin
  <1> QED
    BY <1>1, <1>2, <1>3, SaveCallKeeps DEF CallReads

\* A call is about to write the character.
LEMMA CallWritesKeeps ==
    ASSUME IInv, NEW w \in Workers, CallWrites(w)
    PROVE  KeptCalmly
  <1>1. worker[w].pc = "tools" /\ worker[w].left > 0
    BY DEF CallWrites, MayCall, Calling
  <1>2. PICK rec \in AfterTool(w) :
            Goes(w, [worker[w] EXCEPT !.pc = "pushing", !.copy = rec])
    BY DEF CallWrites
  <1> DEFINE turn == [worker[w] EXCEPT !.pc = "pushing", !.copy = rec]
  <1>3. Kin(worker[w].copy, rec) /\ rec.unanswered = worker[w].left
    BY <1>1, PulledKin
  <1>4. worker[w] \in Worker /\ worker[w].pc \in InTurn
    BY <1>1, CopyInTools
  <1>5. /\ turn \in Worker
        /\ turn.pc = "pushing" /\ turn.chat = worker[w].chat
        /\ turn.copy = rec /\ turn.left = worker[w].left
    BY <1>3, <1>4, WorkerFields, Zenon DEF Worker, Kin, InTurn
  <1> HIDE DEF turn
  <1>6. Follows(w, turn)
    BY <1>1, <1>3, <1>4, <1>5 DEF Follows
  <1>7. RunningType'
    BY DEF CallWrites, IInv, RestType, RunningType
  <1> QED
    BY <1>2, <1>6, <1>7, StepAside DEF CallWrites, outside, turn

\* A call writes the character.
LEMMA PushKeeps ==
    ASSUME IInv, NEW w \in Workers, Push(w)
    PROVE  KeptCalmly
  <1>1. worker[w].pc = "pushing" /\ worker[w].chat \in Sessions /\ worker[w].left > 0
        /\ worker[w].pc \in InTurn
    BY CopyInTools DEF Push
  <1>2. Follows(w, [worker[w] EXCEPT !.pc = "pushed"])
    BY <1>1, OnlyPcFollows DEF InTurn
  <1>3. StoreInv' /\ RowsStep /\ LocksRespected /\ LateStep /\ LeaseStep
    BY DEF Push, IInv, StoreInv, StoreTypeOK, SendableTranscript, LeaseIffRunning,
           FinishedLater, RowsStep, LocksRespected, LateStep, LeaseStep
  <1>4. TurnsInv'
    BY <1>2, <1>3, TurnsKept DEF Push, IInv, StoreInv
  <1>5. RequestsInv'
    BY <1>3, RequestsStay DEF Push, IInv
  <1>6. RestType'
    <2>1. char[worker[w].chat].revision + 1 \in Nat
      BY <1>1 DEF IInv, RestType
    <2> QED
      BY <1>1, <2>1 DEF Push, IInv, RestType
  <1>7. TurnsFollow
    BY <1>2, OneGoes DEF Push
  <1> QED
    BY <1>3, <1>4, <1>5, <1>6, <1>7 DEF IInv, Kept, KeptCalmly

\* A call whose write was refused is answered and saved.
LEMMA PushRefusedKeeps ==
    ASSUME IInv, NEW w \in Workers, PushRefused(w)
    PROVE  KeptCalmly
  <1>1. worker[w].pc = "pushing"
    BY DEF PushRefused
  <1>2. Kin(worker[w].copy, worker[w].copy) /\ worker[w].copy.unanswered = worker[w].left
        /\ worker[w].left > 0
    BY <1>1, CopyInTools
  <1> QED
    BY <1>1, <1>2, SaveCallKeeps DEF PushRefused

\* A call that wrote the character is answered and saved.
LEMMA RereadKeeps ==
    ASSUME IInv, NEW w \in Workers, Reread(w)
    PROVE  KeptCalmly
  <1> DEFINE c == char[worker[w].chat]
             seen == [worker[w].copy EXCEPT !.seen = c.revision]
  <1>1. worker[w].pc = "pushed"
    BY DEF Reread
  <1>2. /\ Kin(worker[w].copy, worker[w].copy)
        /\ worker[w].copy \in Record /\ worker[w].chat \in Sessions
        /\ worker[w].copy.unanswered = worker[w].left /\ worker[w].left > 0
    BY <1>1, CopyInTools
  <1>3. c.revision \in Nat
    BY <1>2 DEF IInv, RestType
  <1>4. SaveCall(w, seen) \/ SaveCall(w, worker[w].copy)
    BY DEF Reread
  <1>5. Kin(worker[w].copy, seen) /\ seen.unanswered = worker[w].left
    <2> HIDE DEF c
    <2> QED
      BY <1>2, <1>3, RecordFields, Zenon DEF Kin, Record
  <1> HIDE DEF seen
  <1> QED
    BY <1>1, <1>2, <1>4, <1>5, SaveCallKeeps DEF Reread

\* A turn that has answered all its calls ends.
LEMMA EndTurnKeeps ==
    ASSUME IInv, NEW w \in Workers, EndTurn(w)
    PROVE  KeptCalmly
  <1> DEFINE rec == worker[w].copy
             closed == [rec EXCEPT !.revision = @ + 1]
             paused == Ended(rec, "paused")
             queued == Ended(rec, "queued")
  <1>1. /\ worker[w].pc = "tools" /\ worker[w].pc \in InTurn
        /\ rec \in Record /\ rec.unanswered = 0
    BY CopyInTools DEF EndTurn
  <1>2. Kin(rec, closed) /\ closed.unanswered = 0
    BY <1>1, RecordFields, Zenon DEF Kin, Record
  <1>3. Kin(rec, paused) /\ paused.unanswered = 0
    BY <1>1, EndedKin DEF Statuses
  <1>4. Kin(rec, queued) /\ queued.unanswered = 0
    BY <1>1, EndedKin DEF Statuses
  <1>5. SaveLast(w, closed) \/ SaveLast(w, WithEvent(paused)) \/ SaveLast(w, queued)
    BY DEF EndTurn
  <1> HIDE DEF closed, paused, queued
  <1>6. Kin(rec, WithEvent(paused)) /\ WithEvent(paused).unanswered = 0
    BY <1>3, WithEventKin DEF Kin
  <1> QED
    BY <1>1, <1>2, <1>4, <1>5, <1>6, SaveLastKeeps DEF EndTurn

\* A turn that runs out of time stays where it is.
LEMMA DeadlinePassesKeeps ==
    ASSUME IInv, NEW w \in Workers, DeadlinePasses(w)
    PROVE  KeptCalmly
  <1> DEFINE turn == [worker[w] EXCEPT !.cancelled = TRUE]
  <1>1. worker[w].pc \in InTurn /\ worker[w] \in Worker /\ TurnOK(w)
    BY DEF DeadlinePasses, IInv, TurnsInv
  <1>2. /\ turn \in Worker
        /\ turn.pc = worker[w].pc /\ turn.chat = worker[w].chat
        /\ turn.copy = worker[w].copy /\ turn.left = worker[w].left
    BY <1>1, WorkerFields, Zenon DEF Worker
  <1>3. worker[w].copy \in Record
    BY <1>1, WorkerFields
  <1>4. Goes(w, turn)
    BY DEF DeadlinePasses
  <1> HIDE DEF turn
  <1>5. Follows(w, turn)
    BY <1>1, <1>2, <1>3 DEF Follows, Kin, TurnOK
  <1>6. RunningType'
    BY DEF DeadlinePasses, IInv, RestType, RunningType
  <1> QED
    BY <1>4, <1>5, <1>6, StepAside DEF DeadlinePasses, outside

-----------------------------------------------------------------------------
(* The owner's requests.                                                   *)

CharType == char \in [Sessions -> [stored : BOOLEAN, revision : Nat, edits : Nat]]

\* What creating, deleting and leaving alone a character do to the type.
LEMMA CharactersStayTyped ==
    ASSUME IInv
    PROVE  /\ UNCHANGED char => CharType'
           /\ \A s \in Sessions : CreateCharacter(s) \/ DeleteCharacter(s) => CharType'
           /\ \A s \in Sessions : char' = [char EXCEPT ![s].revision = @ + 1] => CharType'
  <1>1. CharType
    BY DEF IInv, RestType, CharType
  <1>2. ASSUME NEW s \in Sessions
        PROVE  /\ CreateCharacter(s) \/ DeleteCharacter(s) => CharType'
               /\ char' = [char EXCEPT ![s].revision = @ + 1] => CharType'
    <2>1. CreateCharacter(s) => CharType'
      <3> DEFINE made == [NoCharacter EXCEPT !.stored = TRUE]
      <3>1. made \in [stored : BOOLEAN, revision : Nat, edits : Nat]
        BY DEF NoCharacter
      <3>2. CreateCharacter(s) => char' = [char EXCEPT ![s] = made]
        BY DEF CreateCharacter
      <3> HIDE DEF made
      <3> QED
        BY <1>1, <3>1, <3>2 DEF CharType
    <2>2. DeleteCharacter(s) => CharType'
      BY <1>1 DEF CharType, DeleteCharacter
    <2>3. char[s].revision + 1 \in Nat
      BY <1>1 DEF CharType
    <2>4. char' = [char EXCEPT ![s].revision = @ + 1] => CharType'
      BY <1>1, <2>3 DEF CharType
    <2> QED
      BY <2>1, <2>2, <2>4
  <1> QED
    BY <1>1, <1>2 DEF CharType

\* A request's step disturbs no worker.
LEMMA RequestFrame ==
    ASSUME IInv, StoreInv', RowsStep, LeaseStep, UNCHANGED turns, CharType',
           UNCHANGED faults \/ Fault, RequestsInv'
    PROVE  KeptCalmly
  <1>1. TurnsInv'
    BY TurnsStay DEF IInv, StoreInv, turns
  <1>2. RestType'
    BY DEF IInv, RestType, CharType, turns, Fault
  <1>3. LateStep /\ TurnsFollow
    BY DEF LateStep, TurnsFollow, turns
  <1> QED
    BY <1>1, <1>2, <1>3 DEF IInv, Kept, KeptCalmly

\* A step that leaves every chat alone keeps what is stored in order.
LEMMA RowsUntouched ==
    ASSUME IInv, UNCHANGED <<row, lease>>
    PROVE  /\ StoreInv' /\ RowsStep /\ LocksRespected /\ LateStep /\ LeaseStep
           /\ \A r \in Requests : row'[request[r].chat] = row[request[r].chat]
  BY DEF IInv, StoreInv, StoreTypeOK, SendableTranscript, LeaseIffRunning, FinishedLater,
         RowsStep, LocksRespected, LateStep, LeaseStep

\* Writing a chat that is not locked, or is by the writer, disturbs nobody
\* who holds a lock.
LEMMA OthersUndisturbed ==
    ASSUME IInv, NEW q \in Requests, NEW s \in Sessions, NEW rec,
           row' = [row EXCEPT ![s] = rec],
           ~Locked(s) \/ (HoldsLock(q) /\ request[q].chat = s)
    PROVE  \A r \in Requests \ {q} :
               HoldsLock(r) => row'[request[r].chat] = row[request[r].chat]
  <1> SUFFICES ASSUME NEW r \in Requests \ {q}, HoldsLock(r)
               PROVE  row'[request[r].chat] = row[request[r].chat]
    OBVIOUS
  <1>1. request[r].chat \in Sessions
    BY DEF IInv, RequestsInv, RequestOK, HoldsLock
  <1>2. request[r].chat # s
    BY DEF Locked, HoldsLock, IInv, RequestsInv
  <1> QED
    BY <1>1, <1>2 DEF IInv, StoreInv, StoreTypeOK

\* A request that was answered.
LEMMA AnsweredType == Answered \in Request /\ Answered.pc = "none"
  BY DEF Answered, Request

\* A request that was given a chat.
Asked(p, s, pc) == [pc |-> pc, at |-> p, chat |-> s]

\* What becomes of a request that takes up a chat.
LEMMA BecomesType ==
    ASSUME NEW q \in Requests, NEW p \in Instances, NEW s \in Sessions,
           NEW pc \in {"none", "keeping", "beginning", "finishing", "discarding",
                       "discarded", "stopping"},
           Becomes(q, p, s, pc)
    PROVE  /\ Asked(p, s, pc) \in Request
           /\ Asked(p, s, pc).pc = pc /\ Asked(p, s, pc).chat = s
           /\ request' = [request EXCEPT ![q] = Asked(p, s, pc)]
  BY DEF Request, Becomes, Asked

\* What a request that goes on with its chat becomes.
LEMMA NextType ==
    ASSUME IInv, NEW q \in Requests, request[q].pc # "none",
           NEW pc \in {"none", "keeping", "beginning", "finishing", "discarding",
                       "discarded", "stopping"}
    PROVE  LET next == [request[q] EXCEPT !.pc = pc]
           IN  /\ next \in Request /\ next.pc = pc /\ next.chat = request[q].chat
               /\ request[q].chat \in Sessions
               /\ request' = [request EXCEPT ![q].pc = pc] =>
                      request' = [request EXCEPT ![q] = next]
  <1>1. request[q] \in Request /\ request[q].chat \in Sessions
    BY DEF IInv, RequestsInv, RequestOK
  <1> QED
    BY <1>1 DEF Request

\* Opening a chat.
LEMMA OpenKeeps ==
    ASSUME IInv, NEW q \in Requests, NEW p \in Instances, NEW s \in Sessions, Open(q, p, s)
    PROVE  KeptCalmly
  <1>1. /\ StoreInv' /\ row' = [row EXCEPT ![s] = opening] /\ lease' = lease
        /\ row[s].status = "none"
    BY OpeningType, CreateKeeps DEF Open, IInv
  <1>2. RowsStep /\ LeaseStep
    BY <1>1, RowWritten DEF IInv, StoreInv, LeaseStep
  <1>3. LocksRespected
    BY <1>1 DEF LocksRespected, Open, Undrawn, Locked, IInv, StoreInv, StoreTypeOK
  <1>4. RequestsInv'
    BY <1>3, RequestsStay DEF Open, IInv
  <1> QED
    BY <1>1, <1>2, <1>4, CharactersStayTyped, RequestFrame DEF Open, turns

\* A step in which a request deals with a character or is answered, while
\* every chat stays as it is.
LEMMA RequestAlone ==
    ASSUME IInv, UNCHANGED <<row, lease>>, UNCHANGED turns, CharType',
           UNCHANGED faults \/ Fault,
           NEW q \in Requests, NEW next \in Request,
           request' = [request EXCEPT ![q] = next],
           next.pc # "none" => next.chat \in Sessions,
           next.pc = "beginning" => row[next.chat].status = "opening",
           next.pc = "finishing" => Exists(next.chat),
           next.pc \in {"beginning", "finishing"} => ~Locked(next.chat)
    PROVE  KeptCalmly
  <1>1. StoreInv' /\ RowsStep /\ LeaseStep
        /\ \A r \in Requests : row'[request[r].chat] = row[request[r].chat]
    BY RowsUntouched
  <1>2. RequestsInv'
    BY <1>1, RequestsKept DEF IInv, Exists
  <1> QED
    BY <1>1, <1>2, RequestFrame

\* Making the character of a chat that is opened in one step.
LEMMA CreateStartKeeps ==
    ASSUME IInv, NEW q \in Requests, NEW p \in Instances, NEW s \in Sessions,
           CreateStart(q, p, s)
    PROVE  KeptCalmly
  <1>1. CharType'
    BY CharactersStayTyped DEF CreateStart
  <1>2. /\ Asked(p, s, "keeping") \in Request
        /\ Asked(p, s, "keeping").pc = "keeping" /\ Asked(p, s, "keeping").chat = s
        /\ request' = [request EXCEPT ![q] = Asked(p, s, "keeping")]
    BY BecomesType DEF CreateStart
  <1> QED
    BY <1>1, <1>2, RequestAlone DEF CreateStart, turns

\* Making the character of a chat under its row lock.
LEMMA BeginKeeps ==
    ASSUME IInv, NEW q \in Requests, NEW p \in Instances, NEW s \in Sessions, Begin(q, p, s)
    PROVE  KeptCalmly
  <1>1. CharType'
    BY CharactersStayTyped DEF Begin
  <1>2. /\ Asked(p, s, "beginning") \in Request
        /\ Asked(p, s, "beginning").pc = "beginning" /\ Asked(p, s, "beginning").chat = s
        /\ request' = [request EXCEPT ![q] = Asked(p, s, "beginning")]
    BY BecomesType DEF Begin
  <1> QED
    BY <1>1, <1>2, RequestAlone DEF Begin, turns

\* Dressing the character under the chat's row lock.
LEMMA FinishKeeps ==
    ASSUME IInv, NEW q \in Requests, NEW p \in Instances, NEW s \in Sessions, Finish(q, p, s)
    PROVE  KeptCalmly
  <1>1. CharType'
    BY CharactersStayTyped DEF Finish
  <1>2. /\ Asked(p, s, "finishing") \in Request
        /\ Asked(p, s, "finishing").pc = "finishing" /\ Asked(p, s, "finishing").chat = s
        /\ request' = [request EXCEPT ![q] = Asked(p, s, "finishing")]
    BY BecomesType DEF Finish
  <1> QED
    BY <1>1, <1>2, RequestAlone DEF Finish, Controllable, turns

\* Loading the chat that is to be discarded.
LEMMA DiscardLoadsKeeps ==
    ASSUME IInv, NEW q \in Requests, NEW p \in Instances, NEW s \in Sessions,
           DiscardLoads(q, p, s)
    PROVE  KeptCalmly
  <1>1. CharType'
    BY CharactersStayTyped DEF DiscardLoads
  <1>2. PICK pc \in {"discarding", "discarded"} : Becomes(q, p, s, pc)
    BY DEF DiscardLoads
  <1>3. /\ Asked(p, s, pc) \in Request
        /\ Asked(p, s, pc).pc = pc /\ Asked(p, s, pc).chat = s
        /\ request' = [request EXCEPT ![q] = Asked(p, s, pc)]
    BY <1>2, BecomesType
  <1> QED
    BY <1>1, <1>3, RequestAlone DEF DiscardLoads, turns

\* Deleting the character of the chat that is discarded.
LEMMA DiscardCharacterKeeps ==
    ASSUME IInv, NEW q \in Requests, DiscardCharacter(q)
    PROVE  KeptCalmly
  <1> DEFINE next == [request[q] EXCEPT !.pc = "discarded"]
  <1>1. /\ next \in Request /\ next.pc = "discarded" /\ next.chat = request[q].chat
        /\ request[q].chat \in Sessions
        /\ request' = [request EXCEPT ![q] = next]
    BY NextType DEF DiscardCharacter
  <1>2. CharType'
    BY <1>1, CharactersStayTyped DEF DiscardCharacter
  <1> HIDE DEF next
  <1> QED
    BY <1>1, <1>2, RequestAlone DEF DiscardCharacter, turns

\* A request that could not be committed, or seems so.
LEMMA RequestFailsKeeps ==
    ASSUME IInv, NEW q \in Requests, RequestFails(q)
    PROVE  KeptCalmly
  <1>1. request[q].chat \in Sessions
    BY DEF RequestFails, IInv, RequestsInv, RequestOK
  <1>2. CharType'
    BY <1>1, CharactersStayTyped DEF RequestFails
  <1> QED
    BY <1>2, AnsweredType, RequestAlone DEF RequestFails, turns

\* A step in which a request writes its chat and goes on as next.
LEMMA RequestWrites ==
    ASSUME IInv, StoreInv', NEW s \in Sessions, NEW rec,
           row' = [row EXCEPT ![s] = rec],
           \A t \in Sessions \ {s} : lease'[t] = lease[t],
           \/ row[s].status = "none"
           \/ rec.status = "gone"
           \/ Exists(s) /\ Fencing(row[s], rec)
           \/ /\ Exists(s) /\ Kin(row[s], rec)
              /\ rec.status # "none" /\ row[s].status # "running",
           UNCHANGED turns, CharType', UNCHANGED faults \/ Fault,
           NEW q \in Requests, NEW next \in Request,
           request' = [request EXCEPT ![q] = next],
           next.pc \in {"none", "stopping"}, next.chat = s \/ next.pc = "none",
           ~Locked(s) \/ (HoldsLock(q) /\ request[q].chat = s)
    PROVE  KeptCalmly
  <1>1. RowsStep
    BY RowWritten DEF IInv, StoreInv
  <1>2. \A r \in Requests \ {q} :
            HoldsLock(r) => row'[request[r].chat] = row[request[r].chat]
    BY OthersUndisturbed
  <1>3. RequestsInv'
    BY <1>2, RequestsKept DEF IInv
  <1>4. LeaseStep
    <2>1. row'[s] = rec /\ row[s] \in Record
      BY DEF IInv, StoreInv, StoreTypeOK
    <2>2. row[s].generation \in Nat
      BY <2>1, RecordFields
    <2> QED
      BY <2>1, <2>2 DEF LeaseStep, Fencing, Absent
  <1> QED
    BY <1>1, <1>3, <1>4, RequestFrame

\* Storing the chat that was opened in one step, or giving it up.
LEMMA CreateKeepKeeps ==
    ASSUME IInv, NEW q \in Requests, CreateKeep(q)
    PROVE  KeptCalmly
  <1> DEFINE s == request[q].chat
             rec == Started(Chosen(opening))
  <1>1. s \in Sessions
    BY DEF CreateKeep, IInv, RequestsInv, RequestOK
  <1>2. CASE Create(s, rec) /\ (UNCHANGED <<char, faults>> \/ (DeleteCharacter(s) /\ Fault))
    <2>1. Kin(opening, Chosen(opening)) /\ Chosen(opening).status = "opening"
          /\ Chosen(opening).unanswered = 0
      BY OpeningType, ChosenKin
    <2>2. rec \in Record /\ rec.status \in {"opening", "queued"} /\ rec.unanswered = 0
      BY <2>1, StartedKin DEF Kin
    <2> HIDE DEF rec
    <2>3. /\ StoreInv' /\ row' = [row EXCEPT ![s] = rec] /\ lease' = lease
          /\ row[s].status = "none"
      BY <1>1, <1>2, <2>2, CreateKeeps DEF IInv
    <2>4. ~Locked(s)
      BY <1>1, <2>3 DEF Locked, IInv, RequestsInv, RequestOK, Exists, Absent
    <2>5. CharType' /\ (UNCHANGED faults \/ Fault)
      BY <1>1, <1>2, CharactersStayTyped
    <2> QED
      BY <1>1, <2>3, <2>4, <2>5, AnsweredType, RequestWrites DEF CreateKeep
  <1>3. CASE DeleteCharacter(s) /\ UNCHANGED <<row, lease, faults>>
    <2>1. CharType'
      BY <1>1, <1>3, CharactersStayTyped
    <2> QED
      BY <1>3, <2>1, AnsweredType, RequestAlone DEF CreateKeep
  <1> QED
    BY <1>2, <1>3 DEF CreateKeep

\* Choosing the rules: nobody works on a chat that is still opening.
LEMMA RulesKeeps ==
    ASSUME IInv, NEW q \in Requests, NEW p \in Instances, NEW s \in Sessions, Rules(q, p, s)
    PROVE  KeptCalmly
  <1>1. row[s] \in Record /\ row[s].unanswered = 0
        /\ row[s].status = "opening"
    BY DEF Rules, IInv, StoreInv, StoreTypeOK, SendableTranscript
  <1>2. Kin(row[s], Chosen(row[s])) /\ Chosen(row[s]).status = "opening"
        /\ Chosen(row[s]).unanswered = 0
    BY <1>1, ChosenKin
  <1>3. /\ StoreInv' /\ row' = [row EXCEPT ![s] = Chosen(row[s])]
        /\ \A t \in Sessions \ {s} : lease'[t] = lease[t]
    BY <1>1, <1>2, UpdateKeeps DEF Rules, IInv, Kin
  <1>4. CharType' /\ UNCHANGED turns /\ UNCHANGED faults
    BY CharactersStayTyped DEF Rules, turns
  <1>5. /\ Asked(p, s, "stopping") \in Request
        /\ Asked(p, s, "stopping").pc = "stopping" /\ Asked(p, s, "stopping").chat = s
        /\ request' = [request EXCEPT ![q] = Asked(p, s, "stopping")]
    BY BecomesType DEF Rules
  <1> QED
    BY <1>1, <1>2, <1>3, <1>4, <1>5, RequestWrites DEF Rules, Exists, Absent

\* Committing the first message: the row lock kept the chat opening.
LEMMA BeginCommitsKeeps ==
    ASSUME IInv, NEW q \in Requests, BeginCommits(q)
    PROVE  KeptCalmly
  <1> DEFINE s == request[q].chat
             stopping == [request[q] EXCEPT !.pc = "stopping"]
  <1>1. /\ stopping \in Request /\ stopping.pc = "stopping" /\ stopping.chat = s
        /\ s \in Sessions
        /\ request' = [request EXCEPT ![q].pc = "stopping"] =>
               request' = [request EXCEPT ![q] = stopping]
    BY NextType DEF BeginCommits
  <1> HIDE DEF stopping
  <1>2. PICK next \in Request :
            /\ next.pc \in {"none", "stopping"} /\ (next.chat = s \/ next.pc = "none")
            /\ request' = [request EXCEPT ![q] = next]
    BY <1>1, AnsweredType DEF BeginCommits
  <1>3. HoldsLock(q) /\ row[s].status = "opening"
    BY DEF BeginCommits, IInv, RequestsInv, RequestOK, HoldsLock
  <1>4. row[s] \in Record /\ row[s].unanswered = 0
    BY <1>1 DEF IInv, StoreInv, StoreTypeOK, SendableTranscript
  <1>5. Kin(row[s], Started(row[s])) /\ Started(row[s]).status \in {"opening", "queued"}
        /\ Started(row[s]).unanswered = 0
    BY <1>3, <1>4, StartedKin
  <1>6. /\ StoreInv' /\ row' = [row EXCEPT ![s] = Started(row[s])]
        /\ \A t \in Sessions \ {s} : lease'[t] = lease[t]
    BY <1>1, <1>5, UpdateKeeps DEF BeginCommits, IInv, Kin
  <1>7. CharType' /\ UNCHANGED turns /\ (UNCHANGED faults \/ Fault)
    BY <1>1, CharactersStayTyped DEF BeginCommits, turns
  <1> HIDE DEF s
  <1> QED
    BY <1>1, <1>2, <1>3, <1>5, <1>6, <1>7, RequestWrites DEF Exists, Absent, s

\* A control of the owner's, of a chat nobody else has locked.
LEMMA FencingWrites ==
    ASSUME IInv, NEW s \in Sessions, Exists(s), NEW rec, Fencing(row[s], rec),
           Update(s, rec), UNCHANGED turns, CharType', UNCHANGED faults,
           NEW q \in Requests, NEW next \in Request,
           request' = [request EXCEPT ![q] = next],
           next.pc = "stopping", next.chat = s,
           ~Locked(s) \/ (HoldsLock(q) /\ request[q].chat = s)
    PROVE  KeptCalmly
  <1>1. row[s] \in Record /\ row[s].unanswered = 0
    BY DEF IInv, StoreInv, StoreTypeOK, SendableTranscript
  <1>2. /\ rec \in Record /\ rec.unanswered = 0
        /\ rec.status = "running" => row[s].status = "running"
        /\ rec.status # "none"
    BY <1>1 DEF Fencing, Exists, Absent
  <1>3. /\ StoreInv' /\ row' = [row EXCEPT ![s] = rec]
        /\ \A t \in Sessions \ {s} : lease'[t] = lease[t]
    BY <1>2, UpdateKeeps DEF IInv
  <1> QED
    BY <1>3, RequestWrites

\* Stopping, resuming and answering a chat.
LEMMA ControlKeeps ==
    ASSUME IInv, NEW q \in Requests, NEW p \in Instances, NEW s \in Sessions, Control(q, p, s)
    PROVE  KeptCalmly
  <1> DEFINE next == Asked(p, s, "stopping")
  <1>1. Exists(s) /\ ~Locked(s) /\ UNCHANGED turns /\ CharType' /\ UNCHANGED faults
    BY CharactersStayTyped DEF Control, Controllable, turns
  <1>2. /\ next \in Request /\ next.pc = "stopping" /\ next.chat = s
        /\ request' = [request EXCEPT ![q] = next]
    BY BecomesType DEF Control
  <1>3. row[s] \in Record /\ row[s].unanswered = 0
    BY DEF IInv, StoreInv, StoreTypeOK, SendableTranscript
  <1> HIDE DEF next
  <1>4. CASE Update(s, Stopped(row[s])) \/ Update(s, Resumed(row[s])) \/ Update(s, Replied(row[s]))
    BY <1>1, <1>2, <1>3, <1>4, ControlsFence, FencingWrites
  <1>5. CASE row[s].status \notin {"queued", "running"} /\ Update(s, row[s])
    <2>1. Kin(row[s], row[s]) /\ row[s].status # "none"
      BY <1>1, <1>3 DEF Kin, Exists, Absent
    <2>2. /\ StoreInv' /\ row' = [row EXCEPT ![s] = row[s]]
          /\ \A t \in Sessions \ {s} : lease'[t] = lease[t]
      BY <1>3, <1>5, <2>1, UpdateKeeps DEF IInv
    <2> QED
      BY <1>1, <1>2, <1>5, <2>1, <2>2, RequestWrites
  <1> QED
    BY <1>4, <1>5 DEF Control

\* Adding files to a chat.
LEMMA AddFilesKeeps ==
    ASSUME IInv, NEW q \in Requests, NEW p \in Instances, NEW s \in Sessions, AddFiles(q, p, s)
    PROVE  KeptCalmly
  <1> DEFINE next == Asked(p, s, "stopping")
  <1>1. Exists(s) /\ ~Locked(s) /\ UNCHANGED turns /\ CharType' /\ UNCHANGED faults
    BY CharactersStayTyped DEF AddFiles, Controllable, turns
  <1>2. /\ next \in Request /\ next.pc = "stopping" /\ next.chat = s
        /\ request' = [request EXCEPT ![q] = next]
    BY BecomesType DEF AddFiles
  <1>3. row[s] \in Record
    BY DEF IInv, StoreInv, StoreTypeOK
  <1> HIDE DEF next
  <1> QED
    BY <1>1, <1>2, <1>3, ControlsFence, FencingWrites DEF AddFiles

\* Committing a finished chat: the row lock kept it from being deleted.
LEMMA FinishCommitsKeeps ==
    ASSUME IInv, NEW q \in Requests, FinishCommits(q)
    PROVE  KeptCalmly
  <1> DEFINE s == request[q].chat
             next == [request[q] EXCEPT !.pc = "stopping"]
  <1>1. /\ next \in Request /\ next.pc = "stopping" /\ next.chat = s /\ s \in Sessions
        /\ request' = [request EXCEPT ![q] = next]
    BY NextType DEF FinishCommits
  <1>2. HoldsLock(q) /\ Exists(s)
    BY DEF FinishCommits, IInv, RequestsInv, RequestOK, HoldsLock
  <1>3. row[s] \in Record
    BY <1>1 DEF IInv, StoreInv, StoreTypeOK
  <1>4. CharType' /\ UNCHANGED turns /\ UNCHANGED faults
    BY CharactersStayTyped DEF FinishCommits, turns
  <1>5. Update(s, Finished(row[s])) /\ Fencing(row[s], Finished(row[s]))
    BY <1>3, ControlsFence DEF FinishCommits
  <1> HIDE DEF next, s
  <1> QED
    BY <1>1, <1>2, <1>4, <1>5, FencingWrites DEF s

\* Deleting the chat that is discarded.
LEMMA DiscardRowKeeps ==
    ASSUME IInv, NEW q \in Requests, DiscardRow(q)
    PROVE  KeptCalmly
  <1> DEFINE s == request[q].chat
             next == [request[q] EXCEPT !.pc = "stopping"]
             gone == [Blank EXCEPT !.status = "gone"]
  <1>1. /\ next \in Request /\ next.pc = "stopping" /\ next.chat = s /\ s \in Sessions
        /\ request' = [request EXCEPT ![q] = next]
    BY NextType DEF DiscardRow
  <1>2. /\ StoreInv' /\ row' = [row EXCEPT ![s] = gone]
        /\ \A t \in Sessions \ {s} : lease'[t] = lease[t]
    BY <1>1, DeleteKeeps DEF DiscardRow, IInv
  <1>3. CharType' /\ UNCHANGED turns /\ UNCHANGED faults /\ ~Locked(s)
    BY CharactersStayTyped DEF DiscardRow, turns
  <1>4. gone.status = "gone"
    BY DEF Blank
  <1> HIDE DEF next, s, gone
  <1> QED
    BY <1>1, <1>2, <1>3, <1>4, RequestWrites DEF s

\* Cancelling the turn of a chat leaves it where it is.
LEMMA StopKeeps ==
    ASSUME IInv, NEW q \in Requests, Stop(q)
    PROVE  KeptCalmly
  <1> DEFINE w == <<request[q].at, running[request[q].at][request[q].chat]>>
             turn == [worker[w] EXCEPT !.cancelled = TRUE]
  <1>1. StoreInv' /\ RowsStep /\ LateStep /\ LeaseStep
        /\ \A r \in Requests : row'[request[r].chat] = row[request[r].chat]
    BY RowsUntouched DEF Stop
  <1>2. RequestsInv'
    BY <1>1, AnsweredType, RequestsKept DEF Stop, IInv
  <1>3. RestType'
    BY DEF Stop, IInv, RestType
  <1>4. TurnsInv' /\ TurnsFollow
    <2>1. CASE w \in Workers
      <3>1. worker[w] \in Worker /\ TurnOK(w) /\ worker \in [Workers -> Worker]
        BY <2>1 DEF IInv, TurnsInv
      <3>2. Goes(w, turn)
        BY <2>1, <3>1 DEF Stop, Goes, Worker
      <3> HIDE DEF w
      <3>3. /\ turn \in Worker
            /\ turn.pc = worker[w].pc /\ turn.chat = worker[w].chat
            /\ turn.copy = worker[w].copy /\ turn.left = worker[w].left
        BY <3>1, WorkerFields, Zenon DEF Worker
      <3>4. worker[w].copy \in Record
        BY <3>1, WorkerFields
      <3> HIDE DEF turn
      <3>5. Follows(w, turn)
        BY <3>1, <3>3, <3>4 DEF Follows, Kin, TurnOK
      <3> QED
        BY <1>1, <2>1, <3>2, <3>5, TurnsKept, OneGoes DEF IInv, StoreInv
    <2>2. CASE w \notin Workers
      BY <1>1, <2>2, TurnsStay DEF Stop, IInv, StoreInv, TurnsFollow
    <2> QED
      BY <2>1, <2>2
  <1> QED
    BY <1>1, <1>2, <1>3, <1>4 DEF IInv, Kept, KeptCalmly

-----------------------------------------------------------------------------
(* The builder, the clock and the processes.                               *)

\* The owner's own edits, the end of a lease, and the daily sweep.
LEMMA EnvironmentKeeps ==
    ASSUME IInv, NEW s \in Sessions, Environment(s)
    PROVE  KeptCalmly
  <1>1. UNCHANGED turns /\ UNCHANGED request /\ (UNCHANGED faults \/ Fault)
    BY DEF Environment, OwnerEdits, OwnerDeletes, LeaseLapses, SweepIdle, turns
  <1>2. CASE OwnerEdits(s) \/ OwnerDeletes(s)
    <2>1. StoreInv' /\ RowsStep /\ LocksRespected /\ LeaseStep
      BY <1>2, RowsUntouched DEF OwnerEdits, OwnerDeletes
    <2>2. CASE OwnerEdits(s)
      <3>1. char[s].revision + 1 \in Nat /\ char[s].edits + 1 \in Nat
        BY DEF IInv, RestType
      <3>2. CharType'
        BY <2>2, <3>1 DEF OwnerEdits, IInv, RestType, CharType
      <3> QED
        BY <1>1, <2>1, <3>2, RequestsStay, RequestFrame DEF IInv
    <2>3. CASE OwnerDeletes(s)
      <3>1. CharType'
        BY <2>3, CharactersStayTyped DEF OwnerDeletes
      <3> QED
        BY <1>1, <2>1, <3>1, RequestsStay, RequestFrame DEF IInv
    <2> QED
      BY <1>2, <2>2, <2>3
  <1>3. CASE LeaseLapses(s)
    <2>1. RowsStep /\ LocksRespected /\ CharType'
      BY <1>3, CharactersStayTyped DEF LeaseLapses, RowsStep, LocksRespected
    <2>2. StoreInv'
      BY <1>3 DEF LeaseLapses, IInv, StoreInv, StoreTypeOK, SendableTranscript, LeaseIffRunning,
                  FinishedLater
    <2>3. LeaseStep
      BY <1>3 DEF LeaseStep, LeaseLapses, IInv, StoreInv, StoreTypeOK
    <2> QED
      BY <1>1, <2>1, <2>2, <2>3, RequestsStay, RequestFrame DEF IInv
  <1>4. CASE SweepIdle(s)
    <2> DEFINE gone == [Blank EXCEPT !.status = "gone"]
    <2>1. /\ StoreInv' /\ row' = [row EXCEPT ![s] = gone]
          /\ \A t \in Sessions \ {s} : lease'[t] = lease[t]
      BY <1>4, DeleteKeeps DEF SweepIdle, Sweep, IInv
    <2>2. gone.status = "gone"
      BY DEF Blank
    <2> HIDE DEF gone
    <2>3. RowsStep
      BY <2>1, <2>2, RowWritten DEF IInv, StoreInv
    <2>4. LocksRespected
      BY <1>4, <2>1 DEF LocksRespected, SweepIdle, IInv, StoreInv, StoreTypeOK
    <2>5. CharType'
      BY <1>4, CharactersStayTyped DEF SweepIdle
    <2>6. LeaseStep
      BY <2>1, <2>2 DEF LeaseStep, Absent, IInv, StoreInv, StoreTypeOK
    <2> QED
      BY <1>1, <2>1, <2>3, <2>4, <2>5, <2>6, RequestsStay, RequestFrame DEF IInv
  <1> QED
    BY <1>2, <1>3, <1>4 DEF Environment

\* A process that is told to stop, and one that has.
LEMMA DrainExitKeeps ==
    ASSUME IInv, NEW p \in Instances, Drain(p) \/ Exit(p)
    PROVE  KeptCalmly
  <1>1. UNCHANGED <<row, lease, char, running, worker, request, faults>>
    BY DEF Drain, Exit
  <1>2. StoreInv' /\ RowsStep /\ LocksRespected /\ LateStep /\ LeaseStep
    BY <1>1, RowsUntouched
  <1>3. TurnsInv' /\ RequestsInv'
    BY <1>1, <1>2, TurnsStay, RequestsStay DEF IInv, StoreInv
  <1>4. RestType'
    BY <1>1 DEF Drain, Exit, IInv, RestType
  <1>5. TurnsFollow
    BY <1>1 DEF TurnsFollow
  <1> QED
    BY <1>2, <1>3, <1>4, <1>5 DEF IInv, Kept, KeptCalmly

\* A process that dies takes its turns, requests and row locks with it.
LEMMA CrashKeeps ==
    ASSUME IInv, NEW p \in Instances, Crash(p)
    PROVE  KeptCalmly
  <1>1. StoreInv' /\ RowsStep /\ LateStep /\ LeaseStep /\ UNCHANGED row
    BY RowsUntouched DEF Crash
  <1>2. TurnsInv'
    <2>1. \A w \in Workers : worker'[w] = Idle \/ worker'[w] = worker[w]
      BY DEF Crash
    <2>2. worker' \in [Workers -> Worker]
      <3>1. Idle \in Worker
        BY IdleFollows DEF Follows
      <3> QED
        BY <3>1 DEF Crash, IInv, TurnsInv
    <2>3. ASSUME NEW w \in Workers
          PROVE  TurnOK(w)'
      <3>1. worker[w] \in Worker /\ TurnOK(w)
        BY DEF IInv, TurnsInv
      <3>2. CASE worker'[w] = Idle
        BY <1>1, <3>1, <3>2, IdleFollows, TurnMoves DEF IInv, StoreInv
      <3>3. CASE worker'[w] = worker[w]
        BY <1>1, <3>1, <3>3 DEF TurnOK, Current, Exists
      <3> QED
        BY <2>1, <3>2, <3>3
    <2> QED
      BY <2>2, <2>3 DEF TurnsInv
  <1>3. RequestsInv'
    <2>1. /\ \A q \in Requests : request'[q] = Answered \/ request'[q] = request[q]
          /\ request' \in [Requests -> Request]
      BY AnsweredType DEF Crash, IInv, RequestsInv
    <2>2. \A q \in Requests : RequestOK(q)'
      BY <1>1, <2>1 DEF IInv, RequestsInv, RequestOK, Answered, Exists
    <2>3. \A q \in Requests : HoldsLock(q)' => request'[q] = request[q] /\ HoldsLock(q)
      BY <2>1, AnsweredType DEF HoldsLock
    <2>4. (\A q, r \in Requests :
            HoldsLock(q) /\ HoldsLock(r) /\ request[q].chat = request[r].chat => q = r)'
      <3> SUFFICES ASSUME NEW q \in Requests, NEW r \in Requests, HoldsLock(q)', HoldsLock(r)',
                          request'[q].chat = request'[r].chat
                   PROVE  q = r
        BY DEF HoldsLock
      <3> QED
        BY <2>3 DEF IInv, RequestsInv
    <2> QED
      BY <2>1, <2>2, <2>4 DEF RequestsInv
  <1>4. RestType'
    BY DEF Crash, IInv, RestType
  <1>5. TurnsFollow
    BY DEF TurnsFollow, Crash, Idle, InTurn
  <1> QED
    BY <1>1, <1>2, <1>3, <1>4, <1>5 DEF IInv, Kept, KeptCalmly

-----------------------------------------------------------------------------
(* The invariant.                                                          *)

\* The invariant holds of an empty table.
LEMMA InitIInv == Init => IInv
  <1> SUFFICES ASSUME Init
               PROVE  IInv
    OBVIOUS
  <1>1. Blank \in Record /\ Blank.unanswered = 0 /\ Blank.status = "none"
    BY BlankType DEF Blank
  <1>2. StoreInv
    BY <1>1, NoOneAssumption DEF Init, StoreInit, StoreInv, StoreTypeOK, SendableTranscript,
       LeaseIffRunning, FinishedLater, Unleased, Blank
  <1>3. TurnsInv
    <2>1. Idle \in Worker /\ Idle.pc \notin InTurn
      BY IdleFollows DEF Follows, Idle, InTurn
    <2> QED
      BY <2>1 DEF Init, TurnsInv, TurnOK
  <1>4. RequestsInv
    BY AnsweredType DEF Init, RequestsInv, RequestOK, HoldsLock
  <1>5. RestType
    BY DEF Init, RestType, NoCharacter
  <1> QED
    BY <1>2, <1>3, <1>4, <1>5 DEF IInv

\* Every step of a worker keeps the invariant.
LEMMA TurnStepKeeps ==
    ASSUME IInv, NEW w \in Workers, TurnStep(w) \/ DeadlinePasses(w)
    PROVE  KeptCalmly \/ (Kept /\ ClaimTurn(w))
  <1>1. CASE Look(w) \/ ClaimTurn(w) \/ ClaimNothing(w)
    BY <1>1, LookKeeps, ClaimTurnKeeps, ClaimNothingKeeps
  <1>2. CASE Load(w) \/ LoadFails(w) \/ CharacterGone(w)
    BY <1>2, LoadKeeps, LoadFailsKeeps, CharacterGoneKeeps
  <1>3. CASE Delta(w) \/ DeltaRefused(w) \/ ModelFails(w) \/ ModelAnswers(w)
    BY <1>3, DeltaKeeps, DeltaRefusedKeeps, ModelFailsKeeps, ModelAnswersKeeps
  <1>4. CASE CallNotRun(w) \/ CallFindsNoCharacter(w) \/ CallReads(w) \/ CallWrites(w)
    BY <1>4, CallNotRunKeeps, CallFindsNoCharacterKeeps, CallReadsKeeps, CallWritesKeeps
  <1>5. CASE Push(w) \/ PushRefused(w) \/ Reread(w) \/ EndTurn(w)
    BY <1>5, PushKeeps, PushRefusedKeeps, RereadKeeps, EndTurnKeeps
  <1>6. CASE DeadlinePasses(w)
    BY <1>6, DeadlinePassesKeeps
  <1> QED
    BY <1>1, <1>2, <1>3, <1>4, <1>5, <1>6 DEF TurnStep

\* Every further step of a request keeps the invariant.
LEMMA ServeKeeps ==
    ASSUME IInv, NEW q \in Requests, Serve(q)
    PROVE  KeptCalmly
  <1>1. CASE CreateKeep(q) \/ BeginCommits(q) \/ RequestFails(q) \/ FinishCommits(q)
    BY <1>1, CreateKeepKeeps, BeginCommitsKeeps, RequestFailsKeeps, FinishCommitsKeeps
  <1>2. CASE Stop(q) \/ DiscardCharacter(q) \/ DiscardRow(q)
    BY <1>2, StopKeeps, DiscardCharacterKeeps, DiscardRowKeeps
  <1> QED
    BY <1>1, <1>2 DEF Serve

\* Every first step of a request keeps the invariant.
LEMMA AskKeeps ==
    ASSUME IInv, NEW q \in Requests, NEW p \in Instances, NEW s \in Sessions, Ask(q, p, s)
    PROVE  KeptCalmly
  <1>1. CASE Open(q, p, s) \/ CreateStart(q, p, s) \/ Rules(q, p, s) \/ Begin(q, p, s)
    BY <1>1, OpenKeeps, CreateStartKeeps, RulesKeeps, BeginKeeps
  <1>2. CASE Control(q, p, s) \/ AddFiles(q, p, s) \/ Finish(q, p, s) \/ DiscardLoads(q, p, s)
    BY <1>2, ControlKeeps, AddFilesKeeps, FinishKeeps, DiscardLoadsKeeps
  <1> QED
    BY <1>1, <1>2 DEF Ask

\* Whatever happens keeps the invariant, and is calm unless it is a claim.
LEMMA NextKeeps ==
    ASSUME IInv, [Next]_vars
    PROVE  KeptCalmly \/ (Kept /\ \E w \in Workers : ClaimTurn(w))
  <1>1. CASE UNCHANGED vars
    <2>1. StoreInv' /\ RowsStep /\ LocksRespected /\ LateStep /\ LeaseStep
      BY <1>1, RowsUntouched DEF vars
    <2>2. TurnsInv' /\ RequestsInv' /\ TurnsFollow
      BY <1>1, <2>1, TurnsStay, RequestsStay DEF IInv, StoreInv, vars, TurnsFollow
    <2>3. RestType'
      BY <1>1 DEF IInv, RestType, vars
    <2> QED
      BY <2>1, <2>2, <2>3 DEF IInv, Kept, KeptCalmly
  <1>2. CASE \E w \in Workers : TurnStep(w) \/ DeadlinePasses(w)
    BY <1>2, TurnStepKeeps
  <1>3. CASE \E q \in Requests : Serve(q)
    BY <1>3, ServeKeeps
  <1>4. CASE \E q \in Requests, p \in Instances, s \in Sessions : Ask(q, p, s)
    BY <1>4, AskKeeps
  <1>5. CASE \E s \in Sessions : Environment(s)
    BY <1>5, EnvironmentKeeps
  <1>6. CASE \E p \in Instances : Drain(p) \/ Exit(p) \/ Crash(p)
    BY <1>6, DrainExitKeeps, CrashKeeps
  <1> QED
    BY <1>1, <1>2, <1>3, <1>4, <1>5, <1>6 DEF Next

\* The invariant holds of every state of every execution.
THEOREM Inductive == Spec => []IInv
  <1>1. IInv /\ [Next]_vars => IInv'
    BY NextKeeps DEF Kept, KeptCalmly
  <1> QED
    BY <1>1, InitIInv, PTL DEF Spec

\* Every variable has its type: no call is answered twice (encode would take
\* the count of open calls below zero) and no revision is lost.
THEOREM TypeCorrect == Spec => []TypeOK
  <1>1. IInv => TypeOK
    BY DEF IInv, StoreInv, TurnsInv, RequestsInv, RestType, TypeOK
  <1> QED
    BY <1>1, Inductive, PTL

\* The table's own check, agent_sessions_lease_check, is never violated: no
\* step leaves a row running without a lease, or a lease on a row at rest.
THEOREM LeaseCheckHolds == Spec => []LeaseIffRunning
  <1>1. IInv => LeaseIffRunning
    BY DEF IInv, StoreInv
  <1> QED
    BY <1>1, Inductive, PTL

\* The stored transcript can be sent to the model at any moment, also when a
\* turn is cut short in the middle of a response (encode).
THEOREM AlwaysSendable == Spec => []SendableTranscript
  <1>1. IInv => SendableTranscript
    BY DEF IInv, StoreInv
  <1> QED
    BY <1>1, Inductive, PTL

\* No turn and no control ever undoes Finish, whichever copy of the chat it
\* worked from (change, Save).
THEOREM FinishIsFinal == Spec => FinishedStays
  <1>1. ASSUME IInv, RowsStep
        PROVE  \A s \in Sessions :
                  row[s].finished /\ row[s]'.status # "gone" => row[s]'.finished
    <2> SUFFICES ASSUME NEW s \in Sessions, row[s].finished, row'[s].status # "gone"
                 PROVE  row'[s].finished
      OBVIOUS
    <2>1. row[s].status # "none"
      BY <1>1 DEF IInv, StoreInv, FinishedLater
    <2> QED
      BY <1>1, <2>1 DEF RowsStep, Absent
  <1>2. IInv /\ [Next]_vars =>
            [\A s \in Sessions :
                row[s].finished /\ row[s]'.status # "gone" => row[s]'.finished]_vars
    BY <1>1, NextKeeps DEF Kept, KeptCalmly
  <1> QED
    BY <1>2, Inductive, PTL DEF Spec, FinishedStays

\* A turn whose chat was stopped, answered, finished or deleted since it was
\* claimed, or whose lease is given up or another process's, writes nothing to
\* the chat any more, leases overrun or not (Save, Append).
THEOREM LateTurnsAreShutOut == Spec => LateTurnWritesNothing
  <1>1. ASSUME IInv, LateStep
        PROVE  \A w \in Workers :
                  /\ worker[w].pc \in InTurn
                  /\ \/ ~Exists(worker[w].chat)
                     \/ worker[w].copy.generation # row[worker[w].chat].generation
                     \/ lease[worker[w].chat].holder # w[1]
                  /\ worker'[w] # worker[w]
                  => row' = row
    BY <1>1 DEF LateStep, Fenced, Held
  <1>2. IInv /\ [Next]_vars =>
            [\A w \in Workers :
                /\ worker[w].pc \in InTurn
                /\ \/ ~Exists(worker[w].chat)
                   \/ worker[w].copy.generation # row[worker[w].chat].generation
                   \/ lease[worker[w].chat].holder # w[1]
                /\ worker'[w] # worker[w]
                => row' = row]_vars
    BY <1>1, NextKeeps DEF Kept, KeptCalmly
  <1> QED
    BY <1>2, Inductive, PTL DEF Spec, LateTurnWritesNothing

-----------------------------------------------------------------------------
(* Under leases that outlive their turns, the turn that may write is alone. *)

\* The turn at its chat's generation holds the chat's lease, and is the only
\* one there.
Sole ==
    \A w \in Workers :
        Current(w) =>
            /\ lease[worker[w].chat] = [holder |-> w[1], lapsed |-> FALSE]
            /\ \A v \in Workers :
                  Current(v) /\ worker[v].chat = worker[w].chat => v = w

\* A turn that is current after a step other than its claim was so before.
LEMMA StaysCurrent ==
    ASSUME IInv, StoreTypeOK', RowsStep, NEW w \in Workers, Current(w)',
           worker[w].pc \in InTurn, worker'[w].chat = worker[w].chat,
           worker'[w].copy.generation = worker[w].copy.generation
    PROVE  Current(w) /\ worker[w].chat \in Sessions
           /\ ~(row[worker[w].chat].generation < row'[worker[w].chat].generation)
           /\ row'[worker[w].chat].status \notin Absent
  <1> DEFINE s == worker[w].chat
  <1>1. /\ s \in Sessions /\ row[s].status # "none"
        /\ worker[w].copy \in Record
        /\ Exists(s) => worker[w].copy.generation <= row[s].generation
    BY WorkerFields DEF IInv, TurnsInv, TurnOK
  <1>2. /\ worker[w].copy.generation = row'[s].generation
        /\ row'[s].status \notin Absent
    BY DEF Current, Exists
  <1>3. row[s].generation \in Nat /\ worker[w].copy.generation \in Nat
    BY <1>1, RecordFields DEF IInv, StoreInv, StoreTypeOK
  <1>4. \/ row'[s] = row[s]
        \/ /\ Exists(s)
           /\ \/ row[s].generation < row'[s].generation
              \/ row[s].generation = row'[s].generation
    BY <1>1, <1>2 DEF RowsStep
  <1>5. Exists(s)
    BY <1>2, <1>4 DEF Exists
  <1> HIDE DEF s
  <1>6. row[s].generation = worker[w].copy.generation
    BY <1>1, <1>2, <1>3, <1>4, <1>5
  <1> QED
    BY <1>1, <1>2, <1>3, <1>5, <1>6 DEF Current, s

\* Every step but a claim keeps the turns apart.
LEMMA CalmKeepsSole ==
    ASSUME ~MayOverrun, IInv, Sole, KeptCalmly
    PROVE  Sole'
  <1>1. IInv' /\ RowsStep /\ LeaseStep /\ TurnsFollow /\ StoreTypeOK'
    BY DEF KeptCalmly, Kept, IInv, StoreInv
  <1>2. ASSUME NEW w \in Workers, Current(w)'
        PROVE  /\ Current(w) /\ worker'[w].chat = worker[w].chat
               /\ lease'[worker[w].chat] = lease[worker[w].chat]
    <2> DEFINE s == worker[w].chat
    <2>1. worker[w].pc \in InTurn /\ worker'[w].pc \in InTurn /\ worker'[w].chat = s
          /\ worker'[w].copy.generation = worker[w].copy.generation
      BY <1>1, <1>2 DEF TurnsFollow, Current
    <2>2. /\ Current(w) /\ s \in Sessions
          /\ ~(row[s].generation < row'[s].generation)
          /\ row'[s].status \notin Absent
      BY <1>1, <1>2, <2>1, StaysCurrent
    <2>3. lease[s].holder = w[1] /\ w[1] \in Instances /\ w[1] # NoOne
      <3>1. lease[s] = [holder |-> w[1], lapsed |-> FALSE]
        BY <2>2 DEF Sole
      <3>2. w[1] \in Instances /\ w[1] # NoOne
        BY NoOneAssumption DEF Workers
      <3> HIDE DEF s
      <3> QED
        BY <3>1, <3>2
    <2>4. row[s].status = "running"
      BY <2>2, <2>3 DEF IInv, StoreInv, LeaseIffRunning
    <2>5. Fenced(w)
      BY <2>2, <2>3 DEF Fenced, Held, Current
    <2>6. \A v \in Workers : Current(v) /\ worker[v].chat = s => v = w
      BY <2>2 DEF Sole
    <2> HIDE DEF s
    <2>7. lease'[s] = lease[s]
      BY <1>1, <2>1, <2>2, <2>4, <2>5, <2>6 DEF LeaseStep, s
    <2> QED
      BY <2>1, <2>2, <2>7 DEF s
  <1> SUFFICES ASSUME NEW w \in Workers, Current(w)'
               PROVE  /\ lease'[worker'[w].chat] = [holder |-> w[1], lapsed |-> FALSE]
                      /\ \A v \in Workers :
                            Current(v)' /\ worker'[v].chat = worker'[w].chat => v = w
    BY DEF Sole
  <1>3. Current(w) /\ worker'[w].chat = worker[w].chat
        /\ lease'[worker[w].chat] = lease[worker[w].chat]
    BY <1>2
  <1>4. lease'[worker'[w].chat] = [holder |-> w[1], lapsed |-> FALSE]
    BY <1>3 DEF Sole
  <1>5. ASSUME NEW v \in Workers, Current(v)', worker'[v].chat = worker'[w].chat
        PROVE  v = w
    <2>1. Current(v) /\ worker'[v].chat = worker[v].chat
      BY <1>2, <1>5
    <2> QED
      BY <1>3, <1>5, <2>1 DEF Sole
  <1> QED
    BY <1>4, <1>5

\* Nobody works at the generation of a chat that can be claimed.
LEMMA ClaimKeepsSole ==
    ASSUME IInv, Sole, Kept, NEW w \in Workers, ClaimTurn(w)
    PROVE  Sole'
  <1>1. PICK s \in Offered(w) :
            /\ Claim(s, w[1])
            /\ Goes(w, [Idle EXCEPT !.pc = "claimed", !.chat = s, !.copy = Claimed(s)])
    BY DEF ClaimTurn
  <1>2. s \in Sessions /\ Claimable(s)
    BY <1>1 DEF Offered
  <1>3. /\ worker'[w].chat = s
        /\ \A v \in Workers \ {w} : worker'[v] = worker[v]
        /\ lease' = [lease EXCEPT ![s] = [holder |-> w[1], lapsed |-> FALSE]]
    <2>1. worker \in [Workers -> Worker]
      BY DEF IInv, TurnsInv
    <2>2. [Idle EXCEPT !.pc = "claimed", !.chat = s, !.copy = Claimed(s)].chat = s
      BY DEF Idle
    <2> QED
      BY <1>1, <2>1, <2>2 DEF Goes, Claim
  <1>4. lease'[s] = [holder |-> w[1], lapsed |-> FALSE]
        /\ \A t \in Sessions \ {s} : lease'[t] = lease[t]
    BY <1>2, <1>3 DEF IInv, StoreInv, StoreTypeOK
  <1>5. ASSUME NEW v \in Workers, Current(v), worker[v].chat = s
        PROVE  FALSE
    <2>1. lease[s] = [holder |-> v[1], lapsed |-> FALSE] /\ v[1] \in Instances
      BY <1>5 DEF Sole, Workers
    <2>2. row[s].status = "running" /\ ~lease[s].lapsed
      BY <1>2, <2>1, NoOneAssumption DEF IInv, StoreInv, LeaseIffRunning
    <2> QED
      BY <1>2, <2>2 DEF Claimable
  <1>6. ASSUME NEW v \in Workers \ {w}, Current(v)'
        PROVE  Current(v) /\ worker[v].chat \in Sessions \ {s} /\ worker'[v] = worker[v]
    <2>1. worker'[v] = worker[v] /\ worker[v].pc \in InTurn
      BY <1>3, <1>6 DEF Current
    <2>2. Current(v) /\ worker[v].chat \in Sessions
      BY <1>6, <2>1, StaysCurrent DEF Kept, IInv, StoreInv
    <2> QED
      BY <1>5, <2>1, <2>2
  <1> SUFFICES ASSUME NEW u \in Workers, Current(u)'
               PROVE  /\ lease'[worker'[u].chat] = [holder |-> u[1], lapsed |-> FALSE]
                      /\ \A v \in Workers :
                            Current(v)' /\ worker'[v].chat = worker'[u].chat => v = u
    BY DEF Sole
  <1>7. CASE u = w
    BY <1>3, <1>4, <1>6, <1>7
  <1>8. CASE u # w
    <2>1. Current(u) /\ worker[u].chat \in Sessions \ {s} /\ worker'[u] = worker[u]
      BY <1>6, <1>8
    <2>2. lease'[worker'[u].chat] = [holder |-> u[1], lapsed |-> FALSE]
      BY <1>4, <2>1 DEF Sole
    <2>3. ASSUME NEW v \in Workers, Current(v)', worker'[v].chat = worker'[u].chat
          PROVE  v = u
      <3>1. v # w
        BY <1>3, <2>1, <2>3
      <3>2. Current(v) /\ worker'[v] = worker[v]
        BY <1>6, <2>3, <3>1
      <3> QED
        BY <2>1, <2>3, <3>2 DEF Sole
    <2> QED
      BY <2>2, <2>3
  <1> QED
    BY <1>7, <1>8

\* As long as a turn is over before its lease runs out, no two turns, of one
\* process or of two, can both write a chat (Claim, Save, Append).
THEOREM WritersAlone ==
    ASSUME ~MayOverrun
    PROVE  Spec => []OneWriter
  <1>1. Init => Sole
    BY DEF Init, Sole, Current, Idle, InTurn
  <1>2. IInv /\ Sole /\ [Next]_vars => Sole'
    BY NextKeeps, CalmKeepsSole, ClaimKeepsSole
  <1>3. Sole => OneWriter
    BY DEF Sole, OneWriter, Fenced, Held, Current
  <1> QED
    BY <1>1, <1>2, <1>3, Inductive, PTL DEF Spec

=============================================================================
