------------------------ MODULE WizardContractProofs ------------------------
(***************************************************************************)
(* That AgentWizard implements WizardContract for each of its chats, for   *)
(* any number of processes, workers, chats and requests, as long as a turn *)
(* is over before its lease runs out.  A turn saves its own copy of the    *)
(* chat, so what has to be shown is that the copy which can still be saved *)
(* says of the chat what the row says.                                     *)
(***************************************************************************)
EXTENDS AgentWizardProofs

\* A step of the chat's, as its reader sees it.
RowMove(s) == [Contract(s)!Next]_(Contract(s)!chat)

\* Nothing is left of a chat that was deleted, nor there before it is opened.
AtRest ==
    \A s \in Sessions : row[s].status \in Absent =>
        /\ row[s].revision = 0 /\ row[s].generation = 0 /\ row[s].events = 0
        /\ row[s].finished = FALSE

\* What a request found when it came to discard a chat, or to finish one.
Discards ==
    \A q \in Requests :
        /\ request[q].pc \in {"discarding", "discarded"} => row[request[q].chat].status # "none"
        /\ request[q].pc = "finishing" => row[request[q].chat].status \notin {"none", "opening"}

\* What a turn may have made of the status in its copy.
SoundStatus(turn) ==
    /\ turn.pc \in {"claimed", "model"} => turn.copy.status = "running"
    /\ turn.pc \in InTurn => turn.copy.status \in {"running", "waiting", "review", "failed"}

\* The copy of a turn that may still be saved has seen every write.
Faithful(w) ==
    /\ SoundStatus(worker[w])
    /\ Current(w) => /\ worker[w].copy.revision = row[worker[w].chat].revision
                     /\ worker[w].copy.events = row[worker[w].chat].events

CopiesInv == AtRest /\ Discards /\ \A w \in Workers : Faithful(w)

\* A state of the invariant, and a step from it to one.
Lawful == IInv /\ Sole /\ CopiesInv /\ IInv' /\ RowsStep

\* What is shown of each step.
Moved == (\A s \in Sessions : RowMove(s)) /\ \A w \in Workers : Faithful(w)'

-----------------------------------------------------------------------------
(* The contract's moves.                                                   *)

LEMMA RowStays ==
    ASSUME NEW s \in Sessions, row'[s] = row[s]
    PROVE  RowMove(s)
  BY DEF RowMove, Contract!chat

LEMMA Arrives ==
    ASSUME NEW s \in Sessions, AtRest, row[s].status = "none",
           row'[s].status \in {"opening", "queued"},
           row'[s].revision \in 1..3, row'[s].events \in 1..3,
           row'[s].generation = 0, row'[s].finished = FALSE
    PROVE  RowMove(s)
  BY DEF RowMove, Contract!Next, Contract!Arrive, AtRest, Absent

LEMMA Prepares ==
    ASSUME NEW s \in Sessions, row[s].status = "opening",
           row'[s].status \in {"opening", "queued"},
           row'[s].revision = row[s].revision + 1, row'[s].events = row[s].events + 1,
           row'[s].generation = row[s].generation, row'[s].finished = row[s].finished
    PROVE  RowMove(s)
  BY DEF RowMove, Contract!Next, Contract!Prepare

LEMMA Takes ==
    ASSUME NEW s \in Sessions, row[s].status \in {"queued", "running"}, row'[s].status = "running",
           row'[s].revision = row[s].revision + 1, row'[s].events = row[s].events,
           row'[s].generation = row[s].generation, row'[s].finished = row[s].finished
    PROVE  RowMove(s)
  BY DEF RowMove, Contract!Next, Contract!Take, Contract!InFlight

LEMMA Progresses ==
    ASSUME NEW s \in Sessions, row[s].status = "running", row'[s].status = "running",
           row'[s].revision = row[s].revision, row'[s].events = row[s].events + 1,
           row'[s].generation = row[s].generation, row'[s].finished = row[s].finished
    PROVE  RowMove(s)
  BY DEF RowMove, Contract!Next, Contract!Progress

Outcomes == {"queued", "waiting", "review", "paused", "failed"}

LEMMA Ends ==
    ASSUME NEW s \in Sessions, row[s].status = "running", row'[s].status \in Outcomes,
           row[s].events \in Nat,
           row'[s].events \in {row[s].events, row[s].events + 1},
           row'[s].generation = row[s].generation, row'[s].finished = row[s].finished,
           \/ row'[s].revision = row[s].revision + 1
           \/ /\ row'[s].status = "queued" /\ row'[s].revision = row[s].revision
              /\ row'[s].events = row[s].events
    PROVE  RowMove(s)
  <1>1. row'[s].events \in row[s].events..(row[s].events + 1)
    OBVIOUS
  <1>2. CASE row'[s].revision = row[s].revision + 1
    BY <1>1, <1>2 DEF RowMove, Contract!Next, Contract!End, Contract!Outcomes, Outcomes
  <1>3. CASE /\ row'[s].status = "queued" /\ row'[s].revision = row[s].revision
             /\ row'[s].events = row[s].events
    BY <1>3 DEF RowMove, Contract!Next, Contract!Release
  <1> QED BY <1>2, <1>3

LEMMA Vanishes ==
    ASSUME NEW s \in Sessions, Exists(s), row[s].status \in Statuses,
           row'[s] = [Blank EXCEPT !.status = "gone"]
    PROVE  RowMove(s)
  <1>1. /\ row'[s].status = "gone" /\ row'[s].revision = 0 /\ row'[s].generation = 0
        /\ row'[s].events = 0 /\ row'[s].finished = FALSE
    BY DEF Blank
  <1>2. row[s].status \in Contract(s)!Existing
    BY DEF Contract!Existing, Contract!Outcomes, Statuses
  <1> QED BY <1>1, <1>2 DEF RowMove, Contract!Next, Contract!Vanish

\* What a control of the owner's leaves of a chat that was begun.
Deciding(rec, new) ==
    /\ new.status \in {"queued", "paused"} \cup ({rec.status} \ {"queued", "running"})
    /\ new.revision = rec.revision + 1
    /\ new.generation = rec.generation + 1
    /\ new.finished \in {rec.finished, TRUE}
    /\ new.events \in {rec.events, rec.events + 1}

LEMMA Decides ==
    ASSUME NEW s \in Sessions, row[s].status \in Statuses \ {"opening"}, row[s].events \in Nat,
           Deciding(row[s], row'[s])
    PROVE  RowMove(s)
  <1>1. row'[s].events \in row[s].events..(row[s].events + 1)
    BY DEF Deciding
  <1>2. row[s].status \in Contract(s)!Existing \ {"opening"}
    BY DEF Contract!Existing, Contract!Outcomes, Statuses
  <1>3. row'[s].status \in {"queued", "paused"} \cup ({row[s].status} \ Contract(s)!InFlight)
    BY DEF Contract!InFlight, Deciding
  <1> QED BY <1>1, <1>2, <1>3 DEF RowMove, Contract!Next, Contract!Decide, Deciding

\* No move makes a chat one that never was, and one that is gone is nothing.
LEMMA MovesLeave ==
    ASSUME NEW s \in Sessions, RowMove(s)
    PROVE  \/ /\ row'[s].status = row[s].status /\ row'[s].revision = row[s].revision
              /\ row'[s].generation = row[s].generation /\ row'[s].finished = row[s].finished
              /\ row'[s].events = row[s].events
           \/ row'[s].status \notin Absent
           \/ /\ row'[s].status = "gone" /\ row'[s].revision = 0 /\ row'[s].generation = 0
              /\ row'[s].events = 0 /\ row'[s].finished = FALSE
  <1>1. CASE Contract(s)!Vanish
    BY <1>1 DEF Contract!Vanish
  <1>2. CASE Contract(s)!Arrive \/ Contract(s)!Prepare \/ Contract(s)!Take
    BY <1>2 DEF Contract!Arrive, Contract!Prepare, Contract!Take, Absent
  <1>3. CASE Contract(s)!Decide
    BY <1>3 DEF Contract!Decide, Contract!Existing, Contract!Outcomes, Contract!InFlight, Absent
  <1>4. CASE Contract(s)!Progress \/ Contract(s)!End \/ Contract(s)!Release
    BY <1>4 DEF Contract!Progress, Contract!End, Contract!Release, Contract!Outcomes, Absent
  <1>5. CASE UNCHANGED Contract(s)!chat
    BY <1>5 DEF Contract!chat
  <1> QED BY <1>1, <1>2, <1>3, <1>4, <1>5 DEF RowMove, Contract!Next

\* No move takes a chat that was begun back to before that.
LEMMA MovesOn ==
    ASSUME NEW s \in Sessions, RowMove(s), row'[s].status \in {"none", "opening"}
    PROVE  row[s].status \in {"none", "opening"}
  <1>1. CASE Contract(s)!Vanish \/ Contract(s)!Take
    BY <1>1 DEF Contract!Vanish, Contract!Take
  <1>2. CASE Contract(s)!Arrive \/ Contract(s)!Prepare
    BY <1>2 DEF Contract!Arrive, Contract!Prepare
  <1>3. CASE Contract(s)!Decide
    BY <1>3 DEF Contract!Decide, Contract!Existing, Contract!Outcomes
  <1>4. CASE Contract(s)!Progress \/ Contract(s)!End \/ Contract(s)!Release
    BY <1>4 DEF Contract!Progress, Contract!End, Contract!Release, Contract!Outcomes
  <1>5. CASE UNCHANGED Contract(s)!chat
    BY <1>5 DEF Contract!chat
  <1> QED BY <1>1, <1>2, <1>3, <1>4, <1>5 DEF RowMove, Contract!Next

-----------------------------------------------------------------------------
(* What keeps the copies faithful.                                         *)

\* A turn that is left, or goes on with a copy that says the same of the log.
Continues(w) ==
    worker'[w].pc \in InTurn =>
        /\ worker[w].pc \in InTurn
        /\ worker'[w].chat = worker[w].chat
        /\ worker'[w].copy.generation = worker[w].copy.generation
        /\ worker'[w].copy.revision = worker[w].copy.revision
        /\ worker'[w].copy.events = worker[w].copy.events
        /\ SoundStatus(worker'[w])

LEMMA Unmoved ==
    ASSUME Lawful, NEW w \in Workers, worker'[w] = worker[w]
    PROVE  Continues(w)
  BY DEF Lawful, CopiesInv, Faithful, Continues

LEMMA IdleSound == SoundStatus(Idle) /\ Idle.pc \notin InTurn
  BY DEF SoundStatus, Idle, InTurn

\* A turn whose chat another one writes is not the one that can.
LEMMA FaithfulStays ==
    ASSUME Lawful, NEW w \in Workers, Continues(w),
           \/ row'[worker[w].chat] = row[worker[w].chat]
           \/ row[worker[w].chat].status # "running"
           \/ row'[worker[w].chat].status \in Absent
           \/ row[worker[w].chat].generation < row'[worker[w].chat].generation
           \/ \E v \in Workers \ {w} : Current(v) /\ worker[v].chat = worker[w].chat
    PROVE  Faithful(w)'
  <1>1. CASE worker'[w].pc \notin InTurn
    <2>1. SoundStatus(worker'[w])
      BY <1>1 DEF SoundStatus, InTurn
    <2> QED BY <1>1, <2>1 DEF Faithful, Current, SoundStatus
  <1>2. CASE worker'[w].pc \in InTurn
    <2>1. /\ worker[w].pc \in InTurn /\ worker'[w].chat = worker[w].chat
          /\ worker'[w].copy.generation = worker[w].copy.generation
          /\ SoundStatus(worker'[w])
      BY <1>2 DEF Continues
    <2>2. ASSUME Current(w)'
          PROVE  /\ worker'[w].copy.revision = row'[worker'[w].chat].revision
                 /\ worker'[w].copy.events = row'[worker'[w].chat].events
      <3>1. /\ Current(w) /\ worker[w].chat \in Sessions
            /\ ~(row[worker[w].chat].generation < row'[worker[w].chat].generation)
            /\ row'[worker[w].chat].status \notin Absent
        BY <2>1, <2>2, StaysCurrent DEF Lawful, IInv, StoreInv
      <3>2. row[worker[w].chat].status = "running"
        <4>1. lease[worker[w].chat] = [holder |-> w[1], lapsed |-> FALSE] /\ w[1] # NoOne
          BY <3>1, NoOneAssumption DEF Lawful, Sole, Workers
        <4>2. lease[worker[w].chat].holder # NoOne
          BY <4>1
        <4> QED BY <3>1, <4>2 DEF Lawful, IInv, StoreInv, LeaseIffRunning
      <3>3. ~\E v \in Workers \ {w} : Current(v) /\ worker[v].chat = worker[w].chat
        BY <3>1 DEF Lawful, Sole
      <3>4. row'[worker[w].chat] = row[worker[w].chat]
        BY <3>1, <3>2, <3>3
      <3>5. /\ worker[w].copy.revision = row[worker[w].chat].revision
            /\ worker[w].copy.events = row[worker[w].chat].events
        BY <3>1 DEF Lawful, CopiesInv, Faithful
      <3> QED BY <1>2, <2>1, <3>4, <3>5 DEF Continues
    <2> QED BY <2>1, <2>2 DEF Faithful, SoundStatus
  <1> QED BY <1>1, <1>2

\* A step that writes no chat.
LEMMA QuietStep ==
    ASSUME Lawful, row' = row, \A w \in Workers : Continues(w)
    PROVE  Moved
  BY RowStays, FaithfulStays DEF Moved

\* One worker moves.
LEMMA OneMoves ==
    ASSUME Lawful, NEW w \in Workers, NEW turn, Goes(w, turn)
    PROVE  /\ worker'[w] = turn
           /\ \A v \in Workers \ {w} : worker'[v] = worker[v] /\ Continues(v)
  <1>1. worker'[w] = turn /\ \A v \in Workers \ {w} : worker'[v] = worker[v]
    BY DEF Lawful, IInv, TurnsInv, Goes
  <1> QED BY <1>1, Unmoved

\* One worker moves, and writes nothing.
LEMMA QuietTurn ==
    ASSUME Lawful, row' = row, NEW w \in Workers, NEW turn, Goes(w, turn),
           turn.pc \in InTurn =>
               /\ worker[w].pc \in InTurn /\ turn.chat = worker[w].chat
               /\ turn.copy.generation = worker[w].copy.generation
               /\ turn.copy.revision = worker[w].copy.revision
               /\ turn.copy.events = worker[w].copy.events
               /\ SoundStatus(turn)
    PROVE  Moved
  <1>1. \A v \in Workers : Continues(v)
    BY OneMoves DEF Continues
  <1> QED BY <1>1, QuietStep

\* No worker moves: a request writes a chat, or nobody does.
LEMMA RowWrites ==
    ASSUME Lawful, NEW s \in Sessions, \A w \in Workers : Continues(w),
           \A t \in Sessions \ {s} : row'[t] = row[t], RowMove(s),
           \/ row[s].status # "running"
           \/ row'[s].status \in Absent
           \/ row[s].generation < row'[s].generation
    PROVE  Moved
  <1>1. \A t \in Sessions : RowMove(t)
    BY RowStays
  <1>2. ASSUME NEW w \in Workers PROVE Faithful(w)'
    <2>1. CASE worker'[w].pc \notin InTurn
      <3>1. SoundStatus(worker'[w])
        BY <2>1 DEF SoundStatus, InTurn
      <3> QED BY <2>1, <3>1 DEF Faithful, Current, SoundStatus
    <2>2. CASE worker'[w].pc \in InTurn
      <3>1. worker[w].chat \in Sessions
        BY <2>2 DEF Continues, Lawful, IInv, TurnsInv, TurnOK
      <3> QED BY <3>1, FaithfulStays
    <2> QED BY <2>1, <2>2
  <1> QED BY <1>1, <1>2 DEF Moved

-----------------------------------------------------------------------------
(* A turn's writes.                                                        *)

\* Where a turn that may write its chat stands.
LEMMA HeldIs ==
    ASSUME Lawful, NEW w \in Workers, worker[w].pc \in InTurn,
           Held(worker[w].chat, w[1], worker[w].copy.generation)
    PROVE  /\ Current(w) /\ worker[w].chat \in Sessions
           /\ row[worker[w].chat] \in Record /\ worker[w].copy \in Record
           /\ row[worker[w].chat].status = "running"
           /\ row[worker[w].chat].revision = worker[w].copy.revision
           /\ row[worker[w].chat].events = worker[w].copy.events
           /\ row[worker[w].chat].generation = worker[w].copy.generation
           /\ row[worker[w].chat].finished = worker[w].copy.finished
  <1>1. worker[w].chat \in Sessions /\ worker[w] \in Worker /\ w[1] # NoOne /\ TurnOK(w)
    BY NoOneAssumption DEF Lawful, IInv, TurnsInv, TurnOK, Workers
  <1>2. Current(w)
    BY DEF Held, Current
  <1>3. row[worker[w].chat].status = "running"
    BY <1>1 DEF Held, Lawful, IInv, StoreInv, LeaseIffRunning
  <1>4. row[worker[w].chat] \in Record /\ worker[w].copy \in Record
    BY <1>1, WorkerFields DEF Lawful, IInv, StoreInv, StoreTypeOK
  <1>5. /\ row[worker[w].chat].revision = worker[w].copy.revision
        /\ row[worker[w].chat].events = worker[w].copy.events
    BY <1>2 DEF Lawful, CopiesInv, Faithful
  <1>6. row[worker[w].chat].finished = worker[w].copy.finished
    BY <1>1, <1>2 DEF TurnOK
  <1>7. row[worker[w].chat].generation = worker[w].copy.generation
    BY DEF Held
  <1> QED BY <1>1, <1>2, <1>3, <1>4, <1>5, <1>6, <1>7

\* A turn writes its chat, and goes on knowing what it wrote, or is over.
LEMMA TurnWrites ==
    ASSUME Lawful, NEW w \in Workers, Current(w), NEW s \in Sessions, s = worker[w].chat,
           \A t \in Sessions \ {s} : row'[t] = row[t], RowMove(s),
           NEW turn, Goes(w, turn),
           turn.pc \in InTurn =>
               /\ turn.chat = s
               /\ turn.copy.revision = row'[s].revision
               /\ turn.copy.events = row'[s].events
               /\ SoundStatus(turn)
    PROVE  Moved
  <1>1. \A t \in Sessions : RowMove(t)
    BY RowStays
  <1>2. worker'[w] = turn /\ \A v \in Workers \ {w} : worker'[v] = worker[v] /\ Continues(v)
    BY OneMoves
  <1>3. Faithful(w)'
    <2>1. SoundStatus(turn)
      BY DEF SoundStatus, InTurn
    <2> QED BY <1>2, <2>1 DEF Faithful, Current, SoundStatus
  <1>4. ASSUME NEW v \in Workers \ {w} PROVE Faithful(v)'
    <2>1. Continues(v)
      BY <1>2
    <2>2. CASE worker[v].pc \notin InTurn
      <3>1. worker'[v].pc \notin InTurn
        BY <1>2, <2>2
      <3>2. SoundStatus(worker'[v])
        BY <3>1 DEF SoundStatus, InTurn
      <3> QED BY <3>1, <3>2 DEF Faithful, Current, SoundStatus
    <2>3. CASE worker[v].pc \in InTurn
      <3>1. worker[v].chat \in Sessions
        BY <2>3 DEF Lawful, IInv, TurnsInv, TurnOK
      <3>2. worker[v].chat = s \/ row'[worker[v].chat] = row[worker[v].chat]
        BY <3>1
      <3> QED BY <2>1, <3>2, FaithfulStays
    <2> QED BY <2>2, <2>3
  <1> QED BY <1>1, <1>3, <1>4 DEF Moved

\* What Save leaves in the row.
LEMMA SaveWrites ==
    ASSUME Lawful, NEW w \in Workers, worker[w].pc \in InTurn,
           NEW rec \in Record, rec.generation = worker[w].copy.generation,
           rec.finished = worker[w].copy.finished,
           rec.events \in {worker[w].copy.events, worker[w].copy.events + 1},
           Save(worker[w].chat, w[1], rec, worker[w].copy.events)
    PROVE  /\ Current(w) /\ worker[w].chat \in Sessions
           /\ row[worker[w].chat] \in Record
           /\ row[worker[w].chat].status = "running"
           /\ row[worker[w].chat].revision = worker[w].copy.revision
           /\ row[worker[w].chat].events = worker[w].copy.events
           /\ row'[worker[w].chat].status = rec.status
           /\ row'[worker[w].chat].revision = rec.revision
           /\ row'[worker[w].chat].events = rec.events
           /\ row'[worker[w].chat].generation = row[worker[w].chat].generation
           /\ row'[worker[w].chat].finished = row[worker[w].chat].finished
           /\ \A t \in Sessions \ {worker[w].chat} : row'[t] = row[t]
  <1>1. PICK s : s = worker[w].chat
    OBVIOUS
  <1>2. PICK known : known = worker[w].copy.events
    OBVIOUS
  <1>3. /\ Held(s, w[1], rec.generation)
        /\ Update(s, [rec EXCEPT !.events = IF @ > known THEN @ ELSE row[s].events])
    BY <1>1, <1>2 DEF Save
  <1>4. /\ Current(w) /\ s \in Sessions /\ row[s] \in Record /\ worker[w].copy \in Record
        /\ row[s].status = "running" /\ row[s].revision = worker[w].copy.revision
        /\ row[s].events = known /\ row[s].generation = worker[w].copy.generation
        /\ row[s].finished = worker[w].copy.finished
    BY <1>1, <1>2, <1>3, HeldIs
  <1>5. known \in Nat /\ rec.events \in Nat
    BY <1>2, <1>4, RecordFields
  <1>6. PICK ev : ev = IF rec.events > known THEN rec.events ELSE row[s].events
    OBVIOUS
  <1>7. ev = rec.events
    BY <1>2, <1>4, <1>5, <1>6
  <1>8. row' = [row EXCEPT ![s] = [rec EXCEPT !.events = ev]]
    BY <1>3, <1>6 DEF Update
  <1>9. row'[s] = [rec EXCEPT !.events = ev] /\ \A t \in Sessions \ {s} : row'[t] = row[t]
    BY <1>4, <1>8 DEF Lawful, IInv, StoreInv, StoreTypeOK
  <1>10. /\ row'[s].status = rec.status /\ row'[s].revision = rec.revision
         /\ row'[s].events = rec.events /\ row'[s].generation = rec.generation
         /\ row'[s].finished = rec.finished
    BY <1>7, <1>9 DEF Record
  <1> QED BY <1>1, <1>2, <1>4, <1>9, <1>10

-----------------------------------------------------------------------------
(* What the operators on records leave alone.                              *)

LEMMA SetStatusIs ==
    ASSUME NEW rec \in Record, rec.status = "running", NEW to \in Outcomes
    PROVE  /\ setStatus(rec, to) \in Record /\ setStatus(rec, to).status = to
           /\ setStatus(rec, to).revision = rec.revision
           /\ setStatus(rec, to).events = rec.events
           /\ setStatus(rec, to).generation = rec.generation
           /\ setStatus(rec, to).finished = rec.finished
  <1>1. to \in transitions[rec.status]
    BY DEF transitions, Outcomes
  <1>2. setStatus(rec, to) = [rec EXCEPT !.status = to]
    BY <1>1 DEF setStatus
  <1>3. to \in Statuses \cup Absent
    BY DEF Outcomes, Statuses
  <1> QED BY <1>2, <1>3 DEF Record

LEMMA EndedIs ==
    ASSUME NEW rec \in Record, rec.status = "running", NEW to \in Outcomes
    PROVE  /\ Ended(rec, to) \in Record /\ Ended(rec, to).status = to
           /\ Ended(rec, to).revision = rec.revision + 1
           /\ Ended(rec, to).events = rec.events
           /\ Ended(rec, to).generation = rec.generation
           /\ Ended(rec, to).finished = rec.finished
  <1>1. PICK moved : moved = [rec EXCEPT !.revision = @ + 1]
    OBVIOUS
  <1>2. /\ moved \in Record /\ moved.status = "running" /\ moved.revision = rec.revision + 1
        /\ moved.events = rec.events /\ moved.generation = rec.generation
        /\ moved.finished = rec.finished
    BY <1>1 DEF Record
  <1>3. Ended(rec, to) = setStatus(moved, to)
    BY <1>1 DEF Ended
  <1> QED BY <1>2, <1>3, SetStatusIs

LEMMA WithEventIs ==
    ASSUME NEW rec \in Record
    PROVE  /\ WithEvent(rec) \in Record /\ WithEvent(rec).status = rec.status
           /\ WithEvent(rec).revision = rec.revision
           /\ WithEvent(rec).events = rec.events + 1
           /\ WithEvent(rec).generation = rec.generation
           /\ WithEvent(rec).finished = rec.finished
  BY DEF WithEvent, Record

LEMMA EncodeIs ==
    ASSUME NEW rec \in Record, NEW pending \in Nat, rec.unanswered = pending
    PROVE  /\ encode(rec, pending) \in Record /\ encode(rec, pending).status = rec.status
           /\ encode(rec, pending).revision = rec.revision
           /\ encode(rec, pending).events = rec.events
           /\ encode(rec, pending).generation = rec.generation
           /\ encode(rec, pending).finished = rec.finished
  BY DEF encode, Record

-----------------------------------------------------------------------------
(* The worker's saves.                                                     *)

\* A turn that returns writes nothing by that.
LEMMA LeavesQuietly ==
    ASSUME Lawful, row' = row, NEW w \in Workers, Leaves(w)
    PROVE  Moved
  BY IdleSound, QuietTurn DEF Leaves

\* The last save of a turn ends it, or gives it back.
LEMMA SaveLastMoves ==
    ASSUME Lawful, NEW w \in Workers, worker[w].pc \in InTurn,
           NEW rec \in Record, rec.unanswered = 0,
           rec.generation = worker[w].copy.generation,
           rec.finished = worker[w].copy.finished,
           rec.events \in {worker[w].copy.events, worker[w].copy.events + 1},
           rec.status \in Outcomes,
           \/ rec.revision = worker[w].copy.revision + 1
           \/ /\ rec.status = "queued" /\ rec.revision = worker[w].copy.revision
              /\ rec.events = worker[w].copy.events,
           SaveLast(w, rec)
    PROVE  Moved
  <1>1. CASE Dropped(w, rec)
    BY <1>1, LeavesQuietly DEF Dropped, storeVars
  <1>2. CASE Save(worker[w].chat, w[1], encode(rec, 0), worker[w].copy.events) /\ Leaves(w)
    <2>1. PICK saved : saved = encode(rec, 0)
      OBVIOUS
    <2>2. /\ saved \in Record /\ saved.status = rec.status /\ saved.revision = rec.revision
          /\ saved.events = rec.events /\ saved.generation = rec.generation
          /\ saved.finished = rec.finished
      BY <2>1, EncodeIs
    <2>3. Save(worker[w].chat, w[1], saved, worker[w].copy.events)
      BY <1>2, <2>1
    <2>4. PICK s : s = worker[w].chat
      OBVIOUS
    <2>5. /\ Current(w) /\ s \in Sessions /\ row[s] \in Record
          /\ row[s].status = "running" /\ row[s].revision = worker[w].copy.revision
          /\ row[s].events = worker[w].copy.events
          /\ row'[s].status = rec.status /\ row'[s].revision = rec.revision
          /\ row'[s].events = rec.events
          /\ row'[s].generation = row[s].generation /\ row'[s].finished = row[s].finished
          /\ \A t \in Sessions \ {s} : row'[t] = row[t]
      BY <2>2, <2>3, <2>4, SaveWrites
    <2>6. row[s].events \in Nat
      BY <2>5, RecordFields
    <2>7. RowMove(s)
      BY <2>5, <2>6, Ends
    <2>8. Goes(w, Idle) /\ Idle.pc \notin InTurn
      BY <1>2, IdleSound DEF Leaves
    <2> QED BY <2>4, <2>5, <2>7, <2>8, TurnWrites
  <1> QED BY <1>1, <1>2 DEF SaveLast

\* The save after a call is progress, whatever the call made of the turn.
LEMMA SaveCallMoves ==
    ASSUME Lawful, NEW w \in Workers, worker[w].pc \in {"tools", "pushing", "pushed"},
           worker[w].left > 0,
           NEW rec \in Record, rec.unanswered = worker[w].left,
           rec.generation = worker[w].copy.generation,
           rec.finished = worker[w].copy.finished,
           rec.revision = worker[w].copy.revision, rec.events = worker[w].copy.events,
           rec.status \in {"running", "waiting", "review", "failed"},
           SaveCall(w, rec)
    PROVE  Moved
  <1>1. worker[w] \in Worker /\ worker[w].left \in Nat /\ worker[w].pc \in InTurn
    BY WorkerFields DEF Lawful, IInv, TurnsInv, InTurn
  <1>2. PICK pending : pending = worker[w].left - 1
    OBVIOUS
  <1>3. pending \in Nat
    BY <1>1, <1>2
  <1>4. PICK answered : answered = [rec EXCEPT !.unanswered = @ - 1, !.events = @ + 1]
    OBVIOUS
  <1>5. /\ answered \in Record /\ answered.unanswered = pending /\ answered.status = rec.status
        /\ answered.events = worker[w].copy.events + 1
        /\ answered.revision = worker[w].copy.revision
        /\ answered.generation = worker[w].copy.generation
        /\ answered.finished = worker[w].copy.finished
    <2>1. rec.unanswered - 1 = pending /\ rec.events + 1 \in Nat
      BY <1>2, RecordFields
    <2>2. answered = [rec EXCEPT !.unanswered = pending, !.events = rec.events + 1]
      BY <1>4, <2>1
    <2> QED BY <1>3, <2>1, <2>2 DEF Record
  <1>6. PICK saved : saved = [encode(answered, pending) EXCEPT !.status = "running"]
    OBVIOUS
  <1>7. /\ saved \in Record /\ saved.status = "running"
        /\ saved.events = worker[w].copy.events + 1
        /\ saved.revision = worker[w].copy.revision
        /\ saved.generation = worker[w].copy.generation
        /\ saved.finished = worker[w].copy.finished
    <2>1. PICK coded : coded = encode(answered, pending)
      OBVIOUS
    <2>2. /\ coded \in Record /\ coded.events = answered.events /\ coded.revision = answered.revision
          /\ coded.generation = answered.generation /\ coded.finished = answered.finished
      BY <1>3, <1>5, <2>1, EncodeIs
    <2>3. "running" \in Statuses \cup Absent
      BY DEF Statuses
    <2>4. saved = [coded EXCEPT !.status = "running"]
      BY <1>6, <2>1
    <2>5. saved \in Record /\ saved.status = "running"
          /\ saved.events = coded.events /\ saved.revision = coded.revision
          /\ saved.generation = coded.generation /\ saved.finished = coded.finished
      BY <2>2, <2>3, <2>4 DEF Record
    <2> QED BY <1>5, <2>2, <2>5
  <1>8. PICK turn : turn = [worker[w] EXCEPT !.pc = "tools", !.left = pending, !.copy = answered]
    OBVIOUS
  <1>9. turn.pc = "tools" /\ turn.chat = worker[w].chat /\ turn.copy = answered
    BY <1>1, <1>8 DEF Worker
  <1>10. SoundStatus(turn)
    BY <1>5, <1>9 DEF SoundStatus
  <1>11. CASE Dropped(w, answered)
    BY <1>11, LeavesQuietly DEF Dropped, storeVars
  <1>12. CASE /\ Save(worker[w].chat, w[1], saved, worker[w].copy.events)
              /\ Goes(w, turn) \/ Leaves(w)
    <2>1. PICK s : s = worker[w].chat
      OBVIOUS
    <2>2. /\ Current(w) /\ s \in Sessions /\ row[s] \in Record
          /\ row[s].status = "running" /\ row[s].revision = worker[w].copy.revision
          /\ row[s].events = worker[w].copy.events
          /\ row'[s].status = "running" /\ row'[s].revision = worker[w].copy.revision
          /\ row'[s].events = worker[w].copy.events + 1
          /\ row'[s].generation = row[s].generation /\ row'[s].finished = row[s].finished
          /\ \A t \in Sessions \ {s} : row'[t] = row[t]
      BY <1>1, <1>7, <1>12, <2>1, SaveWrites
    <2>3. RowMove(s)
      BY <2>2, Progresses
    <2>4. CASE Goes(w, turn)
      BY <1>5, <1>9, <1>10, <2>1, <2>2, <2>3, <2>4, TurnWrites
    <2>5. CASE Leaves(w)
      <3>1. Goes(w, Idle) /\ Idle.pc \notin InTurn
        BY <2>5, IdleSound DEF Leaves
      <3> QED BY <2>1, <2>2, <2>3, <3>1, TurnWrites
    <2> QED BY <1>12, <2>4, <2>5
  <1>13. \/ Dropped(w, answered)
         \/ /\ Save(worker[w].chat, w[1], saved, worker[w].copy.events)
            /\ Goes(w, turn) \/ Leaves(w)
    BY <1>2, <1>4, <1>6, <1>8 DEF SaveCall
  <1> QED BY <1>11, <1>12, <1>13

-----------------------------------------------------------------------------
(* The worker's steps.                                                     *)

\* What a turn that asks the model, and one that runs its calls, work from.
LEMMA TurnIs ==
    ASSUME Lawful, NEW w \in Workers, worker[w].pc \in InTurn
    PROVE  /\ worker[w] \in Worker /\ worker[w].copy \in Record /\ worker[w].chat \in Sessions
           /\ SoundStatus(worker[w])
           /\ worker[w].pc = "model" =>
                 worker[w].copy.status = "running" /\ worker[w].copy.unanswered = 0
           /\ worker[w].pc \in {"tools", "pushing", "pushed"} =>
                 /\ worker[w].copy.unanswered = worker[w].left
                 /\ worker[w].copy.status \in {"running", "waiting", "review", "failed"}
           /\ worker[w].pc \in {"pushing", "pushed"} => worker[w].left > 0
  <1>1. worker[w] \in Worker /\ TurnOK(w) /\ SoundStatus(worker[w])
    BY DEF Lawful, IInv, TurnsInv, CopiesInv, Faithful
  <1>2. worker[w].copy \in Record
    BY <1>1, WorkerFields
  <1> QED BY <1>1, <1>2 DEF TurnOK, SoundStatus, InTurn

LEMMA ClaimMoves ==
    ASSUME Lawful, Sole', NEW w \in Workers, ClaimTurn(w)
    PROVE  Moved
  <1>1. PICK s \in Offered(w) :
            /\ Claim(s, w[1])
            /\ Goes(w, [Idle EXCEPT !.pc = "claimed", !.chat = s, !.copy = Claimed(s)])
    BY DEF ClaimTurn
  <1>2. s \in Sessions /\ Claimable(s) /\ row[s] \in Record
    BY <1>1 DEF Offered, Lawful, IInv, StoreInv, StoreTypeOK
  <1>3. PICK new : new = Claimed(s)
    OBVIOUS
  <1>4. PICK turn : turn = [Idle EXCEPT !.pc = "claimed", !.chat = s, !.copy = new]
    OBVIOUS
  <1>5. turn.pc = "claimed" /\ turn.chat = s /\ turn.copy = new
    BY <1>4 DEF Idle
  <1>6. Goes(w, turn) /\ row' = [row EXCEPT ![s] = new]
    BY <1>1, <1>3, <1>4 DEF Claim
  <1>7. row'[s] = new /\ \A t \in Sessions \ {s} : row'[t] = row[t]
    BY <1>2, <1>6 DEF Lawful, IInv, StoreInv, StoreTypeOK
  <1>8. /\ new.status = "running" /\ new.revision = row[s].revision + 1
        /\ new.events = row[s].events /\ new.generation = row[s].generation
        /\ new.finished = row[s].finished
    BY <1>2, <1>3 DEF Claimed, Record
  <1>9. row[s].status \in {"queued", "running"}
    BY <1>2 DEF Claimable
  <1>10. RowMove(s)
    BY <1>2, <1>7, <1>8, <1>9, Takes
  <1>11. \A t \in Sessions : RowMove(t)
    BY <1>7, <1>10, RowStays
  <1>12. worker'[w] = turn /\ \A v \in Workers \ {w} : worker'[v] = worker[v] /\ Continues(v)
    BY <1>6, OneMoves
  <1>13. SoundStatus(turn)
    BY <1>5, <1>8 DEF SoundStatus
  <1>14. Faithful(w)'
    BY <1>5, <1>7, <1>12, <1>13 DEF Faithful, SoundStatus
  <1>15. Current(w)'
    BY <1>5, <1>7, <1>8, <1>12 DEF Current, Exists, Absent, InTurn
  <1>16. ASSUME NEW v \in Workers \ {w} PROVE Faithful(v)'
    <2>1. CASE worker[v].pc \notin InTurn
      <3>1. SoundStatus(worker'[v])
        BY <1>12, <2>1 DEF SoundStatus, InTurn
      <3> QED BY <1>12, <2>1, <3>1 DEF Faithful, Current, SoundStatus
    <2>2. CASE worker[v].pc \in InTurn /\ worker[v].chat # s
      <3>1. worker[v].chat \in Sessions
        BY <2>2 DEF Lawful, IInv, TurnsInv, TurnOK
      <3> QED BY <1>7, <1>12, <2>2, <3>1, FaithfulStays
    <2>3. CASE worker[v].pc \in InTurn /\ worker[v].chat = s
      <3>1. worker'[v] = worker[v] /\ worker'[w].chat = s
        BY <1>5, <1>12
      <3>2. ~Current(v)'
        BY <1>15, <2>3, <3>1 DEF Sole
      <3>3. SoundStatus(worker[v])
        BY DEF Lawful, CopiesInv, Faithful
      <3> QED BY <3>1, <3>2, <3>3 DEF Faithful, SoundStatus
    <2> QED BY <2>1, <2>2, <2>3
  <1> QED BY <1>11, <1>14, <1>16 DEF Moved

LEMMA DeltaMoves ==
    ASSUME Lawful, NEW w \in Workers, Delta(w)
    PROVE  Moved
  <1>1. PICK s : s = worker[w].chat
    OBVIOUS
  <1>2. worker[w].pc = "model" /\ worker[w].pc \in InTurn
        /\ Append(s, w[1], worker[w].copy.generation, worker[w].copy.events + 1)
    BY <1>1 DEF Delta, InTurn
  <1>3. worker[w] \in Worker /\ worker[w].copy \in Record /\ worker[w].copy.status = "running"
    BY <1>2, TurnIs
  <1>4. /\ Current(w) /\ s \in Sessions /\ row[s] \in Record /\ row[s].status = "running"
        /\ row[s].revision = worker[w].copy.revision /\ row[s].events = worker[w].copy.events
    BY <1>1, <1>2, HeldIs DEF Append
  <1>5. PICK id : id = worker[w].copy.events + 1
    OBVIOUS
  <1>6. row' = [row EXCEPT ![s].events = id]
    BY <1>2, <1>5 DEF Append
  <1>7. /\ row'[s] = [row[s] EXCEPT !.events = id]
        /\ \A t \in Sessions \ {s} : row'[t] = row[t]
    BY <1>4, <1>6 DEF Lawful, IInv, StoreInv, StoreTypeOK
  <1>8. /\ row'[s].status = "running" /\ row'[s].revision = row[s].revision
        /\ row'[s].events = id /\ row'[s].generation = row[s].generation
        /\ row'[s].finished = row[s].finished
    BY <1>4, <1>7 DEF Record
  <1>9. RowMove(s)
    BY <1>4, <1>5, <1>8, Progresses
  <1>10. PICK turn : turn = [worker[w] EXCEPT !.streamed = TRUE, !.copy = WithEvent(worker[w].copy)]
    OBVIOUS
  <1>11. turn.pc = "model" /\ turn.chat = s /\ turn.copy = WithEvent(worker[w].copy)
    BY <1>1, <1>2, <1>3, <1>10 DEF Worker
  <1>12. /\ turn.copy.status = "running" /\ turn.copy.revision = row'[s].revision
         /\ turn.copy.events = row'[s].events
    BY <1>3, <1>4, <1>5, <1>8, <1>11, WithEventIs
  <1>13. SoundStatus(turn)
    BY <1>11, <1>12 DEF SoundStatus
  <1>14. Goes(w, turn) \/ Leaves(w)
    BY <1>3, <1>10 DEF Delta, Worker
  <1>15. CASE Goes(w, turn)
    BY <1>1, <1>4, <1>7, <1>9, <1>11, <1>12, <1>13, <1>15, TurnWrites
  <1>16. CASE Leaves(w)
    <2>1. Goes(w, Idle) /\ Idle.pc \notin InTurn
      BY <1>16, IdleSound DEF Leaves
    <2> QED BY <1>1, <1>4, <1>7, <1>9, <2>1, TurnWrites
  <1> QED BY <1>14, <1>15, <1>16

LEMMA ModelMoves ==
    ASSUME Lawful, NEW w \in Workers, CharacterGone(w) \/ ModelFails(w)
    PROVE  Moved
  <1>1. PICK copy : copy = worker[w].copy
    OBVIOUS
  <1>2. worker[w].pc = "model" /\ worker[w].pc \in InTurn
    BY DEF CharacterGone, ModelFails, InTurn
  <1>3. copy \in Record /\ copy.status = "running" /\ copy.unanswered = 0
    BY <1>1, <1>2, TurnIs
  <1>4. {"failed", "queued"} \subseteq Outcomes /\ {"failed", "queued"} \subseteq Statuses
    BY DEF Outcomes, Statuses
  <1>5. PICK ended : ended = Ended(copy, "failed")
    OBVIOUS
  <1>6. /\ ended \in Record /\ ended.status = "failed" /\ ended.revision = copy.revision + 1
        /\ ended.events = copy.events /\ ended.generation = copy.generation
        /\ ended.finished = copy.finished /\ ended.unanswered = 0
    BY <1>3, <1>4, <1>5, EndedIs, EndedKin
  <1>7. PICK failed : failed = WithEvent(ended)
    OBVIOUS
  <1>8. /\ failed \in Record /\ failed.status = "failed" /\ failed.revision = copy.revision + 1
        /\ failed.events = copy.events + 1 /\ failed.generation = copy.generation
        /\ failed.finished = copy.finished /\ failed.unanswered = 0
    BY <1>6, <1>7, WithEventIs, WithEventKin
  <1>9. PICK back : back = setStatus(copy, "queued")
    OBVIOUS
  <1>10. /\ back \in Record /\ back.status = "queued" /\ back.revision = copy.revision
         /\ back.events = copy.events /\ back.generation = copy.generation
         /\ back.finished = copy.finished /\ back.unanswered = 0
    BY <1>3, <1>4, <1>9, SetStatusIs, SetStatusKin
  <1>11. SaveLast(w, failed) \/ SaveLast(w, back)
    BY <1>1, <1>5, <1>7, <1>9 DEF CharacterGone, ModelFails
  <1>12. CASE SaveLast(w, failed)
    BY <1>1, <1>2, <1>4, <1>8, <1>12, SaveLastMoves
  <1>13. CASE SaveLast(w, back)
    BY <1>1, <1>2, <1>4, <1>10, <1>13, SaveLastMoves
  <1> QED BY <1>11, <1>12, <1>13

\* What a tool makes of the copy.
LEMMA AfterToolIs ==
    ASSUME Lawful, NEW w \in Workers, worker[w].pc = "tools", worker[w].copy.status = "running",
           NEW rec \in AfterTool(w)
    PROVE  /\ rec \in Record /\ rec.unanswered = worker[w].left
           /\ rec.generation = worker[w].copy.generation
           /\ rec.finished = worker[w].copy.finished
           /\ rec.revision = worker[w].copy.revision
           /\ rec.events = worker[w].copy.events
           /\ rec.status \in {"running", "waiting", "review"}
  <1>1. Kin(worker[w].copy, rec) /\ rec.unanswered = worker[w].left
    BY PulledKin DEF Lawful
  <1>2. PICK copy : copy = worker[w].copy
    OBVIOUS
  <1>3. copy \in Record
    BY <1>2, TurnIs DEF InTurn
  <1>4. PICK pulled : pulled = Pulled(w)
    OBVIOUS
  <1>5. /\ pulled.status = "running" /\ pulled.revision = copy.revision
        /\ pulled.events = copy.events
    <2>1. PICK c : c = char[worker[w].chat]
      OBVIOUS
    <2>2. pulled = [copy EXCEPT !.seen = c.revision, !.told = c.edits] \/ pulled = copy
      BY <1>2, <1>4, <2>1 DEF Pulled
    <2> QED BY <1>2, <1>3, <2>2 DEF Record
  <1>6. pulled \in Record
    <2>1. PICK c : c = char[worker[w].chat]
      OBVIOUS
    <2>2. c.revision \in Nat /\ c.edits \in Nat
      BY <2>1, TurnIs DEF InTurn, Lawful, IInv, RestType
    <2>3. pulled = [copy EXCEPT !.seen = c.revision, !.told = c.edits] \/ pulled = copy
      BY <1>2, <1>4, <2>1 DEF Pulled
    <2> QED BY <1>3, <2>2, <2>3 DEF Record
  <1>7. PICK to \in {"running", "waiting", "review"} : rec = setStatus(pulled, to)
    BY <1>4 DEF AfterTool
  <1>8. CASE to = "running"
    <2>1. to \notin transitions[pulled.status]
      BY <1>5, <1>8 DEF transitions
    <2>2. rec = pulled
      BY <1>7, <2>1 DEF setStatus
    <2> QED BY <1>1, <1>2, <1>5, <2>2 DEF Kin
  <1>9. CASE to \in {"waiting", "review"}
    <2>1. to \in Outcomes
      BY <1>9 DEF Outcomes
    <2> QED BY <1>1, <1>2, <1>5, <1>6, <1>7, <1>9, <2>1, SetStatusIs DEF Kin
  <1> QED BY <1>7, <1>8, <1>9

LEMMA CallsMove ==
    ASSUME Lawful, NEW w \in Workers,
           \/ CallNotRun(w) \/ CallFindsNoCharacter(w) \/ CallReads(w)
           \/ PushRefused(w) \/ Reread(w)
    PROVE  Moved
  <1>1. worker[w].pc \in {"tools", "pushing", "pushed"} /\ worker[w].pc \in InTurn
    BY DEF CallNotRun, CallFindsNoCharacter, CallReads, PushRefused, Reread, MayCall, Calling, InTurn
  <1>2. PICK copy : copy = worker[w].copy
    OBVIOUS
  <1>3. /\ copy \in Record /\ copy.unanswered = worker[w].left
        /\ copy.status \in {"running", "waiting", "review", "failed"}
    BY <1>1, <1>2, TurnIs
  <1>4. worker[w].left > 0
    BY <1>1, TurnIs DEF CallNotRun, CallFindsNoCharacter, CallReads, PushRefused, Reread, MayCall, Calling
  <1>5. CASE SaveCall(w, copy)
    BY <1>1, <1>2, <1>3, <1>4, <1>5, SaveCallMoves
  <1>6. CASE CallFindsNoCharacter(w)
    <2>1. PICK rec : rec = setStatus(copy, "failed")
      OBVIOUS
    <2>2. SaveCall(w, rec) /\ copy.status = "running"
      BY <1>2, <1>6, <2>1 DEF CallFindsNoCharacter, MayCall
    <2>3. "failed" \in Outcomes /\ "failed" \in Statuses
      BY DEF Outcomes, Statuses
    <2>4. /\ rec \in Record /\ rec.unanswered = worker[w].left
          /\ rec.generation = copy.generation /\ rec.finished = copy.finished
          /\ rec.revision = copy.revision /\ rec.events = copy.events
          /\ rec.status = "failed"
      BY <1>3, <2>1, <2>2, <2>3, SetStatusIs, SetStatusKin
    <2> QED BY <1>1, <1>2, <1>4, <2>2, <2>4, SaveCallMoves
  <1>7. CASE CallReads(w)
    <2>1. PICK rec \in AfterTool(w) : SaveCall(w, rec)
      BY <1>7 DEF CallReads
    <2>2. worker[w].pc = "tools" /\ worker[w].copy.status = "running"
      BY <1>7 DEF CallReads, MayCall, Calling
    <2>3. /\ rec \in Record /\ rec.unanswered = worker[w].left
          /\ rec.generation = worker[w].copy.generation
          /\ rec.finished = worker[w].copy.finished
          /\ rec.revision = worker[w].copy.revision /\ rec.events = worker[w].copy.events
          /\ rec.status \in {"running", "waiting", "review"}
      BY <2>2, AfterToolIs
    <2> QED BY <1>1, <1>4, <2>1, <2>3, SaveCallMoves
  <1>8. CASE Reread(w)
    <2>1. PICK c : c = char[worker[w].chat]
      OBVIOUS
    <2>2. PICK rec : rec = [copy EXCEPT !.seen = c.revision]
      OBVIOUS
    <2>3. SaveCall(w, rec) \/ SaveCall(w, copy)
      BY <1>2, <1>8, <2>1, <2>2 DEF Reread
    <2>4. c.revision \in Nat
      BY <1>1, <2>1, TurnIs DEF Lawful, IInv, RestType
    <2>5. /\ rec \in Record /\ rec.unanswered = copy.unanswered
          /\ rec.generation = copy.generation /\ rec.finished = copy.finished
          /\ rec.revision = copy.revision /\ rec.events = copy.events
          /\ rec.status = copy.status
      BY <1>3, <2>2, <2>4 DEF Record
    <2>6. CASE SaveCall(w, rec)
      BY <1>1, <1>2, <1>3, <1>4, <2>5, <2>6, SaveCallMoves
    <2> QED BY <1>5, <2>3, <2>6
  <1>9. CASE CallNotRun(w) \/ PushRefused(w)
    BY <1>2, <1>5, <1>9 DEF CallNotRun, PushRefused
  <1> QED BY <1>6, <1>7, <1>8, <1>9

LEMMA EndMoves ==
    ASSUME Lawful, NEW w \in Workers, EndTurn(w)
    PROVE  Moved
  <1>1. worker[w].pc = "tools" /\ worker[w].left = 0 /\ worker[w].pc \in InTurn
    BY DEF EndTurn, InTurn
  <1>2. PICK copy : copy = worker[w].copy
    OBVIOUS
  <1>3. /\ copy \in Record /\ copy.unanswered = 0
        /\ copy.status \in {"running", "waiting", "review", "failed"}
    BY <1>1, <1>2, TurnIs
  <1>4. {"paused", "queued", "waiting", "review", "failed"} \subseteq Outcomes
        /\ {"paused", "queued"} \subseteq Statuses
    BY DEF Outcomes, Statuses
  <1>5. CASE copy.status # "running"
    <2>1. PICK rec : rec = [copy EXCEPT !.revision = @ + 1]
      OBVIOUS
    <2>2. /\ rec \in Record /\ rec.unanswered = 0 /\ rec.status = copy.status
          /\ rec.generation = copy.generation /\ rec.finished = copy.finished
          /\ rec.revision = copy.revision + 1 /\ rec.events = copy.events
      BY <1>3, <2>1 DEF Record
    <2>3. SaveLast(w, rec)
      BY <1>2, <1>5, <2>1 DEF EndTurn
    <2> QED BY <1>1, <1>2, <1>3, <1>4, <1>5, <2>2, <2>3, SaveLastMoves
  <1>6. CASE copy.status = "running"
    <2>1. PICK paused : paused = Ended(copy, "paused")
      OBVIOUS
    <2>2. /\ paused \in Record /\ paused.status = "paused" /\ paused.revision = copy.revision + 1
          /\ paused.events = copy.events /\ paused.generation = copy.generation
          /\ paused.finished = copy.finished /\ paused.unanswered = 0
      BY <1>3, <1>4, <1>6, <2>1, EndedIs, EndedKin
    <2>3. PICK noted : noted = WithEvent(paused)
      OBVIOUS
    <2>4. /\ noted \in Record /\ noted.status = "paused" /\ noted.revision = copy.revision + 1
          /\ noted.events = copy.events + 1 /\ noted.generation = copy.generation
          /\ noted.finished = copy.finished /\ noted.unanswered = 0
      BY <2>2, <2>3, WithEventIs, WithEventKin
    <2>5. PICK queued : queued = Ended(copy, "queued")
      OBVIOUS
    <2>6. /\ queued \in Record /\ queued.status = "queued" /\ queued.revision = copy.revision + 1
          /\ queued.events = copy.events /\ queued.generation = copy.generation
          /\ queued.finished = copy.finished /\ queued.unanswered = 0
      BY <1>3, <1>4, <1>6, <2>5, EndedIs, EndedKin
    <2>7. SaveLast(w, noted) \/ SaveLast(w, queued)
      BY <1>2, <1>6, <2>1, <2>3, <2>5 DEF EndTurn
    <2>8. CASE SaveLast(w, noted)
      BY <1>1, <1>2, <1>4, <2>4, <2>8, SaveLastMoves
    <2>9. CASE SaveLast(w, queued)
      BY <1>1, <1>2, <1>4, <2>6, <2>9, SaveLastMoves
    <2> QED BY <2>7, <2>8, <2>9
  <1> QED BY <1>5, <1>6

\* The worker's steps that write no chat.
LEMMA QuietTurns ==
    ASSUME Lawful, NEW w \in Workers,
           \/ Look(w) \/ ClaimNothing(w) \/ Load(w) \/ LoadFails(w) \/ DeltaRefused(w)
           \/ ModelAnswers(w) \/ CallWrites(w) \/ Push(w) \/ DeadlinePasses(w)
    PROVE  Moved
  <1>0. row' = row
    BY DEF Look, ClaimNothing, Load, LoadFails, DeltaRefused, ModelAnswers, CallWrites, Push,
       DeadlinePasses
  <1>1. PICK copy : copy = worker[w].copy
    OBVIOUS
  <1>2. worker[w].pc \in InTurn => /\ worker[w] \in Worker /\ copy \in Record
                                   /\ SoundStatus(worker[w])
    BY <1>1, TurnIs
  <1>3. CASE Look(w)
    <2>1. PICK busy : busy = {s \in Sessions : running[w[1]][s] # 0}
      OBVIOUS
    <2>2. PICK turn : turn = [Idle EXCEPT !.pc = "asking", !.busy = busy]
      OBVIOUS
    <2>3. Goes(w, turn) /\ turn.pc \notin InTurn
      BY <1>3, <2>1, <2>2 DEF Look, Idle, InTurn
    <2> QED BY <1>0, <2>3, QuietTurn
  <1>4. CASE ClaimNothing(w)
    BY <1>0, <1>4, IdleSound, QuietTurn DEF ClaimNothing
  <1>5. CASE LoadFails(w) \/ DeltaRefused(w)
    BY <1>0, <1>5, LeavesQuietly DEF LoadFails, DeltaRefused
  <1>6. CASE Load(w)
    <2>1. PICK turn : turn = [worker[w] EXCEPT !.pc = "model"]
      OBVIOUS
    <2>2. worker[w].pc = "claimed" /\ worker[w].pc \in InTurn /\ Goes(w, turn)
      BY <1>6, <2>1 DEF Load, InTurn
    <2>3. turn.pc = "model" /\ turn.chat = worker[w].chat /\ turn.copy = copy
      BY <1>1, <1>2, <2>1, <2>2 DEF Worker
    <2>4. SoundStatus(turn)
      BY <1>1, <1>2, <2>2, <2>3 DEF SoundStatus
    <2> QED BY <1>0, <1>1, <2>2, <2>3, <2>4, QuietTurn
  <1>7. CASE ModelAnswers(w)
    <2>1. PICK calls \in 0..MaxCalls :
            Goes(w, [worker[w] EXCEPT !.pc = "tools", !.batch = calls, !.left = calls,
                                      !.copy = WithCalls(@, calls)])
      BY <1>7 DEF ModelAnswers
    <2>2. PICK asked : asked = WithCalls(copy, calls)
      OBVIOUS
    <2>3. PICK turn : turn = [worker[w] EXCEPT !.pc = "tools", !.batch = calls, !.left = calls,
                                               !.copy = asked]
      OBVIOUS
    <2>4. worker[w].pc = "model" /\ worker[w].pc \in InTurn
      BY <1>7 DEF ModelAnswers, InTurn
    <2>5. turn.pc = "tools" /\ turn.chat = worker[w].chat /\ turn.copy = asked
      BY <1>2, <2>3, <2>4 DEF Worker
    <2>6. Goes(w, turn)
      BY <1>1, <1>2, <2>1, <2>2, <2>3, <2>4 DEF Worker
    <2>7. /\ asked.status = copy.status /\ asked.revision = copy.revision
          /\ asked.generation = copy.generation /\ asked.events = copy.events
      BY <1>2, <2>2, <2>4 DEF WithCalls, Record
    <2>8. copy.status = "running"
      BY <1>1, <2>4, TurnIs
    <2>9. SoundStatus(turn)
      BY <2>5, <2>7, <2>8 DEF SoundStatus
    <2> QED BY <1>0, <1>1, <2>4, <2>5, <2>6, <2>7, <2>9, QuietTurn
  <1>8. CASE CallWrites(w)
    <2>1. PICK rec \in AfterTool(w) : Goes(w, [worker[w] EXCEPT !.pc = "pushing", !.copy = rec])
      BY <1>8 DEF CallWrites
    <2>2. PICK turn : turn = [worker[w] EXCEPT !.pc = "pushing", !.copy = rec]
      OBVIOUS
    <2>3. worker[w].pc = "tools" /\ worker[w].pc \in InTurn /\ worker[w].copy.status = "running"
      BY <1>8 DEF CallWrites, MayCall, Calling, InTurn
    <2>4. turn.pc = "pushing" /\ turn.chat = worker[w].chat /\ turn.copy = rec
      BY <1>2, <2>2, <2>3 DEF Worker
    <2>5. Goes(w, turn)
      BY <2>1, <2>2
    <2>6. /\ rec.status \in {"running", "waiting", "review"}
          /\ rec.revision = worker[w].copy.revision
          /\ rec.generation = worker[w].copy.generation
          /\ rec.events = worker[w].copy.events
      BY <2>3, AfterToolIs
    <2>7. SoundStatus(turn)
      BY <2>4, <2>6 DEF SoundStatus
    <2> QED BY <1>0, <2>3, <2>4, <2>5, <2>6, <2>7, QuietTurn
  <1>9. CASE Push(w)
    <2>1. PICK turn : turn = [worker[w] EXCEPT !.pc = "pushed"]
      OBVIOUS
    <2>2. worker[w].pc = "pushing" /\ worker[w].pc \in InTurn /\ Goes(w, turn)
      BY <1>9, <2>1 DEF Push, InTurn
    <2>3. turn.pc = "pushed" /\ turn.chat = worker[w].chat /\ turn.copy = copy
      BY <1>1, <1>2, <2>1, <2>2 DEF Worker
    <2>4. SoundStatus(turn)
      BY <1>1, <1>2, <2>2, <2>3 DEF SoundStatus
    <2> QED BY <1>0, <1>1, <2>2, <2>3, <2>4, QuietTurn
  <1>10. CASE DeadlinePasses(w)
    <2>1. PICK turn : turn = [worker[w] EXCEPT !.cancelled = TRUE]
      OBVIOUS
    <2>2. worker[w].pc \in InTurn /\ Goes(w, turn)
      BY <1>10, <2>1 DEF DeadlinePasses
    <2>3. turn.pc = worker[w].pc /\ turn.chat = worker[w].chat /\ turn.copy = copy
      BY <1>1, <1>2, <2>1, <2>2 DEF Worker
    <2>4. SoundStatus(turn)
      BY <1>1, <1>2, <2>2, <2>3 DEF SoundStatus
    <2> QED BY <1>0, <1>1, <2>2, <2>3, <2>4, QuietTurn
  <1> QED BY <1>3, <1>4, <1>5, <1>6, <1>7, <1>8, <1>9, <1>10

\* Whatever a worker does, each chat makes a move of the contract's.
LEMMA TurnStepMoves ==
    ASSUME Lawful, Sole', NEW w \in Workers, TurnStep(w) \/ DeadlinePasses(w)
    PROVE  Moved
  <1>1. CASE ClaimTurn(w)
    BY <1>1, ClaimMoves
  <1>2. CASE CharacterGone(w) \/ ModelFails(w) \/ Delta(w) \/ EndTurn(w)
    BY <1>2, ModelMoves, DeltaMoves, EndMoves
  <1>3. CASE CallNotRun(w) \/ CallFindsNoCharacter(w) \/ CallReads(w)
             \/ PushRefused(w) \/ Reread(w)
    BY <1>3, CallsMove
  <1>4. CASE \/ Look(w) \/ ClaimNothing(w) \/ Load(w) \/ LoadFails(w) \/ DeltaRefused(w)
             \/ ModelAnswers(w) \/ CallWrites(w) \/ Push(w) \/ DeadlinePasses(w)
    BY <1>4, QuietTurns
  <1> QED BY <1>1, <1>2, <1>3, <1>4 DEF TurnStep

-----------------------------------------------------------------------------
(* The requests' steps.                                                    *)

\* The owner's controls decide, each in its way.
LEMMA ControlsDecide ==
    ASSUME NEW rec \in Record, rec.status \in Statuses \ {"opening"}
    PROVE  /\ Deciding(rec, Stopped(rec)) /\ Deciding(rec, Resumed(rec))
           /\ Deciding(rec, Replied(rec)) /\ Deciding(rec, Finished(rec))
  <1>1. PICK new : new = invalidate(rec)
    OBVIOUS
  <1>2. /\ new \in Record /\ new.generation = rec.generation + 1
        /\ new.finished = rec.finished /\ new.status = rec.status
    BY <1>1, InvalidateFences
  <1>3. new.revision = rec.revision + 1 /\ new.events = rec.events
    BY <1>1 DEF invalidate, Record
  <1>4. Deciding(rec, Stopped(rec))
    <2>1. PICK out : out = [new EXCEPT !.status = "paused", !.events = @ + 1]
      OBVIOUS
    <2>2. /\ out.status = "paused" /\ out.revision = new.revision
          /\ out.generation = new.generation /\ out.finished = new.finished
          /\ out.events = new.events + 1
      BY <1>2, <2>1 DEF Record
    <2>3. Stopped(rec) = out
      BY <1>1, <2>1 DEF Stopped
    <2>4. Deciding(rec, out)
      BY <1>2, <1>3, <2>2 DEF Deciding
    <2> QED BY <2>3, <2>4
  <1>5. ASSUME NEW again, again.status = new.status
        PROVE  /\ again.status = "queued" => setStatus(again, "queued") = again
               /\ again.status # "queued" =>
                     setStatus(again, "queued") = [again EXCEPT !.status = "queued"]
    BY <1>2, <1>5 DEF setStatus, transitions, Statuses
  <1>6. ASSUME NEW again \in Record, again.status = new.status,
               again.revision = new.revision, again.generation = new.generation,
               again.finished = new.finished, again.events \in {new.events, new.events + 1},
               NEW out, out = setStatus(again, "queued")
        PROVE  Deciding(rec, out)
    <2>1. /\ out.status = "queued" /\ out.revision = again.revision
          /\ out.generation = again.generation /\ out.finished = again.finished
          /\ out.events = again.events
      <3>1. CASE again.status = "queued"
        BY <1>5, <1>6, <3>1
      <3>2. CASE again.status # "queued"
        <4>1. out = [again EXCEPT !.status = "queued"]
          BY <1>5, <1>6, <3>2
        <4> QED BY <1>6, <4>1 DEF Record
      <3> QED BY <3>1, <3>2
    <2> QED BY <1>2, <1>3, <1>6, <2>1 DEF Deciding
  <1>7. Deciding(rec, Resumed(rec))
    <2>1. PICK again : again = [new EXCEPT !.turns = 0]
      OBVIOUS
    <2>2. /\ again \in Record /\ again.status = new.status /\ again.revision = new.revision
          /\ again.generation = new.generation /\ again.finished = new.finished
          /\ again.events = new.events
      BY <1>2, <2>1 DEF Record
    <2>3. Resumed(rec) = setStatus(again, "queued")
      BY <1>1, <2>1 DEF Resumed
    <2> QED BY <1>6, <2>2, <2>3
  <1>8. Deciding(rec, Replied(rec))
    <2>1. PICK again : again = [new EXCEPT !.turns = 0, !.events = @ + 1]
      OBVIOUS
    <2>2. /\ again \in Record /\ again.status = new.status /\ again.revision = new.revision
          /\ again.generation = new.generation /\ again.finished = new.finished
          /\ again.events = new.events + 1
      BY <1>2, <2>1, 0 \in Nat, RecordFields, Zenon DEF Record
    <2>3. Replied(rec) = setStatus(again, "queued")
      BY <1>1, <2>1 DEF Replied
    <2> QED BY <1>6, <2>2, <2>3
  <1>9. Deciding(rec, Finished(rec))
    <2>1. PICK closed : closed = [new EXCEPT !.finished = TRUE]
      OBVIOUS
    <2>2. /\ closed \in Record /\ closed.status = new.status /\ closed.revision = new.revision
          /\ closed.generation = new.generation /\ closed.finished = TRUE
          /\ closed.events = new.events
      BY <1>2, <2>1 DEF Record
    <2>3. CASE rec.status \in {"queued", "running"}
      <3>1. PICK out : out = [closed EXCEPT !.status = "paused"]
        OBVIOUS
      <3>2. "paused" \in transitions[closed.status]
        BY <1>2, <2>2, <2>3 DEF transitions
      <3>3. Finished(rec) = out
        BY <1>1, <2>1, <2>3, <3>1, <3>2 DEF Finished, setStatus
      <3>4. /\ out.status = "paused" /\ out.revision = closed.revision
            /\ out.generation = closed.generation /\ out.finished = TRUE
            /\ out.events = closed.events
        BY <2>2, <3>1 DEF Record
      <3>5. Deciding(rec, out)
        BY <1>2, <1>3, <2>2, <3>4 DEF Deciding
      <3> QED BY <3>3, <3>5
    <2>4. CASE rec.status \notin {"queued", "running"}
      <3>1. Finished(rec) = closed
        BY <1>1, <2>1, <2>4 DEF Finished
      <3>2. Deciding(rec, closed)
        BY <1>2, <1>3, <2>2, <2>4 DEF Deciding
      <3> QED BY <3>1, <3>2
    <2> QED BY <2>3, <2>4
  <1> QED BY <1>4, <1>7, <1>8, <1>9

\* A control fences the turn whose copy has not seen it.
LEMMA DecisionMoves ==
    ASSUME Lawful, UNCHANGED worker, NEW s \in Sessions,
           row[s].status \in Statuses \ {"opening"},
           NEW new, Deciding(row[s], new), row' = [row EXCEPT ![s] = new]
    PROVE  Moved
  <1>1. row[s] \in Record
    BY DEF Lawful, IInv, StoreInv, StoreTypeOK
  <1>2. row'[s] = new /\ \A t \in Sessions \ {s} : row'[t] = row[t]
    BY DEF Lawful, IInv, StoreInv, StoreTypeOK
  <1>3. row[s].events \in Nat /\ row[s].generation \in Nat
    BY <1>1, RecordFields
  <1>4. RowMove(s)
    BY <1>2, <1>3, Decides
  <1>5. row[s].generation < row'[s].generation
    BY <1>2, <1>3 DEF Deciding
  <1>6. \A w \in Workers : Continues(w)
    BY Unmoved
  <1> QED BY <1>2, <1>4, <1>5, <1>6, RowWrites

\* A chat that was there vanishes, whatever is at work on it.
LEMMA DeletionMoves ==
    ASSUME Lawful, UNCHANGED worker, NEW s \in Sessions, row[s].status # "none", Delete(s)
    PROVE  Moved
  <1>1. row[s] \in Record
    BY DEF Lawful, IInv, StoreInv, StoreTypeOK
  <1>2. PICK gone : gone = [Blank EXCEPT !.status = "gone"]
    OBVIOUS
  <1>3. row' = [row EXCEPT ![s] = gone]
    BY <1>2 DEF Delete
  <1>4. row'[s] = gone /\ \A t \in Sessions \ {s} : row'[t] = row[t]
    BY <1>3 DEF Lawful, IInv, StoreInv, StoreTypeOK
  <1>5. /\ gone.status = "gone" /\ gone.revision = 0 /\ gone.generation = 0
        /\ gone.events = 0 /\ gone.finished = FALSE
    BY <1>2 DEF Blank
  <1>6. RowMove(s)
    <2>1. CASE row[s].status = "gone"
      <3>1. /\ row[s].revision = 0 /\ row[s].generation = 0 /\ row[s].events = 0
            /\ row[s].finished = FALSE
        BY <2>1 DEF Lawful, CopiesInv, AtRest, Absent
      <3> QED BY <1>4, <1>5, <2>1, <3>1 DEF RowMove, Contract!chat
    <2>2. CASE row[s].status # "gone"
      <3>1. Exists(s) /\ row[s].status \in Statuses
        BY <1>1, <2>2, RecordFields DEF Exists, Absent
      <3> QED BY <1>2, <1>4, <3>1, Vanishes
    <2> QED BY <2>1, <2>2
  <1>7. row'[s].status \in Absent
    BY <1>4, <1>5 DEF Absent
  <1>8. \A w \in Workers : Continues(w)
    BY Unmoved
  <1> QED BY <1>4, <1>6, <1>7, <1>8, RowWrites

\* A chat is opened, or its preparation goes on; nobody works on it yet.
LEMMA EarlyMoves ==
    ASSUME Lawful, UNCHANGED worker, NEW s \in Sessions, row[s].status # "running",
           NEW new, row' = [row EXCEPT ![s] = new],
           new.status \in {"opening", "queued"},
           \/ /\ row[s].status = "none"
              /\ new.revision \in 1..3 /\ new.events \in 1..3
              /\ new.generation = 0 /\ new.finished = FALSE
           \/ /\ row[s].status = "opening"
              /\ new.revision = row[s].revision + 1 /\ new.events = row[s].events + 1
              /\ new.generation = row[s].generation /\ new.finished = row[s].finished
    PROVE  Moved
  <1>1. row'[s] = new /\ \A t \in Sessions \ {s} : row'[t] = row[t]
    BY DEF Lawful, IInv, StoreInv, StoreTypeOK
  <1>2. AtRest
    BY DEF Lawful, CopiesInv
  <1>3. CASE row[s].status = "none"
    <2>1. RowMove(s)
      BY <1>1, <1>2, <1>3, Arrives
    <2> QED BY <1>1, <2>1, Unmoved, RowWrites
  <1>4. CASE row[s].status = "opening"
    <2>1. RowMove(s)
      BY <1>1, <1>4, Prepares
    <2> QED BY <1>1, <2>1, Unmoved, RowWrites
  <1> QED BY <1>3, <1>4

LEMMA ChosenIs ==
    ASSUME NEW rec \in Record
    PROVE  /\ Chosen(rec) \in Record /\ Chosen(rec).status = rec.status
           /\ Chosen(rec).revision = rec.revision + 1
           /\ Chosen(rec).events = rec.events + 1
           /\ Chosen(rec).generation = rec.generation
           /\ Chosen(rec).finished = rec.finished
  BY RecordFields, ChosenKin DEF Chosen, Record, Kin

LEMMA StartedIs ==
    ASSUME NEW rec \in Record, rec.status = "opening"
    PROVE  /\ Started(rec).status = "queued"
           /\ Started(rec).revision = rec.revision + 1
           /\ Started(rec).events = rec.events + 1
           /\ Started(rec).generation = rec.generation
           /\ Started(rec).finished = rec.finished
  <1>1. PICK begun : begun = [rec EXCEPT !.made = TRUE, !.seen = 0, !.told = 0,
                                         !.revision = @ + 1, !.events = @ + 1]
    OBVIOUS
  <1>2. /\ begun \in Record /\ begun.status = "opening" /\ begun.revision = rec.revision + 1
        /\ begun.events = rec.events + 1
        /\ begun.generation = rec.generation /\ begun.finished = rec.finished
    BY <1>1, RecordFields, 0 \in Nat DEF Record
  <1>3. Started(rec) = [begun EXCEPT !.status = "queued"]
    BY <1>1, <1>2 DEF Started, setStatus, transitions
  <1> QED BY <1>2, <1>3 DEF Record

\* What a chat that arrives begun comes as.
LEMMA ArrivesBegun ==
    ASSUME NEW new, new = Started(Chosen(opening))
    PROVE  /\ new.status = "queued" /\ new.revision = 3 /\ new.events = 3
           /\ new.generation = 0 /\ new.finished = FALSE
  <1>1. /\ opening \in Record /\ opening.status = "opening" /\ opening.revision = 1
        /\ opening.events = 1 /\ opening.generation = 0 /\ opening.finished = FALSE
    BY OpeningType DEF opening, Blank
  <1>2. PICK ruled : ruled = Chosen(opening)
    OBVIOUS
  <1>3. /\ ruled \in Record /\ ruled.status = "opening" /\ ruled.revision = 2
        /\ ruled.events = 2 /\ ruled.generation = 0 /\ ruled.finished = FALSE
    BY <1>1, <1>2, ChosenIs
  <1>4. new = Started(ruled)
    BY <1>2
  <1> QED BY <1>3, <1>4, StartedIs

\* A request that changes no chat, and nothing of the turns.
LEMMA Aside ==
    ASSUME Lawful, row' = row, UNCHANGED worker
    PROVE  Moved
  BY Unmoved, QuietStep

LEMMA AskMoves ==
    ASSUME Lawful, NEW q \in Requests, NEW p \in Instances, NEW s \in Sessions, Ask(q, p, s)
    PROVE  Moved
  <1>1. UNCHANGED worker
    BY DEF Ask, Open, CreateStart, Rules, Begin, Control, AddFiles, Finish, DiscardLoads, turns
  <1>2. row[s] \in Record
    BY DEF Lawful, IInv, StoreInv, StoreTypeOK
  <1>3. CASE CreateStart(q, p, s) \/ Begin(q, p, s) \/ Finish(q, p, s) \/ DiscardLoads(q, p, s)
    <2>1. row' = row
      BY <1>3 DEF CreateStart, Begin, Finish, DiscardLoads
    <2> QED BY <1>1, <2>1, Aside
  <1>4. CASE Open(q, p, s)
    <2>1. PICK new : new = opening
      OBVIOUS
    <2>2. row' = [row EXCEPT ![s] = new] /\ row[s].status = "none"
      BY <1>4, <2>1 DEF Open, Create, Undrawn
    <2>3. /\ new.status = "opening" /\ new.revision = 1 /\ new.events = 1
          /\ new.generation = 0 /\ new.finished = FALSE
      BY <2>1 DEF opening, Blank
    <2>4. new.revision \in 1..3 /\ new.events \in 1..3
      BY <2>3
    <2>5. row[s].status # "running" /\ new.status \in {"opening", "queued"}
      BY <2>2, <2>3
    <2> QED BY <1>1, <2>2, <2>3, <2>4, <2>5, EarlyMoves
  <1>5. CASE Rules(q, p, s)
    <2>1. PICK new : new = Chosen(row[s])
      OBVIOUS
    <2>2. row' = [row EXCEPT ![s] = new] /\ row[s].status = "opening"
      BY <1>5, <2>1 DEF Rules, Update
    <2>3. /\ new.status = "opening" /\ new.revision = row[s].revision + 1
          /\ new.events = row[s].events + 1 /\ new.generation = row[s].generation
          /\ new.finished = row[s].finished
      BY <1>2, <2>1, <2>2, ChosenIs
    <2> QED BY <1>1, <2>2, <2>3, EarlyMoves
  <1>6. ASSUME Control(q, p, s) \/ AddFiles(q, p, s)
        PROVE  row[s].status \in Statuses \ {"opening"}
    BY <1>2, <1>6, RecordFields DEF Control, AddFiles, Controllable, Exists
  <1>7. CASE AddFiles(q, p, s)
    <2>1. PICK new : new = Replied(row[s])
      OBVIOUS
    <2>2. row' = [row EXCEPT ![s] = new]
      BY <1>7, <2>1 DEF AddFiles, Update
    <2>3. Deciding(row[s], new)
      BY <1>2, <1>6, <1>7, <2>1, ControlsDecide
    <2> QED BY <1>1, <1>6, <1>7, <2>2, <2>3, DecisionMoves
  <1>8. CASE Control(q, p, s)
    <2>1. CASE Update(s, row[s])
      <3>1. row' = row
        BY <2>1 DEF Update, Lawful, IInv, StoreInv, StoreTypeOK
      <3> QED BY <1>1, <3>1, Aside
    <2>2. CASE \E rec \in {Stopped(row[s]), Resumed(row[s]), Replied(row[s])} : Update(s, rec)
      <3>1. PICK rec \in {Stopped(row[s]), Resumed(row[s]), Replied(row[s])} : Update(s, rec)
        BY <2>2
      <3>2. row' = [row EXCEPT ![s] = rec]
        BY <3>1 DEF Update
      <3>3. PICK now : now = row[s]
        OBVIOUS
      <3>4. /\ Deciding(now, Stopped(now)) /\ Deciding(now, Resumed(now))
            /\ Deciding(now, Replied(now))
        BY <1>2, <1>6, <1>8, <3>3, ControlsDecide
      <3>5. rec = Stopped(now) \/ rec = Resumed(now) \/ rec = Replied(now)
        BY <3>1, <3>3
      <3>6. Deciding(now, rec)
        BY <3>4, <3>5, Zenon
      <3> QED BY <1>1, <1>6, <1>8, <3>2, <3>3, <3>6, DecisionMoves
    <2> QED BY <1>8, <2>1, <2>2 DEF Control
  <1> QED BY <1>3, <1>4, <1>5, <1>7, <1>8 DEF Ask

LEMMA ServeMoves ==
    ASSUME Lawful, NEW q \in Requests, Serve(q), ~Stop(q)
    PROVE  Moved
  <1>1. UNCHANGED worker
    BY DEF Serve, CreateKeep, BeginCommits, RequestFails, FinishCommits, DiscardCharacter,
       DiscardRow, turns
  <1>2. PICK s : s = request[q].chat
    OBVIOUS
  <1>3. RequestOK(q) /\ Discards
    BY DEF Lawful, IInv, RequestsInv, CopiesInv
  <1>4. s \in Sessions => row[s] \in Record
    BY DEF Lawful, IInv, StoreInv, StoreTypeOK
  <1>5. CASE RequestFails(q) \/ DiscardCharacter(q)
    <2>1. row' = row
      BY <1>5 DEF RequestFails, DiscardCharacter
    <2> QED BY <1>1, <2>1, Aside
  <1>6. CASE CreateKeep(q)
    <2>1. s \in Sessions
      BY <1>2, <1>3, <1>6 DEF RequestOK, CreateKeep
    <2>2. PICK new : new = Started(Chosen(opening))
      OBVIOUS
    <2>3. Create(s, new) \/ row' = row
      BY <1>2, <1>6, <2>2 DEF CreateKeep
    <2>4. CASE Create(s, new)
      <3>1. row[s].status = "none" /\ row' = [row EXCEPT ![s] = new]
        BY <2>4 DEF Create
      <3>2. /\ new.status \in {"opening", "queued"}
            /\ new.revision \in 1..3 /\ new.events \in 1..3
            /\ new.generation = 0 /\ new.finished = FALSE
        <4>1. /\ new.status = "queued" /\ new.revision = 3 /\ new.events = 3
              /\ new.generation = 0 /\ new.finished = FALSE
          BY <2>2, ArrivesBegun
        <4> QED BY <4>1
      <3>3. row[s].status # "running"
        BY <3>1
      <3> QED BY <1>1, <2>1, <3>1, <3>2, <3>3, EarlyMoves
    <2>5. CASE row' = row
      BY <1>1, <2>5, Aside
    <2> QED BY <2>3, <2>4, <2>5
  <1>7. CASE BeginCommits(q)
    <2>1. s \in Sessions /\ row[s].status = "opening"
      BY <1>2, <1>3, <1>7 DEF RequestOK, BeginCommits
    <2>2. PICK new : new = Started(row[s])
      OBVIOUS
    <2>3. row' = [row EXCEPT ![s] = new]
      BY <1>2, <1>7, <2>2 DEF BeginCommits, Update
    <2>4. /\ new.status = "queued" /\ new.revision = row[s].revision + 1
          /\ new.events = row[s].events + 1 /\ new.generation = row[s].generation
          /\ new.finished = row[s].finished
      BY <1>4, <2>1, <2>2, StartedIs
    <2> QED BY <1>1, <2>1, <2>3, <2>4, EarlyMoves
  <1>8. CASE FinishCommits(q)
    <2>1. s \in Sessions /\ row[s].status \notin Absent /\ row[s].status # "opening"
      BY <1>2, <1>3, <1>8 DEF RequestOK, FinishCommits, Discards, Exists
    <2>2. row[s].status \in Statuses \ {"opening"}
      BY <1>4, <2>1, RecordFields
    <2>3. PICK new : new = Finished(row[s])
      OBVIOUS
    <2>4. row' = [row EXCEPT ![s] = new]
      BY <1>2, <1>8, <2>3 DEF FinishCommits, Update
    <2>5. Deciding(row[s], new)
      BY <1>4, <2>1, <2>2, <2>3, ControlsDecide
    <2> QED BY <1>1, <2>1, <2>2, <2>4, <2>5, DecisionMoves
  <1>9. CASE DiscardRow(q)
    <2>1. s \in Sessions /\ row[s].status # "none" /\ Delete(s)
      BY <1>2, <1>3, <1>9 DEF RequestOK, DiscardRow, Discards
    <2> QED BY <1>1, <2>1, DeletionMoves
  <1> QED BY <1>5, <1>6, <1>7, <1>8, <1>9 DEF Serve

\* A turn told to stop knows what it knew.
LEMMA StopMoves ==
    ASSUME Lawful, NEW q \in Requests, Stop(q)
    PROVE  Moved
  <1>1. PICK v : v = <<request[q].at, running[request[q].at][request[q].chat]>>
    OBVIOUS
  <1>2. /\ row' = row
        /\ worker' = IF v \in Workers THEN [worker EXCEPT ![v].cancelled = TRUE] ELSE worker
    BY <1>1 DEF Stop
  <1>3. CASE v \notin Workers
    BY <1>2, <1>3, Aside
  <1>4. CASE v \in Workers
    <2>1. PICK turn : turn = [worker[v] EXCEPT !.cancelled = TRUE]
      OBVIOUS
    <2>2. Goes(v, turn)
      BY <1>2, <1>4, <2>1 DEF Goes
    <2>3. worker[v] \in Worker /\ SoundStatus(worker[v])
      BY <1>4 DEF Lawful, IInv, TurnsInv, CopiesInv, Faithful
    <2>4. turn.pc = worker[v].pc /\ turn.chat = worker[v].chat /\ turn.copy = worker[v].copy
      BY <2>1, <2>3 DEF Worker
    <2>5. SoundStatus(turn)
      BY <2>3, <2>4 DEF SoundStatus
    <2> QED BY <1>2, <1>4, <2>2, <2>4, <2>5, QuietTurn
  <1> QED BY <1>3, <1>4

LEMMA EnvironmentMoves ==
    ASSUME Lawful, NEW s \in Sessions, Environment(s)
    PROVE  Moved
  <1>1. UNCHANGED worker
    BY DEF Environment, OwnerEdits, OwnerDeletes, LeaseLapses, SweepIdle, turns
  <1>2. CASE OwnerEdits(s) \/ OwnerDeletes(s) \/ LeaseLapses(s)
    <2>1. row' = row
      BY <1>2 DEF OwnerEdits, OwnerDeletes, LeaseLapses
    <2> QED BY <1>1, <2>1, Aside
  <1>3. CASE SweepIdle(s)
    BY <1>1, <1>3, DeletionMoves DEF SweepIdle, Sweep, Exists, Absent
  <1> QED BY <1>2, <1>3 DEF Environment

\* What a process takes with it when it goes are turns, not chats.
LEMMA ProcessMoves ==
    ASSUME Lawful, NEW p \in Instances, Drain(p) \/ Exit(p) \/ Crash(p)
    PROVE  Moved
  <1>1. row' = row
    BY DEF Drain, Exit, Crash
  <1>2. CASE Drain(p) \/ Exit(p)
    BY <1>1, <1>2, Aside DEF Drain, Exit
  <1>3. CASE Crash(p)
    <2>1. ASSUME NEW w \in Workers PROVE Continues(w)
      <3>1. worker'[w] = Idle \/ worker'[w] = worker[w]
        BY <1>3 DEF Crash
      <3>2. CASE worker'[w] = Idle
        BY <3>2, IdleSound DEF Continues
      <3> QED BY <3>1, <3>2, Unmoved
    <2> QED BY <1>1, <2>1, QuietStep
  <1> QED BY <1>2, <1>3

-----------------------------------------------------------------------------
(* The refinement.                                                         *)

\* Each step of the system is one the contract allows of every chat.
LEMMA NextMoves ==
    ASSUME Lawful, Sole', [Next]_vars
    PROVE  Moved
  <1>1. CASE UNCHANGED vars
    BY <1>1, Aside DEF vars
  <1>2. CASE \E w \in Workers : TurnStep(w) \/ DeadlinePasses(w)
    BY <1>2, TurnStepMoves
  <1>3. CASE \E q \in Requests : Serve(q)
    BY <1>3, ServeMoves, StopMoves
  <1>4. CASE \E q \in Requests, p \in Instances, s \in Sessions : Ask(q, p, s)
    BY <1>4, AskMoves
  <1>5. CASE \E s \in Sessions : Environment(s)
    BY <1>5, EnvironmentMoves
  <1>6. CASE \E p \in Instances : Drain(p) \/ Exit(p) \/ Crash(p)
    BY <1>6, ProcessMoves
  <1> QED BY <1>1, <1>2, <1>3, <1>4, <1>5, <1>6 DEF Next

\* A request that is to discard or to finish a chat was so before, or has just
\* found the chat.
Found(q) ==
    LET old == request[q]
        new == request'[q]
        was == row[new.chat].status
    IN /\ new.pc \in {"discarding", "discarded"} =>
             \/ old.pc \in {"discarding", "discarded"} /\ old.chat = new.chat
             \/ was # "none"
       /\ new.pc = "finishing" =>
             \/ old.pc = "finishing" /\ old.chat = new.chat
             \/ was \notin {"none", "opening"}

LEMMA AnsweredFinds ==
    ASSUME NEW q \in Requests, request'[q].pc \notin {"discarding", "discarded", "finishing"}
    PROVE  Found(q)
  BY DEF Found

LEMMA NextFinds ==
    ASSUME IInv, [Next]_vars, NEW q \in Requests
    PROVE  Found(q)
  <1>0. request \in [Requests -> Request]
    BY DEF IInv, RequestsInv
  <1>1. CASE request'[q] = request[q]
    BY <1>1 DEF Found
  <1>2. ASSUME NEW r \in Requests, Serve(r), request'[q] # request[q]
        PROVE  Found(q)
    <2>1. \/ request'[q] = Answered \/ request'[q].pc = "stopping"
          \/ DiscardCharacter(q)
      BY <1>0, <1>2 DEF Serve, CreateKeep, BeginCommits, RequestFails, FinishCommits, Stop,
         DiscardCharacter, DiscardRow, Request
    <2>2. CASE DiscardCharacter(q)
      <3>1. request[q].pc = "discarding" /\ request'[q] = [request[q] EXCEPT !.pc = "discarded"]
        BY <1>0, <2>2 DEF DiscardCharacter
      <3>2. request'[q].pc = "discarded" /\ request'[q].chat = request[q].chat
        BY <1>0, <3>1 DEF Request
      <3> QED BY <3>1, <3>2 DEF Found
    <2> QED BY <2>1, <2>2, AnsweredFinds, AnsweredType
  <1>3. ASSUME NEW r \in Requests, NEW p \in Instances, NEW s \in Sessions, Ask(r, p, s),
               request'[q] # request[q]
        PROVE  Found(q)
    <2>1. r = q
      BY <1>0, <1>3 DEF Ask, Open, CreateStart, Rules, Begin, Control, AddFiles, Finish,
         DiscardLoads, Becomes
    <2>2. CASE Finish(q, p, s)
      <3>1. request'[q] = [pc |-> "finishing", at |-> p, chat |-> s]
        BY <1>0, <2>2 DEF Finish, Becomes
      <3> QED BY <2>2, <3>1 DEF Finish, Controllable, Exists, Absent, Found
    <2>3. CASE DiscardLoads(q, p, s)
      <3>1. PICK pc \in {"discarding", "discarded"} :
               request'[q] = [pc |-> pc, at |-> p, chat |-> s]
        BY <1>0, <2>3 DEF DiscardLoads, Becomes
      <3> QED BY <2>3, <3>1 DEF DiscardLoads, Exists, Absent, Found
    <2>4. CASE Open(q, p, s)
      BY <1>3, <2>4 DEF Open
    <2>5. CASE CreateStart(q, p, s) \/ Rules(q, p, s) \/ Begin(q, p, s) \/ Control(q, p, s)
               \/ AddFiles(q, p, s)
      <3>1. PICK pc \in {"keeping", "stopping", "beginning"} : Becomes(q, p, s, pc)
        BY <2>5 DEF CreateStart, Rules, Begin, Control, AddFiles
      <3>2. request'[q].pc = pc
        BY <1>0, <3>1 DEF Becomes
      <3> QED BY <3>2, AnsweredFinds
    <2> QED BY <1>3, <2>1, <2>2, <2>3, <2>4, <2>5 DEF Ask
  <1>4. CASE \E p \in Instances : Crash(p)
    <2>1. request'[q] = Answered \/ request'[q] = request[q]
      BY <1>4 DEF Crash
    <2> QED BY <1>1, <2>1, AnsweredFinds, AnsweredType
  <1>5. \/ request' = request
        \/ \E r \in Requests : Serve(r)
        \/ \E r \in Requests, p \in Instances, s \in Sessions : Ask(r, p, s)
        \/ \E p \in Instances : Crash(p)
    <2>1. CASE UNCHANGED vars
      BY <2>1 DEF vars
    <2>2. CASE \E w \in Workers : TurnStep(w) \/ DeadlinePasses(w)
      BY <2>2 DEF TurnStep, Look, ClaimTurn, ClaimNothing, Load, LoadFails, CharacterGone, Delta,
         DeltaRefused, ModelFails, ModelAnswers, CallNotRun, CallFindsNoCharacter, CallReads,
         CallWrites, Push, PushRefused, Reread, EndTurn, DeadlinePasses, outside
    <2>3. CASE \E s \in Sessions : Environment(s)
      BY <2>3 DEF Environment, OwnerEdits, OwnerDeletes, LeaseLapses, SweepIdle
    <2>4. CASE \E p \in Instances : Drain(p) \/ Exit(p)
      BY <2>4 DEF Drain, Exit
    <2> QED BY <2>1, <2>2, <2>3, <2>4 DEF Next
  <1> QED BY <1>1, <1>2, <1>3, <1>4, <1>5

\* The copies stay faithful, and what is gone stays gone.
LEMMA CopiesKept ==
    ASSUME Lawful, Moved, \A q \in Requests : Found(q)
    PROVE  CopiesInv'
  <1>1. AtRest'
    <2> SUFFICES ASSUME NEW s \in Sessions, row'[s].status \in Absent
                 PROVE  /\ row'[s].revision = 0 /\ row'[s].generation = 0
                        /\ row'[s].events = 0 /\ row'[s].finished = FALSE
      BY DEF AtRest
    <2>1. RowMove(s)
      BY DEF Moved
    <2>2. row[s].status \in Absent =>
             /\ row[s].revision = 0 /\ row[s].generation = 0 /\ row[s].events = 0
             /\ row[s].finished = FALSE
      BY DEF Lawful, CopiesInv, AtRest
    <2> QED BY <2>1, <2>2, MovesLeave
  <1>2. Discards'
    <2> SUFFICES ASSUME NEW q \in Requests
                 PROVE  /\ request'[q].pc \in {"discarding", "discarded"} =>
                              row'[request'[q].chat].status # "none"
                        /\ request'[q].pc = "finishing" =>
                              row'[request'[q].chat].status \notin {"none", "opening"}
      BY DEF Discards
    <2>1. PICK s : s = request'[q].chat
      OBVIOUS
    <2>2. request'[q].pc # "none" => s \in Sessions
      BY <2>1 DEF Lawful, IInv, RequestsInv, RequestOK
    <2>3. /\ request'[q].pc \in {"discarding", "discarded"} => row[s].status # "none"
          /\ request'[q].pc = "finishing" => row[s].status \notin {"none", "opening"}
      BY <2>1 DEF Lawful, CopiesInv, Discards, Found
    <2>4. ASSUME s \in Sessions
          PROVE  /\ row'[s].status = "none" => row[s].status = "none"
                 /\ row'[s].status \in {"none", "opening"} => row[s].status \in {"none", "opening"}
      <3>1. RowMove(s)
        BY <2>4 DEF Moved
      <3> QED BY <2>4, <3>1, MovesLeave, MovesOn DEF Absent
    <2> QED BY <2>1, <2>2, <2>3, <2>4
  <1>3. \A w \in Workers : Faithful(w)'
    BY DEF Moved
  <1> QED BY <1>1, <1>2, <1>3 DEF CopiesInv

\* At first there is no chat, no turn and no request.
LEMMA InitCopies == Init => CopiesInv /\ \A s \in Sessions : Contract(s)!Init
  <1> SUFFICES ASSUME Init PROVE CopiesInv /\ \A s \in Sessions : Contract(s)!Init
    OBVIOUS
  <1>1. \A s \in Sessions : row[s] = Blank
    BY DEF Init, StoreInit
  <1>2. AtRest
    BY <1>1 DEF AtRest, Blank
  <1>3. Discards
    BY DEF Init, Discards, Answered
  <1>4. \A w \in Workers : Faithful(w)
    BY IdleSound DEF Init, Faithful, Current
  <1>5. ASSUME NEW s \in Sessions PROVE Contract(s)!Init
    <2>1. /\ row[s].status = "none" /\ row[s].revision = 0 /\ row[s].generation = 0
          /\ row[s].events = 0 /\ row[s].finished = FALSE
      BY <1>1 DEF Blank
    <2> QED BY <2>1 DEF Contract!Init, Contract!Nothing
  <1> QED BY <1>2, <1>3, <1>4, <1>5 DEF CopiesInv

\* The invariant of the copies, and with it the step.
LEMMA CopiesStep ==
    ASSUME ~MayOverrun, IInv, Sole, CopiesInv, [Next]_vars
    PROVE  /\ Sole' /\ CopiesInv'
           /\ \A s \in Sessions : RowMove(s)
  <1>1. KeptCalmly \/ (Kept /\ \E w \in Workers : ClaimTurn(w))
    BY NextKeeps
  <1>2. Sole'
    BY <1>1, CalmKeepsSole, ClaimKeepsSole
  <1>3. Lawful
    BY <1>1 DEF Lawful, KeptCalmly, Kept
  <1>4. Moved
    BY <1>2, <1>3, NextMoves
  <1>5. CopiesInv'
    BY <1>3, <1>4, NextFinds, CopiesKept
  <1> QED BY <1>2, <1>4, <1>5 DEF Moved

\* What a reader of the chats sees is what WizardContract promises: the moves
\* of the status, when the revision moves, a log that is only added to and a
\* generation that only the owner moves, though a turn writes its own copy of
\* the chat (Claim, Save, Append, Update).
THEOREM ContractKept ==
    ASSUME ~MayOverrun
    PROVE  Spec => KeepsContract
  <1>1. Init => IInv /\ Sole /\ CopiesInv /\ \A s \in Sessions : Contract(s)!Init
    BY InitIInv, InitCopies DEF Init, Sole, Current, Idle, InTurn
  <1>2. IInv /\ Sole /\ CopiesInv /\ [Next]_vars => Sole' /\ CopiesInv'
    BY CopiesStep
  <1>3. IInv /\ Sole /\ CopiesInv /\ [Next]_vars =>
            [\A s \in Sessions : [Contract(s)!Next]_(Contract(s)!chat)]_row
    BY CopiesStep DEF RowMove
  <1> QED
    BY <1>1, <1>2, <1>3, Inductive, PTL DEF Spec, KeepsContract

=============================================================================
