----------------------------- MODULE WizardPage -----------------------------
(***************************************************************************)
(* The wizard's page in a browser tab: the poll that keeps it current, the *)
(* controls it sends, and the merge both answers go through.  The chat on  *)
(* the server is whatever WizardContract allows, which AgentWizard is      *)
(* shown to keep.                                                          *)
(***************************************************************************)
EXTENDS Naturals, FiniteSets

LOCAL INSTANCE Sequences

\* Mutant...: see AgentStore.

CONSTANTS
    MaxRevision, MaxEvents,  \* bounds on the chat's life
    MaxLost                  \* requests of the page's that come to nothing

VARIABLES
    chatStatus, chatRevision, chatGeneration, chatFinished, chatEvents,
    view,     \* what the tab holds of the chat
    poll,     \* the one read under way
    control,  \* the one write under way: its buttons wait for the answer
    lost

chatVars == <<chatStatus, chatRevision, chatGeneration, chatFinished, chatEvents>>
pageVars == <<chatVars, view, poll, control, lost>>

Server == INSTANCE WizardContract WITH
    status <- chatStatus, revision <- chatRevision, generation <- chatGeneration,
    finished <- chatFinished, events <- chatEvents

-----------------------------------------------------------------------------
\* The chat as a reader is told of it, and the events it holds: ids are 1..n.

Upto(n) == [i \in 1..n |-> i]

Row == [status |-> chatStatus, revision |-> chatRevision, finished |-> chatFinished]

Session(row, ids) ==
    [status |-> row.status, revision |-> row.revision, finished |-> row.finished, ids |-> ids]

NoView == [status |-> "none", revision |-> 0, finished |-> FALSE, ids |-> <<>>]

Lives == chatStatus \in Server!Existing

\* A whole session replaces the one held unless it is older.
Older(next) ==
    \/ view.revision > next.revision
    \/ view.revision = next.revision /\ Len(view.ids) > Len(next.ids)

MutantMergeWhole(next) == view' = next

MergeWhole(next) == view' = IF Older(next) THEN view ELSE next

\* The events past those already here, each at the place it came in.
Lacking(ids) ==
    LET new == {k \in DOMAIN ids : ids[k] > Len(view.ids)}
        nth(j) == CHOOSE k \in new : Cardinality({m \in new : m <= k}) = j
    IN  [j \in 1..Cardinality(new) |-> ids[nth(j)]]

\* A tail is appended past the events already here.
MergeTail(ids) ==
    view' = IF view = NoView THEN view
            ELSE [view EXCEPT !.ids = @ \o Lacking(ids)]

-----------------------------------------------------------------------------
\* The poll loop: what the tab holds goes up, what it lacks comes down.

Rest == [at |-> "rest"]

\* A finished chat is a record, and the loop ends.
SendPoll ==
    /\ poll = Rest
    /\ poll' = IF view = NoView THEN [at |-> "whole"]
               ELSE IF view.finished THEN [at |-> "off"]
               ELSE [at |-> "tail", revision |-> view.revision, after |-> Len(view.ids)]
    /\ UNCHANGED <<chatVars, view, control, lost>>

\* Discarded: nothing left to wait for.
NotFound ==
    /\ poll.at \in {"whole", "tail"}
    /\ ~Lives
    /\ poll' = [at |-> "off"]
    /\ UNCHANGED <<chatVars, view, control, lost>>

\* A reader that is behind on the revision is sent everything.
MutantCurrent(asked) == TRUE

Current(asked) == asked.revision = chatRevision

\* Tail reads the row, and only then the events.
ReadRow ==
    /\ poll.at = "tail"
    /\ Lives
    /\ poll' = IF Current(poll) THEN [at |-> "after", after |-> poll.after]
               ELSE [at |-> "whole"]
    /\ UNCHANGED <<chatVars, view, control, lost>>

\* No answer stands for the 204: there is nothing the reader lacks.
ReadAfter ==
    /\ poll.at = "after"
    /\ poll' = IF poll.after > chatEvents THEN [at |-> "whole"]
               ELSE [at |-> "events",
                     ids |-> SubSeq(Upto(chatEvents), poll.after + 1, chatEvents)]
    /\ UNCHANGED <<chatVars, view, control, lost>>

\* Get reads the row and the events by two statements as well.
ReadWholeRow ==
    /\ poll.at = "whole"
    /\ Lives
    /\ poll' = [at |-> "row", row |-> Row]
    /\ UNCHANGED <<chatVars, view, control, lost>>

ReadWholeEvents ==
    /\ poll.at = "row"
    /\ poll' = [at |-> "session", session |-> Session(poll.row, Upto(chatEvents))]
    /\ UNCHANGED <<chatVars, view, control, lost>>

Deliver ==
    /\ \/ poll.at = "session" /\ MergeWhole(poll.session)
       \/ poll.at = "events" /\ MergeTail(poll.ids)
    /\ poll' = Rest
    /\ UNCHANGED <<chatVars, control, lost>>

\* A failed request is made again after a second.
LosePoll ==
    /\ poll.at \notin {"rest", "off"}
    /\ lost < MaxLost
    /\ lost' = lost + 1
    /\ poll' = Rest
    /\ UNCHANGED <<chatVars, view, control>>

PollLoop ==
    SendPoll \/ NotFound \/ ReadRow \/ ReadAfter \/ ReadWholeRow
    \/ ReadWholeEvents \/ Deliver

-----------------------------------------------------------------------------
\* The controls: a stop, or something that asks the assistant to go on.

Press ==
    /\ control = Rest
    /\ view # NoView
    /\ \E stops \in BOOLEAN :
           control' = [at |-> "sent", stops |-> stops, revision |-> view.revision]
    /\ UNCHANGED <<chatVars, view, poll, lost>>

\* Stopping a turn in flight does not wait on the revision.
InTime ==
    /\ ~chatFinished
    /\ \/ control.revision = chatRevision
       \/ /\ control.stops /\ chatStatus \in Server!InFlight

Within == chatRevision' <= MaxRevision /\ chatEvents' <= MaxEvents

\* Whatever is accepted is answered with the chat as the change left it.
Accept ==
    /\ control.at = "sent"
    /\ InTime
    /\ \/ Server!Prepare /\ ~control.stops
       \/ /\ Server!Decide
          /\ chatFinished' = chatFinished
          /\ chatStatus' = IF control.stops THEN "paused" ELSE "queued"
    /\ Within
    /\ control' = [at |-> "answer", session |-> Session(Row', Upto(chatEvents'))]
    /\ UNCHANGED <<view, poll, lost>>

\* A stop pressed after the turn ended has nothing to stop and says nothing.
StopLate ==
    /\ control.at = "sent"
    /\ control.stops
    /\ Lives /\ chatStatus # "opening" /\ ~chatFinished
    /\ ~InTime
    /\ control' = [at |-> "answer", session |-> Session(Row, Upto(chatEvents))]
    /\ UNCHANGED <<chatVars, view, poll, lost>>

\* The session changed, or is gone, or cannot be stopped before it began.
Refuse ==
    /\ control.at = "sent"
    /\ \/ ~Lives
       \/ chatStatus = "opening" /\ control.stops
       \/ chatFinished
       \/ ~control.stops /\ ~InTime
    /\ control' = Rest
    /\ UNCHANGED <<chatVars, view, poll, lost>>

Answer ==
    /\ control.at = "answer"
    /\ MergeWhole(control.session)
    /\ control' = Rest
    /\ UNCHANGED <<chatVars, poll, lost>>

\* The request or its answer is lost; the person sees an error.
LoseControl ==
    /\ control # Rest
    /\ lost < MaxLost
    /\ lost' = lost + 1
    /\ control' = Rest
    /\ UNCHANGED <<chatVars, view, poll>>

Controls == Press \/ Accept \/ StopLate \/ Refuse \/ Answer \/ LoseControl

-----------------------------------------------------------------------------

\* The page is opened on a chat that is there.
PageInit ==
    /\ Server!Init
    /\ view = NoView
    /\ poll = Rest
    /\ control = Rest
    /\ lost = 0

\* Turns, other tabs and other doors move the chat.
Elsewhere ==
    /\ Server!Next
    /\ Within
    /\ UNCHANGED <<view, poll, control, lost>>

PageNext ==
    \/ Elsewhere
    \/ chatStatus # "none" /\ (PollLoop \/ LosePoll \/ Controls)

PageSpec == PageInit /\ [][PageNext]_pageVars

-----------------------------------------------------------------------------

\* What the tab shows only moves on: its events are always the first ones of
\* the chat, in order and each once, its revision never goes back, and within a
\* revision no event it showed goes away, whichever of a poll's and a control's
\* answers is late (merge, useAgentSession.ts).
ReadsOn ==
    [][/\ view'.ids = Upto(Len(view'.ids))
       /\ view'.revision >= view.revision
       /\ view'.revision = view.revision => Len(view'.ids) >= Len(view.ids)]_view

\* What the tab shows is the chat as it is; a process that gave its turn back
\* is not told of.
Shown ==
    /\ view.revision = chatRevision
    /\ view.ids = Upto(chatEvents)
    /\ \/ view.status = chatStatus
       \/ {view.status, chatStatus} = Server!InFlight

\* Once the chat rests, a tab that stays open shows it whole, unless the chat
\* is a record or gone: no order of lost, late and overtaken answers leaves the
\* page behind for good (the loop of useAgentSession.ts, Agent.Poll).
CatchesUp == <>[](~Lives \/ view.finished \/ Shown)

=============================================================================
