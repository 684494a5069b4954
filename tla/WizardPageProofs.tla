-------------------------- MODULE WizardPageProofs --------------------------
(***************************************************************************)
(* Proofs about the wizard's page: what a tab shows only moves on, however *)
(* long the chat and whichever answers are lost, late or overtaken.        *)
(***************************************************************************)
EXTENDS WizardPage, Sequences, FiniteSetTheorems, TLAPS

-----------------------------------------------------------------------------
(* Runs of events.                                                         *)

IsRun(ids) == ids \in Seq(Nat) /\ ids = Upto(Len(ids))

LEMMA UptoRuns ==
  ASSUME NEW n \in Nat
  PROVE  IsRun(Upto(n)) /\ Len(Upto(n)) = n
  <1>1. Upto(n) \in [1..n -> Nat]
    BY DEF Upto
  <1>2. Upto(n) \in Seq(Nat) /\ Len(Upto(n)) = n
    BY <1>1
  <1> QED BY <1>2 DEF IsRun

\* What a tail holds: some events after others.
IsTail(ids, after, n) == ids = [k \in 1..n |-> after + k]

LEMMA TailIs ==
  ASSUME NEW n \in Nat, NEW after \in Nat, after <= n
  PROVE  n - after \in Nat /\ IsTail(SubSeq(Upto(n), after + 1, n), after, n - after)
  <1>1. PICK u \in Seq(Nat) : u = Upto(n) /\ Len(u) = n /\ \A k \in 1..n : u[k] = k
    BY UptoRuns DEF IsRun, Upto
  <1>2. PICK t : t = SubSeq(u, after + 1, n)
    OBVIOUS
  <1>3. n - after \in Nat /\ t = [k \in 1..(n - after) |-> after + k]
    BY <1>1, <1>2
  <1> QED BY <1>1, <1>2, <1>3 DEF IsTail

\* Merged into a run it reaches, a tail makes a run that is no shorter.
LEMMA TailMerges ==
  ASSUME IsRun(view.ids), NEW after \in Nat, after <= Len(view.ids),
         NEW n \in Nat, NEW ids, IsTail(ids, after, n)
  PROVE  /\ IsRun(view.ids \o Lacking(ids))
         /\ Len(view.ids \o Lacking(ids)) = IF after + n <= Len(view.ids) THEN Len(view.ids)
                                           ELSE after + n
  <1>1. ids = [k \in 1..n |-> after + k]
    BY DEF IsTail
  <1>2. PICK l \in Nat : l = Len(view.ids) /\ after <= l
    BY DEF IsRun
  <1> DEFINE new == {k \in DOMAIN ids : ids[k] > Len(view.ids)}
             upto == [k \in new |-> {m \in new : m <= k}]
             nth(j) == CHOOSE k \in new : Cardinality({m \in new : m <= k}) = j
  <1>3. PICK d \in Nat : d = l - after
    BY <1>2
  <1>4. new = (d + 1)..n
    BY <1>1, <1>2, <1>3
  <1>5. \A k \in new : upto[k] = (d + 1)..k /\ k \in Nat /\ k >= d + 1
    <2> TAKE k \in new
    <2>1. k \in (d + 1)..n
      BY <1>4
    <2>2. \A m : m \in upto[k] <=> m \in (d + 1)..n /\ m <= k
      <3> HIDE DEF new
      <3> QED BY <1>4
    <2>3. \A m : m \in upto[k] <=> m \in (d + 1)..k
      BY <2>1, <2>2
    <2>4. PICK A : A = upto[k] /\ \A m : m \in A <=> m \in (d + 1)..k
      BY <2>3
    <2>5. A = (d + 1)..k
      <3> HIDE DEF upto, new
      <3> QED BY <2>4, Zenon
    <2>6. k \in Nat /\ k >= d + 1
      BY <2>1
    <2> HIDE DEF upto, new
    <2> QED BY <2>4, <2>5, <2>6
  <1>6. PICK c \in Nat : c = Cardinality(new) /\ (c = n - d \/ (c = 0 /\ n <= d))
    <2>1. Cardinality((d + 1)..n) = IF d + 1 > n THEN 0 ELSE n - (d + 1) + 1
      BY FS_Interval
    <2> HIDE DEF new
    <2> QED BY <1>4, <2>1
  <1>7. \A k \in new : Cardinality({m \in new : m <= k}) = k - d
    <2> SUFFICES ASSUME NEW k \in new PROVE Cardinality(upto[k]) = k - d
      OBVIOUS
    <2>1. upto[k] = (d + 1)..k /\ k \in Nat /\ k >= d + 1
      BY <1>5
    <2>2. Cardinality((d + 1)..k) = k - (d + 1) + 1
      BY <2>1, FS_Interval
    <2> HIDE DEF upto
    <2> QED BY <2>1, <2>2
  <1>8. \A j \in 1..c : nth(j) = d + j /\ nth(j) \in 1..n
    <2> SUFFICES ASSUME NEW j \in 1..c PROVE nth(j) = d + j /\ nth(j) \in 1..n
      OBVIOUS
    <2>1. d + j \in new
      BY <1>4, <1>6
    <2>2. Cardinality({m \in new : m <= d + j}) = j
      BY <1>7, <2>1
    <2>3. nth(j) \in new /\ Cardinality({m \in new : m <= nth(j)}) = j
      <3> HIDE DEF new
      <3> QED BY <2>1, <2>2
    <2>4. nth(j) - d = j
      <3> HIDE DEF new, nth
      <3> QED BY <1>7, <2>3
    <2> HIDE DEF new, nth
    <2> QED BY <1>4, <2>3, <2>4
  <1>9. Lacking(ids) = [j \in 1..c |-> ids[nth(j)]]
    BY <1>6 DEF Lacking
  <1> HIDE DEF nth, new
  <1>10. \A j \in 1..c : ids[nth(j)] = l + j
    BY <1>1, <1>3, <1>8
  <1>11. PICK t \in Seq(Nat) : t = Lacking(ids) /\ Len(t) = c /\ \A j \in 1..c : t[j] = l + j
    <2>1. PICK t : t = Lacking(ids)
      OBVIOUS
    <2>2. t \in [1..c -> Nat] /\ \A j \in 1..c : t[j] = l + j
      BY <1>2, <1>9, <1>10, <2>1
    <2>3. t \in Seq(Nat) /\ Len(t) = c
      BY <2>2
    <2> QED BY <2>1, <2>2, <2>3
  <1>12. PICK v \in Seq(Nat) : v = view.ids /\ Len(v) = l /\ \A j \in 1..l : v[j] = j
    <2>1. view.ids \in Seq(Nat) /\ view.ids = [i \in 1..l |-> i]
      BY <1>2 DEF IsRun, Upto
    <2>2. \A j \in 1..l : view.ids[j] = j
      BY <2>1
    <2> QED BY <1>2, <2>1, <2>2
  <1>13. /\ v \o t \in Seq(Nat) /\ Len(v \o t) = l + c
         /\ \A j \in 1..l : (v \o t)[j] = v[j]
         /\ \A j \in 1..c : (v \o t)[l + j] = t[j]
    <2>1. Len(v) = l /\ Len(t) = c
      BY <1>11, <1>12
    <2> QED BY <2>1
  <1>14. PICK w : w = v \o t
    OBVIOUS
  <1>15. ASSUME NEW j \in 1..(l + c) PROVE w[j] = j
    <2>1. CASE j <= l
      <3>1. j \in 1..l
        BY <2>1
      <3> QED BY <1>12, <1>13, <1>14, <3>1
    <2>2. CASE ~(j <= l)
      <3>1. PICK i \in 1..c : j = l + i
        <4>1. j - l \in 1..c /\ j = l + (j - l)
          BY <2>2
        <4> QED BY <4>1
      <3> QED BY <1>11, <1>13, <1>14, <3>1
    <2> QED BY <2>1, <2>2
  <1>16. w = Upto(l + c)
    <2>1. w \in Seq(Nat) /\ Len(w) = l + c
      BY <1>13, <1>14
    <2>2. w = [i \in 1..(l + c) |-> w[i]]
      BY <2>1
    <2> QED BY <1>15, <2>2 DEF Upto
  <1>17. w = view.ids \o Lacking(ids) /\ w \in Seq(Nat) /\ Len(w) = l + c
    BY <1>11, <1>12, <1>13, <1>14
  <1>18. IsRun(w)
    BY <1>16, <1>17 DEF IsRun
  <1>19. l + c = IF after + n <= l THEN l ELSE after + n
    <2>1. CASE c = n - d
      <3>1. l + c = after + n /\ l <= after + n
        BY <1>2, <1>3, <2>1
      <3> QED BY <1>2, <3>1
    <2>2. CASE c = 0 /\ n <= d
      BY <1>2, <1>3, <2>2
    <2> QED BY <1>6, <2>1, <2>2
  <1> QED BY <1>2, <1>17, <1>18, <1>19

-----------------------------------------------------------------------------
(* The invariant.                                                          *)

IsSession(s) ==
    /\ s = [status |-> s.status, revision |-> s.revision, finished |-> s.finished, ids |-> s.ids]
    /\ s.revision \in Nat /\ IsRun(s.ids)

\* Nothing is known of a chat that it has not reached.
Reached(s) == Lives => s.revision <= chatRevision /\ Len(s.ids) <= chatEvents

\* The answer a control waits for, should it be merged, leaves the tab the events
\* a tail was asked to come after.
NotBefore(after) ==
    control.at = "answer" => Older(control.session) \/ after <= Len(control.session.ids)

\* A read, at each point of its way.
PollHolds ==
    \/ poll.at \in {"rest", "off", "whole"}
    \/ /\ poll.at = "tail"
       /\ poll.revision \in Nat /\ poll.after \in Nat
       /\ \/ poll.revision < view.revision
          \/ poll.revision = view.revision /\ poll.after <= Len(view.ids)
    \/ /\ poll.at = "after"
       /\ poll.after \in Nat /\ poll.after <= Len(view.ids) /\ NotBefore(poll.after)
    \/ /\ poll.at = "events"
       /\ \E after, n \in Nat :
             /\ IsTail(poll.ids, after, n) /\ after <= Len(view.ids) /\ NotBefore(after)
             /\ Lives => after + n <= chatEvents
    \/ /\ poll.at = "row"
       /\ poll.row.revision \in Nat
       /\ Lives => poll.row.revision <= chatRevision
    \/ poll.at = "session" /\ IsSession(poll.session) /\ Reached(poll.session)

ControlHolds ==
    control.at = "answer" => IsSession(control.session) /\ Reached(control.session)

PageInv ==
    /\ chatRevision \in Nat /\ chatEvents \in Nat
    /\ chatStatus = "none" => view = NoView /\ poll = Rest /\ control = Rest
    /\ IsSession(view) /\ Reached(view)
    /\ PollHolds
    /\ ControlHolds

LEMMA NoViewFits == IsSession(NoView) /\ NoView.revision = 0 /\ Len(NoView.ids) = 0
  <1>1. <<>> \in Seq(Nat) /\ Len(<<>>) = 0
    OBVIOUS
  <1>2. <<>> = Upto(0)
    BY <1>1 DEF Upto
  <1>3. IsRun(<<>>)
    BY <1>1, <1>2 DEF IsRun
  <1> QED BY <1>1, <1>3 DEF IsSession, NoView

LEMMA SessionFits ==
  ASSUME NEW r, r.revision \in Nat, NEW n \in Nat
  PROVE  /\ IsSession(Session(r, Upto(n)))
         /\ Session(r, Upto(n)).revision = r.revision
         /\ Session(r, Upto(n)).ids = Upto(n) /\ Len(Upto(n)) = n
  <1>1. PICK ids : ids = Upto(n) /\ IsRun(ids) /\ Len(ids) = n
    BY UptoRuns
  <1>2. PICK s : s = Session(r, ids)
    OBVIOUS
  <1>3. IsSession(s) /\ s.revision = r.revision /\ s.ids = ids
    BY <1>1, <1>2 DEF IsSession, Session
  <1> QED BY <1>1, <1>2, <1>3

\* The chat's moves: one that lives came to be, or only moved on.
LEMMA ServerGoes ==
  ASSUME chatRevision \in Nat, chatEvents \in Nat, Server!Next
  PROVE  /\ chatRevision' \in Nat /\ chatEvents' \in Nat /\ chatStatus' # "none"
         /\ Lives' => \/ chatStatus = "none"
                      \/ Lives /\ chatRevision <= chatRevision' /\ chatEvents <= chatEvents'
  <1>1. CASE Server!Arrive
    BY <1>1 DEF Server!Arrive
  <1>2. CASE Server!Prepare
    BY <1>2 DEF Server!Prepare, Lives, Server!Existing
  <1>3. CASE Server!Decide
    BY <1>3 DEF Server!Decide, Lives, Server!Existing, Server!Outcomes, Server!InFlight
  <1>4. CASE Server!Take \/ Server!Progress \/ Server!Release
    BY <1>4 DEF Server!Take, Server!Progress, Server!Release, Lives, Server!Existing,
                Server!Outcomes, Server!InFlight
  <1>5. CASE Server!End
    BY <1>5 DEF Server!End, Lives, Server!Existing, Server!Outcomes
  <1>6. CASE Server!Vanish
    BY <1>6 DEF Server!Vanish, Lives, Server!Existing, Server!Outcomes
  <1> QED BY <1>1, <1>2, <1>3, <1>4, <1>5, <1>6 DEF Server!Next

\* A merge of a whole session.
LEMMA WholeMerges ==
  ASSUME IsSession(view), NEW s, IsSession(s), MergeWhole(s)
  PROVE  /\ IsSession(view') /\ view' \in {view, s}
         /\ view.revision <= view'.revision
         /\ view'.revision = view.revision => Len(view.ids) <= Len(view'.ids)
         /\ ~Older(s) => view' = s
  <1>1. /\ view.revision \in Nat /\ s.revision \in Nat
        /\ Len(view.ids) \in Nat /\ Len(s.ids) \in Nat
    BY DEF IsSession, IsRun
  <1>2. CASE Older(s)
    BY <1>1, <1>2 DEF MergeWhole
  <1>3. CASE ~Older(s)
    BY <1>1, <1>3 DEF MergeWhole, Older
  <1> QED BY <1>2, <1>3

-----------------------------------------------------------------------------
(* Every action keeps it.                                                  *)

\* What the tab shows only moves on.
MovesOn ==
    /\ view.revision <= view'.revision
    /\ view'.revision = view.revision => Len(view.ids) <= Len(view'.ids)

Kept == PageInv' /\ MovesOn

LEMMA ViewStays == ASSUME IsSession(view), view' = view PROVE MovesOn
  BY DEF MovesOn, IsSession, IsRun

\* A step of the loop's that shows nothing new.
LEMMA PollMoves ==
  ASSUME PageInv, chatStatus # "none", UNCHANGED <<chatVars, view, control>>, PollHolds'
  PROVE  Kept
  <1>1. MovesOn
    BY ViewStays DEF PageInv
  <1>2. Lives' <=> Lives
    BY DEF Lives, chatVars
  <1> QED BY <1>1, <1>2 DEF Kept, PageInv, chatVars, Reached, ControlHolds

LEMMA NotBeforeStays ==
  ASSUME NEW after, NotBefore(after), view' = view, control' = control
  PROVE  NotBefore(after)'
  BY DEF NotBefore, Older

LEMMA EventsHold ==
  ASSUME NEW after \in Nat, NEW n \in Nat, poll'.at = "events", IsTail(poll.ids, after, n)',
         after <= Len(view'.ids), NotBefore(after)', Lives' => after + n <= chatEvents'
  PROVE  PollHolds'
  BY Zenon DEF PollHolds

LEMMA SendPollKeeps == ASSUME PageInv, chatStatus # "none", SendPoll PROVE Kept
  <1>1. UNCHANGED <<chatVars, view, control>>
    BY DEF SendPoll
  <1>2. view.revision \in Nat /\ Len(view.ids) \in Nat
    BY DEF PageInv, IsSession, IsRun
  <1>3. PollHolds'
    BY <1>1, <1>2 DEF SendPoll, PollHolds
  <1> QED BY <1>1, <1>3, PollMoves

LEMMA RestingPolls ==
  ASSUME PageInv, chatStatus # "none", NotFound \/ ReadWholeRow \/ LosePoll
  PROVE  Kept
  <1>1. UNCHANGED <<chatVars, view, control>>
    BY DEF NotFound, ReadWholeRow, LosePoll
  <1>2. poll' \in {[at |-> "off"], [at |-> "rest"], [at |-> "row", row |-> Row]}
    BY DEF NotFound, ReadWholeRow, LosePoll, Rest
  <1>3. PollHolds'
    <2>1. CASE poll'.at = "row"
      <3>1. poll'.row = Row /\ Row.revision = chatRevision /\ chatRevision \in Nat
        BY <1>2, <2>1 DEF Row, PageInv
      <3>2. chatRevision' = chatRevision
        BY <1>1 DEF chatVars
      <3> QED BY <2>1, <3>1, <3>2 DEF PollHolds
    <2>2. CASE poll'.at # "row"
      BY <1>2, <2>2 DEF PollHolds
    <2> QED BY <2>1, <2>2
  <1> QED BY <1>1, <1>3, PollMoves

\* A row that is what the tab was shown: nothing that is on its way takes events
\* away from it.
LEMMA ReadRowKeeps == ASSUME PageInv, chatStatus # "none", ReadRow PROVE Kept
  <1>1. UNCHANGED <<chatVars, view, control>>
    BY DEF ReadRow
  <1>2. CASE ~Current(poll)
    <2>1. poll'.at = "whole"
      BY <1>2 DEF ReadRow
    <2> QED BY <1>1, <2>1, PollMoves DEF PollHolds
  <1>3. CASE Current(poll)
    <2>1. poll'.at = "after" /\ poll'.after = poll.after /\ poll.at = "tail" /\ Lives
          /\ poll.revision = chatRevision
      BY <1>3 DEF ReadRow, Current
    <2>2. /\ poll.revision \in Nat /\ poll.after \in Nat
          /\ \/ poll.revision < view.revision
             \/ poll.revision = view.revision /\ poll.after <= Len(view.ids)
      BY <2>1 DEF PageInv, PollHolds
    <2>3. view.revision \in Nat /\ view.revision <= chatRevision /\ Len(view.ids) \in Nat
      BY <2>1 DEF PageInv, Reached, IsSession, IsRun
    <2>4. view.revision = chatRevision /\ poll.after <= Len(view.ids)
      BY <2>1, <2>2, <2>3
    <2>5. NotBefore(poll.after)
      <3> SUFFICES ASSUME control.at = "answer", ~Older(control.session)
                   PROVE  poll.after <= Len(control.session.ids)
        BY DEF NotBefore
      <3>1. /\ control.session.revision \in Nat /\ Len(control.session.ids) \in Nat
            /\ control.session.revision <= chatRevision
        BY <2>1 DEF PageInv, ControlHolds, Reached, IsSession, IsRun
      <3> QED BY <2>2, <2>3, <2>4, <3>1 DEF Older
    <2>6. NotBefore(poll.after)'
      <3>1. PICK after : after = poll.after
        OBVIOUS
      <3>2. NotBefore(after)'
        BY <1>1, <2>5, <3>1, NotBeforeStays
      <3> QED BY <2>1, <3>1, <3>2 DEF NotBefore
    <2>7. PollHolds'
      <3>1. poll'.after \in Nat /\ poll'.after <= Len(view'.ids) /\ NotBefore(poll.after)'
        BY <1>1, <2>1, <2>2, <2>4, <2>6
      <3> QED BY <2>1, <3>1 DEF PollHolds, NotBefore
    <2> QED BY <1>1, <2>7, PollMoves
  <1> QED BY <1>2, <1>3

LEMMA ReadAfterKeeps == ASSUME PageInv, chatStatus # "none", ReadAfter PROVE Kept
  <1>1. UNCHANGED <<chatVars, view, control>>
    BY DEF ReadAfter
  <1>2. CASE poll.after > chatEvents
    <2>1. poll'.at = "whole"
      BY <1>2 DEF ReadAfter
    <2> QED BY <1>1, <2>1, PollMoves DEF PollHolds
  <1>3. CASE ~(poll.after > chatEvents)
    <2>1. PICK after \in Nat : after = poll.after /\ after <= Len(view.ids) /\ NotBefore(after)
      BY DEF PageInv, PollHolds, ReadAfter
    <2>2. after <= chatEvents /\ chatEvents \in Nat
      BY <1>3, <2>1 DEF PageInv
    <2>3. /\ poll'.at = "events"
          /\ poll'.ids = SubSeq(Upto(chatEvents), after + 1, chatEvents)
      BY <1>3, <2>1 DEF ReadAfter
    <2>4. PICK n \in Nat : after + n = chatEvents /\ IsTail(poll.ids, after, n)'
      <3>1. PICK events \in Nat : events = chatEvents
        BY <2>2
      <3>2. /\ events - after \in Nat
            /\ IsTail(SubSeq(Upto(events), after + 1, events), after, events - after)
        BY <2>2, <3>1, TailIs
      <3>3. IsTail(poll.ids, after, events - after)'
        BY <2>3, <3>1, <3>2 DEF IsTail
      <3> QED BY <3>1, <3>2, <3>3
    <2>5. NotBefore(after)'
      BY <1>1, <2>1, NotBeforeStays
    <2>6. after <= Len(view'.ids) /\ (Lives' => after + n <= chatEvents')
      BY <1>1, <2>1, <2>2, <2>4 DEF chatVars
    <2>7. PollHolds'
      BY <2>3, <2>4, <2>5, <2>6, EventsHold
    <2> QED BY <1>1, <2>7, PollMoves
  <1> QED BY <1>2, <1>3

LEMMA ReadWholeEventsKeeps == ASSUME PageInv, chatStatus # "none", ReadWholeEvents PROVE Kept
  <1>1. UNCHANGED <<chatVars, view, control>>
    BY DEF ReadWholeEvents
  <1>2. poll.row.revision \in Nat /\ (Lives => poll.row.revision <= chatRevision)
    BY DEF PageInv, PollHolds, ReadWholeEvents
  <1>3. PICK s : /\ s = Session(poll.row, Upto(chatEvents)) /\ IsSession(s)
                 /\ s.revision = poll.row.revision /\ Len(s.ids) = chatEvents
    BY <1>2, SessionFits DEF PageInv
  <1>4. poll'.at = "session" /\ poll'.session = s
    BY <1>3 DEF ReadWholeEvents
  <1>5. Reached(s)'
    BY <1>1, <1>2, <1>3 DEF Reached, Lives, chatVars, PageInv
  <1>6. PollHolds'
    <2>1. IsSession(poll.session)' /\ Reached(poll.session)'
      BY <1>3, <1>4, <1>5 DEF IsSession, IsRun, Reached, Upto
    <2> QED BY <1>4, <2>1 DEF PollHolds
  <1> QED BY <1>1, <1>6, PollMoves

LEMMA DeliverKeeps == ASSUME PageInv, chatStatus # "none", Deliver PROVE Kept
  <1>1. UNCHANGED <<chatVars, control>> /\ poll' = Rest
    BY DEF Deliver
  <1>2. CASE poll.at = "session" /\ MergeWhole(poll.session)
    <2>1. PICK s : s = poll.session /\ IsSession(s) /\ Reached(s) /\ MergeWhole(s)
      BY <1>2 DEF PageInv, PollHolds
    <2>2. MovesOn /\ IsSession(view') /\ view' \in {view, s}
      BY <2>1, WholeMerges DEF MovesOn, PageInv
    <2>3. PICK v : v = view' /\ IsSession(v) /\ Reached(v)
      BY <2>1, <2>2 DEF PageInv
    <2>4. IsSession(view)' /\ Reached(view)'
      BY <1>1, <2>3 DEF IsSession, IsRun, Reached, Lives, chatVars, Upto
    <2>5. PollHolds'
      BY <1>1 DEF PollHolds, Rest
    <2>6. ControlHolds'
      BY <1>1 DEF ControlHolds, PageInv, Reached, Lives, chatVars
    <2> QED BY <1>1, <2>2, <2>4, <2>5, <2>6 DEF Kept, PageInv, chatVars
  <1>3. CASE poll.at = "events" /\ MergeTail(poll.ids)
    <2>1. PICK after, n \in Nat : /\ IsTail(poll.ids, after, n) /\ after <= Len(view.ids)
                                  /\ Lives => after + n <= chatEvents
      BY <1>3 DEF PageInv, PollHolds
    <2>2. PICK ids : ids = poll.ids /\ IsTail(ids, after, n) /\ MergeTail(ids)
      BY <1>3, <2>1
    <2>3. IsSession(view) /\ Reached(view) /\ IsRun(view.ids) /\ Len(view.ids) \in Nat
      BY DEF PageInv, IsSession, IsRun
    <2>4. PICK new : /\ new = view.ids \o Lacking(ids) /\ IsRun(new)
                     /\ Len(new) = IF after + n <= Len(view.ids) THEN Len(view.ids) ELSE after + n
      BY <2>1, <2>2, <2>3, TailMerges
    <2>5. CASE view = NoView
      <3>1. view' = view
        BY <2>2, <2>5 DEF MergeTail
      <3>2. MovesOn
        BY <2>3, <3>1, ViewStays
      <3>3. PollHolds'
        BY <1>1 DEF PollHolds, Rest
      <3> QED BY <1>1, <3>1, <3>2, <3>3 DEF Kept, PageInv, Reached, Lives, chatVars, ControlHolds
    <2>6. CASE view # NoView
      <3>1. view' = [view EXCEPT !.ids = new]
        BY <2>2, <2>4, <2>6 DEF MergeTail
      <3>2. PICK v : /\ v = view' /\ IsSession(v) /\ v.ids = new /\ v.revision = view.revision
        <4>1. PICK old : /\ old = view /\ old.revision \in Nat
                         /\ old = [status |-> old.status, revision |-> old.revision,
                                   finished |-> old.finished, ids |-> old.ids]
          BY <2>3 DEF IsSession
        <4>2. PICK v : v = [old EXCEPT !.ids = new]
          OBVIOUS
        <4>3. v = [status |-> old.status, revision |-> old.revision,
                   finished |-> old.finished, ids |-> new]
          BY <4>1, <4>2
        <4>4. IsSession(v) /\ v.ids = new /\ v.revision = old.revision
          BY <2>4, <4>1, <4>3 DEF IsSession
        <4> QED BY <3>1, <4>1, <4>2, <4>4
      <3>3. MovesOn
        <4>1. Len(new) \in Nat /\ Len(view.ids) <= Len(new)
          BY <2>1, <2>3, <2>4 DEF IsRun
        <4>2. view.revision \in Nat /\ view'.revision = view.revision /\ view'.ids = new
          BY <2>3, <3>2 DEF IsSession
        <4> QED BY <4>1, <4>2 DEF MovesOn
      <3>4. IsSession(view)' /\ Reached(view)'
        <4>1. Lives => Len(new) <= chatEvents /\ v.revision <= chatRevision
          BY <2>1, <2>3, <2>4, <3>2 DEF Reached
        <4> QED BY <1>1, <3>2, <4>1 DEF IsSession, IsRun, Reached, Lives, chatVars, Upto
      <3>5. PollHolds' /\ ControlHolds'
        BY <1>1 DEF PollHolds, Rest, ControlHolds, PageInv, Reached, Lives, chatVars
      <3> QED BY <1>1, <3>3, <3>4, <3>5 DEF Kept, PageInv, chatVars
    <2> QED BY <2>5, <2>6
  <1> QED BY <1>2, <1>3 DEF Deliver

\* A step of a control's that shows nothing new.
LEMMA ControlMoves ==
  ASSUME PageInv, chatStatus # "none", UNCHANGED <<chatVars, view, poll>>, ControlHolds',
         \A after \in Nat : NotBefore(after) /\ after <= Len(view.ids) => NotBefore(after)'
  PROVE  Kept
  <1>1. MovesOn
    BY ViewStays DEF PageInv
  <1>2. Lives' <=> Lives
    BY DEF Lives, chatVars
  <1>3. PollHolds'
    BY <1>2 DEF PageInv, PollHolds, chatVars, Reached, IsSession, IsTail
  <1> QED BY <1>1, <1>2, <1>3 DEF Kept, PageInv, chatVars, Reached

LEMMA NoAnswerKeeps ==
  ASSUME PageInv, chatStatus # "none", Press \/ Refuse \/ LoseControl
  PROVE  Kept
  <1>1. UNCHANGED <<chatVars, view, poll>> /\ control'.at # "answer"
    BY DEF Press, Refuse, LoseControl, Rest
  <1>2. ControlHolds' /\ \A after \in Nat : NotBefore(after)'
    BY <1>1 DEF ControlHolds, NotBefore
  <1> QED BY <1>1, <1>2, ControlMoves

LEMMA StopLateKeeps == ASSUME PageInv, chatStatus # "none", StopLate PROVE Kept
  <1>1. UNCHANGED <<chatVars, view, poll>> /\ Lives
    BY DEF StopLate
  <1>2. Row.revision = chatRevision /\ chatRevision \in Nat /\ chatEvents \in Nat
    BY DEF Row, PageInv
  <1>3. PICK s : /\ s = Session(Row, Upto(chatEvents)) /\ IsSession(s)
                 /\ s.revision = chatRevision /\ Len(s.ids) = chatEvents
    BY <1>2, SessionFits
  <1>4. control' = [at |-> "answer", session |-> s]
    BY <1>3 DEF StopLate
  <1>5. ControlHolds'
    BY <1>1, <1>2, <1>3, <1>4 DEF ControlHolds, IsSession, IsRun, Reached, Upto, chatVars
  <1>6. ASSUME NEW after \in Nat, after <= Len(view.ids) PROVE NotBefore(after)'
    <2>1. Len(view.ids) \in Nat /\ Len(view.ids) <= chatEvents
      BY <1>1 DEF PageInv, Reached, IsSession, IsRun
    <2> QED BY <1>2, <1>3, <1>4, <1>6, <2>1 DEF NotBefore
  <1> QED BY <1>1, <1>5, <1>6, ControlMoves

LEMMA AnswerKeeps == ASSUME PageInv, chatStatus # "none", Answer PROVE Kept
  <1>1. UNCHANGED <<chatVars, poll>> /\ control' = Rest /\ control.at = "answer"
    BY DEF Answer
  <1>2. PICK s : s = control.session /\ IsSession(s) /\ Reached(s) /\ MergeWhole(s)
    BY DEF PageInv, ControlHolds, Answer
  <1>3. MovesOn /\ IsSession(view') /\ view' = IF Older(s) THEN view ELSE s
    BY <1>2, WholeMerges DEF MovesOn, PageInv, MergeWhole
  <1>4. PICK v : v = view' /\ IsSession(v) /\ Reached(v)
    BY <1>2, <1>3 DEF PageInv
  <1>5. IsSession(view)' /\ Reached(view)'
    BY <1>1, <1>4 DEF IsSession, IsRun, Reached, Lives, chatVars, Upto
  <1>6. ControlHolds' /\ \A after \in Nat : NotBefore(after)'
    BY <1>1 DEF ControlHolds, NotBefore, Rest
  <1>7. ASSUME NEW after \in Nat, after <= Len(view.ids), NotBefore(after)
        PROVE  after <= Len(view'.ids)
    BY <1>1, <1>2, <1>3, <1>7 DEF NotBefore
  <1>8. PollHolds'
    <2>1. CASE poll.at = "tail"
      <3>1. /\ poll.revision \in Nat /\ poll.after \in Nat
            /\ \/ poll.revision < view.revision
               \/ poll.revision = view.revision /\ poll.after <= Len(view.ids)
        BY <2>1 DEF PageInv, PollHolds
      <3>2. /\ view.revision \in Nat /\ view'.revision \in Nat
            /\ Len(view.ids) \in Nat /\ Len(view'.ids) \in Nat
        BY <1>3 DEF PageInv, IsSession, IsRun
      <3>3. \/ poll.revision < view'.revision
            \/ poll.revision = view'.revision /\ poll.after <= Len(view'.ids)
        BY <1>3, <3>1, <3>2 DEF MovesOn
      <3> QED BY <1>1, <2>1, <3>1, <3>3 DEF PollHolds
    <2>2. CASE poll.at = "after"
      BY <1>1, <1>6, <1>7, <2>2 DEF PageInv, PollHolds
    <2>3. CASE poll.at = "events"
      <3>1. PICK after, n \in Nat : /\ IsTail(poll.ids, after, n) /\ after <= Len(view.ids)
                                    /\ NotBefore(after)
                                    /\ Lives => after + n <= chatEvents
        BY <2>3 DEF PageInv, PollHolds
      <3>2. after <= Len(view'.ids) /\ NotBefore(after)'
        BY <1>6, <1>7, <3>1
      <3>3. /\ poll'.at = "events" /\ IsTail(poll.ids, after, n)'
            /\ Lives' => after + n <= chatEvents'
        BY <1>1, <2>3, <3>1 DEF IsTail, Lives, chatVars
      <3> QED BY <3>2, <3>3, EventsHold
    <2>4. CASE poll.at \notin {"tail", "after", "events"}
      BY <1>1, <2>4 DEF PageInv, PollHolds, Reached, Lives, chatVars, IsSession
    <2> QED BY <2>1, <2>2, <2>3, <2>4
  <1> QED BY <1>1, <1>3, <1>5, <1>6, <1>8 DEF Kept, PageInv, chatVars

\* An accepted control is answered with what the chat has reached, which is as
\* far as any read got.
LEMMA AcceptKeeps == ASSUME PageInv, chatStatus # "none", Accept PROVE Kept
  <1>1. UNCHANGED <<view, poll>>
    BY DEF Accept
  <1>2. /\ Lives /\ Lives' /\ chatRevision' = chatRevision + 1
        /\ chatEvents' \in Nat /\ chatEvents <= chatEvents'
        /\ chatRevision \in Nat /\ chatEvents \in Nat /\ chatStatus' # "none"
    <2>1. chatRevision \in Nat /\ chatEvents \in Nat
      BY DEF PageInv
    <2>2. CASE Server!Prepare
      BY <2>1, <2>2 DEF Server!Prepare, Lives, Server!Existing, Server!Outcomes
    <2>3. CASE Server!Decide /\ chatStatus' = IF control.stops THEN "paused" ELSE "queued"
      BY <2>1, <2>3 DEF Server!Decide, Lives, Server!Existing, Server!Outcomes
    <2> QED BY <2>2, <2>3 DEF Accept
  <1>3. PICK s : /\ s = Session(Row', Upto(chatEvents')) /\ IsSession(s)
                 /\ s.revision = chatRevision' /\ Len(s.ids) = chatEvents'
    <2>1. PICK r : r = Row' /\ r.revision = chatRevision' /\ r.revision \in Nat
      <3>1. PICK r : r = Row'
        OBVIOUS
      <3>2. chatRevision' \in Nat
        BY <1>2
      <3> QED BY <3>1, <3>2 DEF Row
    <2>2. PICK n \in Nat : n = chatEvents'
      BY <1>2
    <2>3. PICK s : s = Session(r, Upto(n)) /\ IsSession(s) /\ s.revision = r.revision /\ Len(s.ids) = n
      BY <2>1, SessionFits
    <2> QED BY <2>1, <2>2, <2>3
  <1>4. control' = [at |-> "answer", session |-> s]
    BY <1>3 DEF Accept
  <1>5. ControlHolds'
    BY <1>2, <1>3, <1>4 DEF ControlHolds, IsSession, IsRun, Reached, Upto
  <1>6. Reached(view)' /\ IsSession(view)'
    <2>1. view.revision \in Nat /\ Len(view.ids) \in Nat /\ IsSession(view)
          /\ view.revision <= chatRevision /\ Len(view.ids) <= chatEvents
      BY <1>2 DEF PageInv, Reached, IsSession, IsRun
    <2> QED BY <1>1, <1>2, <2>1 DEF Reached, IsSession, IsRun, Upto
  <1>7. ASSUME NEW after \in Nat, after <= Len(view.ids) PROVE NotBefore(after)'
    <2>1. Len(view.ids) \in Nat /\ Len(view.ids) <= chatEvents
      BY <1>2 DEF PageInv, Reached, IsSession, IsRun
    <2> QED BY <1>2, <1>3, <1>4, <1>7, <2>1 DEF NotBefore
  <1>8. PollHolds'
    <2>1. CASE poll.at = "after"
      BY <1>1, <1>7, <2>1 DEF PageInv, PollHolds
    <2>2. CASE poll.at = "events"
      <3>1. PICK after, n \in Nat : /\ IsTail(poll.ids, after, n) /\ after <= Len(view.ids)
                                    /\ Lives => after + n <= chatEvents
        BY <2>2 DEF PageInv, PollHolds
      <3>2. poll'.at = "events" /\ IsTail(poll.ids, after, n)' /\ after <= Len(view'.ids)
        BY <1>1, <2>2, <3>1 DEF IsTail
      <3>3. NotBefore(after)' /\ (Lives' => after + n <= chatEvents')
        BY <1>2, <1>7, <3>1
      <3> QED BY <3>2, <3>3, EventsHold
    <2>3. CASE poll.at = "tail"
      BY <1>1, <2>3 DEF PageInv, PollHolds
    <2>4. CASE poll.at = "row"
      BY <1>1, <1>2, <2>4 DEF PageInv, PollHolds
    <2>5. CASE poll.at = "session"
      <3>1. PICK w : w = poll.session /\ IsSession(w) /\ Reached(w)
        BY <2>5 DEF PageInv, PollHolds
      <3>2. w.revision \in Nat /\ Len(w.ids) \in Nat
        BY <3>1 DEF IsSession, IsRun
      <3>3. Reached(w)'
        BY <1>2, <3>1, <3>2 DEF Reached
      <3> QED BY <1>1, <2>5, <3>1, <3>3 DEF PollHolds, IsSession, IsRun, Reached, Upto
    <2>6. CASE poll.at \in {"rest", "off", "whole"}
      BY <1>1, <2>6 DEF PollHolds
    <2> QED BY <2>1, <2>2, <2>3, <2>4, <2>5, <2>6 DEF PageInv, PollHolds
  <1>9. MovesOn
    BY <1>1, ViewStays DEF PageInv
  <1> QED BY <1>2, <1>5, <1>6, <1>8, <1>9 DEF Kept, PageInv

\* The chat moves under the tab.
LEMMA ElsewhereKeeps == ASSUME PageInv, Elsewhere PROVE Kept
  <1>1. UNCHANGED <<view, poll, control>> /\ Server!Next
    BY DEF Elsewhere
  <1>2. /\ chatRevision' \in Nat /\ chatEvents' \in Nat /\ chatStatus' # "none"
        /\ chatRevision \in Nat /\ chatEvents \in Nat
        /\ Lives' => \/ chatStatus = "none"
                     \/ Lives /\ chatRevision <= chatRevision' /\ chatEvents <= chatEvents'
    BY <1>1, ServerGoes DEF PageInv
  <1>3. MovesOn
    BY <1>1, ViewStays DEF PageInv
  <1>4. CASE chatStatus = "none"
    <2>1. view = NoView /\ poll = Rest /\ control = Rest
      BY <1>4 DEF PageInv
    <2>2. PICK v : v = NoView /\ IsSession(v) /\ v.revision = 0 /\ Len(v.ids) = 0
      BY NoViewFits
    <2>3. IsSession(view)' /\ Reached(view)'
      BY <1>1, <1>2, <2>1, <2>2 DEF IsSession, IsRun, Reached, Upto
    <2>4. PollHolds' /\ ControlHolds'
      BY <1>1, <2>1 DEF PollHolds, ControlHolds, Rest
    <2> QED BY <1>2, <1>3, <2>3, <2>4 DEF Kept, PageInv
  <1>5. CASE chatStatus # "none"
    <2>1. ASSUME NEW s, IsSession(s), Reached(s) PROVE IsSession(s)' /\ Reached(s)'
      <3>1. s.revision \in Nat /\ Len(s.ids) \in Nat
        BY <2>1 DEF IsSession, IsRun
      <3> QED BY <1>2, <1>5, <2>1, <3>1 DEF IsSession, IsRun, Reached, Upto
    <2>2. IsSession(view)' /\ Reached(view)'
      <3>1. PICK v : v = view /\ IsSession(v)' /\ Reached(v)'
        BY <2>1 DEF PageInv
      <3> QED BY <1>1, <3>1 DEF IsSession, IsRun, Reached, Upto
    <2>3. ControlHolds'
      <3> SUFFICES ASSUME control'.at = "answer"
                   PROVE  IsSession(control.session)' /\ Reached(control.session)'
        BY DEF ControlHolds
      <3>1. PICK s : s = control.session /\ IsSession(s)' /\ Reached(s)'
        BY <1>1, <2>1 DEF PageInv, ControlHolds
      <3> QED BY <1>1, <3>1 DEF IsSession, IsRun, Reached, Upto
    <2>4. PollHolds'
      <3>1. CASE poll.at = "after"
        <4>1. poll.after \in Nat /\ poll.after <= Len(view.ids) /\ NotBefore(poll.after)
          BY <3>1 DEF PageInv, PollHolds
        <4> QED BY <1>1, <3>1, <4>1 DEF PollHolds, NotBefore, Older
      <3>2. CASE poll.at = "events"
        <4>1. PICK after, n \in Nat : /\ IsTail(poll.ids, after, n) /\ after <= Len(view.ids)
                                      /\ NotBefore(after)
                                      /\ Lives => after + n <= chatEvents
          BY <3>2 DEF PageInv, PollHolds
        <4>2. poll'.at = "events" /\ IsTail(poll.ids, after, n)' /\ after <= Len(view'.ids)
          BY <1>1, <3>2, <4>1 DEF IsTail
        <4>3. NotBefore(after)'
          BY <1>1, <4>1, NotBeforeStays
        <4>4. Lives' => after + n <= chatEvents'
          BY <1>2, <1>5, <4>1
        <4> QED BY <4>2, <4>3, <4>4, EventsHold
      <3>3. CASE poll.at = "tail"
        BY <1>1, <3>3 DEF PageInv, PollHolds
      <3>4. CASE poll.at = "row"
        BY <1>1, <1>2, <1>5, <3>4 DEF PageInv, PollHolds
      <3>5. CASE poll.at = "session"
        <4>1. PICK w : w = poll.session /\ IsSession(w)' /\ Reached(w)'
          BY <2>1, <3>5 DEF PageInv, PollHolds
        <4> QED BY <1>1, <3>5, <4>1 DEF PollHolds, IsSession, IsRun, Reached, Upto
      <3>6. CASE poll.at \in {"rest", "off", "whole"}
        BY <1>1, <3>6 DEF PollHolds
      <3> QED BY <3>1, <3>2, <3>3, <3>4, <3>5, <3>6 DEF PageInv, PollHolds
    <2> QED BY <1>2, <1>3, <2>2, <2>3, <2>4 DEF Kept, PageInv
  <1> QED BY <1>4, <1>5

LEMMA PageBegins == PageInit => PageInv
  <1> SUFFICES ASSUME PageInit PROVE PageInv
    OBVIOUS
  <1>1. chatRevision = 0 /\ chatEvents = 0 /\ view = NoView /\ poll = Rest /\ control = Rest
    BY DEF PageInit, Server!Init, Server!Nothing
  <1>2. IsSession(view) /\ Reached(view)
    <2>1. IsSession(NoView) /\ Reached(NoView)
      BY <1>1, NoViewFits DEF Reached
    <2> QED BY <1>1, <2>1
  <1>3. PollHolds /\ ControlHolds
    BY <1>1 DEF PollHolds, ControlHolds, Rest
  <1> QED BY <1>1, <1>2, <1>3 DEF PageInv

LEMMA PageKeeps == PageInv /\ [PageNext]_pageVars => PageInv' /\ [Kept]_view
  <1> SUFFICES ASSUME PageInv, [PageNext]_pageVars PROVE PageInv' /\ [Kept]_view
    OBVIOUS
  <1>1. CASE Elsewhere
    BY <1>1, ElsewhereKeeps DEF Kept
  <1>2. CASE chatStatus # "none" /\ (PollLoop \/ LosePoll)
    BY <1>2, SendPollKeeps, RestingPolls, ReadRowKeeps, ReadAfterKeeps, ReadWholeEventsKeeps, DeliverKeeps
    DEF PollLoop, Kept
  <1>3. CASE chatStatus # "none" /\ Controls
    BY <1>3, NoAnswerKeeps, AcceptKeeps, StopLateKeeps, AnswerKeeps DEF Controls, Kept
  <1>4. CASE UNCHANGED pageVars
    BY <1>4, Zenon DEF pageVars, chatVars, PageInv, IsSession, IsRun, Reached, Lives, PollHolds, ControlHolds,
                IsTail, NotBefore, Older, Upto, Rest, NoView
  <1> QED BY <1>1, <1>2, <1>3, <1>4 DEF PageNext

\* What the tab shows only moves on: its events are the first ones of the chat,
\* in order and each once, its revision never goes back, and within a revision
\* no event it showed goes away, whichever answer is late (merge,
\* useAgentSession.ts).
THEOREM ReadsOnAlways == PageSpec => ReadsOn
  <1> DEFINE Reads == /\ view'.ids = Upto(Len(view'.ids))
                      /\ view'.revision >= view.revision
                      /\ view'.revision = view.revision => Len(view'.ids) >= Len(view.ids)
  <1>1. PageInv /\ [PageNext]_pageVars => PageInv' /\ [Reads]_view
    <2> SUFFICES ASSUME PageInv, PageInv', Kept PROVE Reads
      BY PageKeeps
    <2>1. /\ view.revision \in Nat /\ Len(view.ids) \in Nat
          /\ view'.revision \in Nat /\ Len(view'.ids) \in Nat
          /\ view'.ids = Upto(Len(view'.ids))
      BY DEF PageInv, IsSession, IsRun, Upto
    <2> QED BY <2>1 DEF Kept, MovesOn
  <1> QED BY <1>1, PageBegins, PTL DEF PageSpec, ReadsOn

=============================================================================
