---------------------------- MODULE CharacterLog ----------------------------
(***************************************************************************)
(* The log a character is derived from, and the two ways it changes: an    *)
(* append, or an entry replaced or removed with everything after it        *)
(* replayed.  Prompts, answers and what is held are functions of the log   *)
(* and the catalogue; a write is guarded by the revision its client was    *)
(* shown.                                                                  *)
(***************************************************************************)
EXTENDS Naturals, SequencesExt

\* Mutant...: see Membership.

CONSTANTS
    Entries,     \* races, subraces, classes
    Questions,   \* the choices entries pose
    KindOf,      \* the type of the event that selects an entry
    UnderOf,     \* the entry an entry is offered by; itself where anyone is
    GrantsOf,    \* the proficiencies an entry gives outright
    AskedBy,     \* the entry, or the branch of another question, that poses one
    LevelOf,     \* the class level a question comes at; 0 with the entry itself
    FromOf,      \* a question's options, branches among them
    Expertise,   \* questions that double what is held
    Spells,      \* questions of spells
    Loose,       \* questions a client answers by an event naming no entry
    NeedsOf,     \* the class level a spell can be learned at
    TabEvents,   \* the entries a slow tab may put in the log
    MaxLength, MaxRevision  \* bounds on the log and on its commits

VARIABLES
    log,         \* Character.Log
    edition,     \* Character.Revision
    saw,         \* what a tab was last sent: where the log ends, its revision
    write        \* a write of that tab's between its load and its commit

logVars == <<log, edition, saw, write>>

-----------------------------------------------------------------------------
\* Events.  One answer is one pick here, and one question asks for one.

\* An entry taken, or the event a question of an entry's is answered with.
Event(kind, e, n, answers) == [kind |-> kind, ref |-> {e}, level |-> n, answers |-> answers]

Select(e) == Event(KindOf[e], e, 0, <<>>)

\* The change that declares a level, the opening entry, and a bare answer.
Declare(n) == [kind |-> "change", ref |-> {}, level |-> n, answers |-> <<>>]
Named == [kind |-> "init", ref |-> {}, level |-> 0, answers |-> <<>>]
Bare(a) == [Declare(0) EXCEPT !.answers = <<a>>]

RequiresRef(event) == event.ref # {}

-----------------------------------------------------------------------------
\* Project, foldAnswers and Prompts: what a log says, and what it leaves open.

\* The last word among the events at some places of a log, if there is one.
LastOf(l, places) == {l[i] : i \in {j \in places : \A k \in places : k <= j}}

\* A level event takes its class as well.
Takes(event, kind) ==
    RequiresRef(event) /\ (event.kind = kind \/ <<event.kind, kind>> = <<"level", "class">>)

PlacesTaking(l, kind) == {i \in DOMAIN l : Takes(l[i], kind)}

Taken(l, kind) == UNION {v.ref : v \in LastOf(l, PlacesTaking(l, kind))}

\* A level event takes its class as far as it says; so does what was declared.
ReachedLevel(l) ==
    Max({1} \cup {l[i].level : i \in {j \in DOMAIN l : l[j].kind = "level"}}
            \cup {v.level : v \in LastOf(l, {i \in DOMAIN l : l[i].kind = "change" /\ l[i].level > 0})})

PicksOf(event, q) ==
    {event.answers[i].pick : i \in {j \in DOMAIN event.answers : event.answers[j].question = q}}

\* The last word on a question.
Picked(l, q) ==
    UNION {PicksOf(v, q) : v \in LastOf(l, {i \in DOMAIN l : PicksOf(l[i], q) # {}})}

Prompts(l) ==
    LET chosen == UNION {Taken(l, kind) : kind \in {KindOf[e] : e \in Entries}}
        level  == ReachedLevel(l)
        picked == [q \in Questions |-> Picked(l, q)]
        outer  == {q \in Questions : AskedBy[q] \in chosen /\ LevelOf[q] <= level}
        \* a branch, once picked, brings its own question into existence
        posed  == outer \cup {q \in Questions : \E p \in outer : AskedBy[q] \in picked[p]}
    IN [chosen  |-> chosen,
        level   |-> level,
        open    |-> {q \in posed : picked[q] = {}},
        held    |-> (UNION {GrantsOf[e] : e \in chosen})
                        \cup (UNION {picked[q] : q \in posed \ (Expertise \cup Spells)}),
        doubled |-> UNION {picked[q] : q \in posed \cap Expertise}]

-----------------------------------------------------------------------------
\* The predicate an append and a replay share: validate.go.

\* The event a question is answered as names the entry at its root.
AskedAs ==
    [q \in Questions |->
        LET root == CHOOSE p \in Questions :
                        /\ AskedBy[p] \in Entries
                        /\ p = q \/ AskedBy[q] \in FromOf[p]
            kind == IF LevelOf[root] = 0 THEN KindOf[AskedBy[root]] ELSE "level"
        IN IF q \in Loose THEN Declare(0)
           ELSE Event(kind, AskedBy[root], LevelOf[root], <<>>)]

\* The event answers "which one?".
Selects(prompts, event) ==
    \E e \in Entries :
        /\ event = [Select(e) EXCEPT !.answers = event.answers]
        /\ \A f \in prompts.chosen : KindOf[f] # KindOf[e]
        /\ UnderOf[e] = e \/ UnderOf[e] \in prompts.chosen

\* answersAnOpenPrompt
Offered(prompts, event) ==
    \/ Selects(prompts, event)
    \/ \E q \in prompts.open : event = [AskedAs[q] EXCEPT !.answers = event.answers]

\* validateAnswer
Legal(prompts, a) ==
    /\ a.question \in prompts.open
    /\ a.pick \in FromOf[a.question]
    /\ IF a.question \in Expertise THEN a.pick \in prompts.held \ prompts.doubled
       ELSE a.pick \notin prompts.held
    /\ a.question \in Spells => NeedsOf[a.pick] <= prompts.level

\* Answers are checked one at a time, against a log that grows as each is
\* accepted: one can open the question the next one answers.
Surviving(l, event) ==
    LET Check(so, a) ==
            IF Legal(Prompts(so.opened), a)
            THEN [opened |-> Append(so.opened, Bare(a)), kept |-> Append(so.kept, a)]
            ELSE so
        start == [opened |-> Append(l, [event EXCEPT !.answers = <<>>]), kept |-> <<>>]
    IN FoldLeft(Check, start, event.answers).kept

\* An entry is one selection: it selects, or it answers one question and what
\* that question's answer opens.
OneSelection(prompts, event) ==
    event.answers # <<>> =>
        /\ ~Selects(prompts, event)
        /\ \A i \in 2..Len(event.answers) :
               AskedBy[event.answers[i].question] \in FromOf[event.answers[1].question]

\* validateEvent, for every event that might come next: any loss is a refusal.
Accepted(l, events) ==
    LET prompts == Prompts(l)
    IN {v \in events : /\ RequiresRef(v) => Offered(prompts, v)
                       /\ OneSelection(prompts, v)
                       /\ Surviving(l, v) = v.answers}

-----------------------------------------------------------------------------
\* Append, and reviseMany.

\* ValidateAndAttribute.  A batch is judged event by event as the log grows,
\* and moves the revision by its length: appends with nobody in between.
Appends(events) == {Append(log, v) : v \in Accepted(log, events)}

SpellEvent(event) ==
    event.answers # <<>> /\ \A i \in DOMAIN event.answers : event.answers[i].question \in Spells

\* A spell is edited at the level the character has today.
SpellEditContext(prefix) ==
    LET today == {[v EXCEPT !.kind = "level", !.level = ReachedLevel(log), !.answers = <<>>] :
                  v \in LastOf(prefix, PlacesTaking(prefix, "class"))}
    IN IF today = {} THEN prefix ELSE Append(prefix, CHOOSE v \in today : TRUE)

SaysNothing(event) == event = Declare(0)

\* An entry of the suffix is judged by the log rebuilt so far; it loses what
\* is not legal any more, and goes when it is not offered or says nothing.
MutantReplayed(so, event) == Append(so, event)

Replayed(so, event) ==
    LET left == [event EXCEPT !.answers = Surviving(so, event)]
    IN IF \/ RequiresRef(event) /\ ~Offered(Prompts(so), event)
          \/ SaysNothing(left)
       THEN so
       ELSE Append(so, left)

\* The replacement is validated as strictly as an append; none is a removal.
\* The opening entry is replaced by another such, and never removed.
Revisions(at, events) ==
    LET prefix == SubSeq(log, 1, at - 1)
        suffix == SubSeq(log, at + 1, Len(log))
        spells == {v \in events : SpellEvent(v)}
        put    == Accepted(prefix, events \ spells)
                    \cup Accepted(SpellEditContext(prefix), spells)
        heads  == IF at = 1 THEN {<<Named>>}
                  ELSE {prefix} \cup {Append(prefix, v) : v \in put}
    IN {FoldLeft(Replayed, head, suffix) : head \in heads}

-----------------------------------------------------------------------------
\* What a client may send.

AnswersOf(q) == {[question |-> q, pick |-> pick] : pick \in FromOf[q]}

\* A question is answered alone, or with the one its branch opens.
AnswerEvents ==
    (UNION {{[AskedAs[q] EXCEPT !.answers = <<a>>] : a \in AnswersOf(q)} : q \in Questions})
    \cup (UNION {{[AskedAs[q[1]] EXCEPT !.answers = <<a, b>>] :
                     a \in AnswersOf(q[1]), b \in AnswersOf(q[2])} :
                q \in {r \in Questions \X Questions : AskedBy[r[2]] \in FromOf[r[1]]}})

NewEvents == {Select(e) : e \in Entries} \cup {Declare(n) : n \in 1..2} \cup AnswerEvents

\* A tab sends what a client may.
ASSUME LogAssumption == TabEvents \subseteq NewEvents

\* The logs a write of these may leave.
Outcomes(events) ==
    Appends(events) \cup UNION {Revisions(at, events) : at \in DOMAIN log}

-----------------------------------------------------------------------------
\* Commit: the whole log, under the revision it was read at.

MutantGrowth(new) == IF Len(new) > Len(log) THEN Len(new) - Len(log) ELSE 0

Growth(new) == IF Len(new) > Len(log) THEN Len(new) - Len(log) ELSE 1

Store(new) ==
    /\ edition + Growth(new) <= MaxRevision
    /\ Len(new) <= MaxLength
    /\ log' = new
    /\ edition' = edition + Growth(new)
    \* what a tab was sent is stale from here on
    /\ saw' = [saw EXCEPT !.fresh = FALSE]

NoWrite == [at |-> "idle"]

LogInit ==
    /\ log = <<Named>>
    /\ edition = 1
    /\ saw = [seq |-> 1, revision |-> 1, fresh |-> TRUE]
    /\ write = NoWrite

\* Somebody else's write, another tab's or the wizard's, there and back.
WriteElsewhere ==
    /\ \E new \in Outcomes(NewEvents) : Store(new)
    /\ UNCHANGED write

\* The tab is sent the sheet.
View ==
    /\ write = NoWrite
    /\ ~saw.fresh
    /\ saw' = [seq |-> Len(log), revision |-> edition, fresh |-> TRUE]
    /\ UNCHANGED <<log, edition, write>>

\* The tab's write is loaded, guarded and judged.  A client that names no
\* revision is guarded by where it thinks the log ends, taken for one.
Load ==
    /\ write = NoWrite
    /\ edition \in {saw.revision, saw.seq}
    /\ saw.seq = Len(log)
    /\ \E new \in Outcomes(TabEvents) :
           write' = [at |-> "loaded", revision |-> edition, new |-> new]
    /\ UNCHANGED <<log, edition, saw>>

CommitLog ==
    /\ write.at = "loaded"
    /\ write.revision = edition
    /\ Store(write.new)
    /\ write' = NoWrite

\* The character moved on between the load and the commit.
CommitStale ==
    /\ write.at = "loaded"
    /\ write.revision # edition
    /\ write' = NoWrite
    /\ UNCHANGED <<log, edition, saw>>

LogNext == WriteElsewhere \/ View \/ Load \/ CommitLog \/ CommitStale

LogSpec == LogInit /\ [][LogNext]_logVars

-----------------------------------------------------------------------------

\* A tab's write replaces the very log the tab was shown, whatever was
\* committed meanwhile and whether or not it names a revision: a log that grew,
\* shrank or was rewritten at the same length is never mistaken for another
\* (Character.Commit, checkRevision, the handlers' expectedRevision).
CommitsOnWhatItSaw == [][write.at = "loaded" /\ log' # log /\ write' = NoWrite => saw.fresh]_logVars

\* Every entry stands where it is: it is offered by the log before it and none
\* of its answers is illegal there, so a later edit, which replays what comes
\* after it, takes nothing the new log still offers, and a renaming, which
\* replays everything, takes nothing at all.  A spell's answer is excepted: it
\* is edited at today's level and replayed at the level of its place
\* (reviseMany, surviving and answersAnOpenPrompt).
Settled ==
    \A i \in DOMAIN log :
        LET prefix == SubSeq(log, 1, i - 1)
            entry  == log[i]
        IN \/ SpellEvent(entry)
           \/ /\ RequiresRef(entry) => Offered(Prompts(prefix), entry)
              /\ Surviving(prefix, entry) = entry.answers
              /\ ~SaysNothing(entry)

=============================================================================
