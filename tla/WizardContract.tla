--------------------------- MODULE WizardContract ---------------------------
(***************************************************************************)
(* What the AI Wizard promises of a chat, whoever works on it: the columns *)
(* a reader of agent_sessions sees, and the moves they make.  There are no *)
(* workers here, no leases and no copies.  AgentWizard implements this for *)
(* each of its chats.                                                      *)
(***************************************************************************)
EXTENDS Naturals

VARIABLES status, revision, generation, finished, events

chat == <<status, revision, generation, finished, events>>

\* A turn leaves a chat in one of these; the owner in the first or the fourth.
Outcomes == {"queued", "waiting", "review", "paused", "failed"}

InFlight == {"queued", "running"}

Existing == {"opening", "running"} \cup Outcomes

TypeOK ==
    /\ status \in Existing \cup {"none", "gone"}
    /\ {revision, generation, events} \subseteq Nat
    /\ finished \in BOOLEAN

Nothing == revision = 0 /\ generation = 0 /\ events = 0 /\ finished = FALSE

Init == status = "none" /\ Nothing

-----------------------------------------------------------------------------

\* A chat is opened, or arrives opened, given its rules and begun at once.
Arrive ==
    /\ status = "none"
    /\ status' \in {"opening", "queued"}
    /\ revision' \in 1..3
    /\ events' \in 1..3
    /\ UNCHANGED <<generation, finished>>

\* Before it is begun a chat is only added to: its rules, its first message.
Prepare ==
    /\ status = "opening"
    /\ status' \in {"opening", "queued"}
    /\ revision' = revision + 1
    /\ events' = events + 1
    /\ UNCHANGED <<generation, finished>>

\* A control of the owner's takes effect at once, whatever is running.
Decide ==
    /\ status \in Existing \ {"opening"}
    /\ status' \in {"queued", "paused"} \cup ({status} \ InFlight)
    /\ revision' = revision + 1
    /\ generation' = generation + 1
    /\ finished' \in {finished, TRUE}
    /\ events' \in events..(events + 1)

\* A turn is taken, or taken over.
Take ==
    /\ status \in InFlight
    /\ status' = "running"
    /\ revision' = revision + 1
    /\ UNCHANGED <<generation, finished, events>>

Progress ==
    /\ status = "running"
    /\ events' = events + 1
    /\ UNCHANGED <<status, revision, generation, finished>>

End ==
    /\ status = "running"
    /\ status' \in Outcomes
    /\ revision' = revision + 1
    /\ events' \in events..(events + 1)
    /\ UNCHANGED <<generation, finished>>

\* A process that stops gives its turn back; no reader is told.
Release ==
    /\ status = "running"
    /\ status' = "queued"
    /\ UNCHANGED <<revision, generation, finished, events>>

Vanish ==
    /\ status \in Existing
    /\ status' = "gone"
    /\ revision' = 0 /\ generation' = 0 /\ events' = 0 /\ finished' = FALSE

Next == Arrive \/ Prepare \/ Decide \/ Take \/ Progress \/ End \/ Release \/ Vanish

Spec == Init /\ [][Next]_chat

=============================================================================
