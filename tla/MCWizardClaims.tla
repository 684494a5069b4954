--------------------------- MODULE MCWizardClaims ---------------------------
(***************************************************************************)
(* What the repository's documentation and comments say of the wizard and  *)
(* its code does not keep.  Each run of this module checks one of them and *)
(* ends with the steps that break it.                                      *)
(***************************************************************************)
EXTENDS MCAgentWizard

\* "A turn this process is still unwinding is not taken again: its late tool
\* call must not run beside the next turn's." (the comment in Agent.worker)
\* The busy chats a claim leaves out were read before the claim, and a turn is
\* registered after it.
OneTurnPerProcess ==
    \A v, w \in Workers :
        /\ {worker[v].pc, worker[w].pc} \subseteq InTurn \ {"claimed"}
        /\ v[1] = w[1]
        /\ worker[v].chat = worker[w].chat
        => v = w

\* "A process that stops puts its turns back to `queued`" (docs/agent.md): one
\* that is stopping and has no turn left holds no chat.
StoppedHoldsNothing ==
    \A p \in Instances :
        proc[p] = "draining" /\ (\A n \in Slots : worker[<<p, n>>].pc = "idle")
        => \A s \in Sessions : lease[s].holder # p

\* "A revision that moved in between means the owner edited in the builder.
\* The edit wins: [...] the model re-reads the build context before going on"
\* (docs/agent.md): whatever the turn commits, the assistant had been told of
\* every edit by then.
ToldBeforeWriting ==
    [][\A w \in Workers :
          worker[w].pc = "pushing" /\ worker'[w].pc = "pushed" =>
              worker[w].copy.told = char[worker[w].chat].edits]_vars

\* "Discard deletes the character with the chat" (docs/agent.md).
DiscardTakesCharacter ==
    [][\A q \in Requests :
          request[q].pc = "discarded" /\ request'[q].pc = "stopping" =>
              ~char[request[q].chat].stored]_vars

=============================================================================
