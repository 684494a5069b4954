----------------------------- MODULE Membership -----------------------------
(***************************************************************************)
(* The tables users, groups and group_members, and the statements the      *)
(* PostgreSQL adapter runs on them.  Each is one statement or one          *)
(* transaction, with the keys and indexes of the migrations, so each is    *)
(* one step.  A statement that would touch no row, or break a key, changes *)
(* nothing and is answered with a refusal: it is not a step.               *)
(***************************************************************************)
EXTENDS Naturals, FiniteSets

\* An operator named Mutant... is the one below it as a plausible mistake would
\* have it.  Nothing uses it but the runs that show a property notices.

CONSTANTS People,      \* account ids
          Groups       \* group ids; an id is drawn at random and never reused

VARIABLES account,     \* whether a person has a row in users
          opened,      \* whether a group has a row in groups
          rank         \* group_members: a person's role in a group

memberVars == <<account, opened, rank>>

\* "none": no row in group_members.
Roles == {"none", "player", "dm", "owner"}

\* With the foreign keys of group_members.
MembershipTypeOK ==
    /\ account \in [People -> BOOLEAN]
    /\ opened \in [Groups -> {"never", "open", "gone"}]
    /\ rank \in [Groups -> [People -> Roles]]
    /\ \A g \in Groups : \A u \in People :
          rank[g][u] # "none" => account[u] /\ opened[g] = "open"

MembershipInit ==
    /\ account = [u \in People |-> TRUE]
    /\ opened = [g \in Groups |-> "never"]
    /\ rank = [g \in Groups |-> [u \in People |-> "none"]]

\* Role.AtLeast(RoleDM).
RunsTable(role) == role \in {"dm", "owner"}

Members(g) == {u \in People : rank[g][u] # "none"}

\* GroupRepository.Create: the group and its owner's seat, or neither.
OpenGroup(g, u) ==
    /\ opened[g] = "never" /\ account[u]
    /\ opened' = [opened EXCEPT ![g] = "open"]
    /\ rank' = [rank EXCEPT ![g][u] = "owner"]
    /\ UNCHANGED account

MutantAddMember(g, u, role) ==
    /\ opened[g] = "open" /\ account[u]
    /\ rank' = [rank EXCEPT ![g][u] = role]
    /\ UNCHANGED <<account, opened>>

\* The primary key seats a person once, and the foreign keys ask for both rows.
AddMember(g, u, role) ==
    /\ opened[g] = "open" /\ account[u]
    /\ rank[g][u] = "none"
    /\ rank' = [rank EXCEPT ![g][u] = role]
    /\ UNCHANGED <<account, opened>>

MutantSetRole(g, u, role) ==
    /\ rank[g][u] # "none"
    /\ rank' = [rank EXCEPT ![g][u] = role]
    /\ UNCHANGED <<account, opened>>

\* WHERE role <> 'owner': a transfer cannot slip in between read and write.
SetRole(g, u, role) ==
    /\ rank[g][u] \notin {"none", "owner"}
    /\ rank' = [rank EXCEPT ![g][u] = role]
    /\ UNCHANGED <<account, opened>>

RemoveMember(g, u) ==
    /\ rank[g][u] \notin {"none", "owner"}
    /\ rank' = [rank EXCEPT ![g][u] = "none"]
    /\ UNCHANGED <<account, opened>>

MutantTransferOwnership(g, from, to) ==
    /\ rank[g][from] # "none"
    /\ rank[g][to] # "none"
    /\ rank' = [rank EXCEPT ![g][from] = "dm", ![g][to] = "owner"]
    /\ UNCHANGED <<account, opened>>

\* Demoted first, promoted second, and rolled back when the promotion finds
\* nobody to promote.
TransferOwnership(g, from, to) ==
    /\ rank[g][from] = "owner"
    /\ rank[g][to] # "none"
    /\ rank' = [rank EXCEPT ![g][from] = "dm", ![g][to] = "owner"]
    /\ UNCHANGED <<account, opened>>

\* DELETE FROM groups: its seats follow by cascade.
CloseGroup(g) ==
    /\ opened[g] = "open"
    /\ opened' = [opened EXCEPT ![g] = "gone"]
    /\ rank' = [rank EXCEPT ![g] = [u \in People |-> "none"]]
    /\ UNCHANGED account

\* DELETE FROM users: the account's seats follow by cascade, whatever they are.
DropAccount(u) ==
    /\ account[u]
    /\ account' = [account EXCEPT ![u] = FALSE]
    /\ rank' = [g \in Groups |-> [rank[g] EXCEPT ![u] = "none"]]
    /\ UNCHANGED opened

=============================================================================
