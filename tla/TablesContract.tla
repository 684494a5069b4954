--------------------------- MODULE TablesContract ---------------------------
(***************************************************************************)
(* What any store of groups, of the characters they share and of their     *)
(* games promises (domain/group, domain/game, as the conformance suites    *)
(* repotest/group.go and repotest/game.go have it).  Each of the three is  *)
(* a store of its own: a step of one is a call of one method, with the     *)
(* answer it gives.  Names, dates and what an entry of a roster says of    *)
(* its participant are left out.                                           *)
(***************************************************************************)
EXTENDS FiniteSets, Filter

CONSTANTS Groups, People, Characters, Games, Monsters,
          Nameless,       \* a character nobody named
          Absent          \* nothing is stored under the id

Others == {"none", "player", "dm"}
Entries == Characters \cup Monsters
Rosters == {r \in SeqOf(Entries, Cardinality(Entries)) : IsInjective(r)}

VARIABLES group, groupSaid,   \* an owner, and the ranks of the others
          pool, poolSaid,     \* what is on each table, in the order it came
          game, gameSaid      \* a game's group and its roster

groupVars == <<group, groupSaid>>
poolVars == <<pool, poolSaid>>
gameVars == <<game, gameSaid>>

\* A call, what it was about, what it was told and what it was given.
Answer(call, on, says, got) == [call |-> call, on |-> on, says |-> says, got |-> got]

GroupsInit ==
    /\ group = [g \in Groups |-> Absent]
    /\ groupSaid = Answer("none", <<Absent>>, "done", {})

PoolsInit ==
    /\ pool = [g \in Groups |-> <<>>]
    /\ poolSaid = Answer("none", <<Absent>>, "done", {})

GamesInit ==
    /\ game = [x \in Games |-> Absent]
    /\ gameSaid = Answer("none", <<Absent>>, "done", {})

-----------------------------------------------------------------------------
(* Groups.                                                                 *)

Open(g) == group[g] # Absent
Owner(g, u) == Open(g) /\ group[g].owner = u
Other(g, u) == Open(g) /\ group[g].rank[u] # "none"
RankOf(g, u) == IF Owner(g, u) THEN "owner"
                ELSE IF Other(g, u) THEN group[g].rank[u] ELSE "none"

Seats(call, g, u, r) ==
    /\ group' = [group EXCEPT ![g].rank[u] = r]
    /\ groupSaid' = Answer(call, <<g, u>>, "done", {})
GroupSays(call, on, says, got) == groupSaid' = Answer(call, on, says, got) /\ UNCHANGED group

\* A group begins with its owner and nobody else.
Create(g, u) ==
    \/ /\ ~Open(g)
       /\ group' = [group EXCEPT ![g] = [owner |-> u, rank |-> [v \in People |-> "none"]]]
       /\ groupSaid' = Answer("Create", <<g, u>>, "done", {})
    \/ Open(g) /\ GroupSays("Create", <<g, u>>, "refused", {})

\* ByID and Rename: a name is all that changes.
ByID(g) == GroupSays("ByID", <<g>>, IF Open(g) THEN "done" ELSE "missing", {})

ListFor(u) ==
    GroupSays("ListFor", <<u>>, "done",
              {<<g, RankOf(g, u)>> : g \in {h \in Groups : RankOf(h, u) # "none"}})

Members(g) ==
    \/ ~Open(g) /\ GroupSays("Members", <<g>>, "missing", {})
    \/ /\ Open(g)
       /\ GroupSays("Members", <<g>>, "done",
                    {<<u, RankOf(g, u)>> : u \in {v \in People : RankOf(g, v) # "none"}})

MemberRole(g, u) ==
    \/ RankOf(g, u) = "none" /\ GroupSays("MemberRole", <<g, u>>, "missing", {})
    \/ RankOf(g, u) # "none" /\ GroupSays("MemberRole", <<g, u>>, "done", {<<u, RankOf(g, u)>>})

\* Nobody is added, or made by a change of rank, an owner.
AddMember(g, u, r) ==
    \/ /\ Open(g) /\ RankOf(g, u) = "none" /\ r # "owner"
       /\ Seats("AddMember", g, u, r)
    \/ ~Open(g) /\ GroupSays("AddMember", <<g, u>>, "missing", {})
    \/ /\ Open(g) /\ (RankOf(g, u) # "none" \/ r = "owner")
       /\ GroupSays("AddMember", <<g, u>>, "refused", {})

SetRole(g, u, r) ==
    \/ Other(g, u) /\ r # "owner" /\ Seats("SetRole", g, u, r)
    \/ (Owner(g, u) \/ r = "owner") /\ GroupSays("SetRole", <<g, u>>, "refused", {})
    \/ RankOf(g, u) = "none" /\ GroupSays("SetRole", <<g, u>>, "missing", {})

RemoveMember(g, u) ==
    \/ Other(g, u) /\ Seats("RemoveMember", g, u, "none")
    \/ Owner(g, u) /\ GroupSays("RemoveMember", <<g, u>>, "refused", {})
    \/ RankOf(g, u) = "none" /\ GroupSays("RemoveMember", <<g, u>>, "missing", {})

\* The owner before stays, as a DM: at no moment are there two, or none.
TransferOwnership(g, u, v) ==
    \/ /\ Owner(g, u) /\ RankOf(g, v) # "none"
       /\ group' = [group EXCEPT ![g] = [owner |-> v,
                       rank |-> [group[g].rank EXCEPT ![u] = "dm", ![v] = "none"]]]
       /\ groupSaid' = Answer("TransferOwnership", <<g, u, v>>, "done", {})
    \/ /\ Other(g, u)
       /\ GroupSays("TransferOwnership", <<g, u, v>>, "refused", {})
    \/ /\ RankOf(g, u) = "none" \/ (Owner(g, u) /\ RankOf(g, v) = "none")
       /\ GroupSays("TransferOwnership", <<g, u, v>>, "missing", {})

\* The members go with their group.
Delete(g) ==
    \/ /\ Open(g)
       /\ group' = [group EXCEPT ![g] = Absent]
       /\ groupSaid' = Answer("Delete", <<g>>, "done", {})
    \/ ~Open(g) /\ GroupSays("Delete", <<g>>, "missing", {})

\* The answer tells what the step was about.
GroupsNext ==
    /\ groupSaid'.call # "none"
    /\ \/ \E u \in People : ListFor(u)
       \/ \E g \in Groups :
           /\ groupSaid'.on[1] = g
           /\ \/ ByID(g) \/ Members(g) \/ Delete(g)
              \/ \E u \in People :
                  \/ Create(g, u) \/ MemberRole(g, u) \/ RemoveMember(g, u)
                  \/ \E r \in {"player", "dm", "owner"} : AddMember(g, u, r) \/ SetRole(g, u, r)
                  \/ \E v \in People : TransferOwnership(g, u, v)

-----------------------------------------------------------------------------
(* The characters on a table.                                              *)

IsOn(g, c) == c \in ToSet(pool[g])
Without(s, c) == Only(s, ToSet(s) \ {c})

PoolSays(call, on, says, got) == poolSaid' = Answer(call, on, says, got) /\ UNCHANGED pool
PoolIs(call, on, p) == poolSaid' = Answer(call, on, "done", {}) /\ pool' = p

Share(g, c) ==
    \/ ~IsOn(g, c) /\ PoolIs("Share", <<g, c>>, [pool EXCEPT ![g] = Append(@, c)])
    \/ IsOn(g, c) /\ PoolSays("Share", <<g, c>>, "refused", {})

Unshare(g, c) ==
    \/ IsOn(g, c) /\ PoolIs("Unshare", <<g, c>>, [pool EXCEPT ![g] = Without(@, c)])
    \/ ~IsOn(g, c) /\ PoolSays("Unshare", <<g, c>>, "missing", {})

List(g) == PoolSays("List", <<g>>, "done", {pool[g]})

IsShared(g, c) == PoolSays("IsShared", <<g, c>>, "done", {d \in {c} : IsOn(g, d)})

GroupsSharing(c) == PoolSays("GroupsSharing", <<c>>, "done", {g \in Groups : IsOn(g, c)})

\* The others on those tables stay where they are.
UnshareEverywhere(c) ==
    PoolIs("UnshareEverywhere", <<c>>, [g \in Groups |-> Without(pool[g], c)])

ClearGroup(g) == PoolIs("ClearGroup", <<g>>, [pool EXCEPT ![g] = <<>>])

PoolsNext ==
    /\ poolSaid'.call # "none"
    /\ \/ \E c \in Characters : GroupsSharing(c) \/ UnshareEverywhere(c)
       \/ \E g \in Groups :
           \/ List(g) \/ ClearGroup(g)
           \/ \E c \in Characters : Share(g, c) \/ Unshare(g, c) \/ IsShared(g, c)

-----------------------------------------------------------------------------
(* Games and their rosters.                                                *)

On(x) == game[x] # Absent
At(g) == {x \in Games : On(x) /\ game[x].group = g}

GameSays(call, on, says, got) == gameSaid' = Answer(call, on, says, got) /\ UNCHANGED game
GameIs(call, on, new) == gameSaid' = Answer(call, on, "done", {}) /\ game' = new

\* A game that is opened again under the id of one deleted has none of its seats.
CreateGame(x, g) ==
    \/ /\ ~On(x)
       /\ GameIs("CreateGame", <<x, g>>, [game EXCEPT ![x] = [group |-> g, roster |-> <<>>]])
    \/ On(x) /\ GameSays("CreateGame", <<x, g>>, "refused", {})

GameByID(x) ==
    \/ On(x) /\ GameSays("GameByID", <<x>>, "done", {game[x].group})
    \/ ~On(x) /\ GameSays("GameByID", <<x>>, "missing", {})

GamesFor(g) == GameSays("GamesFor", <<g>>, "done", At(g))

DeleteGame(x) ==
    \/ On(x) /\ GameIs("DeleteGame", <<x>>, [game EXCEPT ![x] = Absent])
    \/ ~On(x) /\ GameSays("DeleteGame", <<x>>, "missing", {})

DeleteForGroup(g) ==
    GameIs("DeleteForGroup", <<g>>, [x \in Games |-> IF x \in At(g) THEN Absent ELSE game[x]])

First(s, c) == CHOOSE i \in DOMAIN s : s[i] = c /\ \A k \in 1..(i - 1) : s[k] # c

\* All of them or none; nobody seated is moved or seated again.
AddCharacters(x, cs) ==
    \/ /\ On(x) /\ Nameless \notin ToSet(cs)
       /\ \E new \in Rosters :
            /\ GameIs("AddCharacters", <<x, cs>>, [game EXCEPT ![x].roster = new])
            /\ IsPrefix(game[x].roster, new)
            /\ ToSet(new) = ToSet(game[x].roster) \cup ToSet(cs)
            /\ \A i, j \in Len(game[x].roster) + 1 .. Len(new) :
                 i < j => First(cs, new[i]) < First(cs, new[j])
    \/ ~On(x) /\ GameSays("AddCharacters", <<x, cs>>, "missing", {})
    \/ /\ On(x) /\ Nameless \in ToSet(cs)
       /\ GameSays("AddCharacters", <<x, cs>>, "refused", {})

RemoveCharacter(x, c) ==
    \/ /\ On(x) /\ c \in ToSet(game[x].roster)
       /\ GameIs("RemoveCharacter", <<x, c>>, [game EXCEPT ![x].roster = Without(@, c)])
    \/ /\ On(x) => c \notin ToSet(game[x].roster)
       /\ GameSays("RemoveCharacter", <<x, c>>, "missing", {})

Roster(x) ==
    \/ On(x) /\ GameSays("Roster", <<x>>, "done", {game[x].roster})
    \/ ~On(x) /\ GameSays("Roster", <<x>>, "missing", {})

RemoveFromGroupGames(g, c) ==
    GameIs("RemoveFromGroupGames", <<g, c>>,
           [x \in Games |-> IF x \in At(g) THEN [game[x] EXCEPT !.roster = Without(@, c)]
                            ELSE game[x]])

\* What the caller makes of the roster replaces it, and nothing else does.
MutateEntries(x) ==
    \/ /\ On(x)
       /\ \E new \in Rosters :
            GameIs("MutateEntries", <<x>>, [game EXCEPT ![x].roster = new])
    \/ On(x) /\ GameSays("MutateEntries", <<x>>, "refused", {})
    \/ ~On(x) /\ GameSays("MutateEntries", <<x>>, "missing", {})

GamesNext ==
    /\ gameSaid'.call # "none"
    /\ \/ \E g \in Groups :
           \/ GamesFor(g) \/ DeleteForGroup(g)
           \/ \E c \in Characters : RemoveFromGroupGames(g, c)
       \/ \E x \in Games :
           /\ gameSaid'.on[1] = x
           /\ \/ GameByID(x) \/ DeleteGame(x) \/ Roster(x) \/ MutateEntries(x)
              \/ \E g \in Groups : CreateGame(x, g)
              \/ \E c \in Characters : RemoveCharacter(x, c)
              \/ \E cs \in SeqOf(Characters \cup {Nameless}, 2) : AddCharacters(x, cs)

-----------------------------------------------------------------------------
GroupsSpec == GroupsInit /\ [][GroupsNext]_groupVars
PoolsSpec == PoolsInit /\ [][PoolsNext]_poolVars
GamesSpec == GamesInit /\ [][GamesNext]_gameVars

Spec == GroupsSpec /\ PoolsSpec /\ GamesSpec
=============================================================================
