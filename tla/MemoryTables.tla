---------------------------- MODULE MemoryTables ----------------------------
(***************************************************************************)
(* The stores of groups, pools and games in memory                         *)
(* (adapter/repository/memory/group.go, game.go).  Each keeps two maps     *)
(* that have to move together: the groups and their seats, what is in a    *)
(* pool and the order it came in, the games and their rosters.  A mutex    *)
(* makes every method of a store one step.                                 *)
(***************************************************************************)
EXTENDS FiniteSets, Filter

CONSTANTS Groups, People, Characters, Games, Monsters,
          Nameless,       \* a character without an id
          Absent          \* a key the map does not have

Ranks == {"owner", "dm", "player"}
Entries == Characters \cup Monsters
Rosters == {r \in SeqOf(Entries, Cardinality(Entries)) : IsInjective(r)}

VARIABLES groups, members, groupTold,    \* GroupRepository
          items, order, poolTold,        \* SharedRepository
          games, rosters, gameTold       \* GameRepository

Answer(call, on, says, got) == [call |-> call, on |-> on, says |-> says, got |-> got]

TablesTypeOK ==
    /\ groups \subseteq Groups
    /\ members \in [Groups -> [People -> Ranks \cup {Absent}] \cup {Absent}]
    /\ items \in [Groups -> SUBSET Characters]
    /\ order \in [Groups -> Seq(Characters)]
    /\ games \in [Games -> Groups \cup {Absent}]
    /\ rosters \in [Games -> Seq(Entries)]

GroupsBegin ==
    /\ groups = {}
    /\ members = [g \in Groups |-> Absent]
    /\ groupTold = Answer("none", <<Absent>>, "done", {})

PoolsBegin ==
    /\ items = [g \in Groups |-> {}]
    /\ order = [g \in Groups |-> <<>>]
    /\ poolTold = Answer("none", <<Absent>>, "done", {})

GamesBegin ==
    /\ games = [x \in Games |-> Absent]
    /\ rosters = [x \in Games |-> <<>>]
    /\ gameTold = Answer("none", <<Absent>>, "done", {})

TablesInit == GroupsBegin /\ PoolsBegin /\ GamesBegin

-----------------------------------------------------------------------------
(* GroupRepository.                                                        *)

\* r.members[id][u]: a map that is not there holds nobody.
Seat(g, u) == IF members[g] = Absent THEN Absent ELSE members[g][u]
Seated(g) == {u \in People : Seat(g, u) # Absent}

GroupTells(call, on, says, got) ==
    groupTold' = Answer(call, on, says, got) /\ UNCHANGED <<groups, members>>
Writes(call, on, g, seats) ==
    /\ members' = [members EXCEPT ![g] = seats]
    /\ groupTold' = Answer(call, on, "done", {})
    /\ UNCHANGED groups

Create(g, u) ==
    \/ g \in groups /\ GroupTells("Create", <<g, u>>, "refused", {})
    \/ /\ g \notin groups
       /\ groups' = groups \cup {g}
       /\ members' = [members EXCEPT ![g] = [v \in People |-> IF v = u THEN "owner" ELSE Absent]]
       /\ groupTold' = Answer("Create", <<g, u>>, "done", {})

ByID(g) == GroupTells("ByID", <<g>>, IF g \in groups THEN "done" ELSE "missing", {})

\* The seats are walked, and the group of each is looked up.
ListFor(u) ==
    GroupTells("ListFor", <<u>>, "done",
               {<<IF g \in groups THEN g ELSE Absent, Seat(g, u)>> :
                    g \in {h \in Groups : u \in Seated(h)}})

Members(g) ==
    \/ members[g] = Absent /\ GroupTells("Members", <<g>>, "missing", {})
    \/ /\ members[g] # Absent
       /\ GroupTells("Members", <<g>>, "done", {<<u, Seat(g, u)>> : u \in Seated(g)})

MemberRole(g, u) ==
    \/ u \notin Seated(g) /\ GroupTells("MemberRole", <<g, u>>, "missing", {})
    \/ u \in Seated(g) /\ GroupTells("MemberRole", <<g, u>>, "done", {<<u, Seat(g, u)>>})

AddMember(g, u, r) ==
    \/ g \notin groups /\ GroupTells("AddMember", <<g, u>>, "missing", {})
    \/ /\ g \in groups /\ (r = "owner" \/ u \in Seated(g))
       /\ GroupTells("AddMember", <<g, u>>, "refused", {})
    \/ /\ g \in groups /\ r # "owner" /\ u \notin Seated(g)
       /\ Writes("AddMember", <<g, u>>, g, [members[g] EXCEPT ![u] = r])

SetRole(g, u, r) ==
    \/ /\ r # "owner" /\ u \notin Seated(g)
       /\ GroupTells("SetRole", <<g, u>>, "missing", {})
    \/ /\ r = "owner" \/ Seat(g, u) = "owner"
       /\ GroupTells("SetRole", <<g, u>>, "refused", {})
    \/ /\ r # "owner" /\ Seat(g, u) \in {"dm", "player"}
       /\ Writes("SetRole", <<g, u>>, g, [members[g] EXCEPT ![u] = r])

RemoveMember(g, u) ==
    \/ u \notin Seated(g) /\ GroupTells("RemoveMember", <<g, u>>, "missing", {})
    \/ Seat(g, u) = "owner" /\ GroupTells("RemoveMember", <<g, u>>, "refused", {})
    \/ /\ Seat(g, u) \in {"dm", "player"}
       /\ Writes("RemoveMember", <<g, u>>, g, [members[g] EXCEPT ![u] = Absent])

TransferOwnership(g, u, v) ==
    \/ /\ u \notin Seated(g) \/ (Seat(g, u) = "owner" /\ v \notin Seated(g))
       /\ GroupTells("TransferOwnership", <<g, u, v>>, "missing", {})
    \/ /\ Seat(g, u) \in {"dm", "player"}
       /\ GroupTells("TransferOwnership", <<g, u, v>>, "refused", {})
    \/ /\ Seat(g, u) = "owner" /\ v \in Seated(g)
       /\ Writes("TransferOwnership", <<g, u, v>>, g,
                 [members[g] EXCEPT ![u] = "dm", ![v] = "owner"])

Delete(g) ==
    \/ g \notin groups /\ GroupTells("Delete", <<g>>, "missing", {})
    \/ /\ g \in groups
       /\ groups' = groups \ {g}
       /\ members' = [members EXCEPT ![g] = Absent]
       /\ groupTold' = Answer("Delete", <<g>>, "done", {})

GroupsNext ==
    \/ \E u \in People : ListFor(u)
    \/ \E g \in Groups :
        \/ ByID(g) \/ Members(g) \/ Delete(g)
        \/ \E u \in People :
            \/ Create(g, u) \/ MemberRole(g, u) \/ RemoveMember(g, u)
            \/ \E r \in Ranks : AddMember(g, u, r) \/ SetRole(g, u, r)
            \/ \E v \in People : TransferOwnership(g, u, v)

-----------------------------------------------------------------------------
(* SharedRepository.                                                       *)

PoolTells(call, on, says, got) ==
    poolTold' = Answer(call, on, says, got) /\ UNCHANGED <<items, order>>
PoolDoes(call, on) == poolTold' = Answer(call, on, "done", {})

Share(g, c) ==
    \/ c \in items[g] /\ PoolTells("Share", <<g, c>>, "refused", {})
    \/ /\ c \notin items[g]
       /\ items' = [items EXCEPT ![g] = @ \cup {c}]
       /\ order' = [order EXCEPT ![g] = Append(@, c)]
       /\ PoolDoes("Share", <<g, c>>)

\* drop: out of the pool and out of its order.
Drop(gs, c) ==
    /\ items' = [g \in Groups |-> IF g \in gs THEN items[g] \ {c} ELSE items[g]]
    /\ order' = [g \in Groups |-> IF g \in gs THEN Only(order[g], ToSet(order[g]) \ {c})
                                  ELSE order[g]]

Unshare(g, c) ==
    \/ c \notin items[g] /\ PoolTells("Unshare", <<g, c>>, "missing", {})
    \/ c \in items[g] /\ Drop({g}, c) /\ PoolDoes("Unshare", <<g, c>>)

Listed(g) == Only(order[g], items[g])
List(g) == PoolTells("List", <<g>>, "done", {Listed(g)})

IsShared(g, c) == PoolTells("IsShared", <<g, c>>, "done", items[g] \cap {c})

Sharing(c) == {g \in Groups : c \in items[g]}
GroupsSharing(c) == PoolTells("GroupsSharing", <<c>>, "done", Sharing(c))

UnshareEverywhere(c) == Drop(Sharing(c), c) /\ PoolDoes("UnshareEverywhere", <<c>>)

ClearGroup(g) ==
    /\ items' = [items EXCEPT ![g] = {}]
    /\ order' = [order EXCEPT ![g] = <<>>]
    /\ PoolDoes("ClearGroup", <<g>>)

PoolsNext ==
    \/ \E c \in Characters : GroupsSharing(c) \/ UnshareEverywhere(c)
    \/ \E g \in Groups :
        \/ List(g) \/ ClearGroup(g)
        \/ \E c \in Characters : Share(g, c) \/ Unshare(g, c) \/ IsShared(g, c)

-----------------------------------------------------------------------------
(* GameRepository.                                                         *)

GameTells(call, on, says, got) ==
    gameTold' = Answer(call, on, says, got) /\ UNCHANGED <<games, rosters>>
GameDoes(call, on) == gameTold' = Answer(call, on, "done", {})
RosterIs(call, x, on, r) ==
    /\ rosters' = [rosters EXCEPT ![x] = r]
    /\ GameDoes(call, on)
    /\ UNCHANGED games
At(g) == {x \in Games : games[x] = g}

CreateGame(x, g) ==
    \/ games[x] # Absent /\ GameTells("CreateGame", <<x, g>>, "refused", {})
    \/ /\ games[x] = Absent
       /\ games' = [games EXCEPT ![x] = g]
       /\ GameDoes("CreateGame", <<x, g>>)
       /\ UNCHANGED rosters

GameByID(x) ==
    \/ games[x] = Absent /\ GameTells("GameByID", <<x>>, "missing", {})
    \/ games[x] # Absent /\ GameTells("GameByID", <<x>>, "done", {games[x]})

GamesFor(g) == GameTells("GamesFor", <<g>>, "done", At(g))

\* A mutant: the seats of a game outlive it.
MutantForget(xs) ==
    /\ games' = [x \in Games |-> IF x \in xs THEN Absent ELSE games[x]]
    /\ UNCHANGED rosters

\* The games and, with each, its roster.
Forget(xs) ==
    /\ games' = [x \in Games |-> IF x \in xs THEN Absent ELSE games[x]]
    /\ rosters' = [x \in Games |-> IF x \in xs THEN <<>> ELSE rosters[x]]

DeleteGame(x) ==
    \/ games[x] = Absent /\ GameTells("DeleteGame", <<x>>, "missing", {})
    \/ games[x] # Absent /\ Forget({x}) /\ GameDoes("DeleteGame", <<x>>)

DeleteForGroup(g) == Forget(At(g)) /\ GameDoes("DeleteForGroup", <<g>>)

\* The loop over the characters asked for: those seated are passed over.
Seating(r, c) == IF c \in ToSet(r) THEN r ELSE Append(r, c)

AddCharacters(x, cs) ==
    \/ games[x] = Absent /\ GameTells("AddCharacters", <<x, cs>>, "missing", {})
    \/ /\ games[x] # Absent /\ Nameless \in ToSet(cs)
       /\ GameTells("AddCharacters", <<x, cs>>, "refused", {})
    \/ /\ games[x] # Absent /\ Nameless \notin ToSet(cs)
       /\ RosterIs("AddCharacters", x, <<x, cs>>, FoldLeft(Seating, rosters[x], cs))

Unseated(x, c) == Only(rosters[x], {e \in Entries : e \in Monsters \/ e # c})

RemoveCharacter(x, c) ==
    \/ /\ games[x] = Absent \/ Len(Unseated(x, c)) = Len(rosters[x])
       /\ GameTells("RemoveCharacter", <<x, c>>, "missing", {})
    \/ /\ games[x] # Absent /\ Len(Unseated(x, c)) # Len(rosters[x])
       /\ RosterIs("RemoveCharacter", x, <<x, c>>, Unseated(x, c))

Roster(x) ==
    \/ games[x] = Absent /\ GameTells("Roster", <<x>>, "missing", {})
    \/ games[x] # Absent /\ GameTells("Roster", <<x>>, "done", {rosters[x]})

RemoveFromGroupGames(g, c) ==
    /\ rosters' = [x \in Games |-> IF x \in At(g) THEN Unseated(x, c) ELSE rosters[x]]
    /\ GameDoes("RemoveFromGroupGames", <<g, c>>)
    /\ UNCHANGED games

\* The change is the caller's: it makes another roster, or refuses.
MutateEntries(x) ==
    \/ games[x] = Absent /\ GameTells("MutateEntries", <<x>>, "missing", {})
    \/ games[x] # Absent /\ GameTells("MutateEntries", <<x>>, "refused", {})
    \/ /\ games[x] # Absent
       /\ \E r \in Rosters : RosterIs("MutateEntries", x, <<x>>, r)

GamesNext ==
    \/ \E g \in Groups :
        \/ GamesFor(g) \/ DeleteForGroup(g)
        \/ \E c \in Characters : RemoveFromGroupGames(g, c)
    \/ \E x \in Games :
        \/ GameByID(x) \/ DeleteGame(x) \/ Roster(x) \/ MutateEntries(x)
        \/ \E g \in Groups : CreateGame(x, g)
        \/ \E c \in Characters : RemoveCharacter(x, c)
        \/ \E cs \in SeqOf(Characters \cup {Nameless}, 2) : AddCharacters(x, cs)

-----------------------------------------------------------------------------
\* The contract's groups, pools and games, each read from both of its maps.
GroupAt(g) ==
    IF g \notin groups THEN Absent
    ELSE [owner |-> CHOOSE u \in People : Seat(g, u) = "owner",
          rank |-> [u \in People |-> IF Seat(g, u) \in {"dm", "player"} THEN Seat(g, u)
                                     ELSE "none"]]
GameAt(x) == IF games[x] = Absent THEN Absent ELSE [group |-> games[x], roster |-> rosters[x]]

Contract == INSTANCE TablesContract WITH
    group <- [g \in Groups |-> GroupAt(g)], groupSaid <- groupTold,
    pool <- [g \in Groups |-> Listed(g)], poolSaid <- poolTold,
    game <- [x \in Games |-> GameAt(x)], gameSaid <- gameTold

\* The stores keep the contract of their ports although each keeps one thing in
\* two maps: no seat outlives its group or roster its game, a pool's order and
\* its content tell the same, and a group has its one owner.
TablesInMemory == Contract!Spec
=============================================================================
