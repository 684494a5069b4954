------------------------------- MODULE Table -------------------------------
(***************************************************************************)
(* Groups, the characters on their tables and the games run from them, as  *)
(* the group, game, character and admin services change them.  A request   *)
(* is the run of one service method: it reads and writes the database in   *)
(* several steps, with nothing locked in between, so other requests        *)
(* interleave and a failure or a crash may leave it half done.  One step   *)
(* is one round trip whose answer may change before the next one; reads    *)
(* of what can only ever go (an account, a character, a group, a game)     *)
(* are joined to the read before them.                                     *)
(*                                                                         *)
(* A request that is refused simply ends.  So do requests that meet a      *)
(* limit: limits are counted before the write and only ever refuse.  A     *)
(* roster is the set of the characters seated: Tracker has its order.      *)
(***************************************************************************)
EXTENDS Membership

CONSTANTS Characters, Games,
          Keeper,          \* who owns a character: it never changes hands
          GroupOf,         \* the group a game is made at
          Requests,        \* the requests being served at once
          NoOne,           \* no person, group, game or character
          Purges           \* whether superadmins delete accounts

ASSUME TableAssumption ==
    /\ Keeper \in [Characters -> People]
    /\ GroupOf \in [Games -> Groups]
    /\ NoOne \notin People \cup Groups \cup Games \cup Characters
    /\ Purges \in BOOLEAN

VARIABLES stored,    \* the rows of characters
          pool,      \* shared_characters: what is on a group's table
          game,      \* the rows of games
          roster,    \* the player entries of a game's roster
          invited,   \* the invitation links signed, by group and role
          request

vars == <<memberVars, stored, pool, game, roster, invited, request>>

tableVars == <<stored, pool, game, roster>>

\* What a request is about to do.  Those of the first line are a member's,
\* those of the second about the table, then games, then a character's
\* deletion, a group's, and a whole account's.
Steps == {"rank", "appoint", "hand", "dismiss", "unseat member", "accept",
          "share", "unseat", "unshare",
          "look", "publish", "project", "seat", "unlist", "start", "end",
          "find", "clear", "withdraw", "erase",
          "end all", "clear table", "close",
          "audit", "purge"}

\* left: the groups still to be dealt with.  seats and chars: what a purge
\* listed of the account it deletes, in whose name by its calls are made.
Request == [step : Steps \cup {"idle"}, by : People \cup {NoOne},
            group : Groups \cup {NoOne}, whom : People \cup {NoOne},
            role : Roles, game : Games \cup {NoOne},
            what : Characters \cup {NoOne}, left : SUBSET Groups,
            purging : BOOLEAN, seats : SUBSET (Groups \X Roles),
            chars : SUBSET Characters]

Idle == [step |-> "idle", by |-> NoOne, group |-> NoOne, whom |-> NoOne,
         role |-> "none", game |-> NoOne, what |-> NoOne, left |-> {},
         purging |-> FALSE, seats |-> {}, chars |-> {}]

\* The foreign keys, and that what is gone holds nothing.
Referential ==
    /\ \A g \in Groups : opened[g] # "open" => pool[g] = {}
    /\ \A x \in Games : game[x] = "open" => opened[GroupOf[x]] = "open"
    /\ \A x \in Games : game[x] # "open" => roster[x] = {}

TypeOK ==
    /\ MembershipTypeOK
    /\ stored \in [Characters -> BOOLEAN]
    /\ pool \in [Groups -> SUBSET Characters]
    /\ game \in [Games -> {"never", "open", "gone"}]
    /\ roster \in [Games -> SUBSET Characters]
    /\ invited \in SUBSET (Groups \X {"dm", "player"})
    /\ request \in [Requests -> Request]
    /\ Referential

Init ==
    /\ MembershipInit
    /\ stored = [c \in Characters |-> TRUE]
    /\ pool = [g \in Groups |-> {}]
    /\ game = [x \in Games |-> "never"]
    /\ roster = [x \in Games |-> {}]
    /\ invited = {}
    /\ request = [q \in Requests |-> Idle]

\* A request arrives, and has passed the checks its action names.
Ask(q, u, asked) ==
    /\ request[q].step = "idle"
    /\ account[u]
    /\ request' = [request EXCEPT ![q] = [asked EXCEPT !.by = u]]

At(q, step) == request[q].step = step

Then(q, step) == request' = [request EXCEPT ![q].step = step]

\* The method returns: to the purge that called it, or to the person.
Return(q) ==
    LET me == request[q] IN
    request' = [request EXCEPT ![q] =
        IF me.purging THEN [Idle EXCEPT !.step = "purge", !.by = me.by, !.purging = TRUE,
                                        !.seats = me.seats, !.chars = me.chars]
        ELSE Idle]

\* A refusal, a failure of the database or a crash: the steps done stay done.
Abandon(q) ==
    /\ request[q].step # "idle"
    /\ request' = [request EXCEPT ![q] = Idle]
    /\ UNCHANGED <<memberVars, tableVars, invited>>


-----------------------------------------------------------------------------
(* Groups and their members.                                               *)

\* Opening a group has nothing to check but its limit: it is one step.
CreateGroup(q, u, g) ==
    /\ At(q, "idle")
    /\ OpenGroup(g, u)
    /\ UNCHANGED <<tableVars, invited, request>>

\* Only the owner ranks people; the person is looked up in the next step.
AskSetRole(q, u, g, t, role) ==
    /\ rank[g][u] = "owner" /\ role # "none"
    /\ Ask(q, u, [Idle EXCEPT !.step = "rank", !.group = g, !.whom = t, !.role = role])
    /\ UNCHANGED <<memberVars, tableVars, invited>>

\* Service.SetRole from the second MemberRole on.  Naming an owner is a
\* transfer; an owner is only ever replaced.
ReadRank(q) ==
    /\ At(q, "rank")
    /\ rank[request[q].group][request[q].whom] \notin {"none", "owner", request[q].role}
    /\ Then(q, IF request[q].role = "owner" THEN "hand" ELSE "appoint")
    /\ UNCHANGED <<memberVars, tableVars, invited>>

Appoint(q) ==
    /\ At(q, "appoint")
    /\ SetRole(request[q].group, request[q].whom, request[q].role)
    /\ Return(q)
    /\ UNCHANGED <<tableVars, invited>>

Hand(q) ==
    /\ At(q, "hand")
    /\ TransferOwnership(request[q].group, request[q].by, request[q].whom)
    /\ Return(q)
    /\ UNCHANGED <<tableVars, invited>>

\* Leaving is removing oneself, which an owner may not.
AskRemoveMember(q, u, g, t) ==
    /\ IF t = u THEN rank[g][u] \in {"player", "dm"} ELSE RunsTable(rank[g][u])
    /\ Ask(q, u, [Idle EXCEPT !.step = IF t = u THEN "unseat member" ELSE "dismiss",
                              !.group = g, !.whom = t])
    /\ UNCHANGED <<memberVars, tableVars, invited>>

Dismiss(q) ==
    /\ At(q, "dismiss")
    /\ rank[request[q].group][request[q].whom] \notin {"none", "owner"}
    /\ Then(q, "unseat member")
    /\ UNCHANGED <<memberVars, tableVars, invited>>

UnseatMember(q) ==
    /\ At(q, "unseat member")
    /\ RemoveMember(request[q].group, request[q].whom)
    /\ Return(q)
    /\ UNCHANGED <<tableVars, invited>>

\* The link cannot be withdrawn, and any number of people may follow it.
Invite(q, u, g, role) ==
    /\ At(q, "idle") /\ account[u] /\ RunsTable(rank[g][u])
    /\ invited' = invited \cup {<<g, role>>}
    /\ UNCHANGED <<memberVars, tableVars, request>>

\* Somebody seated already keeps the rank they have.
AskAccept(q, u, g, role) ==
    /\ <<g, role>> \in invited /\ opened[g] = "open"
    /\ rank[g][u] = "none"
    /\ Ask(q, u, [Idle EXCEPT !.step = "accept", !.group = g, !.role = role])
    /\ UNCHANGED <<memberVars, tableVars, invited>>

Accept(q) ==
    /\ At(q, "accept")
    /\ AddMember(request[q].group, request[q].by, request[q].role)
    /\ Return(q)
    /\ UNCHANGED <<tableVars, invited>>

AskDeleteGroup(q, u, g) ==
    /\ rank[g][u] = "owner"
    /\ Ask(q, u, [Idle EXCEPT !.step = "end all", !.group = g])
    /\ UNCHANGED <<memberVars, tableVars, invited>>

GamesAt(g) == {x \in Games : GroupOf[x] = g /\ game[x] = "open"}

\* game.Service.DeleteForGroup: the games, then what is on the table.
EndAll(q) ==
    /\ At(q, "end all")
    /\ game' = [x \in Games |-> IF x \in GamesAt(request[q].group) THEN "gone" ELSE game[x]]
    /\ roster' = [x \in Games |-> IF x \in GamesAt(request[q].group) THEN {} ELSE roster[x]]
    /\ Then(q, "clear table")
    /\ UNCHANGED <<memberVars, stored, pool, invited>>

ClearTable(q) ==
    /\ At(q, "clear table")
    /\ pool' = [pool EXCEPT ![request[q].group] = {}]
    /\ Then(q, "close")
    /\ UNCHANGED <<memberVars, stored, game, roster, invited>>

MutantClose(q) ==
    /\ At(q, "close")
    /\ CloseGroup(request[q].group)
    /\ Return(q)
    /\ UNCHANGED <<tableVars, invited>>

\* The games and the table made since go with the group, by cascade.
Close(q) ==
    /\ At(q, "close")
    /\ CloseGroup(request[q].group)
    /\ game' = [x \in Games |-> IF x \in GamesAt(request[q].group) THEN "gone" ELSE game[x]]
    /\ roster' = [x \in Games |-> IF x \in GamesAt(request[q].group) THEN {} ELSE roster[x]]
    /\ pool' = [pool EXCEPT ![request[q].group] = {}]
    /\ Return(q)
    /\ UNCHANGED <<stored, invited>>

-----------------------------------------------------------------------------
(* The shared table and the games.                                         *)

owned(u, c) == stored[c] /\ Keeper[c] = u

\* Store.Share: the primary key and the group's row.
PutOnTable(g, c) ==
    /\ opened[g] = "open" /\ c \notin pool[g]
    /\ pool' = [pool EXCEPT ![g] = @ \cup {c}]

\* GameRepository.RemoveFromGroupGames: every roster of the group at once.
TakeOffRosters(g, c) ==
    roster' = [x \in Games |-> IF GroupOf[x] = g THEN roster[x] \ {c} ELSE roster[x]]

AskShare(q, u, g, c) ==
    /\ rank[g][u] # "none" /\ owned(u, c)
    /\ Ask(q, u, [Idle EXCEPT !.step = "share", !.group = g, !.what = c])
    /\ UNCHANGED <<memberVars, tableVars, invited>>

Share(q) ==
    /\ At(q, "share")
    /\ PutOnTable(request[q].group, request[q].what)
    /\ Return(q)
    /\ UNCHANGED <<memberVars, stored, game, roster, invited>>

\* A player takes their own off the table, whoever runs it takes anything off.
AskUnshare(q, u, g, c) ==
    /\ rank[g][u] # "none"
    /\ RunsTable(rank[g][u]) \/ owned(u, c)
    /\ Ask(q, u, [Idle EXCEPT !.step = "unseat", !.group = g, !.what = c])
    /\ UNCHANGED <<memberVars, tableVars, invited>>

\* The rosters first, so that a crash leaves nobody seated who is not shared.
MutantUnseat(q) ==
    /\ At(q, "unseat")
    /\ Then(q, "unshare")
    /\ UNCHANGED <<memberVars, tableVars, invited>>

Unseat(q) ==
    /\ At(q, "unseat")
    /\ TakeOffRosters(request[q].group, request[q].what)
    /\ Then(q, "unshare")
    /\ UNCHANGED <<memberVars, stored, pool, game, invited>>

Unshare(q) ==
    /\ At(q, "unshare")
    /\ request[q].what \in pool[request[q].group]
    /\ pool' = [pool EXCEPT ![request[q].group] = @ \ {request[q].what}]
    /\ Return(q)
    /\ UNCHANGED <<memberVars, stored, game, roster, invited>>

\* Service.dm: the game, then the rank at its group.
dm(u, x) == game[x] = "open" /\ RunsTable(rank[GroupOf[x]][u])

AskCreateGame(q, u, x) ==
    /\ game[x] = "never" /\ RunsTable(rank[GroupOf[x]][u])
    /\ Ask(q, u, [Idle EXCEPT !.step = "start", !.group = GroupOf[x], !.game = x])
    /\ UNCHANGED <<memberVars, tableVars, invited>>

CreateGame(q) ==
    /\ At(q, "start")
    /\ game[request[q].game] = "never" /\ opened[request[q].group] = "open"
    /\ game' = [game EXCEPT ![request[q].game] = "open"]
    /\ Return(q)
    /\ UNCHANGED <<memberVars, stored, pool, roster, invited>>

\* What needs only dm before it writes: deleting a game, taking one off it.
AskRunning(q, u, x, step, c) ==
    /\ dm(u, x)
    /\ Ask(q, u, [Idle EXCEPT !.step = step, !.group = GroupOf[x], !.game = x, !.what = c])
    /\ UNCHANGED <<memberVars, tableVars, invited>>

DeleteGame(q) ==
    /\ At(q, "end")
    /\ game[request[q].game] = "open"
    /\ game' = [game EXCEPT ![request[q].game] = "gone"]
    /\ roster' = [roster EXCEPT ![request[q].game] = {}]
    /\ Return(q)
    /\ UNCHANGED <<memberVars, stored, pool, invited>>

RemoveCharacter(q) ==
    /\ At(q, "unlist")
    /\ request[q].what \in roster[request[q].game]
    /\ roster' = [roster EXCEPT ![request[q].game] = @ \ {request[q].what}]
    /\ Return(q)
    /\ UNCHANGED <<memberVars, stored, pool, game, invited>>

\* Service.AddCharacters, one character: one that is not on the table is put
\* there, provided it is the actor's own.
Look(q) ==
    /\ At(q, "look")
    /\ \/ request[q].what \in pool[request[q].group] /\ Then(q, "project")
       \/ /\ request[q].what \notin pool[request[q].group]
          /\ owned(request[q].by, request[q].what)
          /\ Then(q, "publish")
    /\ UNCHANGED <<memberVars, tableVars, invited>>

Publish(q) ==
    /\ At(q, "publish")
    /\ PutOnTable(request[q].group, request[q].what)
    /\ Then(q, "project")
    /\ UNCHANGED <<memberVars, stored, game, roster, invited>>

\* seatEntries reads the sheet, then adds the entry under the row's lock.
ProjectSeat(q) ==
    /\ At(q, "project")
    /\ stored[request[q].what]
    /\ Then(q, "seat")
    /\ UNCHANGED <<memberVars, tableVars, invited>>

Seat(q) ==
    /\ At(q, "seat")
    /\ game[request[q].game] = "open"
    /\ roster' = [roster EXCEPT ![request[q].game] = @ \cup {request[q].what}]
    /\ Return(q)
    /\ UNCHANGED <<memberVars, stored, pool, game, invited>>

-----------------------------------------------------------------------------
(* Deleting a character, and deleting an account.                          *)

\* Its owner, or a superadmin in the owner's name.
AskDelete(q, c) ==
    /\ request[q].step = "idle" /\ stored[c]
    /\ request' = [request EXCEPT ![q] =
           [Idle EXCEPT !.step = "find", !.by = Keeper[c], !.what = c]]
    /\ UNCHANGED <<memberVars, tableVars, invited>>

MutantFind(q) ==
    /\ At(q, "find")
    /\ Then(q, "erase")
    /\ UNCHANGED <<memberVars, tableVars, invited>>

\* game.Service.UnshareEverywhere: the rosters of each group that shares it,
\* then its rows on every table.
Find(q) ==
    /\ At(q, "find")
    /\ request' = [request EXCEPT ![q].step = "clear",
                                  ![q].left = {g \in Groups : request[q].what \in pool[g]}]
    /\ UNCHANGED <<memberVars, tableVars, invited>>

Clear(q) ==
    /\ At(q, "clear")
    /\ \E g \in request[q].left :
          /\ TakeOffRosters(g, request[q].what)
          /\ request' = [request EXCEPT ![q].left = @ \ {g}]
    /\ UNCHANGED <<memberVars, stored, pool, game, invited>>

Withdraw(q) ==
    /\ At(q, "clear") /\ request[q].left = {}
    /\ pool' = [g \in Groups |-> pool[g] \ {request[q].what}]
    /\ Then(q, "erase")
    /\ UNCHANGED <<memberVars, stored, game, roster, invited>>

Erase(q) ==
    /\ At(q, "erase")
    /\ stored[request[q].what]
    /\ stored' = [stored EXCEPT ![request[q].what] = FALSE]
    /\ Return(q)
    /\ UNCHANGED <<memberVars, pool, game, roster, invited>>

\* DeletePlayer lists the account's seats; the groups it owns are looked at
\* one by one, and one that other people sit at is refused.
AskPurge(q, u) ==
    /\ Purges
    /\ Ask(q, u, [Idle EXCEPT !.step = "audit",
                     !.seats = {<<g, rank[g][u]>> : g \in {h \in Groups : rank[h][u] # "none"}},
                     !.left = {g \in Groups : rank[g][u] = "owner"}])
    /\ UNCHANGED <<memberVars, tableVars, invited>>

MutantAudit(q) ==
    /\ At(q, "audit")
    /\ \E g \in request[q].left :
          /\ rank[g][request[q].by] # "none"
          /\ request' = [request EXCEPT ![q].left = @ \ {g}]
    /\ UNCHANGED <<memberVars, tableVars, invited>>

Audit(q) ==
    /\ At(q, "audit")
    /\ \E g \in request[q].left :
          /\ Members(g) = {request[q].by}
          /\ request' = [request EXCEPT ![q].left = @ \ {g}]
    /\ UNCHANGED <<memberVars, tableVars, invited>>

\* Every refusal came first: what the account has is listed, and goes.
ListCharacters(q) ==
    /\ At(q, "audit") /\ request[q].left = {}
    /\ request' = [request EXCEPT
           ![q].step = "purge", ![q].purging = TRUE,
           ![q].chars = {c \in Characters : owned(request[q].by, c)}]
    /\ UNCHANGED <<memberVars, tableVars, invited>>

PurgeCharacter(q) ==
    /\ At(q, "purge")
    /\ \E c \in request[q].chars :
          /\ stored[c]
          /\ request' = [request EXCEPT ![q].step = "find", ![q].what = c,
                                        ![q].chars = @ \ {c}]
    /\ UNCHANGED <<memberVars, tableVars, invited>>

\* Its groups are closed and its seats left in its own name, by the rank
\* listed; the group service asks for the rank again.
PurgeSeat(q) ==
    /\ At(q, "purge") /\ request[q].chars = {}
    /\ \E seat \in request[q].seats :
          LET g == seat[1] IN
          /\ IF seat[2] = "owner" THEN rank[g][request[q].by] = "owner"
             ELSE rank[g][request[q].by] \in {"player", "dm"}
          /\ request' = [request EXCEPT
                 ![q].step = IF seat[2] = "owner" THEN "end all" ELSE "unseat member",
                 ![q].group = g, ![q].whom = request[q].by,
                 ![q].seats = @ \ {seat}]
    /\ UNCHANGED <<memberVars, tableVars, invited>>

MutantPurgeAccount(q) ==
    /\ At(q, "purge") /\ request[q].chars = {}
    /\ DropAccount(request[q].by)
    /\ request' = [request EXCEPT ![q] = Idle]
    /\ UNCHANGED <<tableVars, invited>>

PurgeAccount(q) ==
    /\ At(q, "purge") /\ request[q].chars = {} /\ request[q].seats = {}
    /\ DropAccount(request[q].by)
    /\ request' = [request EXCEPT ![q] = Idle]
    /\ UNCHANGED <<tableVars, invited>>

-----------------------------------------------------------------------------

MemberStep(q) ==
    \/ \E u \in People, g \in Groups : CreateGroup(q, u, g) \/ AskDeleteGroup(q, u, g)
    \/ \E u, t \in People, g \in Groups, role \in Roles : AskSetRole(q, u, g, t, role)
    \/ \E u, t \in People, g \in Groups : AskRemoveMember(q, u, g, t)
    \/ \E u \in People, g \in Groups, role \in {"dm", "player"} :
          Invite(q, u, g, role) \/ AskAccept(q, u, g, role)
    \/ ReadRank(q) \/ Appoint(q) \/ Hand(q) \/ Dismiss(q) \/ UnseatMember(q)
    \/ Accept(q) \/ EndAll(q) \/ ClearTable(q) \/ Close(q)

GameStep(q) ==
    \/ \E u \in People, g \in Groups, c \in Characters :
          AskShare(q, u, g, c) \/ AskUnshare(q, u, g, c)
    \/ \E u \in People, x \in Games : AskCreateGame(q, u, x) \/ AskRunning(q, u, x, "end", NoOne)
    \/ \E u \in People, x \in Games, c \in Characters :
          AskRunning(q, u, x, "unlist", c) \/ AskRunning(q, u, x, "look", c)
    \/ Share(q) \/ Unseat(q) \/ Unshare(q) \/ CreateGame(q) \/ DeleteGame(q)
    \/ RemoveCharacter(q) \/ Look(q) \/ Publish(q) \/ ProjectSeat(q) \/ Seat(q)

PurgeStep(q) ==
    \/ \E c \in Characters : AskDelete(q, c)
    \/ \E u \in People : AskPurge(q, u)
    \/ Find(q) \/ Clear(q) \/ Withdraw(q) \/ Erase(q)
    \/ Audit(q) \/ ListCharacters(q) \/ PurgeCharacter(q) \/ PurgeSeat(q) \/ PurgeAccount(q)

Next == \E q \in Requests : MemberStep(q) \/ GameStep(q) \/ PurgeStep(q) \/ Abandon(q)

Spec == Init /\ [][Next]_vars


-----------------------------------------------------------------------------
(* Properties.                                                             *)

\* No group ever has two owners, whatever transfers, invitations and changes
\* of rank race each other: group_members_one_owner_idx of 00003_groups.sql,
\* and the order in which TransferOwnership writes.
OneOwner ==
    \A g \in Groups : \A u, v \in People :
        rank[g][u] = "owner" /\ rank[g][v] = "owner" => u = v

\* A group with no owner is never seen: whoever leaves, is removed, is given
\* another rank or loses their account, somebody is left who may close it.
OwnerKept ==
    \A g \in Groups : opened[g] = "open" => \E u \in People : rank[g][u] = "owner"

\* The pool's purpose (Service.Unshare): nobody is seated at a game who is not
\* on its group's table, though every request may be cut short anywhere.
SeatsAreShared ==
    \A x \in Games : roster[x] \subseteq pool[GroupOf[x]]

\* A character is taken off every table and roster before it is deleted, so
\* one that is gone is on none, whichever step of its deletion was the last.
NoGhosts ==
    \A c \in Characters : ~stored[c] =>
        /\ \A g \in Groups : c \notin pool[g]
        /\ \A x \in Games : c \notin roster[x]

\* An owner stops being one only by handing the group to somebody seated at
\* it, by closing it, or with their account: never by a change of rank or a
\* removal that was decided on when they were not the owner yet.
HandsOver ==
    [][\A g \in Groups : \A u \in People :
        rank[g][u] = "owner" /\ rank'[g][u] # "owner" =>
            \/ opened'[g] = "gone"
            \/ account[u] /\ ~account'[u]
            \/ \E v \in Members(g) : rank'[g][v] = "owner"]_vars

\* Accepting an invitation seats, and never ranks anew somebody who is seated
\* already: two tabs that follow two links leave the rank the first one gave.
RankedByOwner ==
    [][\A g \in Groups : \A u \in People :
        rank[g][u] # "none" /\ rank'[g][u] \notin {"none", rank[g][u]} =>
            \E q \in Requests : request'[q] # request[q] /\ request[q].step \in {"appoint", "hand"}]_vars

\* Only its owner's request puts a character on a table: whoever runs the
\* table cannot publish somebody else's by seating it, even when it was on the
\* table as they looked.
PublishedByKeeper ==
    [][\A g \in Groups : \A c \in pool'[g] \ pool[g] :
        \E q \in Requests : request'[q] # request[q] /\ request[q].by = Keeper[c]]_vars

\* Deleting an account takes nothing from anybody else: it closes the groups
\* the account owns alone, and leaves the others.
TakesNothing ==
    [][\A g \in Groups : opened'[g] # opened[g] /\ opened[g] = "open" =>
        \E q \in Requests :
            /\ At(q, "close") /\ request[q].group = g
            /\ request[q].purging => Members(g) = {request[q].by}]_vars

=============================================================================
