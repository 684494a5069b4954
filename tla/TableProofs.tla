----------------------------- MODULE TableProofs -----------------------------
(***************************************************************************)
(* Proofs about Table, for any people, groups, characters, games and       *)
(* number of requests.  The inductive invariant has three parts, each kept *)
(* by itself: what the members' tables hold, what the games' tables hold,  *)
(* and what a request that is under way may be relied on to have checked.  *)
(***************************************************************************)
EXTENDS Table, TLAPS

\* An owner is lost only with their account.
OwnedUnlessPurged == Purges \/ OwnerKept

MemberInv == MembershipTypeOK /\ OneOwner /\ OwnedUnlessPurged

TableInv ==
    /\ stored \in [Characters -> BOOLEAN]
    /\ pool \in [Groups -> SUBSET Characters]
    /\ game \in [Games -> {"never", "open", "gone"}]
    /\ roster \in [Games -> SUBSET Characters]
    /\ invited \in SUBSET (Groups \X {"dm", "player"})
    /\ Referential

\* The steps that work at a group, on a member, at a game, on a character.
AtGroup == {"rank", "appoint", "hand", "dismiss", "unseat member", "accept", "share", "unseat",
            "unshare", "look", "publish", "project", "seat", "unlist", "start", "end",
            "end all", "clear table", "close"}
OnMember == {"rank", "appoint", "hand", "dismiss", "unseat member"}
AtGame == {"look", "publish", "project", "seat", "unlist", "start", "end"}
OnCharacter == {"share", "unseat", "unshare", "look", "publish", "project", "seat", "unlist",
                "find", "clear", "erase"}

\* What a request has checked before it came to its step.  Whoever is about to
\* put a character on a table owns it; nobody but the owner hands a group over;
\* and accounts are deleted only where they may be.
Sound(r) ==
    /\ r.step # "idle" \/ r.purging => r.by \in People
    /\ r.step \in AtGroup => r.group \in Groups
    /\ r.step \in OnMember => r.whom \in People
    /\ r.step = "rank" => r.role # "none"
    /\ r.step = "appoint" => r.role \in {"dm", "player"}
    /\ r.step = "accept" => r.role \in {"dm", "player"}
    /\ r.step \in AtGame => r.game \in Games /\ r.group = GroupOf[r.game]
    /\ r.step \in OnCharacter => r.what \in Characters
    /\ r.step \in {"share", "publish"} => Keeper[r.what] = r.by
    /\ r.step \in {"audit", "purge"} \/ r.purging => Purges

RequestInv ==
    /\ request \in [Requests -> Request]
    /\ \A q \in Requests : Sound(request[q])

IInv == MemberInv /\ TableInv /\ RequestInv

-----------------------------------------------------------------------------
(* The requests.                                                           *)

LEMMA IdleIsRequest == Idle \in Request /\ Sound(Idle)
  BY TableAssumption DEF Idle, Request, Roles, Sound, AtGroup, OnMember, AtGame, OnCharacter

LEMMA ReplaceKeeps ==
  ASSUME RequestInv, NEW q \in Requests, NEW r \in Request, Sound(r),
         request' = [request EXCEPT ![q] = r]
  PROVE  RequestInv'
  <1>1. /\ request' \in [Requests -> Request] /\ request'[q] = r
        /\ \A p \in Requests : p # q => request'[p] = request[p]
    BY DEF RequestInv
  <1>2. \A p \in Requests : Sound(request'[p])
    BY <1>1 DEF RequestInv
  <1>3. \A p \in Requests : Sound(request[p])'
    BY <1>2 DEF Sound
  <1> QED BY <1>1, <1>3 DEF RequestInv

LEMMA StillKeeps ==
  ASSUME RequestInv, UNCHANGED request
  PROVE  RequestInv'
  BY DEF RequestInv, Sound

LEMMA AskKeeps ==
  ASSUME RequestInv, NEW q \in Requests, NEW u, NEW asked, Ask(q, u, asked),
         [asked EXCEPT !.by = u] \in Request, Sound([asked EXCEPT !.by = u])
  PROVE  RequestInv'
  BY ReplaceKeeps DEF Ask

\* The step is all that changes of the request.
LEMMA ThenKeeps ==
  ASSUME RequestInv, NEW q \in Requests, NEW step \in Steps, Then(q, step),
         Sound([request[q] EXCEPT !.step = step])
  PROVE  RequestInv'
  <1>1. [request[q] EXCEPT !.step = step] \in Request
    BY DEF RequestInv, Request
  <1>2. request' = [request EXCEPT ![q] = [request[q] EXCEPT !.step = step]]
    BY DEF Then, RequestInv
  <1> QED BY <1>1, <1>2, ReplaceKeeps

\* A method returns to the purge that called it only where there is one.
LEMMA ReturnKeeps ==
  ASSUME RequestInv, NEW q \in Requests, Return(q)
  PROVE  RequestInv'
  <1> DEFINE me == request[q]
             p == [Idle EXCEPT !.step = "purge", !.by = me.by, !.purging = TRUE,
                               !.seats = me.seats, !.chars = me.chars]
  <1>1. me \in Request /\ Sound(me)
    BY DEF RequestInv
  <1>2. CASE me.purging
    <2>1. /\ me.by \in People /\ me.chars \in SUBSET Characters
          /\ me.seats \in SUBSET (Groups \X Roles) /\ Purges
      BY <1>1, <1>2 DEF Request, Sound
    <2>2. p \in Request /\ p.step = "purge" /\ p.by = me.by /\ p.purging = TRUE
      BY <2>1, IdleIsRequest DEF Request, Idle, Steps
    <2>3. Sound(p)
      <3> HIDE DEF p
      <3> QED BY <2>1, <2>2 DEF Sound, AtGroup, OnMember, AtGame, OnCharacter
    <2>4. request' = [request EXCEPT ![q] = p]
      BY <1>2 DEF Return
    <2> QED BY <2>2, <2>3, <2>4, ReplaceKeeps
  <1>3. CASE ~me.purging
    BY <1>3, IdleIsRequest, ReplaceKeeps DEF Return
  <1> QED BY <1>2, <1>3

-----------------------------------------------------------------------------
(* The statements on group_members.                                        *)

\* Somebody who owns a group sits at it, and a group that never was has no
\* seats: a group that is opened has no owner yet.
LEMMA OpenGroupKeeps ==
  ASSUME MemberInv, NEW g \in Groups, NEW u \in People, OpenGroup(g, u)
  PROVE  MemberInv'
  <1>1. MembershipTypeOK'
    BY DEF MemberInv, MembershipTypeOK, OpenGroup, Roles
  <1>2. \A h \in Groups : h # g => rank'[h] = rank[h] /\ opened'[h] = opened[h]
    BY DEF MemberInv, MembershipTypeOK, OpenGroup
  <1>3. opened'[g] = "open" /\ \A v \in People : rank'[g][v] = IF v = u THEN "owner" ELSE "none"
    BY DEF MemberInv, MembershipTypeOK, OpenGroup
  <1>4. OneOwner'
    BY <1>2, <1>3 DEF MemberInv, OneOwner
  <1>5. OwnedUnlessPurged'
    BY <1>2, <1>3 DEF MemberInv, OwnedUnlessPurged, OwnerKept
  <1> QED BY <1>1, <1>4, <1>5 DEF MemberInv

LEMMA AddMemberKeeps ==
  ASSUME MemberInv, NEW g \in Groups, NEW u \in People, NEW role \in {"dm", "player"},
         AddMember(g, u, role)
  PROVE  MemberInv'
  <1>1. MembershipTypeOK'
    BY DEF MemberInv, MembershipTypeOK, AddMember, Roles
  <1>2. opened' = opened /\ \A h \in Groups, v \in People :
            rank'[h][v] = IF h = g /\ v = u THEN role ELSE rank[h][v]
    BY DEF MemberInv, MembershipTypeOK, AddMember
  <1>3. rank[g][u] = "none"
    BY DEF AddMember
  <1>4. OneOwner'
    BY <1>2 DEF MemberInv, OneOwner
  <1>5. OwnedUnlessPurged'
    BY <1>2, <1>3 DEF MemberInv, OwnedUnlessPurged, OwnerKept
  <1> QED BY <1>1, <1>4, <1>5 DEF MemberInv

\* A rank that is given, or a seat that is taken, is never an owner's.
LEMMA SetRoleKeeps ==
  ASSUME MemberInv, NEW g \in Groups, NEW u \in People, NEW role \in Roles,
         role # "owner", role # "none", SetRole(g, u, role)
  PROVE  MemberInv'
  <1>1. MembershipTypeOK'
    BY DEF MemberInv, MembershipTypeOK, SetRole, Roles
  <1>2. opened' = opened /\ \A h \in Groups, v \in People :
            rank'[h][v] = IF h = g /\ v = u THEN role ELSE rank[h][v]
    BY DEF MemberInv, MembershipTypeOK, SetRole
  <1>3. rank[g][u] # "owner"
    BY DEF SetRole
  <1>4. OneOwner'
    BY <1>2 DEF MemberInv, OneOwner
  <1>5. OwnedUnlessPurged'
    BY <1>2, <1>3 DEF MemberInv, OwnedUnlessPurged, OwnerKept
  <1> QED BY <1>1, <1>4, <1>5 DEF MemberInv

LEMMA RemoveMemberKeeps ==
  ASSUME MemberInv, NEW g \in Groups, NEW u \in People, RemoveMember(g, u)
  PROVE  MemberInv'
  <1>1. MembershipTypeOK'
    BY DEF MemberInv, MembershipTypeOK, RemoveMember, Roles
  <1>2. opened' = opened /\ \A h \in Groups, v \in People :
            rank'[h][v] = IF h = g /\ v = u THEN "none" ELSE rank[h][v]
    BY DEF MemberInv, MembershipTypeOK, RemoveMember
  <1>3. rank[g][u] # "owner"
    BY DEF RemoveMember
  <1>4. OneOwner'
    BY <1>2 DEF MemberInv, OneOwner
  <1>5. OwnedUnlessPurged'
    BY <1>2, <1>3 DEF MemberInv, OwnedUnlessPurged, OwnerKept
  <1> QED BY <1>1, <1>4, <1>5 DEF MemberInv

\* The one who owned the group owns it no more, so the new owner is the only
\* one.
LEMMA TransferOwnershipKeeps ==
  ASSUME MemberInv, NEW g \in Groups, NEW from \in People, NEW to \in People,
         TransferOwnership(g, from, to)
  PROVE  MemberInv'
  <1>1. MembershipTypeOK'
    BY DEF MemberInv, MembershipTypeOK, TransferOwnership, Roles
  <1>2. opened' = opened /\ \A h \in Groups, v \in People :
            rank'[h][v] = IF h = g /\ v = to THEN "owner"
                          ELSE IF h = g /\ v = from THEN "dm" ELSE rank[h][v]
    BY DEF MemberInv, MembershipTypeOK, TransferOwnership
  <1>3. \A v \in People : rank[g][v] = "owner" => v = from
    BY DEF MemberInv, OneOwner, TransferOwnership
  <1>4. OneOwner'
    BY <1>2, <1>3 DEF MemberInv, OneOwner
  <1>5. OwnedUnlessPurged'
    BY <1>2 DEF MemberInv, OwnedUnlessPurged, OwnerKept
  <1> QED BY <1>1, <1>4, <1>5 DEF MemberInv

LEMMA CloseGroupKeeps ==
  ASSUME MemberInv, NEW g \in Groups, CloseGroup(g)
  PROVE  MemberInv'
  <1>1. MembershipTypeOK'
    BY DEF MemberInv, MembershipTypeOK, CloseGroup, Roles
  <1>2. \A h \in Groups : h # g => rank'[h] = rank[h] /\ opened'[h] = opened[h]
    BY DEF MemberInv, MembershipTypeOK, CloseGroup
  <1>3. opened'[g] = "gone" /\ \A v \in People : rank'[g][v] = "none"
    BY DEF MemberInv, MembershipTypeOK, CloseGroup
  <1>4. OneOwner'
    BY <1>2, <1>3 DEF MemberInv, OneOwner
  <1>5. OwnedUnlessPurged'
    BY <1>2, <1>3 DEF MemberInv, OwnedUnlessPurged, OwnerKept
  <1> QED BY <1>1, <1>4, <1>5 DEF MemberInv

\* Here alone a group may be left without an owner.
LEMMA DropAccountKeeps ==
  ASSUME MemberInv, NEW u \in People, DropAccount(u), Purges
  PROVE  MemberInv'
  <1>1. opened' = opened /\ rank' \in [Groups -> [People -> Roles]]
        /\ \A h \in Groups, v \in People : rank'[h][v] = IF v = u THEN "none" ELSE rank[h][v]
    BY DEF MemberInv, MembershipTypeOK, DropAccount, Roles
  <1>2. MembershipTypeOK'
    BY <1>1 DEF MemberInv, MembershipTypeOK, DropAccount
  <1>3. OneOwner'
    BY <1>1 DEF MemberInv, OneOwner
  <1>4. OwnedUnlessPurged'
    BY DEF OwnedUnlessPurged
  <1> QED BY <1>2, <1>3, <1>4 DEF MemberInv

-----------------------------------------------------------------------------
(* What each step does to the requests.                                    *)

LEMMA RequestSound ==
  ASSUME RequestInv, NEW q \in Requests
  PROVE  request[q] \in Request /\ Sound(request[q])
  BY DEF RequestInv

\* A rank that is to be given was read, and is not the owner's.
LEMMA MemberRequests ==
  ASSUME RequestInv, NEW q \in Requests, MemberStep(q)
  PROVE  RequestInv'
  <1>1. ASSUME NEW u \in People, NEW g \in Groups,
               CreateGroup(q, u, g)
        PROVE  RequestInv'
    BY <1>1, StillKeeps DEF CreateGroup
  <1>2. ASSUME NEW u \in People, NEW g \in Groups,
               AskDeleteGroup(q, u, g)
        PROVE  RequestInv'
    <2> DEFINE asked == [Idle EXCEPT !.step = "end all", !.group = g]
               r == [asked EXCEPT !.by = u]
    <2>1. r \in Request /\ Sound(r)
      BY <1>2, TableAssumption DEF AskDeleteGroup, Idle, Request, Roles, Steps, Sound, AtGroup, OnMember, AtGame, OnCharacter
    <2>2. Ask(q, u, asked)
      BY <1>2 DEF AskDeleteGroup
    <2> HIDE DEF asked
    <2> QED BY <2>1, <2>2, AskKeeps
  <1>3. ASSUME NEW u \in People, NEW t \in People, NEW g \in Groups, NEW role \in Roles,
               AskSetRole(q, u, g, t, role)
        PROVE  RequestInv'
    <2> DEFINE asked == [Idle EXCEPT !.step = "rank", !.group = g, !.whom = t, !.role = role]
               r == [asked EXCEPT !.by = u]
    <2>1. r \in Request /\ Sound(r)
      BY <1>3, TableAssumption DEF AskSetRole, Idle, Request, Roles, Steps, Sound, AtGroup, OnMember, AtGame, OnCharacter
    <2>2. Ask(q, u, asked)
      BY <1>3 DEF AskSetRole
    <2> HIDE DEF asked
    <2> QED BY <2>1, <2>2, AskKeeps
  <1>4. ASSUME NEW u \in People, NEW t \in People, NEW g \in Groups,
               AskRemoveMember(q, u, g, t)
        PROVE  RequestInv'
    <2> DEFINE asked == [Idle EXCEPT !.step = IF t = u THEN "unseat member" ELSE "dismiss",
                                     !.group = g, !.whom = t]
               r == [asked EXCEPT !.by = u]
    <2>1. r \in Request /\ Sound(r)
      BY <1>4, TableAssumption DEF AskRemoveMember, Idle, Request, Roles, Steps, Sound, AtGroup, OnMember, AtGame, OnCharacter
    <2>2. Ask(q, u, asked)
      BY <1>4 DEF AskRemoveMember
    <2> HIDE DEF asked
    <2> QED BY <2>1, <2>2, AskKeeps
  <1>5. ASSUME NEW u \in People, NEW g \in Groups, NEW role \in {"dm", "player"},
               Invite(q, u, g, role)
        PROVE  RequestInv'
    BY <1>5, StillKeeps DEF Invite
  <1>6. ASSUME NEW u \in People, NEW g \in Groups, NEW role \in {"dm", "player"},
               AskAccept(q, u, g, role)
        PROVE  RequestInv'
    <2> DEFINE asked == [Idle EXCEPT !.step = "accept", !.group = g, !.role = role]
               r == [asked EXCEPT !.by = u]
    <2>1. r \in Request /\ Sound(r)
      BY <1>6, TableAssumption DEF AskAccept, Idle, Request, Roles, Steps, Sound, AtGroup, OnMember, AtGame, OnCharacter
    <2>2. Ask(q, u, asked)
      BY <1>6 DEF AskAccept
    <2> HIDE DEF asked
    <2> QED BY <2>1, <2>2, AskKeeps
  <1>7. CASE ReadRank(q)
    <2>1. CASE request[q].role = "owner"
      <3> DEFINE r == [request[q] EXCEPT !.step = "hand"]
      <3>1. Sound(r)
        BY <1>7, RequestSound DEF ReadRank, At, Request, Sound, AtGroup, OnMember, AtGame, OnCharacter
      <3> QED BY <1>7, <2>1, <3>1, ThenKeeps DEF ReadRank, Steps
    <2>2. CASE request[q].role # "owner"
      <3> DEFINE r == [request[q] EXCEPT !.step = "appoint"]
      <3>1. Sound(r)
        BY <1>7, <2>2, RequestSound
        DEF ReadRank, At, Request, Roles, Sound, AtGroup, OnMember, AtGame, OnCharacter
      <3> QED BY <1>7, <2>2, <3>1, ThenKeeps DEF ReadRank, Steps
    <2> QED BY <2>1, <2>2
  <1>8. CASE Dismiss(q)
    <2> DEFINE r == [request[q] EXCEPT !.step = "unseat member"]
    <2>1. Sound(r)
      BY <1>8, RequestSound DEF Dismiss, At, Request, Sound, AtGroup, OnMember, AtGame, OnCharacter
    <2> QED BY <1>8, <2>1, ThenKeeps DEF Dismiss, Steps
  <1>9. CASE EndAll(q)
    <2> DEFINE r == [request[q] EXCEPT !.step = "clear table"]
    <2>1. Sound(r)
      BY <1>9, RequestSound DEF EndAll, At, Request, Sound, AtGroup, OnMember, AtGame, OnCharacter
    <2> QED BY <1>9, <2>1, ThenKeeps DEF EndAll, Steps
  <1>10. CASE ClearTable(q)
    <2> DEFINE r == [request[q] EXCEPT !.step = "close"]
    <2>1. Sound(r)
      BY <1>10, RequestSound DEF ClearTable, At, Request, Sound, AtGroup, OnMember, AtGame, OnCharacter
    <2> QED BY <1>10, <2>1, ThenKeeps DEF ClearTable, Steps
  <1>11. CASE Appoint(q) \/ Hand(q) \/ UnseatMember(q) \/ Accept(q) \/ Close(q)
    BY <1>11, ReturnKeeps DEF Appoint, Hand, UnseatMember, Accept, Close
  <1> QED BY <1>1, <1>2, <1>3, <1>4, <1>5, <1>6, <1>7, <1>8, <1>9, <1>10, <1>11 DEF MemberStep

\* A request that puts a character on a table has just seen whose it is.
LEMMA GameRequests ==
  ASSUME RequestInv, NEW q \in Requests, GameStep(q)
  PROVE  RequestInv'
  <1>1. ASSUME NEW u \in People, NEW g \in Groups, NEW c \in Characters,
               AskShare(q, u, g, c)
        PROVE  RequestInv'
    <2> DEFINE asked == [Idle EXCEPT !.step = "share", !.group = g, !.what = c]
               r == [asked EXCEPT !.by = u]
    <2>1. r \in Request /\ Sound(r)
      BY <1>1, TableAssumption DEF AskShare, Idle, Request, Roles, Steps, Sound, AtGroup, OnMember, AtGame, OnCharacter, owned
    <2>2. Ask(q, u, asked)
      BY <1>1 DEF AskShare
    <2> HIDE DEF asked
    <2> QED BY <2>1, <2>2, AskKeeps
  <1>2. ASSUME NEW u \in People, NEW g \in Groups, NEW c \in Characters,
               AskUnshare(q, u, g, c)
        PROVE  RequestInv'
    <2> DEFINE asked == [Idle EXCEPT !.step = "unseat", !.group = g, !.what = c]
               r == [asked EXCEPT !.by = u]
    <2>1. r \in Request /\ Sound(r)
      BY <1>2, TableAssumption DEF AskUnshare, Idle, Request, Roles, Steps, Sound, AtGroup, OnMember, AtGame, OnCharacter
    <2>2. Ask(q, u, asked)
      BY <1>2 DEF AskUnshare
    <2> HIDE DEF asked
    <2> QED BY <2>1, <2>2, AskKeeps
  <1>3. ASSUME NEW u \in People, NEW x \in Games,
               AskCreateGame(q, u, x)
        PROVE  RequestInv'
    <2> DEFINE asked == [Idle EXCEPT !.step = "start", !.group = GroupOf[x], !.game = x]
               r == [asked EXCEPT !.by = u]
    <2>1. r \in Request /\ Sound(r)
      BY <1>3, TableAssumption DEF AskCreateGame, Idle, Request, Roles, Steps, Sound, AtGroup, OnMember, AtGame, OnCharacter
    <2>2. Ask(q, u, asked)
      BY <1>3 DEF AskCreateGame
    <2> HIDE DEF asked
    <2> QED BY <2>1, <2>2, AskKeeps
  <1>4. ASSUME NEW u \in People, NEW x \in Games,
               AskRunning(q, u, x, "end", NoOne)
        PROVE  RequestInv'
    <2> DEFINE asked == [Idle EXCEPT !.step = "end", !.group = GroupOf[x], !.game = x, !.what = NoOne]
               r == [asked EXCEPT !.by = u]
    <2>1. r \in Request /\ Sound(r)
      BY <1>4, TableAssumption DEF AskRunning, Idle, Request, Roles, Steps, Sound, AtGroup, OnMember, AtGame, OnCharacter
    <2>2. Ask(q, u, asked)
      BY <1>4 DEF AskRunning
    <2> HIDE DEF asked
    <2> QED BY <2>1, <2>2, AskKeeps
  <1>5. ASSUME NEW u \in People, NEW x \in Games, NEW c \in Characters,
               AskRunning(q, u, x, "unlist", c)
        PROVE  RequestInv'
    <2> DEFINE asked == [Idle EXCEPT !.step = "unlist", !.group = GroupOf[x], !.game = x, !.what = c]
               r == [asked EXCEPT !.by = u]
    <2>1. r \in Request /\ Sound(r)
      BY <1>5, TableAssumption DEF AskRunning, Idle, Request, Roles, Steps, Sound, AtGroup, OnMember, AtGame, OnCharacter
    <2>2. Ask(q, u, asked)
      BY <1>5 DEF AskRunning
    <2> HIDE DEF asked
    <2> QED BY <2>1, <2>2, AskKeeps
  <1>6. ASSUME NEW u \in People, NEW x \in Games, NEW c \in Characters,
               AskRunning(q, u, x, "look", c)
        PROVE  RequestInv'
    <2> DEFINE asked == [Idle EXCEPT !.step = "look", !.group = GroupOf[x], !.game = x, !.what = c]
               r == [asked EXCEPT !.by = u]
    <2>1. r \in Request /\ Sound(r)
      BY <1>6, TableAssumption DEF AskRunning, Idle, Request, Roles, Steps, Sound, AtGroup, OnMember, AtGame, OnCharacter
    <2>2. Ask(q, u, asked)
      BY <1>6 DEF AskRunning
    <2> HIDE DEF asked
    <2> QED BY <2>1, <2>2, AskKeeps
  <1>7. CASE Unseat(q)
    <2> DEFINE r == [request[q] EXCEPT !.step = "unshare"]
    <2>1. Sound(r)
      BY <1>7, RequestSound DEF Unseat, At, Request, Sound, AtGroup, OnMember, AtGame, OnCharacter
    <2> QED BY <1>7, <2>1, ThenKeeps DEF Unseat, Steps
  <1>8. CASE Publish(q)
    <2> DEFINE r == [request[q] EXCEPT !.step = "project"]
    <2>1. Sound(r)
      BY <1>8, RequestSound DEF Publish, At, Request, Sound, AtGroup, OnMember, AtGame, OnCharacter
    <2> QED BY <1>8, <2>1, ThenKeeps DEF Publish, Steps
  <1>9. CASE ProjectSeat(q)
    <2> DEFINE r == [request[q] EXCEPT !.step = "seat"]
    <2>1. Sound(r)
      BY <1>9, RequestSound DEF ProjectSeat, At, Request, Sound, AtGroup, OnMember, AtGame, OnCharacter
    <2> QED BY <1>9, <2>1, ThenKeeps DEF ProjectSeat, Steps
  <1>10. CASE Look(q)
    <2>1. CASE Then(q, "project")
      <3> DEFINE r == [request[q] EXCEPT !.step = "project"]
      <3>1. Sound(r)
        BY <1>10, RequestSound DEF Look, At, Request, Sound, AtGroup, OnMember, AtGame, OnCharacter
      <3> QED BY <2>1, <3>1, ThenKeeps DEF Steps
    <2>2. CASE owned(request[q].by, request[q].what) /\ Then(q, "publish")
      <3> DEFINE r == [request[q] EXCEPT !.step = "publish"]
      <3>1. Sound(r)
        BY <1>10, <2>2, RequestSound
        DEF Look, At, owned, Request, Sound, AtGroup, OnMember, AtGame, OnCharacter
      <3> QED BY <2>2, <3>1, ThenKeeps DEF Steps
    <2> QED BY <1>10, <2>1, <2>2 DEF Look
  <1>11. CASE Share(q) \/ Unshare(q) \/ CreateGame(q) \/ DeleteGame(q) \/ RemoveCharacter(q) \/ Seat(q)
    BY <1>11, ReturnKeeps DEF Share, Unshare, CreateGame, DeleteGame, RemoveCharacter, Seat
  <1> QED BY <1>1, <1>2, <1>3, <1>4, <1>5, <1>6, <1>7, <1>8, <1>9, <1>10, <1>11 DEF GameStep

\* The groups an account was listed to sit at are groups, and what it was listed
\* to own are characters.
LEMMA PurgeRequests ==
  ASSUME RequestInv, MemberInv, NEW q \in Requests, PurgeStep(q)
  PROVE  RequestInv'
  <1>1. ASSUME NEW c \in Characters, AskDelete(q, c)
        PROVE  RequestInv'
    <2> DEFINE r == [Idle EXCEPT !.step = "find", !.by = Keeper[c], !.what = c]
    <2>1. r \in Request /\ Sound(r)
      <3>1. r \in Request
        BY <1>1, TableAssumption DEF Idle, Request, Roles, Steps
      <3>2. Sound(r)
        BY <1>1, TableAssumption DEF Idle, Sound, AtGroup, OnMember, AtGame, OnCharacter
      <3> QED BY <3>1, <3>2
    <2>2. request' = [request EXCEPT ![q] = r]
      BY <1>1, RequestSound DEF AskDelete
    <2> QED BY <2>1, <2>2, ReplaceKeeps
  <1>2. ASSUME NEW u \in People, AskPurge(q, u)
        PROVE  RequestInv'
    <2> DEFINE seats == {<<g, rank[g][u]>> : g \in {h \in Groups : rank[h][u] # "none"}}
               left == {g \in Groups : rank[g][u] = "owner"}
               asked == [Idle EXCEPT !.step = "audit", !.seats = seats, !.left = left]
               r == [asked EXCEPT !.by = u]
    <2>1. seats \in SUBSET (Groups \X Roles)
      <3>1. \A g \in Groups : rank[g][u] \in Roles
        BY DEF MemberInv, MembershipTypeOK
      <3> QED BY <3>1
    <2>2. left \in SUBSET Groups
      OBVIOUS
    <2>3. Ask(q, u, asked) /\ Purges
      BY <1>2 DEF AskPurge
    <2> HIDE DEF seats, left
    <2>4. r \in Request /\ Sound(r)
      BY <2>1, <2>2, <2>3, TableAssumption DEF Idle, Request, Roles, Steps, Sound, AtGroup, OnMember, AtGame, OnCharacter
    <2> HIDE DEF asked
    <2> QED BY <2>3, <2>4, AskKeeps
  <1>3. CASE Find(q)
    <2> DEFINE left == {g \in Groups : request[q].what \in pool[g]}
               r == [request[q] EXCEPT !.step = "clear", !.left = left]
    <2>1. left \in SUBSET Groups
      OBVIOUS
    <2>2. request' = [request EXCEPT ![q] = r]
      BY <1>3, RequestSound DEF Find, RequestInv
    <2> HIDE DEF left
    <2>3. request[q].step = "find" /\ request[q] \in Request /\ Sound(request[q])
      BY <1>3, RequestSound DEF Find, At
    <2>4. /\ r \in Request /\ r.step = "clear" /\ r.by = request[q].by /\ r.what = request[q].what
          /\ r.purging = request[q].purging
      BY <2>1, <2>3 DEF Request, Steps
    <2> HIDE DEF r
    <2>5. Sound(r)
      BY <2>1, <2>3, <2>4 DEF Sound, AtGroup, OnMember, AtGame, OnCharacter
    <2> QED BY <2>2, <2>4, <2>5, ReplaceKeeps
  <1>4. CASE Clear(q)
    <2> PICK g \in request[q].left : request' = [request EXCEPT ![q].left = @ \ {g}]
      BY <1>4 DEF Clear
    <2> DEFINE left == request[q].left \ {g}
               r == [request[q] EXCEPT !.left = left]
    <2>1. left \in SUBSET Groups
      BY RequestSound DEF Request
    <2>2. request' = [request EXCEPT ![q] = r]
      BY RequestSound DEF RequestInv
    <2> HIDE DEF left
    <2>3. request[q].step = "clear" /\ request[q] \in Request /\ Sound(request[q])
      BY <1>4, RequestSound DEF Clear, At
    <2>4. /\ r \in Request /\ r.step = "clear" /\ r.by = request[q].by /\ r.what = request[q].what
          /\ r.purging = request[q].purging
      BY <2>1, <2>3 DEF Request, Steps
    <2> HIDE DEF r
    <2>5. Sound(r)
      BY <2>1, <2>3, <2>4 DEF Sound, AtGroup, OnMember, AtGame, OnCharacter
    <2> QED BY <2>2, <2>4, <2>5, ReplaceKeeps
  <1>5. CASE Withdraw(q)
    <2> DEFINE r == [request[q] EXCEPT !.step = "erase"]
    <2>1. Sound(r)
      BY <1>5, RequestSound DEF Withdraw, At, Request, Sound, AtGroup, OnMember, AtGame, OnCharacter
    <2> QED BY <1>5, <2>1, ThenKeeps DEF Withdraw, Steps
  <1>6. CASE Erase(q)
    BY <1>6, ReturnKeeps DEF Erase
  <1>7. CASE Audit(q)
    <2> PICK g \in request[q].left : request' = [request EXCEPT ![q].left = @ \ {g}]
      BY <1>7 DEF Audit
    <2> DEFINE left == request[q].left \ {g}
               r == [request[q] EXCEPT !.left = left]
    <2>1. left \in SUBSET Groups
      BY RequestSound DEF Request
    <2>2. request' = [request EXCEPT ![q] = r]
      BY RequestSound DEF RequestInv
    <2> HIDE DEF left
    <2>3. request[q].step = "audit" /\ request[q] \in Request /\ Sound(request[q])
      BY <1>7, RequestSound DEF Audit, At
    <2>4. /\ r \in Request /\ r.step = "audit" /\ r.by = request[q].by /\ r.what = request[q].what
          /\ r.purging = request[q].purging
      BY <2>1, <2>3 DEF Request, Steps
    <2> HIDE DEF r
    <2>5. Sound(r)
      BY <2>1, <2>3, <2>4 DEF Sound, AtGroup, OnMember, AtGame, OnCharacter
    <2> QED BY <2>2, <2>4, <2>5, ReplaceKeeps
  <1>8. CASE ListCharacters(q)
    <2> DEFINE chars == {c \in Characters : owned(request[q].by, c)}
               r == [request[q] EXCEPT !.step = "purge", !.purging = TRUE, !.chars = chars]
    <2>1. chars \in SUBSET Characters
      OBVIOUS
    <2>2. request' = [request EXCEPT ![q] = r]
      BY <1>8, RequestSound DEF ListCharacters, RequestInv
    <2> HIDE DEF chars
    <2>3. request[q].step = "audit" /\ request[q] \in Request /\ Sound(request[q])
      BY <1>8, RequestSound DEF ListCharacters, At
    <2>4. /\ r \in Request /\ r.step = "purge" /\ r.by = request[q].by /\ r.what = request[q].what
          /\ r.purging = TRUE
      BY <2>1, <2>3 DEF Request, Steps
    <2> HIDE DEF r
    <2>5. Sound(r)
      BY <2>1, <2>3, <2>4 DEF Sound, AtGroup, OnMember, AtGame, OnCharacter
    <2> QED BY <2>2, <2>4, <2>5, ReplaceKeeps
  <1>9. CASE PurgeCharacter(q)
    <2> PICK c \in request[q].chars :
            request' = [request EXCEPT ![q].step = "find", ![q].what = c, ![q].chars = @ \ {c}]
      BY <1>9 DEF PurgeCharacter
    <2> DEFINE chars == request[q].chars \ {c}
               r == [request[q] EXCEPT !.step = "find", !.what = c, !.chars = chars]
    <2>1. chars \in SUBSET Characters /\ c \in Characters
      BY RequestSound DEF Request
    <2>2. request' = [request EXCEPT ![q] = r]
      BY RequestSound DEF RequestInv
    <2> HIDE DEF chars
    <2>3. request[q].step = "purge" /\ request[q] \in Request /\ Sound(request[q])
      BY <1>9, RequestSound DEF PurgeCharacter, At
    <2>4. /\ r \in Request /\ r.step = "find" /\ r.by = request[q].by /\ r.what = c
          /\ r.purging = request[q].purging
      BY <2>1, <2>3 DEF Request, Steps
    <2> HIDE DEF r
    <2>5. Sound(r)
      BY <2>1, <2>3, <2>4 DEF Sound, AtGroup, OnMember, AtGame, OnCharacter
    <2> QED BY <2>2, <2>4, <2>5, ReplaceKeeps
  <1>10. CASE PurgeSeat(q)
    <2> PICK seat \in request[q].seats :
            request' = [request EXCEPT
                ![q].step = IF seat[2] = "owner" THEN "end all" ELSE "unseat member",
                ![q].group = seat[1], ![q].whom = request[q].by,
                ![q].seats = @ \ {seat}]
      BY <1>10 DEF PurgeSeat
    <2> DEFINE step == IF seat[2] = "owner" THEN "end all" ELSE "unseat member"
               g == seat[1]
               seats == request[q].seats \ {seat}
               r == [request[q] EXCEPT !.step = step, !.group = g, !.whom = request[q].by,
                                       !.seats = seats]
    <2>1. request[q].seats \in SUBSET (Groups \X Roles)
      BY RequestSound DEF Request
    <2>2. /\ g \in Groups /\ step \in {"end all", "unseat member"}
          /\ seats \in SUBSET (Groups \X Roles)
      BY <2>1
    <2>3. request' = [request EXCEPT ![q] = r]
      BY RequestSound DEF RequestInv
    <2> HIDE DEF step, g, seats
    <2>4. request[q].by \in People /\ Purges
      BY <1>10, RequestSound DEF PurgeSeat, At, Sound
    <2>5. r \in Request
      <3>1. request[q] \in Request /\ step \in Steps
        BY <2>2, RequestSound DEF Steps
      <3> QED BY <2>2, <2>4, <3>1 DEF Request
    <2>6. r.step = step /\ r.group = g /\ r.by = request[q].by /\ r.whom = request[q].by
      BY RequestSound DEF Request
    <2>7. Sound(r)
      <3> HIDE DEF r
      <3> QED BY <2>2, <2>4, <2>6 DEF Sound, AtGroup, OnMember, AtGame, OnCharacter
    <2> QED BY <2>3, <2>5, <2>7, ReplaceKeeps
  <1>11. CASE PurgeAccount(q)
    BY <1>11, IdleIsRequest, ReplaceKeeps DEF PurgeAccount
  <1> QED BY <1>1, <1>2, <1>3, <1>4, <1>5, <1>6, <1>7, <1>8, <1>9, <1>10, <1>11 DEF PurgeStep

LEMMA RequestsKeep ==
  ASSUME RequestInv, TableInv, MemberInv, [Next]_vars
  PROVE  RequestInv'
  <1>1. CASE UNCHANGED vars
    BY <1>1, StillKeeps DEF vars
  <1>2. ASSUME NEW q \in Requests, Abandon(q)
        PROVE  RequestInv'
    BY <1>2, IdleIsRequest, ReplaceKeeps DEF Abandon
  <1> QED BY <1>1, <1>2, MemberRequests, GameRequests, PurgeRequests DEF Next

-----------------------------------------------------------------------------
(* Which statement on group_members a step runs, and what its request had  *)
(* checked.                                                                *)

\* A request that returns is at another step than the one it was at.
LEMMA ReturnMoves ==
  ASSUME RequestInv, NEW q \in Requests, Return(q), request[q].step \notin {"idle", "purge"}
  PROVE  request'[q] # request[q]
  <1> DEFINE me == request[q]
             r == IF me.purging THEN [Idle EXCEPT !.step = "purge", !.by = me.by, !.purging = TRUE,
                                                  !.seats = me.seats, !.chars = me.chars]
                  ELSE Idle
  <1>1. request'[q] = r
    BY DEF Return, RequestInv
  <1>2. r.step \in {"idle", "purge"}
    BY DEF Idle
  <1> QED BY <1>1, <1>2

StatementOf ==
    \/ UNCHANGED memberVars
    \/ \E g \in Groups, u \in People : OpenGroup(g, u)
    \/ \E g \in Groups, u \in People, role \in {"dm", "player"} : AddMember(g, u, role)
    \/ \E q \in Requests, g \in Groups, u \in People, role \in {"dm", "player"} :
          SetRole(g, u, role) /\ request[q].step = "appoint" /\ request'[q] # request[q]
    \/ \E g \in Groups, u \in People : RemoveMember(g, u)
    \/ \E q \in Requests, g \in Groups, from, to \in People :
          TransferOwnership(g, from, to) /\ request[q].step = "hand" /\ request'[q] # request[q]
    \/ \E g \in Groups : CloseGroup(g)
    \/ Purges /\ \E u \in People : DropAccount(u)

LEMMA MemberStatements ==
  ASSUME IInv, NEW q \in Requests, MemberStep(q)
  PROVE  StatementOf
  <1> DEFINE me == request[q]
  <1>1. me \in Request /\ Sound(me) /\ RequestInv
    BY RequestSound DEF IInv
  <1>2. ASSUME NEW u \in People, NEW g \in Groups, CreateGroup(q, u, g)
        PROVE  StatementOf
    BY <1>2 DEF CreateGroup, StatementOf
  <1>3. CASE Appoint(q)
    <2>1. SetRole(me.group, me.whom, me.role) /\ me.step = "appoint" /\ Return(q)
      BY <1>3 DEF Appoint, At
    <2>2. me.group \in Groups /\ me.whom \in People /\ me.role \in {"dm", "player"}
      BY <1>1, <2>1 DEF Sound, AtGroup, OnMember
    <2>3. request'[q] # request[q]
      BY <1>1, <2>1, ReturnMoves
    <2> QED BY <2>1, <2>2, <2>3 DEF StatementOf
  <1>4. CASE Hand(q)
    <2>1. TransferOwnership(me.group, me.by, me.whom) /\ me.step = "hand" /\ Return(q)
      BY <1>4 DEF Hand, At
    <2>2. me.group \in Groups /\ me.by \in People /\ me.whom \in People
      BY <1>1, <2>1 DEF Sound, AtGroup, OnMember
    <2>3. request'[q] # request[q]
      BY <1>1, <2>1, ReturnMoves
    <2> QED BY <2>1, <2>2, <2>3 DEF StatementOf
  <1>5. CASE UnseatMember(q)
    <2>1. RemoveMember(me.group, me.whom) /\ me.step = "unseat member"
      BY <1>5 DEF UnseatMember, At
    <2>2. me.group \in Groups /\ me.whom \in People
      BY <1>1, <2>1 DEF Sound, AtGroup, OnMember
    <2> QED BY <2>1, <2>2 DEF StatementOf
  <1>6. CASE Accept(q)
    <2>1. AddMember(me.group, me.by, me.role) /\ me.step = "accept"
      BY <1>6 DEF Accept, At
    <2>2. me.group \in Groups /\ me.by \in People /\ me.role \in {"dm", "player"}
      BY <1>1, <2>1 DEF Sound, AtGroup
    <2> QED BY <2>1, <2>2 DEF StatementOf
  <1>7. CASE Close(q)
    <2>1. CloseGroup(me.group) /\ me.step = "close"
      BY <1>7 DEF Close, At
    <2>2. me.group \in Groups
      BY <1>1, <2>1 DEF Sound, AtGroup
    <2> QED BY <2>1, <2>2 DEF StatementOf
  <1>8. ASSUME NEW u \in People, NEW t \in People, NEW g \in Groups, NEW role \in Roles,
               AskDeleteGroup(q, u, g) \/ AskSetRole(q, u, g, t, role)
                   \/ AskRemoveMember(q, u, g, t) \/ AskAccept(q, u, g, role) \/ Invite(q, u, g, role)
        PROVE  UNCHANGED memberVars
    BY <1>8 DEF AskDeleteGroup, AskSetRole, AskRemoveMember, AskAccept, Invite
  <1>9. CASE ReadRank(q) \/ Dismiss(q) \/ EndAll(q) \/ ClearTable(q)
    BY <1>9 DEF ReadRank, Dismiss, EndAll, ClearTable, StatementOf
  <1>10. {"dm", "player"} \subseteq Roles /\ "player" \in Roles
    BY DEF Roles
  <1> QED BY <1>2, <1>3, <1>4, <1>5, <1>6, <1>7, <1>8, <1>9, <1>10 DEF MemberStep, StatementOf

LEMMA GameStatements ==
  ASSUME NEW q \in Requests, GameStep(q)
  PROVE  UNCHANGED memberVars
  <1>1. ASSUME NEW u \in People, NEW g \in Groups, NEW c \in Characters,
               AskShare(q, u, g, c) \/ AskUnshare(q, u, g, c)
        PROVE  UNCHANGED memberVars
    BY <1>1 DEF AskShare, AskUnshare
  <1>2. ASSUME NEW u \in People, NEW x \in Games, NEW step, NEW c,
               AskCreateGame(q, u, x) \/ AskRunning(q, u, x, step, c)
        PROVE  UNCHANGED memberVars
    BY <1>2 DEF AskCreateGame, AskRunning
  <1>3. CASE Share(q) \/ Unseat(q) \/ Unshare(q) \/ CreateGame(q) \/ DeleteGame(q)
    BY <1>3 DEF Share, Unseat, Unshare, CreateGame, DeleteGame
  <1>4. CASE RemoveCharacter(q) \/ Look(q) \/ Publish(q) \/ ProjectSeat(q) \/ Seat(q)
    BY <1>4 DEF RemoveCharacter, Look, Publish, ProjectSeat, Seat
  <1> QED BY <1>1, <1>2, <1>3, <1>4 DEF GameStep

LEMMA PurgeStatements ==
  ASSUME IInv, NEW q \in Requests, PurgeStep(q)
  PROVE  StatementOf
  <1>1. ASSUME NEW c \in Characters, AskDelete(q, c)
        PROVE  UNCHANGED memberVars
    BY <1>1 DEF AskDelete
  <1>2. ASSUME NEW u \in People, AskPurge(q, u)
        PROVE  UNCHANGED memberVars
    BY <1>2 DEF AskPurge
  <1>3. CASE Find(q) \/ Clear(q) \/ Withdraw(q) \/ Erase(q)
    BY <1>3 DEF Find, Clear, Withdraw, Erase, StatementOf
  <1>4. CASE Audit(q) \/ ListCharacters(q) \/ PurgeCharacter(q) \/ PurgeSeat(q)
    BY <1>4 DEF Audit, ListCharacters, PurgeCharacter, PurgeSeat, StatementOf
  <1>5. CASE PurgeAccount(q)
    <2>1. request[q].step = "purge" /\ DropAccount(request[q].by)
      BY <1>5 DEF PurgeAccount, At
    <2>2. request[q].by \in People /\ Purges
      BY <2>1, RequestSound DEF IInv, Sound
    <2> QED BY <2>1, <2>2 DEF StatementOf
  <1> QED BY <1>1, <1>2, <1>3, <1>4, <1>5 DEF PurgeStep, StatementOf

LEMMA Statements ==
  ASSUME IInv, [Next]_vars
  PROVE  StatementOf
  <1>1. CASE UNCHANGED vars
    BY <1>1 DEF vars, memberVars, StatementOf
  <1>2. ASSUME NEW q \in Requests, Abandon(q)
        PROVE  StatementOf
    BY <1>2 DEF Abandon, StatementOf
  <1> QED BY <1>1, <1>2, MemberStatements, GameStatements, PurgeStatements DEF Next, StatementOf

LEMMA MembersKeep ==
  ASSUME IInv, [Next]_vars
  PROVE  MemberInv'
  <1>1. MemberInv /\ StatementOf
    BY Statements DEF IInv
  <1>2. CASE UNCHANGED memberVars
    BY <1>1, <1>2 DEF memberVars, MemberInv, MembershipTypeOK, OneOwner, OwnedUnlessPurged, OwnerKept
  <1>3. {"dm", "player"} \subseteq Roles \ {"owner", "none"}
    BY DEF Roles
  <1> QED BY <1>1, <1>2, <1>3, OpenGroupKeeps, AddMemberKeeps, SetRoleKeeps, RemoveMemberKeeps,
             TransferOwnershipKeeps, CloseGroupKeeps, DropAccountKeeps DEF StatementOf

-----------------------------------------------------------------------------
(* What each step does to the tables and the games.                        *)

\* Opening a group takes nothing from another, and it has no games yet.
LEMMA TablesStill ==
  ASSUME TableInv, UNCHANGED <<tableVars, invited>>,
         \A g \in Groups : opened[g] = "open" => opened'[g] = "open"
  PROVE  TableInv'
  <1>1. \A x \in Games : GroupOf[x] \in Groups
    BY TableAssumption
  <1> QED BY <1>1 DEF TableInv, Referential, tableVars

LEMMA MemberTables ==
  ASSUME IInv, NEW q \in Requests, MemberStep(q)
  PROVE  TableInv'
  <1> DEFINE me == request[q]
  <1>1. me \in Request /\ Sound(me) /\ TableInv /\ MembershipTypeOK
    BY RequestSound DEF IInv, MemberInv
  <1>2. ASSUME NEW u \in People, NEW g \in Groups, CreateGroup(q, u, g)
        PROVE  TableInv'
    BY <1>1, <1>2, TablesStill DEF CreateGroup, OpenGroup, MembershipTypeOK
  <1>3. ASSUME NEW u \in People, NEW g \in Groups, NEW role \in {"dm", "player"},
               Invite(q, u, g, role)
        PROVE  TableInv'
    BY <1>1, <1>3 DEF Invite, TableInv, Referential, tableVars, memberVars
  <1>4. CASE EndAll(q)
    <2>1. me.group \in Groups
      BY <1>1, <1>4 DEF EndAll, At, Sound, AtGroup
    <2>2. opened' = opened
      BY <1>4 DEF EndAll, memberVars
    <2> QED BY <1>1, <1>4, <2>1, <2>2 DEF EndAll, GamesAt, TableInv, Referential
  <1>5. CASE ClearTable(q)
    <2>1. me.group \in Groups
      BY <1>1, <1>5 DEF ClearTable, At, Sound, AtGroup
    <2>2. opened' = opened
      BY <1>5 DEF ClearTable, memberVars
    <2> QED BY <1>1, <1>5, <2>1, <2>2 DEF ClearTable, TableInv, Referential
  <1>6. CASE Close(q)
    <2>1. me.group \in Groups
      BY <1>1, <1>6 DEF Close, At, Sound, AtGroup
    <2>2. \A g \in Groups : opened'[g] = IF g = me.group THEN "gone" ELSE opened[g]
      BY <1>1, <1>6, <2>1 DEF Close, CloseGroup, MembershipTypeOK
    <2>3. \A x \in Games : GroupOf[x] \in Groups
      BY TableAssumption
    <2>4. /\ game' \in [Games -> {"never", "open", "gone"}]
          /\ roster' \in [Games -> SUBSET Characters]
          /\ pool' \in [Groups -> SUBSET Characters]
      BY <1>1, <1>6 DEF Close, TableInv
    <2>5. Referential'
      BY <1>1, <1>6, <2>1, <2>2, <2>3 DEF Close, GamesAt, TableInv, Referential
    <2> QED BY <1>1, <1>6, <2>4, <2>5 DEF Close, TableInv
  <1>7. ASSUME NEW u \in People, NEW t \in People, NEW g \in Groups, NEW role \in Roles,
               AskDeleteGroup(q, u, g) \/ AskSetRole(q, u, g, t, role)
                   \/ AskRemoveMember(q, u, g, t) \/ AskAccept(q, u, g, role)
        PROVE  TableInv'
    BY <1>1, <1>7, TablesStill
    DEF AskDeleteGroup, AskSetRole, AskRemoveMember, AskAccept, memberVars
  <1>8. CASE ReadRank(q) \/ Dismiss(q)
    BY <1>1, <1>8, TablesStill DEF ReadRank, Dismiss, memberVars
  <1>9. CASE Appoint(q) \/ Hand(q) \/ UnseatMember(q) \/ Accept(q)
    BY <1>1, <1>9, TablesStill
    DEF Appoint, Hand, UnseatMember, Accept, SetRole, TransferOwnership, RemoveMember, AddMember
  <1>10. {"dm", "player"} \subseteq Roles /\ "player" \in Roles
    BY DEF Roles
  <1> QED BY <1>2, <1>3, <1>4, <1>5, <1>6, <1>7, <1>8, <1>9, <1>10 DEF MemberStep

LEMMA GameTables ==
  ASSUME IInv, NEW q \in Requests, GameStep(q)
  PROVE  TableInv'
  <1> DEFINE me == request[q]
  <1>1. me \in Request /\ Sound(me) /\ TableInv
    BY RequestSound DEF IInv
  <1>2. opened' = opened
    BY GameStatements DEF memberVars
  <1>3. \A x \in Games : GroupOf[x] \in Groups
    BY TableAssumption
  <1>4. ASSUME NEW u \in People, NEW g \in Groups, NEW c \in Characters,
               AskShare(q, u, g, c) \/ AskUnshare(q, u, g, c)
        PROVE  TableInv'
    BY <1>1, <1>2, <1>4, TablesStill DEF AskShare, AskUnshare
  <1>5. ASSUME NEW u \in People, NEW x \in Games, NEW step, NEW c,
               AskCreateGame(q, u, x) \/ AskRunning(q, u, x, step, c)
        PROVE  TableInv'
    BY <1>1, <1>2, <1>5, TablesStill DEF AskCreateGame, AskRunning
  <1>6. CASE Look(q) \/ ProjectSeat(q)
    BY <1>1, <1>2, <1>6, TablesStill DEF Look, ProjectSeat
  <1>7. CASE Share(q) \/ Publish(q)
    <2>1. me.group \in Groups /\ me.what \in Characters /\ PutOnTable(me.group, me.what)
      BY <1>1, <1>7 DEF Share, Publish, At, Sound, AtGroup, OnCharacter
    <2>2. UNCHANGED <<stored, game, roster, invited>>
      BY <1>7 DEF Share, Publish
    <2> QED BY <1>1, <1>2, <2>1, <2>2 DEF PutOnTable, TableInv, Referential
  <1>8. CASE Unshare(q)
    <2>1. me.group \in Groups
      BY <1>1, <1>8 DEF Unshare, At, Sound, AtGroup
    <2> QED BY <1>1, <1>2, <1>8, <2>1 DEF Unshare, TableInv, Referential
  <1>9. CASE Unseat(q)
    BY <1>1, <1>2, <1>9 DEF Unseat, TakeOffRosters, TableInv, Referential
  <1>10. CASE CreateGame(q)
    <2>1. me.game \in Games /\ me.group = GroupOf[me.game]
      BY <1>1, <1>10 DEF CreateGame, At, Sound, AtGame
    <2> QED BY <1>1, <1>2, <1>10, <2>1 DEF CreateGame, TableInv, Referential
  <1>11. CASE DeleteGame(q)
    <2>1. me.game \in Games
      BY <1>1, <1>11 DEF DeleteGame, At, Sound, AtGame
    <2> QED BY <1>1, <1>2, <1>11, <2>1 DEF DeleteGame, TableInv, Referential
  <1>12. CASE RemoveCharacter(q)
    <2>1. me.game \in Games
      BY <1>1, <1>12 DEF RemoveCharacter, At, Sound, AtGame
    <2> QED BY <1>1, <1>2, <1>12, <2>1 DEF RemoveCharacter, TableInv, Referential
  <1>13. CASE Seat(q)
    <2>1. me.game \in Games /\ me.what \in Characters
      BY <1>1, <1>13 DEF Seat, At, Sound, AtGame, OnCharacter
    <2> QED BY <1>1, <1>2, <1>13, <2>1 DEF Seat, TableInv, Referential
  <1> QED BY <1>4, <1>5, <1>6, <1>7, <1>8, <1>9, <1>10, <1>11, <1>12, <1>13 DEF GameStep

LEMMA PurgeTables ==
  ASSUME IInv, NEW q \in Requests, PurgeStep(q)
  PROVE  TableInv'
  <1> DEFINE me == request[q]
  <1>1. me \in Request /\ Sound(me) /\ TableInv
    BY RequestSound DEF IInv
  <1>2. ASSUME NEW c \in Characters, AskDelete(q, c)
        PROVE  TableInv'
    BY <1>1, <1>2, TablesStill DEF AskDelete, memberVars
  <1>3. ASSUME NEW u \in People, AskPurge(q, u)
        PROVE  TableInv'
    BY <1>1, <1>3, TablesStill DEF AskPurge, memberVars
  <1>4. CASE Clear(q)
    <2>1. PICK g \in me.left : TakeOffRosters(g, me.what)
      BY <1>4 DEF Clear
    <2>2. UNCHANGED <<opened, stored, pool, game, invited>>
      BY <1>4 DEF Clear, memberVars
    <2> QED BY <1>1, <2>1, <2>2 DEF TakeOffRosters, TableInv, Referential
  <1>5. CASE Withdraw(q)
    <2>1. opened' = opened
      BY <1>5 DEF Withdraw, memberVars
    <2> QED BY <1>1, <1>5, <2>1 DEF Withdraw, TableInv, Referential
  <1>6. CASE Erase(q)
    <2>1. opened' = opened /\ me.what \in Characters
      BY <1>1, <1>6 DEF Erase, memberVars, At, Sound, OnCharacter
    <2> QED BY <1>1, <1>6, <2>1 DEF Erase, TableInv, Referential
  <1>7. CASE Find(q) \/ Audit(q) \/ ListCharacters(q) \/ PurgeCharacter(q) \/ PurgeSeat(q)
    BY <1>1, <1>7, TablesStill DEF Find, Audit, ListCharacters, PurgeCharacter, PurgeSeat, memberVars
  <1>8. CASE PurgeAccount(q)
    BY <1>1, <1>8, TablesStill DEF PurgeAccount, DropAccount
  <1> QED BY <1>2, <1>3, <1>4, <1>5, <1>6, <1>7, <1>8 DEF PurgeStep

LEMMA TablesKeep ==
  ASSUME IInv, [Next]_vars
  PROVE  TableInv'
  <1>1. CASE UNCHANGED vars
    BY <1>1, TablesStill DEF vars, IInv, memberVars, tableVars
  <1>2. ASSUME NEW q \in Requests, Abandon(q)
        PROVE  TableInv'
    BY <1>2, TablesStill DEF Abandon, IInv, memberVars
  <1> QED BY <1>1, <1>2, MemberTables, GameTables, PurgeTables DEF Next

-----------------------------------------------------------------------------
(* The theorems.                                                           *)

LEMMA InvariantHolds == Spec => []IInv
  <1>1. Init => IInv
    <2> SUFFICES ASSUME Init PROVE IInv
      OBVIOUS
    <2>1. MemberInv
      BY DEF Init, MembershipInit, MemberInv, MembershipTypeOK, Roles, OneOwner,
             OwnedUnlessPurged, OwnerKept
    <2>2. TableInv
      BY DEF Init, MembershipInit, TableInv, Referential
    <2>3. RequestInv
      BY IdleIsRequest DEF Init, RequestInv
    <2> QED BY <2>1, <2>2, <2>3 DEF IInv
  <1>2. IInv /\ [Next]_vars => IInv'
    BY MembersKeep, TablesKeep, RequestsKeep DEF IInv
  <1> QED BY <1>1, <1>2, PTL DEF Spec

\* Every table holds what its columns and foreign keys allow: a group that is
\* closed leaves no seat, no table, no game and no roster behind, whatever was
\* made at it while it was being closed.
THEOREM TypeCorrect == Spec => []TypeOK
  <1>1. IInv => TypeOK
    BY DEF IInv, MemberInv, TableInv, RequestInv, TypeOK
  <1> QED BY <1>1, InvariantHolds, PTL

\* No group ever has two owners, for any number of transfers, invitations,
\* changes of rank and deletions at once.
THEOREM OneOwnerAlways == Spec => []OneOwner
  <1>1. IInv => OneOwner
    BY DEF IInv, MemberInv
  <1> QED BY <1>1, InvariantHolds, PTL

\* A group is never left without its owner but by the deletion of an account:
\* where no account is deleted, every open group has one, whatever races.
THEOREM OwnerKeptAlways ==
  ASSUME ~Purges
  PROVE  Spec => []OwnerKept
  <1>1. IInv => OwnerKept
    BY DEF IInv, MemberInv, OwnedUnlessPurged
  <1> QED BY <1>1, InvariantHolds, PTL

\* The owner of a group stops owning it only by handing it to a member, by
\* closing it, or with the account (Service.SetRole, Service.RemoveMember).
THEOREM HandsOverAlways == Spec => HandsOver
  <1> DEFINE HandsOverStep ==
         \A g \in Groups : \A u \in People :
            rank[g][u] = "owner" /\ rank'[g][u] # "owner" =>
                \/ opened'[g] = "gone"
                \/ account[u] /\ ~account'[u]
                \/ \E v \in Members(g) : rank'[g][v] = "owner"
  <1>1. IInv /\ [Next]_vars => HandsOverStep
    <2> SUFFICES ASSUME IInv, [Next]_vars, NEW g \in Groups, NEW u \in People,
                        rank[g][u] = "owner", rank'[g][u] # "owner"
                 PROVE  \/ opened'[g] = "gone"
                        \/ account[u] /\ ~account'[u]
                        \/ \E v \in Members(g) : rank'[g][v] = "owner"
      OBVIOUS
    <2>1. MembershipTypeOK /\ StatementOf
      BY Statements DEF IInv, MemberInv
    <2>2. account[u]
      BY <2>1 DEF MembershipTypeOK
    <2>3. ASSUME NEW h \in Groups, NEW v \in People, OpenGroup(h, v)
          PROVE  FALSE
      BY <2>1, <2>3 DEF OpenGroup, MembershipTypeOK
    <2>4. ASSUME NEW h \in Groups, NEW v \in People, NEW role,
                 AddMember(h, v, role) \/ SetRole(h, v, role) \/ RemoveMember(h, v)
          PROVE  FALSE
      BY <2>1, <2>4 DEF AddMember, SetRole, RemoveMember, MembershipTypeOK
    <2>5. ASSUME NEW h \in Groups, NEW from \in People, NEW to \in People,
                 TransferOwnership(h, from, to)
          PROVE  \E v \in Members(g) : rank'[g][v] = "owner"
      BY <2>1, <2>5 DEF TransferOwnership, MembershipTypeOK, Members
    <2>6. ASSUME NEW h \in Groups, CloseGroup(h)
          PROVE  opened'[g] = "gone"
      BY <2>1, <2>6 DEF CloseGroup, MembershipTypeOK
    <2>7. ASSUME NEW v \in People, DropAccount(v)
          PROVE  ~account'[u]
      BY <2>1, <2>7 DEF DropAccount, MembershipTypeOK
    <2>8. CASE UNCHANGED memberVars
      BY <2>8 DEF memberVars
    <2> QED BY <2>1, <2>2, <2>3, <2>4, <2>5, <2>6, <2>7, <2>8 DEF StatementOf
  <1> QED BY <1>1, InvariantHolds, PTL DEF Spec, HandsOver

\* Nobody who is seated gets another rank but by the owner's change of it: an
\* invitation that is accepted twice, or after a promotion, ranks nobody anew.
THEOREM RankedByOwnerAlways == Spec => RankedByOwner
  <1> DEFINE RankedStep ==
         \A g \in Groups : \A u \in People :
            rank[g][u] # "none" /\ rank'[g][u] \notin {"none", rank[g][u]} =>
                \E q \in Requests : request'[q] # request[q] /\ request[q].step \in {"appoint", "hand"}
  <1>1. IInv /\ [Next]_vars => RankedStep
    <2> SUFFICES ASSUME IInv, [Next]_vars, NEW g \in Groups, NEW u \in People,
                        rank[g][u] # "none", rank'[g][u] \notin {"none", rank[g][u]}
                 PROVE  \E q \in Requests :
                            request'[q] # request[q] /\ request[q].step \in {"appoint", "hand"}
      OBVIOUS
    <2>1. MembershipTypeOK /\ StatementOf
      BY Statements DEF IInv, MemberInv
    <2>2. ASSUME NEW h \in Groups, NEW v \in People, OpenGroup(h, v)
          PROVE  FALSE
      BY <2>1, <2>2 DEF OpenGroup, MembershipTypeOK
    <2>3. ASSUME NEW h \in Groups, NEW v \in People, NEW role,
                 AddMember(h, v, role) \/ RemoveMember(h, v)
          PROVE  FALSE
      BY <2>1, <2>3 DEF AddMember, RemoveMember, MembershipTypeOK
    <2>4. ASSUME NEW h \in Groups, CloseGroup(h)
          PROVE  FALSE
      BY <2>1, <2>4 DEF CloseGroup, MembershipTypeOK
    <2>5. ASSUME NEW v \in People, DropAccount(v)
          PROVE  FALSE
      BY <2>1, <2>5 DEF DropAccount, MembershipTypeOK
    <2>6. CASE UNCHANGED memberVars
      BY <2>6 DEF memberVars
    <2> QED BY <2>1, <2>2, <2>3, <2>4, <2>5, <2>6 DEF StatementOf
  <1> QED BY <1>1, InvariantHolds, PTL DEF Spec, RankedByOwner

\* What is on a table was put there in its owner's name (Service.Share,
\* Service.AddCharacters), whatever was shared and withdrawn in between.
THEOREM PublishedByKeeperAlways == Spec => PublishedByKeeper
  <1> DEFINE PublishedStep ==
         \A g \in Groups : \A c \in pool'[g] \ pool[g] :
            \E q \in Requests : request'[q] # request[q] /\ request[q].by = Keeper[c]
  <1>1. IInv /\ [Next]_vars => PublishedStep
    <2> SUFFICES ASSUME IInv, [Next]_vars, NEW g \in Groups, NEW c \in pool'[g] \ pool[g]
                 PROVE  \E q \in Requests : request'[q] # request[q] /\ request[q].by = Keeper[c]
      OBVIOUS
    <2>1. TableInv /\ RequestInv
      BY DEF IInv
    <2>2. pool # pool'
      OBVIOUS
    <2>3. PICK q \in Requests : MemberStep(q) \/ GameStep(q) \/ PurgeStep(q) \/ Abandon(q)
      BY <2>2 DEF Next, vars
    <2> DEFINE me == request[q]
    <2>4. me \in Request /\ Sound(me)
      BY <2>1, RequestSound
    <2>5. ASSUME PutOnTable(me.group, me.what), me.step \in {"share", "publish"},
                 request'[q] # request[q]
          PROVE  request'[q] # request[q] /\ request[q].by = Keeper[c]
      <3>1. me.group \in Groups
        BY <2>4, <2>5 DEF Sound, AtGroup
      <3>2. c = me.what
        BY <2>1, <2>5, <3>1 DEF PutOnTable, TableInv
      <3> QED BY <2>4, <2>5, <3>2 DEF Sound
    <2>6. CASE Share(q)
      <3>1. me.step = "share" /\ PutOnTable(me.group, me.what) /\ Return(q)
        BY <2>6 DEF Share, At
      <3>2. request'[q] # request[q]
        BY <2>1, <3>1, ReturnMoves
      <3> QED BY <2>5, <3>1, <3>2
    <2>7. CASE Publish(q)
      <3>1. me.step = "publish" /\ PutOnTable(me.group, me.what) /\ Then(q, "project")
        BY <2>7 DEF Publish, At
      <3>2. request'[q].step = "project"
        BY <2>1, <2>4, <3>1 DEF Then, RequestInv, Request
      <3> QED BY <2>5, <3>1, <3>2
    <2>8. CASE Unshare(q)
      <3>1. me.group \in Groups
        BY <2>4, <2>8 DEF Unshare, At, Sound, AtGroup
      <3> QED BY <2>1, <2>8, <3>1 DEF Unshare, TableInv
    <2>9. CASE ClearTable(q) \/ Close(q)
      <3>1. me.group \in Groups
        BY <2>4, <2>9 DEF ClearTable, Close, At, Sound, AtGroup
      <3>2. pool' = [pool EXCEPT ![me.group] = {}]
        BY <2>9 DEF ClearTable, Close
      <3> QED BY <2>1, <3>1, <3>2 DEF TableInv
    <2>10. CASE Withdraw(q)
      BY <2>1, <2>10 DEF Withdraw, TableInv
    <2>11. CASE GameStep(q) /\ ~Share(q) /\ ~Publish(q) /\ ~Unshare(q)
      <3>1. pool' = pool
        <4>1. ASSUME NEW u \in People, NEW h \in Groups, NEW d \in Characters,
                     AskShare(q, u, h, d) \/ AskUnshare(q, u, h, d)
              PROVE  pool' = pool
          BY <4>1 DEF AskShare, AskUnshare, tableVars
        <4>2. ASSUME NEW u \in People, NEW x \in Games, NEW step, NEW d,
                     AskCreateGame(q, u, x) \/ AskRunning(q, u, x, step, d)
              PROVE  pool' = pool
          BY <4>2 DEF AskCreateGame, AskRunning, tableVars
        <4>3. CASE Unseat(q) \/ CreateGame(q) \/ DeleteGame(q) \/ RemoveCharacter(q) \/ Look(q)
                       \/ ProjectSeat(q) \/ Seat(q)
          BY <4>3 DEF Unseat, CreateGame, DeleteGame, RemoveCharacter, Look, ProjectSeat, Seat,
                      tableVars
        <4> QED BY <2>11, <4>1, <4>2, <4>3 DEF GameStep
      <3> QED BY <2>2, <3>1
    <2>12. CASE MemberStep(q) /\ ~ClearTable(q) /\ ~Close(q)
      <3>1. pool' = pool
        <4>1. ASSUME NEW u \in People, NEW t \in People, NEW h \in Groups, NEW role,
                     AskDeleteGroup(q, u, h) \/ AskSetRole(q, u, h, t, role)
                         \/ AskRemoveMember(q, u, h, t) \/ AskAccept(q, u, h, role)
                         \/ CreateGroup(q, u, h) \/ Invite(q, u, h, role)
              PROVE  pool' = pool
          BY <4>1 DEF AskDeleteGroup, AskSetRole, AskRemoveMember, AskAccept, CreateGroup, Invite,
                      tableVars
        <4>2. CASE ReadRank(q) \/ Appoint(q) \/ Hand(q) \/ Dismiss(q) \/ UnseatMember(q)
                       \/ Accept(q) \/ EndAll(q)
          BY <4>2 DEF ReadRank, Appoint, Hand, Dismiss, UnseatMember, Accept, EndAll, tableVars
        <4> QED BY <2>12, <4>1, <4>2 DEF MemberStep
      <3> QED BY <2>2, <3>1
    <2>13. CASE PurgeStep(q) /\ ~Withdraw(q)
      <3>1. pool' = pool
        <4>1. ASSUME NEW d \in Characters, AskDelete(q, d)
              PROVE  pool' = pool
          BY <4>1 DEF AskDelete, tableVars
        <4>2. ASSUME NEW u \in People, AskPurge(q, u)
              PROVE  pool' = pool
          BY <4>2 DEF AskPurge, tableVars
        <4>3. CASE Find(q) \/ Clear(q) \/ Erase(q) \/ Audit(q) \/ ListCharacters(q)
                       \/ PurgeCharacter(q) \/ PurgeSeat(q) \/ PurgeAccount(q)
          BY <4>3 DEF Find, Clear, Erase, Audit, ListCharacters, PurgeCharacter, PurgeSeat,
                      PurgeAccount, tableVars
        <4> QED BY <2>13, <4>1, <4>2, <4>3 DEF PurgeStep
      <3> QED BY <2>2, <3>1
    <2>14. CASE Abandon(q)
      BY <2>2, <2>14 DEF Abandon, tableVars
    <2> QED BY <2>3, <2>6, <2>7, <2>8, <2>9, <2>10, <2>11, <2>12, <2>13, <2>14
  <1> QED BY <1>1, InvariantHolds, PTL DEF Spec, PublishedByKeeper

-----------------------------------------------------------------------------
(* One request at a time.  Nothing races it, but it may be cut short before *)
(* any of its steps: what it promised when it looked still holds when it   *)
(* writes, and what it leaves half done is nothing anybody sees.           *)

OneAtATime == \A p, q \in Requests : p = q

\* What a request found of the tables and relies on, at the steps that do.
Promising == {"project", "seat", "unshare", "clear table", "clear", "erase", "share", "publish"}

Kept(r) ==
    /\ r.step \in {"project", "seat"} => r.what \in pool[r.group]
    /\ r.step = "unshare" => \A x \in Games : GroupOf[x] = r.group => r.what \notin roster[x]
    /\ r.step = "clear table" => \A x \in Games : GroupOf[x] = r.group => game[x] # "open"
    /\ r.step = "clear" => \A x \in Games : r.what \in roster[x] => GroupOf[x] \in r.left
    /\ r.step = "erase" => \A g \in Groups : r.what \notin pool[g]
    /\ r.step \in {"share", "publish"} => stored[r.what]

TablesAlone ==
    /\ SeatsAreShared
    /\ NoGhosts
    /\ \A q \in Requests : Kept(request[q])

\* A step after which nothing is relied on.
LEMMA KeptAtRest ==
  ASSUME OneAtATime, NEW q \in Requests, request'[q].step \notin Promising
  PROVE  \A p \in Requests : Kept(request[p])'
  BY DEF OneAtATime, Promising, Kept

LEMMA TablesSame ==
  ASSUME TablesAlone, UNCHANGED <<stored, pool, roster>>, \A p \in Requests : Kept(request[p])'
  PROVE  TablesAlone'
  BY DEF TablesAlone, SeatsAreShared, NoGhosts

\* The step is all that changes of the request.
LEMMA ThenIs ==
  ASSUME RequestInv, NEW q \in Requests, NEW step, Then(q, step)
  PROVE  request'[q] = [request[q] EXCEPT !.step = step] /\ request'[q].step = step
  BY DEF Then, RequestInv, Request

LEMMA AskIs ==
  ASSUME RequestInv, NEW q \in Requests, NEW u, NEW asked, Ask(q, u, asked)
  PROVE  request'[q] = [asked EXCEPT !.by = u]
  BY DEF Ask, RequestInv

LEMMA ReturnIs ==
  ASSUME RequestInv, NEW q \in Requests, Return(q)
  PROVE  /\ request'[q] = IF request[q].purging
                          THEN [Idle EXCEPT !.step = "purge", !.by = request[q].by, !.purging = TRUE,
                                            !.seats = request[q].seats, !.chars = request[q].chars]
                          ELSE Idle
         /\ request'[q].step \in {"idle", "purge"}
         /\ request'[q].purging = request[q].purging
         /\ ~request[q].purging => request'[q].step = "idle"
         /\ request[q].purging => /\ request'[q].step = "purge" /\ request'[q].by = request[q].by
                                  /\ request'[q].seats = request[q].seats
  <1>1. request[q] \in Request
    BY DEF RequestInv
  <1>2. request'[q] = IF request[q].purging
                      THEN [Idle EXCEPT !.step = "purge", !.by = request[q].by, !.purging = TRUE,
                                        !.seats = request[q].seats, !.chars = request[q].chars]
                      ELSE Idle
    BY DEF Return, RequestInv
  <1>3. request[q].purging \in BOOLEAN
    BY <1>1 DEF Request
  <1>4. CASE request[q].purging
    <2>1. request'[q] = [Idle EXCEPT !.step = "purge", !.by = request[q].by, !.purging = TRUE,
                                     !.seats = request[q].seats, !.chars = request[q].chars]
      BY <1>2, <1>4
    <2>2. /\ request'[q].step = "purge" /\ request'[q].by = request[q].by
          /\ request'[q].seats = request[q].seats /\ request'[q].purging = TRUE
      BY <2>1 DEF Idle
    <2> QED BY <1>2, <1>3, <1>4, <2>2, Zenon
  <1>5. CASE request[q].purging = FALSE
    <2>1. request'[q] = Idle
      BY <1>2, <1>5
    <2>2. request'[q].step = "idle" /\ request'[q].purging = FALSE
      BY <2>1 DEF Idle
    <2> QED BY <1>2, <1>5, <2>2
  <1> QED BY <1>2, <1>3, <1>4, <1>5

LEMMA MemberAlone ==
  ASSUME OneAtATime, IInv, TablesAlone, NEW q \in Requests, MemberStep(q)
  PROVE  TablesAlone'
  <1> DEFINE me == request[q]
  <1>1. me \in Request /\ Sound(me) /\ RequestInv /\ TableInv
    BY RequestSound DEF IInv
  <1>2. ASSUME NEW u \in People, NEW g \in Groups, NEW role,
               CreateGroup(q, u, g) \/ Invite(q, u, g, role)
        PROVE  TablesAlone'
    BY <1>2 DEF CreateGroup, Invite, tableVars, TablesAlone, SeatsAreShared, NoGhosts, Kept
  <1>3. ASSUME NEW u \in People, NEW t \in People, NEW g \in Groups, NEW role,
               AskDeleteGroup(q, u, g) \/ AskSetRole(q, u, g, t, role)
                   \/ AskRemoveMember(q, u, g, t) \/ AskAccept(q, u, g, role)
        PROVE  TablesAlone'
    <2>1. PICK asked : Ask(q, u, asked) /\ [asked EXCEPT !.by = u].step \notin Promising
      <3>1. CASE AskDeleteGroup(q, u, g)
        <4>1. [[Idle EXCEPT !.step = "end all", !.group = g] EXCEPT !.by = u].step = "end all"
          BY DEF Idle
        <4> QED BY <3>1, <4>1 DEF AskDeleteGroup, Promising
      <3>2. CASE AskSetRole(q, u, g, t, role)
        <4>1. [[Idle EXCEPT !.step = "rank", !.group = g, !.whom = t, !.role = role] EXCEPT !.by = u].step = "rank"
          BY DEF Idle
        <4> QED BY <3>2, <4>1 DEF AskSetRole, Promising
      <3>3. CASE AskRemoveMember(q, u, g, t)
        <4>0. "unseat member" \notin Promising /\ "dismiss" \notin Promising
          BY DEF Promising
        <4>1. PICK step : step = (IF t = u THEN "unseat member" ELSE "dismiss") /\ step \notin Promising
          BY <4>0
        <4>2. [[Idle EXCEPT !.step = step, !.group = g, !.whom = t] EXCEPT !.by = u].step = step
          BY DEF Idle
        <4> QED BY <3>3, <4>1, <4>2 DEF AskRemoveMember
      <3>4. CASE AskAccept(q, u, g, role)
        <4>1. [[Idle EXCEPT !.step = "accept", !.group = g, !.role = role] EXCEPT !.by = u].step = "accept"
          BY DEF Idle
        <4> QED BY <3>4, <4>1 DEF AskAccept, Promising
      <3> QED BY <1>3, <3>1, <3>2, <3>3, <3>4
    <2>2. request'[q].step \notin Promising
      BY <1>1, <2>1, AskIs
    <2>3. UNCHANGED tableVars
      BY <1>3 DEF AskDeleteGroup, AskSetRole, AskRemoveMember, AskAccept
    <2> QED BY <2>2, <2>3, KeptAtRest, TablesSame DEF tableVars
  <1>4. CASE ReadRank(q) \/ Dismiss(q)
    <2>1. PICK step : Then(q, step) /\ step \notin Promising
      <3>1. CASE ReadRank(q)
        <4>0. "hand" \notin Promising /\ "appoint" \notin Promising
          BY DEF Promising
        <4>1. PICK step : step = (IF me.role = "owner" THEN "hand" ELSE "appoint") /\ step \notin Promising
          BY <4>0
        <4> QED BY <3>1, <4>1 DEF ReadRank
      <3>2. CASE Dismiss(q)
        <4>1. Then(q, "unseat member")
          BY <3>2 DEF Dismiss
        <4>2. "unseat member" \notin Promising
          BY DEF Promising
        <4> QED BY <4>1, <4>2
      <3> QED BY <1>4, <3>1, <3>2
    <2>2. request'[q].step \notin Promising
      BY <1>1, <2>1, ThenIs
    <2>3. UNCHANGED tableVars
      BY <1>4 DEF ReadRank, Dismiss
    <2> QED BY <2>2, <2>3, KeptAtRest, TablesSame DEF tableVars
  <1>5. CASE Appoint(q) \/ Hand(q) \/ UnseatMember(q) \/ Accept(q)
    <2>1. Return(q) /\ UNCHANGED tableVars
      BY <1>5 DEF Appoint, Hand, UnseatMember, Accept
    <2>2. request'[q].step \notin Promising
      BY <1>1, <2>1, ReturnIs DEF Promising
    <2> QED BY <2>1, <2>2, KeptAtRest, TablesSame DEF tableVars
  <1>6. CASE EndAll(q)
    <2>1. request'[q] = [me EXCEPT !.step = "clear table"] /\ request'[q].group = me.group
          /\ request'[q].step = "clear table"
      BY <1>1, <1>6, ThenIs DEF EndAll, Request
    <2>2. \A x \in Games : GroupOf[x] = me.group => game'[x] # "open"
      BY <1>6 DEF EndAll, GamesAt
    <2>3. \A p \in Requests : Kept(request[p])'
      BY <2>1, <2>2 DEF OneAtATime, Kept
    <2>4. (\A x \in Games : roster'[x] \subseteq roster[x]) /\ UNCHANGED <<stored, pool>>
      BY <1>6 DEF EndAll
    <2> QED BY <2>3, <2>4 DEF TablesAlone, SeatsAreShared, NoGhosts
  <1>7. CASE ClearTable(q)
    <2>1. me.group \in Groups
      BY <1>1, <1>7 DEF ClearTable, At, Sound, AtGroup
    <2>2. request'[q].step \notin Promising
      <3>1. request'[q].step = "close"
        BY <1>1, <1>7, ThenIs DEF ClearTable
      <3> QED BY <3>1 DEF Promising
    <2>3. \A x \in Games : GroupOf[x] = me.group => roster[x] = {}
      BY <1>1, <1>7 DEF ClearTable, At, TablesAlone, Kept, TableInv, Referential
    <2>4. /\ \A g \in Groups : pool'[g] = IF g = me.group THEN {} ELSE pool[g]
          /\ UNCHANGED <<stored, roster>>
      BY <1>1, <1>7, <2>1 DEF ClearTable, TableInv
    <2>5. \A x \in Games : GroupOf[x] \in Groups
      BY TableAssumption
    <2> QED BY <2>2, <2>3, <2>4, <2>5, KeptAtRest DEF TablesAlone, SeatsAreShared, NoGhosts
  <1>8. CASE Close(q)
    <2>1. me.group \in Groups
      BY <1>1, <1>8 DEF Close, At, Sound, AtGroup
    <2>2. request'[q].step \notin Promising
      BY <1>1, <1>8, ReturnIs DEF Close, Promising
    <2>3. \A x \in Games : roster'[x] = IF GroupOf[x] = me.group THEN {} ELSE roster[x]
      BY <1>1, <1>8 DEF Close, GamesAt, TableInv, Referential
    <2>4. /\ \A g \in Groups : pool'[g] = IF g = me.group THEN {} ELSE pool[g]
          /\ UNCHANGED stored
      BY <1>1, <1>8, <2>1 DEF Close, TableInv
    <2>5. \A x \in Games : GroupOf[x] \in Groups
      BY TableAssumption
    <2> QED BY <2>2, <2>3, <2>4, <2>5, KeptAtRest DEF TablesAlone, SeatsAreShared, NoGhosts
  <1> QED BY <1>2, <1>3, <1>4, <1>5, <1>6, <1>7, <1>8 DEF MemberStep, Roles

LEMMA GameAlone ==
  ASSUME OneAtATime, IInv, TablesAlone, NEW q \in Requests, GameStep(q)
  PROVE  TablesAlone'
  <1> DEFINE me == request[q]
  <1>1. me \in Request /\ Sound(me) /\ RequestInv /\ TableInv /\ Kept(me)
    BY RequestSound DEF IInv, TablesAlone
  <1>2. \A x \in Games : GroupOf[x] \in Groups
    BY TableAssumption
  <1>3. ASSUME NEW u \in People, NEW g \in Groups, NEW c \in Characters, AskShare(q, u, g, c)
        PROVE  TablesAlone'
    <2>1. request'[q] = [[Idle EXCEPT !.step = "share", !.group = g, !.what = c] EXCEPT !.by = u]
      BY <1>1, <1>3, AskIs DEF AskShare
    <2>2. request'[q].step = "share" /\ request'[q].what = c
      BY <2>1 DEF Idle
    <2>3. stored[c] /\ UNCHANGED tableVars
      BY <1>3 DEF AskShare, owned
    <2>4. \A p \in Requests : Kept(request[p])'
      BY <2>2, <2>3 DEF OneAtATime, Kept, tableVars
    <2> QED BY <2>3, <2>4, TablesSame DEF tableVars
  <1>4. ASSUME NEW u \in People, NEW g, NEW x, NEW c, NEW step \in {"end", "unlist", "look"},
               AskUnshare(q, u, g, c) \/ AskCreateGame(q, u, x) \/ AskRunning(q, u, x, step, c)
        PROVE  TablesAlone'
    <2>1. PICK asked : Ask(q, u, asked) /\ [asked EXCEPT !.by = u].step \notin Promising
      <3>1. CASE AskUnshare(q, u, g, c)
        <4>1. [[Idle EXCEPT !.step = "unseat", !.group = g, !.what = c] EXCEPT !.by = u].step = "unseat"
          BY DEF Idle
        <4>2. "unseat" \notin Promising
          BY DEF Promising
        <4> QED BY <3>1, <4>1, <4>2 DEF AskUnshare
      <3>2. CASE AskCreateGame(q, u, x)
        <4>1. [[Idle EXCEPT !.step = "start", !.group = GroupOf[x], !.game = x] EXCEPT !.by = u].step = "start"
          BY DEF Idle
        <4> QED BY <3>2, <4>1 DEF AskCreateGame, Promising
      <3>3. CASE AskRunning(q, u, x, step, c)
        <4>1. [[Idle EXCEPT !.step = step, !.group = GroupOf[x], !.game = x, !.what = c] EXCEPT !.by = u].step = step
          BY DEF Idle
        <4> QED BY <3>3, <4>1 DEF AskRunning, Promising
      <3> QED BY <1>4, <3>1, <3>2, <3>3
    <2>2. request'[q].step \notin Promising
      BY <1>1, <2>1, AskIs
    <2>3. UNCHANGED tableVars
      BY <1>4 DEF AskUnshare, AskCreateGame, AskRunning
    <2> QED BY <2>2, <2>3, KeptAtRest, TablesSame DEF tableVars
  <1>5. ASSUME PutOnTable(me.group, me.what), me.step \in {"share", "publish"}, UNCHANGED <<stored, roster>>,
               \A p \in Requests : Kept(request[p])'
        PROVE  TablesAlone'
    <2>1. me.group \in Groups /\ me.what \in Characters /\ stored[me.what]
      BY <1>1, <1>5 DEF Sound, AtGroup, OnCharacter, Kept
    <2>2. \A g \in Groups : pool'[g] = IF g = me.group THEN pool[g] \cup {me.what} ELSE pool[g]
      BY <1>1, <1>5, <2>1 DEF PutOnTable, TableInv
    <2>a. SeatsAreShared'
      BY <1>2, <1>5, <2>1, <2>2 DEF TablesAlone, SeatsAreShared
    <2>b. NoGhosts'
      <3> SUFFICES ASSUME NEW c \in Characters, ~stored'[c]
                   PROVE  (\A g \in Groups : c \notin pool'[g]) /\ \A x \in Games : c \notin roster'[x]
        BY DEF NoGhosts
      <3>1. ~stored[c]
        BY <1>5
      <3>2. c # me.what /\ (\A g \in Groups : c \notin pool[g]) /\ \A x \in Games : c \notin roster[x]
        BY <2>1, <3>1 DEF TablesAlone, NoGhosts
      <3> QED BY <1>5, <2>2, <3>2
    <2>c. \A p \in Requests : Kept(request[p])'
      BY <1>2, <1>5, <2>1, <2>2
    <2> QED BY <2>a, <2>b, <2>c DEF TablesAlone
  <1>6. CASE Share(q)
    <2>1. request'[q].step \notin Promising
      BY <1>1, <1>6, ReturnIs DEF Share, Promising
    <2> QED BY <1>5, <1>6, <2>1, KeptAtRest DEF Share, At
  <1>7. CASE Publish(q)
    <2>1. request'[q] = [me EXCEPT !.step = "project"] /\ request'[q].step = "project"
      BY <1>1, <1>7, ThenIs DEF Publish
    <2>2. request'[q].what = me.what /\ request'[q].group = me.group
      BY <1>1, <2>1 DEF Request
    <2>3. me.group \in Groups /\ me.what \in pool'[me.group]
      BY <1>1, <1>7 DEF Publish, At, Sound, AtGroup, PutOnTable, TableInv
    <2>4. \A p \in Requests : Kept(request[p])'
      BY <2>1, <2>2, <2>3 DEF OneAtATime, Kept
    <2> QED BY <1>5, <1>7, <2>4 DEF Publish, At
  <1>8. CASE Unseat(q)
    <2>1. request'[q] = [me EXCEPT !.step = "unshare"] /\ request'[q].step = "unshare"
      BY <1>1, <1>8, ThenIs DEF Unseat
    <2>2. request'[q].what = me.what /\ request'[q].group = me.group
      BY <1>1, <2>1 DEF Request
    <2>3. /\ \A x \in Games : roster'[x] = IF GroupOf[x] = me.group THEN roster[x] \ {me.what} ELSE roster[x]
          /\ UNCHANGED <<stored, pool>>
      BY <1>8 DEF Unseat, TakeOffRosters
    <2>4. \A p \in Requests : Kept(request[p])'
      BY <2>1, <2>2, <2>3 DEF OneAtATime, Kept
    <2> QED BY <2>3, <2>4 DEF TablesAlone, SeatsAreShared, NoGhosts
  <1>9. CASE Unshare(q)
    <2>1. request'[q].step \notin Promising
      BY <1>1, <1>9, ReturnIs DEF Unshare, Promising
    <2>2. me.group \in Groups /\ \A x \in Games : GroupOf[x] = me.group => me.what \notin roster[x]
      BY <1>1, <1>9 DEF Unshare, At, Sound, AtGroup, Kept
    <2>3. /\ \A g \in Groups : pool'[g] = IF g = me.group THEN pool[g] \ {me.what} ELSE pool[g]
          /\ UNCHANGED <<stored, roster>>
      BY <1>1, <1>9, <2>2 DEF Unshare, TableInv
    <2>a. SeatsAreShared'
      BY <1>2, <2>1, <2>2, <2>3 DEF TablesAlone, SeatsAreShared
    <2>b. NoGhosts'
      <3>1. NoGhosts /\ \A g \in Groups : pool'[g] \subseteq pool[g]
        BY <2>3 DEF TablesAlone
      <3> QED BY <2>3, <3>1 DEF NoGhosts
    <2>c. \A p \in Requests : Kept(request[p])'
      BY <1>2, <2>1, <2>2, <2>3, KeptAtRest
    <2> QED BY <2>a, <2>b, <2>c DEF TablesAlone
  <1>10. CASE CreateGame(q) \/ DeleteGame(q) \/ RemoveCharacter(q)
    <2>1. Return(q) /\ UNCHANGED <<stored, pool>>
      BY <1>10 DEF CreateGame, DeleteGame, RemoveCharacter
    <2>2. request'[q].step \notin Promising
      BY <1>1, <2>1, ReturnIs DEF Promising
    <2>3. \A x \in Games : roster'[x] \subseteq roster[x]
      BY <1>1, <1>10 DEF CreateGame, DeleteGame, RemoveCharacter, TableInv
    <2> QED BY <2>1, <2>2, <2>3, KeptAtRest DEF TablesAlone, SeatsAreShared, NoGhosts
  <1>11. CASE Look(q)
    <2>1. PICK step : /\ request'[q] = [me EXCEPT !.step = step] /\ request'[q].step = step
                      /\ \/ step = "project" /\ me.what \in pool[me.group]
                         \/ step = "publish" /\ stored[me.what]
      <3>1. CASE me.what \in pool[me.group] /\ Then(q, "project")
        <4>1. request'[q] = [me EXCEPT !.step = "project"] /\ request'[q].step = "project"
          BY <1>1, <3>1, ThenIs
        <4> QED BY <3>1, <4>1
      <3>2. CASE stored[me.what] /\ Then(q, "publish")
        <4>1. request'[q] = [me EXCEPT !.step = "publish"] /\ request'[q].step = "publish"
          BY <1>1, <3>2, ThenIs
        <4> QED BY <3>2, <4>1
      <3> QED BY <1>11, <3>1, <3>2 DEF Look, owned
    <2>2. request'[q].what = me.what /\ request'[q].group = me.group
      BY <1>1, <2>1 DEF Request
    <2>3. UNCHANGED tableVars
      BY <1>11 DEF Look
    <2>4. \A p \in Requests : Kept(request[p])'
      BY <2>1, <2>2, <2>3 DEF OneAtATime, Kept, tableVars
    <2> QED BY <2>3, <2>4, TablesSame DEF tableVars
  <1>12. CASE ProjectSeat(q)
    <2>1. request'[q] = [me EXCEPT !.step = "seat"] /\ request'[q].step = "seat"
      BY <1>1, <1>12, ThenIs DEF ProjectSeat
    <2>2. request'[q].what = me.what /\ request'[q].group = me.group
      BY <1>1, <2>1 DEF Request
    <2>3. UNCHANGED tableVars /\ me.what \in pool[me.group]
      BY <1>1, <1>12 DEF ProjectSeat, At, Kept
    <2>4. \A p \in Requests : Kept(request[p])'
      BY <2>1, <2>2, <2>3 DEF OneAtATime, Kept, tableVars
    <2> QED BY <2>3, <2>4, TablesSame DEF tableVars
  <1>13. CASE Seat(q)
    <2>1. request'[q].step \notin Promising
      BY <1>1, <1>13, ReturnIs DEF Seat, Promising
    <2>2. /\ me.game \in Games /\ me.group = GroupOf[me.game] /\ me.group \in Groups
          /\ me.what \in Characters /\ me.what \in pool[me.group]
      BY <1>1, <1>13 DEF Seat, At, Sound, AtGame, AtGroup, OnCharacter, Kept
    <2>3. /\ \A x \in Games : roster'[x] = IF x = me.game THEN roster[x] \cup {me.what} ELSE roster[x]
          /\ UNCHANGED <<stored, pool>>
      BY <1>1, <1>13, <2>2 DEF Seat, TableInv
    <2>a. SeatsAreShared'
      <3> SUFFICES ASSUME NEW x \in Games PROVE roster'[x] \subseteq pool'[GroupOf[x]]
        BY DEF SeatsAreShared
      <3>1. roster[x] \subseteq pool[GroupOf[x]]
        BY DEF TablesAlone, SeatsAreShared
      <3> QED BY <2>2, <2>3, <3>1
    <2>b. NoGhosts'
      <3> SUFFICES ASSUME NEW c \in Characters, ~stored'[c]
                   PROVE  (\A g \in Groups : c \notin pool'[g]) /\ \A x \in Games : c \notin roster'[x]
        BY DEF NoGhosts
      <3>1. ~stored[c]
        BY <2>3
      <3>2. (\A g \in Groups : c \notin pool[g]) /\ \A x \in Games : c \notin roster[x]
        BY <3>1 DEF TablesAlone, NoGhosts
      <3>3. c # me.what
        BY <2>2, <3>2
      <3> QED BY <2>3, <3>2, <3>3
    <2>c. \A p \in Requests : Kept(request[p])'
      BY <1>2, <2>1, <2>2, <2>3, KeptAtRest
    <2> QED BY <2>a, <2>b, <2>c DEF TablesAlone
  <1>14. {"end", "unlist", "look"} # {} /\ "end" \in {"end", "unlist", "look"}
    OBVIOUS
  <1> QED BY <1>3, <1>4, <1>6, <1>7, <1>8, <1>9, <1>10, <1>11, <1>12, <1>13, <1>14 DEF GameStep

LEMMA PurgeAlone ==
  ASSUME OneAtATime, IInv, TablesAlone, NEW q \in Requests, PurgeStep(q)
  PROVE  TablesAlone'
  <1> DEFINE me == request[q]
  <1>1. me \in Request /\ Sound(me) /\ RequestInv /\ TableInv /\ Kept(me)
    BY RequestSound DEF IInv, TablesAlone
  <1>2. \A x \in Games : GroupOf[x] \in Groups
    BY TableAssumption
  <1>3. ASSUME NEW c \in Characters, AskDelete(q, c)
        PROVE  TablesAlone'
    <2>1. request'[q].step \notin Promising
      BY <1>1, <1>3 DEF AskDelete, RequestInv, Idle, Promising
    <2>2. UNCHANGED tableVars
      BY <1>3 DEF AskDelete
    <2> QED BY <2>1, <2>2, KeptAtRest, TablesSame DEF tableVars
  <1>4. CASE Find(q)
    <2>1. /\ request'[q].step = "clear" /\ request'[q].what = me.what
          /\ request'[q].left = {g \in Groups : me.what \in pool[g]}
      BY <1>1, <1>4 DEF Find, RequestInv, Request
    <2>2. UNCHANGED tableVars
      BY <1>4 DEF Find
    <2>3. \A x \in Games : me.what \in roster[x] => me.what \in pool[GroupOf[x]]
      BY DEF TablesAlone, SeatsAreShared
    <2>4. \A p \in Requests : Kept(request[p])'
      BY <1>2, <2>1, <2>2, <2>3 DEF OneAtATime, Kept, tableVars
    <2> QED BY <2>2, <2>4, TablesSame DEF tableVars
  <1>5. CASE Clear(q)
    <2>1. PICK g \in me.left : /\ TakeOffRosters(g, me.what)
                               /\ request' = [request EXCEPT ![q].left = @ \ {g}]
                               /\ UNCHANGED <<stored, pool>>
      BY <1>5 DEF Clear
    <2>2. /\ request'[q].step = "clear" /\ request'[q].what = me.what
          /\ request'[q].left = me.left \ {g}
      BY <1>1, <1>5, <2>1 DEF Clear, At, RequestInv, Request
    <2>3. \A x \in Games : roster'[x] = IF GroupOf[x] = g THEN roster[x] \ {me.what} ELSE roster[x]
      BY <2>1 DEF TakeOffRosters
    <2>4. \A p \in Requests : Kept(request[p])'
      <3>1. \A x \in Games : me.what \in roster[x] => GroupOf[x] \in me.left
        BY <1>1, <1>5 DEF Clear, At, Kept
      <3> QED BY <2>2, <2>3, <3>1 DEF OneAtATime, Kept
    <2> QED BY <2>1, <2>3, <2>4 DEF TablesAlone, SeatsAreShared, NoGhosts
  <1>6. CASE Withdraw(q)
    <2>1. request'[q] = [me EXCEPT !.step = "erase"] /\ request'[q].step = "erase"
      BY <1>1, <1>6, ThenIs DEF Withdraw
    <2>2. request'[q].what = me.what
      BY <1>1, <2>1 DEF Request
    <2>3. /\ \A g \in Groups : pool'[g] = pool[g] \ {me.what}
          /\ UNCHANGED <<stored, roster>>
      BY <1>6 DEF Withdraw
    <2>4. \A x \in Games : me.what \notin roster[x]
      BY <1>1, <1>6 DEF Withdraw, At, Kept
    <2>5. \A p \in Requests : Kept(request[p])'
      BY <2>1, <2>2, <2>3 DEF OneAtATime, Kept
    <2> QED BY <1>2, <2>3, <2>4, <2>5 DEF TablesAlone, SeatsAreShared, NoGhosts
  <1>7. CASE Erase(q)
    <2>1. request'[q].step \notin Promising
      BY <1>1, <1>7, ReturnIs DEF Erase, Promising
    <2>2. me.what \in Characters /\ \A g \in Groups : me.what \notin pool[g]
      BY <1>1, <1>7 DEF Erase, At, Sound, OnCharacter, Kept
    <2>3. /\ \A c \in Characters : stored'[c] = IF c = me.what THEN FALSE ELSE stored[c]
          /\ UNCHANGED <<pool, roster>>
      BY <1>1, <1>7, <2>2 DEF Erase, TableInv
    <2>a. SeatsAreShared'
      BY <1>2, <2>1, <2>2, <2>3 DEF TablesAlone, SeatsAreShared
    <2>b. NoGhosts'
      <3> SUFFICES ASSUME NEW c \in Characters, ~stored'[c]
                   PROVE  (\A g \in Groups : c \notin pool'[g]) /\ \A x \in Games : c \notin roster'[x]
        BY DEF NoGhosts
      <3>1. CASE c = me.what
        BY <1>2, <2>2, <2>3, <3>1 DEF TablesAlone, SeatsAreShared
      <3>2. CASE c # me.what
        <4>1. ~stored[c]
          BY <2>3, <3>2
        <4> QED BY <2>3, <4>1 DEF TablesAlone, NoGhosts
      <3> QED BY <3>1, <3>2
    <2>c. \A p \in Requests : Kept(request[p])'
      BY <1>2, <2>1, <2>2, <2>3, KeptAtRest
    <2> QED BY <2>a, <2>b, <2>c DEF TablesAlone
  <1>8. CASE Audit(q) \/ ListCharacters(q) \/ PurgeCharacter(q) \/ PurgeSeat(q) \/ PurgeAccount(q)
    <2>1. request'[q].step \notin Promising
      <3>1. CASE Audit(q)
        BY <1>1, <3>1 DEF Audit, At, RequestInv, Request, Promising
      <3>2. CASE ListCharacters(q)
        BY <1>1, <3>2 DEF ListCharacters, RequestInv, Request, Promising
      <3>3. CASE PurgeCharacter(q)
        BY <1>1, <3>3 DEF PurgeCharacter, RequestInv, Request, Promising
      <3>4. CASE PurgeSeat(q)
        <4>1. PICK seat \in me.seats :
                  request' = [request EXCEPT
                     ![q].step = IF seat[2] = "owner" THEN "end all" ELSE "unseat member",
                     ![q].group = seat[1], ![q].whom = me.by, ![q].seats = @ \ {seat}]
          BY <3>4 DEF PurgeSeat
        <4>2. request'[q].step = IF seat[2] = "owner" THEN "end all" ELSE "unseat member"
          BY <1>1, <4>1 DEF RequestInv, Request
        <4>3. "end all" \notin Promising /\ "unseat member" \notin Promising
          BY DEF Promising
        <4> QED BY <4>2, <4>3
      <3>5. CASE PurgeAccount(q)
        BY <1>1, <3>5 DEF PurgeAccount, RequestInv, Idle, Promising
      <3> QED BY <1>8, <3>1, <3>2, <3>3, <3>4, <3>5
    <2>2. UNCHANGED tableVars
      BY <1>8 DEF Audit, ListCharacters, PurgeCharacter, PurgeSeat, PurgeAccount
    <2> QED BY <2>1, <2>2, KeptAtRest, TablesSame DEF tableVars
  <1>9. ASSUME NEW u \in People, AskPurge(q, u)
        PROVE  TablesAlone'
    <2>1. request'[q].step \notin Promising
      BY <1>1, <1>9 DEF AskPurge, Ask, RequestInv, Idle, Promising
    <2>2. UNCHANGED tableVars
      BY <1>9 DEF AskPurge
    <2> QED BY <2>1, <2>2, KeptAtRest, TablesSame DEF tableVars
  <1> QED BY <1>3, <1>4, <1>5, <1>6, <1>7, <1>8, <1>9 DEF PurgeStep

LEMMA TablesAloneHold == ASSUME OneAtATime PROVE Spec => []TablesAlone
  <1>1. Init => TablesAlone
    BY DEF Init, TablesAlone, SeatsAreShared, NoGhosts, Kept, Idle
  <1>2. ASSUME IInv, TablesAlone, [Next]_vars PROVE TablesAlone'
    <2>1. CASE UNCHANGED vars
      BY <1>2, <2>1 DEF vars, TablesAlone, SeatsAreShared, NoGhosts, Kept
    <2>2. ASSUME NEW q \in Requests, Abandon(q) PROVE TablesAlone'
      <3>1. request'[q].step \notin Promising
        BY <1>2, <2>2 DEF Abandon, IInv, RequestInv, Idle, Promising
      <3> QED BY <1>2, <2>2, <3>1, KeptAtRest, TablesSame DEF Abandon, tableVars
    <2> QED BY <1>2, <2>1, <2>2, MemberAlone, GameAlone, PurgeAlone DEF Next
  <1> QED BY <1>1, <1>2, InvariantHolds, PTL DEF Spec

\* Nobody is seated at a game who is not on its group's table: where requests
\* come one at a time, none leaves it otherwise, wherever it is cut short
\* (Service.Unshare, Service.AddCharacters, DeleteForGroup).
THEOREM SeatsAreSharedAlone ==
  ASSUME OneAtATime
  PROVE  Spec => []SeatsAreShared
  <1>1. TablesAlone => SeatsAreShared
    BY DEF TablesAlone
  <1> QED BY <1>1, TablesAloneHold, PTL

\* A character that is deleted is on no table and no roster, where requests
\* come one at a time, wherever its deletion is cut short (UnshareEverywhere,
\* character.Service.Delete).
THEOREM NoGhostsAlone ==
  ASSUME OneAtATime
  PROVE  Spec => []NoGhosts
  <1>1. TablesAlone => NoGhosts
    BY DEF TablesAlone
  <1> QED BY <1>1, TablesAloneHold, PTL

-----------------------------------------------------------------------------
(* The deletion of an account, where requests come one at a time: what it  *)
(* listed of the account is what there is, until it has dealt with it.     *)

Closing == {"end all", "clear table", "close"}
Leaving == Closing \cup {"unseat member"}

\* The seat a deletion is dealing with.
Dealing(r, g) == r.step \in Leaving /\ r.group = g

Listed(r) ==
    /\ r.step = "idle" => r.purging = FALSE
    /\ r.step = "purge" => r.purging
    /\ r.purging => r.step \in {"purge", "find", "clear", "erase"} \cup Leaving
    /\ r.step = "audit" \/ r.purging =>
          \A g \in Groups :
             /\ rank[g][r.by] # "none" => <<g, rank[g][r.by]>> \in r.seats \/ Dealing(r, g)
             /\ <<g, "owner">> \in r.seats =>
                   /\ rank[g][r.by] = "owner" /\ ~Dealing(r, g)
                   /\ Members(g) = {r.by} \/ (r.step = "audit" /\ g \in r.left)
    /\ r.purging /\ r.step \in Closing => Members(r.group) = {r.by}
    /\ r.purging /\ r.step = "unseat member" => r.whom = r.by

PurgesAlone == OwnerKept /\ \A q \in Requests : Listed(request[q])

\* A request that deletes no account has listed nothing.
LEMMA ListedAtRest ==
  ASSUME OneAtATime, NEW q \in Requests, request'[q].purging = FALSE, request'[q].step \notin {"audit", "purge"}
  PROVE  \A p \in Requests : Listed(request[p])'
  <1>1. Listed(request[q])'
    BY DEF Listed
  <1> QED BY <1>1 DEF OneAtATime

\* A step that leaves the members alone, and the list.
LEMMA ListedStill ==
  ASSUME OneAtATime, NEW q \in Requests, Listed(request[q]), rank' = rank,
         request[q].purging, request'[q].purging = request[q].purging,
         request'[q].by = request[q].by, request'[q].seats = request[q].seats,
         \/ /\ request[q].step \in {"find", "clear", "erase", "purge"}
            /\ request'[q].step \in {"find", "clear", "erase", "purge"}
         \/ /\ request[q].step \in Closing /\ request'[q].step \in Closing
            /\ request'[q].group = request[q].group
  PROVE  \A p \in Requests : Listed(request[p])'
  <1>1. \A g \in Groups : Members(g)' = Members(g)
    BY DEF Members
  <1>2. \A g \in Groups : Dealing(request[q], g)' <=> Dealing(request[q], g)
    BY DEF Dealing, Closing, Leaving
  <1>3. request'[q].step \notin {"audit", "idle", "unseat member"} /\ request[q].step # "audit"
    BY DEF Closing
  <1>4. request'[q].step \in {"purge", "find", "clear", "erase"} \cup Leaving
    BY DEF Leaving
  <1>5. \A g \in Groups :
             /\ rank'[g][request'[q].by] # "none" =>
                   <<g, rank'[g][request'[q].by]>> \in request'[q].seats \/ Dealing(request[q], g)'
             /\ <<g, "owner">> \in request'[q].seats =>
                   /\ rank'[g][request'[q].by] = "owner" /\ ~Dealing(request[q], g)'
                   /\ Members(g)' = {request'[q].by}
    BY <1>1, <1>2, <1>3 DEF Listed
  <1>6. request'[q].step \in Closing => Members(request[q].group)' = {request'[q].by}
    <2>1. CASE request[q].step \in {"find", "clear", "erase", "purge"}
      BY <2>1 DEF Closing
    <2>2. CASE request[q].step \in Closing
      <3>1. request'[q].group = request[q].group /\ Members(request[q].group) = {request[q].by}
        BY <2>2 DEF Closing, Listed
      <3> QED BY <3>1 DEF Members
    <2> QED BY <2>1, <2>2
  <1>7. Listed(request[q])'
    BY <1>3, <1>4, <1>5, <1>6 DEF Listed
  <1> QED BY <1>7 DEF OneAtATime

\* Every statement but the deletion of an account leaves each group an owner.
LEMMA OwnerStays ==
  ASSUME MemberInv, OwnerKept,
         \/ UNCHANGED memberVars
         \/ \E g \in Groups, u \in People : OpenGroup(g, u)
         \/ \E g \in Groups, u \in People, role \in {"dm", "player"} : AddMember(g, u, role) \/ SetRole(g, u, role)
         \/ \E g \in Groups, u \in People : RemoveMember(g, u)
         \/ \E g \in Groups, from, to \in People : TransferOwnership(g, from, to)
         \/ \E g \in Groups : CloseGroup(g)
  PROVE  OwnerKept'
  <1>1. MembershipTypeOK
    BY DEF MemberInv
  <1>2. ASSUME NEW g \in Groups, NEW u \in People, OpenGroup(g, u) PROVE OwnerKept'
    BY <1>1, <1>2 DEF OpenGroup, MembershipTypeOK, OwnerKept
  <1>3. ASSUME NEW g \in Groups, NEW u \in People, NEW role,
               AddMember(g, u, role) \/ SetRole(g, u, role) \/ RemoveMember(g, u)
        PROVE  OwnerKept'
    <2>1. /\ opened' = opened /\ rank[g][u] # "owner"
          /\ \A h \in Groups, v \in People : (h # g \/ v # u) => rank'[h][v] = rank[h][v]
      BY <1>1, <1>3 DEF AddMember, SetRole, RemoveMember, MembershipTypeOK
    <2> QED BY <2>1 DEF OwnerKept
  <1>4. ASSUME NEW g \in Groups, NEW from \in People, NEW to \in People, TransferOwnership(g, from, to)
        PROVE  OwnerKept'
    <2>1. /\ opened' = opened /\ rank'[g][to] = "owner"
          /\ \A h \in Groups, v \in People : h # g => rank'[h][v] = rank[h][v]
      BY <1>1, <1>4 DEF TransferOwnership, MembershipTypeOK
    <2> QED BY <2>1 DEF OwnerKept
  <1>5. ASSUME NEW g \in Groups, CloseGroup(g) PROVE OwnerKept'
    <2>1. /\ \A h \in Groups : opened'[h] = IF h = g THEN "gone" ELSE opened[h]
          /\ \A h \in Groups, v \in People : h # g => rank'[h][v] = rank[h][v]
      BY <1>1, <1>5 DEF CloseGroup, MembershipTypeOK
    <2> QED BY <2>1 DEF OwnerKept
  <1>6. CASE UNCHANGED memberVars
    BY <1>6 DEF memberVars, OwnerKept
  <1> QED BY <1>2, <1>3, <1>4, <1>5, <1>6

\* The seat a deletion dealt with is gone, and no other.
LEMMA SeatDealtWith ==
  ASSUME OneAtATime, IInv, PurgesAlone, NEW q \in Requests, Return(q),
         request[q].purging, request[q].step \in Leaving,
         \A g \in Groups, v \in People : g # request[q].group => rank'[g][v] = rank[g][v],
         rank'[request[q].group][request[q].by] = "none"
  PROVE  \A p \in Requests : Listed(request[p])'
  <1> DEFINE me == request[q]
  <1>1. me \in Request /\ Sound(me) /\ RequestInv /\ Listed(me)
    BY RequestSound DEF IInv, PurgesAlone
  <1>2. me.by \in People
    BY <1>1 DEF Sound
  <1>3. /\ request'[q].step = "purge" /\ request'[q].by = me.by /\ request'[q].seats = me.seats
        /\ request'[q].purging
    BY <1>1, ReturnIs
  <1>4. ASSUME NEW g \in Groups
        PROVE  /\ rank'[g][me.by] # "none" => <<g, rank'[g][me.by]>> \in me.seats
               /\ <<g, "owner">> \in me.seats => rank'[g][me.by] = "owner" /\ Members(g)' = {me.by}
    <2>1. CASE g = me.group
      <3>1. Dealing(me, g)
        BY <2>1 DEF Dealing
      <3> QED BY <1>1, <2>1, <3>1 DEF Listed
    <2>2. CASE g # me.group
      <3>1. ~Dealing(me, g) /\ \A v \in People : rank'[g][v] = rank[g][v]
        BY <2>2 DEF Dealing
      <3>2. Members(g)' = Members(g)
        BY <3>1 DEF Members
      <3>3. me.step # "audit"
        BY DEF Leaving, Closing
      <3> QED BY <1>1, <1>2, <3>1, <3>2, <3>3 DEF Listed
    <2> QED BY <2>1, <2>2
  <1>5. Listed(request[q])'
    <2>1. request'[q].step \notin Leaving /\ request'[q].step \notin Closing
      BY <1>3 DEF Leaving, Closing
    <2>2. \A g \in Groups : ~Dealing(request[q], g)'
      BY <2>1 DEF Dealing
    <2>3. request'[q].step \notin {"idle", "audit", "unseat member"}
      BY <1>3
    <2> QED BY <1>3, <1>4, <2>1, <2>2, <2>3 DEF Listed
  <1> QED BY <1>5 DEF OneAtATime

LEMMA MemberListed ==
  ASSUME OneAtATime, IInv, PurgesAlone, NEW q \in Requests, MemberStep(q)
  PROVE  \A p \in Requests : Listed(request[p])'
  <1> DEFINE me == request[q]
  <1>1. me \in Request /\ Sound(me) /\ RequestInv /\ Listed(me) /\ MembershipTypeOK
    BY RequestSound DEF IInv, PurgesAlone, MemberInv
  <1>2. ASSUME NEW u \in People, NEW g \in Groups, CreateGroup(q, u, g)
        PROVE  \A p \in Requests : Listed(request[p])'
    <2>1. request'[q].purging = FALSE /\ request'[q].step = "idle"
      BY <1>1, <1>2 DEF CreateGroup, At, Listed
    <2> QED BY <2>1, ListedAtRest
  <1>3. ASSUME NEW u \in People, NEW g \in Groups, NEW role, Invite(q, u, g, role)
        PROVE  \A p \in Requests : Listed(request[p])'
    <2>1. request'[q].purging = FALSE /\ request'[q].step = "idle"
      BY <1>1, <1>3 DEF Invite, At, Listed
    <2> QED BY <2>1, ListedAtRest
  <1>4. ASSUME NEW u \in People, NEW t \in People, NEW g \in Groups, NEW role,
               AskDeleteGroup(q, u, g) \/ AskSetRole(q, u, g, t, role)
                   \/ AskRemoveMember(q, u, g, t) \/ AskAccept(q, u, g, role)
        PROVE  \A p \in Requests : Listed(request[p])'
    <2>1. ASSUME NEW asked, Ask(q, u, asked), [asked EXCEPT !.by = u].purging = FALSE,
                 [asked EXCEPT !.by = u].step \notin {"audit", "purge"}
          PROVE  \A p \in Requests : Listed(request[p])'
      <3>1. request'[q].purging = FALSE /\ request'[q].step \notin {"audit", "purge"}
        BY <1>1, <2>1, AskIs
      <3> QED BY <3>1, ListedAtRest
    <2>2. CASE AskDeleteGroup(q, u, g)
      <3>1. PICK asked : asked = [Idle EXCEPT !.step = "end all", !.group = g] /\ Ask(q, u, asked)
        BY <2>2 DEF AskDeleteGroup
      <3>2. [asked EXCEPT !.by = u].purging = FALSE /\ [asked EXCEPT !.by = u].step = "end all"
        BY <3>1 DEF Idle
      <3> QED BY <2>1, <3>1, <3>2
    <2>3. CASE AskSetRole(q, u, g, t, role)
      <3>1. PICK asked : /\ asked = [Idle EXCEPT !.step = "rank", !.group = g, !.whom = t, !.role = role]
                         /\ Ask(q, u, asked)
        BY <2>3 DEF AskSetRole
      <3>2. [asked EXCEPT !.by = u].purging = FALSE /\ [asked EXCEPT !.by = u].step = "rank"
        BY <3>1 DEF Idle
      <3> QED BY <2>1, <3>1, <3>2
    <2>4. CASE AskRemoveMember(q, u, g, t)
      <3>1. PICK step : step = IF t = u THEN "unseat member" ELSE "dismiss"
        OBVIOUS
      <3>2. step \notin {"audit", "purge"}
        BY <3>1
      <3>3. PICK asked : /\ asked = [Idle EXCEPT !.step = step, !.group = g, !.whom = t]
                         /\ Ask(q, u, asked)
        BY <2>4, <3>1 DEF AskRemoveMember
      <3>4. [asked EXCEPT !.by = u].purging = FALSE /\ [asked EXCEPT !.by = u].step = step
        BY <3>3 DEF Idle
      <3> QED BY <2>1, <3>2, <3>3, <3>4
    <2>5. CASE AskAccept(q, u, g, role)
      <3>1. PICK asked : asked = [Idle EXCEPT !.step = "accept", !.group = g, !.role = role] /\ Ask(q, u, asked)
        BY <2>5 DEF AskAccept
      <3>2. [asked EXCEPT !.by = u].purging = FALSE /\ [asked EXCEPT !.by = u].step = "accept"
        BY <3>1 DEF Idle
      <3> QED BY <2>1, <3>1, <3>2
    <2> QED BY <1>4, <2>2, <2>3, <2>4, <2>5
  <1>5. ASSUME NEW step, Then(q, step), ~me.purging, step \notin {"audit", "purge"}
        PROVE  \A p \in Requests : Listed(request[p])'
    <2>1. request'[q] = [me EXCEPT !.step = step] /\ request'[q].step = step
      BY <1>1, <1>5, ThenIs
    <2>2. request'[q].purging = FALSE
      BY <1>1, <1>5, <2>1 DEF Request
    <2> QED BY <1>5, <2>1, <2>2, ListedAtRest
  <1>6. ASSUME Return(q), ~me.purging
        PROVE  \A p \in Requests : Listed(request[p])'
    <2>1. request'[q].step \notin {"audit", "purge"} /\ request'[q].purging = me.purging /\ me.purging \in BOOLEAN
      BY <1>1, <1>6, ReturnIs DEF Request
    <2>2. request'[q].purging = FALSE
      BY <1>6, <2>1
    <2> QED BY <2>1, <2>2, ListedAtRest
  <1>7. CASE ReadRank(q) \/ Dismiss(q)
    <2>1. ~me.purging
      BY <1>1, <1>7 DEF ReadRank, Dismiss, At, Listed, Leaving, Closing
    <2>2. PICK step : Then(q, step) /\ step \notin {"audit", "purge"}
      <3>1. CASE ReadRank(q)
        <4>1. PICK step : step = (IF me.role = "owner" THEN "hand" ELSE "appoint")
          OBVIOUS
        <4>2. step \notin {"audit", "purge"}
          BY <4>1
        <4> QED BY <3>1, <4>1, <4>2 DEF ReadRank
      <3>2. CASE Dismiss(q)
        <4>1. Then(q, "unseat member")
          BY <3>2 DEF Dismiss
        <4>2. "unseat member" \notin {"audit", "purge"}
          OBVIOUS
        <4> QED BY <4>1, <4>2
      <3> QED BY <1>7, <3>1, <3>2
    <2> QED BY <1>5, <2>1, <2>2
  <1>8. CASE Appoint(q) \/ Hand(q) \/ Accept(q)
    <2>1. ~me.purging
      BY <1>1, <1>8 DEF Appoint, Hand, Accept, At, Listed, Leaving, Closing
    <2> QED BY <1>6, <1>8, <2>1 DEF Appoint, Hand, Accept
  <1>9. CASE EndAll(q) \/ ClearTable(q)
    <2>1. PICK step : /\ Then(q, step) /\ step \in Closing /\ step \notin {"audit", "purge"} /\ me.step \in Closing
                      /\ rank' = rank
      BY <1>9 DEF EndAll, ClearTable, At, Closing, memberVars
    <2>2. CASE ~me.purging
      BY <1>5, <2>1, <2>2
    <2>3. CASE me.purging
      <3>1. request'[q] = [me EXCEPT !.step = step] /\ request'[q].step = step
        BY <1>1, <2>1, ThenIs
      <3>2. /\ request'[q].purging = me.purging /\ request'[q].by = me.by
            /\ request'[q].seats = me.seats /\ request'[q].group = me.group
        BY <1>1, <3>1 DEF Request
      <3> QED BY <1>1, <2>1, <2>3, <3>1, <3>2, ListedStill
    <2> QED BY <2>2, <2>3
  <1>10. CASE UnseatMember(q)
    <2>1. CASE ~me.purging
      BY <1>6, <1>10, <2>1 DEF UnseatMember
    <2>2. CASE me.purging
      <3>1. me.step = "unseat member" /\ me.whom = me.by /\ me.by \in People /\ me.group \in Groups
        BY <1>1, <1>10, <2>2 DEF UnseatMember, At, Listed, Sound, AtGroup
      <3>2. /\ rank'[me.group][me.by] = "none"
            /\ \A g \in Groups, v \in People : g # me.group => rank'[g][v] = rank[g][v]
        BY <1>1, <1>10, <3>1 DEF UnseatMember, RemoveMember, MembershipTypeOK
      <3>3. me.step \in Leaving
        BY <3>1 DEF Leaving
      <3> QED BY <1>10, <2>2, <3>2, <3>3, SeatDealtWith DEF UnseatMember
    <2> QED BY <2>1, <2>2
  <1>11. CASE Close(q)
    <2>1. CASE ~me.purging
      BY <1>6, <1>11, <2>1 DEF Close
    <2>2. CASE me.purging
      <3>1. me.step = "close" /\ me.by \in People /\ me.group \in Groups
        BY <1>1, <1>11, <2>2 DEF Close, At, Sound, AtGroup
      <3>2. /\ rank'[me.group][me.by] = "none"
            /\ \A g \in Groups, v \in People : g # me.group => rank'[g][v] = rank[g][v]
        BY <1>1, <1>11, <3>1 DEF Close, CloseGroup, MembershipTypeOK
      <3>3. me.step \in Leaving
        BY <3>1 DEF Leaving, Closing
      <3> QED BY <1>11, <2>2, <3>2, <3>3, SeatDealtWith DEF Close
    <2> QED BY <2>1, <2>2
  <1>12. {"dm", "player"} \subseteq Roles
    BY DEF Roles
  <1> QED BY <1>2, <1>3, <1>4, <1>7, <1>8, <1>9, <1>10, <1>11, <1>12 DEF MemberStep

LEMMA GameListed ==
  ASSUME OneAtATime, IInv, PurgesAlone, NEW q \in Requests, GameStep(q)
  PROVE  \A p \in Requests : Listed(request[p])'
  <1> DEFINE me == request[q]
  <1>1. me \in Request /\ Sound(me) /\ RequestInv /\ Listed(me)
    BY RequestSound DEF IInv, PurgesAlone
  <1>2. ASSUME NEW u, NEW asked, Ask(q, u, asked), [asked EXCEPT !.by = u].purging = FALSE,
               [asked EXCEPT !.by = u].step \notin {"audit", "purge"}
        PROVE  \A p \in Requests : Listed(request[p])'
    <2>1. request'[q].purging = FALSE /\ request'[q].step \notin {"audit", "purge"}
      BY <1>1, <1>2, AskIs
    <2> QED BY <2>1, ListedAtRest
  <1>3. ASSUME NEW u, NEW g, NEW c, AskShare(q, u, g, c) \/ AskUnshare(q, u, g, c)
        PROVE  \A p \in Requests : Listed(request[p])'
    <2>1. PICK step : /\ step \notin {"audit", "purge"}
                      /\ Ask(q, u, [Idle EXCEPT !.step = step, !.group = g, !.what = c])
      BY <1>3 DEF AskShare, AskUnshare
    <2>2. PICK asked : asked = [Idle EXCEPT !.step = step, !.group = g, !.what = c]
      OBVIOUS
    <2>3. [asked EXCEPT !.by = u].purging = FALSE /\ [asked EXCEPT !.by = u].step = step
      BY <2>2 DEF Idle
    <2> QED BY <1>2, <2>1, <2>2, <2>3
  <1>4. ASSUME NEW u, NEW x, AskCreateGame(q, u, x)
        PROVE  \A p \in Requests : Listed(request[p])'
    <2>1. PICK asked : /\ asked = [Idle EXCEPT !.step = "start", !.group = GroupOf[x], !.game = x]
                       /\ Ask(q, u, asked)
      BY <1>4 DEF AskCreateGame
    <2>2. [asked EXCEPT !.by = u].purging = FALSE /\ [asked EXCEPT !.by = u].step = "start"
      BY <2>1 DEF Idle
    <2> QED BY <1>2, <2>1, <2>2
  <1>5. ASSUME NEW u, NEW x, NEW c, NEW step, step \notin {"audit", "purge"}, AskRunning(q, u, x, step, c)
        PROVE  \A p \in Requests : Listed(request[p])'
    <2>1. PICK asked : /\ asked = [Idle EXCEPT !.step = step, !.group = GroupOf[x], !.game = x, !.what = c]
                       /\ Ask(q, u, asked)
      BY <1>5 DEF AskRunning
    <2>2. [asked EXCEPT !.by = u].purging = FALSE /\ [asked EXCEPT !.by = u].step = step
      BY <2>1 DEF Idle
    <2> QED BY <1>2, <1>5, <2>1, <2>2
  <1>6. CASE Share(q) \/ Unshare(q) \/ CreateGame(q) \/ DeleteGame(q) \/ RemoveCharacter(q) \/ Seat(q)
    <2>1. ~me.purging /\ Return(q)
      BY <1>1, <1>6 DEF Share, Unshare, CreateGame, DeleteGame, RemoveCharacter, Seat, At, Listed,
                        Leaving, Closing
    <2>2. request'[q].step \notin {"audit", "purge"} /\ request'[q].purging = me.purging /\ me.purging \in BOOLEAN
      BY <1>1, <2>1, ReturnIs DEF Request
    <2>3. request'[q].purging = FALSE
      BY <2>1, <2>2
    <2> QED BY <2>2, <2>3, ListedAtRest
  <1>7. CASE Unseat(q) \/ Look(q) \/ Publish(q) \/ ProjectSeat(q)
    <2>1. ~me.purging
      BY <1>1, <1>7 DEF Unseat, Look, Publish, ProjectSeat, At, Listed, Leaving, Closing
    <2>2. PICK step : Then(q, step) /\ step \notin {"audit", "purge"}
      BY <1>7 DEF Unseat, Look, Publish, ProjectSeat
    <2>3. request'[q] = [me EXCEPT !.step = step] /\ request'[q].step = step
      BY <1>1, <2>2, ThenIs
    <2>4. request'[q].purging = FALSE
      BY <1>1, <2>1, <2>3 DEF Request
    <2> QED BY <2>2, <2>3, <2>4, ListedAtRest
  <1> QED BY <1>3, <1>4, <1>5, <1>6, <1>7 DEF GameStep

LEMMA PurgeListed ==
  ASSUME OneAtATime, IInv, PurgesAlone, NEW q \in Requests, PurgeStep(q)
  PROVE  \A p \in Requests : Listed(request[p])'
  <1> DEFINE me == request[q]
  <1>1. me \in Request /\ Sound(me) /\ RequestInv /\ Listed(me) /\ MembershipTypeOK
    BY RequestSound DEF IInv, PurgesAlone, MemberInv
  <1>2. ASSUME NEW c \in Characters, AskDelete(q, c)
        PROVE  \A p \in Requests : Listed(request[p])'
    <2>1. request'[q].purging = FALSE /\ request'[q].step \notin {"audit", "purge"}
      BY <1>1, <1>2 DEF AskDelete, RequestInv, Idle
    <2> QED BY <2>1, ListedAtRest
  <1>3. ASSUME NEW u \in People, AskPurge(q, u)
        PROVE  \A p \in Requests : Listed(request[p])'
    <2>1. PICK seats, left :
             /\ seats = {<<g, rank[g][u]>> : g \in {h \in Groups : rank[h][u] # "none"}}
             /\ left = {g \in Groups : rank[g][u] = "owner"}
             /\ Ask(q, u, [Idle EXCEPT !.step = "audit", !.seats = seats, !.left = left])
      BY <1>3 DEF AskPurge
    <2>2. request'[q] = [[Idle EXCEPT !.step = "audit", !.seats = seats, !.left = left] EXCEPT !.by = u]
      BY <1>1, <2>1, AskIs
    <2>3. /\ request'[q].step = "audit" /\ request'[q].by = u /\ request'[q].purging = FALSE
          /\ request'[q].seats = seats /\ request'[q].left = left
      BY <2>2 DEF Idle
    <2>4. rank' = rank
      BY <1>3 DEF AskPurge, memberVars
    <2>5. \A g \in Groups : /\ rank[g][u] # "none" => <<g, rank[g][u]>> \in seats
                            /\ <<g, "owner">> \in seats => rank[g][u] = "owner" /\ g \in left
      BY <2>1
    <2>6. \A g \in Groups : ~Dealing(request[q], g)'
      BY <2>3 DEF Dealing, Leaving, Closing
    <2>7. Listed(request[q])'
      BY <2>3, <2>4, <2>5, <2>6 DEF Listed
    <2> QED BY <2>7 DEF OneAtATime
  <1>4. CASE Find(q) \/ Clear(q) \/ Withdraw(q)
    <2>1. /\ request'[q].step \in {"clear", "erase"} /\ request'[q].purging = me.purging
          /\ request'[q].by = me.by /\ request'[q].seats = me.seats
      <3>1. CASE Find(q)
        BY <1>1, <3>1 DEF Find, RequestInv, Request
      <3>2. CASE Clear(q)
        BY <1>1, <3>2 DEF Clear, At, RequestInv, Request
      <3>3. CASE Withdraw(q)
        BY <1>1, <3>3 DEF Withdraw, Then, RequestInv, Request
      <3> QED BY <1>4, <3>1, <3>2, <3>3
    <2>2. me.step \in {"find", "clear"} /\ rank' = rank
      BY <1>4 DEF Find, Clear, Withdraw, At, memberVars
    <2>3. CASE ~me.purging
      <3>1. request'[q].purging = FALSE /\ request'[q].step \notin {"audit", "purge"}
        BY <1>1, <2>1, <2>3 DEF Request
      <3> QED BY <3>1, ListedAtRest
    <2>4. CASE me.purging
      BY <1>1, <2>1, <2>2, <2>4, ListedStill
    <2> QED BY <2>3, <2>4
  <1>5. CASE Erase(q)
    <2>1. Return(q) /\ me.step = "erase" /\ rank' = rank
      BY <1>5 DEF Erase, At, memberVars
    <2>2. CASE ~me.purging
      <3>1. request'[q].step = "idle" /\ request'[q].purging = me.purging /\ me.purging \in BOOLEAN
        BY <1>1, <2>1, <2>2, ReturnIs DEF Request
      <3>2. request'[q].purging = FALSE
        BY <2>2, <3>1
      <3> QED BY <3>1, <3>2, ListedAtRest
    <2>3. CASE me.purging
      <3>1. /\ request'[q].step = "purge" /\ request'[q].purging = me.purging
            /\ request'[q].by = me.by /\ request'[q].seats = me.seats
        BY <1>1, <2>1, <2>3, ReturnIs
      <3> QED BY <1>1, <2>1, <2>3, <3>1, ListedStill
    <2> QED BY <2>2, <2>3
  <1>6. CASE Audit(q)
    <2>1. PICK h \in me.left : /\ Members(h) = {me.by}
                               /\ request' = [request EXCEPT ![q].left = @ \ {h}]
                               /\ rank' = rank /\ me.step = "audit"
      BY <1>6 DEF Audit, At, memberVars
    <2>2. /\ request'[q].step = "audit" /\ request'[q].by = me.by /\ request'[q].purging = me.purging
          /\ request'[q].seats = me.seats /\ request'[q].left = me.left \ {h}
      BY <1>1, <2>1 DEF RequestInv, Request
    <2>3. ~me.purging
      BY <1>1, <2>1 DEF Listed, Leaving, Closing
    <2>4. \A g \in Groups :
             /\ rank[g][me.by] # "none" => <<g, rank[g][me.by]>> \in me.seats
             /\ <<g, "owner">> \in me.seats =>
                   /\ rank[g][me.by] = "owner"
                   /\ Members(g) = {me.by} \/ g \in me.left \ {h}
      BY <1>1, <2>1 DEF Listed, Dealing, Leaving, Closing
    <2>5. \A g \in Groups : Members(g)' = Members(g) /\ ~Dealing(request[q], g)'
      BY <2>1, <2>2 DEF Dealing, Leaving, Closing, Members
    <2>6. Listed(request[q])'
      BY <2>1, <2>2, <2>3, <2>4, <2>5 DEF Listed
    <2> QED BY <2>6 DEF OneAtATime
  <1>7. CASE ListCharacters(q)
    <2>1. /\ me.step = "audit" /\ me.left = {} /\ rank' = rank
          /\ request'[q].step = "purge" /\ request'[q].by = me.by /\ request'[q].seats = me.seats
          /\ request'[q].purging
      BY <1>1, <1>7 DEF ListCharacters, At, memberVars, RequestInv, Request
    <2>2. \A g \in Groups :
             /\ rank[g][me.by] # "none" => <<g, rank[g][me.by]>> \in me.seats
             /\ <<g, "owner">> \in me.seats => rank[g][me.by] = "owner" /\ Members(g) = {me.by}
      BY <1>1, <2>1 DEF Listed, Dealing, Leaving, Closing
    <2>3. request'[q].step \notin Leaving /\ request'[q].step \notin Closing
      BY <2>1 DEF Leaving, Closing
    <2>4. \A g \in Groups : Members(g)' = Members(g) /\ ~Dealing(request[q], g)'
      BY <2>1, <2>3 DEF Dealing, Members
    <2>5. Listed(request[q])'
      BY <2>1, <2>2, <2>3, <2>4 DEF Listed
    <2> QED BY <2>5 DEF OneAtATime
  <1>8. CASE PurgeCharacter(q)
    <2>1. /\ me.step = "purge" /\ rank' = rank
          /\ request'[q].step = "find" /\ request'[q].by = me.by /\ request'[q].seats = me.seats
          /\ request'[q].purging = me.purging
      BY <1>1, <1>8 DEF PurgeCharacter, At, memberVars, RequestInv, Request
    <2>2. CASE ~me.purging
      <3>1. request'[q].purging = FALSE /\ request'[q].step \notin {"audit", "purge"}
        BY <1>1, <2>1, <2>2 DEF Request
      <3> QED BY <3>1, ListedAtRest
    <2>3. CASE me.purging
      BY <1>1, <2>1, <2>3, ListedStill
    <2> QED BY <2>2, <2>3
  <1>9. CASE PurgeSeat(q)
    <2>1. PICK seat \in me.seats :
             /\ me.step = "purge" /\ rank' = rank
             /\ IF seat[2] = "owner" THEN rank[seat[1]][me.by] = "owner"
                ELSE rank[seat[1]][me.by] \in {"player", "dm"}
             /\ request' = [request EXCEPT
                    ![q].step = IF seat[2] = "owner" THEN "end all" ELSE "unseat member",
                    ![q].group = seat[1], ![q].whom = me.by, ![q].seats = @ \ {seat}]
      BY <1>9 DEF PurgeSeat, At, memberVars
    <2>2. PICK g \in Groups, role \in Roles : seat = <<g, role>>
      BY <1>1 DEF Request
    <2>3. /\ request'[q].step = IF role = "owner" THEN "end all" ELSE "unseat member"
          /\ request'[q].group = g /\ request'[q].whom = me.by /\ request'[q].by = me.by
          /\ request'[q].seats = me.seats \ {seat} /\ request'[q].purging = me.purging
      BY <1>1, <2>1, <2>2 DEF RequestInv, Request
    <2>4. CASE ~me.purging
      <3>1. request'[q].purging = FALSE /\ request'[q].step \notin {"audit", "purge"}
        BY <1>1, <2>3, <2>4 DEF Request
      <3> QED BY <3>1, ListedAtRest
    <2>5. CASE me.purging
      <3>1. \A h \in Groups : /\ Members(h)' = Members(h)
                              /\ Dealing(request[q], h)' <=> h = g
        BY <2>1, <2>3 DEF Members, Dealing, Leaving, Closing
      <3>2. \A h \in Groups :
               /\ rank[h][me.by] # "none" => <<h, rank[h][me.by]>> \in me.seats
               /\ <<h, "owner">> \in me.seats => rank[h][me.by] = "owner" /\ Members(h) = {me.by}
        BY <1>1, <2>1, <2>5 DEF Listed, Dealing, Leaving, Closing
      <3>3. ASSUME NEW h \in Groups
            PROVE  /\ rank[h][me.by] # "none" => <<h, rank[h][me.by]>> \in me.seats \ {seat} \/ h = g
                   /\ <<h, "owner">> \in me.seats \ {seat} =>
                         rank[h][me.by] = "owner" /\ h # g /\ Members(h) = {me.by}
        <4>1. <<h, "owner">> \in me.seats \ {seat} => h # g
          <5> SUFFICES ASSUME <<g, "owner">> \in me.seats, seat # <<g, "owner">> PROVE FALSE
            OBVIOUS
          <5>1. rank[g][me.by] = "owner" /\ role # "owner"
            BY <2>2, <3>2
          <5> QED BY <2>1, <2>2, <5>1
        <4>2. rank[h][me.by] # "none" => <<h, rank[h][me.by]>> \in me.seats \ {seat} \/ h = g
          BY <2>2, <3>2
        <4> QED BY <3>2, <4>1, <4>2
      <3>4. request'[q].step \in Closing => Members(g) = {me.by}
        <4>1. CASE role = "owner"
          BY <2>2, <3>2, <4>1
        <4>2. CASE role # "owner"
          BY <2>3, <4>2 DEF Closing
        <4> QED BY <4>1, <4>2
      <3>5. request'[q].step \in Leaving /\ request'[q].step \notin {"idle", "audit", "purge"}
        BY <2>3 DEF Leaving, Closing
      <3>6. Listed(request[q])'
        BY <2>1, <2>3, <3>1, <3>3, <3>4, <3>5 DEF Listed
      <3> QED BY <3>6 DEF OneAtATime
    <2> QED BY <2>4, <2>5
  <1>10. CASE PurgeAccount(q)
    <2>1. request'[q].purging = FALSE /\ request'[q].step \notin {"audit", "purge"}
      BY <1>1, <1>10 DEF PurgeAccount, RequestInv, Idle
    <2> QED BY <2>1, ListedAtRest
  <1> QED BY <1>2, <1>3, <1>4, <1>5, <1>6, <1>7, <1>8, <1>9, <1>10 DEF PurgeStep

LEMMA OwnersAlone ==
  ASSUME OneAtATime, IInv, PurgesAlone, [Next]_vars
  PROVE  OwnerKept'
  <1>1. MemberInv /\ StatementOf /\ OwnerKept
    BY Statements DEF IInv, PurgesAlone
  <1>2. ASSUME NEW u \in People, DropAccount(u) PROVE OwnerKept'
    <2>1. account[u] /\ account'[u] = FALSE
      BY <1>1, <1>2 DEF DropAccount, MemberInv, MembershipTypeOK
    <2>2. PICK q \in Requests : MemberStep(q) \/ GameStep(q) \/ PurgeStep(q) \/ Abandon(q)
      BY <2>1 DEF Next, vars, memberVars
    <2>3. account' # account
      BY <2>1
    <2>4. PurgeAccount(q)
      <3>1. ~MemberStep(q)
        BY <2>3 DEF MemberStep, CreateGroup, AskDeleteGroup, AskSetRole, AskRemoveMember, Invite,
                    AskAccept, ReadRank, Appoint, Hand, Dismiss, UnseatMember, Accept, EndAll,
                    ClearTable, Close, OpenGroup, SetRole, TransferOwnership, RemoveMember,
                    AddMember, CloseGroup, memberVars
      <3>2. ~GameStep(q)
        BY <1>1, <2>3, GameStatements DEF memberVars
      <3>3. ~Abandon(q)
        BY <2>3 DEF Abandon, memberVars
      <3> QED BY <2>2, <2>3, <3>1, <3>2, <3>3
          DEF PurgeStep, AskDelete, AskPurge, Find, Clear, Withdraw, Erase, Audit, ListCharacters,
              PurgeCharacter, PurgeSeat, memberVars
    <2>5. /\ request[q].step = "purge" /\ request[q].seats = {} /\ DropAccount(request[q].by)
          /\ request[q] \in Request /\ Sound(request[q]) /\ Listed(request[q])
      BY <2>4, RequestSound DEF PurgeAccount, At, IInv, PurgesAlone
    <2>6. \A g \in Groups : rank[g][request[q].by] = "none"
      <3>1. \A g \in Groups : ~Dealing(request[q], g)
        BY <2>5 DEF Dealing, Leaving, Closing
      <3> QED BY <2>5, <3>1 DEF Listed
    <2> QED BY <1>1, <2>5, <2>6 DEF DropAccount, MemberInv, MembershipTypeOK, OwnerKept
  <1>3. CASE ~\E u \in People : DropAccount(u)
    BY <1>1, <1>3, OwnerStays DEF StatementOf
  <1> QED BY <1>2, <1>3

LEMMA PurgesAloneHold == ASSUME OneAtATime PROVE Spec => []PurgesAlone
  <1>1. Init => PurgesAlone
    <2> SUFFICES ASSUME Init PROVE PurgesAlone
      OBVIOUS
    <2>1. OwnerKept
      BY DEF Init, MembershipInit, OwnerKept
    <2>2. ASSUME NEW q \in Requests PROVE Listed(request[q])
      <3>1. request[q].purging = FALSE /\ request[q].step = "idle"
        BY DEF Init, Idle
      <3> QED BY <3>1 DEF Listed
    <2> QED BY <2>1, <2>2 DEF PurgesAlone
  <1>2. ASSUME IInv, PurgesAlone, [Next]_vars PROVE PurgesAlone'
    <2>1. CASE UNCHANGED vars
      <3>1. request' = request /\ rank' = rank
        BY <2>1 DEF vars, memberVars
      <3>2. ASSUME NEW q \in Requests PROVE Listed(request[q])'
        <4>1. Listed(request[q])
          BY <1>2 DEF PurgesAlone
        <4> QED BY <3>1, <4>1 DEF Listed, Dealing, Members
      <3> QED BY <1>2, <3>2, OwnersAlone DEF PurgesAlone
    <2>2. ASSUME NEW q \in Requests, Abandon(q) PROVE PurgesAlone'
      <3>1. request'[q].purging = FALSE /\ request'[q].step \notin {"audit", "purge"}
        BY <1>2, <2>2 DEF Abandon, IInv, RequestInv, Idle
      <3> QED BY <1>2, <3>1, ListedAtRest, OwnersAlone DEF PurgesAlone
    <2>3. ASSUME NEW q \in Requests, MemberStep(q) \/ GameStep(q) \/ PurgeStep(q) PROVE PurgesAlone'
      BY <1>2, <2>3, MemberListed, GameListed, PurgeListed, OwnersAlone DEF PurgesAlone
    <2> QED BY <1>2, <2>1, <2>2, <2>3 DEF Next
  <1> QED BY <1>1, <1>2, InvariantHolds, PTL DEF Spec

\* An open group has an owner also where accounts are deleted, as long as
\* requests come one at a time: the deletion of an account listed every seat
\* the account has, and closed the groups it owned before it dropped it
\* (DeletePlayer).
THEOREM OwnerKeptAlone ==
  ASSUME OneAtATime
  PROVE  Spec => []OwnerKept
  <1>1. PurgesAlone => OwnerKept
    BY DEF PurgesAlone
  <1> QED BY <1>1, PurgesAloneHold, PTL

\* Only the last step of a group's deletion takes an open group away.
LEMMA ClosedByClose ==
  ASSUME MembershipTypeOK, [Next]_vars, NEW g \in Groups, opened'[g] # opened[g], opened[g] = "open"
  PROVE  \E q \in Requests : Close(q) /\ request[q].group = g
  <1>1. PICK q \in Requests : MemberStep(q) \/ GameStep(q) \/ PurgeStep(q) \/ Abandon(q)
    BY DEF Next, vars, memberVars
  <1>2. opened' # opened
    OBVIOUS
  <1>3. ~GameStep(q)
    BY <1>2, GameStatements DEF memberVars
  <1>4. ~Abandon(q)
    BY <1>2 DEF Abandon, memberVars
  <1>5. ~PurgeStep(q)
    BY <1>2 DEF PurgeStep, AskDelete, AskPurge, Find, Clear, Withdraw, Erase, Audit, ListCharacters,
                PurgeCharacter, PurgeSeat, PurgeAccount, DropAccount, memberVars
  <1>6. ASSUME NEW u \in People, NEW h \in Groups, CreateGroup(q, u, h) PROVE FALSE
    BY <1>6 DEF CreateGroup, OpenGroup, MembershipTypeOK
  <1>7. Close(q)
    BY <1>1, <1>2, <1>3, <1>4, <1>5, <1>6
       DEF MemberStep, AskDeleteGroup, AskSetRole, AskRemoveMember, Invite, AskAccept, ReadRank,
           Appoint, Hand, Dismiss, UnseatMember, Accept, EndAll, ClearTable, SetRole,
           TransferOwnership, RemoveMember, AddMember, memberVars
  <1>8. request[q].group = g
    BY <1>7 DEF Close, CloseGroup, MembershipTypeOK
  <1> QED BY <1>7, <1>8

\* Deleting an account takes nothing from anybody else, where requests come
\* one at a time: a group it closes is one nobody else sits at (DeletePlayer's
\* first loop). Requests that race do break this.
THEOREM TakesNothingAlone ==
  ASSUME OneAtATime
  PROVE  Spec => TakesNothing
  <1> DEFINE Taken == \A g \in Groups : opened'[g] # opened[g] /\ opened[g] = "open" =>
        \E q \in Requests : /\ At(q, "close") /\ request[q].group = g
                            /\ request[q].purging => Members(g) = {request[q].by}
  <1>1. ASSUME IInv, PurgesAlone, [Next]_vars PROVE Taken
    <2> SUFFICES ASSUME NEW g \in Groups, opened'[g] # opened[g], opened[g] = "open"
                 PROVE  \E q \in Requests : /\ At(q, "close") /\ request[q].group = g
                                            /\ request[q].purging => Members(g) = {request[q].by}
      OBVIOUS
    <2>1. PICK q \in Requests : Close(q) /\ request[q].group = g
      BY <1>1, ClosedByClose DEF IInv, MemberInv
    <2>2. At(q, "close")
      BY <2>1 DEF Close
    <2>3. request[q].purging => Members(g) = {request[q].by}
      BY <1>1, <2>1, <2>2 DEF PurgesAlone, Listed, At, Closing
    <2> QED BY <2>1, <2>2, <2>3
  <1> HIDE DEF Taken
  <1>2. Spec => [][Taken]_vars
    BY <1>1, PurgesAloneHold, InvariantHolds, PTL DEF Spec
  <1> QED BY <1>2 DEF Taken, TakesNothing

=============================================================================
