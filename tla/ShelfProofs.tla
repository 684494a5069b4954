----------------------------- MODULE ShelfProofs -----------------------------
(***************************************************************************)
(* What people keep apart from a game in play, for any accounts, proofs,   *)
(* packs, folders and number of requests at once.  The four share no       *)
(* variable, so each has a section of its own: its inductive invariant,    *)
(* that every step keeps it, and what follows.                             *)
(***************************************************************************)
EXTENDS Shelf, FiniteSetTheorems, TLAPS

-----------------------------------------------------------------------------
(* Accounts.                                                               *)

\* Ids that name an account in an envelope, a session or a request under way
\* were drawn, so what is drawn later is nobody's.
NamesDrawn ==
    /\ guests \subseteq drawn
    /\ \A e \in sealed : e[1] = "register" => e[2] \in drawn
    /\ \A q \in Visitors :
          /\ visit[q].step \notin {"idle", "create"} => visit[q].id \in drawn
          /\ visit[q].step # "idle" => visit[q].proof \in Proofs

\* One row per proof, whichever account it names.
OneRowEach == \A p \in Proofs, i, j \in users : <<p, i>> \in held /\ <<p, j>> \in held => i = j

AccountsInv == AccountsTypeOK /\ NamesDrawn /\ OneRowEach

LEMMA NoVisitFits == NoVisit \in Request /\ NoVisit.step = "idle"
  BY DEF NoVisit, Request

\* A request that goes on keeps the invariant if what it carries fits.
LEMMA PlanKeeps ==
  ASSUME AccountsInv, NEW q \in Visitors, NEW r \in Request,
         r.step \notin {"idle", "create"} => r.id \in drawn',
         r.step # "idle" => r.proof \in Proofs,
         visit' = [visit EXCEPT ![q] = r],
         drawn \subseteq drawn', drawn' \subseteq Ids
  PROVE  /\ visit' \in [Visitors -> Request]
         /\ \A o \in Visitors :
              /\ visit'[o].step \notin {"idle", "create"} => visit'[o].id \in drawn'
              /\ visit'[o].step # "idle" => visit'[o].proof \in Proofs
  BY DEF AccountsInv, AccountsTypeOK, NamesDrawn

LEMMA PlansKeep ==
  ASSUME AccountsInv, NEW q \in Visitors, NEW r \in Request,
         r.step \notin {"idle", "create"} => r.id \in drawn,
         r.step # "idle" => r.proof \in Proofs,
         visit' = [visit EXCEPT ![q] = r], UNCHANGED <<drawn, users, held, sealed, signed, guests>>
  PROVE  AccountsInv'
  <1>1. /\ visit' \in [Visitors -> Request]
        /\ \A o \in Visitors :
             /\ visit'[o].step \notin {"idle", "create"} => visit'[o].id \in drawn'
             /\ visit'[o].step # "idle" => visit'[o].proof \in Proofs
    BY PlanKeeps DEF AccountsInv, AccountsTypeOK
  <1> QED BY <1>1 DEF AccountsInv, AccountsTypeOK, NamesDrawn, OneRowEach

\* Create gives a new account its first way in, and takes no other's.
LEMMA StoreKeeps ==
  ASSUME AccountsInv, NEW id \in Ids, NEW p \in Proofs, Store(id, p)
  PROVE  /\ held' \subseteq Proofs \X users' /\ OneRowEach'
         /\ users' = users \cup {id} /\ <<p, id>> \in held' /\ <<p, id>> \notin held
  BY DEF AccountsInv, AccountsTypeOK, OneRowEach, Store, Holders

\* A request that goes on carries the proof it came with.
LEMMA GoOnKeeps ==
  ASSUME AccountsInv, NEW q \in Visitors, NEW step \in {"read", "issue"}, NEW id \in drawn',
         visit[q].step # "idle", GoOn(q, step, id), drawn \subseteq drawn', drawn' \subseteq Ids
  PROVE  /\ visit' \in [Visitors -> Request]
         /\ \A o \in Visitors :
              /\ visit'[o].step \notin {"idle", "create"} => visit'[o].id \in drawn'
              /\ visit'[o].step # "idle" => visit'[o].proof \in Proofs
  <1>0. PICK r : r = [visit[q] EXCEPT !.step = step, !.id = id]
    OBVIOUS
  <1>1. visit[q] \in Request /\ visit[q].proof \in Proofs
    BY DEF AccountsInv, AccountsTypeOK, NamesDrawn
  <1>2. r \in Request /\ r.step = step /\ r.id = id /\ r.proof = visit[q].proof
    BY <1>0, <1>1 DEF Request
  <1>3. visit' = [visit EXCEPT ![q] = r]
    BY <1>0 DEF GoOn
  <1> QED BY <1>1, <1>2, <1>3, PlanKeeps

LEMMA BeginRegistrationKeeps ==
  ASSUME AccountsInv, NEW id \in Minted, BeginRegistration(id)
  PROVE  AccountsInv'
  BY DEF BeginRegistration, AccountsInv, AccountsTypeOK, NamesDrawn, OneRowEach, Ids, Envelopes

LEMMA FinishRegistrationKeeps ==
  ASSUME AccountsInv, NEW q \in Visitors, NEW id \in Minted, NEW key \in Keys,
         FinishRegistration(q, id, key)
  PROVE  AccountsInv'
  <1>1. id \in Ids /\ key \in Proofs /\ id \in drawn /\ drawn' = drawn
    BY DEF FinishRegistration, AccountsInv, NamesDrawn, Ids, Proofs
  <1>2. held' \subseteq Proofs \X users' /\ OneRowEach' /\ users' = users \cup {id}
    BY <1>1, StoreKeeps DEF FinishRegistration
  <1> DEFINE r == [step |-> "issue", id |-> id, proof |-> key]
  <1>3. r \in Request /\ r.step = "issue" /\ r.id = id /\ r.proof = key
    BY <1>1 DEF Request
  <1>4. visit' = [visit EXCEPT ![q] = r]
    BY DEF FinishRegistration, Plan
  <1> HIDE DEF r
  <1>5. /\ visit' \in [Visitors -> Request]
        /\ \A o \in Visitors :
             /\ visit'[o].step \notin {"idle", "create"} => visit'[o].id \in drawn'
             /\ visit'[o].step # "idle" => visit'[o].proof \in Proofs
    BY <1>1, <1>3, <1>4, PlanKeeps DEF AccountsInv, AccountsTypeOK
  <1> QED BY <1>1, <1>2, <1>5 DEF FinishRegistration, AccountsInv, AccountsTypeOK, NamesDrawn

LEMMA GuestsKeep ==
  ASSUME AccountsInv, NEW id \in Guests, SignInAnonymously(id) \/ EnsureGuest(id)
  PROVE  AccountsInv'
  <1>1. CASE SignInAnonymously(id)
    BY <1>1 DEF SignInAnonymously, AccountsInv, AccountsTypeOK, NamesDrawn, OneRowEach, Ids
  <1>2. CASE EnsureGuest(id)
    <2>1. OneRowEach'
      BY <1>2 DEF EnsureGuest, AccountsInv, AccountsTypeOK, OneRowEach
    <2> QED BY <1>2, <2>1 DEF EnsureGuest, AccountsInv, AccountsTypeOK, NamesDrawn
  <1> QED BY <1>1, <1>2

LEMMA HoldersDrawn ==
  ASSUME AccountsInv, NEW p, NEW id \in Holders(p)
  PROVE  id \in drawn /\ id \in Ids /\ <<p, id>> \in held
  BY DEF AccountsInv, AccountsTypeOK, Holders

LEMMA SessionDrawn ==
  ASSUME AccountsInv, NEW id, Session(id)
  PROVE  id \in drawn /\ id \in Ids
  BY DEF AccountsInv, AccountsTypeOK, NamesDrawn, Session

\* What a request of the four kinds carries on.
LEMMA PlanFits ==
  ASSUME AccountsInv, NEW q \in Visitors, NEW step \in {"touch", "create", "add", "remove"},
         NEW id \in Ids \cup {NoOne}, NEW p \in Proofs,
         step # "create" => id \in drawn,
         Plan(q, step, id, p), UNCHANGED <<drawn, users, held, sealed, signed, guests>>
  PROVE  AccountsInv'
  <1> DEFINE r == [step |-> step, id |-> id, proof |-> p]
  <1>1. r \in Request
    BY DEF Request
  <1>2. visit' = [visit EXCEPT ![q] = r]
    BY DEF Plan
  <1> QED BY <1>1, <1>2, PlansKeep

LEMMA FinishSSOKeeps ==
  ASSUME AccountsInv, NEW q \in Visitors, NEW to \in Ids \cup {NoOne}, NEW as \in Ids \cup {NoOne},
         NEW subject \in Subjects, FinishSSO(q, to, as, subject)
  PROVE  AccountsInv'
  <1>0. subject \in Proofs /\ UNCHANGED <<drawn, users, held, sealed, signed, guests>>
    BY DEF FinishSSO, Proofs
  <1>1. CASE to = NoOne
    <2>1. ASSUME NEW id \in Holders(subject), Plan(q, "touch", id, subject) PROVE AccountsInv'
      <3>1. id \in drawn /\ id \in Ids
        BY HoldersDrawn
      <3> QED BY <1>0, <2>1, <3>1, PlanFits
    <2>2. ASSUME Plan(q, "create", NoOne, subject) PROVE AccountsInv'
      BY <1>0, <2>2, PlanFits
    <2> QED BY <1>1, <2>1, <2>2 DEF FinishSSO, SignIn
  <1>2. CASE to # NoOne
    <2>1. as = to /\ Session(as) /\ to \in Ids
      BY <1>2 DEF FinishSSO, Link
    <2>2. to \in drawn
      BY <2>1, SessionDrawn
    <2>3. Plan(q, "add", to, subject) \/ Plan(q, "touch", to, subject)
      BY <1>2 DEF FinishSSO, Link
    <2> QED BY <1>0, <2>1, <2>2, <2>3, PlanFits
  <1> QED BY <1>1, <1>2

LEMMA WritesKeep ==
  ASSUME AccountsInv, NEW q \in Visitors, Touch(q) \/ Add(q) \/ Reload(q)
  PROVE  AccountsInv'
  <1>1. drawn' = drawn /\ users' = users /\ sealed' = sealed /\ guests' = guests /\ signed' = signed
    BY DEF Touch, Add, Reload
  <1>2. visit[q].id \in drawn /\ visit[q].proof \in Proofs
    BY DEF AccountsInv, NamesDrawn, Touch, Add, Reload
  <1>3. \E step \in {"read", "issue"} : GoOn(q, step, visit[q].id) /\ visit[q].step # "idle"
    BY DEF Touch, Add, Reload
  <1>4. /\ visit' \in [Visitors -> Request]
        /\ \A o \in Visitors :
             /\ visit'[o].step \notin {"idle", "create"} => visit'[o].id \in drawn'
             /\ visit'[o].step # "idle" => visit'[o].proof \in Proofs
    BY <1>1, <1>2, <1>3, GoOnKeeps DEF AccountsInv, AccountsTypeOK
  <1>5. held' \subseteq Proofs \X users' /\ OneRowEach'
    <2>1. CASE Add(q)
      BY <1>2, <2>1 DEF Add, AddIdentity, Holders, AccountsInv, AccountsTypeOK, OneRowEach
    <2>2. CASE Touch(q) \/ Reload(q)
      BY <2>2 DEF Touch, Reload, AccountsInv, AccountsTypeOK, OneRowEach
    <2> QED BY <2>1, <2>2
  <1> QED BY <1>1, <1>4, <1>5 DEF AccountsInv, AccountsTypeOK, NamesDrawn

LEMMA EndsKeepAccounts ==
  ASSUME AccountsInv, NEW q \in Visitors, Issue(q) \/ Disconnect(q) \/ GiveUp(q)
  PROVE  AccountsInv'
  <1>1. visit' = [visit EXCEPT ![q] = NoVisit] /\ drawn' = drawn /\ users' = users
        /\ sealed' = sealed /\ guests' = guests
    BY DEF Issue, Disconnect, GiveUp
  <1>2. /\ visit' \in [Visitors -> Request]
        /\ \A o \in Visitors :
             /\ visit'[o].step \notin {"idle", "create"} => visit'[o].id \in drawn'
             /\ visit'[o].step # "idle" => visit'[o].proof \in Proofs
    BY <1>1, NoVisitFits, PlanKeeps DEF AccountsInv, AccountsTypeOK
  <1>3. signed' \subseteq drawn'
    BY <1>1 DEF Issue, Disconnect, GiveUp, AccountsInv, AccountsTypeOK, NamesDrawn
  <1>4. held' \subseteq Proofs \X users' /\ OneRowEach'
    BY <1>1 DEF Issue, Disconnect, RemoveIdentity, GiveUp, AccountsInv, AccountsTypeOK, OneRowEach
  <1> QED BY <1>1, <1>2, <1>3, <1>4 DEF AccountsInv, AccountsTypeOK, NamesDrawn

LEMMA CreateAccountKeeps ==
  ASSUME AccountsInv, NEW q \in Visitors, NEW id \in Minted, CreateAccount(q, id)
  PROVE  AccountsInv'
  <1>1. id \in Ids /\ visit[q].proof \in Proofs /\ drawn' = drawn \cup {id} /\ signed' = signed
    BY DEF CreateAccount, AccountsInv, NamesDrawn, Ids
  <1>2. held' \subseteq Proofs \X users' /\ OneRowEach' /\ users' = users \cup {id}
    BY <1>1, StoreKeeps DEF CreateAccount
  <1>3. /\ visit' \in [Visitors -> Request]
        /\ \A o \in Visitors :
             /\ visit'[o].step \notin {"idle", "create"} => visit'[o].id \in drawn'
             /\ visit'[o].step # "idle" => visit'[o].proof \in Proofs
    BY <1>1, GoOnKeeps DEF AccountsInv, AccountsTypeOK, CreateAccount
  <1> QED BY <1>1, <1>2, <1>3 DEF CreateAccount, AccountsInv, AccountsTypeOK, NamesDrawn

LEMMA AccountsStep ==
  ASSUME AccountsInv, [AccountsNext]_accountVars
  PROVE  AccountsInv'
  <1>1. ASSUME NEW id \in Ids \cup {NoOne}, StartSSO(id) PROVE AccountsInv'
    BY <1>1 DEF StartSSO, AccountsInv, AccountsTypeOK, NamesDrawn, OneRowEach, Envelopes
  <1>2. ASSUME NEW id \in Ids, Delete(id) PROVE AccountsInv'
    BY <1>2 DEF Delete, AccountsInv, AccountsTypeOK, NamesDrawn, OneRowEach
  <1>3. CASE Expire
    BY <1>3 DEF Expire, AccountsInv, AccountsTypeOK, NamesDrawn, OneRowEach
  <1>4. ASSUME NEW q \in Visitors, NEW key \in Keys, FinishLogin(q, key) PROVE AccountsInv'
    <2>1. PICK id \in Holders(key) : Plan(q, "touch", id, key)
      BY <1>4 DEF FinishLogin
    <2>2. id \in drawn /\ id \in Ids /\ key \in Proofs
      BY HoldersDrawn DEF Proofs
    <2> QED BY <1>4, <2>1, <2>2, PlanFits DEF FinishLogin
  <1>5. ASSUME NEW q \in Visitors, NEW id \in Ids, NEW subject \in Subjects, Unlink(q, id, subject)
        PROVE  AccountsInv'
    <2>1. id \in drawn /\ subject \in Proofs
      BY <1>5, SessionDrawn DEF Unlink, Proofs
    <2> QED BY <1>5, <2>1, PlanFits DEF Unlink
  <1>6. CASE UNCHANGED accountVars
    BY <1>6 DEF accountVars, AccountsInv, AccountsTypeOK, NamesDrawn, OneRowEach
  <1> QED
    BY <1>1, <1>2, <1>3, <1>4, <1>5, <1>6, BeginRegistrationKeeps, FinishRegistrationKeeps, GuestsKeep,
       FinishSSOKeeps, WritesKeep, EndsKeepAccounts, CreateAccountKeeps DEF AccountsNext

LEMMA AccountsBegin == AccountsInit => AccountsInv
  BY NoVisitFits DEF AccountsInit, AccountsInv, AccountsTypeOK, NamesDrawn, OneRowEach, NoVisit

LEMMA AccountsInductive == AccountsSpec => []AccountsInv
  BY AccountsBegin, AccountsStep, PTL DEF AccountsSpec

\* The accounts' tables hold what their columns allow: an account's row names
\* an id that was drawn for it, and a way in names an account's row.
THEOREM AccountsTyped == AccountsSpec => []AccountsTypeOK
  BY AccountsInductive, PTL DEF AccountsInv

LEMMA OneHolderEach == AccountsInv => OneHolder
  <1> SUFFICES ASSUME AccountsInv, NEW p \in Proofs PROVE Cardinality(Holders(p)) <= 1
    BY DEF OneHolder
  <1>1. CASE Holders(p) = {}
    BY <1>1, FS_EmptySet
  <1>2. ASSUME NEW i \in Holders(p) PROVE Cardinality(Holders(p)) <= 1
    <2>1. Holders(p) = {i}
      BY DEF AccountsInv, OneRowEach, Holders
    <2>2. Cardinality({i}) = 1
      BY FS_Singleton
    <2> QED BY <2>1, <2>2
  <1> QED BY <1>1, <1>2

\* A passkey or an identity of the provider leads to one account, however many
\* sign-ups, links and deletions cross (the primary keys of user_credentials
\* and user_identities).
THEOREM OneHolderAlways == AccountsSpec => []OneHolder
  BY AccountsInductive, OneHolderEach, PTL

\* The loser of two first sign-ins leaves no account without a way in.
THEOREM CreatedWholeAlways == AccountsSpec => CreatedWhole
  <1>1. ASSUME AccountsInv, [AccountsNext]_accountVars
        PROVE  [\A id \in users' \ users :
                  id \in Guests \/ \E p \in Proofs : <<p, id>> \in held']_accountVars
    <2> SUFFICES ASSUME AccountsNext, NEW id \in users' \ users, id \notin Guests
                 PROVE  \E p \in Proofs : <<p, id>> \in held'
      BY <1>1 DEF AccountsTypeOK
    <2>1. \/ \E q \in Visitors, key \in Keys, i \in Minted : FinishRegistration(q, i, key)
          \/ \E i \in Guests : EnsureGuest(i)
          \/ \E q \in Visitors, i \in Minted : CreateAccount(q, i)
      BY DEF AccountsNext, BeginRegistration, SignInAnonymously, StartSSO, Delete, Expire, FinishLogin,
             FinishSSO, Unlink, Touch, Add, Reload, Issue, Disconnect, GiveUp
    <2>2. ASSUME NEW q \in Visitors, NEW key \in Keys, NEW i \in Minted, FinishRegistration(q, i, key)
          PROVE  \E p \in Proofs : <<p, id>> \in held'
      BY <2>2 DEF FinishRegistration, Store, Proofs
    <2>3. ASSUME NEW q \in Visitors, NEW i \in Minted, CreateAccount(q, i)
          PROVE  \E p \in Proofs : <<p, id>> \in held'
      <3>1. visit[q].proof \in Proofs
        BY <1>1, <2>3 DEF CreateAccount, AccountsInv, NamesDrawn
      <3> QED BY <2>3, <3>1 DEF CreateAccount, Store
    <2>4. ASSUME NEW i \in Guests, EnsureGuest(i) PROVE FALSE
      BY <2>4 DEF EnsureGuest
    <2> QED BY <2>1, <2>2, <2>3, <2>4
  <1> QED BY <1>1, AccountsInductive, PTL DEF AccountsSpec, CreatedWhole

\* A request gets as far as signing a session only if the account held, as its
\* sign-in was recorded, the proof that was presented, and whatever was
\* disconnected before that opens nothing.
THEOREM SignsInHolderAlways == AccountsSpec => SignsInHolder
  <1> DEFINE Vouched == \A q \in Visitors :
               ~Recorded(q) /\ Recorded(q)' => <<visit[q].proof, visit[q].id>>' \in held'
             Signs == \A id \in signed' \ signed : \E q \in Visitors :
               Recorded(q) /\ visit[q].id = id /\ visit'[q] = NoVisit
  <1>1. ASSUME AccountsInv, [AccountsNext]_accountVars PROVE [Vouched /\ Signs]_accountVars
    <2> SUFFICES ASSUME AccountsNext PROVE Vouched /\ Signs
      BY <1>1
    <2>1. \A r \in Visitors : visit[r] \in Request /\ (visit[r].step # "idle" => visit[r].proof \in Proofs)
      BY <1>1 DEF AccountsInv, AccountsTypeOK, NamesDrawn
    <2>2. Vouched
      <3> SUFFICES ASSUME NEW q \in Visitors, ~Recorded(q), Recorded(q)'
                   PROVE  <<visit[q].proof, visit[q].id>>' \in held'
        OBVIOUS
      <3>1. ASSUME NEW p \in Visitors, NEW step \in {"read", "issue"}, NEW id, GoOn(p, step, id)
            PROVE  p = q /\ visit'[q].id = id /\ visit'[q].proof = visit[q].proof
        BY <1>1, <2>1, <3>1 DEF GoOn, Recorded, Request, AccountsInv, AccountsTypeOK
      <3>2. ASSUME NEW p \in Visitors, NEW step \in {"touch", "create", "add", "remove"},
                   NEW id, NEW way, Plan(p, step, id, way)
            PROVE  FALSE
        BY <1>1, <3>2 DEF Plan, Recorded, AccountsInv, AccountsTypeOK
      <3>3. ASSUME NEW p \in Visitors, visit' = [visit EXCEPT ![p] = NoVisit] PROVE FALSE
        BY <1>1, <3>3, NoVisitFits DEF Recorded, AccountsInv, AccountsTypeOK
      <3>4. \/ \E p \in Visitors, key \in Keys, id \in Minted : FinishRegistration(p, id, key)
            \/ \E p \in Visitors : Touch(p) \/ Add(p) \/ Reload(p)
            \/ \E p \in Visitors, id \in Minted : CreateAccount(p, id)
        <4>1. UNCHANGED visit => FALSE
          BY DEF Recorded
        <4>2. ASSUME NEW p \in Visitors, NEW key \in Keys, FinishLogin(p, key) PROVE FALSE
          BY <3>2, <4>2 DEF FinishLogin
        <4>3. ASSUME NEW p \in Visitors, NEW to, NEW as, NEW subject, FinishSSO(p, to, as, subject)
              PROVE  FALSE
          BY <3>2, <4>3 DEF FinishSSO, SignIn, Link
        <4>4. ASSUME NEW p \in Visitors, NEW id, NEW subject, Unlink(p, id, subject) PROVE FALSE
          BY <3>2, <4>4 DEF Unlink
        <4>5. ASSUME NEW p \in Visitors, Issue(p) \/ Disconnect(p) \/ GiveUp(p) PROVE FALSE
          BY <3>3, <4>5 DEF Issue, Disconnect, GiveUp
        <4> QED BY <4>1, <4>2, <4>3, <4>4, <4>5 DEF AccountsNext, BeginRegistration, SignInAnonymously,
                   EnsureGuest, StartSSO, Delete, Expire
      <3>5. ASSUME NEW p \in Visitors, NEW key \in Keys, NEW id \in Minted, FinishRegistration(p, id, key)
            PROVE  <<visit[q].proof, visit[q].id>>' \in held'
        <4>1. visit'[q].proof = key /\ visit'[q].id = id
          BY <1>1, <3>5 DEF FinishRegistration, Plan, Recorded, AccountsInv, AccountsTypeOK
        <4> QED BY <3>5, <4>1 DEF FinishRegistration, Store
      <3>6. ASSUME NEW p \in Visitors, Touch(p) PROVE <<visit[q].proof, visit[q].id>>' \in held'
        BY <3>1, <3>6 DEF Touch, Touched
      <3>7. ASSUME NEW p \in Visitors, Add(p) PROVE <<visit[q].proof, visit[q].id>>' \in held'
        BY <3>1, <3>7 DEF Add, AddIdentity
      <3>8. ASSUME NEW p \in Visitors, Reload(p) PROVE FALSE
        BY <3>1, <3>8 DEF Reload, Recorded
      <3>9. ASSUME NEW p \in Visitors, NEW id \in Minted, CreateAccount(p, id)
            PROVE  <<visit[q].proof, visit[q].id>>' \in held'
        BY <3>1, <3>9 DEF CreateAccount, Store
      <3> QED BY <3>4, <3>5, <3>6, <3>7, <3>8, <3>9
    <2>3. Signs
      <3> SUFFICES ASSUME NEW id \in signed' \ signed
                   PROVE  \E q \in Visitors : Recorded(q) /\ visit[q].id = id /\ visit'[q] = NoVisit
        OBVIOUS
      <3>1. PICK q \in Visitors : Issue(q)
        BY DEF AccountsNext, BeginRegistration, FinishRegistration, SignInAnonymously, EnsureGuest, StartSSO,
               Delete, Expire, FinishLogin, FinishSSO, Unlink, CreateAccount, Touch, Add, Reload,
               Disconnect, GiveUp
      <3> QED BY <1>1, <3>1 DEF Issue, Recorded, AccountsInv, AccountsTypeOK
    <2> QED BY <2>2, <2>3
  <1> QED BY <1>1, AccountsInductive, PTL DEF AccountsSpec, SignsInHolder

-----------------------------------------------------------------------------
(* Rule packs.                                                             *)

\* A save under way carries what may be written: every release there is, no
\* version twice, and nothing new but the draft itself.
CarriesAll(p, record) ==
    /\ pack[p].releases \subseteq record.releases
    /\ \A r, s \in record.releases : r.version = s.version => r = s
    /\ \A r \in record.releases \ pack[p].releases :
           r = ReleaseOf(p, pack[p].draft) /\ record.draft = pack[p].draft

\* What a request read is still so if the pack is at the revision it read.
ReadsRight(c) ==
    /\ c.step \in {"save", "publish"} =>
          c.id \in Homebrew /\ 0 < c.revision /\ c.revision <= pack[c.id].revision
    /\ c.step = "publish" /\ c.revision = pack[c.id].revision => c.record = pack[c.id]
    /\ c.step = "save" /\ c.revision = pack[c.id].revision => CarriesAll(c.id, c.record)
    /\ c.step \in {"share", "unshare"} => c.by \in Authors /\ c.id \in PackIds /\ c.table \in Tables
    /\ c.step = "share" => \A r \in c.lock : MayPassOn(c.by, r.id) \/ r \in c.known

\* No row, no release; and a version is published once.
RowsRight == \A p \in Homebrew :
    /\ pack[p].revision = 0 => pack[p].releases = {}
    /\ \A r, s \in pack[p].releases : r.version = s.version => r = s

PacksInv == PacksTypeOK /\ RowsRight /\ \A q \in Calls : ReadsRight(call[q])

LEMMA NoCallFits == NoCall \in Call /\ NoCall.step = "idle" /\ Blank \in Record /\ FirstDraft \in Draft
  <1>1. (CHOOSE v \in Versions : TRUE) \in Versions
    BY PacksAssumption
  <1>2. FirstDraft \in Draft
    BY <1>1 DEF FirstDraft, Draft
  <1>3. Blank \in Record
    BY <1>2, PacksAssumption DEF Blank, Record
  <1> QED BY <1>2, <1>3, PacksAssumption DEF NoCall, Call

\* A step that leaves the rows of packs alone and changes one request, to one
\* that read right.
LEMMA CallKeeps ==
  ASSUME PacksInv, NEW q \in Calls, NEW c \in Call, call' = [call EXCEPT ![q] = c],
         ReadsRight(c), UNCHANGED pack,
         shares' \in [Tables -> SUBSET [id : PackIds, by : Authors, lock : SUBSET Release]],
         \A g \in Tables : \A s, t \in shares'[g] : s.id = t.id => s = t,
         UNCHANGED grants
  PROVE  PacksInv'
  <1>1. \A d : ReadsRight(d) => ReadsRight(d)'
    BY DEF ReadsRight, CarriesAll
  <1>2. call' \in [Calls -> Call] /\ \A o \in Calls : call'[o] = IF o = q THEN c ELSE call[o]
    BY DEF PacksInv, PacksTypeOK
  <1>3. \A o \in Calls : ReadsRight(call'[o])
    BY <1>2 DEF PacksInv
  <1>4. \A o \in Calls : ReadsRight(call[o])'
    BY <1>3 DEF ReadsRight, CarriesAll
  <1>5. PacksTypeOK' /\ RowsRight'
    BY <1>2 DEF PacksInv, PacksTypeOK, RowsRight
  <1> QED BY <1>4, <1>5 DEF PacksInv

LEMMA CallKeepsShares ==
  ASSUME PacksInv, NEW q \in Calls, NEW c \in Call, call' = [call EXCEPT ![q] = c],
         ReadsRight(c), UNCHANGED <<pack, shares, grants>>
  PROVE  PacksInv'
  BY CallKeeps DEF PacksInv, PacksTypeOK

LEMMA HangKeeps ==
  ASSUME PacksInv, NEW q \in Calls, Hang(q), UNCHANGED <<pack, shares, grants>>
  PROVE  PacksInv'
  <1>1. ReadsRight(NoCall)
    BY NoCallFits DEF ReadsRight
  <1> QED BY <1>1, NoCallFits, CallKeepsShares DEF Hang

\* Save goes through only at the revision that was read.
LEMMA SavedKeeps ==
  ASSUME PacksInv, NEW p \in Homebrew, NEW record \in Record, NEW expected \in 0..Revisions,
         Saved(p, record, expected), CarriesAll(p, record)
  PROVE  /\ pack' \in [Homebrew -> Record] /\ RowsRight'
         /\ \A c \in Call : ReadsRight(c) => ReadsRight(c)'
  <1> DEFINE row == [record EXCEPT !.revision = expected + 1]
  <1>1. row \in Record /\ row.revision = expected + 1 /\ row.releases = record.releases
        /\ row.draft = record.draft
    BY PacksAssumption DEF Record, Saved
  <1>2. pack' = [pack EXCEPT ![p] = row] /\ pack[p].revision = expected
    BY DEF Saved
  <1>3. pack' \in [Homebrew -> Record] /\ pack'[p] = row
        /\ \A h \in Homebrew : h # p => pack'[h] = pack[h]
    BY <1>1, <1>2 DEF PacksInv, PacksTypeOK
  <1>4. RowsRight'
    <2>1. \A r, s \in pack'[p].releases : r.version = s.version => r = s
      BY <1>1, <1>3 DEF CarriesAll
    <2>2. pack'[p].revision # 0
      BY <1>1, <1>3, PacksAssumption
    <2>3. ASSUME NEW h \in Homebrew
          PROVE  /\ pack'[h].revision = 0 => pack'[h].releases = {}
                 /\ \A r, s \in pack'[h].releases : r.version = s.version => r = s
      BY <1>3, <2>1, <2>2 DEF PacksInv, RowsRight
    <2> HIDE DEF row
    <2> QED BY <2>3 DEF RowsRight
  <1>5. ASSUME NEW c \in Call, ReadsRight(c) PROVE ReadsRight(c)'
    <2>1. c.id \in Homebrew /\ c.id # p => CarriesAll(c.id, c.record)' = CarriesAll(c.id, c.record)
      BY <1>3 DEF CarriesAll
    <2>2. c.revision \in 0..Revisions
      BY DEF Call
    <2> QED BY <1>1, <1>2, <1>3, <1>5, <2>1, <2>2 DEF ReadsRight, MayPassOn
  <1> QED BY <1>3, <1>4, <1>5

LEMMA CreatePackKeeps ==
  ASSUME PacksInv, NEW p \in Homebrew, CreatePack(p)
  PROVE  PacksInv'
  <1>1. pack[p].revision = 0 /\ pack[p].releases = {}
    BY DEF CreatePack, Saved, PacksInv, RowsRight
  <1>2. CarriesAll(p, Blank)
    BY <1>1 DEF CarriesAll, Blank
  <1>3. /\ pack' \in [Homebrew -> Record] /\ RowsRight'
        /\ \A c \in Call : ReadsRight(c) => ReadsRight(c)'
    BY <1>2, NoCallFits, SavedKeeps, PacksAssumption DEF CreatePack
  <1> QED BY <1>3 DEF CreatePack, PacksInv, PacksTypeOK

LEMMA SavePackKeeps ==
  ASSUME PacksInv, NEW q \in Calls, SavePack(q)
  PROVE  PacksInv'
  <1> DEFINE c == call[q]
  <1>1. c \in Call /\ c.id \in Homebrew /\ c.record \in Record /\ c.revision \in 0..Revisions
    BY DEF PacksInv, PacksTypeOK, ReadsRight, SavePack, Call
  <1>2. CarriesAll(c.id, c.record)
    BY DEF PacksInv, ReadsRight, SavePack, Saved
  <1>3. /\ pack' \in [Homebrew -> Record] /\ RowsRight'
        /\ \A d \in Call : ReadsRight(d) => ReadsRight(d)'
    BY <1>1, <1>2, SavedKeeps DEF SavePack
  <1>4. call' \in [Calls -> Call] /\ \A o \in Calls : call'[o] = IF o = q THEN NoCall ELSE call[o]
    BY NoCallFits DEF PacksInv, PacksTypeOK, SavePack, Hang
  <1>5. ASSUME NEW o \in Calls PROVE ReadsRight(call[o])'
    <2>1. ReadsRight(NoCall)
      BY NoCallFits DEF ReadsRight
    <2>2. call'[o] \in Call /\ ReadsRight(call'[o])
      BY <1>4, <2>1, NoCallFits DEF PacksInv, PacksTypeOK
    <2>3. ASSUME NEW d \in Call, ReadsRight(d), d = call'[o] PROVE ReadsRight(call[o])'
      <3>1. ReadsRight(d)'
        BY <1>3, <2>3
      <3> QED BY <2>3, <3>1 DEF ReadsRight, CarriesAll
    <2> QED BY <2>2, <2>3
  <1> QED BY <1>3, <1>4, <1>5 DEF SavePack, PacksInv, PacksTypeOK

\* What may be resolved against are releases.
LEMMA AvailableAreReleases ==
  ASSUME PacksInv, NEW u
  PROVE  /\ Available(u) \subseteq Release
         /\ \A g \in Tables : AtTable(g) \subseteq Release
  <1>1. \A p \in Homebrew : pack[p].releases \subseteq Release
    BY DEF PacksInv, PacksTypeOK, Record
  <1>2. Installed \subseteq Release
    BY NoCallFits DEF Installed, ReleaseOf, Release, Draft, PackIds
  <1>3. \A g \in Tables : AtTable(g) \subseteq Release
    BY DEF PacksInv, PacksTypeOK, AtTable
  <1> DEFINE own == UNION {pack[p].releases : p \in {h \in Homebrew : AuthorOf[h] = u}}
             open == {r \in Installed : MayUse(u, r.id)}
             here == UNION {AtTable(g) : g \in {t \in Tables : u \in SitsAt[t]}}
  <1>4. own \subseteq Release /\ open \subseteq Release /\ here \subseteq Release
    BY <1>1, <1>2, <1>3
  <1>5. Available(u) = (own \cup open \cup here) \ Retired
    BY DEF Available
  <1> HIDE DEF own, open, here
  <1> QED BY <1>3, <1>4, <1>5

LEMMA ReadKeeps ==
  ASSUME PacksInv, NEW q \in Calls, NEW u \in Authors, NEW begun,
         [begun EXCEPT !.by = u] \in Call, ReadsRight([begun EXCEPT !.by = u]),
         Read(q, u, begun), UNCHANGED <<pack, shares, grants>>
  PROVE  PacksInv'
  BY CallKeepsShares DEF Read

\* A request that reads a pack, with what it will write.
LEMMA AskSaveKeeps ==
  ASSUME PacksInv, NEW q \in Calls, NEW p \in Homebrew, NEW n \in 1..Revisions,
         NEW record \in Record, AskSave(q, p, n, record),
         record.releases = pack[p].releases
  PROVE  PacksInv'
  <1> DEFINE begun == [NoCall EXCEPT !.step = "save", !.id = p, !.revision = n, !.record = record]
             c == [begun EXCEPT !.by = AuthorOf[p]]
  <1>0. AuthorOf[p] \in Authors /\ n \in 0..Revisions /\ p \in PackIds
    BY PacksAssumption DEF PackIds
  <1>1. c \in Call
    BY <1>0, NoCallFits DEF Call
  <1>2. c.step = "save" /\ c.id = p /\ c.revision = n /\ c.record = record
    BY NoCallFits DEF NoCall
  <1>3. CarriesAll(p, record)
    BY DEF CarriesAll, PacksInv, RowsRight
  <1>4. ReadsRight(c)
    BY <1>2, <1>3 DEF ReadsRight, AskSave
  <1> HIDE DEF c
  <1>5. call' = [call EXCEPT ![q] = c]
    BY DEF AskSave, Read, c
  <1> QED BY <1>1, <1>4, <1>5, CallKeepsShares DEF AskSave

LEMMA AskPublishKeeps ==
  ASSUME PacksInv, NEW q \in Calls, NEW p \in Homebrew, NEW n \in 1..Revisions, AskPublish(q, p, n)
  PROVE  PacksInv'
  <1> DEFINE begun == [NoCall EXCEPT !.step = "publish", !.id = p, !.revision = n, !.record = pack[p]]
             c == [begun EXCEPT !.by = AuthorOf[p]]
  <1>0. AuthorOf[p] \in Authors /\ n \in 0..Revisions /\ p \in PackIds /\ pack[p] \in Record
    BY PacksAssumption DEF PackIds, PacksInv, PacksTypeOK
  <1>1. c \in Call
    BY <1>0, NoCallFits DEF Call
  <1>2. c.step = "publish" /\ c.id = p /\ c.revision = n /\ c.record = pack[p]
    BY NoCallFits DEF NoCall
  <1>4. ReadsRight(c)
    BY <1>2 DEF ReadsRight, AskPublish
  <1> HIDE DEF c
  <1>5. call' = [call EXCEPT ![q] = c]
    BY DEF AskPublish, Read, c
  <1> QED BY <1>1, <1>4, <1>5, CallKeepsShares DEF AskPublish

\* The draft that is validated is the one that was read, or the save fails.
LEMMA CheckDraftKeeps ==
  ASSUME PacksInv, NEW q \in Calls, CheckDraft(q)
  PROVE  PacksInv'
  <1> DEFINE me == call[q]
             release == ReleaseOf(me.id, pack[me.id].draft)
             record == [me.record EXCEPT !.archived = FALSE, !.releases = @ \cup {release}]
             c == [me EXCEPT !.step = "save", !.record = record]
  <1>1. /\ me \in Call /\ me.id \in Homebrew /\ me.step = "publish" /\ me.record \in Record
        /\ 0 < me.revision /\ me.revision <= pack[me.id].revision
        /\ pack[me.id] \in Record
    BY DEF PacksInv, PacksTypeOK, ReadsRight, CheckDraft, Call
  <1>2. release \in Release
    BY <1>1 DEF ReleaseOf, Release, Record, Draft, PackIds
  <1>3. record \in Record /\ record.releases = me.record.releases \cup {release}
        /\ record.draft = me.record.draft
    BY <1>1, <1>2 DEF Record
  <1>4. c \in Call /\ c.step = "save" /\ c.record = record /\ c.id = me.id /\ c.revision = me.revision
    <2> HIDE DEF record
    <2> QED BY <1>1, <1>3 DEF Call
  <1>5. call' = [call EXCEPT ![q] = c] /\ \A old \in me.record.releases : old.version # release.version
    BY <1>1 DEF CheckDraft, PacksInv, PacksTypeOK, Call, Record
  <1>6. ASSUME me.revision = pack[me.id].revision PROVE CarriesAll(me.id, record)
    <2>1. me.record = pack[me.id]
      BY <1>1, <1>6 DEF PacksInv, ReadsRight
    <2> QED BY <1>1, <1>3, <1>5, <2>1 DEF CarriesAll, PacksInv, RowsRight
  <1>7. ReadsRight(c)
    <2> HIDE DEF c, record
    <2> QED BY <1>1, <1>4, <1>6 DEF ReadsRight
  <1> HIDE DEF c
  <1> QED BY <1>4, <1>5, <1>7, CallKeepsShares DEF CheckDraft

LEMMA AskShareKeeps ==
  ASSUME PacksInv, NEW q \in Calls, NEW u \in Authors, NEW g \in Tables, NEW root \in Available(u),
         AskShare(q, u, g, root)
  PROVE  PacksInv'
  <1>1. PICK l \in Locks(Available(u), root) :
          /\ \A r \in l : MayPassOn(u, r.id) \/ r \in AtTable(g)
          /\ Read(q, u, [NoCall EXCEPT !.step = "share", !.id = root.id, !.table = g,
                                      !.lock = l, !.known = AtTable(g)])
    BY DEF AskShare
  <1> DEFINE begun == [NoCall EXCEPT !.step = "share", !.id = root.id, !.table = g,
                                      !.lock = l, !.known = AtTable(g)]
             c == [begun EXCEPT !.by = u]
  <1>2. l \subseteq Release /\ AtTable(g) \subseteq Release /\ root.id \in PackIds
    BY AvailableAreReleases DEF Locks, Release
  <1>3. c \in Call
    BY <1>2, NoCallFits DEF Call
  <1>4. /\ c.step = "share" /\ c.by = u /\ c.id = root.id /\ c.table = g /\ c.lock = l
        /\ c.known = AtTable(g)
    BY NoCallFits DEF NoCall
  <1>5. call' = [call EXCEPT ![q] = c]
    BY <1>1 DEF Read
  <1> HIDE DEF c
  <1>6. ReadsRight(c)
    BY <1>1, <1>2, <1>4 DEF ReadsRight
  <1> QED BY <1>3, <1>5, <1>6, CallKeepsShares DEF AskShare

LEMMA AskUnshareKeeps ==
  ASSUME PacksInv, NEW q \in Calls, NEW u \in Authors, NEW g \in Tables, NEW p \in PackIds,
         AskUnshare(q, u, g, p)
  PROVE  PacksInv'
  <1> DEFINE c == [[NoCall EXCEPT !.step = "unshare", !.id = p, !.table = g] EXCEPT !.by = u]
  <1>1. c \in Call
    BY NoCallFits DEF Call
  <1>2. c.step = "unshare" /\ c.by = u /\ c.id = p /\ c.table = g
    BY NoCallFits DEF NoCall
  <1>3. call' = [call EXCEPT ![q] = c]
    BY DEF AskUnshare, Read
  <1> HIDE DEF c
  <1>4. ReadsRight(c)
    BY <1>2 DEF ReadsRight
  <1> QED BY <1>1, <1>3, <1>4, CallKeepsShares DEF AskUnshare

LEMMA SharesKeep ==
  ASSUME PacksInv, NEW q \in Calls, PutShare(q) \/ DeleteShare(q)
  PROVE  PacksInv'
  <1> DEFINE c == call[q]
             put == [id |-> c.id, by |-> c.by, lock |-> c.lock]
             Share == [id : PackIds, by : Authors, lock : SUBSET Release]
  <1>1. c \in Call /\ c.by \in Authors /\ c.id \in PackIds /\ c.table \in Tables
    BY DEF PacksInv, PacksTypeOK, ReadsRight, PutShare, DeleteShare
  <1>2. put \in Share
    BY <1>1 DEF Call
  <1>3. PICK left \in SUBSET {put} :
          shares' = [shares EXCEPT ![c.table] = Withdrawn(c.table, c.id) \cup left]
    <2>1. CASE PutShare(q)
      BY <2>1 DEF PutShare
    <2>2. CASE DeleteShare(q)
      <3>1. shares' = [shares EXCEPT ![c.table] = Withdrawn(c.table, c.id) \cup {}]
        BY <2>2 DEF DeleteShare
      <3> QED BY <3>1
    <2> QED BY <2>1, <2>2
  <1>4. \A g \in Tables : shares[g] \subseteq Share /\ \A s, t \in shares[g] : s.id = t.id => s = t
    BY DEF PacksInv, PacksTypeOK
  <1>5. shares' \in [Tables -> SUBSET Share]
    BY <1>1, <1>2, <1>3 DEF Withdrawn, PacksInv, PacksTypeOK
  <1>6. \A g \in Tables : \A s, t \in shares'[g] : s.id = t.id => s = t
    <2> SUFFICES ASSUME NEW g \in Tables, NEW s \in shares'[g], NEW t \in shares'[g], s.id = t.id
                 PROVE  s = t
      OBVIOUS
    <2>1. CASE g # c.table
      BY <2>1, <1>3, <1>4 DEF PacksInv, PacksTypeOK
    <2>2. CASE g = c.table
      <3>1. s \in Withdrawn(c.table, c.id) \cup left /\ t \in Withdrawn(c.table, c.id) \cup left
        BY <2>2, <1>1, <1>3 DEF PacksInv, PacksTypeOK
      <3>2. put.id = c.id
        OBVIOUS
      <3> HIDE DEF put
      <3> QED BY <3>1, <3>2, <1>1, <1>3, <1>4 DEF Withdrawn
    <2> QED BY <2>1, <2>2
  <1>7. ReadsRight(NoCall) /\ NoCall \in Call
    BY NoCallFits DEF ReadsRight
  <1>8. call' = [call EXCEPT ![q] = NoCall] /\ UNCHANGED <<pack, grants>>
    BY DEF PutShare, DeleteShare, Hang
  <1> QED BY <1>5, <1>6, <1>7, <1>8, CallKeeps

LEMMA GrantKeeps ==
  ASSUME PacksInv, NEW u \in Authors, NEW packs \in SUBSET Private, Grant(u, packs)
  PROVE  PacksInv'
  <1>1. grants' \subseteq Authors \X Private
    BY DEF Grant, PacksInv, PacksTypeOK
  <1>2. \A q \in Calls : ReadsRight(call[q])'
    BY DEF Grant, PacksInv, ReadsRight, CarriesAll, MayPassOn
  <1> QED BY <1>1, <1>2 DEF Grant, PacksInv, PacksTypeOK, RowsRight

LEMMA PacksStep ==
  ASSUME PacksInv, [PacksNext]_packVars
  PROVE  PacksInv'
  <1>1. ASSUME NEW q \in Calls, NEW p \in Homebrew, NEW n \in 1..Revisions,
               AskSave(q, p, n, [pack[p] EXCEPT !.archived = TRUE])
        PROVE  PacksInv'
    <2>1. /\ [pack[p] EXCEPT !.archived = TRUE] \in Record
          /\ [pack[p] EXCEPT !.archived = TRUE].releases = pack[p].releases
      BY DEF PacksInv, PacksTypeOK, Record
    <2> QED BY <1>1, <2>1, AskSaveKeeps
  <1>2. ASSUME NEW q \in Calls, NEW p \in Homebrew, NEW n \in 1..Revisions,
               NEW v \in Versions, NEW needs \in SUBSET (PackIds \ {p}),
               AskSave(q, p, n, [pack[p] EXCEPT !.draft = [version |-> v, needs |-> needs]])
        PROVE  PacksInv'
    <2> DEFINE d == [version |-> v, needs |-> needs]
    <2>1. d \in Draft
      BY DEF Draft
    <2>2. /\ [pack[p] EXCEPT !.draft = d] \in Record
          /\ [pack[p] EXCEPT !.draft = d].releases = pack[p].releases
      BY <2>1 DEF PacksInv, PacksTypeOK, Record
    <2> QED BY <1>2, <2>2, AskSaveKeeps
  <1>3. ASSUME NEW q \in Calls, HangUp(q) PROVE PacksInv'
    BY <1>3, HangKeeps DEF HangUp
  <1>4. CASE UNCHANGED packVars
    <2>1. \A q \in Calls : ReadsRight(call[q])'
      BY <1>4 DEF packVars, PacksInv, ReadsRight, CarriesAll, MayPassOn
    <2> QED BY <1>4, <2>1 DEF packVars, PacksInv, PacksTypeOK, RowsRight
  <1> QED
    BY <1>1, <1>2, <1>3, <1>4, CreatePackKeeps, SavePackKeeps, AskPublishKeeps, CheckDraftKeeps,
       AskShareKeeps, AskUnshareKeeps, SharesKeep, GrantKeeps DEF PacksNext

LEMMA PacksBegin == PacksInit => PacksInv
  <1> SUFFICES ASSUME PacksInit PROVE PacksInv
    OBVIOUS
  <1>1. PacksTypeOK
    BY NoCallFits DEF PacksInit, PacksTypeOK
  <1>2. RowsRight
    BY DEF PacksInit, RowsRight, Blank
  <1>3. \A q \in Calls : ReadsRight(call[q])
    BY NoCallFits DEF PacksInit, ReadsRight
  <1> QED BY <1>1, <1>2, <1>3 DEF PacksInv

LEMMA PacksInductive == PacksSpec => []PacksInv
  BY PacksBegin, PacksStep, PTL DEF PacksSpec

\* The tables of packs, shares and grants hold what their columns allow, and a
\* table has one share of a pack.
THEOREM PacksTyped == PacksSpec => []PacksTypeOK
  BY PacksInductive, PTL DEF PacksInv

\* What is asked, granted, validated or hung up on leaves packs and shares alone.
LEMMA OnlyWritesWrite ==
  ASSUME PacksNext
  PROVE  \/ UNCHANGED <<pack, shares>>
         \/ \E p \in Homebrew : CreatePack(p)
         \/ \E q \in Calls : SavePack(q) \/ PutShare(q) \/ DeleteShare(q)
  <1> DEFINE Left == UNCHANGED <<pack, shares>>
  <1>1. ASSUME NEW u, NEW packs, Grant(u, packs) PROVE Left
    BY <1>1 DEF Grant
  <1>2. ASSUME NEW q, NEW p, NEW n, AskPublish(q, p, n) PROVE Left
    BY <1>2 DEF AskPublish
  <1>3. ASSUME NEW q, NEW p, NEW n, NEW record, AskSave(q, p, n, record) PROVE Left
    BY <1>3 DEF AskSave
  <1>4. ASSUME NEW q, NEW u, NEW g, NEW root, AskShare(q, u, g, root) PROVE Left
    BY <1>4 DEF AskShare
  <1>5. ASSUME NEW q, NEW u, NEW g, NEW p, AskUnshare(q, u, g, p) PROVE Left
    BY <1>5 DEF AskUnshare
  <1>6. ASSUME NEW q, CheckDraft(q) \/ HangUp(q) PROVE Left
    BY <1>6 DEF CheckDraft, HangUp
  <1> HIDE DEF Left
  <1>7. \/ Left
        \/ \E p \in Homebrew : CreatePack(p)
        \/ \E q \in Calls : SavePack(q) \/ PutShare(q) \/ DeleteShare(q)
    BY <1>1, <1>2, <1>3, <1>4, <1>5, <1>6, Zenon DEF PacksNext
  <1> QED BY <1>7 DEF Left

\* What a step does to the packs: it leaves them, or writes one as CarriesAll
\* allows.
LEMMA WritesWhole ==
  ASSUME PacksInv, PacksNext
  PROVE  \/ UNCHANGED pack
         \/ \E p \in Homebrew, record \in Record, n \in 0..Revisions :
               CarriesAll(p, record) /\ pack' = [pack EXCEPT ![p] = [record EXCEPT !.revision = n + 1]]
  <1>1. ASSUME NEW p \in Homebrew, CreatePack(p)
        PROVE  CarriesAll(p, Blank) /\ pack' = [pack EXCEPT ![p] = [Blank EXCEPT !.revision = 0 + 1]]
    <2>1. pack[p].releases = {}
      BY <1>1 DEF CreatePack, Saved, PacksInv, RowsRight
    <2> QED BY <1>1, <2>1 DEF CarriesAll, Blank, CreatePack, Saved
  <1>2. ASSUME NEW q \in Calls, SavePack(q)
        PROVE  \E p \in Homebrew, record \in Record, n \in 0..Revisions :
               CarriesAll(p, record) /\ pack' = [pack EXCEPT ![p] = [record EXCEPT !.revision = n + 1]]
    <2> DEFINE c == call[q]
    <2>1. c.id \in Homebrew /\ c.record \in Record /\ c.revision \in 0..Revisions
      BY <1>2 DEF PacksInv, PacksTypeOK, ReadsRight, SavePack, Call
    <2>2. CarriesAll(c.id, c.record)
      BY <1>2 DEF PacksInv, ReadsRight, SavePack, Saved
    <2>3. pack' = [pack EXCEPT ![c.id] = [c.record EXCEPT !.revision = c.revision + 1]]
      BY <1>2 DEF SavePack, Saved
    <2> QED BY <2>1, <2>2, <2>3
  <1>3. (\E p \in Homebrew : CreatePack(p)) \/ (\E q \in Calls : SavePack(q)) \/ UNCHANGED pack
    BY OnlyWritesWrite DEF PutShare, DeleteShare
  <1>4. 0 \in 0..Revisions
    BY PacksAssumption
  <1> QED BY <1>1, <1>2, <1>3, <1>4, NoCallFits

\* What was published stays published, whatever saves cross it, and a release
\* that is added is the draft its author saw validated.
THEOREM ReleasesKeptAlways == PacksSpec => ReleasesKept
  <1> DEFINE Kept == \A p \in Homebrew :
        /\ pack[p].releases \subseteq pack'[p].releases
        /\ \A r, s \in pack'[p].releases : r.version = s.version => r = s
        /\ \A r \in pack'[p].releases \ pack[p].releases :
               r = ReleaseOf(p, pack[p].draft) /\ pack'[p].draft = pack[p].draft
  <1>1. ASSUME PacksInv, [PacksNext]_packVars PROVE [Kept]_packVars
    <2> SUFFICES ASSUME PacksNext PROVE Kept
      BY <1>1
    <2>1. CASE UNCHANGED pack
      BY <1>1, <2>1 DEF PacksInv, RowsRight
    <2>2. ASSUME NEW p \in Homebrew, NEW record \in Record, NEW n \in 0..Revisions,
                 CarriesAll(p, record), pack' = [pack EXCEPT ![p] = [record EXCEPT !.revision = n + 1]]
          PROVE  Kept
      <3>1. /\ pack'[p].releases = record.releases /\ pack'[p].draft = record.draft
            /\ \A h \in Homebrew : h # p => pack'[h] = pack[h]
        BY <1>1, <2>2 DEF PacksInv, PacksTypeOK, Record
      <3> SUFFICES ASSUME NEW h \in Homebrew
                   PROVE  /\ pack[h].releases \subseteq pack'[h].releases
                          /\ \A r, s \in pack'[h].releases : r.version = s.version => r = s
                          /\ \A r \in pack'[h].releases \ pack[h].releases :
                                r = ReleaseOf(h, pack[h].draft) /\ pack'[h].draft = pack[h].draft
        OBVIOUS
      <3>2. CASE h = p
        BY <3>1, <3>2, <2>2 DEF CarriesAll
      <3>3. CASE h # p
        BY <1>1, <3>1, <3>3 DEF PacksInv, RowsRight
      <3> QED BY <3>2, <3>3
    <2> QED BY <1>1, <2>1, <2>2, WritesWhole
  <1> QED BY <1>1, PacksInductive, PTL DEF PacksSpec, ReleasesKept

\* Nobody brings to a table what is not theirs to pass on.
THEOREM PassedOnByRightAlways == PacksSpec => PassedOnByRight
  <1> DEFINE ByRight == \A g \in Tables : \A r \in (UNION {s.lock : s \in shares'[g]}) \ AtTable(g) :
        \E q \in Calls : /\ call[q].table = g /\ call'[q] # call[q]
                         /\ MayPassOn(call[q].by, r.id) \/ r \in call[q].known
  <1>1. ASSUME PacksInv, [PacksNext]_packVars PROVE [ByRight]_packVars
    <2> SUFFICES ASSUME PacksNext PROVE ByRight
      BY <1>1
    <2> SUFFICES ASSUME NEW g \in Tables,
                        NEW r \in (UNION {s.lock : s \in shares'[g]}) \ AtTable(g)
                 PROVE  \E q \in Calls : /\ call[q].table = g /\ call'[q] # call[q]
                                         /\ MayPassOn(call[q].by, r.id) \/ r \in call[q].known
      OBVIOUS
    <2> PICK s \in shares'[g] : r \in s.lock
      OBVIOUS
    <2>1. s \notin shares[g]
      BY DEF AtTable
    <2>2. PICK q \in Calls : PutShare(q) \/ DeleteShare(q)
      <3>1. shares' # shares
        BY <2>1
      <3>2. (\E q \in Calls : PutShare(q) \/ DeleteShare(q)) \/ UNCHANGED shares
        BY OnlyWritesWrite DEF CreatePack, SavePack
      <3> QED BY <3>1, <3>2
    <2> DEFINE c == call[q]
    <2>3. /\ c.step # "idle" /\ c \in Call /\ c.table \in Tables
          /\ c.step = "share" => \A a \in c.lock : MayPassOn(c.by, a.id) \/ a \in c.known
      BY <1>1, <2>2 DEF PutShare, DeleteShare, PacksInv, PacksTypeOK, ReadsRight
    <2>4. call'[q] # call[q]
      BY <1>1, <2>2, <2>3, NoCallFits DEF PutShare, DeleteShare, Hang, PacksInv, PacksTypeOK
    <2>5. c.table = g /\ PutShare(q) /\ s = [id |-> c.id, by |-> c.by, lock |-> c.lock]
      BY <1>1, <2>1, <2>2, <2>3 DEF PutShare, DeleteShare, Withdrawn, PacksInv, PacksTypeOK
    <2>6. c.step = "share" /\ r \in c.lock
      BY <2>5 DEF PutShare
    <2> QED BY <2>3, <2>4, <2>5, <2>6
  <1> QED BY <1>1, PacksInductive, PTL DEF PacksSpec, PassedOnByRight

-----------------------------------------------------------------------------
(* Folders.                                                                *)

\* The rows of folders: ids are drawn once, and an owner has one default.
FolderRows ==
    /\ folders \subseteq Folder /\ lastId \in 0..FolderIds
    /\ \A f, h \in folders : f.id = h.id => f = h
    /\ \A f \in folders : f.id <= lastId
    /\ \A f, h \in folders : f.main /\ h.main /\ f.owner = h.owner => f = h

\* What a reordering may write: of the folders it locked, those that it names
\* are there and move, and no other is; and it names each once.
Checked(t) ==
    /\ \A i \in t.seen : Movable(t.by, i) <=> i \in ToSet(t.order)
    /\ ToSet(t.order) \subseteq t.seen
    /\ \A i, j \in DOMAIN t.order : t.order[i] = t.order[j] => i = j

\* What a request under way may count on: the folder it names was drawn, its
\* owner has a default if it orders the others, what its order was checked
\* against is still so, and what it found in a folder and has not yet to
\* delete is gone.
TaskHolds(t) ==
    /\ t.folder <= lastId
    /\ t.step \in {"make", "move"} => t.sheet \in Sheets
    /\ t.step \in {"order", "lock", "write"} => t.by \in Owners /\ Mains(t.by) # {}
    /\ t.step \in {"lock", "write"} => \A i \in t.seen : i <= lastId
    /\ t.step = "write" => Checked(t)
    /\ t.step = "empty" => t.listed \ t.left \subseteq gone

FoldersInv ==
    /\ FolderRows
    /\ filed \in [Sheets -> 0..lastId] /\ gone \subseteq Sheets
    /\ task \in [Tasks -> Task] /\ \A q \in Tasks : TaskHolds(task[q])

\* What every step of the rows does: ids go up, defaults stay, and no folder
\* of the locked comes, goes or becomes a default.
RowsGo ==
    /\ FolderRows' /\ lastId <= lastId'
    /\ \A o \in Owners : Mains(o) # {} => Mains(o)' # {}
    /\ \A o \in Owners, i \in LockedRows : i <= lastId => (Movable(o, i) <=> Movable(o, i)')

LEMMA NoTaskFits == NoTask \in Task /\ NoTask.step = "idle" /\ NoTask.folder = 0
  BY FoldersAssumption DEF NoTask, Task

LEMMA FoldersFinite ==
  ASSUME FolderRows, NEW S \in SUBSET folders
  PROVE  IsFiniteSet(S) /\ Cardinality(S) \in Nat
  <1> DEFINE f == [x \in S |-> x.id]
  <1>1. IsFiniteSet(1..FolderIds)
    BY FoldersAssumption, FS_Interval
  <1>2. f \in Injection(S, 1..FolderIds)
    BY DEF FolderRows, Folder, Injection, IsInjective
  <1>3. IsFiniteSet(S)
    BY <1>1, <1>2, FS_Injection
  <1> QED BY <1>3, FS_CardinalityType

LEMMA InsertGoes ==
  ASSUME FolderRows, NEW o \in Owners, NEW main \in BOOLEAN, Insert(o, main),
         main => Mains(o) = {}
  PROVE  RowsGo /\ \A p \in Owners : Mains(p) # {} => Mains(p)' = Mains(p)
  <1> DEFINE new == [id |-> lastId + 1, owner |-> o, main |-> main, position |-> Cardinality(Of(o))]
  <1>1. Cardinality(Of(o)) \in Nat
    BY FoldersFinite DEF Of
  <1>2. lastId + 1 \in 1..FolderIds /\ lastId' = lastId + 1 /\ folders' = folders \cup {new}
    BY FoldersAssumption DEF Insert, FolderRows
  <1>3. new \in Folder /\ new.id = lastId + 1 /\ new.owner = o /\ new.main = main
    BY <1>1, <1>2 DEF Folder
  <1> HIDE DEF new
  <1>4. \A f \in folders : f.id \in 1..FolderIds /\ f.id <= lastId
    BY DEF FolderRows, Folder
  <1>5. FolderRows'
    <2>1. \A f, h \in folders' : f.id = h.id => f = h
      BY <1>2, <1>3, <1>4, FoldersAssumption DEF FolderRows
    <2>2. \A f \in folders' : f.id <= lastId'
      BY <1>2, <1>3, <1>4, FoldersAssumption DEF FolderRows
    <2>3. \A f, h \in folders' : f.main /\ h.main /\ f.owner = h.owner => f = h
      BY <1>2, <1>3 DEF FolderRows, Mains, Of
    <2> QED BY <1>2, <1>3, <2>1, <2>2, <2>3, FoldersAssumption DEF FolderRows
  <1>6. ASSUME NEW p \in Owners, Mains(p) # {} PROVE Mains(p)' = Mains(p)
    BY <1>2, <1>3, <1>6 DEF Mains, Of
  <1>7. lastId <= lastId'
    BY <1>2, FoldersAssumption DEF FolderRows
  <1>8. ASSUME NEW p \in Owners, NEW i, i <= lastId PROVE Movable(p, i) <=> Movable(p, i)'
    <2>1. \A f \in folders' : f.id = i => f \in folders
      BY <1>2, <1>3, <1>8, FoldersAssumption DEF FolderRows
    <2> QED BY <1>2, <2>1 DEF Movable, Of
  <1> QED BY <1>5, <1>6, <1>7, <1>8 DEF RowsGo

LEMMA EnsureGoes ==
  ASSUME FolderRows, NEW o \in Owners, EnsureDefault(o)
  PROVE  /\ RowsGo /\ \A p \in Owners : Mains(p) # {} => Mains(p)' = Mains(p)
         /\ Mains(o)' # {}
  <1>1. CASE Mains(o) = {}
    <2>1. Insert(o, TRUE)
      BY <1>1 DEF EnsureDefault
    <2> DEFINE new == [id |-> lastId + 1, owner |-> o, main |-> TRUE, position |-> Cardinality(Of(o))]
    <2>2. new \in folders' /\ new.owner = o /\ new.main
      BY <2>1 DEF Insert
    <2>3. Mains(o)' # {}
      BY <2>2 DEF Mains, Of
    <2> QED BY <1>1, <2>1, <2>3, InsertGoes
  <1>2. CASE Mains(o) # {}
    <2>1. UNCHANGED <<folders, lastId>>
      BY <1>2 DEF EnsureDefault
    <2> QED BY <1>2, <2>1, FoldersAssumption DEF RowsGo, FolderRows, Mains, Movable, Of
  <1> QED BY <1>1, <1>2

\* Positions are all that a reordering changes.
LEMMA ReorderGoes ==
  ASSUME FolderRows, NEW o \in Owners, NEW order \in Seq(1..FolderIds), SetPositions(order),
         \A i \in ToSet(order) : Movable(o, i), UNCHANGED lastId
  PROVE  /\ RowsGo /\ \A p \in Owners : Mains(p)' = Mains(p)
         /\ \A p \in Owners : \A i : Movable(p, i) <=> Movable(p, i)'
         /\ \A f \in folders : \E h \in folders' : h.id = f.id
  <1> DEFINE moved == {f \in folders : f.id \in ToSet(order)}
             At(f) == CHOOSE i \in DOMAIN order : order[i] = f.id
             new == {[f EXCEPT !.position = At(f)] : f \in moved}
  <1>1. folders' = (folders \ moved) \cup new
    BY DEF SetPositions
  <1>2. ASSUME NEW f \in moved PROVE At(f) \in Nat
    <2>1. \E i \in DOMAIN order : order[i] = f.id
      BY DEF ToSet
    <2>2. At(f) \in DOMAIN order
      BY <2>1
    <2> QED BY <2>2
  <1>a. \A f \in moved : f.owner = o /\ ~f.main
    BY DEF Movable, Of, FolderRows
  <1> HIDE DEF At
  <1>3. ASSUME NEW f \in moved
        PROVE  /\ [f EXCEPT !.position = At(f)] \in Folder
               /\ [f EXCEPT !.position = At(f)].id = f.id
               /\ [f EXCEPT !.position = At(f)].owner = f.owner
               /\ [f EXCEPT !.position = At(f)].main = f.main
    <2>1. f \in Folder
      BY DEF FolderRows
    <2> QED BY <1>2, <2>1 DEF Folder
  <1>4. \A h \in new : /\ h \in Folder /\ h.owner = o /\ ~h.main
                       /\ \E f \in moved : f.id = h.id /\ h = [f EXCEPT !.position = At(f)]
    BY <1>3, <1>a
  <1>5. \A f \in moved : \E h \in new : h.id = f.id
    BY <1>3
  <1> HIDE DEF new
  <1>6. \A f, h \in folders' : f.id = h.id => f = h
    <2> SUFFICES ASSUME NEW f \in folders', NEW h \in folders', f.id = h.id PROVE f = h
      OBVIOUS
    <2>1. CASE f \in new /\ h \in new
      <3>1. PICK a \in moved : a.id = f.id /\ f = [a EXCEPT !.position = At(a)]
        BY <1>4, <2>1
      <3>2. PICK b \in moved : b.id = h.id /\ h = [b EXCEPT !.position = At(b)]
        BY <1>4, <2>1
      <3>3. a = b
        BY <3>1, <3>2 DEF FolderRows
      <3> QED BY <3>1, <3>2, <3>3
    <2>2. CASE f \in folders \ moved /\ h \in folders \ moved
      BY <2>2 DEF FolderRows
    <2>3. ASSUME NEW a \in folders \ moved, NEW b \in new, a.id = b.id PROVE FALSE
      BY <1>4, <2>3 DEF FolderRows
    <2> QED BY <1>1, <2>1, <2>2, <2>3
  <1>7. FolderRows'
    <2>1. folders' \subseteq Folder /\ \A f \in folders' : f.id <= lastId'
      BY <1>1, <1>4 DEF FolderRows
    <2>2. \A f, h \in folders' : f.main /\ h.main /\ f.owner = h.owner => f = h
      BY <1>1, <1>4 DEF FolderRows
    <2> QED BY <1>6, <2>1, <2>2 DEF FolderRows
  <1>8. ASSUME NEW p \in Owners PROVE Mains(p)' = Mains(p)
    BY <1>1, <1>4, <1>a DEF Mains, Of
  <1>9. \A f \in folders : \E h \in folders' : h.id = f.id
    BY <1>1, <1>5
  <1>10. ASSUME NEW p \in Owners, NEW i PROVE Movable(p, i) <=> Movable(p, i)'
    <2>1. ASSUME NEW f \in Of(p), f.id = i, ~f.main PROVE Movable(p, i)'
      <3>1. CASE f \in moved
        <4>1. PICK h \in new : h = [f EXCEPT !.position = At(f)]
          BY <3>1 DEF new
        <4>2. h.id = i /\ h.owner = p /\ ~h.main
          BY <1>3, <2>1, <3>1, <4>1 DEF Of
        <4> QED BY <1>1, <4>2 DEF Movable, Of
      <3>2. CASE f \notin moved
        BY <1>1, <2>1, <3>2 DEF Movable, Of
      <3> QED BY <3>1, <3>2
    <2>2. ASSUME NEW h \in Of(p)', h.id = i, ~h.main PROVE Movable(p, i)
      <3>1. CASE h \in new
        <4>1. PICK f \in moved : f.id = h.id
          BY <1>4, <3>1
        <4> QED BY <1>4, <1>a, <2>2, <3>1, <4>1 DEF Movable, Of
      <3>2. CASE h \notin new
        BY <1>1, <2>2, <3>2 DEF Movable, Of
      <3> QED BY <3>1, <3>2
    <2> QED BY <2>1, <2>2 DEF Movable
  <1> QED BY <1>7, <1>8, <1>9, <1>10, FoldersAssumption DEF RowsGo, FolderRows

LEMMA DropGoes ==
  ASSUME FolderRows, NEW o \in Owners, NEW id, Movable(o, id), id \notin LockedRows,
         folders' = {f \in folders : f.id # id}, UNCHANGED lastId
  PROVE  RowsGo /\ \A p \in Owners : Mains(p)' = Mains(p)
  <1>1. \A p \in Owners : Mains(p)' = Mains(p)
    BY DEF FolderRows, Movable, Mains, Of
  <1>2. FolderRows'
    BY DEF FolderRows
  <1>3. \A p \in Owners, i \in LockedRows : Movable(p, i) <=> Movable(p, i)'
    BY DEF Movable, Of
  <1> QED BY <1>1, <1>2, <1>3, FoldersAssumption DEF RowsGo, FolderRows

\* A request may go on counting on what it did, if it locked what it must.
LEMMA HoldsOn ==
  ASSUME FolderRows, RowsGo, gone \subseteq gone', NEW r \in Task, TaskHolds(r),
         r.step = "write" => r.seen \subseteq LockedRows
  PROVE  TaskHolds(r)'
  <1>1. /\ lastId \in Int /\ lastId' \in Int /\ r.folder \in Int /\ lastId <= lastId'
        /\ r.seen \subseteq Int
    BY FoldersAssumption DEF RowsGo, FolderRows, Task
  <1>2. ASSUME r.step = "write" PROVE Checked(r)'
    <2>1. Checked(r) /\ r.by \in Owners /\ \A i \in r.seen : i \in LockedRows /\ i <= lastId
      BY <1>2 DEF TaskHolds
    <2>2. \A i \in r.seen : Movable(r.by, i) <=> Movable(r.by, i)'
      BY <2>1 DEF RowsGo
    <2> QED BY <2>1, <2>2 DEF Checked
  <1>3. r.folder <= lastId' /\ (r.step \in {"lock", "write"} => \A i \in r.seen : i <= lastId')
    BY <1>1 DEF TaskHolds
  <1> QED BY <1>2, <1>3 DEF TaskHolds, RowsGo

LEMMA LocksItsRows ==
  ASSUME NEW q \in Tasks, task[q].step = "write"
  PROVE  task[q].seen \subseteq LockedRows
  BY DEF LockedRows

\* A step keeps the invariant if the rows go on so, and one request changes,
\* to one that may count on what it needs.
LEMMA TaskKeeps ==
  ASSUME FoldersInv, RowsGo, NEW q \in Tasks, NEW t \in Task, task' = [task EXCEPT ![q] = t],
         TaskHolds(t)', filed' \in [Sheets -> 0..lastId'], gone \subseteq gone', gone' \subseteq Sheets
  PROVE  FoldersInv'
  <1>2. task' \in [Tasks -> Task] /\ \A o \in Tasks : task'[o] = IF o = q THEN t ELSE task[o]
    BY DEF FoldersInv
  <1>3. ASSUME NEW o \in Tasks PROVE TaskHolds(task[o])'
    <2>1. CASE o = q
      BY <1>2, <2>1 DEF TaskHolds, Checked
    <2>2. CASE o # q
      <3>1. task'[o] = task[o] /\ task[o] \in Task /\ TaskHolds(task[o])
        BY <1>2, <2>2 DEF FoldersInv
      <3>2. ASSUME NEW d \in Task, d = task[o], d = task'[o], TaskHolds(d) PROVE TaskHolds(task[o])'
        <4>1. TaskHolds(d)'
          BY <3>2, HoldsOn, LocksItsRows DEF FoldersInv
        <4> QED BY <3>2, <4>1 DEF TaskHolds, Checked
      <3> QED BY <3>1, <3>2
    <2> QED BY <2>1, <2>2
  <1> QED BY <1>2, <1>3 DEF FoldersInv, RowsGo

LEMMA NoTaskHolds == ASSUME FolderRows, RowsGo PROVE TaskHolds(NoTask) /\ TaskHolds(NoTask)'
  BY NoTaskFits, FoldersAssumption DEF TaskHolds, FolderRows, RowsGo

LEMMA RowsStay ==
  ASSUME FolderRows, UNCHANGED <<folders, lastId>>
  PROVE  RowsGo
  BY FoldersAssumption DEF FolderRows, RowsGo, Mains, Movable, Of

LEMMA MadeKeeps ==
  ASSUME FoldersInv, NEW o \in Owners, ListFolders(o) \/ CreateFolder(o)
  PROVE  FoldersInv'
  <1>1. FolderRows /\ UNCHANGED <<filed, gone, task>>
    BY DEF FoldersInv, ListFolders, CreateFolder
  <1>2. RowsGo
    <2>1. CASE ListFolders(o)
      BY <1>1, <2>1, EnsureGoes DEF ListFolders
    <2>2. CASE CreateFolder(o)
      BY <1>1, <2>2, InsertGoes DEF CreateFolder
    <2> QED BY <2>1, <2>2
  <1>3. filed' \in [Sheets -> 0..lastId']
    BY <1>1, <1>2, FoldersAssumption DEF FoldersInv, FolderRows, RowsGo
  <1>4. ASSUME NEW q \in Tasks PROVE TaskHolds(task[q])'
    <2>1. task[q] \in Task /\ TaskHolds(task[q]) /\ task' = task /\ gone' = gone
      BY <1>1 DEF FoldersInv
    <2>2. ASSUME NEW d \in Task, d = task[q], d = task'[q], TaskHolds(d) PROVE TaskHolds(task[q])'
      <3>1. TaskHolds(d)'
        BY <1>1, <1>2, <2>1, <2>2, HoldsOn, LocksItsRows
      <3> QED BY <2>2, <3>1 DEF TaskHolds, Checked
    <2> QED BY <2>1, <2>2
  <1> QED BY <1>1, <1>2, <1>3, <1>4 DEF FoldersInv, RowsGo

LEMMA SequencesAre ==
  ASSUME NEW n \in Nat, NEW S, NEW f \in [1..n -> S]
  PROVE  f \in Seq(S) /\ Len(f) = n
  OBVIOUS

LEMMA AskReorderKeeps ==
  ASSUME FoldersInv, NEW q \in Tasks, NEW o \in Owners,
         NEW ids \in SUBSET {f.id : f \in Of(o) \ Mains(o)},
         NEW order \in SetToSeqs(ids), AskReorder(q, o, order)
  PROVE  FoldersInv'
  <1> DEFINE t == [NoTask EXCEPT !.step = "order", !.by = o, !.order = order]
  <1>1. ids \subseteq 1..FolderIds /\ Cardinality(ids) \in Nat
    <2>1. ids \subseteq 1..FolderIds
      BY DEF FoldersInv, FolderRows, Folder, Of
    <2>2. IsFiniteSet(1..FolderIds)
      BY FoldersAssumption, FS_Interval
    <2>3. IsFiniteSet(ids)
      BY <2>1, <2>2, FS_Subset
    <2> QED BY <2>1, <2>3, FS_CardinalityType
  <1>2. order \in Seq(1..FolderIds)
    <2>1. order \in [1..Cardinality(ids) -> ids]
      BY Zenon DEF SetToSeqs
    <2>2. order \in [1..Cardinality(ids) -> 1..FolderIds]
      BY <1>1, <2>1
    <2> QED BY <1>1, <2>2, SequencesAre
  <1>3. t \in Task /\ t.folder = 0 /\ t.step = "order" /\ t.by = o
    BY <1>2, NoTaskFits DEF Task, NoTask
  <1> HIDE DEF t
  <1>4. RowsGo /\ Mains(o)' # {} /\ UNCHANGED <<filed, gone>>
    BY EnsureGoes DEF AskReorder, FoldersInv
  <1>5. filed' \in [Sheets -> 0..lastId'] /\ lastId' \in Nat
    BY <1>4, FoldersAssumption DEF FoldersInv, FolderRows, RowsGo
  <1>6. TaskHolds(t)'
    BY <1>3, <1>4, <1>5 DEF TaskHolds
  <1>7. task' = [task EXCEPT ![q] = t]
    BY DEF AskReorder, Ask, t
  <1> QED BY <1>3, <1>4, <1>5, <1>6, <1>7, TaskKeeps DEF FoldersInv

\* The ids that are asked for are the folders that were read, each once.
LEMMA OrderIsPlaces ==
  ASSUME FolderRows, NEW have \in SUBSET folders, NEW order \in Seq(1..FolderIds),
         CheckReorder(have, order)
  PROVE  /\ \A i, j \in DOMAIN order : order[i] = order[j] => i = j
         /\ \A n : n \in ToSet(order) <=> \E f \in have : ~f.main /\ f.id = n
  <1> DEFINE moved == {f \in have : ~f.main}
             ids == {f.id : f \in moved}
             k == Len(order)
             b == [f \in moved |-> f.id]
  <1>1. k \in Nat /\ DOMAIN order = 1..k /\ k = Cardinality(ids) /\ ToSet(order) = ids
    BY DEF CheckReorder
  <1>2. IsFiniteSet(ids)
    <2>1. ids \subseteq 1..FolderIds
      BY DEF FolderRows, Folder
    <2>2. IsFiniteSet(1..FolderIds)
      BY FoldersAssumption, FS_Interval
    <2> HIDE DEF ids
    <2> QED BY <2>1, <2>2, FS_Subset
  <1>3. \A n : n \in ids <=> \E f \in have : ~f.main /\ f.id = n
    OBVIOUS
  <1> HIDE DEF moved, ids, k
  <1>4. order \in Surjection(1..k, ids)
    <2>1. \A n : n \in ids <=> \E i \in 1..k : order[i] = n
      BY <1>1 DEF ToSet
    <2>2. order \in [1..k -> ids]
      BY <1>1, <2>1 DEF k
    <2> QED BY <2>1, <2>2 DEF Surjection
  <1>5. IsFiniteSet(1..k) /\ Cardinality(1..k) = k
    BY <1>1, FS_Interval
  <1>6. order \in Injection(1..k, ids)
    BY <1>1, <1>4, <1>5, FS_SurjSameCardinalityImpliesInj
  <1> QED BY <1>1, <1>3, <1>6 DEF Injection, IsInjective

LEMMA ReadOrderKeeps ==
  ASSUME FoldersInv, NEW q \in Tasks, ReadOrder(q)
  PROVE  FoldersInv'
  <1>1. /\ task[q] \in Task /\ TaskHolds(task[q]) /\ FolderRows /\ task[q].step = "order"
        /\ UNCHANGED <<folders, lastId, filed, gone>>
    BY DEF FoldersInv, ReadOrder
  <1> DEFINE ids == {f.id : f \in Of(task[q].by)}
  <1>2. ids \in SUBSET (1..FolderIds) /\ \A i \in ids : i <= lastId
    BY <1>1 DEF FolderRows, Folder, Of
  <1>3. PICK t : t = [task[q] EXCEPT !.step = "lock", !.seen = ids]
    OBVIOUS
  <1>4. task' = [task EXCEPT ![q] = t]
    BY <1>3 DEF ReadOrder, FoldersInv
  <1> HIDE DEF ids
  <1>5. t \in Task /\ t.step = "lock" /\ t.seen = ids /\ t.folder = task[q].folder /\ t.by = task[q].by
    BY <1>1, <1>2, <1>3 DEF Task
  <1>6. TaskHolds(t)
    BY <1>1, <1>2, <1>5 DEF TaskHolds
  <1>7. TaskHolds(t)'
    BY <1>1, <1>5, <1>6, RowsStay, HoldsOn
  <1> QED BY <1>1, <1>4, <1>5, <1>7, RowsStay, TaskKeeps DEF FoldersInv

LEMMA LockOrderKeeps ==
  ASSUME FoldersInv, NEW q \in Tasks, LockOrder(q)
  PROVE  FoldersInv'
  <1>1. /\ task[q] \in Task /\ TaskHolds(task[q]) /\ FolderRows /\ task[q].step = "lock"
        /\ UNCHANGED <<folders, lastId, filed, gone>>
    BY DEF FoldersInv, LockOrder
  <1>2. PICK t : t = [task[q] EXCEPT !.step = "write"]
    OBVIOUS
  <1>3. task' = [task EXCEPT ![q] = t]
    BY <1>2 DEF LockOrder, FoldersInv
  <1>4. /\ t \in Task /\ t.step = "write" /\ t.seen = task[q].seen /\ t.folder = task[q].folder
        /\ t.by = task[q].by /\ t.order = task[q].order
    BY <1>1, <1>2 DEF Task
  <1> DEFINE have == {f \in Of(t.by) : f.id \in t.seen}
  <1>5. /\ \A i, j \in DOMAIN t.order : t.order[i] = t.order[j] => i = j
        /\ \A n : n \in ToSet(t.order) <=> \E f \in have : ~f.main /\ f.id = n
    <2>1. have \in SUBSET folders /\ t.order \in Seq(1..FolderIds)
      BY <1>4 DEF Of, Task
    <2>2. CheckReorder(have, t.order)
      BY <1>4 DEF LockOrder
    <2> HIDE DEF have
    <2> QED BY <1>1, <2>1, <2>2, OrderIsPlaces
  <1>6. Checked(t)
    BY <1>5 DEF Checked, Movable
  <1>7. TaskHolds(t)'
    <2>1. TaskHolds(t)
      BY <1>1, <1>4, <1>6 DEF TaskHolds
    <2> QED BY <1>1, <2>1 DEF TaskHolds, Checked, Movable, Mains, Of
  <1> QED BY <1>1, <1>3, <1>4, <1>7, RowsStay, TaskKeeps DEF FoldersInv

\* What is written moves: its rows are locked, and were checked.
LEMMA WritesMovable ==
  ASSUME FoldersInv, NEW q \in Tasks, PutOrder(q)
  PROVE  /\ FolderRows /\ task[q] \in Task /\ task[q].by \in Owners
         /\ task[q].order \in Seq(1..FolderIds) /\ Checked(task[q])
         /\ Mains(task[q].by) # {} /\ UNCHANGED lastId /\ SetPositions(task[q].order)
         /\ \A i \in ToSet(task[q].order) : Movable(task[q].by, i)
  <1>1. task[q] \in Task /\ TaskHolds(task[q]) /\ FolderRows /\ task[q].step = "write"
    BY DEF FoldersInv, PutOrder
  <1>2. Checked(task[q]) /\ task[q].by \in Owners /\ Mains(task[q].by) # {}
    BY <1>1 DEF TaskHolds
  <1>3. \A i \in ToSet(task[q].order) : Movable(task[q].by, i)
    BY <1>2 DEF Checked
  <1> QED BY <1>1, <1>2, <1>3 DEF PutOrder, Task

LEMMA EndKeeps ==
  ASSUME FoldersInv, NEW q \in Tasks, Finish(q), RowsGo,
         filed' \in [Sheets -> 0..lastId'], UNCHANGED gone
  PROVE  FoldersInv'
  BY NoTaskHolds, NoTaskFits, TaskKeeps DEF Finish, FoldersInv

LEMMA EndsKeep ==
  ASSUME FoldersInv, NEW q \in Tasks, PutOrder(q) \/ File(q) \/ DropFolder(q) \/ Fail(q)
  PROVE  FoldersInv'
  <1> DEFINE t == task[q]
  <1>1. t \in Task /\ TaskHolds(t) /\ Finish(q) /\ UNCHANGED <<lastId, gone>> /\ FolderRows
    BY DEF FoldersInv, PutOrder, File, DropFolder, Fail
  <1>2. RowsGo
    <2>1. CASE PutOrder(q)
      BY <2>1, WritesMovable, ReorderGoes
    <2>2. CASE DropFolder(q)
      <3>1. t.by \in Owners
        BY <1>1, <2>2 DEF DropFolder, Movable, Of, FolderRows, Folder
      <3> QED BY <1>1, <2>2, <3>1, DropGoes DEF DropFolder
    <2>3. CASE File(q) \/ Fail(q)
      BY <1>1, <2>3, RowsStay DEF File, Fail
    <2> QED BY <2>1, <2>2, <2>3
  <1>3. filed' \in [Sheets -> 0..lastId']
    <2>1. CASE File(q)
      <3>1. t.folder \in 0..lastId /\ t.sheet \in Sheets
        BY <1>1, <2>1, FoldersAssumption DEF File, TaskHolds, Task, FolderRows
      <3> QED BY <1>1, <2>1, <3>1 DEF File, FoldersInv
    <2>2. CASE PutOrder(q) \/ DropFolder(q) \/ Fail(q)
      BY <1>1, <2>2 DEF PutOrder, DropFolder, Fail, FoldersInv
    <2> QED BY <2>1, <2>2
  <1> QED BY <1>1, <1>2, <1>3, EndKeeps

LEMMA AskFileKeeps ==
  ASSUME FoldersInv, NEW q \in Tasks, NEW c \in Sheets, NEW id \in 0..FolderIds, AskFile(q, c, id)
  PROVE  FoldersInv'
  <1> PICK step \in {"make", "move"} : step = IF filed[c] = 0 THEN "make" ELSE "move"
    OBVIOUS
  <1> DEFINE begun == [NoTask EXCEPT !.step = step, !.by = SheetOf[c], !.sheet = c]
             t(n) == [begun EXCEPT !.folder = n]
  <1>1. SheetOf[c] \in Owners /\ UNCHANGED <<filed, gone>>
    BY FoldersAssumption DEF AskFile
  <1>2. PICK n : RowsGo /\ n \in 0..FolderIds /\ n <= lastId' /\ task' = [task EXCEPT ![q] = t(n)]
    <2>1. CASE Owned(SheetOf[c], id) /\ Ask(q, t(id)) /\ UNCHANGED <<folders, lastId>>
      <3>1. id <= lastId'
        BY <2>1 DEF Owned, Of, FoldersInv, FolderRows
      <3> QED BY <2>1, <3>1, RowsStay DEF Ask, FoldersInv
    <2>2. ASSUME EnsureDefault(SheetOf[c]), NEW f \in folders', Ask(q, t(f.id))
          PROVE  RowsGo /\ f.id \in 0..FolderIds /\ f.id <= lastId' /\ task' = [task EXCEPT ![q] = t(f.id)]
      <3>1. RowsGo
        BY <1>1, <2>2, EnsureGoes DEF FoldersInv
      <3>2. f.id \in 0..FolderIds /\ f.id <= lastId'
        BY <3>1 DEF RowsGo, FolderRows, Folder
      <3> QED BY <2>2, <3>1, <3>2 DEF Ask
    <2> QED BY <2>1, <2>2 DEF AskFile
  <1>3. t(n) \in Task /\ t(n).folder = n /\ t(n).sheet = c /\ t(n).step \in {"make", "move"}
    BY <1>1, <1>2, NoTaskFits DEF Task, NoTask
  <1> HIDE DEF t
  <1>4. TaskHolds(t(n))'
    BY <1>2, <1>3 DEF TaskHolds
  <1>5. filed' \in [Sheets -> 0..lastId'] /\ gone' = gone
    BY <1>1, <1>2, FoldersAssumption DEF FoldersInv, FolderRows, RowsGo
  <1> QED BY <1>2, <1>3, <1>4, <1>5, TaskKeeps DEF FoldersInv

LEMMA AskDeleteKeeps ==
  ASSUME FoldersInv, NEW q \in Tasks, NEW o \in Owners, NEW id \in 1..FolderIds,
         AskDeleteFolder(q, o, id)
  PROVE  FoldersInv'
  <1> DEFINE t == [NoTask EXCEPT !.step = "list", !.by = o, !.folder = id]
  <1>0. id \in 0..FolderIds
    BY FoldersAssumption
  <1>1. t \in Task /\ t.folder = id /\ t.step = "list"
    BY <1>0, NoTaskFits DEF Task, NoTask
  <1>2. task' = [task EXCEPT ![q] = t] /\ UNCHANGED <<folders, lastId, filed, gone>>
    BY DEF AskDeleteFolder, Ask
  <1> HIDE DEF t
  <1>3. id <= lastId
    BY DEF AskDeleteFolder, Movable, Of, FoldersInv, FolderRows
  <1>4. RowsGo
    BY <1>2, RowsStay DEF FoldersInv
  <1>5. TaskHolds(t)'
    BY <1>1, <1>2, <1>3 DEF TaskHolds
  <1> QED BY <1>1, <1>2, <1>4, <1>5, TaskKeeps DEF FoldersInv

LEMMA EmptyKeeps ==
  ASSUME FoldersInv, NEW q \in Tasks, ListSheets(q) \/ EmptyFolder(q)
  PROVE  FoldersInv'
  <1>1. task[q] \in Task /\ TaskHolds(task[q]) /\ FolderRows /\ UNCHANGED <<folders, lastId, filed>>
    BY DEF FoldersInv, ListSheets, EmptyFolder
  <1>2. RowsGo
    BY <1>1, RowsStay
  <1>3. CASE ListSheets(q)
    <2> DEFINE inside == {c \in Sheets : /\ Stored(c) /\ SheetOf[c] = task[q].by
                                         /\ filed[c] = task[q].folder}
    <2>0. PICK t : t = [task[q] EXCEPT !.step = "empty", !.listed = inside, !.left = inside]
      OBVIOUS
    <2>1. t \in Task /\ t.step = "empty" /\ t.listed = t.left /\ t.folder = task[q].folder
      BY <1>1, <2>0 DEF Task
    <2>2. task' = [task EXCEPT ![q] = t]
      BY <1>3, <2>0 DEF ListSheets, FoldersInv
    <2>3. TaskHolds(t)'
      <3>1. t.listed \ t.left \subseteq gone' /\ t.folder <= lastId'
        BY <1>1, <2>1 DEF TaskHolds
      <3>2. t.step \notin {"make", "move"} /\ t.step \notin {"order", "lock", "write"}
            /\ t.step \notin {"lock", "write"} /\ t.step # "write"
        BY <2>1
      <3> HIDE DEF inside
      <3> QED BY <3>1, <3>2, Zenon DEF TaskHolds
    <2>4. gone' = gone /\ filed' \in [Sheets -> 0..lastId'] /\ gone' \in SUBSET Sheets
      BY <1>1, <1>3 DEF ListSheets, FoldersInv
    <2> QED BY <1>2, <2>1, <2>2, <2>3, <2>4, TaskKeeps
  <1>4. CASE EmptyFolder(q)
    <2>1. PICK c \in task[q].left : gone' = gone \cup {c} /\ task' = [task EXCEPT ![q].left = @ \ {c}]
      BY <1>4 DEF EmptyFolder
    <2>0. PICK t : t = [task[q] EXCEPT !.left = task[q].left \ {c}]
      OBVIOUS
    <2>2. /\ t \in Task /\ t.step = task[q].step /\ t.listed = task[q].listed
          /\ t.left = task[q].left \ {c} /\ t.folder = task[q].folder /\ c \in Sheets
      BY <1>1, <2>0 DEF Task
    <2>3. task' = [task EXCEPT ![q] = t]
      BY <2>0, <2>1 DEF FoldersInv
    <2>4. TaskHolds(t)'
      BY <1>1, <1>4, <2>1, <2>2 DEF TaskHolds, EmptyFolder
    <2> QED BY <1>1, <1>2, <2>1, <2>2, <2>3, <2>4, TaskKeeps DEF FoldersInv
  <1> QED BY <1>3, <1>4

LEMMA FoldersStep ==
  ASSUME FoldersInv, [FoldersNext]_folderVars
  PROVE  FoldersInv'
  <1>1. ASSUME NEW c \in Sheets, DeleteSheet(c) PROVE FoldersInv'
    <2>1. \A q \in Tasks : TaskHolds(task[q])'
      BY <1>1 DEF DeleteSheet, FoldersInv, TaskHolds, Checked, Movable, Mains, Of
    <2> QED BY <1>1, <2>1 DEF DeleteSheet, FoldersInv, FolderRows
  <1>2. CASE UNCHANGED folderVars
    <2>1. \A q \in Tasks : TaskHolds(task[q])'
      BY <1>2 DEF folderVars, FoldersInv, TaskHolds, Checked, Movable, Mains, Of
    <2> QED BY <1>2, <2>1 DEF folderVars, FoldersInv, FolderRows
  <1> QED
    BY <1>1, <1>2, MadeKeeps, AskReorderKeeps, ReadOrderKeeps, LockOrderKeeps, AskDeleteKeeps,
       AskFileKeeps, EndsKeep, EmptyKeeps DEF FoldersNext

LEMMA FoldersBegin == FoldersInit => FoldersInv
  <1> SUFFICES ASSUME FoldersInit PROVE FoldersInv
    OBVIOUS
  <1>1. FolderRows /\ filed \in [Sheets -> 0..lastId]
    BY FoldersAssumption DEF FoldersInit, FolderRows
  <1>2. \A q \in Tasks : TaskHolds(task[q])
    BY NoTaskFits DEF FoldersInit, TaskHolds
  <1> QED BY <1>1, <1>2, NoTaskFits DEF FoldersInit, FoldersInv

LEMMA FoldersInductive == FoldersSpec => []FoldersInv
  BY FoldersBegin, FoldersStep, PTL DEF FoldersSpec

\* The rows of folders hold what their columns allow: an id is drawn once, and
\* no character is filed where no folder ever was.
THEOREM FoldersTyped == FoldersSpec => []FoldersTypeOK
  <1>1. FoldersInv => FoldersTypeOK
    BY DEF FoldersInv, FolderRows, FoldersTypeOK
  <1> QED BY <1>1, FoldersInductive, PTL

\* Whose default folder is made keeps it.
THEOREM OneDefaultAlways == FoldersSpec => OneDefault
  <1> DEFINE Keeps == \A o \in Owners : Mains(o) # {} => Mains(o)' = Mains(o)
  <1>1. ASSUME FoldersInv, [FoldersNext]_folderVars PROVE [Keeps]_folderVars
    <2> SUFFICES ASSUME FoldersNext PROVE Keeps
      BY <1>1
    <2>1. FolderRows
      BY <1>1 DEF FoldersInv
    <2>2. ASSUME UNCHANGED folders PROVE Keeps
      BY <2>2 DEF Mains, Of
    <2>3. ASSUME NEW o \in Owners, EnsureDefault(o) PROVE Keeps
      BY <2>1, <2>3, EnsureGoes
    <2>4. ASSUME NEW o \in Owners, CreateFolder(o) PROVE Keeps
      BY <2>1, <2>4, InsertGoes DEF CreateFolder
    <2>5. ASSUME NEW q \in Tasks, PutOrder(q) PROVE Keeps
      BY <1>1, <2>5, WritesMovable, ReorderGoes
    <2>6. ASSUME NEW q \in Tasks, DropFolder(q) PROVE Keeps
      <3>1. task[q].by \in Owners
        BY <2>1, <2>6 DEF DropFolder, Movable, Of, FolderRows, Folder
      <3> QED BY <2>1, <2>6, <3>1, DropGoes DEF DropFolder
    <2>7. ASSUME NEW q \in Tasks, NEW c \in Sheets, NEW id \in 0..FolderIds, AskFile(q, c, id)
          PROVE  Keeps
      <3>1. SheetOf[c] \in Owners
        BY FoldersAssumption
      <3>2. EnsureDefault(SheetOf[c]) \/ UNCHANGED folders
        BY <2>7 DEF AskFile
      <3> QED BY <3>1, <3>2, <2>2, <2>3
    <2>8. \/ UNCHANGED folders
          \/ \E o \in Owners : EnsureDefault(o) \/ CreateFolder(o)
          \/ \E q \in Tasks : PutOrder(q) \/ DropFolder(q)
          \/ \E q \in Tasks, c \in Sheets, id \in 0..FolderIds : AskFile(q, c, id)
      BY DEF FoldersNext, ListFolders, DeleteSheet, AskReorder, ReadOrder, LockOrder, AskDeleteFolder,
             File, ListSheets, EmptyFolder, Fail
    <2> QED BY <2>2, <2>3, <2>4, <2>5, <2>6, <2>7, <2>8
  <1> QED BY <1>1, FoldersInductive, PTL DEF FoldersSpec, OneDefault

\* A folder that goes takes nothing with it that its deletion had not found,
\* and leaves nothing behind that it had.
THEOREM EmptiedFirstAlways == FoldersSpec => EmptiedFirst
  <1> DEFINE Emptied(f) == \E q \in Tasks :
        /\ task[q].folder = f.id /\ task'[q] # task[q]
        /\ \A c \in Sheets : Stored(c) /\ filed[c] = f.id => c \notin task[q].listed
  <1>1. ASSUME FoldersInv, [FoldersNext]_folderVars
        PROVE  [\A f \in folders : (\A h \in folders' : h.id # f.id) => Emptied(f)]_folderVars
    <2> SUFFICES ASSUME FoldersNext, NEW f \in folders, \A h \in folders' : h.id # f.id
                 PROVE  Emptied(f)
      BY <1>1
    <2>1. FolderRows /\ ~UNCHANGED folders
      BY <1>1 DEF FoldersInv
    <2>2. ASSUME NEW o \in Owners, EnsureDefault(o) \/ CreateFolder(o) PROVE FALSE
      BY <2>2 DEF EnsureDefault, CreateFolder, Insert
    <2>3. ASSUME NEW q \in Tasks, PutOrder(q) PROVE FALSE
      BY <1>1, <2>1, <2>3, WritesMovable, ReorderGoes
    <2>4. ASSUME NEW q \in Tasks, NEW c \in Sheets, NEW id \in 0..FolderIds, AskFile(q, c, id)
          PROVE  FALSE
      <3>1. SheetOf[c] \in Owners
        BY FoldersAssumption
      <3>2. EnsureDefault(SheetOf[c]) \/ UNCHANGED folders
        BY <2>4 DEF AskFile
      <3> QED BY <2>1, <2>2, <3>1, <3>2
    <2>5. PICK q \in Tasks : DropFolder(q)
      <3>1. \/ UNCHANGED folders
            \/ \E o \in Owners : EnsureDefault(o) \/ CreateFolder(o)
            \/ \E q \in Tasks : PutOrder(q) \/ DropFolder(q)
            \/ \E q \in Tasks, c \in Sheets, id \in 0..FolderIds : AskFile(q, c, id)
        BY DEF FoldersNext, ListFolders, DeleteSheet, AskReorder, ReadOrder, LockOrder, AskDeleteFolder,
               File, ListSheets, EmptyFolder, Fail
      <3> QED BY <2>1, <2>2, <2>3, <2>4, <3>1
    <2>6. task[q].step = "empty" /\ task[q].left = {} /\ task'[q] = NoTask /\ f.id = task[q].folder
      BY <1>1, <2>5 DEF DropFolder, Finish, FoldersInv
    <2>7. task[q].listed \subseteq gone
      BY <1>1, <2>6 DEF FoldersInv, TaskHolds
    <2> QED BY <2>6, <2>7, NoTaskFits DEF Stored
  <1> QED BY <1>1, FoldersInductive, PTL DEF FoldersSpec, EmptiedFirst

-----------------------------------------------------------------------------
(* The listing after a reordering.                                         *)

\* The default comes first, and of two others the position and then the id
\* decide: of two folders one is listed before the other.
LEMMA BeforeOrders ==
  ASSUME NEW x \in Folder, NEW y \in Folder, NEW z \in Folder
  PROVE  /\ ~Before(x, x)
         /\ Before(x, y) /\ Before(y, z) => Before(x, z)
         /\ x.id # y.id => Before(x, y) \/ Before(y, x)
  <1> DEFINE Less(a, b) == a.position < b.position \/ (a.position = b.position /\ a.id < b.id)
  <1>1. ASSUME NEW a \in Folder, NEW b \in Folder
        PROVE  Before(a, b) <=> (a.main /\ ~b.main) \/ ((a.main <=> b.main) /\ Less(a, b))
    <2>1. a.main \in BOOLEAN /\ b.main \in BOOLEAN
      BY DEF Folder
    <2>2. (a.main = b.main) <=> (a.main <=> b.main)
      BY <2>1, Zenon
    <2>3. Before(a, b) <=> (a.main /\ ~b.main) \/ (a.main = b.main /\ Less(a, b))
      BY SMT DEF Before
    <2> HIDE DEF Less
    <2> QED BY <2>2, <2>3, Zenon
  <1>2. /\ x.position \in Int /\ y.position \in Int /\ z.position \in Int
        /\ x.id \in Int /\ y.id \in Int /\ z.id \in Int
    BY FoldersAssumption DEF Folder
  <1>3. /\ ~Less(x, x) /\ (Less(x, y) /\ Less(y, z) => Less(x, z))
        /\ (x.id # y.id => Less(x, y) \/ Less(y, x))
    BY <1>2
  <1> HIDE DEF Less
  <1> QED BY <1>1, <1>3, Zenon

ListingOf(S) == CHOOSE l \in SetToSeqs(S) : \A i, j \in DOMAIN l : i < j => Before(l[i], l[j])

\* There is a listing in order, and every folder is in it.  As there is no
\* induction here, it is had by counting: a folder's place is one more than
\* the number of those before it.
LEMMA ListingSorts ==
  ASSUME NEW S, IsFiniteSet(S), S \subseteq Folder, \A x, y \in S : x.id = y.id => x = y,
         NEW L, L = ListingOf(S)
  PROVE  /\ Cardinality(S) \in Nat /\ L \in [1..Cardinality(S) -> S]
         /\ \A i, j \in 1..Cardinality(S) : i < j => Before(L[i], L[j])
         /\ \A x \in S : \E i \in 1..Cardinality(S) : L[i] = x
  <1> DEFINE n == Cardinality(S)
             Below(x) == {y \in S : Before(y, x)}
             R == [x \in S |-> Cardinality(Below(x)) + 1]
  <1>1. n \in Nat /\ IsFiniteSet(1..n) /\ Cardinality(1..n) = n
    BY FS_CardinalityType, FS_Interval
  <1> HIDE DEF n
  <1>2. ASSUME NEW x \in S, NEW y \in S
        PROVE  /\ ~Before(x, x) /\ (x # y => Before(x, y) \/ Before(y, x))
               /\ \A z \in S : Before(z, x) /\ Before(x, y) => Before(z, y)
    BY BeforeOrders
  <1>3. ASSUME NEW T \in SUBSET S PROVE IsFiniteSet(T) /\ Cardinality(T) \in Nat
    BY FS_Subset, FS_CardinalityType
  <1>4. ASSUME NEW x \in S PROVE Cardinality(Below(x)) \in Nat /\ Cardinality(Below(x)) < n
    <2>1. Below(x) \in SUBSET S /\ x \notin Below(x)
      BY <1>2
    <2> HIDE DEF Below
    <2>2. Cardinality(Below(x)) <= n /\ Cardinality(Below(x)) # n
      BY <2>1, FS_Subset DEF n
    <2> QED BY <1>1, <1>3, <2>1, <2>2
  <1>5. ASSUME NEW x \in S, NEW y \in S, Before(x, y) PROVE R[x] < R[y]
    <2>1. Below(x) \subseteq Below(y) /\ x \in Below(y) /\ x \notin Below(x) /\ Below(y) \in SUBSET S
      BY <1>2, <1>5
    <2> HIDE DEF Below
    <2>2. Cardinality(Below(x)) <= Cardinality(Below(y)) /\ Cardinality(Below(x)) # Cardinality(Below(y))
      BY <1>3, <2>1, FS_Subset
    <2> QED BY <1>4, <2>2
  <1>6. R \in [S -> 1..n]
    BY <1>1, <1>4
  <1> HIDE DEF R
  <1>7. R \in Injection(S, 1..n)
    <2>1. ASSUME NEW x \in S, NEW y \in S, x # y PROVE R[x] # R[y]
      <3>1. R[x] \in Int /\ R[y] \in Int
        BY <1>6
      <3> QED BY <1>2, <1>5, <2>1, <3>1
    <2> QED BY <1>6, <2>1 DEF Injection, IsInjective
  <1>8. \A i \in 1..n : \E x \in S : R[x] = i
    <2>1. R \in Surjection(S, 1..n)
      BY <1>1, <1>7, FS_Injection DEF n
    <2> QED BY <2>1 DEF Surjection
  <1> DEFINE T == [i \in 1..n |-> CHOOSE x \in S : R[x] = i]
  <1>9. T \in [1..n -> S] /\ \A i \in 1..n : R[T[i]] = i
    BY <1>8
  <1> HIDE DEF T
  <1>10. ASSUME NEW i \in 1..n, NEW j \in 1..n, i < j PROVE Before(T[i], T[j])
    <2>1. T[i] \in S /\ T[j] \in S /\ R[T[i]] = i /\ R[T[j]] = j
      BY <1>9
    <2>2. T[i] # T[j]
      BY <1>10, <2>1
    <2>3. ~Before(T[j], T[i])
      BY <1>5, <1>10, <2>1
    <2> QED BY <1>2, <2>1, <2>2, <2>3
  <1>11. T \in SetToSeqs(S)
    <2>1. \A i, j \in 1..n : i # j => T[i] # T[j]
      BY <1>9
    <2> QED BY <1>9, <2>1 DEF SetToSeqs, n
  <1>12. L \in SetToSeqs(S) /\ \A i, j \in DOMAIN L : i < j => Before(L[i], L[j])
    <2>1. DOMAIN T = 1..n
      BY <1>9
    <2> QED BY <1>10, <1>11, <2>1, Zenon DEF ListingOf
  <1>13. L \in [1..n -> S] /\ \A i, j \in 1..n : i # j => L[i] # L[j]
    BY <1>12 DEF SetToSeqs, n
  <1>14. L \in Surjection(1..n, S)
    <2>1. L \in Injection(1..n, S)
      BY <1>13 DEF Injection, IsInjective
    <2> QED BY <1>1, <2>1, FS_Injection DEF n
  <1>15. DOMAIN L = 1..n
    BY <1>13
  <1> QED BY <1>1, <1>12, <1>13, <1>14, <1>15 DEF Surjection, n

\* What a reordering leaves: the default first, and what was asked for in the
\* order that was asked for.
LEMMA ReorderedLists ==
  ASSUME FolderRows, NEW o \in Owners, NEW order \in Seq(1..FolderIds), SetPositions(order),
         \A i \in ToSet(order) : Movable(o, i), UNCHANGED lastId, Mains(o) # {},
         \A i, j \in DOMAIN order : order[i] = order[j] => i = j, NEW L, L = Listing(o)'
  PROVE  /\ L[1] \in Mains(o)
         /\ \A i, j \in DOMAIN L, m, n \in DOMAIN order :
              L[i].id = order[m] /\ L[j].id = order[n] /\ m < n => i < j
  <1> DEFINE moved == {f \in folders : f.id \in ToSet(order)}
             At(f) == CHOOSE i \in DOMAIN order : order[i] = f.id
  <1>1. FolderRows' /\ Mains(o)' = Mains(o)
    BY ReorderGoes DEF RowsGo
  <1>2. PICK S : S = Of(o)'
    OBVIOUS
  <1>3. S \subseteq Folder /\ IsFiniteSet(S) /\ \A x, y \in S : x.id = y.id => x = y
    <2>1. S \in SUBSET folders'
      BY <1>2 DEF Of
    <2>2. S \subseteq Folder /\ \A x, y \in S : x.id = y.id => x = y
      BY <1>1, <2>1 DEF FolderRows
    <2> DEFINE f == [x \in S |-> x.id]
    <2>3. IsFiniteSet(1..FolderIds)
      BY FoldersAssumption, FS_Interval
    <2>4. f \in Injection(S, 1..FolderIds)
      BY <2>2 DEF Folder, Injection, IsInjective
    <2> QED BY <2>2, <2>3, <2>4, FS_Injection
  <1>4. L = ListingOf(S)
    BY <1>2 DEF Listing, ListingOf
  <1> DEFINE c == Cardinality(S)
  <1>5. /\ c \in Nat /\ L \in [1..c -> S]
        /\ \A i, j \in 1..c : i < j => Before(L[i], L[j])
        /\ \A x \in S : \E i \in 1..c : L[i] = x
    BY <1>3, <1>4, ListingSorts
  <1> HIDE DEF c
  <1>6. L[1] \in Mains(o)
    <2>1. PICK x \in S : x.main
      BY <1>1, <1>2 DEF Mains, Of
    <2>2. PICK i \in 1..c : L[i] = x
      BY <1>5
    <2>3. 1 \in 1..c /\ L[1] \in S /\ (i = 1 \/ 1 < i)
      BY <1>5
    <2>4. L[1].main
      <3>1. CASE i = 1
        BY <2>1, <2>2, <3>1
      <3>2. CASE 1 < i
        <4>1. Before(L[1], x)
          BY <1>5, <2>2, <2>3, <3>2
        <4>2. L[1].main \in BOOLEAN /\ x.main \in BOOLEAN
          BY <1>3, <2>3 DEF Folder
        <4> QED BY <2>1, <4>1, <4>2, Zenon DEF Before
      <3> QED BY <2>3, <3>1, <3>2
    <2>5. L[1] \in Mains(o)'
      BY <1>2, <2>3, <2>4 DEF Mains
    <2> QED BY <1>1, <2>5
  <1>7. ASSUME NEW x \in S, NEW m \in DOMAIN order, x.id = order[m]
        PROVE  x.position = m /\ ~x.main
    <2>1. folders' = (folders \ moved) \cup {[f EXCEPT !.position = At(f)] : f \in moved}
      BY DEF SetPositions
    <2>2. x.id \in ToSet(order) /\ x \in folders'
      BY <1>2, <1>7 DEF ToSet, Of
    <2>3. PICK f \in moved : x = [f EXCEPT !.position = At(f)]
      BY <2>1, <2>2
    <2>4. At(f) \in DOMAIN order /\ order[At(f)] = f.id
      BY DEF ToSet
    <2>5. f \in Folder /\ ~f.main
      BY DEF Movable, Of, FolderRows
    <2> HIDE DEF At, moved
    <2>6. x.id = f.id /\ x.position = At(f) /\ x.main = f.main
      BY <2>3, <2>5 DEF Folder
    <2> QED BY <1>7, <2>4, <2>5, <2>6
  <1>8. ASSUME NEW i \in DOMAIN L, NEW j \in DOMAIN L, NEW m \in DOMAIN order, NEW n \in DOMAIN order,
               L[i].id = order[m], L[j].id = order[n], m < n
        PROVE  i < j
    <2>1. i \in 1..c /\ j \in 1..c /\ L[i] \in S /\ L[j] \in S /\ m \in Nat /\ n \in Nat
      BY <1>5
    <2>2. L[i].position = m /\ ~L[i].main /\ L[j].position = n /\ ~L[j].main
      BY <1>7, <1>8, <2>1
    <2>3. ~Before(L[j], L[i])
      <3>1. ~(n < m) /\ n # m
        BY <1>8, <2>1
      <3> QED BY <2>2, <3>1, Zenon DEF Before
    <2>4. i # j
      BY <1>8, <2>1, <2>2
    <2> QED BY <1>5, <2>1, <2>3, <2>4
  <1> QED BY <1>6, <1>8

\* A reordering that is done lists the default first and then what was asked
\* for, in order, and of the folders its transaction read no other is there;
\* whatever is made, deleted or reordered between its statements.
THEOREM OrderedAsAskedAlways == FoldersSpec => OrderedAsAsked
  <1> DEFINE Asked(q, o) == \A order \in {task[q].order}, listed \in {Listing(o)'} :
            /\ listed[1] \in Mains(o)
            /\ {f.id : f \in Of(o)' \ Mains(o)'} \cap task[q].seen = ToSet(order)
            /\ \A i, j \in DOMAIN listed, m, n \in DOMAIN order :
                  listed[i].id = order[m] /\ listed[j].id = order[n] /\ m < n => i < j
             Done(q, o) ==
        task[q].step = "write" /\ task[q].by = o /\ folders' # folders /\ task'[q] # task[q] => Asked(q, o)
  <1>1. ASSUME FoldersInv, [FoldersNext]_folderVars
        PROVE  [\A q \in Tasks, o \in Owners : Done(q, o)]_folderVars
    <2> SUFFICES ASSUME FoldersNext, NEW q \in Tasks, NEW o \in Owners,
                        task[q].step = "write", task[q].by = o, folders' # folders,
                        task'[q] # task[q]
                 PROVE  Asked(q, o)
      BY <1>1
    <2>1. PutOrder(q)
      <3>1. task[q].step # "idle" /\ task \in [Tasks -> Task]
        BY <1>1 DEF FoldersInv
      <3>2. ASSUME NEW t \in Tasks, Finish(t) PROVE t = q
        BY <3>1, <3>2 DEF Finish
      <3>3. ASSUME NEW t \in Tasks, NEW a, Ask(t, a) PROVE FALSE
        BY <3>1, <3>3 DEF Ask
      <3>4. \/ UNCHANGED folders \/ UNCHANGED task
            \/ \E t \in Tasks : PutOrder(t) \/ DropFolder(t)
            \/ \E t \in Tasks : \E a : Ask(t, a)
        BY DEF FoldersNext, ListFolders, CreateFolder, DeleteSheet, AskReorder, ReadOrder, LockOrder,
               AskDeleteFolder, AskFile, File, ListSheets, EmptyFolder, Fail
      <3>5. \E t \in Tasks : PutOrder(t) \/ DropFolder(t)
        BY <3>3, <3>4
      <3> QED BY <3>2, <3>5 DEF PutOrder, DropFolder
    <2>2. PICK order \in Seq(1..FolderIds) : order = task[q].order
      BY <1>1, <2>1, WritesMovable
    <2>3. /\ FolderRows /\ Mains(o) # {} /\ UNCHANGED lastId /\ SetPositions(order)
          /\ \A i \in ToSet(order) : Movable(o, i)
          /\ \A i \in task[q].seen : Movable(o, i) <=> i \in ToSet(order)
          /\ ToSet(order) \subseteq task[q].seen
          /\ \A i, j \in DOMAIN order : order[i] = order[j] => i = j
      BY <1>1, <2>1, <2>2, WritesMovable DEF Checked
    <2>4. PICK listed : listed = Listing(o)'
      OBVIOUS
    <2>5. /\ listed[1] \in Mains(o)
          /\ \A i, j \in DOMAIN listed, m, n \in DOMAIN order :
               listed[i].id = order[m] /\ listed[j].id = order[n] /\ m < n => i < j
      BY <2>3, <2>4, ReorderedLists
    <2>6. {f.id : f \in Of(o)' \ Mains(o)'} \cap task[q].seen = ToSet(order)
      <3>1. \A i : Movable(o, i) <=> Movable(o, i)'
        BY <2>3, ReorderGoes
      <3>2. \A i : i \in {f.id : f \in Of(o)' \ Mains(o)'} <=> Movable(o, i)'
        BY DEF Movable, Mains
      <3> QED BY <2>3, <3>1, <3>2
    <2>7. ASSUME NEW k \in {task[q].order}, NEW l \in {Listing(o)'} PROVE k = order /\ l = listed
      BY <2>2, <2>4
    <2> QED BY <2>5, <2>6, <2>7
  <1> QED BY <1>1, FoldersInductive, PTL DEF FoldersSpec, OrderedAsAsked

-----------------------------------------------------------------------------
(* Recursion.                                                              *)
(* A recursive function has the values its definition says when each       *)
(* depends on smaller arguments only, in an order without infinite         *)
(* descent.  The step of the recursion is itself a function H: H[x][f] is  *)
(* the value at x by those of f at smaller ones.                           *)

\* What holds at x when it holds below x holds everywhere.
LEMMA WellFoundedSet ==
  ASSUME NEW S, NEW R, IsWellFoundedOn(R, S), NEW G,
         \A x \in S : SetLessThan(x, R, S) \subseteq G => x \in G
  PROVE  S \subseteq G
  <1> DEFINE D == S \ G
  <1>1. SUFFICES ASSUME D # {} PROVE FALSE
    OBVIOUS
  <1>2. D \subseteq S
    OBVIOUS
  <1> HIDE DEF D
  <1>3. PICK x \in D : \A y \in D : <<y, x>> \notin R
    BY <1>1, <1>2, WFMin
  <1> QED BY <1>3 DEF D, SetLessThan

\* A finite set has no infinite chain of ever smaller, or ever larger, subsets.
LEMMA SmallerIsWellFounded ==
  ASSUME NEW S, IsFiniteSet(S)
  PROVE  IsWellFoundedOn(StrictSubsetOrdering(S), SUBSET S)
  BY FS_FiniteSubsetsOfFinite, FS_StrictSubsetOrderingWellFounded

Larger(S) == {ss \in (SUBSET S) \X (SUBSET S) : ss[2] \subseteq ss[1] /\ ss[1] # ss[2]}

LEMMA LargerIsWellFounded ==
  ASSUME NEW S, IsFiniteSet(S)
  PROVE  IsWellFoundedOn(Larger(S), SUBSET S)
  <1>1. ASSUME NEW T \in SUBSET (SUBSET S), T # {}
        PROVE  \E x \in T : \A y \in T : <<y, x>> \notin Larger(S)
    <2> DEFINE C == {S \ x : x \in T}
    <2>1. C \subseteq SUBSET S /\ C # {}
      <3>1. PICK x \in T : TRUE
        BY <1>1
      <3>2. S \ x \in C
        OBVIOUS
      <3>3. \A c \in C : c \subseteq S
        OBVIOUS
      <3> HIDE DEF C
      <3> QED BY <3>2, <3>3
    <2> HIDE DEF C
    <2>2. PICK c \in C : \A b \in C : <<b, c>> \notin StrictSubsetOrdering(S)
      BY <2>1, SmallerIsWellFounded, WFMin
    <2>3. PICK x \in T : c = S \ x
      BY DEF C
    <2>4. ASSUME NEW y \in T, <<y, x>> \in Larger(S)
          PROVE  FALSE
      <3>1. x \subseteq y /\ y # x /\ x \subseteq S /\ y \subseteq S
        BY <2>4 DEF Larger
      <3>2. S \ y \in C /\ S \ y \subseteq c /\ S \ y # c
        BY <2>3, <3>1 DEF C
      <3> QED BY <2>1, <2>2, <3>2 DEF StrictSubsetOrdering
    <2> QED BY <2>4
  <1> QED BY <1>1, MinWF

LEMMA LeastNatural ==
  ASSUME NEW T, T \subseteq Nat, T # {}
  PROVE  \E m \in T : \A k \in T : m <= k
  <1>1. PICK m \in T : \A k \in T : <<k, m>> \notin OpToRel(<, Nat)
    BY NatLessThanWellFounded, WFMin
  <1>2. ASSUME NEW k \in T PROVE ~(k < m)
    BY <1>1 DEF OpToRel
  <1> QED BY <1>2

LEMMA GreatestNatural ==
  ASSUME NEW T, T \subseteq Nat, T # {}, IsFiniteSet(T)
  PROVE  \E m \in T : \A k \in T : k <= m
  <1> DEFINE Above(m) == {k \in T : m < k}
             A == {Above(m) : m \in T}
  <1>1. A \subseteq SUBSET T /\ A # {}
    OBVIOUS
  <1> HIDE DEF A
  <1>2. PICK a \in A : \A b \in A : <<b, a>> \notin StrictSubsetOrdering(T)
    BY <1>1, SmallerIsWellFounded, WFMin
  <1>3. PICK m \in T : a = Above(m)
    BY DEF A
  <1>4. ASSUME NEW k \in T, m < k PROVE FALSE
    <2>1. Above(k) \in A
      BY DEF A
    <2>2. m \in Nat /\ k \in Nat /\ \A j \in T : j \in Nat
      OBVIOUS
    <2>3. k \in Above(m) /\ k \notin Above(k) /\ \A j \in T : k < j => m < j
      BY <1>4, <2>2
    <2> QED BY <1>1, <1>2, <1>3, <2>1, <2>3 DEF StrictSubsetOrdering
  <1> QED BY <1>4

-----------------------------------------------------------------------------
\* A step that gives values of T, and looks at no argument that is not smaller.
StepOn(H, S, T) == \A x \in S : \A g \in [S -> T] : H[x][g] \in T
LooksBelow(H, R, S, T) ==
    \A x \in S : \A g, h \in [S -> T] :
        (\A y \in SetLessThan(x, R, S) : g[y] = h[y]) => H[x][g] = H[x][h]
Solution(f, H, S, T) == f \in [S -> T] /\ \A x \in S : f[x] = H[x][f]

LEMMA RecursionSolves ==
  ASSUME NEW S, NEW R, IsWellFoundedOn(R, S), NEW T, T # {},
         NEW H, StepOn(H, S, T), LooksBelow(H, R, S, T)
  PROVE  \E f : Solution(f, H, S, T)
  <1> DEFINE Below(x) == SetLessThan(x, R, S)
             Solves(A, g) ==
                 /\ A \subseteq S /\ g \in [S -> T]
                 /\ \A x \in A : Below(x) \subseteq A /\ g[x] = H[x][g]
             Reached(x) == \E A, g : Solves(A, g) /\ x \in A
             ValueAt(x, v) == \E A, g : Solves(A, g) /\ x \in A /\ v = g[x]
             U == {x \in S : Reached(x)}
             f == [x \in S |-> CHOOSE v : v \in T /\ (Reached(x) => ValueAt(x, v))]
  <1> USE DEF StepOn, LooksBelow
  <1>1. ASSUME NEW A, NEW B, NEW g, NEW h, Solves(A, g), Solves(B, h), NEW x \in A \cap B
        PROVE  g[x] = h[x]
    <2> DEFINE D == {y \in A \cap B : g[y] # h[y]}
    <2>1. SUFFICES ASSUME D # {} PROVE FALSE
      BY <1>1
    <2>2. D \subseteq S
      BY <1>1
    <2> HIDE DEF D
    <2>3. PICK y \in D : \A z \in D : <<z, y>> \notin R
      BY <2>1, <2>2, WFMin
    <2>4. \A z \in Below(y) : g[z] = h[z]
      BY <1>1, <2>3 DEF D, SetLessThan
    <2>5. H[y][g] = H[y][h]
      BY <1>1, <2>2, <2>3, <2>4 DEF D
    <2> QED BY <1>1, <2>3, <2>5 DEF D
  <1>2. ASSUME NEW x \in S
        PROVE  f[x] \in T /\ (Reached(x) => ValueAt(x, f[x]))
    <2>1. \E v : v \in T /\ (Reached(x) => ValueAt(x, v))
      <3>1. CASE Reached(x)
        <4>1. PICK A, g : Solves(A, g) /\ x \in A
          BY <3>1
        <4> QED BY <4>1
      <3> QED BY <3>1
    <2> QED BY <2>1
  <1>3. f \in [S -> T]
    BY <1>2
  <1> HIDE DEF f
  <1>4. ASSUME NEW A, NEW g, Solves(A, g), NEW x \in A
        PROVE  f[x] = g[x]
    <2>1. PICK B, h : Solves(B, h) /\ x \in B /\ f[x] = h[x]
      BY <1>2, <1>4
    <2> QED BY <1>1, <1>4, <2>1
  <1>5. ASSUME NEW x \in U
        PROVE  Below(x) \subseteq U /\ f[x] = H[x][f]
    <2>1. PICK A, g : Solves(A, g) /\ x \in A
      OBVIOUS
    <2>2. Below(x) \subseteq U
      BY <2>1
    <2>3. \A y \in Below(x) : f[y] = g[y]
      BY <2>1, <1>4
    <2>4. H[x][f] = H[x][g]
      BY <1>3, <2>1, <2>3
    <2> QED BY <2>1, <2>2, <2>4, <1>4
  <1>6. U = S
    <2>1. SUFFICES ASSUME S \ U # {} PROVE FALSE
      OBVIOUS
    <2>2. PICK x \in S \ U : \A y \in S \ U : <<y, x>> \notin R
      <3> DEFINE D == S \ U
      <3>1. D \subseteq S /\ D # {}
        BY <2>1
      <3> HIDE DEF D
      <3>2. PICK x \in D : \A y \in D : <<y, x>> \notin R
        BY <3>1, WFMin
      <3> QED BY <3>2 DEF D
    <2>3. Below(x) \subseteq U /\ x \notin Below(x)
      BY <2>2 DEF SetLessThan
    <2> DEFINE g == [f EXCEPT ![x] = H[x][f]]
    <2>4. g \in [S -> T] /\ g[x] = H[x][f] /\ \A y \in U : g[y] = f[y]
      BY <1>3, <2>2
    <2> HIDE DEF g
    <2>5. H[x][g] = H[x][f]
      BY <1>3, <2>2, <2>3, <2>4
    <2>6. ASSUME NEW y \in U PROVE g[y] = H[y][g]
      <3>1. \A z \in Below(y) : g[z] = f[z]
        BY <1>5, <2>4
      <3>2. H[y][g] = H[y][f]
        BY <1>3, <2>4, <3>1
      <3> QED BY <1>5, <2>4, <3>2
    <2>7. Solves(U \cup {x}, g)
      <3>1. ASSUME NEW y \in U \cup {x} PROVE Below(y) \subseteq U \cup {x} /\ g[y] = H[y][g]
        BY <1>5, <2>3, <2>4, <2>5, <2>6
      <3> QED BY <2>2, <2>4, <3>1
    <2>8. Reached(x)
      BY <2>7
    <2> QED BY <2>2, <2>8
  <1> HIDE DEF U
  <1>7. \A x \in S : f[x] = H[x][f]
    BY <1>5, <1>6
  <1> QED BY <1>3, <1>7 DEF Solution

-----------------------------------------------------------------------------
(* The search ends: each round selects another document, or selects none   *)
(* and has one dependency less to look for.                                *)

\* What can be searched: finitely many documents and dependencies.
Searchable(docs, deps) ==
    /\ IsFiniteSet(docs) /\ IsFiniteSet(deps)
    /\ \A d \in docs : d.version \in Nat /\ IsFiniteSet(d.needs)
    /\ \A n \in Lookups(docs, deps) : n.id \in Nat

Rounds(docs, deps) == (SUBSET docs) \X (SUBSET Lookups(docs, deps))
Later(docs, deps) ==
    LexPairOrdering(Larger(docs), StrictSubsetOrdering(Lookups(docs, deps)),
                    SUBSET docs, SUBSET Lookups(docs, deps))
After(docs, deps, at) == SetLessThan(at, Later(docs, deps), Rounds(docs, deps))

LEMMA LookupsFinite ==
  ASSUME NEW docs, NEW deps, Searchable(docs, deps)
  PROVE  IsFiniteSet(Lookups(docs, deps))
  <1> DEFINE needs == [d \in docs |-> d.needs]
             N == {d.needs : d \in docs}
  <1>1. IsFiniteSet(N)
    <2>1. needs \in Surjection(docs, N)
      BY DEF Surjection
    <2> QED BY <2>1, FS_Surjection DEF Searchable
  <1>2. \A n \in N : IsFiniteSet(n)
    BY DEF Searchable
  <1> HIDE DEF N
  <1>3. IsFiniteSet(UNION N)
    BY <1>1, <1>2, FS_UNION
  <1> QED BY <1>3, FS_Union DEF Lookups, Searchable, N

LEMMA SearchEnds ==
  ASSUME NEW docs, NEW deps, Searchable(docs, deps)
  PROVE  IsWellFoundedOn(Later(docs, deps), Rounds(docs, deps))
  <1>1. IsWellFoundedOn(Larger(docs), SUBSET docs)
    BY LargerIsWellFounded DEF Searchable
  <1>2. IsWellFoundedOn(StrictSubsetOrdering(Lookups(docs, deps)), SUBSET Lookups(docs, deps))
    BY LookupsFinite, SmallerIsWellFounded
  <1> QED BY <1>1, <1>2, WFLexPairOrdering DEF Later, Rounds

LEMMA AfterIs ==
  ASSUME NEW docs, NEW deps, NEW sel \in SUBSET docs, NEW pend \in SUBSET Lookups(docs, deps),
         NEW more \in SUBSET docs, NEW next \in SUBSET Lookups(docs, deps),
         \/ sel \subseteq more /\ sel # more
         \/ sel = more /\ next \subseteq pend /\ next # pend
  PROVE  <<more, next>> \in After(docs, deps, <<sel, pend>>)
  BY DEF After, Later, Rounds, SetLessThan, LexPairOrdering, Larger, StrictSubsetOrdering

LEMMA LowestIs ==
  ASSUME NEW deps, deps # {}, \A n \in deps : n.id \in Nat
  PROVE  Lowest(deps) \in deps /\ \A n \in deps : Lowest(deps).id <= n.id
  <1> DEFINE T == {n.id : n \in deps}
  <1>1. T \subseteq Nat /\ T # {}
    OBVIOUS
  <1> HIDE DEF T
  <1>2. PICK m \in T : \A k \in T : m <= k
    BY <1>1, LeastNatural
  <1>3. PICK n \in deps : n.id = m
    BY DEF T
  <1>4. \A k \in deps : n.id <= k.id
    BY <1>2, <1>3 DEF T
  <1> QED BY <1>4 DEF Lowest

LEMMA NewestIs ==
  ASSUME NEW docs, docs # {}, IsFiniteSet(docs), \A d \in docs : d.version \in Nat
  PROVE  Newest(docs) \in docs /\ \A d \in docs : d.version <= Newest(docs).version
  <1> DEFINE T == {d.version : d \in docs}
             f == [d \in docs |-> d.version]
  <1>1. T \subseteq Nat /\ T # {}
    OBVIOUS
  <1>2. IsFiniteSet(T)
    <2>1. f \in Surjection(docs, T)
      BY DEF Surjection
    <2> HIDE DEF f, T
    <2> QED BY <2>1, FS_Surjection
  <1> HIDE DEF T, f
  <1>3. PICK m \in T : \A k \in T : k <= m
    BY <1>1, <1>2, GreatestNatural
  <1>4. PICK d \in docs : d.version = m
    BY DEF T
  <1>5. \A e \in docs : e.version <= d.version
    BY <1>3, <1>4 DEF T
  <1> QED BY <1>5 DEF Newest

\* A round looks no further than the rounds after it.
LEMMA RoundDepends ==
  ASSUME NEW docs, NEW deps, Searchable(docs, deps),
         NEW sel \in SUBSET docs, NEW pend \in SUBSET Lookups(docs, deps), NEW f, NEW g,
         \A at \in After(docs, deps, <<sel, pend>>) : f[at] = g[at]
  PROVE  Round(docs, f, sel, pend) = Round(docs, g, sel, pend)
  <1>1. CASE pend = {}
    BY <1>1 DEF Round
  <1>2. CASE pend # {}
    <2> DEFINE dep == Lowest(pend)
               rest == pend \ {dep}
               same == {d \in sel : d.id = dep.id}
               with(h, d) == h[<<sel \cup {d}, rest \cup d.needs>>]
    <2>1. dep \in pend
      BY <1>2, LowestIs DEF Searchable
    <2> HIDE DEF dep
    <2>2. f[<<sel, rest>>] = g[<<sel, rest>>]
      BY <2>1, AfterIs
    <2>3. ASSUME same = {}, NEW d \in Candidates(docs, dep)
          PROVE  with(f, d) = with(g, d)
      <3>1. d \in docs /\ d \notin sel
        BY <2>3 DEF Candidates
      <3>2. d.needs \subseteq Lookups(docs, deps)
        BY <3>1 DEF Lookups
      <3>3. <<sel \cup {d}, rest \cup d.needs>> \in After(docs, deps, <<sel, pend>>)
        BY <3>1, <3>2, AfterIs
      <3> QED BY <3>3
    <2>4. ASSUME same = {}
          PROVE  Tried(docs, f, sel, rest, dep) = Tried(docs, g, sel, rest, dep)
      <3> DEFINE works(h) == {d \in Candidates(docs, dep) : with(h, d) # {}}
      <3>1. works(f) = works(g)
        BY <2>3, <2>4
      <3>2. ASSUME works(g) # {} PROVE Newest(works(g)) \in works(g)
        <4>1. works(g) \subseteq docs
          BY DEF Candidates
        <4>2. IsFiniteSet(works(g)) /\ \A d \in works(g) : d.version \in Nat
          BY <4>1, FS_Subset DEF Searchable
        <4> HIDE DEF works
        <4> QED BY <3>2, <4>2, NewestIs
      <3>3. works(g) # {} => with(f, Newest(works(f))) = with(g, Newest(works(g)))
        BY <2>3, <2>4, <3>1, <3>2
      <3> QED BY <3>1, <3>3 DEF Tried
    <2> QED BY <1>2, <2>2, <2>4 DEF Round, dep
  <1> QED BY <1>1, <1>2

LEMMA RoundSelects ==
  ASSUME NEW docs, NEW deps, Searchable(docs, deps), NEW f \in [Rounds(docs, deps) -> SUBSET docs],
         NEW sel \in SUBSET docs, NEW pend \in SUBSET Lookups(docs, deps)
  PROVE  Round(docs, f, sel, pend) \in SUBSET docs
  <1>1. CASE pend = {}
    BY <1>1 DEF Round
  <1>2. CASE pend # {}
    <2> DEFINE dep == Lowest(pend)
               rest == pend \ {dep}
               works == {d \in Candidates(docs, dep) : f[<<sel \cup {d}, rest \cup d.needs>>] # {}}
    <2>1. dep \in pend
      BY <1>2, LowestIs DEF Searchable
    <2> HIDE DEF dep
    <2>2. <<sel, rest>> \in Rounds(docs, deps)
      BY DEF Rounds
    <2>3. ASSUME NEW d \in Candidates(docs, dep)
          PROVE  <<sel \cup {d}, rest \cup d.needs>> \in Rounds(docs, deps)
      <3>1. d \in docs
        BY DEF Candidates
      <3>2. d.needs \subseteq Lookups(docs, deps)
        BY <3>1 DEF Lookups
      <3> QED BY <3>1, <3>2 DEF Rounds
    <2>4. works # {} => Newest(works) \in Candidates(docs, dep)
      <3>1. works \subseteq docs /\ works \subseteq Candidates(docs, dep)
        BY DEF Candidates
      <3>2. IsFiniteSet(works) /\ \A d \in works : d.version \in Nat
        BY <3>1, FS_Subset DEF Searchable
      <3> HIDE DEF works
      <3> QED BY <3>1, <3>2, NewestIs
    <2>5. Tried(docs, f, sel, rest, dep) \in SUBSET docs
      BY <2>3, <2>4 DEF Tried
    <2> QED BY <1>2, <2>2, <2>5 DEF Round, dep
  <1> QED BY <1>1, <1>2

\* The search is what its rounds say.
LEMMA SearchIs ==
  ASSUME NEW docs, NEW deps, Searchable(docs, deps)
  PROVE  /\ Search(docs, deps) \in [Rounds(docs, deps) -> SUBSET docs]
         /\ \A sel \in SUBSET docs, pend \in SUBSET Lookups(docs, deps) :
               Search(docs, deps)[<<sel, pend>>] = Round(docs, Search(docs, deps), sel, pend)
  <1> DEFINE S == Rounds(docs, deps)
             R == Later(docs, deps)
             T == SUBSET docs
             H == [at \in S |-> [f \in [S -> T] |-> Round(docs, f, at[1], at[2])]]
             Equation(f) == f = [at \in S |-> Round(docs, f, at[1], at[2])]
  <1>1. \A at \in S : at[1] \in SUBSET docs /\ at[2] \in SUBSET Lookups(docs, deps)
                     /\ at = <<at[1], at[2]>>
    BY DEF Rounds
  <1>2. ASSUME NEW at \in S, NEW f \in [S -> T]
        PROVE  H[at][f] = Round(docs, f, at[1], at[2]) /\ H[at][f] \in T
    BY <1>1, RoundSelects
  <1>3. ASSUME NEW at \in S, NEW f \in [S -> T], NEW g \in [S -> T],
               \A y \in SetLessThan(at, R, S) : f[y] = g[y]
        PROVE  H[at][f] = H[at][g]
    BY <1>1, <1>2, <1>3, RoundDepends DEF After
  <1>4. T # {} /\ IsWellFoundedOn(R, S)
    BY SearchEnds
  <1> HIDE DEF S, R, T, H
  <1>5. PICK f \in [S -> T] : \A at \in S : f[at] = H[at][f]
    <2>1. StepOn(H, S, T)
      BY <1>2 DEF StepOn
    <2>2. LooksBelow(H, R, S, T)
      BY <1>3 DEF LooksBelow
    <2>3. PICK f : Solution(f, H, S, T)
      BY <1>4, <2>1, <2>2, RecursionSolves
    <2> QED BY <2>3 DEF Solution
  <1>6. Equation(f)
    BY <1>2, <1>5
  <1>7. Search(docs, deps) = CHOOSE g : Equation(g)
    BY DEF Search, S, Rounds
  <1> DEFINE h == Search(docs, deps)
  <1>8. Equation(h)
    BY <1>6, <1>7
  <1> HIDE DEF h
  <1>9. S \subseteq {at \in S : h[at] = f[at]}
    <2> DEFINE G == {at \in S : h[at] = f[at]}
    <2>1. ASSUME NEW at \in S, SetLessThan(at, R, S) \subseteq G
          PROVE  at \in G
      <3>1. Round(docs, h, at[1], at[2]) = Round(docs, f, at[1], at[2])
        BY <1>1, <2>1, RoundDepends DEF After, S, R
      <3> QED BY <1>2, <1>5, <1>8, <3>1
    <2> HIDE DEF G
    <2>2. S \subseteq G
      BY <1>4, <2>1, WellFoundedSet
    <2> QED BY <2>2 DEF G
  <1>10. h \in [S -> T]
    BY <1>5, <1>8, <1>9
  <1>11. ASSUME NEW sel \in SUBSET docs, NEW pend \in SUBSET Lookups(docs, deps)
         PROVE  h[<<sel, pend>>] = Round(docs, h, sel, pend)
    <2>1. <<sel, pend>> \in S
      BY DEF S, Rounds
    <2> QED BY <1>8, <2>1
  <1> QED BY <1>10, <1>11 DEF h, S, T

-----------------------------------------------------------------------------
(* What the search finds.                                                  *)

Found(docs, deps, sel, pend) == Search(docs, deps)[<<sel, pend>>]
Rest(pend) == pend \ {Lowest(pend)}
FoundWith(docs, deps, sel, pend, d) ==
    Found(docs, deps, sel \cup {d}, Rest(pend) \cup d.needs)
Same(sel, n) == {d \in sel : d.id = n.id}

LEMMA LowestPending ==
  ASSUME NEW docs, NEW deps, Searchable(docs, deps),
         NEW pend \in SUBSET Lookups(docs, deps), pend # {}
  PROVE  Lowest(pend) \in pend
  BY LowestIs DEF Searchable

\* A dependency of a pack that is selected.
LEMMA RoundSame ==
  ASSUME NEW docs, NEW deps, Searchable(docs, deps),
         NEW sel \in SUBSET docs, NEW pend \in SUBSET Lookups(docs, deps), pend # {},
         Same(sel, Lowest(pend)) # {}
  PROVE  Found(docs, deps, sel, pend) =
            IF Same(sel, Lowest(pend)) \subseteq Candidates(docs, Lowest(pend))
            THEN Found(docs, deps, sel, Rest(pend)) ELSE {}
  <1> DEFINE h == Search(docs, deps)
  <1>1. h[<<sel, pend>>] = Round(docs, h, sel, pend)
    BY SearchIs
  <1> HIDE DEF h
  <1>2. Round(docs, h, sel, pend) =
          IF Same(sel, Lowest(pend)) \subseteq Candidates(docs, Lowest(pend))
          THEN h[<<sel, Rest(pend)>>] ELSE {}
    BY DEF Round, Same, Rest
  <1> QED BY <1>1, <1>2 DEF Found, h

\* A dependency of a pack that is not.
LEMMA RoundNew ==
  ASSUME NEW docs, NEW deps, Searchable(docs, deps),
         NEW sel \in SUBSET docs, NEW pend \in SUBSET Lookups(docs, deps), pend # {},
         Same(sel, Lowest(pend)) = {}
  PROVE  \/ /\ Found(docs, deps, sel, pend) = {}
            /\ \A d \in Candidates(docs, Lowest(pend)) : FoundWith(docs, deps, sel, pend, d) = {}
         \/ \E d \in Candidates(docs, Lowest(pend)) :
               /\ FoundWith(docs, deps, sel, pend, d) # {}
               /\ Found(docs, deps, sel, pend) = FoundWith(docs, deps, sel, pend, d)
               /\ \A e \in Candidates(docs, Lowest(pend)) :
                     FoundWith(docs, deps, sel, pend, e) # {} => e.version <= d.version
  <1> DEFINE h == Search(docs, deps)
             dep == Lowest(pend)
             with(d) == h[<<sel \cup {d}, Rest(pend) \cup d.needs>>]
             works == {d \in Candidates(docs, dep) : with(d) # {}}
  <1>1. h[<<sel, pend>>] = Round(docs, h, sel, pend)
    BY SearchIs
  <1>2. Found(docs, deps, sel, pend) = h[<<sel, pend>>]
    BY DEF Found
  <1>3. \A d : FoundWith(docs, deps, sel, pend, d) = with(d)
    BY DEF FoundWith, Found
  <1> HIDE DEF h
  <1>4. Round(docs, h, sel, pend) = IF works = {} THEN {} ELSE with(Newest(works))
    BY DEF Round, Same, Tried, Rest
  <1>5. works \subseteq docs /\ works \subseteq Candidates(docs, dep)
    BY DEF Candidates
  <1>6. IsFiniteSet(works) /\ \A d \in works : d.version \in Nat
    BY <1>5, FS_Subset DEF Searchable
  <1>7. CASE works = {}
    <2>1. Found(docs, deps, sel, pend) = {}
      BY <1>1, <1>2, <1>4, <1>7
    <2>2. \A d \in Candidates(docs, dep) : FoundWith(docs, deps, sel, pend, d) = {}
      BY <1>3, <1>7
    <2> QED BY <2>1, <2>2
  <1>8. CASE works # {}
    <2> DEFINE d == Newest(works)
    <2>1. d \in works /\ \A e \in works : e.version <= d.version
      <3> HIDE DEF works
      <3> QED BY <1>6, <1>8, NewestIs
    <2>2. Found(docs, deps, sel, pend) = with(d)
      BY <1>1, <1>2, <1>4, <1>8
    <2> HIDE DEF d
    <2>3. d \in Candidates(docs, dep) /\ with(d) # {}
      BY <2>1
    <2>4. \A e \in Candidates(docs, dep) : with(e) # {} => e.version <= d.version
      BY <2>1
    <2> HIDE DEF with, works
    <2> QED BY <1>3, <2>2, <2>3, <2>4
  <1> QED BY <1>7, <1>8

\* The rounds a round goes on to are rounds, and come after it.
LEMMA RestAfter ==
  ASSUME NEW docs, NEW deps, Searchable(docs, deps),
         NEW sel \in SUBSET docs, NEW pend \in SUBSET Lookups(docs, deps), pend # {}
  PROVE  /\ Rest(pend) \in SUBSET Lookups(docs, deps)
         /\ <<sel, Rest(pend)>> \in After(docs, deps, <<sel, pend>>)
  <1>1. Lowest(pend) \in pend
    BY LowestPending
  <1> QED BY <1>1, AfterIs DEF Rest

LEMMA ChoiceAfter ==
  ASSUME NEW docs, NEW deps, Searchable(docs, deps),
         NEW sel \in SUBSET docs, NEW pend \in SUBSET Lookups(docs, deps),
         Same(sel, Lowest(pend)) = {}, NEW d \in Candidates(docs, Lowest(pend))
  PROVE  /\ sel \cup {d} \in SUBSET docs
         /\ Rest(pend) \cup d.needs \in SUBSET Lookups(docs, deps)
         /\ <<sel \cup {d}, Rest(pend) \cup d.needs>> \in After(docs, deps, <<sel, pend>>)
  <1>1. d \in docs /\ d \notin sel
    BY DEF Candidates, Same
  <1>2. d.needs \subseteq Lookups(docs, deps)
    BY <1>1 DEF Lookups
  <1> QED BY <1>1, <1>2, AfterIs DEF Rest

\* What holds when nothing is left to look for, and of a round when it holds of
\* the rounds it goes on to, holds of every round.
OfDone(docs, G) == \A sel \in SUBSET docs : <<sel, {}>> \in G
OfSame(docs, deps, G) ==
    \A sel \in SUBSET docs, pend \in SUBSET Lookups(docs, deps) :
        pend # {} /\ Same(sel, Lowest(pend)) # {} /\ <<sel, Rest(pend)>> \in G => <<sel, pend>> \in G
OfNew(docs, deps, G) ==
    \A sel \in SUBSET docs, pend \in SUBSET Lookups(docs, deps) :
        /\ pend # {} /\ Same(sel, Lowest(pend)) = {}
        /\ \A d \in Candidates(docs, Lowest(pend)) : <<sel \cup {d}, Rest(pend) \cup d.needs>> \in G
        => <<sel, pend>> \in G

LEMMA SearchInduction ==
  ASSUME NEW docs, NEW deps, Searchable(docs, deps), NEW G,
         OfDone(docs, G), OfSame(docs, deps, G), OfNew(docs, deps, G),
         NEW sel \in SUBSET docs, NEW pend \in SUBSET Lookups(docs, deps)
  PROVE  <<sel, pend>> \in G
  <1>1. ASSUME NEW s \in SUBSET docs, NEW p \in SUBSET Lookups(docs, deps),
               After(docs, deps, <<s, p>>) \subseteq G
        PROVE  <<s, p>> \in G
    <2>1. CASE p = {}
      BY <2>1 DEF OfDone
    <2>2. CASE p # {} /\ Same(s, Lowest(p)) # {}
      <3>1. <<s, Rest(p)>> \in G
        BY <1>1, <2>2, RestAfter
      <3> QED BY <2>2, <3>1 DEF OfSame
    <2>3. CASE p # {} /\ Same(s, Lowest(p)) = {}
      <3>1. \A d \in Candidates(docs, Lowest(p)) : <<s \cup {d}, Rest(p) \cup d.needs>> \in G
        BY <1>1, <2>3, ChoiceAfter
      <3> QED BY <2>3, <3>1 DEF OfNew
    <2> QED BY <2>1, <2>2, <2>3
  <1>2. ASSUME NEW at \in Rounds(docs, deps),
               SetLessThan(at, Later(docs, deps), Rounds(docs, deps)) \subseteq G
        PROVE  at \in G
    <2>1. PICK s \in SUBSET docs, p \in SUBSET Lookups(docs, deps) : at = <<s, p>>
      BY DEF Rounds
    <2>2. After(docs, deps, <<s, p>>) \subseteq G
      BY <1>2, <2>1 DEF After
    <2> QED BY <1>1, <2>1, <2>2
  <1>3. Rounds(docs, deps) \subseteq G
    BY <1>2, SearchEnds, WellFoundedSet
  <1> QED BY <1>3 DEF Rounds

LEMMA SearchDone ==
  ASSUME NEW docs, NEW deps, Searchable(docs, deps), NEW sel \in SUBSET docs
  PROVE  Found(docs, deps, sel, {}) = sel
  <1> DEFINE h == Search(docs, deps)
  <1>1. h[<<sel, {}>>] = Round(docs, h, sel, {})
    BY SearchIs
  <1> HIDE DEF h
  <1>2. Round(docs, h, sel, {}) = sel
    BY DEF Round
  <1> QED BY <1>1, <1>2 DEF Found, h

\* What is selected stays selected.
KeepsFrom(docs, deps, sel, pend) ==
    Found(docs, deps, sel, pend) # {} => sel \subseteq Found(docs, deps, sel, pend)

LEMMA Keeps ==
  ASSUME NEW docs, NEW deps, Searchable(docs, deps),
         NEW sel \in SUBSET docs, NEW pend \in SUBSET Lookups(docs, deps)
  PROVE  KeepsFrom(docs, deps, sel, pend)
  <1> DEFINE G == {at \in Rounds(docs, deps) : KeepsFrom(docs, deps, at[1], at[2])}
  <1>1. \A s \in SUBSET docs, p \in SUBSET Lookups(docs, deps) :
            <<s, p>> \in G <=> KeepsFrom(docs, deps, s, p)
    BY DEF Rounds
  <1> HIDE DEF G
  <1>2. OfDone(docs, G)
    BY <1>1, SearchDone DEF KeepsFrom, OfDone
  <1>3. ASSUME NEW s \in SUBSET docs, NEW p \in SUBSET Lookups(docs, deps),
               p # {}, Same(s, Lowest(p)) # {}, <<s, Rest(p)>> \in G
        PROVE  <<s, p>> \in G
    <2>1. KeepsFrom(docs, deps, s, Rest(p))
      BY <1>1, <1>3, RestAfter
    <2>2. KeepsFrom(docs, deps, s, p)
      BY <1>3, <2>1, RoundSame DEF KeepsFrom
    <2> QED BY <1>1, <2>2
  <1>4. ASSUME NEW s \in SUBSET docs, NEW p \in SUBSET Lookups(docs, deps),
               p # {}, Same(s, Lowest(p)) = {},
               \A d \in Candidates(docs, Lowest(p)) : <<s \cup {d}, Rest(p) \cup d.needs>> \in G
        PROVE  <<s, p>> \in G
    <2>1. ASSUME NEW d \in Candidates(docs, Lowest(p)), FoundWith(docs, deps, s, p, d) # {}
          PROVE  s \subseteq FoundWith(docs, deps, s, p, d)
      <3>1. KeepsFrom(docs, deps, s \cup {d}, Rest(p) \cup d.needs)
        BY <1>1, <1>4, ChoiceAfter
      <3> QED BY <2>1, <3>1 DEF KeepsFrom, FoundWith
    <2>2. KeepsFrom(docs, deps, s, p)
      BY <1>4, <2>1, RoundNew DEF KeepsFrom
    <2> QED BY <1>1, <2>2
  <1>5. OfSame(docs, deps, G) /\ OfNew(docs, deps, G)
    BY <1>3, <1>4 DEF OfSame, OfNew
  <1> QED BY <1>1, <1>2, <1>5, SearchInduction

\* What a round may rest on: the selected releases answer each other but for
\* what is still to be looked for.
Single(l) == \A d, e \in l : d.id = e.id => d = e
Partial(deps, sel, pend) ==
    /\ Single(sel)
    /\ pend \subseteq Lookups(sel, deps)
    /\ \A n \in Lookups(sel, deps) : n \in pend \/ Candidates(sel, n) # {}
    /\ \A d \in sel : \E n \in Lookups(sel \ {d}, deps) : n.id = d.id

LEMMA PartialNext ==
  ASSUME NEW docs, NEW deps, NEW sel \in SUBSET docs, NEW pend, Partial(deps, sel, pend), NEW dep \in pend
  PROVE  /\ Same(sel, dep) # {} /\ Same(sel, dep) \subseteq Candidates(docs, dep)
               => Partial(deps, sel, pend \ {dep})
         /\ Same(sel, dep) = {} => \A d \in Candidates(docs, dep) :
               Partial(deps, sel \cup {d}, (pend \ {dep}) \cup d.needs)
  <1>1. ASSUME Same(sel, dep) # {}, Same(sel, dep) \subseteq Candidates(docs, dep)
        PROVE  Partial(deps, sel, pend \ {dep})
    <2>1. Candidates(sel, dep) # {}
      BY <1>1 DEF Same, Candidates
    <2> QED BY <2>1 DEF Partial
  <1>2. ASSUME Same(sel, dep) = {}, NEW d \in Candidates(docs, dep)
        PROVE  Partial(deps, sel \cup {d}, (pend \ {dep}) \cup d.needs)
    <2> DEFINE s == sel \cup {d}
               p == (pend \ {dep}) \cup d.needs
    <2>1. d.id = dep.id /\ d \notin sel /\ d \in Candidates(s, dep)
      BY <1>2 DEF Candidates, Same
    <2>2. Single(s)
      BY <1>2, <2>1 DEF Partial, Single, Same
    <2>3. Lookups(s, deps) = Lookups(sel, deps) \cup d.needs
      BY DEF Lookups
    <2>4. p \subseteq Lookups(s, deps)
      BY <2>3 DEF Partial
    <2>5. ASSUME NEW n \in Lookups(s, deps) PROVE n \in p \/ Candidates(s, n) # {}
      <3>1. CASE n \in d.needs
        BY <3>1
      <3>2. CASE n = dep
        BY <3>2, <2>1
      <3>3. CASE n \in Lookups(sel, deps) /\ n # dep
        <4>1. n \in pend \/ Candidates(sel, n) # {}
          BY <3>3 DEF Partial
        <4>2. Candidates(sel, n) \subseteq Candidates(s, n)
          BY DEF Candidates
        <4> QED BY <3>3, <4>1, <4>2
      <3> QED BY <2>3, <3>1, <3>2, <3>3
    <2>6. ASSUME NEW e \in s PROVE \E n \in Lookups(s \ {e}, deps) : n.id = e.id
      <3>1. CASE e = d
        <4>1. s \ {e} = sel
          BY <2>1, <3>1
        <4>2. dep \in Lookups(s \ {e}, deps)
          BY <4>1 DEF Partial
        <4> QED BY <2>1, <3>1, <4>2
      <3>2. CASE e \in sel
        <4>1. PICK n \in Lookups(sel \ {e}, deps) : n.id = e.id
          BY <3>2 DEF Partial
        <4>2. n \in Lookups(s \ {e}, deps)
          BY <4>1 DEF Lookups
        <4> QED BY <4>1, <4>2
      <3> QED BY <3>1, <3>2
    <2> HIDE DEF s, p
    <2>7. Partial(deps, s, p)
      BY <2>2, <2>4, <2>5, <2>6 DEF Partial
    <2> QED BY <2>7 DEF s, p
  <1> QED BY <1>1, <1>2

\* Whatever is found from there answers what was asked.
FindsAnswer(docs, deps, sel, pend) ==
    Partial(deps, sel, pend) /\ Found(docs, deps, sel, pend) # {} =>
        Answers(docs, deps, Found(docs, deps, sel, pend))

LEMMA Sound ==
  ASSUME NEW docs, NEW deps, Searchable(docs, deps),
         NEW sel \in SUBSET docs, NEW pend \in SUBSET Lookups(docs, deps)
  PROVE  FindsAnswer(docs, deps, sel, pend)
  <1> DEFINE G == {at \in Rounds(docs, deps) : FindsAnswer(docs, deps, at[1], at[2])}
  <1>1. \A s \in SUBSET docs, p \in SUBSET Lookups(docs, deps) :
            <<s, p>> \in G <=> FindsAnswer(docs, deps, s, p)
    BY DEF Rounds
  <1> HIDE DEF G
  <1>2. OfDone(docs, G)
    <2>1. ASSUME NEW s \in SUBSET docs, Partial(deps, s, {}) PROVE Answers(docs, deps, s)
      BY <2>1 DEF Partial, Answers, Single
    <2>2. ASSUME NEW s \in SUBSET docs PROVE FindsAnswer(docs, deps, s, {})
      BY <2>1, SearchDone DEF FindsAnswer
    <2>3. ASSUME NEW s \in SUBSET docs PROVE <<s, {}>> \in G
      BY <1>1, <2>2
    <2> QED BY <2>3 DEF OfDone
  <1>3. ASSUME NEW s \in SUBSET docs, NEW p \in SUBSET Lookups(docs, deps),
               p # {}, Same(s, Lowest(p)) # {}, <<s, Rest(p)>> \in G
        PROVE  <<s, p>> \in G
    <2>1. FindsAnswer(docs, deps, s, Rest(p))
      BY <1>1, <1>3, RestAfter
    <2>2. ASSUME Partial(deps, s, p), Same(s, Lowest(p)) \subseteq Candidates(docs, Lowest(p))
          PROVE  Partial(deps, s, Rest(p))
      BY <1>3, <2>2, PartialNext, LowestPending DEF Rest
    <2>3. FindsAnswer(docs, deps, s, p)
      BY <1>3, <2>1, <2>2, RoundSame DEF FindsAnswer
    <2> QED BY <1>1, <2>3
  <1>4. ASSUME NEW s \in SUBSET docs, NEW p \in SUBSET Lookups(docs, deps),
               p # {}, Same(s, Lowest(p)) = {},
               \A d \in Candidates(docs, Lowest(p)) : <<s \cup {d}, Rest(p) \cup d.needs>> \in G
        PROVE  <<s, p>> \in G
    <2>1. \A d \in Candidates(docs, Lowest(p)) :
              FindsAnswer(docs, deps, s \cup {d}, Rest(p) \cup d.needs)
      BY <1>1, <1>4, ChoiceAfter
    <2>2. ASSUME Partial(deps, s, p), NEW d \in Candidates(docs, Lowest(p)),
                 FoundWith(docs, deps, s, p, d) # {}
          PROVE  Answers(docs, deps, FoundWith(docs, deps, s, p, d))
      <3>1. Partial(deps, s \cup {d}, Rest(p) \cup d.needs)
        BY <1>4, <2>2, PartialNext, LowestPending DEF Rest
      <3> QED BY <2>1, <2>2, <3>1 DEF FindsAnswer, FoundWith
    <2>3. FindsAnswer(docs, deps, s, p)
      BY <1>4, <2>2, RoundNew DEF FindsAnswer
    <2> QED BY <1>1, <2>3
  <1>5. OfSame(docs, deps, G) /\ OfNew(docs, deps, G)
    BY <1>3, <1>4 DEF OfSame, OfNew
  <1> QED BY <1>1, <1>2, <1>5, SearchInduction


\* Releases that answer each other and what is asked, needed or not.
Settled(docs, deps, l) ==
    l \subseteq docs /\ Single(l) /\ \A n \in Lookups(l, deps) : Candidates(l, n) # {}

\* While everything selected is of a closed set, the search does not fail.
DoesNotFail(docs, deps, l, sel, pend) ==
    sel \subseteq l /\ pend \subseteq Lookups(l, deps) /\ sel \cup pend # {} =>
        Found(docs, deps, sel, pend) # {}

LEMMA ClosedNext ==
  ASSUME NEW docs, NEW deps, NEW l, Settled(docs, deps, l),
         NEW sel \in SUBSET l, NEW n \in Lookups(l, deps)
  PROVE  /\ Same(sel, n) \subseteq Candidates(docs, n)
         /\ \E d \in Candidates(docs, n) : d \in l /\ d.needs \subseteq Lookups(l, deps)
  <1>1. PICK d \in l : d.id = n.id /\ d \in Candidates(l, n)
    BY DEF Settled, Candidates
  <1>2. d \in Candidates(docs, n) /\ d.needs \subseteq Lookups(l, deps)
    BY <1>1 DEF Candidates, Settled, Lookups
  <1>3. \A e \in Same(sel, n) : e = d
    BY <1>1 DEF Same, Settled, Single
  <1> QED BY <1>1, <1>2, <1>3

LEMMA Complete ==
  ASSUME NEW docs, NEW deps, Searchable(docs, deps), NEW l, Settled(docs, deps, l),
         NEW sel \in SUBSET docs, NEW pend \in SUBSET Lookups(docs, deps)
  PROVE  DoesNotFail(docs, deps, l, sel, pend)
  <1> DEFINE G == {at \in Rounds(docs, deps) : DoesNotFail(docs, deps, l, at[1], at[2])}
  <1>1. \A s \in SUBSET docs, p \in SUBSET Lookups(docs, deps) :
            <<s, p>> \in G <=> DoesNotFail(docs, deps, l, s, p)
    BY DEF Rounds
  <1> HIDE DEF G
  <1>2. OfDone(docs, G)
    BY <1>1, SearchDone DEF DoesNotFail, OfDone
  <1>3. ASSUME NEW s \in SUBSET docs, NEW p \in SUBSET Lookups(docs, deps),
               p # {}, Same(s, Lowest(p)) # {}, <<s, Rest(p)>> \in G
        PROVE  <<s, p>> \in G
    <2>1. DoesNotFail(docs, deps, l, s, Rest(p))
      BY <1>1, <1>3, RestAfter
    <2>2. ASSUME s \subseteq l, p \subseteq Lookups(l, deps)
          PROVE  Found(docs, deps, s, p) # {}
      <3>1. Same(s, Lowest(p)) \subseteq Candidates(docs, Lowest(p))
        BY <1>3, <2>2, ClosedNext, LowestPending
      <3>2. Rest(p) \subseteq Lookups(l, deps) /\ s # {}
        BY <1>3, <2>2 DEF Rest, Same
      <3> QED BY <1>3, <2>1, <2>2, <3>1, <3>2, RoundSame DEF DoesNotFail
    <2>3. DoesNotFail(docs, deps, l, s, p)
      BY <2>2 DEF DoesNotFail
    <2> QED BY <1>1, <2>3
  <1>4. ASSUME NEW s \in SUBSET docs, NEW p \in SUBSET Lookups(docs, deps),
               p # {}, Same(s, Lowest(p)) = {},
               \A d \in Candidates(docs, Lowest(p)) : <<s \cup {d}, Rest(p) \cup d.needs>> \in G
        PROVE  <<s, p>> \in G
    <2>1. \A d \in Candidates(docs, Lowest(p)) :
              DoesNotFail(docs, deps, l, s \cup {d}, Rest(p) \cup d.needs)
      BY <1>1, <1>4, ChoiceAfter
    <2>2. ASSUME s \subseteq l, p \subseteq Lookups(l, deps)
          PROVE  Found(docs, deps, s, p) # {}
      <3>1. PICK d \in Candidates(docs, Lowest(p)) : d \in l /\ d.needs \subseteq Lookups(l, deps)
        BY <1>4, <2>2, ClosedNext, LowestPending
      <3>2. FoundWith(docs, deps, s, p, d) # {}
        BY <2>1, <2>2, <3>1 DEF DoesNotFail, FoundWith, Rest
      <3> QED BY <1>4, <3>2, RoundNew
    <2>3. DoesNotFail(docs, deps, l, s, p)
      BY <2>2 DEF DoesNotFail
    <2> QED BY <1>1, <2>3
  <1>5. OfSame(docs, deps, G) /\ OfNew(docs, deps, G)
    BY <1>3, <1>4 DEF OfSame, OfNew
  <1> QED BY <1>1, <1>2, <1>5, SearchInduction


\* If what is found has a closed set in it, it has nothing else.
FindsNoMore(docs, deps, l, sel, pend) ==
    /\ sel \subseteq l /\ pend \subseteq Lookups(l, deps)
    /\ Found(docs, deps, sel, pend) # {}
    /\ l \subseteq Found(docs, deps, sel, pend) /\ Single(Found(docs, deps, sel, pend))
    => Found(docs, deps, sel, pend) \subseteq l

LEMMA Tight ==
  ASSUME NEW docs, NEW deps, Searchable(docs, deps), NEW l, Settled(docs, deps, l),
         NEW sel \in SUBSET docs, NEW pend \in SUBSET Lookups(docs, deps)
  PROVE  FindsNoMore(docs, deps, l, sel, pend)
  <1> DEFINE G == {at \in Rounds(docs, deps) : FindsNoMore(docs, deps, l, at[1], at[2])}
  <1>1. \A s \in SUBSET docs, p \in SUBSET Lookups(docs, deps) :
            <<s, p>> \in G <=> FindsNoMore(docs, deps, l, s, p)
    BY DEF Rounds
  <1> HIDE DEF G
  <1>2. OfDone(docs, G)
    <2>1. ASSUME NEW s \in SUBSET docs PROVE FindsNoMore(docs, deps, l, s, {})
      BY SearchDone DEF FindsNoMore
    <2> QED BY <1>1, <2>1 DEF OfDone
  <1>3. ASSUME NEW s \in SUBSET docs, NEW p \in SUBSET Lookups(docs, deps),
               p # {}, Same(s, Lowest(p)) # {}, <<s, Rest(p)>> \in G
        PROVE  <<s, p>> \in G
    <2>1. FindsNoMore(docs, deps, l, s, Rest(p))
      BY <1>1, <1>3, RestAfter
    <2>2. FindsNoMore(docs, deps, l, s, p)
      BY <1>3, <2>1, RoundSame DEF FindsNoMore, Rest
    <2> QED BY <1>1, <2>2
  <1>4. ASSUME NEW s \in SUBSET docs, NEW p \in SUBSET Lookups(docs, deps),
               p # {}, Same(s, Lowest(p)) = {},
               \A d \in Candidates(docs, Lowest(p)) : <<s \cup {d}, Rest(p) \cup d.needs>> \in G
        PROVE  <<s, p>> \in G
    <2>1. \A d \in Candidates(docs, Lowest(p)) :
              FindsNoMore(docs, deps, l, s \cup {d}, Rest(p) \cup d.needs)
      BY <1>1, <1>4, ChoiceAfter
    <2>2. ASSUME s \subseteq l, p \subseteq Lookups(l, deps), NEW d \in Candidates(docs, Lowest(p)),
                 FoundWith(docs, deps, s, p, d) # {},
                 l \subseteq FoundWith(docs, deps, s, p, d), Single(FoundWith(docs, deps, s, p, d))
          PROVE  FoundWith(docs, deps, s, p, d) \subseteq l
      <3>1. d \in FoundWith(docs, deps, s, p, d)
        <4>1. KeepsFrom(docs, deps, s \cup {d}, Rest(p) \cup d.needs)
          BY <1>4, ChoiceAfter, Keeps
        <4> QED BY <2>2, <4>1 DEF KeepsFrom, FoundWith
      <3>2. PICK c \in Candidates(docs, Lowest(p)) : c \in l /\ c.needs \subseteq Lookups(l, deps)
        BY <1>4, <2>2, ClosedNext, LowestPending
      <3>3. c = d
        BY <2>2, <3>1, <3>2 DEF Candidates, Single
      <3> QED BY <2>1, <2>2, <3>2, <3>3 DEF FindsNoMore, FoundWith, Rest
    <2>3. ASSUME s \subseteq l, p \subseteq Lookups(l, deps), Found(docs, deps, s, p) # {},
                 l \subseteq Found(docs, deps, s, p), Single(Found(docs, deps, s, p))
          PROVE  Found(docs, deps, s, p) \subseteq l
      <3>1. PICK d \in Candidates(docs, Lowest(p)) :
                /\ FoundWith(docs, deps, s, p, d) # {}
                /\ Found(docs, deps, s, p) = FoundWith(docs, deps, s, p, d)
        BY <1>4, <2>3, RoundNew
      <3> QED BY <2>2, <2>3, <3>1
    <2>4. FindsNoMore(docs, deps, l, s, p)
      BY <2>3 DEF FindsNoMore
    <2> QED BY <1>1, <2>4
  <1>5. OfSame(docs, deps, G) /\ OfNew(docs, deps, G)
    BY <1>3, <1>4 DEF OfSame, OfNew
  <1> QED BY <1>1, <1>2, <1>5, SearchInduction


-----------------------------------------------------------------------------
(* The registry.                                                           *)

Compiles(l) == (\A d, e \in l : d.edition = e.edition) /\ Ordered(l) # <<0>>

\* A lock was found, and what was installed since takes nothing from it.
SolverInv ==
    /\ SolverTypeOK
    /\ lock # {} => Answers(installed, asked, lock) /\ Compiles(lock)

LEMMA AskedSearchable ==
  ASSUME SolverTypeOK
  PROVE  /\ Searchable(installed, asked) /\ asked # {}
         /\ \A d \in installed : {d.id, d.version, d.edition} \subseteq Nat
  <1>1. IsFiniteSet(installed) /\ IsFiniteSet(asked) /\ asked # {}
    BY SolverAssumption, FS_Subset DEF SolverTypeOK
  <1>2. \A d \in installed :
            {d.id, d.version, d.edition} \subseteq Nat /\ IsFiniteSet(d.needs)
    BY SolverAssumption DEF SolverTypeOK
  <1>3. Lookups(installed, asked) \subseteq UNION (Questions \cup {d.needs : d \in Documents})
    BY DEF SolverTypeOK, Lookups
  <1>4. \A n \in Lookups(installed, asked) : n.id \in Nat
    BY <1>3, SolverAssumption
  <1> QED BY <1>1, <1>2, <1>4 DEF Searchable

\* Nothing is selected at first, and everything asked is to be looked for.
LEMMA FirstRound ==
  ASSUME NEW docs, NEW deps
  PROVE  /\ Partial(deps, {}, deps) /\ deps \in SUBSET Lookups(docs, deps)
         /\ {} \in SUBSET docs /\ Solve(docs, deps) = Found(docs, deps, {}, deps)
  BY DEF Partial, Single, Lookups, Solve, Found

LEMMA SolveAnswers ==
  ASSUME NEW docs, NEW deps, Searchable(docs, deps), Solve(docs, deps) # {}
  PROVE  Answers(docs, deps, Solve(docs, deps))
  <1>1. FindsAnswer(docs, deps, {}, deps)
    BY FirstRound, Sound
  <1> QED BY <1>1, FirstRound DEF FindsAnswer

LEMMA AnswerIsClosed ==
  ASSUME NEW docs, NEW deps, NEW l, Answers(docs, deps, l)
  PROVE  Settled(docs, deps, l)
  BY DEF Answers, Settled, Single

LEMMA SolverInitInv == SolverInit => SolverInv
  BY DEF SolverInit, SolverInv, SolverTypeOK, Immutable

LEMMA SolverNextInv == SolverInv /\ [SolverNext]_solverVars => SolverInv'
  <1> SUFFICES ASSUME SolverInv, [SolverNext]_solverVars
               PROVE  SolverInv'
    OBVIOUS
  <1>1. CASE Answer
    <2> DEFINE found == Solve(installed, asked)
    <2>1. Searchable(installed, asked)
      BY AskedSearchable DEF SolverInv
    <2>2. found # {} => Answers(installed, asked, found)
      BY <2>1, SolveAnswers
    <2> HIDE DEF found
    <2>3. lock' = IF Compiles(found) THEN found ELSE {}
      BY <1>1 DEF Answer, Resolve, Compiles, found
    <2>4. lock' # {} => lock' = found /\ Compiles(lock') /\ Answers(installed, asked, lock')
      BY <2>2, <2>3
    <2>5. UNCHANGED <<installed, asked>>
      BY <1>1 DEF Answer
    <2>6. lock' \subseteq installed
      BY <2>4 DEF Answers
    <2> HIDE <2>3
    <2>7. SolverTypeOK'
      BY <2>5, <2>6 DEF SolverInv, SolverTypeOK
    <2>8. (lock # {} => Answers(installed, asked, lock) /\ Compiles(lock))'
      BY <2>4, <2>5
    <2> QED BY <2>7, <2>8 DEF SolverInv
  <1>2. ASSUME NEW d \in Documents, Install(d)
        PROVE  SolverInv'
    <2>1. installed \subseteq installed' /\ asked' = asked /\ lock' = lock
      BY <1>2 DEF Install
    <2>2. SolverTypeOK'
      BY <1>2, <2>1 DEF Install, SolverInv, SolverTypeOK, Immutable
    <2>3. Answers(installed, asked, lock) => Answers(installed', asked, lock)
      BY <2>1 DEF Answers
    <2> QED BY <2>1, <2>2, <2>3 DEF SolverInv
  <1>3. CASE UNCHANGED solverVars
    BY <1>3 DEF solverVars, SolverInv, SolverTypeOK
  <1> QED BY <1>1, <1>2, <1>3 DEF SolverNext

LEMMA SolverAlways == SolverSpec => []SolverInv
  BY SolverInitInv, SolverNextInv, PTL DEF SolverSpec

\* Whatever was decided along a path that was given up, a lock that
\* Registry.Resolve gives answers everything that was asked and is needed, for
\* any packs; and it goes on answering whatever is installed later.
THEOREM LockAnswersAlways == SolverSpec => []LockAnswers
  <1>1. SolverInv => LockAnswers
    BY DEF SolverInv, LockAnswers
  <1> QED BY <1>1, SolverAlways, PTL

\* Of the pack looked for first, no closed set has a newer release than the one
\* that is found.
LEMMA FirstIsNewest ==
  ASSUME NEW docs, NEW deps, Searchable(docs, deps), deps # {},
         NEW l, Settled(docs, deps, l), NEW c \in l, c.id = Lowest(deps).id,
         NEW e \in Solve(docs, deps), e.id = Lowest(deps).id
  PROVE  c.version <= e.version
  <1> DEFINE n == Lowest(deps)
  <1>1. deps \in SUBSET Lookups(docs, deps) /\ {} \in SUBSET docs /\ Same({}, n) = {}
    BY FirstRound DEF Same
  <1>2. n \in deps
    BY <1>1, LowestPending
  <1>3. PICK d \in Candidates(docs, n) :
            /\ FoundWith(docs, deps, {}, deps, d) # {}
            /\ Solve(docs, deps) = FoundWith(docs, deps, {}, deps, d)
            /\ \A b \in Candidates(docs, n) :
                  FoundWith(docs, deps, {}, deps, b) # {} => b.version <= d.version
    BY <1>1, FirstRound, RoundNew
  <1>4. d \in Solve(docs, deps)
    <2>1. KeepsFrom(docs, deps, {} \cup {d}, Rest(deps) \cup d.needs)
      BY <1>1, ChoiceAfter, Keeps
    <2> QED BY <1>3, <2>1 DEF KeepsFrom, FoundWith
  <1>5. e = d
    <2>1. Answers(docs, deps, Solve(docs, deps))
      BY SolveAnswers
    <2> QED BY <1>3, <1>4, <2>1 DEF Answers, Candidates
  <1>6. c \in Candidates(docs, n) /\ c.needs \subseteq Lookups(l, deps)
    <2>1. n \in Lookups(l, deps)
      BY <1>2 DEF Lookups
    <2>2. PICK b \in Candidates(docs, n) : b \in l /\ b.needs \subseteq Lookups(l, deps)
      BY <2>1, ClosedNext
    <2>3. b = c
      BY <2>2 DEF Settled, Single, Candidates
    <2> QED BY <2>2, <2>3
  <1>7. FoundWith(docs, deps, {}, deps, c) # {}
    <2>1. /\ {} \cup {c} \in SUBSET docs
          /\ Rest(deps) \cup c.needs \in SUBSET Lookups(docs, deps)
      BY <1>1, <1>6, ChoiceAfter
    <2>2. DoesNotFail(docs, deps, l, {} \cup {c}, Rest(deps) \cup c.needs)
      BY <2>1, Complete
    <2>3. {} \cup {c} \subseteq l /\ Rest(deps) \cup c.needs \subseteq Lookups(l, deps)
      BY <1>6 DEF Rest, Lookups
    <2> QED BY <2>2, <2>3 DEF DoesNotFail, FoundWith
  <1> QED BY <1>3, <1>5, <1>6, <1>7

\* Registry.Resolve's search refuses only what no set of releases answers,
\* though a dependency met late constrains what was selected early; and the
\* first pack asked for gets the newest release that any answer has.
THEOREM FindsNewestAlways == SolverSpec => []FindsNewest
  <1>1. ASSUME SolverTypeOK, NEW l \in SUBSET installed, Answers(installed, asked, l)
        PROVE  /\ Solve(installed, asked) # {}
               /\ (CHOOSE d \in l : d.id = Lowest(asked).id).version
                     <= (CHOOSE d \in Solve(installed, asked) : d.id = Lowest(asked).id).version
    <2> DEFINE n == Lowest(asked)
               found == Solve(installed, asked)
    <2>1. Searchable(installed, asked) /\ asked # {}
      BY <1>1, AskedSearchable
    <2>2. Settled(installed, asked, l)
      BY <1>1, AnswerIsClosed
    <2>3. asked \in SUBSET Lookups(installed, asked) /\ asked \subseteq Lookups(l, asked)
      BY DEF Lookups
    <2>4. n \in asked
      BY <2>1, <2>3, LowestPending
    <2>5. found # {}
      <3>1. DoesNotFail(installed, asked, l, {}, asked)
        BY <2>1, <2>2, <2>3, Complete
      <3> QED BY <2>1, <2>3, <3>1, FirstRound DEF DoesNotFail
    <2>6. Answers(installed, asked, found)
      BY <2>1, <2>5, SolveAnswers
    <2> HIDE DEF n, found
    <2>7. ASSUME NEW m, Answers(installed, asked, m)
          PROVE  (CHOOSE d \in m : d.id = n.id) \in m /\ (CHOOSE d \in m : d.id = n.id).id = n.id
      <3>1. \E d \in m : d.id = n.id
        BY <2>4, <2>7 DEF Answers, Lookups, Candidates
      <3> QED BY <3>1
    <2> DEFINE c == CHOOSE d \in l : d.id = n.id
               e == CHOOSE d \in found : d.id = n.id
    <2>8. c \in l /\ c.id = n.id /\ e \in found /\ e.id = n.id
      BY <1>1, <2>6, <2>7
    <2> HIDE DEF c, e
    <2>9. c.version <= e.version
      BY <2>1, <2>2, <2>8, FirstIsNewest DEF n, found
    <2> QED BY <2>5, <2>9 DEF c, e, n, found
  <1>2. SolverInv => FindsNewest
    BY <1>1 DEF SolverInv, FindsNewest
  <1> QED BY <1>2, SolverAlways, PTL

\* A lock asked for exactly is what is found, whatever else is installed.
Exactly(l) == {[id |-> d.id, admits |-> {d.version}] : d \in l}

LEMMA ExactlyItself ==
  ASSUME SolverTypeOK, NEW l, l # {}, Answers(installed, asked, l)
  PROVE  Solve(installed, Exactly(l)) = l
  <1> DEFINE deps == Exactly(l)
             found == Solve(installed, deps)
  <1>1. l \subseteq installed /\ Single(l) /\ Searchable(installed, asked)
    BY AskedSearchable DEF Answers, Single
  <1>2. \A d \in l : [id |-> d.id, admits |-> {d.version}] \in deps
    BY DEF Exactly
  <1>3. \A n \in deps : \E d \in l : n.id = d.id /\ n.admits = {d.version} /\ d \in Candidates(l, n)
    BY DEF Exactly, Candidates
  <1>4. Searchable(installed, deps)
    <2> DEFINE f == [d \in l |-> [id |-> d.id, admits |-> {d.version}]]
    <2>1. IsFiniteSet(l)
      BY <1>1, FS_Subset DEF Searchable
    <2>2. f \in Surjection(l, deps)
      BY DEF Surjection, Exactly
    <2> HIDE DEF f, deps
    <2>3. IsFiniteSet(deps)
      BY <2>1, <2>2, FS_Surjection
    <2>4. \A n \in deps : n.id \in Nat
      BY <1>1, <1>3, AskedSearchable
    <2>5. Lookups(installed, deps) \subseteq deps \cup Lookups(installed, asked)
      BY DEF Lookups
    <2> QED BY <1>1, <2>3, <2>4, <2>5 DEF Searchable
  <1>5. deps # {}
    BY <1>2
  <1> HIDE DEF deps, found
  <1>6. Settled(installed, deps, l)
    <2>1. Lookups(l, deps) \subseteq deps \cup Lookups(l, asked)
      BY DEF Lookups
    <2>2. \A n \in Lookups(l, asked) : Candidates(l, n) # {}
      BY DEF Answers
    <2>3. \A n \in deps : Candidates(l, n) # {}
      BY <1>3
    <2> QED BY <1>1, <2>1, <2>2, <2>3 DEF Settled
  <1>7. deps \in SUBSET Lookups(installed, deps) /\ deps \subseteq Lookups(l, deps)
        /\ found = Found(installed, deps, {}, deps)
    BY FirstRound DEF Lookups, found
  <1>8. found # {}
    <2>1. DoesNotFail(installed, deps, l, {}, deps)
      BY <1>4, <1>6, <1>7, Complete
    <2> QED BY <1>5, <1>7, <2>1 DEF DoesNotFail
  <1>9. Answers(installed, deps, found)
    BY <1>4, <1>8, SolveAnswers DEF found
  <1>10. ASSUME NEW d \in l PROVE d \in found
    <2> DEFINE n == [id |-> d.id, admits |-> {d.version}]
    <2>1. n \in deps /\ n.id = d.id /\ n.admits = {d.version}
      BY <1>2
    <2> HIDE DEF n
    <2>2. PICK e \in Candidates(found, n) : TRUE
      BY <1>9, <2>1 DEF Answers, Lookups
    <2>3. e \in found /\ e \in installed /\ e.id = d.id /\ e.version = d.version
      BY <1>9, <2>1 DEF Answers, Candidates
    <2>4. e = d
      BY <1>1, <2>3 DEF SolverTypeOK
    <2> QED BY <2>3, <2>4
  <1>11. found \subseteq l
    <2>1. FindsNoMore(installed, deps, l, {}, deps)
      BY <1>4, <1>6, <1>7, Tight
    <2>2. Single(found)
      BY <1>9 DEF Answers, Single
    <2> QED BY <1>7, <1>8, <1>10, <2>1, <2>2 DEF FindsNoMore
  <1>12. found = l
    BY <1>10, <1>11
  <1> QED BY <1>12 DEF found, deps

\* A lock is reproducible: asked for exactly, Registry.Resolve gives it again,
\* whatever newer releases were installed since.
THEOREM PinnedAlways == SolverSpec => []Pinned
  <1>1. ASSUME SolverInv, lock # {}
        PROVE  Resolve(installed, Exactly(lock)) = lock
    <2>1. Solve(installed, Exactly(lock)) = lock
      BY <1>1, ExactlyItself DEF SolverInv
    <2>2. Compiles(lock)
      BY <1>1 DEF SolverInv
    <2> QED BY <2>1, <2>2 DEF Resolve, Compiles
  <1>2. SolverInv => Pinned
    BY <1>1 DEF Pinned, Exactly
  <1> QED BY <1>2, SolverAlways, PTL

-----------------------------------------------------------------------------
(* The shelf.                                                              *)

\* What the four do together, each does by itself.
LEMMA ShelfParts == ShelfSpec => AccountsSpec /\ PacksSpec /\ FoldersSpec /\ SolverSpec
  <1>1. ShelfInit => AccountsInit /\ PacksInit /\ FoldersInit /\ SolverInit
    BY DEF ShelfInit
  <1>2. [ShelfNext]_shelfVars =>
          /\ [AccountsNext]_accountVars
          /\ [PacksNext]_packVars
          /\ [FoldersNext]_folderVars
          /\ [SolverNext]_solverVars
    BY DEF ShelfNext, shelfVars
  <1> QED BY <1>1, <1>2, PTL DEF ShelfSpec, AccountsSpec, PacksSpec, FoldersSpec, SolverSpec

\* Accounts, folders, packs and locks hold what their columns allow, whatever
\* request races whatever.
THEOREM ShelfTyped == ShelfSpec => []ShelfTypeOK
  <1>1. ShelfSpec => []AccountsTypeOK
    BY ShelfParts, AccountsTyped
  <1>2. ShelfSpec => []PacksTypeOK
    BY ShelfParts, PacksTyped
  <1>3. ShelfSpec => []FoldersTypeOK
    BY ShelfParts, FoldersTyped
  <1>4. SolverInv => SolverTypeOK
    BY DEF SolverInv
  <1>5. ShelfSpec => []SolverTypeOK
    BY <1>4, ShelfParts, SolverAlways, PTL
  <1> QED BY <1>1, <1>2, <1>3, <1>5, PTL DEF ShelfTypeOK

=============================================================================
