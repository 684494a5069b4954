------------------------------ MODULE Accounts ------------------------------
(***************************************************************************)
(* Accounts and the ways into them: passkeys and identities of an outside  *)
(* provider.  The tables users, user_credentials and user_identities are   *)
(* written in single transactions; between a transaction, the reading that *)
(* led to it and the session it ends in nothing is locked, so requests     *)
(* interleave and may be cut short.  The server keeps no session and no    *)
(* ceremony: what it signed or sealed is good until it expires, as often   *)
(* as it is presented.                                                     *)
(*                                                                         *)
(* That a passkey, or the provider, vouches for whoever presents it is     *)
(* taken as given: a proof is presented or it is not.  Sign counts, names  *)
(* and portraits are left out.                                             *)
(***************************************************************************)
EXTENDS Naturals, FiniteSets

\* Mutant...: see Membership.

CONSTANTS Minted,        \* ids drawn for accounts
          Guests,        \* ids drawn for sessions that name no account
          Keys,          \* passkeys
          Subjects,      \* the provider's accounts
          Visitors,      \* the requests being served at once
          NoOne

ASSUME AccountsAssumption ==
    /\ Minted \cap Guests = {} /\ Keys \cap Subjects = {}
    /\ NoOne \notin Minted \cup Guests \cup Keys \cup Subjects
    /\ IsFiniteSet(Keys) /\ IsFiniteSet(Subjects)

VARIABLES drawn,     \* the ids that were drawn
          users,     \* the rows of users
          held,      \* user_credentials and user_identities: proof and account
          sealed,    \* the envelopes that are good
          signed,    \* whose accounts a session that is good names
          guests,    \* the guest sessions that are good
          visit      \* the requests

accountVars == <<drawn, users, held, sealed, signed, guests, visit>>

Ids == Minted \cup Guests
Proofs == Keys \cup Subjects

\* A sign-up seals the account it will store, a flight whom it links to.
Envelopes == ({"register"} \X Minted) \cup ({"flight"} \X (Ids \cup {NoOne}))

\* A request that has recorded a sign-in has still to read the account, and
\* to sign the session.
Request == [step : {"idle", "touch", "create", "add", "remove", "read", "issue"},
            id : Ids \cup {NoOne}, proof : Proofs \cup {NoOne}]

NoVisit == [step |-> "idle", id |-> NoOne, proof |-> NoOne]

AccountsTypeOK ==
    /\ drawn \subseteq Ids /\ users \subseteq drawn
    /\ held \subseteq Proofs \X users
    /\ sealed \subseteq Envelopes
    /\ signed \subseteq drawn /\ guests \subseteq Guests
    /\ visit \in [Visitors -> Request]

AccountsInit ==
    /\ drawn = {} /\ users = {} /\ held = {} /\ sealed = {} /\ signed = {} /\ guests = {}
    /\ visit = [q \in Visitors |-> NoVisit]

Ways(id) == {p \in Proofs : <<p, id>> \in held}
Holders(p) == {id \in users : <<p, id>> \in held}

\* Service.Session: a guest's token is the whole record, an account's needs it.
Session(id) == id \in guests \/ (id \in signed /\ id \in users)

-----------------------------------------------------------------------------
(* The statements of UserRepository.                                       *)

MutantStore(id, p) ==
    /\ id \notin users
    /\ users' = users \cup {id}
    /\ held' = IF Holders(p) = {} THEN held \cup {<<p, id>>} ELSE held

\* Create: the account with its first way in, or neither.
Store(id, p) ==
    /\ id \notin users /\ Holders(p) = {}
    /\ users' = users \cup {id}
    /\ held' = held \cup {<<p, id>>}

MutantAddIdentity(id, p) ==
    /\ id \in users
    /\ held' = held \cup {<<p, id>>}

AddIdentity(id, p) ==
    /\ id \in users /\ Holders(p) = {}
    /\ held' = held \cup {<<p, id>>}

MutantTouched(id, p) == id \in users

\* TouchCredential and TouchIdentity find the row by proof and account.
Touched(id, p) == <<p, id>> \in held

RemoveIdentity(id, p) ==
    /\ <<p, id>> \in held
    /\ held' = held \ {<<p, id>>}

-----------------------------------------------------------------------------
(* Signing up, and signing in with a passkey.                              *)

Plan(q, step, id, p) ==
    /\ visit[q].step = "idle"
    /\ visit' = [visit EXCEPT ![q] = [step |-> step, id |-> id, proof |-> p]]

\* The request goes on, and carries the account that it found or stored.
GoOn(q, step, id) == visit' = [visit EXCEPT ![q].step = step, ![q].id = id]

\* Nothing is stored before an attestation verifies.
BeginRegistration(id) ==
    /\ id \in Minted \ drawn
    /\ drawn' = drawn \cup {id}
    /\ sealed' = sealed \cup {<<"register", id>>}
    /\ UNCHANGED <<users, held, signed, guests, visit>>

FinishRegistration(q, id, key) ==
    /\ <<"register", id>> \in sealed
    /\ Store(id, key)
    /\ Plan(q, "issue", id, key)
    /\ UNCHANGED <<drawn, sealed, signed, guests>>

\* FinishLogin finds whose passkey it is; the sign-in is recorded next.
FinishLogin(q, key) ==
    /\ \E id \in Holders(key) : Plan(q, "touch", id, key)
    /\ UNCHANGED <<drawn, users, held, sealed, signed, guests>>

SignInAnonymously(id) ==
    /\ id \in Guests \ drawn
    /\ drawn' = drawn \cup {id}
    /\ guests' = guests \cup {id}
    /\ UNCHANGED <<users, held, sealed, signed, visit>>

\* A guest who joins or makes a group gets a row, and only the first time.
EnsureGuest(id) ==
    /\ id \in guests
    /\ users' = users \cup {id}
    /\ UNCHANGED <<drawn, held, sealed, signed, guests, visit>>

-----------------------------------------------------------------------------
(* Signing in through the provider, connecting it and disconnecting it.    *)

\* A link seals whose session asked for it, a guest's too.
StartSSO(to) ==
    /\ to = NoOne \/ Session(to)
    /\ sealed' = sealed \cup {<<"flight", to>>}
    /\ UNCHANGED <<drawn, users, held, signed, guests, visit>>

\* The session must still be the one that asked.
Link(q, to, as, subject) ==
    /\ as = to
    /\ IF Holders(subject) = {} THEN Plan(q, "add", to, subject)
       ELSE to \in Holders(subject) /\ Plan(q, "touch", to, subject)

\* signIn: the identity's account, or a new one of its own.
SignIn(q, subject) ==
    \/ \E id \in Holders(subject) : Plan(q, "touch", id, subject)
    \/ Holders(subject) = {} /\ Plan(q, "create", NoOne, subject)

\* FinishSSO up to its write: the state matched, and the code was exchanged.
FinishSSO(q, to, as, subject) ==
    /\ <<"flight", to>> \in sealed
    /\ as = NoOne \/ Session(as)
    /\ IF to = NoOne THEN SignIn(q, subject) ELSE Link(q, to, as, subject)
    /\ UNCHANGED <<drawn, users, held, sealed, signed, guests>>

\* With a passkey the account was read before.
Touch(q) ==
    /\ visit[q].step = "touch"
    /\ Touched(visit[q].id, visit[q].proof)
    /\ GoOn(q, IF visit[q].proof \in Keys THEN "issue" ELSE "read", visit[q].id)
    /\ UNCHANGED <<drawn, users, held, sealed, signed, guests>>

CreateAccount(q, id) ==
    /\ visit[q].step = "create" /\ id \in Minted \ drawn
    /\ drawn' = drawn \cup {id}
    /\ Store(id, visit[q].proof)
    /\ GoOn(q, "issue", id)
    /\ UNCHANGED <<sealed, signed, guests>>

Add(q) ==
    /\ visit[q].step = "add"
    /\ AddIdentity(visit[q].id, visit[q].proof)
    /\ GoOn(q, "read", visit[q].id)
    /\ UNCHANGED <<drawn, users, sealed, signed, guests>>

\* The account is read again for the answer, and may be gone.
Reload(q) ==
    /\ visit[q].step = "read" /\ visit[q].id \in users
    /\ GoOn(q, "issue", visit[q].id)
    /\ UNCHANGED <<drawn, users, held, sealed, signed, guests>>

\* issue signs what the request carries: nothing is read any more.
Issue(q) ==
    /\ visit[q].step = "issue"
    /\ signed' = signed \cup {visit[q].id}
    /\ visit' = [visit EXCEPT ![q] = NoVisit]
    /\ UNCHANGED <<drawn, users, held, sealed, guests>>

\* Unlink counts the ways in and refuses at the last; a guest has no account
\* to count them of until it is stored.
Unlink(q, id, subject) ==
    /\ Session(id) /\ id \in users
    /\ Cardinality(Ways(id)) > 1
    /\ Plan(q, "remove", id, subject)
    /\ UNCHANGED <<drawn, users, held, sealed, signed, guests>>

Disconnect(q) ==
    /\ visit[q].step = "remove"
    /\ RemoveIdentity(visit[q].id, visit[q].proof)
    /\ visit' = [visit EXCEPT ![q] = NoVisit]
    /\ UNCHANGED <<drawn, users, sealed, signed, guests>>

-----------------------------------------------------------------------------

MutantDelete(id) ==
    /\ id \in users
    /\ users' = users \ {id}
    /\ UNCHANGED <<drawn, held, sealed, signed, guests, visit>>

\* A superadmin deletes the account: its ways in follow by cascade, and the
\* sessions that name it stay signed.
Delete(id) ==
    /\ id \in users
    /\ users' = users \ {id}
    /\ held' = held \ (Proofs \X {id})
    /\ UNCHANGED <<drawn, sealed, signed, guests, visit>>

\* What was sealed or signed runs out, or its cookie is dropped.
Expire ==
    /\ \/ \E e \in sealed : sealed' = sealed \ {e} /\ UNCHANGED <<signed, guests>>
       \/ \E id \in signed : signed' = signed \ {id} /\ UNCHANGED <<sealed, guests>>
       \/ \E id \in guests : guests' = guests \ {id} /\ UNCHANGED <<sealed, signed>>
    /\ UNCHANGED <<drawn, users, held, visit>>

\* A refusal, a failure, a crash or a lost answer: what was written stays
\* written, and nobody is signed in.
GiveUp(q) ==
    /\ visit[q].step # "idle"
    /\ visit' = [visit EXCEPT ![q] = NoVisit]
    /\ UNCHANGED <<drawn, users, held, sealed, signed, guests>>

AccountsNext ==
    \/ \E id \in Minted : BeginRegistration(id)
    \/ \E id \in Guests : SignInAnonymously(id) \/ EnsureGuest(id)
    \/ \E id \in Ids \cup {NoOne} : StartSSO(id)
    \/ \E id \in Ids : Delete(id)
    \/ Expire
    \/ \E q \in Visitors :
          \/ \E key \in Keys : FinishLogin(q, key) \/ \E id \in Minted : FinishRegistration(q, id, key)
          \/ \E to, as \in Ids \cup {NoOne}, subject \in Subjects : FinishSSO(q, to, as, subject)
          \/ \E id \in Ids, subject \in Subjects : Unlink(q, id, subject)
          \/ \E id \in Minted : CreateAccount(q, id)
          \/ Touch(q) \/ Add(q) \/ Reload(q) \/ Issue(q) \/ Disconnect(q) \/ GiveUp(q)

AccountsSpec == AccountsInit /\ [][AccountsNext]_accountVars

-----------------------------------------------------------------------------
(* Properties.                                                             *)

\* A passkey or an identity leads to one account: of two first sign-ins, or a
\* sign-in and a link, that both found it free, one is refused.
OneHolder == \A p \in Proofs : Cardinality(Holders(p)) <= 1

\* Whoever is refused that way leaves no account without a way in behind: an
\* account comes into being with one, a guest's row excepted.
CreatedWhole ==
    [][\A id \in users' \ users : id \in Guests \/ \E p \in Proofs : <<p, id>> \in held']_accountVars

\* The request has recorded a sign-in, and has not signed the session.
Recorded(q) == visit[q].step \in {"read", "issue"}

\* Every session is signed by a request that recorded its sign-in before, and
\* as it was recorded the account held the proof that was presented: one that
\* was disconnected, and connected elsewhere, since the request found whose it
\* is opens nothing.  The session itself is signed a read or two later, and is
\* not refused if the proof goes in between.
SignsInHolder ==
    [][/\ \A q \in Visitors : ~Recorded(q) /\ Recorded(q)' => <<visit[q].proof, visit[q].id>>' \in held'
       /\ \A id \in signed' \ signed : \E q \in Visitors :
            Recorded(q) /\ visit[q].id = id /\ visit'[q] = NoVisit]_accountVars

=============================================================================
