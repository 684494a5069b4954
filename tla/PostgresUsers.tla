--------------------------- MODULE PostgresUsers ---------------------------
(***************************************************************************)
(* The account store in PostgreSQL (adapter/repository/postgres/user.go).  *)
(* A method is a transaction of several statements, at the isolation level *)
(* the pool leaves it at: each statement sees what is committed when it    *)
(* begins.  Several requests run at once.  The database is external and    *)
(* modelled by what the statements rely on: a unique key admits one row    *)
(* and makes an insert wait for one in flight; a row that is written stays *)
(* locked until its writer ends; a foreign key keeps the account in place  *)
(* until the row that names it is committed.                               *)
(***************************************************************************)
EXTENDS UserRows

CONSTANT Calls            \* the requests being served at once

VARIABLES users,          \* the table users, as committed
          ways,           \* user_credentials and user_identities, as committed
          tx,             \* the transactions in flight
          reply           \* the last answer

postgresVars == <<users, ways, tx, reply>>

Writers == {"Create", "AddIdentity", "Touch", "RemoveIdentity"}
Loads == {"ByProof", "ByID"}

\* wrote: the rows of proofs a writer has inserted, updated or deleted, and a
\* load has read.
Tx == [op : Writers \cup Loads \cup {"none"},
       at : {"idle", "account", "rows", "keys", "subjects", "loaded"},
       id : Ids \cup {Absent}, new : Row \cup {Absent},
       on : SUBSET Proofs, wrote : SUBSET Proofs, mark : Marks]

NoTx == [op |-> "none", at |-> "idle", id |-> Absent, new |-> Absent,
         on |-> {}, wrote |-> {}, mark |-> Fresh]

PostgresTypeOK ==
    /\ users \in [Ids -> Row \cup {Absent}]
    /\ ways \in [Proofs -> [by : Ids, mark : Marks] \cup {Free}]
    /\ tx \in [Calls -> Tx]

PostgresInit ==
    /\ users = [a \in Ids |-> Absent]
    /\ ways = [p \in Proofs |-> Free]
    /\ tx = [q \in Calls |-> NoTx]
    /\ reply = [call |-> "none", id |-> Absent, on |-> {}, says |-> "done"]

Stored(a) == users[a] # Absent
HeldBy(a) == {p \in Proofs : ways[p] # Free /\ ways[p].by = a}

Reply(call, a, on, says) == reply' = [call |-> call, id |-> a, on |-> on, says |-> says]
Put(q, r) == tx' = [tx EXCEPT ![q] = r]
Ends(q, says) == Put(q, NoTx) /\ Reply(tx[q].op, tx[q].id, tx[q].on, says)
GoesOn(q, at) == Put(q, [tx[q] EXCEPT !.at = at]) /\ UNCHANGED reply
Writes(q, p) == Put(q, [tx[q] EXCEPT !.wrote = @ \cup {p}]) /\ UNCHANGED reply

\* The row of an account, of a proof, that a transaction has in flight.
Inserting(o, a) == tx[o].op = "Create" /\ tx[o].at = "rows" /\ tx[o].id = a
Locking(o, p) == tx[o].op \in Writers /\ p \in tx[o].wrote

-----------------------------------------------------------------------------
Asked(op, a, on, new, m) ==
    [op |-> op, at |-> "account", id |-> a, new |-> new, on |-> on, wrote |-> {}, mark |-> m]

Begin(q) ==
    /\ tx[q].at = "idle"
    /\ \/ \E a \in Ids, n \in Names, ps \in SUBSET Proofs :
              Put(q, Asked("Create", a, ps, Plain(n), Fresh))
       \/ \E a \in Ids, p \in Subjects, op \in {"AddIdentity", "RemoveIdentity"} :
              Put(q, Asked(op, a, {p}, Absent, Fresh))
       \/ \E a \in Ids, p \in Proofs, m \in Marks : Put(q, Asked("Touch", a, {p}, Absent, m))
       \/ \E p \in Proofs : Put(q, Asked("ByProof", Absent, {p}, Absent, Fresh))
       \/ \E a \in Ids : Put(q, Asked("ByID", a, {}, Absent, Fresh))
    /\ UNCHANGED <<users, ways, reply>>

\* Mutant...: see Membership.
MutantInsertAccount(q) ==
    /\ tx[q].op = "Create" /\ tx[q].at = "account"
    /\ \A o \in Calls \ {q} : ~Inserting(o, tx[q].id)
    /\ \/ Stored(tx[q].id) /\ Ends(q, "refused") /\ UNCHANGED users
       \/ /\ ~Stored(tx[q].id) /\ GoesOn(q, "rows")
          /\ users' = [users EXCEPT ![tx[q].id] = tx[q].new]
    /\ UNCHANGED ways

\* INSERT INTO users.
InsertAccount(q) ==
    /\ tx[q].op = "Create" /\ tx[q].at = "account"
    /\ \A o \in Calls \ {q} : ~Inserting(o, tx[q].id)
    /\ \/ Stored(tx[q].id) /\ Ends(q, "refused")
       \/ ~Stored(tx[q].id) /\ GoesOn(q, "rows")
    /\ UNCHANGED <<users, ways>>

\* requireAccount: a plain SELECT, which locks nothing.
RequireAccount(q) ==
    /\ tx[q].op \in Writers \ {"Create"} /\ tx[q].at = "account"
    /\ \/ ~Stored(tx[q].id) /\ Ends(q, "missing")
       \/ Stored(tx[q].id) /\ GoesOn(q, "rows")
    /\ UNCHANGED <<users, ways>>

\* insertCredential and insertIdentity, the passkeys first.  The unique key is
\* asked before the foreign key.
InsertProof(q, p) ==
    /\ tx[q].op \in {"Create", "AddIdentity"} /\ tx[q].at = "rows"
    /\ p \in tx[q].on \ tx[q].wrote
    /\ p \in Subjects => tx[q].on \cap Keys \subseteq tx[q].wrote
    /\ \A o \in Calls \ {q} : ~Locking(o, p)
    /\ \/ ways[p] # Free /\ Ends(q, "refused")
       \/ /\ ways[p] = Free
          /\ tx[q].op = "AddIdentity" /\ ~Stored(tx[q].id)
          /\ Ends(q, "failed")
       \/ /\ ways[p] = Free
          /\ tx[q].op = "Create" \/ Stored(tx[q].id)
          /\ Writes(q, p)
    /\ UNCHANGED <<users, ways>>

\* UPDATE and DELETE of a proof's row, WHERE it is this account's.
ChangeProof(q, p) ==
    /\ tx[q].op \in {"Touch", "RemoveIdentity"} /\ tx[q].at = "rows"
    /\ p \in tx[q].on \ tx[q].wrote
    /\ \/ p \notin HeldBy(tx[q].id) /\ Ends(q, "missing")
       \/ /\ p \in HeldBy(tx[q].id)
          /\ \A o \in Calls \ {q} : ~Locking(o, p)
          /\ Writes(q, p)
    /\ UNCHANGED <<users, ways>>

\* What a transaction wrote becomes visible, all at once.
Visible(r) ==
    /\ users' = IF r.op = "Create" THEN [users EXCEPT ![r.id] = r.new] ELSE users
    /\ ways' = [p \in Proofs |->
          IF p \notin r.wrote THEN ways[p]
          ELSE IF r.op = "RemoveIdentity" THEN Free
          ELSE [by |-> r.id, mark |-> r.mark]]

\* The answer of a commit can be lost.
Commit(q) ==
    /\ tx[q].op \in Writers /\ tx[q].at = "rows" /\ tx[q].on \subseteq tx[q].wrote
    /\ Visible(tx[q])
    /\ Ends(q, "done") \/ Ends(q, "failed")

\* A statement, a connection or the commit fails, or two transactions wait for
\* each other and one is made to give up.
Fail(q) ==
    /\ tx[q].at # "idle"
    /\ Put(q, NoTx)
    /\ Reply(tx[q].op, IF tx[q].op = "ByProof" THEN Absent ELSE tx[q].id, tx[q].on, "failed")
    /\ UNCHANGED <<users, ways>>

\* load: the account's row decides what the caller is told; its credentials
\* and its identities are read after it.
Finds(q, a) == Stored(a) /\ IF tx[q].op = "ByID" THEN a = tx[q].id ELSE tx[q].on \subseteq HeldBy(a)

LoadAccount(q) ==
    /\ tx[q].op \in Loads /\ tx[q].at = "account"
    /\ \/ \E a \in Ids :
            /\ Finds(q, a)
            /\ Put(q, [tx[q] EXCEPT !.at = "keys", !.id = a])
            /\ Reply(tx[q].op, a, tx[q].on, "found")
       \/ (\A a \in Ids : ~Finds(q, a)) /\ Ends(q, "missing")
    /\ UNCHANGED <<users, ways>>

LoadKeys(q) ==
    /\ tx[q].at = "keys"
    /\ Put(q, [tx[q] EXCEPT !.at = "subjects", !.wrote = HeldBy(tx[q].id) \cap Keys])
    /\ UNCHANGED <<users, ways, reply>>

LoadSubjects(q) ==
    /\ tx[q].at = "subjects"
    /\ Put(q, [tx[q] EXCEPT !.at = "loaded", !.wrote = @ \cup (HeldBy(tx[q].id) \cap Subjects)])
    /\ UNCHANGED <<users, ways, reply>>

GiveBack(q) ==
    /\ tx[q].at = "loaded"
    /\ Put(q, NoTx)
    /\ UNCHANGED <<users, ways, reply>>

-----------------------------------------------------------------------------
\* The methods of one statement.  A lost answer leaves them done.
Told(call, a, says) == Reply(call, a, {}, says) \/ Reply(call, a, {}, "failed")

\* ON CONFLICT DO NOTHING waits for the account in flight.
EnsureGuest(a, n) ==
    /\ \A o \in Calls : ~Inserting(o, a)
    /\ users' = IF Stored(a) THEN users ELSE [users EXCEPT ![a] = Plain(n)]
    /\ Told("EnsureGuest", a, "done")
    /\ UNCHANGED <<ways, tx>>

SetAppearance(a, v) ==
    /\ users' = IF Stored(a) THEN [users EXCEPT ![a].look = v] ELSE users
    /\ Told("SetAppearance", a, IF Stored(a) THEN "done" ELSE "missing")
    /\ UNCHANGED <<ways, tx>>

SetImage(a, v) ==
    /\ users' = IF Stored(a) THEN [users EXCEPT ![a].image = v] ELSE users
    /\ Told("SetImage", a, IF Stored(a) THEN "done" ELSE "missing")
    /\ UNCHANGED <<ways, tx>>

\* ON DELETE CASCADE: the account's proofs go with it.  It waits for every
\* transaction that wrote one of them or is adding one.
Delete(a) ==
    /\ \A o \in Calls :
        /\ tx[o].op = "AddIdentity" /\ tx[o].id = a => tx[o].wrote = {}
        /\ \A p \in HeldBy(a) : ~Locking(o, p)
    /\ users' = [users EXCEPT ![a] = Absent]
    /\ ways' = [p \in Proofs |-> IF p \in HeldBy(a) THEN Free ELSE ways[p]]
    /\ Told("Delete", a, IF Stored(a) THEN "done" ELSE "missing")
    /\ UNCHANGED tx

PostgresNext ==
    \/ \E q \in Calls :
        \/ Begin(q) \/ InsertAccount(q) \/ RequireAccount(q) \/ Commit(q) \/ Fail(q)
        \/ \E p \in Proofs : InsertProof(q, p) \/ ChangeProof(q, p)
        \/ LoadAccount(q) \/ LoadKeys(q) \/ LoadSubjects(q) \/ GiveBack(q)
    \/ \E a \in Ids :
        \/ \E n \in Names : EnsureGuest(a, n)
        \/ \E v \in Looks : SetAppearance(a, v)
        \/ \E v \in Images : SetImage(a, v)
        \/ Delete(a)

PostgresSpec == PostgresInit /\ [][PostgresNext]_postgresVars

Contract == INSTANCE UsersContract WITH row <- users, proof <- ways, said <- reply

\* Whatever runs at once, fails or is cut off from its answer, the tables give
\* the answers the contract allows, each at one moment of the call.
UsersInPostgres == Contract!Spec
=============================================================================
